----------------------------- MODULE NvdsProofs -----------------------------
(***************************************************************************)
(* Proofs about Nvds, for every set of keys and values, every number of    *)
(* pages of at least two and every size of a page.                         *)
(***************************************************************************)
EXTENDS NvdsLemmas

-----------------------------------------------------------------------------
(* The page lists                                                          *)

Operation ==
    {NoOp} \cup [fn : {"del"}, k : Keys] \cup [fn : {"clean"}]
    \cup [fn : {"put"}, k : Keys, v : Vals, frag : Nat, len : Nat, rem : Nat]
PageStates == {"blank", "active", "full", "candidate", "error"}
EntryStates == {"free", "used", "updated"}
Steps == {"off", "idle", "delete", "room", "request", "erase", "page",
          "candidate", "copy", "copied", "again", "header", "data",
          "commit", "undo", "clean"}

Steady == inst.supply = "steady"
\* The RAM knows the pages.
Running == pc \notin {"off", "clean"}
\* A page is being emptied into another.
Moving == pc \in {"candidate", "copy", "copied"}
\* The pages whose fill level the RAM knows.
Kept == ToSet(used) \cup (IF Moving THEN {req.vic} ELSE {})

Types ==
    /\ inst \in Instances
    /\ pst \in [Pages -> PageStates]
    /\ seq \in [Pages -> Nat]
    /\ slot \in [Pages -> [Slots -> Cell]]
    /\ est \in [Pages -> [Slots -> EntryStates]]
    /\ used \in Seq(Pages) /\ free \in Seq(Pages)
    /\ nxt \in [Pages -> Nat] /\ cnt \in [Pages -> Int]
    /\ pc \in Steps
    /\ op \in Operation
    /\ DOMAIN marks = {"at", "to"} /\ marks.to \in {"used", "updated"}
    /\ req \in [page : 0..NumPages, vic : 0..NumPages, from : Nat]
    /\ ret \in {"ok", "no_space", "cut"}
    /\ snap \in [Keys -> Vals \cup {Absent, Mixed}]
    /\ cut \in {"none", "call", "clean"}

\* Which call is at which step.
CallInv ==
    /\ pc = "idle" => op = NoOp
    /\ pc = "off" => op = NoOp \/ (op.fn = "clean" /\ Written = {})
    /\ pc = "clean" => op.fn = "clean"
    /\ pc = "delete" => op.fn \in {"put", "del"}
    /\ pc \in {"room", "request", "header", "data", "commit", "undo"} => op.fn = "put"
    /\ op.fn = "del" => pc = "delete"

\* What a put has still to write.
PutInv ==
    /\ op.fn = "put" =>
         /\ <<op.k, op.v>> \in inst.puts
         /\ op.v \in SmallVals => op.rem = 0
         /\ op.v \notin SmallVals => op.rem <= Entries[op.v]
         /\ op.v \in MiddleVals => op.rem = Entries[op.v]
    /\ pc = "header" => Room(Last(used)) >= NeedSlots
    /\ pc = "data" => /\ op.v \notin SmallVals /\ op.len \in 1..op.rem
                      /\ op.len <= Room(Last(used))
    /\ pc = "commit" /\ Fragment => op.len <= op.rem

\* The used pages are in the order of their numbers, the others are free.
ListInv ==
    /\ \A p, q \in Written : seq[p] = seq[q] => p = q
    /\ Running =>
         /\ \A i, j \in DOMAIN used : i < j => seq[used[i]] < seq[used[j]]
         /\ \A i, j \in DOMAIN free : free[i] = free[j] => i = j
         /\ ToSet(free) = Pages \ ToSet(used)
         /\ Written = Kept
         /\ used = <<>> => pc \in {"erase", "page"} /\ op.fn # "put"

\* The page a request takes, and the page it empties.
ReqInv ==
    /\ pc \in {"erase", "page"} =>
         /\ free # <<>> /\ req.page = Head(free)
         /\ req.vic = 0 <=> Len(free) > 1
         /\ req.vic # 0 => req.vic \in ToSet(used) /\ op.fn = "put"
         /\ pc = "page" => pst[req.page] = "blank"
         /\ op.fn # "put" => used = <<>>
    /\ Moving => free = <<req.vic>> /\ req.page = Last(used)
    /\ pc = "clean" => /\ req.page \in Pages
                       /\ \A p \in 1..(req.page - 1) : pst[p] = "blank"

\* With a steady supply there is always a page to empty another into.
SteadyInv ==
    Steady =>
      /\ \A p \in Pages : pst[p] # "error"
      /\ Running => free # <<>>
      /\ pc = "off" => Written # Pages

PagesInv == Types /\ CallInv /\ PutInv /\ ListInv /\ ReqInv /\ SteadyInv

LEMMA InstKept ==
    ASSUME [Next]_vars
    PROVE  inst' = inst /\ N' = N /\ Slots' = Slots
  <1>1. inst' = inst
    BY DEF Next, vars, flash, ram, PutStart, DelStart, CleanStart, Step, MarkState,
           HasRoom, MarkFull, Request, ErasePage, WritePage, MarkCandidate, CopyEntry,
           CopyState, EraseVictim, PageReady, WriteHeader, WriteData, CleanSector, Boot,
           Reboot, PowerCut
  <1> QED BY <1>1 DEF N, Slots

\* The states the program starts in.
LEMMA PagesInit == Init => PagesInv
  <1> SUFFICES ASSUME Init PROVE PagesInv
    OBVIOUS
  <1>1. N \in Nat \ {0} /\ Slots = 1..N /\ inst.supply \in {"steady", "failing"}
    BY SlotsAre DEF Init
  <1>2. Types
    BY <1>1, NvdsAssumption DEF Init, Types, PageStates, EntryStates, Steps, Operation, NoOp,
         NoMarks, NoReq, NoSnap, Cell, Blank, Vals
  <1>3. Written = {}
    BY DEF Init, Written
  <1>4. CallInv /\ PutInv
    BY <1>3 DEF Init, CallInv, PutInv, NoOp
  <1>5. Pages # {}
    BY PagesFinite DEF Pages
  <1>6. ListInv /\ ReqInv /\ SteadyInv
    BY <1>3, <1>5 DEF Init, ListInv, ReqInv, SteadyInv, Running, Moving
  <1> QED BY <1>2, <1>4, <1>6 DEF PagesInv

\* What the proofs keep needing of the lists.
LEMMA ListFacts ==
    ASSUME PagesInv
    PROVE  /\ N \in Nat \ {0} /\ Slots = 1..N
           /\ \A p, q \in Listed : pst[p] \in {"active", "full"} /\ pst[q] \in {"active", "full"}
                                   /\ seq[p] = seq[q] => p = q
           /\ ToSet(used) \in SUBSET Pages /\ ToSet(free) \in SUBSET Pages
           /\ used # <<>> => Last(used) \in ToSet(used) /\ Len(used) \in DOMAIN used
           /\ free # <<>> => Head(free) \in ToSet(free) /\ 1 \in DOMAIN free
           /\ Running /\ pc \notin {"erase", "page"} => used # <<>>
           /\ Moving => /\ req.vic \in Pages \ ToSet(used)
                        /\ req.page \in ToSet(used) /\ used # <<>>
                        /\ req.vic \in Written /\ req.page \in Written
           /\ pc \in {"erase", "page"} => req.page \in Pages \ ToSet(used)
  <1> USE DEF PagesInv, Types
  <1>1. N \in Nat \ {0} /\ Slots = 1..N
    BY SlotsAre
  <1>2. ToSet(used) \in SUBSET Pages /\ ToSet(free) \in SUBSET Pages
    BY DEF ToSet
  <1>3. used # <<>> => Last(used) \in ToSet(used) /\ Len(used) \in DOMAIN used
    <2> HAVE used # <<>>
    <2>1. Len(used) \in 1..Len(used)
      BY EmptySeq
    <2> QED BY <2>1 DEF Last, ToSet
  <1>4. free # <<>> => Head(free) \in ToSet(free) /\ 1 \in DOMAIN free
    <2> HAVE free # <<>>
    <2>1. 1 \in 1..Len(free)
      BY EmptySeq
    <2> QED BY <2>1 DEF ToSet
  <1>5. Running /\ pc \notin {"erase", "page"} => used # <<>>
    BY DEF ListInv
  <1>6. \A p, q \in Listed : pst[p] \in {"active", "full"} /\ pst[q] \in {"active", "full"}
                             /\ seq[p] = seq[q] => p = q
    BY ListedIs DEF ListInv, Written
  <1>7. ASSUME Moving
        PROVE  /\ req.vic \in Pages \ ToSet(used)
               /\ req.page \in ToSet(used) /\ used # <<>>
               /\ req.vic \in Written /\ req.page \in Written
    <2>1. Running /\ used # <<>>
      BY <1>5, <1>7 DEF Running, Moving
    <2>2. free = <<req.vic>> /\ req.page = Last(used)
      BY <1>7 DEF ReqInv
    <2>3. req.vic \in ToSet(free)
      BY <2>2, <1>4
    <2> QED BY <2>1, <2>2, <2>3, <1>3, <1>2, <1>7 DEF ListInv, Kept
  <1>8. ASSUME pc \in {"erase", "page"} PROVE req.page \in Pages \ ToSet(used)
    <2>1. Running /\ free # <<>> /\ req.page = Head(free)
      BY <1>8 DEF Running, ReqInv
    <2> QED BY <2>1, <1>2, <1>4 DEF ListInv
  <1> QED BY <1>1, <1>2, <1>3, <1>4, <1>5, <1>6, <1>7, <1>8

\* What a put writes next is a header that fits the page.
LEMMA NextHeaderIs ==
    ASSUME PagesInv, pc = "header"
    PROVE  /\ NextHeader \in Cell /\ NextHeader.c = "head"
           /\ op.v \in SmallVals \cup BulkVals /\ ~Fragment => Span(NextHeader) = 0
           /\ op.v \notin SmallVals /\ (op.v \in MiddleVals \/ Fragment) =>
                 /\ Span(NextHeader) \in 1..op.rem
                 /\ Span(NextHeader) <= Room(Last(used)) - 1
  <1> USE DEF PagesInv, Types
  <1>1. op \in [fn : {"put"}, k : Keys, v : Vals, frag : Nat, len : Nat, rem : Nat]
    BY DEF CallInv, Operation, NoOp
  <1>2. /\ op.k \in Keys /\ op.v \in Vals /\ op.frag \in Nat /\ op.rem \in Nat
        /\ op.v \in SmallVals => op.rem = 0
        /\ op.v \notin SmallVals => op.rem <= Entries[op.v]
        /\ op.v \in MiddleVals => op.rem = Entries[op.v]
        /\ Room(Last(used)) >= NeedSlots
    BY <1>1 DEF PutInv
  <1>3. Room(Last(used)) \in Int
    <2>1. used # <<>>
      BY ListFacts DEF Running
    <2>2. Last(used) \in Pages
      BY <2>1, ListFacts
    <2>3. nxt[Last(used)] \in Nat /\ N \in Nat
      BY <2>2, ListFacts
    <2> QED BY <2>3 DEF Room
  <1>4. /\ SmallVals \cap MiddleVals = {} /\ BulkVals \cap (SmallVals \cup MiddleVals) = {}
        /\ \A v \in MiddleVals \cup BulkVals : Entries[v] \in Nat \ {0}
    BY NvdsAssumption
  <1>5. PICK r : r = Room(Last(used))
    OBVIOUS
  <1>6. CASE op.v \in SmallVals
    <2>1. NextHeader = Header(op.k, "small", 0, op.v, 0)
      BY <1>6 DEF NextHeader
    <2>2. ~Fragment /\ op.v \notin MiddleVals
      BY <1>4, <1>6 DEF Fragment
    <2> QED BY <2>1, <2>2, <1>2, <1>6 DEF Header, Cell, AnyType, Span
  <1>7. CASE op.v \in MiddleVals
    <2>1. op.v \notin SmallVals /\ op.v \notin BulkVals
      BY <1>4, <1>7
    <2>2. NextHeader = Header(op.k, "middle", Entries[op.v], op.v, 0)
      BY <1>7, <2>1 DEF NextHeader
    <2>3. NeedSlots = 1 + Entries[op.v] /\ Entries[op.v] \in Nat \ {0}
      BY <1>4, <1>7 DEF NeedSlots
    <2>4. NextHeader \in Cell /\ NextHeader.c = "head" /\ Span(NextHeader) = Entries[op.v]
      BY <2>2, <2>3, <1>2 DEF Header, Cell, AnyType, Span
    <2> QED BY <2>1, <2>3, <2>4, <1>2, <1>3, <1>7
  <1>8. CASE op.v \in BulkVals /\ Fragment
    <2>1. op.v \notin SmallVals /\ op.v \notin MiddleVals
      BY <1>4, <1>8
    <2>2. NextHeader = Header(op.k, "bulk", Min({r - 1, op.rem}), op.v, op.frag)
      BY <1>5, <1>8, <2>1 DEF NextHeader
    <2>3. r >= 2 /\ op.rem >= 1 /\ r \in Int
      <3>1. NeedSlots = 2
        BY <2>1, <1>8 DEF NeedSlots
      <3> QED BY <3>1, <1>2, <1>3, <1>5, <1>8 DEF Fragment
    <2>4. PICK m : m = Min({r - 1, op.rem})
      OBVIOUS
    <2>5. m \in 1..op.rem /\ m <= r - 1
      <3>1. r - 1 \in Int /\ op.rem \in Int
        BY <2>3, <1>2
      <3>2. m = IF r - 1 <= op.rem THEN r - 1 ELSE op.rem
        BY <3>1, <2>4, MinOfTwo
      <3> QED BY <3>2, <2>3, <1>2
    <2>6. NextHeader = Header(op.k, "bulk", m, op.v, op.frag)
      BY <2>2, <2>4
    <2>7. NextHeader \in Cell /\ NextHeader.c = "head" /\ Span(NextHeader) = m
      BY <2>5, <2>6, <1>2 DEF Header, Cell, AnyType, Span
    <2> QED BY <2>1, <2>5, <2>7, <1>5, <1>8
  <1>9. CASE op.v \in BulkVals /\ ~Fragment
    <2>1. op.v \notin SmallVals /\ op.v \notin MiddleVals
      BY <1>4, <1>9
    <2>2. NextHeader = Header(op.k, "bulkinfo", op.frag, op.v, 0)
      BY <1>9, <2>1 DEF NextHeader
    <2>3. NextHeader \in Cell /\ NextHeader.c = "head" /\ Span(NextHeader) = 0
      BY <2>2, <1>2 DEF Header, Cell, AnyType, Span
    <2> QED BY <2>1, <2>3, <1>9
  <1> QED BY <1>2, <1>6, <1>7, <1>8, <1>9 DEF Vals

\* A call that ends leaves no operation behind.
LEMMA ReturnTypes ==
    ASSUME NEW r \in {"ok", "no_space", "cut"}, Return(r)
    PROVE  /\ pc' = "idle" /\ op' \in Operation /\ op' = NoOp
           /\ DOMAIN marks' = {"at", "to"} /\ marks'.to \in {"used", "updated"}
           /\ req' \in [page : 0..NumPages, vic : 0..NumPages, from : Nat]
           /\ ret' \in {"ok", "no_space", "cut"}
           /\ snap' \in [Keys -> Vals \cup {Absent, Mixed}]
  <1>1. NumPages \in Nat
    BY NvdsAssumption
  <1> QED BY <1>1 DEF Return, Operation, NoMarks, NoReq, NoSnap

\* Want of space leaves the types alone.
LEMMA NoSpaceTypes ==
    ASSUME Types, NoSpace
    PROVE  /\ pc' \in {"undo", "idle"} /\ op' \in Operation
           /\ pc' = "undo" => op' = op
           /\ pc' = "idle" => op' = NoOp
           /\ cnt' \in [Pages -> Int]
           /\ DOMAIN marks' = {"at", "to"} /\ marks'.to \in {"used", "updated"}
           /\ req' \in [page : 0..NumPages, vic : 0..NumPages, from : Nat]
           /\ ret' \in {"ok", "no_space", "cut"}
           /\ snap' \in [Keys -> Vals \cup {Absent, Mixed}]
  <1>1. CASE Return("no_space") /\ UNCHANGED cnt
    <2>1. cnt' \in [Pages -> Int]
      BY <1>1 DEF Types
    <2> QED BY <1>1, <2>1, ReturnTypes
  <1>2. CASE /\ marks' = [at |-> Fragments(op.k), to |-> "updated"]
             /\ cnt' = Discounted(Fragments(op.k))
             /\ pc' = "undo"
             /\ req' = NoReq
             /\ UNCHANGED <<op, ret, snap>>
    <2>1. NumPages \in Nat
      BY NvdsAssumption
    <2>2. IsFiniteSet(ToSet(Fragments(op.k)))
      BY FragmentsFinite DEF Types
    <2>3. cnt' \in [Pages -> Int]
      BY <1>2, <2>2, DiscountedIs DEF Types
    <2>4. op' \in Operation /\ ret' \in {"ok", "no_space", "cut"}
          /\ snap' \in [Keys -> Vals \cup {Absent, Mixed}]
      BY <1>2 DEF Types
    <2> QED BY <1>2, <2>1, <2>3, <2>4 DEF NoReq
  <1> QED BY <1>1, <1>2 DEF NoSpace

\* The steps that begin a call.
LEMMA StartTypes ==
    ASSUME PagesInv, NEW o \in Operation, Starts(o)
    PROVE  /\ pc = "idle" /\ op' = o
           /\ snap' \in [Keys -> Vals \cup {Absent, Mixed}]
           /\ \A k \in Keys : Discounted(Deletion(k)) \in [Pages -> Int]
  <1>1. /\ used \in Seq(Pages) /\ inst \in Instances /\ seq \in [Pages -> Nat]
        /\ slot \in [Pages -> [Slots -> Cell]] /\ cnt \in [Pages -> Int]
    BY DEF PagesInv, Types
  <1>2. \A p, q \in Listed : pst[p] \in {"active", "full"} /\ pst[q] \in {"active", "full"}
                             /\ seq[p] = seq[q] => p = q
    BY ListFacts
  <1>3. \A k \in Keys : DataGet(k) \in Vals \cup {Absent, Mixed}
    BY <1>1, <1>2, DataGetIs
  <1>4. snap' = [k \in Keys |-> DataGet(k)] /\ pc = "idle" /\ op' = o
    BY DEF Starts
  <1>5. ASSUME NEW k \in Keys PROVE Discounted(Deletion(k)) \in [Pages -> Int]
    <2>1. IsFiniteSet(ToSet(Deletion(k)))
      BY <1>1, <1>2, DeletionFinite
    <2> QED BY <1>1, <2>1, DiscountedIs
  <1> QED BY <1>3, <1>4, <1>5

\* An erased page.
LEMMA ErasedTypes ==
    ASSUME Types, NEW p, NEW st \in PageStates, Erased(p, st)
    PROVE  /\ pst' \in [Pages -> PageStates] /\ seq' \in [Pages -> Nat]
           /\ slot' \in [Pages -> [Slots -> Cell]]
           /\ est' \in [Pages -> [Slots -> EntryStates]]
  <1>1. [i \in Slots |-> Blank] \in [Slots -> Cell]
    BY SpanIs
  <1>2. [i \in Slots |-> "free"] \in [Slots -> EntryStates]
    BY DEF EntryStates
  <1>3. pst' \in [Pages -> PageStates] /\ seq' \in [Pages -> Nat]
    BY DEF Types, Erased
  <1>4. slot' \in [Pages -> [Slots -> Cell]]
    BY <1>1 DEF Types, Erased
  <1>5. est' \in [Pages -> [Slots -> EntryStates]]
    BY <1>2 DEF Types, Erased
  <1> QED BY <1>3, <1>4, <1>5

\* An entry that is written.
LEMMA EntryWriteTypes ==
    ASSUME Types, NEW p \in Pages, NEW c \in Cell, EntryWrite(p, c)
    PROVE  /\ slot' \in [Pages -> [Slots -> Cell]]
           /\ nxt' \in [Pages -> Nat] /\ cnt' \in [Pages -> Int]
  <1>1. nxt' \in [Pages -> Nat] /\ cnt' \in [Pages -> Int]
    BY DEF Types, EntryWrite
  <1>2. slot \in [Pages -> [Slots -> Cell]]
    BY DEF Types
  <1>3. slot' = [slot EXCEPT ![p] = [slot[p] EXCEPT ![nxt[p]] = Program(slot[p][nxt[p]], c)]]
    BY DEF EntryWrite
  <1>4. [slot[p] EXCEPT ![nxt[p]] = Program(slot[p][nxt[p]], c)] \in [Slots -> Cell]
    <2>1. slot[p] \in [Slots -> Cell]
      BY <1>2
    <2>2. CASE nxt[p] \in Slots
      <3>1. slot[p][nxt[p]] \in Cell
        BY <2>1, <2>2
      <3>2. Program(slot[p][nxt[p]], c) \in Cell
        BY <3>1, SpanIs
      <3> QED BY <2>1, <3>2
    <2>3. CASE nxt[p] \notin Slots
      BY <2>1, <2>3
    <2> QED BY <2>2, <2>3
  <1>5. slot' \in [Pages -> [Slots -> Cell]]
    BY <1>2, <1>3, <1>4
  <1> QED BY <1>1, <1>5

\* The entries still to be copied, and the first of them.
LEMMA ToCopyIs ==
    ASSUME Types
    PROVE  /\ ToCopy \in SUBSET Slots /\ ToCopy \in SUBSET Nat
           /\ ToCopy # {} => /\ Min(ToCopy) \in ToCopy /\ Min(ToCopy) \in Nat
                             /\ \A i \in ToCopy : Min(ToCopy) <= i
  <1>1. Slots = 1..N /\ N \in Nat
    BY SlotsAre DEF Types
  <1>2. ToCopy \in SUBSET Slots /\ ToCopy \in SUBSET Nat
    BY <1>1 DEF ToCopy
  <1> QED BY <1>2, MinIs

LEMMA TypesStep == PagesInv /\ [Next]_vars => Types'
  <1> SUFFICES ASSUME PagesInv, [Next]_vars PROVE Types'
    OBVIOUS
  <1>t. Types
    BY DEF PagesInv
  <1>a. seq \in [Pages -> Nat] /\ nxt \in [Pages -> Nat] /\ cnt \in [Pages -> Int]
    BY <1>t DEF Types
  <1>b. req \in [page : 0..NumPages, vic : 0..NumPages, from : Nat]
    BY <1>t DEF Types
  <1>s. N' = N /\ Slots' = Slots /\ inst' = inst /\ NumPages \in Nat
    BY InstKept, NvdsAssumption
  <1>1. ASSUME NEW k \in Keys, NEW v \in Vals, PutStart(k, v) PROVE Types'
    <2> DEFINE o == [fn |-> "put", k |-> k, v |-> v, frag |-> 0, len |-> 0,
                     rem |-> IF v \in SmallVals THEN 0 ELSE Entries[v]]
    <2>1. o \in Operation /\ Starts(o)
      <3>1. v \notin SmallVals => Entries[v] \in Nat
        BY NvdsAssumption DEF Vals
      <3>2. Starts(o)
        BY <1>1 DEF PutStart
      <3> QED BY <3>1, <3>2 DEF Operation
    <2> HIDE DEF o
    <2>2. /\ op' = o /\ snap' \in [Keys -> Vals \cup {Absent, Mixed}]
          /\ Discounted(Deletion(k)) \in [Pages -> Int]
      BY <2>1, StartTypes
    <2>3. /\ cnt' = Discounted(Deletion(k))
          /\ marks' = [at |-> Deletion(k), to |-> "updated"]
          /\ pc' \in {"room", "delete"}
          /\ UNCHANGED <<flash, used, free, nxt, req, ret, cut, inst>>
      BY <1>1, Zenon DEF PutStart
    <2> QED BY <1>t, <1>s, <2>1, <2>2, <2>3 DEF Types, flash, Steps
  <1>2. ASSUME NEW k \in Keys, DelStart(k) PROVE Types'
    <2> DEFINE o == [fn |-> "del", k |-> k]
    <2>1. o \in Operation /\ Starts(o)
      BY <1>2 DEF DelStart, Operation
    <2> HIDE DEF o
    <2>2. /\ op' = o /\ snap' \in [Keys -> Vals \cup {Absent, Mixed}]
          /\ Discounted(Deletion(k)) \in [Pages -> Int]
      BY <2>1, StartTypes
    <2>3. /\ cnt' = Discounted(Deletion(k))
          /\ marks' = [at |-> Deletion(k), to |-> "updated"]
          /\ pc' = "delete"
          /\ UNCHANGED <<flash, used, free, nxt, req, ret, cut, inst>>
      BY <1>2, Zenon DEF DelStart
    <2> QED BY <1>t, <1>s, <2>1, <2>2, <2>3 DEF Types, flash, Steps
  <1>3. ASSUME CleanStart PROVE Types'
    <2> DEFINE o == [fn |-> "clean"]
    <2>1. o \in Operation /\ Starts(o)
      BY <1>3 DEF CleanStart, Operation
    <2> HIDE DEF o
    <2>2. op' = o /\ snap' \in [Keys -> Vals \cup {Absent, Mixed}]
      BY <2>1, StartTypes
    <2>3. /\ pc' = "clean"
          /\ req' = [NoReq EXCEPT !.page = 1]
          /\ UNCHANGED <<flash, ram, marks, ret, cut, inst>>
      BY <1>3, Zenon DEF CleanStart
    <2>4. req' \in [page : 0..NumPages, vic : 0..NumPages, from : Nat]
      BY <2>3, PagesFinite DEF NoReq
    <2> QED BY <1>t, <1>s, <2>1, <2>2, <2>3, <2>4 DEF Types, flash, ram, Steps
  <1>4. ASSUME MarkState PROVE Types'
    <2>1. est' \in [Pages -> [Slots -> EntryStates]]
      <3>1. PICK x : x = Head(marks.at)
        OBVIOUS
      <3>2. est' = [est EXCEPT ![x[1]] = [est[x[1]] EXCEPT ![x[2]] = marks.to]]
        BY <1>4, <3>1 DEF MarkState
      <3>3. marks.to \in EntryStates /\ est \in [Pages -> [Slots -> EntryStates]]
        BY <1>t DEF Types, EntryStates
      <3>4. x[1] \in Pages => [est[x[1]] EXCEPT ![x[2]] = marks.to] \in [Slots -> EntryStates]
        BY <3>3
      <3> QED BY <3>2, <3>3, <3>4
    <2>2. UNCHANGED <<pst, seq, slot, ram, cut, inst>>
      BY <1>4 DEF MarkState
    <2>3. /\ pc' \in Steps /\ op' \in Operation
          /\ DOMAIN marks' = {"at", "to"} /\ marks'.to \in {"used", "updated"}
          /\ req' \in [page : 0..NumPages, vic : 0..NumPages, from : Nat]
          /\ ret' \in {"ok", "no_space", "cut"}
          /\ snap' \in [Keys -> Vals \cup {Absent, Mixed}]
      <3>1. CASE /\ marks' = [marks EXCEPT !.at = Tail(@)]
                 /\ UNCHANGED <<pc, op, req, ret, snap>>
        <4>1. DOMAIN marks' = {"at", "to"} /\ marks'.to = marks.to
          BY <1>t, <3>1 DEF Types
        <4> QED BY <1>t, <3>1, <4>1 DEF Types
      <3>2. CASE /\ pc = "delete" /\ op.fn = "put"
                 /\ pc' = "room" /\ marks' = NoMarks
                 /\ UNCHANGED <<op, req, ret, snap>>
        BY <1>t, <3>2 DEF Types, NoMarks, Steps
      <3>3. CASE /\ pc = "commit" /\ Fragment
                 /\ op' = [op EXCEPT !.rem = @ - op.len, !.frag = @ + 1]
                 /\ pc' = "room" /\ marks' = NoMarks
                 /\ UNCHANGED <<req, ret, snap>>
        <4>1. op \in [fn : {"put"}, k : Keys, v : Vals, frag : Nat, len : Nat, rem : Nat]
          BY <3>3 DEF PagesInv, Types, CallInv, Operation, NoOp
        <4>2. op.len <= op.rem
          BY <3>3 DEF PagesInv, PutInv
        <4>3. op.rem - op.len \in Nat /\ op.frag + 1 \in Nat
          BY <4>1, <4>2
        <4>4. op' \in [fn : {"put"}, k : Keys, v : Vals, frag : Nat, len : Nat, rem : Nat]
          BY <4>1, <4>3, <3>3
        <4>5. op' \in Operation
          BY <4>4 DEF Operation
        <4> QED BY <1>t, <3>3, <4>5 DEF Types, NoMarks, Steps
      <3>4. CASE Return("ok") \/ Return("no_space")
        BY <3>4, ReturnTypes DEF Steps
      <3> QED BY <1>4, <3>1, <3>2, <3>3, <3>4, Zenon DEF MarkState
    <2> QED BY <1>t, <1>s, <2>1, <2>2, <2>3 DEF Types, ram
  <1>5. ASSUME HasRoom \/ MarkFull PROVE Types'
    <2>1. pst' \in [Pages -> PageStates]
      BY <1>t, <1>5 DEF HasRoom, MarkFull, Types, PageStates, flash
    <2>2. /\ pc' \in Steps
          /\ UNCHANGED <<seq, slot, est, ram, op, marks, req, ret, snap, cut, inst>>
      BY <1>5 DEF HasRoom, MarkFull, flash, Steps
    <2> QED BY <1>t, <1>s, <2>1, <2>2 DEF Types, ram
  <1>6. ASSUME Request PROVE Types'
    <2>1. UNCHANGED <<flash, used, free, nxt, cut, inst>>
      BY <1>6 DEF Request
    <2>2. CASE NoSpace
      <3>1. pc' \in Steps
        BY <2>2, <1>t, NoSpaceTypes DEF Steps
      <3> QED BY <1>t, <1>s, <2>1, <2>2, <3>1, NoSpaceTypes DEF Types, flash
    <2>3. CASE /\ ~(free = <<>> \/ (Len(free) = 1 /\ Victims = {}))
               /\ req' = [page |-> Head(free), from |-> 1,
                          vic |-> IF Len(free) = 1 THEN Victim ELSE 0]
               /\ pc' = IF pst[Head(free)] = "blank" THEN "page" ELSE "erase"
               /\ UNCHANGED <<op, marks, cnt, ret, snap>>
      <3>1. Head(free) \in Pages
        BY <2>3, ListFacts
      <3>2. Len(free) = 1 => Victim \in Pages
        BY <2>3, <1>t, VictimIs DEF Types
      <3>3. req' \in [page : 0..NumPages, vic : 0..NumPages, from : Nat]
        BY <2>3, <3>1, <3>2, <1>s DEF Pages
      <3> QED BY <1>t, <1>s, <2>1, <2>3, <3>3 DEF Types, flash, Steps
    <2> QED BY <1>6, <2>2, <2>3, Zenon DEF Request
  <1>7. ASSUME ErasePage PROVE Types'
    <2>1. Erased(req.page, "blank") /\ "blank" \in PageStates
      BY <1>7 DEF ErasePage, PageStates
    <2>2. pc' \in Steps /\ UNCHANGED <<ram, op, marks, req, ret, snap, cut, inst>>
      BY <1>7 DEF ErasePage, Steps
    <2>3. /\ pst' \in [Pages -> PageStates] /\ seq' \in [Pages -> Nat]
          /\ slot' \in [Pages -> [Slots -> Cell]]
          /\ est' \in [Pages -> [Slots -> EntryStates]]
      BY <2>1, <1>t, ErasedTypes
    <2> QED BY <1>t, <1>s, <2>2, <2>3 DEF Types, ram
  <1>8. ASSUME WritePage PROVE Types'
    <2>1. pc = "page" /\ UNCHANGED <<slot, est, op, marks, req, ret, snap, cut, inst>>
      BY <1>8 DEF WritePage
    <2>2. used # <<>> => seq[Last(used)] + 1 \in Nat
      BY <1>a, ListFacts
    <2>3. /\ pst' \in [Pages -> PageStates]
          /\ nxt' \in [Pages -> Nat] /\ cnt' \in [Pages -> Int]
      <3>1. pst \in [Pages -> PageStates] /\ "active" \in PageStates
        BY <1>t DEF Types, PageStates
      <3>2. pst' \in [Pages -> PageStates]
        BY <1>8, <3>1 DEF WritePage
      <3>3. nxt' \in [Pages -> Nat]
        <4>1. nxt' = [nxt EXCEPT ![req.page] = 1] /\ 1 \in Nat
          BY <1>8 DEF WritePage
        <4> QED BY <4>1, <1>a
      <3>4. cnt' \in [Pages -> Int]
        <4>1. cnt' = [cnt EXCEPT ![req.page] = 0] /\ 0 \in Int
          BY <1>8 DEF WritePage
        <4> QED BY <4>1, <1>a
      <3> QED BY <3>2, <3>3, <3>4
    <2>4. seq' \in [Pages -> Nat]
      BY <1>8, <1>a, <2>2 DEF WritePage
    <2>5. req.page \in Pages
      BY <2>1, ListFacts
    <2>6. used' \in Seq(Pages) /\ free' \in Seq(Pages) /\ pc' \in Steps
      <3>1. CASE /\ used' = Append(used, req.page) /\ free' = Tail(free) /\ pc' = "again"
        <4>1. free # <<>>
          BY <2>1 DEF PagesInv, ReqInv
        <4> QED BY <1>t, <2>5, <3>1, <4>1 DEF Types, Steps
      <3>2. CASE /\ req.vic # 0
                 /\ used' = Append(Extract(used, req.vic), req.page)
                 /\ free' = <<req.vic>>
                 /\ pc' = "candidate"
        <4>1. req.vic \in ToSet(used)
          BY <2>1, <3>2 DEF PagesInv, ReqInv
        <4>2. Extract(used, req.vic) \in Seq(Pages)
          <5>1. used \in Seq(Pages) /\ seq \in [Pages -> Nat]
            BY <1>t DEF Types
          <5>2. \A i, j \in DOMAIN used : used[i] = used[j] => i = j
            <6> TAKE i, j \in DOMAIN used
            <6>1. \A n, m \in DOMAIN used : n < m => seq[used[n]] < seq[used[m]]
              BY <2>1 DEF PagesInv, ListInv, Running
            <6>2. i \in Nat /\ j \in Nat /\ seq[used[i]] \in Nat /\ seq[used[j]] \in Nat
              BY <5>1
            <6> QED BY <6>1, <6>2
          <5> QED BY <4>1, <5>1, <5>2, ExtractIs
        <4>3. req.vic \in Pages
          BY <4>1, ListFacts
        <4> QED BY <2>5, <3>2, <4>2, <4>3 DEF Steps
      <3> QED BY <1>8, <3>1, <3>2, Zenon DEF WritePage
    <2> QED BY <1>t, <1>s, <2>1, <2>3, <2>4, <2>6 DEF Types
  <1>9. ASSUME MarkCandidate PROVE Types'
    <2>1. pst' \in [Pages -> PageStates]
      BY <1>t, <1>9 DEF MarkCandidate, Types, PageStates
    <2>2. /\ pc' \in Steps
          /\ UNCHANGED <<seq, slot, est, ram, op, marks, req, ret, snap, cut, inst>>
      BY <1>9 DEF MarkCandidate, Steps
    <2> QED BY <1>t, <1>s, <2>1, <2>2 DEF Types, ram
  <1>10. ASSUME CopyEntry PROVE Types'
    <2>1. /\ pc = "copy" /\ ToCopy # {}
          /\ EntryWrite(req.page, slot[req.vic][Min(ToCopy)])
          /\ req' = [req EXCEPT !.from = Min(ToCopy) + 1]
          /\ pc' = "copied"
          /\ UNCHANGED <<pst, seq, est, used, free, op, marks, ret, snap, cut, inst>>
      BY <1>10 DEF CopyEntry
    <2>2. req.vic \in Pages /\ req.page \in Pages
      BY <2>1, ListFacts DEF Moving
    <2>3. Min(ToCopy) \in Slots /\ Min(ToCopy) \in Nat
      BY <2>1, <1>t, ToCopyIs
    <2>4. slot[req.vic][Min(ToCopy)] \in Cell
      BY <1>t, <2>2, <2>3 DEF Types
    <2>5. /\ slot' \in [Pages -> [Slots -> Cell]]
          /\ nxt' \in [Pages -> Nat] /\ cnt' \in [Pages -> Int]
      BY <2>1, <2>2, <2>4, <1>t, EntryWriteTypes
    <2>6. req' \in [page : 0..NumPages, vic : 0..NumPages, from : Nat]
      <3>1. Min(ToCopy) + 1 \in Nat
        BY <2>3
      <3> QED BY <1>b, <2>1, <3>1
    <2> QED BY <1>t, <1>s, <2>1, <2>5, <2>6 DEF Types, Steps
  <1>11. ASSUME CopyState PROVE Types'
    <2>1. est' \in [Pages -> [Slots -> EntryStates]]
      BY <1>11, <1>t DEF CopyState, Types, EntryStates
    <2>2. pc' \in Steps /\ UNCHANGED <<pst, seq, slot, ram, op, marks, req, ret, snap, cut, inst>>
      BY <1>11 DEF CopyState, Steps
    <2> QED BY <1>t, <1>s, <2>1, <2>2 DEF Types, ram
  <1>12. ASSUME EraseVictim PROVE Types'
    <2>1. Erased(req.vic, "blank") /\ "blank" \in PageStates
      BY <1>12 DEF EraseVictim, PageStates
    <2>2. /\ pc' \in Steps /\ UNCHANGED <<used, free, op, marks, req, ret, snap, cut, inst>>
          /\ nxt' = [nxt EXCEPT ![req.vic] = 1] /\ cnt' = [cnt EXCEPT ![req.vic] = 0]
      BY <1>12 DEF EraseVictim, Steps
    <2>3. /\ pst' \in [Pages -> PageStates] /\ seq' \in [Pages -> Nat]
          /\ slot' \in [Pages -> [Slots -> Cell]]
          /\ est' \in [Pages -> [Slots -> EntryStates]]
      BY <2>1, <1>t, ErasedTypes
    <2>4. nxt' \in [Pages -> Nat] /\ cnt' \in [Pages -> Int]
      <3>1. nxt' \in [Pages -> Nat]
        <4>1. nxt' = [nxt EXCEPT ![req.vic] = 1] /\ 1 \in Nat
          BY <2>2
        <4> QED BY <4>1, <1>a
      <3>2. cnt' \in [Pages -> Int]
        <4>1. cnt' = [cnt EXCEPT ![req.vic] = 0] /\ 0 \in Int
          BY <2>2
        <4> QED BY <4>1, <1>a
      <3> QED BY <3>1, <3>2
    <2> QED BY <1>t, <1>s, <2>2, <2>3, <2>4 DEF Types
  <1>13. ASSUME PageReady PROVE Types'
    <2>1. pc = "again" /\ UNCHANGED <<flash, used, free, nxt, inst>>
          /\ cut' \in {"none", "call", "clean"}
      BY <1>13, <1>t DEF PageReady, Types
    <2>2. CASE NoSpace
      <3>1. pc' \in Steps
        BY <2>2, <1>t, NoSpaceTypes DEF Steps
      <3> QED BY <1>t, <1>s, <2>1, <2>2, <3>1, NoSpaceTypes DEF Types, flash
    <2>3. CASE /\ pc' = "header" /\ req' = NoReq
               /\ UNCHANGED <<op, marks, cnt, ret, snap>>
      <3>1. req' \in [page : 0..NumPages, vic : 0..NumPages, from : Nat]
        BY <2>3, <1>s DEF NoReq
      <3> QED BY <1>t, <1>s, <2>1, <2>3, <3>1 DEF Types, flash, Steps
    <2>4. CASE Return(IF op = NoOp THEN ret ELSE "ok") /\ UNCHANGED cnt
      <3>1. PICK r : r = IF op = NoOp THEN ret ELSE "ok"
        OBVIOUS
      <3>2. r \in {"ok", "no_space", "cut"}
        BY <1>t, <3>1 DEF Types
      <3>3. Return(r) /\ UNCHANGED cnt
        BY <2>4, <3>1
      <3>4. /\ pc' = "idle" /\ op' \in Operation
            /\ DOMAIN marks' = {"at", "to"} /\ marks'.to \in {"used", "updated"}
            /\ req' \in [page : 0..NumPages, vic : 0..NumPages, from : Nat]
            /\ ret' \in {"ok", "no_space", "cut"}
            /\ snap' \in [Keys -> Vals \cup {Absent, Mixed}]
        BY <3>2, <3>3, ReturnTypes
      <3> QED BY <1>t, <1>s, <2>1, <3>3, <3>4 DEF Types, flash, Steps
    <2> QED BY <1>13, <2>2, <2>3, <2>4, Zenon DEF PageReady
  <1>14. ASSUME WriteHeader PROVE Types'
    <2>1. /\ pc = "header" /\ EntryWrite(Last(used), NextHeader)
          /\ op' = [op EXCEPT !.len = Span(NextHeader)]
          /\ UNCHANGED <<pst, seq, est, used, free, req, ret, snap, cut, inst>>
      BY <1>14 DEF WriteHeader
    <2>2. NextHeader \in Cell /\ Span(NextHeader) \in Nat
      BY <2>1, NextHeaderIs, SpanIs
    <2>3. Last(used) \in Pages
      <3>1. used # <<>>
        BY <2>1, ListFacts DEF Running
      <3> QED BY <3>1, ListFacts
    <2>4. /\ slot' \in [Pages -> [Slots -> Cell]]
          /\ nxt' \in [Pages -> Nat] /\ cnt' \in [Pages -> Int]
      BY <2>1, <2>2, <2>3, <1>t, EntryWriteTypes
    <2>5. op' \in Operation
      <3>1. op \in [fn : {"put"}, k : Keys, v : Vals, frag : Nat, len : Nat, rem : Nat]
        BY <2>1 DEF PagesInv, Types, CallInv, Operation, NoOp
      <3>2. op' \in [fn : {"put"}, k : Keys, v : Vals, frag : Nat, len : Nat, rem : Nat]
        BY <2>1, <2>2, <3>1
      <3> QED BY <3>2 DEF Operation
    <2>6. /\ pc' \in Steps
          /\ DOMAIN marks' = {"at", "to"} /\ marks'.to \in {"used", "updated"}
      <3>1. CASE pc' = "data" /\ UNCHANGED marks
        BY <1>t, <3>1 DEF Types, Steps
      <3>2. CASE /\ pc' = "commit"
                 /\ marks' = [at |-> <<<<Last(used), nxt[Last(used)]>>>>, to |-> "used"]
        BY <3>2 DEF Steps
      <3> QED BY <1>14, <3>1, <3>2, Zenon DEF WriteHeader
    <2> QED BY <1>t, <1>s, <2>1, <2>4, <2>5, <2>6 DEF Types
  <1>15. ASSUME WriteData PROVE Types'
    <2>1. PICK p : p = Last(used)
      OBVIOUS
    <2>2. PICK d : d = [j \in 1..(op.len + 1) |-> <<p, nxt[p] + j - 2>>]
      OBVIOUS
    <2>3. /\ pc = "data"
          /\ slot' = [slot EXCEPT ![p] = [i \in Slots |->
                 IF i \in nxt[p]..(nxt[p] + op.len - 1)
                 THEN Program(slot[p][i], Data(op.v, Entries[op.v] - op.rem + i - nxt[p] + 1))
                 ELSE slot[p][i]]]
          /\ nxt' = [nxt EXCEPT ![p] = @ + op.len]
          /\ cnt' = [cnt EXCEPT ![p] = @ + op.len]
          /\ marks' = [at |-> d, to |-> "used"]
          /\ pc' = "commit"
          /\ UNCHANGED <<pst, seq, est, used, free, op, req, ret, snap, cut, inst>>
      BY <1>15, <2>1, <2>2 DEF WriteData
    <2>4. op \in [fn : {"put"}, k : Keys, v : Vals, frag : Nat, len : Nat, rem : Nat]
      BY <2>3 DEF PagesInv, Types, CallInv, Operation, NoOp
    <2>5. p \in Pages
      <3>1. used # <<>>
        BY <2>3, ListFacts DEF Running
      <3> QED BY <2>1, <3>1, ListFacts
    <2>6. nxt' \in [Pages -> Nat] /\ cnt' \in [Pages -> Int]
      BY <1>t, <2>3, <2>4, <2>5 DEF Types
    <2>7. slot' \in [Pages -> [Slots -> Cell]]
      <3>1. ASSUME NEW i \in Slots, i \in nxt[p]..(nxt[p] + op.len - 1)
            PROVE  Program(slot[p][i], Data(op.v, Entries[op.v] - op.rem + i - nxt[p] + 1)) \in Cell
        <4>1. slot[p][i] \in Cell /\ i \in Nat /\ nxt[p] \in Nat
          BY <1>t, <2>5, ListFacts DEF Types
        <4>2. op.v \notin SmallVals => op.rem <= Entries[op.v] /\ Entries[op.v] \in Nat
          <5>1. op.v \notin SmallVals => op.v \in MiddleVals \cup BulkVals
            BY <2>4 DEF Vals
          <5> QED BY <2>4, <5>1, NvdsAssumption DEF PagesInv, PutInv
        <4>3. CASE op.v \notin SmallVals
          <5>1. PICK m : m = Entries[op.v] - op.rem + i - nxt[p] + 1
            OBVIOUS
          <5>2. m \in Nat
            BY <2>4, <3>1, <4>1, <4>2, <4>3, <5>1
          <5>3. Data(op.v, m) \in Cell
            BY <5>2, <2>4 DEF Data, Cell
          <5> QED BY <4>1, <5>1, <5>3, SpanIs
        <4>4. op.v \notin SmallVals
          BY <2>3 DEF PagesInv, PutInv
        <4> QED BY <4>3, <4>4
      <3>2. [i \in Slots |->
                 IF i \in nxt[p]..(nxt[p] + op.len - 1)
                 THEN Program(slot[p][i], Data(op.v, Entries[op.v] - op.rem + i - nxt[p] + 1))
                 ELSE slot[p][i]] \in [Slots -> Cell]
        BY <3>1, <1>t, <2>5 DEF Types
      <3> QED BY <2>3, <3>2, <1>t DEF Types
    <2> QED BY <1>t, <1>s, <2>3, <2>6, <2>7 DEF Types, Steps
  <1>16. ASSUME CleanSector PROVE Types'
    <2>1. Erased(req.page, "blank") /\ "blank" \in PageStates
      BY <1>16 DEF CleanSector, PageStates
    <2>2. /\ pst' \in [Pages -> PageStates] /\ seq' \in [Pages -> Nat]
          /\ slot' \in [Pages -> [Slots -> Cell]]
          /\ est' \in [Pages -> [Slots -> EntryStates]]
      BY <2>1, <1>t, ErasedTypes
    <2>3. UNCHANGED <<op, marks, ret, snap, cut, inst>>
      BY <1>16 DEF CleanSector
    <2>4. CASE /\ req.page < NumPages
               /\ req' = [req EXCEPT !.page = @ + 1] /\ UNCHANGED <<pc, ram>>
      <3>1. req' \in [page : 0..NumPages, vic : 0..NumPages, from : Nat]
        BY <1>b, <1>s, <2>4
      <3> QED BY <1>t, <1>s, <2>2, <2>3, <2>4, <3>1 DEF Types, ram
    <2>5. CASE /\ pc' = "off" /\ req' = NoReq
               /\ used' = <<>> /\ free' = <<>>
               /\ nxt' = [p \in Pages |-> 1] /\ cnt' = [p \in Pages |-> 0]
      <3>1. req' \in [page : 0..NumPages, vic : 0..NumPages, from : Nat]
        BY <2>5, <1>s DEF NoReq
      <3> QED BY <1>t, <1>s, <2>2, <2>3, <2>5, <3>1 DEF Types, Steps
    <2> QED BY <1>16, <2>4, <2>5, Zenon DEF CleanSector
  <1>17. ASSUME Boot PROVE Types'
    <2>1. /\ pc = "off" /\ used' = LoadUsed /\ free' = LoadFree
          /\ nxt' = [p \in Pages |-> IF p \in ToSet(LoadUsed) THEN LoadNext(p) ELSE 1]
          /\ cnt' = [p \in Pages |-> IF p \in ToSet(LoadUsed) THEN LoadCount(p) ELSE 0]
          /\ est' = LoadStates
          /\ UNCHANGED <<pst, seq, slot, op, marks, ret, snap, cut, inst>>
      BY <1>17 DEF Boot
    <2>2. used' \in Seq(Pages)
      BY <1>t, <2>1, LoadUsedIs DEF Types, PagesInv, ListInv
    <2>3. free' \in Seq(Pages)
      BY <2>1, LoadFreeIs
    <2>4. nxt' \in [Pages -> Nat]
      <3>1. \A p \in Pages : LoadNext(p) \in Nat
        <4> TAKE p \in Pages
        <4>1. LoadNext(p) \in 1 .. (N + 1) /\ N \in Nat
          BY <1>t, LoadNextIs, ListFacts DEF Types
        <4> QED BY <4>1
      <3> QED BY <2>1, <3>1
    <2>5. cnt' \in [Pages -> Int]
      <3>1. \A p \in Pages : LoadCount(p) \in Int
        BY <1>t, LoadCountIs DEF Types
      <3> QED BY <2>1, <3>1
    <2>6. est' \in [Pages -> [Slots -> EntryStates]]
      BY <1>t, <2>1 DEF LoadStates, Types, EntryStates
    <2>7. CASE /\ LoadUsed = <<>>
               /\ req' = [page |-> Head(LoadFree), vic |-> 0, from |-> 1]
               /\ pc' = IF pst[Head(LoadFree)] = "blank" THEN "page" ELSE "erase"
      <3>1. Head(LoadFree) \in Pages
        <4>1. ToSet(LoadUsed) = Written
          BY <1>t, LoadUsedIs DEF Types, PagesInv, ListInv
        <4>2. Written = {}
          BY <4>1, <2>7 DEF ToSet
        <4>3. LoadFree \in Seq(Pages) /\ Len(LoadFree) = Cardinality(Pages)
          BY <4>2, LoadFreeIs
        <4>4. Len(LoadFree) >= 2
          BY <4>3, PagesFinite
        <4> QED BY <4>3, <4>4
      <3>2. req' \in [page : 0..NumPages, vic : 0..NumPages, from : Nat]
        BY <2>7, <3>1, <1>s DEF Pages
      <3> QED BY <1>t, <1>s, <2>1, <2>2, <2>3, <2>4, <2>5, <2>6, <2>7, <3>2 DEF Types, Steps
    <2>8. CASE pc' = "idle" /\ UNCHANGED req
      BY <1>t, <1>s, <2>1, <2>2, <2>3, <2>4, <2>5, <2>6, <2>8 DEF Types, Steps
    <2> QED BY <1>17, <2>7, <2>8, Zenon DEF Boot
  <1>18. ASSUME LoseRam
         PROVE  /\ used' \in Seq(Pages) /\ free' \in Seq(Pages)
                /\ nxt' \in [Pages -> Nat] /\ cnt' \in [Pages -> Int]
                /\ pc' \in Steps /\ op' \in Operation
                /\ DOMAIN marks' = {"at", "to"} /\ marks'.to \in {"used", "updated"}
                /\ req' \in [page : 0..NumPages, vic : 0..NumPages, from : Nat]
                /\ snap' \in [Keys -> Vals \cup {Absent, Mixed}]
    BY <1>18, <1>s DEF LoseRam, Steps, Operation, NoMarks, NoReq, NoSnap
  <1>19. ASSUME Reboot PROVE Types'
    <2>1. LoseRam /\ UNCHANGED <<flash, ret, cut, inst>>
      BY <1>19 DEF Reboot
    <2> QED BY <1>t, <1>s, <1>18, <2>1 DEF Types, flash
  <1>20. ASSUME PowerCut PROVE Types'
    <2>1. /\ LoseRam /\ ret' \in {"ok", "no_space", "cut"}
          /\ cut' \in {"none", "call", "clean"} /\ UNCHANGED inst
      BY <1>20 DEF PowerCut
    <2>2. /\ pst' \in [Pages -> PageStates] /\ seq' \in [Pages -> Nat]
          /\ slot' \in [Pages -> [Slots -> Cell]]
          /\ est' \in [Pages -> [Slots -> EntryStates]]
      <3>1. CASE UNCHANGED flash
        BY <1>t, <3>1 DEF Types, flash
      <3>2. CASE \E p \in InWork : Erased(p, "error")
        <4>1. "error" \in PageStates
          BY DEF PageStates
        <4> QED BY <1>t, <3>2, <4>1, ErasedTypes
      <3> QED BY <1>20, <3>1, <3>2, Zenon DEF PowerCut
    <2> QED BY <1>t, <1>s, <1>18, <2>1, <2>2 DEF Types
  <1>21. CASE UNCHANGED vars
    BY <1>t, <1>s, <1>21 DEF Types, vars, flash, ram
  <1> QED
    BY <1>1, <1>2, <1>3, <1>4, <1>5, <1>6, <1>7, <1>8, <1>9, <1>10, <1>11, <1>12, <1>13,
       <1>14, <1>15, <1>16, <1>17, <1>19, <1>20, <1>21, Zenon DEF Next, Step

\* What an action does to the step of the call and to its operation.
LEMMA CallSteps ==
    ASSUME PagesInv
    PROVE  /\ \A k \in Keys, v \in Vals : PutStart(k, v) =>
                /\ pc = "idle" /\ pc' \in {"room", "delete"} /\ <<k, v>> \in inst.puts
                /\ op' = [fn |-> "put", k |-> k, v |-> v, frag |-> 0, len |-> 0,
                          rem |-> IF v \in SmallVals THEN 0 ELSE Entries[v]]
           /\ \A k \in Keys : DelStart(k) =>
                pc = "idle" /\ pc' = "delete" /\ op' = [fn |-> "del", k |-> k]
           /\ CleanStart => pc = "idle" /\ pc' = "clean" /\ op' = [fn |-> "clean"]
           /\ MarkState =>
                \/ UNCHANGED <<pc, op>>
                \/ pc = "delete" /\ op.fn = "put" /\ pc' = "room" /\ UNCHANGED op
                \/ /\ pc = "commit" /\ Fragment /\ pc' = "room"
                   /\ op' = [op EXCEPT !.rem = @ - op.len, !.frag = @ + 1]
                \/ pc \in {"delete", "commit", "undo"} /\ pc' = "idle" /\ op' = NoOp
           /\ Request => \/ pc = "request" /\ pc' \in {"page", "erase", "undo"} /\ UNCHANGED op
                         \/ pc = "request" /\ pc' = "idle" /\ op' = NoOp
           /\ PageReady =>
                \/ /\ pc = "again" /\ op.fn = "put" /\ UNCHANGED op
                   /\ \/ pc' = "header" /\ Room(Last(used)) >= NeedSlots
                      \/ pc' = "undo"
                \/ pc = "again" /\ pc' = "idle" /\ op' = NoOp
           /\ HasRoom => /\ pc = "room" /\ pc' = "header" /\ UNCHANGED op
                         /\ Room(Last(used)) >= NeedSlots
           /\ MarkFull => pc = "room" /\ pc' = "request" /\ UNCHANGED op
           /\ ErasePage => pc = "erase" /\ pc' = "page" /\ UNCHANGED op
           /\ WritePage => /\ pc = "page" /\ UNCHANGED op
                           /\ pc' = IF req.vic = 0 THEN "again" ELSE "candidate"
           /\ MarkCandidate => pc = "candidate" /\ pc' = "copy" /\ UNCHANGED op
           /\ CopyEntry => pc = "copy" /\ pc' = "copied" /\ UNCHANGED op
           /\ CopyState => pc = "copied" /\ pc' = "copy" /\ UNCHANGED op
           /\ EraseVictim => pc = "copy" /\ pc' = "again" /\ UNCHANGED op
           /\ WriteHeader => /\ pc = "header" /\ op' = [op EXCEPT !.len = Span(NextHeader)]
                             /\ pc' = IF Span(NextHeader) > 0 THEN "data" ELSE "commit"
           /\ WriteData => pc = "data" /\ pc' = "commit" /\ UNCHANGED op
           /\ CleanSector => /\ pc = "clean" /\ UNCHANGED op
                             /\ pc' = IF req.page < NumPages THEN "clean" ELSE "off"
           /\ Boot => /\ pc = "off" /\ UNCHANGED op
                      /\ \/ LoadUsed = <<>> /\ pc' \in {"page", "erase"}
                         \/ LoadUsed # <<>> /\ pc' = "idle"
           /\ (Reboot \/ PowerCut) => pc' = "off" /\ op' = NoOp
  <1>1. ASSUME NEW k \in Keys, NEW v \in Vals, PutStart(k, v)
        PROVE  /\ pc = "idle" /\ pc' \in {"room", "delete"} /\ <<k, v>> \in inst.puts
               /\ op' = [fn |-> "put", k |-> k, v |-> v, frag |-> 0, len |-> 0,
                         rem |-> IF v \in SmallVals THEN 0 ELSE Entries[v]]
    BY <1>1 DEF PutStart, Starts
  <1>2. ASSUME NEW k \in Keys, DelStart(k)
        PROVE  pc = "idle" /\ pc' = "delete" /\ op' = [fn |-> "del", k |-> k]
    BY <1>2 DEF DelStart, Starts
  <1>3. CleanStart => pc = "idle" /\ pc' = "clean" /\ op' = [fn |-> "clean"]
    BY DEF CleanStart, Starts
  <1>4. MarkState =>
           \/ UNCHANGED <<pc, op>>
           \/ pc = "delete" /\ op.fn = "put" /\ pc' = "room" /\ UNCHANGED op
           \/ /\ pc = "commit" /\ Fragment /\ pc' = "room"
              /\ op' = [op EXCEPT !.rem = @ - op.len, !.frag = @ + 1]
           \/ pc \in {"delete", "commit", "undo"} /\ pc' = "idle" /\ op' = NoOp
    BY DEF MarkState, Return
  <1>5. NoSpace => (pc' = "undo" /\ op' = op) \/ (pc' = "idle" /\ op' = NoOp)
    BY Zenon DEF NoSpace, Return
  <1>6. Request => \/ pc = "request" /\ pc' \in {"page", "erase", "undo"} /\ UNCHANGED op
                   \/ pc = "request" /\ pc' = "idle" /\ op' = NoOp
    BY <1>5 DEF Request
  <1>7. PageReady =>
           \/ /\ pc = "again" /\ op.fn = "put" /\ UNCHANGED op
              /\ \/ pc' = "header" /\ Room(Last(used)) >= NeedSlots
                 \/ pc' = "undo"
           \/ pc = "again" /\ pc' = "idle" /\ op' = NoOp
    BY <1>5 DEF PageReady, Return
  <1>8. /\ HasRoom => /\ pc = "room" /\ pc' = "header" /\ UNCHANGED op
                      /\ Room(Last(used)) >= NeedSlots
        /\ MarkFull => pc = "room" /\ pc' = "request" /\ UNCHANGED op
        /\ ErasePage => pc = "erase" /\ pc' = "page" /\ UNCHANGED op
        /\ MarkCandidate => pc = "candidate" /\ pc' = "copy" /\ UNCHANGED op
        /\ CopyEntry => pc = "copy" /\ pc' = "copied" /\ UNCHANGED op
        /\ CopyState => pc = "copied" /\ pc' = "copy" /\ UNCHANGED op
        /\ EraseVictim => pc = "copy" /\ pc' = "again" /\ UNCHANGED op
    BY DEF HasRoom, MarkFull, ErasePage, MarkCandidate, CopyEntry, CopyState, EraseVictim
  <1>9. WritePage => /\ pc = "page" /\ UNCHANGED op
                     /\ pc' = IF req.vic = 0 THEN "again" ELSE "candidate"
    BY DEF WritePage
  <1>10. WriteHeader => /\ pc = "header" /\ op' = [op EXCEPT !.len = Span(NextHeader)]
                        /\ pc' = IF Span(NextHeader) > 0 THEN "data" ELSE "commit"
    BY DEF WriteHeader
  <1>11. WriteData => pc = "data" /\ pc' = "commit" /\ UNCHANGED op
    BY DEF WriteData
  <1>12. CleanSector => /\ pc = "clean" /\ UNCHANGED op
                        /\ pc' = IF req.page < NumPages THEN "clean" ELSE "off"
    BY DEF CleanSector, ram
  <1>13. Boot => /\ pc = "off" /\ UNCHANGED op
                 /\ \/ LoadUsed = <<>> /\ pc' \in {"page", "erase"}
                    \/ LoadUsed # <<>> /\ pc' = "idle"
    BY DEF Boot
  <1>14. (Reboot \/ PowerCut) => pc' = "off" /\ op' = NoOp
    BY DEF Reboot, PowerCut, LoseRam
  <1> QED
    BY <1>1, <1>2, <1>3, <1>4, <1>6, <1>7, <1>8, <1>9, <1>10, <1>11, <1>12, <1>13, <1>14,
       Zenon

LEMMA CallStep == PagesInv /\ [Next]_vars => CallInv'
  <1> SUFFICES ASSUME PagesInv, [Next]_vars PROVE CallInv'
    OBVIOUS
  <1>c. CallInv
    BY DEF PagesInv
  <1>o. /\ op \in Operation /\ NoOp.fn = "none"
        /\ op.fn = "put" => op \in [fn : {"put"}, k : Keys, v : Vals, frag : Nat,
                                    len : Nat, rem : Nat]
    BY DEF PagesInv, Types, NoOp, Operation
  <1>w. ASSUME op' = op, pc' # "off",
               pc' # "idle", pc' = "clean" => pc = "clean",
               pc' \notin {"delete", "room", "request", "header", "data", "commit", "undo"}
                  \/ op.fn = "put",
               op.fn # "del"
        PROVE  CallInv'
    BY <1>w, <1>c DEF CallInv
  <1>1. ASSUME NEW k \in Keys, NEW v \in Vals, PutStart(k, v) PROVE CallInv'
    <2>1. /\ pc' \in {"room", "delete"}
          /\ op' = [fn |-> "put", k |-> k, v |-> v, frag |-> 0, len |-> 0,
                    rem |-> IF v \in SmallVals THEN 0 ELSE Entries[v]]
      BY <1>1, CallSteps, Zenon
    <2>2. op'.fn = "put"
      BY <2>1
    <2> QED BY <2>1, <2>2, <1>o DEF CallInv
  <1>2. ASSUME NEW k \in Keys, DelStart(k) PROVE CallInv'
    <2>1. op'.fn = "del" /\ pc' = "delete"
      BY <1>2, CallSteps
    <2> QED BY <2>1, <1>o DEF CallInv
  <1>3. ASSUME CleanStart PROVE CallInv'
    <2>1. op'.fn = "clean" /\ pc' = "clean"
      BY <1>3, CallSteps
    <2> QED BY <2>1, <1>o DEF CallInv
  <1>4. ASSUME MarkState PROVE CallInv'
    <2>1. CASE UNCHANGED <<pc, op>>
      <3>1. Written' = Written
        BY <1>4 DEF MarkState, Written
      <3> QED BY <1>c, <2>1, <3>1 DEF CallInv
    <2>2. CASE pc = "delete" /\ op.fn = "put" /\ pc' = "room" /\ UNCHANGED op
      BY <1>w, <2>2
    <2>3. CASE /\ pc = "commit" /\ Fragment /\ pc' = "room"
               /\ op' = [op EXCEPT !.rem = @ - op.len, !.frag = @ + 1]
      <3>1. op.fn = "put"
        BY <1>c, <2>3 DEF CallInv
      <3>2. op'.fn = "put"
        BY <1>o, <2>3, <3>1
      <3> QED BY <2>3, <3>2, <1>o DEF CallInv
    <2>4. CASE pc' = "idle" /\ op' = NoOp
      BY <2>4, <1>o DEF CallInv
    <2> QED BY <1>4, <2>1, <2>2, <2>3, <2>4, CallSteps
  <1>5. ASSUME HasRoom \/ MarkFull \/ Request PROVE CallInv'
    <2>1. /\ pc \in {"room", "request"}
          /\ \/ op' = op /\ pc' \in {"header", "request", "page", "erase", "undo"}
             \/ pc' = "idle" /\ op' = NoOp
      BY <1>5, CallSteps
    <2>2. op.fn = "put"
      BY <2>1, <1>c DEF CallInv
    <2> QED BY <2>1, <2>2, <1>o, <1>w DEF CallInv
  <1>6. ASSUME ErasePage \/ WritePage \/ MarkCandidate \/ CopyEntry \/ CopyState \/ EraseVictim
        PROVE  CallInv'
    <2>1. /\ op' = op /\ pc' \in {"page", "again", "candidate", "copy", "copied"}
          /\ pc # "delete"
      BY <1>6, CallSteps
    <2> QED BY <2>1, <1>c DEF CallInv
  <1>7. ASSUME PageReady PROVE CallInv'
    <2>1. \/ op' = op /\ op.fn = "put" /\ pc' \in {"header", "undo"}
          \/ pc' = "idle" /\ op' = NoOp
      BY <1>7, CallSteps
    <2> QED BY <2>1, <1>o, <1>w DEF CallInv
  <1>8. ASSUME WriteHeader PROVE CallInv'
    <2>1. op.fn = "put" /\ pc' \in {"data", "commit"} /\ op' = [op EXCEPT !.len = Span(NextHeader)]
      BY <1>8, <1>c, CallSteps DEF CallInv
    <2>2. op'.fn = "put"
      BY <2>1, <1>o
    <2> QED BY <2>1, <2>2, <1>o DEF CallInv
  <1>9. ASSUME WriteData PROVE CallInv'
    <2>1. op.fn = "put" /\ pc' = "commit" /\ op' = op
      BY <1>9, <1>c, CallSteps DEF CallInv
    <2> QED BY <2>1, <1>w
  <1>10. ASSUME CleanSector PROVE CallInv'
    <2>1. pc = "clean" /\ op' = op /\ op.fn = "clean"
      BY <1>10, <1>c, CallSteps DEF CallInv
    <2>2. CASE req.page < NumPages
      BY <2>1, <2>2, <1>10, CallSteps DEF CallInv
    <2>3. CASE ~(req.page < NumPages)
      <3>1. pc' = "off"
        BY <2>3, <1>10, CallSteps
      <3>2. /\ req.page \in Pages /\ \A p \in 1..(req.page - 1) : pst[p] = "blank"
            /\ pst \in [Pages -> PageStates] /\ NumPages \in Nat
        BY <2>1, PagesFinite DEF PagesInv, ReqInv, Types
      <3>3. pst' = [pst EXCEPT ![req.page] = "blank"]
        BY <1>10 DEF CleanSector, Erased
      <3>4. Written' = {}
        <4>1. \A p \in Pages : p = req.page \/ p \in 1..(req.page - 1)
          BY <2>3, <3>2 DEF Pages
        <4>2. \A p \in Pages : pst'[p] = "blank"
          BY <4>1, <3>2, <3>3
        <4> QED BY <4>2 DEF Written
      <3> QED BY <2>1, <3>1, <3>4 DEF CallInv
    <2> QED BY <2>2, <2>3
  <1>11. ASSUME Boot PROVE CallInv'
    <2>1. /\ pc = "off" /\ op' = op
          /\ \/ LoadUsed = <<>> /\ pc' \in {"page", "erase"}
             \/ LoadUsed # <<>> /\ pc' = "idle"
      BY <1>11, CallSteps
    <2>2. op.fn \in {"none", "clean"}
      BY <2>1, <1>c, <1>o DEF CallInv
    <2>3. CASE LoadUsed # <<>>
      <3>1. ToSet(LoadUsed) = Written /\ LoadUsed \in Seq(Pages)
        BY LoadUsedIs DEF PagesInv, Types, ListInv
      <3>2. Written # {}
        <4>1. 1 \in DOMAIN LoadUsed
          BY <2>3, <3>1
        <4> QED BY <3>1, <4>1 DEF ToSet
      <3>3. op = NoOp
        BY <2>1, <3>2, <1>c DEF CallInv
      <3> QED BY <2>1, <2>3, <3>3, <1>o DEF CallInv
    <2>4. CASE LoadUsed = <<>>
      BY <2>1, <2>2, <2>4 DEF CallInv
    <2> QED BY <2>3, <2>4
  <1>12. ASSUME Reboot \/ PowerCut PROVE CallInv'
    <2>1. pc' = "off" /\ op' = NoOp
      BY <1>12, CallSteps
    <2> QED BY <2>1, <1>o DEF CallInv
  <1>13. CASE UNCHANGED vars
    <2>1. pc' = pc /\ op' = op /\ Written' = Written
      BY <1>13 DEF vars, flash, Written
    <2> QED BY <1>c, <2>1 DEF CallInv
  <1> QED
    BY <1>1, <1>2, <1>3, <1>4, <1>5, <1>6, <1>7, <1>8, <1>9, <1>10, <1>11, <1>12, <1>13,
       Zenon DEF Next, Step

LEMMA PutStep == PagesInv /\ [Next]_vars => PutInv'
  <1> SUFFICES ASSUME PagesInv, [Next]_vars PROVE PutInv'
    OBVIOUS
  <1>c. CallInv /\ PutInv
    BY DEF PagesInv
  <1>s. N' = N /\ inst' = inst
    BY InstKept
  <1>o. /\ op \in Operation /\ NoOp.fn = "none"
        /\ op.fn = "put" => op \in [fn : {"put"}, k : Keys, v : Vals, frag : Nat,
                                    len : Nat, rem : Nat]
    BY DEF PagesInv, Types, NoOp, Operation
  <1>w. ASSUME op' = op, pc' \notin {"header", "data", "commit"} PROVE PutInv'
    BY <1>w, <1>c, <1>s DEF PutInv
  <1>x. ASSUME op'.fn # "put", pc' \notin {"header", "data", "commit"} PROVE PutInv'
    BY <1>x DEF PutInv
  <1>1. ASSUME NEW k \in Keys, NEW v \in Vals, PutStart(k, v) PROVE PutInv'
    <2>1. /\ pc' \in {"room", "delete"} /\ <<k, v>> \in inst.puts
          /\ op'.k = k /\ op'.v = v /\ op'.rem = IF v \in SmallVals THEN 0 ELSE Entries[v]
      BY <1>1, CallSteps
    <2>2. v \notin SmallVals => Entries[v] \in Nat /\ Entries[v] <= Entries[v]
      BY NvdsAssumption DEF Vals
    <2>3. v \in MiddleVals => v \notin SmallVals
      BY NvdsAssumption
    <2> QED BY <2>1, <2>2, <2>3, <1>s DEF PutInv
  <1>2. ASSUME NEW k \in Keys, DelStart(k) PROVE PutInv'
    <2>1. op'.fn = "del" /\ pc' = "delete"
      BY <1>2, CallSteps
    <2> QED BY <2>1, <1>x
  <1>3. ASSUME CleanStart PROVE PutInv'
    <2>1. op'.fn = "clean" /\ pc' = "clean"
      BY <1>3, CallSteps
    <2> QED BY <2>1, <1>x
  <1>4. ASSUME MarkState PROVE PutInv'
    <2>1. CASE UNCHANGED <<pc, op>>
      <3>1. UNCHANGED <<used, nxt, inst>>
        BY <1>4 DEF MarkState, ram
      <3> QED BY <1>c, <1>s, <2>1, <3>1 DEF PutInv, Room, NeedSlots, Fragment
    <2>2. CASE pc' = "room" /\ UNCHANGED op
      BY <1>w, <2>2
    <2>3. CASE /\ pc = "commit" /\ Fragment /\ pc' = "room"
               /\ op' = [op EXCEPT !.rem = @ - op.len, !.frag = @ + 1]
      <3>1. op.fn = "put"
        BY <1>c, <2>3 DEF CallInv
      <3>2. /\ op'.k = op.k /\ op'.v = op.v /\ op'.rem = op.rem - op.len
            /\ op.rem \in Nat /\ op.len \in Nat /\ op.v \in BulkVals
        BY <1>o, <2>3, <3>1 DEF Fragment
      <3>3. op.v \notin SmallVals /\ op.v \notin MiddleVals /\ Entries[op.v] \in Nat
        BY <3>2, NvdsAssumption
      <3>4. op.rem <= Entries[op.v] /\ <<op.k, op.v>> \in inst.puts
        BY <3>1, <3>3, <1>c DEF PutInv
      <3> QED BY <1>s, <2>3, <3>2, <3>3, <3>4 DEF PutInv
    <2>4. CASE pc' = "idle" /\ op' = NoOp
      BY <2>4, <1>o, <1>x
    <2> QED BY <1>4, <2>1, <2>2, <2>3, <2>4, CallSteps
  <1>5. ASSUME HasRoom PROVE PutInv'
    <2>1. /\ pc' = "header" /\ op' = op /\ Room(Last(used)) >= NeedSlots
          /\ UNCHANGED <<used, nxt>>
      BY <1>5, CallSteps DEF HasRoom, ram
    <2> QED BY <2>1, <1>c, <1>s DEF PutInv, Room, NeedSlots, Fragment
  <1>6. ASSUME \/ MarkFull \/ Request \/ ErasePage \/ WritePage \/ MarkCandidate \/ CopyEntry
               \/ CopyState \/ EraseVictim \/ Boot \/ Reboot \/ PowerCut \/ CleanSector
        PROVE  PutInv'
    <2>1. pc' \notin {"header", "data", "commit"} /\ (op' = op \/ op' = NoOp)
      BY <1>6, CallSteps
    <2> QED BY <2>1, <1>o, <1>w, <1>x
  <1>7. ASSUME PageReady PROVE PutInv'
    <2>1. CASE pc' = "header" /\ Room(Last(used)) >= NeedSlots /\ op' = op
      <3>1. UNCHANGED <<used, nxt>>
        BY <1>7 DEF PageReady
      <3> QED BY <2>1, <3>1, <1>c, <1>s DEF PutInv, Room, NeedSlots, Fragment
    <2>2. CASE pc' \in {"undo", "idle"} /\ (op' = op \/ op' = NoOp)
      BY <2>2, <1>o, <1>w, <1>x
    <2> QED BY <1>7, <2>1, <2>2, CallSteps
  <1>8. ASSUME WriteHeader PROVE PutInv'
    <2>1. /\ op.fn = "put" /\ pc = "header" /\ op' = [op EXCEPT !.len = Span(NextHeader)]
          /\ pc' = IF Span(NextHeader) > 0 THEN "data" ELSE "commit"
      BY <1>8, <1>c, CallSteps DEF CallInv
    <2>2. PICK h : h = NextHeader
      OBVIOUS
    <2>3. PICK l : l = Last(used)
      OBVIOUS
    <2>4. /\ op'.k = op.k /\ op'.v = op.v /\ op'.rem = op.rem /\ op'.len = Span(h)
          /\ op'.fn = "put" /\ op.rem \in Nat /\ op.v \in Vals
      BY <2>1, <2>2, <1>o
    <2>5. /\ h \in Cell /\ Span(h) \in Nat
          /\ op.v \in SmallVals \cup BulkVals /\ ~Fragment => Span(h) = 0
          /\ op.v \notin SmallVals /\ (op.v \in MiddleVals \/ Fragment) =>
                Span(h) \in 1..op.rem /\ Span(h) <= Room(l) - 1
      BY <2>1, <2>2, <2>3, NextHeaderIs, SpanIs
    <2>6. l \in Pages /\ nxt \in [Pages -> Nat] /\ N \in Nat
      <3>1. used # <<>>
        BY <2>1, ListFacts DEF Running
      <3> QED BY <2>3, <3>1, ListFacts DEF PagesInv, Types
    <2>7. used' = used /\ nxt' = [nxt EXCEPT ![l] = @ + 1]
      BY <1>8, <2>3 DEF WriteHeader, EntryWrite
    <2>8. Last(used)' = l /\ Room(l)' = Room(l) - 1
      BY <2>3, <2>6, <2>7, <1>s DEF Room, Last
    <2>9. /\ <<op'.k, op'.v>> \in inst'.puts
          /\ op'.v \in SmallVals => op'.rem = 0
          /\ op'.v \notin SmallVals => op'.rem <= Entries[op'.v]
          /\ op'.v \in MiddleVals => op'.rem = Entries[op'.v]
      BY <2>1, <2>4, <1>c, <1>s DEF PutInv
    <2>10. CASE Span(h) > 0
      <3>1. pc' = "data"
        BY <2>1, <2>2, <2>10
      <3>2. op.v \notin SmallVals /\ (op.v \in MiddleVals \/ Fragment)
        <4>1. op.v \in SmallVals \cup MiddleVals \cup BulkVals
          BY <2>4 DEF Vals
        <4>2. op.v \in SmallVals => ~Fragment
          BY NvdsAssumption DEF Fragment
        <4>3. ~(Span(h) = 0)
          BY <2>10
        <4> QED BY <2>5, <4>1, <4>2, <4>3
      <3>3. /\ op'.v \notin SmallVals /\ op'.len \in 1..op'.rem
            /\ op'.len <= Room(Last(used))'
        BY <2>4, <2>5, <2>8, <3>2
      <3> QED BY <2>4, <2>9, <3>1, <3>3 DEF PutInv
    <2>11. CASE ~(Span(h) > 0)
      <3>1. pc' = "commit" /\ op'.len = 0
        BY <2>1, <2>2, <2>4, <2>5, <2>11
      <3>2. op'.len <= op'.rem
        BY <2>4, <3>1
      <3> QED BY <2>4, <2>9, <3>1, <3>2 DEF PutInv
    <2> QED BY <2>10, <2>11
  <1>9. ASSUME WriteData PROVE PutInv'
    <2>1. pc = "data" /\ pc' = "commit" /\ op' = op
      BY <1>9, CallSteps
    <2>2. op.len <= op.rem
      <3>1. op.fn = "put" /\ op.len \in 1..op.rem
        BY <2>1, <1>c DEF CallInv, PutInv
      <3>2. op.rem \in Nat
        BY <3>1, <1>o
      <3> QED BY <3>1, <3>2
    <2> QED BY <2>1, <2>2, <1>c, <1>s DEF PutInv
  <1>10. CASE UNCHANGED vars
    <2>1. UNCHANGED <<pc, op, used, nxt>>
      BY <1>10 DEF vars, flash, ram
    <2> QED BY <1>c, <1>s, <2>1 DEF PutInv, Room, NeedSlots, Fragment
  <1> QED
    BY <1>1, <1>2, <1>3, <1>4, <1>5, <1>6, <1>7, <1>8, <1>9, <1>10, Zenon DEF Next, Step

\* The page states left alone, or a used page found full.
LEMMA QuietStep ==
    ASSUME PagesInv, UNCHANGED <<used, free, seq, inst>>, Written' = Written,
           \A p \in Pages : pst'[p] = "error" => pst[p] = "error",
           Running, ~Moving, pc \notin {"erase", "page"},
           pc' \notin {"erase", "page", "candidate", "copy", "copied", "off", "clean"}
    PROVE  ListInv' /\ ReqInv' /\ SteadyInv'
  <1>1. Kept' = Kept /\ Running' /\ ~Moving' /\ Steady' = Steady
    BY DEF Kept, Running, Moving, Steady
  <1>2. used # <<>>
    BY ListFacts
  <1>3. ListInv'
    BY <1>1, <1>2 DEF ListInv, PagesInv
  <1>4. ReqInv'
    BY <1>1 DEF ReqInv
  <1>5. SteadyInv'
    BY <1>1 DEF SteadyInv, PagesInv
  <1> QED BY <1>3, <1>4, <1>5

\* A step of a page move that leaves the lists alone.
LEMMA MoveStep ==
    ASSUME PagesInv, UNCHANGED <<used, free, seq, inst>>, Written' = Written,
           \A p \in Pages : pst'[p] = "error" => pst[p] = "error",
           Moving, Moving', req'.vic = req.vic, req'.page = req.page
    PROVE  ListInv' /\ ReqInv' /\ SteadyInv'
  <1>1. Kept' = Kept /\ Running /\ Running' /\ Steady' = Steady
    BY DEF Kept, Running, Moving, Steady
  <1>2. used # <<>> /\ pc' \notin {"erase", "page", "clean", "off"}
    BY ListFacts DEF Moving
  <1>3. ListInv'
    BY <1>1, <1>2 DEF ListInv, PagesInv
  <1>4. ReqInv'
    BY <1>1, <1>2 DEF ReqInv, PagesInv
  <1>5. SteadyInv'
    BY <1>1, <1>2 DEF SteadyInv, PagesInv
  <1> QED BY <1>3, <1>4, <1>5

\* The lists once the new page has its header.
LEMMA WritePageLists == PagesInv /\ [Next]_vars /\ WritePage => ListInv' /\ ReqInv' /\ SteadyInv'
  <1> SUFFICES ASSUME PagesInv, WritePage, [Next]_vars PROVE ListInv' /\ ReqInv' /\ SteadyInv'
    OBVIOUS
  <1>1. /\ pc = "page" /\ op' = op /\ req' = req /\ inst' = inst
        /\ pst' = [pst EXCEPT ![req.page] = "active"]
        /\ seq' = [seq EXCEPT ![req.page] = IF used = <<>> THEN 0 ELSE seq[Last(used)] + 1]
    BY DEF WritePage
  <1>2. /\ pst \in [Pages -> PageStates] /\ seq \in [Pages -> Nat]
        /\ used \in Seq(Pages) /\ free \in Seq(Pages)
    BY DEF PagesInv, Types
  <1>3. /\ free # <<>> /\ req.page = Head(free) /\ (req.vic = 0 <=> Len(free) > 1)
        /\ req.vic # 0 => req.vic \in ToSet(used)
        /\ pst[req.page] = "blank"
    BY <1>1 DEF PagesInv, ReqInv
  <1>4. /\ \A i, j \in DOMAIN used : i < j => seq[used[i]] < seq[used[j]]
        /\ \A i, j \in DOMAIN free : free[i] = free[j] => i = j
        /\ ToSet(free) = Pages \ ToSet(used)
        /\ Written = ToSet(used)
    BY <1>1 DEF PagesInv, ListInv, Running, Kept, Moving
  <1>5. PICK x : x = req.page
    OBVIOUS
  <1>6. x \in Pages \ ToSet(used) /\ ToSet(used) \in SUBSET Pages
    BY <1>1, <1>5, ListFacts
  <1>7. PICK m : m = IF used = <<>> THEN 0 ELSE seq[Last(used)] + 1
    OBVIOUS
  <1>8. m \in Nat /\ \A q \in ToSet(used) : seq[q] < m
    <2>1. CASE used = <<>>
      BY <2>1, <1>7 DEF ToSet
    <2>2. CASE used # <<>>
      <3>1. Len(used) \in DOMAIN used /\ Len(used) \in Nat
        BY <2>2, <1>2, ListFacts
      <3>2. m = seq[used[Len(used)]] + 1 /\ used[Len(used)] \in Pages
        BY <2>2, <1>2, <1>7, <3>1 DEF Last
      <3>3. ASSUME NEW i \in DOMAIN used PROVE seq[used[i]] < m
        <4>1. i \in 1..Len(used) /\ used[i] \in Pages
          BY <1>2, <3>3
        <4>2. i = Len(used) \/ seq[used[i]] < seq[used[Len(used)]]
          BY <4>1, <3>1, <1>4
        <4> QED BY <4>1, <4>2, <3>2, <1>2
      <3> QED BY <1>2, <3>2, <3>3 DEF ToSet
    <2> QED BY <2>1, <2>2
  <1>9. /\ \A p \in Pages : pst'[p] = IF p = x THEN "active" ELSE pst[p]
        /\ \A p \in Pages : seq'[p] = IF p = x THEN m ELSE seq[p]
    BY <1>1, <1>2, <1>5, <1>6, <1>7
  <1>10. Written' = Written \cup {x}
    BY <1>6, <1>9 DEF Written
  <1>11. \A p, q \in Written' : seq'[p] = seq'[q] => p = q
    <2> TAKE p, q \in Written'
    <2>1. \A a, b \in Written : seq[a] = seq[b] => a = b
      BY DEF PagesInv, ListInv
    <2>2. p \in ToSet(used) \cup {x} /\ q \in ToSet(used) \cup {x}
      BY <1>10, <1>4
    <2>3. \A a \in ToSet(used) : seq'[a] = seq[a] /\ seq[a] < m /\ seq[a] \in Nat
      BY <1>2, <1>6, <1>8, <1>9
    <2>4. seq'[x] = m
      BY <1>6, <1>9
    <2> QED BY <1>4, <1>8, <2>1, <2>2, <2>3, <2>4
  \* The list of used pages, without the page to empty, ends in the new page.
  <1>12. ASSUME NEW u \in Seq(Pages), ToSet(u) \in SUBSET ToSet(used),
                \A i, j \in DOMAIN u : i < j => seq[u[i]] < seq[u[j]],
                used' = Append(u, x)
         PROVE  /\ \A i, j \in DOMAIN used' : i < j => seq'[used'[i]] < seq'[used'[j]]
                /\ ToSet(used') = ToSet(u) \cup {x}
                /\ used' # <<>> /\ Last(used') = x
    <2>1. /\ used' \in Seq(Pages) /\ used' # <<>>
          /\ Len(used') = Len(u) + 1
          /\ \A i \in 1..Len(u) : used'[i] = u[i]
          /\ used'[Len(u) + 1] = x
      BY <1>6, <1>12, AppendProperties
    <2>2. Len(u) \in Nat /\ DOMAIN u = 1..Len(u) /\ DOMAIN used' = 1..(Len(u) + 1)
      BY <2>1
    <2>3. \A i \in 1..Len(u) : u[i] \in ToSet(used)
      BY <2>2, <1>12 DEF ToSet
    <2>4. ASSUME NEW i \in DOMAIN used', NEW j \in DOMAIN used', i < j
          PROVE  seq'[used'[i]] < seq'[used'[j]]
      <3>1. i \in 1..Len(u) /\ used'[i] = u[i] /\ u[i] \in ToSet(used) /\ u[i] \in Pages
        BY <2>1, <2>2, <2>3, <2>4, <1>6
      <3>2. seq'[used'[i]] = seq[u[i]] /\ seq[u[i]] < m
        BY <3>1, <1>6, <1>8, <1>9
      <3>3. CASE j = Len(u) + 1
        BY <3>2, <3>3, <2>1, <1>6, <1>9
      <3>4. CASE j # Len(u) + 1
        <4>1. j \in 1..Len(u) /\ used'[j] = u[j] /\ u[j] \in ToSet(used) /\ u[j] \in Pages
          BY <3>4, <2>1, <2>2, <2>3, <1>6
        <4>2. seq'[used'[j]] = seq[u[j]]
          BY <4>1, <1>6, <1>9
        <4>3. seq[u[i]] < seq[u[j]]
          BY <3>1, <4>1, <2>2, <2>4, <1>12
        <4> QED BY <3>2, <4>2, <4>3
      <3> QED BY <3>3, <3>4
    <2>5. ToSet(used') = ToSet(u) \cup {x}
      <3>1. ASSUME NEW i \in DOMAIN used' PROVE used'[i] \in ToSet(u) \cup {x}
        BY <2>1, <2>2 DEF ToSet
      <3>2. ASSUME NEW i \in DOMAIN u PROVE \E j \in DOMAIN used' : used'[j] = u[i]
        BY <2>1, <2>2
      <3>3. Len(u) + 1 \in DOMAIN used'
        BY <2>2
      <3> QED BY <2>1, <3>1, <3>2, <3>3 DEF ToSet
    <2>6. Last(used') = x
      BY <2>1 DEF Last
    <2> QED BY <2>1, <2>4, <2>5, <2>6
  <1>13. Steady' = Steady /\ (Steady => \A p \in Pages : pst'[p] # "error")
    BY <1>1, <1>9 DEF Steady, PagesInv, SteadyInv
  <1>14. CASE req.vic = 0
    <2>1. used' = Append(used, x) /\ free' = Tail(free) /\ pc' = "again"
      BY <1>5, <1>14 DEF WritePage
    <2>2. Running' /\ ~Moving' /\ pc' \notin {"erase", "page", "clean", "off"}
      BY <2>1 DEF Running, Moving
    <2>3. /\ \A i, j \in DOMAIN used' : i < j => seq'[used'[i]] < seq'[used'[j]]
          /\ ToSet(used') = ToSet(used) \cup {x} /\ used' # <<>>
      BY <1>2, <1>4, <1>12, <2>1
    <2>4. /\ free' \in Seq(Pages) /\ Len(free') = Len(free) - 1
          /\ \A i \in 1..Len(free') : free'[i] = free[i + 1]
      BY <1>2, <1>3, <2>1, HeadTailProperties
    <2>5. /\ Len(free) \in Nat /\ Len(free) > 1 /\ DOMAIN free = 1..Len(free)
          /\ DOMAIN free' = 1..(Len(free) - 1) /\ free[1] = x
      BY <1>2, <1>3, <1>5, <1>14, <2>4
    <2>6. \A i, j \in DOMAIN free' : free'[i] = free'[j] => i = j
      <3> TAKE i, j \in DOMAIN free'
      <3> HAVE free'[i] = free'[j]
      <3>1. i + 1 \in DOMAIN free /\ j + 1 \in DOMAIN free /\ i \in Int /\ j \in Int
        BY <2>5
      <3>2. free[i + 1] = free[j + 1]
        BY <2>4, <2>5
      <3> QED BY <1>4, <3>1, <3>2
    <2>7. ToSet(free') = ToSet(free) \ {x}
      <3>1. ASSUME NEW i \in DOMAIN free' PROVE free'[i] \in ToSet(free) /\ free'[i] # x
        <4>1. i + 1 \in DOMAIN free /\ 1 \in DOMAIN free /\ i + 1 # 1 /\ free'[i] = free[i + 1]
          BY <2>4, <2>5
        <4> QED BY <4>1, <1>4, <2>5 DEF ToSet
      <3>2. ASSUME NEW i \in DOMAIN free, free[i] # x PROVE \E j \in DOMAIN free' : free'[j] = free[i]
        <4>1. i \in 1..Len(free) /\ i # 1
          BY <2>5, <3>2
        <4>2. i - 1 \in DOMAIN free' /\ (i - 1) + 1 = i
          BY <4>1, <2>5
        <4>3. free'[i - 1] = free[i]
          BY <4>2, <2>4, <2>5
        <4> QED BY <4>2, <4>3
      <3> QED BY <3>1, <3>2 DEF ToSet
    <2>8. ToSet(free') = Pages \ ToSet(used')
      BY <2>3, <2>7, <1>4, <1>6
    <2>9. Written' = Kept'
      BY <1>10, <1>4, <2>2, <2>3 DEF Kept
    <2>10. free' # <<>>
      BY <2>4, <2>5
    <2> QED BY <1>11, <1>13, <2>2, <2>3, <2>6, <2>8, <2>9, <2>10 DEF ListInv, ReqInv, SteadyInv
  <1>15. CASE req.vic # 0
    <2>1. /\ used' = Append(Extract(used, req.vic), x) /\ free' = <<req.vic>>
          /\ pc' = "candidate"
      BY <1>5, <1>15 DEF WritePage
    <2>2. PICK v : v = req.vic
      OBVIOUS
    <2>3. PICK u : u = Extract(used, v)
      OBVIOUS
    <2>4. v \in ToSet(used) /\ v \in Pages /\ v # x
      BY <1>3, <1>6, <1>15, <2>2
    <2>5. \A i, j \in DOMAIN used : used[i] = used[j] => i = j
      <3> TAKE i, j \in DOMAIN used
      <3>1. i \in Nat /\ j \in Nat /\ seq[used[i]] \in Nat /\ seq[used[j]] \in Nat
        BY <1>2
      <3> QED BY <1>4, <3>1
    <2>6. /\ u \in Seq(Pages) /\ Len(u) = Len(used) - 1 /\ ToSet(u) = ToSet(used) \ {v}
          /\ \A i, j \in DOMAIN u : i < j =>
                \E k, l \in DOMAIN used : k < l /\ u[i] = used[k] /\ u[j] = used[l]
      BY <1>2, <2>3, <2>4, <2>5, ExtractIs
    <2>7. \A i, j \in DOMAIN u : i < j => seq[u[i]] < seq[u[j]]
      BY <1>4, <2>6
    <2>8. /\ \A i, j \in DOMAIN used' : i < j => seq'[used'[i]] < seq'[used'[j]]
          /\ ToSet(used') = ToSet(u) \cup {x} /\ used' # <<>> /\ Last(used') = x
      BY <1>12, <2>1, <2>2, <2>3, <2>6, <2>7
    <2>9. Running' /\ Moving' /\ pc' \notin {"erase", "page", "clean", "off"}
      BY <2>1 DEF Running, Moving
    <2>10. free' = <<v>> /\ DOMAIN free' = {1} /\ ToSet(free') = {v} /\ free' # <<>>
      BY <2>1, <2>2 DEF ToSet
    <2>11. ToSet(free) = {x}
      <3>1. Len(free) = 1 /\ DOMAIN free = 1..Len(free)
        <4>1. Len(free) \in Nat /\ Len(free) # 0 /\ ~(Len(free) > 1)
          <5>1. Len(free) \in Nat \ {0}
            BY <1>2, <1>3, EmptySeq
          <5>2. ~(Len(free) > 1)
            BY <1>3, <1>15
          <5> QED BY <5>1, <5>2
        <4>2. \A n \in Nat : n # 0 => n = 1 \/ n > 1
          OBVIOUS
        <4>3. Len(free) = 1
          BY <4>1, <4>2, Zenon
        <4> QED BY <4>3, <1>2
      <3>2. free[1] = x
        BY <1>2, <1>3, <1>5
      <3> QED BY <3>1, <3>2 DEF ToSet
    <2>12. ToSet(free') = Pages \ ToSet(used')
      BY <1>4, <1>6, <2>4, <2>6, <2>8, <2>10, <2>11
    <2>13. Written' = Kept'
      <3>1. Kept' = ToSet(used') \cup {v}
        BY <1>1, <2>2, <2>9 DEF Kept
      <3> QED BY <3>1, <1>10, <1>4, <2>4, <2>6, <2>8
    <2>14. ListInv'
      BY <1>11, <2>8, <2>9, <2>10, <2>12, <2>13 DEF ListInv
    <2>15. ReqInv'
      BY <1>1, <1>5, <2>2, <2>8, <2>9, <2>10 DEF ReqInv
    <2>16. SteadyInv'
      BY <1>13, <2>9, <2>10 DEF SteadyInv
    <2> QED BY <2>14, <2>15, <2>16
  <1> QED BY <1>14, <1>15

\* The page that is wanted, and the page to be emptied into it.
LEMMA RequestLists == PagesInv /\ [Next]_vars /\ Request => ListInv' /\ ReqInv' /\ SteadyInv'
  <1> SUFFICES ASSUME PagesInv, Request, [Next]_vars PROVE ListInv' /\ ReqInv' /\ SteadyInv'
    OBVIOUS
  <1>1. pc = "request" /\ UNCHANGED <<pst, seq, used, free, inst>>
    BY DEF Request, flash
  <1>2. Written' = Written /\ Running /\ ~Moving /\ pc \notin {"erase", "page"}
    BY <1>1 DEF Written, Running, Moving
  <1>3. CASE NoSpace
    <2>1. pc' \in {"undo", "idle"}
      BY <1>3, NoSpaceTypes DEF PagesInv
    <2> QED BY <1>1, <1>2, <2>1, QuietStep
  <1>4. CASE /\ ~(free = <<>> \/ (Len(free) = 1 /\ Victims = {}))
             /\ req' = [page |-> Head(free), from |-> 1,
                        vic |-> IF Len(free) = 1 THEN Victim ELSE 0]
             /\ pc' = IF pst[Head(free)] = "blank" THEN "page" ELSE "erase"
             /\ UNCHANGED <<op, marks, cnt, ret, snap>>
    <2>1. /\ used \in Seq(Pages) /\ free \in Seq(Pages) /\ cnt \in [Pages -> Int]
          /\ seq \in [Pages -> Nat]
      BY DEF PagesInv, Types
    <2>2. op.fn = "put"
      BY <1>1 DEF PagesInv, CallInv
    <2>3. Len(free) = 1 => Victim \in ToSet(used) /\ Victim \in Pages
      BY <1>4, <2>1, VictimIs
    <2>4. Len(free) \in Nat /\ Len(free) # 0
      BY <1>4, <2>1, EmptySeq
    <2>5. req'.vic = 0 <=> Len(free) > 1
      <3>1. Len(free) = 1 => Victim # 0
        BY <2>3, PagesFinite DEF Pages
      <3>2. req'.vic = IF Len(free) = 1 THEN Victim ELSE 0
        BY <1>4
      <3>3. \A n \in Nat : n # 0 => n = 1 \/ n > 1
        OBVIOUS
      <3>4. ~(1 > 1)
        OBVIOUS
      <3>5. CASE Len(free) = 1
        BY <3>1, <3>2, <3>4, <3>5, Zenon
      <3>6. CASE Len(free) # 1
        BY <2>4, <3>2, <3>3, <3>6, Zenon
      <3> QED BY <3>5, <3>6
    <2>6. req'.vic # 0 => req'.vic \in ToSet(used)
      BY <1>4, <2>3
    <2>7. Running' /\ ~Moving' /\ pc' \in {"erase", "page"} /\ Kept' = Kept
      BY <1>1, <1>2, <1>4 DEF Running, Moving, Kept
    <2>8. used # <<>>
      BY <1>2, ListFacts
    <2>9. ListInv'
      BY <1>1, <1>2, <2>7, <2>8 DEF PagesInv, ListInv
    <2>10. ReqInv'
      BY <1>1, <1>4, <2>2, <2>5, <2>6, <2>7 DEF ReqInv
    <2>11. SteadyInv'
      BY <1>1, <1>2, <2>7 DEF PagesInv, SteadyInv, Steady
    <2> QED BY <2>9, <2>10, <2>11
  <1> QED BY <1>3, <1>4, Zenon DEF Request

\* The free page that is erased before it gets a header.
LEMMA ErasePageLists == PagesInv /\ [Next]_vars /\ ErasePage => ListInv' /\ ReqInv' /\ SteadyInv'
  <1> SUFFICES ASSUME PagesInv, ErasePage, [Next]_vars PROVE ListInv' /\ ReqInv' /\ SteadyInv'
    OBVIOUS
  <1>1. /\ pc = "erase" /\ pc' = "page" /\ UNCHANGED <<used, free, op, req, inst>>
        /\ pst' = [pst EXCEPT ![req.page] = "blank"] /\ seq' = [seq EXCEPT ![req.page] = 0]
    BY DEF ErasePage, Erased, ram
  <1>2. pst \in [Pages -> PageStates] /\ seq \in [Pages -> Nat] /\ used \in Seq(Pages)
    BY DEF PagesInv, Types
  <1>3. Running /\ Running' /\ ~Moving /\ ~Moving' /\ Kept = ToSet(used) /\ Kept' = Kept
    BY <1>1 DEF Running, Moving, Kept
  <1>4. Written = ToSet(used) /\ req.page \in Pages \ ToSet(used)
    BY <1>1, <1>3, ListFacts DEF PagesInv, ListInv
  <1>5. Written' = Written
    BY <1>1, <1>2, <1>4 DEF Written
  <1>6. \A p \in Written : seq'[p] = seq[p]
    BY <1>1, <1>2, <1>4 DEF Written
  <1>7. \A i \in DOMAIN used : used[i] \in Written
    BY <1>4 DEF ToSet
  <1>8. ListInv'
    BY <1>1, <1>3, <1>5, <1>6, <1>7 DEF PagesInv, ListInv
  <1>9. ReqInv'
    <2>1. pst'[req.page] = "blank"
      BY <1>1, <1>2, <1>4
    <2> QED BY <1>1, <1>3, <2>1 DEF PagesInv, ReqInv
  <1>10. SteadyInv'
    BY <1>1, <1>2, <1>3 DEF PagesInv, SteadyInv, Steady
  <1> QED BY <1>8, <1>9, <1>10

\* The page that is erased once its entries are elsewhere.
LEMMA EraseVictimLists ==
    PagesInv /\ [Next]_vars /\ EraseVictim => ListInv' /\ ReqInv' /\ SteadyInv'
  <1> SUFFICES ASSUME PagesInv, EraseVictim, [Next]_vars PROVE ListInv' /\ ReqInv' /\ SteadyInv'
    OBVIOUS
  <1>1. /\ pc = "copy" /\ pc' = "again" /\ UNCHANGED <<used, free, op, req, inst>>
        /\ pst' = [pst EXCEPT ![req.vic] = "blank"] /\ seq' = [seq EXCEPT ![req.vic] = 0]
    BY DEF EraseVictim, Erased
  <1>2. pst \in [Pages -> PageStates] /\ seq \in [Pages -> Nat] /\ used \in Seq(Pages)
    BY DEF PagesInv, Types
  <1>3. Running /\ Running' /\ Moving /\ ~Moving' /\ Kept' = ToSet(used)
    BY <1>1 DEF Running, Moving, Kept
  <1>4. Written = ToSet(used) \cup {req.vic} /\ req.vic \in Pages \ ToSet(used) /\ used # <<>>
    BY <1>3, ListFacts DEF PagesInv, ListInv, Kept
  <1>5. Written' = ToSet(used)
    BY <1>1, <1>2, <1>4 DEF Written
  <1>6. \A p \in ToSet(used) : p \in Written /\ p \in Pages /\ seq'[p] = seq[p]
    BY <1>1, <1>2, <1>4 DEF Written
  <1>7. \A i \in DOMAIN used : used[i] \in ToSet(used)
    BY DEF ToSet
  <1>8. ListInv'
    BY <1>1, <1>3, <1>4, <1>5, <1>6, <1>7 DEF PagesInv, ListInv
  <1>9. ReqInv'
    BY <1>1, <1>3 DEF ReqInv
  <1>10. SteadyInv'
    BY <1>1, <1>2, <1>3 DEF PagesInv, SteadyInv, Steady
  <1> QED BY <1>8, <1>9, <1>10

\* The area, one sector after the other.
LEMMA CleanLists ==
    PagesInv /\ [Next]_vars /\ (CleanStart \/ CleanSector) => ListInv' /\ ReqInv' /\ SteadyInv'
  <1> SUFFICES ASSUME PagesInv, CleanStart \/ CleanSector, [Next]_vars
               PROVE ListInv' /\ ReqInv' /\ SteadyInv'
    OBVIOUS
  <1>1. /\ pst \in [Pages -> PageStates] /\ seq \in [Pages -> Nat]
        /\ req \in [page : 0..NumPages, vic : 0..NumPages, from : Nat]
        /\ NumPages \in Nat /\ NumPages >= 2
    BY PagesFinite DEF PagesInv, Types
  <1>2. CASE CleanStart
    <2>1. pc' = "clean" /\ req'.page = 1 /\ UNCHANGED <<pst, seq, inst>>
      BY <1>2 DEF CleanStart, NoReq, flash
    <2>2. ~Running' /\ ~Moving' /\ Written' = Written /\ 1 \in Pages
      BY <1>1, <2>1 DEF Running, Moving, Written, Pages
    <2>3. ListInv'
      BY <2>1, <2>2 DEF PagesInv, ListInv
    <2>4. ReqInv'
      BY <2>1, <2>2 DEF ReqInv
    <2>5. SteadyInv'
      BY <2>1, <2>2 DEF PagesInv, SteadyInv, Steady
    <2> QED BY <2>3, <2>4, <2>5
  <1>3. CASE CleanSector
    <2>1. /\ pc = "clean" /\ UNCHANGED inst
          /\ pst' = [pst EXCEPT ![req.page] = "blank"] /\ seq' = [seq EXCEPT ![req.page] = 0]
      BY <1>3 DEF CleanSector, Erased
    <2>2. req.page \in Pages /\ \A p \in 1..(req.page - 1) : pst[p] = "blank"
      BY <2>1 DEF PagesInv, ReqInv
    <2>3. \A p \in Pages : /\ pst'[p] = IF p = req.page THEN "blank" ELSE pst[p]
                           /\ p # req.page => seq'[p] = seq[p]
      BY <1>1, <2>1, <2>2
    <2>4. \A p \in Written' : p \in Written /\ seq'[p] = seq[p]
      BY <2>3 DEF Written
    <2>5. \A p, q \in Written' : seq'[p] = seq'[q] => p = q
      BY <2>4 DEF PagesInv, ListInv
    <2>6. Steady' = Steady /\ (Steady => \A p \in Pages : pst'[p] # "error")
      BY <2>1, <2>3 DEF PagesInv, SteadyInv, Steady
    <2>7. Written' # Pages
      BY <2>2, <2>3 DEF Written
    <2>8. CASE req.page < NumPages /\ req' = [req EXCEPT !.page = @ + 1] /\ UNCHANGED pc
      <3>1. req'.page = req.page + 1 /\ req.page + 1 \in Pages
        BY <1>1, <2>2, <2>8 DEF Pages
      <3>2. \A p \in 1..(req'.page - 1) : pst'[p] = "blank"
        BY <1>1, <2>2, <2>3, <3>1 DEF Pages
      <3>3. ~Running' /\ ~Moving' /\ pc' = "clean"
        BY <2>1, <2>8 DEF Running, Moving
      <3> QED BY <2>5, <2>6, <3>1, <3>2, <3>3 DEF ListInv, ReqInv, SteadyInv
    <2>9. CASE pc' = "off"
      <3>1. ~Running' /\ ~Moving'
        BY <2>9 DEF Running, Moving
      <3> QED BY <2>5, <2>6, <2>7, <2>9, <3>1 DEF ListInv, ReqInv, SteadyInv
    <2> QED BY <1>3, <2>8, <2>9, Zenon DEF CleanSector
  <1> QED BY <1>2, <1>3

\* The lists pages_load builds.
LEMMA BootLists == PagesInv /\ [Next]_vars /\ Boot => ListInv' /\ ReqInv' /\ SteadyInv'
  <1> SUFFICES ASSUME PagesInv, Boot, [Next]_vars PROVE ListInv' /\ ReqInv' /\ SteadyInv'
    OBVIOUS
  <1>1. /\ pc = "off" /\ used' = LoadUsed /\ free' = LoadFree
        /\ UNCHANGED <<pst, seq, op, inst>>
    BY DEF Boot
  <1>2. /\ seq \in [Pages -> Nat]
        /\ \A p, q \in Written : seq[p] = seq[q] => p = q
    BY DEF PagesInv, Types, ListInv
  <1>3. PICK u : u = LoadUsed
    OBVIOUS
  <1>4. PICK f : f = LoadFree
    OBVIOUS
  <1>5. /\ u \in Seq(Pages) /\ ToSet(u) = Written
        /\ \A i, j \in DOMAIN u : i < j => seq[u[i]] < seq[u[j]]
    BY <1>2, <1>3, LoadUsedIs
  <1>6. /\ f \in Seq(Pages) /\ ToSet(f) = Pages \ Written
        /\ Len(f) = Cardinality(Pages \ Written)
        /\ \A i, j \in DOMAIN f : f[i] = f[j] => i = j
    BY <1>4, LoadFreeIs
  <1>7. used' = u /\ free' = f /\ Written' = Written /\ Steady' = Steady
    BY <1>1, <1>3, <1>4 DEF Written, Steady
  <1>8. Steady => f # <<>> /\ \A p \in Pages : pst'[p] # "error"
    <2>1. Steady => Pages \ Written # {} /\ \A p \in Pages : pst'[p] # "error"
      BY <1>1 DEF PagesInv, SteadyInv, Written
    <2>2. f = <<>> => ToSet(f) = {}
      BY DEF ToSet
    <2> QED BY <1>6, <2>1, <2>2
  <1>9. CASE /\ u = <<>>
             /\ req' = [page |-> Head(f), vic |-> 0, from |-> 1]
             /\ pc' = IF pst[Head(f)] = "blank" THEN "page" ELSE "erase"
    <2>1. Running' /\ ~Moving' /\ pc' \in {"erase", "page"}
      BY <1>9 DEF Running, Moving
    <2>2. op.fn # "put"
      BY <1>1 DEF PagesInv, CallInv, NoOp
    <2>3. ToSet(u) = {}
      BY <1>9 DEF ToSet
    <2>4. Len(f) > 1
      <3>1. Pages \ Written = Pages
        BY <2>3, <1>5
      <3> QED BY <3>1, <1>6, PagesFinite
    <2>5. Kept' = {}
      BY <1>7, <2>1, <2>3 DEF Kept
    <2>6. ListInv'
      BY <1>1, <1>2, <1>5, <1>6, <1>7, <2>1, <2>2, <2>3, <2>5 DEF ListInv
    <2>7. f # <<>>
      BY <2>4, <1>6
    <2>8. ReqInv'
      BY <1>1, <1>7, <1>9, <2>1, <2>2, <2>4, <2>7 DEF ReqInv
    <2>9. SteadyInv'
      BY <1>7, <1>8, <2>1 DEF SteadyInv
    <2> QED BY <2>6, <2>8, <2>9
  <1>10. CASE u # <<>> /\ pc' = "idle"
    <2>1. Running' /\ ~Moving' /\ Kept' = Written
      BY <1>5, <1>7, <1>10 DEF Running, Moving, Kept
    <2>2. ListInv'
      BY <1>1, <1>2, <1>5, <1>6, <1>7, <1>10, <2>1 DEF ListInv
    <2>3. ReqInv'
      BY <1>10, <2>1 DEF ReqInv
    <2>4. SteadyInv'
      BY <1>7, <1>8, <1>10, <2>1 DEF SteadyInv
    <2> QED BY <2>2, <2>3, <2>4
  <1>11. \/ /\ u = <<>>
            /\ req' = [page |-> Head(f), vic |-> 0, from |-> 1]
            /\ pc' = IF pst[Head(f)] = "blank" THEN "page" ELSE "erase"
         \/ u # <<>> /\ pc' = "idle"
    BY <1>3, <1>4, Zenon DEF Boot
  <1> QED BY <1>9, <1>10, <1>11

\* The lists are lost, what the flash holds is not.
LEMMA OffLists == PagesInv /\ [Next]_vars /\ (Reboot \/ PowerCut) => ListInv' /\ ReqInv' /\ SteadyInv'
  <1> SUFFICES ASSUME PagesInv, Reboot \/ PowerCut, [Next]_vars
               PROVE ListInv' /\ ReqInv' /\ SteadyInv'
    OBVIOUS
  <1>1. pc' = "off" /\ inst' = inst
    BY DEF Reboot, PowerCut, LoseRam
  <1>2. ~Running' /\ ~Moving' /\ Steady' = Steady
    BY <1>1 DEF Running, Moving, Steady
  <1>3. ReqInv'
    BY <1>1, <1>2 DEF ReqInv
  <1>4. pst \in [Pages -> PageStates] /\ seq \in [Pages -> Nat]
    BY DEF PagesInv, Types
  <1>5. CASE UNCHANGED flash
    <2>1. UNCHANGED <<pst, seq>> /\ Written' = Written
      BY <1>5 DEF flash, Written
    <2>2. ListInv'
      BY <1>2, <2>1 DEF PagesInv, ListInv
    <2>3. SteadyInv'
      <3>1. CASE Reboot
        <4>1. pc = "idle"
          BY <3>1 DEF Reboot
        <4>2. Running /\ Written = ToSet(used) /\ ToSet(free) = Pages \ ToSet(used)
          BY <4>1 DEF PagesInv, ListInv, Running, Kept, Moving
        <4>3. Steady => ToSet(free) # {}
          BY <4>2, ListFacts DEF PagesInv, SteadyInv
        <4> QED BY <1>2, <2>1, <4>2, <4>3 DEF PagesInv, SteadyInv
      <3>2. CASE PowerCut
        BY <1>2, <3>2 DEF PowerCut, SteadyInv, Steady
      <3> QED BY <3>1, <3>2
    <2> QED BY <1>3, <2>2, <2>3
  <1>6. CASE PowerCut /\ \E p \in InWork : Erased(p, "error")
    <2>1. PICK p : pst' = [pst EXCEPT ![p] = "error"] /\ seq' = [seq EXCEPT ![p] = 0]
      BY <1>6 DEF Erased
    <2>2. \A q \in Written' : q \in Written /\ seq'[q] = seq[q]
      BY <1>4, <2>1 DEF Written
    <2>3. ListInv'
      BY <1>2, <2>2 DEF PagesInv, ListInv
    <2>4. SteadyInv'
      BY <1>2, <1>6 DEF PowerCut, SteadyInv, Steady
    <2> QED BY <1>3, <2>3, <2>4
  <1> QED BY <1>5, <1>6, Zenon DEF PowerCut, Reboot

LEMMA ListStep == PagesInv /\ [Next]_vars => ListInv' /\ ReqInv' /\ SteadyInv'
  <1> SUFFICES ASSUME PagesInv, [Next]_vars PROVE ListInv' /\ ReqInv' /\ SteadyInv'
    OBVIOUS
  <1>1. ASSUME NEW k \in Keys, NEW v \in Vals, PutStart(k, v) PROVE ListInv' /\ ReqInv' /\ SteadyInv'
    <2>1. /\ UNCHANGED <<used, free, seq, inst, pst>> /\ pc = "idle" /\ pc' \in {"room", "delete"}
      BY <1>1 DEF PutStart, Starts, flash
    <2> QED BY <2>1, QuietStep DEF Written, Running, Moving
  <1>2. ASSUME NEW k \in Keys, DelStart(k) PROVE ListInv' /\ ReqInv' /\ SteadyInv'
    <2>1. /\ UNCHANGED <<used, free, seq, inst, pst>> /\ pc = "idle" /\ pc' = "delete"
      BY <1>2 DEF DelStart, Starts, flash
    <2> QED BY <2>1, QuietStep DEF Written, Running, Moving
  <1>3. ASSUME MarkState PROVE ListInv' /\ ReqInv' /\ SteadyInv'
    <2>1. UNCHANGED <<used, free, seq, inst, pst>>
      BY <1>3 DEF MarkState, ram
    <2>2. CASE UNCHANGED <<pc, op, req>>
      BY <2>1, <2>2 DEF PagesInv, ListInv, ReqInv, SteadyInv, Written, Kept, Running, Moving,
                        Steady
    <2>3. CASE pc \in {"delete", "commit", "undo"} /\ pc' \in {"room", "idle"}
      BY <2>1, <2>3, QuietStep DEF Written, Running, Moving
    <2> QED BY <1>3, <2>2, <2>3 DEF MarkState, Return
  <1>5. ASSUME HasRoom PROVE ListInv' /\ ReqInv' /\ SteadyInv'
    <2>1. UNCHANGED <<used, free, seq, inst, pst>> /\ pc = "room" /\ pc' = "header"
      BY <1>5 DEF HasRoom, flash, ram
    <2> QED BY <2>1, QuietStep DEF Written, Running, Moving
  <1>6. ASSUME MarkFull PROVE ListInv' /\ ReqInv' /\ SteadyInv'
    <2>1. /\ UNCHANGED <<used, free, seq, inst>> /\ pc = "room" /\ pc' = "request"
          /\ pst' = [pst EXCEPT ![Last(used)] = "full"]
      BY <1>6 DEF MarkFull, ram
    <2>2. Running /\ ~Moving /\ used # <<>>
      BY <2>1, ListFacts DEF Running, Moving
    <2>3. Last(used) \in Written /\ pst \in [Pages -> PageStates]
      BY <2>2, ListFacts DEF PagesInv, Types, ListInv, Kept
    <2>4. Written' = Written /\ \A p \in Pages : pst'[p] = "error" => pst[p] = "error"
      BY <2>1, <2>3 DEF Written
    <2> QED BY <2>1, <2>2, <2>4, QuietStep
  <1>7. ASSUME PageReady PROVE ListInv' /\ ReqInv' /\ SteadyInv'
    <2>1. UNCHANGED <<used, free, seq, inst, pst>> /\ pc = "again"
      BY <1>7 DEF PageReady, flash
    <2>2. pc' \in {"header", "undo", "idle"}
      BY <1>7, CallSteps
    <2> QED BY <2>1, <2>2, QuietStep DEF Written, Running, Moving
  <1>8. ASSUME WriteHeader \/ WriteData PROVE ListInv' /\ ReqInv' /\ SteadyInv'
    <2>1. UNCHANGED <<used, free, seq, inst, pst>>
      BY <1>8 DEF WriteHeader, WriteData
    <2>2. pc \in {"header", "data"} /\ pc' \in {"data", "commit"}
      BY <1>8, CallSteps
    <2> QED BY <2>1, <2>2, QuietStep DEF Written, Running, Moving
  <1>9. ASSUME MarkCandidate PROVE ListInv' /\ ReqInv' /\ SteadyInv'
    <2>1. /\ UNCHANGED <<used, free, seq, inst, req>> /\ pc = "candidate" /\ pc' = "copy"
          /\ pst' = [pst EXCEPT ![req.vic] = "candidate"]
      BY <1>9 DEF MarkCandidate, ram
    <2>2. Moving /\ Moving'
      BY <2>1 DEF Moving
    <2>3. req.vic \in Written /\ pst \in [Pages -> PageStates]
      BY <2>2, ListFacts DEF PagesInv, Types
    <2>4. Written' = Written /\ \A p \in Pages : pst'[p] = "error" => pst[p] = "error"
      BY <2>1, <2>3 DEF Written
    <2> QED BY <2>1, <2>2, <2>4, MoveStep
  <1>10. ASSUME CopyEntry \/ CopyState PROVE ListInv' /\ ReqInv' /\ SteadyInv'
    <2>1. UNCHANGED <<used, free, seq, inst, pst>>
      BY <1>10 DEF CopyEntry, CopyState, ram
    <2>2. Moving /\ Moving'
      BY <1>10 DEF CopyEntry, CopyState, Moving
    <2>3. req'.vic = req.vic /\ req'.page = req.page
      <3>1. req \in [page : 0..NumPages, vic : 0..NumPages, from : Nat]
        BY DEF PagesInv, Types
      <3>2. req' = [req EXCEPT !.from = Min(ToCopy) + 1] \/ req' = req
        BY <1>10 DEF CopyEntry, CopyState
      <3> QED BY <3>1, <3>2
    <2> QED BY <2>1, <2>2, <2>3, MoveStep DEF Written
  <1>11. CASE UNCHANGED vars
    <2>1. UNCHANGED <<used, free, seq, inst, pst, pc, req, op>>
      BY <1>11 DEF vars, flash, ram
    <2> QED BY <2>1 DEF PagesInv, ListInv, ReqInv, SteadyInv, Written, Kept, Running, Moving, Steady

  <1> QED
    BY <1>1, <1>2, <1>3, <1>5, <1>6, <1>7, <1>8, <1>9, <1>10, <1>11, WritePageLists,
       RequestLists, ErasePageLists, EraseVictimLists, CleanLists, BootLists, OffLists,
       Zenon DEF Next, Step

\* nvds_page_used and nvds_page_free divide the pages between them at every flash
\* write of a call, the used ones in the order of their numbers, no two of which
\* are equal; a page that is emptied is in use until its successor is.
THEOREM PagesSafe == Spec => []PagesInv
  <1>1. Init => PagesInv
    BY PagesInit
  <1>2. PagesInv /\ [Next]_vars => PagesInv'
    BY TypesStep, CallStep, PutStep, ListStep DEF PagesInv
  <1> QED BY <1>1, <1>2, PTL DEF Spec

\* new_page_request never gives away the last free page without emptying
\* another: in every idle state of a store with a steady supply a page is free.
THEOREM FreePageIsKept == Spec => []FreePageKept
  <1>1. PagesInv => FreePageKept
    BY DEF PagesInv, SteadyInv, FreePageKept, Steady, Running
  <1> QED BY <1>1, PagesSafe, PTL

=============================================================================
