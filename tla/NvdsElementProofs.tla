------------------------- MODULE NvdsElementProofs -------------------------
(***************************************************************************)
(* Proofs about the elements of a key on all pages of Nvds: a key has one, *)
(* at every step of a put, of a page move and of a boot, what is read from *)
(* it stays the same wherever it is moved, and so Nvds implements          *)
(* NvdsStore.                                                              *)
(***************************************************************************)
EXTENDS NvdsEntryProofs

-----------------------------------------------------------------------------
(* The elements of the keys                                                *)

\* The entry just copied, whose state is not written yet.
Copied == IF pc = "copied" THEN {<<req.page, nxt[req.page] - 1>>} ELSE {}
\* The headers in use on the pages P.
Heads(P) ==
    {x \in P \X Slots : /\ est[x[1]][x[2]] = "used" \/ x \in Copied
                        /\ At(x).c = "head"}

\* The pages that are searched, and, while one is emptied into another, the pages with
\* the one that is emptied in place of its copy.
Searched == {p \in Pages : pst[p] \in {"active", "full"}}
Visible == IF Moving THEN Searched \ {req.vic} ELSE Searched
Source == IF Moving THEN (Searched \cup {req.vic}) \ {req.page} ELSE Searched

\* Two elements may share a key only as parts of a bulk element, which has one
\* bulkinfo.
Friends(a, b) ==
    a.k = b.k => /\ a.t \in {"bulk", "bulkinfo"} /\ b.t \in {"bulk", "bulkinfo"}
                 /\ "bulk" \in {a.t, b.t}
Alone(H) == \A x, y \in H : x # y => Friends(At(x), At(y))

\* Without a steady supply there are small elements only.
KindInv ==
    ~Steady => \A p \in Pages : \A i \in Slots :
                  slot[p][i].c = "head" => slot[p][i].t = "small"

\* A bulk element has its bulkinfo, unless a call is writing or deleting it.
Claimed(k) == op.fn \in {"put", "del"} /\ op.k = k
InfoInv ==
    Steady /\ pc # "clean" =>
    \A x \in Heads(Source) :
        At(x).t = "bulk" /\ ~Claimed(At(x).k) =>
        \E y \in Heads(Source) : At(y).t = "bulkinfo" /\ At(y).k = At(x).k

\* The header a put has written last, and its type.
NewHead == <<Last(used), nxt[Last(used)] - 1 - (IF pc = "data" THEN 0 ELSE op.len)>>
NewType ==
    IF op.v \in SmallVals THEN "small"
    ELSE IF op.v \in MiddleVals THEN "middle"
    ELSE IF Fragment THEN "bulk" ELSE "bulkinfo"

\* The elements a call deletes are those to be marked; a put then has written
\* nothing but fragments before its last header.
DeleteInv ==
    pc \in {"delete", "undo"} =>
        /\ \A x \in Heads(Source) : At(x).k = op.k => x \in ToSet(marks.at)
        /\ \A y \in ToSet(marks.at) : At(y).c = "head" => At(y).k = op.k
WriteInv ==
    /\ op.fn = "put" /\ pc \notin {"delete", "undo"} =>
         \A x \in Heads(Source) : At(x).k = op.k =>
            \/ At(x).t = "bulk" /\ op.v \in BulkVals
            \/ pc = "commit" /\ x = NewHead
    /\ pc \in {"data", "commit"} =>
         /\ NewHead[2] \in Slots
         /\ At(NewHead).c = "head" => At(NewHead).k = op.k /\ At(NewHead).t = NewType
         /\ Steady => At(NewHead).c = "head"
    /\ pc = "commit" =>
         /\ \A y \in ToSet(marks.at) : y = NewHead \/ At(y).c # "head"
         /\ NewHead \in ToSet(marks.at) \/ est[NewHead[1]][NewHead[2]] = "used"

\* What is copied comes from the page that is emptied, and nothing is forgotten.
OriginInv ==
    Moving =>
    /\ \A x \in Heads({req.page}) : \E i \in 1..(req.from - 1) :
          est[req.vic][i] = "used" /\ slot[req.vic][i] = At(x)
    /\ Steady => \A y \in Heads({req.vic}) : y[2] < req.from =>
          \E x \in Heads({req.page}) : At(x) = At(y)

\* A page stays CANDIDATE after a power cut only: then no page is free, and it is
\* not the page that is written.
CandidateInv ==
    /\ pc # "clean" => \A p \in Pages : pst[p] = "candidate" =>
          /\ Written = Pages
          /\ Moving => p = req.vic /\ pc # "candidate"
          /\ \E q \in Written : seq[p] < seq[q]
    /\ Moving => /\ seq[req.vic] < seq[req.page] /\ pst[req.page] = "active"
                 /\ pc # "candidate" => pst[req.vic] = "candidate"

\* A store that was just erased.
FreshInv ==
    /\ pc = "again" /\ op.fn # "put" =>
         \A p \in Pages : pst[p] # "candidate" /\ \A i \in Slots : est[p][i] = "free"
    /\ Moving => op.fn = "put"

AloneInv == Alone(Heads(Source)) /\ Alone(Heads(Visible))
OwnInv == AloneInv /\ InfoInv /\ DeleteInv /\ WriteInv /\ OriginInv
ElementInv == KindInv /\ FreshInv /\ (cut # "clean" => CandidateInv /\ OwnInv)

-----------------------------------------------------------------------------
(* What the steps do to the elements                                       *)

IsHead(x) == (est[x[1]][x[2]] = "used" \/ x \in Copied) /\ At(x).c = "head"

\* What the proofs keep needing of the elements.
LEMMA HeadFacts ==
    ASSUME StoreInv
    PROVE  /\ \A P : \A x : x \in Heads(P) <=> x \in P \X Slots /\ IsHead(x)
           /\ Source \in SUBSET Pages /\ Visible \in SUBSET Pages
           /\ Heads(Source) \in SUBSET (Pages \X Slots)
           /\ Heads(Visible) \in SUBSET (Pages \X Slots)
           /\ ~Moving => Source = Searched /\ Visible = Searched
           /\ N \in Nat \ {0} /\ Slots = 1..N
  <1>1. \A P : \A x : x \in Heads(P) <=> x \in P \X Slots /\ IsHead(x)
    BY DEF Heads, IsHead
  <1>2. Moving => req.vic \in Pages
    BY ListFacts DEF StoreInv
  <1>3. Source \in SUBSET Pages /\ Visible \in SUBSET Pages
    BY <1>2 DEF Source, Visible, Searched
  <1>4. Heads(Source) \in SUBSET (Pages \X Slots) /\ Heads(Visible) \in SUBSET (Pages \X Slots)
    BY <1>3 DEF Heads
  <1>5. ~Moving => Source = Searched /\ Visible = Searched
    BY DEF Source, Visible
  <1>6. N \in Nat \ {0} /\ Slots = 1..N
    BY ListFacts DEF StoreInv
  <1> QED BY <1>1, <1>3, <1>4, <1>5, <1>6

\* A place on a page.
LEMMA AtIs ==
    \A p, i : <<p, i>>[1] = p /\ <<p, i>>[2] = i /\ At(<<p, i>>) = slot[p][i]
  BY DEF At

\* Elements that are left as they are stay alone.
LEMMA AloneStays ==
    ASSUME NEW H, NEW G, Alone(H), G \subseteq H, \A x \in G : At(x)' = At(x)
    PROVE  Alone(G)'
  <1> SUFFICES ASSUME NEW x \in G, NEW y \in G, x # y PROVE Friends(At(x)', At(y)')
    BY DEF Alone, Friends
  <1>1. Friends(At(x), At(y))
    BY DEF Alone
  <1> QED BY <1>1

\* A step that leaves the elements alone.
Calm ==
    /\ Slots' = Slots /\ inst' = inst
    /\ \A x \in Pages \X Slots : IsHead(x)' <=> IsHead(x)
    /\ \A x \in Pages \X Slots : IsHead(x) => At(x)' = At(x)

LEMMA CalmHeads ==
    ASSUME Calm, NEW P \in SUBSET Pages
    PROVE  /\ Heads(P)' = Heads(P)
           /\ \A x \in Heads(P) : At(x)' = At(x)
  <1>1. Heads(P) = {x \in P \X Slots : IsHead(x)}
    BY DEF Heads, IsHead
  <1>2. Heads(P)' = {x \in P \X Slots' : IsHead(x)'}
    BY DEF Heads, IsHead
  <1>3. \A x \in P \X Slots : x \in Pages \X Slots
    OBVIOUS
  <1> QED BY <1>1, <1>2, <1>3 DEF Calm

LEMMA CalmOwn ==
    ASSUME StoreInv, Calm, Source' = Source, Visible' = Visible
    PROVE  /\ Heads(Source)' = Heads(Source) /\ Heads(Visible)' = Heads(Visible)
           /\ \A x \in Heads(Source) : At(x)' = At(x)
           /\ \A x \in Heads(Visible) : At(x)' = At(x)
           /\ Alone(Heads(Source)) => Alone(Heads(Source))'
           /\ Alone(Heads(Visible)) => Alone(Heads(Visible))'
  <1>1. PICK S : S = Source
    OBVIOUS
  <1>2. PICK V : V = Visible
    OBVIOUS
  <1>3. S \in SUBSET Pages /\ V \in SUBSET Pages
    BY <1>1, <1>2, HeadFacts
  <1>4. /\ Heads(S)' = Heads(S) /\ Heads(V)' = Heads(V)
        /\ \A x \in Heads(S) : At(x)' = At(x)
        /\ \A x \in Heads(V) : At(x)' = At(x)
    BY <1>3, CalmHeads
  <1>5. Heads(Source)' = Heads(S)' /\ Heads(Visible)' = Heads(V)'
    BY <1>1, <1>2 DEF Heads
  <1>6. Alone(Heads(S)) => Alone(Heads(S))'
    <2>1. PICK H : H = Heads(S)
      OBVIOUS
    <2>2. Alone(H) => Alone(H)'
      BY <2>1, <1>4, AloneStays
    <2> QED BY <2>1, <2>2, <1>4 DEF Alone
  <1>7. Alone(Heads(V)) => Alone(Heads(V))'
    <2>1. PICK H : H = Heads(V)
      OBVIOUS
    <2>2. Alone(H) => Alone(H)'
      BY <2>1, <1>4, AloneStays
    <2> QED BY <2>1, <2>2, <1>4 DEF Alone
  <1> QED BY <1>1, <1>2, <1>4, <1>5, <1>6, <1>7 DEF Alone

-----------------------------------------------------------------------------
(* Kinds of elements                                                       *)

\* What a slot holds after it was programmed.
LEMMA ProgramHead ==
    ASSUME NEW old, NEW new, Program(old, new).c = "head"
    PROVE  Program(old, new) = new
  BY DEF Program, Junk

LEMMA ErasedSlots ==
    ASSUME Types, NEW p \in Pages, NEW st, Erased(p, st)
    PROVE  /\ slot'[p] = [i \in Slots |-> Blank] /\ est'[p] = [i \in Slots |-> "free"]
           /\ pst'[p] = st
           /\ \A q \in Pages \ {p} : /\ slot'[q] = slot[q] /\ est'[q] = est[q]
                                     /\ pst'[q] = pst[q] /\ seq'[q] = seq[q]
  BY DEF Erased, Types

\* A page whose header write or erase may be cut.
LEMMA InWorkIs ==
    ASSUME PagesInv, NEW p \in InWork
    PROVE  /\ p \in Pages
           /\ \/ pc = "page" /\ p = req.page
              \/ pc = "clean" /\ p = req.page
              \/ pc = "copy" /\ ToCopy = {} /\ p = req.vic
  <1>1. \/ pc = "page" /\ p = req.page
        \/ pc = "clean" /\ p = req.page
        \/ pc = "copy" /\ ToCopy = {} /\ p = req.vic
    BY DEF InWork
  <1>2. p \in Pages
    BY <1>1, ListFacts DEF Moving, PagesInv, ReqInv
  <1> QED BY <1>1, <1>2

LEMMA KindStep ==
    ASSUME SmallOnly, StoreInv, KindInv, [Next]_vars
    PROVE  KindInv'
  <1>1. Slots' = Slots /\ (Steady' <=> Steady) /\ Slots = 1..N /\ N \in Nat
    BY InstKept, HeadFacts DEF Steady
  <1> SUFFICES ASSUME ~Steady, NEW p \in Pages, NEW i \in Slots, slot'[p][i].c = "head"
               PROVE  slot'[p][i].t = "small"
    BY <1>1 DEF KindInv
  <1>2. slot[p][i].c = "head" => slot[p][i].t = "small"
    BY DEF KindInv
  <1>3. slot \in [Pages -> [Slots -> Cell]] /\ Types
    BY DEF StoreInv, PagesInv, Types
  <1>4. CASE slot' = slot
    BY <1>2, <1>4
  <1>5. ASSUME NEW q \in Pages, NEW st, Erased(q, st) PROVE slot'[p][i].t = "small"
    <2>1. CASE p = q
      BY <2>1, <1>3, <1>5, ErasedSlots DEF Blank
    <2>2. CASE p # q
      BY <2>2, <1>2, <1>3, <1>5, ErasedSlots
    <2> QED BY <2>1, <2>2
  <1>6. ASSUME NEW q \in Pages, NEW n, NEW c, c.c = "head" => c.t = "small",
               slot' = [slot EXCEPT ![q][n] = Program(@, c)]
        PROVE  slot'[p][i].t = "small"
    <2>1. CASE p = q /\ i = n
      <3>1. slot'[p][i] = Program(slot[p][i], c)
        BY <2>1, <1>3, <1>6
      <3>2. slot'[p][i] = c
        BY <3>1, ProgramHead
      <3> QED BY <3>2, <1>6
    <2>2. CASE ~(p = q /\ i = n)
      <3>1. slot'[p][i] = slot[p][i]
        BY <2>2, <1>3, <1>6
      <3> QED BY <3>1, <1>2
    <2> QED BY <2>1, <2>2
  <1>7. CASE CopyEntry
    <2>1. Moving /\ req.page \in Pages /\ req.vic \in Pages
      BY <1>7, ListFacts DEF CopyEntry, Moving, StoreInv
    <2>2. Min(ToCopy) \in Slots
      BY <1>7, ToCopyIs, <2>1, <1>3 DEF CopyEntry, StoreInv, Types
    <2>3. PICK c : c = slot[req.vic][Min(ToCopy)]
      OBVIOUS
    <2>4. c.c = "head" => c.t = "small"
      BY <2>1, <2>2, <2>3 DEF KindInv
    <2>5. slot' = [slot EXCEPT ![req.page][nxt[req.page]] = Program(@, c)]
      BY <1>7, <2>3 DEF CopyEntry, EntryWrite
    <2> QED BY <1>6, <2>1, <2>4, <2>5
  <1>8. CASE WriteHeader
    <2>1. op.fn = "put" /\ pc = "header"
      BY <1>8 DEF WriteHeader, StoreInv, PagesInv, CallInv
    <2>2. op.v \in SmallVals
      BY <2>1, SmallPuts DEF StoreInv
    <2>3. NextHeader = Header(op.k, "small", 0, op.v, 0)
      BY <2>2 DEF NextHeader
    <2>4. NextHeader.t = "small"
      BY <2>3 DEF Header
    <2>5. Last(used) \in Pages
      BY <2>1, PutFacts
    <2>6. slot' = [slot EXCEPT ![Last(used)][nxt[Last(used)]] = Program(@, NextHeader)]
      BY <1>8 DEF WriteHeader, EntryWrite
    <2> HIDE DEF NextHeader
    <2> QED BY <1>6, <2>4, <2>5, <2>6
  <1>9. CASE WriteData
    <2>1. pc = "data" /\ op.fn = "put"
      BY <1>9 DEF WriteData, StoreInv, PagesInv, CallInv
    <2>2. op.v \in SmallVals
      BY <2>1, SmallPuts DEF StoreInv
    <2> QED BY <2>1, <2>2 DEF StoreInv, PagesInv, PutInv
  <1>10. CASE ErasePage
    <2>1. req.page \in Pages
      BY <1>10, ListFacts DEF ErasePage, StoreInv
    <2> QED BY <2>1, <1>5, <1>10 DEF ErasePage
  <1>11. CASE EraseVictim
    <2>1. req.vic \in Pages
      BY <1>11, ListFacts DEF EraseVictim, Moving, StoreInv
    <2> QED BY <2>1, <1>5, <1>11 DEF EraseVictim
  <1>12. CASE CleanSector
    <2>1. req.page \in Pages
      BY <1>12 DEF CleanSector, StoreInv, PagesInv, ReqInv
    <2> QED BY <2>1, <1>5, <1>12 DEF CleanSector
  <1>13. CASE PowerCut
    <2>1. CASE slot' = slot
      BY <2>1, <1>4
    <2>2. CASE \E q \in InWork : Erased(q, "error")
      <3>1. PICK q \in InWork : Erased(q, "error")
        BY <2>2
      <3>2. q \in Pages
        BY <3>1, InWorkIs DEF StoreInv
      <3> QED BY <3>1, <3>2, <1>5
    <2> QED BY <2>1, <2>2, <1>13 DEF PowerCut, flash
  <1>14. CASE UNCHANGED vars
    BY <1>4, <1>14 DEF vars, flash
  <1>15. CASE \/ \E k \in Keys, v \in Vals : PutStart(k, v)
              \/ \E k \in Keys : DelStart(k)
              \/ CleanStart \/ Reboot
    BY <1>4, <1>15 DEF PutStart, DelStart, CleanStart, Reboot, flash
  <1>16. CASE \/ MarkState \/ HasRoom \/ MarkFull \/ Request \/ WritePage
              \/ MarkCandidate \/ CopyState \/ PageReady \/ Boot
    BY <1>4, <1>16 DEF MarkState, HasRoom, MarkFull, Request, WritePage, MarkCandidate,
         CopyState, PageReady, Boot, flash
  <1> QED BY <1>7, <1>8, <1>9, <1>10, <1>11, <1>12, <1>13, <1>14, <1>15, <1>16 DEF Next, Step

\* The other steps neither write a page nor end a move.
LEMMA FreshStep ==
    ASSUME StoreInv, FreshInv, [Next]_vars
    PROVE  FreshInv'
  <1> USE DEF StoreInv, PagesInv
  <1>1. Slots' = Slots
    BY InstKept
  <1>2. CASE WritePage
    <2>1. pc = "page" /\ op' = op /\ req' = req /\ est' = est
          /\ pst' = [pst EXCEPT ![req.page] = "active"]
          /\ (req.vic = 0 => pc' = "again") /\ (req.vic # 0 => pc' = "candidate")
      BY <1>2 DEF WritePage
    <2>2. req.vic # 0 => op.fn = "put"
      BY <2>1 DEF ReqInv
    <2>3. ASSUME op.fn # "put", NEW p \in Pages
          PROVE  pst'[p] # "candidate" /\ \A i \in Slots : est'[p][i] = "free"
      <3>1. used = <<>> /\ ~Moving /\ Running
        BY <2>1, <2>3 DEF ReqInv, Moving, Running
      <3>2. ToSet(used) = {}
        BY <3>1 DEF ToSet
      <3>3. Written = {}
        BY <3>1, <3>2 DEF ListInv, Kept
      <3>4. pst[p] \in {"blank", "error"}
        BY <3>3 DEF Written
      <3>5. \A i \in Slots : est[p][i] = "free"
        BY <3>3 DEF EntryInv, FillInv
      <3> QED BY <3>4, <3>5, <2>1 DEF Types
    <2> QED BY <1>1, <2>1, <2>2, <2>3 DEF FreshInv, Moving
  <1>3. CASE EraseVictim
    BY <1>3 DEF EraseVictim, FreshInv, Moving
  <1>4. CASE MarkCandidate \/ CopyEntry \/ CopyState
    BY <1>4 DEF MarkCandidate, CopyEntry, CopyState, FreshInv, Moving
  <1>5. CASE UNCHANGED vars
    <2>1. Slots' = Slots /\ pc' = pc /\ op' = op /\ pst' = pst /\ est' = est
      BY <1>1, <1>5 DEF vars, flash
    <2> QED BY <2>1 DEF FreshInv, Moving
  <1>6. ASSUME pc' \notin {"again", "candidate", "copy", "copied"} PROVE FreshInv'
    BY <1>6 DEF FreshInv, Moving
  <1>7. CASE NoSpace
    BY <1>6, <1>7 DEF NoSpace, Return
  <1>8. CASE MarkState
    <2>1. pc \in {"delete", "commit", "undo"}
      BY <1>8 DEF MarkState, EntryInv, MarkInv
    <2> QED BY <2>1, <1>6, <1>8 DEF MarkState, Return
  <1>9. CASE PageReady \/ Request
    BY <1>6, <1>7, <1>9 DEF PageReady, Request, Return
  <1>10. CASE \/ \E k \in Keys, v \in Vals : PutStart(k, v)
              \/ \E k \in Keys : DelStart(k)
    BY <1>6, <1>10 DEF PutStart, DelStart
  <1>11. CASE \/ CleanStart \/ Reboot \/ PowerCut
              \/ HasRoom \/ MarkFull \/ ErasePage \/ WriteHeader \/ WriteData \/ Boot
    BY <1>6, <1>11 DEF CleanStart, Reboot, PowerCut, LoseRam, HasRoom, MarkFull, ErasePage,
         WriteHeader, WriteData, Boot
  <1>12. CASE CleanSector
    <2>1. pc' \in {"clean", "off"}
      BY <1>12 DEF CleanSector
    <2> QED BY <1>6, <2>1
  <1> QED BY <1>2, <1>3, <1>4, <1>5, <1>8, <1>9, <1>10, <1>11, <1>12 DEF Next, Step

-----------------------------------------------------------------------------
(* Pages in state CANDIDATE                                                *)

\* While a page is free, none is.
LEMMA NoCandidate ==
    ASSUME StoreInv, CandidateInv, pc # "clean", Written # Pages
    PROVE  \A p \in Pages : pst[p] # "candidate"
  BY DEF CandidateInv

\* The page written last has the largest number.
LEMMA LastIsNewest ==
    ASSUME StoreInv, Running, used # <<>>
    PROVE  /\ Last(used) \in ToSet(used) /\ Last(used) \in Pages
           /\ \A p \in ToSet(used) : seq[p] <= seq[Last(used)]
           /\ \A p \in Pages : seq[p] \in Nat
  <1> USE DEF StoreInv, PagesInv, Types
  <1>1. Last(used) \in ToSet(used) /\ Last(used) \in Pages /\ Len(used) \in DOMAIN used
    BY ListFacts
  <1>2. \A p \in Pages : seq[p] \in Nat
    OBVIOUS
  <1>3. ASSUME NEW p \in ToSet(used) PROVE seq[p] <= seq[Last(used)]
    <2>1. PICK i \in DOMAIN used : used[i] = p
      BY DEF ToSet
    <2>2. Last(used) = used[Len(used)]
      BY DEF Last
    <2>3. p \in Pages
      BY ListFacts
    <2>4. CASE i = Len(used)
      BY <2>1, <2>2, <2>4, <1>1, <1>2
    <2>5. CASE i # Len(used)
      <3>1. i < Len(used)
        BY <2>5, <1>1
      <3>2. seq[used[i]] < seq[used[Len(used)]]
        BY <3>1, <1>1 DEF ListInv
      <3> QED BY <3>2, <2>1, <2>2, <2>3, <1>1, <1>2
    <2> QED BY <2>4, <2>5
  <1> QED BY <1>1, <1>2, <1>3

LEMMA CandidateStep ==
    ASSUME StoreInv, PagesInv', CandidateInv, [Next]_vars, cut' # "clean"
    PROVE  CandidateInv'
  <1> USE DEF StoreInv, PagesInv
  <1>0. /\ pst \in [Pages -> PageStates] /\ seq \in [Pages -> Nat] /\ Types
    BY DEF Types
  <1>1. ASSUME pst' = pst, seq' = seq, pc # "clean", pc' \notin {"candidate", "copy", "copied"}
        PROVE  CandidateInv'
    BY <1>1 DEF CandidateInv, Written, Moving
  <1>2. ASSUME pst' = pst, seq' = seq, Moving, pc # "candidate", Moving', pc' # "candidate",
               req'.page = req.page, req'.vic = req.vic
        PROVE  CandidateInv'
    BY <1>2 DEF CandidateInv, Written, Moving
  <1>3. ASSUME \A p \in Pages : pst'[p] # "candidate", ~Moving' PROVE CandidateInv'
    BY <1>3 DEF CandidateInv
  <1>4. CASE MarkFull
    <2>1. /\ pc = "room" /\ pc' = "request" /\ seq' = seq
          /\ pst' = [pst EXCEPT ![Last(used)] = "full"]
      BY <1>4 DEF MarkFull
    <2>2. Running /\ used # <<>> /\ ~Moving'
      BY <2>1, ListFacts DEF Running, Moving
    <2>3. Last(used) \in Pages /\ Last(used) \in Written
      BY <2>2, ListFacts DEF ListInv, Kept
    <2>4. Written' = Written
      BY <2>1, <2>3, <1>0 DEF Written
    <2>5. \A p \in Pages : pst'[p] = "candidate" => pst[p] = "candidate"
      BY <2>1, <2>3, <1>0
    <2> QED BY <2>1, <2>2, <2>4, <2>5 DEF CandidateInv
  <1>5. CASE ErasePage
    <2>1. pc = "erase" /\ pc' = "page" /\ Erased(req.page, "blank")
      BY <1>5 DEF ErasePage
    <2>2. req.page \in Pages \ ToSet(used) /\ Written = ToSet(used)
      BY <2>1, ListFacts DEF ListInv, Running, Kept, Moving
    <2>3. \A p \in Pages : pst[p] # "candidate"
      BY <2>1, <2>2, NoCandidate
    <2>4. \A p \in Pages : pst'[p] # "candidate"
      BY <2>1, <2>2, <2>3, <1>0, ErasedSlots
    <2> QED BY <2>1, <2>4, <1>3 DEF Moving
  <1>6. CASE WritePage
    <2>1. /\ pc = "page" /\ req' = req
          /\ pst' = [pst EXCEPT ![req.page] = "active"]
          /\ seq' = [seq EXCEPT ![req.page] = IF used = <<>> THEN 0 ELSE seq[Last(used)] + 1]
          /\ (req.vic = 0 => pc' = "again") /\ (req.vic # 0 => pc' = "candidate")
      BY <1>6 DEF WritePage
    <2>2. req.page \in Pages \ ToSet(used) /\ Written = ToSet(used)
      BY <2>1, ListFacts DEF ListInv, Running, Kept, Moving
    <2>3. \A p \in Pages : pst[p] # "candidate"
      BY <2>1, <2>2, NoCandidate
    <2>4. \A p \in Pages : pst'[p] # "candidate"
      BY <2>1, <2>2, <2>3, <1>0
    <2>5. ASSUME req.vic # 0
          PROVE  seq'[req.vic] < seq'[req.page] /\ pst'[req.page] = "active"
      <3>1. req.vic \in ToSet(used)
        BY <2>1, <2>5 DEF ReqInv
      <3>2. used # <<>>
        BY <3>1 DEF ToSet
      <3>3. seq[req.vic] <= seq[Last(used)] /\ seq[Last(used)] \in Nat /\ seq[req.vic] \in Nat
        <4>1. req.vic \in Pages /\ Running
          BY <2>1, <3>1, ListFacts DEF Running
        <4> QED BY <4>1, <3>1, <3>2, LastIsNewest
      <3>4. seq'[req.page] = seq[Last(used)] + 1 /\ seq'[req.vic] = seq[req.vic]
        BY <2>1, <2>2, <3>1, <3>2, <1>0
      <3> QED BY <2>1, <2>2, <3>3, <3>4, <1>0
    <2> QED BY <2>1, <2>4, <2>5 DEF CandidateInv, Moving
  <1>7. CASE MarkCandidate
    <2>1. /\ pc = "candidate" /\ pc' = "copy" /\ req' = req /\ seq' = seq
          /\ pst' = [pst EXCEPT ![req.vic] = "candidate"]
      BY <1>7 DEF MarkCandidate
    <2>2. Moving /\ Moving' /\ Running
      BY <2>1 DEF Moving, Running
    <2>3. /\ req.vic \in Pages \ ToSet(used) /\ req.page \in ToSet(used) /\ req.page \in Pages
          /\ req.vic \in Written /\ req.page \in Written /\ free = <<req.vic>>
      BY <2>2, ListFacts DEF ReqInv
    <2>4. \A p \in Pages : pst[p] # "candidate"
      BY <2>1, <2>2 DEF CandidateInv
    <2>5. Written = Pages
      <3>1. ToSet(free) = {req.vic}
        BY <2>3 DEF ToSet
      <3>2. Pages = ToSet(used) \cup {req.vic}
        BY <2>2, <2>3, <3>1, ListFacts DEF ListInv
      <3> QED BY <2>2, <3>2 DEF ListInv, Kept
    <2>6. Written' = Written
      BY <2>1, <2>3, <1>0 DEF Written
    <2>7. seq[req.vic] < seq[req.page] /\ pst[req.page] = "active"
      BY <2>2 DEF CandidateInv
    <2>8. /\ \A p \in Pages : pst'[p] = "candidate" => p = req.vic
          /\ pst'[req.page] = "active" /\ pst'[req.vic] = "candidate"
      BY <2>1, <2>3, <2>4, <2>7, <1>0
    <2> QED BY <2>1, <2>2, <2>3, <2>5, <2>6, <2>7, <2>8 DEF CandidateInv
  <1>8. CASE CopyEntry \/ CopyState
    <2>1. UNCHANGED <<pst, seq>> /\ Moving /\ Moving' /\ pc # "candidate" /\ pc' # "candidate"
      BY <1>8 DEF CopyEntry, CopyState, Moving
    <2>2. req'.page = req.page /\ req'.vic = req.vic
      BY <1>8 DEF CopyEntry, CopyState, Types
    <2> QED BY <2>1, <2>2, <1>2
  <1>9. ASSUME pc = "copy", Erased(req.vic, pst'[req.vic]), pst'[req.vic] # "candidate", ~Moving'
        PROVE  CandidateInv'
    <2>1. req.vic \in Pages /\ Moving
      BY <1>9, ListFacts DEF Moving
    <2>2. \A p \in Pages : pst[p] = "candidate" => p = req.vic
      BY <2>1, <1>9 DEF CandidateInv
    <2>3. \A p \in Pages : pst'[p] # "candidate"
      BY <2>1, <2>2, <1>0, <1>9, ErasedSlots
    <2> QED BY <2>3, <1>3, <1>9
  <1>10. CASE EraseVictim
    <2>1. pc = "copy" /\ Erased(req.vic, "blank") /\ pc' = "again"
      BY <1>10 DEF EraseVictim
    <2>2. pst'[req.vic] = "blank"
      BY <2>1, <1>0, ListFacts, ErasedSlots DEF Moving
    <2> QED BY <2>1, <2>2, <1>9 DEF Moving
  <1>11. CASE CleanSector
    <2>1. pc = "clean" /\ op' = op /\ pc' \in {"clean", "off"} /\ ~Moving'
      BY <1>11 DEF CleanSector, Moving
    <2>2. CASE pc' = "clean"
      BY <2>1, <2>2 DEF CandidateInv
    <2>3. CASE pc' = "off"
      <3>1. op'.fn = "clean" /\ op' # NoOp
        BY <2>1 DEF CallInv, NoOp
      <3>2. Written' = {}
        BY <2>3, <3>1 DEF CallInv
      <3>3. \A p \in Pages : pst'[p] # "candidate"
        BY <3>2 DEF Written
      <3> QED BY <2>1, <3>3, <1>3
    <2> QED BY <2>1, <2>2, <2>3
  <1>12. CASE PowerCut
    <2>1. pc' = "off" /\ ~Moving' /\ pc # "clean"
      BY <1>12 DEF PowerCut, LoseRam, Moving, CallInv
    <2>2. CASE UNCHANGED flash
      BY <2>1, <2>2, <1>1 DEF flash
    <2>3. CASE \E q \in InWork : Erased(q, "error")
      <3>1. PICK q \in InWork : Erased(q, "error")
        BY <2>3
      <3>2. q \in Pages /\ pst'[q] = "error"
        BY <3>1, <1>0, InWorkIs, ErasedSlots
      <3>3. CASE pc = "copy" /\ q = req.vic
        BY <2>1, <3>1, <3>2, <3>3, <1>9
      <3>4. CASE pc = "page" /\ q = req.page
        <4>1. req.page \in Pages \ ToSet(used) /\ Written = ToSet(used)
          BY <3>4, ListFacts DEF ListInv, Running, Kept, Moving
        <4>2. \A p \in Pages : pst[p] # "candidate"
          BY <3>4, <4>1, NoCandidate
        <4>3. \A p \in Pages : pst'[p] # "candidate"
          BY <3>1, <3>2, <4>2, <1>0, ErasedSlots
        <4> QED BY <2>1, <4>3, <1>3
      <3> QED BY <2>1, <3>1, <3>3, <3>4, InWorkIs
    <2> QED BY <2>2, <2>3, <1>12 DEF PowerCut
  <1>13. CASE UNCHANGED vars
    <2>1. UNCHANGED <<pst, seq, pc, req>>
      BY <1>13 DEF vars, flash
    <2> QED BY <2>1 DEF CandidateInv, Written, Moving
  <1>14. CASE \/ \E k \in Keys, v \in Vals : PutStart(k, v)
              \/ \E k \in Keys : DelStart(k)
    <2>1. UNCHANGED <<pst, seq>> /\ pc = "idle" /\ pc' \in {"delete", "room"}
      BY <1>14 DEF PutStart, DelStart, Starts, flash
    <2> QED BY <2>1, <1>1
  <1>15. CASE CleanStart \/ Reboot
    BY <1>1, <1>15 DEF CleanStart, Reboot, Starts, LoseRam, flash
  <1>16. CASE MarkState
    <2>1. pc \in {"delete", "commit", "undo"} /\ pc' \in {pc, "room", "idle"}
      BY <1>16, MarkStateEff DEF EntryInv
    <2> QED BY <2>1, <1>1, <1>16 DEF MarkState
  <1>17. ASSUME NoSpace, UNCHANGED <<pst, seq>>, pc # "clean" PROVE CandidateInv'
    BY <1>1, <1>17 DEF NoSpace, Return
  <1>18. CASE Request
    BY <1>1, <1>17, <1>18 DEF Request, flash
  <1>19. CASE PageReady
    BY <1>1, <1>17, <1>19 DEF PageReady, Return, flash
  <1>20. CASE HasRoom \/ WriteHeader \/ WriteData
    BY <1>1, <1>20 DEF HasRoom, WriteHeader, WriteData, flash
  <1>21. CASE Boot
    <2>1. UNCHANGED <<pst, seq>> /\ pc = "off" /\ pc' \in {"idle", "page", "erase"}
      BY <1>21 DEF Boot
    <2> QED BY <2>1, <1>1
  <1> QED BY <1>4, <1>5, <1>6, <1>7, <1>8, <1>10, <1>11, <1>12, <1>13, <1>14, <1>15, <1>16,
             <1>18, <1>19, <1>20, <1>21 DEF Next, Step

-----------------------------------------------------------------------------
(* What a search finds                                                     *)

\* Nothing that is found is hidden on a page that is being emptied.
LEMMA LiveInHeads ==
    ASSUME StoreInv, NEW k, NEW types
    PROVE  Live(k, types) \subseteq {x \in Heads(Visible) : At(x).k = k /\ At(x).t \in types}
  <1> SUFFICES ASSUME NEW x \in Live(k, types)
               PROVE  x \in Heads(Visible) /\ At(x).k = k /\ At(x).t \in types
    OBVIOUS
  <1>1. PICK p \in Pages : /\ p \in Listed /\ pst[p] \in {"active", "full"}
                           /\ x \in {p} \X LiveOn(p, k, types)
    <2>1. Listed \in SUBSET Pages
      BY ListFacts DEF Listed, StoreInv
    <2> QED BY <2>1 DEF Live
  <1>2. PICK i \in LiveOn(p, k, types) : x = <<p, i>>
    BY <1>1
  <1>3. /\ i \in Slots /\ est[p][i] = "used" /\ slot[p][i].c = "head"
        /\ slot[p][i].k = k /\ slot[p][i].t \in types
    BY <1>2, WalkIn DEF LiveOn, FindWalk
  <1>4. Moving => p # req.vic
    <2> HAVE Moving
    <2>1. Listed = ToSet(used)
      BY DEF Listed, Moving
    <2> QED BY <2>1, <1>1, ListFacts DEF StoreInv
  <1>5. p \in Visible
    BY <1>1, <1>4 DEF Visible, Searched
  <1> QED BY <1>2, <1>3, <1>5, AtIs DEF Heads

LEMMA FoundAll ==
    ASSUME StoreInv, pc \in {"idle", "off", "room", "request", "again"},
           NEW p \in Pages, NEW i \in Slots, est[p][i] = "used", slot[p][i].c = "head"
    PROVE  i \in FindWalk(p)
  <1>1. FlashFill /\ FlashWhole /\ Types
    BY QuietFlash DEF StoreInv, PagesInv
  <1>2. N \in Nat \ {0} /\ Slots = 1..N /\ inst \in Instances
    BY HeadFacts DEF StoreInv, PagesInv, Types
  <1>3. PICK m : m = LoadNext(p)
    OBVIOUS
  <1>4. m \in 1..(N + 1) /\ \A j \in Slots : est[p][j] = "free" <=> j >= m
    BY <1>1, <1>3, BootPage
  <1>5. PICK span : span = [j \in Slots |-> Span(slot[p][j])]
    OBVIOUS
  <1>6. \A j \in Slots : slot[p][j] \in Cell
    BY DEF StoreInv, PagesInv, Types
  <1>7. \A j \in Slots : /\ Span(slot[p][j]) \in Nat
                         /\ slot[p][j].c = "data" => Span(slot[p][j]) = 0
    BY <1>6, SpanIs
  <1>8. span \in [Slots -> Nat] /\ \A j \in Slots : span[j] = Span(slot[p][j])
    BY <1>5, <1>7
  <1>9. ASSUME NEW j \in Slots, NEW t \in 1..span[j], j < m
        PROVE  j + t \in Slots /\ j + t < m /\ slot[p][j + t].c = "data"
    <2>1. est[p][j] # "free"
      BY <1>2, <1>4, <1>9
    <2>2. j + t \in Slots /\ est[p][j + t] = est[p][j] /\ slot[p][j + t].c = "data"
      BY <2>1, <1>1, <1>8, <1>9 DEF FlashWhole
    <2> QED BY <2>1, <2>2, <1>2, <1>4
  <1>10. Spanning(span, m)
    BY <1>7, <1>8, <1>9 DEF Spanning
  <1>11. FindWalk(p) = Stops(span, m)
    BY <1>2, <1>4, <1>5, <1>8, <1>10, WalkIs DEF FindWalk
  <1>12. i < m
    BY <1>2, <1>4
  <1>13. ASSUME NEW h \in 1..(i - 1) PROVE h + span[h] < i
    <2>1. h \in Slots /\ h < i /\ h < m /\ span[h] \in Nat
      BY <1>2, <1>4, <1>8, <1>12
    <2>2. ASSUME h + span[h] >= i PROVE FALSE
      <3>1. i - h \in 1..span[h] /\ h + (i - h) = i
        BY <2>1, <2>2, <1>2
      <3>2. slot[p][h + (i - h)].c = "data"
        BY <2>1, <3>1, <1>9
      <3> QED BY <3>1, <3>2
    <2> QED BY <2>1, <2>2, <1>2
  <1> QED BY <1>2, <1>4, <1>11, <1>12, <1>13 DEF Stops

\* Between the steps that alter the flash a search finds every element.
LEMMA LiveIsHeads ==
    ASSUME StoreInv, pc \in {"idle", "off", "room", "request", "again"}, NEW k, NEW types
    PROVE  /\ Source = Searched /\ Visible = Searched
           /\ Live(k, types) = {x \in Heads(Searched) : At(x).k = k /\ At(x).t \in types}
  <1>1. ~Moving /\ Source = Searched /\ Visible = Searched
    BY HeadFacts DEF Moving
  <1>2. Searched \in SUBSET Listed
    <2>1. CASE pc = "off"
      BY <2>1 DEF Listed, Searched
    <2>2. CASE pc # "off"
      <3>1. Written = ToSet(used) /\ Listed = ToSet(used)
        BY <1>1, <2>2 DEF StoreInv, PagesInv, ListInv, Running, Kept, Listed
      <3> QED BY <3>1 DEF Searched, Written
    <2> QED BY <2>1, <2>2
  <1>3. ASSUME NEW x \in Heads(Searched), At(x).k = k, At(x).t \in types
        PROVE  x \in Live(k, types)
    <2>1. PICK p \in Searched, i \in Slots : x = <<p, i>>
      BY DEF Heads
    <2>2. p \in Pages /\ est[p][i] = "used" /\ slot[p][i].c = "head"
      BY <2>1, AtIs DEF Heads, Copied, Searched
    <2>3. i \in LiveOn(p, k, types)
      BY <2>1, <2>2, <1>3, FoundAll, AtIs DEF LiveOn
    <2> QED BY <2>1, <2>3, <1>2 DEF Live, Searched
  <1> QED BY <1>1, <1>3, LiveInHeads

-----------------------------------------------------------------------------
(* What a call deletes                                                     *)

\* All elements of a key, and no element of another.
Covers(D, k) ==
    /\ \A x \in Heads(Source) : At(x).k = k => x \in D
    /\ \A y \in D : At(y).c = "head" => At(y).k = k

LEMMA ConsSet ==
    ASSUME NEW S, NEW a \in S, NEW s \in Seq(S)
    PROVE  ToSet(<<a>> \o s) = {a} \cup ToSet(s)
  <1>1. PICK d : d = <<a>> \o s
    OBVIOUS
  <1>2. /\ Len(s) \in Nat /\ d[1] = a /\ DOMAIN d = 1..(1 + Len(s)) /\ DOMAIN s = 1..Len(s)
        /\ \A i \in 1..Len(s) : d[i + 1] = s[i]
    BY <1>1
  <1>3. \A j \in 1..(1 + Len(s)) : j = 1 \/ (j - 1 \in 1..Len(s) /\ d[j] = s[j - 1])
    <2> TAKE j \in 1..(1 + Len(s))
    <2> SUFFICES ASSUME j # 1 PROVE j - 1 \in 1..Len(s) /\ d[j] = s[j - 1]
      OBVIOUS
    <2>1. j - 1 \in 1..Len(s) /\ (j - 1) + 1 = j
      BY <1>2
    <2> QED BY <2>1, <1>2
  <1>4. \A i \in 1..Len(s) : i + 1 \in 1..(1 + Len(s))
    BY <1>2
  <1>5. ASSUME NEW x \in ToSet(d) PROVE x \in {a} \cup ToSet(s)
    <2>1. PICK j \in 1..(1 + Len(s)) : x = d[j]
      BY <1>2 DEF ToSet
    <2> QED BY <2>1, <1>2, <1>3 DEF ToSet
  <1>6. ASSUME NEW x \in ToSet(s) PROVE x \in ToSet(d)
    <2>1. PICK i \in 1..Len(s) : x = s[i]
      BY <1>2 DEF ToSet
    <2>2. x = d[i + 1] /\ i + 1 \in DOMAIN d
      BY <2>1, <1>2, <1>4
    <2> QED BY <2>2 DEF ToSet
  <1>7. a \in ToSet(d)
    <2>1. 1 \in DOMAIN d
      BY <1>2
    <2> QED BY <2>1, <1>2 DEF ToSet
  <1> QED BY <1>1, <1>5, <1>6, <1>7

\* The entries behind a header hold no header.
LEMMA CoveredHeads ==
    ASSUME StoreInv, pc \in {"idle", "off", "room", "request", "again"},
           NEW H \in SUBSET Heads(Searched)
    PROVE  /\ H \subseteq Covered(H)
           /\ \A y \in Covered(H) : At(y).c = "head" => y \in H
  <1>1. FlashWhole /\ Searched \in SUBSET Pages
    BY QuietFlash DEF Searched
  <1>2. N \in Nat /\ Slots = 1..N
    BY HeadFacts
  <1>3. ASSUME NEW x \in H
        PROVE  x \in Extent(x) /\ \A y \in Extent(x) : At(y).c = "head" => y = x
    <2>1. PICK p \in Pages, i \in Slots : x = <<p, i>>
      BY <1>1 DEF Heads
    <2>2. est[p][i] = "used" /\ slot[p][i] \in Cell
      BY <2>1, AtIs DEF Heads, Copied, StoreInv, PagesInv, Types
    <2>3. Span(slot[p][i]) \in Nat
      BY <2>2, SpanIs
    <2>4. <<p, i + 0>> \in Extent(<<p, i>>)
      BY <2>3, <1>2, ExtentIs
    <2>5. i + 0 = i
      BY <1>2
    <2>6. ASSUME NEW y \in Extent(<<p, i>>), At(y).c = "head" PROVE y = x
      <3>1. PICK u \in 0..Span(slot[p][i]) : y = <<p, i + u>>
        BY <2>3, <1>2, ExtentIs
      <3>2. CASE u = 0
        BY <3>1, <3>2, <2>1, <2>5
      <3>3. CASE u # 0
        <4>1. u \in 1..Span(slot[p][i])
          BY <3>3, <2>3
        <4>2. slot[p][i + u].c = "data"
          BY <4>1, <2>2, <1>1 DEF FlashWhole
        <4>3. At(y) = slot[p][i + u]
          BY <3>1, AtIs
        <4> QED BY <4>2, <4>3, <2>6
      <3> QED BY <3>2, <3>3
    <2> QED BY <2>1, <2>4, <2>5, <2>6
  <1> QED BY <1>3 DEF Covered

LEMMA CoversHeads ==
    ASSUME StoreInv, pc \in {"idle", "room", "request", "again"}, NEW k,
           NEW H \in SUBSET Live(k, AnyType),
           \A x \in Heads(Source) : At(x).k = k => x \in H
    PROVE  Covers(Covered(H), k)
  <1>1. /\ Source = Searched
        /\ Live(k, AnyType) = {x \in Heads(Searched) : At(x).k = k /\ At(x).t \in AnyType}
    BY LiveIsHeads
  <1>2. H \in SUBSET Heads(Searched) /\ \A x \in H : At(x).k = k
    BY <1>1
  <1>3. H \subseteq Covered(H) /\ \A y \in Covered(H) : At(y).c = "head" => y \in H
    BY <1>2, CoveredHeads
  <1> QED BY <1>2, <1>3 DEF Covers

\* The fragments a put has written, when there is nothing else.
LEMMA FragmentsCover ==
    ASSUME StoreInv, pc \in {"request", "again"}, NEW k,
           \A x \in Heads(Source) : At(x).k = k => At(x).t = "bulk"
    PROVE  Covers(ToSet(Fragments(k)), k)
  <1>1. PICK B : B = Live(k, {"bulk"})
    OBVIOUS
  <1>2. B \in SUBSET Live(k, AnyType)
    BY <1>1 DEF Live, LiveOn, AnyType
  <1>3. \A x \in Heads(Source) : At(x).k = k => x \in B
    <2>1. B = {x \in Heads(Source) : At(x).k = k /\ At(x).t \in {"bulk"}}
      BY <1>1, LiveIsHeads
    <2> QED BY <2>1
  <1>4. Covers(Covered(B), k)
    BY <1>2, <1>3, CoversHeads
  <1>5. ToSet(InOrder(Covered(B))) = Covered(B)
    BY <1>2, LiveRetirable DEF Running, Moving, StoreInv, EntryInv
  <1>6. Fragments(k) = InOrder(Covered(B))
    BY <1>1 DEF Fragments, Covered
  <1> QED BY <1>4, <1>5, <1>6

LEMMA HeadCell ==
    ASSUME StoreInv, NEW x \in Pages \X Slots, At(x).c = "head"
    PROVE  /\ At(x) \in Cell /\ At(x).k \in Keys /\ At(x).t \in AnyType
           /\ At(x).n \in Nat /\ At(x).v \in Vals /\ At(x).f \in Nat
           /\ x[1] \in Pages /\ x[2] \in Slots /\ x = <<x[1], x[2]>>
  <1>1. x[1] \in Pages /\ x[2] \in Slots /\ x = <<x[1], x[2]>>
    OBVIOUS
  <1>2. At(x) \in Cell
    BY <1>1 DEF At, StoreInv, PagesInv, Types
  <1> QED BY <1>1, <1>2, SpanIs

\* One of the elements found is the first.
LEMMA FirstLive ==
    ASSUME StoreInv, NEW k, NEW types, Live(k, types) # {}
    PROVE  First(Live(k, types)) \in Live(k, types)
  <1>1. used \in Seq(Pages) /\ inst \in Instances /\ seq \in [Pages -> Nat] /\ N \in Nat
    BY SlotsAre DEF StoreInv, PagesInv, Types
  <1>2. PICK S : S = Live(k, types)
    OBVIOUS
  <1>3. S \in SUBSET (Pages \X Slots)
        /\ \A x \in S : x[1] \in Listed /\ pst[x[1]] \in {"active", "full"}
    BY <1>1, <1>2, LiveIs
  <1>4. \A p, q \in Listed : pst[p] \in {"active", "full"} /\ pst[q] \in {"active", "full"}
                             /\ seq[p] = seq[q] => p = q
    BY ListFacts DEF StoreInv
  <1>5. \A x, y \in S : seq[x[1]] = seq[y[1]] => x[1] = y[1]
    BY <1>3, <1>4
  <1> QED BY <1>1, <1>2, <1>3, <1>5, FirstIs

\* data_element_del marks every element of the key.
LEMMA DeletionCovers ==
    ASSUME StoreInv, KindInv, InfoInv, Alone(Heads(Source)), pc = "idle", NEW k
    PROVE  Covers(ToSet(Deletion(k)), k)
  <1>1. PICK L : L = Live(k, AnyType)
    OBVIOUS
  <1>2. PICK B : B = Live(k, {"bulk"})
    OBVIOUS
  <1>3. PICK I : I = Live(k, {"bulkinfo"})
    OBVIOUS
  <1>4. /\ L = {x \in Heads(Source) : At(x).k = k /\ At(x).t \in AnyType}
        /\ B = {x \in Heads(Source) : At(x).k = k /\ At(x).t \in {"bulk"}}
        /\ I = {x \in Heads(Source) : At(x).k = k /\ At(x).t \in {"bulkinfo"}}
    BY <1>1, <1>2, <1>3, LiveIsHeads
  <1>5. Heads(Source) \in SUBSET (Pages \X Slots) /\ \A x \in Heads(Source) : At(x).c = "head"
    BY HeadFacts DEF Heads
  <1>6. \A x \in Heads(Source) : At(x).k = k => x \in L
    BY <1>4, <1>5, HeadCell
  <1>7. \A x, y \in L : x # y =>
           /\ At(x).t \in {"bulk", "bulkinfo"} /\ At(y).t \in {"bulk", "bulkinfo"}
           /\ "bulk" \in {At(x).t, At(y).t}
    BY <1>4 DEF Alone, Friends
  <1>8. Running /\ ~Moving /\ op = NoOp
    BY DEF Running, Moving, StoreInv, PagesInv, CallInv
  <1>9. \A H \in SUBSET L : /\ InOrder(Covered(H)) \in Seq(Pages \X Slots)
                            /\ ToSet(InOrder(Covered(H))) = Covered(H)
    BY <1>1, <1>8, LiveRetirable DEF StoreInv, EntryInv
  <1>10. \A H \in SUBSET L : (\A x \in L : x \in H) => Covers(Covered(H), k)
    <2> TAKE H \in SUBSET L
    <2> HAVE \A x \in L : x \in H
    <2>1. \A x \in Heads(Source) : At(x).k = k => x \in H
      BY <1>6
    <2> QED BY <2>1, <1>1, CoversHeads
  <1>11. CASE L = {}
    <2>1. Deletion(k) = <<>>
      BY <1>1, <1>11 DEF Deletion
    <2>2. ToSet(<<>>) = {}
      BY DEF ToSet
    <2> QED BY <2>1, <2>2, <1>6, <1>11 DEF Covers
  <1>12. CASE L # {}
    <2>1. PICK a : a = First(L)
      OBVIOUS
    <2>2. a \in L
      BY <1>1, <1>12, <2>1, FirstLive
    <2>3. CASE At(a).t \in {"small", "middle"}
      <3>1. Deletion(k) = InOrder(Extent(a))
        BY <1>1, <1>12, <2>1, <2>3 DEF Deletion
      <3>2. PICK H : H = {a}
        OBVIOUS
      <3>3. H \in SUBSET L /\ Covered(H) = Extent(a)
        BY <2>2, <3>2 DEF Covered
      <3>4. \A x \in L : x \in H
        BY <1>7, <2>2, <2>3, <3>2
      <3>5. Covers(Covered(H), k) /\ ToSet(InOrder(Covered(H))) = Covered(H)
        BY <1>9, <1>10, <3>3, <3>4
      <3> QED BY <3>1, <3>3, <3>5
    <2>4. CASE At(a).t \notin {"small", "middle"}
      <3>1. I # {}
        <4>1. CASE At(a).t = "bulkinfo"
          BY <4>1, <1>4, <2>2
        <4>2. CASE At(a).t # "bulkinfo"
          <5>1. At(a).t = "bulk" /\ a \in Heads(Source) /\ At(a).k = k
            BY <4>2, <2>2, <2>4, <1>4 DEF AnyType
          <5>2. Steady
            <6>1. a[1] \in Pages /\ a[2] \in Slots /\ At(a).c = "head"
              BY <5>1, <1>5, HeadCell
            <6> QED BY <5>1, <6>1 DEF KindInv, At
          <5>3. PICK y \in Heads(Source) : At(y).t = "bulkinfo" /\ At(y).k = At(a).k
            BY <5>1, <5>2, <1>8 DEF InfoInv, Claimed, NoOp
          <5> QED BY <5>1, <5>3, <1>4
        <4> QED BY <4>1, <4>2
      <3>2. Deletion(k) = <<First(I)>> \o Fragments(k)
        BY <1>1, <1>3, <1>12, <2>1, <2>4, <3>1 DEF Deletion
      <3>3. PICK g : g = First(I)
        OBVIOUS
      <3>4. g \in I
        BY <1>3, <3>1, <3>3, FirstLive
      <3>5. PICK H : H = {g} \cup B
        OBVIOUS
      <3>6. H \in SUBSET L /\ B \in SUBSET L /\ g \in Pages \X Slots /\ At(g).t = "bulkinfo"
        BY <1>4, <1>5, <3>4, <3>5 DEF AnyType
      <3>7. \A x \in L : x \in H
        <4> TAKE x \in L
        <4>1. x = g \/ At(x).t = "bulk"
          BY <1>7, <3>6, <3>5
        <4> QED BY <4>1, <1>4, <3>5
      <3>8. Covers(Covered(H), k)
        BY <1>10, <3>6, <3>7
      <3>9. Fragments(k) = InOrder(Covered(B))
        BY <1>2 DEF Fragments, Covered
      <3>10. ToSet(Deletion(k)) = {g} \cup Covered(B)
        <4>1. PICK s : s = InOrder(Covered(B))
          OBVIOUS
        <4>2. s \in Seq(Pages \X Slots) /\ ToSet(s) = Covered(B)
          BY <1>9, <3>6, <4>1
        <4>3. Deletion(k) = <<g>> \o s
          BY <3>2, <3>3, <3>9, <4>1
        <4>4. PICK S : S = Pages \X Slots
          OBVIOUS
        <4>5. ToSet(<<g>> \o s) = {g} \cup ToSet(s)
          BY <4>2, <4>4, <3>6, ConsSet
        <4> QED BY <4>2, <4>3, <4>5
      <3>11. {g} \cup Covered(B) \subseteq Covered(H) /\ Covered(B) \subseteq Covered(H)
        <4>1. H \subseteq Covered(H)
          BY <1>4, <3>6, CoveredHeads, HeadFacts, <1>8
        <4> QED BY <4>1, <3>5 DEF Covered
      <3>12. \A x \in H : x \in {g} \cup Covered(B)
        <4>1. B \subseteq Covered(B)
          BY <1>4, <3>6, CoveredHeads, HeadFacts, <1>8
        <4> QED BY <4>1, <3>5
      <3> QED BY <3>7, <3>8, <3>10, <3>11, <3>12, <1>6 DEF Covers
    <2> QED BY <2>3, <2>4
  <1> QED BY <1>11, <1>12

-----------------------------------------------------------------------------
(* Steps that leave the elements alone                                     *)

LEMMA CalmFlash ==
    ASSUME [Next]_vars, slot' = slot, est' = est, Copied' = Copied
    PROVE  Calm
  <1>1. Slots' = Slots /\ inst' = inst
    BY InstKept
  <1>2. \A x : At(x)' = At(x)
    BY DEF At
  <1>3. \A x : IsHead(x)' <=> IsHead(x)
    BY <1>2 DEF IsHead
  <1> QED BY <1>1, <1>2, <1>3 DEF Calm

LEMMA InfoStays ==
    ASSUME InfoInv, NEW H, Heads(Source) = H, Heads(Source)' = H,
           \A x \in H : At(x)' = At(x), inst' = inst,
           Steady => pc # "clean" \/ pc' = "clean",
           Steady => \A k : Claimed(k) /\ (\E x \in H : At(x).k = k) => Claimed(k)'
    PROVE  InfoInv'
  <1>1. Steady' <=> Steady
    BY DEF Steady
  <1>2. ASSUME Steady', pc' # "clean", NEW z \in H, At(z)'.t = "bulk", ~Claimed(At(z).k)'
        PROVE  \E y \in H : At(y)'.t = "bulkinfo" /\ At(y)'.k = At(z)'.k
    <2>1. PICK k : k = At(z).k
      OBVIOUS
    <2>2. ~Claimed(k)'
      BY <1>2, <2>1 DEF Claimed
    <2>3. Steady /\ pc # "clean" /\ At(z).t = "bulk"
      BY <1>1, <1>2
    <2>4. ~Claimed(k)
      BY <2>1, <2>2, <2>3
    <2>5. PICK y \in H : At(y).t = "bulkinfo" /\ At(y).k = At(z).k
      BY <2>1, <2>3, <2>4 DEF InfoInv
    <2> QED BY <2>5
  <1> QED BY <1>2 DEF InfoInv

LEMMA CalmInfo ==
    ASSUME StoreInv, InfoInv, Calm, Source' = Source,
           Steady => pc # "clean" \/ pc' = "clean",
           Steady => \A k : Claimed(k) /\ (\E x \in Heads(Source) : At(x).k = k) => Claimed(k)'
    PROVE  InfoInv'
  <1>1. PICK S : S = Source
    OBVIOUS
  <1>2. S \in SUBSET Pages
    BY <1>1, HeadFacts
  <1>3. PICK H : H = Heads(S)
    OBVIOUS
  <1>4. Heads(S)' = H /\ \A x \in H : At(x)' = At(x)
    BY <1>2, <1>3, CalmHeads
  <1>5. Heads(Source)' = H /\ Heads(Source) = H
    BY <1>1, <1>3, <1>4 DEF Heads
  <1>6. inst' = inst
    BY DEF Calm
  <1> QED BY <1>4, <1>5, <1>6, InfoStays

\* A step that leaves the elements alone, when the call goes on as before or ends.
LEMMA CalmParts ==
    ASSUME StoreInv, OwnInv, Calm, Source' = Source, Visible' = Visible,
           Steady => pc # "clean" \/ pc' = "clean",
           Steady => \A k : Claimed(k) /\ (\E x \in Heads(Source) : At(x).k = k) => Claimed(k)',
           op'.fn = "put" => /\ op.fn = "put" /\ op'.k = op.k /\ op'.v = op.v
                             /\ pc \notin {"delete", "undo", "commit"},
           pc' \notin {"delete", "undo", "data", "commit"},
           Moving' => Moving /\ req' = req /\ slot' = slot /\ est'[req.vic] = est[req.vic]
    PROVE  OwnInv'
  <1> USE DEF OwnInv
  <1>1. /\ Heads(Source)' = Heads(Source)
        /\ \A x \in Heads(Source) : At(x)' = At(x)
        /\ AloneInv'
    BY CalmOwn DEF AloneInv
  <1>2. InfoInv'
    BY CalmInfo
  <1>3. DeleteInv'
    BY DEF DeleteInv
  <1>4. WriteInv'
    <2>1. ASSUME op'.fn = "put", NEW x \in Heads(Source), At(x)'.k = op'.k
          PROVE  At(x)'.t = "bulk" /\ op'.v \in BulkVals
      <3>1. At(x)' = At(x) /\ At(x).k = op.k
        BY <1>1, <2>1
      <3>2. At(x).t = "bulk" /\ op.v \in BulkVals
        BY <2>1, <3>1 DEF WriteInv
      <3> QED BY <2>1, <3>1, <3>2
    <2> QED BY <1>1, <2>1 DEF WriteInv
  <1>5. OriginInv'
    <2> SUFFICES ASSUME Moving' PROVE OriginInv'
      BY DEF OriginInv
    <2>1. PICK T, V : T = req.page /\ V = req.vic
      OBVIOUS
    <2>2. Moving /\ req' = req /\ slot' = slot /\ est'[V] = est[V]
      BY <2>1
    <2>3. T \in Pages /\ V \in Pages
      BY <2>1, <2>2, ListFacts DEF StoreInv
    <2>4. Heads({T})' = Heads({T}) /\ Heads({V})' = Heads({V})
      BY <2>3, CalmHeads
    <2>5. Heads({req.page})' = Heads({req.page}) /\ Heads({req.vic})' = Heads({req.vic})
      BY <2>1, <2>2, <2>4 DEF Heads
    <2>6. \A x : At(x)' = At(x)
      BY <2>2 DEF At
    <2>7. Steady' <=> Steady
      BY DEF Calm, Steady
    <2> QED BY <2>1, <2>2, <2>5, <2>6, <2>7 DEF OriginInv
  <1> QED BY <1>1, <1>2, <1>3, <1>4, <1>5

\* The elements of a key are about to be deleted.
LEMMA DeletionParts ==
    ASSUME StoreInv, AloneInv, InfoInv, Calm, Source' = Source, Visible' = Visible,
           Steady => pc # "clean",
           \A k : Claimed(k) => Claimed(k)',
           pc' \in {"delete", "undo"}, NEW D, NEW k, Covers(D, k),
           ToSet(marks'.at) = D, op'.k = k, slot' = slot
    PROVE  OwnInv'
  <1>1. /\ Heads(Source)' = Heads(Source)
        /\ \A x \in Heads(Source) : At(x)' = At(x)
        /\ AloneInv'
    BY CalmOwn DEF AloneInv
  <1>2. InfoInv'
    BY CalmInfo
  <1>3. \A x : At(x)' = At(x)
    BY DEF At
  <1>4. ToSet(marks.at)' = D
    BY DEF ToSet
  <1>5. DeleteInv'
    BY <1>1, <1>3, <1>4 DEF DeleteInv, Covers
  <1>6. WriteInv' /\ OriginInv'
    BY DEF WriteInv, OriginInv, Moving
  <1> QED BY <1>1, <1>2, <1>5, <1>6 DEF OwnInv

LEMMA SearchedSame ==
    ASSUME pst' = pst, ~Moving, ~Moving'
    PROVE  Source' = Source /\ Visible' = Visible /\ Copied' = {} /\ Copied = {}
  BY DEF Source, Visible, Searched, Moving, Copied

\* A put that finds no space has no element of its key left but fragments.
LEMMA NoSpaceParts ==
    ASSUME StoreInv, OwnInv, [Next]_vars, pc \in {"request", "again"}, op.fn = "put",
           NoSpace, UNCHANGED flash
    PROVE  OwnInv'
  <1>1. pc' \in {"undo", "idle"} /\ UNCHANGED <<pst, seq, slot, est>>
    BY DEF NoSpace, Return, flash
  <1>2. ~Moving /\ ~Moving' /\ Copied' = Copied /\ Source' = Source /\ Visible' = Visible
    BY <1>1, SearchedSame DEF Moving
  <1>3. Calm
    BY <1>1, <1>2, CalmFlash
  <1>4. PICK k : k = op.k
    OBVIOUS
  <1>5. \A x \in Heads(Source) : At(x).k = k => At(x).t = "bulk" /\ op.v \in BulkVals
    BY <1>4 DEF OwnInv, WriteInv
  <1>6. Covers(ToSet(Fragments(k)), k)
    BY <1>5, FragmentsCover
  <1>7. CASE op.v \in BulkVals /\ Fragments(op.k) # <<>>
    <2>1. /\ marks' = [at |-> Fragments(op.k), to |-> "updated"]
          /\ pc' = "undo" /\ op' = op
      BY <1>7 DEF NoSpace
    <2>2. PICK D : D = ToSet(Fragments(k))
      OBVIOUS
    <2>3. Covers(D, k) /\ ToSet(marks'.at) = D /\ op'.k = k
      BY <1>4, <1>6, <2>1, <2>2
    <2> QED BY <1>1, <1>2, <1>3, <2>1, <2>3, DeletionParts DEF OwnInv, Claimed
  <1>8. CASE ~(op.v \in BulkVals /\ Fragments(op.k) # <<>>)
    <2>1. pc' = "idle" /\ op' = NoOp
      BY <1>8 DEF NoSpace, Return
    <2>2. ~ \E x \in Heads(Source) : At(x).k = k
      <3>1. CASE op.v \notin BulkVals
        BY <3>1, <1>5
      <3>2. CASE Fragments(op.k) = <<>>
        <4>1. ToSet(Fragments(k)) = {}
          BY <3>2, <1>4 DEF ToSet
        <4> QED BY <4>1, <1>6 DEF Covers
      <3> QED BY <3>1, <3>2, <1>8
    <2>3. \A j : Claimed(j) => j = k
      BY <1>4 DEF Claimed
    <2>4. op'.fn # "put"
      BY <2>1 DEF NoOp
    <2> QED BY <1>1, <1>2, <1>3, <2>1, <2>2, <2>3, <2>4, CalmParts DEF Moving
  <1> QED BY <1>7, <1>8

\* A call starts.
LEMMA StartParts ==
    ASSUME StoreInv, KindInv, OwnInv, [Next]_vars,
           \/ \E k \in Keys, v \in Vals : PutStart(k, v)
           \/ \E k \in Keys : DelStart(k)
           \/ CleanStart \/ Reboot
    PROVE  OwnInv'
  <1>1. pc = "idle" /\ UNCHANGED <<pst, seq, slot, est>>
    BY DEF PutStart, DelStart, CleanStart, Starts, Reboot, flash
  <1>2. op = NoOp /\ op.fn \notin {"put", "del"}
    BY <1>1 DEF StoreInv, PagesInv, CallInv, NoOp
  <1>3. pc' \in {"delete", "room", "clean", "off"}
    BY DEF PutStart, DelStart, CleanStart, Reboot, LoseRam
  <1>4. ~Moving /\ ~Moving' /\ Copied' = Copied /\ Source' = Source /\ Visible' = Visible
    BY <1>1, <1>3, SearchedSame DEF Moving
  <1>5. Calm
    BY <1>1, <1>4, CalmFlash
  <1>6. \A k : ~Claimed(k)
    BY <1>2 DEF Claimed
  <1>7. ASSUME NEW k, op'.k = k, op'.fn = "put", pc' \in {"delete", "room"},
               marks' = [at |-> Deletion(k), to |-> "updated"],
               pc' = "room" => Deletion(k) = <<>>
        PROVE  OwnInv'
    <2>1. PICK D : D = ToSet(Deletion(k))
      OBVIOUS
    <2>2. Covers(D, k) /\ ToSet(marks'.at) = D
      BY <1>1, <1>7, <2>1, DeletionCovers DEF OwnInv, AloneInv
    <2>3. CASE pc' = "delete"
      BY <1>1, <1>4, <1>5, <1>6, <1>7, <2>2, <2>3, DeletionParts DEF OwnInv
    <2>4. CASE pc' = "room"
      <3>1. D = {}
        BY <1>7, <2>1, <2>4 DEF ToSet
      <3>2. Heads(Source)' = Heads(Source) /\ \A x \in Heads(Source) : At(x)' = At(x)
        BY <1>4, <1>5, CalmOwn
      <3>3. WriteInv'
        BY <1>7, <2>2, <2>4, <3>1, <3>2 DEF Covers, WriteInv
      <3>4. AloneInv'
        BY <1>4, <1>5, CalmOwn DEF OwnInv, AloneInv
      <3>5. InfoInv'
        BY <1>1, <1>4, <1>5, <1>6, CalmInfo DEF OwnInv
      <3>6. DeleteInv' /\ OriginInv'
        BY <1>4, <2>4 DEF DeleteInv, OriginInv
      <3> QED BY <3>3, <3>4, <3>5, <3>6 DEF OwnInv
    <2> QED BY <2>3, <2>4, <1>7
  <1>8. CASE \E k \in Keys, v \in Vals : PutStart(k, v)
    <2>1. PICK k \in Keys, v \in Vals : PutStart(k, v)
      BY <1>8
    <2>2. /\ op'.k = k /\ op'.fn = "put"
          /\ marks' = [at |-> Deletion(k), to |-> "updated"]
          /\ pc' = IF Deletion(k) = <<>> THEN "room" ELSE "delete"
      BY <2>1 DEF PutStart, Starts
    <2> QED BY <1>7, <2>2
  <1>9. CASE \E k \in Keys : DelStart(k)
    <2>1. PICK k \in Keys : DelStart(k)
      BY <1>9
    <2>2. /\ op'.k = k /\ pc' = "delete"
          /\ marks' = [at |-> Deletion(k), to |-> "updated"]
      BY <2>1 DEF DelStart, Starts
    <2>3. PICK D : D = ToSet(Deletion(k))
      OBVIOUS
    <2>4. Covers(D, k) /\ ToSet(marks'.at) = D
      BY <1>1, <2>2, <2>3, DeletionCovers DEF OwnInv, AloneInv
    <2> QED BY <1>1, <1>4, <1>5, <1>6, <2>2, <2>4, DeletionParts DEF OwnInv
  <1>10. CASE CleanStart \/ Reboot
    <2>1. op'.fn # "put" /\ pc' \in {"clean", "off"}
      BY <1>10 DEF CleanStart, Reboot, LoseRam, Starts, NoOp
    <2> QED BY <1>1, <1>4, <1>5, <1>6, <2>1, CalmParts
  <1> QED BY <1>8, <1>9, <1>10

\* The steps of a put before it writes, and those that find no work.
LEMMA RoomParts ==
    ASSUME StoreInv, CandidateInv, OwnInv, [Next]_vars, HasRoom \/ MarkFull
    PROVE  OwnInv'
  <1>1. /\ pc = "room" /\ pc' \in {"header", "request"}
        /\ UNCHANGED <<slot, est, op, req>>
    BY DEF HasRoom, MarkFull, flash
  <1>2. ~Moving /\ ~Moving' /\ Copied' = Copied /\ Running /\ used # <<>>
    BY <1>1, ListFacts DEF Moving, Copied, Running, StoreInv
  <1>3. Searched' = Searched
    <2>1. CASE HasRoom
      BY <2>1 DEF HasRoom, flash, Searched
    <2>2. CASE MarkFull
      <3>1. pst' = [pst EXCEPT ![Last(used)] = "full"]
        BY <2>2 DEF MarkFull
      <3>2. PICK q : q = Last(used)
        OBVIOUS
      <3>3. /\ q \in ToSet(used) /\ q \in Pages
            /\ \A p \in ToSet(used) : seq[p] <= seq[q]
            /\ \A p \in Pages : seq[p] \in Nat
        BY <1>2, <3>2, LastIsNewest
      <3>4. Written = ToSet(used)
        BY <1>2 DEF StoreInv, PagesInv, ListInv, Kept
      <3>5. pst[q] # "candidate"
        <4> SUFFICES ASSUME pst[q] = "candidate" PROVE FALSE
          OBVIOUS
        <4>1. PICK r \in Written : seq[q] < seq[r]
          BY <1>1, <3>3 DEF CandidateInv
        <4>2. seq[r] <= seq[q] /\ seq[r] \in Nat /\ seq[q] \in Nat
          BY <3>3, <3>4, <4>1 DEF Written
        <4> QED BY <4>1, <4>2
      <3>6. pst \in [Pages -> PageStates]
        BY DEF StoreInv, PagesInv, Types
      <3>7. pst[q] \in {"active", "full"}
        BY <3>3, <3>4, <3>5, <3>6 DEF Written, PageStates
      <3> QED BY <3>1, <3>2, <3>6, <3>7 DEF Searched
    <2> QED BY <2>1, <2>2
  <1>4. Source' = Source /\ Visible' = Visible
    BY <1>2, <1>3 DEF Source, Visible
  <1>5. Calm
    BY <1>1, <1>2, CalmFlash
  <1>6. \A k : Claimed(k)' <=> Claimed(k)
    BY <1>1 DEF Claimed
  <1> QED BY <1>1, <1>2, <1>4, <1>5, <1>6, CalmParts

LEMMA RequestParts ==
    ASSUME StoreInv, OwnInv, [Next]_vars, Request
    PROVE  OwnInv'
  <1>1. pc = "request" /\ op.fn = "put" /\ UNCHANGED flash
    BY DEF Request, StoreInv, PagesInv, CallInv
  <1>2. CASE NoSpace
    BY <1>1, <1>2, NoSpaceParts
  <1>3. CASE ~NoSpace
    <2>1. pc' \in {"page", "erase"} /\ op' = op
      BY <1>3 DEF Request
    <2>2. ~Moving /\ ~Moving' /\ Copied' = Copied /\ Source' = Source /\ Visible' = Visible
      BY <1>1, <2>1, SearchedSame DEF Moving, flash
    <2>3. Calm
      BY <1>1, <2>2, CalmFlash DEF flash
    <2>4. \A k : Claimed(k)' <=> Claimed(k)
      BY <2>1 DEF Claimed
    <2> QED BY <1>1, <2>1, <2>2, <2>3, <2>4, CalmParts
  <1> QED BY <1>2, <1>3

\* An erased page that was not in use.
LEMMA ErasedCalm ==
    ASSUME StoreInv, [Next]_vars, NEW p \in Pages \ Written, NEW st \in {"blank", "error"},
           Erased(p, st), ~Moving, ~Moving'
    PROVE  Calm /\ Source' = Source /\ Visible' = Visible /\ slot' = slot /\ est' = est
  <1>1. slot' = slot /\ est' = est
    BY ErasedIs
  <1>2. Copied' = Copied
    BY DEF Copied, Moving
  <1>3. Calm
    BY <1>1, <1>2, CalmFlash
  <1>4. pst \in [Pages -> PageStates] /\ pst' = [pst EXCEPT ![p] = st]
    BY DEF StoreInv, PagesInv, Types, Erased
  <1>5. pst[p] \notin {"active", "full"} /\ st \notin {"active", "full"}
    BY DEF Written
  <1>6. Searched' = Searched
    BY <1>4, <1>5 DEF Searched
  <1> QED BY <1>1, <1>3, <1>6 DEF Source, Visible

LEMMA ErasePageParts ==
    ASSUME StoreInv, OwnInv, [Next]_vars, ErasePage
    PROVE  OwnInv'
  <1>1. pc = "erase" /\ pc' = "page" /\ op' = op /\ Erased(req.page, "blank")
    BY DEF ErasePage
  <1>2. ~Moving /\ ~Moving' /\ req.page \in Pages \ ToSet(used) /\ Written = ToSet(used)
    BY <1>1, ListFacts DEF Moving, StoreInv, PagesInv, ListInv, Kept, Running
  <1>3. Calm /\ Source' = Source /\ Visible' = Visible
    <2>1. PICK p : p = req.page
      OBVIOUS
    <2>2. p \in Pages \ Written /\ Erased(p, "blank")
      BY <1>1, <1>2, <2>1
    <2> QED BY <1>2, <2>2, ErasedCalm
  <1>4. \A k : Claimed(k)' <=> Claimed(k)
    BY <1>1 DEF Claimed
  <1> QED BY <1>1, <1>2, <1>3, <1>4, CalmParts

LEMMA PageReadyParts ==
    ASSUME StoreInv, FreshInv, cut # "clean" => OwnInv, [Next]_vars, PageReady, cut' # "clean"
    PROVE  OwnInv'
  <1>1. pc = "again" /\ UNCHANGED flash /\ pc' \in {"header", "idle", "undo"}
    BY DEF PageReady, NoSpace, Return
  <1>2. ~Moving /\ ~Moving' /\ Copied' = Copied /\ Source' = Source /\ Visible' = Visible
    BY <1>1, SearchedSame DEF Moving, flash
  <1>3. Calm
    BY <1>1, <1>2, CalmFlash DEF flash
  <1>4. CASE op.fn = "put"
    <2>1. cut' = cut /\ OwnInv
      BY <1>4 DEF PageReady
    <2>2. CASE NoSpace
      BY <1>1, <1>4, <2>1, <2>2, NoSpaceParts
    <2>3. CASE ~NoSpace
      <3>1. pc' = "header" /\ op' = op
        BY <1>4, <2>3 DEF PageReady
      <3>2. \A k : Claimed(k)' <=> Claimed(k)
        BY <3>1 DEF Claimed
      <3> QED BY <1>1, <1>2, <1>3, <2>1, <3>1, <3>2, CalmParts
    <2> QED BY <2>2, <2>3
  <1>5. CASE op.fn # "put"
    <2>1. pc' = "idle" /\ op' = NoOp
      BY <1>5 DEF PageReady, Return
    <2>2. \A p \in Pages : \A i \in Slots' : est'[p][i] = "free"
      <3>1. est' = est /\ Slots' = Slots
        BY <1>1, InstKept DEF flash
      <3> QED BY <1>1, <1>5, <3>1 DEF FreshInv
    <2>3. Copied' = {}
      BY <2>1 DEF Copied
    <2>4. \A P : Heads(P)' \subseteq (P \X Slots') /\ \A x \in Heads(P)' : est'[x[1]][x[2]] = "used"
      BY <2>3 DEF Heads
    <2>5. Source' \in SUBSET Pages /\ Visible' \in SUBSET Pages
      BY <1>2, HeadFacts
    <2>6. Heads(Source)' = {} /\ Heads(Visible)' = {}
      <3>1. PICK S : S = Source
        OBVIOUS
      <3>2. PICK V : V = Visible
        OBVIOUS
      <3>3. Heads(Source)' = Heads(S)' /\ Heads(Visible)' = Heads(V)'
        BY <1>2, <3>1, <3>2 DEF Heads
      <3>4. Heads(S)' = {} /\ Heads(V)' = {}
        BY <1>2, <2>2, <2>3, <2>5, <3>1, <3>2 DEF Heads
      <3> QED BY <3>3, <3>4
    <2>7. AloneInv' /\ InfoInv'
      BY <2>6 DEF AloneInv, Alone, InfoInv
    <2>8. DeleteInv' /\ WriteInv' /\ OriginInv'
      BY <1>2, <2>1 DEF DeleteInv, WriteInv, OriginInv, NoOp
    <2> QED BY <2>7, <2>8 DEF OwnInv
  <1> QED BY <1>4, <1>5

\* pages_load marks only what is no header.
LEMMA BootParts ==
    ASSUME StoreInv, OwnInv, [Next]_vars, Boot
    PROVE  OwnInv'
  <1>1. /\ pc = "off" /\ pc' \in {"idle", "page", "erase"} /\ op' = op
        /\ UNCHANGED <<pst, seq, slot>> /\ est' = LoadStates
    BY DEF Boot
  <1>2. ~Moving /\ ~Moving' /\ Copied' = {} /\ Copied = {}
        /\ Source' = Source /\ Visible' = Visible
    BY <1>1, SearchedSame DEF Moving
  <1>3. \A p \in Pages : \A i \in Slots : slot[p][i].c = "head" => est'[p][i] = est[p][i]
    BY <1>1 DEF LoadStates
  <1>4. est'= LoadStates /\ \A p \in Pages : \A i \in Slots : est'[p][i] \in {est[p][i], "updated"}
    BY <1>1 DEF LoadStates
  <1>5. Calm
    <2>1. Slots' = Slots /\ inst' = inst
      BY InstKept
    <2>2. \A x : At(x)' = At(x)
      BY <1>1 DEF At
    <2>3. ASSUME NEW x \in Pages \X Slots PROVE IsHead(x)' <=> IsHead(x)
      <3>1. x[1] \in Pages /\ x[2] \in Slots
        OBVIOUS
      <3>2. At(x).c = "head" => est'[x[1]][x[2]] = est[x[1]][x[2]]
        BY <3>1, <1>3 DEF At
      <3> QED BY <3>2, <2>2, <1>2 DEF IsHead
    <2> QED BY <2>1, <2>2, <2>3 DEF Calm
  <1>6. \A k : Claimed(k)' <=> Claimed(k)
    BY <1>1 DEF Claimed
  <1> QED BY <1>1, <1>2, <1>5, <1>6, CalmParts

-----------------------------------------------------------------------------
(* A page is emptied into another                                          *)

LEMMA WritePageParts ==
    ASSUME StoreInv, CandidateInv, OwnInv, [Next]_vars, WritePage
    PROVE  OwnInv'
  <1>1. /\ pc = "page" /\ UNCHANGED <<slot, est, op, req>>
        /\ pst' = [pst EXCEPT ![req.page] = "active"]
        /\ IF req.vic = 0 THEN pc' = "again" ELSE pc' = "candidate"
    BY DEF WritePage
  <1>2. PICK T : T = req.page
    OBVIOUS
  <1>3. PICK V : V = req.vic
    OBVIOUS
  <1>4. T \in Pages \ ToSet(used) /\ Written = ToSet(used) /\ ~Moving
    BY <1>1, <1>2, ListFacts DEF Moving, StoreInv, PagesInv, ListInv, Kept, Running
  <1>5. PICK S : S = Searched
    OBVIOUS
  <1>6. pst \in [Pages -> PageStates] /\ S \in SUBSET Pages /\ T \notin S
        /\ Source = S /\ Visible = S
    BY <1>4, <1>5, HeadFacts DEF StoreInv, PagesInv, Types, Searched, Written
  <1>7. Searched' = S \cup {T}
    BY <1>1, <1>2, <1>4, <1>5, <1>6 DEF Searched
  <1>8. Calm /\ Copied' = {} /\ Copied = {}
    <2>1. Copied' = {} /\ Copied = {}
      BY <1>1 DEF Copied
    <2> QED BY <1>1, <2>1, CalmFlash
  <1>9. \A i \in Slots : est[T][i] = "free"
    BY <1>4 DEF StoreInv, EntryInv, FillInv
  <1>10. PICK H : H = Heads(S)
    OBVIOUS
  <1>11. /\ Heads(S)' = H /\ Heads(S \cup {T})' = H /\ Heads({T})' = {}
         /\ \A x \in H : At(x)' = At(x)
    <2>1. Heads({T}) = {}
      BY <1>8, <1>9 DEF Heads
    <2>2. Heads(S \cup {T}) = H
      BY <1>8, <1>9, <1>10 DEF Heads
    <2>3. S \cup {T} \in SUBSET Pages /\ {T} \in SUBSET Pages
      BY <1>4, <1>6
    <2> QED BY <2>1, <2>2, <2>3, <1>6, <1>8, <1>10, CalmHeads
  <1>12. V # 0 => V \in S
    <2> SUFFICES ASSUME V # 0 PROVE V \in S
      OBVIOUS
    <2>1. V \in ToSet(used) /\ V \in Pages /\ V \in Written
      BY <1>1, <1>3, <1>4, ListFacts DEF StoreInv, PagesInv, ReqInv
    <2>2. pst[V] # "candidate"
      BY <1>1, <1>4, <2>1, NoCandidate
    <2> QED BY <1>5, <1>6, <2>1, <2>2 DEF Searched, Written, PageStates
  <1>13. PICK A, B : A = Source' /\ B = Visible'
    OBVIOUS
  <1>14. A \in {S, S \cup {T}} /\ B \subseteq S \cup {T}
    <2>1. CASE V = 0
      <3>1. ~Moving'
        BY <1>1, <1>3, <2>1 DEF Moving
      <3> QED BY <3>1, <1>7, <1>13 DEF Source, Visible
    <2>2. CASE V # 0
      <3>1. Moving' /\ req' = req
        BY <1>1, <1>3, <2>2 DEF Moving
      <3>2. A = ((S \cup {T}) \cup {V}) \ {T} /\ B = (S \cup {T}) \ {V}
        BY <3>1, <1>2, <1>3, <1>7, <1>13 DEF Source, Visible
      <3> QED BY <3>2, <1>6, <1>12, <2>2
    <2> QED BY <2>1, <2>2
  <1>15. Heads(Source)' = H /\ Heads(Visible)' \subseteq H /\ Heads(Source) = H
    <2>1. Heads(Source)' = Heads(A)' /\ Heads(Visible)' = Heads(B)'
      BY <1>13 DEF Heads
    <2>2. Heads(A)' = H
      BY <1>11, <1>14
    <2>3. Heads(B)' \subseteq Heads(S \cup {T})'
      BY <1>14 DEF Heads
    <2> QED BY <2>1, <2>2, <2>3, <1>6, <1>10, <1>11
  <1>16. AloneInv'
    <2>1. Alone(H)
      BY <1>15 DEF OwnInv, AloneInv
    <2>2. PICK G : G = Heads(Visible)'
      OBVIOUS
    <2>3. Alone(H)' /\ Alone(G)'
      BY <1>11, <1>15, <2>1, <2>2, AloneStays
    <2>4. Alone(Heads(Source))' /\ Alone(Heads(Visible))'
      BY <2>2, <2>3, <1>15 DEF Alone
    <2> QED BY <2>4 DEF AloneInv
  <1>17. InfoInv'
    <2>1. \A k : Claimed(k)' <=> Claimed(k)
      BY <1>1 DEF Claimed
    <2>2. inst' = inst /\ pc # "clean"
      BY <1>1, <1>8 DEF Calm
    <2> QED BY <1>11, <1>15, <2>1, <2>2, InfoStays DEF OwnInv
  <1>18. DeleteInv' /\ WriteInv'
    <2>1. pc' \in {"again", "candidate"}
      BY <1>1
    <2>2. op.fn = "put" => \A x \in H : At(x).k = op.k => At(x).t = "bulk" /\ op.v \in BulkVals
      BY <1>1, <1>15 DEF OwnInv, WriteInv
    <2>3. op'.fn = "put" =>
             \A x \in Heads(Source)' : At(x)'.k = op'.k => At(x)'.t = "bulk" /\ op'.v \in BulkVals
      BY <1>1, <1>11, <1>15, <2>2
    <2> QED BY <2>1, <2>3 DEF DeleteInv, WriteInv
  <1>19. OriginInv'
    <2> SUFFICES ASSUME Moving' PROVE OriginInv'
      BY DEF OriginInv
    <2>1. Heads({req.page})' = {} /\ Heads({req.vic})' \subseteq {V} \X Slots'
      BY <1>1, <1>2, <1>3, <1>11 DEF Heads
    <2>2. req'.from = 1 /\ Slots' = Slots /\ Slots = 1..N /\ N \in Nat
      BY <1>1, <1>8, HeadFacts DEF Calm, StoreInv, EntryInv, MoveInv
    <2>3. \A y \in Heads({req.vic})' : y[2] \in 1..N
      BY <2>1, <2>2
    <2>4. \A y \in Heads({req.vic})' : ~(y[2] < req'.from)
      BY <2>2, <2>3
    <2> QED BY <2>1, <2>4 DEF OriginInv
  <1> QED BY <1>16, <1>17, <1>18, <1>19 DEF OwnInv

LEMMA MarkCandidateParts ==
    ASSUME StoreInv, OwnInv, [Next]_vars, MarkCandidate
    PROVE  OwnInv'
  <1>1. /\ pc = "candidate" /\ pc' = "copy" /\ UNCHANGED <<slot, est, op, req>>
        /\ pst' = [pst EXCEPT ![req.vic] = "candidate"]
    BY DEF MarkCandidate
  <1>2. Moving /\ Moving' /\ Copied' = Copied
    BY <1>1 DEF Moving, Copied
  <1>3. req.vic \in Pages /\ pst \in [Pages -> PageStates]
    BY <1>2, ListFacts DEF StoreInv, PagesInv, Types
  <1>4. Searched \ {req.vic} = Searched' \ {req.vic}
    BY <1>1, <1>3 DEF Searched
  <1>5. Source' = Source /\ Visible' = Visible
    BY <1>1, <1>2, <1>4 DEF Source, Visible
  <1>6. Calm
    BY <1>1, <1>2, CalmFlash
  <1>7. \A k : Claimed(k)' <=> Claimed(k)
    BY <1>1 DEF Claimed
  <1> QED BY <1>1, <1>2, <1>5, <1>6, <1>7, CalmParts

LEMMA CopyStateParts ==
    ASSUME StoreInv, OwnInv, [Next]_vars, CopyState
    PROVE  OwnInv'
  <1>1. /\ pc = "copied" /\ pc' = "copy" /\ UNCHANGED <<pst, slot, op, req>>
        /\ est' = [est EXCEPT ![req.page][nxt[req.page] - 1] = "used"]
    BY DEF CopyState
  <1>2. Moving /\ Moving'
    BY <1>1 DEF Moving
  <1>3. /\ req.vic \in Pages /\ req.page \in Pages /\ req.vic # req.page
        /\ est \in [Pages -> [Slots -> EntryStates]]
    BY <1>2, ListFacts DEF StoreInv, PagesInv, Types
  <1>4. Source' = Source /\ Visible' = Visible
    BY <1>1, <1>2 DEF Source, Visible, Searched
  <1>5. Copied = {<<req.page, nxt[req.page] - 1>>} /\ Copied' = {}
    BY <1>1 DEF Copied
  <1>6. Calm
    <2>1. Slots' = Slots /\ inst' = inst
      BY InstKept
    <2>2. \A x : At(x)' = At(x)
      BY <1>1 DEF At
    <2>3. PICK T, n : T = req.page /\ n = nxt[req.page] - 1
      OBVIOUS
    <2>4. ASSUME NEW x \in Pages \X Slots PROVE IsHead(x)' <=> IsHead(x)
      <3>1. PICK p \in Pages, i \in Slots : x = <<p, i>>
        OBVIOUS
      <3>2. est'[p][i] = IF p = T /\ i = n THEN "used" ELSE est[p][i]
        BY <1>1, <1>3, <2>3
      <3>3. x \in Copied <=> p = T /\ i = n
        BY <1>5, <2>3, <3>1
      <3> QED BY <1>5, <2>2, <3>1, <3>2, <3>3 DEF IsHead
    <2> QED BY <2>1, <2>2, <2>4 DEF Calm
  <1>7. \A k : Claimed(k)' <=> Claimed(k)
    BY <1>1 DEF Claimed
  <1>8. est'[req.vic] = est[req.vic]
    BY <1>1, <1>3
  <1> QED BY <1>1, <1>2, <1>4, <1>6, <1>7, <1>8, CalmParts

\* The copy of an element stands in for it.
LEMMA CopyEntryParts ==
    ASSUME StoreInv, OwnInv, [Next]_vars, CopyEntry
    PROVE  OwnInv'
  <1>1. PICK T, V, f, n : T = req.page /\ V = req.vic /\ f = req.from /\ n = nxt[req.page]
    OBVIOUS
  <1>2. PICK m : m = Min(ToCopy)
    OBVIOUS
  <1>3. PICK c : c = slot[V][m]
    OBVIOUS
  <1>4. /\ pc = "copy" /\ pc' = "copied" /\ UNCHANGED <<pst, est, op, used>>
        /\ slot' = [slot EXCEPT ![T][n] = Program(@, c)]
        /\ nxt' = [nxt EXCEPT ![T] = n + 1]
        /\ req' = [req EXCEPT !.from = m + 1]
    BY <1>1, <1>2, <1>3 DEF CopyEntry, EntryWrite
  <1>5. /\ V \in Pages /\ T \in Pages /\ V # T /\ N \in Nat /\ Slots = 1..N
        /\ f \in 1..(N + 1) /\ n \in 1..(N + 1) /\ n <= f
        /\ \A i \in Slots : (i < n => est[T][i] = "used") /\ (i >= n => est[T][i] = "free")
        /\ \A i \in Slots : i >= n /\ Steady => slot[T][i] = Blank
    BY <1>1, <1>4, CopyFacts
  <1>6. /\ slot \in [Pages -> [Slots -> Cell]] /\ nxt \in [Pages -> Nat]
        /\ req \in [page : 0..NumPages, vic : 0..NumPages, from : Nat]
    BY DEF StoreInv, PagesInv, Types
  <1>7. /\ m \in Slots /\ m >= f /\ est[V][m] = "used"
        /\ \A i \in Slots : i >= f /\ est[V][i] = "used" => m <= i
    <2>1. ToCopy # {} /\ ToCopy \in SUBSET Nat
      BY <1>5 DEF CopyEntry, ToCopy
    <2>2. m \in ToCopy /\ \A i \in ToCopy : m <= i
      BY <2>1, <1>2, MinIs
    <2> QED BY <2>2, <1>1 DEF ToCopy
  <1>8. n \in Slots
    BY <1>5, <1>7
  <1>9. Moving /\ Moving' /\ Copied = {} /\ Copied' = {<<T, n>>}
    <2>1. req'.page = T /\ nxt'[T] = n + 1 /\ (n + 1) - 1 = n
      BY <1>1, <1>4, <1>5, <1>6
    <2> QED BY <2>1, <1>4 DEF Moving, Copied
  <1>10. req'.page = T /\ req'.vic = V /\ req'.from = m + 1
    BY <1>1, <1>4, <1>6
  <1>11. PICK S, W : S = Source /\ W = Visible
    OBVIOUS
  <1>12. /\ Source' = S /\ Visible' = W /\ T \notin S /\ V \in S /\ V \notin W
         /\ W \subseteq S \cup {T} /\ S \in SUBSET Pages /\ W \in SUBSET Pages
    BY <1>1, <1>4, <1>5, <1>9, <1>10, <1>11, HeadFacts DEF Source, Visible, Searched
  <1>13. Slots' = Slots /\ inst' = inst /\ (Steady' <=> Steady)
    BY InstKept DEF Steady
  <1>14. \A p \in Pages : \A i \in Slots : p # T \/ i # n => slot'[p][i] = slot[p][i]
    BY <1>4, <1>6
  <1>15. slot'[T][n] = Program(slot[T][n], c)
    BY <1>4, <1>5, <1>6, <1>8
  <1>16. PICK x0 : x0 = <<T, n>>
    OBVIOUS
  <1>17. ASSUME NEW P \in SUBSET Pages
         PROVE  /\ Heads(P)' \subseteq Heads(P) \cup (IF T \in P THEN {x0} ELSE {})
                /\ Heads(P) \subseteq Heads(P)' /\ x0 \notin Heads(P)
                /\ \A x \in Heads(P) : At(x)' = At(x)
    <2>1. x0 \notin Heads(P)
      BY <1>5, <1>8, <1>9, <1>16 DEF Heads
    <2>2. ASSUME NEW x \in P \X Slots, x # x0 PROVE At(x)' = At(x) /\ (IsHead(x)' <=> IsHead(x))
      <3>1. PICK p \in P, i \in Slots : x = <<p, i>>
        OBVIOUS
      <3>2. p # T \/ i # n
        BY <2>2, <3>1, <1>16
      <3>3. At(x)' = At(x)
        BY <3>1, <3>2, <1>14 DEF At
      <3>4. x \notin Copied' /\ x \notin Copied
        BY <1>9, <1>16, <2>2
      <3> QED BY <3>3, <3>4, <1>4 DEF IsHead
    <2>3. /\ Heads(P) = {x \in P \X Slots : IsHead(x)}
          /\ Heads(P)' = {x \in P \X Slots : IsHead(x)'}
      BY <1>13 DEF Heads, IsHead
    <2> QED BY <2>1, <2>2, <2>3, <1>16
  <1>18. x0 \in Heads({T})' => At(x0)' = c
    <2>1. At(x0)' = slot'[T][n]
      BY <1>16 DEF At
    <2> QED BY <2>1, <1>15, ProgramHead DEF Heads
  <1>19. PICK H, G : H = Heads(S) /\ G = Heads(W)
    OBVIOUS
  <1>20. /\ Heads(Source) = H /\ Heads(Visible) = G
         /\ Heads(Source)' = H /\ \A x \in H : At(x)' = At(x)
         /\ Heads(Visible)' \subseteq G \cup {x0} /\ \A x \in G : At(x)' = At(x)
    <2>1. Heads(Source)' = Heads(S)' /\ Heads(Visible)' = Heads(W)'
      BY <1>12 DEF Heads
    <2> QED BY <2>1, <1>11, <1>12, <1>17, <1>19
  <1>21. x0 \in Heads(Visible)' => c.c = "head" /\ At(x0)' = c /\ <<V, m>> \in H
    <2> SUFFICES ASSUME x0 \in Heads(Visible)' PROVE c.c = "head" /\ At(x0)' = c /\ <<V, m>> \in H
      OBVIOUS
    <2>1. At(x0)'.c = "head"
      BY DEF Heads
    <2>2. At(x0)' = c
      BY <2>1, <1>15, <1>16, ProgramHead DEF At
    <2> QED BY <2>1, <2>2, <1>3, <1>7, <1>12, <1>19, AtIs DEF Heads
  <1>22. AloneInv'
    <2>1. Alone(H) /\ Alone(G)
      BY <1>20 DEF OwnInv, AloneInv
    <2>2. ASSUME NEW x \in G, x0 \in Heads(Visible)' PROVE Friends(At(x), c) /\ Friends(c, At(x))
      <3>1. At(<<V, m>>) = c /\ <<V, m>> \in H
        BY <1>3, <1>21, <2>2, AtIs
      <3>2. x[1] \in W /\ x \in W \X Slots
        BY <1>19 DEF Heads
      <3>3. CASE x[1] # T
        <4>1. x \in H /\ x # <<V, m>>
          BY <3>2, <3>3, <1>12, <1>19 DEF Heads
        <4> QED BY <3>1, <4>1, <2>1 DEF Alone
      <3>4. CASE x[1] = T
        <4>1. x \in Heads({T})
          BY <3>2, <3>4, <1>19 DEF Heads
        <4>2. PICK i \in 1..(f - 1) : est[V][i] = "used" /\ slot[V][i] = At(x)
          BY <4>1, <1>1, <1>9 DEF OwnInv, OriginInv
        <4>3. i \in Slots /\ i # m
          BY <1>5, <1>7
        <4>4. <<V, i>> \in H /\ At(<<V, i>>) = At(x) /\ <<V, i>> # <<V, m>>
          BY <4>1, <4>2, <4>3, <1>12, <1>19, AtIs DEF Heads
        <4> QED BY <3>1, <4>4, <2>1 DEF Alone
      <3> QED BY <3>3, <3>4
    <2>3. Alone(Heads(Source))'
      <3>1. Alone(H)'
        BY <2>1, <1>20, AloneStays
      <3> QED BY <3>1, <1>20 DEF Alone
    <2>4. ASSUME NEW x \in Heads(Visible)', NEW y \in Heads(Visible)', x # y
          PROVE  Friends(At(x)', At(y)')
      <3>1. CASE x \in G /\ y \in G
        <4>1. Friends(At(x), At(y))
          BY <3>1, <2>1, <2>4 DEF Alone
        <4> QED BY <4>1, <3>1, <1>20
      <3>2. CASE x = x0
        <4>1. y \in G
          BY <3>2, <2>4, <1>20
        <4>2. Friends(c, At(y)) /\ At(x)' = c
          BY <3>2, <4>1, <2>2, <2>4, <1>21
        <4> QED BY <4>1, <4>2, <1>20
      <3>3. CASE y = x0
        <4>1. x \in G
          BY <3>3, <2>4, <1>20
        <4>2. Friends(At(x), c) /\ At(y)' = c
          BY <3>3, <4>1, <2>2, <2>4, <1>21
        <4> QED BY <4>1, <4>2, <1>20
      <3> QED BY <3>1, <3>2, <3>3, <1>20
    <2>5. Alone(Heads(Visible))'
      BY <2>4 DEF Alone, Friends
    <2> QED BY <2>3, <2>5 DEF AloneInv
  <1>23. InfoInv'
    <2>1. \A k : Claimed(k)' <=> Claimed(k)
      BY <1>4 DEF Claimed
    <2> QED BY <2>1, <1>4, <1>13, <1>20, InfoStays DEF OwnInv
  <1>24. DeleteInv' /\ WriteInv'
    <2>1. op.fn = "put" => \A x \in H : At(x).k = op.k => At(x).t = "bulk" /\ op.v \in BulkVals
      BY <1>4, <1>20 DEF OwnInv, WriteInv
    <2>2. op'.fn = "put" =>
             \A x \in Heads(Source)' : At(x)'.k = op'.k => At(x)'.t = "bulk" /\ op'.v \in BulkVals
      BY <1>4, <1>20, <2>1
    <2> QED BY <2>2, <1>4 DEF DeleteInv, WriteInv
  <1>25. OriginInv'
    <2>1. /\ Heads({req.page})' = Heads({T})' /\ Heads({req.vic})' = Heads({V})'
          /\ Heads({req.page}) = Heads({T}) /\ Heads({req.vic}) = Heads({V})
      BY <1>1, <1>10 DEF Heads
    <2>2. /\ Heads({T})' \subseteq Heads({T}) \cup {x0} /\ \A x \in Heads({T}) : At(x)' = At(x)
          /\ Heads({T}) \subseteq Heads({T})'
          /\ Heads({V})' \subseteq Heads({V}) /\ \A x \in Heads({V}) : At(x)' = At(x)
      <3>1. {T} \in SUBSET Pages /\ {V} \in SUBSET Pages /\ T \notin {V}
        BY <1>5
      <3> QED BY <3>1, <1>17
    <2>3. ASSUME NEW x \in Heads({T})'
          PROVE  \E i \in 1..((m + 1) - 1) : est'[V][i] = "used" /\ slot'[V][i] = At(x)'
      <3>1. CASE x \in Heads({T})
        <4>1. PICK i \in 1..(f - 1) : est[V][i] = "used" /\ slot[V][i] = At(x)
          BY <3>1, <2>1, <1>1, <1>9 DEF OwnInv, OriginInv
        <4>2. i \in Slots /\ i \in 1..((m + 1) - 1)
          BY <1>5, <1>7
        <4> QED BY <3>1, <4>1, <4>2, <2>2, <1>4, <1>5, <1>14
      <3>2. CASE x = x0
        <4>1. At(x)' = c
          BY <3>2, <2>3, <1>18
        <4>2. m \in 1..((m + 1) - 1)
          BY <1>5, <1>7
        <4> QED BY <4>1, <4>2, <1>3, <1>4, <1>5, <1>7, <1>14
      <3> QED BY <3>1, <3>2, <2>2
    <2>4. ASSUME Steady, NEW y \in Heads({V})', y[2] < m + 1
          PROVE  \E x \in Heads({T})' : At(x)' = At(y)'
      <3>1. y \in Heads({V}) /\ At(y)' = At(y)
        BY <2>2
      <3>2. PICK i \in Slots : y = <<V, i>>
        BY <3>1 DEF Heads
      <3>3. est[V][i] = "used" /\ slot[V][i].c = "head"
        BY <3>1, <3>2, <1>9 DEF Heads, At
      <3>4. i < f \/ i = m
        BY <2>4, <3>2, <3>3, <1>5, <1>7
      <3>5. CASE i < f
        <4>1. y[2] < f
          BY <3>2, <3>5
        <4>2. PICK x \in Heads({T}) : At(x) = At(y)
          BY <2>1, <2>4, <3>1, <4>1, <1>1, <1>9 DEF OwnInv, OriginInv
        <4> QED BY <4>2, <3>1, <2>2
      <3>6. CASE i = m
        <4>1. slot[T][n] = Blank
          BY <2>4, <1>5, <1>8
        <4>2. slot'[T][n] = c
          BY <4>1, <1>15 DEF Program
        <4>3. At(x0)' = c /\ At(y) = c
          BY <4>2, <3>2, <3>6, <1>3, <1>16, AtIs DEF At
        <4>4. x0 \in Heads({T})'
          BY <4>3, <3>3, <3>6, <1>3, <1>8, <1>9, <1>13, <1>16 DEF Heads
        <4> QED BY <3>1, <4>3, <4>4
      <3> QED BY <3>4, <3>5, <3>6
    <2> QED BY <2>1, <2>3, <2>4, <1>1, <1>10, <1>13 DEF OriginInv
  <1> QED BY <1>22, <1>23, <1>24, <1>25 DEF OwnInv

\* Once everything is copied the page that was emptied may go.
LEMMA EraseVictimParts ==
    ASSUME StoreInv, CandidateInv, OwnInv, [Next]_vars, EraseVictim
    PROVE  OwnInv'
  <1>1. PICK T, V, f : T = req.page /\ V = req.vic /\ f = req.from
    OBVIOUS
  <1>2. PICK n : n = nxt[req.page]
    OBVIOUS
  <1>3. /\ pc = "copy" /\ pc' = "again" /\ op' = op /\ ToCopy = {}
        /\ Erased(V, "blank")
    BY <1>1 DEF EraseVictim
  <1>4. /\ V \in Pages /\ T \in Pages /\ V # T /\ N \in Nat /\ Slots = 1..N
        /\ f \in 1..(N + 1)
    BY <1>1, <1>2, <1>3, CopyFacts
  <1>5. Moving /\ ~Moving' /\ Copied = {} /\ Copied' = {} /\ pst[V] = "candidate"
    BY <1>1, <1>3 DEF Moving, Copied, CandidateInv
  <1>6. /\ pst' = [pst EXCEPT ![V] = "blank"] /\ pst \in [Pages -> PageStates]
        /\ \A q \in Pages \ {V} : slot'[q] = slot[q] /\ est'[q] = est[q]
    BY <1>3, <1>4, ErasedSlots DEF Erased, StoreInv, PagesInv, Types
  <1>7. Slots' = Slots /\ inst' = inst /\ (Steady' <=> Steady)
    BY InstKept DEF Steady
  <1>8. PICK S, W : S = Source /\ W = Visible
    OBVIOUS
  <1>9. /\ Source' = W /\ Visible' = W /\ W \in SUBSET Pages /\ V \notin W
        /\ W = (S \ {V}) \cup (W \cap {T}) /\ V \in S /\ T \notin S
    <2>1. Searched' = Searched /\ V \notin Searched
      BY <1>4, <1>5, <1>6 DEF Searched
    <2> QED BY <2>1, <1>1, <1>4, <1>5, <1>8, HeadFacts DEF Source, Visible
  <1>10. PICK H, G : H = Heads(S) /\ G = Heads(W)
    OBVIOUS
  <1>11. /\ Heads(Source) = H /\ Heads(Visible) = G
         /\ Heads(Source)' = G /\ Heads(Visible)' = G /\ \A x \in G : At(x)' = At(x)
    <2>1. ASSUME NEW x \in W \X Slots PROVE At(x)' = At(x) /\ (IsHead(x)' <=> IsHead(x))
      <3>1. PICK p \in W, i \in Slots : x = <<p, i>>
        OBVIOUS
      <3>2. slot'[p] = slot[p] /\ est'[p] = est[p]
        BY <3>1, <1>6, <1>9
      <3> QED BY <3>1, <3>2, <1>5 DEF At, IsHead
    <2>2. Heads(W) = {x \in W \X Slots : IsHead(x)} /\ Heads(W)' = {x \in W \X Slots : IsHead(x)'}
      BY <1>7 DEF Heads, IsHead
    <2>3. Heads(Source)' = Heads(W)' /\ Heads(Visible)' = Heads(W)'
      BY <1>9 DEF Heads
    <2> QED BY <2>1, <2>2, <2>3, <1>8, <1>10
  <1>12. \A x \in G : \E y \in H : At(y) = At(x)
    <2> TAKE x \in G
    <2>1. x[1] \in W /\ x \in W \X Slots
      BY <1>10 DEF Heads
    <2>2. CASE x[1] # T
      BY <2>1, <2>2, <1>9, <1>10 DEF Heads
    <2>3. CASE x[1] = T
      <3>1. x \in Heads({req.page})
        BY <2>1, <2>3, <1>1, <1>10 DEF Heads
      <3>2. PICK i \in 1..(f - 1) : est[V][i] = "used" /\ slot[V][i] = At(x)
        BY <3>1, <1>1, <1>5 DEF OwnInv, OriginInv
      <3>3. i \in Slots /\ At(x).c = "head"
        BY <3>1, <3>2, <1>4 DEF Heads
      <3>4. <<V, i>> \in H /\ At(<<V, i>>) = At(x)
        BY <3>2, <3>3, <1>9, <1>10, AtIs DEF Heads
      <3> QED BY <3>4
    <2> QED BY <2>2, <2>3
  <1>13. Steady => \A y \in H : \E x \in G : At(x) = At(y)
    <2> HAVE Steady
    <2> TAKE y \in H
    <2>1. y[1] \in S /\ y \in S \X Slots
      BY <1>10 DEF Heads
    <2>2. CASE y[1] # V
      BY <2>1, <2>2, <1>9, <1>10 DEF Heads
    <2>3. CASE y[1] = V
      <3>1. y \in Heads({req.vic})
        BY <2>1, <2>3, <1>1, <1>10 DEF Heads
      <3>2. PICK i \in Slots : y = <<V, i>>
        BY <2>1, <2>3
      <3>3. est[V][i] = "used"
        BY <3>1, <3>2, <1>5 DEF Heads
      <3>4. i < f
        BY <3>3, <1>1, <1>3, <1>4 DEF ToCopy
      <3>5. PICK x \in Heads({req.page}) : At(x) = At(y)
        BY <3>1, <3>2, <3>4, <1>1, <1>5 DEF OwnInv, OriginInv
      <3>6. T \in W
        BY <1>1, <1>4, <1>5, <1>8 DEF CandidateInv, Visible, Searched
      <3>7. x \in G
        BY <3>5, <3>6, <1>1, <1>10 DEF Heads
      <3> QED BY <3>5, <3>7
    <2> QED BY <2>2, <2>3
  <1>14. AloneInv'
    <2>1. Alone(G)
      BY <1>11 DEF OwnInv, AloneInv
    <2>2. Alone(G)'
      BY <2>1, <1>11, AloneStays
    <2> QED BY <2>2, <1>11 DEF AloneInv, Alone
  <1>15. InfoInv'
    <2>1. \A k : Claimed(k)' <=> Claimed(k)
      BY <1>3 DEF Claimed
    <2>2. ASSUME Steady, NEW x \in G, At(x)'.t = "bulk", ~Claimed(At(x).k)'
          PROVE  \E y \in G : At(y)'.t = "bulkinfo" /\ At(y)'.k = At(x)'.k
      <3>1. PICK k : k = At(x).k
        OBVIOUS
      <3>2. ~Claimed(k)
        BY <2>1, <2>2, <3>1, <1>11 DEF Claimed
      <3>3. PICK z \in H : At(z) = At(x)
        BY <1>12
      <3>4. PICK u \in H : At(u).t = "bulkinfo" /\ At(u).k = At(x).k
        BY <2>2, <3>1, <3>2, <3>3, <1>3, <1>11 DEF OwnInv, InfoInv
      <3>5. PICK y \in G : At(y) = At(u)
        BY <2>2, <1>13
      <3> QED BY <3>4, <3>5, <1>11
    <2> QED BY <2>2, <1>7, <1>11 DEF InfoInv
  <1>16. DeleteInv' /\ WriteInv' /\ OriginInv'
    <2>1. op.fn = "put" => \A x \in H : At(x).k = op.k => At(x).t = "bulk" /\ op.v \in BulkVals
      BY <1>3, <1>11 DEF OwnInv, WriteInv
    <2>2. op'.fn = "put" =>
             \A x \in Heads(Source)' : At(x)'.k = op'.k => At(x)'.t = "bulk" /\ op'.v \in BulkVals
      BY <1>3, <1>11, <1>12, <2>1
    <2> QED BY <2>2, <1>3, <1>5 DEF DeleteInv, WriteInv, OriginInv
  <1> QED BY <1>14, <1>15, <1>16 DEF OwnInv

-----------------------------------------------------------------------------
(* An element is written                                                   *)

LEMMA WriteHeaderParts ==
    ASSUME StoreInv, OwnInv, [Next]_vars, WriteHeader
    PROVE  OwnInv'
  <1>1. PICK P, n : P = Last(used) /\ n = nxt[Last(used)]
    OBVIOUS
  <1>2. PICK h : h = NextHeader
    OBVIOUS
  <1>3. /\ pc = "header" /\ UNCHANGED <<pst, est, used, req>>
        /\ slot' = [slot EXCEPT ![P][n] = Program(@, h)]
        /\ nxt' = [nxt EXCEPT ![P] = n + 1]
        /\ op' = [op EXCEPT !.len = Span(h)]
        /\ IF Span(h) > 0 THEN pc' = "data"
           ELSE pc' = "commit" /\ marks' = [at |-> <<<<P, n>>>>, to |-> "used"]
    BY <1>1, <1>2 DEF WriteHeader, EntryWrite
  <1>4. /\ P \in Pages /\ ~Moving /\ N \in Nat /\ Slots = 1..N /\ n \in Slots
        /\ Slots' = Slots /\ inst' = inst /\ Steady' = Steady
        /\ slot \in [Pages -> [Slots -> Cell]] /\ nxt \in [Pages -> 1..(N + 1)]
        /\ op \in [fn : {"put"}, k : Keys, v : Vals, frag : Nat, len : Nat, rem : Nat]
        /\ \A i \in Slots : est[P][i] = "free" <=> i >= Low(P)
        /\ Steady => \A i \in Slots : i >= nxt[P] => slot[P][i] = Blank
    BY <1>1, <1>3, PutFacts
  <1>5. est[P][n] = "free"
    <2>1. Low(P) = n
      BY <1>1, <1>3 DEF Low, HalfWritten
    <2> QED BY <2>1, <1>4
  <1>6. /\ op'.fn = "put" /\ op'.k = op.k /\ op'.v = op.v /\ op'.rem = op.rem
        /\ op'.len = Span(h) /\ Span(h) \in Nat
    <2>1. h \in Cell
      BY <1>2, <1>3, NextHeaderIs DEF StoreInv
    <2> QED BY <2>1, <1>3, <1>4, SpanIs
  <1>7. ~Moving' /\ Copied = {} /\ Copied' = {} /\ Source' = Source /\ Visible' = Visible
    <2>1. ~Moving'
      BY <1>3 DEF Moving
    <2> QED BY <2>1, <1>3, <1>4, SearchedSame
  <1>8. PICK x0 : x0 = <<P, n>>
    OBVIOUS
  <1>9. \A p \in Pages : \A i \in Slots : p # P \/ i # n => slot'[p][i] = slot[p][i]
    BY <1>3, <1>4
  <1>10. At(x0)' = Program(slot[P][n], h)
    BY <1>3, <1>4, <1>8 DEF At
  <1>11. Calm
    <2>1. ASSUME NEW x \in Pages \X Slots
          PROVE  (IsHead(x)' <=> IsHead(x)) /\ (IsHead(x) => At(x)' = At(x))
      <3>1. PICK p \in Pages, i \in Slots : x = <<p, i>>
        OBVIOUS
      <3>2. CASE p = P /\ i = n
        BY <3>1, <3>2, <1>3, <1>5, <1>7 DEF IsHead
      <3>3. CASE ~(p = P /\ i = n)
        <4>1. At(x)' = At(x)
          BY <3>1, <3>3, <1>9 DEF At
        <4> QED BY <4>1, <1>3, <1>7 DEF IsHead
      <3> QED BY <3>2, <3>3
    <2> QED BY <2>1, <1>4 DEF Calm
  <1>12. AloneInv' /\ Heads(Source)' = Heads(Source) /\ \A x \in Heads(Source) : At(x)' = At(x)
    BY <1>7, <1>11, CalmOwn DEF OwnInv, AloneInv
  <1>13. InfoInv'
    <2>1. \A k : Claimed(k)' <=> Claimed(k)
      BY <1>4, <1>6 DEF Claimed
    <2> QED BY <2>1, <1>3, <1>7, <1>11, CalmInfo DEF OwnInv
  <1>14. NewHead' = x0
    <2>1. Last(used)' = P
      BY <1>1, <1>3 DEF Last
    <2>2. nxt'[P] = n + 1
      BY <1>3, <1>4
    <2>3. (n + 1) - 1 - 0 = n
      BY <1>4
    <2>4. pc' # "data" => op'.len = 0
      BY <1>3, <1>6
    <2> QED BY <2>1, <2>2, <2>3, <2>4, <1>8 DEF NewHead
  <1>15. h.k = op.k /\ h.t = NewType /\ h.c = "head"
    <2>1. h.k = op.k /\ h.c = "head"
      BY <1>2 DEF NextHeader, Header
    <2>2. h.t = NewType
      <3>1. CASE op.v \in SmallVals
        BY <3>1, <1>2 DEF NextHeader, Header, NewType
      <3>2. CASE op.v \notin SmallVals /\ op.v \in MiddleVals
        BY <3>2, <1>2 DEF NextHeader, Header, NewType
      <3>3. CASE op.v \notin SmallVals /\ op.v \notin MiddleVals /\ Fragment
        BY <3>3, <1>2 DEF NextHeader, Header, NewType
      <3>4. CASE op.v \notin SmallVals /\ op.v \notin MiddleVals /\ ~Fragment
        BY <3>4, <1>2 DEF NextHeader, Header, NewType
      <3> QED BY <3>1, <3>2, <3>3, <3>4
    <2> QED BY <2>1, <2>2
  <1>16. NewType' = NewType
    BY <1>6 DEF NewType, Fragment
  <1>17. WriteInv'
    <2>1. \A x \in Heads(Source)' : At(x)'.k = op'.k => At(x)'.t = "bulk" /\ op'.v \in BulkVals
      <3>1. \A x \in Heads(Source) : At(x).k = op.k => At(x).t = "bulk" /\ op.v \in BulkVals
        BY <1>3, <1>4 DEF OwnInv, WriteInv
      <3> QED BY <3>1, <1>6, <1>12
    <2>2. x0[2] \in Slots'
      BY <1>4, <1>8
    <2>3. At(x0)'.c = "head" => At(x0)'.k = op'.k /\ At(x0)'.t = NewType'
      BY <1>6, <1>10, <1>15, <1>16, ProgramHead
    <2>4. Steady' => At(x0)'.c = "head"
      BY <1>1, <1>4, <1>10, <1>15 DEF Program
    <2>5. pc' = "commit" => ToSet(marks'.at) = {x0}
      <3> HAVE pc' = "commit"
      <3>1. marks'.at = <<x0>>
        BY <1>3, <1>8
      <3> QED BY <3>1 DEF ToSet
    <2>6. At(NewHead)' = At(x0)' /\ NewHead'[2] = x0[2] /\ ToSet(marks.at)' = ToSet(marks'.at)
      BY <1>14 DEF At, ToSet
    <2> QED BY <2>1, <2>2, <2>3, <2>4, <2>5, <2>6, <1>14 DEF WriteInv
  <1>18. DeleteInv' /\ OriginInv'
    BY <1>3, <1>7 DEF DeleteInv, OriginInv
  <1> QED BY <1>12, <1>13, <1>17, <1>18 DEF OwnInv

LEMMA WriteDataParts ==
    ASSUME StoreInv, OwnInv, [Next]_vars, WriteData
    PROVE  OwnInv'
  <1>1. PICK P, n, l : P = Last(used) /\ n = nxt[Last(used)] /\ l = op.len
    OBVIOUS
  <1>2. PICK d : d = Entries[op.v] - op.rem
    OBVIOUS
  <1>3. /\ pc = "data" /\ pc' = "commit" /\ UNCHANGED <<pst, est, used, op, req>>
        /\ slot' = [slot EXCEPT ![P] = [i \in Slots |->
              IF i \in n..(n + l - 1) THEN Program(@[i], Data(op.v, d + i - n + 1)) ELSE @[i]]]
        /\ nxt' = [nxt EXCEPT ![P] = @ + l]
        /\ marks' = [at |-> [j \in 1..(l + 1) |-> <<P, n + j - 2>>], to |-> "used"]
    BY <1>1, <1>2 DEF WriteData
  <1>4. /\ P \in Pages /\ ~Moving /\ N \in Nat /\ Slots = 1..N /\ n \in Nat
        /\ Slots' = Slots /\ inst' = inst /\ Steady' = Steady
        /\ slot \in [Pages -> [Slots -> Cell]] /\ nxt \in [Pages -> 1..(N + 1)]
        /\ op \in [fn : {"put"}, k : Keys, v : Vals, frag : Nat, len : Nat, rem : Nat]
        /\ \A i \in Slots : est[P][i] = "free" <=> i >= Low(P)
    BY <1>1, <1>3, PutFacts
  <1>5. l \in Nat /\ n > 1
    BY <1>1, <1>3, <1>4 DEF StoreInv, EntryInv, FillInv
  <1>6. \A i \in Slots : i >= n => est[P][i] = "free"
    <2>1. Low(P) = n - 1
      BY <1>1, <1>3 DEF Low, HalfWritten
    <2> QED BY <2>1, <1>4
  <1>7. ~Moving' /\ Copied = {} /\ Copied' = {} /\ Source' = Source /\ Visible' = Visible
    <2>1. ~Moving'
      BY <1>3 DEF Moving
    <2> QED BY <2>1, <1>3, <1>4, SearchedSame
  <1>8. \A p \in Pages : \A i \in Slots : p # P \/ i \notin n..(n + l - 1) => slot'[p][i] = slot[p][i]
    BY <1>3, <1>4
  <1>9. \A i \in Slots : i \in n..(n + l - 1) => slot'[P][i].c # "head"
    <2> SUFFICES ASSUME NEW i \in Slots, i \in n..(n + l - 1) PROVE slot'[P][i].c # "head"
      OBVIOUS
    <2>1. slot'[P][i] = Program(slot[P][i], Data(op.v, d + i - n + 1))
      BY <1>3, <1>4
    <2> QED BY <2>1 DEF Program, Data, Junk
  <1>10. Calm
    <2>1. ASSUME NEW x \in Pages \X Slots
          PROVE  (IsHead(x)' <=> IsHead(x)) /\ (IsHead(x) => At(x)' = At(x))
      <3>1. PICK p \in Pages, i \in Slots : x = <<p, i>>
        OBVIOUS
      <3>2. CASE p = P /\ i \in n..(n + l - 1)
        <4>1. i >= n
          BY <3>2, <1>4
        <4> QED BY <4>1, <3>1, <3>2, <1>3, <1>6, <1>7 DEF IsHead
      <3>3. CASE ~(p = P /\ i \in n..(n + l - 1))
        <4>1. At(x)' = At(x)
          BY <3>1, <3>3, <1>8 DEF At
        <4> QED BY <4>1, <1>3, <1>7 DEF IsHead
      <3> QED BY <3>2, <3>3
    <2> QED BY <2>1, <1>4 DEF Calm
  <1>11. AloneInv' /\ Heads(Source)' = Heads(Source) /\ \A x \in Heads(Source) : At(x)' = At(x)
    BY <1>7, <1>10, CalmOwn DEF OwnInv, AloneInv
  <1>12. InfoInv'
    <2>1. \A k : Claimed(k)' <=> Claimed(k)
      BY <1>3 DEF Claimed
    <2> QED BY <2>1, <1>3, <1>7, <1>10, CalmInfo DEF OwnInv
  <1>13. PICK x0 : x0 = <<P, n - 1>>
    OBVIOUS
  <1>14. NewHead = x0 /\ NewHead' = x0
    <2>1. Last(used)' = P /\ op' = op
      BY <1>1, <1>3 DEF Last
    <2>2. nxt'[P] = n + l
      BY <1>1, <1>3, <1>4
    <2>3. (n + l) - 1 - l = n - 1 /\ n - 1 - 0 = n - 1
      BY <1>4, <1>5
    <2> QED BY <2>1, <2>2, <2>3, <1>1, <1>3, <1>13 DEF NewHead
  <1>15. /\ x0[2] \in Slots
         /\ At(x0).c = "head" => At(x0).k = op.k /\ At(x0).t = NewType
         /\ Steady => At(x0).c = "head"
    BY <1>3, <1>14 DEF OwnInv, WriteInv
  <1>16. NewType' = NewType
    BY <1>3 DEF NewType, Fragment
  <1>17. At(x0)' = At(x0)
    <2>1. n - 1 \in Slots /\ n - 1 \notin n..(n + l - 1)
      BY <1>4, <1>5, <1>13, <1>15
    <2> QED BY <2>1, <1>4, <1>8, <1>13 DEF At
  <1>18. x0 \in ToSet(marks.at)' /\ \A y \in ToSet(marks.at)' : y = x0 \/ At(y)'.c # "head"
    <2>1. /\ DOMAIN marks'.at = 1..(l + 1)
          /\ \A j \in 1..(l + 1) : marks'.at[j] = <<P, n + j - 2>>
      BY <1>3, <1>5
    <2>2. 1 \in 1..(l + 1) /\ n + 1 - 2 = n - 1
      BY <1>4, <1>5
    <2>3. x0 \in ToSet(marks.at)'
      BY <2>1, <2>2, <1>13 DEF ToSet
    <2>4. ASSUME NEW j \in 1..(l + 1), j # 1 PROVE At(<<P, n + j - 2>>)'.c # "head"
      <3>1. n + j - 2 \in n..(n + l - 1)
        BY <2>4, <1>4, <1>5
      <3>2. n + j - 2 \in Slots
        <4>1. l <= Room(P) /\ Room(P) = N + 1 - n
          BY <1>1, <1>3 DEF StoreInv, PagesInv, PutInv, Room
        <4> QED BY <4>1, <3>1, <1>4, <1>5
      <3> QED BY <3>1, <3>2, <1>9, AtIs DEF At
    <2>5. ASSUME NEW y \in ToSet(marks.at)', y # x0 PROVE At(y)'.c # "head"
      <3>1. PICK j \in 1..(l + 1) : y = <<P, n + j - 2>>
        BY <2>1, <2>5 DEF ToSet
      <3>2. j # 1
        BY <2>2, <2>5, <3>1, <1>13
      <3>3. At(y)' = At(<<P, n + j - 2>>)'
        BY <3>1 DEF At
      <3> QED BY <2>4, <3>2, <3>3
    <2> QED BY <2>3, <2>5
  <1>19. WriteInv'
    <2>1. \A x \in Heads(Source)' : At(x)'.k = op'.k => At(x)'.t = "bulk" /\ op'.v \in BulkVals
      <3>1. \A x \in Heads(Source) : At(x).k = op.k => At(x).t = "bulk" /\ op.v \in BulkVals
        BY <1>3, <1>4 DEF OwnInv, WriteInv
      <3> QED BY <3>1, <1>3, <1>11
    <2>2. At(NewHead)' = At(x0)' /\ NewHead'[2] = x0[2]
      BY <1>14 DEF At
    <2>3. /\ At(x0)'.c = "head" => At(x0)'.k = op'.k /\ At(x0)'.t = NewType'
          /\ Steady' => At(x0)'.c = "head"
      BY <1>3, <1>4, <1>15, <1>16, <1>17
    <2> QED BY <2>1, <2>2, <2>3, <1>4, <1>14, <1>15, <1>18 DEF WriteInv
  <1>20. DeleteInv' /\ OriginInv'
    BY <1>3, <1>7 DEF DeleteInv, OriginInv
  <1> QED BY <1>11, <1>12, <1>19, <1>20 DEF OwnInv

\* What one mark does to the headers in use.
LEMMA MarkHeads ==
    ASSUME StoreInv, [Next]_vars, MarkState
    PROVE  /\ Source' = Source /\ Visible' = Source /\ Visible = Source
           /\ UNCHANGED <<pst, slot, used, nxt, inst>> /\ ~Moving' /\ ~Moving
           /\ \A x : At(x)' = At(x)
           /\ marks.at # <<>> /\ ToSet(marks.at) = {Head(marks.at)} \cup ToSet(Tail(marks.at))
           /\ Len(marks.at) > 1 \/ ToSet(marks.at) = {Head(marks.at)}
           /\ pc \in {"delete", "undo"} =>
                Heads(Source)' = Heads(Source) \ {Head(marks.at)}
           /\ pc = "commit" =>
                /\ Heads(Source) \subseteq Heads(Source)'
                /\ Heads(Source)' \subseteq Heads(Source) \cup {Head(marks.at)}
                /\ est'[Head(marks.at)[1]][Head(marks.at)[2]] = "used"
                /\ \A p \in Pages : \A i \in Slots : est[p][i] = "used" => est'[p][i] = "used"
           /\ Head(marks.at) \in Pages \X Slots
  <1>1. /\ pc \in {"delete", "commit", "undo"} /\ pc' \in {pc, "room", "idle"}
        /\ UNCHANGED <<pst, slot, used, nxt, inst>>
    BY MarkStateEff DEF StoreInv, EntryInv, MarkState, ram
  <1>2. ~Moving /\ ~Moving' /\ Copied = {} /\ Copied' = {} /\ Source' = Source /\ Visible' = Visible
        /\ Visible = Source
    <2>1. ~Moving /\ ~Moving'
      BY <1>1 DEF Moving
    <2> QED BY <2>1, <1>1, SearchedSame DEF Source, Visible
  <1>3. \A x : At(x)' = At(x)
    BY <1>1 DEF At
  <1>4. /\ marks.at \in Seq(Pages \X Slots) /\ marks.at # <<>>
        /\ pc \in {"delete", "undo"} => marks.to = "updated"
        /\ pc = "commit" => marks.to = "used"
        /\ est \in [Pages -> [Slots -> EntryStates]] /\ Slots' = Slots
    BY InstKept DEF StoreInv, EntryInv, MarkInv, PagesInv, Types, MarkState
  <1>5. PICK x : x = Head(marks.at)
    OBVIOUS
  <1>6. /\ x \in Pages \X Slots
        /\ ToSet(marks.at) = {x} \cup ToSet(Tail(marks.at))
        /\ Len(marks.at) > 1 \/ ToSet(marks.at) = {x}
    <2>1. PICK S : S = Pages \X Slots
      OBVIOUS
    <2>2. PICK s : s = marks.at
      OBVIOUS
    <2>3. s \in Seq(S) /\ s # <<>>
      BY <2>1, <2>2, <1>4
    <2>4. Head(s) \in S /\ ToSet(s) = {Head(s)} \cup ToSet(Tail(s))
          /\ (~(Len(s) > 1) => ToSet(s) = {Head(s)})
      BY <2>3, HeadTail
    <2> QED BY <2>1, <2>2, <2>4, <1>5
  <1>7. est' = [est EXCEPT ![x[1]][x[2]] = marks.to]
    BY <1>5 DEF MarkState
  <1>8. PICK a \in Pages, b \in Slots : x = <<a, b>>
    BY <1>6
  <1>9. \A p \in Pages : \A i \in Slots :
           est'[p][i] = IF p = a /\ i = b THEN marks.to ELSE est[p][i]
    BY <1>4, <1>7, <1>8
  <1>10. PICK S : S = Source
    OBVIOUS
  <1>11. S \in SUBSET Pages /\ Heads(Source) = Heads(S) /\ Heads(Source)' = Heads(S)'
    BY <1>2, <1>10, HeadFacts DEF Heads
  <1>12. /\ \A y : y \in Heads(S) <=> y \in S \X Slots /\ est[y[1]][y[2]] = "used" /\ At(y).c = "head"
         /\ \A y : y \in Heads(S)' <=> y \in S \X Slots /\ est'[y[1]][y[2]] = "used" /\ At(y).c = "head"
    BY <1>2, <1>3, <1>4 DEF Heads
  <1>13. \A y \in S \X Slots : /\ y # x => est'[y[1]][y[2]] = est[y[1]][y[2]]
                               /\ y = x => est'[y[1]][y[2]] = marks.to
    <2> TAKE y \in S \X Slots
    <2>1. PICK p \in S, i \in Slots : y = <<p, i>>
      OBVIOUS
    <2> QED BY <2>1, <1>8, <1>9, <1>11
  <1>14. pc \in {"delete", "undo"} => Heads(S)' = Heads(S) \ {x}
    BY <1>4, <1>12, <1>13
  <1>15. pc = "commit" => /\ Heads(S) \subseteq Heads(S)' /\ Heads(S)' \subseteq Heads(S) \cup {x}
                          /\ est'[x[1]][x[2]] = "used"
                          /\ \A p \in Pages : \A i \in Slots : est[p][i] = "used" => est'[p][i] = "used"
    BY <1>4, <1>8, <1>9, <1>12, <1>13
  <1> QED BY <1>1, <1>2, <1>3, <1>4, <1>5, <1>6, <1>11, <1>14, <1>15

LEMMA DeleteMarkParts ==
    ASSUME StoreInv, OwnInv, [Next]_vars, MarkState, pc \in {"delete", "undo"}
    PROVE  OwnInv'
  <1>1. PICK x, M, R : x = Head(marks.at) /\ M = ToSet(marks.at) /\ R = ToSet(Tail(marks.at))
    OBVIOUS
  <1>2. PICK H, G : H = Heads(Source) /\ G = Heads(Source)'
    OBVIOUS
  <1>3. /\ Visible' = Source /\ Source' = Source /\ Visible = Source /\ inst' = inst /\ ~Moving'
        /\ \A y : At(y)' = At(y)
        /\ M = {x} \cup R /\ (Len(marks.at) > 1 \/ M = {x})
        /\ G = H \ {x}
    BY <1>1, <1>2, MarkHeads
  <1>4. Heads(Visible)' = G /\ Heads(Visible) = H
    BY <1>2, <1>3 DEF Heads
  <1>5. /\ \A y \in H : At(y).k = op.k => y \in M
        /\ \A y \in M : At(y).c = "head" => At(y).k = op.k
    BY <1>1, <1>2 DEF OwnInv, DeleteInv
  <1>6. \A y \in H : At(y).c = "head"
    BY <1>2 DEF Heads
  <1>7. AloneInv'
    <2>1. Alone(H) /\ G \subseteq H
      BY <1>2, <1>3 DEF OwnInv, AloneInv
    <2>2. Alone(G)'
      BY <2>1, <1>3, AloneStays
    <2> QED BY <2>2, <1>2, <1>4 DEF AloneInv, Alone
  <1>8. pc' = pc => op' = op /\ marks' = [marks EXCEPT !.at = Tail(@)] /\ Len(marks.at) > 1
    <2>1. pc' = pc => op' = op /\ marks' = [marks EXCEPT !.at = Tail(@)]
      BY MarkStateEff DEF StoreInv, EntryInv
    <2> QED BY <2>1 DEF MarkState, Return
  <1>9. pc' # pc => M = {x} /\ \/ op'.fn \notin {"put", "del"} /\ pc' = "idle"
                               \/ op' = op /\ pc' = "room"
    <2> HAVE pc' # pc
    <2>1. ~(Len(marks.at) > 1)
      BY DEF MarkState
    <2>2. (op' = NoOp /\ pc' = "idle") \/ (op' = op /\ pc' = "room")
      BY <2>1 DEF MarkState, Return
    <2> QED BY <2>1, <2>2, <1>3 DEF NoOp
  <1>10. InfoInv'
    <2>1. \A k : Claimed(k)' => Claimed(k)
      BY <1>8, <1>9 DEF Claimed
    <2>2. \A y \in G : ~Claimed(At(y).k)' => At(y).k # op.k
      <3> SUFFICES ASSUME NEW y \in G, At(y).k = op.k PROVE Claimed(At(y).k)'
        OBVIOUS
      <3>1. y \in R /\ y # x
        BY <1>3, <1>5
      <3>2. op' = op
        BY <3>1, <1>3, <1>8, <1>9
      <3>3. op.fn \in {"put", "del"}
        BY DEF StoreInv, PagesInv, CallInv
      <3> QED BY <3>2, <3>3, <1>3 DEF Claimed
    <2>3. ASSUME Steady, NEW y \in G, At(y).t = "bulk", ~Claimed(At(y).k)'
          PROVE  \E z \in G : At(z).t = "bulkinfo" /\ At(z).k = At(y).k
      <3>1. At(y).k # op.k /\ y \in H
        BY <2>2, <2>3, <1>3
      <3>2. ~Claimed(At(y).k)
        BY <3>1 DEF Claimed
      <3>3. PICK z \in H : At(z).t = "bulkinfo" /\ At(z).k = At(y).k
        BY <2>3, <3>1, <3>2, <1>2 DEF OwnInv, InfoInv
      <3>4. z # x
        BY <3>1, <3>3, <1>3, <1>5, <1>6
      <3> QED BY <3>3, <3>4, <1>3
    <2>4. Steady' <=> Steady
      BY <1>3 DEF Steady
    <2> QED BY <2>3, <2>4, <1>2, <1>3 DEF InfoInv
  <1>11. DeleteInv'
    <2> SUFFICES ASSUME pc' \in {"delete", "undo"} PROVE DeleteInv'
      BY DEF DeleteInv
    <2>1. pc' = pc /\ op' = op
      BY <1>8, <1>9
    <2>2. ToSet(marks.at)' = R
      <3>1. marks'.at = Tail(marks.at)
        BY <1>8, <2>1 DEF StoreInv, PagesInv, Types
      <3> QED BY <3>1, <1>1 DEF ToSet
    <2> QED BY <2>1, <2>2, <1>2, <1>3, <1>5 DEF DeleteInv
  <1>12. WriteInv'
    <2>1. CASE pc' = pc
      <3>1. pc' \notin {"data", "commit"}
        BY <2>1
      <3> QED BY <2>1, <3>1 DEF WriteInv
    <2>2. CASE pc' # pc
      <3>1. \A y \in G : At(y).k # op.k
        BY <2>2, <1>3, <1>5, <1>9
      <3>2. op'.fn = "put" => \A y \in Heads(Source)' : At(y)'.k # op'.k
        BY <2>2, <3>1, <1>2, <1>3, <1>9
      <3>3. pc' \notin {"data", "commit"}
        BY <2>2, <1>9
      <3> QED BY <3>2, <3>3 DEF WriteInv
    <2> QED BY <2>1, <2>2
  <1>13. OriginInv'
    BY <1>3 DEF OriginInv
  <1> QED BY <1>7, <1>10, <1>11, <1>12, <1>13 DEF OwnInv

\* The new element comes into use.
LEMMA CommitParts ==
    ASSUME StoreInv, CandidateInv, OwnInv, [Next]_vars, MarkState, pc = "commit"
    PROVE  OwnInv'
  <1>1. PICK x, M, R : x = Head(marks.at) /\ M = ToSet(marks.at) /\ R = ToSet(Tail(marks.at))
    OBVIOUS
  <1>2. PICK H, G : H = Heads(Source) /\ G = Heads(Source)'
    OBVIOUS
  <1>3. /\ Visible' = Source /\ Source' = Source /\ Visible = Source /\ inst' = inst
        /\ ~Moving' /\ ~Moving /\ UNCHANGED <<pst, slot, used, nxt>>
        /\ \A y : At(y)' = At(y)
        /\ M = {x} \cup R /\ (Len(marks.at) > 1 \/ M = {x})
        /\ H \subseteq G /\ G \subseteq H \cup {x} /\ est'[x[1]][x[2]] = "used"
        /\ \A p \in Pages : \A i \in Slots : est[p][i] = "used" => est'[p][i] = "used"
    BY <1>1, <1>2, MarkHeads
  <1>4. Heads(Visible)' = G /\ Heads(Visible) = H
    BY <1>2, <1>3 DEF Heads
  <1>5. PICK z : z = NewHead
    OBVIOUS
  <1>6. op \in [fn : {"put"}, k : Keys, v : Vals, frag : Nat, len : Nat, rem : Nat]
    BY DEF StoreInv, PagesInv, Types, CallInv, Operation, NoOp
  <1>7. /\ \A y \in H : At(y).k = op.k => (At(y).t = "bulk" /\ op.v \in BulkVals) \/ y = z
        /\ z[2] \in Slots
        /\ At(z).c = "head" => At(z).k = op.k /\ At(z).t = NewType
        /\ Steady => At(z).c = "head"
        /\ \A y \in M : y = z \/ At(y).c # "head"
        /\ z \in M \/ est[z[1]][z[2]] = "used"
    BY <1>1, <1>2, <1>5, <1>6 DEF OwnInv, WriteInv
  <1>8. G \subseteq H \cup {z} /\ \A y \in G : At(y).c = "head"
    <2>1. \A y \in G : At(y)'.c = "head"
      BY <1>2 DEF Heads
    <2> QED BY <2>1, <1>3, <1>7
  <1>9. op.v \in BulkVals => NewType = IF Fragment THEN "bulk" ELSE "bulkinfo"
    BY NvdsAssumption DEF NewType
  <1>10. NewType = "bulk" => op.v \in BulkVals /\ Fragment
    BY DEF NewType, Fragment
  <1>11. AloneInv'
    <2>1. Alone(H)
      BY <1>2 DEF OwnInv, AloneInv
    <2>2. ASSUME NEW y \in H, y # z, z \in G PROVE Friends(At(y), At(z)) /\ Friends(At(z), At(y))
      <3> SUFFICES ASSUME At(y).k = At(z).k PROVE Friends(At(y), At(z)) /\ Friends(At(z), At(y))
        BY DEF Friends
      <3>1. At(z).k = op.k /\ At(z).t = NewType
        BY <2>2, <1>7, <1>8
      <3>2. At(y).t = "bulk" /\ op.v \in BulkVals
        BY <2>2, <3>1, <1>7
      <3>3. At(z).t \in {"bulk", "bulkinfo"}
        BY <3>1, <3>2, <1>9
      <3> QED BY <3>2, <3>3 DEF Friends
    <2>3. ASSUME NEW y \in G, NEW u \in G, y # u PROVE Friends(At(y), At(u))
      BY <2>1, <2>2, <2>3, <1>8 DEF Alone
    <2>4. Alone(G)'
      BY <2>3, <1>3 DEF Alone, Friends
    <2> QED BY <2>4, <1>2, <1>4 DEF AloneInv, Alone
  <1>12. pc' = pc => op' = op /\ marks' = [marks EXCEPT !.at = Tail(@)]
    BY MarkStateEff DEF StoreInv, EntryInv
  <1>13. pc' # pc => M = {x} /\ \/ op' = NoOp /\ pc' = "idle" /\ ~Fragment
                                \/ /\ op' = [op EXCEPT !.rem = @ - op.len, !.frag = @ + 1]
                                   /\ pc' = "room" /\ Fragment
    <2> HAVE pc' # pc
    <2>1. ~(Len(marks.at) > 1)
      BY DEF MarkState
    <2> QED BY <2>1, <1>3 DEF MarkState, Return
  <1>14. op'.fn = "put" => op'.k = op.k /\ op'.v = op.v
    <2>1. CASE op' = op \/ op' = NoOp
      BY <2>1 DEF NoOp
    <2>2. CASE op' = [op EXCEPT !.rem = @ - op.len, !.frag = @ + 1]
      BY <2>2, <1>6
    <2> QED BY <2>1, <2>2, <1>12, <1>13
  <1>15. InfoInv'
    <2>1. Steady' <=> Steady
      BY <1>3 DEF Steady
    <2>2. ASSUME NEW y \in G, At(y).k # op.k, At(y).t = "bulk", Steady
          PROVE  \E u \in G : At(u).t = "bulkinfo" /\ At(u).k = At(y).k
      <3>1. y \in H
        BY <2>2, <1>7, <1>8
      <3>2. ~Claimed(At(y).k)
        BY <2>2 DEF Claimed
      <3> QED BY <2>2, <3>1, <3>2, <1>2, <1>3 DEF OwnInv, InfoInv
    <2>3. ASSUME Steady, NEW y \in G, At(y).k = op.k, At(y).t = "bulk", pc' = "idle", ~Fragment,
                 M = {x}
          PROVE  \E u \in G : At(u).t = "bulkinfo" /\ At(u).k = At(y).k
      <3>1. op.v \in BulkVals
        BY <2>3, <1>7, <1>8, <1>10
      <3>2. At(z).c = "head" /\ At(z).k = op.k /\ At(z).t = "bulkinfo"
        BY <2>3, <3>1, <1>7, <1>9
      <3>3. z[1] \in Source
        <4>1. PICK q : q = Last(used)
          OBVIOUS
        <4>2. Running /\ used # <<>> /\ free # <<>>
          BY <2>3, ListFacts DEF Running, StoreInv, PagesInv, SteadyInv
        <4>3. q \in Pages /\ q \in Written /\ Written # Pages
          <5>1. Written = ToSet(used) /\ ToSet(free) = Pages \ ToSet(used)
            BY <4>2, <1>3 DEF StoreInv, PagesInv, ListInv, Kept
          <5>2. q \in ToSet(used) /\ ToSet(free) # {} /\ ToSet(used) \in SUBSET Pages
            BY <4>1, <4>2, ListFacts DEF StoreInv
          <5> QED BY <5>1, <5>2
        <4>4. pst[q] # "candidate" /\ pst \in [Pages -> PageStates]
          BY <4>3, NoCandidate DEF StoreInv, PagesInv, Types
        <4>5. q \in Searched
          BY <4>3, <4>4 DEF Searched, Written, PageStates
        <4>6. z[1] = q
          BY <1>5, <4>1 DEF NewHead
        <4> QED BY <4>5, <4>6, <1>3 DEF Source
      <3>4. est'[z[1]][z[2]] = "used"
        <4>1. z[1] \in Pages
          BY <3>3, HeadFacts
        <4> QED BY <4>1, <2>3, <1>3, <1>7
      <3>5. z \in G
        <4>1. Slots' = Slots
          BY InstKept
        <4>2. z = <<z[1], z[2]>>
          BY <1>5 DEF NewHead
        <4>3. z \in Source \X Slots
          BY <4>2, <3>3, <1>7
        <4>4. At(z)'.c = "head"
          BY <3>2, <1>3
        <4> QED BY <4>1, <4>3, <4>4, <3>4, <1>2, <1>3 DEF Heads
      <3> QED BY <2>3, <3>2, <3>5
    <2>4. ASSUME Steady, NEW y \in G, At(y).t = "bulk", ~Claimed(At(y).k)'
          PROVE  \E u \in G : At(u).t = "bulkinfo" /\ At(u).k = At(y).k
      <3>1. CASE At(y).k # op.k
        BY <2>2, <2>4, <3>1
      <3>2. CASE At(y).k = op.k
        <4>1. op'.fn = "put" => op'.k = op.k
          BY <1>14
        <4>2. op'.fn # "put"
          BY <2>4, <3>2, <4>1, <1>3 DEF Claimed
        <4>3. pc' = "idle" /\ ~Fragment /\ M = {x}
          BY <4>2, <1>6, <1>12, <1>13
        <4> QED BY <2>3, <2>4, <3>2, <4>3
      <3> QED BY <3>1, <3>2
    <2> QED BY <2>1, <2>4, <1>2, <1>3 DEF InfoInv
  <1>16. WriteInv'
    <2>1. CASE pc' = pc
      <3>1. op' = op /\ pc' = "commit" /\ Slots' = Slots
        BY <2>1, <1>12, InstKept
      <3>2. NewHead' = z /\ NewType' = NewType
        <4>1. Last(used)' = Last(used)
          BY <1>3 DEF Last
        <4> QED BY <3>1, <4>1, <2>1, <1>3, <1>5 DEF NewHead, NewType, Fragment
      <3>3. ToSet(marks.at)' = R
        <4>1. marks'.at = Tail(marks.at)
          BY <1>12, <2>1 DEF StoreInv, PagesInv, Types
        <4> QED BY <4>1, <1>1 DEF ToSet
      <3>4. \A y \in G : At(y).k = op.k => (At(y).t = "bulk" /\ op.v \in BulkVals) \/ y = z
        BY <1>7, <1>8
      <3>5. z \in R \/ est'[z[1]][z[2]] = "used"
        <4>1. z[1] \in Pages
          <5>1. used # <<>>
            BY ListFacts DEF Running, StoreInv
          <5> QED BY <5>1, <1>5, ListFacts DEF NewHead, StoreInv
        <4> QED BY <4>1, <1>3, <1>7
      <3>6. At(NewHead)' = At(z)
        BY <3>2, <1>3 DEF At
      <3>7. Steady' <=> Steady
        BY <1>3 DEF Steady
      <3>8. \A y \in Heads(Source)' : At(y)'.k = op'.k =>
               (At(y)'.t = "bulk" /\ op'.v \in BulkVals) \/ (pc' = "commit" /\ y = NewHead')
        BY <3>1, <3>2, <3>4, <1>2, <1>3
      <3>9. /\ NewHead'[2] \in Slots'
            /\ At(NewHead)'.c = "head" => At(NewHead)'.k = op'.k /\ At(NewHead)'.t = NewType'
            /\ Steady' => At(NewHead)'.c = "head"
        BY <3>1, <3>2, <3>6, <3>7, <1>7
      <3>10. /\ \A y \in ToSet(marks.at)' : y = NewHead' \/ At(y)'.c # "head"
             /\ NewHead' \in ToSet(marks.at)' \/ est'[NewHead'[1]][NewHead'[2]] = "used"
        BY <3>2, <3>3, <3>5, <1>3, <1>7
      <3> QED BY <3>8, <3>9, <3>10 DEF WriteInv
    <2>2. CASE pc' # pc
      <3>1. pc' \notin {"data", "commit"}
        BY <2>2, <1>13
      <3>2. ASSUME op'.fn = "put", NEW y \in G, At(y).k = op'.k
            PROVE  At(y).t = "bulk" /\ op'.v \in BulkVals
        <4>1. op'.k = op.k /\ op'.v = op.v /\ Fragment
          BY <2>2, <3>2, <1>13, <1>14 DEF NoOp
        <4>2. op.v \in BulkVals /\ NewType = "bulk"
          BY <4>1, <1>9 DEF Fragment
        <4>3. CASE y = z
          BY <3>2, <4>1, <4>2, <4>3, <1>7, <1>8
        <4>4. CASE y # z
          BY <3>2, <4>1, <4>4, <1>7, <1>8
        <4> QED BY <4>1, <4>2, <4>3, <4>4
      <3>3. op'.fn = "put" => \A y \in Heads(Source)' : At(y)'.k = op'.k =>
                                 At(y)'.t = "bulk" /\ op'.v \in BulkVals
        BY <3>2, <1>2, <1>3
      <3> QED BY <3>1, <3>3 DEF WriteInv
    <2> QED BY <2>1, <2>2
  <1>17. DeleteInv' /\ OriginInv'
    <2>1. pc' \notin {"delete", "undo"}
      BY <1>13
    <2> QED BY <2>1, <1>3 DEF DeleteInv, OriginInv
  <1> QED BY <1>11, <1>15, <1>16, <1>17 DEF OwnInv

-----------------------------------------------------------------------------
(* Erased pages and power cuts                                             *)

\* With nothing in flight elements are only a matter of being alone.
LEMMA IdleParts ==
    ASSUME pc' \in {"off", "clean"}, op'.fn # "put", ~Moving', Steady => pc' = "clean",
           Steady' <=> Steady, NEW G, Heads(Source)' = G, Heads(Visible)' = G, Alone(G)'
    PROVE  OwnInv'
  <1>1. AloneInv'
    BY DEF AloneInv, Alone
  <1>2. InfoInv'
    BY DEF InfoInv
  <1>3. DeleteInv' /\ WriteInv' /\ OriginInv'
    BY DEF DeleteInv, WriteInv, OriginInv
  <1> QED BY <1>1, <1>2, <1>3 DEF OwnInv

\* The elements that are left when one page is erased.
LEMMA FewerHeads ==
    ASSUME StoreInv, [Next]_vars, NEW P \in SUBSET Pages, NEW Q \in SUBSET P, Alone(Heads(P)),
           \A q \in Q : slot'[q] = slot[q] /\ est'[q] = est[q], Copied' = {}
    PROVE  Alone(Heads(Q))'
  <1>1. PICK H, G : H = Heads(P) /\ G = Heads(Q)'
    OBVIOUS
  <1>2. Slots' = Slots
    BY InstKept
  <1>3. ASSUME NEW x \in G PROVE x \in H /\ At(x)' = At(x)
    <2>1. PICK q \in Q, i \in Slots : x = <<q, i>>
      BY <1>1, <1>2, <1>3 DEF Heads
    <2>2. slot'[q] = slot[q] /\ est'[q] = est[q]
      OBVIOUS
    <2>3. At(x)' = At(x)
      BY <2>1, <2>2 DEF At
    <2>4. est'[q][i] = "used" /\ At(x)'.c = "head"
      BY <1>1, <1>3, <2>1 DEF Heads
    <2>5. q \in P /\ x[1] = q /\ x[2] = i
      BY <2>1
    <2> QED BY <1>1, <2>1, <2>2, <2>3, <2>4, <2>5 DEF Heads
  <1>4. Alone(G)'
    BY <1>1, <1>3, AloneStays
  <1> QED BY <1>1, <1>4 DEF Alone

LEMMA CleanSectorParts ==
    ASSUME StoreInv, StoreInv', OwnInv, [Next]_vars, CleanSector
    PROVE  OwnInv'
  <1>1. /\ pc = "clean" /\ op' = op /\ pc' \in {"clean", "off"}
        /\ Erased(req.page, "blank") /\ req.page \in Pages
    BY DEF CleanSector, StoreInv, PagesInv, ReqInv
  <1>2. op.fn = "clean" /\ ~Moving /\ ~Moving' /\ Copied' = {}
    BY <1>1 DEF StoreInv, PagesInv, CallInv, Moving, Copied
  <1>3. Steady' <=> Steady
    BY InstKept DEF Steady
  <1>4. PICK P, Q : P = Searched /\ Q = Searched'
    OBVIOUS
  <1>5. /\ Source = P /\ Visible = P /\ Source' = Q /\ Visible' = Q
        /\ Heads(Source)' = Heads(Q)' /\ Heads(Visible)' = Heads(Q)'
    BY <1>2, <1>4 DEF Source, Visible, Heads
  <1>6. PICK r : r = req.page
    OBVIOUS
  <1>7. /\ pst' = [pst EXCEPT ![r] = "blank"] /\ pst \in [Pages -> PageStates] /\ Types
        /\ Erased(r, "blank") /\ r \in Pages
    BY <1>1, <1>6 DEF Erased, StoreInv, PagesInv, Types
  <1>8. Q \in SUBSET P /\ r \notin Q /\ P \in SUBSET Pages
    BY <1>4, <1>7 DEF Searched
  <1>9. \A q \in Q : slot'[q] = slot[q] /\ est'[q] = est[q]
    BY <1>7, <1>8, ErasedSlots
  <1>10. Alone(Heads(P))
    BY <1>5 DEF OwnInv, AloneInv, Alone
  <1>11. Alone(Heads(Q))'
    BY <1>2, <1>8, <1>9, <1>10, FewerHeads
  <1>12. PICK G : G = Heads(Q)'
    OBVIOUS
  <1>13. Heads(Source)' = G /\ Heads(Visible)' = G /\ Alone(G)'
    BY <1>5, <1>11, <1>12 DEF Alone
  <1>14. CASE pc' = "clean"
    BY <1>1, <1>2, <1>3, <1>13, <1>14, IdleParts
  <1>15. CASE pc' = "off"
    <2>1. Written' = {}
      BY <1>1, <1>2, <1>15 DEF StoreInv, PagesInv, CallInv, NoOp
    <2>2. Q = {}
      BY <2>1, <1>4 DEF Searched, Written
    <2>3. G = {}
      BY <2>2, <1>12 DEF Heads
    <2>4. AloneInv' /\ InfoInv'
      BY <2>3, <1>13 DEF AloneInv, Alone, InfoInv
    <2>5. DeleteInv' /\ WriteInv' /\ OriginInv'
      BY <1>1, <1>2, <1>15 DEF DeleteInv, WriteInv, OriginInv
    <2> QED BY <2>4, <2>5 DEF OwnInv
  <1> QED BY <1>1, <1>14, <1>15

LEMMA PowerCutParts ==
    ASSUME StoreInv, CandidateInv, OwnInv, [Next]_vars, PowerCut, cut' # "clean"
    PROVE  OwnInv'
  <1>1. /\ pc' = "off" /\ op' = NoOp /\ pc # "clean" /\ ~Steady
        /\ (UNCHANGED flash \/ \E p \in InWork : Erased(p, "error"))
    BY DEF PowerCut, LoseRam, StoreInv, PagesInv, CallInv, Steady
  <1>2. op'.fn # "put" /\ ~Moving' /\ Copied' = {} /\ (Steady' <=> Steady)
    BY <1>1, InstKept DEF NoOp, Moving, Copied, Steady
  <1>3. PICK P, Q : P = Visible /\ Q = Searched'
    OBVIOUS
  <1>4. /\ Source' = Q /\ Visible' = Q /\ P \in SUBSET Pages
        /\ Heads(Source)' = Heads(Q)' /\ Heads(Visible)' = Heads(Q)'
    BY <1>2, <1>3, HeadFacts DEF Source, Visible, Heads
  <1>5. Types /\ pst \in [Pages -> PageStates]
    BY DEF StoreInv, PagesInv, Types
  <1>6. Alone(Heads(P))
    BY <1>3 DEF OwnInv, AloneInv, Alone, Heads
  <1>7. ASSUME UNCHANGED <<pst, slot, est>> PROVE Alone(Heads(Q))'
    <2>1. Q = Searched
      BY <1>3, <1>7 DEF Searched
    <2>2. CASE ~Moving \/ pc # "candidate"
      <3>1. Q \subseteq P
        BY <1>3, <2>1, <2>2 DEF Visible, Searched, CandidateInv
      <3> QED BY <3>1, <1>2, <1>4, <1>6, <1>7, FewerHeads
    <2>3. CASE pc = "candidate"
      <3>1. PICK S, T, V : S = Source /\ T = req.page /\ V = req.vic
        OBVIOUS
      <3>2. Moving /\ S \in SUBSET Pages /\ T \in Pages /\ Q \in SUBSET Pages
        BY <2>1, <2>3, <3>1, HeadFacts, ListFacts DEF Moving, StoreInv, Searched
      <3>3. Heads({T}) = {}
        <4>1. req.from = 1
          BY <2>3 DEF StoreInv, EntryInv, CopyInv, Moving
        <4>2. Heads({req.page}) = {}
          BY <3>2, <4>1 DEF OwnInv, OriginInv
        <4> QED BY <4>2, <3>1 DEF Heads
      <3>4. Q \subseteq S \cup {T}
        BY <2>1, <3>1, <3>2 DEF Source
      <3>5. Heads(Q) \subseteq Heads(S)
        BY <3>3, <3>4 DEF Heads
      <3>6. Alone(Heads(Q))
        <4>1. Alone(Heads(S))
          BY <3>1 DEF OwnInv, AloneInv, Alone, Heads
        <4> QED BY <3>5, <4>1 DEF Alone
      <3> QED BY <3>2, <3>6, <1>2, <1>7, FewerHeads
    <2> QED BY <2>2, <2>3
  <1>8. ASSUME NEW p \in InWork, Erased(p, "error") PROVE Alone(Heads(Q))'
    <2>1. /\ p \in Pages
          /\ \/ pc = "page" /\ p = req.page
             \/ pc = "copy" /\ p = req.vic
      BY <1>1, <1>8, InWorkIs DEF StoreInv
    <2>2. /\ pst' = [pst EXCEPT ![p] = "error"]
          /\ \A q \in Pages \ {p} : slot'[q] = slot[q] /\ est'[q] = est[q]
      BY <1>5, <1>8, <2>1, ErasedSlots DEF Erased
    <2>3. Q \subseteq P /\ p \notin Q
      BY <1>3, <1>5, <2>1, <2>2 DEF Visible, Searched, Moving
    <2>4. \A q \in Q : slot'[q] = slot[q] /\ est'[q] = est[q]
      BY <1>4, <2>2, <2>3
    <2> QED BY <2>3, <2>4, <1>2, <1>4, <1>6, FewerHeads
  <1>9. Alone(Heads(Q))'
    BY <1>1, <1>7, <1>8 DEF flash
  <1>10. PICK G : G = Heads(Q)'
    OBVIOUS
  <1>11. Heads(Source)' = G /\ Heads(Visible)' = G /\ Alone(G)'
    BY <1>4, <1>9, <1>10 DEF Alone
  <1> QED BY <1>1, <1>2, <1>11, IdleParts

LEMMA ElementStutter ==
    ASSUME OwnInv, UNCHANGED vars
    PROVE  OwnInv'
  <1>1. /\ UNCHANGED <<pst, seq, slot, est, used, nxt, pc, op, marks, req, inst>>
        /\ Slots' = Slots
    BY DEF vars, flash, ram, N, Slots
  <1>2. Copied' = Copied /\ \A x : At(x)' = At(x)
    BY <1>1 DEF Copied, At
  <1>3. Source' = Source /\ Visible' = Visible /\ (Moving' <=> Moving) /\ (Steady' <=> Steady)
    BY <1>1 DEF Source, Visible, Searched, Moving, Steady
  <1>4. Heads(Source)' = Heads(Source) /\ Heads(Visible)' = Heads(Visible)
        /\ Heads({req.page})' = Heads({req.page}) /\ Heads({req.vic})' = Heads({req.vic})
    BY <1>1, <1>2, <1>3 DEF Heads
  <1>5. AloneInv' /\ InfoInv'
    BY <1>1, <1>2, <1>3, <1>4 DEF OwnInv, AloneInv, Alone, InfoInv, Claimed
  <1>6. ToSet(marks.at)' = ToSet(marks.at)
    BY <1>1 DEF ToSet
  <1>7. DeleteInv'
    BY <1>1, <1>2, <1>4, <1>6 DEF OwnInv, DeleteInv
  <1>8. NewHead' = NewHead /\ NewType' = NewType
    BY <1>1 DEF NewHead, NewType, Fragment, Last
  <1>9. At(NewHead)' = At(NewHead)
    BY <1>1, <1>8 DEF At
  <1>10. WriteInv'
    BY <1>1, <1>2, <1>3, <1>4, <1>6, <1>8, <1>9 DEF OwnInv, WriteInv
  <1>11. OriginInv'
    BY <1>1, <1>2, <1>3, <1>4 DEF OwnInv, OriginInv
  <1> QED BY <1>5, <1>7, <1>10, <1>11 DEF OwnInv

-----------------------------------------------------------------------------
(* The invariant                                                           *)

LEMMA ElementInit == Init => ElementInv
  <1> SUFFICES ASSUME Init PROVE ElementInv
    OBVIOUS
  <1>1. /\ pst = [p \in Pages |-> "blank"] /\ pc = "off" /\ op = NoOp
        /\ slot = [p \in Pages |-> [i \in Slots |-> Blank]]
    BY DEF Init
  <1>2. ~Moving /\ Searched = {}
    BY <1>1 DEF Moving, Searched
  <1>3. Heads(Source) = {} /\ Heads(Visible) = {}
    BY <1>2 DEF Source, Visible, Heads
  <1>4. KindInv /\ FreshInv /\ CandidateInv
    BY <1>1, <1>2 DEF KindInv, FreshInv, CandidateInv, Blank
  <1>5. AloneInv /\ InfoInv
    BY <1>3 DEF AloneInv, Alone, InfoInv
  <1>6. DeleteInv /\ WriteInv /\ OriginInv
    BY <1>1, <1>2 DEF DeleteInv, WriteInv, OriginInv, NoOp
  <1> QED BY <1>4, <1>5, <1>6 DEF ElementInv, OwnInv

LEMMA OwnStep ==
    ASSUME StoreInv, StoreInv', KindInv, FreshInv, CandidateInv, OwnInv, [Next]_vars,
           cut' # "clean"
    PROVE  OwnInv'
  <1>1. CASE \/ \E k \in Keys, v \in Vals : PutStart(k, v)
             \/ \E k \in Keys : DelStart(k)
             \/ CleanStart \/ Reboot
    BY <1>1, StartParts
  <1>2. CASE HasRoom \/ MarkFull
    BY <1>2, RoomParts
  <1>3. CASE Request
    BY <1>3, RequestParts
  <1>4. CASE ErasePage
    BY <1>4, ErasePageParts
  <1>5. CASE WritePage
    BY <1>5, WritePageParts
  <1>6. CASE MarkCandidate
    BY <1>6, MarkCandidateParts
  <1>7. CASE CopyEntry
    BY <1>7, CopyEntryParts
  <1>8. CASE CopyState
    BY <1>8, CopyStateParts
  <1>9. CASE EraseVictim
    BY <1>9, EraseVictimParts
  <1>10. CASE PageReady
    BY <1>10, PageReadyParts
  <1>11. CASE WriteHeader
    BY <1>11, WriteHeaderParts
  <1>12. CASE WriteData
    BY <1>12, WriteDataParts
  <1>13. CASE MarkState
    <2>1. pc \in {"delete", "commit", "undo"}
      BY <1>13, MarkStateEff DEF StoreInv, EntryInv
    <2> QED BY <1>13, <2>1, DeleteMarkParts, CommitParts
  <1>14. CASE CleanSector
    BY <1>14, CleanSectorParts
  <1>15. CASE Boot
    BY <1>15, BootParts
  <1>16. CASE PowerCut
    BY <1>16, PowerCutParts
  <1>17. CASE UNCHANGED vars
    BY <1>17, ElementStutter
  <1> QED BY <1>1, <1>2, <1>3, <1>4, <1>5, <1>6, <1>7, <1>8, <1>9, <1>10, <1>11, <1>12,
             <1>13, <1>14, <1>15, <1>16, <1>17, Zenon DEF Next, Step

LEMMA ElementStep ==
    ASSUME SmallOnly, StoreInv, StoreInv', ElementInv, [Next]_vars
    PROVE  ElementInv'
  <1> USE DEF ElementInv
  <1>1. KindInv' /\ FreshInv'
    BY KindStep, FreshStep
  <1>2. ASSUME cut' # "clean", cut # "clean" PROVE CandidateInv' /\ OwnInv'
    BY <1>2, CandidateStep, OwnStep DEF StoreInv
  <1>3. ASSUME cut' # "clean", cut = "clean" PROVE CandidateInv' /\ OwnInv'
    <2>1. PageReady /\ op.fn = "clean"
      <3>1. cut' # cut
        BY <1>3
      <3>2. ~UNCHANGED vars
        BY <3>1 DEF vars
      <3>3. ~PowerCut
        BY <1>3 DEF PowerCut
      <3>4. PageReady
        BY <3>1, <3>2, <3>3 DEF Next, Step, PutStart, DelStart, CleanStart, Reboot, LoseRam,
           MarkState, HasRoom, MarkFull, Request, ErasePage, WritePage, MarkCandidate,
           CopyEntry, CopyState, EraseVictim, WriteHeader, WriteData, CleanSector, Boot
      <3> QED BY <3>1, <3>4 DEF PageReady
    <2>2. OwnInv'
      BY <1>3, <2>1, PageReadyParts
    <2>3. /\ pc = "again" /\ pc' = "idle" /\ pst' = pst
      BY <2>1 DEF PageReady, Return, flash
    <2>4. \A p \in Pages : pst'[p] # "candidate"
      BY <2>1, <2>3 DEF FreshInv
    <2>5. CandidateInv'
      BY <2>3, <2>4 DEF CandidateInv, Moving
    <2> QED BY <2>2, <2>5
  <1> QED BY <1>1, <1>2, <1>3

\* On the pages a boot would search no key has two elements that are not the parts of one
\* bulk element, at any flash write of a call, of a page move or of a boot; what a call
\* writes or deletes is what it finds of its key, what a page move has copied is what was
\* on the page, and a bulk element nobody is writing has its bulkinfo.
THEOREM ElementsAlone ==
    ASSUME SmallOnly
    PROVE  Spec => []ElementInv
  <1>1. Init => StoreInv /\ ElementInv
    BY PagesInit, EntryInit, ElementInit DEF StoreInv
  <1>2. StoreInv /\ ElementInv /\ [Next]_vars => StoreInv' /\ ElementInv'
    <2> SUFFICES ASSUME StoreInv, ElementInv, [Next]_vars PROVE StoreInv' /\ ElementInv'
      OBVIOUS
    <2>1. StoreInv'
      BY PagesStep, EntryStep DEF StoreInv
    <2> QED BY <2>1, ElementStep
  <1> QED BY <1>1, <1>2, PTL DEF Spec

LEMMA AtMostOne ==
    ASSUME NEW S, \A x, y \in S : x = y
    PROVE  Cardinality(S) <= 1
  <1>1. CASE S = {}
    BY <1>1, FS_EmptySet
  <1>2. CASE S # {}
    <2>1. PICK x \in S : S = {x}
      BY <1>2
    <2> QED BY <2>1, FS_Singleton
  <1> QED BY <1>1, <1>2

\* A key never has two elements, nor one beside fragments of another.
THEOREM OneElementHolds ==
    ASSUME SmallOnly
    PROVE  Spec => []OneElement
  <1>1. StoreInv /\ ElementInv => OneElement
    <2> SUFFICES ASSUME StoreInv, ElementInv, cut # "clean", NEW k \in Keys
                 PROVE  /\ Cardinality(Live(k, {"small", "middle", "bulkinfo"})) <= 1
                        /\ Live(k, {"small", "middle"}) # {} => Live(k, {"bulk"}) = {}
      BY DEF OneElement
    <2>1. PICK H : H = Heads(Visible)
      OBVIOUS
    <2>2. Alone(H)
      BY <2>1 DEF ElementInv, OwnInv, AloneInv
    <2>3. \A types : \A x \in Live(k, types) : x \in H /\ At(x).k = k /\ At(x).t \in types
      BY <2>1, LiveInHeads
    <2>4. PICK S : S = Live(k, {"small", "middle", "bulkinfo"})
      OBVIOUS
    <2>5. \A x, y \in S : x = y
      BY <2>2, <2>3, <2>4 DEF Alone, Friends
    <2>6. Cardinality(S) <= 1
      BY <2>5, AtMostOne
    <2>7. ASSUME NEW x \in Live(k, {"small", "middle"}), NEW y \in Live(k, {"bulk"}) PROVE FALSE
      BY <2>2, <2>3, <2>7 DEF Alone, Friends
    <2> QED BY <2>4, <2>6, <2>7
  <1>2. Spec => []StoreInv
    BY EntriesKept
  <1>3. Spec => []ElementInv
    BY ElementsAlone
  <1> QED BY <1>1, <1>2, <1>3, PTL

-----------------------------------------------------------------------------
(* What a key holds: its elements, wherever they are, and what is read     *)
(* from them.                                                              *)

\* An element: its header and its data, without its place.
Elem(x) == [h |-> At(x), b |-> [o \in 1..Span(At(x)) |-> slot[x[1]][x[2] + o]]]
\* The places of the elements of k, and the elements.
Owned(k) == {x \in Heads(Source) : At(x).k = k}
Held(k) == {Elem(x) : x \in Owned(k)}

\* What nvds_data_get returns for a key that holds the elements S: the value of a small
\* element, of a middle one, or the fragments of a bulk one in the order of their numbers.
OfType(S, t) == {e \in S : e.h.t = t}
Piece(S, f) == {e \in OfType(S, "bulk") : e.h.f = f}
Some(S) == CHOOSE e \in S : TRUE
Pieces(S) ==
    [f \in 1..Some(OfType(S, "bulkinfo")).h.n |->
        IF Piece(S, f - 1) = {} THEN <<>> ELSE Some(Piece(S, f - 1)).b]
Joined(bytes) ==
    IF \E v \in BulkVals : bytes = Contents(v)
    THEN CHOOSE v \in BulkVals : bytes = Contents(v) ELSE Mixed
ReadMiddle(e) == IF e.b = Contents(e.h.v) THEN e.h.v ELSE Absent
Reading(S) ==
    IF OfType(S, "small") # {} THEN Some(OfType(S, "small")).h.v
    ELSE IF OfType(S, "middle") # {} THEN ReadMiddle(Some(OfType(S, "middle")))
    ELSE IF OfType(S, "bulkinfo") # {} THEN Joined(FlattenSeq(Pieces(S)))
    ELSE Absent

\* A page is emptied in order: its j-th entry in use goes to entry j of the new page.
CopyMap(g, new, old, st, n, from) ==
    /\ \A j \in 1..(n - 1) : \A l \in 1..(n - 1) : j < l => g[j] < g[l]
    /\ \A j \in 1..(n - 1) : st[g[j]] = "used" /\ new[j] = old[g[j]]
    /\ \A i \in 1..(from - 1) : st[i] = "used" => \E j \in 1..(n - 1) : g[j] = i
    /\ from = IF n = 1 THEN 1 ELSE g[n - 1] + 1
    /\ \A j \in 1..(n - 1) : \A o \in 1..Span(new[j]) : j + o < n => g[j + o] = g[j] + o
MapInv ==
    Moving => \E g \in [1..(nxt[req.page] - 1) -> Slots] :
        CopyMap(g, slot[req.page], slot[req.vic], est[req.vic], nxt[req.page], req.from)

\* Entries not yet written are erased: those of a page that is being filled by a copy, and
\* all of them if no power cut came between.
BlankInv ==
    /\ Moving => \A i \in Slots : i >= nxt[req.page] => slot[req.page][i] = Blank
    /\ pc = "again" /\ op.fn # "put" => \A p \in Pages : \A i \in Slots : slot[p][i] = Blank
    /\ cut = "none" /\ Running =>
         \A p \in Kept : \A i \in Slots : i >= nxt[p] => slot[p][i] = Blank
    /\ cut = "none" /\ ~Running =>
         \A p \in Pages : \A i \in Slots : est[p][i] = "free" => slot[p][i] = Blank

\* The fragments of a key differ in their numbers.
FragInv ==
    \A x, y \in Heads(Source) :
        x # y /\ At(x).k = At(y).k /\ At(x).t = "bulk" /\ At(y).t = "bulk" => At(x).f # At(y).f

\* The header and the data that a put has written last.
Done == Entries[op.v] - op.rem
Wanted ==
    Header(op.k, NewType, IF NewType = "bulkinfo" THEN op.frag ELSE op.len, op.v,
           IF NewType = "bulk" THEN op.frag ELSE 0)
TextInv ==
    pc \in {"data", "commit"} =>
        /\ At(NewHead).c = "head" \/ cut = "none" => At(NewHead) = Wanted
        /\ op.v \in MiddleVals => op.len = Entries[op.v]
        /\ Fragment => op.len \in 1..op.rem
        /\ NewType \in {"small", "bulkinfo"} => op.len = 0
        /\ pc = "commit" => \A o \in 1..op.len :
              slot[NewHead[1]][NewHead[2] + o] = Data(op.v, Done + o)

\* The fragments written so far are those of the value, one after the other.
Shred(k, v, f, from, to) ==
    [h |-> Header(k, "bulk", to - from, v, f), b |-> [o \in 1..(to - from) |-> Data(v, from + o)]]
Laid(off) ==
    /\ off[0] = 0 /\ off[op.frag] = Done
    /\ \A f \in 0..(op.frag - 1) :
          off[f] <= off[f + 1] /\ Shred(op.k, op.v, f, off[f], off[f + 1]) \in Held(op.k)
Offsets == 0..Entries[op.v]
GrowInv ==
    op.fn = "put" /\ op.v \notin SmallVals =>
        /\ op.rem \in 0..Entries[op.v]
        /\ pc = "delete" \/ op.v \in MiddleVals => op.rem = Entries[op.v] /\ op.frag = 0
        /\ op.v \in BulkVals /\ pc # "undo" =>
             /\ pc # "delete" =>
                  /\ \E off \in [0..op.frag -> Offsets] : Laid(off)
                  /\ \A x \in Owned(op.k) : At(x).t = "bulk" =>
                        At(x).f < op.frag \/ (pc = "commit" /\ x = NewHead)

\* A call leaves the values of the other keys alone.
KeptInv ==
    op.fn \in {"put", "del"} => \A k \in Keys : k # op.k => Reading(Held(k)) = snap[k]
\* Without a steady supply, what is found is the value before the call or the one it puts.
SeenInv ==
    ~Steady /\ op # NoOp =>
        \A x \in Heads(Source) :
            \/ At(x).v = snap[At(x).k]
            \/ op.fn = "put" /\ At(x).k = op.k /\ At(x).v = op.v

ViewInv ==
    /\ MapInv /\ BlankInv
    /\ cut # "clean" => FragInv /\ TextInv /\ GrowInv /\ KeptInv /\ SeenInv
-----------------------------------------------------------------------------
(* What is read is what the elements say                                   *)

\* The member of a set of one.
LEMMA SomeIs == \A e : Some({e}) = e
  BY DEF Some

\* The elements of a key by their types and numbers.
LEMMA OwnedIs ==
    ASSUME StoreInv, NEW k
    PROVE  /\ Owned(k) \in SUBSET (Pages \X Slots)
           /\ \A x \in Owned(k) : /\ x \in Heads(Source) /\ At(x).k = k /\ At(x).t \in AnyType
                                  /\ At(x).c = "head" /\ At(x).v \in Vals
           /\ \A x : Elem(x).h = At(x)
           /\ \A t : OfType(Held(k), t) = {Elem(x) : x \in {y \in Owned(k) : At(y).t = t}}
           /\ \A f : Piece(Held(k), f)
                     = {Elem(x) : x \in {y \in Owned(k) : At(y).t = "bulk" /\ At(y).f = f}}
  <1>1. Heads(Source) \in SUBSET (Pages \X Slots)
    BY HeadFacts
  <1>2. \A x : Elem(x).h = At(x)
    BY DEF Elem
  <1>3. \A t : OfType(Held(k), t) = {Elem(x) : x \in {y \in Owned(k) : At(y).t = t}}
    BY <1>2 DEF OfType, Held
  <1>4. \A f : Piece(Held(k), f)
               = {Elem(x) : x \in {y \in Owned(k) : At(y).t = "bulk" /\ At(y).f = f}}
    BY <1>2, <1>3 DEF Piece
  <1>5. \A x \in Owned(k) : /\ x \in Heads(Source) /\ At(x).k = k /\ At(x).c = "head"
                            /\ x \in Pages \X Slots
    BY <1>1 DEF Owned, Heads
  <1> QED BY <1>2, <1>3, <1>4, <1>5, HeadCell

\* bulk_element_get, when there is one bulkinfo.
LEMMA BulkGetIs ==
    ASSUME NEW k, NEW w, Live(k, {"bulkinfo"}) = {w}
    PROVE  BulkGet(k) = Joined(FlattenSeq([f \in 1..At(w).n |->
              IF {x \in Live(k, {"bulk"}) : At(x).f = f - 1} = {} THEN <<>>
              ELSE Body(First({x \in Live(k, {"bulk"}) : At(x).f = f - 1}))]))
  <1>1. First({w}) = w
    BY DEF First
  <1> QED BY <1>1 DEF BulkGet, Joined

\* The first of one.
LEMMA FirstOne == \A w : First({w}) = w
  BY DEF First

\* The bytes of a bulk element do not depend on where its fragments are.
LEMMA BulkReads ==
    ASSUME StoreInv, pc \in {"idle", "off", "room", "request", "again"}, NEW k, FragInv,
           Alone(Heads(Source)), Live(k, {"bulkinfo"}) # {}
    PROVE  /\ OfType(Held(k), "bulkinfo") # {}
           /\ BulkGet(k) = Joined(FlattenSeq(Pieces(Held(k))))
  <1>1. PICK B, I : B = Live(k, {"bulk"}) /\ I = Live(k, {"bulkinfo"})
    OBVIOUS
  <1>2. /\ B = {y \in Owned(k) : At(y).t = "bulk"} /\ I = {y \in Owned(k) : At(y).t = "bulkinfo"}
    BY <1>1, LiveIsHeads DEF Owned
  <1>3. PICK w : w \in I
    BY <1>1
  <1>4. I = {w}
    <2>1. ASSUME NEW y \in I, y # w PROVE FALSE
      <3>1. Friends(At(y), At(w))
        BY <2>1, <1>2, <1>3, OwnedIs DEF Alone
      <3> QED BY <3>1, <2>1, <1>2, <1>3, OwnedIs DEF Friends
    <2> QED BY <2>1, <1>3
  <1>5. OfType(Held(k), "bulkinfo") = {Elem(w)}
    <2>1. OfType(Held(k), "bulkinfo") = {Elem(x) : x \in I}
      BY <1>2, OwnedIs
    <2> QED BY <2>1, <1>4
  <1>6. Some(OfType(Held(k), "bulkinfo")).h.n = At(w).n
    <2>1. Some(OfType(Held(k), "bulkinfo")) = Elem(w)
      BY <1>5, SomeIs
    <2> QED BY <2>1 DEF Elem
  <1>7. ASSUME NEW f
        PROVE  (IF {x \in B : At(x).f = f} = {} THEN <<>> ELSE Body(First({x \in B : At(x).f = f})))
             = (IF Piece(Held(k), f) = {} THEN <<>> ELSE Some(Piece(Held(k), f)).b)
    <2>1. PICK F : F = {x \in B : At(x).f = f}
      OBVIOUS
    <2>2. Piece(Held(k), f) = {Elem(x) : x \in F}
      BY <2>1, <1>2, OwnedIs
    <2>3. CASE F = {}
      BY <2>1, <2>2, <2>3
    <2>4. CASE F # {}
      <3>1. PICK x \in F : TRUE
        BY <2>4
      <3>2. F = {x}
        <4>1. ASSUME NEW y \in F, y # x PROVE FALSE
          BY <4>1, <3>1, <2>1, <1>2, OwnedIs DEF FragInv
        <4> QED BY <4>1, <3>1
      <3>3. First(F) = x /\ Some(Piece(Held(k), f)) = Elem(x) /\ Piece(Held(k), f) # {}
        BY <3>2, <2>2, SomeIs, FirstOne
      <3>4. Body(x) = Elem(x).b
        <4>1. At(x).t = "bulk" /\ At(x).c = "head"
          BY <3>1, <2>1, <1>2, OwnedIs
        <4> QED BY <4>1 DEF Body, Elem, Span
      <3> QED BY <3>3, <3>4, <2>1, <2>4
    <2> QED BY <2>3, <2>4
  <1>8. [f \in 1..At(w).n |-> IF {x \in B : At(x).f = f - 1} = {} THEN <<>>
                              ELSE Body(First({x \in B : At(x).f = f - 1}))]
        = Pieces(Held(k))
    <2>1. \A f \in 1..At(w).n :
             (IF {x \in B : At(x).f = f - 1} = {} THEN <<>>
              ELSE Body(First({x \in B : At(x).f = f - 1})))
             = (IF Piece(Held(k), f - 1) = {} THEN <<>> ELSE Some(Piece(Held(k), f - 1)).b)
      BY <1>7
    <2> QED BY <2>1, <1>6 DEF Pieces
  <1>9. BulkGet(k) = Joined(FlattenSeq([f \in 1..At(w).n |->
              IF {x \in B : At(x).f = f - 1} = {} THEN <<>>
              ELSE Body(First({x \in B : At(x).f = f - 1}))]))
    BY <1>1, <1>4, BulkGetIs
  <1> QED BY <1>5, <1>8, <1>9

\* nvds_data_get returns what the elements of the key say.
LEMMA DataGetReads ==
    ASSUME StoreInv, pc \in {"idle", "off", "room", "request", "again"}, NEW k, FragInv,
           Alone(Heads(Source))
    PROVE  DataGet(k) = Reading(Held(k))
  <1>1. PICK L : L = Live(k, AnyType)
    OBVIOUS
  <1>2. L = Owned(k)
    BY <1>1, LiveIsHeads, OwnedIs DEF Owned
  <1>3. Live(k, {"bulkinfo"}) = {y \in L : At(y).t = "bulkinfo"}
    BY <1>2, LiveIsHeads DEF Owned
  <1>4. \A t : OfType(Held(k), t) = {Elem(x) : x \in {y \in L : At(y).t = t}}
    BY <1>2, OwnedIs
  <1>5. CASE L = {}
    <2>1. \A t : OfType(Held(k), t) = {}
      BY <1>4, <1>5
    <2> QED BY <2>1, <1>1, <1>5 DEF Reading, DataGet
  <1>6. CASE L # {}
    <2>1. PICK z : z = First(L)
      OBVIOUS
    <2>2. z \in L
      BY <2>1, <1>1, <1>6, FirstLive
    <2>3. DataGet(k) = IF At(z).t = "small" THEN At(z).v
                       ELSE IF At(z).t = "middle"
                       THEN IF Body(z) = Contents(At(z).v) THEN At(z).v ELSE Absent
                       ELSE BulkGet(k)
      BY <1>1, <1>6, <2>1, Zenon DEF DataGet
    <2>4. \A y \in L : y # z => Friends(At(y), At(z)) /\ At(y).k = At(z).k
      BY <1>2, <2>2, OwnedIs DEF Alone
    <2>5. ASSUME At(z).t \in {"small", "middle"}
          PROVE  /\ OfType(Held(k), At(z).t) = {Elem(z)}
                 /\ \A t : t # At(z).t => OfType(Held(k), t) = {}
      <3>1. L = {z}
        BY <2>2, <2>4, <2>5 DEF Friends
      <3>2. \A t : {y \in L : At(y).t = t} = IF t = At(z).t THEN {z} ELSE {}
        BY <3>1
      <3>3. \A t : OfType(Held(k), t) = {Elem(x) : x \in IF t = At(z).t THEN {z} ELSE {}}
        BY <3>2, <1>4
      <3> QED BY <3>3
    <2>6. CASE At(z).t = "small"
      <3>1. Some(OfType(Held(k), "small")).h.v = At(z).v /\ OfType(Held(k), "small") # {}
        <4>1. OfType(Held(k), "small") = {Elem(z)}
          BY <2>5, <2>6
        <4>2. Some(OfType(Held(k), "small")) = Elem(z)
          BY <4>1, SomeIs
        <4> QED BY <4>1, <4>2 DEF Elem
      <3> QED BY <3>1, <2>3, <2>6 DEF Reading
    <2>7. CASE At(z).t = "middle"
      <3>1. OfType(Held(k), "middle") = {Elem(z)} /\ OfType(Held(k), "small") = {}
        BY <2>5, <2>7
      <3>2. Body(z) = Elem(z).b /\ Elem(z).h = At(z)
        <4>1. At(z).c = "head"
          BY <1>2, <2>2, OwnedIs
        <4> QED BY <4>1, <2>7 DEF Body, Elem, Span
      <3>3. Reading(Held(k)) = ReadMiddle(Elem(z))
        BY <3>1, SomeIs DEF Reading
      <3> QED BY <3>2, <3>3, <2>3, <2>7 DEF ReadMiddle
    <2>8. CASE At(z).t \notin {"small", "middle"}
      <3>1. At(z).t \in {"bulk", "bulkinfo"}
        BY <2>2, <2>8, <1>2, OwnedIs DEF AnyType
      <3>2. \A y \in L : At(y).t \in {"bulk", "bulkinfo"}
        BY <2>4, <3>1 DEF Friends
      <3>3. {y \in L : At(y).t = "small"} = {} /\ {y \in L : At(y).t = "middle"} = {}
        BY <3>2
      <3>4. OfType(Held(k), "small") = {} /\ OfType(Held(k), "middle") = {}
        BY <3>3, <1>4
      <3>5. CASE Live(k, {"bulkinfo"}) = {}
        <4>1. OfType(Held(k), "bulkinfo") = {}
          BY <3>5, <1>3, <1>4
        <4>2. BulkGet(k) = Absent
          BY <3>5 DEF BulkGet
        <4> QED BY <4>1, <4>2, <3>4, <2>3, <2>8 DEF Reading
      <3>6. CASE Live(k, {"bulkinfo"}) # {}
        BY <3>6, <3>4, <2>3, <2>8, BulkReads DEF Reading
      <3> QED BY <3>5, <3>6
    <2> QED BY <2>6, <2>7, <2>8
  <1> QED BY <1>5, <1>6

-----------------------------------------------------------------------------
(* Steps that leave the elements of every key as they are                  *)

\* The data of an element that is in use is there.
LEMMA BodyThere ==
    ASSUME StoreInv, NEW p \in Source, NEW i \in Slots, IsHead(<<p, i>>)
    PROVE  /\ p \in Pages /\ est[p][i] = "used" /\ Eff[p][i] # "free"
           /\ \A o \in 1..Span(slot[p][i]) : i + o \in Slots /\ Eff[p][i + o] # "free"
                                             /\ Eff[p][i + o] = Eff[p][i]
                                             /\ slot[p][i + o].c = "data"
  <1>1. p \in Pages /\ (Moving => p # req.page)
    <2>1. p \in Pages
      BY HeadFacts
    <2> QED BY <2>1 DEF Source, Searched
  <1>2. est[p][i] = "used"
    <2>1. <<p, i>> \notin Copied
      BY <1>1 DEF Copied, Moving
    <2> QED BY <2>1, AtIs DEF IsHead
  <1>3. Goal # "free"
    BY DEF Goal, StoreInv, PagesInv, Types
  <1>4. Eff[p][i] # "free"
    BY <1>1, <1>2, <1>3, EffValue
  <1>5. \A o \in 1..Span(slot[p][i]) : ~ToCome(p, i + o)
    BY <1>1 DEF ToCome
  <1> QED BY <1>1, <1>2, <1>4, <1>5 DEF StoreInv, EntryInv, WholeInv

\* A step that neither moves an element nor writes over one.
Still ==
    /\ Slots' = Slots /\ inst' = inst
    /\ Source \subseteq Source' /\ Source' \subseteq Pages
    /\ \A p \in Source' \ Source : \A i \in Slots : ~IsHead(<<p, i>>)'
    /\ \A p \in Source : \A i \in Slots : IsHead(<<p, i>>)' <=> IsHead(<<p, i>>)
    /\ \A p \in Source : \A i \in Slots : Eff[p][i] # "free" => slot'[p][i] = slot[p][i]

\* Such a step leaves every element and its data where it is.
LEMMA StillHeads ==
    ASSUME StoreInv, Still
    PROVE  /\ Heads(Source)' = Heads(Source)
           /\ \A x \in Heads(Source) : At(x)' = At(x) /\ Elem(x)' = Elem(x)
  <1>1. PICK S, R : S = Source /\ R = Source'
    OBVIOUS
  <1>2. S \subseteq R /\ R \subseteq Pages
    BY <1>1 DEF Still
  <1>3. Heads(Source) = {x \in S \X Slots : IsHead(x)}
    BY <1>1 DEF Heads, IsHead
  <1>4. Heads(Source)' = {x \in R \X Slots : IsHead(x)'}
    BY <1>1 DEF Heads, IsHead, Still
  <1>5. Heads(Source)' = Heads(Source)
    <2>1. ASSUME NEW p \in R, NEW i \in Slots
          PROVE  <<p, i>> \in Heads(Source)' <=> <<p, i>> \in Heads(Source)
      <3>1. CASE p \in S
        BY <3>1, <1>1, <1>3, <1>4 DEF Still
      <3>2. CASE p \notin S
        BY <3>2, <1>1, <1>3, <1>4 DEF Still
      <3> QED BY <3>1, <3>2
    <2>2. \A x \in Heads(Source)' \cup Heads(Source) : \E p \in R, i \in Slots : x = <<p, i>>
      BY <1>2, <1>3, <1>4
    <2>3. \A x \in Heads(Source)' \cup Heads(Source) : x \in Heads(Source)' <=> x \in Heads(Source)
      BY <2>1, <2>2
    <2>4. PICK A, B : A = Heads(Source)' /\ B = Heads(Source)
      OBVIOUS
    <2>5. \A x : x \in A <=> x \in B
      BY <2>3, <2>4
    <2> QED BY <2>4, <2>5
  <1>6. ASSUME NEW x \in Heads(Source) PROVE At(x)' = At(x) /\ Elem(x)' = Elem(x)
    <2>1. PICK p \in S, i \in Slots : x = <<p, i>>
      BY <1>3
    <2>2. p \in Source /\ IsHead(<<p, i>>)
      BY <2>1, <1>1, <1>3
    <2>3. /\ Eff[p][i] # "free"
          /\ \A o \in 1..Span(slot[p][i]) : i + o \in Slots /\ Eff[p][i + o] # "free"
      BY <2>2, BodyThere
    <2>4. slot'[p][i] = slot[p][i]
      BY <2>2, <2>3 DEF Still
    <2>5. \A o \in 1..Span(slot[p][i]) : slot'[p][i + o] = slot[p][i + o]
      BY <2>2, <2>3 DEF Still
    <2>6. At(x)' = slot'[p][i] /\ At(x) = slot[p][i]
      BY <2>1 DEF At
    <2>7. Elem(x) = [h |-> slot[p][i], b |-> [o \in 1..Span(slot[p][i]) |-> slot[p][i + o]]]
      BY <2>1 DEF Elem, At
    <2>8. Elem(x)' = [h |-> slot'[p][i], b |-> [o \in 1..Span(slot'[p][i]) |-> slot'[p][i + o]]]
      BY <2>1 DEF Elem, At, Span
    <2> QED BY <2>4, <2>5, <2>6, <2>7, <2>8
  <1> QED BY <1>5, <1>6

\* Elements that stay as they are, are those of the same keys.
LEMMA HeldSame ==
    ASSUME NEW H, Heads(Source) = H, Heads(Source)' = H,
           \A x \in H : At(x)' = At(x) /\ Elem(x)' = Elem(x)
    PROVE  \A k : Owned(k)' = Owned(k) /\ Held(k)' = Held(k)
  <1> TAKE k
  <1>1. Owned(k) = {x \in H : At(x).k = k} /\ Owned(k)' = {x \in H : At(x)'.k = k}
    BY DEF Owned
  <1>2. Owned(k)' = Owned(k)
    BY <1>1
  <1>3. PICK O : O = Owned(k)
    OBVIOUS
  <1>4. Held(k) = {Elem(x) : x \in O} /\ Held(k)' = {Elem(x)' : x \in O}
    BY <1>2, <1>3 DEF Held
  <1>5. \A x \in O : Elem(x)' = Elem(x)
    BY <1>1, <1>3
  <1> QED BY <1>2, <1>4, <1>5

\* Such a step leaves every key what it holds.
LEMMA StillHeld ==
    ASSUME StoreInv, Still
    PROVE  \A k : Owned(k)' = Owned(k) /\ Held(k)' = Held(k)
  <1>1. PICK H : H = Heads(Source)
    OBVIOUS
  <1> QED BY <1>1, StillHeads, HeldSame

\* A step that writes no entry and opens no page is such a step,
LEMMA CalmStill ==
    ASSUME StoreInv, Calm, Source' = Source, slot' = slot
    PROVE  Still
  <1>1. PICK S : S = Source
    OBVIOUS
  <1>2. S \in SUBSET Pages
    BY <1>1, HeadFacts
  <1>3. \A p \in S : \A i \in Slots : <<p, i>> \in Pages \X Slots
    BY <1>2
  <1>4. \A p \in S : \A i \in Slots : IsHead(<<p, i>>)' <=> IsHead(<<p, i>>)
    BY <1>3 DEF Calm
  <1> QED BY <1>1, <1>2, <1>4 DEF Still, Calm

\* so is one that leaves the entries and the pages searched alone,
LEMMA SameStill ==
    ASSUME StoreInv, [Next]_vars, slot' = slot, est' = est, Copied' = Copied, Source' = Source
    PROVE  Still
  BY CalmFlash, CalmStill

\* The steps between calls, and those of a put that alter at most a page header.
LEMMA QuietStill ==
    ASSUME StoreInv, CandidateInv, [Next]_vars,
           \/ \E k \in Keys, v \in Vals : PutStart(k, v)
           \/ \E k \in Keys : DelStart(k)
           \/ CleanStart \/ Reboot \/ HasRoom \/ MarkFull \/ Request \/ ErasePage \/ PageReady
           \/ MarkCandidate \/ Boot \/ UNCHANGED vars
    PROVE  Still
  <1>1. ASSUME pst' = pst, slot' = slot, est' = est, ~Moving, ~Moving' PROVE Still
    <2>1. Source' = Source /\ Copied' = Copied
      BY <1>1, SearchedSame
    <2> QED BY <2>1, <1>1, SameStill
  <1>2. CASE \/ \E k \in Keys, v \in Vals : PutStart(k, v)
             \/ \E k \in Keys : DelStart(k)
             \/ CleanStart \/ Reboot
    <2>1. /\ pc = "idle" /\ pc' \in {"room", "delete", "clean", "off"}
          /\ UNCHANGED flash
      BY <1>2 DEF PutStart, DelStart, CleanStart, Reboot, Starts, LoseRam
    <2> QED BY <2>1, <1>1 DEF Moving, flash
  <1>3. CASE HasRoom
    <2>1. pc = "room" /\ pc' = "header" /\ UNCHANGED flash
      BY <1>3 DEF HasRoom
    <2> QED BY <2>1, <1>1 DEF Moving, flash
  <1>4. CASE MarkFull
    <2>1. pc = "room" /\ pc' = "request" /\ UNCHANGED <<slot, est>>
          /\ pst' = [pst EXCEPT ![Last(used)] = "full"]
      BY <1>4 DEF MarkFull
    <2>2. ~Moving /\ ~Moving' /\ Copied' = Copied /\ Running /\ used # <<>>
      BY <2>1, ListFacts DEF Moving, Copied, Running, StoreInv
    <2>3. PICK q : q = Last(used)
      OBVIOUS
    <2>4. /\ q \in ToSet(used) /\ q \in Pages
          /\ \A p \in ToSet(used) : seq[p] <= seq[q]
          /\ \A p \in Pages : seq[p] \in Nat
      BY <2>2, <2>3, LastIsNewest
    <2>5. Written = ToSet(used) /\ pst \in [Pages -> PageStates]
      BY <2>2 DEF StoreInv, PagesInv, ListInv, Kept, Types
    <2>6. pst[q] # "candidate"
      <3> SUFFICES ASSUME pst[q] = "candidate" PROVE FALSE
        OBVIOUS
      <3>1. PICK r \in Written : seq[q] < seq[r]
        BY <2>1, <2>4 DEF CandidateInv
      <3>2. seq[r] <= seq[q] /\ seq[r] \in Nat /\ seq[q] \in Nat
        BY <2>4, <2>5, <3>1 DEF Written
      <3> QED BY <3>1, <3>2
    <2>7. pst[q] \in {"active", "full"}
      BY <2>4, <2>5, <2>6 DEF Written, PageStates
    <2>8. Searched' = Searched
      BY <2>1, <2>3, <2>5, <2>7 DEF Searched
    <2>9. Source' = Source
      BY <2>2, <2>8 DEF Source
    <2> QED BY <2>1, <2>2, <2>9, SameStill
  <1>5. CASE Request
    <2>1. pc = "request" /\ pc' \in {"undo", "idle", "page", "erase"} /\ UNCHANGED flash
      BY <1>5 DEF Request, NoSpace, Return
    <2> QED BY <2>1, <1>1 DEF Moving, flash
  <1>6. CASE ErasePage
    <2>1. pc = "erase" /\ pc' = "page" /\ Erased(req.page, "blank")
      BY <1>6 DEF ErasePage
    <2>2. ~Moving /\ ~Moving' /\ req.page \in Pages \ ToSet(used) /\ Written = ToSet(used)
      BY <2>1, ListFacts DEF Moving, StoreInv, PagesInv, ListInv, Kept, Running
    <2>3. PICK p : p = req.page
      OBVIOUS
    <2>4. Calm /\ Source' = Source /\ slot' = slot
      BY <2>1, <2>2, <2>3, ErasedCalm
    <2> QED BY <2>4, CalmStill
  <1>7. CASE PageReady
    <2>1. pc = "again" /\ pc' \in {"undo", "idle", "header"} /\ UNCHANGED flash
      BY <1>7 DEF PageReady, NoSpace, Return
    <2> QED BY <2>1, <1>1 DEF Moving, flash
  <1>8. CASE MarkCandidate
    <2>1. /\ pc = "candidate" /\ pc' = "copy" /\ UNCHANGED <<slot, est, op, req>>
          /\ pst' = [pst EXCEPT ![req.vic] = "candidate"]
      BY <1>8 DEF MarkCandidate
    <2>2. Moving /\ Moving' /\ Copied' = Copied
      BY <2>1 DEF Moving, Copied
    <2>3. req.vic \in Pages /\ pst \in [Pages -> PageStates]
      BY <2>2, ListFacts DEF StoreInv, PagesInv, Types
    <2>4. Searched \ {req.vic} = Searched' \ {req.vic}
      BY <2>1, <2>3 DEF Searched
    <2>5. Source' = Source
      BY <2>1, <2>2, <2>4 DEF Source
    <2> QED BY <2>1, <2>2, <2>5, SameStill
  <1>9. CASE Boot
    <2>1. /\ pc = "off" /\ pc' \in {"idle", "page", "erase"} /\ op' = op
          /\ UNCHANGED <<pst, seq, slot>> /\ est' = LoadStates
      BY <1>9 DEF Boot
    <2>2. ~Moving /\ ~Moving' /\ Copied' = {} /\ Copied = {} /\ Source' = Source
      BY <2>1, SearchedSame DEF Moving
    <2>3. \A p \in Pages : \A i \in Slots : slot[p][i].c = "head" => est'[p][i] = est[p][i]
      BY <2>1 DEF LoadStates
    <2>4. Slots' = Slots /\ inst' = inst
      BY InstKept
    <2>5. \A x : At(x)' = At(x)
      BY <2>1 DEF At
    <2>6. ASSUME NEW x \in Pages \X Slots PROVE IsHead(x)' <=> IsHead(x)
      <3>1. x[1] \in Pages /\ x[2] \in Slots
        OBVIOUS
      <3>2. At(x).c = "head" => est'[x[1]][x[2]] = est[x[1]][x[2]]
        BY <3>1, <2>3 DEF At
      <3> QED BY <3>2, <2>2, <2>5 DEF IsHead
    <2>7. Calm
      BY <2>4, <2>5, <2>6 DEF Calm
    <2> QED BY <2>1, <2>2, <2>7, CalmStill
  <1>10. CASE UNCHANGED vars
    <2>1. UNCHANGED <<pst, slot, est, pc, req, nxt>>
      BY <1>10 DEF vars, flash, ram
    <2>2. Copied' = Copied /\ Source' = Source
      BY <2>1 DEF Copied, Source, Searched, Moving
    <2> QED BY <2>1, <2>2, SameStill
  <1> QED BY <1>2, <1>3, <1>4, <1>5, <1>6, <1>7, <1>8, <1>9, <1>10

\* A new page has no element yet.
LEMMA WritePageStill ==
    ASSUME StoreInv, CandidateInv, [Next]_vars, WritePage
    PROVE  Still
  <1>1. /\ pc = "page" /\ UNCHANGED <<slot, est, op, req>>
        /\ pst' = [pst EXCEPT ![req.page] = "active"]
        /\ IF req.vic = 0 THEN pc' = "again" ELSE pc' = "candidate"
    BY DEF WritePage
  <1>2. PICK T, V : T = req.page /\ V = req.vic
    OBVIOUS
  <1>3. T \in Pages \ ToSet(used) /\ Written = ToSet(used) /\ ~Moving
    BY <1>1, <1>2, ListFacts DEF Moving, StoreInv, PagesInv, ListInv, Kept, Running
  <1>4. PICK S : S = Searched
    OBVIOUS
  <1>5. pst \in [Pages -> PageStates] /\ S \in SUBSET Pages /\ T \notin S /\ Source = S
    BY <1>3, <1>4, HeadFacts DEF StoreInv, PagesInv, Types, Searched, Written
  <1>6. Searched' = S \cup {T}
    BY <1>1, <1>2, <1>3, <1>4, <1>5 DEF Searched
  <1>7. Calm /\ Copied' = {} /\ Copied = {}
    <2>1. Copied' = {} /\ Copied = {}
      BY <1>1 DEF Copied
    <2> QED BY <1>1, <2>1, CalmFlash
  <1>8. \A i \in Slots : ~IsHead(<<T, i>>)'
    <2>1. \A i \in Slots : est[T][i] = "free"
      BY <1>3 DEF StoreInv, EntryInv, FillInv
    <2> QED BY <2>1, <1>1, <1>7, AtIs DEF IsHead
  <1>9. V # 0 => V \in S
    <2> SUFFICES ASSUME V # 0 PROVE V \in S
      OBVIOUS
    <2>1. V \in ToSet(used) /\ V \in Pages /\ V \in Written
      BY <1>1, <1>2, <1>3, ListFacts DEF StoreInv, PagesInv, ReqInv
    <2>2. pst[V] # "candidate"
      BY <1>1, <1>3, <2>1, NoCandidate
    <2> QED BY <1>4, <1>5, <2>1, <2>2 DEF Searched, Written, PageStates
  <1>10. PICK R : R = Source'
    OBVIOUS
  <1>11. R \in {S, S \cup {T}}
    <2>1. CASE V = 0
      <3>1. ~Moving'
        BY <1>1, <1>2, <2>1 DEF Moving
      <3> QED BY <3>1, <1>6, <1>10 DEF Source
    <2>2. CASE V # 0
      <3>1. Moving' /\ req'.vic = V /\ req'.page = T
        BY <1>1, <1>2, <2>2 DEF Moving
      <3>2. R = ((S \cup {T}) \cup {V}) \ {T}
        BY <3>1, <1>6, <1>10 DEF Source
      <3> QED BY <3>2, <1>5, <1>9, <2>2
    <2> QED BY <2>1, <2>2
  <1>12. \A p \in S : \A i \in Slots : <<p, i>> \in Pages \X Slots
    BY <1>5
  <1>13. \A p \in S : \A i \in Slots : IsHead(<<p, i>>)' <=> IsHead(<<p, i>>)
    BY <1>7, <1>12 DEF Calm
  <1> QED BY <1>1, <1>3, <1>5, <1>7, <1>8, <1>10, <1>11, <1>13 DEF Still, Calm

\* What is written to the new page is not looked at yet.
LEMMA CopyStill ==
    ASSUME StoreInv, [Next]_vars, CopyEntry \/ CopyState
    PROVE  Still
  <1>1. /\ pc \in {"copy", "copied"} /\ pc' \in {"copy", "copied"} /\ pst' = pst
        /\ req'.page = req.page /\ req'.vic = req.vic
        /\ CopyEntry => est' = est /\ \E c : slot' = [slot EXCEPT ![req.page][nxt[req.page]] = c]
        /\ CopyState => slot' = slot /\ \E j : est' = [est EXCEPT ![req.page][j] = "used"]
    <2>1. req \in [page : 0..NumPages, vic : 0..NumPages, from : Nat]
      BY DEF StoreInv, PagesInv, Types
    <2>2. CASE CopyEntry
      <3>1. /\ slot' = [slot EXCEPT ![req.page][nxt[req.page]] =
                                       Program(@, slot[req.vic][Min(ToCopy)])]
            /\ req' = [req EXCEPT !.from = Min(ToCopy) + 1]
            /\ pc = "copy" /\ pc' = "copied" /\ est' = est /\ pst' = pst
        BY <2>2 DEF CopyEntry, EntryWrite
      <3> QED BY <2>1, <3>1 DEF CopyState
    <2>3. CASE CopyState
      BY <2>3 DEF CopyState, CopyEntry
    <2> QED BY <2>2, <2>3
  <1>2. PICK T : T = req.page
    OBVIOUS
  <1>3. Moving /\ Moving' /\ T \in Pages
    BY <1>1, <1>2, ListFacts DEF Moving, StoreInv
  <1>4. /\ slot \in [Pages -> [Slots -> Cell]] /\ est \in [Pages -> [Slots -> EntryStates]]
        /\ Slots' = Slots /\ inst' = inst
    BY InstKept DEF StoreInv, PagesInv, Types
  <1>5. \A p \in Pages : p # T => slot'[p] = slot[p] /\ est'[p] = est[p]
    <2>1. CASE CopyEntry
      BY <2>1, <1>1, <1>2, <1>4
    <2>2. CASE CopyState
      BY <2>2, <1>1, <1>2, <1>4
    <2> QED BY <2>1, <2>2
  <1>6. \A p, i : p # T => <<p, i>> \notin Copied /\ <<p, i>> \notin Copied'
    BY <1>1, <1>2 DEF Copied
  <1>7. PICK S : S = Source
    OBVIOUS
  <1>8. Source' = S /\ S \in SUBSET Pages /\ T \notin S
    BY <1>1, <1>2, <1>3, <1>7, HeadFacts DEF Source, Searched
  <1>9. ASSUME NEW p \in S, NEW i \in Slots
        PROVE  (IsHead(<<p, i>>)' <=> IsHead(<<p, i>>)) /\ slot'[p][i] = slot[p][i]
    <2>1. p # T /\ slot'[p] = slot[p] /\ est'[p] = est[p]
      BY <1>5, <1>8
    <2> QED BY <2>1, <1>6, AtIs DEF IsHead, At
  <1> QED BY <1>4, <1>7, <1>8, <1>9 DEF Still

\* A put writes to entries that are free.
LEMMA WriteStill ==
    ASSUME StoreInv, [Next]_vars, WriteHeader \/ WriteData
    PROVE  Still
  <1>1. PICK P, n : P = Last(used) /\ n = nxt[Last(used)]
    OBVIOUS
  <1>2. /\ pc \in {"header", "data"} /\ pc' \in {"data", "commit"} /\ UNCHANGED <<pst, est>>
        /\ WriteHeader => pc = "header" /\ \E c : slot' = [slot EXCEPT ![P][n] = c]
        /\ WriteData => pc = "data" /\ \E g : slot' = [slot EXCEPT ![P] = [i \in Slots |->
              IF i \in n..(n + op.len - 1) THEN g[i] ELSE @[i]]]
    <2>1. CASE WriteHeader
      <3>1. slot' = [slot EXCEPT ![P][n] = Program(@, NextHeader)]
        BY <2>1, <1>1 DEF WriteHeader, EntryWrite
      <3> QED BY <2>1, <3>1 DEF WriteHeader, WriteData
    <2>2. CASE WriteData
      <3>1. PICK g : g = [i \in Slots |-> Program(slot[P][i], Data(op.v, Entries[op.v] - op.rem + i - n + 1))]
        OBVIOUS
      <3>2. \A i \in Slots : g[i] = Program(slot[P][i], Data(op.v, Entries[op.v] - op.rem + i - n + 1))
        BY <3>1
      <3>3. slot' = [slot EXCEPT ![P] = [i \in Slots |->
              IF i \in n..(n + op.len - 1)
              THEN Program(slot[P][i], Data(op.v, Entries[op.v] - op.rem + i - n + 1)) ELSE slot[P][i]]]
        BY <2>2, <1>1 DEF WriteData
      <3>4. slot' = [slot EXCEPT ![P] = [i \in Slots |->
              IF i \in n..(n + op.len - 1) THEN g[i] ELSE slot[P][i]]]
        BY <3>2, <3>3
      <3> QED BY <2>2, <3>4 DEF WriteHeader, WriteData
    <2> QED BY <2>1, <2>2
  <1>3. /\ P \in Pages /\ ~Moving /\ N \in Nat /\ Slots = 1..N /\ n \in Nat
        /\ Slots' = Slots /\ inst' = inst /\ Eff = est
        /\ slot \in [Pages -> [Slots -> Cell]]
        /\ \A i \in Slots : est[P][i] = "free" <=> i >= Low(P)
    BY <1>1, <1>2, PutFacts
  <1>4. \A i \in Slots : i >= n => est[P][i] = "free"
    <2>1. Low(P) \in {n, n - 1}
      BY <1>1 DEF Low
    <2> QED BY <2>1, <1>3
  <1>5. \A p \in Pages : \A i \in Slots : est[p][i] # "free" => slot'[p][i] = slot[p][i]
    <2>1. CASE WriteHeader
      BY <2>1, <1>2, <1>3, <1>4
    <2>2. CASE WriteData
      <3>1. PICK g : slot' = [slot EXCEPT ![P] = [i \in Slots |->
              IF i \in n..(n + op.len - 1) THEN g[i] ELSE @[i]]]
        BY <2>2, <1>2
      <3>2. op.len \in Nat
        BY <2>2, <1>2, PutFacts DEF StoreInv, PagesInv, PutInv
      <3>3. \A i \in n..(n + op.len - 1) : i >= n
        BY <1>3, <3>2
      <3> QED BY <3>1, <3>3, <1>3, <1>4
    <2> QED BY <2>1, <2>2
  <1>6. ~Moving' /\ Copied = {} /\ Copied' = {} /\ Source' = Source
    <2>1. ~Moving'
      BY <1>2 DEF Moving
    <2> QED BY <2>1, <1>2, <1>3, SearchedSame
  <1>7. PICK S : S = Source
    OBVIOUS
  <1>8. S \in SUBSET Pages
    BY <1>7, HeadFacts
  <1>9. ASSUME NEW p \in S, NEW i \in Slots PROVE IsHead(<<p, i>>)' <=> IsHead(<<p, i>>)
    <2>1. est'[p][i] = est[p][i] /\ (est[p][i] # "free" => slot'[p][i] = slot[p][i])
      BY <1>2, <1>5, <1>8
    <2> QED BY <2>1, <1>6, AtIs DEF IsHead, At
  <1> QED BY <1>3, <1>5, <1>6, <1>7, <1>8, <1>9 DEF Still

\* The steps that may move or remove an element.
Touching == MarkState \/ EraseVictim \/ CleanSector \/ PowerCut

\* All others leave the elements as they are.
LEMMA StillStep ==
    ASSUME StoreInv, CandidateInv, [Next]_vars, ~Touching
    PROVE  Still
  <1>1. \/ \E k \in Keys, v \in Vals : PutStart(k, v)
        \/ \E k \in Keys : DelStart(k)
        \/ CleanStart \/ Reboot \/ HasRoom \/ MarkFull \/ Request \/ ErasePage \/ PageReady
        \/ MarkCandidate \/ Boot \/ UNCHANGED vars
        \/ WritePage \/ CopyEntry \/ CopyState \/ WriteHeader \/ WriteData
    BY DEF Touching, Next, Step
  <1>2. CASE WritePage
    BY <1>2, WritePageStill
  <1>3. CASE CopyEntry \/ CopyState
    BY <1>3, CopyStill
  <1>4. CASE WriteHeader \/ WriteData
    BY <1>4, WriteStill
  <1> QED BY <1>1, <1>2, <1>3, <1>4, QuietStill, Zenon

-----------------------------------------------------------------------------
(* A page is emptied in order                                              *)

\* The map of a page move grows by the entry that was copied.
LEMMA CopyMapGrows ==
    ASSUME NEW S \in SUBSET (Nat \ {0}), NEW n \in Nat \ {0}, NEW f \in Nat \ {0}, NEW m \in S,
           NEW g \in [1..(n - 1) -> S], NEW new, NEW old, NEW st, NEW new2,
           CopyMap(g, new, old, st, n, f),
           \A j \in 1..(n - 1) : new2[j] = new[j] /\ Span(new[j]) \in Nat,
           new2[n] = old[m], st[m] = "used", f <= m,
           \A i \in 1..m : i >= f /\ st[i] = "used" => i = m,
           \A j \in 1..(n - 1) : n <= j + Span(new[j]) => m = f
    PROVE  \E h \in [1..n -> S] : CopyMap(h, new2, old, st, n + 1, m + 1)
  <1>1. PICK h : h = [j \in 1..n |-> IF j < n THEN g[j] ELSE m]
    OBVIOUS
  <1>3. \A i \in S : i \in Nat /\ i > 0
    <2> TAKE i \in S
    <2>1. i \in Nat \ {0}
      OBVIOUS
    <2> QED BY <2>1
  <1>4. /\ n \in Nat /\ n >= 1 /\ n \in 1..n /\ f \in Nat /\ m \in Nat /\ m > 0
        /\ \A j \in 1..n : j = n \/ (j \in 1..(n - 1) /\ j < n)
        /\ \A j \in 1..(n - 1) : j \in 1..n /\ j < n
    BY <1>3
  <1>2. /\ h \in [1..n -> S] /\ h[n] = m
        /\ \A j \in 1..(n - 1) : h[j] = g[j] /\ g[j] \in S /\ g[j] \in Nat
    <2>1. \A j \in 1..n : (IF j < n THEN g[j] ELSE m) \in S
      BY <1>4
    <2>2. h \in [1..n -> S] /\ h[n] = m /\ \A j \in 1..(n - 1) : h[j] = g[j]
      BY <2>1, <1>1, <1>4
    <2> QED BY <2>2, <1>3
  <1>5. \A j \in 1..(n - 1) : g[j] < f
    <2> TAKE j \in 1..(n - 1)
    <2>1. n # 1 /\ n - 1 \in 1..(n - 1)
      OBVIOUS
    <2>2. f = g[n - 1] + 1
      BY <2>1 DEF CopyMap
    <2>3. j < n - 1 \/ j = n - 1
      OBVIOUS
    <2>4. g[j] < g[n - 1] \/ g[j] = g[n - 1]
      BY <2>1, <2>3 DEF CopyMap
    <2> QED BY <2>1, <2>2, <2>4, <1>2
  <1>6. \A j \in 1..n : \A l \in 1..n : j < l => h[j] < h[l]
    <2> SUFFICES ASSUME NEW j \in 1..n, NEW l \in 1..n, j < l PROVE h[j] < h[l]
      OBVIOUS
    <2>1. j \in 1..(n - 1) /\ h[j] = g[j]
      BY <1>2
    <2>2. CASE l = n
      BY <2>1, <2>2, <1>2, <1>3, <1>5
    <2>3. CASE l # n
      <3>1. l \in 1..(n - 1) /\ h[l] = g[l]
        BY <2>3, <1>2
      <3> QED BY <2>1, <3>1 DEF CopyMap
    <2> QED BY <2>2, <2>3
  <1>7. \A j \in 1..n : st[h[j]] = "used" /\ new2[j] = old[h[j]]
    <2> TAKE j \in 1..n
    <2>1. CASE j = n
      BY <2>1, <1>2
    <2>2. CASE j \in 1..(n - 1)
      <3>1. st[g[j]] = "used" /\ new[j] = old[g[j]]
        BY <2>2 DEF CopyMap
      <3> QED BY <3>1, <2>2, <1>2
    <2> QED BY <2>1, <2>2, <1>4
  <1>8. \A i \in 1..m : st[i] = "used" => \E j \in 1..n : h[j] = i
    <2> SUFFICES ASSUME NEW i \in 1..m, st[i] = "used" PROVE \E j \in 1..n : h[j] = i
      OBVIOUS
    <2>1. CASE i < f
      <3>1. i \in 1..(f - 1)
        BY <2>1
      <3>2. PICK j \in 1..(n - 1) : g[j] = i
        BY <3>1 DEF CopyMap
      <3> QED BY <3>2, <1>2
    <2>2. CASE ~(i < f)
      <3>1. i = m
        BY <2>2
      <3> QED BY <3>1, <1>2
    <2> QED BY <2>1, <2>2
  <1>9. \A j \in 1..n : \A o \in 1..Span(new2[j]) : j + o < n + 1 => h[j + o] = h[j] + o
    <2> SUFFICES ASSUME NEW j \in 1..n, NEW o \in 1..Span(new2[j]), j + o < n + 1
                 PROVE  h[j + o] = h[j] + o
      OBVIOUS
    <2>1. j \in 1..(n - 1)
      OBVIOUS
    <2>2. new2[j] = new[j] /\ Span(new[j]) \in Nat /\ o \in 1..Span(new[j]) /\ h[j] = g[j]
      BY <2>1, <1>2
    <2>3. CASE j + o < n
      <3>1. g[j + o] = g[j] + o /\ j + o \in 1..(n - 1)
        BY <2>1, <2>2, <2>3 DEF CopyMap
      <3> QED BY <3>1, <2>2, <1>2
    <2>4. CASE j + o = n
      <3>1. m = f
        BY <2>1, <2>2, <2>4
      <3>2. f = g[n - 1] + 1
        BY <2>1 DEF CopyMap
      <3>3. g[n - 1] + 1 = g[j] + o
        <4>1. CASE o = 1
          BY <4>1, <2>4
        <4>2. CASE o # 1
          <5>1. o - 1 \in 1..Span(new[j]) /\ j + (o - 1) = n - 1 /\ n - 1 < n
            BY <4>2, <2>2, <2>4
          <5>2. g[j + (o - 1)] = g[j] + (o - 1)
            BY <5>1, <2>1 DEF CopyMap
          <5>3. g[j] \in Nat /\ o \in Nat
            BY <2>1, <2>2, <1>2
          <5>4. g[n - 1] = g[j] + (o - 1)
            <6>1. PICK i : i = j + (o - 1)
              OBVIOUS
            <6>2. i = n - 1 /\ g[i] = g[j] + (o - 1)
              BY <6>1, <5>1, <5>2
            <6> QED BY <6>2
          <5> QED BY <5>3, <5>4
        <4> QED BY <4>1, <4>2
      <3>4. h[j + o] = m /\ h[j] = g[j]
        BY <2>2, <2>4, <1>2
      <3>5. h[j] + o = m
        BY <3>1, <3>2, <3>3, <3>4
      <3> QED BY <3>4, <3>5
    <2>5. j + o < n \/ j + o = n
      BY <2>2, <1>4
    <2> QED BY <2>3, <2>4, <2>5
  <1>10. (n + 1) - 1 = n /\ (m + 1) - 1 = m /\ n + 1 # 1
    BY <1>4
  <1>11. CopyMap(h, new2, old, st, n + 1, m + 1)
    BY <1>2, <1>6, <1>7, <1>8, <1>9, <1>10 DEF CopyMap
  <1> QED BY <1>2, <1>11

\* The steps of a page move.
LEMMA MoveSteps ==
    ASSUME StoreInv, [Next]_vars, Moving'
    PROVE  \/ WritePage \/ CopyEntry
           \/ /\ MarkCandidate \/ CopyState \/ UNCHANGED vars
              /\ Moving /\ req' = req /\ nxt' = nxt /\ slot' = slot
              /\ est'[req.vic] = est[req.vic]
  <1>1. pc' \in {"candidate", "copy", "copied"}
    BY DEF Moving
  <1>2. CASE UNCHANGED vars
    BY <1>1, <1>2 DEF vars, flash, ram, Moving
  <1>3. CASE MarkState
    <2>1. pc \in {"delete", "commit", "undo"} /\ pc' \in {pc, "room", "idle"}
      BY <1>3, MarkStateEff DEF StoreInv, EntryInv
    <2> QED BY <2>1, <1>1
  <1>4. CASE MarkCandidate
    <2>1. pc = "candidate" /\ UNCHANGED <<slot, est, nxt, req>>
      BY <1>4 DEF MarkCandidate, ram
    <2> QED BY <2>1, <1>4 DEF Moving
  <1>5. CASE CopyState
    <2>1. /\ pc = "copied" /\ UNCHANGED <<slot, nxt, req>>
          /\ est' = [est EXCEPT ![req.page][nxt[req.page] - 1] = "used"]
      BY <1>5 DEF CopyState, ram
    <2>2. Moving
      BY <2>1 DEF Moving
    <2>3. /\ req.vic \in Pages /\ req.page \in Pages /\ req.vic # req.page
          /\ est \in [Pages -> [Slots -> EntryStates]]
      BY <2>2, ListFacts DEF StoreInv, PagesInv, Types
    <2>4. est'[req.vic] = est[req.vic]
      BY <2>1, <2>3
    <2> QED BY <2>1, <2>2, <2>4, <1>5
  <1>6. CASE Step /\ ~(MarkState \/ MarkCandidate \/ CopyState)
    BY <1>1, <1>6, CallSteps, Zenon DEF Step, StoreInv, HasRoom, MarkFull, Request, NoSpace, Return,
       ErasePage, EraseVictim, PageReady, WriteHeader, WriteData, CleanSector, Boot
  <1>7. CASE ~Step /\ ~UNCHANGED vars
    BY <1>1, <1>7 DEF Next, PutStart, DelStart, CleanStart, Starts, Reboot, PowerCut, LoseRam
  <1> QED BY <1>2, <1>3, <1>4, <1>5, <1>6, <1>7

\* MapInv is kept: a page move starts with nothing copied, copies the next entry in use,
\* and is over when the page is erased.
LEMMA MapStep ==
    ASSUME StoreInv, BlankInv, MapInv, [Next]_vars
    PROVE  MapInv'
  <1> SUFFICES ASSUME Moving'
               PROVE  \E g \in [1..(nxt'[req'.page] - 1) -> Slots] :
                         CopyMap(g, slot'[req'.page], slot'[req'.vic], est'[req'.vic],
                                 nxt'[req'.page], req'.from)
    BY InstKept DEF MapInv, CopyMap, Span
  <1>1. CASE WritePage
    <2>1. /\ pc = "page" /\ req' = req /\ nxt' = [nxt EXCEPT ![req.page] = 1]
          /\ nxt \in [Pages -> 1..(N + 1)] /\ req.page \in Pages /\ req.from = 1
      BY <1>1, ListFacts DEF WritePage, StoreInv, EntryInv, FillInv, MoveInv
    <2>2. nxt'[req'.page] = 1 /\ req'.from = 1
      BY <2>1
    <2>3. PICK g : g = [j \in 1..(1 - 1) |-> 1]
      OBVIOUS
    <2>4. g \in [1..(1 - 1) -> Slots]
      BY <2>3
    <2>5. \A new, old, st : CopyMap(g, new, old, st, 1, 1)
      BY DEF CopyMap
    <2> QED BY <2>2, <2>4, <2>5
  <1>2. CASE /\ MarkCandidate \/ CopyState \/ UNCHANGED vars
             /\ Moving /\ req' = req /\ nxt' = nxt /\ slot' = slot
             /\ est'[req.vic] = est[req.vic]
    BY <1>2 DEF MapInv
  <1>3. CASE CopyEntry
    <2>1. PICK T, V, f, n : T = req.page /\ V = req.vic /\ f = req.from /\ n = nxt[req.page]
      OBVIOUS
    <2>2. PICK m : m = Min(ToCopy)
      OBVIOUS
    <2>3. PICK c : c = slot[V][m]
      OBVIOUS
    <2>4. /\ pc = "copy" /\ est' = est
          /\ slot' = [slot EXCEPT ![T][n] = Program(@, c)]
          /\ nxt' = [nxt EXCEPT ![T] = n + 1]
          /\ req' = [req EXCEPT !.from = m + 1]
      BY <1>3, <2>1, <2>2, <2>3 DEF CopyEntry, EntryWrite
    <2>5. /\ V \in Pages /\ T \in Pages /\ V # T /\ N \in Nat /\ Slots = 1..N
          /\ f \in 1..(N + 1) /\ n \in 1..(N + 1) /\ n <= f
          /\ \A p \in Pages : \A i \in Slots : Span(slot[p][i]) \in Nat
      BY <2>1, <2>4, CopyFacts
    <2>6. /\ slot \in [Pages -> [Slots -> Cell]] /\ nxt \in [Pages -> Nat]
          /\ req \in [page : 0..NumPages, vic : 0..NumPages, from : Nat]
      BY DEF StoreInv, PagesInv, Types
    <2>7. /\ m \in Slots /\ m >= f /\ est[V][m] = "used"
          /\ \A i \in Slots : i >= f /\ est[V][i] = "used" => m <= i
      <3>1. ToCopy # {} /\ ToCopy \in SUBSET Nat
        BY <1>3, <2>5 DEF CopyEntry, ToCopy
      <3>2. m \in ToCopy /\ \A i \in ToCopy : m <= i
        BY <3>1, <2>2, MinIs
      <3> QED BY <3>2, <2>1 DEF ToCopy
    <2>8. Moving /\ slot[T][n] = Blank /\ n \in Slots
      <3>1. Moving /\ n \in Slots
        BY <2>4, <2>5, <2>7 DEF Moving
      <3>2. \A i \in Slots : i >= n => slot[T][i] = Blank
        BY <3>1, <2>1 DEF BlankInv
      <3>3. n >= n
        BY <2>5
      <3> QED BY <3>1, <3>2, <3>3
    <2>9. req'.page = T /\ req'.vic = V /\ req'.from = m + 1 /\ nxt'[T] = n + 1
      BY <2>1, <2>4, <2>5, <2>6
    <2>10. /\ slot'[T][n] = c /\ slot'[V] = slot[V]
           /\ \A j \in 1..(n - 1) : slot'[T][j] = slot[T][j] /\ Span(slot[T][j]) \in Nat
      <3>1. Program(Blank, c) = c
        BY DEF Program
      <3>2. \A j \in 1..(n - 1) : j \in Slots /\ j # n
        BY <2>5
      <3> QED BY <3>1, <3>2, <2>4, <2>5, <2>6, <2>8
    <2>11. PICK g \in [1..(n - 1) -> Slots] : CopyMap(g, slot[T], slot[V], est[V], n, f)
      BY <2>1, <2>8 DEF MapInv
    <2>12. \A i \in 1..m : i >= f /\ est[V][i] = "used" => i = m
      BY <2>5, <2>7
    <2>13. \A j \in 1..(n - 1) : n <= j + Span(slot[T][j]) => m = f
      <3> SUFFICES ASSUME NEW j \in 1..(n - 1), n <= j + Span(slot[T][j]) PROVE m = f
        OBVIOUS
      <3>1. j \in Slots /\ j < n
        BY <2>5
      <3>2. f \in ToCopy
        BY <3>1, <2>1, <2>4, CopyBack
      <3>5. f \in Slots /\ est[V][f] = "used"
        BY <3>2, <2>1 DEF ToCopy
      <3>6. f \in Nat /\ m \in Nat
        BY <2>5, <2>7
      <3>3. f \in Slots /\ est[V][f] = "used" /\ f >= f /\ f \in Nat /\ m \in Nat
        BY <3>5, <3>6
      <3>4. m <= f
        BY <3>3, <2>7
      <3> QED BY <3>3, <3>4, <2>7
    <2>14. /\ Slots \in SUBSET (Nat \ {0}) /\ n \in Nat \ {0} /\ f \in Nat \ {0} /\ f <= m
           /\ slot'[T][n] = slot[V][m]
      BY <2>3, <2>5, <2>7, <2>10
    <2>15. PICK a, b, e, a2 : a = slot[T] /\ b = slot[V] /\ e = est[V] /\ a2 = slot'[T]
      OBVIOUS
    <2>16. \E h \in [1..n -> Slots] : CopyMap(h, a2, b, e, n + 1, m + 1)
      <3>1. PICK S : S = Slots
        OBVIOUS
      <3>2. S \in SUBSET (Nat \ {0}) /\ m \in S /\ g \in [1..(n - 1) -> S]
        BY <3>1, <2>7, <2>11, <2>14
      <3>3. \E h \in [1..n -> S] : CopyMap(h, a2, b, e, n + 1, m + 1)
        BY <3>2, <2>7, <2>10, <2>11, <2>12, <2>13, <2>14, <2>15, CopyMapGrows
      <3> QED BY <3>1, <3>3
    <2>17. (n + 1) - 1 = n
      BY <2>5
    <2> QED BY <2>4, <2>9, <2>10, <2>15, <2>16, <2>17
  <1> QED BY <1>1, <1>2, <1>3, MoveSteps

-----------------------------------------------------------------------------
(* Entries not yet written are erased                                      *)

\* The lists, the fill levels and the entries that a step leaves alone.
Resting ==
    /\ slot' = slot /\ nxt' = nxt /\ used' = used
    /\ Moving' = Moving /\ (Moving => req' = req)

\* Then the pages whose fill level is known stay the same.
LEMMA RestingKept == ASSUME Resting PROVE Kept' = Kept
  <1>1. CASE Moving
    BY <1>1 DEF Resting, Kept
  <1>2. CASE ~Moving
    BY <1>2 DEF Resting, Kept
  <1> QED BY <1>1, <1>2

\* The steps that write no entry and change no list.
LEMMA RestingSteps ==
    ASSUME StoreInv, [Next]_vars,
           \/ \E k \in Keys, v \in Vals : PutStart(k, v)
           \/ \E k \in Keys : DelStart(k)
           \/ MarkState \/ HasRoom \/ MarkFull \/ Request \/ ErasePage \/ PageReady
           \/ MarkCandidate \/ CopyState \/ UNCHANGED vars
    PROVE  /\ Resting /\ Running' = Running
           /\ ~PageReady => cut' = cut
           /\ PageReady => cut' = IF op.fn = "clean" THEN "none" ELSE cut
  <1>1. CASE \/ \E k \in Keys, v \in Vals : PutStart(k, v)
             \/ \E k \in Keys : DelStart(k)
             \/ HasRoom \/ MarkFull
    <2>1. /\ pc \in {"idle", "room"} /\ pc' \in {"room", "delete", "header", "request"}
          /\ UNCHANGED <<slot, nxt, used, cut>>
      BY <1>1 DEF PutStart, DelStart, Starts, HasRoom, MarkFull, flash, ram
    <2> QED BY <2>1 DEF Resting, Running, Moving, PageReady
  <1>2. CASE Request
    BY <1>2 DEF Request, NoSpace, Return, Resting, Running, Moving, flash, PageReady
  <1>3. CASE PageReady
    BY <1>3 DEF PageReady, NoSpace, Return, Resting, Running, Moving, flash
  <1>4. CASE MarkState
    <2>1. UNCHANGED <<slot, ram, cut>>
      BY <1>4 DEF MarkState
    <2>2. pc \in {"delete", "commit", "undo"} /\ pc' \in {pc, "room", "idle"}
      BY <1>4, MarkStateEff DEF StoreInv, EntryInv
    <2> QED BY <2>1, <2>2 DEF Resting, Running, Moving, ram, PageReady
  <1>5. CASE ErasePage
    <2>1. pc = "erase" /\ pc' = "page" /\ UNCHANGED <<ram, cut>> /\ Erased(req.page, "blank")
      BY <1>5 DEF ErasePage
    <2>2. req.page \in Pages \ Written
      BY <2>1, ListFacts DEF StoreInv, PagesInv, ListInv, Kept, Running, Moving
    <2>3. PICK p : p = req.page
      OBVIOUS
    <2>4. slot' = slot
      BY <2>1, <2>2, <2>3, ErasedIs
    <2> QED BY <2>1, <2>4 DEF Resting, Running, Moving, ram, PageReady
  <1>6. CASE MarkCandidate \/ CopyState
    BY <1>6 DEF MarkCandidate, CopyState, Resting, Running, Moving, ram, PageReady
  <1>7. CASE UNCHANGED vars
    <2>1. UNCHANGED <<slot, nxt, used, pc, req, cut>>
      BY <1>7 DEF vars, flash, ram
    <2>2. PageReady => op.fn = "clean" \/ cut' = cut
      BY <2>1 DEF PageReady
    <2>3. PageReady => cut' = IF op.fn = "clean" THEN "none" ELSE cut
      BY DEF PageReady
    <2> QED BY <2>1, <2>2, <2>3 DEF Resting, Running, Moving
  <1> QED BY <1>1, <1>2, <1>3, <1>4, <1>5, <1>6, <1>7, Zenon

\* The rest of a page that is being filled stays erased.
LEMMA BlankMoving ==
    ASSUME StoreInv, BlankInv, [Next]_vars, Moving', NEW i \in Slots, i >= nxt'[req'.page]
    PROVE  slot'[req'.page][i] = Blank
  <1>1. CASE WritePage
    <2>1. pc = "page" /\ UNCHANGED <<slot, req>>
      BY <1>1 DEF WritePage
    <2>2. req.page \in Pages \ Written
      BY <2>1, ListFacts DEF StoreInv, PagesInv, ListInv, Kept, Running, Moving
    <2> QED BY <2>1, <2>2 DEF StoreInv, EntryInv, FillInv
  <1>2. CASE CopyEntry
    <2>1. PICK T, n : T = req.page /\ n = nxt[req.page]
      OBVIOUS
    <2>2. /\ pc = "copy" /\ nxt' = [nxt EXCEPT ![T] = n + 1]
          /\ \E c : slot' = [slot EXCEPT ![T][n] = c]
          /\ \E m : req' = [req EXCEPT !.from = m]
      <3>1. slot' = [slot EXCEPT ![T][n] = Program(@, slot[req.vic][Min(ToCopy)])]
        BY <1>2, <2>1 DEF CopyEntry, EntryWrite
      <3> QED BY <1>2, <2>1, <3>1 DEF CopyEntry, EntryWrite
    <2>3. Moving /\ T \in Pages /\ n \in Nat /\ Slots = 1..N /\ N \in Nat
      BY <2>1, <2>2, CopyFacts DEF Moving
    <2>4. /\ slot \in [Pages -> [Slots -> Cell]] /\ nxt \in [Pages -> Nat]
          /\ req \in [page : 0..NumPages, vic : 0..NumPages, from : Nat]
      BY DEF StoreInv, PagesInv, Types
    <2>5. req'.page = T /\ nxt'[T] = n + 1
      BY <2>1, <2>2, <2>3, <2>4
    <2>6. i >= n /\ i # n
      BY <2>3, <2>5
    <2>7. slot[T][i] = Blank
      BY <2>1, <2>3, <2>6 DEF BlankInv
    <2> QED BY <2>2, <2>3, <2>4, <2>5, <2>6, <2>7
  <1>3. CASE Moving /\ req' = req /\ nxt' = nxt /\ slot' = slot
    BY <1>3 DEF BlankInv
  <1> QED BY <1>1, <1>2, <1>3, MoveSteps

\* The first page of an empty area is written when all pages are erased.
LEMMA BlankAgain ==
    ASSUME StoreInv, FreshInv, BlankInv, [Next]_vars, pc' = "again", op'.fn # "put"
    PROVE  \A p \in Pages : \A i \in Slots : slot'[p][i] = Blank
  <1>1. CASE WritePage
    <2>1. pc = "page" /\ UNCHANGED <<slot, op>>
      BY <1>1 DEF WritePage
    <2>2. used = <<>> /\ Written = ToSet(used)
      BY <2>1 DEF StoreInv, PagesInv, ReqInv, ListInv, Kept, Running, Moving
    <2>3. Written = {}
      BY <2>2 DEF ToSet
    <2> QED BY <2>1, <2>3 DEF StoreInv, EntryInv, FillInv
  <1>2. CASE UNCHANGED vars
    BY <1>2 DEF vars, flash, BlankInv
  <1>3. CASE EraseVictim
    <2>1. pc = "copy" /\ op' = op
      BY <1>3 DEF EraseVictim
    <2> QED BY <2>1 DEF FreshInv, Moving
  <1>4. CASE MarkState
    <2>1. pc \in {"delete", "commit", "undo"} /\ pc' \in {pc, "room", "idle"}
      BY <1>4, MarkStateEff DEF StoreInv, EntryInv
    <2> QED BY <2>1
  <1>5. CASE Step /\ ~(MarkState \/ WritePage \/ EraseVictim)
    BY <1>5, CallSteps, Zenon DEF Step, StoreInv, HasRoom, MarkFull, Request, NoSpace, Return,
       ErasePage, PageReady, MarkCandidate, CopyEntry, CopyState, WriteHeader, WriteData,
       CleanSector, Boot
  <1>6. CASE ~Step /\ ~UNCHANGED vars
    BY <1>6 DEF Next, PutStart, DelStart, CleanStart, Starts, Reboot, PowerCut, LoseRam
  <1> QED BY <1>1, <1>2, <1>3, <1>4, <1>5, <1>6

\* A header or data go to entries at the fill level, which moves beyond them.
LEMMA BlankWrite ==
    ASSUME StoreInv, BlankInv, [Next]_vars, WriteHeader \/ WriteData, cut' = "none",
           NEW p \in Kept', NEW i \in Slots, i >= nxt'[p]
    PROVE  slot'[p][i] = Blank
  <1>1. PICK P, n : P = Last(used) /\ n = nxt[Last(used)]
    OBVIOUS
  <1>2. /\ pc \in {"header", "data"} /\ pc' \in {"data", "commit"}
        /\ UNCHANGED <<used, cut>>
    BY CallSteps DEF StoreInv, WriteHeader, WriteData
  <1>3. /\ P \in Pages /\ P \in Kept /\ Running /\ ~Moving /\ n \in Nat
        /\ slot \in [Pages -> [Slots -> Cell]] /\ nxt \in [Pages -> 1..(N + 1)]
        /\ Slots = 1..N /\ N \in Nat
        /\ Kept \in SUBSET Pages
    <2>1. Kept \in SUBSET Pages
      BY EntryFacts DEF StoreInv, EntryInv
    <2> QED BY <2>1, <1>1, <1>2, PutFacts
  <1>4. Kept' = Kept
    BY <1>2, <1>3 DEF Kept, Moving
  <1>5. ASSUME NEW q \in Kept, NEW j \in Slots, j >= nxt[q] PROVE slot[q][j] = Blank
    BY <1>2, <1>3, <1>5 DEF BlankInv
  <1>6. CASE WriteHeader
    <2>1. slot' = [slot EXCEPT ![P][n] = Program(@, NextHeader)] /\ nxt' = [nxt EXCEPT ![P] = n + 1]
      BY <1>6, <1>1 DEF WriteHeader, EntryWrite
    <2>2. CASE p = P
      <3>1. nxt'[p] = n + 1 /\ slot'[p] = [slot[P] EXCEPT ![n] = Program(@, NextHeader)]
        BY <2>1, <2>2, <1>3
      <3>2. i >= n + 1 /\ i # n
        BY <3>1, <1>3
      <3>3. slot[P][i] = Blank
        <4>1. i >= n
          BY <3>2, <1>3
        <4> QED BY <4>1, <1>1, <1>3, <1>5
      <3> QED BY <3>1, <3>2, <3>3, <2>2, <1>3
    <2>3. CASE p # P
      <3>1. p \in Kept /\ nxt'[p] = nxt[p] /\ slot'[p] = slot[p]
        BY <2>1, <2>3, <1>3, <1>4
      <3> QED BY <3>1, <1>5
    <2> QED BY <2>2, <2>3
  <1>7. CASE WriteData
    <2>1. PICK L : L = op.len
      OBVIOUS
    <2>2. L \in Nat
      BY <1>7, <2>1 DEF WriteData, StoreInv, PagesInv, PutInv
    <2>3. PICK g : g = [j \in Slots |-> Program(slot[P][j], Data(op.v, Entries[op.v] - op.rem + j - n + 1))]
      OBVIOUS
    <2>4. /\ slot' = [slot EXCEPT ![P] = [j \in Slots |->
                IF j \in n..(n + L - 1) THEN g[j] ELSE slot[P][j]]]
          /\ nxt' = [nxt EXCEPT ![P] = n + L]
      <3>1. \A j \in Slots : g[j] = Program(slot[P][j], Data(op.v, Entries[op.v] - op.rem + j - n + 1))
        BY <2>3
      <3>2. slot' = [slot EXCEPT ![P] = [j \in Slots |->
              IF j \in n..(n + op.len - 1)
              THEN Program(slot[P][j], Data(op.v, Entries[op.v] - op.rem + j - n + 1)) ELSE slot[P][j]]]
        BY <1>7, <1>1 DEF WriteData
      <3>3. slot' = [slot EXCEPT ![P] = [j \in Slots |->
              IF j \in n..(n + op.len - 1) THEN g[j] ELSE slot[P][j]]]
        BY <3>1, <3>2
      <3>4. nxt' = [nxt EXCEPT ![P] = n + op.len]
        BY <1>7, <1>1 DEF WriteData
      <3> QED BY <3>3, <3>4, <2>1
    <2>5. CASE p = P
      <3>1. nxt'[p] = n + L
        BY <2>4, <2>5, <1>3
      <3>2. i >= n + L /\ i \notin n..(n + L - 1) /\ i >= n
        BY <3>1, <2>2, <1>3
      <3>3. slot[P][i] = Blank
        BY <3>2, <1>1, <1>3, <1>5
      <3> QED BY <3>2, <3>3, <2>4, <2>5, <1>3
    <2>6. CASE p # P
      <3>1. p \in Kept /\ nxt'[p] = nxt[p] /\ slot'[p] = slot[p]
        BY <2>4, <2>6, <1>3, <1>4
      <3> QED BY <3>1, <1>5
    <2> QED BY <2>5, <2>6
  <1> QED BY <1>6, <1>7

\* Without a cut, the entries from the fill level on are erased.
LEMMA BlankRunning ==
    ASSUME StoreInv, BlankInv, [Next]_vars, Running', cut' = "none",
           NEW p \in Kept', NEW i \in Slots, i >= nxt'[p]
    PROVE  slot'[p][i] = Blank
  <1>0. /\ N \in Nat /\ Slots = 1..N /\ Kept \in SUBSET Pages
        /\ slot \in [Pages -> [Slots -> Cell]] /\ nxt \in [Pages -> 1..(N + 1)]
    BY EntryFacts DEF StoreInv, EntryInv, FillInv, PagesInv, Types
  <1>1. CASE \/ \E k \in Keys, v \in Vals : PutStart(k, v)
             \/ \E k \in Keys : DelStart(k)
             \/ MarkState \/ HasRoom \/ MarkFull \/ Request \/ ErasePage \/ PageReady
             \/ MarkCandidate \/ CopyState \/ UNCHANGED vars
    <2>1. /\ Resting /\ Running' = Running
          /\ ~PageReady => cut' = cut
          /\ PageReady => cut' = IF op.fn = "clean" THEN "none" ELSE cut
      BY <1>1, RestingSteps
    <2>2. Kept' = Kept /\ slot' = slot /\ nxt' = nxt
      BY <2>1, RestingKept DEF Resting
    <2>3. CASE cut = "none"
      BY <2>1, <2>2, <2>3 DEF BlankInv
    <2>4. CASE cut # "none"
      <3>1. PageReady /\ op.fn = "clean"
        BY <2>1, <2>4
      <3>2. pc = "again" /\ op.fn # "put"
        BY <3>1 DEF PageReady
      <3> QED BY <3>2, <2>2, <1>0 DEF BlankInv
    <2> QED BY <2>3, <2>4
  <1>2. CASE WritePage
    <2>1. PICK T, V : T = req.page /\ V = req.vic
      OBVIOUS
    <2>2. /\ pc = "page" /\ UNCHANGED <<slot, req, cut>> /\ nxt' = [nxt EXCEPT ![T] = 1]
          /\ V = 0 => used' = Append(used, T) /\ pc' = "again"
          /\ V # 0 => used' = Append(Extract(used, V), T) /\ pc' = "candidate"
      BY <1>2, <2>1 DEF WritePage
    <2>3. /\ T \in Pages \ Written /\ used \in Seq(Pages) /\ Written = Kept /\ Kept = ToSet(used)
          /\ Running
      BY <2>1, <2>2, ListFacts DEF StoreInv, PagesInv, ListInv, Kept, Running, Moving, Types
    <2>4. Kept' \subseteq Kept \cup {T}
      <3>1. CASE V = 0
        <4>1. ToSet(Append(used, T)) \subseteq ToSet(used) \cup {T}
          BY <2>3 DEF ToSet
        <4> QED BY <4>1, <3>1, <2>2, <2>3 DEF Kept, Moving
      <3>2. CASE V # 0
        <4>1. V \in ToSet(used) /\ \A a, b \in DOMAIN used : used[a] = used[b] => a = b
          <5>1. V \in ToSet(used)
            BY <2>1, <2>2, <3>2 DEF StoreInv, PagesInv, ReqInv
          <5>2. \A a, b \in DOMAIN used : a < b => seq[used[a]] < seq[used[b]]
            BY <2>2, <2>3 DEF StoreInv, PagesInv, ListInv
          <5>3. \A a \in DOMAIN used : used[a] \in Pages /\ a \in Nat
            BY <2>3
          <5>4. \A q \in Pages : seq[q] \in Nat
            BY DEF StoreInv, PagesInv, Types
          <5>5. ASSUME NEW a \in DOMAIN used, NEW b \in DOMAIN used, used[a] = used[b] PROVE a = b
            <6>1. ~(a < b) /\ ~(b < a)
              BY <5>2, <5>3, <5>4, <5>5
            <6>2. a \in Nat /\ b \in Nat
              BY <5>3
            <6> QED BY <6>1, <6>2
          <5> QED BY <5>1, <5>5
        <4>2. PICK e : e = Extract(used, V)
          OBVIOUS
        <4>3. e \in Seq(Pages) /\ ToSet(e) = ToSet(used) \ {V}
          BY <4>1, <4>2, <2>3, ExtractIs
        <4>4. ToSet(Append(e, T)) \subseteq ToSet(e) \cup {T}
          BY <4>3, <2>3 DEF ToSet
        <4>5. Kept' = ToSet(Append(e, T)) \cup {V}
          BY <4>2, <2>1, <2>2, <3>2 DEF Kept, Moving
        <4> QED BY <4>1, <4>3, <4>4, <4>5, <2>3
      <3> QED BY <3>1, <3>2
    <2>5. CASE p = T
      BY <2>2, <2>3, <2>5 DEF StoreInv, EntryInv, FillInv
    <2>6. CASE p # T
      <3>1. p \in Kept /\ nxt'[p] = nxt[p]
        BY <2>2, <2>3, <2>4, <2>6, <1>0
      <3> QED BY <3>1, <2>2, <2>3 DEF BlankInv
    <2> QED BY <2>5, <2>6
  <1>3. CASE CopyEntry
    <2>1. PICK T, n : T = req.page /\ n = nxt[req.page]
      OBVIOUS
    <2>2. /\ pc = "copy" /\ pc' = "copied" /\ UNCHANGED <<used, cut>> /\ nxt' = [nxt EXCEPT ![T] = n + 1]
          /\ \E c : slot' = [slot EXCEPT ![T][n] = c]
          /\ \E m : req' = [req EXCEPT !.from = m]
      <3>1. slot' = [slot EXCEPT ![T][n] = Program(@, slot[req.vic][Min(ToCopy)])]
        BY <1>3, <2>1 DEF CopyEntry, EntryWrite
      <3> QED BY <1>3, <2>1, <3>1 DEF CopyEntry, EntryWrite
    <2>3. Moving /\ Moving' /\ Running /\ T \in Pages /\ n \in Nat
      BY <2>1, <2>2, <1>0, CopyFacts DEF Moving, Running
    <2>4. req \in [page : 0..NumPages, vic : 0..NumPages, from : Nat]
      BY DEF StoreInv, PagesInv, Types
    <2>5. req'.vic = req.vic /\ Kept' = Kept
      BY <2>2, <2>3, <2>4 DEF Kept
    <2>6. ASSUME NEW q \in Kept, NEW j \in Slots, j >= nxt[q] PROVE slot[q][j] = Blank
      BY <2>2, <2>3, <2>6 DEF BlankInv
    <2>7. CASE p = T
      <3>1. nxt'[p] = n + 1
        BY <2>2, <2>3, <2>7, <1>0
      <3>2. i >= n /\ i # n
        BY <3>1, <2>3, <1>0
      <3>3. slot[T][i] = Blank
        BY <3>2, <2>1, <2>5, <2>6, <2>7
      <3> QED BY <3>2, <3>3, <2>2, <2>7, <1>0
    <2>8. CASE p # T
      <3>1. p \in Kept /\ nxt'[p] = nxt[p] /\ slot'[p] = slot[p]
        BY <2>2, <2>5, <2>8, <1>0
      <3> QED BY <3>1, <2>6
    <2> QED BY <2>7, <2>8
  <1>4. CASE EraseVictim
    <2>1. PICK V : V = req.vic
      OBVIOUS
    <2>2. /\ pc = "copy" /\ pc' = "again" /\ UNCHANGED <<used, cut>> /\ Erased(V, "blank")
          /\ nxt' = [nxt EXCEPT ![V] = 1]
      BY <1>4, <2>1 DEF EraseVictim
    <2>3. V \in Pages \ ToSet(used) /\ Running
      BY <2>1, <2>2, ListFacts DEF StoreInv, Moving, Running
    <2>4. Kept' = ToSet(used) /\ ToSet(used) \subseteq Kept
      BY <2>2 DEF Kept, Moving
    <2>5. p \in Kept /\ p # V /\ p \in Pages
      BY <2>3, <2>4, <1>0
    <2>6. slot'[p] = slot[p] /\ nxt'[p] = nxt[p]
      BY <2>2, <2>3, <2>5, <1>0, ErasedSlots DEF StoreInv, PagesInv
    <2> QED BY <2>2, <2>3, <2>5, <2>6 DEF BlankInv
  <1>5. CASE WriteHeader \/ WriteData
    BY <1>5, BlankWrite
  <1>6. CASE Boot
    <2>1. /\ pc = "off" /\ used' = LoadUsed /\ slot' = slot /\ cut' = cut
          /\ nxt' = [q \in Pages |-> IF q \in ToSet(LoadUsed) THEN LoadNext(q) ELSE 1]
          /\ pc' \in {"idle", "page", "erase"}
      BY <1>6 DEF Boot
    <2>2. Kept' = ToSet(LoadUsed) /\ ~Running
      BY <2>1 DEF Kept, Moving, Running
    <2>3. ToSet(LoadUsed) = Written /\ Written \subseteq Pages
      BY LoadUsedIs DEF StoreInv, PagesInv, Types, ListInv, Written
    <2>4. p \in Pages /\ nxt'[p] = LoadNext(p)
      BY <2>1, <2>2, <2>3
    <2>5. FlashFill /\ FlashWhole
      BY <2>1, QuietFlash
    <2>6. \A j \in Slots : est[p][j] = "free" <=> j >= LoadNext(p)
      BY <2>4, <2>5, BootPage DEF StoreInv, PagesInv
    <2>7. est[p][i] = "free"
      BY <2>4, <2>6
    <2> QED BY <2>1, <2>2, <2>4, <2>7 DEF BlankInv
  <1>7. CASE CleanStart \/ CleanSector \/ Reboot \/ PowerCut
    BY <1>7 DEF CleanStart, CleanSector, Reboot, PowerCut, LoseRam, Starts, Running
  <1> QED BY <1>1, <1>2, <1>3, <1>4, <1>5, <1>6, <1>7, Zenon DEF Next, Step

\* Nor does a boot find anything in an entry whose state says it is free.
LEMMA BlankDown ==
    ASSUME StoreInv, BlankInv, [Next]_vars, ~Running', cut' = "none",
           NEW p \in Pages, NEW i \in Slots, est'[p][i] = "free"
    PROVE  slot'[p][i] = Blank
  <1>1. CASE CleanStart \/ Reboot
    <2>1. pc = "idle" /\ UNCHANGED <<slot, est, cut>>
      BY <1>1 DEF CleanStart, Reboot, Starts, flash
    <2>2. /\ Running /\ ~Moving /\ Eff = est /\ Written = Kept
          /\ \A q \in Pages : Low(q) = nxt[q]
      BY <2>1, EffIsEst DEF Running, Moving, StoreInv, EntryInv, PagesInv, ListInv, Low, HalfWritten
    <2>3. CASE p \in Written
      <3>1. i >= nxt[p]
        BY <2>1, <2>2, <2>3 DEF StoreInv, EntryInv, FillInv
      <3> QED BY <3>1, <2>1, <2>2, <2>3 DEF BlankInv
    <2>4. CASE p \notin Written
      BY <2>1, <2>4 DEF StoreInv, EntryInv, FillInv
    <2> QED BY <2>3, <2>4
  <1>2. CASE CleanSector
    <2>1. PICK q : q = req.page
      OBVIOUS
    <2>2. pc = "clean" /\ Erased(q, "blank") /\ cut' = cut
      BY <1>2, <2>1 DEF CleanSector
    <2>3. q \in Pages /\ ~Running
      BY <2>1, <2>2 DEF StoreInv, PagesInv, ReqInv, Running
    <2>4. CASE p = q
      BY <2>2, <2>3, <2>4, ErasedSlots DEF StoreInv, PagesInv
    <2>5. CASE p # q
      <3>1. slot'[p] = slot[p] /\ est'[p] = est[p]
        BY <2>2, <2>3, <2>5, ErasedSlots DEF StoreInv, PagesInv
      <3> QED BY <3>1, <2>2, <2>3 DEF BlankInv
    <2> QED BY <2>4, <2>5
  <1>3. CASE UNCHANGED vars
    <2>1. UNCHANGED <<slot, est, cut, pc>>
      BY <1>3 DEF vars, flash
    <2> QED BY <2>1 DEF BlankInv, Running
  <1>4. CASE PowerCut
    BY <1>4 DEF PowerCut
  <1>5. CASE MarkState
    <2>1. pc \in {"delete", "commit", "undo"} /\ pc' \in {pc, "room", "idle"}
      BY <1>5, MarkStateEff DEF StoreInv, EntryInv
    <2> QED BY <2>1 DEF Running
  <1>6. CASE Step /\ ~(MarkState \/ CleanSector)
    BY <1>6, CallSteps, Zenon DEF Step, StoreInv, HasRoom, MarkFull, Request, NoSpace, Return,
       ErasePage, WritePage, EraseVictim, PageReady, MarkCandidate, CopyEntry, CopyState, WriteHeader,
       WriteData, Boot, Running
  <1>7. CASE ~Step /\ ~UNCHANGED vars /\ ~(CleanStart \/ Reboot \/ PowerCut)
    BY <1>7 DEF Next, PutStart, DelStart, Running
  <1> QED BY <1>1, <1>2, <1>3, <1>4, <1>5, <1>6, <1>7

\* BlankInv is kept.
LEMMA BlankStep ==
    ASSUME StoreInv, FreshInv, BlankInv, [Next]_vars
    PROVE  BlankInv'
  <1>1. Slots' = Slots
    BY InstKept
  <1>2. Moving' => \A i \in Slots : i >= nxt'[req'.page] => slot'[req'.page][i] = Blank
    BY BlankMoving
  <1>3. pc' = "again" /\ op'.fn # "put" => \A p \in Pages : \A i \in Slots : slot'[p][i] = Blank
    BY BlankAgain
  <1>4. cut' = "none" /\ Running' =>
           \A p \in Kept' : \A i \in Slots : i >= nxt'[p] => slot'[p][i] = Blank
    BY BlankRunning
  <1>5. cut' = "none" /\ ~Running' =>
           \A p \in Pages : \A i \in Slots : est'[p][i] = "free" => slot'[p][i] = Blank
    BY BlankDown
  <1> QED BY <1>1, <1>2, <1>3, <1>4, <1>5 DEF BlankInv

-----------------------------------------------------------------------------
(* The elements, wherever they are                                         *)

\* The elements after a step are those before it, perhaps elsewhere.
Follows ==
    \E phi \in [Heads(Source)' -> Heads(Source)] :
        /\ \A x, y \in Heads(Source)' : x # y => phi[x] # phi[y]
        /\ \A y \in Heads(Source) : \E x \in Heads(Source)' : phi[x] = y
        /\ \A x \in Heads(Source)' : At(x)' = At(phi[x]) /\ Elem(x)' = Elem(phi[x])

\* Elements that stay where they are.
LEMMA StillFollows ==
    ASSUME StoreInv, Still
    PROVE  Follows
  <1>1. PICK H : H = Heads(Source)
    OBVIOUS
  <1>2. H = Heads(Source)' /\ \A x \in H : At(x)' = At(x) /\ Elem(x)' = Elem(x)
    BY <1>1, StillHeads
  <1>3. PICK phi : phi = [x \in H |-> x]
    OBVIOUS
  <1>4. phi \in [H -> H] /\ \A x \in H : phi[x] = x
    BY <1>3
  <1> QED BY <1>1, <1>2, <1>4 DEF Follows

\* An element of an emptied page is on the page it was copied to, with its data.
LEMMA EraseVictimFollows ==
    ASSUME StoreInv, MapInv, CandidateInv, [Next]_vars, EraseVictim
    PROVE  Follows
  <1>1. PICK T, V, f, n : T = req.page /\ V = req.vic /\ f = req.from /\ n = nxt[req.page]
    OBVIOUS
  <1>2. pc = "copy" /\ pc' = "again" /\ ToCopy = {} /\ Erased(V, "blank")
    BY <1>1 DEF EraseVictim
  <1>3. /\ V \in Pages /\ T \in Pages /\ V # T /\ N \in Nat /\ Slots = 1..N
        /\ f \in 1..(N + 1) /\ n \in 1..(N + 1)
        /\ \A i \in Slots : (i < n => est[T][i] = "used") /\ (i >= n => est[T][i] = "free")
        /\ \A p \in Pages : \A i \in Slots : Span(slot[p][i]) \in Nat
    BY <1>1, <1>2, CopyFacts
  <1>4. Moving /\ ~Moving' /\ Copied = {} /\ Copied' = {} /\ pst[V] = "candidate" /\ pst[T] = "active"
    BY <1>1, <1>2 DEF Moving, Copied, CandidateInv
  <1>5. /\ pst' = [pst EXCEPT ![V] = "blank"] /\ pst \in [Pages -> PageStates]
        /\ \A q \in Pages \ {V} : slot'[q] = slot[q] /\ est'[q] = est[q]
    BY <1>2, <1>3, ErasedSlots DEF Erased, StoreInv, PagesInv, Types
  <1>6. PICK S, W : S = Source /\ W = Source'
    OBVIOUS
  <1>7. W = (S \ {V}) \cup {T} /\ V \in S /\ T \notin S /\ S \in SUBSET Pages
    <2>1. Searched' = Searched /\ V \notin Searched /\ T \in Searched
      BY <1>3, <1>4, <1>5 DEF Searched
    <2> QED BY <2>1, <1>1, <1>3, <1>4, <1>6, HeadFacts DEF Source
  <1>8. PICK H, G : H = Heads(Source) /\ G = Heads(Source)'
    OBVIOUS
  <1>9. /\ H \in SUBSET (S \X Slots) /\ G \in SUBSET (W \X Slots)
        /\ \A p \in S : \A i \in Slots : <<p, i>> \in H <=> est[p][i] = "used" /\ slot[p][i].c = "head"
        /\ \A p \in W : \A i \in Slots : <<p, i>> \in G <=> est[p][i] = "used" /\ slot[p][i].c = "head"
    <2>1. Slots' = Slots
      BY InstKept
    <2>2. H = {x \in S \X Slots : est[x[1]][x[2]] = "used" /\ slot[x[1]][x[2]].c = "head"}
      BY <1>4, <1>6, <1>8 DEF Heads, At
    <2>3. G = {x \in W \X Slots : est'[x[1]][x[2]] = "used" /\ slot'[x[1]][x[2]].c = "head"}
      BY <1>4, <1>6, <1>8, <2>1 DEF Heads, At
    <2>4. \A p \in W : slot'[p] = slot[p] /\ est'[p] = est[p]
      BY <1>3, <1>5, <1>7
    <2> QED BY <2>2, <2>3, <2>4
  <1>10. /\ \A x : Elem(x) = [h |-> slot[x[1]][x[2]], b |-> [o \in 1..Span(slot[x[1]][x[2]]) |->
                                                            slot[x[1]][x[2] + o]]]
         /\ \A x \in G : Elem(x)' = Elem(x) /\ At(x)' = At(x)
    <2>1. \A x : Elem(x) = [h |-> slot[x[1]][x[2]], b |-> [o \in 1..Span(slot[x[1]][x[2]]) |->
                                                            slot[x[1]][x[2] + o]]]
      BY DEF Elem, At
    <2>2. ASSUME NEW x \in G PROVE Elem(x)' = Elem(x) /\ At(x)' = At(x)
      <3>1. x[1] \in Pages \ {V}
        BY <1>3, <1>7, <1>9
      <3>2. slot'[x[1]] = slot[x[1]]
        BY <3>1, <1>5
      <3>3. At(x)' = At(x)
        BY <3>2 DEF At
      <3>4. Elem(x)' = [h |-> slot'[x[1]][x[2]], b |-> [o \in 1..Span(slot'[x[1]][x[2]]) |->
                                                            slot'[x[1]][x[2] + o]]]
        BY DEF Elem, At, Span
      <3> QED BY <3>2, <3>3, <3>4, <2>1
    <2> QED BY <2>1, <2>2
  <1>11. PICK a, b, e : a = slot[T] /\ b = slot[V] /\ e = est[V]
    OBVIOUS
  <1>12. PICK g \in [1..(n - 1) -> Slots] : CopyMap(g, a, b, e, n, f)
    BY <1>1, <1>4, <1>11 DEF MapInv
  <1>13. \A j \in 1..(n - 1) : j \in Slots /\ j < n /\ g[j] \in Slots /\ g[j] \in Nat
    BY <1>3, <1>12
  <1>14. PICK phi : phi = [x \in G |-> IF x[1] = T THEN <<V, g[x[2]]>> ELSE x]
    OBVIOUS
  <1>15. ASSUME NEW i \in Slots, <<T, i>> \in G
         PROVE  /\ i \in 1..(n - 1) /\ <<V, g[i]>> \in H /\ phi[<<T, i>>] = <<V, g[i]>>
                /\ Elem(<<T, i>>) = Elem(<<V, g[i]>>) /\ At(<<T, i>>) = At(<<V, g[i]>>)
    <2>1. est[T][i] = "used" /\ a[i].c = "head"
      BY <1>15, <1>7, <1>9, <1>11
    <2>2. i \in 1..(n - 1)
      <3>1. i < n
        BY <2>1, <1>3
      <3> QED BY <3>1, <1>3
    <2>3. e[g[i]] = "used" /\ a[i] = b[g[i]]
      BY <2>2, <1>12 DEF CopyMap
    <2>4. <<V, g[i]>> \in H
      BY <2>1, <2>2, <2>3, <1>7, <1>9, <1>11, <1>13
    <2>5. phi[<<T, i>>] = <<V, g[i]>>
      BY <1>14, <1>15
    <2>6. ~(n <= i + Span(a[i]))
      <3> SUFFICES ASSUME n <= i + Span(a[i]) PROVE FALSE
        OBVIOUS
      <3>1. i < n
        BY <2>2, <1>13
      <3>2. i < nxt[req.page] /\ nxt[req.page] <= i + Span(slot[req.page][i])
        BY <3>1, <1>1, <1>11
      <3>3. req.from \in ToCopy
        BY <3>2, <1>2, CopyBack
      <3> QED BY <3>3, <1>2
    <2>7. ASSUME NEW o \in 1..Span(a[i]) PROVE a[i + o] = b[g[i] + o]
      <3>1. Span(a[i]) \in Nat /\ i \in Nat /\ o \in Nat
        BY <2>2, <1>3, <1>11
      <3>2. i + o < n /\ i + o \in 1..(n - 1)
        BY <3>1, <2>2, <2>6, <1>3
      <3>3. g[i + o] = g[i] + o
        BY <3>2, <2>2, <1>12 DEF CopyMap
      <3>4. a[i + o] = b[g[i + o]]
        BY <3>2, <1>12 DEF CopyMap
      <3> QED BY <3>3, <3>4
    <2>8. Elem(<<T, i>>) = [h |-> a[i], b |-> [o \in 1..Span(a[i]) |-> a[i + o]]]
      BY <1>10, <1>11
    <2>9. Elem(<<V, g[i]>>) = [h |-> b[g[i]], b |-> [o \in 1..Span(b[g[i]]) |-> b[g[i] + o]]]
      BY <1>10, <1>11
    <2>10. Elem(<<T, i>>) = Elem(<<V, g[i]>>)
      BY <2>3, <2>7, <2>8, <2>9
    <2>11. At(<<T, i>>) = At(<<V, g[i]>>)
      BY <2>3, <1>11, AtIs
    <2> QED BY <2>2, <2>4, <2>5, <2>10, <2>11
  <1>16. ASSUME NEW x \in G, x[1] # T
         PROVE  x \in H /\ phi[x] = x /\ x[1] # V
    BY <1>16, <1>7, <1>9, <1>14
  <1>17. \A x \in G : x[1] = T => \E i \in Slots : x = <<T, i>>
    BY <1>9
  <1>18. \A x \in G : phi[x] \in H /\ Elem(phi[x]) = Elem(x) /\ At(phi[x]) = At(x)
    BY <1>15, <1>16, <1>17
  <1>19. ASSUME NEW x \in G, NEW y \in G, phi[x] = phi[y] PROVE x = y
    <2>1. CASE x[1] = T /\ y[1] = T
      <3>1. PICK i \in Slots, j \in Slots : x = <<T, i>> /\ y = <<T, j>>
        BY <2>1, <1>17
      <3>2. i \in 1..(n - 1) /\ j \in 1..(n - 1) /\ <<V, g[i]>> = <<V, g[j]>>
        BY <3>1, <1>15, <1>19
      <3>3. g[i] = g[j]
        BY <3>2
      <3>4. ~(i < j) /\ ~(j < i)
        BY <3>2, <3>3, <1>12, <1>13 DEF CopyMap
      <3> QED BY <3>1, <3>4, <1>3
    <2>2. CASE x[1] # T /\ y[1] # T
      BY <2>2, <1>16, <1>19
    <2>3. \A z \in G : z[1] = T => phi[z][1] = V
      <3> SUFFICES ASSUME NEW z \in G, z[1] = T PROVE phi[z][1] = V
        OBVIOUS
      <3>1. PICK i \in Slots : z = <<T, i>>
        BY <1>17
      <3>2. phi[z] = <<V, g[i]>>
        BY <3>1, <1>15
      <3> QED BY <3>2
    <2>4. \A z \in G : z[1] # T => phi[z][1] # V
      BY <1>16
    <2> QED BY <2>1, <2>2, <2>3, <2>4, <1>19
  <1>20. ASSUME NEW y \in H PROVE \E x \in G : phi[x] = y
    <2>1. PICK p \in S, i \in Slots : y = <<p, i>>
      BY <1>9
    <2>2. est[p][i] = "used" /\ slot[p][i].c = "head"
      BY <2>1, <1>9
    <2>3. CASE p = V
      <3>1. i < f
        <4>1. i \notin ToCopy
          BY <1>2
        <4> QED BY <4>1, <2>2, <2>3, <1>1, <1>3 DEF ToCopy
      <3>2. i \in 1..(f - 1) /\ e[i] = "used"
        BY <3>1, <2>2, <2>3, <1>3, <1>11
      <3>3. PICK j \in 1..(n - 1) : g[j] = i
        BY <3>2, <1>12 DEF CopyMap
      <3>4. a[j] = b[i] /\ b[i].c = "head"
        <4>1. a[j] = b[g[j]]
          BY <1>12 DEF CopyMap
        <4> QED BY <4>1, <3>3, <2>2, <2>3, <1>11
      <3>5. j \in Slots /\ j < n /\ est[T][j] = "used"
        BY <1>3, <1>13
      <3>6. <<T, j>> \in G
        BY <3>4, <3>5, <1>7, <1>9, <1>11
      <3> QED BY <3>3, <3>5, <3>6, <2>1, <2>3, <1>15
    <2>4. CASE p # V
      <3>1. p \in W /\ p # T
        BY <2>4, <1>7
      <3>2. y \in G /\ y[1] # T
        BY <3>1, <2>1, <2>2, <1>9
      <3> QED BY <3>2, <1>16
    <2> QED BY <2>3, <2>4
  <1>21. phi \in [G -> H]
    BY <1>14, <1>18
  <1>22. \A x \in G : At(x)' = At(phi[x]) /\ Elem(x)' = Elem(phi[x])
    BY <1>10, <1>18
  <1> QED BY <1>8, <1>19, <1>20, <1>21, <1>22 DEF Follows

\* Then every key holds what it held, and fragments have different numbers as before.
LEMMA FollowsHeld ==
    ASSUME Follows
    PROVE  /\ \A k : Held(k)' = Held(k)
           /\ FragInv => FragInv'
           /\ \A x \in Heads(Source)' : \E y \in Heads(Source) : At(x)' = At(y)
  <1>1. PICK H, G : H = Heads(Source) /\ G = Heads(Source)'
    OBVIOUS
  <1>2. PICK phi \in [G -> H] :
           /\ \A x, y \in G : x # y => phi[x] # phi[y]
           /\ \A y \in H : \E x \in G : phi[x] = y
           /\ \A x \in G : At(x)' = At(phi[x]) /\ Elem(x)' = Elem(phi[x])
    BY <1>1 DEF Follows
  <1>3. ASSUME NEW k PROVE Held(k)' = Held(k)
    <2>1. Held(k) = {Elem(x) : x \in {y \in H : At(y).k = k}}
      BY <1>1 DEF Held, Owned
    <2>2. Held(k)' = {Elem(x)' : x \in {y \in G : At(y)'.k = k}}
      BY <1>1 DEF Held, Owned
    <2>3. ASSUME NEW e \in Held(k)' PROVE e \in Held(k)
      <3>1. PICK x \in G : At(x)'.k = k /\ e = Elem(x)'
        BY <2>2
      <3>2. phi[x] \in H /\ At(phi[x]).k = k /\ e = Elem(phi[x])
        BY <3>1, <1>2
      <3> QED BY <3>2, <2>1
    <2>4. ASSUME NEW e \in Held(k) PROVE e \in Held(k)'
      <3>1. PICK y \in H : At(y).k = k /\ e = Elem(y)
        BY <2>1
      <3>2. PICK x \in G : phi[x] = y
        BY <1>2
      <3>3. At(x)' = At(phi[x]) /\ Elem(x)' = Elem(phi[x])
        BY <1>2
      <3>4. At(x)'.k = k /\ e = Elem(x)'
        BY <3>1, <3>2, <3>3
      <3> QED BY <3>4, <2>2
    <2> QED BY <2>3, <2>4
  <1>4. FragInv => FragInv'
    <2> SUFFICES ASSUME FragInv, NEW x \in G, NEW y \in G, x # y, At(x)'.k = At(y)'.k,
                        At(x)'.t = "bulk", At(y)'.t = "bulk"
                 PROVE  At(x)'.f # At(y)'.f
      BY <1>1 DEF FragInv
    <2>1. At(x)' = At(phi[x]) /\ At(y)' = At(phi[y])
      BY <1>2
    <2>2. phi[x] # phi[y] /\ phi[x] \in H /\ phi[y] \in H
      BY <1>2
    <2>3. At(phi[x]).k = At(phi[y]).k /\ At(phi[x]).t = "bulk" /\ At(phi[y]).t = "bulk"
      BY <2>1
    <2>4. At(phi[x]).f # At(phi[y]).f
      BY <2>2, <2>3, <1>1 DEF FragInv
    <2> QED BY <2>1, <2>4
  <1>5. \A x \in G : \E y \in H : At(x)' = At(y)
    <2> TAKE x \in G
    <2>1. phi[x] \in H /\ At(x)' = At(phi[x])
      BY <1>2
    <2> QED BY <2>1
  <1> QED BY <1>1, <1>3, <1>4, <1>5

\* Marks, a sector erased by nvds_clean and a power cut are the steps that do otherwise.
LEMMA FollowStep ==
    ASSUME StoreInv, MapInv, CandidateInv, [Next]_vars, ~MarkState, ~CleanSector, ~PowerCut
    PROVE  Follows
  <1>1. CASE EraseVictim
    BY <1>1, EraseVictimFollows
  <1>2. CASE ~EraseVictim
    <2>1. ~Touching
      BY <1>2 DEF Touching
    <2> QED BY <2>1, StillStep, StillFollows
  <1> QED BY <1>1, <1>2

\* A step starts a call, ends one, or carries it on.
LEMMA OpSteps ==
    ASSUME StoreInv, [Next]_vars
    PROVE  \/ op' = NoOp
           \/ \E k \in Keys, v \in Vals : PutStart(k, v)
           \/ \E k \in Keys : DelStart(k)
           \/ CleanStart
           \/ /\ snap' = snap /\ op'.fn = op.fn
              /\ op.fn = "del" => op' = op
              /\ op.fn = "put" => op'.k = op.k /\ op'.v = op.v
  <1>1. op \in Operation
    BY DEF StoreInv, PagesInv, Types
  <1>2. CASE UNCHANGED vars
    BY <1>2 DEF vars
  <1>3. CASE MarkState
    <2>1. CASE Len(marks.at) > 1
      BY <1>3, <2>1 DEF MarkState
    <2>2. CASE ~(Len(marks.at) > 1)
      <3>1. \/ op' = op /\ snap' = snap
            \/ /\ pc = "commit" /\ op' = [op EXCEPT !.rem = @ - op.len, !.frag = @ + 1]
               /\ snap' = snap
            \/ op' = NoOp
        BY <1>3, <2>2 DEF MarkState, Return
      <3>2. pc = "commit" => op \in [fn : {"put"}, k : Keys, v : Vals, frag : Nat, len : Nat, rem : Nat]
        BY <1>1 DEF StoreInv, PagesInv, CallInv, Operation, NoOp
      <3>3. pc = "commit" /\ op' = [op EXCEPT !.rem = @ - op.len, !.frag = @ + 1]
            => op'.fn = op.fn /\ op.fn = "put" /\ op'.k = op.k /\ op'.v = op.v
        BY <3>2
      <3>4. CASE pc = "commit" /\ op' = [op EXCEPT !.rem = @ - op.len, !.frag = @ + 1] /\ snap' = snap
        BY <3>3, <3>4
      <3> QED BY <3>1, <3>4
    <2> QED BY <2>1, <2>2
  <1>4. CASE WriteHeader
    <2>1. pc = "header" /\ op' = [op EXCEPT !.len = Span(NextHeader)] /\ snap' = snap
      BY <1>4 DEF WriteHeader
    <2>2. op \in [fn : {"put"}, k : Keys, v : Vals, frag : Nat, len : Nat, rem : Nat]
      BY <2>1, <1>1 DEF StoreInv, PagesInv, CallInv, Operation, NoOp
    <2> QED BY <2>1, <2>2
  <1>5. CASE Request \/ PageReady
    BY <1>5 DEF Request, PageReady, NoSpace, Return
  <1>6. CASE \/ HasRoom \/ MarkFull \/ ErasePage \/ WritePage \/ MarkCandidate \/ CopyEntry
             \/ CopyState \/ EraseVictim \/ WriteData \/ CleanSector \/ Boot
    BY <1>6 DEF HasRoom, MarkFull, ErasePage, WritePage, MarkCandidate, CopyEntry, CopyState,
                EraseVictim, WriteData, CleanSector, Boot
  <1>7. CASE Reboot \/ PowerCut
    BY <1>7 DEF Reboot, PowerCut, LoseRam
  <1> QED BY <1>2, <1>3, <1>4, <1>5, <1>6, <1>7, Zenon DEF Next, Step

-----------------------------------------------------------------------------
(* The marks of a call                                                     *)

\* A state written changes no entry: the keys hold those of the elements that are left,
\* or one more.
LEMMA MarkKeeps ==
    ASSUME StoreInv, [Next]_vars, MarkState
    PROVE  /\ \A x : At(x)' = At(x) /\ Elem(x)' = Elem(x)
           /\ \A k : Owned(k)' = {x \in Heads(Source)' : At(x).k = k}
           /\ \A k : Held(k)' = {Elem(x) : x \in Owned(k)'}
  <1>1. slot' = slot
    BY MarkHeads
  <1>2. \A x : At(x)' = At(x)
    BY MarkHeads
  <1>3. \A x : Elem(x)' = Elem(x)
    <2> TAKE x
    <2>1. Elem(x) = [h |-> slot[x[1]][x[2]], b |-> [o \in 1..Span(slot[x[1]][x[2]]) |->
                                                         slot[x[1]][x[2] + o]]]
      BY DEF Elem, At
    <2>2. Elem(x)' = [h |-> slot'[x[1]][x[2]], b |-> [o \in 1..Span(slot'[x[1]][x[2]]) |->
                                                          slot'[x[1]][x[2] + o]]]
      BY DEF Elem, At, Span
    <2> QED BY <2>1, <2>2, <1>1
  <1>4. PICK G : G = Heads(Source)'
    OBVIOUS
  <1>5. ASSUME NEW k PROVE Owned(k)' = {x \in G : At(x).k = k}
    <2>1. Owned(k)' = {x \in G : At(x)'.k = k}
      BY <1>4 DEF Owned
    <2> QED BY <2>1, <1>2
  <1>6. ASSUME NEW k PROVE Held(k)' = {Elem(x) : x \in Owned(k)'}
    <2>1. PICK O : O = Owned(k)'
      OBVIOUS
    <2>2. Held(k)' = {Elem(x)' : x \in O}
      BY <2>1 DEF Held
    <2> QED BY <2>1, <2>2, <1>3
  <1> QED BY <1>2, <1>3, <1>4, <1>5, <1>6

\* Deleting takes nothing from the other keys, and in the end leaves its key nothing.
LEMMA DeleteHeld ==
    ASSUME StoreInv, DeleteInv, [Next]_vars, MarkState, pc \in {"delete", "undo"}
    PROVE  /\ Heads(Source)' \subseteq Heads(Source)
           /\ \A k : k # op.k => Held(k)' = Held(k)
           /\ \A k : k = op.k /\ pc' # pc => Owned(k)' = {} /\ Held(k)' = {}
  <1>1. PICK x, M : x = Head(marks.at) /\ M = ToSet(marks.at)
    OBVIOUS
  <1>2. PICK H, G, K : H = Heads(Source) /\ G = Heads(Source)' /\ K = op.k
    OBVIOUS
  <1>3. G = H \ {x} /\ x \in M /\ (Len(marks.at) > 1 \/ M = {x})
    BY <1>1, <1>2, MarkHeads
  <1>4. /\ \A y \in H : At(y).k = K => y \in M
        /\ \A y \in M : At(y).c = "head" => At(y).k = K
    BY <1>1, <1>2 DEF DeleteInv
  <1>5. \A y \in H : At(y).c = "head"
    BY <1>2 DEF Heads
  <1>6. /\ \A k : Owned(k) = {y \in H : At(y).k = k} /\ Owned(k)' = {y \in G : At(y).k = k}
        /\ \A k : Held(k) = {Elem(y) : y \in Owned(k)} /\ Held(k)' = {Elem(y) : y \in Owned(k)'}
    BY <1>2, MarkKeeps DEF Owned, Held
  <1>7. ASSUME NEW k, k # K PROVE Held(k)' = Held(k)
    <2>1. Owned(k)' = Owned(k)
      BY <1>3, <1>4, <1>5, <1>6, <1>7
    <2> QED BY <2>1, <1>6
  <1>8. pc' # pc => Owned(K)' = {} /\ Held(K)' = {}
    <2> HAVE pc' # pc
    <2>1. ~(Len(marks.at) > 1)
      BY DEF MarkState
    <2>2. M = {x}
      BY <2>1, <1>3
    <2>3. Owned(K)' = {}
      BY <2>2, <1>3, <1>4, <1>6
    <2> QED BY <2>3, <1>6
  <1> QED BY <1>2, <1>3, <1>7, <1>8

\* The page that is written is one of those searched.
LEMMA LastSearched ==
    ASSUME StoreInv, CandidateInv, Running, ~Moving, used # <<>>, pc # "clean"
    PROVE  Last(used) \in Source /\ Last(used) \in Pages
  <1>1. PICK q : q = Last(used)
    OBVIOUS
  <1>2. q \in ToSet(used) /\ q \in Pages /\ \A p \in ToSet(used) : seq[p] <= seq[q]
    BY <1>1, LastIsNewest
  <1>3. Written = ToSet(used) /\ pst \in [Pages -> PageStates] /\ \A p \in Pages : seq[p] \in Nat
    BY DEF StoreInv, PagesInv, ListInv, Kept, Types
  <1>4. pst[q] # "candidate"
    <2> SUFFICES ASSUME pst[q] = "candidate" PROVE FALSE
      OBVIOUS
    <2>1. PICK r \in Written : seq[q] < seq[r]
      BY <1>2 DEF CandidateInv
    <2>2. seq[r] <= seq[q] /\ seq[r] \in Nat /\ seq[q] \in Nat
      BY <1>2, <1>3, <2>1 DEF Written
    <2> QED BY <2>1, <2>2
  <1>5. pst[q] \in {"active", "full"}
    BY <1>2, <1>3, <1>4 DEF Written, PageStates
  <1> QED BY <1>1, <1>2, <1>5 DEF Source, Searched

\* The states of a new element add it to what its key holds, and nothing else.
LEMMA CommitHeld ==
    ASSUME StoreInv, CandidateInv, WriteInv, [Next]_vars, MarkState, pc = "commit"
    PROVE  /\ Heads(Source) \subseteq Heads(Source)'
           /\ Heads(Source)' \subseteq Heads(Source) \cup {NewHead}
           /\ \A z : z = NewHead /\ z \in Heads(Source)' =>
                 At(z).c = "head" /\ At(z).k = op.k /\ At(z).t = NewType
           /\ \A k : k # op.k => Held(k)' = Held(k)
           /\ \A k : k = op.k =>
                 /\ Held(k) \subseteq Held(k)'
                 /\ pc' # pc /\ At(NewHead).c = "head" =>
                       \E z : z = NewHead /\ z \in Heads(Source)' /\ z \in Owned(k)' /\ Elem(z) \in Held(k)'
  <1>1. PICK x, M : x = Head(marks.at) /\ M = ToSet(marks.at)
    OBVIOUS
  <1>2. PICK H, G, K : H = Heads(Source) /\ G = Heads(Source)' /\ K = op.k
    OBVIOUS
  <1>3. /\ x \in M /\ (Len(marks.at) > 1 \/ M = {x})
        /\ H \subseteq G /\ G \subseteq H \cup {x} /\ est'[x[1]][x[2]] = "used"
        /\ \A p \in Pages : \A i \in Slots : est[p][i] = "used" => est'[p][i] = "used"
        /\ Source' = Source /\ ~Moving /\ UNCHANGED <<slot, inst>>
        /\ \A y : At(y)' = At(y)
    BY <1>1, <1>2, MarkHeads
  <1>4. PICK z : z = NewHead
    OBVIOUS
  <1>5. /\ z[2] \in Slots
        /\ At(z).c = "head" => At(z).k = K /\ At(z).t = NewType
        /\ \A y \in M : y = z \/ At(y).c # "head"
        /\ z \in M \/ est[z[1]][z[2]] = "used"
    BY <1>1, <1>2, <1>4 DEF WriteInv
  <1>6. \A y \in G : At(y).c = "head"
    <2>1. \A y \in G : At(y)'.c = "head"
      BY <1>2 DEF Heads
    <2> QED BY <2>1, <1>3
  <1>7. G \subseteq H \cup {z}
    BY <1>3, <1>5, <1>6
  <1>8. /\ \A k : Owned(k) = {y \in H : At(y).k = k} /\ Owned(k)' = {y \in G : At(y).k = k}
        /\ \A k : Held(k) = {Elem(y) : y \in Owned(k)} /\ Held(k)' = {Elem(y) : y \in Owned(k)'}
    BY <1>2, MarkKeeps DEF Owned, Held
  <1>9. ASSUME NEW k, k # K PROVE Held(k)' = Held(k)
    <2>1. Owned(k)' = Owned(k)
      BY <1>3, <1>5, <1>6, <1>7, <1>8, <1>9
    <2> QED BY <2>1, <1>8
  <1>10. Held(K) \subseteq Held(K)'
    <2>1. Owned(K) \subseteq Owned(K)'
      BY <1>3, <1>8
    <2> QED BY <2>1, <1>8
  <1>11. ASSUME pc' # pc, At(z).c = "head"
         PROVE  z \in G /\ z \in Owned(K)' /\ Elem(z) \in Held(K)'
    <2>1. ~(Len(marks.at) > 1)
      BY <1>11 DEF MarkState
    <2>2. M = {x}
      BY <2>1, <1>3
    <2>3. PICK p, i : z = <<p, i>> /\ p = Last(used)
      BY <1>4 DEF NewHead
    <2>4. p \in Source /\ p \in Pages
      <3>1. Running /\ used # <<>>
        BY ListFacts DEF Running, StoreInv
      <3> QED BY <3>1, <2>3, <1>3, LastSearched
    <2>5. i \in Slots
      BY <2>3, <1>5
    <2>6. est'[p][i] = "used"
      <3>1. CASE z \in M
        BY <3>1, <2>2, <2>3, <1>3
      <3>2. CASE est[z[1]][z[2]] = "used"
        BY <3>2, <2>3, <2>4, <2>5, <1>3
      <3> QED BY <3>1, <3>2, <1>5
    <2>7. z \in G
      <3>1. G = {y \in Source \X Slots : /\ est'[y[1]][y[2]] = "used" \/ y \in Copied'
                                         /\ At(y)'.c = "head"}
        <4>1. Slots' = Slots
          BY InstKept
        <4> QED BY <4>1, <1>2, <1>3 DEF Heads
      <3>2. z \in Source \X Slots /\ z[1] = p /\ z[2] = i
        BY <2>3, <2>4, <2>5
      <3> QED BY <3>1, <3>2, <2>6, <1>3, <1>11
    <2>8. z \in Owned(K)'
      BY <2>7, <1>5, <1>8, <1>11
    <2> QED BY <2>7, <2>8, <1>8
  <1> QED BY <1>2, <1>3, <1>4, <1>5, <1>6, <1>7, <1>9, <1>10, <1>11

-----------------------------------------------------------------------------
(* What a put writes                                                       *)

\* The header written is that of the value.
LEMMA TextHeader ==
    ASSUME SmallOnly, StoreInv, BlankInv, [Next]_vars, WriteHeader
    PROVE  TextInv'
  <1>1. PICK P, n, h : P = Last(used) /\ n = nxt[Last(used)] /\ h = NextHeader
    OBVIOUS
  <1>2. /\ pc = "header" /\ slot' = [slot EXCEPT ![P][n] = Program(@, h)]
        /\ nxt' = [nxt EXCEPT ![P] = n + 1] /\ op' = [op EXCEPT !.len = Span(h)]
        /\ pc' = (IF Span(h) > 0 THEN "data" ELSE "commit") /\ UNCHANGED <<used, cut>>
    BY <1>1 DEF WriteHeader, EntryWrite
  <1>3. /\ P \in Pages /\ P \in Kept /\ Running /\ n \in Nat /\ n \in Slots
        /\ slot \in [Pages -> [Slots -> Cell]] /\ nxt \in [Pages -> 1..(N + 1)]
        /\ op \in [fn : {"put"}, k : Keys, v : Vals, frag : Nat, len : Nat, rem : Nat]
    BY <1>1, <1>2, PutFacts
  <1>4. PICK s : s = Span(h)
    OBVIOUS
  <1>5. /\ h \in Cell /\ h.c = "head" /\ s \in Nat
        /\ op.v \in SmallVals \cup BulkVals /\ ~Fragment => s = 0
        /\ op.v \notin SmallVals /\ (op.v \in MiddleVals \/ Fragment) => s \in 1..op.rem
    <2>1. h \in Cell /\ s \in Nat
      BY <1>1, <1>2, <1>4, NextHeaderIs, SpanIs DEF StoreInv
    <2> QED BY <2>1, <1>1, <1>2, <1>4, NextHeaderIs DEF StoreInv
  <1>6. /\ op'.fn = "put" /\ op'.k = op.k /\ op'.v = op.v /\ op'.frag = op.frag /\ op'.rem = op.rem
        /\ op'.len = s
    BY <1>2, <1>3, <1>4
  <1>7. Fragment' = Fragment /\ NewType' = NewType
    BY <1>6 DEF Fragment, NewType
  <1>8. NewHead' = <<P, n>>
    <2>1. NewHead' = <<P, nxt'[P] - 1 - (IF pc' = "data" THEN 0 ELSE op'.len)>> /\ nxt'[P] = n + 1
      BY <1>1, <1>2, <1>3 DEF NewHead
    <2>2. CASE s > 0
      <3>1. pc' = "data"
        BY <2>2, <1>2, <1>4
      <3>2. (n + 1) - 1 - 0 = n
        BY <1>3
      <3> QED BY <2>1, <3>1, <3>2
    <2>3. CASE ~(s > 0)
      <3>1. pc' = "commit" /\ s = 0
        BY <2>3, <1>2, <1>4, <1>5
      <3>2. (n + 1) - 1 - s = n
        BY <3>1, <1>3
      <3> QED BY <2>1, <3>1, <3>2, <1>6
    <2> QED BY <2>2, <2>3
  <1>9. At(NewHead)' = Program(slot[P][n], h)
    <2>1. At(NewHead)' = slot'[P][n]
      BY <1>8 DEF At
    <2> QED BY <2>1, <1>2, <1>3
  <1>10. Wanted' = h
    <2>1. Wanted' = Header(op.k, NewType, IF NewType = "bulkinfo" THEN op.frag ELSE s, op.v,
                           IF NewType = "bulk" THEN op.frag ELSE 0)
      BY <1>6, <1>7 DEF Wanted
    <2>2. \A k, t, m, v, f : Header(k, t, m, v, f).t = t /\ Header(k, t, m, v, f).n = m
                             /\ Header(k, t, m, v, f).c = "head"
      BY DEF Header
    <2>3. op.v \in SmallVals \/ op.v \in MiddleVals \/ op.v \in BulkVals
      BY <1>3 DEF Vals
    <2>4. CASE op.v \in SmallVals
      <3>1. h = Header(op.k, "small", 0, op.v, 0) /\ NewType = "small"
        BY <2>4, <1>1 DEF NextHeader, NewType
      <3>2. s = 0
        BY <2>4, <1>5, NvdsAssumption DEF Fragment
      <3> QED BY <3>1, <3>2, <2>1
    <2>5. CASE op.v \in MiddleVals
      <3>1. op.v \notin SmallVals
        BY <2>5, NvdsAssumption
      <3>2. h = Header(op.k, "middle", Entries[op.v], op.v, 0) /\ NewType = "middle"
        BY <2>5, <3>1, <1>1 DEF NextHeader, NewType
      <3>3. s = Entries[op.v]
        BY <3>2, <2>2, <1>4 DEF Span
      <3> QED BY <3>2, <3>3, <2>1
    <2>6. CASE op.v \in BulkVals
      <3>1. op.v \notin SmallVals /\ op.v \notin MiddleVals
        BY <2>6, NvdsAssumption
      <3>2. CASE Fragment
        <4>1. PICK m : m = Min({Room(Last(used)) - 1, op.rem})
          OBVIOUS
        <4>2. h = Header(op.k, "bulk", m, op.v, op.frag) /\ NewType = "bulk"
          BY <3>1, <3>2, <4>1, <1>1 DEF NextHeader, NewType
        <4>3. s = m
          BY <4>2, <2>2, <1>4 DEF Span
        <4> QED BY <4>2, <4>3, <2>1
      <3>3. CASE ~Fragment
        <4>1. h = Header(op.k, "bulkinfo", op.frag, op.v, 0) /\ NewType = "bulkinfo"
          BY <3>1, <3>3, <1>1 DEF NextHeader, NewType
        <4> QED BY <4>1, <2>1
      <3> QED BY <3>2, <3>3
    <2> QED BY <2>3, <2>4, <2>5, <2>6
  <1>11. At(NewHead)'.c = "head" \/ cut' = "none" => At(NewHead)' = Wanted'
    <2>1. CASE At(NewHead)'.c = "head"
      BY <2>1, <1>9, <1>10, ProgramHead
    <2>2. CASE cut' = "none"
      <3>1. slot[P][n] = Blank
        <4>1. n >= nxt[P] /\ cut = "none"
          BY <2>2, <1>1, <1>2, <1>3
        <4> QED BY <4>1, <1>3 DEF BlankInv
      <3> QED BY <3>1, <1>9, <1>10 DEF Program
    <2> QED BY <2>1, <2>2
  <1>12. op.v \in MiddleVals => s = Entries[op.v]
    <2> HAVE op.v \in MiddleVals
    <2>1. op.v \notin SmallVals
      BY NvdsAssumption
    <2>2. h = Header(op.k, "middle", Entries[op.v], op.v, 0)
      BY <2>1, <1>1 DEF NextHeader
    <2> QED BY <2>2, <1>4 DEF Span, Header
  <1>13. Fragment => s \in 1..op.rem
    BY <1>5, NvdsAssumption DEF Fragment
  <1>14. NewType \in {"small", "bulkinfo"} => s = 0
    <2> HAVE NewType \in {"small", "bulkinfo"}
    <2>1. op.v \in SmallVals \cup BulkVals /\ ~Fragment
      BY <1>3, NvdsAssumption DEF NewType, Fragment, Vals
    <2> QED BY <2>1, <1>5
  <1>15. pc' = "commit" => 1..s = {}
    BY <1>2, <1>4, <1>5
  <1> QED BY <1>6, <1>7, <1>11, <1>12, <1>13, <1>14, <1>15 DEF TextInv

\* The data written is that of the value, from where the last fragment ended.
LEMMA TextData ==
    ASSUME SmallOnly, StoreInv, TextInv, [Next]_vars, WriteData
    PROVE  TextInv'
  <1>1. PICK P, n, L, D : P = Last(used) /\ n = nxt[Last(used)] /\ L = op.len
                          /\ D = Entries[op.v] - op.rem
    OBVIOUS
  <1>2. PICK v : v = op.v
    OBVIOUS
  <1>3. /\ pc = "data" /\ pc' = "commit" /\ UNCHANGED <<op, used, cut>>
        /\ nxt' = [nxt EXCEPT ![P] = n + L]
        /\ slot' = [slot EXCEPT ![P] = [i \in Slots |->
               IF i \in n..(n + L - 1) THEN Program(slot[P][i], Data(v, D + i - n + 1)) ELSE slot[P][i]]]
    <2>1. pc = "data" /\ pc' = "commit" /\ UNCHANGED <<op, used, cut>>
      BY DEF WriteData
    <2>2. nxt' = [nxt EXCEPT ![P] = n + L]
      BY <1>1 DEF WriteData
    <2>3. slot' = [slot EXCEPT ![P] = [i \in Slots |->
               IF i \in n..(n + L - 1) THEN Program(@[i], Data(v, D + i - n + 1)) ELSE @[i]]]
      BY <1>1, <1>2, Zenon DEF WriteData
    <2> QED BY <2>1, <2>2, <2>3
  <1>4. /\ P \in Pages /\ P \in Kept /\ Running /\ n \in Nat /\ N \in Nat /\ Slots = 1..N
        /\ slot \in [Pages -> [Slots -> Cell]] /\ nxt \in [Pages -> 1..(N + 1)]
        /\ op \in [fn : {"put"}, k : Keys, v : Vals, frag : Nat, len : Nat, rem : Nat]
        /\ Steady => \A i \in Slots : i >= n => slot[P][i] = Blank
    BY <1>1, <1>3, PutFacts
  <1>5. L \in Nat /\ L <= Room(P) /\ v \notin SmallVals /\ n > 1 /\ v \in Vals
    <2>1. L \in Nat /\ v \in Vals
      BY <1>1, <1>2, <1>4
    <2> QED BY <2>1, <1>1, <1>2, <1>3 DEF StoreInv, PagesInv, PutInv, EntryInv, FillInv
  <1>6. n + L <= N + 1
    BY <1>1, <1>4, <1>5 DEF Room
  <1>7. D \in Int
    <2>1. v \in MiddleVals \cup BulkVals
      BY <1>5 DEF Vals
    <2>2. Entries[v] \in Nat
      BY <2>1, NvdsAssumption
    <2> QED BY <2>2, <1>1, <1>2, <1>4
  <1>8. Steady
    BY <1>2, <1>4, <1>5, SmallPuts DEF StoreInv
  <1>9. NewHead = <<P, n - 1>> /\ NewHead' = <<P, n - 1>>
    <2>1. nxt'[P] = n + L
      BY <1>3, <1>4
    <2>2. (n + L) - 1 - L = n - 1 /\ n - 1 - 0 = n - 1
      BY <1>4, <1>5
    <2>3. NewHead = <<P, n - 1 - 0>>
      BY <1>1, <1>3 DEF NewHead
    <2>4. NewHead' = <<P, nxt'[P] - 1 - L>>
      BY <1>1, <1>3 DEF NewHead
    <2> QED BY <2>1, <2>2, <2>3, <2>4
  <1>10. slot'[P][n - 1] = slot[P][n - 1]
    <2>1. n - 1 \in Slots /\ n - 1 \notin n..(n + L - 1)
      BY <1>4, <1>5, <1>6
    <2> QED BY <2>1, <1>3, <1>4
  <1>11. At(NewHead)' = At(NewHead)
    BY <1>9, <1>10 DEF At
  <1>12. Wanted' = Wanted /\ NewType' = NewType /\ Fragment' = Fragment /\ Done' = Done
    BY <1>3 DEF Wanted, NewType, Fragment, Done
  <1>13. ASSUME NEW o \in 1..L
         PROVE  slot'[NewHead'[1]][NewHead'[2] + o] = Data(v, D + o)
    <2>1. PICK i : i = (n - 1) + o
      OBVIOUS
    <2>2. o \in Nat /\ o >= 1 /\ o <= L
      BY <1>5
    <2>3. i \in Slots /\ i \in n..(n + L - 1) /\ i >= n
      BY <2>1, <2>2, <1>4, <1>5, <1>6
    <2>4. D + i - n + 1 = D + o
      BY <2>1, <2>2, <1>4, <1>7
    <2>5. slot[P][i] = Blank
      BY <2>3, <1>4, <1>8
    <2>6. slot'[P][i] = Program(slot[P][i], Data(v, D + i - n + 1))
      BY <2>3, <1>3, <1>4
    <2>7. slot'[P][i] = Data(v, D + o)
      BY <2>4, <2>5, <2>6 DEF Program
    <2>8. NewHead'[1] = P /\ NewHead'[2] + o = i
      BY <2>1, <1>9
    <2> QED BY <2>7, <2>8
  <1>14. Done = D
    BY <1>1 DEF Done
  <1> QED BY <1>1, <1>2, <1>3, <1>11, <1>12, <1>13, <1>14 DEF TextInv

\* TextInv is kept.
LEMMA TextStep ==
    ASSUME SmallOnly, StoreInv, BlankInv, TextInv, [Next]_vars
    PROVE  TextInv'
  <1> SUFFICES ASSUME pc' \in {"data", "commit"} PROVE TextInv'
    BY DEF TextInv
  <1>1. CASE UNCHANGED vars
    <2>1. UNCHANGED <<pc, op, slot, nxt, used, cut>>
      BY <1>1 DEF vars, flash, ram
    <2> QED BY <2>1 DEF TextInv, NewHead, NewType, Wanted, At, Fragment, Done
  <1>2. CASE MarkState
    <2>1. pc' = pc /\ op' = op /\ UNCHANGED <<slot, nxt, used, cut>>
      BY <1>2, MarkStateEff DEF StoreInv, EntryInv, MarkState, ram
    <2> QED BY <2>1 DEF TextInv, NewHead, NewType, Wanted, At, Fragment, Done
  <1>3. CASE WriteHeader \/ WriteData
    BY <1>3, TextHeader, TextData
  <1>4. CASE Step /\ ~(MarkState \/ WriteHeader \/ WriteData)
    BY <1>4, CallSteps, Zenon DEF Step, StoreInv, HasRoom, MarkFull, Request, NoSpace, Return,
       ErasePage, WritePage, EraseVictim, PageReady, MarkCandidate, CopyEntry, CopyState,
       CleanSector, Boot
  <1>5. CASE ~Step /\ ~UNCHANGED vars
    BY <1>5 DEF Next, PutStart, DelStart, CleanStart, Starts, Reboot, PowerCut, LoseRam
  <1> QED BY <1>1, <1>2, <1>3, <1>4, <1>5

-----------------------------------------------------------------------------
(* The fragments of a key differ in their numbers                          *)

\* A new fragment has a number of its own.
LEMMA FragNew ==
    ASSUME StoreInv, CandidateInv, WriteInv, FragInv, TextInv, GrowInv, [Next]_vars, MarkState,
           pc = "commit"
    PROVE  FragInv'
  <1>1. PICK H, G, z : H = Heads(Source) /\ G = Heads(Source)' /\ z = NewHead
    OBVIOUS
  <1>2. /\ G \subseteq H \cup {z} /\ \A x : At(x)' = At(x)
        /\ z \in G => At(z).c = "head" /\ At(z).k = op.k /\ At(z).t = NewType
    BY <1>1, CommitHeld, MarkKeeps
  <1>3. op \in [fn : {"put"}, k : Keys, v : Vals, frag : Nat, len : Nat, rem : Nat]
    BY DEF StoreInv, PagesInv, Types, CallInv, Operation, NoOp
  <1>4. ASSUME z \in G, At(z).t = "bulk", NEW y \in H, y # z, At(y).k = At(z).k, At(y).t = "bulk"
        PROVE  At(y).f # At(z).f
    <2>1. At(z).c = "head" /\ At(z).k = op.k /\ NewType = "bulk"
      BY <1>2, <1>4
    <2>2. op.v \in BulkVals /\ op.v \notin SmallVals
      BY <2>1, NvdsAssumption DEF NewType, Fragment
    <2>3. At(z) = Wanted
      BY <2>1, <1>1 DEF TextInv
    <2>4. At(z).f = op.frag
      BY <2>1, <2>3 DEF Wanted, Header
    <2>5. y \in Owned(op.k)
      BY <2>1, <1>1, <1>4 DEF Owned
    <2>6. At(y).f < op.frag
      BY <2>2, <2>5, <1>1, <1>3, <1>4 DEF GrowInv
    <2>7. op.frag \in Nat
      BY <1>3
    <2> QED BY <2>4, <2>6, <2>7
  <1> SUFFICES ASSUME NEW x \in G, NEW y \in G, x # y, At(x).k = At(y).k, At(x).t = "bulk",
                      At(y).t = "bulk"
               PROVE  At(x).f # At(y).f
    BY <1>1, <1>2 DEF FragInv
  <1>5. CASE x \in H /\ y \in H
    BY <1>1, <1>5 DEF FragInv
  <1>6. CASE x = z
    <2>1. y \in H /\ y # z
      BY <1>2, <1>6
    <2> QED BY <2>1, <1>4, <1>6
  <1>7. CASE y = z
    <2>1. x \in H /\ x # z
      BY <1>2, <1>7
    <2> QED BY <2>1, <1>4, <1>7
  <1> QED BY <1>2, <1>5, <1>6, <1>7

\* Some elements are gone.
Fewer ==
    /\ Heads(Source)' \subseteq Heads(Source)
    /\ \A x \in Heads(Source)' : At(x)' = At(x)

\* A sector erased by nvds_clean.
LEMMA CleanFewer ==
    ASSUME StoreInv, [Next]_vars, CleanSector
    PROVE  Fewer
  <1>1. PICK p : p = req.page
    OBVIOUS
  <1>2. pc = "clean" /\ pc' \in {"clean", "off"} /\ Erased(p, "blank")
    BY <1>1 DEF CleanSector
  <1>3. p \in Pages /\ ~Moving /\ ~Moving' /\ Copied = {} /\ Copied' = {} /\ Slots' = Slots
    BY <1>1, <1>2, InstKept DEF StoreInv, PagesInv, ReqInv, Moving, Copied
  <1>4. /\ pst'[p] = "blank"
        /\ \A q \in Pages \ {p} : slot'[q] = slot[q] /\ est'[q] = est[q] /\ pst'[q] = pst[q]
    BY <1>2, <1>3, ErasedSlots DEF StoreInv, PagesInv
  <1>5. \A q \in Searched' : q \in Searched /\ q \in Pages \ {p}
    BY <1>4 DEF Searched
  <1>6. PICK S, R : S = Source /\ R = Source'
    OBVIOUS
  <1>7. \A q \in R : q \in S /\ slot'[q] = slot[q] /\ est'[q] = est[q]
    BY <1>3, <1>4, <1>5, <1>6 DEF Source
  <1>8. /\ Heads(Source) = {x \in S \X Slots : est[x[1]][x[2]] = "used" /\ At(x).c = "head"}
        /\ Heads(Source)' = {x \in R \X Slots : est'[x[1]][x[2]] = "used" /\ At(x)'.c = "head"}
    BY <1>3, <1>6 DEF Heads
  <1>9. \A x \in R \X Slots : x[1] \in R /\ x[1] \in S /\ x \in S \X Slots
    BY <1>7
  <1>10. \A x \in R \X Slots : At(x)' = At(x) /\ est'[x[1]][x[2]] = est[x[1]][x[2]]
    BY <1>7, <1>9 DEF At
  <1> QED BY <1>8, <1>9, <1>10 DEF Fewer

\* Of fewer elements, too, no two fragments have one number.
LEMMA FewerFrag == ASSUME FragInv, Fewer PROVE FragInv'
  BY DEF FragInv, Fewer

\* The elements are on the pages.
LEMMA HeadPlaces ==
    StoreInv => \A x \in Heads(Source) : x[1] \in Pages /\ x[2] \in Slots /\ At(x).c = "head"
  <1> SUFFICES ASSUME StoreInv, NEW x \in Heads(Source)
               PROVE  x[1] \in Pages /\ x[2] \in Slots /\ At(x).c = "head"
    OBVIOUS
  <1>1. x \in Pages \X Slots
    BY HeadFacts
  <1>2. At(x).c = "head"
    BY DEF Heads
  <1> QED BY <1>1, <1>2

\* FragInv is kept.
LEMMA FragStep ==
    ASSUME StoreInv, StoreInv', KindInv', CandidateInv, OwnInv, MapInv, FragInv, TextInv, GrowInv,
           [Next]_vars
    PROVE  FragInv'
  <1>1. CASE ~Steady'
    <2>1. (\A x \in Heads(Source) : x[1] \in Pages /\ x[2] \in Slots /\ At(x).c = "head")'
      BY HeadPlaces, PTL
    <2>2. \A x \in Heads(Source)' : At(x)'.t = "small"
      BY <2>1, <1>1 DEF KindInv, At
    <2> QED BY <2>2 DEF FragInv
  <1>2. CASE Steady'
    <2>1. Steady
      BY <1>2, InstKept DEF Steady
    <2>2. ~PowerCut
      BY <2>1 DEF PowerCut, Steady
    <2>3. CASE MarkState
      <3>1. CASE pc = "commit"
        BY <3>1, <2>3, FragNew DEF OwnInv
      <3>2. CASE pc \in {"delete", "undo"}
        BY <3>2, <2>3, DeleteHeld, MarkKeeps, FewerFrag DEF OwnInv, Fewer
      <3> QED BY <3>1, <3>2, <2>3, MarkStateEff DEF StoreInv, EntryInv
    <2>4. CASE CleanSector
      BY <2>4, CleanFewer, FewerFrag
    <2>5. CASE ~MarkState /\ ~CleanSector
      BY <2>2, <2>5, FollowStep, FollowsHeld
    <2> QED BY <2>3, <2>4, <2>5
  <1> QED BY <1>1, <1>2

-----------------------------------------------------------------------------
(* What a call leaves alone, and what it has written so far                *)

\* What is read of a key with a small element is the value in its header.
LEMMA SmallReading ==
    ASSUME StoreInv, Alone(Heads(Source)), NEW x \in Heads(Source), At(x).t = "small"
    PROVE  Reading(Held(At(x).k)) = At(x).v
  <1>1. PICK k, H : k = At(x).k /\ H = Heads(Source)
    OBVIOUS
  <1>2. \A y \in H : At(y).k = k => y = x
    <2> SUFFICES ASSUME NEW y \in H, At(y).k = k, y # x PROVE FALSE
      OBVIOUS
    <2>1. Friends(At(x), At(y))
      BY <1>1 DEF Alone
    <2> QED BY <2>1, <1>1 DEF Friends
  <1>3. Owned(k) = {x}
    BY <1>1, <1>2 DEF Owned
  <1>4. OfType(Held(k), "small") = {Elem(x)}
    <2>1. Held(k) = {Elem(x)}
      BY <1>3 DEF Held
    <2>2. Elem(x).h.t = "small"
      BY DEF Elem
    <2> QED BY <2>1, <2>2 DEF OfType
  <1>5. Some(OfType(Held(k), "small")) = Elem(x)
    BY <1>4, SomeIs
  <1>6. Elem(x).h.v = At(x).v
    BY DEF Elem
  <1> QED BY <1>1, <1>4, <1>5, <1>6 DEF Reading

\* What a call remembers at its start is what the elements say.
LEMMA StartSnap ==
    ASSUME StoreInv, FragInv, Alone(Heads(Source)),
           \/ \E k \in Keys, v \in Vals : PutStart(k, v)
           \/ \E k \in Keys : DelStart(k)
           \/ CleanStart
    PROVE  \A k \in Keys : snap'[k] = Reading(Held(k))
  <1>1. pc = "idle" /\ snap' = [k \in Keys |-> DataGet(k)]
    BY DEF PutStart, DelStart, CleanStart, Starts
  <1>2. \A k \in Keys : DataGet(k) = Reading(Held(k))
    BY <1>1, DataGetReads
  <1> QED BY <1>1, <1>2

\* KeptInv is kept.
LEMMA KeptStep ==
    ASSUME StoreInv, CandidateInv, OwnInv, MapInv, FragInv, KeptInv, [Next]_vars
    PROVE  KeptInv'
  <1> SUFFICES ASSUME op'.fn \in {"put", "del"}, NEW k \in Keys, k # op'.k
               PROVE  Reading(Held(k)') = snap'[k]
    BY DEF KeptInv, Reading, OfType, Joined, Pieces, Piece, Some, ReadMiddle
  <1>1. ~PowerCut /\ op' # NoOp
    BY DEF PowerCut, LoseRam, NoOp
  <1>2. CASE \/ \E i \in Keys, v \in Vals : PutStart(i, v)
             \/ \E i \in Keys : DelStart(i)
             \/ CleanStart
    <2>1. snap'[k] = Reading(Held(k))
      BY <1>2, StartSnap DEF OwnInv, AloneInv
    <2>2. ~MarkState /\ ~CleanSector
      BY <1>2 DEF PutStart, DelStart, CleanStart, Starts, CleanSector, MarkState
    <2>3. Held(k)' = Held(k)
      BY <2>2, <1>1, FollowStep, FollowsHeld
    <2> QED BY <2>1, <2>3
  <1>3. CASE /\ snap' = snap /\ op'.fn = op.fn
             /\ op.fn = "del" => op' = op
             /\ op.fn = "put" => op'.k = op.k /\ op'.v = op.v
    <2>1. op.fn \in {"put", "del"} /\ k # op.k
      BY <1>3
    <2>2. snap'[k] = Reading(Held(k))
      BY <1>3, <2>1 DEF KeptInv
    <2>3. ~CleanSector
      BY <2>1 DEF CleanSector, StoreInv, PagesInv, CallInv
    <2>4. Held(k)' = Held(k)
      <3>1. CASE MarkState
        <4>1. pc \in {"delete", "commit", "undo"}
          BY <3>1, MarkStateEff DEF StoreInv, EntryInv
        <4> QED BY <4>1, <3>1, <2>1, DeleteHeld, CommitHeld DEF OwnInv
      <3>2. CASE ~MarkState
        BY <3>2, <2>3, <1>1, FollowStep, FollowsHeld
      <3> QED BY <3>1, <3>2
    <2> QED BY <2>2, <2>4
  <1> QED BY <1>1, <1>2, <1>3, OpSteps

\* SeenInv is kept.
LEMMA SeenStep ==
    ASSUME StoreInv, KindInv, CandidateInv, OwnInv, MapInv, FragInv, TextInv, SeenInv, [Next]_vars
    PROVE  SeenInv'
  <1> SUFFICES ASSUME ~Steady', op' # NoOp, NEW x \in Heads(Source)'
               PROVE  \/ At(x)'.v = snap'[At(x)'.k]
                      \/ op'.fn = "put" /\ At(x)'.k = op'.k /\ At(x)'.v = op'.v
    BY DEF SeenInv
  <1>0. ~PowerCut /\ ~Steady
    BY InstKept DEF PowerCut, LoseRam, Steady
  <1>1. CASE \/ \E i \in Keys, v \in Vals : PutStart(i, v)
             \/ \E i \in Keys : DelStart(i)
             \/ CleanStart
    <2>1. ~MarkState /\ ~CleanSector
      BY <1>1 DEF PutStart, DelStart, CleanStart, Starts, CleanSector, MarkState
    <2>2. PICK y \in Heads(Source) : At(x)' = At(y)
      BY <2>1, <1>0, FollowStep, FollowsHeld
    <2>3. At(y).c = "head" /\ y[1] \in Pages /\ y[2] \in Slots /\ y \in Pages \X Slots
      BY <2>2, HeadPlaces, HeadFacts
    <2>4. At(y).t = "small" /\ At(y).k \in Keys
      <3>1. At(y).k \in Keys
        BY <2>3, HeadCell
      <3> QED BY <3>1, <2>3, <1>0 DEF KindInv, At
    <2>5. Reading(Held(At(y).k)) = At(y).v
      BY <2>2, <2>4, SmallReading DEF OwnInv, AloneInv
    <2>6. snap'[At(y).k] = Reading(Held(At(y).k))
      BY <2>4, <1>1, StartSnap DEF OwnInv, AloneInv
    <2> QED BY <2>2, <2>5, <2>6
  <1>2. CASE /\ snap' = snap /\ op'.fn = op.fn
             /\ op.fn = "del" => op' = op
             /\ op.fn = "put" => op'.k = op.k /\ op'.v = op.v
    <2>1. op # NoOp
      <3>1. op'.fn # "none" \/ op = op'
        <4>1. op' \in Operation
          BY PagesStep DEF StoreInv, PagesInv, Types
        <4> QED BY <4>1, <1>2 DEF Operation, NoOp
      <3> QED BY <3>1, <1>2 DEF NoOp
    <2>2. ASSUME NEW y \in Heads(Source), At(x)' = At(y)
          PROVE  \/ At(x)'.v = snap'[At(x)'.k]
                 \/ op'.fn = "put" /\ At(x)'.k = op'.k /\ At(x)'.v = op'.v
      BY <2>1, <2>2, <1>0, <1>2 DEF SeenInv
    <2>3. CASE MarkState
      <3>1. CASE pc \in {"delete", "undo"}
        BY <3>1, <2>2, <2>3, DeleteHeld, MarkKeeps DEF OwnInv
      <3>2. CASE pc = "commit"
        <4>1. CASE x \in Heads(Source)
          BY <4>1, <2>2, <2>3, MarkKeeps
        <4>2. CASE x \notin Heads(Source)
          <5>1. x = NewHead /\ At(x)' = At(x) /\ At(x).c = "head" /\ At(x).k = op.k
            BY <4>2, <3>2, <2>3, CommitHeld, MarkKeeps DEF OwnInv
          <5>2. At(x) = Wanted
            BY <5>1, <3>2 DEF TextInv
          <5>3. At(x).v = op.v /\ op.fn = "put"
            BY <5>2, <3>2 DEF Wanted, Header, StoreInv, PagesInv, CallInv
          <5> QED BY <5>1, <5>3, <1>2
        <4> QED BY <4>1, <4>2
      <3> QED BY <3>1, <3>2, <2>3, MarkStateEff DEF StoreInv, EntryInv
    <2>4. CASE CleanSector
      BY <2>2, <2>4, CleanFewer DEF Fewer
    <2>5. CASE ~MarkState /\ ~CleanSector
      BY <2>2, <2>5, <1>0, FollowStep, FollowsHeld
    <2> QED BY <2>3, <2>4, <2>5
  <1> QED BY <1>1, <1>2, OpSteps

\* GrowInv, of the fields of the call.
LaidAs(off, k, v, frag, done, S) ==
    /\ off[0] = 0 /\ off[frag] = done
    /\ \A f \in 0..(frag - 1) :
          off[f] <= off[f + 1] /\ Shred(k, v, f, off[f], off[f + 1]) \in S
GrowAs(k, v, frag, rem, at, S, F) ==
    /\ rem \in 0..Entries[v]
    /\ at = "delete" \/ v \in MiddleVals => rem = Entries[v] /\ frag = 0
    /\ v \in BulkVals /\ at \notin {"undo", "delete"} =>
         /\ \E off \in [0..frag -> 0..Entries[v]] : LaidAs(off, k, v, frag, Entries[v] - rem, S)
         /\ \A f \in F : f < frag
\* The numbers of the fragments of k, but the one just written.
Numbers(k) ==
    {At(x).f : x \in {y \in Owned(k) : At(y).t = "bulk" /\ ~(pc = "commit" /\ y = NewHead)}}

\* GrowInv in terms of them,
LEMMA GrowIs ==
    \A k : k = op.k =>
        (GrowInv <=> (op.fn = "put" /\ op.v \notin SmallVals =>
                         GrowAs(k, op.v, op.frag, op.rem, pc, Held(k), Numbers(k))))
  <1> SUFFICES ASSUME NEW k, k = op.k
               PROVE  GrowInv <=> (op.fn = "put" /\ op.v \notin SmallVals =>
                                      GrowAs(k, op.v, op.frag, op.rem, pc, Held(k), Numbers(k)))
    OBVIOUS
  <1>1. \A off : Laid(off) <=> LaidAs(off, k, op.v, op.frag, Entries[op.v] - op.rem, Held(k))
    BY DEF Laid, LaidAs, Done
  <1>2. (\A f \in Numbers(k) : f < op.frag)
        <=> (\A x \in Owned(k) : At(x).t = "bulk" =>
                 At(x).f < op.frag \/ (pc = "commit" /\ x = NewHead))
    BY DEF Numbers
  <1> QED BY <1>1, <1>2 DEF GrowInv, GrowAs, Offsets

\* and after the step.
LEMMA GrowIsNext ==
    (\A k : k = op.k =>
        (GrowInv <=> (op.fn = "put" /\ op.v \notin SmallVals =>
                         GrowAs(k, op.v, op.frag, op.rem, pc, Held(k), Numbers(k)))))'
  BY GrowIs, PTL

\* To keep GrowInv is to show it of the fields after the step.
LEMMA GrowNext ==
    ASSUME NEW k, NEW v, NEW frag, NEW rem, NEW at, NEW S, NEW F,
           k = op'.k, v = op'.v, frag = op'.frag, rem = op'.rem, at = pc',
           S = Held(k)', F = Numbers(k)',
           v \notin SmallVals => GrowAs(k, v, frag, rem, at, S, F)
    PROVE  GrowInv'
  <1>1. GrowInv' <=> (op'.fn = "put" /\ op'.v \notin SmallVals =>
                         GrowAs(k, op'.v, op'.frag, op'.rem, pc', Held(k)', Numbers(k)'))
    BY GrowIsNext
  <1> QED BY <1>1

\* The next fragment follows the others.
LEMMA LaidGrows ==
    ASSUME NEW k, NEW v, NEW frag \in Nat, NEW E \in Nat, NEW done \in 0..E, NEW len \in Nat,
           done + len <= E, NEW S, NEW T, S \subseteq T,
           NEW off \in [0..frag -> 0..E], LaidAs(off, k, v, frag, done, S),
           Shred(k, v, frag, done, done + len) \in T
    PROVE  \E off2 \in [0..(frag + 1) -> 0..E] : LaidAs(off2, k, v, frag + 1, done + len, T)
  <1>1. PICK g : g = [f \in 0..(frag + 1) |-> IF f <= frag THEN off[f] ELSE done + len]
    OBVIOUS
  <1>2. /\ g \in [0..(frag + 1) -> 0..E] /\ g[0] = off[0] /\ g[frag + 1] = done + len
        /\ \A f \in 0..frag : g[f] = off[f] /\ off[f] \in 0..E
    <2>1. \A f \in 0..(frag + 1) : (IF f <= frag THEN off[f] ELSE done + len) \in 0..E
      <3> TAKE f \in 0..(frag + 1)
      <3>1. CASE f <= frag
        <4>1. f \in 0..frag
          BY <3>1
        <4> QED BY <3>1, <4>1
      <3>2. CASE ~(f <= frag)
        BY <3>2
      <3> QED BY <3>1, <3>2
    <2>2. g \in [0..(frag + 1) -> 0..E]
      BY <2>1, <1>1
    <2>3. \A f \in 0..frag : f \in 0..(frag + 1) /\ f <= frag
      OBVIOUS
    <2>4. 0 \in 0..frag /\ frag + 1 \in 0..(frag + 1) /\ ~(frag + 1 <= frag)
      OBVIOUS
    <2> QED BY <2>2, <2>3, <2>4, <1>1
  <1>3. off[0] = 0 /\ off[frag] = done
    BY DEF LaidAs
  <1>4. ASSUME NEW f \in 0..((frag + 1) - 1)
        PROVE  g[f] <= g[f + 1] /\ Shred(k, v, f, g[f], g[f + 1]) \in T
    <2>1. CASE f = frag
      <3>1. g[f] = done /\ g[f + 1] = done + len
        BY <2>1, <1>2, <1>3
      <3> QED BY <3>1, <2>1
    <2>2. CASE f # frag
      <3>1. f \in 0..(frag - 1) /\ f \in 0..frag /\ f + 1 \in 0..frag
        BY <2>2
      <3>2. off[f] <= off[f + 1] /\ Shred(k, v, f, off[f], off[f + 1]) \in S
        BY <3>1 DEF LaidAs
      <3>3. g[f] = off[f] /\ g[f + 1] = off[f + 1]
        BY <3>1, <1>2
      <3> QED BY <3>2, <3>3
    <2> QED BY <2>1, <2>2
  <1>5. LaidAs(g, k, v, frag + 1, done + len, T)
    BY <1>2, <1>3, <1>4 DEF LaidAs
  <1> QED BY <1>2, <1>5

\* A put that has written nothing.
LEMMA GrowFresh ==
    ASSUME NEW k, NEW v \in MiddleVals \cup BulkVals, NEW at, NEW S
    PROVE  GrowAs(k, v, 0, Entries[v], at, S, {})
  <1>1. Entries[v] \in Nat
    BY NvdsAssumption
  <1>2. PICK E, off : E = Entries[v] /\ off = [f \in 0..0 |-> 0]
    OBVIOUS
  <1>3. E \in Nat /\ E - E = 0 /\ 0 \in 0..E /\ 0 \in 0..0 /\ 0..(0 - 1) = {}
    BY <1>1, <1>2
  <1>4. off \in [0..0 -> 0..E] /\ off[0] = 0
    BY <1>2, <1>3
  <1>5. LaidAs(off, k, v, 0, E - E, S)
    BY <1>3, <1>4 DEF LaidAs
  <1> QED BY <1>2, <1>3, <1>4, <1>5 DEF GrowAs

\* A call goes on and its element stays what it is.
LEMMA GrowKept ==
    ASSUME NEW k, NEW v, NEW frag, NEW rem, NEW at, NEW S, NEW F,
           NEW at2, NEW S2, NEW F2,
           GrowAs(k, v, frag, rem, at, S, F), S \subseteq S2, F2 \subseteq F,
           at2 = "delete" => at = "delete",
           at2 \notin {"undo", "delete"} => at \notin {"undo", "delete"}
    PROVE  GrowAs(k, v, frag, rem, at2, S2, F2)
  <1>1. \A off : LaidAs(off, k, v, frag, Entries[v] - rem, S)
                 => LaidAs(off, k, v, frag, Entries[v] - rem, S2)
    BY DEF LaidAs
  <1> QED BY <1>1 DEF GrowAs

\* A put starts with nothing written.
LEMMA GrowStarts ==
    ASSUME StoreInv, KindInv, CandidateInv, OwnInv, [Next]_vars,
           NEW k \in Keys, NEW v \in Vals, PutStart(k, v)
    PROVE  GrowInv'
  <1>1. op' = [fn |-> "put", k |-> k, v |-> v, frag |-> 0, len |-> 0,
               rem |-> IF v \in SmallVals THEN 0 ELSE Entries[v]]
        /\ pc' = (IF Deletion(k) = <<>> THEN "room" ELSE "delete") /\ pc = "idle"
    BY DEF PutStart, Starts
  <1>2. PICK S, F : S = Held(k)' /\ F = Numbers(k)'
    OBVIOUS
  <1>3. op'.k = k /\ op'.v = v /\ op'.frag = 0
        /\ op'.rem = IF v \in SmallVals THEN 0 ELSE Entries[v]
    BY <1>1
  <1>4. ASSUME v \notin SmallVals PROVE GrowAs(k, v, 0, Entries[v], pc', S, F)
    <2>1. v \in MiddleVals \cup BulkVals
      BY <1>4 DEF Vals
    <2>2. CASE pc' = "delete"
      <3>1. Entries[v] \in 0..Entries[v]
        BY <2>1, NvdsAssumption
      <3> QED BY <3>1, <2>2 DEF GrowAs
    <2>3. CASE Deletion(k) = <<>>
      <3>1. Owned(k) = {}
        <4>1. Covers(ToSet(Deletion(k)), k)
          BY <1>1, DeletionCovers DEF OwnInv, AloneInv
        <4>2. ToSet(Deletion(k)) = {}
          BY <2>3 DEF ToSet
        <4> QED BY <4>1, <4>2 DEF Covers, Owned
      <3>2. Owned(k)' = {}
        <4>1. Still
          BY QuietStill
        <4> QED BY <4>1, <3>1, StillHeld
      <3>3. F = {}
        BY <3>2, <1>2 DEF Numbers
      <3> QED BY <3>3, <2>1, GrowFresh
    <2> QED BY <2>2, <2>3, <1>1
  <1> QED BY <1>2, <1>3, <1>4, GrowNext
\* A put goes on, with anything but a mark.
LEMMA PutGoesOn ==
    ASSUME StoreInv, [Next]_vars, ~MarkState, op'.fn = "put",
           ~(\E k \in Keys, v \in Vals : PutStart(k, v))
    PROVE  /\ op.fn = "put" /\ op'.k = op.k /\ op'.v = op.v
           /\ op'.frag = op.frag /\ op'.rem = op.rem
           /\ pc' = "delete" => pc = "delete"
           /\ pc' \notin {"undo", "delete"} => pc \notin {"undo", "delete"}
           /\ pc = "commit" => UNCHANGED vars
           /\ ~CleanSector /\ ~PowerCut
  <1>1. op \in Operation
    BY DEF StoreInv, PagesInv, Types
  <1>2. NoOp.fn # "put"
    BY DEF NoOp
  <1>3. CASE UNCHANGED vars
    <2>1. UNCHANGED <<op, pc>>
      BY <1>3 DEF vars
    <2>2. op.fn = "put" => pc # "clean"
      BY DEF StoreInv, PagesInv, CallInv
    <2>3. ~CleanSector
      BY <2>1, <2>2 DEF CleanSector
    <2>4. ~PowerCut
      BY <2>1, <1>2 DEF PowerCut, LoseRam
    <2> QED BY <2>1, <2>3, <2>4, <1>3
  <1>4. CASE WriteHeader
    <2>1. pc = "header" /\ op' = [op EXCEPT !.len = Span(NextHeader)] /\ pc' \in {"data", "commit"}
      BY <1>4 DEF WriteHeader
    <2>2. op \in [fn : {"put"}, k : Keys, v : Vals, frag : Nat, len : Nat, rem : Nat]
      BY <2>1, <1>1 DEF StoreInv, PagesInv, CallInv, Operation, NoOp
    <2>3. op'.k = op.k /\ op'.v = op.v /\ op'.frag = op.frag /\ op'.rem = op.rem /\ op.fn = "put"
      BY <2>1, <2>2
    <2>4. ~CleanSector /\ ~PowerCut
      BY <2>1 DEF CleanSector, PowerCut, LoseRam
    <2> QED BY <2>1, <2>3, <2>4
  <1>5. CASE HasRoom \/ MarkFull \/ Request \/ ErasePage \/ WritePage \/ MarkCandidate
             \/ CopyEntry \/ CopyState \/ EraseVictim \/ PageReady \/ WriteData \/ Boot
    <2>1. op' = op
      BY <1>2, <1>5 DEF HasRoom, MarkFull, Request, ErasePage, WritePage, MarkCandidate,
            CopyEntry, CopyState, EraseVictim, PageReady, WriteData, Boot, NoSpace, Return
    <2>2. /\ pc \notin {"undo", "delete", "commit", "clean"}
          /\ pc' # "delete" /\ (pc = "off" => pc' # "off")
      BY <2>1, <1>2, <1>5 DEF HasRoom, MarkFull, Request, ErasePage, WritePage, MarkCandidate,
            CopyEntry, CopyState, EraseVictim, PageReady, WriteData, Boot, NoSpace, Return
    <2>3. ~CleanSector /\ ~PowerCut
      BY <2>1, <2>2, <1>2 DEF CleanSector, PowerCut, LoseRam
    <2> QED BY <2>1, <2>2, <2>3
  <1>6. CASE Reboot \/ PowerCut
    BY <1>2, <1>6 DEF Reboot, PowerCut, LoseRam
  <1>7. CASE CleanSector
    <2>1. op' = op /\ pc = "clean"
      BY <1>7 DEF CleanSector
    <2> QED BY <2>1 DEF StoreInv, PagesInv, CallInv
  <1>8. CASE CleanStart \/ \E k \in Keys : DelStart(k)
    BY <1>8 DEF CleanStart, DelStart, Starts
  <1> QED BY <1>3, <1>4, <1>5, <1>6, <1>7, <1>8 DEF Next, Step

\* It goes on without a fragment being lost, whatever pages are moved.
LEMMA GrowGoesOn ==
    ASSUME StoreInv, CandidateInv, MapInv, GrowInv, [Next]_vars, ~MarkState, op'.fn = "put",
           ~(\E k \in Keys, v \in Vals : PutStart(k, v))
    PROVE  GrowInv'
  <1>1. PICK k, v, frag, rem, at, S, F :
           k = op.k /\ v = op.v /\ frag = op.frag /\ rem = op.rem /\ at = pc
           /\ S = Held(k) /\ F = Numbers(k)
    OBVIOUS
  <1>2. PICK at2, S2, F2 : at2 = pc' /\ S2 = Held(k)' /\ F2 = Numbers(k)'
    OBVIOUS
  <1>3. /\ op.fn = "put" /\ op'.k = k /\ op'.v = v /\ op'.frag = frag /\ op'.rem = rem
        /\ at2 = "delete" => at = "delete"
        /\ at2 \notin {"undo", "delete"} => at \notin {"undo", "delete"}
        /\ ~CleanSector /\ ~PowerCut
    BY <1>1, <1>2, PutGoesOn
  <1>4. v \notin SmallVals => GrowAs(k, v, frag, rem, at, S, F)
    BY <1>1, <1>3, GrowIs
  <1>5. Follows
    BY <1>3, FollowStep
  <1>6. S2 = S
    BY <1>1, <1>2, <1>5, FollowsHeld
  <1>7. F2 \subseteq F
    <2>1. CASE pc = "commit"
      <3>1. UNCHANGED vars
        BY <2>1, PutGoesOn
      <3>2. UNCHANGED <<pst, est, slot, nxt, used, pc, op, req, inst>>
        BY <3>1 DEF vars, flash, ram
      <3>3. Numbers(k)' = Numbers(k)
        BY <3>2 DEF Numbers, Owned, Heads, Source, Searched, Moving, Copied, At, NewHead, Slots, N
      <3> QED BY <3>3, <1>1, <1>2
    <2>2. CASE pc # "commit"
      <3>1. PICK H, G : H = Heads(Source) /\ G = Heads(Source)'
        OBVIOUS
      <3>2. \A x \in G : \E y \in H : At(x)' = At(y)
        BY <3>1, <1>5, FollowsHeld
      <3>3. \A y \in H : At(y).k = k /\ At(y).t = "bulk" => At(y).f \in F
        BY <2>2, <3>1, <1>1 DEF Numbers, Owned
      <3>4. \A i \in F2 : \E x \in G : At(x)'.k = k /\ At(x)'.t = "bulk" /\ i = At(x)'.f
        BY <3>1, <1>2 DEF Numbers, Owned
      <3> QED BY <3>2, <3>3, <3>4
    <2> QED BY <2>1, <2>2
  <1>8. v \notin SmallVals => GrowAs(k, v, frag, rem, at2, S2, F2)
    BY <1>3, <1>4, <1>6, <1>7, GrowKept
  <1> QED BY <1>2, <1>3, <1>8, GrowNext

\* The fragment just written, once its header is in use.
LEMMA NewFragment ==
    ASSUME StoreInv, TextInv, pc = "commit", Fragment, At(NewHead).c = "head",
           NEW k, NEW v, NEW f, NEW d, NEW len, NEW z,
           k = op.k, v = op.v, f = op.frag, d = Done, len = op.len, z = NewHead
    PROVE  Elem(z) = Shred(k, v, f, d, d + len) /\ At(z).f = f /\ At(z).t = "bulk"
  <1>1. op \in [fn : {"put"}, k : Keys, v : Vals, frag : Nat, len : Nat, rem : Nat]
    BY DEF StoreInv, PagesInv, Types, CallInv, Operation, NoOp
  <1>2. v \in BulkVals /\ v \notin SmallVals /\ v \notin MiddleVals /\ op.rem > 0
    BY NvdsAssumption DEF Fragment
  <1>3. NewType = "bulk"
    BY <1>2 DEF NewType, Fragment
  <1>4. At(z) = Header(k, "bulk", len, v, f)
    BY <1>3 DEF TextInv, Wanted
  <1>5. d \in Int /\ len \in Nat /\ (d + len) - d = len
    <2>1. Entries[v] \in Nat /\ op.rem \in Nat /\ len \in Nat
      BY <1>1, <1>2, NvdsAssumption
    <2>2. d = Entries[v] - op.rem
      BY DEF Done
    <2> QED BY <2>1, <2>2
  <1>6. Span(At(z)) = len
    BY <1>4 DEF Header, Span
  <1>7. \A o \in 1..len : slot[z[1]][z[2] + o] = Data(v, d + o)
    BY DEF TextInv
  <1>8. Elem(z) = [h |-> At(z), b |-> [o \in 1..len |-> slot[z[1]][z[2] + o]]]
    BY <1>6 DEF Elem
  <1>9. [o \in 1..len |-> slot[z[1]][z[2] + o]] = [o \in 1..len |-> Data(v, d + o)]
    BY <1>7
  <1>10. Shred(k, v, f, d, d + len)
         = [h |-> Header(k, "bulk", len, v, f), b |-> [o \in 1..len |-> Data(v, d + o)]]
    BY <1>5 DEF Shred
  <1>11. At(z).f = f /\ At(z).t = "bulk"
    BY <1>4 DEF Header
  <1>12. Elem(z) = Shred(k, v, f, d, d + len)
    BY <1>4, <1>8, <1>9, <1>10
  <1> QED BY <1>11, <1>12

\* The marks of a put that go on to the next, or end the deletion or a fragment.
LEMMA PutMarks ==
    ASSUME StoreInv, [Next]_vars, MarkState, op'.fn = "put"
    PROVE  /\ op.fn = "put" /\ op'.k = op.k /\ op'.v = op.v
           /\ UNCHANGED <<used, nxt, slot>>
           /\ \/ pc' = pc /\ op' = op
              \/ pc = "delete" /\ pc' = "room" /\ op' = op
              \/ /\ pc = "commit" /\ pc' = "room" /\ Fragment
                 /\ op'.rem = op.rem - op.len /\ op'.frag = op.frag + 1
  <1>1. op \in Operation
    BY DEF StoreInv, PagesInv, Types
  <1>2. NoOp.fn # "put"
    BY DEF NoOp
  <1>3. UNCHANGED <<used, nxt, slot>>
    BY DEF MarkState, ram
  <1>4. CASE Len(marks.at) > 1
    BY <1>3, <1>4 DEF MarkState
  <1>5. CASE ~(Len(marks.at) > 1)
    <2>1. \/ pc = "delete" /\ pc' = "room" /\ op' = op
          \/ /\ pc = "commit" /\ pc' = "room" /\ Fragment
             /\ op' = [op EXCEPT !.rem = @ - op.len, !.frag = @ + 1]
      BY <1>2, <1>5 DEF MarkState, Return
    <2>2. pc = "commit" => op \in [fn : {"put"}, k : Keys, v : Vals, frag : Nat, len : Nat, rem : Nat]
      BY <1>1 DEF StoreInv, PagesInv, CallInv, Operation, NoOp
    <2>3. CASE pc = "delete"
      BY <1>3, <2>1, <2>3
    <2>4. CASE /\ pc = "commit" /\ pc' = "room" /\ Fragment
               /\ op' = [op EXCEPT !.rem = @ - op.len, !.frag = @ + 1]
      <3>1. PICK l : l = op.len
        OBVIOUS
      <3>2. op' = [op EXCEPT !.rem = @ - l, !.frag = @ + 1]
        BY <2>4, <3>1
      <3>3. op'.k = op.k /\ op'.v = op.v /\ op'.rem = op.rem - l /\ op'.frag = op.frag + 1 /\ op.fn = "put"
        BY <2>2, <2>4, <3>2
      <3> QED BY <2>4, <3>1, <3>3, <1>3
    <2> QED BY <2>1, <2>3, <2>4
  <1> QED BY <1>4, <1>5

\* Each commit adds one fragment, and deleting the old value takes none away.
LEMMA GrowMarks ==
    ASSUME SmallOnly, StoreInv, CandidateInv, OwnInv, TextInv, GrowInv, [Next]_vars, MarkState,
           op'.fn = "put"
    PROVE  GrowInv'
  <1>1. PICK k, v, frag, rem, at, S, F :
           k = op.k /\ v = op.v /\ frag = op.frag /\ rem = op.rem /\ at = pc
           /\ S = Held(k) /\ F = Numbers(k)
    OBVIOUS
  <1>2. PICK at2, S2, F2 : at2 = pc' /\ S2 = Held(k)' /\ F2 = Numbers(k)'
    OBVIOUS
  <1>3. /\ op.fn = "put" /\ op'.k = k /\ op'.v = v
        /\ UNCHANGED <<used, nxt, slot>>
        /\ \/ at2 = at /\ op' = op
           \/ at = "delete" /\ at2 = "room" /\ op' = op
           \/ /\ at = "commit" /\ at2 = "room" /\ Fragment
              /\ op'.rem = op.rem - op.len /\ op'.frag = frag + 1
    BY <1>1, <1>2, PutMarks
  <1> SUFFICES ASSUME v \notin SmallVals
               PROVE  GrowAs(k, v, op'.frag, op'.rem, at2, S2, F2)
    BY <1>2, <1>3, GrowNext
  <1>4. GrowAs(k, v, frag, rem, at, S, F)
    BY <1>1, <1>3, GrowIs
  <1>5. op \in [fn : {"put"}, k : Keys, v : Vals, frag : Nat, len : Nat, rem : Nat]
    BY <1>3 DEF StoreInv, PagesInv, Types, CallInv, Operation, NoOp
  <1>6. v \in MiddleVals \cup BulkVals
    BY <1>1, <1>5 DEF Vals
  <1>7. at \in {"delete", "commit", "undo"}
    BY <1>1, MarkStateEff DEF StoreInv, EntryInv
  <1>8. \A x : At(x)' = At(x)
    BY MarkKeeps
  <1>9. CASE at2 = at /\ at # "commit"
    <2>1. op' = op
      BY <1>3, <1>9
    <2> QED BY <2>1, <1>1, <1>4, <1>7, <1>9 DEF GrowAs
  <1>10. CASE at = "delete" /\ at2 = "room"
    <2>1. Owned(k)' = {}
      BY <1>1, <1>2, <1>10, DeleteHeld DEF OwnInv
    <2>2. F2 = {}
      BY <2>1, <1>2 DEF Numbers
    <2>3. op'.rem = Entries[v] /\ op'.frag = 0
      BY <1>1, <1>3, <1>4, <1>10 DEF GrowAs
    <2> QED BY <2>2, <2>3, <1>6, GrowFresh
  <1>11. PICK H, G, z : H = Heads(Source) /\ G = Heads(Source)' /\ z = NewHead
    OBVIOUS
  <1>12. \A y \in H : At(y).k = k /\ At(y).t = "bulk" /\ ~(at = "commit" /\ y = z) => At(y).f \in F
    BY <1>1, <1>11 DEF Numbers, Owned
  <1>13. \A i \in F2 : \E y \in G : /\ At(y).k = k /\ At(y).t = "bulk" /\ i = At(y).f
                                    /\ ~(at2 = "commit" /\ y = NewHead')
    BY <1>2, <1>8, <1>11 DEF Numbers, Owned
  <1>14. at = "commit" => G \subseteq H \cup {z} /\ S \subseteq S2
    BY <1>1, <1>2, <1>11, CommitHeld DEF OwnInv
  <1>15. CASE at2 = at /\ at = "commit"
    <2>1. op' = op
      BY <1>3, <1>15
    <2>2. NewHead' = z
      BY <1>3, <1>11, <1>15, <1>1, <1>2, <2>1 DEF NewHead
    <2>3. F2 \subseteq F
      BY <2>2, <1>12, <1>13, <1>14, <1>15
    <2> QED BY <2>1, <2>3, <1>1, <1>4, <1>14, <1>15, GrowKept
  <1>16. CASE at = "commit" /\ at2 = "room"
    <2>1. PICK len, E, d : len = op.len /\ E = Entries[v] /\ d = E - rem
      OBVIOUS
    <2>2. /\ Fragment /\ op'.rem = rem - len /\ op'.frag = frag + 1
          /\ v \in BulkVals /\ v \notin MiddleVals
      BY <1>1, <1>3, <1>16, <2>1, NvdsAssumption DEF Fragment
    <2>3. len \in 1..rem
      BY <1>1, <1>16, <2>1, <2>2 DEF TextInv
    <2>4. rem \in 0..E /\ E \in Nat /\ frag \in Nat
      <3>1. E \in Nat
        BY <1>6, <2>1, NvdsAssumption
      <3> QED BY <3>1, <2>1, <1>1, <1>5, <1>4 DEF GrowAs
    <2>5. d \in 0..E /\ len \in Nat /\ d + len <= E /\ E - (rem - len) = d + len /\ rem - len \in 0..E
      <3>1. rem \in Nat /\ rem <= E /\ len \in Nat /\ len <= rem
        BY <2>3, <2>4
      <3> QED BY <3>1, <2>1, <2>4
    <2>6. (\E off \in [0..frag -> 0..E] : LaidAs(off, k, v, frag, d, S)) /\ \A i \in F : i < frag
      BY <1>4, <1>16, <2>1, <2>2 DEF GrowAs
    <2>7. Steady
      BY <1>1, <1>3, SmallPuts DEF StoreInv
    <2>8. At(z).c = "head"
      BY <2>7, <1>1, <1>11, <1>16 DEF OwnInv, WriteInv
    <2>9. Elem(z) = Shred(k, v, frag, d, d + len) /\ At(z).f = frag /\ At(z).t = "bulk"
      BY <2>1, <2>2, <2>8, <1>1, <1>11, <1>16, NewFragment DEF Done
    <2>10. Elem(z) \in S2
      <3>1. Elem(NewHead) \in Held(k)'
        BY <2>8, <1>1, <1>2, <1>11, <1>16, CommitHeld DEF OwnInv
      <3> QED BY <3>1, <1>2, <1>11
    <2>11. \E off \in [0..(frag + 1) -> 0..E] : LaidAs(off, k, v, frag + 1, d + len, S2)
      <3>1. PICK off \in [0..frag -> 0..E] : LaidAs(off, k, v, frag, d, S)
        BY <2>6
      <3>2. Shred(k, v, frag, d, d + len) \in S2
        BY <2>9, <2>10
      <3>3. S \subseteq S2
        BY <1>14, <1>16
      <3> QED BY <3>1, <3>2, <3>3, <2>4, <2>5, LaidGrows
    <2>12. \A i \in F2 : i < frag + 1
      <3> SUFFICES ASSUME NEW i \in F2 PROVE i < frag + 1
        OBVIOUS
      <3>1. PICK y \in G : At(y).k = k /\ At(y).t = "bulk" /\ i = At(y).f
        BY <1>13
      <3>2. CASE y = z
        BY <3>1, <3>2, <2>4, <2>9
      <3>3. CASE y # z
        <4>1. y \in H
          BY <3>3, <1>14, <1>16
        <4>2. i < frag
          BY <4>1, <3>1, <3>3, <1>12, <2>6
        <4>3. At(y).f \in Nat
          <5>1. y[1] \in Pages /\ y[2] \in Slots /\ At(y).c = "head" /\ y \in Pages \X Slots
            BY <4>1, <1>11, HeadPlaces, HeadFacts
          <5> QED BY <5>1, HeadCell
        <4> QED BY <4>2, <4>3, <3>1, <2>4
      <3> QED BY <3>2, <3>3
    <2>13. GrowAs(k, v, frag + 1, rem - len, at2, S2, F2)
      BY <2>1, <2>2, <2>5, <2>11, <2>12, <1>16 DEF GrowAs
    <2> QED BY <2>2, <2>13
  <1> QED BY <1>3, <1>7, <1>9, <1>10, <1>15, <1>16

\* GrowInv is kept.
LEMMA GrowStep ==
    ASSUME SmallOnly, StoreInv, KindInv, CandidateInv, OwnInv, MapInv, TextInv, GrowInv, [Next]_vars
    PROVE  GrowInv'
  <1>1. CASE op'.fn # "put"
    BY <1>1 DEF GrowInv
  <1>2. CASE op'.fn = "put" /\ \E k \in Keys, v \in Vals : PutStart(k, v)
    BY <1>2, GrowStarts
  <1>3. CASE op'.fn = "put" /\ MarkState
    BY <1>3, GrowMarks
  <1>4. CASE op'.fn = "put" /\ ~MarkState /\ ~(\E k \in Keys, v \in Vals : PutStart(k, v))
    BY <1>4, GrowGoesOn
  <1> QED BY <1>1, <1>2, <1>3, <1>4

-----------------------------------------------------------------------------
(* The view of the elements is an invariant                                *)

\* A store that holds nothing at all.
LEMMA NothingHeld ==
    ASSUME \A p \in Pages : \A i \in Slots : slot[p][i] = Blank, Source \in SUBSET Pages
    PROVE  Heads(Source) = {} /\ \A k : Owned(k) = {} /\ Held(k) = {}
  <1>1. ASSUME NEW x \in Heads(Source) PROVE FALSE
    <2>1. x[1] \in Pages /\ x[2] \in Slots /\ At(x).c = "head"
      BY DEF Heads
    <2> QED BY <2>1 DEF At, Blank
  <1>2. Heads(Source) = {}
    BY <1>1
  <1> QED BY <1>2 DEF Owned, Held

\* The first page after an nvds_clean that was cut short: no key holds anything.
LEMMA ViewClean ==
    ASSUME StoreInv, BlankInv, [Next]_vars, cut = "clean", cut' # "clean"
    PROVE  FragInv' /\ TextInv' /\ GrowInv' /\ KeptInv' /\ SeenInv'
  <1>1. PageReady /\ op.fn = "clean"
    <2>1. cut' # cut
      OBVIOUS
    <2>2. ~UNCHANGED vars
      BY <2>1 DEF vars
    <2>3. ~PowerCut
      BY DEF PowerCut
    <2> QED BY <2>1, <2>2, <2>3 DEF Next, PutStart, DelStart, CleanStart, Starts, Step, MarkState,
         HasRoom, MarkFull, Request, ErasePage, WritePage, MarkCandidate, CopyEntry,
         CopyState, EraseVictim, PageReady, WriteHeader, WriteData, CleanSector, Boot, Reboot
  <1>2. pc = "again" /\ op' = NoOp /\ pc' = "idle" /\ UNCHANGED <<slot, est, pst, inst>>
    BY <1>1 DEF PageReady, Return, flash
  <1>3. \A p \in Pages : \A i \in Slots : slot[p][i] = Blank
    BY <1>1, <1>2 DEF BlankInv
  <1>4. Heads(Source)' = {}
    <2>1. Slots' = Slots
      BY InstKept
    <2>2. Source' \subseteq Pages
      BY <1>2 DEF Source, Searched, Moving
    <2>3. ASSUME NEW x \in Heads(Source)' PROVE FALSE
      <3>1. x[1] \in Pages /\ x[2] \in Slots /\ slot'[x[1]][x[2]].c = "head"
        BY <2>1, <2>2 DEF Heads, At
      <3> QED BY <3>1, <1>2, <1>3 DEF Blank
    <2> QED BY <2>3
  <1>5. op'.fn = "none"
    BY <1>2 DEF NoOp
  <1> QED BY <1>2, <1>4, <1>5 DEF FragInv, TextInv, GrowInv, KeptInv, SeenInv

\* Every step keeps ViewInv,
LEMMA ViewStep ==
    ASSUME SmallOnly, StoreInv, StoreInv', ElementInv, ElementInv', ViewInv, [Next]_vars
    PROVE  ViewInv'
  <1>1. MapInv' /\ BlankInv'
    BY MapStep, BlankStep DEF ViewInv, ElementInv
  <1>2. ASSUME cut' # "clean", cut # "clean"
        PROVE  FragInv' /\ TextInv' /\ GrowInv' /\ KeptInv' /\ SeenInv'
    <2>1. /\ KindInv /\ CandidateInv /\ OwnInv /\ MapInv /\ BlankInv
          /\ FragInv /\ TextInv /\ GrowInv /\ KeptInv /\ SeenInv /\ KindInv'
      BY <1>2 DEF ViewInv, ElementInv
    <2>2. FragInv'
      BY <2>1, FragStep
    <2>3. TextInv'
      BY <2>1, TextStep
    <2>4. GrowInv'
      BY <2>1, GrowStep
    <2>5. KeptInv'
      BY <2>1, KeptStep
    <2>6. SeenInv'
      BY <2>1, SeenStep
    <2> QED BY <2>2, <2>3, <2>4, <2>5, <2>6
  <1>3. ASSUME cut' # "clean", cut = "clean"
        PROVE  FragInv' /\ TextInv' /\ GrowInv' /\ KeptInv' /\ SeenInv'
    BY <1>3, ViewClean DEF ViewInv
  <1> QED BY <1>1, <1>2, <1>3 DEF ViewInv

\* which holds of an erased flash.
LEMMA ViewInit == Init => ViewInv
  <1> SUFFICES ASSUME Init PROVE ViewInv
    OBVIOUS
  <1>1. /\ pst = [p \in Pages |-> "blank"] /\ pc = "off" /\ op = NoOp
        /\ slot = [p \in Pages |-> [i \in Slots |-> Blank]]
    BY DEF Init
  <1>2. ~Moving /\ Searched = {} /\ ~Running /\ op.fn = "none"
    BY <1>1 DEF Moving, Searched, Running, NoOp
  <1>3. Heads(Source) = {}
    BY <1>2 DEF Source, Heads
  <1>4. MapInv /\ BlankInv
    BY <1>1, <1>2 DEF MapInv, BlankInv
  <1>5. FragInv /\ TextInv /\ GrowInv /\ KeptInv /\ SeenInv
    BY <1>1, <1>2, <1>3 DEF FragInv, TextInv, GrowInv, KeptInv, SeenInv
  <1> QED BY <1>4, <1>5 DEF ViewInv

\* What is found of a key does not depend on where its elements are, nor on how far a
\* call has come: a page move copies in order, what is not yet written is erased, the
\* fragments of a key differ in their numbers and are those of the value put, a call leaves
\* the values of the other keys alone, and without a steady supply only the value before the
\* call or the new one is found.
THEOREM ViewKept ==
    ASSUME SmallOnly
    PROVE  Spec => []ViewInv
  <1>1. StoreInv /\ ElementInv /\ ViewInv /\ [Next]_vars /\ StoreInv' /\ ElementInv' => ViewInv'
    BY ViewStep
  <1>2. Spec => []StoreInv
    BY EntriesKept
  <1>3. Spec => []ElementInv
    BY ElementsAlone
  <1> QED BY <1>1, <1>2, <1>3, ViewInit, PTL DEF Spec

\* What a key holds changes only when a call writes the states of its entries, when
\* nvds_clean erases, or when the power is cut: a page move, its erase, a boot, and the
\* headers and data a put writes leave every key the elements it had.
THEOREM ValuesStay ==
    ASSUME SmallOnly
    PROVE  Spec => [][cut # "clean" /\ ~MarkState /\ ~CleanSector /\ ~PowerCut
                      => \A k \in Keys : Held(k)' = Held(k)]_vars
  <1>1. StoreInv /\ ElementInv /\ ViewInv /\ [Next]_vars
        => [cut # "clean" /\ ~MarkState /\ ~CleanSector /\ ~PowerCut
            => \A k \in Keys : Held(k)' = Held(k)]_vars
    <2> SUFFICES ASSUME StoreInv, ElementInv, ViewInv, [Next]_vars, cut # "clean", ~MarkState,
                        ~CleanSector, ~PowerCut, NEW k \in Keys
                 PROVE  Held(k)' = Held(k)
      OBVIOUS
    <2>1. CandidateInv /\ MapInv
      BY DEF ElementInv, ViewInv
    <2> QED BY <2>1, FollowStep, FollowsHeld
  <1>2. Spec => []StoreInv
    BY EntriesKept
  <1>3. Spec => []ElementInv
    BY ElementsAlone
  <1>4. Spec => []ViewInv
    BY ViewKept
  <1> QED BY <1>1, <1>2, <1>3, <1>4, PTL DEF Spec

-----------------------------------------------------------------------------
(* The fragments of a value make up its contents                           *)

\* What follows a beginning of c and the beginning are together a longer one.
LEMMA BeginningGrows ==
    ASSUME NEW X, NEW m \in Nat, NEW c \in [1..m -> X], NEW a \in Nat, NEW b \in Nat, a <= b, b <= m
    PROVE  [o \in 1..a |-> c[o]] \o [o \in 1..(b - a) |-> c[a + o]] = [o \in 1..b |-> c[o]]
  <1>1. PICK s, t, r : s = [o \in 1..a |-> c[o]] /\ t = [o \in 1..(b - a) |-> c[a + o]]
                       /\ r = [o \in 1..b |-> c[o]]
    OBVIOUS
  <1>2. b - a \in Nat
    OBVIOUS
  <1>3. s \in Seq(X) /\ Len(s) = a
    <2>1. \A o \in 1..a : c[o] \in X
      OBVIOUS
    <2> QED BY <2>1, <1>1
  <1>4. t \in Seq(X) /\ Len(t) = b - a
    <2>1. \A o \in 1..(b - a) : c[a + o] \in X
      <3> TAKE o \in 1..(b - a)
      <3>1. a + o \in 1..m
        OBVIOUS
      <3> QED BY <3>1
    <2> QED BY <2>1, <1>1, <1>2
  <1>5. r \in Seq(X) /\ Len(r) = b
    <2>1. \A o \in 1..b : c[o] \in X
      OBVIOUS
    <2> QED BY <2>1, <1>1
  <1>6. /\ s \o t \in Seq(X) /\ Len(s \o t) = b
        /\ \A i \in 1..b : (s \o t)[i] = IF i <= a THEN s[i] ELSE t[i - a]
    <2>1. Len(s) + Len(t) = b
      BY <1>3, <1>4
    <2>2. /\ s \o t \in Seq(X) /\ Len(s \o t) = Len(s) + Len(t)
          /\ \A i \in 1..(Len(s) + Len(t)) : (s \o t)[i] = IF i <= Len(s) THEN s[i] ELSE t[i - Len(s)]
      BY <1>3, <1>4, ConcatProperties
    <2> QED BY <2>1, <2>2, <1>3
  <1>7. \A i \in 1..b : (s \o t)[i] = r[i]
    <2> TAKE i \in 1..b
    <2>1. r[i] = c[i]
      BY <1>1
    <2>2. CASE i <= a
      <3>1. s[i] = c[i]
        BY <2>2, <1>1
      <3> QED BY <3>1, <2>1, <2>2, <1>6
    <2>3. CASE ~(i <= a)
      <3>1. i - a \in 1..(b - a) /\ a + (i - a) = i
        BY <2>3
      <3>2. t[i - a] = c[a + (i - a)]
        BY <3>1, <1>1
      <3> QED BY <3>1, <3>2, <2>1, <2>3, <1>6
    <2> QED BY <2>2, <2>3
  <1>8. s \o t = r
    BY <1>5, <1>6, <1>7, SeqEqual
  <1> QED BY <1>1, <1>8

\* The sequences s are consecutive parts of c, between the places off.
Parts(s, c, off, n) ==
    \A f \in 0..(n - 1) :
        off[f] <= off[f + 1] /\ s[f + 1] = [o \in 1..(off[f + 1] - off[f]) |-> c[off[f] + o]]

\* Consecutive parts of c, one after the other, are c.
LEMMA FlattenParts ==
    ASSUME NEW X, NEW m \in Nat, NEW c \in [1..m -> X], NEW n \in Nat \ {0},
           NEW off \in [0..n -> 0..m], off[0] = 0, off[n] = m, NEW s, DOMAIN s = 1..n, Len(s) = n,
           Parts(s, c, off, n)
    PROVE  FlattenSeq(s) = c
  <1> DEFINE F(v) == [i \in 1..n |-> IF i = 1 THEN s[i] ELSE v[i - 1] \o s[i]]
             w == [i \in 1..n |-> [o \in 1..off[i] |-> c[o]]]
             v == CHOOSE u : u = F(u)
  <1>1. ASSUME NEW i \in 1..n
        PROVE  [o \in 1..off[i] |-> c[o]] = IF i = 1 THEN s[i] ELSE w[i - 1] \o s[i]
    <2>1. i - 1 \in 0..(n - 1) /\ (i - 1) + 1 = i /\ i - 1 \in 0..n
      OBVIOUS
    <2>2. PICK a, b : a = off[i - 1] /\ b = off[i]
      OBVIOUS
    <2>9. PICK j : j = i - 1
      OBVIOUS
    <2>10. j \in 0..(n - 1) /\ j + 1 = i /\ j \in 0..n /\ i \in 0..n
      BY <2>9
    <2>11. off[j] <= off[j + 1] /\ s[j + 1] = [o \in 1..(off[j + 1] - off[j]) |-> c[off[j] + o]]
      BY <2>10 DEF Parts
    <2>12. a = off[j] /\ b = off[j + 1] /\ s[i] = s[j + 1]
      BY <2>2, <2>9, <2>10
    <2>13. a \in 0..m /\ b \in 0..m
      BY <2>2, <2>9, <2>10
    <2>14. a <= b /\ s[i] = [o \in 1..(b - a) |-> c[a + o]]
      BY <2>11, <2>12
    <2>3. a \in Nat /\ b \in Nat /\ a <= b /\ b <= m /\ s[i] = [o \in 1..(b - a) |-> c[a + o]]
      BY <2>13, <2>14
    <2>4. CASE i = 1
      <3>1. a = 0 /\ b - 0 = b
        BY <2>2, <2>3, <2>4
      <3>2. \A o \in 1..b : 0 + o = o
        BY <2>3
      <3>3. s[i] = [o \in 1..b |-> c[o]]
        BY <3>1, <3>2, <2>3
      <3> QED BY <3>3, <2>2, <2>4
    <2>5. CASE i # 1
      <3>1. i - 1 \in 1..n
        BY <2>5
      <3>2. w[i - 1] = [o \in 1..a |-> c[o]]
        BY <3>1, <2>2
      <3>3. [o \in 1..a |-> c[o]] \o s[i] = [o \in 1..b |-> c[o]]
        BY <2>3, BeginningGrows
      <3> QED BY <3>2, <3>3, <2>2, <2>5
    <2> QED BY <2>4, <2>5
  <1>2. w = F(w)
    BY <1>1
  <1>3. v = F(v)
    BY <1>2, Zenon
  <1>4. FlattenSeq(s) = v[n]
    <2>1. Len(s) # 0
      OBVIOUS
    <2> QED BY <2>1, Zenon DEF FlattenSeq
  <1>5. \A i \in 1..n : w[i] = IF i = 1 THEN s[i] ELSE w[i - 1] \o s[i]
    BY <1>1
  <1>6. w[n] = c
    <2>1. n \in 1..n
      OBVIOUS
    <2>2. w[n] = [o \in 1..m |-> c[o]]
      BY <2>1
    <2> QED BY <2>2
  <1> HIDE DEF w, v
  <1>7. \A i \in 1..n : v[i] = IF i = 1 THEN s[i] ELSE v[i - 1] \o s[i]
    BY <1>3, Zenon
  <1>8. PICK B : B = {i \in 1..n : v[i] # w[i]}
    OBVIOUS
  <1>9. B = {}
    <2> SUFFICES ASSUME B # {} PROVE FALSE
      OBVIOUS
    <2>1. PICK i \in B : \A j \in B : i <= j
      <3>1. B \in SUBSET Nat
        BY <1>8
      <3> QED BY <3>1, Least
    <2>2. i \in 1..n /\ v[i] # w[i]
      BY <1>8
    <2>3. i # 1
      BY <2>2, <1>5, <1>7
    <2>4. i - 1 \in 1..n /\ ~(i <= i - 1)
      BY <2>2, <2>3
    <2>5. v[i - 1] = w[i - 1]
      BY <2>1, <2>4, <1>8
    <2>6. v[i] = v[i - 1] \o s[i] /\ w[i] = w[i - 1] \o s[i]
      BY <2>2, <2>3, <1>5, <1>7
    <2> QED BY <2>2, <2>5, <2>6
  <1>10. v[n] = w[n]
    <2>1. n \in 1..n
      OBVIOUS
    <2> QED BY <2>1, <1>8, <1>9
  <1> QED BY <1>4, <1>6, <1>10

-----------------------------------------------------------------------------
(* What is read of the elements of a key                                   *)

\* Fragments without a bulkinfo are not found.
LEMMA ReadNone ==
    ASSUME NEW S, \A e \in S : e.h.t = "bulk"
    PROVE  Reading(S) = Absent
  <1>1. OfType(S, "small") = {} /\ OfType(S, "middle") = {} /\ OfType(S, "bulkinfo") = {}
    BY DEF OfType
  <1> QED BY <1>1 DEF Reading

\* A small element is found by its header.
LEMMA ReadSmall ==
    ASSUME NEW e, e.h.t = "small"
    PROVE  Reading({e}) = e.h.v
  <1>1. OfType({e}, "small") = {e}
    BY DEF OfType
  <1> QED BY <1>1, SomeIs DEF Reading

\* A middle element is found when its data is whole.
LEMMA ReadWhole ==
    ASSUME NEW e, e.h.t = "middle", e.b = Contents(e.h.v)
    PROVE  Reading({e}) = e.h.v
  <1>1. OfType({e}, "small") = {} /\ OfType({e}, "middle") = {e}
    BY DEF OfType
  <1>2. Some(OfType({e}, "middle")) = e
    BY <1>1, SomeIs
  <1> QED BY <1>1, <1>2 DEF Reading, ReadMiddle

\* Different values have different contents.
LEMMA JoinedIs ==
    ASSUME NEW v \in BulkVals
    PROVE  Joined(Contents(v)) = v
  <1>1. ASSUME NEW w \in BulkVals, Contents(v) = Contents(w) PROVE w = v
    <2>1. Entries[w] \in Nat \ {0} /\ Entries[v] \in Nat \ {0}
      BY NvdsAssumption
    <2>2. 1 \in 1..Entries[w] /\ 1 \in 1..Entries[v]
      BY <2>1
    <2>3. Contents(w)[1] = Data(w, 1) /\ Contents(v)[1] = Data(v, 1)
      BY <2>2 DEF Contents
    <2> QED BY <2>3, <1>1 DEF Data
  <1>2. \E w \in BulkVals : Contents(v) = Contents(w)
    OBVIOUS
  <1>3. (CHOOSE w \in BulkVals : Contents(v) = Contents(w)) = v
    BY <1>1
  <1> QED BY <1>2, <1>3 DEF Joined

\* The bulkinfo of a value and its fragments.
LEMMA ReadJoined ==
    ASSUME NEW v \in BulkVals, NEW k, NEW S, NEW e \in S, e.h.t = "bulkinfo", NEW n \in Nat, e.h.n = n,
           \A d \in S : d = e \/ d.h.t = "bulk",
           \A c, d \in S : c.h.t = "bulk" /\ d.h.t = "bulk" /\ c.h.f = d.h.f => c = d,
           NEW off \in [0..n -> 0..Entries[v]], LaidAs(off, k, v, n, Entries[v], S)
    PROVE  Reading(S) = v
  <1>1. PICK m : m = Entries[v] /\ m \in Nat \ {0}
    BY NvdsAssumption
  <1>2. PICK c : c = Contents(v)
    OBVIOUS
  <1>3. \E X : c \in [1..m -> X]
    <2>1. c = [o \in 1..m |-> Data(v, o)]
      BY <1>1, <1>2 DEF Contents
    <2>2. c \in [1..m -> {Data(v, o) : o \in 1..m}]
      BY <2>1
    <2> QED BY <2>2
  <1>4. /\ off \in [0..n -> 0..m] /\ off[0] = 0 /\ off[n] = m
        /\ \A f \in 0..(n - 1) : off[f] <= off[f + 1] /\ Shred(k, v, f, off[f], off[f + 1]) \in S
    BY <1>1 DEF LaidAs
  <1>5. n \in Nat \ {0}
    BY <1>1, <1>4
  <1>6. OfType(S, "small") = {} /\ OfType(S, "middle") = {} /\ OfType(S, "bulkinfo") = {e}
    BY DEF OfType
  <1>7. Some(OfType(S, "bulkinfo")) = e
    BY <1>6, SomeIs
  <1>8. PICK s : s = Pieces(S)
    OBVIOUS
  <1>9. s = [f \in 1..n |-> IF Piece(S, f - 1) = {} THEN <<>> ELSE Some(Piece(S, f - 1)).b]
    BY <1>7, <1>8 DEF Pieces
  <1>10. DOMAIN s = 1..n /\ Len(s) = n
    BY <1>9
  <1>11. ASSUME NEW f \in 0..(n - 1)
         PROVE  off[f] <= off[f + 1] /\ s[f + 1] = [o \in 1..(off[f + 1] - off[f]) |-> c[off[f] + o]]
    <2>1. PICK a, b, d : a = off[f] /\ b = off[f + 1] /\ d = Shred(k, v, f, a, b)
      OBVIOUS
    <2>2. a <= b /\ d \in S
      BY <2>1, <1>4
    <2>3. f \in 0..n /\ f + 1 \in 0..n /\ f + 1 \in 1..n /\ (f + 1) - 1 = f
      OBVIOUS
    <2>4. a \in 0..m /\ b \in 0..m
      BY <2>1, <2>3, <1>4
    <2>5. d.h.t = "bulk" /\ d.h.f = f /\ d.b = [o \in 1..(b - a) |-> Data(v, a + o)]
      BY <2>1 DEF Shred, Header
    <2>6. Piece(S, f) = {d}
      BY <2>2, <2>5 DEF Piece, OfType
    <2>7. s[f + 1] = d.b
      <3>1. s[f + 1] = IF Piece(S, (f + 1) - 1) = {} THEN <<>> ELSE Some(Piece(S, (f + 1) - 1)).b
        BY <2>3, <1>9
      <3>2. Some(Piece(S, f)) = d /\ Piece(S, f) # {}
        BY <2>6, SomeIs
      <3> QED BY <3>1, <3>2, <2>3
    <2>8. \A o \in 1..(b - a) : Data(v, a + o) = c[a + o]
      <3> TAKE o \in 1..(b - a)
      <3>1. a + o \in 1..m
        BY <2>4, <1>1
      <3> QED BY <3>1, <1>1, <1>2 DEF Contents
    <2>9. d.b = [o \in 1..(b - a) |-> c[a + o]]
      BY <2>5, <2>8
    <2> QED BY <2>1, <2>2, <2>7, <2>9
  <1>12. FlattenSeq(s) = c
    <2>1. PICK X : c \in [1..m -> X]
      BY <1>3
    <2>2. m \in Nat
      BY <1>1
    <2>3. Parts(s, c, off, n)
      BY <1>11 DEF Parts
    <2>4. off \in [0..n -> 0..m] /\ off[0] = 0 /\ off[n] = m
      BY <1>4
    <2> QED BY <2>1, <2>2, <2>3, <2>4, <1>5, <1>10, FlattenParts
  <1>13. Reading(S) = Joined(FlattenSeq(Pieces(S)))
    BY <1>6 DEF Reading
  <1> QED BY <1>2, <1>8, <1>12, <1>13, JoinedIs

-----------------------------------------------------------------------------
(* The dictionary between calls                                            *)

\* What is known of the flash at every step.
WholeStore == StoreInv /\ ElementInv /\ ViewInv

\* Between calls no page is moved and no entry is written.
LEMMA BetweenCalls ==
    ASSUME WholeStore, op = NoOp
    PROVE  pc \in {"idle", "off", "erase", "page", "again"}
  <1>1. op.fn = "none"
    BY DEF NoOp
  <1>2. ~Moving
    BY <1>1 DEF WholeStore, ElementInv, FreshInv
  <1> QED BY <1>1, <1>2 DEF WholeStore, StoreInv, PagesInv, CallInv, Types, Steps, Moving

\* While the first page is being made there is nothing.
LEMMA NothingYet ==
    ASSUME StoreInv, pc \in {"erase", "page"}, op = NoOp
    PROVE  Heads(Source) = {} /\ \A k : DataGet(k) = Absent /\ Held(k) = {}
  <1>1. used = <<>> /\ Running /\ ~Moving
    BY DEF StoreInv, PagesInv, ReqInv, NoOp, Running, Moving
  <1>2. ToSet(used) = {}
    BY <1>1 DEF ToSet
  <1>3. Written = {}
    BY <1>1, <1>2 DEF StoreInv, PagesInv, ListInv, Kept
  <1>4. Searched = {} /\ Source = {}
    BY <1>1, <1>3 DEF Searched, Source, Written
  <1>5. Heads(Source) = {}
    BY <1>4 DEF Heads
  <1>6. ASSUME NEW k PROVE DataGet(k) = Absent
    <2>1. Listed = {}
      BY <1>2 DEF Listed
    <2>2. Live(k, AnyType) = {}
      BY <2>1 DEF Live
    <2> QED BY <2>2 DEF DataGet
  <1> QED BY <1>5, <1>6 DEF Held, Owned

\* Between calls nvds_data_get returns what the elements say.
LEMMA DictReads ==
    WholeStore /\ cut # "clean" /\ op = NoOp
    => \A k \in Keys : \A S : S = Held(k) => DataGet(k) = Reading(S)
  <1> SUFFICES ASSUME WholeStore, cut # "clean", op = NoOp, NEW k \in Keys
               PROVE  DataGet(k) = Reading(Held(k))
    OBVIOUS
  <1>1. CASE pc \in {"erase", "page"}
    <2>1. Held(k) = {} /\ DataGet(k) = Absent
      BY <1>1, NothingYet DEF WholeStore
    <2> QED BY <2>1, ReadNone
  <1>2. CASE pc \in {"idle", "off", "again"}
    <2>1. StoreInv /\ FragInv /\ Alone(Heads(Source))
      BY DEF WholeStore, ElementInv, ViewInv, OwnInv, AloneInv
    <2> QED BY <2>1, <1>2, DataGetReads
  <1> QED BY <1>1, <1>2, BetweenCalls

\* So it is after a step.
LEMMA DictReadsNext ==
    (WholeStore /\ cut # "clean" /\ op = NoOp
     => \A k \in Keys : \A S : S = Held(k) => DataGet(k) = Reading(S))'
  BY DictReads, PTL

\* Between calls, and when a call ends, the dictionary is what the elements say.
LEMMA DictIs ==
    ASSUME WholeStore, cut # "clean", op = NoOp
    PROVE  Dict = [k \in Keys |-> Reading(Held(k))]
  <1>1. Dict = [k \in Keys |-> DataGet(k)]
    BY DEF Dict
  <1>2. \A k \in Keys : DataGet(k) = Reading(Held(k))
    BY DictReads
  <1> QED BY <1>1, <1>2

\* The dictionary after the step that ends a call.
LEMMA DictNext ==
    ASSUME WholeStore', cut' # "clean", op' = NoOp, NEW r,
           \A k \in Keys : \A S : S = Held(k)' => r[k] = Reading(S), r = [k \in Keys |-> r[k]]
    PROVE  Dict' = r
  <1>1. Dict' = [k \in Keys |-> DataGet(k)']
    <2>1. NoOp' = NoOp
      BY DEF NoOp
    <2> QED BY <2>1 DEF Dict
  <1>2. ASSUME NEW k \in Keys PROVE DataGet(k)' = r[k]
    <2>1. PICK S : S = Held(k)'
      OBVIOUS
    <2>2. DataGet(k)' = Reading(S)
      BY <2>1, DictReadsNext DEF NoOp
    <2> QED BY <2>1, <2>2
  <1>3. [k \in Keys |-> DataGet(k)'] = [k \in Keys |-> r[k]]
    BY <1>2
  <1> QED BY <1>1, <1>3

-----------------------------------------------------------------------------
(* The steps of a call                                                     *)

\* Only the end of a call and a power cut have a result.
LEMMA ResultKept ==
    ASSUME WholeStore, [Next]_vars, ~PowerCut, op = NoOp \/ op' # NoOp
    PROVE  ret' = ret /\ cut' = cut
  <1>1. op = NoOp => pc \in {"idle", "off", "erase", "page", "again"}
    BY BetweenCalls
  <1>2. CASE UNCHANGED vars
    BY <1>2 DEF vars
  <1>3. CASE MarkState
    <2>1. cut' = cut /\ pc \in {"delete", "commit", "undo"}
      BY <1>3, MarkStateEff DEF WholeStore, StoreInv, EntryInv, MarkState
    <2>2. op' # NoOp
      BY <1>1, <2>1
    <2>3. ret' = ret
      <3>1. CASE Len(marks.at) > 1
        BY <1>3, <3>1 DEF MarkState
      <3>2. CASE ~(Len(marks.at) > 1)
        BY <1>3, <2>2, <3>2 DEF MarkState, Return
      <3> QED BY <3>1, <3>2
    <2> QED BY <2>1, <2>3
  <1>4. CASE Request
    <2>1. pc = "request" /\ cut' = cut
      BY <1>4 DEF Request
    <2> QED BY <1>1, <1>4, <2>1 DEF Request, NoSpace, Return
  <1>5. CASE PageReady
    <2>1. CASE op = NoOp
      BY <1>5, <2>1 DEF PageReady, Return, NoOp
    <2>2. CASE op' # NoOp
      BY <1>5, <2>2 DEF PageReady, Return, NoSpace
    <2> QED BY <2>1, <2>2
  <1> QED BY <1>2, <1>3, <1>4, <1>5 DEF Next, Step, PutStart, DelStart, CleanStart, Starts, Reboot,
         HasRoom, MarkFull, ErasePage, WritePage, MarkCandidate, CopyEntry,
         CopyState, EraseVictim, WriteHeader, WriteData, CleanSector, Boot

\* Between calls no step is seen.
LEMMA QuietUnseen ==
    ASSUME WholeStore, WholeStore', [Next]_vars, ~PowerCut, cut # "clean", op = NoOp, op' = NoOp
    PROVE  UNCHANGED Store!storeVars
  <1>1. ret' = ret /\ cut' = cut /\ cut' # "clean"
    BY ResultKept
  <1>2. pc \in {"idle", "off", "erase", "page", "again"}
    BY BetweenCalls
  <1>3. ~MarkState /\ ~CleanSector
    BY <1>2, MarkStateEff DEF WholeStore, StoreInv, EntryInv, CleanSector
  <1>4. \A k : Held(k)' = Held(k)
    <2>1. StoreInv /\ MapInv /\ CandidateInv
      BY DEF WholeStore, ViewInv, ElementInv
    <2> QED BY <2>1, <1>3, FollowStep, FollowsHeld
  <1>5. Dict' = Dict
    <2>1. PICK r : r = [k \in Keys |-> Reading(Held(k))]
      OBVIOUS
    <2>2. \A k \in Keys : \A S : S = Held(k)' => r[k] = Reading(S)
      BY <2>1, <1>4
    <2>3. Dict' = r
      BY <2>1, <2>2, <1>1, DictNext
    <2> QED BY <2>1, <2>3, DictIs
  <1>6. CallNow' = CallNow
    BY DEF CallNow, NoOp
  <1> QED BY <1>1, <1>5, <1>6 DEF Store!storeVars

\* A call begins.
LEMMA BeginSeen ==
    ASSUME WholeStore, [Next]_vars,
           \/ \E k \in Keys, v \in Vals : PutStart(k, v)
           \/ \E k \in Keys : DelStart(k)
           \/ CleanStart
    PROVE  Store!StoreNext
  <1>1. pc = "idle" /\ op = NoOp
    BY DEF PutStart, DelStart, CleanStart, Starts, WholeStore, StoreInv, PagesInv, CallInv
  <1>2. ret' = ret /\ cut' = cut /\ snap' = [k \in Keys |-> DataGet(k)]
    BY DEF PutStart, DelStart, CleanStart, Starts
  <1>3. op' # NoOp /\ CallNow' \in Store!Calls
    <2>1. ASSUME NEW k \in Keys, NEW v \in Vals, PutStart(k, v)
          PROVE  op' # NoOp /\ CallNow' \in Store!Calls
      <3>1. op'.fn = "put" /\ op'.k = k /\ op'.v = v
        BY <2>1 DEF PutStart, Starts
      <3>2. CallNow' = [fn |-> "put", k |-> k, v |-> v]
        BY <3>1 DEF CallNow
      <3> QED BY <3>1, <3>2 DEF Store!Calls, NoOp
    <2>2. ASSUME NEW k \in Keys, DelStart(k)
          PROVE  op' # NoOp /\ CallNow' \in Store!Calls
      <3>1. op' = [fn |-> "del", k |-> k]
        BY <2>2 DEF DelStart, Starts
      <3>2. CallNow' = [fn |-> "del", k |-> k]
        BY <3>1 DEF CallNow
      <3> QED BY <3>1, <3>2 DEF Store!Calls, NoOp
    <2>3. ASSUME CleanStart
          PROVE  op' # NoOp /\ CallNow' \in Store!Calls
      <3>1. op' = [fn |-> "clean"]
        BY <2>3 DEF CleanStart, Starts
      <3>2. CallNow' = [fn |-> "clean"]
        BY <3>1 DEF CallNow
      <3> QED BY <3>1, <3>2 DEF Store!Calls, NoOp
    <2> QED BY <2>1, <2>2, <2>3
  <1>4. Dict' = Dict
    <2>1. Dict = [k \in Keys |-> DataGet(k)]
      BY <1>1 DEF Dict
    <2>2. Dict' = snap'
      BY <1>3 DEF Dict, NoOp
    <2> QED BY <2>1, <2>2, <1>2
  <1>5. CallNow = Store!NoCall
    BY <1>1 DEF CallNow, NoOp, Store!NoCall
  <1>7. PICK c : c = CallNow'
    OBVIOUS
  <1>8. c \in Store!Calls /\ Store!Begin(c)
    BY <1>2, <1>3, <1>4, <1>5, <1>7 DEF Store!Begin
  <1> QED BY <1>8 DEF Store!StoreNext

\* What a call does before it ends is not seen.
LEMMA CallUnseen ==
    ASSUME WholeStore, WholeStore', [Next]_vars, op # NoOp, op' # NoOp
    PROVE  UNCHANGED Store!storeVars
  <1>1. ~PowerCut
    BY DEF PowerCut, LoseRam
  <1>2. ret' = ret /\ cut' = cut
    BY <1>1, ResultKept
  <1>3. pc # "idle"
    BY DEF WholeStore, StoreInv, PagesInv, CallInv
  <1>4. /\ snap' = snap /\ op'.fn = op.fn
        /\ op.fn = "del" => op' = op
        /\ op.fn = "put" => op'.k = op.k /\ op'.v = op.v
    BY <1>3, OpSteps DEF WholeStore, PutStart, DelStart, CleanStart, Starts
  <1>5. op \in Operation /\ op' \in Operation
    BY DEF WholeStore, StoreInv, PagesInv, Types
  <1>6. CallNow' = CallNow
    <2>1. CASE op.fn = "put"
      BY <1>4, <2>1 DEF CallNow
    <2>2. CASE op.fn = "del"
      BY <1>4, <2>2 DEF CallNow
    <2>3. CASE op.fn = "clean"
      <3>1. op = [fn |-> "clean"] /\ op' = [fn |-> "clean"]
        BY <2>3, <1>4, <1>5 DEF Operation, NoOp
      <3> QED BY <3>1 DEF CallNow
    <2> QED BY <2>1, <2>2, <2>3, <1>5 DEF Operation
  <1>7. Dict' = Dict
    <2>1. Dict = snap
      BY DEF Dict
    <2>2. Dict' = snap'
      BY DEF Dict, NoOp
    <2> QED BY <2>1, <2>2, <1>4
  <1> QED BY <1>2, <1>6, <1>7 DEF Store!storeVars

-----------------------------------------------------------------------------
(* The end of a call                                                       *)

\* The steps that end a call.
LEMMA EndSteps ==
    ASSUME WholeStore, [Next]_vars, ~PowerCut, op # NoOp, op' = NoOp
    PROVE  /\ MarkState \/ Request \/ PageReady
           /\ MarkState => Len(marks.at) <= 1 /\ pc' # pc /\ pc \in {"delete", "commit", "undo"}
           /\ op.fn \in {"put", "del", "clean"}
  <1>1. op \in Operation
    BY DEF WholeStore, StoreInv, PagesInv, Types
  <1>2. op.fn \in {"put", "del", "clean"}
    BY <1>1 DEF Operation
  <1>3. pc # "idle"
    BY DEF WholeStore, StoreInv, PagesInv, CallInv
  <1>4. ~UNCHANGED vars
    BY DEF vars
  <1>5. ~WriteHeader
    <2> SUFFICES ASSUME WriteHeader PROVE FALSE
      OBVIOUS
    <2>1. pc = "header" /\ op' = [op EXCEPT !.len = Span(NextHeader)]
      BY DEF WriteHeader
    <2>2. op \in [fn : {"put"}, k : Keys, v : Vals, frag : Nat, len : Nat, rem : Nat]
      BY <2>1, <1>1 DEF WholeStore, StoreInv, PagesInv, CallInv, Operation, NoOp
    <2>3. op'.fn = "put"
      BY <2>1, <2>2
    <2> QED BY <2>3 DEF NoOp
  <1>6. MarkState \/ Request \/ PageReady
    BY <1>3, <1>4, <1>5 DEF Next, Step, PutStart, DelStart, CleanStart, Starts, Reboot,
         HasRoom, MarkFull, ErasePage, WritePage, MarkCandidate, CopyEntry,
         CopyState, EraseVictim, WriteData, CleanSector, Boot
  <1>7. ASSUME MarkState PROVE Len(marks.at) <= 1 /\ pc' # pc /\ pc \in {"delete", "commit", "undo"}
    <2>1. pc \in {"delete", "commit", "undo"} /\ (pc' = pc => op' = op)
      BY <1>7, MarkStateEff DEF WholeStore, StoreInv, EntryInv
    <2>2. Len(marks.at) \in Nat
      BY DEF WholeStore, StoreInv, EntryInv, MarkInv
    <2>3. Len(marks.at) > 1 => op' = op
      BY <1>7 DEF MarkState
    <2> QED BY <2>1, <2>2, <2>3
  <1> QED BY <1>2, <1>6, <1>7

\* The keys a call does not name.
LEMMA OthersKept ==
    ASSUME WholeStore, [Next]_vars, ~PowerCut, cut # "clean", op.fn \in {"put", "del"}, op' = NoOp
    PROVE  \A k \in Keys : k # op.k => \A S : S = Held(k)' => Reading(S) = snap[k]
  <1>1. /\ StoreInv /\ MapInv /\ CandidateInv /\ OwnInv /\ KeptInv
    BY DEF WholeStore, ElementInv, ViewInv
  <1> SUFFICES ASSUME NEW k \in Keys, k # op.k PROVE Held(k)' = Held(k)
    BY <1>1 DEF KeptInv
  <1>2. CASE MarkState
    <2>1. pc \in {"delete", "commit", "undo"}
      BY <1>1, <1>2, MarkStateEff DEF StoreInv, EntryInv
    <2> QED BY <1>1, <1>2, <2>1, DeleteHeld, CommitHeld DEF OwnInv
  <1>3. CASE ~MarkState
    <2>1. ~CleanSector
      BY <1>1 DEF CleanSector, StoreInv, PagesInv, CallInv
    <2> QED BY <1>1, <1>3, <2>1, FollowStep, FollowsHeld
  <1> QED BY <1>2, <1>3

\* When a put or a delete returns, the dictionary has changed at its key only.
LEMMA EndDict ==
    ASSUME WholeStore, WholeStore', [Next]_vars, ~PowerCut, cut # "clean", cut' # "clean",
           op.fn \in {"put", "del"}, op' = NoOp,
           NEW K, K = op.k, NEW w, \A S : S = Held(K)' => Reading(S) = w
    PROVE  Dict' = [Dict EXCEPT ![K] = w]
  <1>1. Dict = snap
    BY DEF Dict, NoOp
  <1>2. snap \in [Keys -> Vals \cup {Absent, Mixed}]
    BY DEF WholeStore, StoreInv, PagesInv, Types
  <1>3. PICK r : r = [snap EXCEPT ![K] = w]
    OBVIOUS
  <1>4. r = [k \in Keys |-> r[k]] /\ \A k \in Keys : r[k] = IF k = K THEN w ELSE snap[k]
    BY <1>2, <1>3
  <1>5. \A k \in Keys : \A S : S = Held(k)' => r[k] = Reading(S)
    BY <1>4, OthersKept
  <1>6. Dict' = r
    BY <1>4, <1>5, DictNext
  <1> QED BY <1>1, <1>3, <1>6

\* A put that has written its last header reads as its value, unless that header is spoilt.
LEMMA CommitReads ==
    ASSUME SmallOnly, WholeStore, [Next]_vars, ~PowerCut, MarkState, pc = "commit", op' = NoOp,
           cut # "clean", NEW K, NEW V, K = op.k, V = op.v, NEW S, S = Held(K)'
    PROVE  Reading(S) = V \/ (Reading(S) = Absent /\ cut # "none")
  <1>1. /\ StoreInv /\ MapInv /\ CandidateInv /\ OwnInv /\ WriteInv /\ TextInv /\ GrowInv /\ FragInv
    BY DEF WholeStore, ElementInv, ViewInv, OwnInv
  <1>2. op \in [fn : {"put"}, k : Keys, v : Vals, frag : Nat, len : Nat, rem : Nat] /\ op.fn = "put"
    BY <1>1 DEF StoreInv, PagesInv, Types, CallInv, Operation, NoOp
  <1>3. op # NoOp /\ pc' # pc /\ ~Fragment
    <2>1. op # NoOp
      BY <1>2 DEF NoOp
    <2>3. pc' # pc /\ Len(marks.at) <= 1
      BY <2>1, EndSteps
    <2>4. Len(marks.at) \in Nat
      BY <1>1 DEF StoreInv, EntryInv, MarkInv
    <2>5. \/ op' = [op EXCEPT !.rem = @ - op.len, !.frag = @ + 1]
          \/ ~Fragment
      BY <2>3, <2>4 DEF MarkState
    <2>6. PICK l : l = op.len
      OBVIOUS
    <2>7. op' # [op EXCEPT !.rem = @ - l, !.frag = @ + 1]
      BY <1>2 DEF NoOp
    <2> QED BY <2>1, <2>3, <2>5, <2>6, <2>7
  <1>4. PICK H, G, z, O : H = Heads(Source) /\ G = Heads(Source)' /\ z = NewHead /\ O = Owned(K)'
    OBVIOUS
  <1>5. /\ G \subseteq H \cup {z} /\ O = {x \in G : At(x).k = K} /\ S = {Elem(x) : x \in O}
        /\ Held(K) \subseteq S
    BY <1>1, <1>4, MarkKeeps, CommitHeld
  <1>6. \A x \in H : At(x).k = K => x = z \/ (At(x).t = "bulk" /\ V \in BulkVals)
    BY <1>1, <1>2, <1>4 DEF WriteInv
  <1>7. V \in Vals /\ (V \notin SmallVals => Steady)
    BY <1>1, <1>2, SmallPuts DEF StoreInv
  <1>8. \A x : Elem(x).h = At(x)
    BY DEF Elem
  <1>9. CASE At(z).c # "head"
    <2>1. ~Steady
      BY <1>1, <1>4, <1>9 DEF WriteInv
    <2>2. V \in SmallVals /\ V \notin BulkVals
      BY <2>1, <1>7, NvdsAssumption
    <2>3. \A x \in G : At(x).c = "head"
      <3>1. \A x \in G : At(x)'.c = "head"
        BY <1>4 DEF Heads
      <3> QED BY <3>1, MarkKeeps, <1>1
    <2>4. O = {}
      BY <2>2, <2>3, <1>5, <1>6, <1>9
    <2>5. cut # "none"
      <3>1. cut = "none" => At(z).c = "head"
        BY <1>1, <1>4 DEF TextInv, Wanted, Header
      <3> QED BY <3>1, <1>9
    <2> QED BY <2>4, <2>5, <1>5, ReadNone
  <1>10. CASE At(z).c = "head"
    <2>1. z \in O /\ At(z) = Wanted
      BY <1>1, <1>3, <1>4, <1>10, CommitHeld DEF TextInv
    <2>2. PICK e : e = Elem(z)
      OBVIOUS
    <2>3. e \in S /\ e.h = At(z)
      BY <2>1, <2>2, <1>5, <1>8
    <2>4. \A x \in O : x = z \/ (x \in H /\ At(x).t = "bulk" /\ V \in BulkVals)
      BY <1>5, <1>6
    <2>5. CASE V \in SmallVals
      <3>1. V \notin BulkVals
        BY <2>5, NvdsAssumption
      <3>2. S = {e}
        BY <3>1, <2>1, <2>2, <2>4, <1>5
      <3>3. e.h.t = "small" /\ e.h.v = V
        BY <2>1, <2>3, <2>5 DEF Wanted, Header, NewType
      <3> QED BY <3>2, <3>3, ReadSmall
    <2>6. CASE V \in MiddleVals
      <3>1. V \notin BulkVals /\ V \notin SmallVals
        BY <2>6, NvdsAssumption
      <3>2. S = {e}
        BY <3>1, <2>1, <2>2, <2>4, <1>5
      <3>3. PICK n : n = Entries[V] /\ n \in Nat
        BY <2>6, NvdsAssumption
      <3>4. op.len = n /\ op.rem = n
        BY <2>6, <3>3, <1>1, <1>2 DEF TextInv, StoreInv, PagesInv, PutInv
      <3>5. At(z) = Header(K, "middle", n, V, 0)
        BY <2>1, <2>6, <3>1, <3>4 DEF Wanted, NewType
      <3>6. e.h.t = "middle" /\ e.h.v = V /\ Span(At(z)) = n
        BY <2>3, <3>5 DEF Header, Span
      <3>7. Done = 0
        BY <3>3, <3>4 DEF Done
      <3>8. \A o \in 1..n : slot[z[1]][z[2] + o] = Data(V, o)
        <4>1. \A o \in 1..n : slot[z[1]][z[2] + o] = Data(V, Done + o)
          BY <3>4, <1>1, <1>4 DEF TextInv
        <4>2. \A o \in 1..n : 0 + o = o
          BY <3>3
        <4> QED BY <4>1, <4>2, <3>7
      <3>9. e.b = Contents(V)
        <4>1. e.b = [o \in 1..n |-> slot[z[1]][z[2] + o]]
          BY <2>2, <3>6 DEF Elem
        <4> QED BY <4>1, <3>3, <3>8 DEF Contents
      <3> QED BY <3>2, <3>6, <3>9, ReadWhole
    <2>7. CASE V \in BulkVals
      <3>1. V \notin SmallVals /\ V \notin MiddleVals
        BY <2>7, NvdsAssumption
      <3>2. op.rem = 0 /\ op.frag \in Nat
        BY <2>7, <1>2, <1>3 DEF Fragment
      <3>3. PICK n, E : n = op.frag /\ n \in Nat /\ E = Entries[V] /\ E \in Nat /\ E - 0 = E
        BY <3>2, <2>7, NvdsAssumption
      <3>4. PICK off \in [0..n -> 0..E] : LaidAs(off, K, V, n, E, Held(K))
        <4>1. GrowAs(K, V, n, 0, pc, Held(K), Numbers(K))
          BY <3>1, <3>2, <3>3, <1>1, <1>2, GrowIs
        <4> QED BY <4>1, <2>7, <3>3 DEF GrowAs
      <3>5. LaidAs(off, K, V, n, E, S)
        BY <3>4, <1>5 DEF LaidAs
      <3>6. e.h.t = "bulkinfo" /\ e.h.n = n
        BY <2>1, <2>3, <2>7, <3>1, <3>3, <1>3 DEF Wanted, Header, NewType
      <3>7. \A d \in S : d = e \/ d.h.t = "bulk"
        BY <2>2, <2>4, <1>5, <1>8
      <3>8. ASSUME NEW c \in S, NEW d \in S, c.h.t = "bulk", d.h.t = "bulk", c.h.f = d.h.f
            PROVE  c = d
        <4>1. PICK x \in O, y \in O : c = Elem(x) /\ d = Elem(y)
          BY <1>5
        <4>2. At(x).t = "bulk" /\ At(y).t = "bulk" /\ At(x).f = At(y).f
          BY <4>1, <3>8, <1>8
        <4>3. x \in H /\ y \in H
          BY <4>2, <2>3, <2>4, <3>6
        <4>4. At(x).k = K /\ At(y).k = K
          BY <1>5
        <4>5. x = y
          BY <4>2, <4>3, <4>4, <1>1, <1>4 DEF FragInv
        <4> QED BY <4>1, <4>5
      <3>9. \A c, d \in S : c.h.t = "bulk" /\ d.h.t = "bulk" /\ c.h.f = d.h.f => c = d
        BY <3>8
      <3> QED BY <2>3, <2>7, <3>3, <3>5, <3>6, <3>7, <3>9, ReadJoined
    <2> QED BY <2>5, <2>6, <2>7, <1>7 DEF Vals
  <1> QED BY <1>9, <1>10

\* A put that finds no space has nothing of its key but fragments.
LEMMA NoSpaceReads ==
    ASSUME WholeStore, [Next]_vars, ~PowerCut, Request \/ PageReady, op.fn = "put", op' = NoOp,
           cut # "clean", NEW K, K = op.k, NEW S, S = Held(K)'
    PROVE  Reading(S) = Absent /\ ret' = "no_space" /\ cut' = cut
  <1>1. /\ StoreInv /\ MapInv /\ CandidateInv /\ OwnInv /\ WriteInv
    BY DEF WholeStore, ElementInv, ViewInv, OwnInv
  <1>2. pc \in {"request", "again"}
    BY DEF Request, PageReady
  <1>3. op # NoOp /\ NoOp.fn # "put"
    BY DEF NoOp
  <1>4. ret' = "no_space" /\ cut' = cut
    BY <1>3 DEF Request, PageReady, NoSpace, Return
  <1>5. ~MarkState /\ ~CleanSector
    BY <1>1, <1>2, MarkStateEff DEF StoreInv, EntryInv, CleanSector
  <1>6. Held(K)' = Held(K)
    BY <1>1, <1>5, FollowStep, FollowsHeld
  <1>7. \A x \in Owned(K) : At(x).t = "bulk"
    BY <1>1, <1>2 DEF WriteInv, Owned
  <1>8. \A e \in Held(K) : e.h.t = "bulk"
    BY <1>7 DEF Held, Elem
  <1> QED BY <1>4, <1>6, <1>8, ReadNone

\* The step that ends a put is PutReturns: the value is there, or was lost to an earlier
\* cut, or there was no space and the key has none.
LEMMA PutEndSeen ==
    ASSUME SmallOnly, WholeStore, WholeStore', [Next]_vars, ~PowerCut, cut # "clean",
           op.fn = "put", op' = NoOp
    PROVE  Store!PutReturns
  <1>1. PICK K, V, S : K = op.k /\ V = op.v /\ S = Held(K)'
    OBVIOUS
  <1>2. op # NoOp /\ op.fn # "none"
    BY DEF NoOp
  <1>3. /\ MarkState \/ Request \/ PageReady
        /\ MarkState => Len(marks.at) <= 1 /\ pc' # pc /\ pc \in {"delete", "commit", "undo"}
    BY <1>2, EndSteps
  <1>4. CallNow.fn = "put" /\ CallNow.k = K /\ CallNow.v = V
    BY <1>1 DEF CallNow
  <1>5. CallNow' = Store!NoCall
    BY DEF CallNow, NoOp, Store!NoCall
  <1>6. ASSUME NEW w, Reading(S) = w, cut' = cut PROVE Dict' = [Dict EXCEPT ![K] = w]
    <2>1. \A T : T = Held(K)' => Reading(T) = w
      BY <1>1, <1>6
    <2>2. cut' # "clean"
      BY <1>6
    <2>3. op.fn \in {"put", "del"} /\ K = op.k
      BY <1>1
    <2> QED BY <2>1, <2>2, <2>3, EndDict
  <1>7. CASE Request \/ PageReady
    <2>1. Reading(S) = Absent /\ ret' = "no_space" /\ cut' = cut
      BY <1>1, <1>7, NoSpaceReads
    <2> QED BY <2>1, <1>4, <1>5, <1>6 DEF Store!PutReturns
  <1>8. CASE MarkState
    <2>1. Len(marks.at) \in Nat /\ cut' = cut
      BY <1>8 DEF WholeStore, StoreInv, EntryInv, MarkInv, MarkState
    <2>2. CASE pc = "commit"
      <3>1. ret' = "ok"
        <4>1. ~(pc' = "room")
          BY <2>2, <1>8, <1>3, <2>1 DEF MarkState, Return, StoreInv, WholeStore, PagesInv, CallInv, NoOp
        <4> QED BY <2>1, <2>2, <1>3, <1>8, <4>1 DEF MarkState, Return
      <3>2. Reading(S) = V \/ (Reading(S) = Absent /\ cut # "none")
        BY <1>1, <1>8, <2>2, CommitReads
      <3> QED BY <3>1, <3>2, <2>1, <1>4, <1>5, <1>6 DEF Store!PutReturns
    <2>3. CASE pc = "undo"
      <3>1. ret' = "no_space"
        BY <2>1, <2>3, <1>3, <1>8 DEF MarkState, Return
      <3>2. S = {}
        BY <1>1, <1>3, <1>8, <2>3, DeleteHeld DEF WholeStore, ElementInv, OwnInv
      <3>3. Reading(S) = Absent
        BY <3>2, ReadNone
      <3> QED BY <3>1, <3>3, <2>1, <1>4, <1>5, <1>6 DEF Store!PutReturns
    <2>4. CASE pc = "delete"
      <3>1. op' = op
        BY <2>1, <2>4, <1>3, <1>8 DEF MarkState
      <3> QED BY <3>1, <1>2
    <2> QED BY <2>2, <2>3, <2>4, <1>3, <1>8
  <1> QED BY <1>3, <1>7, <1>8

\* The step that ends a delete is DelReturns: its key holds nothing.
LEMMA DelEndSeen ==
    ASSUME WholeStore, WholeStore', [Next]_vars, ~PowerCut, cut # "clean",
           op.fn = "del", op' = NoOp
    PROVE  Store!DelReturns
  <1>1. PICK K, S : K = op.k /\ S = Held(K)'
    OBVIOUS
  <1>2. op # NoOp /\ pc = "delete"
    BY DEF NoOp, WholeStore, StoreInv, PagesInv, CallInv
  <1>3. MarkState /\ pc' # pc /\ Len(marks.at) <= 1
    BY <1>2, EndSteps DEF Request, PageReady
  <1>4. ret' = "ok" /\ cut' = cut
    <2>1. Len(marks.at) \in Nat
      BY DEF WholeStore, StoreInv, EntryInv, MarkInv
    <2> QED BY <2>1, <1>2, <1>3 DEF MarkState, Return
  <1>5. CallNow.fn = "del" /\ CallNow.k = K
    BY <1>1 DEF CallNow
  <1>6. CallNow' = Store!NoCall
    BY DEF CallNow, NoOp, Store!NoCall
  <1>7. S = {}
    BY <1>1, <1>2, <1>3, DeleteHeld DEF WholeStore, ElementInv, OwnInv
  <1>8. \A T : T = Held(K)' => Reading(T) = Absent
    BY <1>1, <1>7, ReadNone
  <1>9. Dict' = [Dict EXCEPT ![K] = Absent]
    <2>1. op.fn \in {"put", "del"} /\ cut' # "clean"
      BY <1>4
    <2> QED BY <2>1, <1>1, <1>8, EndDict
  <1> QED BY <1>4, <1>5, <1>6, <1>9 DEF Store!DelReturns

\* The step that ends nvds_clean is CleanReturns: no key holds anything.
LEMMA CleanEndSeen ==
    ASSUME WholeStore, WholeStore', [Next]_vars, ~PowerCut, op.fn = "clean", op' = NoOp
    PROVE  Store!CleanReturns
  <1>1. op # NoOp
    BY DEF NoOp
  <1>2. PageReady
    BY <1>1, EndSteps DEF Request, WholeStore, StoreInv, PagesInv, CallInv
  <1>3. pc = "again" /\ ret' = "ok" /\ cut' = "none" /\ UNCHANGED <<slot, est, pst, inst>> /\ pc' = "idle"
    BY <1>1, <1>2 DEF PageReady, Return, flash
  <1>4. \A p \in Pages : \A i \in Slots : slot[p][i] = Blank
    BY <1>3 DEF WholeStore, ViewInv, BlankInv
  <1>5. \A k : Held(k)' = {}
    <2>1. Slots' = Slots
      BY InstKept
    <2>2. Source' \subseteq Pages
      BY <1>3 DEF Source, Searched, Moving
    <2>3. ASSUME NEW x \in Heads(Source)' PROVE FALSE
      <3>1. x[1] \in Pages /\ x[2] \in Slots /\ slot'[x[1]][x[2]].c = "head"
        BY <2>1, <2>2 DEF Heads, At
      <3> QED BY <3>1, <1>3, <1>4 DEF Blank
    <2> QED BY <2>3 DEF Held, Owned
  <1>6. Dict' = [k \in Keys |-> Absent]
    <2>1. PICK r : r = [k \in Keys |-> Absent]
      OBVIOUS
    <2>2. \A k \in Keys : \A S : S = Held(k)' => r[k] = Reading(S)
      BY <2>1, <1>5, ReadNone
    <2>3. r = [k \in Keys |-> r[k]] /\ cut' # "clean"
      BY <2>1, <1>3
    <2>4. Dict' = r
      BY <2>2, <2>3, DictNext
    <2> QED BY <2>1, <2>4
  <1>7. CallNow.fn = "clean"
    BY DEF CallNow
  <1>8. CallNow' = Store!NoCall
    BY DEF CallNow, NoOp, Store!NoCall
  <1> QED BY <1>3, <1>6, <1>7, <1>8 DEF Store!CleanReturns

-----------------------------------------------------------------------------
(* A power cut                                                             *)

\* What is found after a cut was there before it.
LEMMA CutHeads ==
    ASSUME StoreInv, OriginInv, [Next]_vars, PowerCut
    PROVE  \A x \in Heads(Source)' : \E y \in Heads(Source) : At(x)' = At(y)
  <1>1. /\ pc' = "off" /\ (UNCHANGED flash \/ \E p \in InWork : Erased(p, "error"))
    BY DEF PowerCut, LoseRam
  <1>2. ~Moving' /\ Copied' = {} /\ Slots' = Slots
    BY <1>1, InstKept DEF Moving, Copied
  <1>3. Source' = Searched'
    BY <1>2 DEF Source
  <1>4. Types /\ pst \in [Pages -> PageStates]
    BY DEF StoreInv, PagesInv, Types
  <1>5. PICK Q, H : Q = Searched' /\ H = Heads(Source)
    OBVIOUS
  <1>6. ASSUME NEW q \in Q PROVE q \in Pages /\ q \in Searched /\ slot'[q] = slot[q] /\ est'[q] = est[q]
    <2>1. q \in Pages /\ pst'[q] \in {"active", "full"}
      BY <1>5 DEF Searched
    <2>2. CASE UNCHANGED flash
      BY <2>1, <2>2 DEF flash, Searched
    <2>3. ASSUME NEW p \in InWork, Erased(p, "error")
          PROVE  q \in Searched /\ slot'[q] = slot[q] /\ est'[q] = est[q]
      <3>1. p \in Pages
        BY InWorkIs DEF StoreInv
      <3>2. /\ pst' = [pst EXCEPT ![p] = "error"]
            /\ \A r \in Pages \ {p} : slot'[r] = slot[r] /\ est'[r] = est[r]
        BY <1>4, <2>3, <3>1, ErasedSlots DEF Erased
      <3>3. q # p /\ pst'[q] = pst[q]
        BY <2>1, <3>1, <3>2, <1>4
      <3> QED BY <2>1, <3>2, <3>3 DEF Searched
    <2> QED BY <1>1, <2>1, <2>2, <2>3
  <1> SUFFICES ASSUME NEW x \in Heads(Source)' PROVE \E y \in H : At(x)' = At(y)
    BY <1>5
  <1>7. PICK q \in Q, i \in Slots : x = <<q, i>> /\ est'[q][i] = "used" /\ slot'[q][i].c = "head"
    BY <1>2, <1>3, <1>5 DEF Heads, At
  <1>8. /\ q \in Pages /\ q \in Searched /\ slot'[q] = slot[q] /\ est[q][i] = "used"
        /\ slot[q][i].c = "head"
    BY <1>6, <1>7
  <1>9. At(x)' = At(x) /\ At(x) = slot[q][i]
    BY <1>7, <1>8 DEF At
  <1>10. CASE q \in Source
    <2>1. x \in H
      BY <1>5, <1>7, <1>8, <1>9, <1>10 DEF Heads
    <2> QED BY <2>1, <1>9
  <1>11. CASE q \notin Source
    <2>1. Moving /\ q = req.page
      BY <1>8, <1>11 DEF Source
    <2>2. x \in Heads({req.page})
      BY <2>1, <1>7, <1>8, <1>9 DEF Heads
    <2>3. PICK j \in 1..(req.from - 1) : est[req.vic][j] = "used" /\ slot[req.vic][j] = At(x)
      BY <2>1, <2>2 DEF OriginInv
    <2>4. j \in Slots
      <3>1. req.from \in 1..(N + 1) /\ N \in Nat /\ Slots = 1..N
        BY <2>1, HeadFacts DEF StoreInv, EntryInv, CopyInv
      <3> QED BY <3>1
    <2>5. req.vic \in Source
      <3>1. req.vic # req.page
        BY <2>1, ListFacts DEF StoreInv, Moving
      <3> QED BY <2>1, <3>1 DEF Source
    <2>6. PICK y : y = <<req.vic, j>>
      OBVIOUS
    <2>7. At(y) = At(x)
      BY <2>3, <2>6 DEF At
    <2>8. y \in H
      BY <2>3, <2>4, <2>5, <2>6, <2>7, <1>5, <1>8, <1>9 DEF Heads
    <2> QED BY <2>7, <2>8, <1>9
  <1> QED BY <1>10, <1>11

\* With small elements only, what is read is the value of one of them.
LEMMA SmallGet ==
    StoreInv /\ KindInv /\ pc = "off" /\ ~Steady =>
    \A k \in Keys : \/ DataGet(k) = Absent
                    \/ \E x \in Heads(Source) : At(x).k = k /\ DataGet(k) = At(x).v
  <1> SUFFICES ASSUME StoreInv, KindInv, pc = "off", ~Steady, NEW k \in Keys, DataGet(k) # Absent
               PROVE  \E x \in Heads(Source) : At(x).k = k /\ DataGet(k) = At(x).v
    OBVIOUS
  <1>1. PICK L, w : L = Live(k, AnyType) /\ w = First(Live(k, AnyType))
    OBVIOUS
  <1>2. L # {}
    BY <1>1 DEF DataGet
  <1>3. w \in L
    BY <1>1, <1>2, FirstLive
  <1>4. w \in Heads(Source) /\ At(w).k = k
    BY <1>1, <1>3, LiveIsHeads
  <1>5. w[1] \in Pages /\ w[2] \in Slots /\ At(w).c = "head"
    BY <1>4, HeadPlaces
  <1>6. At(w).t = "small"
    BY <1>5 DEF KindInv, At
  <1>7. DataGet(k) = At(w).v
    BY <1>1, <1>2, <1>6 DEF DataGet
  <1> QED BY <1>4, <1>7

\* So it is after a step.
LEMMA SmallGetNext ==
    (StoreInv /\ KindInv /\ pc = "off" /\ ~Steady =>
     \A k \in Keys : \/ DataGet(k) = Absent
                     \/ \E x \in Heads(Source) : At(x).k = k /\ DataGet(k) = At(x).v)'
  BY SmallGet, PTL

\* A power cut is PowerCut: a key shows its old value, the new one, or none.
LEMMA CutSeen ==
    ASSUME WholeStore, WholeStore', [Next]_vars, PowerCut, cut # "clean"
    PROVE  Store!PowerCut
  <1>1. /\ pc' = "off" /\ op' = NoOp /\ ret' = "cut" /\ inst.supply = "failing"
        /\ cut' = IF op.fn = "clean" THEN "clean" ELSE "call"
    BY DEF PowerCut, LoseRam
  <1>2. ~Steady /\ ~Steady'
    BY <1>1, InstKept DEF Steady
  <1>3. /\ StoreInv /\ KindInv /\ OwnInv /\ OriginInv /\ SeenInv /\ Alone(Heads(Source))
    BY DEF WholeStore, ElementInv, ViewInv, OwnInv, AloneInv
  <1>4. Dict' = [k \in Keys |-> DataGet(k)']
    BY <1>1 DEF Dict, NoOp
  <1>5. ASSUME NEW y \in Heads(Source), NEW k \in Keys, At(y).k = k
        PROVE  /\ At(y).v \in Vals
               /\ \/ At(y).v = Dict[k]
                  \/ op.fn = "put" /\ k = op.k /\ At(y).v = op.v
    <2>1. y[1] \in Pages /\ y[2] \in Slots /\ At(y).c = "head" /\ y \in Pages \X Slots
      BY <1>3, HeadPlaces, HeadFacts
    <2>2. At(y).v \in Vals
      BY <2>1, <1>3, HeadCell
    <2>3. CASE op # NoOp
      <3>1. Dict = snap
        BY <2>3 DEF Dict
      <3> QED BY <3>1, <2>2, <2>3, <1>2, <1>3, <1>5 DEF SeenInv
    <2>4. CASE op = NoOp
      <3>1. At(y).t = "small"
        BY <2>1, <1>2, <1>3 DEF KindInv, At
      <3>2. Reading(Held(k)) = At(y).v
        BY <3>1, <1>3, <1>5, SmallReading
      <3>3. Dict = [i \in Keys |-> Reading(Held(i))]
        BY <2>4, DictIs
      <3> QED BY <3>2, <3>3, <2>2
    <2> QED BY <2>3, <2>4
  <1>6. ASSUME NEW k \in Keys
        PROVE  \/ DataGet(k)' = Absent
               \/ DataGet(k)' \in Vals /\ \/ DataGet(k)' = Dict[k]
                                          \/ op.fn = "put" /\ k = op.k /\ DataGet(k)' = op.v
    <2>1. CASE DataGet(k)' # Absent
      <3>1. PICK x \in Heads(Source)' : At(x)'.k = k /\ DataGet(k)' = At(x)'.v
        BY <2>1, <1>1, <1>2, SmallGetNext DEF WholeStore, ElementInv
      <3>2. PICK y \in Heads(Source) : At(x)' = At(y)
        BY <1>3, CutHeads
      <3> QED BY <3>1, <3>2, <1>5
    <2> QED BY <2>1
  <1>7. CallNow' = Store!NoCall
    BY <1>1 DEF CallNow, NoOp, Store!NoCall
  <1>8. /\ CallNow.fn = op.fn
        /\ op.fn = "put" => CallNow.k = op.k /\ CallNow.v = op.v
    BY DEF CallNow
  <1>9. Dict' \in [Keys -> Vals \cup {Absent}]
    BY <1>4, <1>6
  <1>10. \A k \in Keys : Dict'[k] \in {Dict[k], Absent}
                            \cup IF CallNow.fn = "put" /\ CallNow.k = k THEN {CallNow.v} ELSE {}
    BY <1>4, <1>6, <1>8
  <1> QED BY <1>1, <1>7, <1>8, <1>9, <1>10 DEF Store!PowerCut

\* An area that was erased in part promises nothing.
LEMMA HalfErasedSeen ==
    ASSUME [Next]_vars, cut = "clean"
    PROVE  Store!HalfErased
  <1>1. CASE UNCHANGED vars
    BY <1>1 DEF vars, Store!HalfErased
  <1>2. CASE Next
    BY <1>2 DEF Store!HalfErased, Next, Step, PutStart, DelStart, CleanStart, Starts, Reboot,
         PowerCut, MarkState, HasRoom, MarkFull, Request, ErasePage, WritePage, MarkCandidate,
         CopyEntry, CopyState, EraseVictim, PageReady, WriteHeader, WriteData, CleanSector, Boot
  <1> QED BY <1>1, <1>2

\* Every step of the store is one that NvdsStore allows, or is not seen.
LEMMA StoreSeen ==
    ASSUME SmallOnly, WholeStore, WholeStore', [Next]_vars
    PROVE  [Store!StoreNext]_Store!storeVars
  <1>1. CASE cut = "clean"
    BY <1>1, HalfErasedSeen DEF Store!StoreNext
  <1>2. CASE cut # "clean" /\ PowerCut
    BY <1>2, CutSeen DEF Store!StoreNext
  <1>3. CASE cut # "clean" /\ ~PowerCut /\ op = NoOp /\ op' = NoOp
    BY <1>3, QuietUnseen
  <1>4. CASE cut # "clean" /\ ~PowerCut /\ op = NoOp /\ op' # NoOp
    <2>1. \/ \E k \in Keys, v \in Vals : PutStart(k, v)
          \/ \E k \in Keys : DelStart(k)
          \/ CleanStart
      <3>1. op.fn = "none"
        BY <1>4 DEF NoOp
      <3>2. op' \in Operation
        BY DEF WholeStore, StoreInv, PagesInv, Types
      <3>3. op'.fn # "none"
        BY <1>4, <3>2 DEF Operation, NoOp
      <3> QED BY <1>4, <3>1, <3>3, OpSteps DEF WholeStore
    <2> QED BY <2>1, BeginSeen
  <1>5. CASE cut # "clean" /\ ~PowerCut /\ op # NoOp /\ op' # NoOp
    BY <1>5, CallUnseen
  <1>6. CASE cut # "clean" /\ ~PowerCut /\ op # NoOp /\ op' = NoOp
    <2>1. op.fn \in {"put", "del", "clean"}
      BY <1>6, EndSteps
    <2>2. CASE op.fn = "put"
      BY <1>6, <2>2, PutEndSeen DEF Store!StoreNext
    <2>3. CASE op.fn = "del"
      BY <1>6, <2>3, DelEndSeen DEF Store!StoreNext
    <2>4. CASE op.fn = "clean"
      BY <1>6, <2>4, CleanEndSeen DEF Store!StoreNext
    <2> QED BY <2>1, <2>2, <2>3, <2>4
  <1> QED BY <1>1, <1>2, <1>3, <1>4, <1>5, <1>6

\* An erased flash is an empty dictionary.
LEMMA StoreBegins ==
    ASSUME Init
    PROVE  Store!StoreInit
  <1>1. pst = [p \in Pages |-> "blank"] /\ op = NoOp /\ ret = "ok" /\ cut = "none"
    BY DEF Init
  <1>2. ASSUME NEW k PROVE DataGet(k) = Absent
    <2>1. \A p \in Listed : p \in Pages => ~(pst[p] \in {"active", "full"})
      BY <1>1
    <2>2. Listed \in SUBSET Pages
      BY DEF Init, Listed
    <2>3. Live(k, AnyType) = {}
      BY <2>1, <2>2 DEF Live
    <2> QED BY <2>3 DEF DataGet
  <1>3. Dict = [k \in Keys |-> Absent]
    BY <1>1, <1>2 DEF Dict
  <1>4. CallNow = Store!NoCall
    BY <1>1 DEF CallNow, NoOp, Store!NoCall
  <1> QED BY <1>1, <1>3, <1>4 DEF Store!StoreInit

\* The store is the dictionary of NvdsStore: whatever data_element_put, data_element_del,
\* nvds_clean, a page move, a boot or a power cut writes to the flash, what can be read
\* between calls changes as NvdsStore says and at no other step.
THEOREM StoreImplemented ==
    ASSUME SmallOnly
    PROVE  Spec => Implements
  <1>1. WholeStore /\ WholeStore' /\ [Next]_vars => [Store!StoreNext]_Store!storeVars
    BY StoreSeen
  <1>2. Init => Store!StoreInit
    BY StoreBegins
  <1>3. Spec => []StoreInv
    BY EntriesKept
  <1>4. Spec => []ElementInv
    BY ElementsAlone
  <1>5. Spec => []ViewInv
    BY ViewKept
  <1>6. StoreInv /\ ElementInv /\ ViewInv => WholeStore
    BY DEF WholeStore
  <1> QED BY <1>1, <1>2, <1>3, <1>4, <1>5, <1>6, PTL DEF Spec, Implements, Store!StoreSpec

=============================================================================
