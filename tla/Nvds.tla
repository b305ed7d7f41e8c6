-------------------------------- MODULE Nvds --------------------------------
(***************************************************************************)
(* The key/value store of plf/src/nvds/nvds_flash.c: the pages in flash,   *)
(* the page lists kept in RAM, and the calls nvds_data_put, nvds_data_del, *)
(* nvds_clean and nvds_flash_env_init (nvds_data_get changes nothing: it   *)
(* is the operator DataGet).  nvds_mutex lets one call in at a time, so    *)
(* the only concurrency is with the power supply: every write and erase    *)
(* of the flash is a step of its own, and the power may be cut before any  *)
(* of them.  A write to the state of an entry changes one entry only and   *)
(* is done or not; a page header or an erase may be cut half way, which    *)
(* leaves a page whose header fails its CRC ("error").  A slot programmed  *)
(* half way is covered by the two cases of nothing and all of it: both are *)
(* followed by a state table that calls the slot free.                     *)
(*                                                                         *)
(* Keys live in the default namespace (namespace NULL, index 0xFE), whose  *)
(* keys are not counted.  Sizes are in entries: the code's page has 126.   *)
(***************************************************************************)
EXTENDS Integers, Sequences, FiniteSets, SequencesExt, FiniteSetsExt

CONSTANTS
    Keys,
    SmallVals,    \* values of at most ELEMENT_SMALL_MAX_SIZE bytes
    MiddleVals,   \* at most ELEMENT_MIDDLE_MAX_SIZE
    BulkVals,     \* longer ones
    Entries,      \* data entries a middle or bulk value takes
    NumPages,     \* NVDS_FLASH_INTERNAL_SIZE / SPI_FLASH_SEC_SIZE (4)
    Absent,       \* NVDS_E_NOT_FOUND
    Mixed,        \* bytes that are no value ever put
    Instances     \* the instances considered, see inst

Vals == SmallVals \cup MiddleVals \cup BulkVals
Pages == 1..NumPages

ASSUME NvdsAssumption ==
    /\ NumPages \in Nat /\ NumPages >= 2
    /\ SmallVals \cap MiddleVals = {}
    /\ BulkVals \cap (SmallVals \cup MiddleVals) = {}
    /\ Entries \in [MiddleVals \cup BulkVals -> Nat \ {0}]
    /\ Absent \notin Vals /\ Mixed \notin Vals /\ Absent # Mixed
    /\ \A b \in Instances :
          /\ b.n \in Nat \ {0} /\ \A v \in MiddleVals : Entries[v] < b.n
          /\ b.puts \subseteq Keys \X Vals
          /\ b.maxSeq \in Nat
          /\ b.supply \in {"steady", "failing"}

VARIABLES
    \* In flash.
    pst,      \* page header: "blank", "active", "full", "candidate", "error"
    seq,      \* page header: seqno
    slot,     \* content of each entry
    est,      \* entry states table: "free", "used", "updated"
    \* In RAM.
    used,     \* nvds_page_used
    free,     \* nvds_page_free
    nxt,      \* next_free_idx of each page
    cnt,      \* entry_cnt_used of each page
    \* The call in progress and its local variables.
    pc, op, marks, req, ret,
    \* Observers and the environment.
    snap,     \* what the keys held when the call began
    cut,      \* "none", or that the power was cut since the store was last
              \* empty: in a "call", or in nvds_clean ("clean")
    inst      \* the instance: n, ENTRY_COUNT_PER_PAGE (126 in the code);
              \* supply, "steady" (reboots between calls only) or "failing"
              \* (the power may be cut anywhere); and two bounds: puts, the
              \* <<key, value>> pairs given, and maxSeq, the number of the
              \* page on which no call starts any more

flash == <<pst, seq, slot, est>>
ram == <<used, free, nxt, cnt>>
vars == <<flash, ram, pc, op, marks, req, ret, snap, cut, inst>>

N == inst.n
Slots == 1..N

-----------------------------------------------------------------------------
(* Entries                                                                 *)

Blank == [c |-> "blank"]
Junk == [c |-> "junk"]                    \* the header fails its CRC
Header(k, t, n, v, f) ==
    [c |-> "head", k |-> k, t |-> t, n |-> n, v |-> v, f |-> f]
Data(v, o) == [c |-> "data", v |-> v, o |-> o]

\* Programming can only clear bits: on a slot that is not erased it leaves
\* the AND of the two contents.
Program(old, new) == IF old \in {Blank, new} THEN new ELSE Junk

\* Entries that follow a header, skipped by every walk over a page.
Span(c) == IF c.c = "head" /\ c.t \in {"middle", "bulk"} THEN c.n ELSE 0

\* The entries a walk from the start of page p stops at, when it passes
\* span[i] entries after entry i; it ends at the first free entry.
Walk(p, span) ==
    LET v[i \in Slots] == \/ i = 1
                          \/ \E j \in 1..(i - 1) :
                                v[j] /\ est[p][j] # "free" /\ i = j + 1 + span[j]
    IN {i \in Slots : v[i]}

\* element_find skips after every entry, pages_load only after used ones.
FindWalk(p) == Walk(p, [i \in Slots |-> Span(slot[p][i])])
LoadWalk(p) ==
    Walk(p, [i \in Slots |-> IF est[p][i] = "used" THEN Span(slot[p][i]) ELSE 0])

Room(p) == N + 1 - nxt[p]

-----------------------------------------------------------------------------
(* pages_load: what a boot makes of the flash                              *)

\* The members of S in increasing order.
Ordered(S, lt(_, _)) ==
    [i \in 1..Cardinality(S) |->
        CHOOSE x \in S : Cardinality({y \in S : lt(y, x)}) = i - 1]

LoadUsed ==
    Ordered({p \in Pages : pst[p] \notin {"blank", "error"}},
            LAMBDA a, b : seq[a] < seq[b])
LoadFree == Ordered({p \in Pages : pst[p] \in {"blank", "error"}}, <)
LoadNext(p) ==
    IF \E i \in LoadWalk(p) : est[p][i] = "free"
    THEN CHOOSE i \in LoadWalk(p) : est[p][i] = "free"
    ELSE N + 1
LoadUsedSlots(p) == {i \in LoadWalk(p) : est[p][i] = "used"}
\* A bug for LoadCount: the entries that hold data are not counted.
LoadCountHeaders(p) == Cardinality(LoadUsedSlots(p))

LoadCount(p) ==
    Cardinality(UNION {i .. (i + Span(slot[p][i])) : i \in LoadUsedSlots(p)})

\* A used entry whose header fails its CRC is marked, yet still counted.
LoadStates ==
    [p \in Pages |-> [i \in Slots |->
        IF p \in ToSet(LoadUsed) /\ i \in LoadUsedSlots(p) /\ slot[p][i].c # "head"
        THEN "updated" ELSE est[p][i]]]

-----------------------------------------------------------------------------
(* element_find, data_element_get and the elements of a key                *)

\* The pages on nvds_page_used, in the order of their numbers; after a cut
\* the next boot will list them.
Listed == IF pc = "off" THEN Pages ELSE ToSet(used)
Before(x, y) == \/ seq[x[1]] < seq[y[1]]
                \/ x[1] = y[1] /\ x[2] < y[2]

LiveOn(p, k, types) ==
    {i \in FindWalk(p) : /\ est[p][i] = "used"
                         /\ slot[p][i].c = "head"
                         /\ slot[p][i].k = k /\ slot[p][i].t \in types}
\* A bug for Live: a page being emptied is still searched.
LiveAlsoMoved(k, types) ==
    UNION {{p} \X LiveOn(p, k, types) :
           p \in {q \in Listed : pst[q] \in {"active", "full", "candidate"}}}

Live(k, types) ==
    UNION {{p} \X LiveOn(p, k, types) :
           p \in {q \in Listed : pst[q] \in {"active", "full"}}}
AnyType == {"small", "middle", "bulk", "bulkinfo"}

First(S) == CHOOSE x \in S : \A y \in S : x = y \/ Before(x, y)
At(x) == slot[x[1]][x[2]]
Extent(x) == {x[1]} \X (x[2] .. x[2] + Span(At(x)))
Body(x) == [o \in 1..At(x).n |-> slot[x[1]][x[2] + o]]
Contents(v) == [o \in 1..Entries[v] |-> Data(v, o)]

\* bulk_element_get: the first fragment found of each number, one after the
\* other.  The CRC of the fragments is not checked (nvds_flash.c:922).
BulkGet(k) ==
    LET info == Live(k, {"bulkinfo"})
        frags(f) == {x \in Live(k, {"bulk"}) : At(x).f = f}
        bytes == FlattenSeq([f \in 1..At(First(info)).n |->
                    IF frags(f - 1) = {} THEN <<>> ELSE Body(First(frags(f - 1)))])
    IN IF info = {} THEN Absent
       ELSE IF \E v \in BulkVals : bytes = Contents(v)
       THEN CHOOSE v \in BulkVals : bytes = Contents(v)
       ELSE Mixed

\* nvds_data_get: the value of k, or Absent.
DataGet(k) ==
    LET hits == Live(k, AnyType)
        c == At(First(hits))
    IN IF hits = {} THEN Absent
       ELSE IF c.t = "small" THEN c.v
       ELSE IF c.t = "middle"
       THEN IF Body(First(hits)) = Contents(c.v) THEN c.v ELSE Absent
       ELSE BulkGet(k)

InOrder(S) == Ordered(S, Before)
Fragments(k) == InOrder(UNION {Extent(x) : x \in Live(k, {"bulk"})})

\* data_element_del: the entries to mark, in order.  A bulk element without
\* its bulkinfo is left alone (nvds_flash.c:760).
Deletion(k) ==
    LET hits == Live(k, AnyType)
        info == Live(k, {"bulkinfo"})
    IN IF hits = {} THEN <<>>
       ELSE IF At(First(hits)).t \in {"small", "middle"} THEN InOrder(Extent(First(hits)))
       ELSE IF info = {} THEN <<>>
       ELSE <<First(info)>> \o Fragments(k)

-----------------------------------------------------------------------------
(* Calls                                                                   *)

NoOp == [fn |-> "none"]
NoMarks == [at |-> <<>>, to |-> "used"]
NoReq == [page |-> 0, vic |-> 0, from |-> 1]
NoSnap == [k \in Keys |-> Absent]

Init ==
    /\ inst \in Instances
    /\ pst = [p \in Pages |-> "blank"]
    /\ seq = [p \in Pages |-> 0]
    /\ slot = [p \in Pages |-> [i \in Slots |-> Blank]]
    /\ est = [p \in Pages |-> [i \in Slots |-> "free"]]
    /\ used = <<>> /\ free = <<>>
    /\ nxt = [p \in Pages |-> 1] /\ cnt = [p \in Pages |-> 0]
    /\ pc = "off" /\ op = NoOp /\ marks = NoMarks /\ req = NoReq
    /\ ret = "ok" /\ snap = NoSnap /\ cut = "none"

Return(r) ==
    /\ pc' = "idle" /\ op' = NoOp /\ ret' = r
    /\ marks' = NoMarks /\ req' = NoReq /\ snap' = NoSnap

\* A bug for Discounted: all entries are taken off the page written last.
DiscountedLast(at) == [cnt EXCEPT ![Last(used)] = @ - Len(at)]

\* entry_cnt_used of every page once the entries at are no longer in use.
Discounted(at) == [p \in Pages |-> cnt[p] - Cardinality({x \in ToSet(at) : x[1] = p})]

Starts(o) ==
    /\ pc = "idle"
    /\ seq[Last(used)] < inst.maxSeq
    /\ op' = o
    /\ snap' = [k \in Keys |-> DataGet(k)]

\* data_element_put: nothing to do when the value is already there
\* (element_compare); otherwise the old element goes before the new comes.
\* The test that the page to write is active (nvds_flash.c:1305, 1468) never
\* fails, that page being the last of nvds_page_used.
PutStart(k, v) ==
    /\ Starts([fn |-> "put", k |-> k, v |-> v, frag |-> 0, len |-> 0,
               rem |-> IF v \in SmallVals THEN 0 ELSE Entries[v]])
    /\ <<k, v>> \in inst.puts
    /\ DataGet(k) # v
    /\ marks' = [at |-> Deletion(k), to |-> "updated"]
    /\ cnt' = Discounted(Deletion(k))
    /\ pc' = IF Deletion(k) = <<>> THEN "room" ELSE "delete"
    /\ UNCHANGED <<flash, used, free, nxt, req, ret, cut, inst>>

\* data_element_del of a key that is there.
DelStart(k) ==
    /\ Starts([fn |-> "del", k |-> k])
    /\ Deletion(k) # <<>>
    /\ marks' = [at |-> Deletion(k), to |-> "updated"]
    /\ cnt' = Discounted(Deletion(k))
    /\ pc' = "delete"
    /\ UNCHANGED <<flash, used, free, nxt, req, ret, cut, inst>>

\* nvds_clean: erase the whole area, then load it.
CleanStart ==
    /\ Starts([fn |-> "clean"])
    /\ pc' = "clean"
    /\ req' = [NoReq EXCEPT !.page = 1]
    /\ UNCHANGED <<flash, ram, marks, ret, cut, inst>>

-----------------------------------------------------------------------------
(* Steps of a put                                                          *)

\* What is written next: a small or middle element, a fragment of a bulk
\* element, or its bulkinfo once no data remains.
Fragment == op.v \in BulkVals /\ op.rem > 0
NeedSlots ==
    IF op.v \in MiddleVals THEN 1 + Entries[op.v]
    ELSE IF Fragment THEN 2 ELSE 1
NextHeader ==
    IF op.v \in SmallVals THEN Header(op.k, "small", 0, op.v, 0)
    ELSE IF op.v \in MiddleVals THEN Header(op.k, "middle", Entries[op.v], op.v, 0)
    ELSE IF Fragment
    THEN Header(op.k, "bulk", Min({Room(Last(used)) - 1, op.rem}), op.v, op.frag)
    ELSE Header(op.k, "bulkinfo", op.frag, op.v, 0)

\* entry_state_alter of the next entry of a range, and what follows the last.
MarkState ==
    LET x == Head(marks.at) IN
    /\ marks.at # <<>>
    /\ est' = [est EXCEPT ![x[1]][x[2]] = marks.to]
    /\ UNCHANGED <<pst, seq, slot, ram, cut, inst>>
    /\ IF Len(marks.at) > 1
       THEN /\ marks' = [marks EXCEPT !.at = Tail(@)]
            /\ UNCHANGED <<pc, op, req, ret, snap>>
       ELSE \/ /\ pc = "delete" /\ op.fn = "put"
               /\ pc' = "room" /\ marks' = NoMarks
               /\ UNCHANGED <<op, req, ret, snap>>
            \/ /\ pc = "commit" /\ Fragment
               /\ op' = [op EXCEPT !.rem = @ - op.len, !.frag = @ + 1]
               /\ pc' = "room" /\ marks' = NoMarks
               /\ UNCHANGED <<req, ret, snap>>
            \/ pc = "delete" /\ op.fn = "del" /\ Return("ok")
            \/ pc = "commit" /\ ~Fragment /\ Return("ok")
            \/ pc = "undo" /\ Return("no_space")

\* NVDS_E_NO_SPACE; a bulk element first gives up the fragments it wrote.
NoSpace ==
    IF op.v \in BulkVals /\ Fragments(op.k) # <<>>
    THEN /\ marks' = [at |-> Fragments(op.k), to |-> "updated"]
         /\ cnt' = Discounted(Fragments(op.k))
         /\ pc' = "undo"
         /\ req' = NoReq
         /\ UNCHANGED <<op, ret, snap>>
    ELSE Return("no_space") /\ UNCHANGED cnt

HasRoom ==
    /\ pc = "room" /\ Room(Last(used)) >= NeedSlots
    /\ pc' = "header"
    /\ UNCHANGED <<flash, ram, op, marks, req, ret, snap, cut, inst>>

MarkFull ==
    /\ pc = "room" /\ Room(Last(used)) < NeedSlots
    /\ pst' = [pst EXCEPT ![Last(used)] = "full"]
    /\ pc' = "request"
    /\ UNCHANGED <<seq, slot, est, ram, op, marks, req, ret, snap, cut, inst>>

\* A bug for Victims: a page with one entry to win is not worth emptying.
VictimsWorthIt == {p \in ToSet(used) : cnt[p] < N - 1}

\* The used page with the fewest entries in use, the first of several.
Victims == {p \in ToSet(used) : cnt[p] < N}
Victim == CHOOSE p \in Victims : \A q \in Victims :
             \/ cnt[p] < cnt[q]
             \/ cnt[p] = cnt[q] /\ seq[p] <= seq[q]

\* A bug for Request: the last free page is given away.
RequestLast ==
    /\ pc = "request"
    /\ IF free = <<>> THEN NoSpace
       ELSE /\ req' = [page |-> Head(free), from |-> 1, vic |-> 0]
            /\ pc' = IF pst[Head(free)] = "blank" THEN "page" ELSE "erase"
            /\ UNCHANGED <<op, marks, cnt, ret, snap>>
    /\ UNCHANGED <<flash, used, free, nxt, cut, inst>>

\* new_page_request: the last free page may only be taken together with a
\* used page that is emptied into it.
Request ==
    /\ pc = "request"
    /\ IF free = <<>> \/ (Len(free) = 1 /\ Victims = {})
       THEN NoSpace
       ELSE /\ req' = [page |-> Head(free), from |-> 1,
                       vic |-> IF Len(free) = 1 THEN Victim ELSE 0]
            /\ pc' = IF pst[Head(free)] = "blank" THEN "page" ELSE "erase"
            /\ UNCHANGED <<op, marks, cnt, ret, snap>>
    /\ UNCHANGED <<flash, used, free, nxt, cut, inst>>

Erased(p, st) ==
    /\ pst' = [pst EXCEPT ![p] = st]
    /\ seq' = [seq EXCEPT ![p] = 0]
    /\ slot' = [slot EXCEPT ![p] = [i \in Slots |-> Blank]]
    /\ est' = [est EXCEPT ![p] = [i \in Slots |-> "free"]]

ErasePage ==
    /\ pc = "erase"
    /\ Erased(req.page, "blank")
    /\ pc' = "page"
    /\ UNCHANGED <<ram, op, marks, req, ret, snap, cut, inst>>

\* list_extract: the list without page p.
Extract(list, p) == RemoveAt(list, CHOOSE i \in DOMAIN list : list[i] = p)

\* The header of the new page, then the page lists.
WritePage ==
    /\ pc = "page"
    /\ pst' = [pst EXCEPT ![req.page] = "active"]
    /\ seq' = [seq EXCEPT ![req.page] = IF used = <<>> THEN 0 ELSE seq[Last(used)] + 1]
    /\ nxt' = [nxt EXCEPT ![req.page] = 1]
    /\ cnt' = [cnt EXCEPT ![req.page] = 0]
    /\ IF req.vic = 0
       THEN /\ used' = Append(used, req.page) /\ free' = Tail(free)
            /\ pc' = "again"
       ELSE /\ used' = Append(Extract(used, req.vic), req.page)
            /\ free' = <<req.vic>>
            /\ pc' = "candidate"
    /\ UNCHANGED <<slot, est, op, marks, req, ret, snap, cut, inst>>

MarkCandidate ==
    /\ pc = "candidate"
    /\ pst' = [pst EXCEPT ![req.vic] = "candidate"]
    /\ pc' = "copy"
    /\ UNCHANGED <<seq, slot, est, ram, op, marks, req, ret, snap, cut, inst>>

\* A bug for ToCopy: the last entry of the page is not copied.
ToCopyButLast == {i \in Slots : i >= req.from /\ i < N /\ est[req.vic][i] = "used"}

\* The next entry in use on the page that is emptied.
ToCopy == {i \in Slots : i >= req.from /\ est[req.vic][i] = "used"}

\* entry_write at next_free_idx of page p.
EntryWrite(p, c) ==
    /\ slot' = [slot EXCEPT ![p][nxt[p]] = Program(@, c)]
    /\ nxt' = [nxt EXCEPT ![p] = @ + 1]
    /\ cnt' = [cnt EXCEPT ![p] = @ + 1]

CopyEntry ==
    /\ pc = "copy" /\ ToCopy # {}
    /\ EntryWrite(req.page, slot[req.vic][Min(ToCopy)])
    /\ req' = [req EXCEPT !.from = Min(ToCopy) + 1]
    /\ pc' = "copied"
    /\ UNCHANGED <<pst, seq, est, used, free, op, marks, ret, snap, cut, inst>>

CopyState ==
    /\ pc = "copied"
    /\ est' = [est EXCEPT ![req.page][nxt[req.page] - 1] = "used"]
    /\ pc' = "copy"
    /\ UNCHANGED <<pst, seq, slot, ram, op, marks, req, ret, snap, cut, inst>>

EraseVictim ==
    /\ pc = "copy" /\ ToCopy = {}
    /\ Erased(req.vic, "blank")
    /\ nxt' = [nxt EXCEPT ![req.vic] = 1]
    /\ cnt' = [cnt EXCEPT ![req.vic] = 0]
    /\ pc' = "again"
    /\ UNCHANGED <<used, free, op, marks, req, ret, snap, cut, inst>>

\* The caller of new_page_request: pages_load is done, a put looks again.
PageReady ==
    /\ pc = "again"
    /\ IF op.fn = "put"
       THEN IF Room(Last(used)) >= NeedSlots
            THEN /\ pc' = "header" /\ req' = NoReq
                 /\ UNCHANGED <<op, marks, cnt, ret, snap>>
            ELSE NoSpace
       ELSE Return(IF op = NoOp THEN ret ELSE "ok") /\ UNCHANGED cnt
    /\ cut' = IF op.fn = "clean" THEN "none" ELSE cut
    /\ UNCHANGED <<flash, used, free, nxt, inst>>

WriteHeader ==
    /\ pc = "header"
    /\ EntryWrite(Last(used), NextHeader)
    /\ op' = [op EXCEPT !.len = Span(NextHeader)]
    /\ IF Span(NextHeader) > 0
       THEN pc' = "data" /\ UNCHANGED marks
       ELSE /\ pc' = "commit"
            /\ marks' = [at |-> <<<<Last(used), nxt[Last(used)]>>>>, to |-> "used"]
    /\ UNCHANGED <<pst, seq, est, used, free, req, ret, snap, cut, inst>>

\* entry_data_write: one write for the data of an element or a fragment.
WriteData ==
    LET p == Last(used)
        from == nxt[p]
        done == Entries[op.v] - op.rem
    IN
    /\ pc = "data"
    /\ slot' = [slot EXCEPT ![p] = [i \in Slots |->
           IF i \in from..(from + op.len - 1)
           THEN Program(@[i], Data(op.v, done + i - from + 1)) ELSE @[i]]]
    /\ nxt' = [nxt EXCEPT ![p] = @ + op.len]
    /\ cnt' = [cnt EXCEPT ![p] = @ + op.len]
    /\ marks' = [at |-> [j \in 1..(op.len + 1) |-> <<p, from + j - 2>>], to |-> "used"]
    /\ pc' = "commit"
    /\ UNCHANGED <<pst, seq, est, used, free, op, req, ret, snap, cut, inst>>

\* A bug for CleanSector: the address is not advanced.
CleanSectorStuck ==
    /\ pc = "clean"
    /\ Erased(req.page, "blank")
    /\ UNCHANGED <<ram, pc, op, marks, req, ret, snap, cut, inst>>

\* nvds_clean erases the sectors in order and loads the empty area.
CleanSector ==
    /\ pc = "clean"
    /\ Erased(req.page, "blank")
    /\ IF req.page < NumPages
       THEN req' = [req EXCEPT !.page = @ + 1] /\ UNCHANGED <<pc, ram>>
       ELSE /\ pc' = "off" /\ req' = NoReq
            /\ used' = <<>> /\ free' = <<>>
            /\ nxt' = [p \in Pages |-> 1] /\ cnt' = [p \in Pages |-> 0]
    /\ UNCHANGED <<op, marks, ret, snap, cut, inst>>

\* nvds_flash_env_init: pages_load, and a first page if none is in use.
Boot ==
    /\ pc = "off"
    /\ used' = LoadUsed
    /\ free' = LoadFree
    /\ nxt' = [p \in Pages |-> IF p \in ToSet(LoadUsed) THEN LoadNext(p) ELSE 1]
    /\ cnt' = [p \in Pages |-> IF p \in ToSet(LoadUsed) THEN LoadCount(p) ELSE 0]
    /\ est' = LoadStates
    /\ IF LoadUsed = <<>>
       THEN /\ req' = [page |-> Head(LoadFree), vic |-> 0, from |-> 1]
            /\ pc' = IF pst[Head(LoadFree)] = "blank" THEN "page" ELSE "erase"
       ELSE pc' = "idle" /\ UNCHANGED req
    /\ UNCHANGED <<pst, seq, slot, op, marks, ret, snap, cut, inst>>

-----------------------------------------------------------------------------
(* The power supply                                                        *)

LoseRam ==
    /\ used' = <<>> /\ free' = <<>>
    /\ nxt' = [p \in Pages |-> 1] /\ cnt' = [p \in Pages |-> 0]
    /\ pc' = "off" /\ op' = NoOp /\ marks' = NoMarks /\ req' = NoReq
    /\ snap' = NoSnap

\* A reboot that finds no call in progress.
Reboot ==
    /\ pc = "idle"
    /\ LoseRam
    /\ UNCHANGED <<flash, ret, cut, inst>>

\* The page whose header write or erase is under way.
InWork ==
    IF pc = "page" \/ (pc = "clean" /\ pst[req.page] # "blank") THEN {req.page}
    ELSE IF pc = "copy" /\ ToCopy = {} THEN {req.vic} ELSE {}

PowerCut ==
    /\ inst.supply = "failing"
    /\ pc # "idle" /\ ~(pc = "off" /\ op = NoOp)
    /\ LoseRam
    /\ cut' = IF op.fn = "clean" \/ cut = "clean" THEN "clean" ELSE "call"
    /\ ret' = "cut"
    /\ \/ UNCHANGED flash
       \/ \E p \in InWork : Erased(p, "error")
    /\ UNCHANGED inst

Step ==
    \/ MarkState \/ HasRoom \/ MarkFull \/ Request \/ ErasePage \/ WritePage
    \/ MarkCandidate \/ CopyEntry \/ CopyState \/ EraseVictim \/ PageReady
    \/ WriteHeader \/ WriteData \/ CleanSector \/ Boot

Next ==
    \/ \E k \in Keys, v \in Vals : PutStart(k, v)
    \/ \E k \in Keys : DelStart(k)
    \/ CleanStart
    \/ Step
    \/ Reboot \/ PowerCut

\* A call runs to its end: the caller's thread is scheduled.
Spec == Init /\ [][Next]_vars /\ WF_vars(Step)

-----------------------------------------------------------------------------
(* Properties                                                              *)

\* Types of the flash, the page lists and the locals of the call.
TypeOK ==
    /\ pst \in [Pages -> {"blank", "active", "full", "candidate", "error"}]
    /\ seq \in [Pages -> Nat]
    /\ est \in [Pages -> [Slots -> {"free", "used", "updated"}]]
    /\ \A p \in Pages, i \in Slots : slot[p][i].c \in {"blank", "junk", "head", "data"}
    /\ used \in Seq(Pages) /\ free \in Seq(Pages)
    /\ nxt \in [Pages -> 1..(N + 1)] /\ cnt \in [Pages -> 0..N]
    /\ pc \in {"off", "idle", "delete", "room", "request", "erase", "page",
               "candidate", "copy", "copied", "again", "header", "data",
               "commit", "undo", "clean"}
    /\ marks.at \in Seq(Pages \X Slots) /\ marks.to \in {"used", "updated"}
    /\ req.page \in 0..NumPages /\ req.vic \in 0..NumPages
    /\ ret \in {"ok", "no_space", "cut"}
    /\ snap \in [Keys -> Vals \cup {Absent, Mixed}]
    /\ cut \in {"none", "call", "clean"} /\ inst \in Instances

\* The refinement mapping: between calls the dictionary is what the flash
\* says, during a call what it said when the call began.
Dict == IF op = NoOp THEN [k \in Keys |-> DataGet(k)] ELSE snap
CallNow ==
    IF op.fn = "put" THEN [fn |-> "put", k |-> op.k, v |-> op.v] ELSE op
Store == INSTANCE NvdsStore WITH dict <- Dict, call <- CallNow

\* The store keeps the promise of NvdsStore: until the power is first cut in
\* a call every put that returns NVDS_OK is readable and every other key is
\* untouched, through page moves and reboots; and, cut or not, no key ever
\* shows a value that was overwritten or deleted.
Implements == Store!StoreSpec

\* A key never has two elements, nor one beside fragments of another, at no
\* step of a put, of a page move or after a power cut: element_find returns
\* the first of several and data_element_del deletes only one.
OneElement ==
    cut # "clean" =>
    \A k \in Keys :
        /\ Cardinality(Live(k, {"small", "middle", "bulkinfo"})) <= 1
        /\ Live(k, {"small", "middle"}) # {} => Live(k, {"bulk"}) = {}

\* Between calls a reboot would rebuild from flash the very lists, fill
\* levels and counts the RAM holds: nothing depends on how long the device
\* has been running.  (After a cut an entry that fails its CRC is counted
\* by the first boot only.)
RebootAgrees ==
    pc = "idle" =>
        /\ used = LoadUsed
        /\ ToSet(free) = ToSet(LoadFree)
        /\ \A p \in ToSet(used) : nxt[p] = LoadNext(p)
        /\ inst.supply = "steady" => \A p \in ToSet(used) : cnt[p] = LoadCount(p)

\* new_page_request never gives away the last free page without emptying
\* another: with none left no page could ever be emptied again.
FreePageKept == inst.supply = "steady" /\ pc = "idle" => free # <<>>

\* A small or middle put fails for want of space only when there is no page
\* that, emptied into a free one, would leave room for the element.
NoSpaceMeansFull ==
    [][ (inst.supply = "steady" /\ op.fn = "put" /\ op'.fn = "none" /\ ret' = "no_space"
         /\ pc' = "idle" /\ op.v \notin BulkVals)
        => \A p \in ToSet(used) : cnt[p] + NeedSlots > N ]_vars

\* Every call ends, or the power goes: the fragment loop of a bulk put and
\* the page moves inside it make progress.
CallsReturn == (op # NoOp) ~> (op = NoOp)
=============================================================================
