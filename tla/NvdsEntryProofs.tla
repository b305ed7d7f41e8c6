-------------------------- MODULE NvdsEntryProofs --------------------------
(***************************************************************************)
(* Proofs about the entries of the pages of Nvds: what the RAM knows of    *)
(* them is what a boot would find.                                         *)
(***************************************************************************)
EXTENDS NvdsProofs

-----------------------------------------------------------------------------
(* The entries of the pages                                                *)

\* The entries whose states are being altered, and the states they are given:
\* the marks of a call, or the entry just copied.
Pending == IF pc = "copied" THEN {<<req.page, nxt[req.page] - 1>>} ELSE ToSet(marks.at)
Goal == IF pc = "copied" THEN "used" ELSE marks.to
\* The states of the entries once they are.
Eff == [p \in Pages |-> [i \in Slots |-> IF <<p, i>> \in Pending THEN Goal ELSE est[p][i]]]

\* A header is written, its data is not.
HalfWritten(p) == pc = "data" /\ p = Last(used)
\* The first entry free of any element.
Low(p) == IF HalfWritten(p) THEN nxt[p] - 1 ELSE nxt[p]

\* The entries to mark: of used pages, and not free if they are to be updated.
MarkInv ==
    /\ marks.at \in Seq(Pages \X Slots)
    /\ marks.at # <<>> <=> pc \in {"delete", "commit", "undo"}
    /\ pc \in {"delete", "undo"} => marks.to = "updated"
    /\ pc = "commit" => marks.to = "used"
    /\ \A x \in ToSet(marks.at) :
          /\ x[1] \in ToSet(used)
          /\ marks.to = "updated" => est[x[1]][x[2]] # "free"
    /\ ~Steady /\ pc = "commit" => marks.at = <<<<Last(used), nxt[Last(used)] - 1>>>>
    /\ pc = "undo" => op.v \in BulkVals

\* A page is written from its start: the entries in use come first, then the free ones,
\* which are erased if the supply is steady.
FillInv ==
    /\ nxt \in [Pages -> 1..(N + 1)]
    /\ \A p \in Pages \ Written : \A i \in Slots : slot[p][i] = Blank /\ est[p][i] = "free"
    /\ Running => \A p \in Kept : \A i \in Slots : Eff[p][i] = "free" <=> i >= Low(p)
    /\ ~Running => \A p \in Pages : \A i, j \in Slots :
                      i < j /\ est[p][i] = "free" => est[p][j] = "free"
    /\ Steady /\ Running => \A p \in Kept : \A i \in Slots : i >= nxt[p] => slot[p][i] = Blank
    /\ Steady /\ ~Running => \A p \in Pages : \A i \in Slots :
                                est[p][i] = "free" => slot[p][i] = Blank
    /\ pc = "data" => /\ nxt[Last(used)] > 1
                      /\ slot[Last(used)][nxt[Last(used)] - 1].c = "head"
                      /\ Span(slot[Last(used)][nxt[Last(used)] - 1]) = op.len

\* The rest of the element that is being copied is still to come.
ToCome(p, i) == Moving /\ p = req.page /\ i >= nxt[p]

\* Elements are whole: a header is followed by its data, in the same state, and every
\* entry in use is a header or the data of one.
WholeInv ==
    /\ \A p \in Pages : \A i \in Slots : \A t \in 1..Span(slot[p][i]) :
          Eff[p][i] # "free" =>
             \/ ToCome(p, i + t)
             \/ i + t \in Slots /\ Eff[p][i + t] = Eff[p][i] /\ slot[p][i + t].c = "data"
    /\ Steady => \A p \in Pages : \A i \in Slots : Eff[p][i] = "used" =>
          \/ slot[p][i].c = "head"
          \/ /\ slot[p][i].c = "data"
             /\ \E h \in 1..(i - 1) : /\ slot[p][h].c = "head" /\ Eff[p][h] = "used"
                                      /\ i <= h + Span(slot[p][h])
    /\ ~Steady => \A p \in Pages : \A i \in Slots : slot[p][i].c # "data" /\ Span(slot[p][i]) = 0

\* A page is copied in order: an element of either page that reaches beyond the last
\* entry copied is on the other at the same distance.
CopyInv ==
    Moving =>
    /\ req.from \in 1..(N + 1) /\ nxt[req.page] <= req.from
    /\ pc = "candidate" => nxt[req.page] = 1 /\ req.from = 1
    /\ \A d \in 1..(req.from - 1) :
          est[req.vic][req.from - d] = "used" /\ d <= Span(slot[req.vic][req.from - d])
          => nxt[req.page] - d \in Slots /\ slot[req.page][nxt[req.page] - d] = slot[req.vic][req.from - d]
    /\ \A d \in 1..(nxt[req.page] - 1) :
          d <= Span(slot[req.page][nxt[req.page] - d])
          => /\ req.from - d \in Slots
             /\ slot[req.vic][req.from - d] = slot[req.page][nxt[req.page] - d]
             /\ est[req.vic][req.from - d] = "used"
    /\ \A j \in Slots : Eff[req.page][j] # "updated"

\* The counts in RAM are those of the entries in use, the header of an element that is
\* being written among them.
InUse(p) == {i \in Slots : Eff[p][i] = "used"}
HalfCount(p) == IF HalfWritten(p) THEN 1 ELSE 0
CountInv ==
    /\ cnt \in [Pages -> 0..N]
    /\ Running => \A p \in Kept :
          /\ Cardinality(InUse(p)) + HalfCount(p) <= cnt[p] /\ cnt[p] < nxt[p]
          /\ Steady => cnt[p] = Cardinality(InUse(p)) + HalfCount(p)

\* The page that is emptied has the fewest entries in use, and so has then the page
\* they are copied to.
MoveInv ==
    /\ pc \in {"erase", "page"} => req.from = 1
    /\ pc \in {"erase", "page"} /\ req.vic # 0 => \A q \in ToSet(used) : cnt[req.vic] <= cnt[q]
    /\ Moving => \A q \in ToSet(used) \ {req.page} : cnt[req.vic] <= cnt[q]
    /\ Moving /\ Steady => nxt[req.page] - 1 + Cardinality(ToCopy) = cnt[req.vic]
    /\ Steady /\ (Moving \/ pc = "again") => cnt[Last(used)] = nxt[Last(used)] - 1
    /\ Steady /\ pc = "again" => \A q \in ToSet(used) : cnt[Last(used)] <= cnt[q]

\* Under a failing supply only small values are put: the states of an element of
\* several entries are written one at a time, and a cut in between breaks what
\* follows.
SmallOnly == \A b \in Instances : b.supply = "failing" => b.puts \subseteq Keys \X SmallVals

EntryInv == MarkInv /\ FillInv /\ WholeInv /\ CopyInv /\ CountInv /\ MoveInv
StoreInv == PagesInv /\ EntryInv

-----------------------------------------------------------------------------
(* What the steps do to the states of the entries                          *)

LEMMA EffValue ==
    /\ \A p \in Pages : \A i \in Slots :
          Eff[p][i] = IF <<p, i>> \in Pending THEN Goal ELSE est[p][i]
    /\ Eff = [p \in Pages |-> [i \in Slots |-> Eff[p][i]]]
  BY DEF Eff

\* What the proofs keep needing of the entries.
LEMMA EntryFacts ==
    ASSUME PagesInv, MarkInv, FillInv
    PROVE  /\ N \in Nat \ {0} /\ Slots = 1..N
           /\ \A p \in Pages : \A i \in Slots :
                 /\ slot[p][i] \in Cell /\ Span(slot[p][i]) \in Nat
                 /\ est[p][i] \in EntryStates /\ Eff[p][i] \in EntryStates
           /\ \A p \in Pages : nxt[p] \in 1..(N + 1) /\ Low(p) \in 0..(N + 1) /\ Low(p) <= nxt[p]
           /\ ToSet(used) \in SUBSET Kept /\ Kept \in SUBSET Pages
           /\ Pending \in SUBSET (Pages \X (0..N))
  <1> USE DEF PagesInv, Types
  <1>1. N \in Nat \ {0} /\ Slots = 1..N
    BY SlotsAre
  <1>2. ASSUME NEW p \in Pages, NEW i \in Slots
        PROVE  /\ slot[p][i] \in Cell /\ Span(slot[p][i]) \in Nat
               /\ est[p][i] \in EntryStates /\ Eff[p][i] \in EntryStates
    <2>1. slot[p][i] \in Cell /\ est[p][i] \in EntryStates
      OBVIOUS
    <2>2. Goal \in EntryStates
      BY DEF Goal, EntryStates
    <2> QED BY <2>1, <2>2, SpanIs, EffValue
  <1>3. ASSUME NEW p \in Pages
        PROVE  nxt[p] \in 1..(N + 1) /\ Low(p) \in 0..(N + 1) /\ Low(p) <= nxt[p]
    <2>1. nxt[p] \in 1..(N + 1) /\ N \in Nat
      BY <1>1 DEF FillInv
    <2>2. Low(p) \in {nxt[p], nxt[p] - 1}
      BY DEF Low
    <2> QED BY <2>1, <2>2
  <1>4. ToSet(used) \in SUBSET Kept /\ Kept \in SUBSET Pages
    BY ListFacts DEF Kept
  <1>5. Pending \in SUBSET (Pages \X (0..N))
    <2>1. CASE pc = "copied"
      <3>1. req.page \in Pages
        BY <2>1, ListFacts DEF Moving
      <3>2. nxt[req.page] - 1 \in 0..N
        BY <3>1, <1>1, <1>3
      <3> QED BY <2>1, <3>1, <3>2 DEF Pending
    <2>2. CASE pc # "copied"
      <3>1. marks.at \in Seq(Pages \X (1..N))
        BY <1>1 DEF MarkInv
      <3>2. ToSet(marks.at) \in SUBSET (Pages \X (1..N))
        BY <3>1 DEF ToSet
      <3>3. 1..N \in SUBSET (0..N)
        BY <1>1
      <3> QED BY <2>2, <3>2, <3>3 DEF Pending
    <2> QED BY <2>1, <2>2
  <1> QED BY <1>1, <1>2, <1>3, <1>4, <1>5

\* A list and its tail.
LEMMA HeadTail ==
    ASSUME NEW S, NEW s \in Seq(S), s # <<>>
    PROVE  /\ Head(s) \in S /\ Tail(s) \in Seq(S)
           /\ ToSet(s) = {Head(s)} \cup ToSet(Tail(s))
           /\ Len(s) > 1 => Tail(s) # <<>>
           /\ ~(Len(s) > 1) => ToSet(s) = {Head(s)}
           /\ Head(s) \in ToSet(s) /\ ToSet(Tail(s)) \in SUBSET ToSet(s)
  <1>1. Len(s) \in Nat \ {0} /\ s \in [1..Len(s) -> S]
    BY EmptySeq
  <1>2. Tail(s) \in Seq(S) /\ Len(Tail(s)) = Len(s) - 1
        /\ \A i \in 1..(Len(s) - 1) : Tail(s)[i] = s[i + 1]
    BY HeadTailProperties
  <1>3. Head(s) = s[1] /\ 1 \in 1..Len(s)
    BY <1>1
  <1>4. DOMAIN s = 1..Len(s) /\ DOMAIN Tail(s) = 1..(Len(s) - 1)
    BY <1>1, <1>2
  <1>5. \A j \in 1..Len(s) : j = 1 \/ (j - 1 \in 1..(Len(s) - 1) /\ s[j] = Tail(s)[j - 1])
    BY <1>1, <1>2
  <1>6. \A i \in 1..(Len(s) - 1) : i + 1 \in 1..Len(s)
    BY <1>1
  <1>7. ToSet(s) = {Head(s)} \cup ToSet(Tail(s))
    <2>1. ASSUME NEW x \in ToSet(s) PROVE x \in {Head(s)} \cup ToSet(Tail(s))
      <3>1. PICK j \in 1..Len(s) : x = s[j]
        BY <1>4 DEF ToSet
      <3> QED BY <3>1, <1>3, <1>4, <1>5 DEF ToSet
    <2>2. ASSUME NEW x \in ToSet(Tail(s)) PROVE x \in ToSet(s)
      <3>1. PICK i \in 1..(Len(s) - 1) : x = Tail(s)[i]
        BY <1>4 DEF ToSet
      <3> QED BY <3>1, <1>2, <1>4, <1>6 DEF ToSet
    <2>3. Head(s) \in ToSet(s)
      BY <1>3, <1>4 DEF ToSet
    <2> QED BY <2>1, <2>2, <2>3
  <1>8. Len(s) > 1 => Tail(s) # <<>>
    <2> HAVE Len(s) > 1
    <2>1. \A n \in Nat : n > 1 => n - 1 # 0
      OBVIOUS
    <2>2. Len(Tail(s)) # 0
      BY <2>1, <1>1, <1>2
    <2> QED BY <2>2, <1>2, EmptySeq
  <1>9. ~(Len(s) > 1) => ToSet(s) = {Head(s)}
    <2> HAVE ~(Len(s) > 1)
    <2>1. \A n \in Nat \ {0} : ~(n > 1) => n - 1 = 0
      OBVIOUS
    <2>2. Len(Tail(s)) = 0
      BY <2>1, <1>1, <1>2
    <2>3. DOMAIN Tail(s) = {}
      BY <2>2, <1>2
    <2> QED BY <2>3, <1>7 DEF ToSet
  <1> QED BY <1>1, <1>2, <1>3, <1>7, <1>8, <1>9

\* Writing the state that an entry is to be given leaves the states to be alone.
LEMMA EffSame ==
    ASSUME Types, Slots' = Slots, NEW D,
           \A x \in Pages \X Slots : x \in Pending <=> x \in Pending' \/ x \in D,
           \A x \in Pages \X Slots : x \in Pending' => Goal' = Goal,
           \A p \in Pages : \A i \in Slots :
              est'[p][i] = IF <<p, i>> \in D THEN Goal ELSE est[p][i]
    PROVE  Eff' = Eff
  <1>1. Eff' = [p \in Pages |-> [i \in Slots |->
                  IF <<p, i>> \in Pending' THEN Goal' ELSE est'[p][i]]]
    BY DEF Eff
  <1>2. ASSUME NEW p \in Pages, NEW i \in Slots
        PROVE  (IF <<p, i>> \in Pending' THEN Goal' ELSE est'[p][i])
             = (IF <<p, i>> \in Pending THEN Goal ELSE est[p][i])
    <2>1. <<p, i>> \in Pages \X Slots
      OBVIOUS
    <2> QED BY <2>1
  <1>3. [p \in Pages |-> [i \in Slots |-> IF <<p, i>> \in Pending' THEN Goal' ELSE est'[p][i]]]
      = [p \in Pages |-> [i \in Slots |-> IF <<p, i>> \in Pending THEN Goal ELSE est[p][i]]]
    BY <1>2
  <1> QED BY <1>1, <1>3 DEF Eff

LEMMA MarkStateEff ==
    ASSUME PagesInv, MarkInv, [Next]_vars, MarkState
    PROVE  /\ Eff' = Eff /\ pc \in {"delete", "commit", "undo"}
           /\ pc' \in {pc, "room", "idle"}
           /\ pc' # pc => marks'.at = <<>>
           /\ pc' = pc => op' = op /\ marks' = [marks EXCEPT !.at = Tail(@)] /\ marks'.at # <<>>
  <1> DEFINE x == Head(marks.at)
  <1>1. pc \in {"delete", "commit", "undo"} /\ marks.at # <<>>
    BY DEF MarkState, MarkInv
  <1>2. /\ marks.at \in Seq(Pages \X Slots) /\ Slots' = Slots
        /\ DOMAIN marks = {"at", "to"} /\ est \in [Pages -> [Slots -> EntryStates]]
    BY InstKept DEF MarkInv, PagesInv, Types
  <1>3. /\ x \in Pages \X Slots /\ Tail(marks.at) \in Seq(Pages \X Slots)
        /\ ToSet(marks.at) = {x} \cup ToSet(Tail(marks.at))
        /\ Len(marks.at) > 1 => Tail(marks.at) # <<>>
        /\ ~(Len(marks.at) > 1) => ToSet(marks.at) = {x}
    BY <1>1, <1>2, HeadTail
  <1>4. Pending = ToSet(marks.at) /\ Goal = marks.to
    BY <1>1 DEF Pending, Goal
  <1>5. est' = [est EXCEPT ![x[1]][x[2]] = marks.to]
    BY DEF MarkState
  <1>6. \A p \in Pages : \A i \in Slots :
           est'[p][i] = IF <<p, i>> \in {x} THEN Goal ELSE est[p][i]
    <2> TAKE p \in Pages
    <2> TAKE i \in Slots
    <2>1. PICK q \in Pages, j \in Slots : x = <<q, j>>
      BY <1>3
    <2>2. x[1] = q /\ x[2] = j
      BY <2>1
    <2>3. est' = [est EXCEPT ![q] = [est[q] EXCEPT ![j] = marks.to]]
      BY <1>5, <2>2
    <2>4. CASE p = q
      <3>1. est'[p] = [est[q] EXCEPT ![j] = marks.to]
        BY <2>3, <2>4, <1>2
      <3>2. est'[p][i] = IF i = j THEN marks.to ELSE est[q][i]
        BY <3>1, <1>2
      <3> QED BY <3>2, <2>1, <2>4, <1>4
    <2>5. CASE p # q
      <3>1. est'[p] = est[p]
        BY <2>3, <2>5, <1>2
      <3> QED BY <3>1, <2>1, <2>5
    <2> QED BY <2>4, <2>5
  <1>7. CASE Len(marks.at) > 1
    <2>1. marks' = [marks EXCEPT !.at = Tail(@)] /\ UNCHANGED <<pc, op>>
      BY <1>7 DEF MarkState
    <2>2. marks'.at = Tail(marks.at) /\ marks'.to = marks.to
      BY <2>1, <1>2
    <2>3. Pending' = ToSet(Tail(marks.at)) /\ Goal' = Goal
      BY <2>1, <2>2, <1>1, <1>4 DEF Pending, Goal
    <2>4. Eff' = Eff
      BY <2>3, <1>2, <1>3, <1>4, <1>6, EffSame DEF PagesInv
    <2> QED BY <2>1, <2>2, <2>4, <1>1, <1>3, <1>7
  <1>8. CASE ~(Len(marks.at) > 1)
    <2>1. marks' = NoMarks /\ pc' \in {"room", "idle"}
      BY <1>8 DEF MarkState, Return
    <2>2. Pending' = {}
      BY <2>1 DEF Pending, NoMarks, ToSet
    <2>3. Eff' = Eff
      BY <2>2, <1>2, <1>3, <1>4, <1>6, <1>8, EffSame DEF PagesInv
    <2> QED BY <2>1, <2>3, <1>1 DEF NoMarks
  <1> QED BY <1>7, <1>8

LEMMA CopyStateEff ==
    ASSUME PagesInv, MarkInv, FillInv, [Next]_vars, CopyState
    PROVE  Eff' = Eff /\ \A p \in Pages \ {req.page} : est'[p] = est[p]
  <1> DEFINE T == req.page
             m == nxt[T] - 1
  <1>1. pc = "copied" /\ pc' = "copy" /\ est' = [est EXCEPT ![T][m] = "used"]
        /\ marks' = marks /\ marks.at = <<>>
    BY DEF CopyState, MarkInv
  <1>2. T \in Pages /\ m \in 0..N /\ Slots' = Slots /\ Slots = 1..N
        /\ est \in [Pages -> [Slots -> EntryStates]]
    <2>1. T \in Pages
      BY <1>1, ListFacts DEF Moving
    <2>2. nxt[T] \in 1..(N + 1) /\ N \in Nat /\ Slots = 1..N
      BY <2>1, EntryFacts
    <2> QED BY <2>1, <2>2, InstKept DEF PagesInv, Types
  <1>3. Pending = {<<T, m>>} /\ Goal = "used" /\ Pending' = {}
    BY <1>1 DEF Pending, Goal, ToSet
  <1> HIDE DEF T, m
  <1>4. \A p \in Pages : \A i \in Slots :
           est'[p][i] = IF <<p, i>> \in {<<T, m>>} THEN Goal ELSE est[p][i]
    BY <1>1, <1>2, <1>3
  <1>5. Eff' = Eff
    BY <1>2, <1>3, <1>4, EffSame DEF PagesInv
  <1>6. \A p \in Pages \ {T} : est'[p] = est[p]
    BY <1>1, <1>2
  <1> QED BY <1>5, <1>6 DEF T

-----------------------------------------------------------------------------
(* Elements that go                                                        *)

\* Between the steps that alter states every state is what it is.
LEMMA EffIsEst ==
    ASSUME MarkInv, Types, pc \notin {"delete", "commit", "undo", "copied"}
    PROVE  Eff = est /\ Pending = {}
  <1>1. Pending = {}
    BY DEF MarkInv, Pending, ToSet
  <1>2. est = [p \in Pages |-> [i \in Slots |-> est[p][i]]]
    <2>1. ASSUME NEW p \in Pages PROVE est[p] = [i \in Slots |-> est[p][i]]
      BY DEF Types
    <2>2. est = [p \in Pages |-> est[p]]
      BY DEF Types
    <2> QED BY <2>1, <2>2, Zenon
  <1>3. Eff = [p \in Pages |-> [i \in Slots |-> est[p][i]]]
    BY <1>1 DEF Eff
  <1> QED BY <1>1, <1>2, <1>3

LEMMA ExtentIs ==
    ASSUME NEW p \in Pages, NEW i \in Slots, N \in Nat, Slots = 1..N,
           Span(slot[p][i]) \in Nat
    PROVE  /\ \A u \in 0..Span(slot[p][i]) : <<p, i + u>> \in Extent(<<p, i>>)
           /\ \A y \in Extent(<<p, i>>) : \E u \in 0..Span(slot[p][i]) : y = <<p, i + u>>
  <1> DEFINE s == Span(slot[p][i])
  <1>1. At(<<p, i>>) = slot[p][i]
    BY DEF At
  <1>2. Extent(<<p, i>>) = {p} \X (i .. (i + s))
    BY <1>1 DEF Extent
  <1>3. s \in Nat
    OBVIOUS
  <1> HIDE DEF s
  <1>4. \A j \in i .. (i + s) : j - i \in 0..s /\ j = i + (j - i)
    BY <1>3
  <1>5. \A u \in 0..s : i + u \in i .. (i + s)
    BY <1>3
  <1>6. ASSUME NEW y \in {p} \X (i .. (i + s)) PROVE \E u \in 0..s : y = <<p, i + u>>
    <2>1. PICK j \in i .. (i + s) : y = <<p, j>>
      OBVIOUS
    <2>2. j - i \in 0..s /\ j = i + (j - i)
      BY <1>4
    <2>3. y = <<p, i + (j - i)>>
      BY <2>1, <2>2
    <2> QED BY <2>2, <2>3
  <1>7. \A u \in 0..s : <<p, i + u>> \in {p} \X (i .. (i + s))
    BY <1>5
  <1> QED BY <1>2, <1>6, <1>7 DEF s

\* The extents of elements in use are entries in use, and contain an element or
\* nothing of it.
Covered(H) == UNION {Extent(x) : x \in H}

LEMMA ExtentsClosed ==
    ASSUME PagesInv, MarkInv, FillInv, WholeInv, ~Moving,
           pc \notin {"delete", "commit", "undo"},
           NEW H \in SUBSET (Pages \X Slots),
           \A p \in Pages : \A i \in Slots : <<p, i>> \in H =>
              est[p][i] = "used" /\ slot[p][i].c = "head"
    PROVE  /\ Covered(H) \in SUBSET (Pages \X Slots)
           /\ \A p \in Pages : \A i \in Slots : <<p, i>> \in Covered(H) =>
                 /\ est[p][i] = "used"
                 /\ \E j \in Slots : <<p, j>> \in H
           /\ \A p \in Pages : \A i \in Slots : \A t \in 1..Span(slot[p][i]) :
                 est[p][i] # "free" => (<<p, i>> \in Covered(H) <=> <<p, i + t>> \in Covered(H))
  <1> DEFINE D == Covered(H)
  <1>1. /\ N \in Nat /\ Slots = 1..N
        /\ \A p \in Pages : \A i \in Slots : slot[p][i] \in Cell /\ Span(slot[p][i]) \in Nat
    BY EntryFacts
  <1>2. Eff = est
    BY EffIsEst DEF Moving, PagesInv
  <1>3. \A p \in Pages : \A i \in Slots : \A t \in 1..Span(slot[p][i]) :
           est[p][i] # "free" => /\ i + t \in Slots /\ est[p][i + t] = est[p][i]
                                 /\ slot[p][i + t].c = "data"
    BY <1>2 DEF WholeInv, ToCome
  <1>4. \A p \in Pages : \A i \in Slots : slot[p][i].c = "data" => Span(slot[p][i]) = 0
    BY <1>1, SpanIs
  <1>5. \A y : y \in D <=> \E x \in H : y \in Extent(x)
    BY DEF Covered
  <1> HIDE DEF D
  <1>5a. ASSUME NEW y \in D
         PROVE  \E p \in Pages : \E h \in Slots : \E u \in 0..Span(slot[p][h]) :
                   <<p, h>> \in H /\ y = <<p, h + u>>
    <2>1. PICK x \in H : y \in Extent(x)
      BY <1>5
    <2>2. PICK p \in Pages, h \in Slots : x = <<p, h>>
      BY <2>1
    <2>3. Span(slot[p][h]) \in Nat
      BY <1>1
    <2>4. PICK u \in 0..Span(slot[p][h]) : y = <<p, h + u>>
      BY <2>1, <2>2, <2>3, <1>1, ExtentIs
    <2> QED BY <2>1, <2>2, <2>4
  <1>5b. ASSUME NEW p \in Pages, NEW h \in Slots, <<p, h>> \in H,
                NEW u \in 0..Span(slot[p][h])
         PROVE  <<p, h + u>> \in D
    <2>1. Span(slot[p][h]) \in Nat
      BY <1>1
    <2>2. <<p, h + u>> \in Extent(<<p, h>>)
      BY <2>1, <1>1, ExtentIs
    <2> QED BY <2>2, <1>5, <1>5b
  <1>6. ASSUME NEW p \in Pages, NEW h \in Slots, <<p, h>> \in H,
               NEW u \in 0..Span(slot[p][h])
        PROVE  /\ h + u \in Slots /\ est[p][h + u] = "used"
               /\ u # 0 => slot[p][h + u].c = "data"
    <2>1. u = 0 \/ u \in 1..Span(slot[p][h])
      BY <1>1
    <2>2. est[p][h] = "used"
      BY <1>6
    <2>3. CASE u = 0
      <3>1. h + u = h
        BY <2>3, <1>1
      <3> QED BY <3>1, <2>2, <2>3
    <2>4. CASE u \in 1..Span(slot[p][h])
      BY <2>2, <2>4, <1>3
    <2> QED BY <2>1, <2>3, <2>4
  <1>7. ASSUME NEW p \in Pages, NEW i, <<p, i>> \in D
        PROVE  \E h \in Slots : \E u \in 0..Span(slot[p][h]) : <<p, h>> \in H /\ i = h + u
    <2>1. PICK q \in Pages : \E h \in Slots : \E u \in 0..Span(slot[q][h]) :
             <<q, h>> \in H /\ <<p, i>> = <<q, h + u>>
      BY <1>5a, <1>7
    <2>2. PICK h \in Slots : \E u \in 0..Span(slot[q][h]) :
             <<q, h>> \in H /\ <<p, i>> = <<q, h + u>>
      BY <2>1
    <2>3. PICK u \in 0..Span(slot[q][h]) : <<q, h>> \in H /\ <<p, i>> = <<q, h + u>>
      BY <2>2
    <2>4. p = q /\ i = h + u
      BY <2>3
    <2> QED BY <2>3, <2>4
  <1>8. D \in SUBSET (Pages \X Slots)
    <2>1. ASSUME NEW y \in D PROVE y \in Pages \X Slots
      <3>1. PICK p \in Pages : \E h \in Slots : \E u \in 0..Span(slot[p][h]) :
               <<p, h>> \in H /\ y = <<p, h + u>>
        BY <1>5a
      <3>2. PICK h \in Slots : \E u \in 0..Span(slot[p][h]) :
               <<p, h>> \in H /\ y = <<p, h + u>>
        BY <3>1
      <3>2a. PICK u \in 0..Span(slot[p][h]) : <<p, h>> \in H /\ y = <<p, h + u>>
        BY <3>2
      <3>3. h + u \in Slots /\ y = <<p, h + u>>
        BY <3>2a, <1>6
      <3> QED BY <3>3
    <2> QED BY <2>1
  <1>9. ASSUME NEW p \in Pages, NEW i \in Slots, <<p, i>> \in D
        PROVE  est[p][i] = "used" /\ \E j \in Slots : <<p, j>> \in H
    <2>1. PICK h \in Slots : \E u \in 0..Span(slot[p][h]) : <<p, h>> \in H /\ i = h + u
      BY <1>7, <1>9
    <2>2. PICK u \in 0..Span(slot[p][h]) : <<p, h>> \in H /\ i = h + u
      BY <2>1
    <2>3. est[p][h + u] = "used"
      BY <1>6, <2>2
    <2> QED BY <2>2, <2>3
  <1>10. ASSUME NEW p \in Pages, NEW i \in Slots, NEW t \in 1..Span(slot[p][i]),
                est[p][i] # "free"
         PROVE  <<p, i>> \in D <=> <<p, i + t>> \in D
    <2>1. i + t \in Slots /\ slot[p][i + t].c = "data" /\ Span(slot[p][i]) # 0
      BY <1>1, <1>3, <1>10
    <2>2. ASSUME <<p, i>> \in D PROVE <<p, i + t>> \in D
      <3>1. PICK h \in Slots : \E u \in 0..Span(slot[p][h]) : <<p, h>> \in H /\ i = h + u
        BY <1>7, <2>2
      <3>2. PICK u \in 0..Span(slot[p][h]) : <<p, h>> \in H /\ i = h + u
        BY <3>1
      <3>3. u = 0
        <4>1. u # 0 => slot[p][i].c = "data"
          BY <1>6, <3>2
        <4> QED BY <4>1, <1>4, <2>1
      <3>4. i = h
        BY <3>2, <3>3, <1>1
      <3>5. t \in 0..Span(slot[p][h]) /\ i + t = h + t
        BY <3>4, <1>1
      <3>6. <<p, h + t>> \in D
        BY <1>5b, <3>2, <3>5
      <3> QED BY <3>5, <3>6
    <2>3. ASSUME <<p, i + t>> \in D PROVE <<p, i>> \in D
      <3>1. PICK h \in Slots : \E u \in 0..Span(slot[p][h]) : <<p, h>> \in H /\ i + t = h + u
        BY <1>7, <2>3
      <3>2. PICK u \in 0..Span(slot[p][h]) : <<p, h>> \in H /\ i + t = h + u
        BY <3>1
      <3>3. slot[p][h].c = "head"
        BY <3>2
      <3>4. h # i + t
        BY <3>3, <2>1
      <3>5. /\ h \in Nat /\ i \in Nat /\ t \in Nat /\ u \in Nat
            /\ Span(slot[p][h]) \in Nat /\ Span(slot[p][i]) \in Nat
        BY <1>1
      <3>6. CASE i < h
        <4>1. h - i \in 1..Span(slot[p][i]) /\ i + (h - i) = h
          BY <3>2, <3>5, <3>6
        <4>2. slot[p][h].c = "data"
          BY <4>1, <1>3, <1>10
        <4> QED BY <4>2, <3>3
      <3>7. CASE h <= i
        <4>1. i - h \in 0..Span(slot[p][h]) /\ i = h + (i - h)
          BY <3>2, <3>5, <3>7
        <4>2. <<p, h + (i - h)>> \in D
          BY <4>1, <3>2, <1>5b
        <4> QED BY <4>1, <4>2
      <3> QED BY <3>5, <3>6, <3>7
    <2> QED BY <2>2, <2>3
  <1> QED BY <1>8, <1>9, <1>10 DEF D


\* A set of whole elements in use on used pages.
Retirable(D) ==
    /\ D \in SUBSET (Pages \X Slots)
    /\ \A p \in Pages : \A i \in Slots : <<p, i>> \in D => est[p][i] = "used" /\ p \in ToSet(used)
    /\ \A p \in Pages : \A i \in Slots : \A t \in 1..Span(slot[p][i]) :
          est[p][i] # "free" => (<<p, i>> \in D <=> <<p, i + t>> \in D)

LEMMA LiveRetirable ==
    ASSUME PagesInv, MarkInv, FillInv, WholeInv, Running, ~Moving,
           pc \notin {"delete", "commit", "undo"}, NEW k,
           NEW H \in SUBSET Live(k, AnyType)
    PROVE  /\ Retirable(Covered(H))
           /\ InOrder(Covered(H)) \in Seq(Pages \X Slots)
           /\ ToSet(InOrder(Covered(H))) = Covered(H)
  <1>0. PICK D : D = Covered(H)
    OBVIOUS
  <1>1. used \in Seq(Pages) /\ inst \in Instances /\ seq \in [Pages -> Nat] /\ N \in Nat
    BY SlotsAre DEF PagesInv, Types
  <1>2. Listed = ToSet(used)
    BY DEF Listed, Running
  <1>3. PICK L : L = Live(k, AnyType)
    OBVIOUS
  <1>4. /\ L \in SUBSET (Pages \X Slots)
        /\ \A x \in L : /\ x[1] \in ToSet(used) /\ pst[x[1]] \in {"active", "full"}
                        /\ est[x[1]][x[2]] = "used" /\ At(x).c = "head"
    BY <1>1, <1>2, <1>3, LiveIs
  <1>5. \A p \in Pages : \A i \in Slots : <<p, i>> \in H =>
           /\ est[p][i] = "used" /\ slot[p][i].c = "head"
           /\ p \in ToSet(used) /\ pst[p] \in {"active", "full"}
    <2> TAKE p \in Pages
    <2> TAKE i \in Slots
    <2> HAVE <<p, i>> \in H
    <2>1. <<p, i>> \in L /\ <<p, i>>[1] = p /\ <<p, i>>[2] = i
      BY <1>3
    <2> QED BY <2>1, <1>4 DEF At
  <1>6. H \in SUBSET (Pages \X Slots)
    BY <1>3, <1>4
  <1>7. /\ D \in SUBSET (Pages \X Slots)
        /\ \A p \in Pages : \A i \in Slots : <<p, i>> \in D =>
              /\ est[p][i] = "used"
              /\ \E j \in Slots : <<p, j>> \in H
        /\ \A p \in Pages : \A i \in Slots : \A t \in 1..Span(slot[p][i]) :
              est[p][i] # "free" => (<<p, i>> \in D <=> <<p, i + t>> \in D)
    <2>1. \A p \in Pages : \A i \in Slots : <<p, i>> \in H =>
             est[p][i] = "used" /\ slot[p][i].c = "head"
      BY <1>5
    <2> QED BY <2>1, <1>0, <1>6, ExtentsClosed
  <1>8. \A p \in Pages : \A i \in Slots : <<p, i>> \in D =>
           est[p][i] = "used" /\ p \in ToSet(used) /\ pst[p] \in {"active", "full"}
    BY <1>5, <1>7
  <1>9. Retirable(D)
    BY <1>7, <1>8 DEF Retirable
  <1>10. \A x, y \in D : seq[x[1]] = seq[y[1]] => x[1] = y[1]
    <2>1. \A p, q \in Listed : pst[p] \in {"active", "full"} /\ pst[q] \in {"active", "full"}
                               /\ seq[p] = seq[q] => p = q
      BY ListFacts
    <2>2. \A x \in D : x[1] \in Listed /\ pst[x[1]] \in {"active", "full"}
      BY <1>2, <1>7, <1>8
    <2> QED BY <2>1, <2>2
  <1>11. InOrder(D) \in Seq(Pages \X Slots) /\ ToSet(InOrder(D)) = D
    BY <1>1, <1>7, <1>10, InOrderIs
  <1> QED BY <1>0, <1>9, <1>11

\* What data_element_del and bulk_element_del mark is whole elements.
LEMMA DeletionRetirable ==
    ASSUME PagesInv, MarkInv, FillInv, WholeInv, Running, ~Moving,
           pc \notin {"delete", "commit", "undo"}, NEW k
    PROVE  /\ Fragments(k) \in Seq(Pages \X Slots) /\ Retirable(ToSet(Fragments(k)))
           /\ Deletion(k) \in Seq(Pages \X Slots) /\ Retirable(ToSet(Deletion(k)))
  <1>1. used \in Seq(Pages) /\ inst \in Instances /\ seq \in [Pages -> Nat] /\ N \in Nat
    BY SlotsAre DEF PagesInv, Types
  <1>2. \A p, q \in Listed : pst[p] \in {"active", "full"} /\ pst[q] \in {"active", "full"}
                             /\ seq[p] = seq[q] => p = q
    BY ListFacts
  <1>3. PICK L : L = Live(k, AnyType)
    OBVIOUS
  <1>4. PICK B : B = Live(k, {"bulk"})
    OBVIOUS
  <1>5. PICK I : I = Live(k, {"bulkinfo"})
    OBVIOUS
  <1>6. B \in SUBSET L /\ I \in SUBSET L
    BY <1>3, <1>4, <1>5 DEF Live, LiveOn, AnyType
  <1>7. \A S \in SUBSET L : S # {} => First(S) \in S
    <2> TAKE S \in SUBSET L
    <2> HAVE S # {}
    <2>1. S \in SUBSET (Pages \X Slots)
          /\ \A x \in S : x[1] \in Listed /\ pst[x[1]] \in {"active", "full"}
      BY <1>1, <1>3, LiveIs
    <2>2. \A x, y \in S : seq[x[1]] = seq[y[1]] => x[1] = y[1]
      BY <1>2, <2>1
    <2> QED BY <1>1, <2>1, <2>2, FirstIs
  <1>8. PICK DB : DB = Covered(B)
    OBVIOUS
  <1>9. Retirable(DB) /\ InOrder(DB) \in Seq(Pages \X Slots) /\ ToSet(InOrder(DB)) = DB
    BY <1>3, <1>6, <1>8, LiveRetirable
  <1>10. Fragments(k) = InOrder(DB)
    BY <1>4, <1>8 DEF Fragments, Covered
  <1>11. Deletion(k) \in Seq(Pages \X Slots) /\ Retirable(ToSet(Deletion(k)))
    <2>1. CASE Deletion(k) = <<>>
      <3>1. ToSet(<<>>) = {} /\ <<>> \in Seq(Pages \X Slots)
        BY DEF ToSet
      <3> QED BY <2>1, <3>1 DEF Retirable
    <2>2. CASE L # {} /\ Deletion(k) = InOrder(Extent(First(L)))
      <3>1. First(L) \in L
        BY <1>7, <2>2
      <3>2. PICK H : H = {First(L)}
        OBVIOUS
      <3>3. Extent(First(L)) = Covered(H)
        BY <3>2 DEF Covered
      <3>4. H \in SUBSET L
        BY <3>1, <3>2
      <3> QED BY <1>3, <2>2, <3>3, <3>4, LiveRetirable
    <2>3. CASE I # {} /\ Deletion(k) = <<First(I)>> \o Fragments(k)
      <3>1. PICK a : a = First(I)
        OBVIOUS
      <3>2. a \in I /\ a \in L
        BY <1>6, <1>7, <2>3, <3>1
      <3>3. PICK H : H = {a} \cup B
        OBVIOUS
      <3>4. H \in SUBSET L
        BY <1>6, <3>2, <3>3
      <3>5. PICK D : D = Covered(H)
        OBVIOUS
      <3>6. Retirable(D)
        BY <1>3, <3>4, <3>5, LiveRetirable
      <3>7. a \in Pages \X Slots /\ At(a).t = "bulkinfo"
        BY <1>1, <1>5, <3>2, LiveIs
      <3>8. Extent(a) = {a}
        <4>1. Span(At(a)) = 0
          BY <3>7 DEF Span
        <4>2. a[1] \in Pages /\ a[2] \in Nat /\ a = <<a[1], a[2]>>
          BY <3>7, <1>1 DEF Slots
        <4>3. Extent(a) = {a[1]} \X (a[2] .. (a[2] + 0))
          BY <4>1 DEF Extent
        <4>4. a[2] .. (a[2] + 0) = {a[2]}
          BY <4>2
        <4> QED BY <4>2, <4>3, <4>4
      <3>9. D = {a} \cup DB
        BY <3>3, <3>5, <3>8, <1>8 DEF Covered
      <3>10. Fragments(k) \in Seq(Pages \X Slots) /\ ToSet(Fragments(k)) = DB
        BY <1>9, <1>10
      <3>11. PICK s : s = Fragments(k)
        OBVIOUS
      <3>12. /\ s \in Seq(Pages \X Slots) /\ <<a>> \in Seq(Pages \X Slots)
             /\ Deletion(k) = <<a>> \o s /\ ToSet(s) = DB
        BY <2>3, <3>1, <3>7, <3>10, <3>11
      <3>13. PICK d : d = <<a>> \o s
        OBVIOUS
      <3>14. d \in Seq(Pages \X Slots)
        BY <3>12, <3>13, ConcatProperties
      <3>15. Len(s) \in Nat /\ Len(d) = 1 + Len(s) /\ d[1] = a
             /\ \A i \in 1..Len(s) : d[i + 1] = s[i]
        BY <3>12, <3>13
      <3>16. DOMAIN d = 1..(1 + Len(s)) /\ DOMAIN s = 1..Len(s)
        BY <3>12, <3>14, <3>15
      <3>17. ToSet(d) = {a} \cup ToSet(s)
        <4>1. \A j \in 1..(1 + Len(s)) : j = 1 \/ (j - 1 \in 1..Len(s) /\ d[j] = s[j - 1])
          BY <3>15
        <4>2. \A i \in 1..Len(s) : i + 1 \in 1..(1 + Len(s))
          BY <3>15
        <4>3. ASSUME NEW x \in ToSet(d) PROVE x \in {a} \cup ToSet(s)
          <5>1. PICK j \in 1..(1 + Len(s)) : x = d[j]
            BY <3>16 DEF ToSet
          <5> QED BY <5>1, <4>1, <3>15, <3>16 DEF ToSet
        <4>4. ASSUME NEW x \in ToSet(s) PROVE x \in ToSet(d)
          <5>1. PICK i \in 1..Len(s) : x = s[i]
            BY <3>16 DEF ToSet
          <5>2. x = d[i + 1] /\ i + 1 \in DOMAIN d
            BY <5>1, <4>2, <3>15, <3>16
          <5> QED BY <5>2 DEF ToSet
        <4>5. a \in ToSet(d)
          <5>1. 1 \in DOMAIN d
            BY <3>15, <3>16
          <5> QED BY <5>1, <3>15 DEF ToSet
        <4> QED BY <4>3, <4>4, <4>5
      <3>18. ToSet(d) = D
        BY <3>9, <3>12, <3>17
      <3> QED BY <3>6, <3>12, <3>13, <3>14, <3>18
    <2> QED BY <2>1, <2>2, <2>3, <1>3, <1>5, Zenon DEF Deletion
  <1> QED BY <1>9, <1>10, <1>11


\* Sets of entries of a page.
LEMMA SlotSets ==
    ASSUME inst \in Instances
    PROVE  /\ \A S \in SUBSET Slots : IsFiniteSet(S) /\ Cardinality(S) \in 0..N
           /\ \A p : InUse(p) \in SUBSET Slots
  <1>1. IsFiniteSet(Slots) /\ Cardinality(Slots) = N /\ N \in Nat
    BY SlotsAre
  <1>2. ASSUME NEW S \in SUBSET Slots PROVE IsFiniteSet(S) /\ Cardinality(S) \in 0..N
    <2>1. IsFiniteSet(S) /\ Cardinality(S) <= N
      BY <1>1, FS_Subset
    <2>2. Cardinality(S) \in Nat
      BY <2>1, FS_CardinalityType
    <2> QED BY <1>1, <2>1, <2>2
  <1> QED BY <1>2 DEF InUse

\* The entries of a list that are on page p are as many as their places.
LEMMA PageCount ==
    ASSUME inst \in Instances, NEW D \in SUBSET (Pages \X Slots), NEW p \in Pages
    PROVE  /\ Cardinality({x \in D : x[1] = p}) = Cardinality({i \in Slots : <<p, i>> \in D})
           /\ {i \in Slots : <<p, i>> \in D} \in SUBSET Slots
           /\ Cardinality({x \in D : x[1] = p}) \in Nat
  <1> DEFINE S == {i \in Slots : <<p, i>> \in D}
             T == {x \in D : x[1] = p}
             f == [i \in S |-> <<p, i>>]
  <1>1. S \in SUBSET Slots /\ IsFiniteSet(S) /\ Cardinality(S) \in Nat
    <2>1. S \in SUBSET Slots
      OBVIOUS
    <2>2. IsFiniteSet(S) /\ Cardinality(S) \in 0..N /\ N \in Nat
      BY <2>1, SlotSets, SlotsAre
    <2> QED BY <2>1, <2>2
  <1>2. \A x \in T : \E i \in S : f[i] = x
    <2> TAKE x \in T
    <2>1. PICK q \in Pages, i \in Slots : x = <<q, i>>
      OBVIOUS
    <2>2. q = p
      BY <2>1
    <2>3. i \in S /\ f[i] = x
      BY <2>1, <2>2
    <2> QED BY <2>3
  <1>3. f \in [S -> T]
    OBVIOUS
  <1>4. \A i, j \in S : f[i] = f[j] => i = j
    OBVIOUS
  <1>5. DOMAIN f = S
    OBVIOUS
  <1> HIDE DEF f
  <1>6. f \in Bijection(S, T)
    BY <1>2, <1>3, <1>4, <1>5 DEF Bijection, Injection, Surjection, IsInjective
  <1>7. Cardinality(T) = Cardinality(S)
    BY <1>1, <1>6, FS_Bijection DEF ExistsBijection
  <1> QED BY <1>1, <1>7

\* A step that takes elements out of use, or none, and discounts their entries.
LEMMA Retire ==
    ASSUME StoreInv, [Next]_vars, Running, ~Moving,
           pc \notin {"delete", "commit", "undo", "data"},
           NEW at \in Seq(Pages \X Slots), Retirable(ToSet(at)),
           marks' = [at |-> at, to |-> "updated"], cnt' = Discounted(at),
           UNCHANGED <<flash, used, nxt>>,
           Running', ~Moving', pc' # "data"
    PROVE  FillInv' /\ WholeInv' /\ CopyInv' /\ CountInv'
  <1> DEFINE D == ToSet(at)
  <1> USE DEF StoreInv, EntryInv
  <1>1. /\ N \in Nat \ {0} /\ Slots = 1..N
        /\ \A p \in Pages : \A i \in Slots :
              /\ slot[p][i] \in Cell /\ Span(slot[p][i]) \in Nat
              /\ est[p][i] \in EntryStates /\ Eff[p][i] \in EntryStates
        /\ \A p \in Pages : nxt[p] \in 1..(N + 1) /\ Low(p) \in 0..(N + 1) /\ Low(p) <= nxt[p]
        /\ ToSet(used) \in SUBSET Kept /\ Kept \in SUBSET Pages
    BY EntryFacts
  <1>2. N' = N /\ Slots' = Slots /\ inst' = inst /\ inst \in Instances
    BY InstKept DEF PagesInv, Types
  <1>3. UNCHANGED <<pst, seq, slot, est, used, nxt>>
    BY DEF flash
  <1>4. Eff = est /\ pc # "copied" /\ pc' # "copied"
    BY EffIsEst DEF Moving, PagesInv
  <1>5. Kept' = Kept /\ Kept = ToSet(used) /\ Written' = Written /\ Steady' = Steady
        /\ (\A p \in Pages : Low(p) = nxt[p]) /\ (\A p \in Pages : Low(p)' = nxt[p])
        /\ (\A p \in Pages : HalfCount(p) = 0) /\ (\A p \in Pages : HalfCount(p)' = 0)
        /\ (\A p, i : ~ToCome(p, i)) /\ (\A p, i : ~ToCome(p, i)')
    BY <1>2, <1>3 DEF Kept, Written, Steady, Low, HalfWritten, HalfCount, ToCome
  <1>6. /\ D \in SUBSET (Pages \X Slots)
        /\ \A p \in Pages : \A i \in Slots : <<p, i>> \in D => est[p][i] = "used" /\ p \in ToSet(used)
        /\ \A p \in Pages : \A i \in Slots : \A t \in 1..Span(slot[p][i]) :
              est[p][i] # "free" => (<<p, i>> \in D <=> <<p, i + t>> \in D)
    BY DEF Retirable
  <1> HIDE DEF D
  <1>7. \A p \in Pages : \A i \in Slots :
           Eff'[p][i] = IF <<p, i>> \in D THEN "updated" ELSE Eff[p][i]
    <2>1. Pending' = D /\ Goal' = "updated"
      BY <1>4 DEF Pending, Goal, D
    <2>2. Eff' = [p \in Pages |-> [i \in Slots |-> IF <<p, i>> \in D THEN "updated" ELSE est[p][i]]]
      BY <2>1, <1>2, <1>3 DEF Eff
    <2> QED BY <2>2, <1>4
  <1>8. FillInv'
    <2>1. nxt' \in [Pages -> 1..(N' + 1)]
      BY <1>2, <1>3 DEF FillInv
    <2>2. \A p \in Pages \ Written' : \A i \in Slots' : slot'[p][i] = Blank /\ est'[p][i] = "free"
      BY <1>2, <1>3, <1>5 DEF FillInv
    <2>3. \A p \in Kept' : \A i \in Slots' : Eff'[p][i] = "free" <=> i >= Low(p)'
      <3>1. ASSUME NEW p \in Kept, NEW i \in Slots PROVE Eff'[p][i] = "free" <=> i >= nxt[p]
        <4>1. p \in Pages /\ (Eff[p][i] = "free" <=> i >= nxt[p])
          BY <1>1, <1>5 DEF FillInv
        <4>2. Eff'[p][i] = "free" <=> Eff[p][i] = "free"
          BY <4>1, <1>4, <1>6, <1>7
        <4> QED BY <4>1, <4>2
      <3> QED BY <3>1, <1>1, <1>2, <1>5
    <2>4. Steady' => \A p \in Kept' : \A i \in Slots' : i >= nxt'[p] => slot'[p][i] = Blank
      BY <1>2, <1>3, <1>5 DEF FillInv
    <2> QED BY <2>1, <2>2, <2>3, <2>4 DEF FillInv
  <1>9. WholeInv'
    <2>1. ASSUME NEW p \in Pages, NEW i \in Slots, NEW t \in 1..Span(slot[p][i]),
                 Eff'[p][i] # "free"
          PROVE  i + t \in Slots /\ Eff'[p][i + t] = Eff'[p][i] /\ slot[p][i + t].c = "data"
      <3>1. Eff[p][i] # "free"
        BY <2>1, <1>6, <1>7, <1>4
      <3>2. i + t \in Slots /\ Eff[p][i + t] = Eff[p][i] /\ slot[p][i + t].c = "data"
        <4>1. ~ToCome(p, i + t)
          BY <1>5, Zenon
        <4> QED BY <3>1, <4>1 DEF WholeInv
      <3>3. <<p, i>> \in D <=> <<p, i + t>> \in D
        BY <3>1, <1>4, <1>6
      <3> QED BY <3>2, <3>3, <1>7
    <2>2. ASSUME Steady, NEW p \in Pages, NEW i \in Slots, Eff'[p][i] = "used"
          PROVE  \/ slot[p][i].c = "head"
                 \/ /\ slot[p][i].c = "data"
                    /\ \E h \in 1..(i - 1) : /\ slot[p][h].c = "head" /\ Eff'[p][h] = "used"
                                             /\ i <= h + Span(slot[p][h])
      <3>1. Eff[p][i] = "used" /\ <<p, i>> \notin D
        BY <2>2, <1>7
      <3>2. CASE slot[p][i].c = "head"
        BY <3>2
      <3>3. CASE slot[p][i].c # "head"
        <4>1. slot[p][i].c = "data" /\ \E h \in 1..(i - 1) :
                 /\ slot[p][h].c = "head" /\ Eff[p][h] = "used"
                 /\ i <= h + Span(slot[p][h])
          BY <2>2, <3>1, <3>3 DEF WholeInv
        <4>2. PICK h \in 1..(i - 1) : /\ slot[p][h].c = "head" /\ Eff[p][h] = "used"
                                      /\ i <= h + Span(slot[p][h])
          BY <4>1
        <4>3. h \in Slots /\ h \in Nat /\ i \in Nat
          BY <1>1
        <4>4. Span(slot[p][h]) \in Nat
          BY <4>3, <1>1
        <4>5. i - h \in 1..Span(slot[p][h]) /\ h + (i - h) = i
          BY <4>2, <4>3, <4>4
        <4>6. <<p, h>> \notin D
          <5>1. <<p, h>> \in D <=> <<p, h + (i - h)>> \in D
            BY <4>2, <4>3, <4>5, <1>4, <1>6
          <5> QED BY <5>1, <4>5, <3>1
        <4>7. Eff'[p][h] = "used"
          BY <4>2, <4>3, <4>6, <1>7
        <4> QED BY <4>1, <4>2, <4>7
      <3> QED BY <3>2, <3>3
    <2>3. ~Steady => \A p \in Pages : \A i \in Slots : slot[p][i].c # "data" /\ Span(slot[p][i]) = 0
      BY DEF WholeInv
    <2> QED BY <2>1, <2>2, <2>3, <1>2, <1>3, <1>5 DEF WholeInv
  <1>10. CopyInv'
    BY DEF CopyInv
  <1>11. CountInv'
    <2> DEFINE d(p) == Cardinality({x \in D : x[1] = p})
    <2>1. \A p \in Pages : cnt'[p] = cnt[p] - d(p)
      BY DEF Discounted, D
    <2>2. cnt' = [p \in Pages |-> cnt'[p]]
      BY DEF Discounted
    <2>3. ASSUME NEW p \in Pages
          PROVE  /\ d(p) \in Nat /\ Cardinality(InUse(p)) \in Nat
                 /\ Cardinality(InUse(p)') = Cardinality(InUse(p)) - d(p)
                 /\ p \notin Kept => d(p) = 0
      <3> DEFINE S == {i \in Slots : <<p, i>> \in D}
      <3>1. d(p) = Cardinality(S) /\ S \in SUBSET Slots /\ d(p) \in Nat
        BY <1>2, <1>6, PageCount
      <3>2. InUse(p) \in SUBSET Slots /\ IsFiniteSet(InUse(p)) /\ Cardinality(InUse(p)) \in 0..N
        BY <1>2, SlotSets
      <3>3. InUse(p)' = InUse(p) \ S
        BY <1>2, <1>7 DEF InUse
      <3>4. InUse(p) \cap S = S
        BY <1>4, <1>6 DEF InUse
      <3>5. Cardinality(InUse(p) \ S) = Cardinality(InUse(p)) - Cardinality(S)
        BY <3>2, <3>4, FS_Difference
      <3>6. ASSUME p \notin Kept PROVE d(p) = 0
        <4>1. S = {}
          BY <3>6, <1>5, <1>6
        <4> QED BY <4>1, <3>1, FS_EmptySet
      <3> QED BY <3>1, <3>2, <3>3, <3>5, <3>6, <1>1
    <2>4. /\ cnt \in [Pages -> 0..N]
          /\ \A p \in Kept : /\ Cardinality(InUse(p)) <= cnt[p] /\ cnt[p] < nxt[p]
                             /\ Steady => cnt[p] = Cardinality(InUse(p))
      <3>1. \A p \in Kept : Cardinality(InUse(p)) \in Nat /\ HalfCount(p) = 0
        BY <1>1, <1>5, <2>3
      <3>2. \A p \in Kept : /\ Cardinality(InUse(p)) + HalfCount(p) <= cnt[p] /\ cnt[p] < nxt[p]
                            /\ Steady => cnt[p] = Cardinality(InUse(p)) + HalfCount(p)
        BY DEF CountInv
      <3> QED BY <3>1, <3>2 DEF CountInv
    <2> HIDE DEF d
    <2>5. ASSUME NEW p \in Kept
          PROVE  /\ Cardinality(InUse(p)') + HalfCount(p)' <= cnt'[p] /\ cnt'[p] < nxt[p]
                 /\ Steady => cnt'[p] = Cardinality(InUse(p)') + HalfCount(p)'
                 /\ cnt'[p] \in 0..N
      <3>1. /\ p \in Pages /\ HalfCount(p)' = 0 /\ cnt'[p] = cnt[p] - d(p)
            /\ d(p) \in Nat /\ Cardinality(InUse(p)) \in Nat /\ cnt[p] \in 0..N
            /\ Cardinality(InUse(p)') = Cardinality(InUse(p)) - d(p)
            /\ Cardinality(InUse(p)') \in Nat /\ nxt[p] \in Nat
        <4>1. p \in Pages
          BY <1>1
        <4>2. InUse(p)' \in SUBSET Slots
          BY <1>2 DEF InUse
        <4>3. Cardinality(InUse(p)') \in 0..N
          BY <1>2, <4>2, SlotSets
        <4> QED BY <1>1, <1>5, <2>1, <2>3, <2>4, <4>1, <4>3
      <3>2. /\ Cardinality(InUse(p)) <= cnt[p] /\ cnt[p] < nxt[p]
            /\ Steady => cnt[p] = Cardinality(InUse(p))
        BY <2>4
      <3>3. PICK c, e, u : c = cnt[p] /\ e = d(p) /\ u = Cardinality(InUse(p))
        OBVIOUS
      <3>4. /\ c \in 0..N /\ e \in Nat /\ u \in Nat /\ N \in Nat /\ nxt[p] \in Nat
            /\ Cardinality(InUse(p)') = u - e /\ u - e \in Nat /\ cnt'[p] = c - e
            /\ u <= c /\ c < nxt[p] /\ (Steady => c = u) /\ HalfCount(p)' = 0
        BY <3>1, <3>2, <3>3, <1>1
      <3>5. u - e + 0 <= c - e /\ c - e < nxt[p] /\ c - e \in 0..N /\ (c = u => c - e = u - e + 0)
        BY <3>4
      <3> QED BY <3>4, <3>5
    <2>6. \A p \in Pages : cnt'[p] \in 0..N
      <3>1. \A p \in Pages \ Kept : cnt'[p] = cnt[p]
        <4> TAKE p \in Pages \ Kept
        <4>1. cnt'[p] = cnt[p] - d(p) /\ d(p) = 0 /\ cnt[p] \in 0..N
          BY <2>1, <2>3, <2>4
        <4> QED BY <4>1, <1>1
      <3> QED BY <3>1, <2>4, <2>5
    <2>7. cnt' \in [Pages -> 0..N]
      BY <2>2, <2>6
    <2>8. \A p \in Kept' : /\ (Cardinality(InUse(p)) + HalfCount(p) <= cnt[p])' /\ cnt'[p] < nxt'[p]
                           /\ Steady' => (cnt[p] = Cardinality(InUse(p)) + HalfCount(p))'
      BY <2>5, <1>3, <1>5
    <2> QED BY <2>7, <2>8, <1>2 DEF CountInv
  <1> QED BY <1>8, <1>9, <1>10, <1>11


-----------------------------------------------------------------------------
(* Steps that leave the entries as they are                                *)

LEMMA SameEntries ==
    ASSUME StoreInv, [Next]_vars, Running, Running', pc # "data", pc' # "data",
           Eff' = Eff, UNCHANGED <<slot, nxt, cnt>>, Kept' = Kept, Written' = Written,
           \A p \in Pages \ Written : est'[p] = est[p],
           Moving' <=> Moving,
           Moving => req' = req /\ est'[req.vic] = est[req.vic] /\ pc' # "candidate"
    PROVE  FillInv' /\ WholeInv' /\ CopyInv' /\ CountInv'
  <1> USE DEF StoreInv, EntryInv
  <1>1. N' = N /\ Slots' = Slots /\ inst' = inst /\ Kept \in SUBSET Pages
    BY InstKept, EntryFacts
  <1>2. /\ Steady' = Steady
        /\ (\A p \in Pages : Low(p) = nxt[p]) /\ (\A p \in Pages : Low(p)' = nxt[p])
        /\ (\A p \in Pages : HalfCount(p) = 0) /\ (\A p \in Pages : HalfCount(p)' = 0)
        /\ \A p \in Pages : InUse(p)' = InUse(p)
    BY <1>1 DEF Steady, Low, HalfWritten, HalfCount, InUse
  <1>3. \A p, i : ToCome(p, i)' = ToCome(p, i)
    BY DEF ToCome
  <1>4. FillInv'
    <2>1. nxt' \in [Pages -> 1..(N' + 1)]
      BY <1>1 DEF FillInv
    <2>2. \A p \in Pages \ Written' : \A i \in Slots' : slot'[p][i] = Blank /\ est'[p][i] = "free"
      BY <1>1 DEF FillInv
    <2>3. \A p \in Kept' : \A i \in Slots' : Eff'[p][i] = "free" <=> i >= Low(p)'
      BY <1>1, <1>2 DEF FillInv
    <2>4. Steady' => \A p \in Kept' : \A i \in Slots' : i >= nxt'[p] => slot'[p][i] = Blank
      BY <1>1, <1>2 DEF FillInv
    <2> QED BY <2>1, <2>2, <2>3, <2>4 DEF FillInv
  <1>5. WholeInv'
    BY <1>1, <1>2, <1>3 DEF WholeInv
  <1>6. CopyInv'
    <2> SUFFICES ASSUME Moving PROVE CopyInv'
      BY DEF CopyInv
    <2>1. req' = req /\ est'[req.vic] = est[req.vic] /\ pc' # "candidate"
      OBVIOUS
    <2> QED BY <1>1, <2>1 DEF CopyInv
  <1>7. CountInv'
    BY <1>1, <1>2 DEF CountInv
  <1> QED BY <1>4, <1>5, <1>6, <1>7

LEMMA MarkStateEntries ==
    ASSUME StoreInv, [Next]_vars, MarkState
    PROVE  FillInv' /\ WholeInv' /\ CopyInv' /\ CountInv' /\ MarkInv' /\ MoveInv'
  <1> USE DEF StoreInv, EntryInv
  <1>1. /\ Eff' = Eff /\ pc \in {"delete", "commit", "undo"}
        /\ pc' \in {pc, "room", "idle"}
        /\ pc' # pc => marks'.at = <<>>
        /\ pc' = pc => op' = op /\ marks' = [marks EXCEPT !.at = Tail(@)] /\ marks'.at # <<>>
    BY MarkStateEff
  <1>2. UNCHANGED <<pst, seq, slot, used, free, nxt, cnt, inst>>
    BY DEF MarkState, ram
  <1>3. Running /\ Running' /\ ~Moving /\ ~Moving' /\ pc' \notin {"erase", "page", "again", "data"}
    BY <1>1 DEF Running, Moving
  <1>4. Kept' = Kept /\ Written' = Written
    BY <1>2, <1>3 DEF Kept, Written
  <1>5. /\ marks.at \in Seq(Pages \X Slots) /\ marks.at # <<>>
        /\ \A x \in ToSet(marks.at) : /\ x[1] \in ToSet(used)
                                      /\ marks.to = "updated" => est[x[1]][x[2]] # "free"
    BY <1>1 DEF MarkInv
  <1>6. /\ Head(marks.at) \in Pages \X Slots /\ Tail(marks.at) \in Seq(Pages \X Slots)
        /\ Len(marks.at) > 1 => Tail(marks.at) # <<>>
        /\ Head(marks.at) \in ToSet(marks.at) /\ ToSet(Tail(marks.at)) \in SUBSET ToSet(marks.at)
    BY <1>5, HeadTail
  <1>7. PICK q \in Pages, j \in Slots : Head(marks.at) = <<q, j>>
    BY <1>6
  <1>8. est' = [est EXCEPT ![q][j] = marks.to] /\ q \in ToSet(used)
    <2>1. est' = [est EXCEPT ![Head(marks.at)[1]][Head(marks.at)[2]] = marks.to]
      BY DEF MarkState
    <2>2. Head(marks.at)[1] = q /\ Head(marks.at)[2] = j
      BY <1>7
    <2>3. Head(marks.at)[1] \in ToSet(used)
      BY <1>5, <1>6
    <2> QED BY <2>1, <2>2, <2>3
  <1>9. est \in [Pages -> [Slots -> EntryStates]] /\ Slots' = Slots /\ DOMAIN marks = {"at", "to"}
    BY InstKept DEF PagesInv, Types
  <1>10. \A p \in Pages \ Written : est'[p] = est[p]
    <2>1. q \in Written
      BY <1>3, <1>8 DEF ListInv, Kept, PagesInv
    <2> QED BY <2>1, <1>8, <1>9
  <1>11. FillInv' /\ WholeInv' /\ CopyInv' /\ CountInv'
    BY <1>1, <1>2, <1>3, <1>4, <1>10, SameEntries
  <1>12. CASE pc' = pc
    <2>1. marks'.at = Tail(marks.at) /\ marks'.to = marks.to /\ op' = op /\ marks'.at # <<>>
      BY <1>1, <1>9, <1>12
    <2>2. \A x \in ToSet(marks'.at) : /\ x[1] \in ToSet(used')
                                      /\ marks'.to = "updated" => est'[x[1]][x[2]] # "free"
      <3> TAKE x \in ToSet(marks'.at)
      <3>1. x \in ToSet(marks.at)
        BY <2>1, <1>6
      <3>2. x[1] \in Pages /\ x[2] \in Slots
        <4>1. x \in Pages \X Slots
          BY <3>1, <1>5 DEF ToSet
        <4> QED BY <4>1
      <3>3. est'[x[1]][x[2]] \in {est[x[1]][x[2]], marks.to}
        BY <3>2, <1>8, <1>9
      <3> QED BY <3>1, <3>3, <1>2, <1>5, <2>1
    <2>3. Steady' = Steady
      BY <1>2 DEF Steady
    <2>4. ~(~Steady /\ pc = "commit")
      <3> SUFFICES ASSUME ~Steady, pc = "commit" PROVE FALSE
        OBVIOUS
      <3>1. marks.at = <<<<Last(used), nxt[Last(used)] - 1>>>>
        BY DEF MarkInv
      <3>2. ~(Len(marks.at) > 1)
        BY <3>1
      <3>3. marks' = NoMarks
        BY <3>2 DEF MarkState, Return
      <3> QED BY <3>3, <2>1 DEF NoMarks
    <2>5. marks'.at \in Seq(Pages \X Slots')
      BY <2>1, <1>6, <1>9
    <2>6. MoveInv'
      BY <1>3 DEF MoveInv
    <2>7. /\ pc \in {"delete", "undo"} => marks.to = "updated"
          /\ pc = "commit" => marks.to = "used"
          /\ pc = "undo" => op.v \in BulkVals
      BY DEF MarkInv
    <2>8. MarkInv'
      BY <1>1, <1>12, <2>1, <2>2, <2>3, <2>4, <2>5, <2>7 DEF MarkInv
    <2> QED BY <1>11, <2>6, <2>8
  <1>13. CASE pc' # pc
    <2>1. marks'.at = <<>> /\ pc' \in {"room", "idle"}
      BY <1>1, <1>13
    <2>2. ToSet(<<>>) = {} /\ <<>> \in Seq(Pages \X Slots')
      BY DEF ToSet
    <2> QED BY <1>3, <1>11, <2>1, <2>2 DEF MarkInv, MoveInv
  <1> QED BY <1>12, <1>13


\* Nothing is being marked and nothing is written.
LEMMA QuietEff ==
    ASSUME marks.at = <<>>, marks'.at = <<>>, pc # "copied", pc' # "copied",
           est' = est, Slots' = Slots
    PROVE  Eff' = Eff
  <1>1. Pending = {} /\ Pending' = {}
    BY DEF Pending, ToSet
  <1>2. Eff' = [p \in Pages |-> [i \in Slots |-> est[p][i]]]
    BY <1>1 DEF Eff
  <1>3. Eff = [p \in Pages |-> [i \in Slots |-> est[p][i]]]
    BY <1>1 DEF Eff
  <1> QED BY <1>2, <1>3

LEMMA QuietEntries ==
    ASSUME StoreInv, [Next]_vars,
           pc \in {"room", "request", "erase", "again", "idle"},
           pc' \in {"room", "request", "erase", "page", "again", "header", "idle"},
           UNCHANGED <<slot, est, used, nxt, cnt>>, Written' = Written, marks'.at = <<>>
    PROVE  FillInv' /\ WholeInv' /\ CopyInv' /\ CountInv' /\ MarkInv'
  <1> USE DEF StoreInv, EntryInv
  <1>1. marks.at = <<>>
    BY DEF MarkInv
  <1>2. Running /\ Running' /\ ~Moving /\ ~Moving' /\ Slots' = Slots
    BY InstKept DEF Running, Moving
  <1>3. Eff' = Eff
    BY <1>1, <1>2, QuietEff
  <1>4. Kept' = Kept
    BY <1>2 DEF Kept
  <1>5. FillInv' /\ WholeInv' /\ CopyInv' /\ CountInv'
    BY <1>2, <1>3, <1>4, SameEntries
  <1>6. MarkInv'
    <2>1. ToSet(<<>>) = {} /\ <<>> \in Seq(Pages \X Slots')
      BY DEF ToSet
    <2> QED BY <2>1 DEF MarkInv
  <1> QED BY <1>5, <1>6

\* A step that marks a list of elements in use.
LEMMA RetireEntries ==
    ASSUME StoreInv, [Next]_vars, pc \in {"idle", "request", "again"},
           NEW at \in Seq(Pages \X Slots), Retirable(ToSet(at)),
           marks' = [at |-> at, to |-> "updated"], cnt' = Discounted(at),
           UNCHANGED <<flash, used, nxt>>,
           pc' \in {"delete", "undo", "room"}, at # <<>> <=> pc' # "room",
           pc' = "undo" => op'.v \in BulkVals
    PROVE  FillInv' /\ WholeInv' /\ CopyInv' /\ CountInv' /\ MarkInv' /\ MoveInv'
  <1> USE DEF StoreInv, EntryInv
  <1>1. Running /\ Running' /\ ~Moving /\ ~Moving' /\ Slots' = Slots
    BY InstKept DEF Running, Moving
  <1>2. FillInv' /\ WholeInv' /\ CopyInv' /\ CountInv'
    BY <1>1, Retire
  <1>3. MarkInv'
    <2>1. \A x \in ToSet(at) : x[1] \in ToSet(used) /\ est[x[1]][x[2]] # "free"
      <3> TAKE x \in ToSet(at)
      <3>1. PICK p \in Pages, i \in Slots : x = <<p, i>>
        BY DEF Retirable
      <3>2. p \in ToSet(used) /\ est[p][i] = "used"
        BY <3>1 DEF Retirable
      <3> QED BY <3>1, <3>2
    <2>2. marks'.at = at /\ marks'.to = "updated" /\ est' = est /\ used' = used
      BY DEF flash
    <2> QED BY <1>1, <2>1, <2>2 DEF MarkInv
  <1>4. MoveInv'
    BY <1>1 DEF MoveInv
  <1> QED BY <1>2, <1>3, <1>4

LEMMA NoSpaceEntries ==
    ASSUME StoreInv, [Next]_vars, pc \in {"request", "again"}, op.fn = "put",
           NoSpace, UNCHANGED <<flash, used, nxt>>
    PROVE  FillInv' /\ WholeInv' /\ CopyInv' /\ CountInv' /\ MarkInv' /\ MoveInv'
  <1> USE DEF StoreInv, EntryInv
  <1>1. CASE Return("no_space") /\ UNCHANGED cnt
    <2>1. pc' = "idle" /\ marks'.at = <<>>
      BY <1>1 DEF Return, NoMarks
    <2>2. Written' = Written
      BY DEF Written, flash
    <2>3. FillInv' /\ WholeInv' /\ CopyInv' /\ CountInv' /\ MarkInv'
      BY <1>1, <2>1, <2>2, QuietEntries DEF flash
    <2>4. MoveInv'
      BY <2>1 DEF MoveInv, Moving
    <2> QED BY <2>3, <2>4
  <1>2. CASE /\ op.v \in BulkVals /\ Fragments(op.k) # <<>>
             /\ marks' = [at |-> Fragments(op.k), to |-> "updated"]
             /\ cnt' = Discounted(Fragments(op.k))
             /\ pc' = "undo" /\ op' = op
    <2>1. Fragments(op.k) \in Seq(Pages \X Slots) /\ Retirable(ToSet(Fragments(op.k)))
      BY DeletionRetirable DEF Running, Moving
    <2>2. PICK at : at = Fragments(op.k)
      OBVIOUS
    <2> QED BY <1>2, <2>1, <2>2, RetireEntries
  <1> QED BY <1>1, <1>2 DEF NoSpace

LEMMA StartEntries ==
    ASSUME StoreInv, [Next]_vars,
           \/ \E k \in Keys, v \in Vals : PutStart(k, v)
           \/ \E k \in Keys : DelStart(k)
    PROVE  FillInv' /\ WholeInv' /\ CopyInv' /\ CountInv' /\ MarkInv' /\ MoveInv'
  <1> USE DEF StoreInv, EntryInv
  <1>1. pc = "idle" /\ Running /\ ~Moving
    BY DEF PutStart, DelStart, Starts, Running, Moving
  <1>2. PICK k \in Keys : /\ marks' = [at |-> Deletion(k), to |-> "updated"]
                          /\ cnt' = Discounted(Deletion(k))
                          /\ pc' \in {"delete", "room"} /\ (Deletion(k) # <<>> <=> pc' # "room")
                          /\ UNCHANGED <<flash, used, nxt>>
    BY DEF PutStart, DelStart
  <1>3. Deletion(k) \in Seq(Pages \X Slots) /\ Retirable(ToSet(Deletion(k)))
    BY <1>1, DeletionRetirable
  <1>4. PICK at : at = Deletion(k)
    OBVIOUS
  <1> QED BY <1>1, <1>2, <1>3, <1>4, RetireEntries


LEMMA PagesStep == PagesInv /\ [Next]_vars => PagesInv'
  BY TypesStep, CallStep, PutStep, ListStep DEF PagesInv

LEMMA RoomEntries ==
    ASSUME StoreInv, [Next]_vars, HasRoom \/ MarkFull
    PROVE  FillInv' /\ WholeInv' /\ CopyInv' /\ CountInv' /\ MarkInv' /\ MoveInv'
  <1> USE DEF StoreInv, EntryInv
  <1>1. /\ pc = "room" /\ pc' \in {"header", "request"}
        /\ UNCHANGED <<slot, est, used, nxt, cnt, marks>>
    BY DEF HasRoom, MarkFull, flash, ram
  <1>2. Written' = Written
    <2>1. CASE HasRoom
      BY <2>1 DEF HasRoom, flash, Written
    <2>2. CASE MarkFull
      <3>1. used # <<>>
        BY <1>1, ListFacts DEF Running
      <3>2. Last(used) \in ToSet(used) /\ Last(used) \in Pages
        BY <3>1, ListFacts
      <3>3. Last(used) \in Written
        BY <1>1, <3>2 DEF ListInv, PagesInv, Running, Kept
      <3>4. pst' = [pst EXCEPT ![Last(used)] = "full"] /\ DOMAIN pst = Pages
        BY <2>2 DEF MarkFull, PagesInv, Types
      <3> QED BY <3>2, <3>3, <3>4 DEF Written
    <2> QED BY <2>1, <2>2
  <1>3. marks'.at = <<>>
    BY <1>1 DEF MarkInv
  <1>4. FillInv' /\ WholeInv' /\ CopyInv' /\ CountInv' /\ MarkInv'
    BY <1>1, <1>2, <1>3, QuietEntries
  <1> QED BY <1>1, <1>4 DEF MoveInv, Moving

LEMMA RequestEntries ==
    ASSUME StoreInv, [Next]_vars, Request
    PROVE  FillInv' /\ WholeInv' /\ CopyInv' /\ CountInv' /\ MarkInv' /\ MoveInv'
  <1> USE DEF StoreInv, EntryInv
  <1>1. pc = "request" /\ UNCHANGED <<flash, used, free, nxt>> /\ op.fn = "put"
    BY DEF Request, PagesInv, CallInv
  <1>2. CASE NoSpace
    BY <1>1, <1>2, NoSpaceEntries
  <1>3. CASE /\ ~(free = <<>> \/ (Len(free) = 1 /\ Victims = {}))
             /\ req' = [page |-> Head(free), from |-> 1,
                        vic |-> IF Len(free) = 1 THEN Victim ELSE 0]
             /\ pc' = IF pst[Head(free)] = "blank" THEN "page" ELSE "erase"
             /\ UNCHANGED <<op, marks, cnt, ret, snap>>
    <2>1. marks'.at = <<>>
      BY <1>1, <1>3 DEF MarkInv
    <2>2. Written' = Written
      BY <1>1 DEF Written, flash
    <2>3. FillInv' /\ WholeInv' /\ CopyInv' /\ CountInv' /\ MarkInv'
      BY <1>1, <1>3, <2>1, <2>2, QuietEntries DEF flash
    <2>4. req'.vic # 0 => \A q \in ToSet(used) : cnt[req'.vic] <= cnt[q]
      <3> HAVE req'.vic # 0
      <3>1. req'.vic = Victim /\ Victims # {}
        BY <1>3
      <3>2. /\ used \in Seq(Pages) /\ cnt \in [Pages -> Int] /\ seq \in [Pages -> Nat]
            /\ N \in Nat /\ ToSet(used) \in SUBSET Pages
        BY ListFacts DEF PagesInv, Types
      <3>3. /\ Victim \in Pages /\ cnt[Victim] < N
            /\ \A q \in Victims : cnt[Victim] <= cnt[q]
        BY <3>1, <3>2, VictimIs
      <3>4. ASSUME NEW q \in ToSet(used) PROVE cnt[Victim] <= cnt[q]
        <4>1. q \in Pages /\ cnt[q] \in Int /\ cnt[Victim] \in Int
          BY <3>2, <3>3
        <4>2. cnt[q] < N => q \in Victims
          BY DEF Victims
        <4> QED BY <4>1, <4>2, <3>2, <3>3
      <3> QED BY <3>1, <3>4
    <2>5. MoveInv'
      BY <1>1, <1>3, <2>4 DEF MoveInv, Moving
    <2> QED BY <2>3, <2>5
  <1> QED BY <1>2, <1>3 DEF Request

LEMMA ReadyEntries ==
    ASSUME StoreInv, [Next]_vars, PageReady
    PROVE  FillInv' /\ WholeInv' /\ CopyInv' /\ CountInv' /\ MarkInv' /\ MoveInv'
  <1> USE DEF StoreInv, EntryInv
  <1>1. pc = "again" /\ UNCHANGED <<flash, used, free, nxt>>
    BY DEF PageReady
  <1>2. CASE op.fn = "put" /\ NoSpace
    BY <1>1, <1>2, NoSpaceEntries
  <1>3. CASE /\ pc' \in {"header", "idle"} /\ UNCHANGED cnt
             /\ marks' = marks \/ marks' = NoMarks
    <2>1. marks'.at = <<>>
      BY <1>1, <1>3 DEF MarkInv, NoMarks
    <2>2. Written' = Written
      BY <1>1 DEF Written, flash
    <2>3. FillInv' /\ WholeInv' /\ CopyInv' /\ CountInv' /\ MarkInv'
      BY <1>1, <1>3, <2>1, <2>2, QuietEntries DEF flash
    <2>4. MoveInv'
      BY <1>3 DEF MoveInv, Moving
    <2> QED BY <2>3, <2>4
  <1> QED BY <1>2, <1>3 DEF PageReady, Return

\* A page that is not in use is erased already, or its header was cut.
LEMMA ErasedIs ==
    ASSUME StoreInv, NEW p \in Pages \ Written, NEW st, Erased(p, st)
    PROVE  slot' = slot /\ est' = est
  <1> USE DEF StoreInv, EntryInv
  <1>1. slot \in [Pages -> [Slots -> Cell]] /\ est \in [Pages -> [Slots -> EntryStates]]
    BY DEF PagesInv, Types
  <1>2. \A i \in Slots : slot[p][i] = Blank /\ est[p][i] = "free"
    BY DEF FillInv
  <1>3. slot[p] = [i \in Slots |-> Blank]
    BY <1>1, <1>2
  <1>4. est[p] = [i \in Slots |-> "free"]
    BY <1>1, <1>2
  <1>5. /\ slot' = [slot EXCEPT ![p] = [i \in Slots |-> Blank]]
        /\ est' = [est EXCEPT ![p] = [i \in Slots |-> "free"]]
    BY DEF Erased
  <1>6. slot' = slot
    BY <1>1, <1>3, <1>5
  <1>7. est' = est
    BY <1>1, <1>4, <1>5
  <1> QED BY <1>6, <1>7

LEMMA ErasePageEntries ==
    ASSUME StoreInv, [Next]_vars, ErasePage
    PROVE  FillInv' /\ WholeInv' /\ CopyInv' /\ CountInv' /\ MarkInv' /\ MoveInv'
  <1> USE DEF StoreInv, EntryInv
  <1>1. /\ pc = "erase" /\ pc' = "page" /\ Erased(req.page, "blank")
        /\ UNCHANGED <<used, free, nxt, cnt, req, marks>>
    BY DEF ErasePage, ram
  <1>2. req.page \in Pages \ Written
    <2>1. req.page \in Pages \ ToSet(used)
      BY <1>1, ListFacts
    <2> QED BY <2>1, <1>1 DEF ListInv, PagesInv, Running, Moving, Kept
  <1>3. slot' = slot /\ est' = est
    BY <1>1, <1>2, ErasedIs
  <1>4. Written' = Written
    <2>1. pst' = [pst EXCEPT ![req.page] = "blank"] /\ DOMAIN pst = Pages
      BY <1>1 DEF Erased, PagesInv, Types
    <2> QED BY <2>1, <1>2 DEF Written
  <1>5. marks'.at = <<>>
    BY <1>1 DEF MarkInv
  <1>6. FillInv' /\ WholeInv' /\ CopyInv' /\ CountInv' /\ MarkInv'
    BY <1>1, <1>3, <1>4, <1>5, QuietEntries
  <1>7. MoveInv'
    BY <1>1 DEF MoveInv, Moving
  <1> QED BY <1>6, <1>7

LEMMA WritePageEntries ==
    ASSUME StoreInv, [Next]_vars, WritePage
    PROVE  FillInv' /\ WholeInv' /\ CopyInv' /\ CountInv' /\ MarkInv' /\ MoveInv'
  <1> USE DEF StoreInv, EntryInv
  <1> DEFINE T == req.page
  <1>1. /\ pc = "page" /\ UNCHANGED <<slot, est, op, marks, req>>
        /\ pst' = [pst EXCEPT ![T] = "active"]
        /\ nxt' = [nxt EXCEPT ![T] = 1] /\ cnt' = [cnt EXCEPT ![T] = 0]
        /\ pc' = IF req.vic = 0 THEN "again" ELSE "candidate"
        /\ req.vic = 0 => used' = Append(used, T)
    BY DEF WritePage
  <1>2. N' = N /\ Slots' = Slots /\ inst' = inst /\ Slots = 1..N /\ N \in Nat \ {0} /\ inst \in Instances
    BY InstKept, EntryFacts DEF PagesInv, Types
  <1>3. /\ Running /\ Running' /\ ~Moving /\ Steady' = Steady
        /\ Kept = ToSet(used) /\ (Moving' <=> req.vic # 0)
    BY <1>1, <1>2 DEF Running, Moving, Kept, Steady
  <1>4. /\ T \in Pages \ ToSet(used) /\ Written = ToSet(used) /\ ToSet(used) \in SUBSET Pages
        /\ req.vic # 0 => req.vic \in ToSet(used)
        /\ used \in Seq(Pages)
    BY <1>1, <1>3, ListFacts DEF PagesInv, ListInv, ReqInv, Types
  <1>5. Written' = Written \cup {T}
    <2>1. DOMAIN pst = Pages
      BY DEF PagesInv, Types
    <2> QED BY <2>1, <1>1, <1>4 DEF Written
  <1>6. PagesInv'
    BY PagesStep
  <1>7. Kept' = Written' /\ ToSet(used') \in SUBSET Kept'
    BY <1>3, <1>6 DEF PagesInv, ListInv, Kept
  <1>8. marks.at = <<>>
    BY <1>1 DEF MarkInv
  <1>9. Eff' = Eff /\ Eff = est
    BY <1>1, <1>2, <1>3, <1>8, QuietEff, EffIsEst DEF PagesInv
  <1>10. /\ nxt \in [Pages -> 1..(N + 1)] /\ cnt \in [Pages -> 0..N]
         /\ \A i \in Slots : slot[T][i] = Blank /\ est[T][i] = "free"
    BY <1>4 DEF FillInv, CountInv
  <1> HIDE DEF T
  <1>11. /\ nxt'[T] = 1 /\ cnt'[T] = 0
         /\ \A p \in Pages \ {T} : nxt'[p] = nxt[p] /\ cnt'[p] = cnt[p]
         /\ nxt' \in [Pages -> 1..(N + 1)] /\ cnt' \in [Pages -> 0..N]
    <2>1. 1 \in 1..(N + 1) /\ 0 \in 0..N
      BY <1>2
    <2> QED BY <2>1, <1>1, <1>4, <1>10
  <1>12. /\ \A p \in Pages : Low(p) = nxt[p] /\ Low(p)' = nxt'[p]
         /\ \A p \in Pages : HalfCount(p) = 0 /\ HalfCount(p)' = 0
         /\ \A p \in Pages : InUse(p)' = InUse(p)
    <2>1. pc # "data" /\ pc' # "data"
      BY <1>1
    <2> QED BY <2>1, <1>2, <1>9 DEF Low, HalfWritten, HalfCount, InUse
  <1>13. FillInv'
    <2>1. \A p \in Pages \ Written' : \A i \in Slots : slot[p][i] = Blank /\ est[p][i] = "free"
      BY <1>5 DEF FillInv
    <2>2. ASSUME NEW p \in Kept', NEW i \in Slots
          PROVE  /\ Eff'[p][i] = "free" <=> i >= nxt'[p]
                 /\ Steady => (i >= nxt'[p] => slot[p][i] = Blank)
      <3>1. CASE p = T
        <4>1. i >= 1
          BY <1>2
        <4> QED BY <3>1, <4>1, <1>9, <1>10, <1>11
      <3>2. CASE p # T
        <4>1. p \in Kept /\ p \in Pages /\ Low(p) = nxt[p] /\ nxt'[p] = nxt[p]
          BY <3>2, <1>3, <1>4, <1>5, <1>7, <1>11, <1>12
        <4> QED BY <4>1, <1>3, <1>9 DEF FillInv
      <3> QED BY <3>1, <3>2
    <2>3. Kept' \in SUBSET Pages
      BY <1>4, <1>5, <1>7
    <2>4. \A p \in Kept' : \A i \in Slots' : Eff'[p][i] = "free" <=> i >= Low(p)'
      BY <1>2, <1>12, <2>2, <2>3
    <2>5. Steady' => \A p \in Kept' : \A i \in Slots' : i >= nxt'[p] => slot'[p][i] = Blank
      BY <1>1, <1>2, <1>3, <2>2
    <2>6. nxt' \in [Pages -> 1..(N' + 1)]
      BY <1>2, <1>11
    <2>7. \A p \in Pages \ Written' : \A i \in Slots' : slot'[p][i] = Blank /\ est'[p][i] = "free"
      BY <1>1, <1>2, <2>1
    <2>8. pc' # "data"
      BY <1>1
    <2> QED BY <1>3, <2>4, <2>5, <2>6, <2>7, <2>8 DEF FillInv
  <1>14. WholeInv'
    <2>1. \A p, i : ~ToCome(p, i)
      BY <1>3 DEF ToCome
    <2>2. \A p \in Pages : \A i \in Slots : \A t \in 1..Span(slot[p][i]) : Eff[p][i] # "free" =>
             i + t \in Slots /\ Eff[p][i + t] = Eff[p][i] /\ slot[p][i + t].c = "data"
      BY <2>1 DEF WholeInv
    <2> QED BY <2>2, <1>1, <1>2, <1>3, <1>9 DEF WholeInv
  <1>15. CopyInv'
    <2> SUFFICES ASSUME Moving' PROVE CopyInv'
      BY DEF CopyInv
    <2>1. req'.page = T /\ req'.from = 1 /\ nxt'[req'.page] = 1
      BY <1>1, <1>11 DEF MoveInv, T
    <2>2. 1..(req'.from - 1) = {} /\ 1..(nxt'[req'.page] - 1) = {}
      BY <2>1
    <2>3. req'.from \in 1..(N' + 1) /\ nxt'[req'.page] <= req'.from
      BY <2>1, <1>2
    <2>4. \A j \in Slots' : Eff'[req'.page][j] # "updated"
      BY <2>1, <1>2, <1>9, <1>10
    <2> QED BY <2>1, <2>2, <2>3, <2>4 DEF CopyInv
  <1>16. InUse(T) = {} /\ Cardinality(InUse(T)) = 0
    <2>1. InUse(T) = {}
      BY <1>9, <1>10 DEF InUse
    <2> QED BY <2>1, FS_EmptySet
  <1>17. \A p \in Kept : /\ Cardinality(InUse(p)) + HalfCount(p) <= cnt[p] /\ cnt[p] < nxt[p]
                         /\ Steady => cnt[p] = Cardinality(InUse(p)) + HalfCount(p)
    BY <1>3 DEF CountInv
  <1>18. CountInv'
    <2>1. ASSUME NEW p \in Kept'
          PROVE  /\ Cardinality(InUse(p)) + HalfCount(p)' <= cnt'[p] /\ cnt'[p] < nxt'[p]
                 /\ Steady => cnt'[p] = Cardinality(InUse(p)) + HalfCount(p)'
      <3>1. CASE p = T
        <4>1. HalfCount(p)' = 0 /\ Cardinality(InUse(p)) = 0 /\ cnt'[p] = 0 /\ nxt'[p] = 1
          BY <3>1, <1>4, <1>11, <1>12, <1>16
        <4> QED BY <4>1
      <3>2. CASE p # T
        <4>1. /\ p \in Kept /\ p \in Pages /\ nxt'[p] = nxt[p] /\ cnt'[p] = cnt[p]
              /\ HalfCount(p)' = HalfCount(p)
          BY <3>2, <1>3, <1>4, <1>5, <1>7, <1>11, <1>12
        <4> QED BY <4>1, <1>17
      <3> QED BY <3>1, <3>2
    <2>2. Kept' \in SUBSET Pages
      BY <1>4, <1>5, <1>7
    <2>3. \A p \in Kept' : InUse(p)' = InUse(p)
      BY <2>2, <1>12
    <2> QED BY <2>1, <2>3, <1>2, <1>3, <1>11 DEF CountInv
  <1>19. MarkInv'
    <2>1. ToSet(<<>>) = {} /\ <<>> \in Seq(Pages \X Slots')
      BY DEF ToSet
    <2> QED BY <2>1, <1>1, <1>8 DEF MarkInv
  <1>20. MoveInv'
    <2>1. Last(used') = T
      <3>1. CASE req.vic = 0
        <4>1. used' = Append(used, T) /\ Len(used) \in Nat
          BY <3>1, <1>1, <1>4 DEF T
        <4>2. Len(used') = Len(used) + 1 /\ used'[Len(used) + 1] = T
          BY <4>1, <1>4, AppendProperties
        <4> QED BY <4>2 DEF Last
      <3>2. CASE req.vic # 0
        BY <3>2, <1>1, <1>3, <1>6 DEF PagesInv, ReqInv, T
      <3> QED BY <3>1, <3>2
    <2>2. cnt'[T] = nxt'[T] - 1
      BY <1>11
    <2>3. \A q \in ToSet(used') : q \in Pages /\ cnt'[q] \in 0..N /\ (q # T => q \in ToSet(used) /\ cnt'[q] = cnt[q])
      BY <1>4, <1>5, <1>7, <1>11
    <2>4. \A q \in ToSet(used') : cnt'[T] <= cnt'[q]
      BY <2>3, <1>2, <1>11
    <2>5. ASSUME Moving'
          PROVE  /\ \A q \in ToSet(used') \ {req'.page} : cnt'[req'.vic] <= cnt'[q]
                 /\ Steady' => nxt'[req'.page] - 1 + Cardinality(ToCopy') = cnt'[req'.vic]
      <3>1. req.vic \in ToSet(used) /\ req.vic \in Pages \ {T} /\ req' = req /\ req.page = T
        BY <2>5, <1>1, <1>3, <1>4 DEF T
      <3>2. cnt'[req.vic] = cnt[req.vic] /\ cnt[req.vic] \in 0..N
        BY <3>1, <1>10, <1>11
      <3>3. \A q \in ToSet(used) : cnt[req.vic] <= cnt[q]
        BY <2>5, <1>1, <1>3 DEF MoveInv
      <3>4. ToCopy' = InUse(req.vic)
        <4>1. req'.from = 1 /\ req'.vic = req.vic /\ est' = est /\ \A i \in Slots : i >= 1
          BY <1>1, <1>2 DEF MoveInv
        <4> QED BY <4>1, <1>2, <1>9 DEF ToCopy, InUse
      <3>5. Steady => cnt[req.vic] = Cardinality(InUse(req.vic))
        <4>1. HalfCount(req.vic) = 0 /\ Cardinality(InUse(req.vic)) \in 0..N
          BY <3>1, <1>2, <1>12, SlotSets
        <4> QED BY <4>1, <3>1, <1>2, <1>3, <1>17
      <3>6. nxt'[T] - 1 + cnt[req.vic] = cnt[req.vic]
        BY <3>2, <1>2, <1>11
      <3> QED BY <2>3, <3>1, <3>2, <3>3, <3>4, <3>5, <3>6, <1>3
    <2>6. pc' \notin {"erase", "page"}
      BY <1>1
    <2> QED BY <2>1, <2>2, <2>4, <2>5, <2>6, <1>3 DEF MoveInv
  <1> QED BY <1>13, <1>14, <1>15, <1>18, <1>19, <1>20

LEMMA CandidateEntries ==
    ASSUME StoreInv, [Next]_vars, MarkCandidate
    PROVE  FillInv' /\ WholeInv' /\ CopyInv' /\ CountInv' /\ MarkInv' /\ MoveInv'
  <1> USE DEF StoreInv, EntryInv
  <1>1. /\ pc = "candidate" /\ pc' = "copy"
        /\ pst' = [pst EXCEPT ![req.vic] = "candidate"]
        /\ UNCHANGED <<seq, slot, est, used, free, nxt, cnt, op, marks, req>>
    BY DEF MarkCandidate, ram
  <1>2. Running /\ Running' /\ Moving /\ Moving' /\ Slots' = Slots /\ inst' = inst
    BY <1>1, InstKept DEF Running, Moving
  <1>3. Kept' = Kept
    BY <1>1, <1>2 DEF Kept
  <1>4. Written' = Written
    <2>1. req.vic \in Written /\ DOMAIN pst = Pages
      BY <1>2, ListFacts DEF PagesInv, Types
    <2> QED BY <2>1, <1>1 DEF Written
  <1>5. marks.at = <<>> /\ marks' = marks
    BY <1>1 DEF MarkInv
  <1>6. Eff' = Eff
    BY <1>1, <1>2, <1>5, QuietEff
  <1>7. FillInv' /\ WholeInv' /\ CopyInv' /\ CountInv'
    BY <1>1, <1>2, <1>3, <1>4, <1>6, SameEntries
  <1>8. MarkInv'
    <2>1. ToSet(<<>>) = {} /\ <<>> \in Seq(Pages \X Slots')
      BY DEF ToSet
    <2> QED BY <2>1, <1>1, <1>5 DEF MarkInv
  <1>9. MoveInv'
    <2>1. ToCopy' = ToCopy /\ Steady' = Steady
      BY <1>1, <1>2 DEF ToCopy, Steady
    <2> QED BY <2>1, <1>1, <1>2 DEF MoveInv
  <1> QED BY <1>7, <1>8, <1>9

LEMMA CopyStateEntries ==
    ASSUME StoreInv, [Next]_vars, CopyState
    PROVE  FillInv' /\ WholeInv' /\ CopyInv' /\ CountInv' /\ MarkInv' /\ MoveInv'
  <1> USE DEF StoreInv, EntryInv
  <1>1. /\ pc = "copied" /\ pc' = "copy"
        /\ UNCHANGED <<pst, seq, slot, used, free, nxt, cnt, op, marks, req>>
    BY DEF CopyState, ram
  <1>2. Running /\ Running' /\ Moving /\ Moving' /\ Slots' = Slots /\ inst' = inst
    BY <1>1, InstKept DEF Running, Moving
  <1>3. Kept' = Kept /\ Written' = Written
    BY <1>1, <1>2 DEF Kept, Written
  <1>4. marks.at = <<>> /\ marks' = marks
    BY <1>1 DEF MarkInv
  <1>5. Eff' = Eff /\ \A p \in Pages \ {req.page} : est'[p] = est[p]
    BY CopyStateEff
  <1>6. req.vic \in Pages \ {req.page} /\ req.page \in Written
    BY <1>2, ListFacts
  <1>7. FillInv' /\ WholeInv' /\ CopyInv' /\ CountInv'
    BY <1>1, <1>2, <1>3, <1>5, <1>6, SameEntries
  <1>8. MarkInv'
    <2>1. ToSet(<<>>) = {} /\ <<>> \in Seq(Pages \X Slots')
      BY DEF ToSet
    <2> QED BY <2>1, <1>1, <1>4 DEF MarkInv
  <1>9. MoveInv'
    <2>1. ToCopy' = ToCopy /\ Steady' = Steady
      BY <1>1, <1>2, <1>5, <1>6 DEF ToCopy, Steady
    <2> QED BY <2>1, <1>1, <1>2 DEF MoveInv
  <1> QED BY <1>7, <1>8, <1>9


\* The next entry to copy belongs to the element that is being copied.
LEMMA CopyFacts ==
    ASSUME StoreInv, pc = "copy",
           NEW V, NEW T, NEW f, NEW n,
           V = req.vic, T = req.page, f = req.from, n = nxt[req.page]
    PROVE  /\ V \in Pages /\ T \in Pages /\ V # T /\ T \in ToSet(used) /\ V \notin ToSet(used)
           /\ T \in Written /\ V \in Written /\ T = Last(used)
           /\ N \in Nat \ {0} /\ Slots = 1..N /\ inst \in Instances
           /\ f \in 1..(N + 1) /\ n \in 1..(N + 1) /\ n <= f
           /\ Eff = est /\ marks.at = <<>> /\ Kept \in SUBSET Pages
           /\ \A p \in Pages : Low(p) = nxt[p] /\ HalfCount(p) = 0
           /\ \A p \in Pages : \A i \in Slots :
                 slot[p][i] \in Cell /\ Span(slot[p][i]) \in Nat /\ est[p][i] \in EntryStates
           /\ \A i \in Slots : (i < n => est[T][i] = "used") /\ (i >= n => est[T][i] = "free")
           /\ \A i \in Slots : i >= n /\ Steady => slot[T][i] = Blank
           /\ \A p \in Pages \ {T} : \A i \in Slots : \A t \in 1..Span(slot[p][i]) :
                 est[p][i] # "free" =>
                    i + t \in Slots /\ est[p][i + t] = est[p][i] /\ slot[p][i + t].c = "data"
           /\ \A i \in Slots : \A t \in 1..Span(slot[T][i]) : est[T][i] # "free" =>
                 \/ i + t >= n
                 \/ i + t \in Slots /\ est[T][i + t] = est[T][i] /\ slot[T][i + t].c = "data"
  <1> USE DEF StoreInv, EntryInv
  <1>1. Moving /\ Running
    BY DEF Moving, Running
  <1>2. /\ V \in Pages /\ T \in Pages /\ V # T /\ T \in ToSet(used) /\ V \notin ToSet(used)
        /\ T \in Written /\ V \in Written
    BY <1>1, ListFacts
  <1>3. T = Last(used)
    BY <1>1 DEF PagesInv, ReqInv
  <1>4. /\ N \in Nat \ {0} /\ Slots = 1..N /\ inst \in Instances
        /\ \A p \in Pages : \A i \in Slots :
                 slot[p][i] \in Cell /\ Span(slot[p][i]) \in Nat /\ est[p][i] \in EntryStates
    BY EntryFacts DEF PagesInv, Types
  <1>5. f \in 1..(N + 1) /\ n \in 1..(N + 1) /\ n <= f
    BY <1>1, <1>2 DEF CopyInv, FillInv
  <1>6. Eff = est /\ marks.at = <<>> /\ Kept \in SUBSET Pages
    BY EffIsEst, EntryFacts DEF PagesInv, MarkInv
  <1>7. \A p \in Pages : Low(p) = nxt[p] /\ HalfCount(p) = 0
    BY DEF Low, HalfWritten, HalfCount
  <1>8. \A i \in Slots : (i < n => est[T][i] = "used") /\ (i >= n => est[T][i] = "free")
    <2> TAKE i \in Slots
    <2>1. T \in Kept
      BY <1>2 DEF Kept
    <2>2. est[T][i] = "free" <=> i >= n
      BY <2>1, <1>1, <1>2, <1>6, <1>7 DEF FillInv
    <2>3. est[T][i] # "updated"
      BY <1>1, <1>6 DEF CopyInv
    <2>4. i \in Nat /\ n \in Nat
      BY <1>4, <1>5
    <2> QED BY <2>2, <2>3, <2>4, <1>2, <1>4 DEF EntryStates
  <1>9. \A i \in Slots : i >= n /\ Steady => slot[T][i] = Blank
    <2>1. T \in Kept
      BY <1>2 DEF Kept
    <2> QED BY <2>1, <1>1 DEF FillInv
  <1>10. \A p \in Pages \ {T} : \A i \in Slots : \A t \in 1..Span(slot[p][i]) :
            est[p][i] # "free" =>
               i + t \in Slots /\ est[p][i + t] = est[p][i] /\ slot[p][i + t].c = "data"
    BY <1>6 DEF WholeInv, ToCome
  <1>11. \A i \in Slots : \A t \in 1..Span(slot[T][i]) : est[T][i] # "free" =>
            \/ i + t >= n
            \/ i + t \in Slots /\ est[T][i + t] = est[T][i] /\ slot[T][i + t].c = "data"
    BY <1>2, <1>6 DEF WholeInv, ToCome
  <1> QED BY <1>2, <1>3, <1>4, <1>5, <1>6, <1>7, <1>8, <1>9, <1>10, <1>11

\* An element in use that reaches beyond the last entry copied.
LEMMA CopyReach ==
    ASSUME StoreInv, pc = "copy",
           NEW j \in Slots, est[req.vic][j] = "used", j < req.from,
           req.from <= j + Span(slot[req.vic][j])
    PROVE  /\ req.from \in ToCopy /\ slot[req.vic][req.from].c = "data"
           /\ \E g \in Slots : g + req.from = nxt[req.page] + j
                               /\ slot[req.page][g] = slot[req.vic][j]
  <1> USE DEF StoreInv, EntryInv
  <1>1. PICK V, T, f, n : V = req.vic /\ T = req.page /\ f = req.from /\ n = nxt[req.page]
    OBVIOUS
  <1>2. /\ V \in Pages /\ V # T /\ Slots = 1..N /\ N \in Nat \ {0}
        /\ f \in 1..(N + 1) /\ n \in 1..(N + 1)
        /\ \A p \in Pages : \A i \in Slots :
              slot[p][i] \in Cell /\ Span(slot[p][i]) \in Nat /\ est[p][i] \in EntryStates
    BY <1>1, CopyFacts
  <1>3. \A p \in Pages \ {T} : \A i \in Slots : \A t \in 1..Span(slot[p][i]) :
            est[p][i] # "free" =>
               i + t \in Slots /\ est[p][i + t] = est[p][i] /\ slot[p][i + t].c = "data"
    BY <1>1, CopyFacts
  <1>4. Span(slot[V][j]) \in Nat /\ j \in Nat /\ j >= 1 /\ f \in Nat /\ n \in Nat
    BY <1>2
  <1>5. PICK s, d : s = Span(slot[V][j]) /\ d = f - j
    OBVIOUS
  <1>6. /\ d \in 1..s /\ j + d = f /\ d \in 1..(f - 1) /\ f - d = j
        /\ s \in Nat /\ d <= s /\ n - d + f = n + j
    BY <1>1, <1>4, <1>5
  <1>7. est[V][j] = "used"
    BY <1>1
  <1>8. f \in Slots /\ est[V][f] = "used" /\ slot[V][f].c = "data"
    <2>1. j + d \in Slots /\ est[V][j + d] = est[V][j] /\ slot[V][j + d].c = "data"
      BY <1>2, <1>3, <1>5, <1>6, <1>7
    <2> QED BY <2>1, <1>6, <1>7
  <1>9. f \in ToCopy
    BY <1>1, <1>4, <1>8 DEF ToCopy
  <1>10. n - d \in Slots /\ slot[T][n - d] = slot[V][j]
    <2>1. est[V][f - d] = "used" /\ d <= Span(slot[V][f - d])
      BY <1>5, <1>6, <1>7
    <2>2. n - d \in Slots /\ slot[T][n - d] = slot[V][f - d]
      BY <2>1, <1>1, <1>6 DEF CopyInv, Moving
    <2> QED BY <2>2, <1>6
  <1>11. \E g \in Slots : g + f = n + j /\ slot[T][g] = slot[V][j]
    BY <1>6, <1>10
  <1> QED BY <1>1, <1>8, <1>9, <1>11

\* An element that is being copied.
LEMMA CopyBack ==
    ASSUME StoreInv, pc = "copy",
           NEW j \in Slots, j < nxt[req.page], nxt[req.page] <= j + Span(slot[req.page][j])
    PROVE  /\ req.from \in ToCopy /\ slot[req.vic][req.from].c = "data"
           /\ \E g \in Slots : g + nxt[req.page] = req.from + j
                               /\ slot[req.vic][g] = slot[req.page][j] /\ est[req.vic][g] = "used"
  <1> USE DEF StoreInv, EntryInv
  <1>1. PICK V, T, f, n : V = req.vic /\ T = req.page /\ f = req.from /\ n = nxt[req.page]
    OBVIOUS
  <1>2. /\ T \in Pages /\ Slots = 1..N /\ N \in Nat \ {0}
        /\ f \in 1..(N + 1) /\ n \in 1..(N + 1)
        /\ \A p \in Pages : \A i \in Slots :
              slot[p][i] \in Cell /\ Span(slot[p][i]) \in Nat /\ est[p][i] \in EntryStates
    BY <1>1, CopyFacts
  <1>3. Span(slot[T][j]) \in Nat /\ j \in Nat /\ j >= 1 /\ f \in Nat /\ n \in Nat
    BY <1>2
  <1>4. PICK s, d : s = Span(slot[T][j]) /\ d = n - j
    OBVIOUS
  <1>5. d \in 1..(n - 1) /\ n - d = j /\ d <= s /\ s \in Nat /\ d > 0 /\ d \in Nat
    BY <1>1, <1>3, <1>4
  <1>6. /\ f - d \in Slots /\ slot[V][f - d] = slot[T][j]
        /\ est[V][f - d] = "used"
    <2>1. d <= Span(slot[T][n - d])
      BY <1>4, <1>5
    <2>2. f - d \in Slots /\ slot[V][f - d] = slot[T][n - d] /\ est[V][f - d] = "used"
      BY <2>1, <1>1, <1>5 DEF CopyInv, Moving
    <2> QED BY <2>2, <1>5
  <1>7. PICK g : g = f - d
    OBVIOUS
  <1>8. g \in Slots /\ slot[V][g] = slot[T][j] /\ est[V][g] = "used" /\ Span(slot[V][g]) = s
    BY <1>4, <1>6, <1>7
  <1>9. g < f /\ f <= g + s /\ g + n = f + j
    BY <1>3, <1>5, <1>7
  <1>10. f \in ToCopy /\ slot[V][f].c = "data"
    BY <1>1, <1>8, <1>9, CopyReach
  <1> QED BY <1>1, <1>8, <1>9, <1>10

LEMMA EraseVictimEntries ==
    ASSUME StoreInv, [Next]_vars, EraseVictim
    PROVE  FillInv' /\ WholeInv' /\ CopyInv' /\ CountInv' /\ MarkInv' /\ MoveInv'
  <1> USE DEF StoreInv, EntryInv
  <1>1. /\ pc = "copy" /\ pc' = "again" /\ ToCopy = {} /\ Erased(req.vic, "blank")
        /\ nxt' = [nxt EXCEPT ![req.vic] = 1] /\ cnt' = [cnt EXCEPT ![req.vic] = 0]
        /\ UNCHANGED <<used, free, op, marks, req>>
    BY DEF EraseVictim
  <1>2. PICK V, T, f, n : V = req.vic /\ T = req.page /\ f = req.from /\ n = nxt[req.page]
    OBVIOUS
  <1>3. /\ V \in Pages /\ T \in Pages /\ V # T /\ T \in ToSet(used) /\ V \notin ToSet(used)
        /\ T \in Written /\ V \in Written /\ T = Last(used)
        /\ N \in Nat \ {0} /\ Slots = 1..N /\ inst \in Instances
        /\ f \in 1..(N + 1) /\ n \in 1..(N + 1) /\ n <= f
        /\ Eff = est /\ marks.at = <<>> /\ Kept \in SUBSET Pages
        /\ \A p \in Pages : Low(p) = nxt[p] /\ HalfCount(p) = 0
        /\ \A p \in Pages : \A i \in Slots :
              slot[p][i] \in Cell /\ Span(slot[p][i]) \in Nat /\ est[p][i] \in EntryStates
    BY <1>1, <1>2, CopyFacts
  <1>4. \A i \in Slots : (i < n => est[T][i] = "used") /\ (i >= n => est[T][i] = "free")
    BY <1>1, <1>2, CopyFacts
  <1>4b. \A p \in Pages \ {T} : \A i \in Slots : \A t \in 1..Span(slot[p][i]) :
            est[p][i] # "free" =>
               i + t \in Slots /\ est[p][i + t] = est[p][i] /\ slot[p][i + t].c = "data"
    BY <1>1, <1>2, CopyFacts
  <1>4c. \A i \in Slots : \A t \in 1..Span(slot[T][i]) : est[T][i] # "free" =>
            \/ i + t >= n
            \/ i + t \in Slots /\ est[T][i + t] = est[T][i] /\ slot[T][i + t].c = "data"
    BY <1>1, <1>2, CopyFacts
  <1>4a. \A j \in Slots : j < n /\ n <= j + Span(slot[T][j]) => f \in ToCopy
    BY <1>1, <1>2, CopyBack
  <1>5. N' = N /\ Slots' = Slots /\ inst' = inst /\ Steady' = Steady
    BY InstKept DEF Steady
  <1>6. Running /\ Running' /\ Moving /\ ~Moving' /\ Kept' = ToSet(used) /\ Kept = ToSet(used) \cup {V}
    BY <1>1, <1>2 DEF Running, Moving, Kept
  <1>7. /\ slot' = [slot EXCEPT ![V] = [i \in Slots |-> Blank]]
        /\ est' = [est EXCEPT ![V] = [i \in Slots |-> "free"]]
        /\ pst' = [pst EXCEPT ![V] = "blank"]
    BY <1>1, <1>2 DEF Erased
  <1>8. /\ slot \in [Pages -> [Slots -> Cell]] /\ est \in [Pages -> [Slots -> EntryStates]]
        /\ DOMAIN pst = Pages /\ nxt \in [Pages -> 1..(N + 1)] /\ cnt \in [Pages -> 0..N]
    BY DEF PagesInv, Types, FillInv, CountInv
  <1>9. /\ \A p \in Pages \ {V} : slot'[p] = slot[p] /\ est'[p] = est[p]
        /\ \A i \in Slots : slot'[V][i] = Blank /\ est'[V][i] = "free"
    BY <1>3, <1>7, <1>8
  <1>10. Written' = Written \ {V}
    BY <1>3, <1>7, <1>8 DEF Written
  <1>11. Eff' = est'
    <2>1. Pending' = {}
      BY <1>1, <1>3 DEF Pending, ToSet
    <2>2. Eff' = [p \in Pages |-> [i \in Slots |-> est'[p][i]]]
      BY <2>1, <1>5 DEF Eff
    <2>3. est' \in [Pages -> [Slots -> EntryStates]]
      <3>1. "free" \in EntryStates
        BY DEF EntryStates
      <3> QED BY <3>1, <1>7, <1>8
    <2>4. ASSUME NEW p \in Pages PROVE est'[p] = [i \in Slots |-> est'[p][i]]
      BY <2>3
    <2>5. est' = [p \in Pages |-> est'[p]]
      BY <2>3
    <2> QED BY <2>2, <2>4, <2>5
  <1>12. /\ \A p \in Pages \ {V} : nxt'[p] = nxt[p] /\ cnt'[p] = cnt[p]
         /\ nxt' \in [Pages -> 1..(N + 1)] /\ cnt' \in [Pages -> 0..N]
    <2>1. 1 \in 1..(N + 1) /\ 0 \in 0..N
      BY <1>3
    <2> QED BY <2>1, <1>1, <1>2, <1>8
  <1>13. \A p \in Pages : Low(p)' = nxt'[p] /\ HalfCount(p)' = 0
    BY <1>1 DEF Low, HalfWritten, HalfCount
  <1>14. \A p \in Kept' : p \in Kept /\ p \in Pages \ {V}
    BY <1>3, <1>6
  <1>15. FillInv'
    <2>1. \A p \in Pages \ Written' : \A i \in Slots' : slot'[p][i] = Blank /\ est'[p][i] = "free"
      <3> TAKE p \in Pages \ Written'
      <3>1. CASE p = V
        BY <3>1, <1>5, <1>9
      <3>2. CASE p # V
        <4>1. p \in Pages \ Written
          BY <3>2, <1>10
        <4> QED BY <3>2, <4>1, <1>5, <1>9 DEF FillInv
      <3> QED BY <3>1, <3>2
    <2>2. \A p \in Kept' : \A i \in Slots' : Eff'[p][i] = "free" <=> i >= Low(p)'
      <3> TAKE p \in Kept'
      <3> TAKE i \in Slots'
      <3>1. Eff[p][i] = "free" <=> i >= Low(p)
        BY <1>5, <1>6, <1>14 DEF FillInv
      <3>2. /\ p \in Pages \ {V} /\ i \in Slots /\ Low(p) = nxt[p] /\ Low(p)' = nxt'[p]
            /\ nxt'[p] = nxt[p] /\ est'[p] = est[p]
        BY <1>3, <1>5, <1>9, <1>12, <1>13, <1>14
      <3> QED BY <3>1, <3>2, <1>3, <1>11
    <2>3. Steady' => \A p \in Kept' : \A i \in Slots' : i >= nxt'[p] => slot'[p][i] = Blank
      <3> HAVE Steady'
      <3> TAKE p \in Kept'
      <3> TAKE i \in Slots'
      <3>1. i >= nxt[p] => slot[p][i] = Blank
        BY <1>5, <1>6, <1>14 DEF FillInv
      <3> QED BY <3>1, <1>5, <1>9, <1>12, <1>14
    <2>4. nxt' \in [Pages -> 1..(N' + 1)] /\ pc' # "data"
      BY <1>1, <1>5, <1>12
    <2> QED BY <2>1, <2>2, <2>3, <2>4, <1>6 DEF FillInv
  <1>16. WholeInv'
    <2>1. ASSUME NEW p \in Pages, NEW i \in Slots, NEW t \in 1..Span(slot'[p][i]),
                 est'[p][i] # "free"
          PROVE  i + t \in Slots /\ est'[p][i + t] = est'[p][i] /\ slot'[p][i + t].c = "data"
      <3>1. p # V
        BY <2>1, <1>9
      <3>2. slot'[p] = slot[p] /\ est'[p] = est[p] /\ t \in 1..Span(slot[p][i]) /\ est[p][i] # "free"
        BY <2>1, <3>1, <1>9
      <3>3. CASE p # T
        BY <3>2, <3>3, <1>4b
      <3>4. CASE p = T
        <4>1. Span(slot[T][i]) \in Nat /\ i \in Nat /\ n \in Nat
          BY <1>3
        <4>2. i < n
          BY <3>2, <3>4, <4>1, <1>4
        <4>3. ~(n <= i + Span(slot[T][i]))
          BY <4>2, <1>1, <1>4a
        <4>4. PICK s : s = Span(slot[T][i])
          OBVIOUS
        <4>5. ~(i + t >= n)
          BY <3>2, <3>4, <4>1, <4>3, <4>4
        <4> QED BY <3>2, <3>4, <4>5, <1>4c
      <3> QED BY <3>3, <3>4
    <2>2. ASSUME Steady, NEW p \in Pages, NEW i \in Slots, est'[p][i] = "used"
          PROVE  \/ slot'[p][i].c = "head"
                 \/ /\ slot'[p][i].c = "data"
                    /\ \E h \in 1..(i - 1) : /\ slot'[p][h].c = "head" /\ est'[p][h] = "used"
                                             /\ i <= h + Span(slot'[p][h])
      <3>1. p # V
        BY <2>2, <1>9
      <3>2. slot'[p] = slot[p] /\ est'[p] = est[p]
        BY <3>1, <1>9
      <3>3. Eff[p][i] = "used" /\ Eff[p] = est[p]
        BY <2>2, <3>2, <1>3
      <3>4. \/ slot[p][i].c = "head"
            \/ /\ slot[p][i].c = "data"
               /\ \E h \in 1..(i - 1) : /\ slot[p][h].c = "head" /\ Eff[p][h] = "used"
                                        /\ i <= h + Span(slot[p][h])
        BY <2>2, <3>3 DEF WholeInv
      <3> QED BY <3>2, <3>3, <3>4
    <2>3. ASSUME ~Steady, NEW p \in Pages, NEW i \in Slots
          PROVE  slot'[p][i].c # "data" /\ Span(slot'[p][i]) = 0
      <3>1. CASE p = V
        BY <3>1, <1>9, SpanIs DEF Blank
      <3>2. CASE p # V
        BY <2>3, <3>2, <1>9 DEF WholeInv
      <3> QED BY <3>1, <3>2
    <2> QED BY <2>1, <2>2, <2>3, <1>5, <1>11 DEF WholeInv
  <1>17. CopyInv'
    BY <1>6 DEF CopyInv
  <1>18. CountInv'
    <2>1. ASSUME NEW p \in Kept'
          PROVE  /\ InUse(p)' = InUse(p) /\ cnt'[p] = cnt[p] /\ nxt'[p] = nxt[p]
                 /\ HalfCount(p)' = HalfCount(p)
      <3>1. p \in Pages \ {V}
        BY <1>14
      <3> QED BY <3>1, <1>3, <1>5, <1>9, <1>11, <1>12, <1>13 DEF InUse
    <2>2. \A p \in Kept : /\ Cardinality(InUse(p)) + HalfCount(p) <= cnt[p] /\ cnt[p] < nxt[p]
                          /\ Steady => cnt[p] = Cardinality(InUse(p)) + HalfCount(p)
      BY <1>6 DEF CountInv
    <2>3. \A p \in Kept' : /\ (Cardinality(InUse(p)) + HalfCount(p) <= cnt[p])' /\ cnt'[p] < nxt'[p]
                           /\ Steady' => (cnt[p] = Cardinality(InUse(p)) + HalfCount(p))'
      BY <2>1, <2>2, <1>5, <1>14
    <2> QED BY <2>3, <1>5, <1>12 DEF CountInv
  <1>19. MarkInv'
    <2>1. ToSet(<<>>) = {} /\ <<>> \in Seq(Pages \X Slots')
      BY DEF ToSet
    <2> QED BY <2>1, <1>1, <1>3 DEF MarkInv
  <1>20. MoveInv'
    <2> SUFFICES ASSUME Steady PROVE MoveInv'
      BY <1>1, <1>5, <1>6 DEF MoveInv
    <2>1. Last(used') = T /\ cnt'[T] = cnt[T] /\ nxt'[T] = nxt[T]
      BY <1>1, <1>3, <1>12
    <2>2. cnt[T] = nxt[T] - 1
      BY <1>3, <1>6 DEF MoveInv
    <2>3. nxt[T] - 1 + 0 = cnt[V]
      BY <1>1, <1>2, <1>6, FS_EmptySet DEF MoveInv
    <2>4. \A q \in ToSet(used) : q \in Pages \ {V} /\ cnt'[q] = cnt[q] /\ cnt[q] \in 0..N
      BY <1>6, <1>8, <1>12, <1>14
    <2>5. \A q \in ToSet(used) : cnt[T] <= cnt[q]
      <3> TAKE q \in ToSet(used)
      <3>1. q # T => cnt[V] <= cnt[q]
        BY <1>2, <1>6 DEF MoveInv
      <3>2. cnt[T] = cnt[V] /\ cnt[T] \in 0..N /\ cnt[q] \in 0..N
        <4>1. nxt[T] \in Nat
          BY <1>2, <1>3
        <4> QED BY <4>1, <2>2, <2>3, <2>4, <1>3
      <3> QED BY <3>1, <3>2
    <2> QED BY <2>1, <2>2, <2>4, <2>5, <1>1, <1>5, <1>6 DEF MoveInv
  <1> QED BY <1>15, <1>16, <1>17, <1>18, <1>19, <1>20


LEMMA CopyEntryEntries ==
    ASSUME StoreInv, [Next]_vars, CopyEntry
    PROVE  FillInv' /\ WholeInv' /\ CopyInv' /\ CountInv' /\ MarkInv' /\ MoveInv'
  <1> USE DEF StoreInv, EntryInv
  <1>1. /\ pc = "copy" /\ pc' = "copied" /\ ToCopy # {}
        /\ EntryWrite(req.page, slot[req.vic][Min(ToCopy)])
        /\ req' = [req EXCEPT !.from = Min(ToCopy) + 1]
        /\ UNCHANGED <<pst, seq, est, used, free, op, marks>>
    BY DEF CopyEntry
  <1>2. PICK V, T, f, n : V = req.vic /\ T = req.page /\ f = req.from /\ n = nxt[req.page]
    OBVIOUS
  <1>2a. PICK m : m = Min(ToCopy)
    OBVIOUS
  <1>2b. PICK c : c = slot[V][m]
    OBVIOUS
  <1>3. /\ V \in Pages /\ T \in Pages /\ V # T /\ T \in ToSet(used) /\ V \notin ToSet(used)
        /\ T \in Written /\ V \in Written /\ T = Last(used)
        /\ N \in Nat \ {0} /\ Slots = 1..N /\ inst \in Instances
        /\ f \in 1..(N + 1) /\ n \in 1..(N + 1) /\ n <= f
        /\ Eff = est /\ marks.at = <<>> /\ Kept \in SUBSET Pages
        /\ \A p \in Pages : Low(p) = nxt[p] /\ HalfCount(p) = 0
        /\ \A p \in Pages : \A i \in Slots :
              slot[p][i] \in Cell /\ Span(slot[p][i]) \in Nat /\ est[p][i] \in EntryStates
    BY <1>1, <1>2, CopyFacts
  <1>4. \A i \in Slots : (i < n => est[T][i] = "used") /\ (i >= n => est[T][i] = "free")
    BY <1>1, <1>2, CopyFacts
  <1>4a. \A i \in Slots : i >= n /\ Steady => slot[T][i] = Blank
    BY <1>1, <1>2, CopyFacts
  <1>4b. \A p \in Pages \ {T} : \A i \in Slots : \A t \in 1..Span(slot[p][i]) :
            est[p][i] # "free" =>
               i + t \in Slots /\ est[p][i + t] = est[p][i] /\ slot[p][i + t].c = "data"
    BY <1>1, <1>2, CopyFacts
  <1>4c. \A i \in Slots : \A t \in 1..Span(slot[T][i]) : est[T][i] # "free" =>
            \/ i + t >= n
            \/ i + t \in Slots /\ est[T][i + t] = est[T][i] /\ slot[T][i + t].c = "data"
    BY <1>1, <1>2, CopyFacts
  <1>5. N' = N /\ Slots' = Slots /\ inst' = inst /\ Steady' = Steady
    BY InstKept DEF Steady
  <1>6. Running /\ Running' /\ Moving /\ Moving' /\ Kept' = Kept /\ Written' = Written
    BY <1>1, <1>2 DEF Running, Moving, Kept, Written
  <1>7. /\ m \in Slots /\ m >= f /\ est[V][m] = "used" /\ m \in 1..N /\ n <= m
        /\ \A i \in Slots : i >= f /\ est[V][i] = "used" => m <= i
    <2>1. m \in ToCopy /\ \A i \in ToCopy : m <= i
      BY <1>1, <1>2a, ToCopyIs DEF PagesInv
    <2> QED BY <2>1, <1>2, <1>3 DEF ToCopy
  <1>8. n \in Slots /\ n \in Nat /\ f \in Nat /\ m \in Nat
    BY <1>3, <1>7
  <1>9. /\ \A j \in Slots : est[V][j] = "used" /\ j < f /\ f <= j + Span(slot[V][j]) =>
              /\ m = f /\ c.c = "data"
              /\ \E g \in Slots : g + f = n + j /\ slot[T][g] = slot[V][j]
        /\ \A j \in Slots : j < n /\ n <= j + Span(slot[T][j]) =>
              /\ m = f /\ c.c = "data"
              /\ \E g \in Slots : g + n = f + j /\ slot[V][g] = slot[T][j] /\ est[V][g] = "used"
    <2>1. f \in ToCopy => m = f
      BY <1>2, <1>3, <1>7 DEF ToCopy
    <2>2. \A j \in Slots : est[V][j] = "used" /\ j < f /\ f <= j + Span(slot[V][j]) =>
              /\ f \in ToCopy /\ slot[V][f].c = "data"
              /\ \E g \in Slots : g + f = n + j /\ slot[T][g] = slot[V][j]
      BY <1>1, <1>2, CopyReach
    <2>3. \A j \in Slots : j < n /\ n <= j + Span(slot[T][j]) =>
              /\ f \in ToCopy /\ slot[V][f].c = "data"
              /\ \E g \in Slots : g + n = f + j /\ slot[V][g] = slot[T][j] /\ est[V][g] = "used"
      BY <1>1, <1>2, CopyBack
    <2> QED BY <2>1, <2>2, <2>3, <1>2b
  \* What is written.
  <1>10. PICK x : x = Program(slot[T][n], c)
    OBVIOUS
  <1>11. /\ c \in Cell /\ x \in Cell /\ x \in {c, Junk} /\ (Steady => x = c)
         /\ Span(x) \in Nat /\ Span(c) \in Nat
         /\ ~Steady => x.c # "data" /\ Span(x) = 0
    <2>1. c \in Cell
      BY <1>2b, <1>3, <1>7
    <2>2. x \in {c, Junk} /\ Junk \in Cell /\ Span(Junk) = 0 /\ Junk.c # "data"
      BY <2>1, <1>3, <1>8, <1>10, SpanIs DEF Junk
    <2>3. Steady => x = c
      BY <1>4a, <1>8, <1>10 DEF Program
    <2>4. ~Steady => c.c # "data" /\ Span(c) = 0
      BY <1>2b, <1>3, <1>7 DEF WholeInv
    <2> QED BY <2>1, <2>2, <2>3, <2>4, SpanIs
  <1>12. /\ slot \in [Pages -> [Slots -> Cell]] /\ est \in [Pages -> [Slots -> EntryStates]]
         /\ nxt \in [Pages -> 1..(N + 1)] /\ cnt \in [Pages -> 0..N]
         /\ DOMAIN req = {"page", "vic", "from"}
    BY DEF PagesInv, Types, FillInv, CountInv
  <1>13. /\ \A p \in Pages \ {T} : slot'[p] = slot[p]
         /\ \A i \in Slots : slot'[T][i] = IF i = n THEN x ELSE slot[T][i]
    <2>1. slot' = [slot EXCEPT ![T] = [slot[T] EXCEPT ![n] = x]]
      BY <1>1, <1>2, <1>2a, <1>2b, <1>10 DEF EntryWrite
    <2> QED BY <2>1, <1>3, <1>12
  <1>14. /\ nxt' = [nxt EXCEPT ![T] = n + 1] /\ cnt' = [cnt EXCEPT ![T] = cnt[T] + 1]
         /\ req'.page = T /\ req'.vic = V /\ req'.from = m + 1
    BY <1>1, <1>2, <1>2a, <1>12 DEF EntryWrite
  <1>15. /\ \A p \in Pages \ {T} : nxt'[p] = nxt[p] /\ cnt'[p] = cnt[p]
         /\ nxt'[T] = n + 1 /\ cnt'[T] = cnt[T] + 1
    BY <1>3, <1>12, <1>14
  <1>16. /\ \A p \in Pages \ {T} : \A i \in Slots : Eff'[p][i] = est[p][i]
         /\ \A i \in Slots : Eff'[T][i] = IF i = n THEN "used" ELSE est[T][i]
    <2>1. Pending' = {<<T, n>>} /\ Goal' = "used"
      <3>1. nxt'[req'.page] - 1 = n
        BY <1>8, <1>14, <1>15
      <3> QED BY <3>1, <1>1, <1>14 DEF Pending, Goal
    <2>2. \A p \in Pages : \A i \in Slots :
             Eff'[p][i] = IF <<p, i>> \in {<<T, n>>} THEN "used" ELSE est[p][i]
      BY <2>1, <1>1, <1>5 DEF Eff
    <2> QED BY <2>2, <1>3
  <1>17. \A p \in Pages : Low(p)' = nxt'[p] /\ HalfCount(p)' = 0
    BY <1>1 DEF Low, HalfWritten, HalfCount
  <1>18. est[T][n] = "free" /\ T \in Kept
    BY <1>3, <1>4, <1>8 DEF Kept
  <1>19. FillInv'
    <2>1. \A p \in Pages \ Written' : \A i \in Slots' : slot'[p][i] = Blank /\ est'[p][i] = "free"
      <3> TAKE p \in Pages \ Written'
      <3>1. p \in Pages \ Written /\ p # T
        BY <1>3, <1>6
      <3>2. \A i \in Slots : slot[p][i] = Blank /\ est[p][i] = "free"
        BY <3>1 DEF FillInv
      <3> QED BY <3>1, <3>2, <1>1, <1>5, <1>13
    <2>2. \A p \in Kept' : \A i \in Slots' : Eff'[p][i] = "free" <=> i >= Low(p)'
      <3> TAKE p \in Kept'
      <3> TAKE i \in Slots'
      <3>1. p \in Kept /\ p \in Pages /\ i \in Slots /\ Low(p)' = nxt'[p]
        BY <1>3, <1>5, <1>6, <1>17
      <3>2. CASE p # T
        <4>1. Eff[p][i] = "free" <=> i >= Low(p)
          BY <3>1, <1>6 DEF FillInv
        <4>2. Low(p) = nxt[p] /\ nxt'[p] = nxt[p] /\ Eff'[p][i] = est[p][i] /\ Eff = est
          BY <3>1, <3>2, <1>3, <1>15, <1>16
        <4> QED BY <4>1, <4>2, <3>1
      <3>3. CASE p = T
        <4>1. i \in Nat
          BY <3>1, <1>3
        <4>2. CASE i = n
          BY <4>1, <4>2, <3>1, <3>3, <1>8, <1>15, <1>16
        <4>3. CASE i # n
          BY <4>1, <4>3, <3>1, <3>3, <1>4, <1>8, <1>15, <1>16
        <4> QED BY <4>2, <4>3
      <3> QED BY <3>2, <3>3
    <2>3. Steady' => \A p \in Kept' : \A i \in Slots' : i >= nxt'[p] => slot'[p][i] = Blank
      <3> HAVE Steady'
      <3> TAKE p \in Kept'
      <3> TAKE i \in Slots'
      <3>1. p \in Kept /\ p \in Pages /\ i \in Slots /\ i \in Nat
        BY <1>3, <1>5, <1>6
      <3>2. i >= nxt[p] => slot[p][i] = Blank
        BY <3>1, <1>5, <1>6 DEF FillInv
      <3>3. CASE p = T
        BY <3>1, <3>3, <1>4a, <1>5, <1>8, <1>13, <1>15
      <3>4. CASE p # T
        BY <3>1, <3>2, <3>4, <1>13, <1>15
      <3> QED BY <3>3, <3>4
    <2>4. nxt' \in [Pages -> 1..(N' + 1)] /\ pc' # "data"
      <3>1. n + 1 \in 1..(N + 1)
        BY <1>3, <1>8
      <3> QED BY <3>1, <1>1, <1>5, <1>12, <1>14
    <2> QED BY <2>1, <2>2, <2>3, <2>4, <1>6 DEF FillInv
  <1>20. WholeInv'
    <2>1. ASSUME NEW p \in Pages, NEW i \in Slots, NEW t \in 1..Span(slot'[p][i]),
                 Eff'[p][i] # "free"
          PROVE  \/ p = T /\ i + t >= n + 1
                 \/ i + t \in Slots /\ Eff'[p][i + t] = Eff'[p][i] /\ slot'[p][i + t].c = "data"
      <3>1. CASE p # T
        <4>1. t \in 1..Span(slot[p][i]) /\ est[p][i] # "free"
          BY <2>1, <3>1, <1>13, <1>16
        <4>2. i + t \in Slots /\ est[p][i + t] = est[p][i] /\ slot[p][i + t].c = "data"
          BY <3>1, <4>1, <1>4b
        <4> QED BY <3>1, <4>2, <1>13, <1>16
      <3>2. CASE p = T /\ i = n
        <4>1. t \in Nat /\ t >= 1
          BY <2>1, <3>2, <1>11, <1>13
        <4> QED BY <3>2, <4>1, <1>8
      <3>3. CASE p = T /\ i # n
        <4>1. t \in 1..Span(slot[T][i]) /\ est[T][i] # "free" /\ Eff'[T][i] = est[T][i]
          BY <2>1, <3>3, <1>13, <1>16
        <4>2. i \in Nat /\ t \in Nat /\ Span(slot[T][i]) \in Nat /\ t <= Span(slot[T][i]) /\ t >= 1
          <5>1. Span(slot[T][i]) \in Nat
            BY <1>3
          <5> QED BY <4>1, <5>1, <1>3
        <4>3. i < n /\ est[T][i] = "used"
          BY <4>1, <4>2, <1>4, <1>8
        <4>4. CASE i + t >= n + 1
          BY <3>3, <4>4
        <4>5. CASE i + t = n
          <5>1. i < n /\ n <= i + Span(slot[T][i])
            <6>1. PICK s : s = Span(slot[T][i])
              OBVIOUS
            <6> QED BY <6>1, <4>2, <4>3, <4>5
          <5>2. c.c = "data"
            BY <5>1, <1>9
          <5>3. Steady
            <6>1. ~Steady => Span(slot[T][i]) = 0
              BY <1>3 DEF WholeInv
            <6> QED BY <6>1, <4>2
          <5> QED BY <3>3, <4>1, <4>3, <4>5, <5>2, <5>3, <1>8, <1>11, <1>13, <1>16
        <4>6. CASE i + t < n
          <5>1. i + t \in Slots /\ est[T][i + t] = est[T][i] /\ slot[T][i + t].c = "data" /\ i + t # n
            BY <4>1, <4>2, <4>6, <1>4c, <1>8
          <5> QED BY <3>3, <4>1, <5>1, <1>13, <1>16
        <4> QED BY <4>2, <4>4, <4>5, <4>6, <1>8
      <3> QED BY <3>1, <3>2, <3>3
    <2>2. \A p, i : ToCome(p, i)' <=> p = T /\ i >= n + 1
      BY <1>6, <1>14, <1>15 DEF ToCome
    <2>3. ASSUME Steady, NEW p \in Pages, NEW i \in Slots, est[p][i] = "used"
          PROVE  \/ slot[p][i].c = "head"
                 \/ /\ slot[p][i].c = "data"
                    /\ \E h \in 1..(i - 1) : /\ slot[p][h].c = "head" /\ est[p][h] = "used"
                                             /\ i <= h + Span(slot[p][h])
      <3>1. Eff[p][i] = "used" /\ Eff[p] = est[p]
        BY <2>3, <1>3
      <3>2. \/ slot[p][i].c = "head"
            \/ /\ slot[p][i].c = "data"
               /\ \E h \in 1..(i - 1) : /\ slot[p][h].c = "head" /\ Eff[p][h] = "used"
                                        /\ i <= h + Span(slot[p][h])
        BY <2>3, <3>1 DEF WholeInv
      <3> QED BY <3>1, <3>2
    <2>4. ASSUME Steady, NEW p \in Pages, NEW i \in Slots, Eff'[p][i] = "used"
          PROVE  \/ slot'[p][i].c = "head"
                 \/ /\ slot'[p][i].c = "data"
                    /\ \E h \in 1..(i - 1) : /\ slot'[p][h].c = "head" /\ Eff'[p][h] = "used"
                                             /\ i <= h + Span(slot'[p][h])
      <3>1. CASE p # T
        <4>1. est[p][i] = "used" /\ slot'[p] = slot[p]
          BY <2>4, <3>1, <1>13, <1>16
        <4>2. \A h \in 1..(i - 1) : h \in Slots
          BY <1>3
        <4> QED BY <3>1, <4>1, <4>2, <2>3, <2>4, <1>16
      <3>2. CASE p = T /\ i # n
        <4>1. est[T][i] = "used" /\ slot'[T][i] = slot[T][i]
          BY <2>4, <3>2, <1>13, <1>16
        <4>2. i < n
          BY <4>1, <3>2, <1>3, <1>4, <1>8
        <4>3. \A h \in 1..(i - 1) : h \in Slots /\ h # n
          BY <4>2, <1>3, <1>8
        <4>4. \A h \in 1..(i - 1) : slot'[T][h] = slot[T][h] /\ Eff'[T][h] = est[T][h]
          BY <4>3, <1>13, <1>16
        <4> QED BY <3>2, <4>1, <4>4, <2>3, <2>4
      <3>3. CASE p = T /\ i = n
        <4>1. slot'[T][n] = c /\ c = slot[V][m]
          BY <2>4, <1>2b, <1>8, <1>11, <1>13
        <4>2. CASE slot[V][m].c = "head"
          BY <3>3, <4>1, <4>2
        <4>3. CASE slot[V][m].c # "head"
          <5>1. slot[V][m].c = "data" /\
                \E h \in 1..(m - 1) : /\ slot[V][h].c = "head" /\ est[V][h] = "used"
                                      /\ m <= h + Span(slot[V][h])
            BY <2>3, <2>4, <4>3, <1>3, <1>7
          <5>2. PICK h \in 1..(m - 1) : /\ slot[V][h].c = "head" /\ est[V][h] = "used"
                                        /\ m <= h + Span(slot[V][h])
            BY <5>1
          <5>3. h \in Slots /\ h \in Nat /\ h < m /\ h >= 1
            BY <1>3, <1>7, <1>8
          <5>4. h < f
            BY <5>2, <5>3, <1>7, <1>8
          <5>5. Span(slot[V][h]) \in Nat
            BY <5>3, <1>3
          <5>6. f <= h + Span(slot[V][h])
            <6>1. PICK s : s = Span(slot[V][h])
              OBVIOUS
            <6> QED BY <6>1, <5>2, <5>3, <5>5, <1>7, <1>8
          <5>7. m = f /\ \E g \in Slots : g + f = n + h /\ slot[T][g] = slot[V][h]
            BY <5>2, <5>3, <5>4, <5>6, <1>9
          <5>8. PICK g \in Slots : g + f = n + h /\ slot[T][g] = slot[V][h]
            BY <5>7
          <5>9. g \in Slots /\ g \in Nat /\ g < n /\ g \in 1..(n - 1) /\ slot[T][g] = slot[V][h]
            <6>1. g \in Slots /\ slot[T][g] = slot[V][h]
              BY <5>8
            <6>2. g \in Nat /\ g >= 1
              BY <6>1, <1>3
            <6>3. g < n /\ g \in 1..(n - 1)
              BY <6>2, <5>3, <5>4, <5>8, <1>8
            <6> QED BY <6>1, <6>2, <6>3
          <5>10. n <= g + Span(slot[T][g])
            <6>1. PICK s : s = Span(slot[V][h])
              OBVIOUS
            <6>2. Span(slot[T][g]) = s
              BY <6>1, <5>9
            <6>3. n <= g + s
              BY <6>1, <5>3, <5>5, <5>6, <5>8, <5>9, <1>8
            <6> QED BY <6>2, <6>3
          <5>11. slot'[T][g] = slot[T][g] /\ Eff'[T][g] = "used"
            <6>1. g # n
              BY <5>9, <1>8
            <6> QED BY <6>1, <5>9, <1>4, <1>13, <1>16
          <5> QED BY <3>3, <4>1, <5>1, <5>2, <5>9, <5>10, <5>11
        <4> QED BY <4>2, <4>3
      <3> QED BY <3>1, <3>2, <3>3
    <2>5. ASSUME ~Steady, NEW p \in Pages, NEW i \in Slots
          PROVE  slot'[p][i].c # "data" /\ Span(slot'[p][i]) = 0
      <3>1. slot[p][i].c # "data" /\ Span(slot[p][i]) = 0
        BY <2>5 DEF WholeInv
      <3> QED BY <2>5, <3>1, <1>11, <1>13
    <2> QED BY <2>1, <2>2, <2>4, <2>5, <1>5 DEF WholeInv
  <1>21. CopyInv'
    <2>1. m + 1 \in 1..(N + 1) /\ n + 1 <= m + 1
      BY <1>3, <1>7, <1>8
    <2>2. ASSUME NEW d \in 1..m, est[V][m + 1 - d] = "used", d <= Span(slot[V][m + 1 - d])
          PROVE  n + 1 - d \in Slots /\ slot'[T][n + 1 - d] = slot[V][m + 1 - d]
      <3>0. d \in Nat /\ d >= 1 /\ m + 1 - d \in Slots /\ m + 1 - d <= m
        BY <1>3, <1>7, <1>8
      <3>1. PICK j : j = m + 1 - d
        OBVIOUS
      <3>2. j \in Slots /\ j \in Nat /\ est[V][j] = "used" /\ Span(slot[V][j]) \in Nat
        BY <2>2, <3>0, <3>1, <1>3
      <3>3. PICK s : s = Span(slot[V][j])
        OBVIOUS
      <3>4. d <= s /\ s \in Nat
        BY <2>2, <3>1, <3>2, <3>3
      <3>5. Steady
        <4>1. ~Steady => s = 0
          BY <3>2, <3>3, <1>3 DEF WholeInv
        <4> QED BY <4>1, <3>0, <3>4
      <3>6. CASE d = 1
        <4>1. j = m /\ n + 1 - d = n
          BY <3>1, <3>6, <1>8
        <4> QED BY <3>1, <3>5, <4>1, <1>2b, <1>8, <1>11, <1>13
      <3>7. CASE d # 1
        <4>1. j < m
          BY <3>0, <3>1, <3>7, <1>8
        <4>2. j < f
          BY <3>2, <4>1, <1>7, <1>8
        <4>3. f <= j + s
          BY <3>0, <3>1, <3>2, <3>4, <1>7, <1>8
        <4>4. m = f /\ \E g \in Slots : g + f = n + j /\ slot[T][g] = slot[V][j]
          BY <3>2, <3>3, <4>2, <4>3, <1>9
        <4>5. PICK g \in Slots : g + f = n + j /\ slot[T][g] = slot[V][j]
          BY <4>4
        <4>6. g \in Nat
          BY <1>3
        <4>7. g = n + 1 - d /\ g # n
          BY <3>0, <3>1, <3>7, <4>4, <4>5, <4>6, <1>8
        <4> QED BY <3>1, <4>5, <4>7, <1>13
      <3> QED BY <3>6, <3>7
    <2>3. ASSUME NEW d \in 1..n, d <= Span(slot'[T][n + 1 - d])
          PROVE  /\ m + 1 - d \in Slots /\ slot[V][m + 1 - d] = slot'[T][n + 1 - d]
                 /\ est[V][m + 1 - d] = "used"
      <3>0. d \in Nat /\ d >= 1 /\ n + 1 - d \in Slots /\ n + 1 - d <= n
        BY <1>3, <1>8
      <3>1. PICK j : j = n + 1 - d
        OBVIOUS
      <3>6. CASE d = 1
        <4>1. j = n /\ m + 1 - d = m
          BY <3>1, <3>6, <1>8
        <4>2. slot'[T][j] = x
          BY <4>1, <1>8, <1>13
        <4>3. 1 <= Span(x)
          BY <2>3, <3>1, <3>6, <4>2
        <4>4. Steady
          BY <4>3, <1>11
        <4> QED BY <3>1, <4>1, <4>2, <4>4, <1>2b, <1>7, <1>11
      <3>7. CASE d # 1
        <4>0. j < n /\ j # n
          BY <3>0, <3>1, <3>7, <1>8
        <4>1. j < n /\ j # n /\ j \in Slots /\ j \in Nat
          BY <4>0, <3>0, <3>1, <1>3
        <4>2. slot'[T][j] = slot[T][j]
          BY <4>1, <1>13
        <4>3. PICK s : s = Span(slot[T][j])
          OBVIOUS
        <4>4. s \in Nat /\ d <= s
          BY <2>3, <3>1, <4>1, <4>2, <4>3, <1>3
        <4>5. n <= j + s
          BY <3>0, <3>1, <4>1, <4>4, <1>8
        <4>6. /\ m = f
              /\ \E g \in Slots : g + n = f + j /\ slot[V][g] = slot[T][j] /\ est[V][g] = "used"
          BY <4>1, <4>3, <4>5, <1>9
        <4>7. PICK g \in Slots : g + n = f + j /\ slot[V][g] = slot[T][j] /\ est[V][g] = "used"
          BY <4>6
        <4>8. g \in Nat
          BY <1>3
        <4>9. g = m + 1 - d
          BY <3>0, <3>1, <4>6, <4>7, <4>8, <1>8
        <4> QED BY <3>1, <4>2, <4>7, <4>9
      <3> QED BY <3>6, <3>7
    <2>4. \A j \in Slots : Eff'[T][j] # "updated"
      <3> TAKE j \in Slots
      <3>1. Eff[T][j] # "updated"
        BY <1>2, <1>6 DEF CopyInv
      <3> QED BY <3>1, <1>3, <1>16
    <2>5. m + 1 - 1 = m /\ n + 1 - 1 = n
      BY <1>8
    <2>6. slot'[V] = slot[V] /\ pc' # "candidate" /\ nxt'[T] = n + 1
      BY <1>1, <1>3, <1>13, <1>15
    <2>7. /\ req'.from \in 1..(N' + 1) /\ nxt'[req'.page] <= req'.from
          /\ \A d \in 1..(req'.from - 1) :
                est'[req'.vic][req'.from - d] = "used" /\ d <= Span(slot'[req'.vic][req'.from - d])
                => /\ nxt'[req'.page] - d \in Slots'
                   /\ slot'[req'.page][nxt'[req'.page] - d] = slot'[req'.vic][req'.from - d]
      <3>1. req'.from \in 1..(N' + 1) /\ nxt'[req'.page] <= req'.from
        BY <2>1, <2>6, <1>5, <1>14
      <3>2. ASSUME NEW d \in 1..(req'.from - 1), est'[req'.vic][req'.from - d] = "used",
                   d <= Span(slot'[req'.vic][req'.from - d])
            PROVE  /\ nxt'[req'.page] - d \in Slots'
                   /\ slot'[req'.page][nxt'[req'.page] - d] = slot'[req'.vic][req'.from - d]
        <4>0. PICK r, z : r = req'.from /\ z = nxt'[req'.page]
          OBVIOUS
        <4>a. r = m + 1 /\ z = n + 1 /\ d \in 1..(r - 1)
          BY <4>0, <2>6, <1>14
        <4>b. d \in 1..m /\ r - d = m + 1 - d /\ z - d = n + 1 - d
          BY <4>a, <1>8
        <4>1. d \in 1..m /\ req'.from - d = m + 1 - d /\ nxt'[req'.page] - d = n + 1 - d
          BY <4>0, <4>b
        <4>2. est[V][m + 1 - d] = "used" /\ d <= Span(slot[V][m + 1 - d])
          BY <3>2, <4>1, <2>6, <1>1, <1>14
        <4>3. n + 1 - d \in Slots /\ slot'[T][n + 1 - d] = slot[V][m + 1 - d]
          BY <4>1, <4>2, <2>2
        <4> QED BY <4>1, <4>3, <2>6, <1>5, <1>14
      <3> QED BY <3>1, <3>2
    <2>8. \A d \in 1..(nxt'[req'.page] - 1) :
             d <= Span(slot'[req'.page][nxt'[req'.page] - d])
             => /\ req'.from - d \in Slots'
                /\ slot'[req'.vic][req'.from - d] = slot'[req'.page][nxt'[req'.page] - d]
                /\ est'[req'.vic][req'.from - d] = "used"
      <3>1. ASSUME NEW d \in 1..(nxt'[req'.page] - 1),
                   d <= Span(slot'[req'.page][nxt'[req'.page] - d])
            PROVE  /\ req'.from - d \in Slots'
                   /\ slot'[req'.vic][req'.from - d] = slot'[req'.page][nxt'[req'.page] - d]
                   /\ est'[req'.vic][req'.from - d] = "used"
        <4>0. PICK r, z : r = req'.from /\ z = nxt'[req'.page]
          OBVIOUS
        <4>a. r = m + 1 /\ z = n + 1 /\ d \in 1..(z - 1)
          BY <4>0, <2>6, <1>14
        <4>b. d \in 1..n /\ r - d = m + 1 - d /\ z - d = n + 1 - d
          BY <4>a, <1>8
        <4>1. d \in 1..n /\ req'.from - d = m + 1 - d /\ nxt'[req'.page] - d = n + 1 - d
          BY <4>0, <4>b
        <4>2. d <= Span(slot'[T][n + 1 - d])
          BY <3>1, <4>1, <1>14
        <4>3. /\ m + 1 - d \in Slots /\ slot[V][m + 1 - d] = slot'[T][n + 1 - d]
              /\ est[V][m + 1 - d] = "used"
          BY <4>1, <4>2, <2>3
        <4> QED BY <4>1, <4>3, <2>6, <1>1, <1>5, <1>14
      <3> QED BY <3>1
    <2>9. \A j \in Slots' : Eff'[req'.page][j] # "updated"
      BY <2>4, <1>5, <1>14
    <2> QED BY <2>6, <2>7, <2>8, <2>9 DEF CopyInv
  <1>22. CountInv'
    <2>1. \A p \in Kept : /\ Cardinality(InUse(p)) + HalfCount(p) <= cnt[p] /\ cnt[p] < nxt[p]
                          /\ Steady => cnt[p] = Cardinality(InUse(p)) + HalfCount(p)
      BY <1>6 DEF CountInv
    <2>2. \A p \in Kept \ {T} : InUse(p)' = InUse(p)
      BY <1>3, <1>5, <1>16 DEF InUse
    <2>3. Cardinality(InUse(T)') = Cardinality(InUse(T)) + 1 /\ Cardinality(InUse(T)) \in Nat
      <3>1. InUse(T)' = InUse(T) \cup {n} /\ n \notin InUse(T)
        BY <1>3, <1>5, <1>8, <1>16, <1>18 DEF InUse
      <3>2. IsFiniteSet(InUse(T)) /\ Cardinality(InUse(T)) \in 0..N
        BY <1>3, SlotSets
      <3>3. Cardinality(InUse(T) \cup {n}) = Cardinality(InUse(T)) + 1
        BY <3>1, <3>2, FS_AddElement
      <3> QED BY <3>1, <3>2, <3>3, <1>3
    <2>4. PICK u, a : u = Cardinality(InUse(T)) /\ a = cnt[T]
      OBVIOUS
    <2>5. a \in 0..N /\ u \in Nat /\ u <= a /\ a < n /\ (Steady => a = u)
      <3>1. /\ Cardinality(InUse(T)) + 0 <= cnt[T] /\ cnt[T] < n
            /\ Steady => cnt[T] = Cardinality(InUse(T)) + 0
        BY <2>1, <1>2, <1>3, <1>18
      <3> QED BY <3>1, <2>3, <2>4, <1>3, <1>12
    <2>6. u + 1 + 0 <= a + 1 /\ a + 1 < n + 1 /\ (Steady => a + 1 = u + 1 + 0) /\ a + 1 \in 0..N
      BY <2>5, <1>3, <1>8
    <2>7. cnt' \in [Pages -> 0..N]
      BY <2>4, <2>6, <1>12, <1>14
    <2>8. \A p \in Kept' : /\ (Cardinality(InUse(p)) + HalfCount(p) <= cnt[p])' /\ cnt'[p] < nxt'[p]
                           /\ Steady' => (cnt[p] = Cardinality(InUse(p)) + HalfCount(p))'
      <3> TAKE p \in Kept'
      <3>1. p \in Kept /\ p \in Pages /\ HalfCount(p)' = 0 /\ HalfCount(p) = 0
        BY <1>3, <1>6, <1>17
      <3>2. CASE p = T
        BY <3>1, <3>2, <2>3, <2>4, <2>6, <1>5, <1>15
      <3>3. CASE p # T
        BY <3>1, <3>3, <2>1, <2>2, <1>5, <1>15
      <3> QED BY <3>2, <3>3
    <2> QED BY <2>7, <2>8, <1>5 DEF CountInv
  <1>23. MarkInv'
    <2>1. ToSet(<<>>) = {} /\ <<>> \in Seq(Pages \X Slots')
      BY DEF ToSet
    <2> QED BY <2>1, <1>1, <1>3 DEF MarkInv
  <1>24. MoveInv'
    <2>1. ToCopy' = ToCopy \ {m} /\ m \in ToCopy
      <3>1. ToCopy = {i \in Slots : i >= f /\ est[V][i] = "used"}
        BY <1>2 DEF ToCopy
      <3>2. ToCopy' = {i \in Slots : i >= m + 1 /\ est[V][i] = "used"}
        BY <1>1, <1>5, <1>14 DEF ToCopy
      <3>3. \A i \in Slots : est[V][i] = "used" => (i >= m + 1 <=> i >= f /\ i # m)
        <4> TAKE i \in Slots
        <4>1. i \in Nat
          BY <1>3
        <4> QED BY <4>1, <1>7, <1>8
      <3> QED BY <3>1, <3>2, <3>3, <1>7
    <2>2. IsFiniteSet(ToCopy) /\ Cardinality(ToCopy) \in 0..N
      BY <1>3, SlotSets DEF ToCopy
    <2>3. Cardinality(ToCopy') = Cardinality(ToCopy) - 1
      BY <2>1, <2>2, FS_RemoveElement
    <2>4. PICK k, e : k = Cardinality(ToCopy) /\ e = cnt[T]
      OBVIOUS
    <2>5. /\ \A q \in ToSet(used) \ {T} : cnt[V] <= cnt[q]
          /\ Steady => n - 1 + k = cnt[V] /\ e = n - 1
      <3>1. T = Last(used)
        BY <1>3
      <3> QED BY <3>1, <2>4, <1>2, <1>6 DEF MoveInv
    <2>6. cnt'[V] = cnt[V] /\ \A q \in ToSet(used) \ {T} : cnt'[q] = cnt[q]
      <3>1. ToSet(used) \in SUBSET Pages
        BY ListFacts
      <3> QED BY <3>1, <1>3, <1>15
    <2>7. n - 1 + k = n + 1 - 1 + (k - 1) /\ (e = n - 1 => e + 1 = n + 1 - 1)
      BY <2>2, <2>4, <1>3, <1>8
    <2>8. \A q \in ToSet(used') \ {req'.page} : cnt'[req'.vic] <= cnt'[q]
      BY <2>5, <2>6, <1>1, <1>14
    <2>9. Steady => nxt'[T] - 1 + Cardinality(ToCopy') = cnt'[V] /\ cnt'[T] = nxt'[T] - 1
      <3> HAVE Steady
      <3>1. n - 1 + k = cnt'[V] /\ e = n - 1
        BY <2>5, <2>6
      <3>2. nxt'[T] = n + 1 /\ Cardinality(ToCopy') = k - 1 /\ cnt'[T] = e + 1
        BY <2>3, <2>4, <1>15
      <3>3. k \in Nat
        BY <2>2, <2>4
      <3> QED BY <3>1, <3>2, <3>3, <1>8
    <2>10. Last(used') = T /\ pc' \notin {"erase", "page", "again"}
      BY <1>1, <1>3
    <2> QED BY <2>8, <2>9, <2>10, <1>5, <1>14 DEF MoveInv
  <1> QED BY <1>19, <1>20, <1>21, <1>22, <1>23, <1>24


\* Under a failing supply a put is of a small value.
LEMMA SmallPuts ==
    ASSUME SmallOnly, PagesInv, ~Steady, op.fn = "put"
    PROVE  op.v \in SmallVals
  <1>1. inst \in Instances /\ inst.supply = "failing"
    <2>1. inst \in Instances
      BY DEF PagesInv, Types
    <2> QED BY <2>1, SlotsAre DEF Steady
  <1>2. <<op.k, op.v>> \in inst.puts
    BY DEF PagesInv, PutInv
  <1>3. inst.puts \subseteq Keys \X SmallVals
    BY <1>1 DEF SmallOnly
  <1> QED BY <1>2, <1>3

\* A step that writes entries D that were free, on page P.
WritesWhole(P, D) ==
    /\ \A i \in D : est[P][i] = "free"
    /\ \A p \in Pages : \A i \in Slots :
          p # P \/ i \notin D => slot'[p][i] = slot[p][i] /\ Eff'[p][i] = est[p][i]
    /\ \A i \in D : \A t \in 1..Span(slot'[P][i]) : Eff'[P][i] # "free" =>
          i + t \in Slots /\ Eff'[P][i + t] = Eff'[P][i] /\ slot'[P][i + t].c = "data"
    /\ Steady => \A i \in D : Eff'[P][i] = "used" =>
          \/ slot'[P][i].c = "head"
          \/ /\ slot'[P][i].c = "data"
             /\ \E h \in 1..(i - 1) : /\ slot'[P][h].c = "head" /\ Eff'[P][h] = "used"
                                      /\ i <= h + Span(slot'[P][h])
    /\ ~Steady => \A i \in D : slot'[P][i].c # "data" /\ Span(slot'[P][i]) = 0

LEMMA WriteWhole ==
    ASSUME StoreInv, Running, ~Moving, ~Moving', inst' = inst, Eff = est,
           NEW P \in Pages, NEW D \in SUBSET Slots, WritesWhole(P, D)
    PROVE  WholeInv' /\ CopyInv'
  <1> USE DEF StoreInv, EntryInv, WritesWhole
  <1>1. /\ N' = N /\ Slots' = Slots /\ Steady' = Steady /\ Slots = 1..N /\ N \in Nat
        /\ \A p, i : ~ToCome(p, i) /\ ~ToCome(p, i)'
    BY EntryFacts DEF N, Slots, Steady, ToCome
  <1>2. ASSUME NEW p \in Pages, NEW i \in Slots, NEW t \in 1..Span(slot'[p][i]), Eff'[p][i] # "free"
        PROVE  i + t \in Slots /\ Eff'[p][i + t] = Eff'[p][i] /\ slot'[p][i + t].c = "data"
    <2>1. CASE p = P /\ i \in D
      BY <2>1, <1>2
    <2>2. CASE ~(p = P /\ i \in D)
      <3>1. slot'[p][i] = slot[p][i] /\ Eff'[p][i] = est[p][i]
        BY <2>2
      <3>2. i + t \in Slots /\ est[p][i + t] = est[p][i] /\ slot[p][i + t].c = "data"
        <4>1. ~ToCome(p, i + t)
          BY <1>1, Zenon
        <4> QED BY <3>1, <4>1, <1>2 DEF WholeInv
      <3>3. ~(p = P /\ i + t \in D)
        BY <3>1, <3>2, <1>2
      <3> QED BY <3>1, <3>2, <3>3
    <2> QED BY <2>1, <2>2
  <1>3. ASSUME Steady, NEW p \in Pages, NEW i \in Slots, Eff'[p][i] = "used"
        PROVE  \/ slot'[p][i].c = "head"
               \/ /\ slot'[p][i].c = "data"
                  /\ \E h \in 1..(i - 1) : /\ slot'[p][h].c = "head" /\ Eff'[p][h] = "used"
                                           /\ i <= h + Span(slot'[p][h])
    <2>1. CASE p = P /\ i \in D
      BY <2>1, <1>3
    <2>2. CASE ~(p = P /\ i \in D)
      <3>1. slot'[p][i] = slot[p][i] /\ Eff[p][i] = "used" /\ Eff[p] = est[p]
        BY <2>2, <1>3
      <3>2. \/ slot[p][i].c = "head"
            \/ /\ slot[p][i].c = "data"
               /\ \E h \in 1..(i - 1) : /\ slot[p][h].c = "head" /\ Eff[p][h] = "used"
                                        /\ i <= h + Span(slot[p][h])
        BY <3>1, <1>3 DEF WholeInv
      <3>3. ASSUME NEW h \in 1..(i - 1), est[p][h] = "used"
            PROVE  slot'[p][h] = slot[p][h] /\ Eff'[p][h] = "used"
        <4>1. h \in Slots
          BY <1>1
        <4>2. ~(p = P /\ h \in D)
          BY <3>3
        <4> QED BY <3>3, <4>1, <4>2
      <3> QED BY <3>1, <3>2, <3>3
    <2> QED BY <2>1, <2>2
  <1>4. ASSUME ~Steady, NEW p \in Pages, NEW i \in Slots
        PROVE  slot'[p][i].c # "data" /\ Span(slot'[p][i]) = 0
    <2>1. CASE p = P /\ i \in D
      BY <2>1, <1>4
    <2>2. CASE ~(p = P /\ i \in D)
      <3>1. slot'[p][i] = slot[p][i]
        BY <2>2
      <3> QED BY <3>1, <1>4 DEF WholeInv
    <2> QED BY <2>1, <2>2
  <1>5. WholeInv'
    BY <1>1, <1>2, <1>3, <1>4 DEF WholeInv
  <1> QED BY <1>5 DEF CopyInv

\* What a put finds on the page it writes.
LEMMA PutFacts ==
    ASSUME StoreInv, [Next]_vars, pc \in {"header", "data"}, NEW P, P = Last(used)
    PROVE  /\ P \in Pages /\ P \in ToSet(used) /\ P \in Kept /\ P \in Written
           /\ Running /\ ~Moving /\ Eff = est /\ marks.at = <<>>
           /\ N \in Nat \ {0} /\ Slots = 1..N /\ inst \in Instances
           /\ N' = N /\ Slots' = Slots /\ inst' = inst /\ Steady' = Steady
           /\ nxt[P] \in Slots \cup {N + 1} /\ nxt[P] \in Nat
           /\ pc = "header" => nxt[P] \in Slots
           /\ slot \in [Pages -> [Slots -> Cell]] /\ est \in [Pages -> [Slots -> EntryStates]]
           /\ nxt \in [Pages -> 1..(N + 1)] /\ cnt \in [Pages -> 0..N]
           /\ op \in [fn : {"put"}, k : Keys, v : Vals, frag : Nat, len : Nat, rem : Nat]
           /\ \A i \in Slots : est[P][i] = "free" <=> i >= Low(P)
           /\ Steady => \A i \in Slots : i >= nxt[P] => slot[P][i] = Blank
           /\ Cardinality(InUse(P)) \in 0..N /\ IsFiniteSet(InUse(P))
           /\ Cardinality(InUse(P)) + HalfCount(P) <= cnt[P] /\ cnt[P] < nxt[P]
           /\ Steady => cnt[P] = Cardinality(InUse(P)) + HalfCount(P)
  <1> USE DEF StoreInv, EntryInv
  <1>1. Running /\ ~Moving
    BY DEF Running, Moving
  <1>2. P \in ToSet(used) /\ P \in Pages /\ P \in Kept /\ P \in Written
    BY <1>1, ListFacts DEF Kept, PagesInv, ListInv
  <1>3. N \in Nat \ {0} /\ Slots = 1..N /\ inst \in Instances
    BY EntryFacts DEF PagesInv, Types
  <1>4. N' = N /\ Slots' = Slots /\ inst' = inst /\ Steady' = Steady
    BY InstKept DEF Steady
  <1>5. Eff = est /\ marks.at = <<>>
    BY EffIsEst DEF PagesInv, MarkInv
  <1>6. nxt \in [Pages -> 1..(N + 1)] /\ cnt \in [Pages -> 0..N]
    BY DEF FillInv, CountInv
  <1>7. op \in [fn : {"put"}, k : Keys, v : Vals, frag : Nat, len : Nat, rem : Nat]
    <2>1. op.fn = "put" /\ op \in Operation
      BY DEF PagesInv, CallInv, Types
    <2> QED BY <2>1 DEF Operation, NoOp
  <1>8. nxt[P] \in Slots \cup {N + 1} /\ nxt[P] \in Nat
    BY <1>2, <1>3, <1>6
  <1>9. pc = "header" => nxt[P] \in Slots
    <2> HAVE pc = "header"
    <2>1. N + 1 - nxt[P] >= NeedSlots
      BY DEF PagesInv, PutInv, Room
    <2>2. NeedSlots \in Nat /\ NeedSlots >= 1
      <3>1. op.v \in MiddleVals => Entries[op.v] \in Nat
        BY NvdsAssumption
      <3> QED BY <3>1 DEF NeedSlots
    <2> QED BY <2>1, <2>2, <1>3, <1>8
  <1>10. \A i \in Slots : est[P][i] = "free" <=> i >= Low(P)
    BY <1>1, <1>2, <1>5 DEF FillInv
  <1>11. Steady => \A i \in Slots : i >= nxt[P] => slot[P][i] = Blank
    BY <1>1, <1>2 DEF FillInv
  <1>12. Cardinality(InUse(P)) \in 0..N /\ IsFiniteSet(InUse(P))
    BY <1>3, SlotSets
  <1>13. /\ Cardinality(InUse(P)) + HalfCount(P) <= cnt[P] /\ cnt[P] < nxt[P]
         /\ Steady => cnt[P] = Cardinality(InUse(P)) + HalfCount(P)
    BY <1>1, <1>2 DEF CountInv
  <1>14. slot \in [Pages -> [Slots -> Cell]] /\ est \in [Pages -> [Slots -> EntryStates]]
    BY DEF PagesInv, Types
  <1> QED BY <1>1, <1>2, <1>3, <1>4, <1>5, <1>6, <1>7, <1>8, <1>9, <1>10, <1>11, <1>12, <1>13, <1>14

\* A step of a put that fills page P up to entry n and counts c entries on it.
Writes(P, n, c) ==
    /\ \A p \in Pages \ {P} : slot'[p] = slot[p] /\ \A i \in Slots : Eff'[p][i] = est[p][i]
    /\ \A i \in Slots : Eff'[P][i] = "free" <=> i >= (IF pc' = "data" THEN n - 1 ELSE n)
    /\ Steady => \A i \in Slots : i >= n => slot'[P][i] = Blank
    /\ pc' = "data" => /\ n > 1 /\ slot'[P][n - 1].c = "head"
                       /\ Span(slot'[P][n - 1]) = op'.len
    /\ Cardinality(InUse(P)') + (IF pc' = "data" THEN 1 ELSE 0) <= c /\ c < n
    /\ Steady => c = Cardinality(InUse(P)') + (IF pc' = "data" THEN 1 ELSE 0)

LEMMA WriteRest ==
    ASSUME StoreInv, [Next]_vars, pc \in {"header", "data"}, pc' \in {"data", "commit"},
           NEW P, P = Last(used), UNCHANGED <<pst, est, used>>,
           NEW n \in 1..(N + 1), NEW c \in 0..N, Writes(P, n, c),
           nxt' = [nxt EXCEPT ![P] = n], cnt' = [cnt EXCEPT ![P] = c]
    PROVE  FillInv' /\ CountInv' /\ MoveInv'
  <1> USE DEF StoreInv, EntryInv, Writes
  <1>1. /\ P \in Pages /\ P \in ToSet(used) /\ P \in Kept /\ P \in Written
        /\ Running /\ ~Moving /\ Eff = est
        /\ N \in Nat \ {0} /\ Slots = 1..N
        /\ N' = N /\ Slots' = Slots /\ inst' = inst /\ Steady' = Steady
        /\ nxt \in [Pages -> 1..(N + 1)] /\ cnt \in [Pages -> 0..N]
    BY PutFacts
  <1>2. Running' /\ ~Moving' /\ Kept' = Kept /\ Written' = Written /\ Kept \in SUBSET Pages
    BY <1>1, EntryFacts DEF Running, Moving, Kept, Written
  <1>3. /\ nxt'[P] = n /\ cnt'[P] = c
        /\ \A p \in Pages \ {P} : nxt'[p] = nxt[p] /\ cnt'[p] = cnt[p]
        /\ nxt' \in [Pages -> 1..(N + 1)] /\ cnt' \in [Pages -> 0..N]
    BY <1>1
  <1>4. /\ \A p \in Pages \ {P} : Low(p) = nxt[p] /\ Low(p)' = nxt'[p]
        /\ \A p \in Pages \ {P} : HalfCount(p) = 0 /\ HalfCount(p)' = 0
        /\ Low(P)' = (IF pc' = "data" THEN n - 1 ELSE n)
        /\ HalfCount(P)' = (IF pc' = "data" THEN 1 ELSE 0)
    BY <1>3 DEF Low, HalfWritten, HalfCount
  <1>5. FillInv'
    <2>1. \A p \in Pages \ Written' : \A i \in Slots' : slot'[p][i] = Blank /\ est'[p][i] = "free"
      <3> TAKE p \in Pages \ Written'
      <3>1. p \in Pages \ Written /\ p \in Pages \ {P}
        BY <1>1, <1>2
      <3>2. \A i \in Slots : slot[p][i] = Blank /\ est[p][i] = "free"
        BY <3>1 DEF FillInv
      <3> QED BY <3>1, <3>2, <1>1
    <2>2. \A p \in Kept' : \A i \in Slots' : Eff'[p][i] = "free" <=> i >= Low(p)'
      <3> TAKE p \in Kept'
      <3> TAKE i \in Slots'
      <3>1. p \in Kept /\ p \in Pages /\ i \in Slots
        BY <1>1, <1>2
      <3>2. CASE p = P
        BY <3>1, <3>2, <1>4
      <3>3. CASE p # P
        <4>1. Eff[p][i] = "free" <=> i >= Low(p)
          BY <3>1, <1>1 DEF FillInv
        <4>2. Low(p)' = Low(p) /\ Eff'[p][i] = Eff[p][i]
          BY <3>1, <3>3, <1>1, <1>3, <1>4
        <4> QED BY <4>1, <4>2
      <3> QED BY <3>2, <3>3
    <2>3. Steady' => \A p \in Kept' : \A i \in Slots' : i >= nxt'[p] => slot'[p][i] = Blank
      <3> HAVE Steady'
      <3> TAKE p \in Kept'
      <3> TAKE i \in Slots'
      <3>1. p \in Kept /\ p \in Pages /\ i \in Slots
        BY <1>1, <1>2
      <3>2. CASE p = P
        BY <3>1, <3>2, <1>1, <1>3
      <3>3. CASE p # P
        <4>1. i >= nxt[p] => slot[p][i] = Blank
          BY <3>1, <1>1 DEF FillInv
        <4> QED BY <3>1, <3>3, <4>1, <1>3
      <3> QED BY <3>2, <3>3
    <2>4. pc' = "data" => /\ nxt'[Last(used')] > 1
                          /\ slot'[Last(used')][nxt'[Last(used')] - 1].c = "head"
                          /\ Span(slot'[Last(used')][nxt'[Last(used')] - 1]) = op'.len
      <3>1. Last(used') = P /\ nxt'[P] = n
        BY <1>3
      <3> QED BY <3>1
    <2> QED BY <2>1, <2>2, <2>3, <2>4, <1>1, <1>2, <1>3 DEF FillInv
  <1>6. CountInv'
    <2>1. \A p \in Kept : /\ Cardinality(InUse(p)) + HalfCount(p) <= cnt[p] /\ cnt[p] < nxt[p]
                          /\ Steady => cnt[p] = Cardinality(InUse(p)) + HalfCount(p)
      BY <1>1 DEF CountInv
    <2>2. \A p \in Pages \ {P} : InUse(p)' = InUse(p)
      BY <1>1 DEF InUse
    <2>3. \A p \in Kept' : /\ (Cardinality(InUse(p)) + HalfCount(p) <= cnt[p])' /\ cnt'[p] < nxt'[p]
                           /\ Steady' => (cnt[p] = Cardinality(InUse(p)) + HalfCount(p))'
      <3> TAKE p \in Kept'
      <3>1. p \in Kept /\ p \in Pages
        BY <1>1, <1>2
      <3>2. CASE p = P
        BY <3>2, <1>1, <1>3, <1>4
      <3>3. CASE p # P
        BY <3>1, <3>3, <2>1, <2>2, <1>1, <1>3, <1>4
      <3> QED BY <3>2, <3>3
    <2> QED BY <2>3, <1>1, <1>3 DEF CountInv
  <1>7. MoveInv'
    BY <1>2 DEF MoveInv
  <1> QED BY <1>5, <1>6, <1>7


LEMMA WriteHeaderEntries ==
    ASSUME SmallOnly, StoreInv, [Next]_vars, WriteHeader
    PROVE  FillInv' /\ WholeInv' /\ CopyInv' /\ CountInv' /\ MarkInv' /\ MoveInv'
  <1> USE DEF StoreInv, EntryInv
  <1>1. PICK P, n, H : P = Last(used) /\ n = nxt[P] /\ H = NextHeader
    OBVIOUS
  <1>2. /\ pc = "header" /\ EntryWrite(P, H)
        /\ op' = [op EXCEPT !.len = Span(H)]
        /\ UNCHANGED <<pst, seq, est, used, free>>
        /\ Span(H) > 0 => pc' = "data" /\ marks' = marks
        /\ ~(Span(H) > 0) => /\ pc' = "commit"
                             /\ marks' = [at |-> <<<<P, n>>>>, to |-> "used"]
    BY <1>1 DEF WriteHeader
  <1>3. /\ P \in Pages /\ P \in ToSet(used) /\ P \in Kept /\ P \in Written
        /\ Running /\ ~Moving /\ Eff = est /\ marks.at = <<>>
        /\ N \in Nat \ {0} /\ Slots = 1..N /\ inst \in Instances
        /\ N' = N /\ Slots' = Slots /\ inst' = inst /\ Steady' = Steady
        /\ n \in Slots /\ n \in Nat
        /\ slot \in [Pages -> [Slots -> Cell]] /\ est \in [Pages -> [Slots -> EntryStates]]
        /\ nxt \in [Pages -> 1..(N + 1)] /\ cnt \in [Pages -> 0..N]
        /\ op \in [fn : {"put"}, k : Keys, v : Vals, frag : Nat, len : Nat, rem : Nat]
    BY <1>1, <1>2, PutFacts
  <1>3a. \A i \in Slots : est[P][i] = "free" <=> i >= n
    <2>1. \A i \in Slots : est[P][i] = "free" <=> i >= Low(P)
      BY <1>1, <1>2, PutFacts
    <2>2. Low(P) = n
      BY <1>1, <1>2 DEF Low, HalfWritten
    <2> QED BY <2>1, <2>2
  <1>3b. Steady => \A i \in Slots : i >= n => slot[P][i] = Blank
    BY <1>1, <1>2, PutFacts
  <1>4. /\ H \in Cell /\ H.c = "head" /\ Span(H) \in Nat
        /\ op.v \in SmallVals => Span(H) = 0
    <2>1. op.v \in SmallVals => ~Fragment
      BY NvdsAssumption DEF Fragment
    <2> QED BY <2>1, <1>1, <1>2, NextHeaderIs, SpanIs
  <1>5. ~Steady => Span(H) = 0
    BY <1>3, <1>4, SmallPuts
  <1>6. PICK x : x = Program(slot[P][n], H)
    OBVIOUS
  <1>7. /\ x \in Cell /\ Span(x) \in Nat /\ (Steady => x = H)
        /\ ~Steady => x.c # "data" /\ Span(x) = 0
    <2>1. x \in {H, Junk} /\ Junk \in Cell /\ Span(Junk) = 0 /\ Junk.c # "data"
      BY <1>3, <1>4, <1>6, SpanIs DEF Junk
    <2>2. Steady => x = H
      BY <1>3, <1>3b, <1>6 DEF Program
    <2> QED BY <2>1, <2>2, <1>4, <1>5
  <1>8. /\ \A p \in Pages \ {P} : slot'[p] = slot[p]
        /\ \A i \in Slots : slot'[P][i] = IF i = n THEN x ELSE slot[P][i]
    <2>1. slot' = [slot EXCEPT ![P] = [slot[P] EXCEPT ![n] = x]]
      BY <1>1, <1>2, <1>6 DEF EntryWrite
    <2> QED BY <2>1, <1>3
  <1>9. PICK a : a = cnt[P] + 1
    OBVIOUS
  <1>10. /\ nxt' = [nxt EXCEPT ![P] = n + 1] /\ cnt' = [cnt EXCEPT ![P] = a]
    BY <1>1, <1>2, <1>9 DEF EntryWrite
  <1>11. /\ Cardinality(InUse(P)) \in Nat /\ IsFiniteSet(InUse(P))
         /\ Cardinality(InUse(P)) <= cnt[P] /\ cnt[P] < n
         /\ Steady => cnt[P] = Cardinality(InUse(P))
    <2>1. /\ Cardinality(InUse(P)) + HalfCount(P) <= cnt[P] /\ cnt[P] < n
          /\ Steady => cnt[P] = Cardinality(InUse(P)) + HalfCount(P)
          /\ Cardinality(InUse(P)) \in 0..N /\ IsFiniteSet(InUse(P))
      BY <1>1, <1>2, PutFacts
    <2>2. HalfCount(P) = 0
      BY <1>2 DEF HalfCount, HalfWritten
    <2> QED BY <2>1, <2>2, <1>3
  <1>12. a \in 0..N /\ a < n + 1 /\ n + 1 \in 1..(N + 1) /\ n + 1 > 1 /\ n + 1 - 1 = n
    <2>1. n <= N /\ n >= 1 /\ cnt[P] \in 0..N
      BY <1>3
    <2> QED BY <2>1, <1>3, <1>9, <1>11
  <1>13. P = Last(used') /\ ~Moving' /\ nxt'[P] = n + 1
    BY <1>1, <1>2, <1>3, <1>10 DEF Moving
  <1>14. CASE Span(H) > 0
    <2>1. Steady /\ x = H /\ pc' = "data" /\ marks' = marks
      BY <1>2, <1>4, <1>5, <1>7, <1>14
    <2>2. Eff' = Eff
      BY <2>1, <1>2, <1>3, QuietEff
    <2>3. InUse(P)' = InUse(P)
      BY <2>2, <1>3 DEF InUse
    <2>4. WholeInv' /\ CopyInv'
      <3>1. PICK D : D = {n}
        OBVIOUS
      <3>2. D \in SUBSET Slots /\ \A i \in D : est[P][i] = "free"
        BY <3>1, <1>3, <1>3a
      <3>3. \A p \in Pages : \A i \in Slots :
               p # P \/ i \notin D => slot'[p][i] = slot[p][i] /\ Eff'[p][i] = est[p][i]
        BY <3>1, <2>2, <1>3, <1>8
      <3>4. \A i \in D : Eff'[P][i] = "free"
        BY <3>2, <2>2, <1>3
      <3>5. WritesWhole(P, D)
        BY <3>2, <3>3, <3>4, <2>1 DEF WritesWhole
      <3> QED BY <3>2, <3>5, <1>3, <1>13, WriteWhole
    <2>5. FillInv' /\ CountInv' /\ MoveInv'
      <3>1. \A p \in Pages \ {P} : slot'[p] = slot[p] /\ \A i \in Slots : Eff'[p][i] = est[p][i]
        BY <2>2, <1>3, <1>8
      <3>2. \A i \in Slots : Eff'[P][i] = "free" <=> i >= n
        BY <2>2, <1>3, <1>3a
      <3>3. \A i \in Slots : i >= n + 1 => slot'[P][i] = Blank
        <4> TAKE i \in Slots
        <4>1. i \in Nat
          BY <1>3
        <4>2. i >= n + 1 => i >= n /\ i # n
          BY <4>1, <1>3
        <4> QED BY <4>2, <2>1, <1>3b, <1>8
      <3>4. slot'[P][n].c = "head" /\ Span(slot'[P][n]) = op'.len
        <4>1. slot'[P][n] = H /\ op'.len = Span(H)
          BY <2>1, <1>2, <1>3, <1>8
        <4> QED BY <4>1, <1>4
      <3>5. /\ Cardinality(InUse(P)') + (IF pc' = "data" THEN 1 ELSE 0) <= a
            /\ a = Cardinality(InUse(P)') + (IF pc' = "data" THEN 1 ELSE 0)
        <4>1. cnt[P] = Cardinality(InUse(P)') /\ cnt[P] \in Nat
          BY <2>1, <2>3, <1>11
        <4>2. a = Cardinality(InUse(P)') + 1 /\ a \in Nat
          BY <4>1, <1>9
        <4> QED BY <4>2, <2>1
      <3>6. pc' \in {"data", "commit"} /\ n + 1 > 1 /\ n + 1 \in 1..(N + 1) /\ a \in 0..N /\ a < n + 1
        BY <2>1, <1>12
      <3>7. PICK m : m = n + 1
        OBVIOUS
      <3>8. m - 1 = n /\ m > 1 /\ m \in 1..(N + 1) /\ a < m
        BY <3>7, <1>3, <1>12
      <3>9. /\ slot'[P][m - 1].c = "head" /\ Span(slot'[P][m - 1]) = op'.len
            /\ \A i \in Slots : Eff'[P][i] = "free" <=> i >= (IF pc' = "data" THEN m - 1 ELSE m)
            /\ Steady => \A i \in Slots : i >= m => slot'[P][i] = Blank
        <4>1. slot'[P][m - 1].c = "head" /\ Span(slot'[P][m - 1]) = op'.len
          BY <3>4, <3>8
        <4>2. (IF pc' = "data" THEN m - 1 ELSE m) = n
          BY <2>1, <3>8
        <4> QED BY <4>1, <4>2, <3>2, <3>3, <3>7
      <3>11. nxt' = [nxt EXCEPT ![P] = m]
        BY <3>7, <1>10
      <3>10. Writes(P, m, a)
        BY <3>1, <3>5, <3>8, <3>9 DEF Writes
      <3> QED BY <3>6, <3>8, <3>10, <3>11, <1>1, <1>2, <1>10, WriteRest
    <2>6. MarkInv'
      <3>1. ToSet(<<>>) = {} /\ <<>> \in Seq(Pages \X Slots')
        BY DEF ToSet
      <3> QED BY <3>1, <2>1, <1>3 DEF MarkInv
    <2> QED BY <2>4, <2>5, <2>6
  <1>15. CASE ~(Span(H) > 0)
    <2>1. /\ pc' = "commit" /\ marks'.at = <<<<P, n>>>> /\ marks'.to = "used"
          /\ Span(H) = 0 /\ Span(x) = 0
      <3>1. Span(H) = 0
        BY <1>4, <1>15
      <3> QED BY <3>1, <1>2, <1>7, <1>15
    <2>2. Pending' = {<<P, n>>} /\ Goal' = "used"
      <3>1. ToSet(<<<<P, n>>>>) = {<<P, n>>}
        BY DEF ToSet
      <3> QED BY <3>1, <2>1 DEF Pending, Goal
    <2>3. /\ \A p \in Pages \ {P} : \A i \in Slots : Eff'[p][i] = est[p][i]
          /\ \A i \in Slots : Eff'[P][i] = IF i = n THEN "used" ELSE est[P][i]
      <3>1. \A p \in Pages : \A i \in Slots :
               Eff'[p][i] = IF <<p, i>> \in {<<P, n>>} THEN "used" ELSE est[p][i]
        BY <2>2, <1>2, <1>3 DEF Eff
      <3> QED BY <3>1, <1>3
    <2>4. WholeInv' /\ CopyInv'
      <3>1. PICK D : D = {n}
        OBVIOUS
      <3>2. D \in SUBSET Slots /\ \A i \in D : est[P][i] = "free"
        BY <3>1, <1>3, <1>3a
      <3>3. \A p \in Pages : \A i \in Slots :
               p # P \/ i \notin D => slot'[p][i] = slot[p][i] /\ Eff'[p][i] = est[p][i]
        <4> TAKE p \in Pages
        <4> TAKE i \in Slots
        <4>1. CASE p # P
          BY <4>1, <2>3, <1>8
        <4>2. CASE p = P /\ i # n
          BY <4>2, <2>3, <1>8
        <4> QED BY <4>1, <4>2, <3>1
      <3>4. \A i \in D : slot'[P][i] = x
        BY <3>1, <1>3, <1>8
      <3>5. \A i \in D : 1..Span(slot'[P][i]) = {}
        BY <3>4, <2>1
      <3>6. Steady => \A i \in D : slot'[P][i].c = "head"
        BY <3>4, <1>4, <1>7
      <3>7. ~Steady => \A i \in D : slot'[P][i].c # "data" /\ Span(slot'[P][i]) = 0
        BY <3>4, <1>7
      <3>8. WritesWhole(P, D)
        BY <3>2, <3>3, <3>5, <3>6, <3>7 DEF WritesWhole
      <3> QED BY <3>2, <3>8, <1>3, <1>13, WriteWhole
    <2>5. FillInv' /\ CountInv' /\ MoveInv'
      <3>1. \A p \in Pages \ {P} : slot'[p] = slot[p] /\ \A i \in Slots : Eff'[p][i] = est[p][i]
        BY <2>3, <1>8
      <3>2. \A i \in Slots : Eff'[P][i] = "free" <=> i >= (IF pc' = "data" THEN n + 1 - 1 ELSE n + 1)
        <4> TAKE i \in Slots
        <4>1. i \in Nat /\ pc' # "data"
          BY <2>1, <1>3
        <4>2. i >= n + 1 <=> i >= n /\ i # n
          BY <4>1, <1>3
        <4> QED BY <4>1, <4>2, <2>3, <1>3a
      <3>3. Steady => \A i \in Slots : i >= n + 1 => slot'[P][i] = Blank
        <4> HAVE Steady
        <4> TAKE i \in Slots
        <4>1. i \in Nat
          BY <1>3
        <4>2. i >= n + 1 => i >= n /\ i # n
          BY <4>1, <1>3
        <4> QED BY <4>2, <1>3b, <1>8
      <3>4. Cardinality(InUse(P)') = Cardinality(InUse(P)) + 1
        <4>1. InUse(P)' = InUse(P) \cup {n} /\ n \notin InUse(P)
          <5>1. InUse(P)' = {i \in Slots : Eff'[P][i] = "used"} /\ InUse(P) = {i \in Slots : est[P][i] = "used"}
            BY <1>3 DEF InUse
          <5>2. est[P][n] = "free"
            BY <1>3, <1>3a
          <5> QED BY <5>1, <5>2, <2>3, <1>3
        <4> QED BY <4>1, <1>11, FS_AddElement
      <3>5. /\ Cardinality(InUse(P)') + (IF pc' = "data" THEN 1 ELSE 0) <= a
            /\ Steady => a = Cardinality(InUse(P)') + (IF pc' = "data" THEN 1 ELSE 0)
        <4>1. PICK u, z : u = Cardinality(InUse(P)) /\ z = cnt[P]
          OBVIOUS
        <4>2. u \in Nat /\ z \in Nat /\ a = z + 1 /\ u <= z /\ (Steady => z = u)
          BY <4>1, <1>3, <1>9, <1>11
        <4>3. u + 1 + 0 <= a /\ (Steady => a = u + 1 + 0)
          BY <4>2
        <4> QED BY <4>1, <4>3, <3>4, <2>1
      <3>6. pc' \in {"data", "commit"} /\ pc' # "data" /\ n + 1 \in 1..(N + 1) /\ a \in 0..N /\ a < n + 1
        BY <2>1, <1>12
      <3>7. Writes(P, n + 1, a)
        BY <3>1, <3>2, <3>3, <3>5, <3>6 DEF Writes
      <3> QED BY <3>6, <3>7, <1>1, <1>2, <1>10, WriteRest
    <2>6. MarkInv'
      <3>1. /\ marks'.at \in Seq(Pages \X Slots') /\ marks'.at # <<>>
            /\ ToSet(marks'.at) = {<<P, n>>}
        BY <2>1, <1>3 DEF ToSet
      <3>2. \A y \in ToSet(marks'.at) : y[1] \in ToSet(used')
        BY <3>1, <1>2, <1>3
      <3>3. nxt'[Last(used')] - 1 = n /\ Last(used') = P
        <4>1. PICK z : z = nxt'[Last(used')]
          OBVIOUS
        <4>2. z = n + 1
          BY <4>1, <1>13
        <4> QED BY <4>1, <4>2, <1>3, <1>13
      <3> QED BY <3>1, <3>2, <3>3, <2>1 DEF MarkInv
    <2> QED BY <2>4, <2>5, <2>6
  <1> QED BY <1>14, <1>15

\* The data of an element follow its header, on entries that are erased.
LEMMA WriteDataEntries ==
    ASSUME SmallOnly, StoreInv, [Next]_vars, WriteData
    PROVE  FillInv' /\ WholeInv' /\ CopyInv' /\ CountInv' /\ MarkInv' /\ MoveInv'
  <1> USE DEF StoreInv, EntryInv
  <1>1. PICK P, n, L, g, b : P = Last(used) /\ n = nxt[P] /\ L = op.len
                             /\ g = Entries[op.v] - op.rem /\ b = cnt[P]
    OBVIOUS
  <1>2. /\ pc = "data" /\ pc' = "commit"
        /\ slot' = [slot EXCEPT ![P] = [i \in Slots |->
              IF i \in n..(n + L - 1)
              THEN Program(slot[P][i], Data(op.v, g + i - n + 1)) ELSE slot[P][i]]]
        /\ nxt' = [nxt EXCEPT ![P] = @ + L] /\ cnt' = [cnt EXCEPT ![P] = @ + L]
        /\ marks' = [at |-> [j \in 1..(L + 1) |-> <<P, n + j - 2>>], to |-> "used"]
        /\ UNCHANGED <<pst, seq, est, used, free, op, req, inst>>
    <2>1. /\ pc = "data" /\ pc' = "commit"
          /\ UNCHANGED <<pst, seq, est, used, free, op, req, inst>>
      BY DEF WriteData
    <2>2. nxt' = [nxt EXCEPT ![P] = @ + L] /\ cnt' = [cnt EXCEPT ![P] = @ + L]
      BY <1>1 DEF WriteData
    <2>3. slot' = [slot EXCEPT ![P] = [i \in Slots |->
              IF i \in n..(n + L - 1)
              THEN Program(@[i], Data(op.v, g + i - n + 1)) ELSE @[i]]]
      BY <1>1 DEF WriteData
    <2>4. marks' = [at |-> [j \in 1..(L + 1) |-> <<P, n + j - 2>>], to |-> "used"]
      BY <1>1 DEF WriteData
    <2> QED BY <2>1, <2>2, <2>3, <2>4
  <1>3. /\ P \in Pages /\ P \in ToSet(used) /\ P \in Kept /\ P \in Written
        /\ Running /\ ~Moving /\ Eff = est /\ marks.at = <<>>
        /\ N \in Nat \ {0} /\ Slots = 1..N /\ inst \in Instances
        /\ N' = N /\ Slots' = Slots /\ inst' = inst /\ Steady' = Steady
        /\ n \in Nat
        /\ slot \in [Pages -> [Slots -> Cell]] /\ est \in [Pages -> [Slots -> EntryStates]]
        /\ nxt \in [Pages -> 1..(N + 1)] /\ cnt \in [Pages -> 0..N]
        /\ op \in [fn : {"put"}, k : Keys, v : Vals, frag : Nat, len : Nat, rem : Nat]
    BY <1>1, <1>2, PutFacts
  <1>4. Steady /\ L \in Nat /\ L >= 1 /\ L <= N + 1 - n
    <2>1. op.v \notin SmallVals /\ op.len \in 1..op.rem /\ op.len <= Room(P)
      BY <1>1, <1>2 DEF PagesInv, PutInv
    <2>2. op.fn = "put"
      BY <1>3
    <2>3. Steady
      BY <2>1, <2>2, SmallPuts
    <2>4. Room(P) = N + 1 - n
      BY <1>1 DEF Room
    <2> QED BY <2>1, <2>3, <2>4, <1>1, <1>3
  <1>5. PICK m : m = n - 1
    OBVIOUS
  <1>6. /\ m \in Slots /\ m \in Nat /\ n = m + 1
        /\ slot[P][m].c = "head" /\ Span(slot[P][m]) = L
    <2>1. n > 1 /\ slot[P][n - 1].c = "head" /\ Span(slot[P][n - 1]) = L
      BY <1>1, <1>2 DEF FillInv
    <2>2. n - 1 \in 1..N /\ n = n - 1 + 1
      <3>1. n \in 1..(N + 1)
        BY <1>1, <1>3
      <3> QED BY <3>1, <2>1, <1>3
    <2> QED BY <2>1, <2>2, <1>3, <1>5
  <1>7. PICK z : z = n + L
    OBVIOUS
  <1>8. /\ z \in 1..(N + 1) /\ z \in Nat /\ z > n /\ n + L - 1 = z - 1 /\ z = m + 1 + L
        /\ z - 1 = m + L
    BY <1>3, <1>4, <1>6, <1>7
  <1>9. \A i \in Slots : est[P][i] = "free" <=> i >= m
    <2>1. \A i \in Slots : est[P][i] = "free" <=> i >= Low(P)
      BY <1>1, <1>2, PutFacts
    <2>2. Low(P) = m
      BY <1>1, <1>2, <1>5 DEF Low, HalfWritten
    <2> QED BY <2>1, <2>2
  <1>10. \A i \in Slots : i >= n => slot[P][i] = Blank
    BY <1>1, <1>2, <1>4, PutFacts
  <1>11. PICK D : D = m .. (z - 1)
    OBVIOUS
  <1>12. /\ \A i \in Int : i \in D <=> m <= i /\ i < z
         /\ D \in SUBSET Slots /\ m \in D /\ D \in SUBSET Nat
    BY <1>3, <1>6, <1>8, <1>11
  <1>13. /\ \A p \in Pages \ {P} : slot'[p] = slot[p]
         /\ \A i \in Slots : ~(n <= i /\ i < z) => slot'[P][i] = slot[P][i]
         /\ \A i \in Slots : n <= i /\ i < z => slot'[P][i].c = "data" /\ Span(slot'[P][i]) = 0
    <2>1. \A i \in Slots : i \in Int /\ (i \in n..(n + L - 1) <=> n <= i /\ i < z)
      BY <1>3, <1>8
    <2>2. /\ \A p \in Pages \ {P} : slot'[p] = slot[p]
          /\ slot'[P] = [i \in Slots |->
              IF i \in n..(n + L - 1)
              THEN Program(slot[P][i], Data(op.v, g + i - n + 1)) ELSE slot[P][i]]
      BY <1>2, <1>3
    <2>3. ASSUME NEW i \in Slots, n <= i, i < z
          PROVE  slot'[P][i].c = "data" /\ Span(slot'[P][i]) = 0
      <3>1. slot'[P][i] = Program(slot[P][i], Data(op.v, g + i - n + 1))
        BY <2>1, <2>2, <2>3
      <3>2. i >= n
        BY <2>1, <2>3, <1>3
      <3>3. slot[P][i] = Blank
        BY <3>2, <1>10
      <3>4. slot'[P][i] = Data(op.v, g + i - n + 1)
        BY <3>1, <3>3 DEF Program
      <3>5. PICK y : y = g + i - n + 1
        OBVIOUS
      <3> QED BY <3>4, <3>5 DEF Data, Span
    <2> QED BY <2>1, <2>2, <2>3
  <1>14. Pending' = {P} \X D /\ Goal' = "used" /\ marks'.to = "used"
         /\ marks'.at \in Seq(Pages \X Slots) /\ marks'.at # <<>>
    <2>1. PICK M : M = marks'.at
      OBVIOUS
    <2>2. PICK k : k = L + 1
      OBVIOUS
    <2>3. M = [j \in 1..k |-> <<P, n + j - 2>>] /\ marks'.to = "used"
      BY <1>2, <2>1, <2>2
    <2>4. \A j \in 1..k : n + j - 2 \in D
      BY <1>3, <1>4, <1>6, <1>8, <1>12, <2>2
    <2>5. \A i \in D : \E j \in 1..k : n + j - 2 = i
      <3> TAKE i \in D
      <3>1. i \in Nat /\ m <= i /\ i < z
        BY <1>12
      <3>2. i - m + 1 \in 1..k /\ n + (i - m + 1) - 2 = i
        BY <3>1, <1>3, <1>4, <1>6, <1>8, <2>2
      <3> QED BY <3>2
    <2>6. k \in Nat /\ k >= 1
      BY <1>4, <2>2
    <2>7. M \in [1..k -> Pages \X Slots]
      BY <2>3, <2>4, <1>3, <1>12
    <2>8. M \in Seq(Pages \X Slots) /\ Len(M) = k
      BY <2>6, <2>7, ListOf
    <2>9. M # <<>>
      BY <2>6, <2>8
    <2>10. ToSet(M) = {P} \X D
      <3>1. DOMAIN M = 1..k
        BY <2>3
      <3>2. ToSet(M) = {M[j] : j \in 1..k}
        BY <3>1 DEF ToSet
      <3>3. \A j \in 1..k : M[j] = <<P, n + j - 2>>
        BY <2>3
      <3>4. ASSUME NEW y \in {P} \X D PROVE y \in ToSet(M)
        <4>1. PICK i \in D : y = <<P, i>>
          OBVIOUS
        <4>2. PICK j \in 1..k : n + j - 2 = i
          BY <2>5
        <4>3. y = M[j]
          BY <4>1, <4>2, <3>3
        <4> QED BY <4>3, <3>2
      <3>5. ASSUME NEW y \in ToSet(M) PROVE y \in {P} \X D
        <4>1. PICK j \in 1..k : y = M[j]
          BY <3>2
        <4> QED BY <4>1, <3>3, <2>4
      <3> QED BY <3>4, <3>5
    <2>11. Pending' = ToSet(marks'.at) /\ Goal' = marks'.to
      BY <1>2 DEF Pending, Goal
    <2> QED BY <2>1, <2>3, <2>8, <2>9, <2>10, <2>11
  <1>15. /\ \A p \in Pages \ {P} : \A i \in Slots : Eff'[p][i] = est[p][i]
         /\ \A i \in Slots : Eff'[P][i] = IF i \in D THEN "used" ELSE est[P][i]
    <2>1. \A p \in Pages : \A i \in Slots :
             Eff'[p][i] = IF <<p, i>> \in {P} \X D THEN "used" ELSE est[p][i]
      BY <1>2, <1>3, <1>14 DEF Eff
    <2> QED BY <2>1, <1>3
  <1>16. P = Last(used') /\ ~Moving'
    BY <1>1, <1>2, <1>3 DEF Moving
  <1>17. WholeInv' /\ CopyInv'
    <2>1. \A i \in D : est[P][i] = "free"
      <3> TAKE i \in D
      <3>1. i \in Slots /\ i \in Nat /\ m <= i
        BY <1>12
      <3> QED BY <3>1, <1>9, <1>6
    <2>2. \A p \in Pages : \A i \in Slots :
             p # P \/ i \notin D => slot'[p][i] = slot[p][i] /\ Eff'[p][i] = est[p][i]
      <3> TAKE p \in Pages
      <3> TAKE i \in Slots
      <3>1. CASE p # P
        BY <3>1, <1>13, <1>15
      <3>2. CASE p = P /\ i \notin D
        <4>1. ~(n <= i /\ i < z)
          BY <3>2, <1>3, <1>6, <1>12
        <4> QED BY <3>2, <4>1, <1>13, <1>15
      <3> QED BY <3>1, <3>2
    <2>3. slot'[P][m] = slot[P][m] /\ slot'[P][m].c = "head" /\ Span(slot'[P][m]) = L
      <3>1. ~(n <= m)
        BY <1>6
      <3> QED BY <3>1, <1>6, <1>13
    <2>4. \A i \in D : i = m \/ (slot'[P][i].c = "data" /\ Span(slot'[P][i]) = 0)
      <3> TAKE i \in D
      <3>1. i \in Slots /\ i \in Nat /\ m <= i /\ i < z
        BY <1>12
      <3>2. i = m \/ n <= i
        BY <3>1, <1>6
      <3>3. n <= i => slot'[P][i].c = "data" /\ Span(slot'[P][i]) = 0
        BY <3>1, <1>13
      <3> QED BY <3>2, <3>3, Zenon
    <2>5. \A i \in D : \A t \in 1..Span(slot'[P][i]) : Eff'[P][i] # "free" =>
             i + t \in Slots /\ Eff'[P][i + t] = Eff'[P][i] /\ slot'[P][i + t].c = "data"
      <3> TAKE i \in D
      <3> TAKE t \in 1..Span(slot'[P][i])
      <3>1. i = m /\ t \in 1..L
        BY <2>3, <2>4
      <3>2. m + t \in D /\ m + t # m
        BY <3>1, <1>4, <1>6, <1>8, <1>12
      <3> QED BY <3>1, <3>2, <2>4, <1>12, <1>15
    <2>6. \A i \in D : Eff'[P][i] = "used" =>
             \/ slot'[P][i].c = "head"
             \/ /\ slot'[P][i].c = "data"
                /\ \E h \in 1..(i - 1) : /\ slot'[P][h].c = "head" /\ Eff'[P][h] = "used"
                                         /\ i <= h + Span(slot'[P][h])
      <3> TAKE i \in D
      <3>1. CASE i = m
        BY <3>1, <2>3
      <3>2. CASE i # m
        <4>1. i \in Nat /\ m <= i /\ i < z
          BY <1>12
        <4>2. m \in 1..(i - 1) /\ i <= m + L
          BY <4>1, <3>2, <1>3, <1>4, <1>6, <1>8
        <4>3. Eff'[P][m] = "used"
          BY <1>6, <1>12, <1>15
        <4> QED BY <4>2, <4>3, <3>2, <2>3, <2>4
      <3> QED BY <3>1, <3>2
    <2>7. WritesWhole(P, D)
      BY <2>1, <2>2, <2>5, <2>6, <1>4 DEF WritesWhole
    <2> QED BY <2>7, <1>3, <1>12, <1>16, WriteWhole
  <1>18. FillInv' /\ CountInv' /\ MoveInv'
    <2>1. \A p \in Pages \ {P} : slot'[p] = slot[p] /\ \A i \in Slots : Eff'[p][i] = est[p][i]
      BY <1>13, <1>15
    <2>2. \A i \in Slots : Eff'[P][i] = "free" <=> i >= z
      <3> TAKE i \in Slots
      <3>1. i \in Nat
        BY <1>3
      <3>2. CASE i \in D
        <4>1. ~(i >= z)
          BY <3>1, <3>2, <1>8, <1>12
        <4> QED BY <3>2, <4>1, <1>15
      <3>3. CASE i \notin D
        <4>1. i >= m <=> i >= z
          BY <3>1, <3>3, <1>6, <1>8, <1>12
        <4> QED BY <3>3, <4>1, <1>9, <1>15
      <3> QED BY <3>2, <3>3
    <2>3. \A i \in Slots : i >= z => slot'[P][i] = Blank
      <3> TAKE i \in Slots
      <3> HAVE i >= z
      <3>1. i \in Nat
        BY <1>3
      <3>2. i >= n /\ ~(i < z)
        BY <3>1, <1>3, <1>8
      <3> QED BY <3>2, <1>10, <1>13
    <2>4. PICK u, w : u = Cardinality(InUse(P)) /\ w = Cardinality(InUse(P)')
      OBVIOUS
    <2>5. u \in Nat /\ b \in Nat /\ b = u + 1 /\ b < n /\ IsFiniteSet(InUse(P))
      <3>1. /\ Cardinality(InUse(P)) \in 0..N /\ IsFiniteSet(InUse(P)) /\ b < n
            /\ b = Cardinality(InUse(P)) + HalfCount(P)
        BY <1>1, <1>2, <1>4, PutFacts
      <3>2. HalfCount(P) = 1
        BY <1>1, <1>2 DEF HalfCount, HalfWritten
      <3> QED BY <3>1, <3>2, <2>4, <1>3
    <2>6. w = u + (L + 1)
      <3>1. InUse(P)' = InUse(P) \cup D /\ InUse(P) \cap D = {}
        <4>1. InUse(P)' = {i \in Slots : Eff'[P][i] = "used"} /\ InUse(P) = {i \in Slots : est[P][i] = "used"}
          BY <1>3 DEF InUse
        <4>2. \A i \in D : est[P][i] = "free"
          <5> TAKE i \in D
          <5>1. i \in Slots /\ i \in Nat /\ m <= i
            BY <1>12
          <5> QED BY <5>1, <1>9, <1>6
        <4> QED BY <4>1, <4>2, <1>12, <1>15
      <3>2. IsFiniteSet(D) /\ Cardinality(D) = L + 1
        <4>1. m \in Int /\ z - 1 \in Int
          BY <1>6, <1>8
        <4>2. IsFiniteSet(D) /\ Cardinality(D) = IF m > z - 1 THEN 0 ELSE (z - 1) - m + 1
          BY <4>1, <1>11, FS_Interval
        <4>3. ~(m > z - 1) /\ (z - 1) - m + 1 = L + 1
          BY <1>4, <1>6, <1>8
        <4> QED BY <4>2, <4>3
      <3>3. Cardinality(InUse(P) \cap D) = 0
        BY <3>1, FS_EmptySet
      <3>4. Cardinality(InUse(P) \cup D) = Cardinality(InUse(P)) + Cardinality(D) - Cardinality(InUse(P) \cap D)
        BY <2>5, <3>2, FS_Union
      <3>5. w = u + (L + 1) - 0
        BY <3>1, <3>2, <3>3, <3>4, <2>4
      <3> QED BY <3>5, <2>5, <1>4
    <2>7. PICK a : a = b + L
      OBVIOUS
    <2>8. w + 0 <= a /\ a = w + 0 /\ a < z /\ a \in 0..N
      <3>1. a = w /\ a < z /\ a \in Nat /\ w \in Nat
        BY <2>5, <2>6, <2>7, <1>3, <1>4, <1>7
      <3> QED BY <3>1, <1>3, <1>8
    <2>9. nxt' = [nxt EXCEPT ![P] = z] /\ cnt' = [cnt EXCEPT ![P] = a]
      BY <1>1, <1>2, <1>3, <1>7, <2>7
    <2>10. pc' # "data" /\ pc' \in {"data", "commit"}
      BY <1>2
    <2>11. Writes(P, z, a)
      <3>1. \A i \in Slots : Eff'[P][i] = "free" <=> i >= (IF pc' = "data" THEN z - 1 ELSE z)
        BY <2>2, <2>10
      <3>2. /\ Cardinality(InUse(P)') + (IF pc' = "data" THEN 1 ELSE 0) <= a
            /\ a = Cardinality(InUse(P)') + (IF pc' = "data" THEN 1 ELSE 0)
        BY <2>4, <2>8, <2>10
      <3> QED BY <3>1, <3>2, <2>1, <2>3, <2>8, <2>10 DEF Writes
    <2>12. pc \in {"header", "data"} /\ P = Last(used) /\ UNCHANGED <<pst, est, used>>
           /\ z \in 1..(N + 1) /\ a \in 0..N
      BY <2>8, <1>1, <1>2, <1>8
    <2> QED BY <2>9, <2>10, <2>11, <2>12, WriteRest
  <1>19. MarkInv'
    <2>1. ToSet(marks'.at) = {P} \X D
      BY <1>2, <1>14 DEF Pending
    <2>2. \A y \in ToSet(marks'.at) : y[1] \in ToSet(used')
      BY <2>1, <1>2, <1>3
    <2> QED BY <2>2, <1>2, <1>3, <1>4, <1>14 DEF MarkInv
  <1> QED BY <1>17, <1>18, <1>19

-----------------------------------------------------------------------------
(* The flash while the RAM knows nothing of it                             *)

FlashFill ==
    /\ \A p \in Pages \ Written : \A i \in Slots : slot[p][i] = Blank /\ est[p][i] = "free"
    /\ \A p \in Pages : \A i, j \in Slots : i < j /\ est[p][i] = "free" => est[p][j] = "free"
    /\ Steady => \A p \in Pages : \A i \in Slots : est[p][i] = "free" => slot[p][i] = Blank
FlashWhole ==
    /\ \A p \in Pages : \A i \in Slots : \A t \in 1..Span(slot[p][i]) :
          est[p][i] # "free" =>
             i + t \in Slots /\ est[p][i + t] = est[p][i] /\ slot[p][i + t].c = "data"
    /\ Steady => \A p \in Pages : \A i \in Slots : est[p][i] = "used" =>
          \/ slot[p][i].c = "head"
          \/ /\ slot[p][i].c = "data"
             /\ \E h \in 1..(i - 1) : /\ slot[p][h].c = "head" /\ est[p][h] = "used"
                                      /\ i <= h + Span(slot[p][h])
    /\ ~Steady => \A p \in Pages : \A i \in Slots : slot[p][i].c # "data" /\ Span(slot[p][i]) = 0

\* Between calls the flash is all there is to know.
LEMMA QuietFlash ==
    ASSUME StoreInv, pc \in {"idle", "off", "clean", "room", "request", "again"}
    PROVE  FlashFill /\ FlashWhole
  <1> USE DEF StoreInv, EntryInv
  <1>1. Eff = est /\ ~Moving
    BY EffIsEst DEF PagesInv, Moving
  <1>2. \A p, i : ~ToCome(p, i)
    BY <1>1 DEF ToCome
  <1>3. FlashWhole
    <2>1. WholeInv
      OBVIOUS
    <2> QED BY <2>1, <1>1, <1>2 DEF WholeInv, FlashWhole
  <1>4. /\ N \in Nat /\ Slots = 1..N /\ \A p \in Pages : nxt[p] \in 1..(N + 1)
    BY EntryFacts
  <1>5. CASE Running
    <2>1. Written = Kept
      BY <1>5 DEF PagesInv, ListInv
    <2>2. \A p \in Pages \ Written : \A i \in Slots : slot[p][i] = Blank /\ est[p][i] = "free"
      BY DEF FillInv
    <2>3. \A p \in Kept : Low(p) = nxt[p]
      BY DEF Low, HalfWritten
    <2>4. \A p \in Kept : \A i \in Slots : est[p][i] = "free" <=> i >= nxt[p]
      BY <1>1, <1>5, <2>3 DEF FillInv
    <2>5. \A p \in Kept : p \in Pages
      BY EntryFacts
    <2>6. ASSUME NEW p \in Pages, NEW i \in Slots, NEW j \in Slots, i < j, est[p][i] = "free"
          PROVE  est[p][j] = "free"
      <3>1. CASE p \in Kept
        <4>1. i >= nxt[p]
          BY <2>4, <2>6, <3>1
        <4>2. j >= nxt[p]
          BY <4>1, <2>6, <1>4
        <4> QED BY <4>2, <2>4, <3>1
      <3>2. CASE p \notin Kept
        BY <3>2, <2>1, <2>2
      <3> QED BY <3>1, <3>2
    <2>7. ASSUME Steady, NEW p \in Pages, NEW i \in Slots, est[p][i] = "free"
          PROVE  slot[p][i] = Blank
      <3>1. CASE p \in Kept
        <4>1. i >= nxt[p]
          BY <2>4, <2>7, <3>1
        <4> QED BY <4>1, <2>7, <3>1, <1>5 DEF FillInv
      <3>2. CASE p \notin Kept
        BY <3>2, <2>1, <2>2
      <3> QED BY <3>1, <3>2
    <2> QED BY <2>2, <2>6, <2>7, <1>3 DEF FlashFill
  <1>6. CASE ~Running
    BY <1>3, <1>6 DEF FillInv, FlashFill
  <1> QED BY <1>5, <1>6

\* And the flash is all that a loss of the RAM leaves.
LEMMA DownEntries ==
    ASSUME [Next]_vars, pc' \in {"off", "clean"}, marks'.at = <<>>, Types',
           nxt' \in [Pages -> 1..(N + 1)], cnt' \in [Pages -> 0..N],
           FlashFill', FlashWhole'
    PROVE  FillInv' /\ WholeInv' /\ CopyInv' /\ CountInv' /\ MarkInv' /\ MoveInv'
  <1>1. ~Running' /\ ~Moving' /\ N' = N
    BY InstKept DEF Running, Moving
  <1>2. MarkInv'
    <2>1. ToSet(<<>>) = {} /\ <<>> \in Seq(Pages \X Slots')
      BY DEF ToSet
    <2> QED BY <2>1 DEF MarkInv
  <1>3. Eff' = est'
    <2>1. (MarkInv /\ Types /\ pc \notin {"delete", "commit", "undo", "copied"} => Eff = est)'
      BY EffIsEst, PTL
    <2> QED BY <2>1, <1>2
  <1>4. \A p, i : ~ToCome(p, i)'
    BY <1>1 DEF ToCome
  <1>5. WholeInv'
    BY <1>3, <1>4 DEF WholeInv, FlashWhole
  <1>6. FillInv'
    BY <1>1 DEF FillInv, FlashFill
  <1>7. CopyInv' /\ CountInv'
    BY <1>1 DEF CopyInv, CountInv
  <1>8. MoveInv'
    BY <1>1 DEF MoveInv
  <1> QED BY <1>2, <1>5, <1>6, <1>7, <1>8

LEMMA RebootEntries ==
    ASSUME StoreInv, [Next]_vars, Reboot \/ CleanStart
    PROVE  FillInv' /\ WholeInv' /\ CopyInv' /\ CountInv' /\ MarkInv' /\ MoveInv'
  <1> USE DEF StoreInv
  <1>1. pc = "idle" /\ pc' \in {"off", "clean"} /\ UNCHANGED <<pst, seq, slot, est, inst>>
    BY DEF Reboot, CleanStart, Starts, LoseRam, flash
  <1>2. marks'.at = <<>>
    <2>1. marks.at = <<>>
      BY <1>1 DEF EntryInv, MarkInv
    <2> QED BY <2>1 DEF Reboot, LoseRam, CleanStart, NoMarks
  <1>3. N \in Nat \ {0} /\ nxt \in [Pages -> 1..(N + 1)] /\ cnt \in [Pages -> 0..N]
    BY ListFacts DEF EntryInv, FillInv, CountInv
  <1>4. nxt' \in [Pages -> 1..(N + 1)] /\ cnt' \in [Pages -> 0..N]
    <2>1. CASE Reboot
      BY <2>1, <1>3 DEF Reboot, LoseRam
    <2>2. CASE CleanStart
      BY <2>2, <1>3 DEF CleanStart, ram
    <2> QED BY <2>1, <2>2
  <1>5. Types'
    BY PagesStep DEF PagesInv
  <1>6. FlashFill' /\ FlashWhole'
    <2>1. FlashFill /\ FlashWhole
      BY <1>1, QuietFlash
    <2>2. N' = N /\ Slots' = Slots /\ Steady' = Steady /\ Written' = Written
      BY <1>1, InstKept DEF Steady, Written
    <2>3. FlashFill'
      BY <2>1, <2>2, <1>1 DEF FlashFill
    <2>4. FlashWhole'
      BY <2>1, <2>2, <1>1 DEF FlashWhole
    <2> QED BY <2>3, <2>4
  <1> QED BY <1>1, <1>2, <1>4, <1>5, <1>6, DownEntries

\* An erased page holds nothing.
LEMMA ErasedFlash ==
    ASSUME Types, FlashFill, FlashWhole, inst' = inst, NEW p \in Pages,
           NEW st \in {"blank", "error"}, Erased(p, st)
    PROVE  FlashFill' /\ FlashWhole'
  <1>1. N' = N /\ Slots' = Slots /\ Steady' = Steady /\ N \in Nat /\ Slots = 1..N
    BY SlotsAre DEF N, Slots, Steady, Types
  <1>2. /\ \A i \in Slots : slot'[p][i] = Blank /\ est'[p][i] = "free"
        /\ \A q \in Pages \ {p} : slot'[q] = slot[q] /\ est'[q] = est[q] /\ pst'[q] = pst[q]
        /\ pst'[p] = st
    BY DEF Erased, Types
  <1>3. \A i \in Slots : Span(slot'[p][i]) = 0 /\ slot'[p][i].c = "blank"
    BY <1>2 DEF Blank, Span
  <1>4. Written' = Written \ {p}
    BY <1>2 DEF Written
  <1>5. FlashFill'
    <2>1. \A q \in Pages \ Written' : \A i \in Slots' : slot'[q][i] = Blank /\ est'[q][i] = "free"
      BY <1>1, <1>2, <1>4 DEF FlashFill
    <2>2. \A q \in Pages : \A i, j \in Slots' : i < j /\ est'[q][i] = "free" => est'[q][j] = "free"
      <3> TAKE q \in Pages
      <3> TAKE i, j \in Slots'
      <3>1. CASE q = p
        BY <3>1, <1>1, <1>2
      <3>2. CASE q # p
        BY <3>2, <1>1, <1>2 DEF FlashFill
      <3> QED BY <3>1, <3>2
    <2>3. Steady' => \A q \in Pages : \A i \in Slots' : est'[q][i] = "free" => slot'[q][i] = Blank
      <3> HAVE Steady'
      <3> TAKE q \in Pages
      <3> TAKE i \in Slots'
      <3>1. CASE q = p
        BY <3>1, <1>1, <1>2
      <3>2. CASE q # p
        BY <3>2, <1>1, <1>2 DEF FlashFill
      <3> QED BY <3>1, <3>2
    <2> QED BY <2>1, <2>2, <2>3 DEF FlashFill
  <1>6. FlashWhole'
    <2>1. \A q \in Pages : \A i \in Slots' : \A t \in 1..Span(slot'[q][i]) :
             est'[q][i] # "free" =>
               i + t \in Slots' /\ est'[q][i + t] = est'[q][i] /\ slot'[q][i + t].c = "data"
      <3> TAKE q \in Pages
      <3> TAKE i \in Slots'
      <3> TAKE t \in 1..Span(slot'[q][i])
      <3>1. CASE q = p
        BY <3>1, <1>1, <1>2
      <3>2. CASE q # p
        BY <3>2, <1>1, <1>2 DEF FlashWhole
      <3> QED BY <3>1, <3>2
    <2>2. Steady' => \A q \in Pages : \A i \in Slots' : est'[q][i] = "used" =>
             \/ slot'[q][i].c = "head"
             \/ /\ slot'[q][i].c = "data"
                /\ \E h \in 1..(i - 1) : /\ slot'[q][h].c = "head" /\ est'[q][h] = "used"
                                         /\ i <= h + Span(slot'[q][h])
      <3> HAVE Steady'
      <3> TAKE q \in Pages
      <3> TAKE i \in Slots'
      <3>1. CASE q = p
        BY <3>1, <1>1, <1>2
      <3>2. CASE q # p
        <4>1. slot'[q] = slot[q] /\ est'[q] = est[q]
          BY <3>2, <1>2
        <4> QED BY <4>1, <1>1 DEF FlashWhole
      <3> QED BY <3>1, <3>2
    <2>3. ~Steady' => \A q \in Pages : \A i \in Slots' : slot'[q][i].c # "data" /\ Span(slot'[q][i]) = 0
      <3> HAVE ~Steady'
      <3> TAKE q \in Pages
      <3> TAKE i \in Slots'
      <3>1. CASE q = p
        BY <3>1, <1>1, <1>3
      <3>2. CASE q # p
        BY <3>2, <1>1, <1>2 DEF FlashWhole
      <3> QED BY <3>1, <3>2
    <2> QED BY <2>1, <2>2, <2>3 DEF FlashWhole
  <1> QED BY <1>5, <1>6

LEMMA CleanSectorEntries ==
    ASSUME StoreInv, [Next]_vars, CleanSector
    PROVE  FillInv' /\ WholeInv' /\ CopyInv' /\ CountInv' /\ MarkInv' /\ MoveInv'
  <1> USE DEF StoreInv
  <1>1. pc = "clean" /\ Erased(req.page, "blank") /\ pc' \in {"off", "clean"}
        /\ marks' = marks /\ inst' = inst
    BY DEF CleanSector
  <1>2. marks'.at = <<>>
    BY <1>1 DEF EntryInv, MarkInv
  <1>3. N \in Nat \ {0} /\ nxt \in [Pages -> 1..(N + 1)] /\ cnt \in [Pages -> 0..N]
    BY ListFacts DEF EntryInv, FillInv, CountInv
  <1>4. nxt' \in [Pages -> 1..(N + 1)] /\ cnt' \in [Pages -> 0..N]
    BY <1>3 DEF CleanSector, ram
  <1>5. Types'
    BY PagesStep DEF PagesInv
  <1>6. req.page \in Pages
    BY <1>1 DEF PagesInv, ReqInv
  <1>7. FlashFill' /\ FlashWhole'
    <2>1. FlashFill /\ FlashWhole
      BY <1>1, QuietFlash
    <2> QED BY <2>1, <1>1, <1>6, ErasedFlash DEF PagesInv
  <1> QED BY <1>1, <1>2, <1>4, <1>5, <1>7, DownEntries

\* Where the power may be cut at any moment the flash is always in order: at most
\* the last entry written does not have its state yet.
LEMMA CutFlash ==
    ASSUME StoreInv, ~Steady
    PROVE  FlashFill /\ FlashWhole
  <1> USE DEF StoreInv, EntryInv
  <1>1. /\ N \in Nat /\ Slots = 1..N /\ \A p \in Pages : nxt[p] \in 1..(N + 1)
        /\ ToSet(used) \in SUBSET Kept /\ Kept \in SUBSET Pages
    BY EntryFacts
  <1>2. FlashWhole
    <2>1. \A p \in Pages : \A i \in Slots : slot[p][i].c # "data" /\ Span(slot[p][i]) = 0
      BY DEF WholeInv
    <2>2. \A p \in Pages : \A i \in Slots : 1..Span(slot[p][i]) = {}
      BY <2>1
    <2> QED BY <2>1, <2>2 DEF FlashWhole
  <1>3. CASE ~Running
    BY <1>2, <1>3 DEF FillInv, FlashFill
  <1>4. CASE Running
    <2>1. Written = Kept
      BY <1>4 DEF PagesInv, ListInv
    <2>2. \A p \in Pages \ Written : \A i \in Slots : slot[p][i] = Blank /\ est[p][i] = "free"
      BY DEF FillInv
    <2>3. \A p \in Kept : \A i \in Slots : Eff[p][i] = "free" <=> i >= Low(p)
      BY <1>4 DEF FillInv
    <2>4. ASSUME NEW p \in Kept
          PROVE  \E m \in Nat :
                    /\ \A i \in Slots : i < m => est[p][i] # "free"
                    /\ \A i \in Slots : i > m => est[p][i] = "free"
      <3>1. Low(p) \in {nxt[p], nxt[p] - 1} /\ nxt[p] \in 1..(N + 1)
        BY <1>1 DEF Low
      <3>2. PICK w : w = Low(p)
        OBVIOUS
      <3>3. w \in Nat /\ p \in Pages
        BY <3>1, <3>2, <1>1
      <3>4. \A i \in Slots : i \in Nat /\ (Eff[p][i] = "free" <=> i >= w)
        BY <2>3, <3>2, <1>1
      <3>5. CASE pc \in {"commit", "copied"}
        <4>1. PICK q \in Kept : Pending = {<<q, nxt[q] - 1>>} /\ Goal = "used"
          <5>1. CASE pc = "copied"
            <6>1. req.page \in Kept
              BY <5>1, <1>1, ListFacts DEF Moving
            <6> QED BY <6>1, <5>1 DEF Pending, Goal
          <5>2. CASE pc = "commit"
            <6>1. marks.at = <<<<Last(used), nxt[Last(used)] - 1>>>> /\ marks.to = "used"
              BY <5>2 DEF MarkInv
            <6>2. used # <<>>
              BY <5>2, ListFacts DEF Running
            <6>3. Last(used) \in Kept
              BY <6>2, <1>1, ListFacts
            <6>4. Pending = {<<Last(used), nxt[Last(used)] - 1>>} /\ Goal = "used"
              BY <6>1, <5>2 DEF Pending, Goal, ToSet
            <6> QED BY <6>3, <6>4
          <5> QED BY <5>1, <5>2, <3>5
        <4>2. PICK v : v = nxt[p] - 1
          OBVIOUS
        <4>3. w = v + 1 /\ v \in Nat
          <5>1. w = nxt[p]
            BY <3>2, <3>5 DEF Low, HalfWritten
          <5> QED BY <5>1, <4>2, <3>1, <1>1
        <4>4. \A i \in Slots : i # v => Eff[p][i] = est[p][i]
          <5> TAKE i \in Slots
          <5> HAVE i # v
          <5>1. <<p, i>> \notin Pending
            BY <4>1, <4>2
          <5> QED BY <5>1, <3>3, EffValue
        <4>5. \A i \in Slots : (i < v => est[p][i] # "free") /\ (i > v => est[p][i] = "free")
          <5> TAKE i \in Slots
          <5>1. i \in Nat /\ (Eff[p][i] = "free" <=> i >= w)
            BY <3>4
          <5>2. (i < v => i # v /\ ~(i >= w)) /\ (i > v => i # v /\ i >= w)
            BY <5>1, <4>3
          <5> QED BY <5>1, <5>2, <4>4
        <4> QED BY <4>3, <4>5
      <3>6. CASE pc \notin {"commit", "copied"}
        <4>1. \A i \in Slots : est[p][i] = "free" <=> Eff[p][i] = "free"
          <5> TAKE i \in Slots
          <5>1. CASE <<p, i>> \in Pending
            <6>1. pc \in {"delete", "undo"}
              BY <5>1, <3>6 DEF Pending, ToSet, MarkInv
            <6>2. marks.to = "updated" /\ Pending = ToSet(marks.at) /\ Goal = "updated"
              BY <6>1 DEF MarkInv, Pending, Goal
            <6>3. \A x \in ToSet(marks.at) : est[x[1]][x[2]] # "free"
              BY <6>2 DEF MarkInv
            <6>4. est[p][i] # "free"
              BY <6>2, <6>3, <5>1
            <6> QED BY <6>2, <6>4, <5>1, <3>3, EffValue
          <5>2. CASE <<p, i>> \notin Pending
            BY <5>2, <3>3, EffValue
          <5> QED BY <5>1, <5>2
        <4>2. \A i \in Slots : (i < w => est[p][i] # "free") /\ (i > w => est[p][i] = "free")
          <5> TAKE i \in Slots
          <5>1. i \in Nat /\ (Eff[p][i] = "free" <=> i >= w)
            BY <3>4
          <5>2. (i < w => ~(i >= w)) /\ (i > w => i >= w)
            BY <5>1, <3>3
          <5> QED BY <5>1, <5>2, <4>1
        <4> QED BY <3>3, <4>2
      <3> QED BY <3>5, <3>6
    <2>5. ASSUME NEW p \in Pages, NEW i \in Slots, NEW j \in Slots, i < j, est[p][i] = "free"
          PROVE  est[p][j] = "free"
      <3>1. CASE p \in Kept
        <4>1. PICK m \in Nat : /\ \A k \in Slots : k < m => est[p][k] # "free"
                               /\ \A k \in Slots : k > m => est[p][k] = "free"
          BY <3>1, <2>4
        <4>2. ~(i < m)
          BY <4>1, <2>5
        <4>3. j > m
          BY <4>1, <4>2, <2>5, <1>1
        <4> QED BY <4>1, <4>3
      <3>2. CASE p \notin Kept
        BY <3>2, <2>1, <2>2
      <3> QED BY <3>1, <3>2
    <2> QED BY <2>2, <2>5 , <1>2 DEF FlashFill
  <1> QED BY <1>3, <1>4

LEMMA PowerCutEntries ==
    ASSUME StoreInv, [Next]_vars, PowerCut
    PROVE  FillInv' /\ WholeInv' /\ CopyInv' /\ CountInv' /\ MarkInv' /\ MoveInv'
  <1> USE DEF StoreInv
  <1>1. ~Steady /\ LoseRam /\ inst' = inst
    BY DEF PowerCut, Steady
  <1>2. pc' \in {"off", "clean"} /\ marks'.at = <<>>
    BY <1>1 DEF LoseRam, NoMarks
  <1>3. N \in Nat \ {0}
    BY ListFacts
  <1>4. nxt' \in [Pages -> 1..(N + 1)] /\ cnt' \in [Pages -> 0..N]
    BY <1>1, <1>3 DEF LoseRam
  <1>5. Types'
    BY PagesStep DEF PagesInv
  <1>6. FlashFill' /\ FlashWhole'
    <2>1. FlashFill /\ FlashWhole
      BY <1>1, CutFlash
    <2>2. CASE UNCHANGED flash
      <3>1. N' = N /\ Slots' = Slots /\ Steady' = Steady /\ Written' = Written
            /\ slot' = slot /\ est' = est
        BY <1>1, <2>2, InstKept DEF Steady, Written, flash
      <3>2. FlashFill'
        BY <2>1, <3>1 DEF FlashFill
      <3>3. FlashWhole'
        BY <2>1, <3>1 DEF FlashWhole
      <3> QED BY <3>2, <3>3
    <2>3. CASE \E p \in InWork : Erased(p, "error")
      <3>1. PICK p \in InWork : Erased(p, "error")
        BY <2>3
      <3>2. p \in Pages
        <4>1. pc = "page" => req.page \in Pages
          BY ListFacts DEF PagesInv, ReqInv
        <4>2. pc = "clean" => req.page \in Pages
          BY DEF PagesInv, ReqInv
        <4>3. pc = "copy" => req.vic \in Pages
          BY ListFacts DEF Moving
        <4> QED BY <4>1, <4>2, <4>3 DEF InWork
      <3> QED BY <2>1, <3>1, <3>2, <1>1, ErasedFlash DEF PagesInv
    <2> QED BY <2>2, <2>3 DEF PowerCut
  <1> QED BY <1>2, <1>4, <1>5, <1>6, DownEntries

LEMMA EntryStutter ==
    ASSUME StoreInv, UNCHANGED vars
    PROVE  EntryInv'
  <1> USE DEF StoreInv, EntryInv, vars, flash, ram
  <1>1. /\ N' = N /\ Slots' = Slots /\ Steady' = Steady /\ Running' = Running /\ Moving' = Moving
        /\ Kept' = Kept /\ Written' = Written
    BY DEF N, Slots, Steady, Running, Moving, Kept, Written
  <1>2. Pending' = Pending /\ Goal' = Goal
    BY DEF Pending, Goal
  <1>3. Eff' = Eff
    BY <1>1, <1>2 DEF Eff
  <1>4. MarkInv'
    BY <1>1 DEF MarkInv
  <1>5. FillInv'
    BY <1>1, <1>3 DEF FillInv, Low, HalfWritten
  <1>6. WholeInv'
    BY <1>1, <1>3 DEF WholeInv, ToCome
  <1>7. CopyInv'
    BY <1>1, <1>3 DEF CopyInv
  <1>8. CountInv'
    BY <1>1, <1>3 DEF CountInv, InUse, HalfCount, HalfWritten
  <1>9. MoveInv'
    BY <1>1 DEF MoveInv, ToCopy
  <1> QED BY <1>4, <1>5, <1>6, <1>7, <1>8, <1>9

LEMMA EntryInit == Init => EntryInv
  <1> SUFFICES ASSUME Init PROVE EntryInv
    OBVIOUS
  <1>1. N \in Nat \ {0} /\ Slots = 1..N
    BY SlotsAre DEF Init
  <1>2. /\ \A p \in Pages : \A i \in Slots :
              slot[p][i] = Blank /\ est[p][i] = "free" /\ Span(slot[p][i]) = 0
              /\ slot[p][i].c = "blank"
        /\ pc = "off" /\ marks.at = <<>>
    BY DEF Init, Blank, Span, NoMarks
  <1>3. ~Running /\ ~Moving
    BY <1>2 DEF Running, Moving
  <1>4. MarkInv
    <2>1. ToSet(<<>>) = {} /\ <<>> \in Seq(Pages \X Slots)
      BY DEF ToSet
    <2> QED BY <2>1, <1>2 DEF MarkInv
  <1>5. Eff = est
    BY <1>2, <1>4, PagesInit, EffIsEst DEF PagesInv
  <1>6. FillInv
    BY <1>1, <1>2, <1>3 DEF FillInv, Init
  <1>7. WholeInv
    BY <1>2, <1>5 DEF WholeInv
  <1>8. CopyInv /\ CountInv /\ MoveInv
    BY <1>1, <1>2, <1>3 DEF CopyInv, CountInv, MoveInv, Init
  <1> QED BY <1>4, <1>6, <1>7, <1>8 DEF EntryInv

-----------------------------------------------------------------------------
(* The walk over a page                                                    *)

\* The entries up to m that no earlier entry spans.
Stops(span, m) == {i \in Slots : i <= m /\ \A h \in 1..(i - 1) : h + span[h] < i}
\* What an entry before m spans are entries before m that span nothing.
Spanning(span, m) ==
    \A j \in Slots : \A t \in 1..span[j] : j < m => j + t < m /\ span[j + t] = 0

\* Every entry before m is spanned by one of them, if only by itself.
LEMMA StopBefore ==
    ASSUME inst \in Instances, NEW span \in [Slots -> Nat], NEW m \in 1..(N + 1),
           Spanning(span, m), NEW j \in Slots, j < m
    PROVE  \E h \in Stops(span, m) : h <= j /\ j <= h + span[h] /\ (h = j \/ span[h] > 0)
  <1>1. N \in Nat \ {0} /\ Slots = 1..N
    BY SlotsAre
  <1>2. PICK S : S = {h \in 1..j : j <= h + span[h]}
    OBVIOUS
  <1>3. S \in SUBSET Nat /\ j \in S
    BY <1>1, <1>2
  <1>4. PICK h \in S : \A k \in S : h <= k
    BY <1>3, Least
  <1>5. h \in Slots /\ h <= j /\ j <= h + span[h] /\ span[h] \in Nat /\ j \in Nat /\ h \in Nat
    BY <1>1, <1>2
  <1>6. ASSUME NEW g \in 1..(h - 1) PROVE g + span[g] < h
    <2>1. g \in Slots /\ g \in 1..j /\ g < h /\ g < m /\ span[g] \in Nat
      BY <1>1, <1>5
    <2>2. g \notin S
      BY <2>1, <1>4, <1>5
    <2>3. g + span[g] < j
      BY <2>1, <2>2, <1>2, <1>5
    <2>4. ASSUME g + span[g] >= h PROVE FALSE
      <3>1. h - g \in 1..span[g] /\ g + (h - g) = h
        BY <2>1, <2>4, <1>5
      <3>2. span[h] = 0
        BY <2>1, <3>1 DEF Spanning
      <3> QED BY <3>2, <2>1, <2>3, <2>4, <1>5
    <2> QED BY <2>1, <2>4, <1>5
  <1>7. h \in Stops(span, m)
    BY <1>1, <1>5, <1>6 DEF Stops
  <1>8. h = j \/ span[h] > 0
    BY <1>5
  <1> QED BY <1>5, <1>7, <1>8

LEMMA WalkIs ==
    ASSUME inst \in Instances, NEW p, NEW span \in [Slots -> Nat], NEW m \in 1..(N + 1),
           \A i \in Slots : est[p][i] = "free" <=> i >= m, Spanning(span, m)
    PROVE  Walk(p, span) = Stops(span, m)
  <1>1. N \in Nat \ {0} /\ Slots = 1..N
    BY SlotsAre
  <1>2. PICK W : W = Stops(span, m)
    OBVIOUS
  <1>3. \A i : i \in W <=> i \in Slots /\ i <= m /\ \A h \in 1..(i - 1) : h + span[h] < i
    BY <1>2 DEF Stops
  <1>4. ASSUME NEW i \in Slots
        PROVE  i \in W <=> \/ i = 1
                           \/ \E j \in 1..(i - 1) :
                                 j \in W /\ est[p][j] # "free" /\ i = j + 1 + span[j]
    <2>1. ASSUME i = 1 PROVE i \in W
      <3>1. 1 <= m /\ 1..(i - 1) = {}
        BY <2>1, <1>1
      <3> QED BY <3>1, <2>1, <1>3
    <2>2. ASSUME NEW j \in 1..(i - 1), j \in W, est[p][j] # "free", i = j + 1 + span[j]
          PROVE  i \in W
      <3>1. j \in Slots /\ j \in Nat /\ span[j] \in Nat /\ j < m /\ i \in Nat
        BY <2>2, <1>1
      <3>2. i <= m
        <4>1. CASE span[j] = 0
          BY <4>1, <3>1, <2>2
        <4>2. CASE span[j] # 0
          <5>1. span[j] \in 1..span[j]
            BY <4>2, <3>1
          <5>2. j + span[j] < m
            BY <5>1, <3>1 DEF Spanning
          <5> QED BY <5>2, <3>1, <2>2
        <4> QED BY <4>1, <4>2
      <3>3. ASSUME NEW h \in 1..(i - 1) PROVE h + span[h] < i
        <4>1. h \in Slots /\ h \in Nat /\ span[h] \in Nat /\ h < i
          BY <1>1
        <4>2. CASE h < j
          <5>1. h \in 1..(j - 1)
            BY <4>1, <4>2, <3>1
          <5>2. h + span[h] < j
            BY <5>1, <2>2, <1>3
          <5> QED BY <5>2, <4>1, <3>1, <2>2
        <4>3. CASE h = j
          BY <4>1, <4>3, <3>1, <2>2
        <4>4. CASE h > j
          <5>1. h - j \in 1..span[j] /\ j + (h - j) = h
            BY <4>1, <4>4, <3>1, <2>2
          <5>2. span[h] = 0
            BY <5>1, <3>1 DEF Spanning
          <5> QED BY <5>2, <4>1
        <4> QED BY <4>1, <4>2, <4>3, <4>4, <3>1
      <3> QED BY <3>2, <3>3, <1>3
    <2>3. ASSUME i \in W, i # 1
          PROVE  \E j \in 1..(i - 1) : j \in W /\ est[p][j] # "free" /\ i = j + 1 + span[j]
      <3>1. i \in Nat /\ i <= m /\ i > 1
        BY <2>3, <1>1, <1>3
      <3>2. PICK k : k = i - 1
        OBVIOUS
      <3>3. k \in Slots /\ k < m /\ k + 1 = i /\ k \in Nat
        BY <3>1, <3>2, <1>1
      <3>4. PICK h \in W : h <= k /\ k <= h + span[h]
        BY <3>3, <1>2, StopBefore
      <3>5. h \in Slots /\ h \in Nat /\ span[h] \in Nat
        BY <1>1, <1>3
      <3>6. h \in 1..(i - 1)
        BY <3>3, <3>4, <3>5, <1>1
      <3>7. h + span[h] < i
        BY <3>6, <2>3, <1>3
      <3>8. i = h + 1 + span[h] /\ ~(h >= m)
        BY <3>3, <3>4, <3>5, <3>7
      <3> QED BY <3>5, <3>6, <3>8
    <2> QED BY <2>1, <2>2, <2>3
  <1> DEFINE F(v) == [i \in Slots |-> \/ i = 1
                                       \/ \E j \in 1..(i - 1) :
                                            v[j] /\ est[p][j] # "free" /\ i = j + 1 + span[j]]
             w == [i \in Slots |-> i \in W]
             v == CHOOSE u : u = F(u)
  <1>5. w = F(w)
    <2>1. ASSUME NEW i \in Slots
          PROVE  (i \in W) = (\/ i = 1
                              \/ \E j \in 1..(i - 1) :
                                    w[j] /\ est[p][j] # "free" /\ i = j + 1 + span[j])
      <3>1. \A j \in 1..(i - 1) : j \in Slots /\ w[j] = (j \in W)
        BY <1>1
      <3>2. (\E j \in 1..(i - 1) : w[j] /\ est[p][j] # "free" /\ i = j + 1 + span[j])
            <=> (\E j \in 1..(i - 1) : j \in W /\ est[p][j] # "free" /\ i = j + 1 + span[j])
        BY <3>1
      <3>3. i \in W <=> \/ i = 1
                        \/ \E j \in 1..(i - 1) :
                             w[j] /\ est[p][j] # "free" /\ i = j + 1 + span[j]
        BY <3>2, <1>4, Zenon
      <3>4. CASE i \in W
        <4>1. (i \in W) = TRUE
          BY <3>4
        <4>2. (\/ i = 1
               \/ \E j \in 1..(i - 1) :
                     w[j] /\ est[p][j] # "free" /\ i = j + 1 + span[j]) = TRUE
          BY <3>3, <3>4, Zenon
        <4> QED BY <4>1, <4>2, Zenon
      <3>5. CASE i \notin W
        <4>1. (i \in W) = FALSE
          BY <3>5
        <4>2. (\/ i = 1
               \/ \E j \in 1..(i - 1) :
                     w[j] /\ est[p][j] # "free" /\ i = j + 1 + span[j]) = FALSE
          BY <3>3, <3>5, Zenon
        <4> QED BY <4>1, <4>2, Zenon
      <3> QED BY <3>4, <3>5, Zenon
    <2> QED BY <2>1, Zenon
  <1>6. v = F(v)
    BY <1>5, Zenon
  <1>7. Walk(p, span) = {i \in Slots : v[i]}
    BY Zenon DEF Walk
  <1> HIDE DEF w, v
  <1>8. \A i \in Slots : v[i] <=> \/ i = 1
                                  \/ \E j \in 1..(i - 1) :
                                       v[j] /\ est[p][j] # "free" /\ i = j + 1 + span[j]
    <2> TAKE i \in Slots
    <2>1. v[i] = (\/ i = 1
                  \/ \E j \in 1..(i - 1) :
                        v[j] /\ est[p][j] # "free" /\ i = j + 1 + span[j])
      BY <1>6, Zenon
    <2> QED BY <2>1
  <1>9. PICK B : B = {i \in Slots : ~(v[i] <=> i \in W)}
    OBVIOUS
  <1>10. B = {}
    <2>1. SUFFICES ASSUME B # {} PROVE FALSE
      OBVIOUS
    <2>2. B \in SUBSET Nat
      BY <1>1, <1>9
    <2>3. PICK i \in B : \A k \in B : i <= k
      BY <2>1, <2>2, Least
    <2>4. i \in Slots /\ ~(v[i] <=> i \in W) /\ i \in Nat
      BY <2>2, <1>9
    <2>5. \A j \in 1..(i - 1) : v[j] <=> j \in W
      <3> TAKE j \in 1..(i - 1)
      <3>1. j \in Slots /\ ~(i <= j)
        BY <2>4, <1>1
      <3> QED BY <3>1, <2>3, <1>9
    <2>6. (\E j \in 1..(i - 1) : v[j] /\ est[p][j] # "free" /\ i = j + 1 + span[j])
          <=> (\E j \in 1..(i - 1) : j \in W /\ est[p][j] # "free" /\ i = j + 1 + span[j])
      BY <2>5, Zenon
    <2>7. v[i] <=> \/ i = 1
                   \/ \E j \in 1..(i - 1) :
                         v[j] /\ est[p][j] # "free" /\ i = j + 1 + span[j]
      BY <2>4, <1>8, Zenon
    <2>8. i \in W <=> \/ i = 1
                      \/ \E j \in 1..(i - 1) :
                            j \in W /\ est[p][j] # "free" /\ i = j + 1 + span[j]
      BY <2>4, <1>4, Zenon
    <2> QED BY <2>4, <2>6, <2>7, <2>8, Zenon
  <1>11. {i \in Slots : v[i]} = W
    <2>1. W \in SUBSET Slots
      BY <1>3
    <2>2. \A i \in Slots : v[i] <=> i \in W
      BY <1>9, <1>10
    <2> QED BY <2>1, <2>2
  <1> QED BY <1>2, <1>7, <1>11

\* What a boot makes of a page.
LEMMA BootPage ==
    ASSUME Types, FlashFill, FlashWhole, NEW p \in Pages
    PROVE  /\ LoadNext(p) \in 1..(N + 1)
           /\ \A i \in Slots : est[p][i] = "free" <=> i >= LoadNext(p)
           /\ LoadCount(p) = Cardinality({i \in Slots : est[p][i] = "used"})
           /\ Steady => \A i \in LoadUsedSlots(p) : slot[p][i].c = "head"
  <1>1. /\ N \in Nat \ {0} /\ Slots = 1..N /\ inst \in Instances
        /\ \A i \in Slots : Span(slot[p][i]) \in Nat /\ (slot[p][i].c = "data" => Span(slot[p][i]) = 0)
    BY SlotsAre, SpanIs DEF Types
  <1>2. PICK m : m \in 1..(N + 1) /\ \A i \in Slots : est[p][i] = "free" <=> i >= m
    <2>1. PICK S : S = {i \in Slots : est[p][i] = "free"}
      OBVIOUS
    <2>2. CASE S = {}
      <3>1. \A i \in Slots : ~(i >= N + 1) /\ est[p][i] # "free"
        BY <2>1, <2>2, <1>1
      <3>2. N + 1 \in 1..(N + 1)
        BY <1>1
      <3> QED BY <3>1, <3>2
    <2>3. CASE S # {}
      <3>1. S \in SUBSET Nat
        BY <2>1, <1>1
      <3>2. PICK k \in S : \A i \in S : k <= i
        BY <2>3, <3>1, Least
      <3>3. k \in Slots /\ est[p][k] = "free"
        BY <2>1
      <3>4. \A i \in Slots : i > k => est[p][i] = "free"
        <4> TAKE i \in Slots
        <4> HAVE i > k
        <4>1. k < i
          BY <3>3, <1>1
        <4> QED BY <4>1, <3>3 DEF FlashFill
      <3>5. \A i \in Slots : est[p][i] = "free" <=> i >= k
        <4> TAKE i \in Slots
        <4>1. est[p][i] = "free" => k <= i
          BY <2>1, <3>2
        <4>2. i \in Nat /\ k \in Nat
          BY <3>3, <1>1
        <4> QED BY <4>1, <4>2, <3>3, <3>4
      <3>6. k \in 1..(N + 1)
        BY <3>3, <1>1
      <3> QED BY <3>5, <3>6
    <2> QED BY <2>2, <2>3
  <1>3. PICK sp : sp = [i \in Slots |-> IF est[p][i] = "used" THEN Span(slot[p][i]) ELSE 0]
    OBVIOUS
  <1>4. sp \in [Slots -> Nat]
    BY <1>1, <1>3
  <1>5. Spanning(sp, m)
    <2> SUFFICES ASSUME NEW j \in Slots, NEW t \in 1..sp[j], j < m
                 PROVE  j + t < m /\ sp[j + t] = 0
      BY DEF Spanning
    <2>1. est[p][j] = "used" /\ sp[j] = Span(slot[p][j])
      <3>1. sp[j] = IF est[p][j] = "used" THEN Span(slot[p][j]) ELSE 0
        BY <1>3
      <3>2. sp[j] # 0
        OBVIOUS
      <3> QED BY <3>1, <3>2
    <2>2. j + t \in Slots /\ est[p][j + t] = "used" /\ slot[p][j + t].c = "data"
      BY <2>1 DEF FlashWhole
    <2>3. ~(j + t >= m)
      BY <2>2, <1>2
    <2>4. Span(slot[p][j + t]) = 0
      BY <2>2, <1>1
    <2>5. PICK k : k = j + t
      OBVIOUS
    <2>6. sp[k] = 0
      BY <2>2, <2>4, <2>5, <1>3
    <2>7. k \in Nat /\ m \in Nat
      BY <2>2, <2>5, <1>1, <1>2
    <2> QED BY <2>3, <2>5, <2>6, <2>7
  <1>6. LoadWalk(p) = Stops(sp, m)
    <2>1. LoadWalk(p) = Walk(p, sp)
      BY <1>3 DEF LoadWalk
    <2> QED BY <2>1, <1>1, <1>2, <1>4, <1>5, WalkIs
  <1>7. LoadNext(p) = m
    <2>1. \A i \in LoadWalk(p) : est[p][i] = "free" => i = m
      <3> TAKE i \in LoadWalk(p)
      <3>1. i \in Slots /\ i <= m
        BY <1>6 DEF Stops
      <3>2. est[p][i] = "free" => i >= m
        BY <3>1, <1>2
      <3> QED BY <3>1, <3>2, <1>1, <1>2
    <2>2. CASE m \in Slots
      <3>1. est[p][m] = "free"
        BY <2>2, <1>1, <1>2
      <3>2. ASSUME NEW h \in 1..(m - 1) PROVE h + sp[h] < m
        <4>1. h \in Slots /\ h < m /\ sp[h] \in Nat /\ h \in Nat /\ m \in Nat
          BY <1>1, <1>2, <1>4
        <4>2. CASE sp[h] = 0
          BY <4>1, <4>2
        <4>3. CASE sp[h] # 0
          <5>1. sp[h] \in 1..sp[h]
            BY <4>1, <4>3
          <5> QED BY <5>1, <4>1, <1>5 DEF Spanning
        <4> QED BY <4>2, <4>3
      <3>3. m \in LoadWalk(p)
        BY <2>2, <3>2, <1>1, <1>6 DEF Stops
      <3>4. (CHOOSE i \in LoadWalk(p) : est[p][i] = "free") = m
        BY <2>1, <3>1, <3>3
      <3> QED BY <3>1, <3>3, <3>4 DEF LoadNext
    <2>3. CASE m \notin Slots
      <3>1. m = N + 1
        BY <2>3, <1>1, <1>2
      <3>2. LoadWalk(p) \in SUBSET Slots
        BY <1>6 DEF Stops
      <3>3. ~\E i \in LoadWalk(p) : est[p][i] = "free"
        BY <2>1, <2>3, <3>2
      <3> QED BY <3>1, <3>3 DEF LoadNext
    <2> QED BY <2>2, <2>3
  <1>8. LoadUsedSlots(p) = {i \in Stops(sp, m) : est[p][i] = "used"}
    BY <1>6 DEF LoadUsedSlots
  <1>9. \A i \in LoadUsedSlots(p) : i \in Slots /\ est[p][i] = "used" /\ sp[i] = Span(slot[p][i])
    BY <1>3, <1>8 DEF Stops
  <1>10. UNION {i .. (i + Span(slot[p][i])) : i \in LoadUsedSlots(p)}
         = {i \in Slots : est[p][i] = "used"}
    <2> DEFINE X == UNION {i .. (i + Span(slot[p][i])) : i \in LoadUsedSlots(p)}
               Y == {i \in Slots : est[p][i] = "used"}
    <2>1. ASSUME NEW j \in X PROVE j \in Y
      <3>1. PICK i \in LoadUsedSlots(p) : j \in i .. (i + Span(slot[p][i]))
        OBVIOUS
      <3>2. PICK s : s = Span(slot[p][i])
        OBVIOUS
      <3>3. i \in Slots /\ est[p][i] = "used" /\ s \in Nat /\ j \in i .. (i + s) /\ i \in Int
        BY <3>1, <3>2, <1>1, <1>9
      <3>4. CASE j = i
        BY <3>3, <3>4
      <3>5. CASE j # i
        <4>1. j - i \in 1..s /\ i + (j - i) = j
          BY <3>3, <3>5
        <4>2. PICK t : t = j - i
          OBVIOUS
        <4>3. t \in 1..Span(slot[p][i]) /\ i + t = j
          BY <4>1, <4>2, <3>2
        <4>4. i + t \in Slots /\ est[p][i + t] = est[p][i]
          BY <4>3, <3>3 DEF FlashWhole
        <4> QED BY <4>3, <4>4, <3>3
      <3> QED BY <3>4, <3>5
    <2>2. ASSUME NEW j \in Y PROVE j \in X
      <3>1. j \in Slots /\ est[p][j] = "used" /\ j \in Nat
        BY <1>1
      <3>2. j < m
        BY <3>1, <1>2
      <3>3. PICK h \in Stops(sp, m) : h <= j /\ j <= h + sp[h] /\ (h = j \/ sp[h] > 0)
        BY <3>1, <3>2, <1>1, <1>2, <1>4, <1>5, StopBefore
      <3>4. h \in Slots /\ h \in Int
        BY <1>1 DEF Stops
      <3>5. est[p][h] = "used"
        <4>1. sp[h] = IF est[p][h] = "used" THEN Span(slot[p][h]) ELSE 0
          BY <3>4, <1>3
        <4> QED BY <4>1, <3>1, <3>3
      <3>6. h \in LoadUsedSlots(p) /\ sp[h] = Span(slot[p][h])
        BY <3>5, <1>8, <1>9
      <3>7. j \in h .. (h + Span(slot[p][h]))
        BY <3>1, <3>3, <3>4, <3>6, <1>4
      <3> QED BY <3>6, <3>7
    <2> QED BY <2>1, <2>2
  <1>11. LoadCount(p) = Cardinality({i \in Slots : est[p][i] = "used"})
    BY <1>10 DEF LoadCount
  <1>12. ASSUME Steady, NEW i \in LoadUsedSlots(p) PROVE slot[p][i].c = "head"
    <2>1. i \in Slots /\ est[p][i] = "used" /\ i \in Stops(sp, m)
      BY <1>8, <1>9
    <2>2. SUFFICES ASSUME slot[p][i].c # "head" PROVE FALSE
      OBVIOUS
    <2>3. PICK h \in 1..(i - 1) : slot[p][h].c = "head" /\ est[p][h] = "used"
                                  /\ i <= h + Span(slot[p][h])
      BY <2>1, <2>2, <1>12 DEF FlashWhole
    <2>4. h + sp[h] < i
      BY <2>1, <2>3 DEF Stops
    <2>5. h \in Slots /\ sp[h] = Span(slot[p][h]) /\ sp[h] \in Nat /\ h \in Int /\ i \in Int
      BY <2>1, <2>3, <1>1, <1>3, <1>4
    <2> QED BY <2>3, <2>4, <2>5
  <1> QED BY <1>2, <1>7, <1>11, <1>12

LEMMA BootEntries ==
    ASSUME StoreInv, [Next]_vars, Boot
    PROVE  FillInv' /\ WholeInv' /\ CopyInv' /\ CountInv' /\ MarkInv' /\ MoveInv'
  <1> USE DEF StoreInv
  <1>1. /\ pc = "off" /\ pc' \in {"idle", "page", "erase"}
        /\ UNCHANGED <<pst, seq, slot, op, marks, inst>>
        /\ used' = LoadUsed /\ est' = LoadStates
        /\ nxt' = [p \in Pages |-> IF p \in ToSet(LoadUsed) THEN LoadNext(p) ELSE 1]
        /\ cnt' = [p \in Pages |-> IF p \in ToSet(LoadUsed) THEN LoadCount(p) ELSE 0]
        /\ pc' # "idle" => req'.from = 1 /\ req'.vic = 0
    <2>1. /\ pc = "off" /\ UNCHANGED <<pst, seq, slot, op, marks, inst>>
          /\ used' = LoadUsed /\ est' = LoadStates
          /\ nxt' = [p \in Pages |-> IF p \in ToSet(LoadUsed) THEN LoadNext(p) ELSE 1]
          /\ cnt' = [p \in Pages |-> IF p \in ToSet(LoadUsed) THEN LoadCount(p) ELSE 0]
      BY DEF Boot
    <2>2. PICK b, s : b = Head(LoadFree) /\ s = pst[b]
      OBVIOUS
    <2>3. \/ pc' = "idle"
          \/ req' = [page |-> b, vic |-> 0, from |-> 1] /\ pc' = IF s = "blank" THEN "page" ELSE "erase"
      BY <2>2 DEF Boot
    <2>4. pc' # "idle" => req'.from = 1 /\ req'.vic = 0
      BY <2>3
    <2>5. pc' \in {"idle", "page", "erase"}
      BY <2>3
    <2> QED BY <2>1, <2>4, <2>5
  <1>2. /\ N \in Nat \ {0} /\ Slots = 1..N /\ inst \in Instances /\ Types /\ Types'
        /\ N' = N /\ Slots' = Slots /\ Steady' = Steady /\ Written' = Written
    BY <1>1, ListFacts, InstKept, PagesStep DEF PagesInv, Types, Steady, Written
  <1>3. FlashFill /\ FlashWhole
    BY <1>1, QuietFlash
  <1>4. ToSet(used') = Written /\ Written \in SUBSET Pages
    BY <1>1, LoadUsedIs DEF PagesInv, Types, ListInv, Written
  <1>5. Running' /\ ~Moving' /\ Kept' = Written
    BY <1>1, <1>4 DEF Running, Moving, Kept
  <1>6. MarkInv' /\ marks'.at = <<>>
    <2>1. marks.at = <<>>
      BY <1>1 DEF EntryInv, MarkInv
    <2>2. ToSet(<<>>) = {} /\ <<>> \in Seq(Pages \X Slots')
      BY DEF ToSet
    <2> QED BY <2>1, <2>2, <1>1 DEF MarkInv
  <1>7. Eff' = est'
    <2>1. (MarkInv /\ Types /\ pc \notin {"delete", "commit", "undo", "copied"} => Eff = est)'
      BY EffIsEst, PTL
    <2> QED BY <2>1, <1>1, <1>2, <1>6
  <1>8. \A p \in Pages : \A i \in Slots :
           /\ est'[p][i] = est[p][i] \/ (est[p][i] = "used" /\ est'[p][i] = "updated")
           /\ p \notin Written \/ Steady => est'[p][i] = est[p][i]
    <2> TAKE p \in Pages
    <2> TAKE i \in Slots
    <2>1. est'[p][i] = IF p \in ToSet(LoadUsed) /\ i \in LoadUsedSlots(p) /\ slot[p][i].c # "head"
                       THEN "updated" ELSE est[p][i]
      BY <1>1 DEF LoadStates
    <2>2. i \in LoadUsedSlots(p) => est[p][i] = "used" /\ (Steady => slot[p][i].c = "head")
      BY <1>2, <1>3, BootPage DEF LoadUsedSlots
    <2> QED BY <2>1, <2>2, <1>1, <1>4
  <1>9. \A p \in Written : /\ nxt'[p] \in 1..(N + 1)
                           /\ \A i \in Slots : est[p][i] = "free" <=> i >= nxt'[p]
                           /\ cnt'[p] = Cardinality({i \in Slots : est[p][i] = "used"})
    <2> TAKE p \in Written
    <2>1. p \in Pages /\ nxt'[p] = LoadNext(p) /\ cnt'[p] = LoadCount(p)
      BY <1>1, <1>4
    <2>2. /\ LoadNext(p) \in 1..(N + 1)
          /\ \A i \in Slots : est[p][i] = "free" <=> i >= LoadNext(p)
      BY <2>1, <1>2, <1>3, BootPage
    <2>3. LoadCount(p) = Cardinality({i \in Slots : est[p][i] = "used"})
      BY <2>1, <1>2, <1>3, BootPage
    <2> QED BY <2>1, <2>2, <2>3
  <1>10. \A p \in Pages \ Written : nxt'[p] = 1 /\ cnt'[p] = 0
    BY <1>1, <1>4
  <1>11. \A p \in Pages : Low(p)' = nxt'[p] /\ HalfCount(p)' = 0
    BY <1>1 DEF Low, HalfCount, HalfWritten
  <1>12. nxt' \in [Pages -> 1..(N + 1)] /\ cnt' \in [Pages -> 0..N]
    <2>1. ASSUME NEW p \in Pages PROVE nxt'[p] \in 1..(N + 1) /\ cnt'[p] \in 0..N
      <3>1. Cardinality({i \in Slots : est[p][i] = "used"}) \in 0..N
        BY <1>2, SlotSets
      <3> QED BY <3>1, <1>2, <1>9, <1>10
    <2>2. nxt' = [p \in Pages |-> nxt'[p]] /\ cnt' = [p \in Pages |-> cnt'[p]]
      BY <1>1
    <2> QED BY <2>1, <2>2
  <1>13. FillInv'
    <2>1. \A p \in Pages \ Written' : \A i \in Slots' : slot'[p][i] = Blank /\ est'[p][i] = "free"
      BY <1>1, <1>2, <1>3, <1>8 DEF FlashFill
    <2>2. \A p \in Kept' : \A i \in Slots' : Eff'[p][i] = "free" <=> i >= Low(p)'
      <3> TAKE p \in Kept'
      <3> TAKE i \in Slots'
      <3>1. p \in Written /\ p \in Pages /\ i \in Slots
        BY <1>2, <1>4, <1>5
      <3>2. est'[p][i] = "free" <=> est[p][i] = "free"
        BY <3>1, <1>8
      <3> QED BY <3>1, <3>2, <1>7, <1>9, <1>11
    <2>3. Steady' => \A p \in Kept' : \A i \in Slots' : i >= nxt'[p] => slot'[p][i] = Blank
      <3> HAVE Steady'
      <3> TAKE p \in Kept'
      <3> TAKE i \in Slots'
      <3>1. p \in Written /\ p \in Pages /\ i \in Slots
        BY <1>2, <1>4, <1>5
      <3> QED BY <3>1, <1>1, <1>2, <1>3, <1>9 DEF FlashFill
    <2> QED BY <2>1, <2>2, <2>3, <1>1, <1>2, <1>5, <1>12 DEF FillInv
  <1>14. \A p, i : ~ToCome(p, i)'
    BY <1>5 DEF ToCome
  <1>15. WholeInv'
    <2>1. CASE Steady
      <3>1. \A p \in Pages : \A i \in Slots : Eff'[p][i] = est[p][i] /\ slot'[p][i] = slot[p][i]
        BY <2>1, <1>1, <1>7, <1>8
      <3>2. \A p \in Pages : \A i \in Slots : \A t \in 1..Span(slot[p][i]) :
               est[p][i] # "free" =>
                 i + t \in Slots /\ est[p][i + t] = est[p][i] /\ slot[p][i + t].c = "data"
        BY <1>3 DEF FlashWhole
      <3>3. \A p \in Pages : \A i \in Slots : est[p][i] = "used" =>
               \/ slot[p][i].c = "head"
               \/ /\ slot[p][i].c = "data"
                  /\ \E h \in 1..(i - 1) : /\ slot[p][h].c = "head" /\ est[p][h] = "used"
                                           /\ i <= h + Span(slot[p][h])
        BY <2>1, <1>3 DEF FlashWhole
      <3>4. \A i \in Slots : \A h \in 1..(i - 1) : h \in Slots
        BY <1>2
      <3>5. \A p \in Pages : \A i \in Slots' : \A t \in 1..Span(slot'[p][i]) :
               Eff'[p][i] # "free" =>
                 i + t \in Slots' /\ Eff'[p][i + t] = Eff'[p][i] /\ slot'[p][i + t].c = "data"
        BY <3>1, <3>2, <1>2
      <3>6. \A p \in Pages : \A i \in Slots' : Eff'[p][i] = "used" =>
               \/ slot'[p][i].c = "head"
               \/ /\ slot'[p][i].c = "data"
                  /\ \E h \in 1..(i - 1) : /\ slot'[p][h].c = "head" /\ Eff'[p][h] = "used"
                                           /\ i <= h + Span(slot'[p][h])
        BY <3>1, <3>3, <3>4, <1>2
      <3> QED BY <3>5, <3>6, <2>1, <1>2 DEF WholeInv
    <2>2. CASE ~Steady
      <3>1. \A p \in Pages : \A i \in Slots : slot[p][i].c # "data" /\ Span(slot[p][i]) = 0
        BY <2>2, <1>3 DEF FlashWhole
      <3>2. \A p \in Pages : \A i \in Slots : 1..Span(slot'[p][i]) = {}
        BY <3>1, <1>1
      <3> QED BY <3>1, <3>2, <2>2, <1>1, <1>2 DEF WholeInv
    <2> QED BY <2>1, <2>2
  <1>16. CountInv'
    <2>1. ASSUME NEW p \in Written
          PROVE  /\ Cardinality(InUse(p)') <= cnt'[p] /\ cnt'[p] < nxt'[p]
                 /\ Steady => cnt'[p] = Cardinality(InUse(p)')
      <3> DEFINE U == {i \in Slots : est[p][i] = "used"}
      <3>1. InUse(p)' = {i \in Slots : est'[p][i] = "used"} /\ p \in Pages
        BY <1>2, <1>4, <1>7 DEF InUse
      <3>2. InUse(p)' \in SUBSET U /\ (Steady => InUse(p)' = U)
        BY <3>1, <1>8
      <3>3. IsFiniteSet(U) /\ Cardinality(U) \in Nat
        <4>1. U \in SUBSET Slots
          OBVIOUS
        <4> QED BY <4>1, <1>2, SlotSets
      <3>4. Cardinality(InUse(p)') <= Cardinality(U)
        BY <3>2, <3>3, FS_Subset
      <3>5. PICK n : n = nxt'[p]
        OBVIOUS
      <3>6. n \in 1..(N + 1) /\ \A i \in Slots : est[p][i] = "free" <=> i >= n
        BY <3>5, <1>9
      <3>7. U \in SUBSET (1..(n - 1))
        <4>1. ASSUME NEW i \in U PROVE i \in 1..(n - 1)
          <5>1. i \in Slots /\ ~(i >= n)
            BY <3>6
          <5> QED BY <5>1, <3>6, <1>2
        <4> QED BY <4>1
      <3>8. IsFiniteSet(1..(n - 1)) /\ Cardinality(1..(n - 1)) = n - 1
        <4>1. 1 \in Int /\ n - 1 \in Int
          BY <3>6, <1>2
        <4>2. IsFiniteSet(1..(n - 1))
              /\ Cardinality(1..(n - 1)) = IF 1 > n - 1 THEN 0 ELSE (n - 1) - 1 + 1
          BY <4>1, FS_Interval
        <4> QED BY <4>2, <3>6, <1>2
      <3>9. Cardinality(U) <= n - 1
        BY <3>7, <3>8, FS_Subset
      <3>10. cnt'[p] = Cardinality(U)
        BY <1>9
      <3>11. cnt'[p] < n
        BY <3>3, <3>6, <3>9, <3>10, <1>2
      <3> QED BY <3>2, <3>4, <3>5, <3>10, <3>11
    <2>2. \A p \in Written : Cardinality(InUse(p)') \in Nat /\ cnt'[p] \in Nat
      BY <1>2, <1>4, <1>12, SlotSets DEF InUse
    <2>3. \A p \in Kept' : /\ Cardinality(InUse(p)') + HalfCount(p)' <= cnt'[p] /\ cnt'[p] < nxt'[p]
                           /\ Steady' => cnt'[p] = Cardinality(InUse(p)') + HalfCount(p)'
      BY <2>1, <2>2, <1>2, <1>4, <1>5, <1>11
    <2> QED BY <2>3, <1>2, <1>12 DEF CountInv
  <1>17. CopyInv'
    BY <1>5 DEF CopyInv
  <1>18. MoveInv'
    BY <1>1, <1>5 DEF MoveInv
  <1> QED BY <1>6, <1>13, <1>15, <1>16, <1>17, <1>18

-----------------------------------------------------------------------------
(* The invariant, and what it says of the store                            *)

LEMMA EntryStep ==
    ASSUME SmallOnly, StoreInv, [Next]_vars
    PROVE  EntryInv'
  <1>1. CASE \/ \E k \in Keys, v \in Vals : PutStart(k, v)
             \/ \E k \in Keys : DelStart(k)
    BY <1>1, StartEntries DEF EntryInv
  <1>2. CASE CleanStart \/ Reboot
    BY <1>2, RebootEntries DEF EntryInv
  <1>3. CASE PowerCut
    BY <1>3, PowerCutEntries DEF EntryInv
  <1>4. CASE MarkState
    BY <1>4, MarkStateEntries DEF EntryInv
  <1>5. CASE HasRoom \/ MarkFull
    BY <1>5, RoomEntries DEF EntryInv
  <1>6. CASE Request
    BY <1>6, RequestEntries DEF EntryInv
  <1>7. CASE ErasePage
    BY <1>7, ErasePageEntries DEF EntryInv
  <1>8. CASE WritePage
    BY <1>8, WritePageEntries DEF EntryInv
  <1>9. CASE MarkCandidate
    BY <1>9, CandidateEntries DEF EntryInv
  <1>10. CASE CopyEntry
    BY <1>10, CopyEntryEntries DEF EntryInv
  <1>11. CASE CopyState
    BY <1>11, CopyStateEntries DEF EntryInv
  <1>12. CASE EraseVictim
    BY <1>12, EraseVictimEntries DEF EntryInv
  <1>13. CASE PageReady
    BY <1>13, ReadyEntries DEF EntryInv
  <1>14. CASE WriteHeader
    BY <1>14, WriteHeaderEntries DEF EntryInv
  <1>15. CASE WriteData
    BY <1>15, WriteDataEntries DEF EntryInv
  <1>16. CASE CleanSector
    BY <1>16, CleanSectorEntries DEF EntryInv
  <1>17. CASE Boot
    BY <1>17, BootEntries DEF EntryInv
  <1>18. CASE UNCHANGED vars
    BY <1>18, EntryStutter
  <1> QED BY <1>1, <1>2, <1>3, <1>4, <1>5, <1>6, <1>7, <1>8, <1>9, <1>10, <1>11, <1>12,
             <1>13, <1>14, <1>15, <1>16, <1>17, <1>18, Zenon DEF Next, Step

\* At every flash write of a call the RAM knows the entries of every page as a boot
\* would find them, elements are whole, and a page that is emptied is on the new one
\* up to the entry that comes next.
THEOREM EntriesKept ==
    ASSUME SmallOnly
    PROVE  Spec => []StoreInv
  <1>1. Init => StoreInv
    BY PagesInit, EntryInit DEF StoreInv
  <1>2. StoreInv /\ [Next]_vars => StoreInv'
    BY PagesStep, EntryStep DEF StoreInv
  <1> QED BY <1>1, <1>2, PTL DEF Spec

\* The types of the flash, the page lists and the locals of the call; fill levels and
\* counts stay within a page.
THEOREM NvdsTypes ==
    ASSUME SmallOnly
    PROVE  Spec => []TypeOK
  <1>1. StoreInv => TypeOK
    <2> SUFFICES ASSUME StoreInv PROVE TypeOK
      OBVIOUS
    <2>1. Types /\ N \in Nat \ {0} /\ Slots = 1..N
      BY ListFacts DEF StoreInv, PagesInv
    <2>2. nxt \in [Pages -> 1..(N + 1)] /\ cnt \in [Pages -> 0..N] /\ marks.at \in Seq(Pages \X Slots)
      BY DEF StoreInv, EntryInv, FillInv, CountInv, MarkInv
    <2>3. \A p \in Pages, i \in Slots : slot[p][i].c \in {"blank", "junk", "head", "data"}
      BY <2>1, SpanIs DEF Types
    <2>4. /\ req.page \in 0..NumPages /\ req.vic \in 0..NumPages
          /\ marks.to \in {"used", "updated"} /\ ret \in {"ok", "no_space", "cut"}
          /\ snap \in [Keys -> Vals \cup {Absent, Mixed}]
          /\ cut \in {"none", "call", "clean"} /\ inst \in Instances
      BY <2>1 DEF Types
    <2>5. /\ pst \in [Pages -> {"blank", "active", "full", "candidate", "error"}]
          /\ seq \in [Pages -> Nat]
          /\ est \in [Pages -> [Slots -> {"free", "used", "updated"}]]
          /\ used \in Seq(Pages) /\ free \in Seq(Pages)
      BY <2>1 DEF Types, PageStates, EntryStates
    <2>6. pc \in {"off", "idle", "delete", "room", "request", "erase", "page",
                  "candidate", "copy", "copied", "again", "header", "data",
                  "commit", "undo", "clean"}
      BY <2>1 DEF Types, Steps
    <2> QED BY <2>2, <2>3, <2>4, <2>5, <2>6, Zenon DEF TypeOK
  <1> QED BY <1>1, EntriesKept, PTL

\* Between calls a reboot would rebuild from flash the very lists, fill levels and
\* counts the RAM holds.
THEOREM RebootFindsTheSame ==
    ASSUME SmallOnly
    PROVE  Spec => []RebootAgrees
  <1>1. StoreInv => RebootAgrees
    <2> SUFFICES ASSUME StoreInv, pc = "idle"
                 PROVE  /\ used = LoadUsed
                        /\ ToSet(free) = ToSet(LoadFree)
                        /\ \A p \in ToSet(used) : nxt[p] = LoadNext(p)
                        /\ Steady => \A p \in ToSet(used) : cnt[p] = LoadCount(p)
      BY DEF RebootAgrees, Steady
    <2> USE DEF StoreInv, EntryInv
    <2>1. Running /\ ~Moving /\ Kept = ToSet(used) /\ Written = ToSet(used)
      BY DEF Running, Moving, Kept, PagesInv, ListInv
    <2>2. Types /\ N \in Nat \ {0} /\ Slots = 1..N /\ ToSet(used) \in SUBSET Pages
      BY ListFacts DEF PagesInv
    <2>3. used = LoadUsed
      <3>1. \A i, j \in DOMAIN used : i < j => seq[used[i]] < seq[used[j]]
        BY <2>1 DEF PagesInv, ListInv
      <3> QED BY <3>1, <2>1, <2>2, LoadUsedUnique DEF Types
    <2>4. ToSet(free) = ToSet(LoadFree)
      <3>1. ToSet(free) = Pages \ ToSet(used)
        BY <2>1 DEF PagesInv, ListInv
      <3> QED BY <3>1, <2>1, LoadFreeIs
    <2>5. FlashFill /\ FlashWhole /\ Eff = est
      BY QuietFlash, EffIsEst DEF PagesInv
    <2>6. ASSUME NEW p \in ToSet(used)
          PROVE  nxt[p] = LoadNext(p) /\ (Steady => cnt[p] = LoadCount(p))
      <3>1. PICK n, l : n = nxt[p] /\ l = LoadNext(p)
        OBVIOUS
      <3>2. p \in Pages /\ p \in Kept
        BY <2>1, <2>2
      <3>3. l \in 1..(N + 1) /\ \A i \in Slots : est[p][i] = "free" <=> i >= l
        BY <3>1, <3>2, <2>2, <2>5, BootPage
      <3>4. n \in 1..(N + 1)
        BY <3>1, <3>2, <2>2 DEF FillInv
      <3>5. Low(p) = n /\ HalfCount(p) = 0
        BY <3>1 DEF Low, HalfCount, HalfWritten
      <3>6. \A i \in Slots : est[p][i] = "free" <=> i >= n
        BY <3>2, <3>5, <2>1, <2>5 DEF FillInv
      <3>7. n = l
        <4>1. ~(n < l)
          <5>1. n < l => n \in Slots /\ n >= n /\ ~(n >= l)
            BY <3>3, <3>4, <2>2
          <5> QED BY <5>1, <3>3, <3>6
        <4>2. ~(l < n)
          <5>1. l < n => l \in Slots /\ l >= l /\ ~(l >= n)
            BY <3>3, <3>4, <2>2
          <5> QED BY <5>1, <3>3, <3>6
        <4> QED BY <4>1, <4>2, <3>3, <3>4, <2>2
      <3>8. Steady => cnt[p] = LoadCount(p)
        <4> HAVE Steady
        <4>1. LoadCount(p) = Cardinality(InUse(p))
          BY <3>2, <2>2, <2>5, BootPage DEF InUse
        <4>2. cnt[p] = Cardinality(InUse(p)) + HalfCount(p)
          BY <3>2, <2>1 DEF CountInv
        <4>3. Cardinality(InUse(p)) \in 0..N
          BY <2>2, SlotSets DEF Types
        <4> QED BY <4>1, <4>2, <4>3, <3>5, <2>2
      <3> QED BY <3>1, <3>7, <3>8
    <2> QED BY <2>3, <2>4, <2>6
  <1> QED BY <1>1, EntriesKept, PTL

\* A small or middle put fails for want of space only when there is no page that,
\* emptied into a free one, would leave room for the element.
THEOREM FullWhenNoSpace ==
    ASSUME SmallOnly
    PROVE  Spec => NoSpaceMeansFull
  <1>1. StoreInv /\ [Next]_vars =>
        [ (inst.supply = "steady" /\ op.fn = "put" /\ op'.fn = "none" /\ ret' = "no_space"
           /\ pc' = "idle" /\ op.v \notin BulkVals)
          => \A p \in ToSet(used) : cnt[p] + NeedSlots > N ]_vars
    <2> SUFFICES ASSUME StoreInv, Next, inst.supply = "steady", op.fn = "put", op'.fn = "none",
                        ret' = "no_space", pc' = "idle", op.v \notin BulkVals
                 PROVE  \A p \in ToSet(used) : cnt[p] + NeedSlots > N
      OBVIOUS
    <2> USE DEF StoreInv, EntryInv
    <2>1. Steady /\ op.fn = "put" /\ op.v \notin BulkVals /\ pc # "idle" /\ op' # op
      <3>1. pc = "idle" => op.fn = "none"
        BY DEF PagesInv, CallInv, NoOp
      <3> QED BY <3>1 DEF Steady
    <2>2. /\ N \in Nat \ {0} /\ ToSet(used) \in SUBSET Pages
          /\ \A p \in Pages : nxt[p] \in 1..(N + 1) /\ cnt[p] \in 0..N
      BY EntryFacts, ListFacts DEF CountInv
    <2>3. NeedSlots \in Nat /\ NeedSlots >= 1
      <3>1. op.v \in MiddleVals => Entries[op.v] \in Nat
        BY NvdsAssumption
      <3> QED BY <3>1 DEF NeedSlots
    <2>4. Request \/ PageReady
      <3>1. ~\E k \in Keys, v \in Vals : PutStart(k, v)
        BY <2>1 DEF PutStart, Starts
      <3>2. ~\E k \in Keys : DelStart(k)
        BY <2>1 DEF DelStart, Starts
      <3>3. ~CleanStart /\ ~Reboot /\ ~PowerCut
        BY <2>1 DEF CleanStart, Starts, Reboot, PowerCut, LoseRam
      <3>4. ~MarkState
        <4> SUFFICES ASSUME MarkState PROVE FALSE
          OBVIOUS
        <4>1. pc = "undo"
          BY <2>1 DEF MarkState, Return
        <4> QED BY <4>1, <2>1 DEF MarkInv
      <3>5. ~HasRoom /\ ~MarkFull /\ ~ErasePage /\ ~WritePage /\ ~MarkCandidate /\ ~CopyEntry
            /\ ~CopyState /\ ~EraseVictim /\ ~CleanSector /\ ~Boot
        BY <2>1 DEF HasRoom, MarkFull, ErasePage, WritePage, MarkCandidate, CopyEntry,
                    CopyState, EraseVictim, CleanSector, Boot
      <3>6. ~WriteHeader /\ ~WriteData
        BY DEF WriteHeader, WriteData
      <3> QED BY <3>1, <3>2, <3>3, <3>4, <3>5, <3>6, Zenon DEF Next, Step
    <2>5. CASE Request
      <3>1. free # <<>>
        BY <2>1, <2>5 DEF Request, PagesInv, SteadyInv, Running
      <3>2. Victims = {}
        BY <2>1, <2>5, <3>1 DEF Request
      <3>3. \A p \in ToSet(used) : ~(cnt[p] < N)
        BY <3>2 DEF Victims
      <3> QED BY <3>3, <2>2, <2>3
    <2>6. CASE PageReady
      <3>1. pc = "again" /\ ~(Room(Last(used)) >= NeedSlots)
        BY <2>1, <2>6 DEF PageReady
      <3>2. used # <<>>
        BY <3>1, ListFacts DEF Running
      <3>3. Last(used) \in ToSet(used) /\ Last(used) \in Pages
        BY <3>2, <2>2, ListFacts
      <3>4. /\ cnt[Last(used)] = nxt[Last(used)] - 1
            /\ \A q \in ToSet(used) : cnt[Last(used)] <= cnt[q]
        BY <3>1, <2>1 DEF MoveInv
      <3>5. PICK n, c, k : n = nxt[Last(used)] /\ c = cnt[Last(used)] /\ k = NeedSlots
        OBVIOUS
      <3>6. n \in Nat /\ c \in Nat /\ c = n - 1 /\ ~(N + 1 - n >= k) /\ k \in Nat
        BY <3>1, <3>3, <3>4, <3>5, <2>2, <2>3 DEF Room
      <3>7. \A x \in Nat : c <= x => x + k > N
        BY <3>6, <2>2
      <3>8. \A q \in ToSet(used) : cnt[q] \in Nat /\ c <= cnt[q]
        BY <3>4, <3>5, <2>2
      <3> QED BY <3>5, <3>7, <3>8
    <2> QED BY <2>4, <2>5, <2>6
  <1> QED BY <1>1, EntriesKept, PTL DEF Spec, NoSpaceMeansFull

=============================================================================
