----------------------------- MODULE NvdsLemmas -----------------------------
(***************************************************************************)
(* Lemmas about the operators Nvds is built from: lists of pages, sets     *)
(* put in order, and the walks over the entries of a page.                 *)
(***************************************************************************)
EXTENDS Nvds, TLAPS, FiniteSetTheorems, FunctionTheorems, SequenceTheorems,
        WellFoundedInduction

\* A set of natural numbers that is not empty has a least member.
LEMMA Least ==
    ASSUME NEW S \in SUBSET Nat, S # {}
    PROVE  \E m \in S : \A k \in S : m <= k
  <1>1. IsWellFoundedOn(OpToRel(<, Nat), Nat)
    BY NatLessThanWellFounded
  <1>2. PICK x \in S : \A y \in S : ~(<<y, x>> \in OpToRel(<, Nat))
    BY <1>1, WFMin, Zenon
  <1>3. \A y \in S : ~(y < x)
    BY <1>2 DEF OpToRel
  <1> QED BY <1>3

\* A list is a function on an initial segment of the natural numbers.
LEMMA ListOf ==
    ASSUME NEW n \in Nat, NEW S, NEW o \in [1..n -> S]
    PROVE  o \in Seq(S) /\ Len(o) = n
  OBVIOUS

\* In a finite set whose members have different keys f, the number of members
\* below a member tells it from the others and takes every value.
LEMMA Ranks ==
    ASSUME NEW S, IsFiniteSet(S), NEW f \in [S -> Int],
           \A x, y \in S : f[x] = f[y] => x = y,
           NEW B \in [S -> SUBSET S], \A x, y \in S : y \in B[x] <=> f[y] < f[x]
    PROVE  /\ \A x \in S : Cardinality(B[x]) \in 0 .. (Cardinality(S) - 1)
           /\ \A x, y \in S : f[x] < f[y] => Cardinality(B[x]) < Cardinality(B[y])
           /\ \A x, y \in S : Cardinality(B[x]) = Cardinality(B[y]) => x = y
           /\ \A n \in 0 .. (Cardinality(S) - 1) : \E x \in S : Cardinality(B[x]) = n
  <1>1. \A x \in S : IsFiniteSet(B[x]) /\ Cardinality(B[x]) \in Nat
    BY FS_Subset, FS_CardinalityType
  <1>2. Cardinality(S) \in Nat
    BY FS_CardinalityType
  <1>3. ASSUME NEW x \in S PROVE Cardinality(B[x]) < Cardinality(S)
    <2>1. B[x] \in SUBSET S /\ x \in S /\ x \notin B[x]
      OBVIOUS
    <2>2. Cardinality(B[x]) <= Cardinality(S) /\ Cardinality(S) # Cardinality(B[x])
      BY <2>1, FS_Subset
    <2> QED BY <2>2, <1>1, <1>2
  <1>4. ASSUME NEW x \in S, NEW y \in S, f[x] < f[y]
        PROVE  Cardinality(B[x]) < Cardinality(B[y])
    <2>1. B[x] \in SUBSET B[y] /\ x \in B[y] /\ x \notin B[x]
      BY <1>4
    <2>2. /\ IsFiniteSet(B[y]) /\ Cardinality(B[y]) \in Nat
          /\ Cardinality(B[x]) \in Nat
      BY <1>1
    <2>3. Cardinality(B[x]) <= Cardinality(B[y]) /\ Cardinality(B[y]) # Cardinality(B[x])
      BY <2>1, <2>2, FS_Subset
    <2> QED BY <2>2, <2>3
  <1>5. PICK r : r = [x \in S |-> Cardinality(B[x])]
    OBVIOUS
  <1>6. r \in [S -> 0 .. (Cardinality(S) - 1)] /\ \A x \in S : r[x] = Cardinality(B[x])
    BY <1>1, <1>2, <1>3, <1>5
  <1>7. ASSUME NEW x \in S, NEW y \in S, r[x] = r[y] PROVE x = y
    <2>1. f[x] \in Int /\ f[y] \in Int /\ r[x] \in Int
      BY <1>6
    <2>2. ~(f[x] < f[y]) /\ ~(f[y] < f[x])
      BY <1>4, <1>6, <1>7, <2>1
    <2> QED BY <2>1, <2>2
  <1>8. r \in Injection(S, 0 .. (Cardinality(S) - 1))
    <2>1. DOMAIN r = S
      BY <1>6
    <2> QED BY <1>6, <1>7, <2>1 DEF Injection, IsInjective
  <1>9. /\ IsFiniteSet(0 .. (Cardinality(S) - 1))
        /\ Cardinality(0 .. (Cardinality(S) - 1)) = Cardinality(S)
    <2>1. 0 \in Int /\ Cardinality(S) - 1 \in Int
      BY <1>2
    <2>2. /\ IsFiniteSet(0 .. (Cardinality(S) - 1))
          /\ Cardinality(0 .. (Cardinality(S) - 1)) =
               IF 0 > Cardinality(S) - 1 THEN 0 ELSE (Cardinality(S) - 1) - 0 + 1
      BY <2>1, FS_Interval
    <2> QED BY <2>2, <1>2
  <1>10. r \in Surjection(S, 0 .. (Cardinality(S) - 1))
    BY <1>8, <1>9, FS_Injection
  <1>11. \A n \in 0 .. (Cardinality(S) - 1) : \E x \in S : r[x] = n
    BY <1>10 DEF Surjection
  <1> QED BY <1>4, <1>6, <1>7, <1>11

\* A list o that holds at place i a member with i - 1 members below it holds
\* the members of S, each once, in the order of their keys.
LEMMA InOrderOf ==
    ASSUME NEW S, IsFiniteSet(S), NEW f \in [S -> Int],
           \A x, y \in S : f[x] = f[y] => x = y,
           NEW B \in [S -> SUBSET S], \A x, y \in S : y \in B[x] <=> f[y] < f[x],
           NEW o,
           \A i \in 1..Cardinality(S) :
              (\E x \in S : Cardinality(B[x]) = i - 1)
              => o[i] \in S /\ Cardinality(B[o[i]]) = i - 1
    PROVE  /\ \A i \in 1..Cardinality(S) : o[i] \in S
           /\ \A x \in S : \E i \in 1..Cardinality(S) : o[i] = x
           /\ \A i, j \in 1..Cardinality(S) : i < j => f[o[i]] < f[o[j]]
           /\ \A i, j \in 1..Cardinality(S) : o[i] = o[j] => i = j
  <1>1. Cardinality(S) \in Nat
    BY FS_CardinalityType
  <1>2. /\ \A x \in S : Cardinality(B[x]) \in 0 .. (Cardinality(S) - 1)
        /\ \A x, y \in S : f[x] < f[y] => Cardinality(B[x]) < Cardinality(B[y])
        /\ \A x, y \in S : Cardinality(B[x]) = Cardinality(B[y]) => x = y
        /\ \A n \in 0 .. (Cardinality(S) - 1) : \E x \in S : Cardinality(B[x]) = n
    BY Ranks
  <1>4. \A i \in 1..Cardinality(S) : o[i] \in S /\ Cardinality(B[o[i]]) = i - 1
    <2> TAKE i \in 1..Cardinality(S)
    <2>1. i - 1 \in 0 .. (Cardinality(S) - 1)
      BY <1>1
    <2> QED BY <1>2, <2>1
  <1>5. \A x \in S : \E i \in 1..Cardinality(S) : o[i] = x
    <2> TAKE x \in S
    <2> DEFINE c == Cardinality(B[x])
    <2>1. c + 1 \in 1..Cardinality(S) /\ c \in Int
      BY <1>1, <1>2
    <2>2. o[c + 1] \in S /\ Cardinality(B[o[c + 1]]) = c
      BY <1>4, <2>1
    <2>3. o[c + 1] = x
      BY <1>2, <2>2
    <2> QED BY <2>1, <2>3
  <1>6. \A i, j \in 1..Cardinality(S) : i < j => f[o[i]] < f[o[j]]
    <2> TAKE i, j \in 1..Cardinality(S)
    <2> HAVE i < j
    <2>1. /\ o[i] \in S /\ o[j] \in S
          /\ Cardinality(B[o[i]]) = i - 1 /\ Cardinality(B[o[j]]) = j - 1
      BY <1>4
    <2>2. ~(f[o[j]] < f[o[i]]) /\ o[i] # o[j]
      BY <1>1, <1>2, <2>1
    <2>3. f[o[i]] \in Int /\ f[o[j]] \in Int /\ f[o[i]] # f[o[j]]
      BY <2>1, <2>2
    <2> QED BY <2>2, <2>3
  <1>7. \A i, j \in 1..Cardinality(S) : o[i] = o[j] => i = j
    BY <1>1, <1>4
  <1> QED BY <1>4, <1>5, <1>6, <1>7

-----------------------------------------------------------------------------
(* The lists pages_load builds                                             *)

\* The pages in flash that hold entries.
Written == {p \in Pages : pst[p] \notin {"blank", "error"}}

LEMMA PagesFinite ==
    /\ IsFiniteSet(Pages) /\ Cardinality(Pages) = NumPages
    /\ NumPages \in Nat /\ NumPages >= 2
    /\ \A S \in SUBSET Pages : IsFiniteSet(S) /\ Cardinality(S) \in Nat
  <1>1. NumPages \in Nat /\ NumPages >= 2
    BY NvdsAssumption
  <1>2. IsFiniteSet(Pages) /\ Cardinality(Pages) = NumPages
    BY <1>1, FS_Interval DEF Pages
  <1> QED BY <1>1, <1>2, FS_Subset, FS_CardinalityType

\* nvds_page_used after a boot: the written pages in the order of their numbers.
LEMMA LoadUsedIs ==
    ASSUME seq \in [Pages -> Nat],
           \A p, q \in Written : seq[p] = seq[q] => p = q
    PROVE  /\ LoadUsed \in Seq(Pages)
           /\ Len(LoadUsed) = Cardinality(Written)
           /\ ToSet(LoadUsed) = Written
           /\ \A i, j \in DOMAIN LoadUsed : i < j => seq[LoadUsed[i]] < seq[LoadUsed[j]]
  <1> DEFINE o == LoadUsed
             f == [p \in Written |-> seq[p]]
             B == [x \in Written |-> {y \in Written : seq[y] < seq[x]}]
  <1>0. PICK W : W = Written
    OBVIOUS
  <1>1. IsFiniteSet(W) /\ Cardinality(W) \in Nat /\ W \in SUBSET Pages
    BY <1>0, PagesFinite DEF Written
  <1>2. W = {p \in Pages : pst[p] \notin {"blank", "error"}}
    BY <1>0 DEF Written
  <1>3. DOMAIN o = 1..Cardinality(W) /\ o = [i \in 1..Cardinality(W) |-> o[i]]
    <2>1. o = Ordered(W, LAMBDA a, b : seq[a] < seq[b])
      BY <1>2 DEF LoadUsed
    <2> HIDE DEF o
    <2>2. DOMAIN o = 1..Cardinality(W)
      BY <2>1 DEF Ordered
    <2>3. o = [i \in DOMAIN o |-> o[i]]
      BY <2>1 DEF Ordered
    <2> QED BY <2>2, <2>3
  <1>4. \A i \in 1..Cardinality(W) :
           o[i] = CHOOSE x \in W : Cardinality({y \in W : seq[y] < seq[x]}) = i - 1
    BY <1>2 DEF LoadUsed, Ordered
  <1>5. f \in [W -> Int] /\ \A x \in W : f[x] = seq[x]
    BY <1>0, <1>1
  <1>6. B \in [W -> SUBSET W] /\ \A x \in W : B[x] = {y \in W : seq[y] < seq[x]}
    BY <1>0
  <1>7. \A x, y \in W : y \in B[x] <=> f[y] < f[x]
    BY <1>5, <1>6
  <1>8. \A i \in 1..Cardinality(W) :
           (\E x \in W : Cardinality(B[x]) = i - 1)
           => o[i] \in W /\ Cardinality(B[o[i]]) = i - 1
    <2> TAKE i \in 1..Cardinality(W)
    <2> HAVE \E x \in W : Cardinality(B[x]) = i - 1
    <2>1. \E x \in W : Cardinality({y \in W : seq[y] < seq[x]}) = i - 1
      BY <1>6
    <2>2. o[i] \in W /\ Cardinality({y \in W : seq[y] < seq[o[i]]}) = i - 1
      BY <1>4, <2>1
    <2> QED BY <1>6, <2>2
  <1>9. \A x, y \in W : f[x] = f[y] => x = y
    BY <1>0, <1>5
  <1> HIDE DEF o, f, B
  <1>10. /\ \A i \in 1..Cardinality(W) : o[i] \in W
         /\ \A x \in W : \E i \in 1..Cardinality(W) : o[i] = x
         /\ \A i, j \in 1..Cardinality(W) : i < j => f[o[i]] < f[o[j]]
    BY <1>1, <1>5, <1>6, <1>7, <1>8, <1>9, InOrderOf
  <1>11. o \in Seq(Pages) /\ Len(o) = Cardinality(W)
    <2>1. o \in [1..Cardinality(W) -> Pages]
      BY <1>1, <1>3, <1>10
    <2> QED BY <2>1, <1>1, ListOf
  <1>12. ToSet(o) = W
    BY <1>3, <1>10 DEF ToSet
  <1>13. \A i, j \in DOMAIN o : i < j => seq[o[i]] < seq[o[j]]
    BY <1>3, <1>5, <1>10
  <1> QED BY <1>0, <1>11, <1>12, <1>13 DEF o

\* nvds_page_free after a boot: the other pages.
LEMMA LoadFreeIs ==
    /\ LoadFree \in Seq(Pages)
    /\ Len(LoadFree) = Cardinality(Pages \ Written)
    /\ ToSet(LoadFree) = Pages \ Written
    /\ \A i, j \in DOMAIN LoadFree : LoadFree[i] = LoadFree[j] => i = j
  <1> DEFINE o == LoadFree
  <1>0. PICK W : W = Pages \ Written
    OBVIOUS
  <1> DEFINE f == [p \in W |-> p]
             B == [x \in W |-> {y \in W : y < x}]
  <1>1. IsFiniteSet(W) /\ Cardinality(W) \in Nat /\ W \in SUBSET Pages
    BY <1>0, PagesFinite
  <1>2. W = {p \in Pages : pst[p] \in {"blank", "error"}}
    BY <1>0 DEF Written
  <1>3. DOMAIN o = 1..Cardinality(W) /\ o = [i \in 1..Cardinality(W) |-> o[i]]
    <2>1. o = Ordered(W, <)
      BY <1>2 DEF LoadFree
    <2> HIDE DEF o
    <2>2. DOMAIN o = 1..Cardinality(W)
      BY <2>1 DEF Ordered
    <2>3. o = [i \in DOMAIN o |-> o[i]]
      BY <2>1 DEF Ordered
    <2> QED BY <2>2, <2>3
  <1>4. \A i \in 1..Cardinality(W) :
           o[i] = CHOOSE x \in W : Cardinality({y \in W : y < x}) = i - 1
    BY <1>2 DEF LoadFree, Ordered
  <1>5. f \in [W -> Int] /\ \A x \in W : f[x] = x
    BY <1>1, PagesFinite DEF Pages
  <1>6. B \in [W -> SUBSET W] /\ \A x \in W : B[x] = {y \in W : y < x}
    OBVIOUS
  <1>7. \A x, y \in W : y \in B[x] <=> f[y] < f[x]
    BY <1>5, <1>6
  <1>8. \A i \in 1..Cardinality(W) :
           (\E x \in W : Cardinality(B[x]) = i - 1)
           => o[i] \in W /\ Cardinality(B[o[i]]) = i - 1
    <2> TAKE i \in 1..Cardinality(W)
    <2> HAVE \E x \in W : Cardinality(B[x]) = i - 1
    <2>1. \E x \in W : Cardinality({y \in W : y < x}) = i - 1
      BY <1>6
    <2>2. o[i] \in W /\ Cardinality({y \in W : y < o[i]}) = i - 1
      BY <1>4, <2>1
    <2> QED BY <1>6, <2>2
  <1>9. \A x, y \in W : f[x] = f[y] => x = y
    BY <1>5
  <1> HIDE DEF o, f, B
  <1>10. /\ \A i \in 1..Cardinality(W) : o[i] \in W
         /\ \A x \in W : \E i \in 1..Cardinality(W) : o[i] = x
         /\ \A i, j \in 1..Cardinality(W) : o[i] = o[j] => i = j
    BY <1>1, <1>5, <1>6, <1>7, <1>8, <1>9, InOrderOf
  <1>11. o \in Seq(Pages) /\ Len(o) = Cardinality(W)
    <2>1. o \in [1..Cardinality(W) -> Pages]
      BY <1>1, <1>3, <1>10
    <2> QED BY <2>1, <1>1, ListOf
  <1>12. ToSet(o) = W
    BY <1>3, <1>10 DEF ToSet
  <1> QED BY <1>0, <1>3, <1>10, <1>11, <1>12 DEF o

\* A list of the written pages in the order of their numbers is the one a
\* boot would build.
LEMMA LoadUsedUnique ==
    ASSUME seq \in [Pages -> Nat],
           NEW s \in Seq(Pages), ToSet(s) = Written,
           \A i, j \in DOMAIN s : i < j => seq[s[i]] < seq[s[j]]
    PROVE  s = LoadUsed
  <1>1. \A i \in DOMAIN s : s[i] \in Pages /\ seq[s[i]] \in Nat
    OBVIOUS
  <1>2. \A i, j \in DOMAIN s : s[i] = s[j] => i = j
    <2> TAKE i, j \in DOMAIN s
    <2>1. i \in Nat /\ j \in Nat
      OBVIOUS
    <2> QED BY <1>1, <2>1
  <1>3. \A p, q \in Written : seq[p] = seq[q] => p = q
    <2> TAKE p, q \in Written
    <2>1. PICK i \in DOMAIN s : s[i] = p
      BY DEF ToSet
    <2>2. PICK j \in DOMAIN s : s[j] = q
      BY DEF ToSet
    <2>3. i \in Nat /\ j \in Nat
      OBVIOUS
    <2> QED BY <1>1, <2>1, <2>2, <2>3
  <1> DEFINE o == LoadUsed
  <1>4. /\ o \in Seq(Pages) /\ Len(o) = Cardinality(Written) /\ ToSet(o) = Written
        /\ \A i, j \in DOMAIN o : i < j => seq[o[i]] < seq[o[j]]
    BY <1>3, LoadUsedIs
  <1> HIDE DEF o
  <1>5. \A i \in DOMAIN o : o[i] \in Pages /\ seq[o[i]] \in Nat
    BY <1>4
  <1>6. Len(s) \in Nat /\ Len(o) \in Nat /\ DOMAIN s = 1..Len(s) /\ DOMAIN o = 1..Len(o)
    BY <1>4
  <1>5a. \A i, j \in DOMAIN o : o[i] = o[j] => i = j
    <2> TAKE i, j \in DOMAIN o
    <2>1. i \in Nat /\ j \in Nat
      BY <1>6
    <2> QED BY <1>4, <1>5, <2>1
  <1>7. \A i \in Nat : i \in DOMAIN s /\ i \in DOMAIN o => s[i] = o[i]
    <2> SUFFICES ASSUME {i \in Nat : i \in DOMAIN s /\ i \in DOMAIN o /\ s[i] # o[i]} # {}
                 PROVE  FALSE
      OBVIOUS
    <2>1. PICK m \in Nat : /\ m \in DOMAIN s /\ m \in DOMAIN o /\ s[m] # o[m]
                           /\ \A i \in Nat : i \in DOMAIN s /\ i \in DOMAIN o /\ s[i] # o[i]
                                             => m <= i
      <3> DEFINE D == {i \in Nat : i \in DOMAIN s /\ i \in DOMAIN o /\ s[i] # o[i]}
      <3>1. D \in SUBSET Nat /\ D # {}
        OBVIOUS
      <3>2. PICK m \in D : \A k \in D : m <= k
        <4> HIDE DEF D
        <4> QED BY <3>1, Least
      <3> QED BY <3>2
    <2>2. \A i \in 1..(m - 1) : s[i] = o[i]
      BY <2>1, <1>6
    <2>3. s[m] \in Written /\ o[m] \in Written
      BY <2>1, <1>4 DEF ToSet
    <2>4. PICK j \in DOMAIN o : o[j] = s[m]
      BY <2>3, <1>4 DEF ToSet
    <2>5. PICK k \in DOMAIN s : s[k] = o[m]
      BY <2>3 DEF ToSet
    <2>6. j \in Nat /\ k \in Nat /\ j # m /\ k # m
      BY <2>1, <2>4, <2>5, <1>6
    <2>7. j > m
      <3> SUFFICES ASSUME j < m PROVE FALSE
        BY <2>6
      <3>1. j \in 1..(m - 1)
        BY <2>6, <2>4, <1>6
      <3>2. s[j] = s[m] /\ j \in DOMAIN s
        BY <3>1, <2>2, <2>4, <2>1, <1>6
      <3> QED BY <3>2, <1>2, <2>1, <2>6
    <2>8. k > m
      <3> SUFFICES ASSUME k < m PROVE FALSE
        BY <2>6
      <3>1. k \in 1..(m - 1)
        BY <2>6, <2>5, <1>6
      <3>2. o[k] = o[m] /\ k \in DOMAIN o
        BY <3>1, <2>2, <2>5, <2>1, <1>6
      <3> QED BY <3>2, <1>5a, <2>1, <2>6
    <2>9. seq[o[m]] < seq[o[j]] /\ seq[s[m]] < seq[s[k]]
      BY <2>1, <2>4, <2>5, <2>6, <2>7, <2>8, <1>4
    <2> QED BY <2>9, <2>4, <2>5, <2>1, <1>1, <1>5
  <1>8. Len(s) = Len(o)
    <2>1. ASSUME Len(s) < Len(o) PROVE FALSE
      <3>1. Len(s) + 1 \in DOMAIN o
        BY <2>1, <1>6
      <3>2. PICK k \in DOMAIN s : s[k] = o[Len(s) + 1]
        BY <3>1, <1>4 DEF ToSet
      <3>3. k \in DOMAIN o /\ s[k] = o[k] /\ k < Len(s) + 1
        BY <3>2, <2>1, <1>6, <1>7
      <3>4. o[k] = o[Len(s) + 1]
        BY <3>2, <3>3
      <3>5. k = Len(s) + 1
        BY <3>1, <3>3, <3>4, <1>5a
      <3> QED BY <3>3, <3>5, <1>6
    <2>2. ASSUME Len(o) < Len(s) PROVE FALSE
      <3>1. Len(o) + 1 \in DOMAIN s
        BY <2>2, <1>6
      <3>2. s[Len(o) + 1] \in Written
        BY <3>1 DEF ToSet
      <3>3. PICK k \in DOMAIN o : o[k] = s[Len(o) + 1]
        BY <3>2, <1>4 DEF ToSet
      <3>4. k \in DOMAIN s /\ s[k] = o[k] /\ k < Len(o) + 1
        BY <3>3, <2>2, <1>6, <1>7
      <3>5. s[k] = s[Len(o) + 1]
        BY <3>3, <3>4
      <3>6. k = Len(o) + 1
        BY <3>1, <3>4, <3>5, <1>2
      <3> QED BY <3>4, <3>6, <1>6
    <2>3. ~(Len(s) < Len(o)) /\ ~(Len(o) < Len(s))
      BY <2>1, <2>2
    <2>4. Len(s) \in Nat /\ Len(o) \in Nat
      BY <1>6
    <2> QED BY <2>3, <2>4
  <1> QED BY <1>4, <1>6, <1>7, <1>8 DEF o

-----------------------------------------------------------------------------
(* Entries in order, and a list without one of its pages                   *)

\* Entries in the order of their pages, then of their places.
LEMMA KeyOrder ==
    ASSUME NEW n \in Nat, NEW a \in Nat, NEW b \in Nat, NEW c \in 1..n, NEW d \in 1..n
    PROVE  a * (n + 1) + c < b * (n + 1) + d <=> a < b \/ (a = b /\ c < d)
  <1>1. ASSUME NEW i \in Nat, NEW j \in Nat, NEW k \in 1..n, NEW l \in 1..n, i < j
        PROVE  i * (n + 1) + k < j * (n + 1) + l
    <2>1. PICK e \in Nat : j = i + 1 + e
      <3>1. j - i - 1 \in Nat /\ j = i + 1 + (j - i - 1)
        BY <1>1
      <3> QED BY <3>1
    <2>2. j * (n + 1) = i * (n + 1) + (n + 1) + e * (n + 1)
      BY <2>1
    <2>3. e * (n + 1) \in Nat /\ i * (n + 1) \in Nat
      OBVIOUS
    <2> QED BY <2>2, <2>3
  <1>2. a * (n + 1) \in Nat /\ b * (n + 1) \in Nat
    OBVIOUS
  <1>3. CASE a = b
    BY <1>2, <1>3
  <1>4. CASE a < b
    BY <1>1, <1>2, <1>4
  <1>5. CASE b < a
    BY <1>1, <1>2, <1>5
  <1> QED BY <1>3, <1>4, <1>5

\* The entries of S, each once, in the order in which a search meets them.
LEMMA InOrderIs ==
    ASSUME seq \in [Pages -> Nat], N \in Nat,
           NEW S \in SUBSET (Pages \X Slots),
           \A x, y \in S : seq[x[1]] = seq[y[1]] => x[1] = y[1]
    PROVE  /\ IsFiniteSet(S) /\ Cardinality(S) \in Nat
           /\ InOrder(S) \in Seq(Pages \X Slots)
           /\ Len(InOrder(S)) = Cardinality(S)
           /\ ToSet(InOrder(S)) = S
           /\ \A i, j \in DOMAIN InOrder(S) : InOrder(S)[i] = InOrder(S)[j] => i = j
  <1> DEFINE o == InOrder(S)
             f == [x \in S |-> seq[x[1]] * (N + 1) + x[2]]
             B == [x \in S |-> {y \in S : Before(y, x)}]
  <1>1. IsFiniteSet(S) /\ Cardinality(S) \in Nat
    <2>1. IsFiniteSet(Slots)
      BY FS_Interval DEF Slots
    <2>2. IsFiniteSet(Pages \X Slots)
      BY <2>1, PagesFinite, FS_Product
    <2> QED BY <2>2, FS_Subset, FS_CardinalityType
  <1>2. \A x \in S : /\ x = <<x[1], x[2]>> /\ x[1] \in Pages /\ x[2] \in 1..N
                     /\ seq[x[1]] \in Nat
    BY DEF Slots
  <1>3. DOMAIN o = 1..Cardinality(S) /\ o = [i \in 1..Cardinality(S) |-> o[i]]
    <2>1. o = Ordered(S, Before)
      BY DEF InOrder
    <2> HIDE DEF o
    <2>2. o = [i \in 1..Cardinality(S) |->
                 CHOOSE x \in S : Cardinality({y \in S : Before(y, x)}) = i - 1]
      BY <2>1 DEF Ordered
    <2>3. DOMAIN o = 1..Cardinality(S)
      BY <2>2
    <2>4. o = [i \in 1..Cardinality(S) |-> o[i]]
      <3>1. ASSUME NEW i \in 1..Cardinality(S)
            PROVE  o[i] = CHOOSE x \in S : Cardinality({y \in S : Before(y, x)}) = i - 1
        BY <2>2
      <3> QED BY <2>2, <3>1, Zenon
    <2> QED BY <2>3, <2>4
  <1>4. \A i \in 1..Cardinality(S) :
           o[i] = CHOOSE x \in S : Cardinality({y \in S : Before(y, x)}) = i - 1
    BY DEF InOrder, Ordered
  <1>5. \A x \in S : f[x] = seq[x[1]] * (N + 1) + x[2] /\ f[x] \in Int
    BY <1>2
  <1>6. B \in [S -> SUBSET S] /\ \A x \in S : B[x] = {y \in S : Before(y, x)}
    OBVIOUS
  <1>7. \A x, y \in S : f[y] < f[x] <=> Before(y, x)
    <2> TAKE x, y \in S
    <2> DEFINE a == seq[y[1]]
               b == seq[x[1]]
               c == y[2]
               d == x[2]
    <2>1. a \in Nat /\ b \in Nat /\ c \in 1..N /\ d \in 1..N
      BY <1>2
    <2>2. Before(y, x) <=> a < b \/ (a = b /\ c < d)
      BY DEF Before
    <2>3. f[y] = a * (N + 1) + c /\ f[x] = b * (N + 1) + d
      BY <1>5
    <2> HIDE DEF a, b, c, d, f
    <2> QED BY <2>1, <2>2, <2>3, KeyOrder
  <1>8. \A x, y \in S : f[x] = f[y] => x = y
    <2> TAKE x, y \in S
    <2> HAVE f[x] = f[y]
    <2>1. ~Before(x, y) /\ ~Before(y, x)
      BY <1>5, <1>7
    <2>2. seq[x[1]] = seq[y[1]] /\ x[2] = y[2]
      BY <2>1, <1>2 DEF Before
    <2> QED BY <2>2, <1>2
  <1>9. \A i \in 1..Cardinality(S) :
           (\E x \in S : Cardinality(B[x]) = i - 1)
           => o[i] \in S /\ Cardinality(B[o[i]]) = i - 1
    <2> TAKE i \in 1..Cardinality(S)
    <2> HAVE \E x \in S : Cardinality(B[x]) = i - 1
    <2>1. \E x \in S : Cardinality({y \in S : Before(y, x)}) = i - 1
      BY <1>6
    <2>2. o[i] \in S /\ Cardinality({y \in S : Before(y, o[i])}) = i - 1
      BY <1>4, <2>1
    <2> QED BY <1>6, <2>2
  <1>10. f \in [S -> Int]
    BY <1>5
  <1>11. \A x, y \in S : y \in B[x] <=> f[y] < f[x]
    BY <1>6, <1>7
  <1> HIDE DEF o, f, B
  <1>12. /\ \A i \in 1..Cardinality(S) : o[i] \in S
         /\ \A x \in S : \E i \in 1..Cardinality(S) : o[i] = x
         /\ \A i, j \in 1..Cardinality(S) : o[i] = o[j] => i = j
    <2>1. PICK T : T = S
      OBVIOUS
    <2>2. IsFiniteSet(T) /\ B \in [T -> SUBSET T] /\ f \in [T -> Int]
      BY <1>1, <1>6, <1>10, <2>1
    <2>3. \A x, y \in T : f[x] = f[y] => x = y
      BY <1>8, <2>1
    <2>4. \A x, y \in T : y \in B[x] <=> f[y] < f[x]
      BY <1>11, <2>1
    <2>5. \A i \in 1..Cardinality(T) :
           (\E x \in T : Cardinality(B[x]) = i - 1)
           => o[i] \in T /\ Cardinality(B[o[i]]) = i - 1
      BY <1>9, <2>1
    <2>6. /\ \A i \in 1..Cardinality(T) : o[i] \in T
          /\ \A x \in T : \E i \in 1..Cardinality(T) : o[i] = x
          /\ \A i, j \in 1..Cardinality(T) : o[i] = o[j] => i = j
      BY <2>2, <2>3, <2>4, <2>5, InOrderOf
    <2> QED BY <2>1, <2>6
  <1>13. o \in Seq(Pages \X Slots) /\ Len(o) = Cardinality(S)
    <2>1. o \in [1..Cardinality(S) -> Pages \X Slots]
      BY <1>3, <1>12
    <2> QED BY <2>1, <1>1, ListOf
  <1>14. ToSet(o) = S
    BY <1>3, <1>12 DEF ToSet
  <1>15. \A i, j \in DOMAIN o : o[i] = o[j] => i = j
    BY <1>3, <1>12
  <1> QED BY <1>1, <1>13, <1>14, <1>15 DEF o

\* list_extract keeps the order of the pages that stay.
LEMMA ExtractIs ==
    ASSUME NEW s \in Seq(Pages), NEW p \in ToSet(s),
           \A i, j \in DOMAIN s : s[i] = s[j] => i = j
    PROVE  /\ Extract(s, p) \in Seq(Pages)
           /\ Len(Extract(s, p)) = Len(s) - 1
           /\ ToSet(Extract(s, p)) = ToSet(s) \ {p}
           /\ \A i, j \in DOMAIN Extract(s, p) : i < j =>
                 \E k, l \in DOMAIN s : /\ k < l
                                        /\ Extract(s, p)[i] = s[k]
                                        /\ Extract(s, p)[j] = s[l]
  <1> DEFINE c == CHOOSE i \in DOMAIN s : s[i] = p
             e == Extract(s, p)
  <1>1. c \in DOMAIN s /\ s[c] = p
    BY DEF ToSet
  <1>2. c \in 1..Len(s) /\ Len(s) \in Nat /\ DOMAIN s = 1..Len(s)
    BY <1>1
  <1>3. e = SubSeq(s, 1, c - 1) \o SubSeq(s, c + 1, Len(s))
    BY DEF Extract, RemoveAt
  <1> HIDE DEF c, e
  <1>4. PICK a : a = SubSeq(s, 1, c - 1)
    OBVIOUS
  <1>5. PICK b : b = SubSeq(s, c + 1, Len(s))
    OBVIOUS
  <1>4a. /\ a \in Seq(Pages) /\ Len(a) = c - 1
         /\ \A i \in 1..(c - 1) : a[i] = s[i]
    <2>1. /\ 1 \in Int /\ c - 1 \in Int
          /\ \A i \in 1..(c - 1) : s[i] \in Pages
      BY <1>2
    <2>2. /\ a \in Seq(Pages)
          /\ Len(a) = IF 1 <= c - 1 THEN (c - 1) - 1 + 1 ELSE 0
          /\ \A i \in 1..((c - 1) - 1 + 1) : a[i] = s[1 + i - 1]
      BY <2>1, <1>4, SubSeqProperties
    <2> QED BY <2>2, <1>2
  <1>5a. /\ b \in Seq(Pages) /\ Len(b) = Len(s) - c
         /\ \A i \in 1..(Len(s) - c) : b[i] = s[c + i]
    <2>1. /\ c + 1 \in Int /\ Len(s) \in Int
          /\ \A i \in (c + 1)..Len(s) : s[i] \in Pages
      BY <1>2
    <2>2. /\ b \in Seq(Pages)
          /\ Len(b) = IF c + 1 <= Len(s) THEN Len(s) - (c + 1) + 1 ELSE 0
          /\ \A i \in 1..(Len(s) - (c + 1) + 1) : b[i] = s[(c + 1) + i - 1]
      BY <2>1, <1>5, SubSeqProperties
    <2>3. Len(s) - (c + 1) + 1 = Len(s) - c
      BY <1>2
    <2>4. Len(b) = Len(s) - c
      <3>1. ASSUME NEW m \in Nat, NEW d \in 1..m
            PROVE  (IF d + 1 <= m THEN m - (d + 1) + 1 ELSE 0) = m - d
        OBVIOUS
      <3>2. (IF c + 1 <= Len(s) THEN Len(s) - (c + 1) + 1 ELSE 0) = Len(s) - c
        BY <3>1, <1>2, Zenon
      <3>3. Len(b) = IF c + 1 <= Len(s) THEN Len(s) - (c + 1) + 1 ELSE 0
        BY <2>2
      <3> QED BY <3>2, <3>3
    <2>5. \A i \in 1..(Len(s) - c) : (c + 1) + i - 1 = c + i
      BY <1>2
    <2> QED BY <2>2, <2>3, <2>4, <2>5
  <1>6a. /\ e \in Seq(Pages) /\ Len(e) = Len(a) + Len(b)
         /\ \A i \in 1..(Len(a) + Len(b)) :
               e[i] = IF i <= Len(a) THEN a[i] ELSE b[i - Len(a)]
    BY <1>3, <1>4, <1>5, <1>4a, <1>5a, ConcatProperties
  <1>6. e \in Seq(Pages) /\ Len(e) = Len(s) - 1
    BY <1>2, <1>6a, <1>4a, <1>5a
  <1>7. \A i \in 1..(Len(s) - 1) : e[i] = IF i < c THEN s[i] ELSE s[i + 1]
    <2> TAKE i \in 1..(Len(s) - 1)
    <2>1. i \in 1..(Len(a) + Len(b)) /\ i \in Int
      BY <1>2, <1>4a, <1>5a
    <2>2. CASE i < c
      <3>1. i <= Len(a) /\ i \in 1..(c - 1)
        BY <2>1, <2>2, <1>2, <1>4a
      <3> QED BY <3>1, <2>1, <2>2, <1>6a, <1>4a
    <2>3. CASE ~(i < c)
      <3>1. ~(i <= Len(a)) /\ i - Len(a) \in 1..(Len(s) - c) /\ c + (i - Len(a)) = i + 1
        BY <2>1, <2>3, <1>2, <1>4a
      <3> QED BY <3>1, <2>1, <2>3, <1>6a, <1>5a
    <2> QED BY <2>2, <2>3
  <1>8. DOMAIN e = 1..(Len(s) - 1)
    BY <1>6
  <1>9. ToSet(e) = ToSet(s) \ {p}
    <2>1. ASSUME NEW i \in DOMAIN e PROVE e[i] \in ToSet(s) /\ e[i] # p
      <3>1. i \in 1..(Len(s) - 1)
        BY <1>8
      <3>2. CASE i < c
        BY <3>1, <3>2, <1>1, <1>2, <1>7 DEF ToSet
      <3>3. CASE ~(i < c)
        <4>1. i + 1 \in DOMAIN s /\ i + 1 # c /\ e[i] = s[i + 1]
          BY <3>1, <3>3, <1>2, <1>7
        <4> QED BY <4>1, <1>1 DEF ToSet
      <3> QED BY <3>2, <3>3
    <2>2. ASSUME NEW q \in ToSet(s), q # p PROVE \E i \in DOMAIN e : e[i] = q
      <3>1. PICK k \in DOMAIN s : s[k] = q
        BY DEF ToSet
      <3>2. k \in 1..Len(s) /\ k # c
        BY <3>1, <2>2, <1>1, <1>2
      <3>3. CASE k < c
        <4>1. k \in DOMAIN e /\ e[k] = s[k]
          BY <3>2, <3>3, <1>2, <1>7, <1>8
        <4> QED BY <4>1, <3>1
      <3>4. CASE k > c
        <4>1. k - 1 \in 1..(Len(s) - 1) /\ ~(k - 1 < c) /\ (k - 1) + 1 = k
          BY <3>2, <3>4, <1>2
        <4>2. e[k - 1] = s[k]
          BY <4>1, <1>7
        <4> QED BY <4>1, <4>2, <3>1, <1>8
      <3> QED BY <3>2, <3>3, <3>4, <1>2
    <2> QED BY <2>1, <2>2 DEF ToSet
  <1>10. \A i, j \in DOMAIN e : i < j =>
            \E k, l \in DOMAIN s : k < l /\ e[i] = s[k] /\ e[j] = s[l]
    <2> TAKE i, j \in DOMAIN e
    <2> HAVE i < j
    <2> DEFINE k == IF i < c THEN i ELSE i + 1
               l == IF j < c THEN j ELSE j + 1
    <2>1. i \in 1..(Len(s) - 1) /\ j \in 1..(Len(s) - 1)
      BY <1>8
    <2>2. e[i] = s[k] /\ e[j] = s[l]
      BY <2>1, <1>7
    <2>3. k \in DOMAIN s /\ l \in DOMAIN s /\ k < l
      BY <2>1, <1>2
    <2> QED BY <2>2, <2>3
  <1> QED BY <1>6, <1>9, <1>10 DEF e

-----------------------------------------------------------------------------
(* Least members, and sizes                                                *)

\* Min of a set of natural numbers.
LEMMA MinIs ==
    ASSUME NEW S \in SUBSET Nat, S # {}
    PROVE  Min(S) \in S /\ Min(S) \in Nat /\ \A k \in S : Min(S) <= k
  <1>1. \E m \in S : \A k \in S : m <= k
    BY Least
  <1> QED BY <1>1 DEF Min

LEMMA MinOfTwo ==
    ASSUME NEW a \in Int, NEW b \in Int
    PROVE  Min({a, b}) = IF a <= b THEN a ELSE b
  <1> DEFINE c == IF a <= b THEN a ELSE b
  <1>1. c \in {a, b} /\ \A k \in {a, b} : c <= k
    OBVIOUS
  <1>2. \A x \in {a, b} : (\A k \in {a, b} : x <= k) => x = c
    OBVIOUS
  <1> QED BY <1>1, <1>2 DEF Min

\* What an instance gives: at least one entry per page, and room for a
\* middle element on an empty page.
LEMMA SlotsAre ==
    ASSUME inst \in Instances
    PROVE  /\ N \in Nat \ {0} /\ Slots = 1..N
           /\ IsFiniteSet(Slots) /\ Cardinality(Slots) = N
           /\ \A v \in MiddleVals : Entries[v] < N
           /\ inst.puts \subseteq Keys \X Vals
           /\ inst.supply \in {"steady", "failing"}
  <1>1. N \in Nat \ {0} /\ Slots = 1..N
    BY NvdsAssumption DEF N, Slots
  <1>2. IsFiniteSet(Slots) /\ Cardinality(Slots) = N
    BY <1>1, FS_Interval
  <1> QED BY <1>1, <1>2, NvdsAssumption DEF N

\* A finite set that is not empty has a member with the least key.
LEMMA LeastBy ==
    ASSUME NEW S, IsFiniteSet(S), S # {}, NEW f \in [S -> Int]
    PROVE  \E x \in S : \A y \in S : f[x] <= f[y]
  <1> DEFINE B == [x \in S |-> {y \in S : f[y] < f[x]}]
             C == {Cardinality(B[x]) : x \in S}
  <1>1. \A x \in S : /\ B[x] \in SUBSET S /\ IsFiniteSet(B[x])
                     /\ Cardinality(B[x]) \in Nat
    BY FS_Subset, FS_CardinalityType
  <1>2. \A x, y \in S : y \in B[x] <=> f[y] < f[x]
    OBVIOUS
  <1> HIDE DEF B
  <1>3. C \in SUBSET Nat /\ C # {}
    BY <1>1
  <1>4. \E m \in C : \A k \in C : m <= k
    <2> HIDE DEF C
    <2> QED BY <1>3, Least
  <1>5. PICK x \in S : \A z \in S : Cardinality(B[x]) <= Cardinality(B[z])
    BY <1>4
  <1>6. \A y \in S : f[x] <= f[y]
    <2> SUFFICES ASSUME NEW y \in S, f[y] < f[x] PROVE FALSE
      OBVIOUS
    <2>1. B[y] \in SUBSET B[x]
      <3>1. ASSUME NEW z \in B[y] PROVE z \in B[x]
        <4>1. z \in S /\ f[z] < f[y]
          BY <1>1, <1>2
        <4> QED BY <4>1, <1>2
      <3> QED BY <3>1
    <2>2. y \in B[x] /\ y \notin B[y]
      BY <1>2
    <2>3. /\ Cardinality(B[y]) <= Cardinality(B[x])
          /\ Cardinality(B[y]) = Cardinality(B[x]) => B[y] = B[x]
      BY <2>1, <1>1, FS_Subset
    <2>4. Cardinality(B[y]) # Cardinality(B[x])
      BY <2>2, <2>3
    <2> QED BY <2>3, <2>4, <1>1, <1>5
  <1> QED BY <1>6

\* The page to empty: used, not full of entries in use, and with the fewest.
LEMMA VictimIs ==
    ASSUME used \in Seq(Pages), cnt \in [Pages -> Int], seq \in [Pages -> Nat],
           Victims # {}
    PROVE  /\ Victim \in ToSet(used) /\ Victim \in Pages /\ cnt[Victim] < N
           /\ \A q \in Victims : cnt[Victim] <= cnt[q]
  <1>1. ToSet(used) \in SUBSET Pages
    BY DEF ToSet
  <1>2. PICK V : V = Victims
    OBVIOUS
  <1>3. V \in SUBSET Pages /\ IsFiniteSet(V) /\ V # {}
    BY <1>1, <1>2, PagesFinite DEF Victims
  <1>4. PICK p \in V : \A q \in V : cnt[p] <= cnt[q]
    <2> DEFINE f == [q \in V |-> cnt[q]]
    <2>1. f \in [V -> Int] /\ \A q \in V : f[q] = cnt[q]
      BY <1>3
    <2> HIDE DEF f
    <2>2. \E x \in V : \A y \in V : f[x] <= f[y]
      BY <2>1, <1>3, LeastBy
    <2> QED BY <2>1, <2>2
  <1>5. PICK E : E = {q \in V : cnt[q] = cnt[p]}
    OBVIOUS
  <1>6. E \in SUBSET Pages /\ IsFiniteSet(E) /\ E # {}
    BY <1>3, <1>4, <1>5, PagesFinite
  <1>7. PICK m \in E : \A q \in E : seq[m] <= seq[q]
    <2> DEFINE f == [q \in E |-> seq[q]]
    <2>1. f \in [E -> Int] /\ \A q \in E : f[q] = seq[q]
      BY <1>6
    <2> HIDE DEF f
    <2>2. \E x \in E : \A y \in E : f[x] <= f[y]
      BY <2>1, <1>6, LeastBy
    <2> QED BY <2>1, <2>2
  <1>8. m \in V /\ cnt[m] = cnt[p]
    BY <1>5, <1>7
  <1>9. \A q \in V : cnt[m] < cnt[q] \/ (cnt[m] = cnt[q] /\ seq[m] <= seq[q])
    <2> TAKE q \in V
    <2>1. cnt[p] <= cnt[q] /\ cnt[p] \in Int /\ cnt[q] \in Int
      BY <1>3, <1>4
    <2>2. CASE cnt[q] = cnt[p]
      BY <2>2, <1>5, <1>7, <1>8
    <2> QED BY <2>1, <2>2, <1>8
  <1>10. /\ Victim \in V
         /\ \A q \in V : \/ cnt[Victim] < cnt[q]
                         \/ cnt[Victim] = cnt[q] /\ seq[Victim] <= seq[q]
    BY <1>2, <1>8, <1>9 DEF Victim
  <1>11. \A q \in V : cnt[Victim] <= cnt[q]
    BY <1>10, <1>3
  <1> QED BY <1>1, <1>2, <1>10, <1>11 DEF Victims

-----------------------------------------------------------------------------
(* The entries of a key                                                    *)

\* The content of an entry: erased, spoilt, a header, or data of a value.
Cell == [c : {"blank", "junk"}]
        \cup [c : {"head"}, k : Keys, t : AnyType, n : Nat, v : Vals, f : Nat]
        \cup [c : {"data"}, v : Vals, o : Nat]

LEMMA SpanIs ==
    /\ \A c \in Cell : Span(c) \in Nat
    /\ \A c \in Cell : c.c = "head" => /\ c.k \in Keys /\ c.t \in AnyType
                                       /\ c.n \in Nat /\ c.v \in Vals /\ c.f \in Nat
    /\ \A c \in Cell : c.c \in {"blank", "junk", "head", "data"}
    /\ \A c \in Cell : c.c # "head" => Span(c) = 0
    /\ Blank \in Cell /\ Junk \in Cell
    /\ \A x, y \in Cell : Program(x, y) \in {y, Junk}
  BY DEF Cell, Span, AnyType, Blank, Junk, Program

LEMMA ListedIs ==
    ASSUME used \in Seq(Pages)
    PROVE  Listed \in SUBSET Pages
  BY DEF Listed, ToSet

\* A walk stops at entries of the page.
LEMMA WalkIn == \A p, span : Walk(p, span) \in SUBSET Slots
  BY DEF Walk

\* What a search for the elements of a key may find.
LEMMA LiveIs ==
    ASSUME used \in Seq(Pages), inst \in Instances, NEW k, NEW ty
    PROVE  /\ Live(k, ty) \in SUBSET (Pages \X Slots)
           /\ IsFiniteSet(Live(k, ty))
           /\ \A x \in Live(k, ty) :
                 /\ x[1] \in Listed /\ pst[x[1]] \in {"active", "full"}
                 /\ x[2] \in FindWalk(x[1])
                 /\ est[x[1]][x[2]] = "used" /\ At(x).c = "head"
                 /\ At(x).k = k /\ At(x).t \in ty
  <1>1. ASSUME NEW x \in Live(k, ty)
        PROVE  /\ x[1] \in Listed /\ pst[x[1]] \in {"active", "full"}
               /\ x[2] \in FindWalk(x[1])
               /\ est[x[1]][x[2]] = "used" /\ At(x).c = "head"
               /\ At(x).k = k /\ At(x).t \in ty
               /\ x = <<x[1], x[2]>>
    <2>1. PICK p \in Listed : pst[p] \in {"active", "full"} /\ x \in {p} \X LiveOn(p, k, ty)
      BY DEF Live
    <2>2. PICK i \in LiveOn(p, k, ty) : x = <<p, i>>
      BY <2>1
    <2>3. x[1] = p /\ x[2] = i
      BY <2>2
    <2> QED BY <2>1, <2>2, <2>3 DEF LiveOn, At
  <1>2. \A x \in Live(k, ty) : x \in Pages \X Slots
    <2> TAKE x \in Live(k, ty)
    <2>1. x = <<x[1], x[2]>> /\ x[1] \in Listed /\ x[2] \in FindWalk(x[1])
      BY <1>1
    <2>2. x[1] \in Pages /\ x[2] \in Slots
      BY <2>1, ListedIs, WalkIn DEF FindWalk
    <2> QED BY <2>1, <2>2
  <1>3. IsFiniteSet(Pages \X Slots)
    BY PagesFinite, SlotsAre, FS_Product
  <1> QED BY <1>1, <1>2, <1>3, FS_Subset

LEMMA FiniteImage ==
    ASSUME NEW S, IsFiniteSet(S), NEW e, NEW T, T = {e[x] : x \in S}
    PROVE  IsFiniteSet(T)
  <1> DEFINE g == [x \in S |-> e[x]]
  <1>1. g \in Surjection(S, T)
    BY DEF Surjection
  <1> QED BY <1>1, FS_Surjection

\* Entries in order are a finite list.
LEMMA InOrderFinite ==
    ASSUME NEW S, IsFiniteSet(S)
    PROVE  /\ InOrder(S) \in Seq(ToSet(InOrder(S)))
           /\ IsFiniteSet(ToSet(InOrder(S)))
  <1> DEFINE o == InOrder(S)
             n == Cardinality(S)
  <1>1. n \in Nat
    BY FS_CardinalityType
  <1>2. o = [i \in 1..n |-> CHOOSE x \in S : Cardinality({y \in S : Before(y, x)}) = i - 1]
    BY DEF InOrder, Ordered
  <1> HIDE DEF o, n
  <1>3. DOMAIN o = 1..n
    BY <1>2
  <1>4. o = [i \in 1..n |-> o[i]]
    <2>1. ASSUME NEW i \in 1..n
          PROVE  o[i] = CHOOSE x \in S : Cardinality({y \in S : Before(y, x)}) = i - 1
      BY <1>2
    <2> QED BY <1>2, <2>1, Zenon
  <1>5. o \in [1..n -> ToSet(o)]
    BY <1>3, <1>4 DEF ToSet
  <1>6. ToSet(o) = {o[i] : i \in 1..n}
    BY <1>3 DEF ToSet
  <1>7. IsFiniteSet(1..n)
    BY <1>1, FS_Interval
  <1>8. IsFiniteSet(ToSet(o))
    <2>1. PICK D : D = 1..n
      OBVIOUS
    <2>2. PICK T : T = ToSet(o)
      OBVIOUS
    <2>3. IsFiniteSet(D) /\ T = {o[i] : i \in D}
      BY <1>6, <1>7, <2>1, <2>2
    <2>4. IsFiniteSet(T)
      BY <2>3, FiniteImage
    <2> QED BY <2>2, <2>4
  <1> QED BY <1>1, <1>5, <1>8, ListOf DEF o

\* The first of several entries.
LEMMA FirstIs ==
    ASSUME seq \in [Pages -> Nat], N \in Nat,
           NEW S \in SUBSET (Pages \X Slots), S # {},
           \A x, y \in S : seq[x[1]] = seq[y[1]] => x[1] = y[1]
    PROVE  First(S) \in S /\ \A y \in S : First(S) = y \/ Before(First(S), y)
  <1> DEFINE f == [x \in S |-> seq[x[1]] * (N + 1) + x[2]]
  <1>1. IsFiniteSet(S)
    BY InOrderIs
  <1>2. \A x \in S : /\ x = <<x[1], x[2]>> /\ x[1] \in Pages /\ x[2] \in 1..N
                     /\ seq[x[1]] \in Nat
    BY DEF Slots
  <1>3. f \in [S -> Int] /\ \A x \in S : f[x] = seq[x[1]] * (N + 1) + x[2]
    BY <1>2
  <1> HIDE DEF f
  <1>4. PICK x \in S : \A y \in S : f[x] <= f[y]
    BY <1>1, <1>3, LeastBy
  <1>5. ASSUME NEW y \in S PROVE x = y \/ Before(x, y)
    <2>1. /\ seq[x[1]] \in Nat /\ seq[y[1]] \in Nat /\ x[2] \in 1..N /\ y[2] \in 1..N
          /\ x = <<x[1], x[2]>> /\ y = <<y[1], y[2]>>
      BY <1>2
    <2>2. ~(f[y] < f[x])
      <3>1. f[x] <= f[y] /\ f[x] \in Int /\ f[y] \in Int
        BY <1>3, <1>4
      <3> QED BY <3>1
    <2>3. ~(seq[y[1]] < seq[x[1]] \/ (seq[y[1]] = seq[x[1]] /\ y[2] < x[2]))
      <3>1. f[x] = seq[x[1]] * (N + 1) + x[2] /\ f[y] = seq[y[1]] * (N + 1) + y[2]
        BY <1>3
      <3> QED BY <2>1, <2>2, <3>1, KeyOrder
    <2>4. CASE seq[x[1]] = seq[y[1]]
      <3>1. x[1] = y[1]
        BY <2>4
      <3> QED BY <3>1, <2>1, <2>3 DEF Before
    <2>5. CASE seq[x[1]] # seq[y[1]]
      BY <2>1, <2>3, <2>5 DEF Before
    <2> QED BY <2>4, <2>5
  <1>6. \E z \in S : \A y \in S : z = y \/ Before(z, y)
    BY <1>5
  <1> QED BY <1>6 DEF First

\* The entries of a list of elements, and the entries of the fragments of a
\* key in order, are finitely many.
LEMMA FragmentsFinite ==
    ASSUME used \in Seq(Pages), inst \in Instances,
           slot \in [Pages -> [Slots -> Cell]], NEW k
    PROVE  /\ \A x \in Pages \X Slots : IsFiniteSet(Extent(x))
           /\ Fragments(k) \in Seq(ToSet(Fragments(k)))
           /\ IsFiniteSet(ToSet(Fragments(k)))
  <1>1. ASSUME NEW x \in Pages \X Slots PROVE IsFiniteSet(Extent(x))
    <2>1. x[1] \in Pages /\ x[2] \in Slots /\ At(x) \in Cell
      BY DEF At
    <2>2. x[2] \in Int /\ x[2] + Span(At(x)) \in Int
      BY <2>1, SpanIs, SlotsAre
    <2>3. IsFiniteSet(x[2] .. (x[2] + Span(At(x)))) /\ IsFiniteSet({x[1]})
      BY <2>2, FS_Interval, FS_Singleton
    <2> QED BY <2>3, FS_Product DEF Extent
  <1>2. PICK L : L = Live(k, {"bulk"})
    OBVIOUS
  <1>3. L \in SUBSET (Pages \X Slots) /\ IsFiniteSet(L)
    BY <1>2, LiveIs
  <1> DEFINE e == [x \in L |-> Extent(x)]
             T == {e[x] : x \in L}
  <1>4. IsFiniteSet(T)
    BY <1>3, FiniteImage
  <1>5. \A t \in T : IsFiniteSet(t)
    BY <1>1, <1>3
  <1>6. T = {Extent(x) : x \in Live(k, {"bulk"})}
    BY <1>2
  <1> HIDE DEF T
  <1>7. IsFiniteSet(UNION T)
    BY <1>4, <1>5, FS_UNION
  <1>8. Fragments(k) = InOrder(UNION T)
    BY <1>6 DEF Fragments
  <1> QED BY <1>1, <1>7, <1>8, InOrderFinite

LEMMA DeletionFinite ==
    ASSUME used \in Seq(Pages), inst \in Instances, seq \in [Pages -> Nat],
           slot \in [Pages -> [Slots -> Cell]], NEW k,
           \A p, q \in Listed : pst[p] \in {"active", "full"} /\ pst[q] \in {"active", "full"}
                                /\ seq[p] = seq[q] => p = q
    PROVE  /\ Deletion(k) \in Seq(ToSet(Deletion(k)))
           /\ IsFiniteSet(ToSet(Deletion(k)))
  <1>1. CASE Deletion(k) = <<>>
    <2>1. <<>> \in Seq(ToSet(<<>>)) /\ ToSet(<<>>) = {}
      BY DEF ToSet
    <2> QED BY <1>1, <2>1, FS_EmptySet
  <1>2. CASE Deletion(k) = InOrder(Extent(First(Live(k, AnyType)))) /\ Live(k, AnyType) # {}
    <2>1. PICK L : L = Live(k, AnyType)
      OBVIOUS
    <2>2. /\ L \in SUBSET (Pages \X Slots) /\ L # {}
          /\ \A x \in L : x[1] \in Listed /\ pst[x[1]] \in {"active", "full"}
      BY <1>2, <2>1, LiveIs
    <2>3. \A x, y \in L : seq[x[1]] = seq[y[1]] => x[1] = y[1]
      BY <2>2
    <2>4. N \in Nat
      BY SlotsAre
    <2>5. First(L) \in L
      BY <2>2, <2>3, <2>4, FirstIs
    <2>6. IsFiniteSet(Extent(First(L)))
      BY <2>2, <2>5, FragmentsFinite
    <2> QED BY <1>2, <2>1, <2>6, InOrderFinite
  <1>3. CASE Deletion(k) = <<First(Live(k, {"bulkinfo"}))>> \o Fragments(k)
    <2>1. PICK a : a = First(Live(k, {"bulkinfo"}))
      OBVIOUS
    <2>2. PICK s : s = Fragments(k)
      OBVIOUS
    <2>3. PICK d : d = <<a>> \o s
      OBVIOUS
    <2>4. PICK T : T = ToSet(s) \cup {a}
      OBVIOUS
    <2>5. s \in Seq(ToSet(s)) /\ IsFiniteSet(ToSet(s))
      BY <2>2, FragmentsFinite
    <2>6. s \in Seq(T) /\ <<a>> \in Seq(T)
      <3>1. s \in Seq(T)
        BY <2>4, <2>5, SeqMonotonic
      <3> QED BY <3>1, <2>4
    <2>7. d \in Seq(T)
      BY <2>3, <2>6, ConcatProperties
    <2>8. IsFiniteSet(T)
      BY <2>4, <2>5, FS_AddElement
    <2>9. ToSet(d) \in SUBSET T
      BY <2>7 DEF ToSet
    <2>10. d \in Seq(ToSet(d))
      <3>1. Len(d) \in Nat /\ d \in [1..Len(d) -> T] /\ DOMAIN d = 1..Len(d)
        BY <2>7, LenProperties
      <3>2. d \in [1..Len(d) -> ToSet(d)]
        BY <3>1 DEF ToSet
      <3> QED BY <3>1, <3>2, ListOf
    <2>11. IsFiniteSet(ToSet(d))
      BY <2>8, <2>9, FS_Subset
    <2>12. d = Deletion(k)
      BY <1>3, <2>1, <2>2, <2>3
    <2> QED BY <2>10, <2>11, <2>12
  <1> QED BY <1>1, <1>2, <1>3 DEF Deletion

\* nvds_data_get returns a value, that there is none, or the bytes of several.
LEMMA DataGetIs ==
    ASSUME used \in Seq(Pages), inst \in Instances, seq \in [Pages -> Nat],
           slot \in [Pages -> [Slots -> Cell]], NEW k,
           \A p, q \in Listed : pst[p] \in {"active", "full"} /\ pst[q] \in {"active", "full"}
                                /\ seq[p] = seq[q] => p = q
    PROVE  DataGet(k) \in Vals \cup {Absent, Mixed}
  <1>1. BulkGet(k) \in Vals \cup {Absent, Mixed}
    BY Zenon DEF BulkGet, Vals
  <1>2. PICK L : L = Live(k, AnyType)
    OBVIOUS
  <1>3. /\ L \in SUBSET (Pages \X Slots)
        /\ \A x \in L : /\ x[1] \in Listed /\ pst[x[1]] \in {"active", "full"}
                        /\ At(x).c = "head"
    BY <1>2, LiveIs
  <1>4. CASE L # {}
    <2>1. \A x, y \in L : seq[x[1]] = seq[y[1]] => x[1] = y[1]
      BY <1>3
    <2>2. N \in Nat
      BY SlotsAre
    <2>3. PICK z : z = First(L)
      OBVIOUS
    <2>4. z \in L
      BY <1>3, <1>4, <2>1, <2>2, <2>3, FirstIs
    <2>5. At(z) \in Cell /\ At(z).c = "head"
      BY <1>3, <2>4 DEF At
    <2>6. At(z).v \in Vals
      BY <2>5, SpanIs
    <2>7. DataGet(k) \in {At(z).v, Absent, BulkGet(k)}
      BY <1>2, <2>3, Zenon DEF DataGet
    <2> QED BY <1>1, <2>6, <2>7
  <1>5. CASE L = {}
    BY <1>2, <1>5 DEF DataGet
  <1> QED BY <1>4, <1>5

\* The counts stay numbers.
LEMMA DiscountedIs ==
    ASSUME cnt \in [Pages -> Int], NEW at, IsFiniteSet(ToSet(at))
    PROVE  Discounted(at) \in [Pages -> Int]
  <1>1. ASSUME NEW p \in Pages
        PROVE  cnt[p] - Cardinality({x \in ToSet(at) : x[1] = p}) \in Int
    <2>1. {x \in ToSet(at) : x[1] = p} \in SUBSET ToSet(at)
      OBVIOUS
    <2>2. Cardinality({x \in ToSet(at) : x[1] = p}) \in Nat
      BY <2>1, FS_Subset, FS_CardinalityType
    <2> QED BY <2>2
  <1> QED BY <1>1 DEF Discounted

\* What a boot makes of a page: the next free entry, and how many are in use.
LEMMA LoadNextIs ==
    ASSUME inst \in Instances, NEW p
    PROVE  LoadNext(p) \in 1 .. (N + 1)
  <1>1. LoadWalk(p) \in SUBSET Slots
    BY WalkIn DEF LoadWalk
  <1>2. Slots = 1..N /\ N \in Nat
    BY SlotsAre
  <1>3. LoadNext(p) \in LoadWalk(p) \cup {N + 1}
    BY DEF LoadNext
  <1> QED BY <1>1, <1>2, <1>3

LEMMA LoadCountIs ==
    ASSUME inst \in Instances, slot \in [Pages -> [Slots -> Cell]], NEW p \in Pages
    PROVE  LoadCount(p) \in Nat
  <1>1. PICK U : U = LoadUsedSlots(p)
    OBVIOUS
  <1>2. U \in SUBSET Slots
    BY <1>1, WalkIn DEF LoadUsedSlots, LoadWalk
  <1>3. IsFiniteSet(U)
    BY <1>2, SlotsAre, FS_Subset
  <1> DEFINE e == [i \in U |-> i .. (i + Span(slot[p][i]))]
             T == {e[i] : i \in U}
  <1>4. IsFiniteSet(T)
    BY <1>3, FiniteImage
  <1>5. \A i \in U : IsFiniteSet(i .. (i + Span(slot[p][i])))
    <2> TAKE i \in U
    <2>1. i \in Int /\ i + Span(slot[p][i]) \in Int
      BY <1>2, SpanIs, SlotsAre
    <2> QED BY <2>1, FS_Interval
  <1>6. \A t \in T : IsFiniteSet(t)
    BY <1>5
  <1>7. T = {i .. (i + Span(slot[p][i])) : i \in LoadUsedSlots(p)}
    BY <1>1
  <1> HIDE DEF T
  <1>8. IsFiniteSet(UNION T)
    BY <1>4, <1>6, FS_UNION
  <1>9. LoadCount(p) = Cardinality(UNION T)
    BY <1>7 DEF LoadCount
  <1> QED BY <1>8, <1>9, FS_CardinalityType

=============================================================================
