---------------------------- MODULE SequenceLemmas ----------------------------
(***************************************************************************)
(* Facts about sequences that the proofs about several components need:    *)
(* how often a queue holds an item, and induction over the length.         *)
(***************************************************************************)
EXTENDS Naturals, SequencesExt, FiniteSetTheorems, SequenceTheorems, WellFoundedInduction, TLAPS

(* The places of q that hold an element of S.                              *)
Where(q, S) == {i \in DOMAIN q : q[i] \in S}

Count(q, S) == Cardinality(Where(q, S))

(* The elements of q at the places pos[1], ..., pos[n].                    *)
Pick(q, pos, n) == [j \in 1..n |-> q[pos[j]]]

(* The places among pos[1], ..., pos[n] where q holds an element of S.     *)
WherePicked(q, pos, n, S) == {i \in Where(q, S) : \E j \in 1..n : pos[j] = i}

-----------------------------------------------------------------------------
(* Counting                                                                *)

(* A sequence has finitely many places.                                    *)
LEMMA WhereFinite ==
  ASSUME NEW Item, NEW q \in Seq(Item), NEW S
  PROVE  IsFiniteSet(Where(q, S)) /\ Count(q, S) \in Nat
  <1>1. IsFiniteSet(1..Len(q)) /\ DOMAIN q = 1..Len(q)
    BY FS_Interval, LenProperties
  <1>2. Where(q, S) \in SUBSET (1..Len(q))
    BY <1>1 DEF Where
  <1> QED BY <1>1, <1>2, FS_Subset, FS_CardinalityType DEF Count

LEMMA CountEmpty == \A S : Count(<<>>, S) = 0
  <1> TAKE S
  <1>1. Where(<<>>, S) = {}
    BY DEF Where
  <1> QED BY <1>1, FS_EmptySet DEF Count

LEMMA CountAppend ==
  ASSUME NEW Item, NEW q \in Seq(Item), NEW x \in Item, NEW S
  PROVE  Count(Append(q, x), S) = Count(q, S) + (IF x \in S THEN 1 ELSE 0)
  <1> DEFINE a == Append(q, x)
             n == Len(q) + 1
  <1>1. /\ DOMAIN q = 1..Len(q) /\ Len(q) \in Nat
        /\ DOMAIN a = 1..n
        /\ \A i \in 1..Len(q) : a[i] = q[i]
        /\ a[n] = x
    BY AppendProperties, LenProperties
  <1>2. IsFiniteSet(Where(q, S)) /\ Count(q, S) \in Nat
    BY WhereFinite
  <1>3. CASE x \in S
    <2>1. Where(a, S) = Where(q, S) \cup {n} /\ n \notin Where(q, S)
      <3> HIDE DEF a
      <3> QED BY <1>1, <1>3 DEF Where
    <2> QED BY <1>2, <1>3, <2>1, FS_AddElement DEF Count
  <1>4. CASE x \notin S
    <2>1. Where(a, S) = Where(q, S)
      <3> HIDE DEF a
      <3> QED BY <1>1, <1>4 DEF Where
    <2> QED BY <1>2, <1>4, <2>1 DEF Count
  <1> QED BY <1>3, <1>4

(* Picking elements keeps the count of what is picked.                     *)
LEMMA CountPick ==
  ASSUME NEW Item, NEW q \in Seq(Item), NEW n \in Nat, NEW pos \in [1..n -> DOMAIN q],
         \A i, j \in 1..n : pos[i] = pos[j] => i = j, NEW S
  PROVE  /\ Pick(q, pos, n) \in Seq(Item)
         /\ Len(Pick(q, pos, n)) = n
         /\ Count(Pick(q, pos, n), S) = Cardinality(WherePicked(q, pos, n, S))
  <1> DEFINE p == Pick(q, pos, n)
             A == Where(p, S)
             B == WherePicked(q, pos, n, S)
             f == [j \in A |-> pos[j]]
  <1>1. p \in Seq(Item) /\ Len(p) = n /\ DOMAIN p = 1..n
    <2>1. DOMAIN q = 1..Len(q)
      BY LenProperties
    <2>2. \A j \in 1..n : q[pos[j]] \in Item
      BY <2>1, ElementOfSeq
    <2>3. p \in [1..n -> Item]
      BY <2>2 DEF Pick
    <2> QED BY <2>3
  <1>2. f \in [A -> B]
    <2> SUFFICES ASSUME NEW j \in A PROVE pos[j] \in B
      OBVIOUS
    <2>1. j \in 1..n /\ q[pos[j]] \in S
      BY <1>1 DEF Where, Pick
    <2> QED BY <2>1 DEF Where, WherePicked
  <1>3. \A x, y \in A : f[x] = f[y] => x = y
    BY <1>1 DEF Where
  <1>4. \A t \in B : \E j \in A : f[j] = t
    <2> SUFFICES ASSUME NEW t \in B PROVE \E j \in A : f[j] = t
      OBVIOUS
    <2>1. PICK j \in 1..n : pos[j] = t
      BY DEF WherePicked
    <2>2. j \in A
      BY <1>1, <2>1 DEF Where, Pick, WherePicked
    <2> QED BY <2>1, <2>2
  <1>5. f \in Bijection(A, B)
    <2> HIDE DEF f, A, B
    <2> QED BY <1>2, <1>3, <1>4 DEF Bijection, Injection, Surjection, IsInjective
  <1>6. IsFiniteSet(A)
    BY <1>1, WhereFinite
  <1>7. Cardinality(A) = Cardinality(B)
    <2> HIDE DEF f, A, B
    <2> QED BY <1>5, <1>6, FS_Bijection DEF ExistsBijection
  <1> QED BY <1>1, <1>7 DEF Count

LEMMA CountTail ==
  ASSUME NEW Item, NEW q \in Seq(Item), q # <<>>, NEW S
  PROVE  Count(Tail(q), S) = Count(q, S) - (IF Head(q) \in S THEN 1 ELSE 0)
  <1> DEFINE n == Len(q) - 1
             pos == [j \in 1..n |-> j + 1]
  <1>1. Len(q) \in Nat \ {0} /\ DOMAIN q = 1..Len(q)
    BY EmptySeq, LenProperties
  <1>2. n \in Nat /\ pos \in [1..n -> DOMAIN q]
    BY <1>1
  <1>4. \A i, j \in 1..n : pos[i] = pos[j] => i = j
    BY <1>1
  <1>5. WherePicked(q, pos, n, S) = Where(q, S) \ {1}
    <2>1. ASSUME NEW i \in Where(q, S), i # 1 PROVE \E j \in 1..n : pos[j] = i
      <3>1. i \in 2..Len(q)
        BY <1>1, <2>1 DEF Where
      <3>2. i - 1 \in 1..n /\ (i - 1) + 1 = i
        BY <1>1, <3>1
      <3> QED BY <3>2
    <2>2. \A j \in 1..n : pos[j] # 1
      BY <1>1
    <2> HIDE DEF pos
    <2> QED BY <2>1, <2>2 DEF WherePicked
  <1>6. /\ Pick(q, pos, n) \in Seq(Item) /\ Len(Pick(q, pos, n)) = n
        /\ Count(Pick(q, pos, n), S) = Cardinality(Where(q, S) \ {1})
    <2> HIDE DEF pos, n
    <2>1. /\ Pick(q, pos, n) \in Seq(Item) /\ Len(Pick(q, pos, n)) = n
          /\ Count(Pick(q, pos, n), S) = Cardinality(WherePicked(q, pos, n, S))
      BY <1>2, <1>4, CountPick
    <2> QED BY <1>5, <2>1
  <1>7. Tail(q) = Pick(q, pos, n)
    <2>1. /\ Tail(q) \in Seq(Item) /\ Len(Tail(q)) = n
          /\ \A i \in 1..n : Tail(q)[i] = q[i + 1]
      BY HeadTailProperties
    <2>2. \A i \in 1..n : Pick(q, pos, n)[i] = q[i + 1]
      BY DEF Pick
    <2> HIDE DEF n
    <2> QED BY <1>6, <2>1, <2>2, SeqEqual
  <1>8. 1 \in Where(q, S) <=> Head(q) \in S
    BY <1>1 DEF Where
  <1>9. Cardinality(Where(q, S) \ {1}) = Count(q, S) - (IF Head(q) \in S THEN 1 ELSE 0)
    <2>1. IsFiniteSet(Where(q, S)) /\ Count(q, S) \in Nat
      BY WhereFinite
    <2>2. Cardinality(Where(q, S) \ {1}) = IF 1 \in Where(q, S) THEN Count(q, S) - 1
                                                               ELSE Count(q, S)
      BY <2>1, FS_RemoveElement DEF Count
    <2> QED BY <1>8, <2>1, <2>2
  <1> QED BY <1>6, <1>7, <1>9

(* Somewhere or nowhere.                                                   *)
LEMMA CountPositive ==
  ASSUME NEW Item, NEW q \in Seq(Item), NEW S
  PROVE  Count(q, S) > 0 <=> \E i \in DOMAIN q : q[i] \in S
  <1>1. IsFiniteSet(Where(q, S)) /\ Count(q, S) \in Nat
    BY WhereFinite
  <1>2. Count(q, S) = 0 <=> Where(q, S) = {}
    BY <1>1, FS_EmptySet DEF Count
  <1> QED BY <1>1, <1>2 DEF Where

-----------------------------------------------------------------------------
(* Induction                                                               *)

(* Over the natural numbers, with a set in the place of a predicate.       *)
LEMMA SetInduction ==
  ASSUME NEW S, 0 \in S, \A n \in Nat : n \in S => n + 1 \in S
  PROVE  Nat \subseteq S
  <1> DEFINE T == Nat \ S
             R == {ss \in Nat \X Nat : ss[1] < ss[2]}
  <1>1. SUFFICES ASSUME T # {} PROVE FALSE
    OBVIOUS
  <1>2. IsWellFoundedOn(R, Nat)
    BY NatLessThanWellFounded DEF OpToRel
  <1>3. PICK x \in T : \A y \in T : ~ (<<y, x>> \in R)
    <2> HIDE DEF T, R
    <2>1. T \subseteq Nat
      BY DEF T
    <2> QED BY <1>1, <1>2, <2>1, WFMin
  <1>4. x # 0 /\ x - 1 \in Nat
    OBVIOUS
  <1>5. <<x - 1, x>> \in R
    BY <1>4
  <1>6. x - 1 \in S
    BY <1>3, <1>4, <1>5
  <1> QED BY <1>4, <1>6

(* A set of numbers has a least element.                                   *)
LEMMA LeastExists ==
  ASSUME NEW S \in SUBSET Nat, S # {}
  PROVE  Min(S) \in S /\ \A y \in S : Min(S) <= y
  <1> DEFINE R == {ss \in Nat \X Nat : ss[1] < ss[2]}
  <1>1. IsWellFoundedOn(R, Nat)
    BY NatLessThanWellFounded DEF OpToRel
  <1>2. PICK x \in S : \A y \in S : ~ (<<y, x>> \in R)
    <2> HIDE DEF R
    <2> QED BY <1>1, WFMin
  <1>3. \A y \in S : x <= y
    <2> SUFFICES ASSUME NEW y \in S, y < x PROVE FALSE
      OBVIOUS
    <2>1. <<y, x>> \in R
      OBVIOUS
    <2> QED BY <1>2, <2>1
  <1> QED BY <1>3 DEF Min

(* f[0], f[1], ..., f[n] are a, step[1][a], step[2][step[1][a]], ...       *)
Iterates(f, a, step, n) ==
  f[0] = a /\ \A i \in 1..n : f[i] = step[i][f[i - 1]]

(* What a recursive function over 0..N asks for exists.                    *)
LEMMA IterationExists ==
  ASSUME NEW X, NEW a \in X, NEW N \in Nat, NEW step \in [1..N -> [X -> X]]
  PROVE  \E f \in [0..N -> X] : Iterates(f, a, step, N)
  <1> DEFINE S == {m \in Nat : m <= N => \E f \in [0..m -> X] : Iterates(f, a, step, m)}
  <1>1. 0 \in S
    <2> DEFINE f == [i \in 0..0 |-> a]
    <2>1. f \in [0..0 -> X] /\ f[0] = a
      OBVIOUS
    <2> HIDE DEF f
    <2> QED BY <2>1 DEF Iterates
  <1>2. ASSUME NEW m \in Nat, m \in S PROVE m + 1 \in S
    <2> SUFFICES ASSUME m + 1 <= N
                 PROVE  \E g \in [0..(m + 1) -> X] : Iterates(g, a, step, m + 1)
      OBVIOUS
    <2>1. PICK f \in [0..m -> X] : Iterates(f, a, step, m)
      BY <1>2
    <2> DEFINE y == step[m + 1][f[m]]
               g == [i \in 0..(m + 1) |-> IF i = m + 1 THEN y ELSE f[i]]
    <2>2. y \in X
      <3>1. f[m] \in X /\ m + 1 \in 1..N
        OBVIOUS
      <3> QED BY <3>1
    <2>3. g \in [0..(m + 1) -> X]
      BY <2>2
    <2>4. g[0] = a /\ \A i \in 1..m : g[i] = f[i] /\ g[i - 1] = f[i - 1]
      BY <2>1 DEF Iterates
    <2>5. g[m + 1] = step[m + 1][g[m]]
      OBVIOUS
    <2>6. \A i \in 1..(m + 1) : g[i] = step[i][g[i - 1]]
      <3> HIDE DEF g, y
      <3> SUFFICES ASSUME NEW i \in 1..(m + 1) PROVE g[i] = step[i][g[i - 1]]
        OBVIOUS
      <3>1. CASE i = m + 1
        <4>1. i - 1 = m
          BY <3>1
        <4> QED BY <3>1, <4>1, <2>5
      <3>2. CASE i # m + 1
        BY <2>1, <2>4, <3>2 DEF Iterates
      <3> QED BY <3>1, <3>2
    <2> HIDE DEF g, y
    <2> QED BY <2>3, <2>4, <2>6 DEF Iterates
  <1>3. N \in S
    <2> HIDE DEF S
    <2> QED BY <1>1, <1>2, SetInduction
  <1> QED BY <1>3

LEMMA ConcatElements ==
  ASSUME NEW Item, NEW s \in Seq(Item), NEW t \in Seq(Item)
  PROVE  s \o t \in Seq(Item) /\ ToSet(s \o t) = ToSet(s) \cup ToSet(t)
  <1> DEFINE r == s \o t
  <1>1. /\ r \in Seq(Item) /\ Len(r) = Len(s) + Len(t) /\ Len(s) \in Nat /\ Len(t) \in Nat
        /\ DOMAIN r = 1..Len(s) + Len(t) /\ DOMAIN s = 1..Len(s) /\ DOMAIN t = 1..Len(t)
        /\ \A i \in 1..Len(s) + Len(t) : r[i] = IF i <= Len(s) THEN s[i] ELSE t[i - Len(s)]
    <2>1. /\ r \in Seq(Item) /\ Len(r) = Len(s) + Len(t)
          /\ \A i \in 1..Len(s) + Len(t) : r[i] = IF i <= Len(s) THEN s[i] ELSE t[i - Len(s)]
      BY ConcatProperties
    <2> HIDE DEF r
    <2>2. DOMAIN r = 1..Len(s) + Len(t)
      BY <2>1, LenProperties
    <2> QED BY <2>1, <2>2, LenProperties
  <1> HIDE DEF r
  <1>2. ASSUME NEW i \in DOMAIN r PROVE r[i] \in ToSet(s) \cup ToSet(t)
    <2>1. CASE i <= Len(s)
      BY <1>1, <2>1 DEF ToSet
    <2>2. CASE i > Len(s)
      <3>1. i - Len(s) \in DOMAIN t /\ r[i] = t[i - Len(s)]
        BY <1>1, <2>2
      <3> QED BY <3>1 DEF ToSet
    <2> QED BY <1>1, <2>1, <2>2
  <1>3. ASSUME NEW i \in DOMAIN s PROVE s[i] \in ToSet(r)
    BY <1>1 DEF ToSet
  <1>4. ASSUME NEW i \in DOMAIN t PROVE t[i] \in ToSet(r)
    <2>1. i + Len(s) \in DOMAIN r /\ r[i + Len(s)] = t[i]
      BY <1>1
    <2> QED BY <2>1 DEF ToSet
  <1>5. ToSet(r) = ToSet(s) \cup ToSet(t)
    BY <1>2, <1>3, <1>4 DEF ToSet
  <1> QED BY <1>1, <1>5 DEF r

-----------------------------------------------------------------------------
(* Sequences without repetition                                            *)

(* A sequence of elements of Item that holds the elements of S, each once. *)
Lists(q, S, Item) == q \in Seq(Item) /\ IsInjective(q) /\ ToSet(q) = S

LEMMA ElementsOf ==
  ASSUME NEW Item, NEW q \in Seq(Item)
  PROVE  /\ ToSet(q) \subseteq Item
         /\ \A x : x \in ToSet(q) <=> \E i \in 1..Len(q) : q[i] = x
         /\ ToSet(q) = {} <=> q = <<>>
  <1>1. DOMAIN q = 1..Len(q) /\ Len(q) \in Nat
    BY LenProperties
  <1>2. q # <<>> => q[1] \in ToSet(q)
    BY <1>1, EmptySeq DEF ToSet
  <1>3. q = <<>> => ToSet(q) = {}
    BY DEF ToSet
  <1>4. ToSet(q) \subseteq Item
    BY <1>1, ElementOfSeq DEF ToSet
  <1> QED BY <1>1, <1>2, <1>3, <1>4 DEF ToSet

LEMMA EmptyLists == \A Item : Lists(<<>>, {}, Item)
  <1>1. \A Item : <<>> \in Seq(Item)
    BY EmptySeq
  <1> QED BY <1>1 DEF Lists, IsInjective, ToSet

LEMMA AppendLists ==
  ASSUME NEW Item, NEW q, NEW S, Lists(q, S, Item), NEW x \in Item, x \notin S
  PROVE  Lists(Append(q, x), S \cup {x}, Item)
  <1> DEFINE a == Append(q, x)
  <1>1. q \in Seq(Item) /\ DOMAIN q = 1..Len(q) /\ Len(q) \in Nat
    BY LenProperties DEF Lists
  <1>2. /\ a \in Seq(Item) /\ Len(a) = Len(q) + 1 /\ DOMAIN a = 1..Len(q) + 1
        /\ \A i \in 1..Len(q) : a[i] = q[i] /\ q[i] # x
        /\ a[Len(q) + 1] = x
    BY <1>1, AppendProperties DEF Lists, ToSet
  <1>3. ToSet(a) = S \cup {x}
    <2> HIDE DEF a
    <2> QED BY <1>1, <1>2 DEF Lists, ToSet
  <1>4. IsInjective(a)
    <2> HIDE DEF a
    <2> QED BY <1>1, <1>2 DEF Lists, IsInjective
  <1> QED BY <1>2, <1>3, <1>4 DEF Lists

LEMMA TailLists ==
  ASSUME NEW Item, NEW q, NEW S, Lists(q, S, Item), q # <<>>
  PROVE  Head(q) \in S /\ Lists(Tail(q), S \ {Head(q)}, Item)
  <1> DEFINE t == Tail(q)
             n == Len(q) - 1
  <1>1. q \in Seq(Item) /\ DOMAIN q = 1..Len(q) /\ Len(q) \in Nat \ {0}
    BY EmptySeq, LenProperties DEF Lists
  <1>2. /\ t \in Seq(Item) /\ DOMAIN t = 1..n /\ Head(q) = q[1]
        /\ \A i \in 1..n : t[i] = q[i + 1]
    <2>1. /\ t \in Seq(Item) /\ Len(t) = n /\ Head(q) = q[1]
          /\ \A i \in 1..n : t[i] = q[i + 1]
      BY <1>1, HeadTailProperties
    <2> QED BY <2>1, LenProperties
  <1> HIDE DEF t
  <1>3. \A i, j \in 1..Len(q) : q[i] = q[j] => i = j
    BY <1>1 DEF Lists, IsInjective
  <1>4. IsInjective(t)
    <2>1. ASSUME NEW i \in 1..n, NEW j \in 1..n, t[i] = t[j] PROVE i = j
      <3>1. i + 1 \in 1..Len(q) /\ j + 1 \in 1..Len(q)
        BY <1>1
      <3>2. i + 1 = j + 1
        BY <1>2, <1>3, <2>1, <3>1
      <3> QED BY <3>2
    <2> QED BY <1>2, <2>1 DEF IsInjective
  <1>5. ASSUME NEW i \in 1..n PROVE t[i] \in S /\ t[i] # q[1]
    <2>1. i + 1 \in 1..Len(q) /\ 1 \in 1..Len(q) /\ i + 1 # 1
      BY <1>1
    <2> QED BY <1>1, <1>2, <1>3, <2>1 DEF Lists, ToSet
  <1>6. ASSUME NEW x \in S, x # q[1] PROVE x \in ToSet(t)
    <2>1. PICK i \in 1..Len(q) : x = q[i]
      BY <1>1 DEF Lists, ToSet
    <2>2. i - 1 \in 1..n /\ t[i - 1] = x
      BY <1>1, <1>2, <1>6, <2>1
    <2> QED BY <1>2, <2>2 DEF ToSet
  <1>7. ToSet(t) = S \ {q[1]}
    BY <1>2, <1>5, <1>6 DEF ToSet
  <1>8. q[1] \in S
    BY <1>1 DEF Lists, ToSet
  <1> QED BY <1>2, <1>4, <1>7, <1>8 DEF Lists, t

LEMMA PrependLists ==
  ASSUME NEW Item, NEW q, NEW S, Lists(q, S, Item), NEW x \in Item, x \notin S
  PROVE  Lists(<<x>> \o q, S \cup {x}, Item)
  <1> DEFINE a == <<x>> \o q
  <1>1. q \in Seq(Item) /\ DOMAIN q = 1..Len(q) /\ Len(q) \in Nat
    BY LenProperties DEF Lists
  <1>2. /\ a \in Seq(Item) /\ Len(a) = Len(q) + 1 /\ DOMAIN a = 1..Len(q) + 1
        /\ \A i \in 1..Len(q) : a[i + 1] = q[i] /\ q[i] # x
        /\ a[1] = x
    <2>1. <<x>> \in Seq(Item) /\ Len(<<x>>) = 1 /\ <<x>>[1] = x
      OBVIOUS
    <2>2. /\ a \in Seq(Item) /\ Len(a) = Len(<<x>>) + Len(q)
          /\ \A i \in 1..Len(<<x>>) + Len(q) :
               a[i] = IF i <= Len(<<x>>) THEN <<x>>[i] ELSE q[i - Len(<<x>>)]
      BY <1>1, <2>1, ConcatProperties
    <2>3. DOMAIN a = 1..Len(q) + 1
      BY <2>1, <2>2, LenProperties
    <2>4. \A i \in 1..Len(q) + 1 : a[i] = IF i <= 1 THEN x ELSE q[i - 1]
      BY <1>1, <2>1, <2>2
    <2>5. \A i \in 1..Len(q) : a[i + 1] = q[i]
      <3> HIDE DEF a
      <3> QED BY <1>1, <2>4
    <2> HIDE DEF a
    <2> QED BY <1>1, <2>1, <2>2, <2>3, <2>4, <2>5 DEF Lists, ToSet
  <1>3. \A i \in DOMAIN a : i = 1 \/ (i - 1 \in 1..Len(q) /\ a[i] = q[i - 1])
    <2> HIDE DEF a
    <2> QED BY <1>1, <1>2
  <1>4. ToSet(a) = S \cup {x}
    <2> HIDE DEF a
    <2>1. \A i \in 1..Len(q) : i + 1 \in DOMAIN a
      BY <1>1, <1>2
    <2>2. 1 \in DOMAIN a
      BY <1>1, <1>2
    <2>3. \A y \in S \cup {x} : \E i \in DOMAIN a : a[i] = y
      BY <1>1, <1>2, <2>1, <2>2 DEF Lists, ToSet
    <2>4. \A i \in DOMAIN a : a[i] \in S \cup {x}
      BY <1>1, <1>2, <1>3 DEF Lists, ToSet
    <2> QED BY <2>3, <2>4 DEF ToSet
  <1>5. IsInjective(a)
    <2> HIDE DEF a
    <2> QED BY <1>1, <1>2, <1>3 DEF Lists, IsInjective
  <1> QED BY <1>2, <1>4, <1>5 DEF Lists

LEMMA RemoveAtLists ==
  ASSUME NEW Item, NEW q, NEW S, Lists(q, S, Item), NEW n \in DOMAIN q
  PROVE  Lists(RemoveAt(q, n), S \ {q[n]}, Item)
  <1> DEFINE a == SubSeq(q, 1, n - 1)
             b == SubSeq(q, n + 1, Len(q))
             r == a \o b
  <1>1. /\ q \in Seq(Item) /\ DOMAIN q = 1..Len(q) /\ Len(q) \in Nat /\ n \in 1..Len(q)
        /\ \A i \in 1..Len(q) : q[i] \in Item
    BY LenProperties, ElementOfSeq DEF Lists
  <1>2. /\ a \in Seq(Item) /\ Len(a) = n - 1
        /\ \A i \in 1..n - 1 : a[i] = q[i]
    <2>1. /\ a \in Seq(Item) /\ Len(a) = IF 1 <= n - 1 THEN (n - 1) - 1 + 1 ELSE 0
          /\ \A i \in 1..(n - 1) - 1 + 1 : a[i] = q[1 + i - 1]
      <3>1. n - 1 \in Int /\ \A i \in 1..n - 1 : q[i] \in Item
        BY <1>1
      <3> QED BY <3>1, SubSeqProperties
    <2> HIDE DEF a
    <2> QED BY <1>1, <2>1
  <1>3. /\ b \in Seq(Item) /\ Len(b) = Len(q) - n
        /\ \A i \in 1..Len(q) - n : b[i] = q[n + i]
    <2>1. /\ b \in Seq(Item) /\ Len(b) = IF n + 1 <= Len(q) THEN Len(q) - (n + 1) + 1 ELSE 0
          /\ \A i \in 1..Len(q) - (n + 1) + 1 : b[i] = q[(n + 1) + i - 1]
      <3>1. n + 1 \in Int /\ Len(q) \in Int /\ \A i \in n + 1..Len(q) : q[i] \in Item
        BY <1>1
      <3> QED BY <3>1, SubSeqProperties
    <2> HIDE DEF b
    <2>2. \A i \in 1..Len(q) - n : (n + 1) + i - 1 = n + i /\ i \in 1..Len(q) - (n + 1) + 1
      BY <1>1
    <2>3. \A i \in 1..Len(q) - n : b[i] = q[n + i]
      BY <2>1, <2>2
    <2> QED BY <1>1, <2>1, <2>3
  <1>4. /\ r \in Seq(Item) /\ DOMAIN r = 1..Len(q) - 1
        /\ \A i \in 1..Len(q) - 1 : r[i] = IF i < n THEN q[i] ELSE q[i + 1]
    <2> HIDE DEF a, b
    <2>1. /\ r \in Seq(Item) /\ Len(r) = Len(a) + Len(b)
          /\ \A i \in 1..Len(a) + Len(b) : r[i] = IF i <= Len(a) THEN a[i] ELSE b[i - Len(a)]
      BY <1>2, <1>3, ConcatProperties
    <2> HIDE DEF r
    <2>2. Len(a) + Len(b) = Len(q) - 1
      BY <1>1, <1>2, <1>3
    <2>3. DOMAIN r = 1..Len(q) - 1
      BY <2>1, <2>2, LenProperties
    <2>4. \A i \in 1..Len(q) - 1 : i >= n => b[i - (n - 1)] = q[i + 1]
      <3> SUFFICES ASSUME NEW i \in 1..Len(q) - 1, i >= n PROVE b[i - (n - 1)] = q[i + 1]
        OBVIOUS
      <3>1. i - (n - 1) \in 1..Len(q) - n /\ n + (i - (n - 1)) = i + 1
        BY <1>1
      <3> QED BY <1>3, <3>1
    <2>5. \A i \in 1..Len(q) - 1 : r[i] = IF i < n THEN q[i] ELSE q[i + 1]
      <3> SUFFICES ASSUME NEW i \in 1..Len(q) - 1
                   PROVE  r[i] = IF i < n THEN q[i] ELSE q[i + 1]
        OBVIOUS
      <3>1. r[i] = IF i <= n - 1 THEN a[i] ELSE b[i - (n - 1)]
        BY <1>2, <2>1, <2>2
      <3>2. i <= n - 1 <=> i < n
        BY <1>1
      <3> QED BY <1>1, <1>2, <2>4, <3>1, <3>2
    <2> QED BY <2>1, <2>3, <2>5
  <1> HIDE DEF r
  <1>5. ToSet(r) = S \ {q[n]}
    <2>1. \A i \in DOMAIN r : r[i] \in S \ {q[n]}
      BY <1>1, <1>4 DEF Lists, IsInjective, ToSet
    <2>2. ASSUME NEW i \in 1..Len(q), i # n PROVE \E j \in DOMAIN r : r[j] = q[i]
      <3>1. CASE i < n
        BY <1>1, <1>4, <3>1
      <3>2. CASE i > n
        <4>1. i - 1 \in DOMAIN r /\ r[i - 1] = q[i]
          BY <1>1, <1>4, <3>2
        <4> QED BY <4>1
      <3> QED BY <1>1, <2>2, <3>1, <3>2
    <2>3. S = {q[i] : i \in 1..Len(q)}
      BY <1>1 DEF Lists, ToSet
    <2> QED BY <2>1, <2>2, <2>3 DEF ToSet
  <1>6. IsInjective(r)
    <2> DEFINE from == [i \in 1..Len(q) - 1 |-> IF i < n THEN i ELSE i + 1]
    <2>1. \A i \in 1..Len(q) - 1 : from[i] \in DOMAIN q /\ r[i] = q[from[i]]
      BY <1>1, <1>4
    <2>2. \A i, j \in 1..Len(q) - 1 : from[i] = from[j] => i = j
      BY <1>1
    <2> HIDE DEF from
    <2>3. \A i, j \in DOMAIN q : q[i] = q[j] => i = j
      BY DEF Lists, IsInjective
    <2> SUFFICES ASSUME NEW i \in 1..Len(q) - 1, NEW j \in 1..Len(q) - 1, r[i] = r[j]
                 PROVE  i = j
      BY <1>4 DEF IsInjective
    <2>4. q[from[i]] = q[from[j]] /\ from[i] \in DOMAIN q /\ from[j] \in DOMAIN q
      BY <2>1
    <2>5. from[i] = from[j]
      BY <2>3, <2>4
    <2> QED BY <2>2, <2>5
  <1>7. RemoveAt(q, n) = r
    BY DEF RemoveAt, r
  <1> QED BY <1>4, <1>5, <1>6, <1>7 DEF Lists

LEMMA RemoveFirstLists ==
  ASSUME NEW Item, NEW q, NEW S, Lists(q, S, Item), NEW x
  PROVE  Lists(RemoveFirst(q, x), S \ {x}, Item)
  <1>1. q \in Seq(Item) /\ DOMAIN q = 1..Len(q) /\ Len(q) \in Nat
    BY LenProperties DEF Lists
  <1>2. CASE x \in S
    <2> DEFINE I == {i \in 1..Len(q) : q[i] = x}
    <2>1. I # {} /\ I \in SUBSET Nat
      BY <1>1, <1>2 DEF Lists, ToSet
    <2>2. Min(I) \in I
      <3> HIDE DEF I
      <3> QED BY <2>1, LeastExists
    <2>3. RemoveFirst(q, x) = RemoveAt(q, Min(I))
      BY <2>1 DEF RemoveFirst, SelectInSeq
    <2>4. Min(I) \in DOMAIN q /\ q[Min(I)] = x
      BY <1>1, <2>2
    <2> HIDE DEF I
    <2> QED BY <2>3, <2>4, RemoveAtLists
  <1>3. CASE x \notin S
    BY <1>1, <1>3 DEF RemoveFirst, Lists, ToSet
  <1> QED BY <1>2, <1>3

LEMMA SetToSeqLists ==
  ASSUME NEW S, IsFiniteSet(S)
  PROVE  Lists(SetToSeq(S), S, S)
  <1> DEFINE n == Cardinality(S)
             F == {f \in [1..n -> S] : IsInjective(f)}
             q == SetToSeq(S)
  <1>1. n \in Nat /\ ExistsBijection(1..n, S)
    BY FS_CardinalityType
  <1>2. PICK g : g \in Bijection(1..n, S)
    BY <1>1 DEF ExistsBijection
  <1>3. g \in [1..n -> S] /\ IsInjective(g)
    BY <1>2 DEF Bijection, Injection
  <1>4. q \in [1..n -> S] /\ IsInjective(q)
    BY <1>3 DEF SetToSeq
  <1>5. IsFiniteSet(1..n) /\ Cardinality(1..n) = n
    <2> HIDE DEF n
    <2> QED BY <1>1, FS_Interval
  <1>6. q \in Injection(1..n, S)
    BY <1>4 DEF Injection
  <1>7. q \in Surjection(1..n, S)
    <2> HIDE DEF q
    <2> QED BY <1>5, <1>6, FS_Injection
  <1>8. ToSet(q) = S
    <2> HIDE DEF q, n
    <2> QED BY <1>4, <1>7 DEF Surjection, ToSet
  <1>9. q \in Seq(S)
    <2> HIDE DEF q, n
    <2> QED BY <1>1, <1>4
  <1> QED BY <1>4, <1>8, <1>9 DEF Lists
==============================================================================
