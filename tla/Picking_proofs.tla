--------------------------- MODULE Picking_proofs ---------------------------
(***************************************************************************)
(* What Picked keeps.  The library's induction theorems cannot be used for *)
(* a proof by induction on the prefix, because they are about operators;   *)
(* that a set of numbers has a least element (WFMin) can, and the lemmas   *)
(* below look at the least prefix for which they would fail.               *)
(***************************************************************************)
EXTENDS Picking, SequencesExt, SequenceTheorems, WellFoundedInduction, TLAPS

LEMMA LeastNumber ==
  ASSUME NEW N, N \subseteq Nat, N # {}
  PROVE  \E n \in N : \A k \in N : n <= k
<1> DEFINE R == OpToRel(<, Nat)
<1>1. IsWellFoundedOn(R, Nat)
  BY NatLessThanWellFounded
<1> HIDE DEF R
<1>2. PICK n \in N : \A k \in N : <<k, n>> \notin R
  BY <1>1, WFMin
<1>3. \A k \in N : ~(k < n)
  BY <1>2 DEF R, OpToRel
<1> QED
  BY <1>3

\* A set of numbers that has 0 and with a number below n the next one has them
\* all up to n.
LEMMA UpTo ==
  ASSUME NEW n \in Nat, NEW N, 0 \in N, \A k \in 0..(n - 1) : k \in N => k + 1 \in N
  PROVE  0..n \subseteq N
<1> DEFINE rest == (0..n) \ N
<1>1. SUFFICES ASSUME rest # {}  PROVE FALSE
  OBVIOUS
<1>2. rest \subseteq Nat
  OBVIOUS
<1> HIDE DEF rest
<1>3. PICK k \in rest : \A l \in rest : k <= l
  BY <1>1, <1>2, LeastNumber
<1>4. k \in 0..n /\ k \notin N
  BY DEF rest
<1>5. k - 1 \in 0..(n - 1) /\ k - 1 \notin rest
  BY <1>3, <1>4
<1>6. k - 1 \in N
  BY <1>5 DEF rest
<1> QED
  BY <1>4, <1>5, <1>6

-----------------------------------------------------------------------------
\* The function Picked is made of, up to i.
Picks(s, T, i) ==
    {f \in [0..i -> Seq(T)] :
       /\ f[0] = <<>>
       /\ \A k \in 1..i : f[k] = IF s[k] \in T THEN Append(f[k - 1], s[k]) ELSE f[k - 1]}

LEMMA PicksExists ==
  ASSUME NEW S, NEW s \in Seq(S), NEW T
  PROVE  Picks(s, T, Len(s)) # {}
<1> DEFINE N == {i \in Nat : Picks(s, T, i) # {}}
<1>1. 0 \in N
  <2> DEFINE f == [i \in 0..0 |-> <<>>]
  <2>1. <<>> \in Seq(T)
    OBVIOUS
  <2>2. f \in Picks(s, T, 0)
    BY <2>1 DEF Picks
  <2> QED
    BY <2>2
<1>2. ASSUME NEW i \in 0..(Len(s) - 1), i \in N  PROVE i + 1 \in N
  <2>1. PICK f : f \in Picks(s, T, i)
    BY <1>2
  <2> DEFINE next == IF s[i + 1] \in T THEN Append(f[i], s[i + 1]) ELSE f[i]
             g == [k \in 0..(i + 1) |-> IF k = i + 1 THEN next ELSE f[k]]
  <2>2. f \in [0..i -> Seq(T)] /\ f[i] \in Seq(T)
    BY <2>1 DEF Picks
  <2>3. next \in Seq(T)
    BY <2>2
  <2>4. g \in [0..(i + 1) -> Seq(T)]
    BY <2>2, <2>3
  <2>5. g[0] = <<>>
    BY <2>1 DEF Picks
  <2>6. ASSUME NEW k \in 1..(i + 1)
        PROVE  g[k] = IF s[k] \in T THEN Append(g[k - 1], s[k]) ELSE g[k - 1]
    <3>1. CASE k = i + 1
      BY <3>1
    <3>2. CASE k # i + 1
      BY <2>1, <3>2 DEF Picks
    <3> QED
      BY <3>1, <3>2
  <2> HIDE DEF g
  <2>7. g \in Picks(s, T, i + 1)
    BY <2>4, <2>5, <2>6 DEF Picks
  <2> QED
    BY <2>7
<1>3. Len(s) \in Nat
  OBVIOUS
<1> HIDE DEF N
<1>4. 0..Len(s) \subseteq N
  BY <1>1, <1>2, <1>3, UpTo
<1> QED
  BY <1>3, <1>4 DEF N

LEMMA PickedByPicks ==
  ASSUME NEW S, NEW s \in Seq(S), NEW T
  PROVE  \E f \in Picks(s, T, Len(s)) : Picked(s, T) = f[Len(s)]
<1> DEFINE Step(f) == [i \in 0..Len(s) |->
              IF i = 0 THEN <<>>
              ELSE IF s[i] \in T THEN Append(f[i - 1], s[i]) ELSE f[i - 1]]
           pick == CHOOSE f : f = Step(f)
<1>1. Picked(s, T) = pick[Len(s)]
  BY DEF Picked
<1>2. PICK f : f \in Picks(s, T, Len(s))
  BY PicksExists
<1>3. f = Step(f)
  <2>1. f \in [0..Len(s) -> Seq(T)] /\ f[0] = <<>>
    BY <1>2 DEF Picks
  <2>2. ASSUME NEW i \in 0..Len(s)  PROVE f[i] = Step(f)[i]
    <3>1. i = 0 \/ i \in 1..Len(s)
      OBVIOUS
    <3> QED
      BY <1>2, <2>1, <3>1 DEF Picks
  <2>3. DOMAIN f = 0..Len(s) /\ DOMAIN Step(f) = 0..Len(s)
    BY <2>1
  <2>4. f = [i \in 0..Len(s) |-> f[i]]
    BY <2>1
  <2> QED
    BY <2>2, <2>4
<1> HIDE DEF Step
<1>4. pick = Step(pick)
  BY <1>3
<1> HIDE DEF pick
<1>5. /\ pick[0] = <<>>
      /\ \A k \in 1..Len(s) :
           pick[k] = IF s[k] \in T THEN Append(pick[k - 1], s[k]) ELSE pick[k - 1]
  <2>1. ASSUME NEW i \in 0..Len(s)
        PROVE  pick[i] = IF i = 0 THEN <<>>
                         ELSE IF s[i] \in T THEN Append(pick[i - 1], s[i]) ELSE pick[i - 1]
    BY <1>4, Zenon DEF Step
  <2>2. 0 \in 0..Len(s) /\ \A k \in 1..Len(s) : k \in 0..Len(s) /\ k # 0
    OBVIOUS
  <2> QED
    BY <2>1, <2>2, Zenon
<1> DEFINE N == {i \in 0..Len(s) : pick[i] = f[i]}
<1>6. 0 \in N
  BY <1>2, <1>5 DEF Picks
<1>7. ASSUME NEW i \in 0..(Len(s) - 1), i \in N  PROVE i + 1 \in N
  BY <1>2, <1>5, <1>7 DEF Picks
<1>8. Len(s) \in Nat
  OBVIOUS
<1> HIDE DEF N
<1>9. 0..Len(s) \subseteq N
  BY <1>6, <1>7, <1>8, UpTo
<1> QED
  BY <1>1, <1>2, <1>8, <1>9 DEF N

\* p is the subsequence of the first n elements of s that has those in T: `at`
\* says where each of its elements comes from.
Places(p, s, T, n) ==
    {at \in [1..Len(p) -> 1..n] :
       /\ \A i \in 1..Len(p) : p[i] = s[at[i]] /\ s[at[i]] \in T
       /\ \A i, j \in 1..Len(p) : i < j => at[i] < at[j]
       /\ \A k \in 1..n : s[k] \in T => \E i \in 1..Len(p) : at[i] = k}

LEMMA PlacesSkip ==
  ASSUME NEW S, NEW s \in Seq(S), NEW T, NEW p \in Seq(T), NEW n \in 0..(Len(s) - 1),
         s[n + 1] \notin T, NEW at \in Places(p, s, T, n)
  PROVE  at \in Places(p, s, T, n + 1)
<1>1. 1..(n + 1) = (1..n) \cup {n + 1} /\ Len(s) \in Nat /\ Len(p) \in Nat
  OBVIOUS
<1>2. at \in [1..Len(p) -> 1..(n + 1)]
  BY <1>1 DEF Places
<1> QED
  BY <1>1, <1>2 DEF Places

LEMMA PlacesTake ==
  ASSUME NEW S, NEW s \in Seq(S), NEW T, NEW p \in Seq(T), NEW n \in 0..(Len(s) - 1),
         s[n + 1] \in T, NEW at \in Places(p, s, T, n)
  PROVE  Places(Append(p, s[n + 1]), s, T, n + 1) # {}
<1> DEFINE q == Append(p, s[n + 1])
           len == Len(p)
           b == [i \in 1..(len + 1) |-> IF i = len + 1 THEN n + 1 ELSE at[i]]
<1>1. /\ len \in Nat /\ Len(q) = len + 1 /\ q[len + 1] = s[n + 1]
      /\ \A i \in 1..len : q[i] = p[i]
  OBVIOUS
<1>2. /\ at \in [1..len -> 1..n]
      /\ \A i \in 1..len : p[i] = s[at[i]] /\ s[at[i]] \in T
      /\ \A i, j \in 1..len : i < j => at[i] < at[j]
      /\ \A k \in 1..n : s[k] \in T => \E i \in 1..len : at[i] = k
  BY DEF Places
<1> HIDE DEF len, q
<1>3. /\ b \in [1..(len + 1) -> 1..(n + 1)]
      /\ b[len + 1] = n + 1 /\ \A i \in 1..len : b[i] = at[i]
  BY <1>1, <1>2
<1> HIDE DEF b
<1>4. \A i \in 1..(len + 1) : q[i] = s[b[i]] /\ s[b[i]] \in T
  <2> TAKE i \in 1..(len + 1)
  <2>1. i = len + 1 \/ i \in 1..len
    BY <1>1
  <2> QED
    BY <1>1, <1>2, <1>3, <2>1
<1>5. \A i, j \in 1..(len + 1) : i < j => b[i] < b[j]
  <2> TAKE i, j \in 1..(len + 1)
  <2> HAVE i < j
  <2>1. i \in 1..len /\ at[i] \in 1..n
    BY <1>1, <1>2
  <2>2. CASE j = len + 1
    BY <1>3, <2>1, <2>2
  <2>3. CASE j \in 1..len
    BY <1>2, <1>3, <2>1, <2>3
  <2> QED
    BY <1>1, <2>2, <2>3
<1>6. \A k \in 1..(n + 1) : s[k] \in T => \E i \in 1..(len + 1) : b[i] = k
  <2> TAKE k \in 1..(n + 1)
  <2>1. CASE k = n + 1
    BY <1>1, <1>3, <2>1
  <2>2. CASE k # n + 1
    <3>1. k \in 1..n
      BY <2>2
    <3>2. s[k] \in T => \E i \in 1..len : at[i] = k
      BY <1>2, <3>1
    <3>3. 1..len \subseteq 1..(len + 1)
      BY <1>1
    <3> QED
      BY <1>3, <3>2, <3>3
  <2> QED
    BY <2>1, <2>2
<1>7. b \in Places(q, s, T, n + 1)
  BY <1>1, <1>3, <1>4, <1>5, <1>6, Zenon DEF Places
<1> QED
  BY <1>7 DEF q

\* Picked is the subsequence of the elements in T.
LEMMA PickedInPlaces ==
  ASSUME NEW S, NEW s \in Seq(S), NEW T
  PROVE  /\ Picked(s, T) \in Seq(T)
         /\ Places(Picked(s, T), s, T, Len(s)) # {}
<1>1. PICK f \in Picks(s, T, Len(s)) : Picked(s, T) = f[Len(s)]
  BY PickedByPicks
<1>2. /\ f \in [0..Len(s) -> Seq(T)] /\ f[0] = <<>>
      /\ \A k \in 1..Len(s) : f[k] = IF s[k] \in T THEN Append(f[k - 1], s[k]) ELSE f[k - 1]
  BY <1>1 DEF Picks
<1> DEFINE N == {i \in 0..Len(s) : Places(f[i], s, T, i) # {}}
<1>3. Len(s) \in Nat
  OBVIOUS
<1>4. 0 \in N
  <2>1. Len(f[0]) = 0 /\ 1..0 = {}
    BY <1>2
  <2>2. [i \in {} |-> 1] \in Places(f[0], s, T, 0)
    BY <2>1 DEF Places
  <2> QED
    BY <1>3, <2>2
<1>5. ASSUME NEW i \in 0..(Len(s) - 1), i \in N  PROVE i + 1 \in N
  <2>1. PICK at : at \in Places(f[i], s, T, i)
    BY <1>5
  <2>2. /\ f[i] \in Seq(T) /\ i + 1 \in 0..Len(s)
        /\ f[i + 1] = IF s[i + 1] \in T THEN Append(f[i], s[i + 1]) ELSE f[i]
    BY <1>2, <1>3
  <2>3. CASE s[i + 1] \in T
    BY <2>1, <2>2, <2>3, PlacesTake
  <2>4. CASE s[i + 1] \notin T
    BY <2>1, <2>2, <2>4, PlacesSkip
  <2> QED
    BY <2>3, <2>4
<1> HIDE DEF N
<1>6. 0..Len(s) \subseteq N
  BY <1>3, <1>4, <1>5, UpTo
<1> QED
  BY <1>1, <1>2, <1>3, <1>6 DEF N

\* Its elements are those of s that are in T.
LEMMA PickedElements ==
  ASSUME NEW S, NEW s \in Seq(S), NEW T
  PROVE  /\ Picked(s, T) \in Seq(S)
         /\ ToSet(Picked(s, T)) = ToSet(s) \cap T
<1> DEFINE p == Picked(s, T)
<1>1. p \in Seq(T) /\ Places(p, s, T, Len(s)) # {}
  BY PickedInPlaces
<1> HIDE DEF p
<1>2. PICK at \in [1..Len(p) -> 1..Len(s)] :
        /\ \A i \in 1..Len(p) : p[i] = s[at[i]] /\ s[at[i]] \in T
        /\ \A k \in 1..Len(s) : s[k] \in T => \E i \in 1..Len(p) : at[i] = k
  BY <1>1 DEF Places
<1>3. DOMAIN p = 1..Len(p) /\ DOMAIN s = 1..Len(s) /\ \A k \in 1..Len(s) : s[k] \in S
  BY <1>1
<1>4. \A i \in 1..Len(p) : p[i] \in S
  BY <1>2, <1>3
<1>5. p \in Seq(S)
  BY <1>1, <1>4
<1>6. ToSet(p) = ToSet(s) \cap T
  BY <1>2, <1>3 DEF ToSet
<1> QED
  BY <1>5, <1>6 DEF p
=============================================================================
