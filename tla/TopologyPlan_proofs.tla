-------------------------- MODULE TopologyPlan_proofs --------------------------
(***************************************************************************)
(* PlanTopology computes what it should, for every template: it never gives *)
(* out an ID twice, keeps every occupied Slot, drops the highest IDs first, *)
(* and plans as many Slots as are asked for unless it gives a reason.       *)
(*                                                                         *)
(* None of this is carried from one pass of the loop to the next by itself. *)
(* An ID is given out only if it is not in use, so the IDs in use must      *)
(* cover the plan so far and the Slots of the profiles yet to be visited;   *)
(* dropping a Slot takes its ID out of use, which is safe only because no   *)
(* other Slot, planned or to come, has it.  Good is the loop's invariant;   *)
(* each step of the loop keeps it, and so do the two loops.                 *)
(*                                                                         *)
(* Induction here is by least counterexample: a set of numbers for which a  *)
(* fact fails, if not empty, has a least element (LeastExists).             *)
(***************************************************************************)
EXTENDS TopologyPlan, FiniteSetTheorems, WellFoundedInduction, TLAPS

SlotsOver(profiles) == [id: Nat, profile: profiles]
PlansOver(profiles) ==
  [slots: SUBSET SlotsOver(profiles), used: SUBSET Nat, maxID: Int,
   reasons: SUBSET [id: Int, profile: profiles]]

\* A template t: its Slots, the counts it asks for, and the profiles there are.
TemplateOK(t) ==
  /\ t.current \in SUBSET SlotsOver(t.profiles) /\ IsFiniteSet(t.current) /\ UniqueIds(t.current)
  /\ DOMAIN t.counts \subseteq t.profiles /\ \A p \in DOMAIN t.counts : t.counts[p] \in Nat

Has(t, p)     == OfProfile(t.current, p)
Wants(t, p)   == Desired(t.counts, p)
Rest(t, left) == {c \in t.current : c.profile \in left}

IdsInUse(t, left, plan) ==
  /\ plan.maxID >= -1 /\ \A u \in plan.used : u <= plan.maxID
  /\ \A c \in plan.slots \cup Rest(t, left) : c.id \in plan.used
  /\ UniqueIds(plan.slots \cup Rest(t, left))

KeepsBusy(t, left, plan) == Busy(t.current, t.busy) \subseteq plan.slots \cup Rest(t, left)

HighestFirst(t, left, plan) ==
  \A c \in t.current \ (plan.slots \cup Rest(t, left)), d \in plan.slots \cap t.current :
    d.profile = c.profile /\ d.id > c.id => d.id \in t.busy

\* Of a profile that was visited there is what is wanted, but for the n Slots
\* that profile h still lacks.
Counted(t, left, plan, h, n) ==
  plan.reasons = {} =>
    \A p \in t.profiles \ left :
      Cardinality(OfProfile(plan.slots, p)) + (IF p = h THEN n ELSE 0) = Wants(t, p)

\* The loop's invariant, with the profiles in left yet to be visited and n Slots
\* of profile h yet to be added.
Good(t, left, plan, h, n) ==
  /\ plan \in PlansOver(t.profiles) /\ IsFiniteSet(plan.slots)
  /\ \A c \in plan.slots : c.profile \notin left
  /\ IdsInUse(t, left, plan) /\ KeepsBusy(t, left, plan) /\ HighestFirst(t, left, plan)
  /\ Counted(t, left, plan, h, n)
  /\ n > 0 => h \in t.profiles \ left /\ Has(t, h) \subseteq plan.slots

-----------------------------------------------------------------------------
(* Facts about the operators.                                               *)

\* A set of naturals that is not empty has a least element.
LEMMA LeastExists ==
  ASSUME NEW T \in SUBSET Nat, T # {}
  PROVE  \E x \in T : \A y \in T : x <= y
<1>1. PICK x \in T : \A y \in T : ~ (<<y, x>> \in OpToRel(<, Nat))
  BY NatLessThanWellFounded, WFMin
<1>2. \A y \in T : ~ (y < x)
  BY <1>1 DEF OpToRel
<1> QED
  BY <1>2

\* Max of a bounded set of naturals is what its name says.
LEMMA MaxOfBounded ==
  ASSUME NEW T \in SUBSET Nat, T # {}, NEW n \in Nat, \A t \in T : t <= n
  PROVE  Max(T) \in T /\ \A y \in T : y <= Max(T)
<1> DEFINE U == {n - t : t \in T}
<1>1. U \in SUBSET Nat
  <2> SUFFICES ASSUME NEW t \in T PROVE n - t \in Nat
    OBVIOUS
  <2>1. t \in Nat /\ t <= n
    OBVIOUS
  <2> QED
    BY <2>1
<1>1a. U # {}
  OBVIOUS
<1>2. PICK u \in U : \A v \in U : u <= v
  BY <1>1a, <1>1, LeastExists
<1>3. PICK x \in T : u = n - x
  OBVIOUS
<1>4. \A y \in T : x >= y
  <2> TAKE y \in T
  <2>1. n - y \in U
    OBVIOUS
  <2> QED
    BY <2>1, <1>2, <1>3
<1> QED
  BY <1>4 DEF Max

\* nextFreeID returns an ID that is not in use.
LEMMA NextFreeIsFree ==
  ASSUME NEW used \in SUBSET Nat, NEW maxID \in Int, maxID >= -1, \A u \in used : u <= maxID
  PROVE  NextFreeID(used, maxID) \in Nat /\ NextFreeID(used, maxID) \notin used
<1> DEFINE holes == (0 .. maxID) \ used
<1>1. CASE holes = {}
  <2>1. NextFreeID(used, maxID) = maxID + 1
    BY <1>1 DEF NextFreeID
  <2> QED
    BY <2>1
<1>2. CASE holes # {}
  <2>1. holes \in SUBSET Nat
    OBVIOUS
  <2>2. \E i \in holes : \A j \in holes : i <= j
    BY <1>2, <2>1, LeastExists
  <2>3. NextFreeID(used, maxID) \in holes
    BY <2>2, <1>2 DEF NextFreeID
  <2> QED
    BY <2>1, <2>3
<1> QED
  BY <1>1, <1>2

\* The lower of two Slots of a set has fewer below it: Lowest is closed below.
LEMMA LowestIsLow ==
  ASSUME NEW P, NEW E \in SUBSET SlotsOver(P), IsFiniteSet(E), NEW k \in Nat,
         NEW c \in E \ Lowest(E, k), NEW d \in Lowest(E, k)
  PROVE  d.id <= c.id
<1> SUFFICES ASSUME d.id > c.id PROVE FALSE
  BY DEF Lowest, SlotsOver
<1> DEFINE B(x) == {e \in E : e.id < x.id}
<1>1. B(c) \subseteq B(d) /\ IsFiniteSet(B(d)) /\ IsFiniteSet(B(c))
  BY FS_Subset DEF Lowest, SlotsOver
<1>2. Cardinality(B(c)) <= Cardinality(B(d)) /\ Cardinality(B(c)) \in Nat /\ Cardinality(B(d)) \in Nat
  BY <1>1, FS_Subset, FS_CardinalityType
<1>3. Cardinality(B(d)) < k /\ ~(Cardinality(B(c)) < k)
  BY DEF Lowest
<1> QED
  BY <1>2, <1>3

\* Lowest takes as many Slots as it is asked for: the number of Slots below a
\* Slot numbers the Slots from 0, so it is below n for exactly n of them.
LEMMA LowestCounts ==
  ASSUME NEW P, NEW E \in SUBSET SlotsOver(P), IsFiniteSet(E), UniqueIds(E),
         NEW n \in Nat, n <= Cardinality(E)
  PROVE  Cardinality(Lowest(E, n)) = n
<1> DEFINE k       == Cardinality(E)
           Under(c) == {d \in E : d.id < c.id}
           rank    == [c \in E |-> Cardinality(Under(c))]
           low     == Lowest(E, n)
           num     == [c \in low |-> rank[c]]
<1>1. k \in Nat
  BY FS_CardinalityType
<1>2. \A c \in E : IsFiniteSet(Under(c)) /\ Cardinality(Under(c)) \in Nat
  BY FS_Subset, FS_CardinalityType
<1>3. ASSUME NEW c \in E PROVE Cardinality(Under(c)) < k
  <2>1. Under(c) \in SUBSET E /\ c \notin Under(c)
    BY DEF SlotsOver
  <2>2. Cardinality(Under(c)) <= k /\ (k = Cardinality(Under(c)) => E = Under(c))
    <3> HIDE DEF Under
    <3> QED
      BY <2>1, FS_Subset
  <2>3. Cardinality(Under(c)) \in Nat
    BY <1>2
  <2>4. k # Cardinality(Under(c))
    BY <2>1, <2>2
  <2> HIDE DEF k, Under
  <2> QED
    BY <2>2, <2>3, <2>4, <1>1
<1>4. ASSUME NEW c \in E, NEW d \in E, c.id < d.id PROVE Cardinality(Under(c)) < Cardinality(Under(d))
  <2>1. Under(c) \in SUBSET Under(d) /\ c \in Under(d) /\ c \notin Under(c)
    BY <1>4 DEF SlotsOver
  <2>2. /\ Cardinality(Under(c)) <= Cardinality(Under(d))
        /\ (Cardinality(Under(d)) = Cardinality(Under(c)) => Under(d) = Under(c))
    <3>1. IsFiniteSet(Under(d))
      BY <1>2
    <3> HIDE DEF Under
    <3> QED
      BY <2>1, <3>1, FS_Subset
  <2> QED
    BY <2>1, <2>2, <1>2
<1>5. \A c \in E : rank[c] = Cardinality(Under(c)) /\ rank[c] \in 0 .. k - 1
  <2> SUFFICES ASSUME NEW c \in E PROVE rank[c] = Cardinality(Under(c)) /\ rank[c] \in 0 .. k - 1
    OBVIOUS
  <2>1. rank[c] = Cardinality(Under(c))
    OBVIOUS
  <2>2. Cardinality(Under(c)) \in Nat /\ Cardinality(Under(c)) < k
    BY <1>2, <1>3
  <2> HIDE DEF rank, k, Under
  <2> QED
    BY <1>1, <2>1, <2>2
<1>6. rank \in Injection(E, 0 .. k - 1)
  <2>1. rank \in [E -> 0 .. k - 1]
    BY <1>5
  <2>2. ASSUME NEW c \in E, NEW d \in E, rank[c] = rank[d] PROVE c = d
    <3>1. c.id \in Int /\ d.id \in Int
      BY DEF SlotsOver
    <3>2. Cardinality(Under(c)) = Cardinality(Under(d)) /\ Cardinality(Under(c)) \in Nat
      BY <2>2, <1>2, <1>5
    <3>3. ~(c.id < d.id) /\ ~(d.id < c.id)
      <4> HIDE DEF Under
      <4> QED
        BY <3>2, <1>4
    <3>4. c.id = d.id
      BY <3>1, <3>3
    <3> QED
      BY <3>4 DEF UniqueIds
  <2> HIDE DEF rank
  <2> QED
    BY <2>1, <2>2 DEF Injection, IsInjective
<1>7. IsFiniteSet(0 .. k - 1) /\ Cardinality(0 .. k - 1) = k
  <2>1. k - 1 \in Int /\ (IF 0 > k - 1 THEN 0 ELSE (k - 1) - 0 + 1) = k
    <3> HIDE DEF k
    <3> QED
      BY <1>1
  <2> HIDE DEF k
  <2> QED
    BY <2>1, FS_Interval
<1>8. rank \in Surjection(E, 0 .. k - 1)
  <2> HIDE DEF rank, k
  <2> QED
    BY <1>6, <1>7, FS_Injection DEF k
<1>9. \A c \in E : c \in low <=> rank[c] < n
  BY <1>5 DEF Lowest
<1>10. low \subseteq E
  BY DEF Lowest
<1> HIDE DEF rank, low, Under
<1>11. num \in [low -> 0 .. n - 1]
  BY <1>5, <1>9, <1>10, <1>1
<1>12. num \in Injection(low, 0 .. n - 1)
  BY <1>6, <1>10, <1>11 DEF Injection, IsInjective
<1>13. ASSUME NEW i \in 0 .. n - 1 PROVE \E c \in low : num[c] = i
  <2>1. i \in 0 .. k - 1
    BY <1>1
  <2>2. PICK c \in E : rank[c] = i
    BY <2>1, <1>8 DEF Surjection
  <2> QED
    BY <2>2, <1>9
<1>14. num \in Surjection(low, 0 .. n - 1)
  BY <1>11, <1>13 DEF Surjection
<1>15. IsFiniteSet(0 .. n - 1) /\ Cardinality(0 .. n - 1) = n
  BY FS_Interval
<1>16. Cardinality(low) = Cardinality(0 .. n - 1)
  <2> HIDE DEF num
  <2> QED
    BY <1>12, <1>14, <1>15, FS_Injection
<1> QED
  BY <1>15, <1>16 DEF low

\* A list from SetToSeqs names every element, and none twice.
LEMMA Listing ==
  ASSUME NEW S, IsFiniteSet(S), NEW g \in SetToSeqs(S)
  PROVE  /\ Cardinality(S) \in Nat /\ g \in [1 .. Cardinality(S) -> S]
         /\ IsInjective(g) /\ ToSet(g) = S
<1> DEFINE k == Cardinality(S)
<1>1. k \in Nat
  BY FS_CardinalityType
<1>2. g \in [1 .. k -> S] /\ \A i, j \in 1 .. k : i # j => g[i] # g[j]
  BY DEF SetToSeqs
<1>3. g \in Injection(1 .. k, S)
  BY <1>2 DEF Injection, IsInjective
<1>4. Cardinality(1 .. k) = k
  BY <1>1, FS_Interval
<1>5. g \in Surjection(1 .. k, S)
  BY <1>3, <1>4, FS_Injection
<1> QED
  BY <1>1, <1>2, <1>5 DEF Surjection, IsInjective, ToSet

\* Two lists that name their own profiles once each, one after the other.
LEMMA Concatenated ==
  ASSUME NEW P, NEW N \in SUBSET P, NEW M \in SUBSET P, N \cap M = {},
         NEW n \in Nat, NEW m \in Nat,
         NEW s \in [1 .. n -> N], NEW t \in [1 .. m -> M], IsInjective(s), IsInjective(t)
  PROVE  /\ s \o t \in Seq(P) /\ IsInjective(s \o t)
         /\ ToSet(s) \cup ToSet(t) \subseteq ToSet(s \o t)
<1> DEFINE st == s \o t
<1>1. s \in Seq(N) /\ Len(s) = n /\ t \in Seq(M) /\ Len(t) = m
  OBVIOUS
<1>2. s \in Seq(P) /\ t \in Seq(P)
  OBVIOUS
<1>3. st \in Seq(P) /\ Len(st) = n + m
  BY <1>1, <1>2
<1>4. \A i \in 1 .. n : st[i] = s[i] /\ st[i] \in N
  BY <1>1
<1>5. \A i \in 1 .. m : st[n + i] = t[i] /\ st[n + i] \in M
  <2> TAKE i \in 1 .. m
  <2>1. n + i \in 1 .. n + m /\ n + i > n /\ (n + i) - n = i
    OBVIOUS
  <2> QED
    BY <1>1, <2>1
<1>6. IsInjective(st)
  <2> SUFFICES ASSUME NEW i \in 1 .. n + m, NEW j \in 1 .. n + m, st[i] = st[j]
               PROVE  i = j
    BY <1>3 DEF IsInjective
  <2>1. CASE i <= n /\ j <= n
    BY <2>1, <1>4 DEF IsInjective
  <2>2. CASE i > n /\ j > n
    <3>1. i - n \in 1 .. m /\ j - n \in 1 .. m /\ n + (i - n) = i /\ n + (j - n) = j
      BY <2>2
    <3>2. t[i - n] = t[j - n]
      BY <3>1, <1>5
    <3>3. i - n = j - n
      BY <3>1, <3>2 DEF IsInjective
    <3> QED
      BY <3>3
  <2>3. CASE i <= n /\ j > n
    <3>1. j - n \in 1 .. m /\ n + (j - n) = j
      BY <2>3
    <3> QED
      BY <3>1, <2>3, <1>4, <1>5
  <2>4. CASE i > n /\ j <= n
    <3>1. i - n \in 1 .. m /\ n + (i - n) = i
      BY <2>4
    <3> QED
      BY <3>1, <2>4, <1>4, <1>5
  <2> QED
    BY <2>1, <2>2, <2>3, <2>4
<1>7. ASSUME NEW i \in 1 .. n PROVE s[i] \in ToSet(st)
  BY <1>3, <1>4 DEF ToSet
<1>8. ASSUME NEW i \in 1 .. m PROVE t[i] \in ToSet(st)
  <2>1. n + i \in DOMAIN st
    BY <1>3
  <2> QED
    BY <2>1, <1>5 DEF ToSet
<1> QED
  BY <1>3, <1>6, <1>7, <1>8 DEF ToSet

\* A finite set of naturals has an upper bound.
LEMMA FiniteIsBounded ==
  ASSUME NEW S \in SUBSET Nat, IsFiniteSet(S)
  PROVE  \E b \in Nat : \A x \in S : x <= b
<1> DEFINE Unbounded(U) == IsFiniteSet(U) /\ \A b \in Nat : \E x \in U : x > b
           T == {n \in Nat : \E U \in SUBSET Nat : Cardinality(U) = n /\ Unbounded(U)}
<1>1. ASSUME T # {} PROVE FALSE
  <2>1. T \in SUBSET Nat
    OBVIOUS
  <2>2. PICK n \in T : \A m \in T : n <= m
    <3> HIDE DEF T
    <3> QED
      BY <1>1, <2>1, LeastExists
  <2>3. PICK U \in SUBSET Nat : Cardinality(U) = n /\ Unbounded(U)
    BY <2>2
  <2>4. PICK x \in U : x > 0
    BY <2>3
  <2> DEFINE V == U \ {x}
  <2>5. IsFiniteSet(V) /\ Cardinality(V) = n - 1 /\ Cardinality(V) \in Nat
    <3>1. IsFiniteSet(V) /\ Cardinality(V) = n - 1
      BY <2>3, <2>4, FS_RemoveElement
    <3> QED
      BY <3>1, FS_CardinalityType
  <2>6. n - 1 \notin T
    <3> HIDE DEF T
    <3> QED
      BY <2>1, <2>2, <2>5
  <2>7. ~Unbounded(V)
    <3>1. n - 1 \in Nat /\ V \in SUBSET Nat
      BY <2>5
    <3> HIDE DEF V, Unbounded
    <3> QED
      BY <2>5, <2>6, <3>1
  <2>8. PICK b \in Nat : \A y \in V : ~(y > b)
    BY <2>5, <2>7
  <2> DEFINE c == IF x > b THEN x ELSE b
  <2>9. c \in Nat /\ x <= c /\ b <= c
    OBVIOUS
  <2>10. PICK y \in U : y > c
    BY <2>3, <2>9
  <2>11. y \in Nat /\ y # x
    BY <2>9, <2>10
  <2>12. y \in V
    BY <2>11
  <2> HIDE DEF c, V
  <2> QED
    BY <2>8, <2>9, <2>10, <2>11, <2>12
<1>2. Cardinality(S) \notin T /\ Cardinality(S) \in Nat
  BY <1>1, FS_CardinalityType
<1>3. ~Unbounded(S)
  <2> HIDE DEF Unbounded
  <2> QED
    BY <1>2
<1>4. PICK b \in Nat : \A x \in S : ~(x > b)
  BY <1>3
<1> QED
  BY <1>4

\* The IDs of finitely many Slots are bounded by the highest of them.
LEMMA MaxOfIds ==
  ASSUME NEW P, NEW E \in SUBSET SlotsOver(P), IsFiniteSet(E), E # {}
  PROVE  Max(IdsOf(E)) \in Nat /\ \A u \in IdsOf(E) : u <= Max(IdsOf(E))
<1> DEFINE f == [c \in E |-> c.id]
<1>1. IdsOf(E) \in SUBSET Nat /\ IdsOf(E) # {}
  BY DEF IdsOf, SlotsOver
<1>2. f \in Surjection(E, IdsOf(E))
  BY DEF IdsOf, Surjection
<1>3. IsFiniteSet(IdsOf(E))
  <2> HIDE DEF f
  <2> QED
    BY <1>2, FS_Surjection
<1>4. PICK b \in Nat : \A x \in IdsOf(E) : x <= b
  BY <1>1, <1>3, FiniteIsBounded
<1>5. Max(IdsOf(E)) \in IdsOf(E) /\ \A y \in IdsOf(E) : y <= Max(IdsOf(E))
  BY <1>1, <1>4, MaxOfBounded
<1> QED
  BY <1>1, <1>5

\* Numbers can be sorted: put the least before the others, sorted.
LEMMA SortedIsListing ==
  ASSUME NEW S \in SUBSET Nat, IsFiniteSet(S)
  PROVE  Sorted(S) \in SetToSeqs(S) /\ Increasing(Sorted(S))
<1> DEFINE Unsorted(U) == IsFiniteSet(U) /\ \A s \in SetToSeqs(U) : ~Increasing(s)
           T == {n \in Nat : \E U \in SUBSET Nat : Cardinality(U) = n /\ Unsorted(U)}
<1>1. ASSUME T # {} PROVE FALSE
  <2>1. T \in SUBSET Nat
    OBVIOUS
  <2>2. PICK n \in T : \A m \in T : n <= m
    <3> HIDE DEF T
    <3> QED
      BY <1>1, <2>1, LeastExists
  <2>3. PICK U \in SUBSET Nat : Cardinality(U) = n /\ Unsorted(U)
    BY <2>2
  <2>4. U # {}
    <3> SUFFICES ASSUME U = {} PROVE FALSE
      OBVIOUS
    <3> DEFINE e == [i \in 1 .. 0 |-> 0]
    <3>1. Cardinality(U) = 0
      BY FS_EmptySet
    <3>2. e \in SetToSeqs(U) /\ Increasing(e)
      BY <3>1 DEF SetToSeqs, Increasing
    <3> HIDE DEF e
    <3> QED
      BY <2>3, <3>2
  <2>5. PICK x \in U : \A y \in U : x <= y
    BY <2>4, LeastExists
  <2> DEFINE V == U \ {x}
  <2>6. IsFiniteSet(V) /\ Cardinality(V) = n - 1 /\ Cardinality(V) \in Nat
    <3>1. IsFiniteSet(V) /\ Cardinality(V) = n - 1
      BY <2>3, <2>5, FS_RemoveElement
    <3> QED
      BY <3>1, FS_CardinalityType
  <2>7. n - 1 \notin T
    <3> HIDE DEF T
    <3> QED
      BY <2>1, <2>2, <2>6
  <2>8. ~Unsorted(V)
    <3>1. n - 1 \in Nat /\ V \in SUBSET Nat
      BY <2>6
    <3> HIDE DEF V, Unsorted
    <3> QED
      BY <2>6, <2>7, <3>1
  <2>9. PICK s \in SetToSeqs(V) : Increasing(s)
    BY <2>6, <2>8
  <2>10. /\ s \in [1 .. n - 1 -> V] /\ n \in Nat
         /\ \A i, j \in 1 .. n - 1 : i < j => s[i] < s[j]
    BY <2>1, <2>2, <2>6, <2>9 DEF SetToSeqs, Increasing
  <2>11. \A i \in 1 .. n - 1 : s[i] \in U /\ s[i] \in Nat /\ x < s[i]
    <3> SUFFICES ASSUME NEW i \in 1 .. n - 1 PROVE s[i] \in U /\ s[i] \in Nat /\ x < s[i]
      OBVIOUS
    <3>1. s[i] \in V
      BY <2>10
    <3>2. s[i] \in U /\ s[i] # x /\ s[i] \in Nat
      BY <3>1
    <3> QED
      BY <2>5, <3>2
  <2> DEFINE g == [i \in 1 .. n |-> IF i = 1 THEN x ELSE s[i - 1]]
  <2>12. \A i \in 2 .. n : i - 1 \in 1 .. n - 1
    BY <2>10
  <2>13. ASSUME NEW i \in 1 .. n PROVE g[i] \in U
    BY <2>11, <2>12
  <2>14. ASSUME NEW i \in 1 .. n, NEW j \in 1 .. n, i < j PROVE g[i] < g[j] /\ g[i] # g[j]
    <3>1. j \in 2 .. n /\ j - 1 \in 1 .. n - 1 /\ g[j] = s[j - 1]
      BY <2>10, <2>14
    <3>2. CASE i = 1
      BY <3>1, <3>2, <2>11
    <3>3. CASE i # 1
      <4>1. i - 1 \in 1 .. n - 1 /\ i - 1 < j - 1 /\ g[i] = s[i - 1]
        BY <2>10, <2>14, <3>3
      <4>2. s[i - 1] < s[j - 1] /\ s[i - 1] \in Nat /\ s[j - 1] \in Nat
        BY <2>10, <2>11, <3>1, <4>1
      <4> HIDE DEF g
      <4> QED
        BY <3>1, <4>1, <4>2
    <3> QED
      BY <3>2, <3>3
  <2>15. g \in [1 .. n -> U] /\ DOMAIN g = 1 .. n
    BY <2>13
  <2> HIDE DEF g
  <2>16. \A i, j \in 1 .. n : i # j => g[i] # g[j]
    BY <2>14
  <2>17. g \in SetToSeqs(U) /\ Increasing(g)
    BY <2>3, <2>14, <2>15, <2>16 DEF SetToSeqs, Increasing
  <2> QED
    BY <2>3, <2>17
<1>2. Cardinality(S) \notin T /\ Cardinality(S) \in Nat
  BY <1>1, FS_CardinalityType
<1>3. ~Unsorted(S)
  <2> HIDE DEF Unsorted
  <2> QED
    BY <1>2
<1>4. \E s \in SetToSeqs(S) : Increasing(s)
  BY <1>3
<1> QED
  BY <1>4 DEF Sorted

-----------------------------------------------------------------------------
(* The steps of the loop keep Good.                                         *)

\* What is known of one profile of a template.
LEMMA ProfileFacts ==
  ASSUME NEW t, TemplateOK(t), NEW p
  PROVE  /\ Has(t, p) \in SUBSET SlotsOver(t.profiles) /\ Has(t, p) \subseteq t.current
         /\ IsFiniteSet(Has(t, p)) /\ Cardinality(Has(t, p)) \in Nat
         /\ UniqueIds(Has(t, p)) /\ Wants(t, p) \in Nat
<1>1. Has(t, p) \in SUBSET t.current
  BY DEF Has, OfProfile
<1>2. IsFiniteSet(Has(t, p)) /\ Cardinality(Has(t, p)) \in Nat
  BY <1>1, FS_Subset, FS_CardinalityType DEF TemplateOK
<1>3. UniqueIds(Has(t, p)) /\ Has(t, p) \in SUBSET SlotsOver(t.profiles)
  BY <1>1 DEF TemplateOK, UniqueIds
<1>4. Wants(t, p) \in Nat
  BY DEF TemplateOK, Wants, Desired
<1> QED
  BY <1>1, <1>2, <1>3, <1>4

\* At the start every Slot is yet to come, and its ID in use.
LEMMA StartIsGood ==
  ASSUME NEW t, TemplateOK(t), NEW left, NEW h, DOMAIN t.counts \subseteq left,
         \A c \in t.current : c.profile \in left
  PROVE  Good(t, left, StartPlan(t.current), h, 0)
<1> DEFINE plan == StartPlan(t.current)
<1>1. Rest(t, left) = t.current
  BY DEF Rest
<1>2. /\ plan.slots = {} /\ plan.used = IdsOf(t.current) /\ plan.reasons = {}
      /\ plan = [slots |-> {}, used |-> IdsOf(t.current), maxID |-> plan.maxID, reasons |-> {}]
      /\ plan.maxID = IF t.current = {} THEN -1 ELSE Max(IdsOf(t.current))
  BY DEF StartPlan
<1>3. IdsOf(t.current) \in SUBSET Nat
  BY DEF TemplateOK, IdsOf, SlotsOver
<1> HIDE DEF plan
<1>4. plan.maxID \in Int /\ plan.maxID >= -1 /\ \A u \in plan.used : u <= plan.maxID
  <2>1. CASE t.current = {}
    BY <2>1, <1>2 DEF IdsOf
  <2>2. CASE t.current # {}
    <3>1. Max(IdsOf(t.current)) \in Nat /\ \A u \in IdsOf(t.current) : u <= Max(IdsOf(t.current))
      BY <2>2, MaxOfIds DEF TemplateOK
    <3> QED
      BY <3>1, <2>2, <1>2
  <2> QED
    BY <2>1, <2>2
<1>5. plan \in PlansOver(t.profiles) /\ IsFiniteSet(plan.slots)
  BY <1>2, <1>3, <1>4, FS_EmptySet DEF PlansOver
<1>6. IdsInUse(t, left, plan)
  BY <1>1, <1>2, <1>4 DEF IdsInUse, IdsOf, UniqueIds, TemplateOK
<1>7. KeepsBusy(t, left, plan) /\ HighestFirst(t, left, plan)
  BY <1>1, <1>2 DEF KeepsBusy, Busy, HighestFirst
<1>8. Counted(t, left, plan, h, 0)
  <2> SUFFICES ASSUME NEW p \in t.profiles \ left
               PROVE  Cardinality(OfProfile(plan.slots, p)) + (IF p = h THEN 0 ELSE 0) = Wants(t, p)
    BY DEF Counted
  <2>1. OfProfile(plan.slots, p) = {} /\ Wants(t, p) = 0
    BY <1>2 DEF OfProfile, Wants, Desired
  <2> QED
    BY <2>1, FS_EmptySet
<1> QED
  BY <1>2, <1>5, <1>6, <1>7, <1>8 DEF Good, plan

\* What a visit does to the plan: some of the profile's Slots are kept, the
\* occupied ones among them, and the IDs of the others are no longer in use; n
\* Slots are still wanted, or there is a reason.
LEMMA VisitIsGood ==
  ASSUME NEW t, TemplateOK(t), NEW left, NEW plan, NEW g, Good(t, left, plan, g, 0),
         NEW h \in left, h \in t.profiles, NEW n \in Nat,
         NEW kept \in SUBSET Has(t, h), Busy(Has(t, h), t.busy) \subseteq kept,
         \A c \in Has(t, h) \ kept, d \in kept : d.id > c.id => d.id \in t.busy,
         n > 0 => kept = Has(t, h),
         NEW next \in PlansOver(t.profiles), next.slots = plan.slots \cup kept,
         next.used = plan.used \ IdsOf(Has(t, h) \ kept), next.maxID = plan.maxID,
         plan.reasons \subseteq next.reasons,
         Cardinality(kept) + n = Wants(t, h) \/ next.reasons # {}
  PROVE  Good(t, left \ {h}, next, h, n)
<1> DEFINE L == left \ {h}
<1>1. /\ Has(t, h) \subseteq Rest(t, left) /\ Rest(t, L) = Rest(t, left) \ Has(t, h)
      /\ Has(t, h) \subseteq t.current
  BY DEF Has, OfProfile, Rest
<1>2. plan.slots \cap Rest(t, left) = {}
  BY DEF Good, Rest
<1>3. \A c \in kept : c.profile = h
  BY DEF Has, OfProfile
<1>4. next.slots \cup Rest(t, L) \subseteq plan.slots \cup Rest(t, left)
  BY <1>1
<1>5. IsFiniteSet(kept) /\ IsFiniteSet(next.slots)
  <2>1. IsFiniteSet(Has(t, h))
    BY ProfileFacts
  <2>2. IsFiniteSet(kept)
    BY <2>1, FS_Subset
  <2>3. IsFiniteSet(plan.slots)
    BY DEF Good
  <2>4. IsFiniteSet(plan.slots \cup kept)
    BY <2>2, <2>3, FS_Union
  <2> QED
    BY <2>2, <2>4
<1>6. \A c \in next.slots : c.profile \notin L
  BY <1>3 DEF Good
<1>7. IdsInUse(t, L, next)
  <2>1. next.maxID >= -1 /\ \A u \in next.used : u <= next.maxID
    BY DEF Good, IdsInUse
  <2>2. ASSUME NEW c \in next.slots \cup Rest(t, L) PROVE c.id \in next.used
    <3>1. c \in plan.slots \cup Rest(t, left) /\ c.id \in plan.used
      BY <1>4 DEF Good, IdsInUse
    <3>2. ASSUME NEW d \in Has(t, h) \ kept, d.id = c.id PROVE FALSE
      <4>1. d = c
        BY <3>1, <3>2, <1>1 DEF Good, IdsInUse, UniqueIds
      <4> QED
        BY <4>1, <1>1, <1>2
    <3> QED
      BY <3>1, <3>2 DEF IdsOf
  <2>3. UniqueIds(next.slots \cup Rest(t, L))
    BY <1>4 DEF Good, IdsInUse, UniqueIds
  <2> QED
    BY <2>1, <2>2, <2>3 DEF IdsInUse
<1>8. KeepsBusy(t, L, next)
  BY <1>1 DEF Good, KeepsBusy, Busy
<1>9. HighestFirst(t, L, next)
  <2> SUFFICES ASSUME NEW c \in t.current \ (next.slots \cup Rest(t, L)), NEW d \in next.slots \cap t.current,
                      d.profile = c.profile, d.id > c.id
               PROVE  d.id \in t.busy
    BY DEF HighestFirst
  <2>1. CASE c \in Has(t, h)
    <3>1. d \in Has(t, h)
      BY <2>1 DEF Has, OfProfile
    <3>2. d \in kept /\ c \notin kept
      BY <3>1, <1>1, <1>2
    <3> QED
      BY <3>2, <2>1
  <2>2. CASE c \notin Has(t, h)
    <3>1. d \notin Has(t, h)
      BY <2>2 DEF Has, OfProfile
    <3> QED
      BY <2>2, <3>1, <1>1 DEF Good, HighestFirst
  <2> QED
    BY <2>1, <2>2
<1>10. Counted(t, L, next, h, n)
  <2> SUFFICES ASSUME next.reasons = {}, NEW p \in t.profiles, p \notin L
               PROVE  Cardinality(OfProfile(next.slots, p)) + (IF p = h THEN n ELSE 0) = Wants(t, p)
    BY DEF Counted
  <2>1. CASE p = h
    <3>1. OfProfile(next.slots, p) = kept
      BY <2>1, <1>3 DEF OfProfile, Good
    <3> QED
      BY <2>1, <3>1
  <2>2. CASE p # h
    <3>1. p \in t.profiles \ left /\ plan.reasons = {}
      BY <2>2
    <3>2. OfProfile(next.slots, p) = OfProfile(plan.slots, p)
      BY <2>2, <1>3 DEF OfProfile
    <3>3. Cardinality(OfProfile(plan.slots, p)) + (IF p = g THEN 0 ELSE 0) = Wants(t, p)
      BY <3>1 DEF Good, Counted
    <3> QED
      BY <2>2, <3>2, <3>3
  <2> QED
    BY <2>1, <2>2
<1> QED
  BY <1>5, <1>6, <1>7, <1>8, <1>9, <1>10 DEF Good

\* An unknown profile keeps what it has, and is a reason.
LEMMA UnknownIsGood ==
  ASSUME NEW t, TemplateOK(t), NEW left, NEW plan, NEW g, Good(t, left, plan, g, 0),
         NEW h \in left, h \in t.profiles
  PROVE  Good(t, left \ {h}, KeepUnknown(plan, h, Has(t, h)), h, 0)
<1> DEFINE E    == Has(t, h)
           why  == [id |-> -1, profile |-> h]
           next == KeepUnknown(plan, h, E)
<1>1. E \in SUBSET SlotsOver(t.profiles) /\ plan \in PlansOver(t.profiles)
  BY ProfileFacts DEF Good
<1>2. why \in [id: Int, profile: t.profiles]
  OBVIOUS
<1>3. next = [plan EXCEPT !.slots = @ \cup E, !.reasons = @ \cup {why}]
  BY DEF KeepUnknown
<1> HIDE DEF why, E, next
<1>4. /\ next \in PlansOver(t.profiles) /\ next.slots = plan.slots \cup E
      /\ next.used = plan.used /\ next.maxID = plan.maxID
      /\ plan.reasons \subseteq next.reasons /\ next.reasons # {}
  BY <1>1, <1>2, <1>3 DEF PlansOver
<1>5. next.used = plan.used \ IdsOf(E \ E) /\ Busy(E, t.busy) \subseteq E
  BY <1>4 DEF IdsOf, Busy
<1>6. E \in SUBSET Has(t, h)
  BY DEF E
<1>7. \A c \in E \ E, d \in E : d.id > c.id => d.id \in t.busy
  OBVIOUS
<1> QED
  BY <1>4, <1>5, <1>6, <1>7, VisitIsGood DEF E, next

\* Of too many Slots the lowest stay, and the occupied ones with a reason.
LEMMA DropIsGood ==
  ASSUME NEW t, TemplateOK(t), NEW left, NEW plan, NEW g, Good(t, left, plan, g, 0),
         NEW h \in left, h \in t.profiles, Cardinality(Has(t, h)) > Wants(t, h)
  PROVE  Good(t, left \ {h}, DropSurplus(plan, Has(t, h), Wants(t, h), t.busy), h, 0)
<1> DEFINE E       == Has(t, h)
           low     == Lowest(E, Wants(t, h))
           surplus == E \ low
           stuck   == Busy(surplus, t.busy)
           kept    == low \cup stuck
           next    == DropSurplus(plan, E, Wants(t, h), t.busy)
<1>1. /\ E \in SUBSET SlotsOver(t.profiles) /\ plan \in PlansOver(t.profiles)
      /\ IsFiniteSet(E) /\ Cardinality(E) \in Nat /\ UniqueIds(E) /\ Wants(t, h) \in Nat
  BY ProfileFacts DEF Good
<1>2. low \subseteq E /\ stuck \subseteq surplus
  BY DEF Lowest, Busy
<1>3. next = [plan EXCEPT !.slots = @ \cup low \cup stuck, !.used = @ \ IdsOf(surplus \ stuck),
                          !.reasons = @ \cup stuck]
  BY DEF DropSurplus
<1>4. /\ next \in PlansOver(t.profiles) /\ next.slots = plan.slots \cup kept
      /\ next.used = plan.used \ IdsOf(surplus \ stuck) /\ next.maxID = plan.maxID
      /\ next.reasons = plan.reasons \cup stuck
  <2>1. kept \in SUBSET SlotsOver(t.profiles)
    BY <1>1, <1>2
  <2>2. \A c \in SlotsOver(t.profiles) : c \in [id: Int, profile: t.profiles]
    BY DEF SlotsOver
  <2>3. stuck \in SUBSET [id: Int, profile: t.profiles]
    BY <2>1, <2>2
  <2> HIDE DEF low, surplus, stuck, next
  <2> QED
    BY <1>1, <1>3, <2>1, <2>3 DEF PlansOver
<1>5. next.used = plan.used \ IdsOf(E \ kept)
  <2>1. surplus \ stuck = E \ kept
    OBVIOUS
  <2> QED
    BY <1>4, <2>1
<1>6. kept \in SUBSET E /\ Busy(E, t.busy) \subseteq kept
  BY <1>2 DEF Busy
<1>7. \A c \in E \ kept, d \in kept : d.id > c.id => d.id \in t.busy
  <2> SUFFICES ASSUME NEW c \in E \ kept, NEW d \in kept, d.id > c.id
               PROVE  d.id \in t.busy
    OBVIOUS
  <2>1. CASE d \in stuck
    BY <2>1 DEF Busy
  <2>2. CASE d \in low
    <3>1. d.id <= c.id
      BY <2>2, <1>1, LowestIsLow
    <3> QED
      BY <3>1, <2>2, <1>1, <1>2 DEF SlotsOver
  <2> QED
    BY <2>1, <2>2
<1>8. Cardinality(low) = Wants(t, h)
  <2>1. Wants(t, h) <= Cardinality(E)
    BY <1>1
  <2> HIDE DEF E
  <2> QED
    BY <1>1, <2>1, LowestCounts
<1>9. Cardinality(kept) + 0 = Wants(t, h) \/ next.reasons # {}
  <2>1. CASE stuck = {}
    <3>1. Cardinality(kept) = Wants(t, h)
      BY <2>1, <1>8
    <3> HIDE DEF kept
    <3> QED
      BY <3>1, <1>1
  <2>2. CASE stuck # {}
    BY <2>2, <1>4
  <2> QED
    BY <2>1, <2>2
<1>10. plan.reasons \subseteq next.reasons
  BY <1>4
<1> HIDE DEF low, surplus, stuck, kept, next
<1>11. Good(t, left \ {h}, next, h, 0)
  <2>1. 0 \in Nat /\ (0 > 0 => kept = E)
    OBVIOUS
  <2> QED
    BY <1>4, <1>5, <1>6, <1>7, <1>9, <1>10, <2>1, VisitIsGood
<1> QED
  BY <1>11 DEF next

\* Of too few Slots all stay, and the rest is to be added.
LEMMA KeepIsGood ==
  ASSUME NEW t, TemplateOK(t), NEW left, NEW plan, NEW g, Good(t, left, plan, g, 0),
         NEW h \in left, h \in t.profiles, Cardinality(Has(t, h)) <= Wants(t, h)
  PROVE  Good(t, left \ {h}, KeepExisting(plan, Has(t, h)), h, Wants(t, h) - Cardinality(Has(t, h)))
<1> DEFINE E    == Has(t, h)
           n    == Wants(t, h) - Cardinality(E)
           next == KeepExisting(plan, E)
<1>1. /\ E \in SUBSET SlotsOver(t.profiles) /\ plan \in PlansOver(t.profiles)
      /\ Cardinality(E) \in Nat /\ Wants(t, h) \in Nat
  BY ProfileFacts DEF Good
<1>2. n \in Nat /\ Cardinality(E) + n = Wants(t, h)
  BY <1>1
<1>3. next = [plan EXCEPT !.slots = @ \cup E]
  BY DEF KeepExisting
<1>4. E \in SUBSET Has(t, h)
  OBVIOUS
<1> HIDE DEF E, n, next
<1>5. /\ next \in PlansOver(t.profiles) /\ next.slots = plan.slots \cup E
      /\ next.used = plan.used /\ next.maxID = plan.maxID /\ plan.reasons \subseteq next.reasons
  BY <1>1, <1>3 DEF PlansOver
<1>6. next.used = plan.used \ IdsOf(E \ E) /\ Busy(E, t.busy) \subseteq E
  BY <1>5 DEF IdsOf, Busy
<1>7. /\ \A c \in E \ E, d \in E : d.id > c.id => d.id \in t.busy
      /\ E = Has(t, h)
  BY DEF E
<1>8. Good(t, left \ {h}, next, h, n)
  BY <1>2, <1>4, <1>5, <1>6, <1>7, VisitIsGood
<1> QED
  BY <1>8 DEF E, n, next

\* A new Slot takes an ID that no planned Slot and none to come has.
LEMMA AddIsGood ==
  ASSUME NEW t, TemplateOK(t), NEW left, NEW plan, NEW h, NEW n \in Nat, n > 0, Good(t, left, plan, h, n)
  PROVE  Good(t, left, AddSlot(plan, h), h, n - 1)
<1> DEFINE id   == NextFreeID(plan.used, plan.maxID)
           new  == [id |-> id, profile |-> h]
           had  == OfProfile(plan.slots, h)
           next == AddSlot(plan, h)
<1>1. h \in t.profiles \ left /\ Has(t, h) \subseteq plan.slots /\ plan \in PlansOver(t.profiles)
  BY DEF Good
<1>2. id \in Nat /\ id \notin plan.used
  <2>1. /\ plan.used \in SUBSET Nat /\ plan.maxID \in Int /\ plan.maxID >= -1
        /\ \A u \in plan.used : u <= plan.maxID
    BY <1>1 DEF PlansOver, Good, IdsInUse
  <2> QED
    BY <2>1, NextFreeIsFree
<1>3. next = [plan EXCEPT !.slots = @ \cup {new}, !.used = @ \cup {id}, !.maxID = IF id > @ THEN id ELSE @]
  BY DEF AddSlot
<1> HIDE DEF id, next
<1>4. new \in SlotsOver(t.profiles) /\ new.id = id /\ new.profile = h
  BY <1>1, <1>2 DEF SlotsOver
<1> HIDE DEF new
<1>5. /\ next.slots = plan.slots \cup {new} /\ next.used = plan.used \cup {id}
      /\ next.maxID = IF id > plan.maxID THEN id ELSE plan.maxID
      /\ next.reasons = plan.reasons
      /\ next = [slots |-> next.slots, used |-> next.used, maxID |-> next.maxID, reasons |-> next.reasons]
  BY <1>1, <1>3 DEF PlansOver
<1>6. next \in PlansOver(t.profiles)
  <2>1. /\ next.slots \in SUBSET SlotsOver(t.profiles) /\ next.used \in SUBSET Nat
        /\ next.reasons \in SUBSET [id: Int, profile: t.profiles]
    BY <1>1, <1>2, <1>4, <1>5 DEF PlansOver
  <2>2. next.maxID \in Int
    BY <1>1, <1>2, <1>5 DEF PlansOver
  <2> QED
    BY <1>5, <2>1, <2>2 DEF PlansOver
<1>7. IsFiniteSet(next.slots) /\ \A c \in next.slots : c.profile \notin left
  BY <1>1, <1>4, <1>5, FS_AddElement DEF Good
<1>8. \A c \in plan.slots \cup Rest(t, left) : c.id # new.id
  BY <1>2, <1>4 DEF Good, IdsInUse
<1>9. IdsInUse(t, left, next)
  <2>1. next.maxID >= -1 /\ \A u \in next.used : u <= next.maxID
    BY <1>1, <1>2, <1>5 DEF Good, IdsInUse, PlansOver
  <2>2. \A c \in next.slots \cup Rest(t, left) : c.id \in next.used
    BY <1>4, <1>5 DEF Good, IdsInUse
  <2>3. UniqueIds(next.slots \cup Rest(t, left))
    BY <1>5, <1>8 DEF Good, IdsInUse, UniqueIds
  <2> QED
    BY <2>1, <2>2, <2>3 DEF IdsInUse
<1>10. KeepsBusy(t, left, next)
  BY <1>5 DEF Good, KeepsBusy
<1>11. new \notin t.current
  BY <1>1, <1>4, <1>8 DEF Has, OfProfile
<1>12. HighestFirst(t, left, next)
  BY <1>5, <1>11 DEF Good, HighestFirst
<1>13. Has(t, h) \subseteq next.slots
  BY <1>1, <1>5
<1>14. OfProfile(next.slots, h) = had \cup {new} /\ new \notin had
  BY <1>4, <1>5, <1>8 DEF OfProfile
<1>15. IsFiniteSet(had) /\ Cardinality(had) \in Nat
  BY FS_Subset, FS_CardinalityType DEF Good, OfProfile
<1>16. Cardinality(OfProfile(next.slots, h)) = Cardinality(had) + 1
  <2> HIDE DEF had
  <2> QED
    BY <1>14, <1>15, FS_AddElement
<1>17. Counted(t, left, next, h, n - 1)
  <2> SUFFICES ASSUME next.reasons = {}, NEW p \in t.profiles \ left
               PROVE  Cardinality(OfProfile(next.slots, p)) + (IF p = h THEN n - 1 ELSE 0) = Wants(t, p)
    BY DEF Counted
  <2>1. Cardinality(OfProfile(plan.slots, p)) + (IF p = h THEN n ELSE 0) = Wants(t, p)
    BY <1>5 DEF Good, Counted
  <2>2. CASE p = h
    <3>1. Cardinality(had) + n = Wants(t, p)
      BY <2>1, <2>2
    <3> HIDE DEF had
    <3> QED
      BY <2>2, <3>1, <1>15, <1>16
  <2>3. CASE p # h
    <3>1. OfProfile(next.slots, p) = OfProfile(plan.slots, p)
      BY <2>3, <1>4, <1>5 DEF OfProfile
    <3> QED
      BY <2>1, <2>3, <3>1
  <2> QED
    BY <2>2, <2>3
<1>18. Good(t, left, next, h, n - 1)
  BY <1>1, <1>6, <1>7, <1>9, <1>10, <1>12, <1>13, <1>17 DEF Good
<1> QED
  BY <1>18 DEF next

-----------------------------------------------------------------------------
(* The loops are the recursive functions they are written as.               *)

\* Additions(plan, p, n)[k] is the plan after k Slots were added.
LEMMA AdditionsDef ==
  ASSUME NEW plan, NEW p, NEW n \in Nat
  PROVE  /\ Additions(plan, p, n)[0] = plan
         /\ \A k \in 1 .. n : Additions(plan, p, n)[k] = AddSlot(Additions(plan, p, n)[k - 1], p)
<1> DEFINE Adds(f, m) == f = [k \in 0 .. m |-> IF k = 0 THEN plan ELSE AddSlot(f[k - 1], p)]
           T == {m \in Nat : \A f : ~Adds(f, m)}
<1>1. ASSUME T # {} PROVE FALSE
  <2>1. T \in SUBSET Nat
    OBVIOUS
  <2>2. PICK m \in T : \A i \in T : m <= i
    <3> HIDE DEF T
    <3> QED
      BY <1>1, <2>1, LeastExists
  <2>3. m # 0
    <3> SUFFICES ASSUME m = 0 PROVE FALSE
      OBVIOUS
    <3> DEFINE f == [k \in 0 .. 0 |-> plan]
    <3>1. Adds(f, 0)
      OBVIOUS
    <3> HIDE DEF f, Adds
    <3> QED
      BY <2>2, <3>1
  <2>4. m - 1 \in Nat /\ m - 1 \notin T
    <3> HIDE DEF T
    <3> QED
      BY <2>1, <2>2, <2>3
  <2>5. PICK f : Adds(f, m - 1)
    <3> HIDE DEF Adds
    <3> QED
      BY <2>4
  <2> DEFINE g == [k \in 0 .. m |-> IF k = m THEN AddSlot(f[m - 1], p) ELSE f[k]]
  <2>6. ASSUME NEW k \in 0 .. m PROVE g[k] = IF k = 0 THEN plan ELSE AddSlot(g[k - 1], p)
    <3>1. CASE k = m
      BY <2>3, <2>4, <3>1
    <3>2. CASE k # m
      <4>1. k \in 0 .. m - 1 /\ (k # 0 => k - 1 \in 0 .. m /\ k - 1 # m)
        BY <3>2, <2>4
      <4>2. f[k] = IF k = 0 THEN plan ELSE AddSlot(f[k - 1], p)
        BY <2>5, <4>1
      <4> QED
        BY <3>2, <4>1, <4>2
    <3> QED
      BY <3>1, <3>2
  <2>7. g = [k \in 0 .. m |-> g[k]]
    OBVIOUS
  <2>8. Adds(g, m)
    <3> HIDE DEF g
    <3> QED
      BY <2>6, <2>7
  <2> HIDE DEF g, Adds
  <2> QED
    BY <2>2, <2>8
<1>2. PICK f : Adds(f, n)
  <2> HIDE DEF Adds
  <2> QED
    BY <1>1
<1>3. Additions(plan, p, n) =
        [k \in 0 .. n |-> IF k = 0 THEN plan ELSE AddSlot(Additions(plan, p, n)[k - 1], p)]
  BY <1>2 DEF Additions
<1> QED
  BY <1>3

\* Plans(...)[k] is the plan after the passes over names[1], ..., names[k].
LEMMA PlansDef ==
  ASSUME NEW current, NEW counts, NEW known, NEW busy, NEW names, Len(names) \in Nat
  PROVE  LET P == Plans(current, counts, known, busy, names)
         IN  /\ P[0] = StartPlan(current)
             /\ \A k \in 1 .. Len(names) :
                  P[k] = PlanProfile(P[k - 1], names[k], current, counts, known, busy)
<1> DEFINE Pass(q, k) == PlanProfile(q, names[k], current, counts, known, busy)
           Runs(f, m) == f = [k \in 0 .. m |-> IF k = 0 THEN StartPlan(current) ELSE Pass(f[k - 1], k)]
           T == {m \in Nat : \A f : ~Runs(f, m)}
<1>1. ASSUME T # {} PROVE FALSE
  <2>1. T \in SUBSET Nat
    OBVIOUS
  <2>2. PICK m \in T : \A i \in T : m <= i
    <3> HIDE DEF T
    <3> QED
      BY <1>1, <2>1, LeastExists
  <2>3. m # 0
    <3> SUFFICES ASSUME m = 0 PROVE FALSE
      OBVIOUS
    <3> DEFINE f == [k \in 0 .. 0 |-> StartPlan(current)]
    <3> HIDE DEF Pass
    <3>1. Runs(f, 0)
      OBVIOUS
    <3> HIDE DEF f, Runs
    <3> QED
      BY <2>2, <3>1
  <2>4. m - 1 \in Nat /\ m - 1 \notin T
    <3> HIDE DEF T
    <3> QED
      BY <2>1, <2>2, <2>3
  <2>5. PICK f : Runs(f, m - 1)
    <3> HIDE DEF Runs
    <3> QED
      BY <2>4
  <2> DEFINE g == [k \in 0 .. m |-> IF k = m THEN Pass(f[m - 1], m) ELSE f[k]]
  <2> HIDE DEF Pass
  <2>6. ASSUME NEW k \in 0 .. m PROVE g[k] = IF k = 0 THEN StartPlan(current) ELSE Pass(g[k - 1], k)
    <3>1. CASE k = m
      BY <2>3, <2>4, <3>1
    <3>2. CASE k # m
      <4>1. k \in 0 .. m - 1 /\ (k # 0 => k - 1 \in 0 .. m /\ k - 1 # m)
        BY <3>2, <2>4
      <4>2. f[k] = IF k = 0 THEN StartPlan(current) ELSE Pass(f[k - 1], k)
        BY <2>5, <4>1
      <4> QED
        BY <3>2, <4>1, <4>2
    <3> QED
      BY <3>1, <3>2
  <2>7. g = [k \in 0 .. m |-> g[k]]
    OBVIOUS
  <2>8. Runs(g, m)
    <3> HIDE DEF g
    <3> QED
      BY <2>6, <2>7
  <2> HIDE DEF g, Runs
  <2> QED
    BY <2>2, <2>8
<1>2. PICK f : Runs(f, Len(names))
  <2> HIDE DEF Runs
  <2> QED
    BY <1>1
<1> DEFINE P == Plans(current, counts, known, busy, names)
<1>3. P = [k \in 0 .. Len(names) |-> IF k = 0 THEN StartPlan(current) ELSE Pass(P[k - 1], k)]
  BY <1>2 DEF Plans
<1> HIDE DEF P, Pass
<1>4. /\ P[0] = StartPlan(current)
      /\ \A k \in 1 .. Len(names) : P[k] = Pass(P[k - 1], k)
  BY <1>3
<1> QED
  BY <1>4 DEF P, Pass

\* Adding the missing Slots one by one keeps Good all along.
LEMMA AdditionsAreGood ==
  ASSUME NEW t, TemplateOK(t), NEW left, NEW plan, NEW h, NEW n \in Nat, Good(t, left, plan, h, n)
  PROVE  \A k \in 0 .. n : Good(t, left, Additions(plan, h, n)[k], h, n - k)
<1> DEFINE A == Additions(plan, h, n)
           T == {k \in 0 .. n : ~Good(t, left, A[k], h, n - k)}
<1>1. A[0] = plan /\ \A k \in 1 .. n : A[k] = AddSlot(A[k - 1], h)
  BY AdditionsDef
<1> HIDE DEF A
<1>2. ASSUME T # {} PROVE FALSE
  <2>1. T \in SUBSET Nat /\ T \subseteq 0 .. n
    OBVIOUS
  <2>2. PICK k \in T : \A i \in T : k <= i
    <3> HIDE DEF T
    <3> QED
      BY <1>2, <2>1, LeastExists
  <2>3. k \in 0 .. n /\ ~Good(t, left, A[k], h, n - k)
    BY <2>2
  <2>4. k # 0
    <3> SUFFICES ASSUME k = 0 PROVE FALSE
      OBVIOUS
    <3>1. A[k] = plan /\ n - k = n
      BY <1>1
    <3> QED
      BY <2>3, <3>1
  <2>5. k \in 1 .. n /\ k - 1 \in 0 .. n /\ k - 1 \notin T
    <3> HIDE DEF T
    <3> QED
      BY <2>1, <2>2, <2>3, <2>4
  <2>6. Good(t, left, A[k - 1], h, n - (k - 1))
    BY <2>5
  <2>7. n - (k - 1) \in Nat /\ n - (k - 1) > 0 /\ (n - (k - 1)) - 1 = n - k
    BY <2>5
  <2>8. Good(t, left, AddSlot(A[k - 1], h), h, (n - (k - 1)) - 1)
    BY <2>6, <2>7, AddIsGood
  <2> QED
    BY <1>1, <2>3, <2>5, <2>7, <2>8
<1> QED
  BY <1>2 DEF A

\* A pass over one profile keeps Good.
LEMMA ProfileIsGood ==
  ASSUME NEW t, TemplateOK(t), NEW left, NEW plan, NEW g, Good(t, left, plan, g, 0),
         NEW h \in left, h \in t.profiles
  PROVE  Good(t, left \ {h}, PlanProfile(plan, h, t.current, t.counts, t.known, t.busy), h, 0)
<1> DEFINE n    == Wants(t, h) - Cardinality(Has(t, h))
           next == PlanProfile(plan, h, t.current, t.counts, t.known, t.busy)
<1>1. Cardinality(Has(t, h)) \in Nat /\ Wants(t, h) \in Nat
  BY ProfileFacts
<1>2. next = IF h \notin t.known /\ Wants(t, h) > 0 THEN KeepUnknown(plan, h, Has(t, h))
             ELSE IF n < 0 THEN DropSurplus(plan, Has(t, h), Wants(t, h), t.busy)
             ELSE Additions(KeepExisting(plan, Has(t, h)), h, n)[n]
  BY Zenon DEF PlanProfile, Has, Wants
<1>3. CASE h \notin t.known /\ Wants(t, h) > 0
  <2>1. next = KeepUnknown(plan, h, Has(t, h))
    BY <1>2, <1>3, Zenon
  <2> HIDE DEF next
  <2>2. Good(t, left \ {h}, next, h, 0)
    BY <2>1, UnknownIsGood
  <2> QED
    BY <2>2 DEF next
<1>4. CASE ~(h \notin t.known /\ Wants(t, h) > 0) /\ n < 0
  <2>1. next = DropSurplus(plan, Has(t, h), Wants(t, h), t.busy) /\ Cardinality(Has(t, h)) > Wants(t, h)
    <3> HIDE DEF next
    <3> QED
      BY <1>1, <1>2, <1>4
  <2> HIDE DEF next
  <2>2. Good(t, left \ {h}, next, h, 0)
    BY <2>1, DropIsGood
  <2> QED
    BY <2>2 DEF next
<1>5. CASE ~(h \notin t.known /\ Wants(t, h) > 0) /\ ~(n < 0)
  <2> DEFINE q == KeepExisting(plan, Has(t, h))
  <2>1. next = Additions(q, h, n)[n] /\ Cardinality(Has(t, h)) <= Wants(t, h)
    <3> HIDE DEF next
    <3> QED
      BY <1>1, <1>2, <1>5
  <2>2. Good(t, left \ {h}, q, h, n) /\ n \in Nat
    BY <1>1, <2>1, KeepIsGood
  <2> HIDE DEF q, next, n
  <2>3. Good(t, left \ {h}, Additions(q, h, n)[n], h, n - n)
    BY <2>2, AdditionsAreGood
  <2>4. n - n = 0
    BY <2>2
  <2>5. Good(t, left \ {h}, next, h, 0)
    BY <2>1, <2>3, <2>4
  <2> QED
    BY <2>5 DEF next
<1> QED
  BY <1>3, <1>4, <1>5

-----------------------------------------------------------------------------
(* The loop over profiles.                                                  *)

\* The profiles from names[k + 1] on.
After(names, k) == {names[i] : i \in k + 1 .. Len(names)}

\* What the loop visits: every profile that is asked for or that a Slot has,
\* and none twice.
NamesOK(t, names) ==
  /\ names \in Seq(t.profiles) /\ IsInjective(names)
  /\ DOMAIN t.counts \subseteq ToSet(names)
  /\ \A c \in t.current : c.profile \in ToSet(names)

\* orderedProfiles lists what the loop has to visit.
LEMMA OrderedProfilesOK ==
  ASSUME NEW t, TemplateOK(t), t.profiles \subseteq Nat,
         NEW order \in Seq(t.profiles), IsInjective(order), DOMAIN t.counts = ToSet(order)
  PROVE  NamesOK(t, OrderedProfiles(order, t.current))
<1> DEFINE N    == ToSet(order)
           A    == {c.profile : c \in t.current}
           M    == A \ N
           rest == Sorted(M)
           f    == [c \in t.current |-> c.profile]
<1>1. N \in SUBSET t.profiles /\ A \in SUBSET t.profiles /\ M \in SUBSET t.profiles /\ N \cap M = {}
  BY DEF TemplateOK, SlotsOver
<1>2. f \in Surjection(t.current, A)
  BY DEF Surjection
<1>3. IsFiniteSet(A)
  <2> HIDE DEF f, A
  <2> QED
    BY <1>2, FS_Surjection DEF TemplateOK
<1>4. IsFiniteSet(M) /\ M \in SUBSET Nat
  <2> HIDE DEF A
  <2> QED
    BY <1>1, <1>3, FS_Subset
<1>5. rest \in SetToSeqs(M)
  <2> HIDE DEF M
  <2> QED
    BY <1>4, SortedIsListing
<1>6. /\ Cardinality(M) \in Nat /\ rest \in [1 .. Cardinality(M) -> M]
      /\ IsInjective(rest) /\ ToSet(rest) = M
  <2> HIDE DEF M, rest
  <2> QED
    BY <1>4, <1>5, Listing
<1>7. Len(order) \in Nat /\ order \in [1 .. Len(order) -> N]
  BY DEF ToSet
<1>8. /\ order \o rest \in Seq(t.profiles) /\ IsInjective(order \o rest)
      /\ N \cup M \subseteq ToSet(order \o rest)
  <2>1. ToSet(order) = N
    OBVIOUS
  <2> HIDE DEF N, M, rest
  <2> QED
    BY <1>1, <1>6, <1>7, <2>1, Concatenated
<1>9. OrderedProfiles(order, t.current) = order \o rest
  BY DEF OrderedProfiles
<1>10. \A c \in t.current : c.profile \in N \cup M
  OBVIOUS
<1> HIDE DEF M, rest, A
<1> QED
  BY <1>8, <1>9, <1>10 DEF NamesOK

\* With nothing to add it does not matter to which profile.
LEMMA AnyHead ==
  ASSUME NEW t, NEW left, NEW plan, NEW g, NEW h, Good(t, left, plan, g, 0)
  PROVE  Good(t, left, plan, h, 0)
BY DEF Good, Counted

\* One pass fewer is left to make.
LEMMA AfterNext ==
  ASSUME NEW S, NEW names \in Seq(S), IsInjective(names), NEW k \in 1 .. Len(names)
  PROVE  /\ names[k] \in After(names, k - 1) /\ names[k] \in S
         /\ After(names, k) = After(names, k - 1) \ {names[k]}
<1>1. /\ Len(names) \in Nat /\ DOMAIN names = 1 .. Len(names) /\ names[k] \in S
      /\ (k - 1) + 1 = k /\ k \in (k - 1) + 1 .. Len(names)
  OBVIOUS
<1>2. names[k] \in After(names, k - 1)
  BY <1>1 DEF After
<1>3. ASSUME NEW i \in k + 1 .. Len(names) PROVE names[i] \in After(names, k - 1) \ {names[k]}
  <2>1. i \in (k - 1) + 1 .. Len(names) /\ i \in DOMAIN names /\ k \in DOMAIN names /\ i # k
    BY <1>1
  <2> QED
    BY <2>1 DEF After, IsInjective
<1>4. ASSUME NEW i \in (k - 1) + 1 .. Len(names), names[i] # names[k] PROVE names[i] \in After(names, k)
  <2>1. i \in k + 1 .. Len(names)
    BY <1>1, <1>4
  <2> QED
    BY <2>1 DEF After
<1>5. After(names, k) \subseteq After(names, k - 1) \ {names[k]}
  BY <1>3 DEF After
<1>6. After(names, k - 1) \ {names[k]} \subseteq After(names, k)
  BY <1>4 DEF After
<1> QED
  BY <1>1, <1>2, <1>5, <1>6

\* Every pass of the loop keeps Good.
LEMMA PassesAreGood ==
  ASSUME NEW t, TemplateOK(t), NEW names, NamesOK(t, names), NEW h
  PROVE  \A k \in 0 .. Len(names) :
           Good(t, After(names, k), Plans(t.current, t.counts, t.known, t.busy, names)[k], h, 0)
<1> DEFINE n == Len(names)
           P == Plans(t.current, t.counts, t.known, t.busy, names)
           T == {k \in 0 .. n : ~Good(t, After(names, k), P[k], h, 0)}
<1>1. n \in Nat /\ names \in Seq(t.profiles) /\ IsInjective(names)
  BY DEF NamesOK
<1>2. /\ P[0] = StartPlan(t.current)
      /\ \A k \in 1 .. n : P[k] = PlanProfile(P[k - 1], names[k], t.current, t.counts, t.known, t.busy)
  BY <1>1, PlansDef
<1> HIDE DEF P
<1>3. Good(t, After(names, 0), P[0], h, 0)
  <2>1. After(names, 0) = ToSet(names)
    BY <1>1 DEF After, ToSet
  <2> QED
    BY <1>2, <2>1, StartIsGood DEF NamesOK
<1>4. ASSUME T # {} PROVE FALSE
  <2>1. T \in SUBSET Nat /\ T \subseteq 0 .. n
    BY <1>1
  <2>2. PICK k \in T : \A i \in T : k <= i
    <3> HIDE DEF T
    <3> QED
      BY <1>4, <2>1, LeastExists
  <2>3. k \in 0 .. n /\ ~Good(t, After(names, k), P[k], h, 0)
    BY <2>2
  <2>4. k # 0
    BY <1>3, <2>3
  <2>5. k \in 1 .. n /\ k - 1 \in 0 .. n /\ k - 1 \notin T
    <3> HIDE DEF T, n
    <3> QED
      BY <1>1, <2>1, <2>2, <2>3, <2>4
  <2>6. Good(t, After(names, k - 1), P[k - 1], h, 0)
    BY <2>5
  <2>7. /\ names[k] \in After(names, k - 1) /\ names[k] \in t.profiles
        /\ After(names, k) = After(names, k - 1) \ {names[k]}
    BY <1>1, <2>5, AfterNext
  <2>8. Good(t, After(names, k), P[k], names[k], 0)
    <3> DEFINE next == PlanProfile(P[k - 1], names[k], t.current, t.counts, t.known, t.busy)
    <3>1. Good(t, After(names, k - 1) \ {names[k]}, next, names[k], 0)
      BY <2>6, <2>7, ProfileIsGood
    <3>2. next = P[k]
      BY <1>2, <2>5
    <3> HIDE DEF next
    <3> QED
      BY <2>7, <3>1, <3>2
  <2> QED
    BY <2>3, <2>8, AnyHead
<1> QED
  BY <1>4 DEF P

\* What PlanTopology promises its caller, for the Slots a template has, the
\* counts it asks for and any occupied IDs: Slots of defined profiles, no ID
\* twice, every occupied Slot kept, the highest IDs dropped first, and without a
\* reason exactly as many Slots of every profile as are asked for.
THEOREM PlanTopologyPromise ==
  ASSUME NEW profiles \in SUBSET Nat,
         NEW current \in SUBSET SlotsOver(profiles), IsFiniteSet(current), UniqueIds(current),
         NEW order \in Seq(profiles), IsInjective(order),
         NEW counts, DOMAIN counts = ToSet(order), \A p \in DOMAIN counts : counts[p] \in Nat,
         NEW known, NEW busy
  PROVE  LET plan == PlanTopology(current, counts, known, busy, OrderedProfiles(order, current))
         IN  /\ plan.slots \in SUBSET SlotsOver(profiles) /\ IsFiniteSet(plan.slots)
             /\ plan.reasons \in SUBSET [id: Int, profile: profiles]
             /\ UniqueIds(plan.slots)
             /\ Busy(current, busy) \subseteq plan.slots
             /\ \A c \in current \ plan.slots, d \in plan.slots \cap current :
                  d.profile = c.profile /\ d.id > c.id => d.id \in busy
             /\ ~Blocked(plan) =>
                  \A p \in profiles : Cardinality(OfProfile(plan.slots, p)) = Desired(counts, p)
<1> DEFINE t     == [profiles |-> profiles, current |-> current, counts |-> counts, known |-> known, busy |-> busy]
           names == OrderedProfiles(order, current)
           plan  == PlanTopology(current, counts, known, busy, names)
<1>1. /\ t.profiles = profiles /\ t.current = current /\ t.counts = counts
      /\ t.known = known /\ t.busy = busy
  OBVIOUS
<1> HIDE DEF t
<1>2. DOMAIN counts \subseteq profiles
  BY DEF ToSet
<1>3. TemplateOK(t)
  BY <1>1, <1>2 DEF TemplateOK
<1>4. NamesOK(t, names)
  BY <1>1, <1>3, OrderedProfilesOK
<1> HIDE DEF names
<1>5. Len(names) \in Nat
  BY <1>4 DEF NamesOK
<1>6. plan = Plans(t.current, t.counts, t.known, t.busy, names)[Len(names)]
  BY <1>1 DEF PlanTopology
<1>7. Good(t, After(names, Len(names)), plan, 0, 0)
  <2> HIDE DEF plan
  <2> QED
    BY <1>3, <1>4, <1>5, <1>6, PassesAreGood
<1>8. After(names, Len(names)) = {}
  BY <1>5 DEF After
<1> HIDE DEF plan
<1>9. Good(t, {}, plan, 0, 0) /\ Rest(t, {}) = {}
  BY <1>7, <1>8 DEF Rest
<1>10. /\ plan.slots \in SUBSET SlotsOver(profiles) /\ IsFiniteSet(plan.slots)
       /\ plan.reasons \in SUBSET [id: Int, profile: profiles]
  BY <1>1, <1>9 DEF Good, PlansOver
<1>11. UniqueIds(plan.slots)
  BY <1>9 DEF Good, IdsInUse, UniqueIds
<1>12. Busy(current, busy) \subseteq plan.slots
  BY <1>1, <1>9 DEF Good, KeepsBusy
<1>13. \A c \in current \ plan.slots, d \in plan.slots \cap current :
          d.profile = c.profile /\ d.id > c.id => d.id \in busy
  BY <1>1, <1>9 DEF Good, HighestFirst
<1>14. ASSUME ~Blocked(plan), NEW p \in profiles
       PROVE  Cardinality(OfProfile(plan.slots, p)) = Desired(counts, p)
  <2>1. Cardinality(OfProfile(plan.slots, p)) + (IF p = 0 THEN 0 ELSE 0) = Wants(t, p)
    BY <1>1, <1>9, <1>14 DEF Good, Counted, Blocked
  <2>2. Cardinality(OfProfile(plan.slots, p)) \in Nat
    BY <1>10, FS_Subset, FS_CardinalityType DEF OfProfile
  <2> QED
    BY <1>1, <2>1, <2>2 DEF Wants
<1>15. /\ plan.slots \in SUBSET SlotsOver(profiles) /\ IsFiniteSet(plan.slots)
       /\ plan.reasons \in SUBSET [id: Int, profile: profiles]
       /\ UniqueIds(plan.slots) /\ Busy(current, busy) \subseteq plan.slots
       /\ \A c \in current \ plan.slots, d \in plan.slots \cap current :
            d.profile = c.profile /\ d.id > c.id => d.id \in busy
       /\ ~Blocked(plan) =>
            \A p \in profiles : Cardinality(OfProfile(plan.slots, p)) = Desired(counts, p)
  BY <1>10, <1>11, <1>12, <1>13, <1>14
<1> QED
  BY <1>15 DEF plan, names
=============================================================================
