------------------------- MODULE ManifestGraphProofs -------------------------
(***************************************************************************)
(* Facts about the operators of ManifestGraph, for every inventory: what   *)
(* may go with more may go, and what the recursive functions compute.      *)
(*                                                                         *)
(* A recursive function is a choice among the functions that satisfy its   *)
(* equation.  Iteration says that there is one, by an induction over the   *)
(* natural numbers that is stated of sets, since a set is a value.         *)
(***************************************************************************)
EXTENDS ManifestGraph, FiniteSetTheorems, TLAPS

-----------------------------------------------------------------------------
(***************************************************************************)
(* What may go with what                                                   *)
(***************************************************************************)
\* A manifest that can go with some manifests can go with more of them.
LEMMA RemovableMonotone ==
  ASSUME NEW r, NEW d, NEW S, NEW T, S \subseteq T, Removable(r, d, S)
  PROVE  Removable(r, d, T)
BY DEF Removable, HasExternalReference

\* The union of the safe plans is itself safe.
LEMMA PlanIsSafe ==
  ASSUME NEW r, NEW t, NEW d \in DeletionPlan(r, t)
  PROVE  Removable(r, d, DeletionPlan(r, t) \cup {t})
<1>1. PICK S \in SafePlans(r, t) : d \in S
  BY DEF DeletionPlan
<1>2. Removable(r, d, S \cup {t})
  BY <1>1 DEF SafePlans
<1>3. S \cup {t} \subseteq DeletionPlan(r, t) \cup {t}
  BY DEF DeletionPlan
<1> QED
  BY <1>2, <1>3, RemovableMonotone

\* Every safe set of descendants is part of the plan.
LEMMA SafeIsPlanned ==
  ASSUME NEW r, NEW t, NEW S,
         S \subseteq Descendants(r, t) \ {t},
         \A d \in S : Removable(r, d, S \cup {t})
  PROVE  S \subseteq DeletionPlan(r, t)
BY DEF DeletionPlan, SafePlans

\* A closed set that holds the target holds all its descendants.
LEMMA DescendantsLeast ==
  ASSUME NEW r, NEW t, NEW S, S \subseteq Digests, t \in S, ClosedUnderChildren(r, S)
  PROVE  Descendants(r, t) \subseteq S
BY DEF Descendants

\* A child of a descendant is a descendant.
LEMMA DescendantsClosed ==
  ASSUME NEW r, NEW t, IsInventory(r),
         NEW d \in Descendants(r, t), d \in DOMAIN r,
         NEW c \in Children(r, d)
  PROVE  c \in Descendants(r, t)
<1>1. c \in Digests
  BY DEF IsInventory, Rows, Children, PlatformSet
<1>2. ASSUME NEW S \in SUBSET Digests, t \in S, ClosedUnderChildren(r, S)
      PROVE  c \in S
  BY <1>2 DEF Descendants, ClosedUnderChildren
<1> QED
  BY <1>1, <1>2 DEF Descendants

-----------------------------------------------------------------------------
(***************************************************************************)
(* Induction and iteration                                                 *)
(***************************************************************************)
\* A set of natural numbers has a smallest member.
LEMMA SmallestOf ==
  ASSUME NEW T \in SUBSET Nat, T # {}
  PROVE  \E x \in T : \A y \in T : x <= y
<1> DEFINE F == {0 .. k : k \in T}
<1>1. F \subseteq FiniteSubsetsOf(Nat)
  <2> SUFFICES ASSUME NEW k \in T PROVE 0 .. k \in FiniteSubsetsOf(Nat)
    OBVIOUS
  <2>1. IsFiniteSet(0 .. k)
    BY FS_Interval
  <2>2. 0 .. k \subseteq Nat
    OBVIOUS
  <2> QED
    BY <2>1, <2>2 DEF FiniteSubsetsOf
<1>2. F # {}
  OBVIOUS
<1>3. \E M \in F : \A N \in F : ~(<<N, M>> \in StrictSubsetOrdering(Nat))
  <2> HIDE DEF F
  <2> QED
    BY <1>1, <1>2, WFMin, FS_StrictSubsetOrderingWellFounded
<1>4. PICK M \in F : \A N \in F : ~(<<N, M>> \in StrictSubsetOrdering(Nat))
  BY <1>3
<1>5. PICK x \in T : M = 0 .. x
  OBVIOUS
<1>6. ASSUME NEW y \in T, y < x PROVE FALSE
  <2>1. (0 .. y) \in F
    OBVIOUS
  <2>2. (0 .. y) \subseteq (0 .. x) /\ (0 .. y) # (0 .. x)
    <3>1. x \in 0 .. x /\ x \notin 0 .. y
      BY <1>6
    <3> QED
      BY <1>6, <3>1
  <2>3. (0 .. y) \in SUBSET Nat /\ (0 .. x) \in SUBSET Nat
    OBVIOUS
  <2> QED
    BY <1>4, <1>5, <2>1, <2>2, <2>3 DEF StrictSubsetOrdering
<1> QED
  BY <1>6

\* Induction over the natural numbers, of the set of those that satisfy it.
LEMMA SetInduction ==
  ASSUME NEW S, 0 \in S, \A n \in Nat : n \in S => n + 1 \in S
  PROVE  Nat \subseteq S
<1> DEFINE T == Nat \ S
<1> SUFFICES ASSUME T # {} PROVE FALSE
  OBVIOUS
<1>1. PICK x \in T : \A y \in T : x <= y
  BY SmallestOf
<1>2. x \in Nat /\ x # 0
  BY <1>1
<1>3. x - 1 \in Nat /\ x - 1 < x /\ x = (x - 1) + 1
  BY <1>2
<1>4. x - 1 \notin T
  BY <1>1, <1>3
<1> QED
  BY <1>1, <1>2, <1>3, <1>4

\* The same up to a bound.
LEMMA BoundedInduction ==
  ASSUME NEW S, NEW N \in Nat, 0 \in S, \A n \in 1 .. N : n - 1 \in S => n \in S
  PROVE  0 .. N \subseteq S
<1> DEFINE T == S \cup {n \in Nat : n > N}
<1>1. ASSUME NEW n \in Nat, n \in T PROVE n + 1 \in T
  <2>1. CASE n < N
    <3>1. n \in S /\ n + 1 \in 1 .. N /\ (n + 1) - 1 = n
      BY <1>1, <2>1
    <3> QED
      BY <3>1
  <2>2. CASE n >= N
    BY <2>2
  <2> QED
    BY <2>1, <2>2
<1>2. Nat \subseteq T
  <2> HIDE DEF T
  <2>1. 0 \in T
    BY DEF T
  <2> QED
    BY <1>1, <2>1, SetInduction
<1> QED
  BY <1>2

\* From a list of digests one may take N steps.
LEMMA Iteration ==
  ASSUME NEW start \in Seq(Digests), NEW N \in Nat,
         NEW step \in [Nat \X Seq(Digests) -> Seq(Digests)]
  PROVE  \E f \in [0 .. N -> Seq(Digests)] :
           f[0] = start /\ \A n \in 1 .. N : f[n] = step[<<n, f[n - 1]>>]
<1> DEFINE V == Seq(Digests)
<1>0. start \in V /\ step \in [Nat \X V -> V]
  OBVIOUS
<1> HIDE DEF V
<1> DEFINE Iterates(f, m) == f[0] = start /\ \A n \in 1 .. m : f[n] = step[<<n, f[n - 1]>>]
           S == {m \in Nat : \E f \in [0 .. m -> V] : Iterates(f, m)}
<1>1. 0 \in S
  <2>1. [n \in 0 .. 0 |-> start] \in [0 .. 0 -> V]
    BY <1>0
  <2>2. Iterates([n \in 0 .. 0 |-> start], 0)
    OBVIOUS
  <2> QED
    BY <2>1, <2>2
<1>2. ASSUME NEW m \in Nat, m \in S PROVE m + 1 \in S
  <2>1. PICK f \in [0 .. m -> V] : Iterates(f, m)
    BY <1>2
  <2> DEFINE last == step[<<m + 1, f[m]>>]
             g == [n \in 0 .. m + 1 |-> IF n = m + 1 THEN last ELSE f[n]]
  <2>2. f[m] \in V /\ <<m + 1, f[m]>> \in Nat \X V
    OBVIOUS
  <2>3. last \in V
    BY <1>0, <2>2
  <2>4. g \in [0 .. m + 1 -> V]
    <3> HIDE DEF last
    <3> QED
      BY <2>3
  <2>5. ASSUME NEW n \in 1 .. m + 1 PROVE g[n] = step[<<n, g[n - 1]>>]
    <3>1. g[n - 1] = f[n - 1]
      OBVIOUS
    <3>2. CASE n = m + 1
      <4>1. g[n] = last /\ n - 1 = m
        BY <3>2
      <4> QED
        BY <3>1, <3>2, <4>1
    <3>3. CASE n # m + 1
      <4>1. n \in 1 .. m /\ g[n] = f[n]
        BY <3>3
      <4> QED
        BY <2>1, <3>1, <4>1
    <3> QED
      BY <3>2, <3>3
  <2>6. g[0] = start
    BY <2>1
  <2>7. Iterates(g, m + 1)
    BY <2>5, <2>6
  <2> HIDE DEF Iterates, g
  <2> QED
    BY <2>4, <2>7
<1>3. Nat \subseteq S
  <2> HIDE DEF S
  <2> QED
    BY <1>1, <1>2, SetInduction
<1> QED
  BY <1>3 DEF V

\* A function all of whose values follow from a list are lists.
LEMMA ListsByInduction ==
  ASSUME NEW g, NEW N \in Nat, g = [n \in 0 .. N |-> g[n]], g[0] \in Seq(Digests),
         \A n \in 1 .. N : g[n - 1] \in Seq(Digests) => g[n] \in Seq(Digests)
  PROVE  g \in [0 .. N -> Seq(Digests)]
<1> DEFINE S == {n \in 0 .. N : g[n] \in Seq(Digests)}
<1>1. 0 \in S
  OBVIOUS
<1>2. ASSUME NEW n \in 1 .. N, n - 1 \in S PROVE n \in S
  <2>1. n \in 0 .. N
    OBVIOUS
  <2> QED
    BY <1>2, <2>1
<1>3. 0 .. N \subseteq S
  <2> HIDE DEF S
  <2> QED
    BY <1>1, <1>2, BoundedInduction
<1> QED
  BY <1>3

-----------------------------------------------------------------------------
(***************************************************************************)
(* The order of discovery                                                  *)
(***************************************************************************)
\* The functions that the recursive definitions choose.
Found(seq, platforms) ==
  CHOOSE f : f = [n \in 0 .. Len(platforms) |->
                    IF n = 0 THEN seq
                    ELSE IF InSeq(platforms[n], f[n - 1]) THEN f[n - 1]
                         ELSE Append(f[n - 1], platforms[n])]

Walk(inv, target) ==
  CHOOSE f : f = [n \in 0 .. Cardinality(Digests) |->
                    IF n = 0 THEN <<target>>
                    ELSE IF n > Len(f[n - 1]) \/ f[n - 1][n] \notin DOMAIN inv
                         THEN f[n - 1]
                         ELSE AppendNew(f[n - 1], inv[f[n - 1][n]].platforms)]

Kept(seq, S) ==
  CHOOSE f : f = [n \in 0 .. Len(seq) |->
                    IF n = 0 THEN <<>>
                    ELSE IF seq[n] \in S THEN Append(f[n - 1], seq[n])
                         ELSE f[n - 1]]

\* AppendNew looks at one platform after the other.
LEMMA FoundFacts ==
  ASSUME NEW seq \in Seq(Digests), NEW platforms \in Seq(Digests)
  PROVE  LET f == Found(seq, platforms)
         IN /\ AppendNew(seq, platforms) = f[Len(platforms)]
            /\ f \in [0 .. Len(platforms) -> Seq(Digests)]
            /\ f[0] = seq
            /\ \A n \in 1 .. Len(platforms) :
                 f[n] = IF InSeq(platforms[n], f[n - 1]) THEN f[n - 1]
                        ELSE Append(f[n - 1], platforms[n])
<1> DEFINE N == Len(platforms)
           Rule(f) == f = [n \in 0 .. N |->
                             IF n = 0 THEN seq
                             ELSE IF InSeq(platforms[n], f[n - 1]) THEN f[n - 1]
                                  ELSE Append(f[n - 1], platforms[n])]
           step == [x \in Nat \X Seq(Digests) |->
                      IF x[1] \notin 1 .. N \/ InSeq(platforms[x[1]], x[2]) THEN x[2]
                      ELSE Append(x[2], platforms[x[1]])]
<1>1. N \in Nat
  OBVIOUS
<1>2. step \in [Nat \X Seq(Digests) -> Seq(Digests)]
  <2> SUFFICES ASSUME NEW x \in Nat \X Seq(Digests), x[1] \in 1 .. N
               PROVE  Append(x[2], platforms[x[1]]) \in Seq(Digests)
    OBVIOUS
  <2>1. platforms[x[1]] \in Digests
    OBVIOUS
  <2> QED
    BY <2>1
<1>3. PICK f \in [0 .. N -> Seq(Digests)] :
        f[0] = seq /\ \A n \in 1 .. N : f[n] = step[<<n, f[n - 1]>>]
  <2> HIDE DEF step, N
  <2> QED
    BY <1>1, <1>2, Iteration
<1>4. \A n \in 1 .. N : f[n] = IF InSeq(platforms[n], f[n - 1]) THEN f[n - 1]
                               ELSE Append(f[n - 1], platforms[n])
  <2> SUFFICES ASSUME NEW n \in 1 .. N
               PROVE  f[n] = IF InSeq(platforms[n], f[n - 1]) THEN f[n - 1]
                             ELSE Append(f[n - 1], platforms[n])
    OBVIOUS
  <2>1. f[n - 1] \in Seq(Digests) /\ n \in Nat
    BY <1>1
  <2>2. <<n, f[n - 1]>> \in Nat \X Seq(Digests)
    BY <2>1
  <2>3. step[<<n, f[n - 1]>>] = IF InSeq(platforms[n], f[n - 1]) THEN f[n - 1]
                                ELSE Append(f[n - 1], platforms[n])
    BY <2>2
  <2> QED
    BY <1>3, <2>3
<1>5. Rule(f)
  <2>1. \A n \in 0 .. N : n = 0 \/ n \in 1 .. N
    BY <1>1
  <2>2. f = [n \in 0 .. N |-> f[n]]
    OBVIOUS
  <2> HIDE DEF step, N
  <2> QED
    BY <1>3, <1>4, <2>1, <2>2
<1>6. Rule(Found(seq, platforms))
  <2> HIDE DEF step
  <2> QED
    BY <1>5 DEF Found
<1>7. AppendNew(seq, platforms) = Found(seq, platforms)[N]
  BY DEF AppendNew, Found
<1> DEFINE g == Found(seq, platforms)
<1>8. g = [n \in 0 .. N |-> IF n = 0 THEN seq
                           ELSE IF InSeq(platforms[n], g[n - 1]) THEN g[n - 1]
                                ELSE Append(g[n - 1], platforms[n])]
  BY <1>6
<1> HIDE DEF g, step, N
<1>9. DOMAIN g = 0 .. N /\ g = [n \in 0 .. N |-> g[n]]
  BY <1>8
<1>10. g[0] = seq
  BY <1>1, <1>8
<1>11. \A n \in 1 .. N : g[n] = IF InSeq(platforms[n], g[n - 1]) THEN g[n - 1]
                                ELSE Append(g[n - 1], platforms[n])
  <2>1. \A n \in 1 .. N : n \in 0 .. N /\ n # 0
    BY <1>1
  <2> QED
    BY <1>8, <2>1
<1>12. \A n \in 1 .. N : platforms[n] \in Digests
  BY DEF N
<1>13. ASSUME NEW n \in 1 .. N, g[n - 1] \in Seq(Digests) PROVE g[n] \in Seq(Digests)
  <2>1. Append(g[n - 1], platforms[n]) \in Seq(Digests)
    BY <1>12, <1>13
  <2> QED
    BY <1>11, <1>13, <2>1
<1>14. g \in [0 .. N -> Seq(Digests)]
  BY <1>1, <1>9, <1>10, <1>13, ListsByInduction
<1> QED
  BY <1>7, <1>10, <1>11, <1>14 DEF g, N

\* What AppendNew returns begins with the list it is given, holds what that
\* and the platforms hold, and nothing twice unless the list does.
Distinct(seq) == \A i, j \in 1 .. Len(seq) : seq[i] = seq[j] => i = j

\* There are no more distinct entries than digests.
LEMMA DistinctBounded ==
  ASSUME NEW seq \in Seq(Digests), Distinct(seq)
  PROVE  Len(seq) <= Cardinality(Digests)
<1> DEFINE positions == 1 .. Len(seq)
<1>1. seq \in Injection(positions, Digests)
  BY DEF Injection, IsInjective, Distinct
<1>2. IsFiniteSet(positions) /\ Cardinality(positions) = Len(seq)
  <2> DEFINE n == Len(seq)
  <2>1. n \in Nat
    OBVIOUS
  <2> HIDE DEF n
  <2>2. IsFiniteSet(1 .. n) /\ Cardinality(1 .. n) = IF 1 > n THEN 0 ELSE n - 1 + 1
    BY <2>1, FS_Interval
  <2>3. Cardinality(1 .. n) = n
    BY <2>1, <2>2
  <2> QED
    BY <2>2, <2>3 DEF n
<1>3. Cardinality(positions) <= Cardinality(Digests)
  <2> HIDE DEF positions
  <2> QED
    BY <1>1, GraphAssumption, FS_Injection
<1> QED
  BY <1>2, <1>3

LEMMA AppendFacts ==
  ASSUME NEW seq \in Seq(Digests), NEW d \in Digests, ~InSeq(d, seq)
  PROVE  /\ Append(seq, d) \in Seq(Digests)
         /\ Len(seq) <= Len(Append(seq, d))
         /\ \A i \in 1 .. Len(seq) : Append(seq, d)[i] = seq[i]
         /\ Distinct(seq) => Distinct(Append(seq, d))
BY DEF InSeq, Distinct

LEMMA AppendNewFacts ==
  ASSUME NEW seq \in Seq(Digests), NEW platforms \in Seq(Digests)
  PROVE  LET new == AppendNew(seq, platforms)
         IN /\ new \in Seq(Digests)
            /\ Len(seq) <= Len(new)
            /\ \A i \in 1 .. Len(seq) : new[i] = seq[i]
            /\ Distinct(seq) => Distinct(new)
<1> DEFINE f == Found(seq, platforms)
           N == Len(platforms)
           Extends(new) == /\ Len(seq) <= Len(new)
                           /\ \A i \in 1 .. Len(seq) : new[i] = seq[i]
                           /\ Distinct(seq) => Distinct(new)
           S == {n \in 0 .. N : Extends(f[n])}
<1>1. /\ AppendNew(seq, platforms) = f[N]
      /\ f \in [0 .. N -> Seq(Digests)]
      /\ f[0] = seq
      /\ \A n \in 1 .. N : f[n] = IF InSeq(platforms[n], f[n - 1]) THEN f[n - 1]
                                  ELSE Append(f[n - 1], platforms[n])
  BY FoundFacts
<1>2. N \in Nat /\ \A n \in 1 .. N : platforms[n] \in Digests
  OBVIOUS
<1> HIDE DEF f, N
<1>3. 0 \in S
  BY <1>1, <1>2
<1>4. ASSUME NEW n \in 1 .. N, n - 1 \in S PROVE n \in S
  <2>1. n \in 0 .. N /\ f[n - 1] \in Seq(Digests) /\ Extends(f[n - 1])
    BY <1>1, <1>2, <1>4
  <2>2. CASE InSeq(platforms[n], f[n - 1])
    BY <1>1, <2>1, <2>2
  <2>3. CASE ~InSeq(platforms[n], f[n - 1])
    <3> DEFINE old == f[n - 1]
               new == Append(old, platforms[n])
    <3>1. /\ new \in Seq(Digests)
          /\ Len(old) <= Len(new)
          /\ \A i \in 1 .. Len(old) : new[i] = old[i]
          /\ Distinct(old) => Distinct(new)
      BY <1>2, <2>1, <2>3, AppendFacts
    <3>2. f[n] = new
      BY <1>1, <2>3
    <3> HIDE DEF old, new
    <3>3. Len(seq) \in Nat /\ Len(old) \in Nat /\ Len(new) \in Nat
      BY <2>1, <3>1 DEF old
    <3>4. Extends(new)
      BY <2>1, <3>1, <3>3 DEF old
    <3> QED
      BY <2>1, <3>2, <3>4
  <2> QED
    BY <2>2, <2>3
<1>5. 0 .. N \subseteq S
  <2> HIDE DEF S
  <2> QED
    BY <1>2, <1>3, <1>4, BoundedInduction
<1>6. N \in 0 .. N
  BY <1>2
<1> QED
  BY <1>1, <1>5, <1>6

\* Discovery expands one member of the worklist after the other.
LEMMA WalkFacts ==
  ASSUME NEW inv, NEW target \in Digests, IsInventory(inv)
  PROVE  LET f == Walk(inv, target)
             N == Cardinality(Digests)
         IN /\ N \in Nat
            /\ Discovery(inv, target) = f[N]
            /\ f \in [0 .. N -> Seq(Digests)]
            /\ f[0] = <<target>>
            /\ \A n \in 1 .. N :
                 f[n] = IF n > Len(f[n - 1]) \/ f[n - 1][n] \notin DOMAIN inv
                        THEN f[n - 1]
                        ELSE AppendNew(f[n - 1], inv[f[n - 1][n]].platforms)
<1> DEFINE N == Cardinality(Digests)
           Expanded(n, list) ==
             IF n > Len(list) \/ list[n] \notin DOMAIN inv THEN list
             ELSE AppendNew(list, inv[list[n]].platforms)
           Rule(f) == f = [n \in 0 .. N |->
                             IF n = 0 THEN <<target>>
                             ELSE IF n > Len(f[n - 1]) \/ f[n - 1][n] \notin DOMAIN inv
                                  THEN f[n - 1]
                                  ELSE AppendNew(f[n - 1], inv[f[n - 1][n]].platforms)]
           step == [x \in Nat \X Seq(Digests) |-> Expanded(x[1], x[2])]
<1>1. N \in Nat
  BY GraphAssumption, FS_CardinalityType
<1>2. ASSUME NEW n \in Nat, NEW list \in Seq(Digests)
      PROVE  Expanded(n, list) \in Seq(Digests)
  <2>1. CASE n > Len(list) \/ list[n] \notin DOMAIN inv
    BY <2>1
  <2>2. CASE ~(n > Len(list) \/ list[n] \notin DOMAIN inv)
    <3>1. inv[list[n]].platforms \in Seq(Digests)
      BY <2>2 DEF IsInventory, Rows
    <3> QED
      BY <2>2, <3>1, AppendNewFacts
  <2> QED
    BY <2>1, <2>2
<1>3. step \in [Nat \X Seq(Digests) -> Seq(Digests)]
  <2> HIDE DEF Expanded
  <2> QED
    BY <1>2
<1>4. <<target>> \in Seq(Digests)
  OBVIOUS
<1>5. PICK f \in [0 .. N -> Seq(Digests)] :
        f[0] = <<target>> /\ \A n \in 1 .. N : f[n] = step[<<n, f[n - 1]>>]
  <2> HIDE DEF step, N
  <2> QED
    BY <1>1, <1>3, <1>4, Iteration
<1>6. \A n \in 1 .. N : f[n] = Expanded(n, f[n - 1])
  <2> SUFFICES ASSUME NEW n \in 1 .. N PROVE f[n] = Expanded(n, f[n - 1])
    OBVIOUS
  <2> HIDE DEF Expanded, N
  <2>1. f[n - 1] \in Seq(Digests) /\ n \in Nat
    BY <1>1
  <2>2. <<n, f[n - 1]>> \in Nat \X Seq(Digests)
    BY <2>1
  <2>3. step[<<n, f[n - 1]>>] = Expanded(n, f[n - 1])
    BY <2>2
  <2> QED
    BY <1>5, <2>3
<1>7. Rule(f)
  <2>1. \A n \in 0 .. N : n = 0 \/ n \in 1 .. N
    BY <1>1
  <2>2. f = [n \in 0 .. N |-> f[n]]
    OBVIOUS
  <2> HIDE DEF step, N
  <2> QED
    BY <1>5, <1>6, <2>1, <2>2
<1>8. Rule(Walk(inv, target))
  <2> HIDE DEF step
  <2> QED
    BY <1>7 DEF Walk
<1>9. Discovery(inv, target) = Walk(inv, target)[N]
  BY DEF Discovery, Walk
<1> DEFINE g == Walk(inv, target)
<1>10. g = [n \in 0 .. N |-> IF n = 0 THEN <<target>> ELSE Expanded(n, g[n - 1])]
  BY <1>8
<1> HIDE DEF g, step, N
<1>11. DOMAIN g = 0 .. N /\ g = [n \in 0 .. N |-> g[n]]
  BY <1>10
<1>12. g[0] = <<target>>
  BY <1>1, <1>10
<1>13. \A n \in 1 .. N : g[n] = Expanded(n, g[n - 1])
  <2>1. \A n \in 1 .. N : n \in 0 .. N /\ n # 0
    BY <1>1
  <2> HIDE DEF Expanded
  <2> QED
    BY <1>10, <2>1
<1>14. ASSUME NEW n \in 1 .. N, g[n - 1] \in Seq(Digests) PROVE g[n] \in Seq(Digests)
  <2>1. n \in Nat
    BY <1>1
  <2> HIDE DEF Expanded
  <2> QED
    BY <1>2, <1>13, <1>14, <2>1
<1>15. g \in [0 .. N -> Seq(Digests)]
  <2> HIDE DEF Expanded
  <2> QED
    BY <1>1, <1>4, <1>11, <1>12, <1>14, ListsByInduction
<1> QED
  BY <1>1, <1>9, <1>12, <1>13, <1>15 DEF g, N

\* Within looks at one position after the other.
LEMMA KeptFacts ==
  ASSUME NEW seq \in Seq(Digests), NEW S
  PROVE  LET f == Kept(seq, S)
         IN /\ Within(seq, S) = f[Len(seq)]
            /\ f \in [0 .. Len(seq) -> Seq(Digests)]
            /\ f[0] = <<>>
            /\ \A n \in 1 .. Len(seq) :
                 f[n] = IF seq[n] \in S THEN Append(f[n - 1], seq[n]) ELSE f[n - 1]
<1> DEFINE N == Len(seq)
           Rule(f) == f = [n \in 0 .. N |->
                             IF n = 0 THEN <<>>
                             ELSE IF seq[n] \in S THEN Append(f[n - 1], seq[n])
                                  ELSE f[n - 1]]
           step == [x \in Nat \X Seq(Digests) |->
                      IF x[1] \in 1 .. N /\ seq[x[1]] \in S THEN Append(x[2], seq[x[1]])
                      ELSE x[2]]
<1>1. N \in Nat
  OBVIOUS
<1>2. step \in [Nat \X Seq(Digests) -> Seq(Digests)]
  <2> SUFFICES ASSUME NEW x \in Nat \X Seq(Digests), x[1] \in 1 .. N
               PROVE  Append(x[2], seq[x[1]]) \in Seq(Digests)
    OBVIOUS
  <2>1. seq[x[1]] \in Digests
    OBVIOUS
  <2> QED
    BY <2>1
<1>3. <<>> \in Seq(Digests)
  OBVIOUS
<1>4. PICK f \in [0 .. N -> Seq(Digests)] :
        f[0] = <<>> /\ \A n \in 1 .. N : f[n] = step[<<n, f[n - 1]>>]
  <2> HIDE DEF step, N
  <2> QED
    BY <1>1, <1>2, <1>3, Iteration
<1>5. \A n \in 1 .. N : f[n] = IF seq[n] \in S THEN Append(f[n - 1], seq[n]) ELSE f[n - 1]
  <2> SUFFICES ASSUME NEW n \in 1 .. N
               PROVE  f[n] = IF seq[n] \in S THEN Append(f[n - 1], seq[n]) ELSE f[n - 1]
    OBVIOUS
  <2>1. f[n - 1] \in Seq(Digests) /\ n \in Nat
    BY <1>1
  <2>2. <<n, f[n - 1]>> \in Nat \X Seq(Digests)
    BY <2>1
  <2>3. step[<<n, f[n - 1]>>] = IF seq[n] \in S THEN Append(f[n - 1], seq[n]) ELSE f[n - 1]
    BY <2>2
  <2> QED
    BY <1>4, <2>3
<1>6. Rule(f)
  <2>1. \A n \in 0 .. N : n = 0 \/ n \in 1 .. N
    BY <1>1
  <2>2. f = [n \in 0 .. N |-> f[n]]
    OBVIOUS
  <2> HIDE DEF step, N
  <2> QED
    BY <1>4, <1>5, <2>1, <2>2
<1>7. Rule(Kept(seq, S))
  <2> HIDE DEF step
  <2> QED
    BY <1>6 DEF Kept
<1>8. Within(seq, S) = Kept(seq, S)[N]
  BY DEF Within, Kept
<1> DEFINE g == Kept(seq, S)
<1>9. g = [n \in 0 .. N |-> IF n = 0 THEN <<>>
                           ELSE IF seq[n] \in S THEN Append(g[n - 1], seq[n])
                                ELSE g[n - 1]]
  BY <1>7
<1> HIDE DEF g, step, N
<1>10. DOMAIN g = 0 .. N /\ g = [n \in 0 .. N |-> g[n]]
  BY <1>9
<1>11. g[0] = <<>>
  BY <1>1, <1>9
<1>12. \A n \in 1 .. N : g[n] = IF seq[n] \in S THEN Append(g[n - 1], seq[n]) ELSE g[n - 1]
  <2>1. \A n \in 1 .. N : n \in 0 .. N /\ n # 0
    BY <1>1
  <2> QED
    BY <1>9, <2>1
<1>13. \A n \in 1 .. N : seq[n] \in Digests
  BY DEF N
<1>14. ASSUME NEW n \in 1 .. N, g[n - 1] \in Seq(Digests) PROVE g[n] \in Seq(Digests)
  <2>1. Append(g[n - 1], seq[n]) \in Seq(Digests)
    BY <1>13, <1>14
  <2> QED
    BY <1>12, <1>14, <2>1
<1>15. g \in [0 .. N -> Seq(Digests)]
  BY <1>1, <1>3, <1>10, <1>11, <1>14, ListsByInduction
<1> QED
  BY <1>8, <1>11, <1>12, <1>15 DEF g, N

\* Within returns members of both, and none twice that is not listed twice.
LEMMA WithinFacts ==
  ASSUME NEW seq \in Seq(Digests), NEW S
  PROVE  LET kept == Within(seq, S)
         IN /\ kept \in Seq(Digests)
            /\ \A i \in 1 .. Len(kept) : kept[i] \in S /\ InSeq(kept[i], seq)
            /\ Distinct(seq) => Distinct(kept)
<1> DEFINE f == Kept(seq, S)
           N == Len(seq)
           From(kept, n) == /\ \A i \in 1 .. Len(kept) :
                                 kept[i] \in S /\ \E k \in 1 .. n : kept[i] = seq[k]
                            /\ Distinct(seq) => Distinct(kept)
           R == {n \in 0 .. N : From(f[n], n)}
<1>1. /\ Within(seq, S) = f[N]
      /\ f \in [0 .. N -> Seq(Digests)]
      /\ f[0] = <<>>
      /\ \A n \in 1 .. N : f[n] = IF seq[n] \in S THEN Append(f[n - 1], seq[n])
                                  ELSE f[n - 1]
  BY KeptFacts
<1>2. N \in Nat /\ DOMAIN seq = 1 .. N /\ \A n \in 1 .. N : seq[n] \in Digests
  OBVIOUS
<1> HIDE DEF f, N
<1>3. 0 \in R
  BY <1>1, <1>2 DEF Distinct
<1>4. ASSUME NEW n \in 1 .. N, n - 1 \in R PROVE n \in R
  <2>1. n \in 0 .. N /\ f[n - 1] \in Seq(Digests) /\ From(f[n - 1], n - 1)
    BY <1>1, <1>2, <1>4
  <2>2. CASE seq[n] \notin S
    <3>1. f[n] = f[n - 1]
      BY <1>1, <2>2
    <3>2. \A k \in 1 .. n - 1 : k \in 1 .. n
      BY <1>2
    <3>3. From(f[n - 1], n)
      BY <2>1, <3>2
    <3> QED
      BY <2>1, <3>1, <3>3
  <2>3. CASE seq[n] \in S
    <3> DEFINE old == f[n - 1]
               new == Append(old, seq[n])
    <3>1. Distinct(seq) => ~InSeq(seq[n], old)
      <4> SUFFICES ASSUME Distinct(seq), NEW i \in 1 .. Len(old), old[i] = seq[n]
                   PROVE  FALSE
        BY <2>1 DEF InSeq
      <4>1. PICK k \in 1 .. n - 1 : old[i] = seq[k]
        BY <2>1
      <4>2. k \in 1 .. N /\ n \in 1 .. N /\ k # n
        BY <1>2, <4>1
      <4> QED
        BY <4>1, <4>2 DEF Distinct, N
    <3>2. /\ new \in Seq(Digests)
          /\ Len(new) = Len(old) + 1
          /\ new[Len(old) + 1] = seq[n]
          /\ \A i \in 1 .. Len(old) : new[i] = old[i]
      BY <1>2, <2>1
    <3>3. Distinct(seq) => Distinct(new)
      BY <1>2, <2>1, <3>1, AppendFacts
    <3>4. ASSUME NEW i \in 1 .. Len(new)
          PROVE  new[i] \in S /\ \E k \in 1 .. n : new[i] = seq[k]
      <4>1. Len(old) \in Nat /\ n \in 1 .. n
        BY <1>2, <2>1
      <4>2. CASE i = Len(old) + 1
        BY <2>3, <3>2, <4>1, <4>2
      <4>3. CASE i # Len(old) + 1
        <5>1. i \in 1 .. Len(old)
          BY <3>2, <4>1, <4>3
        <5>2. PICK k \in 1 .. n - 1 : old[i] = seq[k]
          BY <2>1, <5>1
        <5>3. k \in 1 .. n
          BY <1>2, <5>2
        <5> QED
          BY <2>1, <3>2, <5>1, <5>2, <5>3
      <4> QED
        BY <4>2, <4>3
    <3>5. f[n] = new
      BY <1>1, <2>3
    <3> HIDE DEF old, new
    <3> QED
      BY <2>1, <3>3, <3>4, <3>5
  <2> QED
    BY <2>2, <2>3
<1>5. 0 .. N \subseteq R
  <2> HIDE DEF R
  <2> QED
    BY <1>2, <1>3, <1>4, BoundedInduction
<1>6. N \in 0 .. N
  BY <1>2
<1> DEFINE kept == f[N]
<1>7. kept \in Seq(Digests) /\ From(kept, N)
  BY <1>1, <1>5, <1>6
<1> HIDE DEF kept
<1>8. \A i \in 1 .. Len(kept) : InSeq(kept[i], seq)
  BY <1>2, <1>7 DEF InSeq
<1>9. Within(seq, S) = kept
  BY <1>1 DEF kept
<1> QED
  BY <1>7, <1>8, <1>9

\* The worklist begins with the target and lists nothing twice.
LEMMA DiscoveryFacts ==
  ASSUME NEW inv, NEW target \in Digests, IsInventory(inv)
  PROVE  LET found == Discovery(inv, target)
         IN found \in Seq(Digests) /\ Len(found) >= 1 /\ found[1] = target /\ Distinct(found)
<1> DEFINE f == Walk(inv, target)
           N == Cardinality(Digests)
           Begins(list) == Len(list) >= 1 /\ list[1] = target /\ Distinct(list)
           S == {n \in 0 .. N : Begins(f[n])}
<1>1. /\ N \in Nat
      /\ Discovery(inv, target) = f[N]
      /\ f \in [0 .. N -> Seq(Digests)]
      /\ f[0] = <<target>>
      /\ \A n \in 1 .. N :
           f[n] = IF n > Len(f[n - 1]) \/ f[n - 1][n] \notin DOMAIN inv
                  THEN f[n - 1]
                  ELSE AppendNew(f[n - 1], inv[f[n - 1][n]].platforms)
  BY WalkFacts
<1> HIDE DEF f, N
<1>2. 0 \in S
  BY <1>1 DEF Distinct
<1>3. ASSUME NEW n \in 1 .. N, n - 1 \in S PROVE n \in S
  <2> DEFINE old == f[n - 1]
  <2>1. n \in 0 .. N /\ old \in Seq(Digests) /\ Begins(old)
    BY <1>1, <1>3
  <2>2. CASE n > Len(old) \/ old[n] \notin DOMAIN inv
    BY <1>1, <2>1, <2>2
  <2>3. CASE ~(n > Len(old) \/ old[n] \notin DOMAIN inv)
    <3> DEFINE platforms == inv[old[n]].platforms
               new == AppendNew(old, platforms)
    <3>1. platforms \in Seq(Digests)
      BY <2>3 DEF IsInventory, Rows
    <3>2. f[n] = new
      BY <1>1, <2>3
    <3> HIDE DEF platforms, old
    <3>3. /\ new \in Seq(Digests)
          /\ Len(old) <= Len(new)
          /\ \A i \in 1 .. Len(old) : new[i] = old[i]
          /\ Distinct(old) => Distinct(new)
      BY <2>1, <3>1, AppendNewFacts
    <3> HIDE DEF new
    <3>4. Len(old) \in Nat /\ Len(new) \in Nat
      BY <2>1, <3>3
    <3>5. Begins(new)
      BY <2>1, <3>3, <3>4
    <3> QED
      BY <2>1, <3>2, <3>5
  <2> QED
    BY <2>2, <2>3
<1>4. 0 .. N \subseteq S
  <2> HIDE DEF S
  <2> QED
    BY <1>1, <1>2, <1>3, BoundedInduction
<1>5. N \in 0 .. N
  BY <1>1
<1> QED
  BY <1>1, <1>4, <1>5

\* Once the worklist is at its end it does not grow.
LEMMA WalkEnds ==
  ASSUME NEW inv, NEW target \in Digests, IsInventory(inv),
         NEW m \in 0 .. Cardinality(Digests), Len(Walk(inv, target)[m]) <= m
  PROVE  Discovery(inv, target) = Walk(inv, target)[m]
<1> DEFINE f == Walk(inv, target)
           N == Cardinality(Digests)
           S == {n \in 0 .. N : n >= m => f[n] = f[m]}
<1>1. /\ N \in Nat
      /\ Discovery(inv, target) = f[N]
      /\ f \in [0 .. N -> Seq(Digests)]
      /\ \A n \in 1 .. N :
           f[n] = IF n > Len(f[n - 1]) \/ f[n - 1][n] \notin DOMAIN inv
                  THEN f[n - 1]
                  ELSE AppendNew(f[n - 1], inv[f[n - 1][n]].platforms)
  BY WalkFacts
<1>2. m \in 0 .. N /\ Len(f[m]) <= m
  OBVIOUS
<1> HIDE DEF f, N
<1>3. 0 \in S
  BY <1>1, <1>2
<1>4. ASSUME NEW n \in 1 .. N, n - 1 \in S PROVE n \in S
  <2>1. n \in 0 .. N /\ n \in Nat /\ m \in Nat
    BY <1>1, <1>2
  <2>2. CASE n <= m
    BY <2>1, <2>2
  <2>3. CASE n > m
    <3>1. f[n - 1] = f[m]
      BY <1>4, <2>1, <2>3
    <3>2. Len(f[m]) \in Nat
      BY <1>1, <1>2
    <3>3. n > Len(f[n - 1])
      BY <1>2, <2>1, <2>3, <3>1, <3>2
    <3> QED
      BY <1>1, <2>1, <3>1, <3>3
  <2> QED
    BY <2>1, <2>2, <2>3
<1>5. 0 .. N \subseteq S
  <2> HIDE DEF S
  <2> QED
    BY <1>1, <1>3, <1>4, BoundedInduction
<1>6. N \in 0 .. N /\ N >= m
  BY <1>1, <1>2
<1>7. f[N] = f[m]
  BY <1>5, <1>6
<1> QED
  BY <1>1, <1>7 DEF f

\* What is planned with a target are members of its plan, each of them once.
LEMMA PlannedFacts ==
  ASSUME NEW inv, NEW target \in Digests, IsInventory(inv)
  PROVE  LET planned == PlannedChildren(inv, target)
         IN /\ planned \in Seq(Digests)
            /\ \A i \in 1 .. Len(planned) : planned[i] \in DeletionPlan(inv, target)
            /\ Distinct(planned)
<1> DEFINE found == Discovery(inv, target)
           S == DeletionPlan(inv, target) \cup {target}
           planned == Within(Tail(found), S)
<1>1. found \in Seq(Digests) /\ Len(found) >= 1 /\ found[1] = target /\ Distinct(found)
  BY DiscoveryFacts
<1> HIDE DEF found, S
<1>2. /\ Tail(found) \in Seq(Digests)
      /\ \A i \in 1 .. Len(Tail(found)) : Tail(found)[i] = found[i + 1]
      /\ Len(Tail(found)) = Len(found) - 1
  BY <1>1
<1>3. Distinct(Tail(found))
  BY <1>1, <1>2 DEF Distinct
<1>4. ~InSeq(target, Tail(found))
  <2> SUFFICES ASSUME NEW i \in 1 .. Len(Tail(found)), found[i + 1] = target PROVE FALSE
    BY <1>2 DEF InSeq
  <2>1. i + 1 \in 1 .. Len(found) /\ 1 \in 1 .. Len(found) /\ i + 1 # 1
    BY <1>1, <1>2
  <2> QED
    BY <1>1, <2>1 DEF Distinct
<1>5. /\ planned \in Seq(Digests)
      /\ \A i \in 1 .. Len(planned) : planned[i] \in S /\ InSeq(planned[i], Tail(found))
      /\ Distinct(planned)
  BY <1>2, <1>3, WithinFacts
<1>6. planned = PlannedChildren(inv, target)
  BY DEF PlannedChildren, found, S
<1> HIDE DEF planned
<1>7. \A i \in 1 .. Len(planned) : planned[i] \in DeletionPlan(inv, target)
  BY <1>4, <1>5 DEF S
<1> QED
  BY <1>5, <1>6, <1>7

=============================================================================
