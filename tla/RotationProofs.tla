--------------------------- MODULE RotationProofs ---------------------------
(***************************************************************************)
(* The ids of the workloads rotate, for every size of the table and of the *)
(* batches: the j-th id is j - 1, plus a start, modulo the table's size;   *)
(* and a sequence like that asks for no id twice more often than for       *)
(* another.                                                                *)
(***************************************************************************)
EXTENDS TwoBenchesProofs

(* Remainders. *)

LEMMA Division ==
    ASSUME NEW x \in Nat, NEW s \in Nat \ {0}
    PROVE  x = s * (x \div s) + (x % s) /\ x % s \in 0 .. s - 1 /\ x \div s \in Nat
OBVIOUS

LEMMA Remainder ==
    ASSUME NEW s \in Nat \ {0}, NEW q \in Int, NEW r \in 0 .. s - 1
    PROVE  (s * q + r) % s = r
OBVIOUS

(* Numbers of the same remainder are a whole round apart. *)
LEMMA RoundApart ==
    ASSUME NEW s \in Nat \ {0}, NEW x \in Nat, NEW y \in Nat, x < y, x % s = y % s
    PROVE  y - x >= s
<1> DEFINE p == x \div s
           q == y \div s
           r == x % s
<1>1. x = s * p + r /\ y = s * q + r /\ p \in Int /\ q \in Int /\ r \in Int
  BY Division
<1> HIDE DEF p, q, r
<1>2. y - x = s * (q - p)
  BY <1>1
<1>3. q - p >= 1
  BY <1>1
<1> QED
  BY <1>1, <1>2, <1>3

(* k before a number of remainder a there is one of remainder a - k. *)
LEMMA Earlier ==
    ASSUME NEW s \in Nat \ {0}, NEW x \in Nat, NEW k \in Nat, NEW b \in 0 .. s - 1,
           k <= x, x % s = b + k \/ x % s = b + k - s
    PROVE  (x - k) % s = b
<1> DEFINE p == x \div s
           r == x % s
<1>1. x = s * p + r /\ p \in Int /\ r \in Int /\ (r = b + k \/ r = b + k - s)
  BY Division
<1> HIDE DEF p, r
<1>2. CASE r = b + k
  <2>1. x - k = s * p + b
    BY <1>1, <1>2
  <2> QED
    BY <1>1, <2>1, Remainder
<1>3. CASE r = b + k - s
  <2>1. x - k = s * (p - 1) + b /\ p - 1 \in Int
    BY <1>1, <1>3
  <2> QED
    BY <2>1, Remainder
<1> QED
  BY <1>1, <1>2, <1>3

(* Where a sequence of n ids has a. *)
Places(f, n, a) == {j \in 1 .. n : f[j] = a}

(* In a rotation over s ids no two of them differ in use by more than one: *)
(* all uses of a but the first follow a use of b at the same distance.     *)
LEMMA RotationIsEven ==
    ASSUME NEW s \in Nat \ {0}, NEW n \in Nat, NEW o \in Nat, NEW f,
           \A j \in 1 .. n : f[j] = (j - 1 + o) % s,
           NEW a \in 0 .. s - 1, NEW b \in 0 .. s - 1
    PROVE  Cardinality(Places(f, n, a)) <= Cardinality(Places(f, n, b)) + 1
<1> DEFINE A == {j \in 1 .. n : f[j] = a}
           B == {j \in 1 .. n : f[j] = b}
           k == IF a >= b THEN a - b ELSE a - b + s
           late == {j \in A : j > k}
           early == {j \in A : j <= k}
<1>1. k \in Nat /\ k < s /\ (a = b + k \/ a = b + k - s)
  OBVIOUS
<1>2. IsFiniteSet(1 .. n)
  BY FS_Interval
<1>3. IsFiniteSet(A) /\ IsFiniteSet(B) /\ IsFiniteSet(late)
  BY <1>2, FS_Subset
<1> HIDE DEF k
<1>4. Cardinality(late) <= Cardinality(B)
  <2> DEFINE g == [j \in late |-> j - k]
  <2>1. ASSUME NEW j \in late PROVE j - k \in B
    <3>1. j \in 1 .. n /\ f[j] = a /\ j > k
      OBVIOUS
    <3>2. j - k \in 1 .. n
      BY <1>1, <3>1
    <3>3. j - 1 + o \in Nat /\ k <= j - 1 + o
      BY <1>1, <3>1
    <3>4. (j - 1 + o) % s = a
      BY <3>1
    <3> DEFINE x == j - 1 + o
               y == (j - k) - 1 + o
    <3>5. x \in Nat /\ k <= x /\ (x % s = b + k \/ x % s = b + k - s) /\ y = x - k
      BY <1>1, <3>1, <3>3, <3>4
    <3>6. f[j - k] = y % s
      BY <3>2
    <3> HIDE DEF x, y
    <3>7. f[j - k] = b
      <4>1. (x - k) % s = b
        BY <1>1, <3>5, Earlier
      <4> QED
        BY <3>5, <3>6, <4>1
    <3> QED
      BY <3>2, <3>7
  <2>2. \A i, j \in late : i - k = j - k => i = j
    BY <1>1
  <2> HIDE DEF late, B
  <2>3. g \in [late -> B]
    BY <2>1
  <2>4. \A i, j \in late : g[i] = g[j] => i = j
    BY <2>2
  <2>5. g \in Injection(late, B)
    BY <2>3, <2>4 DEF Injection, IsInjective
  <2> QED
    BY <1>3, <2>5, FS_Injection
<1>5. \A i, j \in early : i = j
  <2> SUFFICES ASSUME NEW i \in early, NEW j \in early, i < j PROVE FALSE
    OBVIOUS
  <2>1. i \in 1 .. n /\ j \in 1 .. n /\ f[i] = a /\ f[j] = a /\ j <= k
    OBVIOUS
  <2>2. i - 1 + o \in Nat /\ j - 1 + o \in Nat /\ i - 1 + o < j - 1 + o
    BY <2>1
  <2>3. (i - 1 + o) % s = (j - 1 + o) % s
    BY <2>1
  <2>4. (j - 1 + o) - (i - 1 + o) >= s
    BY <2>2, <2>3, RoundApart
  <2> QED
    BY <1>1, <2>1, <2>4
<1>6. A = late \cup early /\ late \subseteq A
  BY <1>1
<1>7. Cardinality(A) \in Nat /\ Cardinality(B) \in Nat /\ Cardinality(late) \in Nat
  BY <1>3, FS_CardinalityType
<1>8. Cardinality(A) <= Cardinality(late) + 1
  <2>1. CASE early = {}
    <3>1. A = late
      BY <1>6, <2>1
    <3> QED
      BY <1>7, <3>1
  <2>2. CASE early # {}
    <3>1. PICK x \in early : TRUE
      BY <2>2
    <3>2. early = {x}
      BY <1>5, <3>1
    <3>3. A = late \cup {x}
      BY <1>6, <3>2
    <3> HIDE DEF A, late, early
    <3>4. Cardinality(late \cup {x}) = Cardinality(late) \/ Cardinality(late \cup {x}) = Cardinality(late) + 1
      BY <1>3, FS_AddElement
    <3> QED
      BY <1>7, <3>3, <3>4
  <2> QED
    BY <2>1, <2>2
<1>9. A = Places(f, n, a) /\ B = Places(f, n, b)
  BY DEF Places
<1> HIDE DEF A, B, late, early
<1> QED
  BY <1>4, <1>7, <1>8, <1>9

---------------------------------------------------------------------------

(* NextStatements continues the rotation where it left off. *)
LEMMA StatementsRotate ==
    ASSUME WorkloadTypeOK, Rotating, NEW p \in Procs, NextStatements(p)
    PROVE  Rotating'
<1> DEFINE ids0 == StatementIds(p)
           n == nextID[p]
           s == issued[p]
           t == s \o ids0
<1>1. ids0 \in Seq(Nat)
  BY StatementIdsSeeded
<1>2. /\ issued \in [Procs -> Seq(Nat)] /\ nextID \in [Procs -> Nat]
      /\ issued' = [issued EXCEPT ![p] = t]
      /\ nextID' = [nextID EXCEPT ![p] = @ + Len(ids0)]
  BY Zenon DEF WorkloadTypeOK, NextStatements
<1>3. n \in Nat /\ s \in Seq(Nat) /\ n = Len(s) /\ BatchSize[p] \in Nat /\ SingleSeedRows \in Nat \ {0}
  BY <1>2, BatchAssumption, SeedAssumption DEF Rotating
<1>4. \A j \in 1 .. n : s[j] = (j - 1 + Offset(p)) % SingleSeedRows
  <2>1. DOMAIN s = 1 .. n
    BY <1>3
  <2> QED
    BY <2>1 DEF Rotating
<1>5. \A j \in 1 .. Len(ids0) : ids0[j] = (n + j - 1 + Offset(p)) % SingleSeedRows
  <2>1. CASE BatchSize[p] = 0
    <3>1. ids0 = <<(n + 1) % SingleSeedRows>> /\ Offset(p) = 1
      BY <2>1 DEF StatementIds, Offset
    <3>2. n + 1 - 1 + 1 = n + 1
      BY <1>3
    <3> QED
      BY <3>1, <3>2
  <2>2. CASE BatchSize[p] # 0
    <3>1. ids0 = [j \in 1 .. BatchSize[p] |-> (n + j - 1) % SingleSeedRows] /\ Offset(p) = 0
      BY <2>2 DEF StatementIds, Offset
    <3>2. Len(ids0) = BatchSize[p]
      BY <1>1, <1>3, <3>1
    <3>3. \A j \in 1 .. BatchSize[p] : n + j - 1 + 0 = n + j - 1
      BY <1>3
    <3> QED
      BY <3>1, <3>2, <3>3
  <2> QED
    BY <2>1, <2>2
<1> HIDE DEF ids0, n, s
<1>6. /\ Len(t) = n + Len(ids0) /\ Len(ids0) \in Nat /\ t \in Seq(Nat)
      /\ \A j \in 1 .. n : t[j] = s[j]
      /\ \A j \in 1 .. Len(ids0) : t[n + j] = ids0[j]
  BY <1>1, <1>3
<1> DEFINE m == Len(ids0)
<1>7. \A j \in 1 .. n + m : t[j] = (j - 1 + Offset(p)) % SingleSeedRows
  <2> TAKE j \in 1 .. n + m
  <2> HIDE DEF m, t
  <2>1. CASE j <= n
    <3>1. j \in 1 .. n
      BY <1>3, <2>1
    <3> QED
      BY <1>4, <1>6, <3>1
  <2>2. CASE ~(j <= n)
    <3> DEFINE i == j - n
               x == n + i
    <3>1. i \in 1 .. m /\ x = j
      BY <1>3, <1>6, <2>2 DEF m
    <3> HIDE DEF i
    <3>2. t[n + i] = ids0[i] /\ ids0[i] = (n + i - 1 + Offset(p)) % SingleSeedRows
      BY <1>5, <1>6, <3>1 DEF m
    <3>3. i \in Nat /\ Offset(p) \in Nat
      BY <1>6, <3>1 DEF m, Offset
    <3>4. n + i - 1 + Offset(p) = x - 1 + Offset(p)
      BY <1>3, <3>3
    <3>5. t[x] = (x - 1 + Offset(p)) % SingleSeedRows
      BY Zenon, <3>2, <3>4
    <3> HIDE DEF x
    <3> QED
      BY Zenon, <3>1, <3>5
  <2> QED
    BY <2>1, <2>2
<1>8. DOMAIN t = 1 .. n + m
  BY <1>6
<1>9. issued'[p] = t /\ nextID'[p] = n + m
  BY <1>2 DEF n
<1>10. \A q \in Procs \ {p} : issued'[q] = issued[q] /\ nextID'[q] = nextID[q]
  BY <1>2
<1> HIDE DEF t, m
<1>11. /\ nextID'[p] = Len(issued'[p])
       /\ \A j \in DOMAIN issued'[p] : issued'[p][j] = (j - 1 + Offset(p)) % SingleSeedRows
  BY <1>6, <1>7, <1>8, <1>9 DEF m
<1>12. \A q \in Procs : Offset(q)' = Offset(q)
  BY DEF Offset
<1> QED
  BY Zenon, <1>10, <1>11, <1>12 DEF Rotating

(* Only an iteration touches a counter or issues a statement. *)
LEMMA RotatingStep == ASSUME TypeOK, Rotating, [Next]_vars PROVE Rotating'
<1>1. CASE UNCHANGED ids
  BY <1>1 DEF Rotating, ids, Offset
<1>2. ASSUME NEW p \in Procs, Iterate(p) PROVE Rotating'
  BY <1>2, StatementsRotate DEF TypeOK, Iterate
<1>3. ASSUME NEW p \in Procs, IterationFails(p), ~UNCHANGED ids PROVE Rotating'
  BY <1>3, StatementsRotate DEF TypeOK, IterationFails
<1>4. ASSUME NEW p \in Procs, BenchStep(p) \/ Kill(p), ~Iterate(p), ~IterationFails(p) PROVE UNCHANGED ids
  BY <1>4 DEF BenchStep, Start, ProxyRequest, Applied, SetupRequest, SetupDone, CellDone, RunFails,
              Exit, Kill
<1> QED
  BY <1>1, <1>2, <1>3, <1>4 DEF Next, Done, vars

(* The ids of a process go round the table from their start, in the order  *)
(* in which NextStatements issues them (single.go:72-75, batch.go:43-53).  *)
THEOREM RotatingInvariant == Spec => []Rotating
<1>1. Init => Rotating
  BY DEF Init, WorkloadInit, Rotating
<1>2. TypeOK /\ Rotating /\ [Next]_vars => Rotating'
  BY RotatingStep
<1> QED
  BY <1>1, <1>2, TwoBenchesTypeCorrect, PTL DEF Spec

(* Over all cells of a process no row is asked for twice as long as        *)
(* another is due (single.go:11-14, batch.go:45-51).                       *)
THEOREM EvenRotationCorrect == Spec => []EvenRotation
<1>1. TypeOK /\ Rotating => EvenRotation
  <2> SUFFICES ASSUME TypeOK, Rotating, NEW p \in Procs, NEW a \in Seeded, NEW b \in Seeded
               PROVE  Uses(p, a) <= Uses(p, b) + 1
    BY DEF EvenRotation
  <2> DEFINE n == Len(issued[p])
  <2>1. n \in Nat /\ DOMAIN issued[p] = 1 .. n
    BY DEF TypeOK, WorkloadTypeOK
  <2>2. \A j \in 1 .. n : issued[p][j] = (j - 1 + Offset(p)) % SingleSeedRows
    BY <2>1 DEF Rotating
  <2>3. SingleSeedRows \in Nat \ {0} /\ Offset(p) \in Nat
    BY SeedAssumption DEF Offset
  <2>4. a \in 0 .. SingleSeedRows - 1 /\ b \in 0 .. SingleSeedRows - 1
    BY DEF Seeded
  <2> DEFINE f == issued[p]
             s == SingleSeedRows
             o == Offset(p)
  <2> HIDE DEF n, f, s, o
  <2>5. Cardinality(Places(f, n, a)) <= Cardinality(Places(f, n, b)) + 1
    <3>1. s \in Nat \ {0} /\ n \in Nat /\ o \in Nat /\ a \in 0 .. s - 1 /\ b \in 0 .. s - 1
      BY <2>1, <2>3, <2>4 DEF s, o
    <3>2. \A j \in 1 .. n : f[j] = (j - 1 + o) % s
      BY Zenon, <2>2 DEF f, s, o
    <3> QED
      BY Zenon, <3>1, <3>2, RotationIsEven
  <2> QED
    BY <2>1, <2>5 DEF Uses, Places, f
<1> QED
  BY <1>1, RotatingInvariant, TwoBenchesTypeCorrect, PTL
=============================================================================
