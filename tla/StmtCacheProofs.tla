-------------------------- MODULE StmtCacheProofs ---------------------------
(***************************************************************************)
(* What the operations of module StmtCache do to a connection that is      *)
(* consistent, for every capacity and every set T of texts: one lemma for  *)
(* each, which the proofs about module PoolBreak cite.                     *)
(***************************************************************************)
EXTENDS StmtCache, FiniteSetTheorems, SequenceTheorems, TLAPS

(* No text is in the cache twice. *)
LEMMA CachedCount ==
    ASSUME NEW T, NEW c \in Conn(T), Consistent(c)
    PROVE  /\ IsFiniteSet(Cached(c)) /\ Cardinality(Cached(c)) = Len(c.lru)
           /\ Len(c.lru) \in Nat /\ Cached(c) \subseteq T
<1> DEFINE s == c.lru
<1>1. s \in Seq(T) /\ IsInjective(s)
  BY DEF Conn, Consistent
<1>2. Len(s) \in Nat /\ DOMAIN s = 1 .. Len(s) /\ s \in [1 .. Len(s) -> T]
  BY <1>1
<1>3. Cached(c) = {s[j] : j \in 1 .. Len(s)}
  BY <1>2 DEF Cached, ToSet
<1> HIDE DEF s
<1>4. s \in Bijection(1 .. Len(s), Cached(c))
  BY <1>1, <1>2, <1>3 DEF Bijection, Injection, Surjection, IsInjective
<1>5. IsFiniteSet(1 .. Len(s)) /\ Cardinality(1 .. Len(s)) = Len(s)
  BY <1>2, FS_Interval
<1>6. ExistsBijection(1 .. Len(s), Cached(c))
  BY <1>4 DEF ExistsBijection
<1>7. IsFiniteSet(Cached(c)) /\ Cardinality(Cached(c)) = Len(s)
  BY <1>5, <1>6, FS_Bijection
<1> QED
  BY <1>2, <1>3, <1>7 DEF s

(* RemoveFirst closes the gap that the text leaves. *)
LEMMA RemoveFirstAt ==
    ASSUME NEW T, NEW s \in Seq(T), IsInjective(s), NEW k \in 1 .. Len(s)
    PROVE  /\ RemoveFirst(s, s[k]) \in Seq(T)
           /\ Len(RemoveFirst(s, s[k])) = Len(s) - 1
           /\ \A j \in 1 .. Len(s) - 1 : RemoveFirst(s, s[k])[j] = IF j < k THEN s[j] ELSE s[j + 1]
<1>1. Len(s) \in Nat /\ DOMAIN s = 1 .. Len(s) /\ \A j \in 1 .. Len(s) : s[j] \in T
  OBVIOUS
<1>0. k \in Nat /\ 1 <= k /\ k <= Len(s)
  BY <1>1
<1>2. {j \in 1 .. Len(s) : s[j] = s[k]} = {k}
  BY <1>1 DEF IsInjective
<1>3. Min({k}) = k
  BY DEF Min
<1>4. RemoveFirst(s, s[k]) = RemoveAt(s, k)
  BY <1>1, <1>2, <1>3 DEF RemoveFirst, SelectInSeq
<1> DEFINE l == SubSeq(s, 1, k - 1)
           r == SubSeq(s, k + 1, Len(s))
<1>5. l \in Seq(T) /\ Len(l) = k - 1 /\ \A j \in 1 .. k - 1 : l[j] = s[j]
  BY <1>1, SubSeqProperties
<1>6. r \in Seq(T) /\ Len(r) = Len(s) - k /\ \A j \in 1 .. Len(s) - k : r[j] = s[j + k]
  <2> DEFINE n == Len(s)
  <2>0. n \in Nat /\ k <= n
    BY <1>0, <1>1
  <2>1. /\ r \in Seq(T) /\ Len(r) = IF k + 1 <= n THEN n - (k + 1) + 1 ELSE 0
        /\ \A j \in 1 .. n - (k + 1) + 1 : r[j] = s[(k + 1) + j - 1]
    BY <1>1, SubSeqProperties
  <2> HIDE DEF r, n
  <2>2. \A j \in 1 .. n - k : j \in 1 .. n - (k + 1) + 1 /\ (k + 1) + j - 1 = j + k
    BY <1>0, <2>0
  <2>3. n - k = IF k + 1 <= n THEN n - (k + 1) + 1 ELSE 0
    BY <1>0, <2>0
  <2>4. Len(r) = n - k /\ \A j \in 1 .. n - k : r[j] = s[j + k]
    BY Zenon, <2>1, <2>2, <2>3
  <2> QED
    BY Zenon, <2>1, <2>4 DEF n
<1>7. RemoveAt(s, k) = l \o r
  BY DEF RemoveAt
<1> HIDE DEF l, r
<1>8. /\ l \o r \in Seq(T) /\ Len(l \o r) = Len(s) - 1
      /\ \A j \in 1 .. Len(s) - 1 : (l \o r)[j] = IF j < k THEN l[j] ELSE r[j - (k - 1)]
  <2>1. /\ l \o r \in Seq(T) /\ Len(l \o r) = Len(l) + Len(r)
        /\ \A j \in 1 .. Len(l) + Len(r) : (l \o r)[j] = IF j <= Len(l) THEN l[j] ELSE r[j - Len(l)]
    BY Zenon, <1>5, <1>6, ConcatProperties
  <2> QED
    BY <1>1, <1>5, <1>6, <2>1
<1> QED
  BY <1>1, <1>4, <1>5, <1>6, <1>7, <1>8

(* A text in front of the others. *)
LEMMA InFront ==
    ASSUME NEW T, NEW s \in Seq(T), NEW e \in T
    PROVE  /\ <<e>> \o s \in Seq(T) /\ Len(<<e>> \o s) = Len(s) + 1
           /\ (<<e>> \o s)[1] = e
           /\ \A j \in 1 .. Len(s) : (<<e>> \o s)[j + 1] = s[j]
OBVIOUS

(* A connection with other texts. *)
LEMMA OtherTexts ==
    ASSUME NEW T, NEW c \in Conn(T), NEW r, NEW S
    PROVE  /\ [c EXCEPT !.lru = r] = [lru |-> r, invalid |-> c.invalid, server |-> c.server]
           /\ [c EXCEPT !.server = S] = [lru |-> c.lru, invalid |-> c.invalid, server |-> S]
<1>1. c = [lru |-> c.lru, invalid |-> c.invalid, server |-> c.server]
  BY DEF Conn
<1>2. [c EXCEPT !.lru = r] = [lru |-> r, invalid |-> c.invalid, server |-> c.server]
  BY <1>1
<1>3. [c EXCEPT !.server = S] = [lru |-> c.lru, invalid |-> c.invalid, server |-> S]
  BY <1>1
<1> QED
  BY Zenon, <1>2, <1>3

(* A text that is used again moves to the front, those before it one place *)
(* back.                                                                   *)
LEMMA TouchResult ==
    ASSUME NEW T, NEW c \in Conn(T), Consistent(c), NEW t \in Cached(c)
    PROVE  LET e == Touch(c, t)
           IN  /\ e \in Conn(T) /\ Consistent(e)
               /\ Cached(e) = Cached(c) /\ e.server = c.server /\ e.invalid = c.invalid
               /\ Len(e.lru) = Len(c.lru)
               /\ \A n \in Nat : Recent(c, n) \cup {t} \subseteq Recent(e, n + 1)
               /\ \A n \in Nat : t \in Recent(c, n) => Recent(c, n) \subseteq Recent(e, n)
<1> DEFINE s == c.lru
           r == <<t>> \o RemoveFirst(s, t)
           e == Touch(c, t)
<1>1. s \in Seq(T) /\ IsInjective(s) /\ c.invalid \in SUBSET T /\ c.server \in SUBSET T
  BY DEF Conn, Consistent
<1>2. e = [lru |-> r, invalid |-> c.invalid, server |-> c.server]
  BY Zenon, OtherTexts DEF Touch
<1>3. PICK k \in 1 .. Len(s) : t = s[k]
  BY <1>1 DEF Cached, ToSet
<1>4. t \in T /\ Len(s) \in Nat /\ DOMAIN s = 1 .. Len(s)
  BY <1>1, <1>3
<1>5. /\ RemoveFirst(s, t) \in Seq(T) /\ Len(RemoveFirst(s, t)) = Len(s) - 1
      /\ \A j \in 1 .. Len(s) - 1 : RemoveFirst(s, t)[j] = IF j < k THEN s[j] ELSE s[j + 1]
  BY <1>1, <1>3, RemoveFirstAt
<1> DEFINE n == Len(s)
           q == RemoveFirst(s, t)
<1> HIDE DEF n, q, s
<1>6. r \in Seq(T) /\ Len(r) = n /\ r[1] = t /\ \A j \in 1 .. n - 1 : r[j + 1] = IF j < k THEN s[j] ELSE s[j + 1]
  <2>1. /\ r \in Seq(T) /\ Len(r) = Len(q) + 1 /\ r[1] = t
        /\ \A j \in 1 .. Len(q) : r[j + 1] = q[j]
    <3>1. q \in Seq(T) /\ r = <<t>> \o q
      BY Zenon, <1>5 DEF q
    <3>2. /\ <<t>> \o q \in Seq(T) /\ Len(<<t>> \o q) = Len(q) + 1 /\ (<<t>> \o q)[1] = t
          /\ \A j \in 1 .. Len(q) : (<<t>> \o q)[j + 1] = q[j]
      <4> t \in T /\ q \in Seq(T)
        BY <1>4, <3>1
      <4> QED
        BY InFront
    <3> HIDE DEF r
    <3> QED
      BY Zenon, <3>1, <3>2
  <2>2. Len(q) = n - 1 /\ n \in Nat
    BY <1>4, <1>5 DEF q, n
  <2> QED
    BY <1>5, <2>1, <2>2 DEF n, q
<1> HIDE DEF r
<1>7. DOMAIN r = 1 .. n
  BY <1>6
<1>8. k \in Nat /\ n \in Nat /\ 1 <= k /\ k <= n /\ s[k] = t /\ DOMAIN s = 1 .. n
  BY <1>3, <1>4 DEF n
<1> DEFINE from(j) == IF j = 1 THEN k ELSE IF j <= k THEN j - 1 ELSE j
           to(j) == IF j = k THEN 1 ELSE IF j < k THEN j + 1 ELSE j
<1>9. \A j \in 1 .. n : r[j] = s[from(j)] /\ from(j) \in 1 .. n
  <2> TAKE j \in 1 .. n
  <2>1. CASE j = 1
    BY <1>6, <1>8, <2>1
  <2>2. CASE j # 1
    <3>1. j - 1 \in 1 .. n - 1 /\ (j - 1) + 1 = j
      BY <1>8, <2>2
    <3>2. r[(j - 1) + 1] = IF j - 1 < k THEN s[j - 1] ELSE s[(j - 1) + 1]
      BY Zenon, <1>6, <3>1
    <3> QED
      BY <1>8, <2>2, <3>1, <3>2
  <2> QED
    BY <2>1, <2>2
<1>10. \A j \in 1 .. n : to(j) \in 1 .. n /\ from(to(j)) = j
  BY <1>8
<1>11. IsInjective(r)
  <2>1. \A i, j \in 1 .. n : from(i) = from(j) => i = j
    BY <1>8
  <2> HIDE DEF from
  <2> QED
    BY <1>1, <1>7, <1>8, <1>9, <2>1 DEF IsInjective, s
<1>12. ToSet(r) = ToSet(s)
  <2>1. ASSUME NEW j \in 1 .. n PROVE r[j] \in ToSet(s)
    <3> HIDE DEF from
    <3> QED
      BY Zenon, <1>8, <1>9 DEF ToSet
  <2>2. ASSUME NEW j \in 1 .. n PROVE s[j] \in ToSet(r)
    <3>1. to(j) \in 1 .. n /\ r[to(j)] = s[j]
      BY Zenon, <1>9, <1>10
    <3> HIDE DEF to
    <3> QED
      BY Zenon, <1>7, <3>1 DEF ToSet
  <2> QED
    BY <1>7, <1>8, <2>1, <2>2 DEF ToSet
<1>13. Cached(e) = Cached(c)
  BY <1>2, <1>12 DEF Cached, s
<1>14. e \in Conn(T) /\ Consistent(e)
  <2>1. e.lru = r /\ e.invalid = c.invalid /\ e.server = c.server /\ e \in Conn(T)
    BY <1>1, <1>2, <1>6 DEF Conn
  <2>2. Len(r) <= Cap
    BY <1>6 DEF Consistent, n, s
  <2> QED
    BY Zenon, <1>11, <1>13, <2>1, <2>2 DEF Consistent
<1>15. ASSUME NEW m \in Nat PROVE Recent(c, m) \cup {t} \subseteq Recent(e, m + 1)
  <2>1. t \in Recent(e, m + 1)
    BY <1>2, <1>6, <1>7, <1>8 DEF Recent
  <2>2. ASSUME NEW j \in 1 .. n, j <= m PROVE s[j] \in Recent(e, m + 1)
    <3>1. to(j) \in 1 .. n /\ to(j) <= m + 1 /\ r[to(j)] = s[j]
      <4> to(j) <= m + 1
        BY <1>8, <2>2
      <4> HIDE DEF to, from
      <4> QED
        BY <1>9, <1>10
    <3> HIDE DEF to
    <3> QED
      BY <1>2, <1>7, <3>1 DEF Recent
  <2> QED
    BY <1>8, <2>1, <2>2 DEF Recent, s
<1>16. ASSUME NEW m \in Nat, t \in Recent(c, m) PROVE Recent(c, m) \subseteq Recent(e, m)
  <2>1. k <= m
    BY <1>1, <1>8, <1>16 DEF Recent, IsInjective, s
  <2>2. ASSUME NEW j \in 1 .. n, j <= m PROVE s[j] \in Recent(e, m)
    <3>1. to(j) \in 1 .. n /\ to(j) <= m /\ r[to(j)] = s[j]
      <4> to(j) <= m
        BY <1>8, <2>1, <2>2
      <4> HIDE DEF to, from
      <4> QED
        BY <1>9, <1>10
    <3> HIDE DEF to
    <3> QED
      BY <1>2, <1>7, <3>1 DEF Recent
  <2> QED
    BY <1>8, <2>2 DEF Recent, s
<1> QED
  BY <1>2, <1>6, <1>13, <1>14, <1>15, <1>16 DEF n, s

(* A connection between its calls, and its room. *)
LEMMA ConnFacts ==
    ASSUME NEW T, NEW c \in Conn(T), Consistent(c)
    PROVE  /\ c.lru \in Seq(T) /\ Len(c.lru) \in Nat /\ DOMAIN c.lru = 1 .. Len(c.lru)
           /\ c.invalid \in SUBSET T /\ c.server \in SUBSET T
           /\ Cached(c) = {c.lru[j] : j \in 1 .. Len(c.lru)} /\ Cached(c) \subseteq T
BY DEF Conn, Consistent, Cached, ToSet

(* Before a call, the statements of all texts that were given up go. *)
LEMMA DeallocateResult ==
    ASSUME NEW T, NEW c \in Conn(T), Consistent(c)
    PROVE  LET d == Deallocate(c)
           IN  /\ d \in Conn(T) /\ Consistent(d)
               /\ d.lru = c.lru /\ Cached(d) = Cached(c) /\ d.invalid = {} /\ d.server = Cached(c)
               /\ \A n \in Nat : Recent(d, n) = Recent(c, n)
<1> DEFINE d == Deallocate(c)
<1>1. c.lru \in Seq(T) /\ c.server \in SUBSET T
  BY ConnFacts
<1>2. d = [lru |-> c.lru, invalid |-> {}, server |-> c.server \ c.invalid]
  BY DEF Deallocate
<1>3. c.server \ c.invalid = Cached(c)
  BY DEF Consistent
<1> HIDE DEF d
<1>4. d.lru = c.lru /\ d.invalid = {} /\ d.server = Cached(c) /\ d \in Conn(T)
  BY <1>1, <1>2, <1>3 DEF Conn
<1>5. Cached(d) = Cached(c)
  BY <1>4 DEF Cached
<1>6. Consistent(d)
  <2>1. IsInjective(c.lru) /\ Len(c.lru) <= Cap
    BY DEF Consistent
  <2>2. IsFiniteSet(Cached(c))
    BY CachedCount
  <2> QED
    BY <1>4, <1>5, <2>1, <2>2 DEF Consistent
<1>7. \A n \in Nat : Recent(d, n) = Recent(c, n)
  BY <1>4 DEF Recent
<1> QED
  BY <1>4, <1>5, <1>6, <1>7 DEF d

(* A text in front of others that it is not among. *)
LEMMA PushResult ==
    ASSUME NEW T, NEW s \in Seq(T), IsInjective(s), NEW t \in T, t \notin ToSet(s)
    PROVE  LET r == <<t>> \o s
           IN  /\ r \in Seq(T) /\ Len(r) = Len(s) + 1 /\ DOMAIN r = 1 .. Len(s) + 1
               /\ r[1] = t /\ \A j \in 1 .. Len(s) : r[j + 1] = s[j]
               /\ ToSet(r) = ToSet(s) \cup {t} /\ IsInjective(r)
<1> DEFINE n == Len(s)
           r == <<t>> \o s
<1>1. n \in Nat /\ DOMAIN s = 1 .. n
  OBVIOUS
<1>2. r \in Seq(T) /\ Len(r) = n + 1 /\ r[1] = t /\ \A j \in 1 .. n : r[j + 1] = s[j]
  BY InFront
<1>3. DOMAIN r = 1 .. n + 1
  BY <1>1, <1>2
<1> HIDE DEF n, r
<1>4. \A j \in 1 .. n + 1 : j = 1 \/ (j - 1 \in 1 .. n /\ (j - 1) + 1 = j)
  BY <1>1
<1>5. \A j \in 1 .. n + 1 : j # 1 => r[j] = s[j - 1]
  BY <1>2, <1>4
<1>6. \A j \in 1 .. n : j + 1 \in 1 .. n + 1
  BY <1>1
<1>7. 1 \in 1 .. n + 1
  BY <1>1
<1>8. ToSet(r) = ToSet(s) \cup {t}
  <2>1. \A j \in 1 .. n + 1 : r[j] \in ToSet(s) \cup {t}
    BY <1>1, <1>2, <1>4, <1>5 DEF ToSet
  <2>2. \A j \in 1 .. n : s[j] \in ToSet(r)
    BY Zenon, <1>2, <1>3, <1>6 DEF ToSet
  <2>3. t \in ToSet(r)
    BY Zenon, <1>2, <1>3, <1>7 DEF ToSet
  <2> QED
    BY <1>1, <1>3, <2>1, <2>2, <2>3 DEF ToSet
<1>9. IsInjective(r)
  <2> SUFFICES ASSUME NEW i \in 1 .. n + 1, NEW j \in 1 .. n + 1, r[i] = r[j] PROVE i = j
    BY <1>3 DEF IsInjective
  <2>1. \A k \in 1 .. n : s[k] # t
    BY <1>1 DEF ToSet
  <2>2. CASE i = 1
    BY <1>2, <1>4, <1>5, <2>1, <2>2
  <2>3. CASE j = 1
    BY <1>2, <1>4, <1>5, <2>1, <2>3
  <2>4. CASE i # 1 /\ j # 1
    <3>1. i - 1 = j - 1
      BY <1>1, <1>4, <1>5, <2>4 DEF IsInjective
    <3> QED
      BY <1>1, <3>1
  <2> QED
    BY <2>2, <2>3, <2>4
<1> QED
  BY <1>2, <1>3, <1>8, <1>9 DEF n, r

(* The last of a list's texts goes. *)
LEMMA FrontResult ==
    ASSUME NEW T, NEW s \in Seq(T), IsInjective(s), Len(s) # 0
    PROVE  /\ Front(s) \in Seq(T) /\ IsInjective(Front(s)) /\ Len(Front(s)) = Len(s) - 1
           /\ \A j \in 1 .. Len(s) - 1 : Front(s)[j] = s[j]
           /\ Last(s) \in ToSet(s) /\ ToSet(Front(s)) = ToSet(s) \ {Last(s)}
<1> DEFINE n == Len(s)
           f == Front(s)
<1>1. n \in Nat \ {0} /\ DOMAIN s = 1 .. n /\ \A j \in 1 .. n : s[j] \in T
  OBVIOUS
<1>2. f \in Seq(T) /\ Len(f) = n - 1 /\ \A j \in 1 .. n - 1 : f[j] = s[j]
  BY <1>1, SubSeqProperties DEF Front
<1>3. DOMAIN f = 1 .. n - 1
  BY <1>1, <1>2
<1>4. Last(s) = s[n]
  BY DEF Last
<1> HIDE DEF f, n
<1>5. \A j \in 1 .. n : j = n \/ j \in 1 .. n - 1
  BY <1>1
<1>6. n \in 1 .. n /\ \A j \in 1 .. n - 1 : j \in 1 .. n /\ j # n
  BY <1>1
<1>7. IsInjective(f)
  BY <1>1, <1>2, <1>3, <1>6 DEF IsInjective
<1>8. ToSet(f) = ToSet(s) \ {s[n]}
  <2>1. ASSUME NEW j \in 1 .. n - 1 PROVE f[j] \in ToSet(s) /\ f[j] # s[n]
    BY <1>1, <1>2, <1>6 DEF ToSet, IsInjective
  <2>2. ASSUME NEW j \in 1 .. n, s[j] # s[n] PROVE s[j] \in ToSet(f)
    BY <1>2, <1>3, <1>5, <2>2 DEF ToSet
  <2> QED
    BY <1>1, <1>3, <2>1, <2>2 DEF ToSet
<1> QED
  BY <1>1, <1>2, <1>4, <1>6, <1>7, <1>8 DEF ToSet, f, n

(* A text that is new to the client and the server is prepared and goes to *)
(* the front; a full cache gives up its last text for it.                  *)
LEMMA PutResult ==
    ASSUME NEW T, NEW c \in Conn(T), Consistent(c), NEW t \in T, t \notin c.server
    PROVE  LET e == Put(Prepare(c, t), t)
           IN  /\ e \in Conn(T) /\ Consistent(e)
               /\ e.server = c.server \cup {t} /\ t \in Cached(e)
               /\ \/ /\ Len(c.lru) < Cap /\ Len(e.lru) = Len(c.lru) + 1
                     /\ e.invalid = c.invalid /\ Cached(e) = Cached(c) \cup {t}
                  \/ Len(c.lru) = Cap /\ Len(e.lru) = Cap
               /\ \A n \in Nat : n < Cap => Recent(c, n) \cup {t} \subseteq Recent(e, n + 1)
<1> DEFINE s == c.lru
           n == Len(s)
           S == c.server \cup {t}
           d == Prepare(c, t)
           e == Put(d, t)
<1>1. s \in Seq(T) /\ n \in Nat /\ DOMAIN s = 1 .. n /\ c.invalid \in SUBSET T /\ S \in SUBSET T
  BY ConnFacts
<1>2. n <= Cap /\ IsInjective(s) /\ Cap \in Nat \ {0}
  BY CapAssumption DEF Consistent
<1>3. Cached(c) = ToSet(s) /\ c.invalid \cap Cached(c) = {} /\ c.server = Cached(c) \cup c.invalid
  BY DEF Consistent, Cached
<1>4. IsFiniteSet(S)
  BY FS_AddElement DEF Consistent
<1>5. t \notin ToSet(s) /\ t \notin c.invalid
  BY <1>3
<1>6. d = [lru |-> s, invalid |-> c.invalid, server |-> S]
  BY Zenon, OtherTexts DEF Prepare
<1>7. d \in Conn(T)
  BY <1>1, <1>6 DEF Conn
<1>8. d.lru = s /\ d.invalid = c.invalid /\ d.server = S
  BY <1>6
<1> HIDE DEF d, s, S, n
<1>9. CASE n < Cap
  <2> DEFINE r == <<t>> \o s
  <2>1. e = [lru |-> r, invalid |-> c.invalid, server |-> S]
    BY Zenon, <1>7, <1>8, <1>9, OtherTexts DEF Put, n
  <2>2. /\ r \in Seq(T) /\ Len(r) = n + 1 /\ DOMAIN r = 1 .. n + 1
        /\ r[1] = t /\ \A j \in 1 .. n : r[j + 1] = s[j]
        /\ ToSet(r) = ToSet(s) \cup {t} /\ IsInjective(r)
    BY Zenon, <1>1, <1>2, <1>5, PushResult DEF n
  <2> HIDE DEF r, e
  <2>3. /\ e.lru = r /\ e.invalid = c.invalid /\ e.server = S /\ e \in Conn(T)
    BY <1>1, <2>1, <2>2 DEF Conn
  <2>4. Cached(e) = Cached(c) \cup {t}
    BY <1>3, <2>2, <2>3 DEF Cached
  <2>5. Consistent(e)
    <3>1. Len(r) <= Cap
      BY <1>1, <1>2, <1>9, <2>2
    <3>2. c.invalid \cap (Cached(c) \cup {t}) = {} /\ S = (Cached(c) \cup {t}) \cup c.invalid
      BY <1>3, <1>5 DEF S
    <3> QED
      BY Zenon, <1>4, <2>2, <2>3, <2>4, <3>1, <3>2 DEF Consistent
  <2>6. ASSUME NEW m \in Nat PROVE Recent(c, m) \cup {t} \subseteq Recent(e, m + 1)
    <3>1. \A j \in 1 .. n : j <= m => j + 1 \in 1 .. n + 1 /\ j + 1 <= m + 1 /\ r[j + 1] = s[j]
      BY <1>1, <2>2
    <3>2. 1 \in 1 .. n + 1 /\ 1 <= m + 1
      BY <1>1
    <3>3. t \in Recent(e, m + 1)
      BY <2>2, <2>3, <3>2 DEF Recent
    <3>4. ASSUME NEW j \in 1 .. n, j <= m PROVE s[j] \in Recent(e, m + 1)
      BY <2>2, <2>3, <3>1, <3>4 DEF Recent
    <3> QED
      BY <1>1, <3>3, <3>4 DEF Recent, s
  <2> QED
    BY <1>9, <2>2, <2>3, <2>4, <2>5, <2>6 DEF e, S, n, s, d
<1>10. CASE n = Cap
  <2> DEFINE f == Front(s)
             l == Last(s)
             I == c.invalid \cup {l}
             r == <<t>> \o f
  <2>1. e = [lru |-> r, invalid |-> I, server |-> S]
    <3>1. ~(Len(d.lru) < Cap)
      BY <1>1, <1>2, <1>8, <1>10 DEF n
    <3> QED
      BY Zenon, <1>8, <3>1 DEF Put
  <2>2. /\ f \in Seq(T) /\ IsInjective(f) /\ Len(f) = n - 1 /\ \A j \in 1 .. n - 1 : f[j] = s[j]
        /\ l \in ToSet(s) /\ ToSet(f) = ToSet(s) \ {l}
    BY <1>1, <1>2, <1>10, FrontResult DEF n
  <2>3. t \notin ToSet(f)
    BY <1>5, <2>2
  <2> HIDE DEF f, l
  <2>4. /\ r \in Seq(T) /\ Len(r) = Len(f) + 1 /\ DOMAIN r = 1 .. Len(f) + 1
        /\ r[1] = t /\ \A j \in 1 .. Len(f) : r[j + 1] = f[j]
        /\ ToSet(r) = ToSet(f) \cup {t} /\ IsInjective(r)
    BY Zenon, <2>2, <2>3, PushResult
  <2> HIDE DEF r, e, I
  <2>5. Len(r) = Cap /\ DOMAIN r = 1 .. Cap
    BY <1>2, <1>10, <2>2, <2>4
  <2>6. I \in SUBSET T
    BY <1>1, <2>2 DEF I, ToSet
  <2>7. /\ e.lru = r /\ e.invalid = I /\ e.server = S /\ e \in Conn(T)
    BY <1>1, <2>1, <2>4, <2>6 DEF Conn
  <2>8. Cached(e) = (Cached(c) \ {l}) \cup {t}
    BY <1>3, <2>2, <2>4, <2>7 DEF Cached
  <2>9. Consistent(e)
    <3>1. Len(r) <= Cap
      BY <1>2, <2>5
    <3>2. I \cap Cached(e) = {} /\ S = Cached(e) \cup I
      BY <1>3, <1>5, <2>2, <2>8 DEF S, I
    <3> QED
      BY Zenon, <1>4, <2>4, <2>7, <3>1, <3>2 DEF Consistent
  <2>10. ASSUME NEW m \in Nat, m < Cap PROVE Recent(c, m) \cup {t} \subseteq Recent(e, m + 1)
    <3>1. \A j \in 1 .. n : j <= m => j + 1 \in 1 .. Cap /\ j + 1 <= m + 1 /\ r[j + 1] = s[j]
      BY <1>2, <1>10, <2>2, <2>4, <2>10
    <3>2. 1 \in 1 .. Cap /\ 1 <= m + 1
      BY <1>2
    <3>3. t \in Recent(e, m + 1)
      BY <2>4, <2>5, <2>7, <3>2 DEF Recent
    <3>4. ASSUME NEW j \in 1 .. n, j <= m PROVE s[j] \in Recent(e, m + 1)
      BY <2>5, <2>7, <3>1, <3>4 DEF Recent
    <3> QED
      BY <1>1, <3>3, <3>4 DEF Recent, s
  <2>11. t \in Cached(e)
    BY <2>8
  <2> QED
    BY <1>10, <2>5, <2>7, <2>9, <2>10, <2>11 DEF e, S, n, s, d
<1>11. n < Cap \/ n = Cap
  BY <1>1, <1>2
<1> QED
  BY Zenon, <1>9, <1>10, <1>11

(* Query, whether it finds its text in the cache or prepares it. *)
LEMMA QueryResult ==
    ASSUME NEW T, NEW c \in Conn(T), Consistent(c), NEW t \in T
    PROVE  LET e == Query(c, t)
           IN  /\ e \in Conn(T) /\ Consistent(e)
               /\ e.server = Cached(c) \cup {t} /\ t \in Cached(e)
               /\ t \in Cached(c) =>
                     Len(e.lru) = Len(c.lru) /\ e.invalid = {} /\ Cached(e) = Cached(c)
               /\ t \notin Cached(c) =>
                     \/ Len(e.lru) = Len(c.lru) + 1 /\ e.invalid = {} /\ Cached(e) = Cached(c) \cup {t}
                     \/ Len(c.lru) = Cap /\ Len(e.lru) = Cap
<1> DEFINE d == Deallocate(c)
<1>1. /\ d \in Conn(T) /\ Consistent(d)
      /\ d.lru = c.lru /\ Cached(d) = Cached(c) /\ d.invalid = {} /\ d.server = Cached(c)
  BY Zenon, DeallocateResult
<1> HIDE DEF d
<1>2. CASE t \in Cached(c)
  <2> DEFINE e == Touch(d, t)
  <2>1. Query(c, t) = e
    BY Zenon, <1>1, <1>2 DEF Query, d
  <2>2. /\ e \in Conn(T) /\ Consistent(e)
        /\ Cached(e) = Cached(d) /\ e.server = d.server /\ e.invalid = d.invalid
        /\ Len(e.lru) = Len(d.lru)
    BY Zenon, <1>1, <1>2, TouchResult
  <2> HIDE DEF e
  <2> QED
    BY <1>1, <1>2, <2>1, <2>2
<1>3. CASE t \notin Cached(c)
  <2> DEFINE e == Put(Prepare(d, t), t)
  <2>1. Query(c, t) = e
    BY Zenon, <1>1, <1>3 DEF Query, d
  <2>2. /\ e \in Conn(T) /\ Consistent(e)
        /\ e.server = d.server \cup {t} /\ t \in Cached(e)
        /\ \/ /\ Len(d.lru) < Cap /\ Len(e.lru) = Len(d.lru) + 1
              /\ e.invalid = d.invalid /\ Cached(e) = Cached(d) \cup {t}
           \/ Len(d.lru) = Cap /\ Len(e.lru) = Cap
        /\ \A n \in Nat : n < Cap => Recent(d, n) \cup {t} \subseteq Recent(e, n + 1)
    <3>1. t \notin d.server
      BY <1>1, <1>3
    <3> QED
      BY Zenon, <1>1, <3>1, PutResult
  <2> HIDE DEF e
  <2> QED
    BY <1>1, <1>3, <2>1, <2>2
<1> QED
  BY <1>2, <1>3

(* A text that is invalid leaves the cache; its statement stays for now. *)
LEMMA InvalidateResult ==
    ASSUME NEW T, NEW c \in Conn(T), Consistent(c), NEW t \in T
    PROVE  LET e == Invalidate(c, t)
           IN  /\ e \in Conn(T) /\ Consistent(e)
               /\ e.server = c.server /\ Cached(e) = Cached(c) \ {t}
               /\ t \in Cached(c) => Len(e.lru) = Len(c.lru) - 1
               /\ t \notin Cached(c) => e = c
<1> DEFINE e == Invalidate(c, t)
<1>1. CASE t \notin Cached(c)
  <2>1. e = c
    BY <1>1 DEF Invalidate
  <2> QED
    BY <1>1, <2>1
<1>2. CASE t \in Cached(c)
  <2> DEFINE s == c.lru
             r == RemoveFirst(s, t)
             n == Len(s)
  <2>1. e = [lru |-> r, invalid |-> c.invalid \cup {t}, server |-> c.server]
    BY <1>2 DEF Invalidate
  <2>3. /\ s \in Seq(T) /\ n \in Nat /\ DOMAIN s = 1 .. n /\ c.invalid \in SUBSET T /\ c.server \in SUBSET T
        /\ Cached(c) = {s[j] : j \in 1 .. n}
    BY ConnFacts
  <2>4. /\ IsInjective(s) /\ n <= Cap /\ c.invalid \cap Cached(c) = {}
        /\ c.server = Cached(c) \cup c.invalid /\ IsFiniteSet(c.server)
    BY DEF Consistent
  <2>5. PICK k \in 1 .. n : t = s[k]
    BY <1>2, <2>3
  <2>6. /\ r \in Seq(T) /\ Len(r) = n - 1
        /\ \A j \in 1 .. n - 1 : r[j] = IF j < k THEN s[j] ELSE s[j + 1]
    BY <2>3, <2>4, <2>5, RemoveFirstAt
  <2> HIDE DEF r, n, s, e
  <2>7. DOMAIN r = 1 .. n - 1
    BY <2>3, <2>6
  <2>8. k \in Nat /\ 1 <= k /\ k <= n
    BY <2>3, <2>5
  <2> DEFINE from(j) == IF j < k THEN j ELSE j + 1
             to(j) == IF j < k THEN j ELSE j - 1
  <2>9. \A j \in 1 .. n - 1 : r[j] = s[from(j)] /\ from(j) \in 1 .. n /\ from(j) # k
    BY <2>3, <2>6, <2>8
  <2>10. \A j \in 1 .. n : j # k => to(j) \in 1 .. n - 1 /\ from(to(j)) = j
    BY <2>3, <2>8
  <2>11. \A i, j \in 1 .. n - 1 : from(i) = from(j) => i = j
    BY <2>3, <2>8
  <2> HIDE DEF from, to
  <2>12. IsInjective(r)
    BY <2>3, <2>4, <2>7, <2>9, <2>11 DEF IsInjective
  <2>13. ToSet(r) = Cached(c) \ {t}
    <3>1. ASSUME NEW j \in 1 .. n - 1 PROVE r[j] \in Cached(c) /\ r[j] # t
      BY <2>3, <2>4, <2>5, <2>9 DEF IsInjective
    <3>2. ASSUME NEW j \in 1 .. n, s[j] # t PROVE s[j] \in ToSet(r)
      <4>1. to(j) \in 1 .. n - 1 /\ r[to(j)] = s[j]
        BY <2>5, <2>9, <2>10, <3>2
      <4> QED
        BY Zenon, <2>7, <4>1 DEF ToSet
    <3> QED
      BY <2>3, <2>7, <3>1, <3>2 DEF ToSet
  <2>14. Len(r) <= Cap
    BY <2>3, <2>4, <2>6, CapAssumption
  <2>15. /\ e.lru = r /\ e.invalid = c.invalid \cup {t} /\ e.server = c.server /\ e \in Conn(T)
    BY <2>1, <2>3, <2>6 DEF Conn
  <2>16. Cached(e) = Cached(c) \ {t}
    BY <2>13, <2>15 DEF Cached
  <2>17. e.invalid \cap Cached(e) = {} /\ e.server = Cached(e) \cup e.invalid
    BY <1>2, <2>4, <2>15, <2>16
  <2>18. Consistent(e)
    BY Zenon, <2>4, <2>12, <2>14, <2>15, <2>17 DEF Consistent
  <2>19. Len(e.lru) = n - 1
    BY Zenon, <2>6, <2>15
  <2> QED
    BY Zenon, <1>2, <2>15, <2>16, <2>18, <2>19 DEF e, n, s
<1> QED
  BY <1>1, <1>2

(* A query that failed leaves no statement behind that Query would not. *)
LEMMA FailedResult ==
    ASSUME NEW T, NEW c \in Conn(T), Consistent(c), NEW t \in T, NEW e \in Failed(c, t)
    PROVE  e \in Conn(T) /\ Consistent(e) /\ (e = c \/ e.server \subseteq Cached(c) \cup {t})
<1>1. CASE e = c
  BY <1>1
<1>2. CASE e = Deallocate(c)
  BY <1>2, DeallocateResult
<1>3. CASE e = Invalidate(Query(c, t), t)
  <2> DEFINE d == Query(c, t)
  <2>1. d \in Conn(T) /\ Consistent(d) /\ d.server = Cached(c) \cup {t}
    BY QueryResult
  <2> HIDE DEF d
  <2>2. e = Invalidate(d, t)
    BY <1>3 DEF d
  <2>3. e \in Conn(T) /\ Consistent(e) /\ e.server = d.server
    BY Zenon, <2>1, <2>2, InvalidateResult
  <2> QED
    BY <2>1, <2>3
<1> QED
  BY <1>1, <1>2, <1>3 DEF Failed

(* Looking a text up changes the order of the cache at most. *)
LEMMA LookupResult ==
    ASSUME NEW T, NEW c \in Conn(T), Consistent(c), NEW t
    PROVE  LET e == Lookup(c, t)
           IN  /\ e \in Conn(T) /\ Consistent(e)
               /\ Cached(e) = Cached(c) /\ e.server = c.server /\ e.invalid = c.invalid
               /\ Len(e.lru) = Len(c.lru)
               /\ t \notin Cached(c) => e = c
               /\ \A n \in Nat : t \in Cached(c) => Recent(c, n) \cup {t} \subseteq Recent(e, n + 1)
               /\ \A n \in Nat : t \in Recent(c, n) => Recent(c, n) \subseteq Recent(e, n)
<1>1. CASE t \in Cached(c)
  <2>1. Lookup(c, t) = Touch(c, t)
    BY <1>1 DEF Lookup
  <2> QED
    BY Zenon, <1>1, <2>1, TouchResult
<1>2. CASE t \notin Cached(c)
  <2>1. Lookup(c, t) = c
    BY <1>2 DEF Lookup
  <2> QED
    BY <1>2, <2>1
<1> QED
  BY <1>1, <1>2

(* So does looking four texts up.  If the second is new, the others are    *)
(* the most recent ones after that, and stay so if they were.              *)
LEMMA LookedResult ==
    ASSUME NEW T, NEW c \in Conn(T), Consistent(c), NEW s, NEW t, NEW u, NEW v
    PROVE  LET e == Looked(c, s, t, u, v)
           IN  /\ e \in Conn(T) /\ Consistent(e)
               /\ Cached(e) = Cached(c) /\ e.server = c.server /\ e.invalid = c.invalid
               /\ Len(e.lru) = Len(c.lru)
               /\ {s, u, v} \subseteq Cached(c) /\ t \notin Cached(c) => {s, u, v} \subseteq Recent(e, 3)
               /\ {s, u, v} \subseteq Recent(c, 4) /\ t \notin Cached(c) => {s, u, v} \subseteq Recent(e, 4)
<1> DEFINE l1 == Lookup(c, s)
           l2 == Lookup(l1, t)
           l3 == Lookup(l2, u)
           l4 == Lookup(l3, v)
<1>1. Looked(c, s, t, u, v) = l4
  BY Zenon DEF Looked
<1> DEFINE LookedUp(a, b, x) ==
             /\ b \in Conn(T) /\ Consistent(b)
             /\ Cached(b) = Cached(a) /\ b.server = a.server /\ b.invalid = a.invalid
             /\ Len(b.lru) = Len(a.lru)
             /\ x \notin Cached(a) => b = a
             /\ \A n \in Nat : x \in Cached(a) => Recent(a, n) \cup {x} \subseteq Recent(b, n + 1)
             /\ \A n \in Nat : x \in Recent(a, n) => Recent(a, n) \subseteq Recent(b, n)
<1>2. ASSUME NEW a \in Conn(T), Consistent(a), NEW x PROVE LookedUp(a, Lookup(a, x), x)
  BY Zenon, <1>2, LookupResult
<1> HIDE DEF l1, l2, l3, l4
<1>3. LookedUp(c, l1, s) /\ LookedUp(l1, l2, t) /\ LookedUp(l2, l3, u) /\ LookedUp(l3, l4, v)
  <2>1. LookedUp(c, l1, s)
    BY Zenon, <1>2 DEF l1
  <2>2. LookedUp(l1, l2, t)
    BY Zenon, <1>2, <2>1 DEF l2
  <2>3. LookedUp(l2, l3, u)
    BY Zenon, <1>2, <2>2 DEF l3
  <2>4. LookedUp(l3, l4, v)
    BY Zenon, <1>2, <2>3 DEF l4
  <2> QED
    BY Zenon, <2>1, <2>2, <2>3, <2>4
<1>4. /\ Cached(l1) = Cached(c) /\ Cached(l2) = Cached(c) /\ Cached(l3) = Cached(c) /\ Cached(l4) = Cached(c)
      /\ l4 \in Conn(T) /\ Consistent(l4) /\ l4.server = c.server /\ l4.invalid = c.invalid
      /\ Len(l4.lru) = Len(c.lru)
  BY <1>3
<1>5. ASSUME {s, u, v} \subseteq Cached(c), t \notin Cached(c) PROVE {s, u, v} \subseteq Recent(l4, 3)
  <2>1. {s} \subseteq Recent(l1, 1)
    <3>1. Recent(c, 0) \cup {s} \subseteq Recent(l1, 0 + 1)
      BY <1>3, <1>5
    <3> QED
      BY <3>1
  <2>2. l2 = l1
    BY <1>3, <1>4, <1>5
  <2>3. {s, u} \subseteq Recent(l3, 2)
    <3>1. u \in Cached(l2)
      BY <1>4, <1>5
    <3>2. Recent(l2, 1) \cup {u} \subseteq Recent(l3, 1 + 1)
      BY <1>3, <3>1
    <3> QED
      BY <2>1, <2>2, <3>2
  <2>4. v \in Cached(l3)
    BY <1>4, <1>5
  <2>5. Recent(l3, 2) \cup {v} \subseteq Recent(l4, 2 + 1)
    BY <1>3, <2>4
  <2> QED
    BY <2>3, <2>5
<1>6. ASSUME {s, u, v} \subseteq Recent(c, 4), t \notin Cached(c) PROVE {s, u, v} \subseteq Recent(l4, 4)
  <2>1. Recent(c, 4) \subseteq Recent(l1, 4)
    BY <1>3, <1>6
  <2>2. l2 = l1
    BY <1>3, <1>4, <1>6
  <2>3. {s, u, v} \subseteq Recent(l2, 4)
    BY <1>6, <2>1, <2>2
  <2>4. Recent(l2, 4) \subseteq Recent(l3, 4)
    BY <1>3, <2>3
  <2>5. {s, u, v} \subseteq Recent(l3, 4)
    BY <2>3, <2>4
  <2>6. Recent(l3, 4) \subseteq Recent(l4, 4)
    BY <1>3, <2>5
  <2> QED
    BY <2>5, <2>6
<1> QED
  BY <1>1, <1>4, <1>5, <1>6

(* A text of a batch is prepared unless it was known when the batch began. *)
LEMMA LearnResult ==
    ASSUME NEW T, NEW c \in Conn(T), Consistent(c), NEW t \in T, NEW known,
           t \notin known => t \notin c.server
    PROVE  LET e == Learn(known, c, t)
           IN  /\ e \in Conn(T) /\ Consistent(e)
               /\ t \in known => e = c
               /\ t \notin known => e.server = c.server \cup {t}
               /\ Len(c.lru) = Cap => Len(e.lru) = Cap
               /\ t \notin known =>
                     \/ /\ Len(c.lru) < Cap /\ Len(e.lru) = Len(c.lru) + 1
                        /\ e.invalid = c.invalid /\ Cached(e) = Cached(c) \cup {t}
                     \/ Len(c.lru) = Cap /\ Len(e.lru) = Cap
               /\ \A n \in Nat : t \notin known /\ n < Cap => Recent(c, n) \cup {t} \subseteq Recent(e, n + 1)
<1>1. CASE t \in known
  <2>1. Learn(known, c, t) = c
    BY <1>1 DEF Learn
  <2> QED
    BY <1>1, <2>1
<1>2. CASE t \notin known
  <2> DEFINE e == Put(Prepare(c, t), t)
  <2>1. Learn(known, c, t) = e
    BY <1>2 DEF Learn
  <2>2. /\ e \in Conn(T) /\ Consistent(e)
        /\ e.server = c.server \cup {t} /\ t \in Cached(e)
        /\ \/ /\ Len(c.lru) < Cap /\ Len(e.lru) = Len(c.lru) + 1
              /\ e.invalid = c.invalid /\ Cached(e) = Cached(c) \cup {t}
           \/ Len(c.lru) = Cap /\ Len(e.lru) = Cap
        /\ \A n \in Nat : n < Cap => Recent(c, n) \cup {t} \subseteq Recent(e, n + 1)
    BY Zenon, <1>2, PutResult
  <2> HIDE DEF e
  <2>3. Len(c.lru) = Cap => Len(e.lru) = Cap
    BY <2>2, ConnFacts, CapAssumption
  <2> QED
    BY Zenon, <1>2, <2>1, <2>2, <2>3
<1> QED
  BY <1>1, <1>2

(* A batch of four different texts.  Its new texts go to the server; if all *)
(* were new, or all but the second, the others are the most recent ones    *)
(* after it, and it has added exactly the new ones as long as they fit.    *)
LEMMA SendBatchResult ==
    ASSUME NEW T, NEW c \in Conn(T), Consistent(c),
           NEW s \in T, NEW t \in T, NEW u \in T, NEW v \in T,
           s # t, s # u, s # v, t # u, t # v, u # v
    PROVE  LET e == SendBatch(c, s, t, u, v)
           IN  /\ e \in Conn(T) /\ Consistent(e)
               /\ e.server = Cached(c) \cup {s, t, u, v}
               /\ Len(c.lru) = Cap => Len(e.lru) = Cap
               /\ {s, t, u, v} \cap Cached(c) = {} =>
                     /\ 4 <= Cap => {s, t, u, v} \subseteq Recent(e, 4)
                     /\ \/ Len(e.lru) = Len(c.lru) + 4 /\ e.invalid = {} /\ Cached(e) = Cached(c) \cup {s, t, u, v}
                        \/ Len(c.lru) + 4 > Cap /\ Len(e.lru) = Cap
               /\ 4 <= Cap /\ {s, u, v} \subseteq Recent(c, 4) /\ t \notin Cached(c) =>
                     /\ {s, u, v} \subseteq Recent(e, 4)
                     /\ \/ Len(e.lru) = Len(c.lru) + 1 /\ e.invalid = {} /\ Cached(e) = Cached(c) \cup {t}
                        \/ Len(c.lru) = Cap /\ Len(e.lru) = Cap
<1> DEFINE d == Deallocate(c)
           known == Cached(d)
           l4 == Looked(d, s, t, u, v)
           e1 == Learn(known, l4, s)
           e2 == Learn(known, e1, t)
           e3 == Learn(known, e2, u)
           e4 == Learn(known, e3, v)
<1>1. SendBatch(c, s, t, u, v) = e4
  BY Zenon DEF SendBatch
<1>2. /\ d \in Conn(T) /\ Consistent(d)
      /\ d.lru = c.lru /\ known = Cached(c) /\ d.invalid = {} /\ d.server = Cached(c)
      /\ \A n \in Nat : Recent(d, n) = Recent(c, n)
  BY Zenon, DeallocateResult
<1>3. Len(c.lru) \in Nat /\ Cap \in Nat \ {0} /\ Len(c.lru) <= Cap
  BY ConnFacts, CapAssumption DEF Consistent
<1> DEFINE Learned(a, b, x) ==
             /\ b \in Conn(T) /\ Consistent(b)
             /\ x \in known => b = a
             /\ x \notin known => b.server = a.server \cup {x}
             /\ Len(a.lru) = Cap => Len(b.lru) = Cap
             /\ x \notin known =>
                   \/ /\ Len(a.lru) < Cap /\ Len(b.lru) = Len(a.lru) + 1
                      /\ b.invalid = a.invalid /\ Cached(b) = Cached(a) \cup {x}
                   \/ Len(a.lru) = Cap /\ Len(b.lru) = Cap
             /\ \A n \in Nat : x \notin known /\ n < Cap => Recent(a, n) \cup {x} \subseteq Recent(b, n + 1)
<1>5. ASSUME NEW a \in Conn(T), Consistent(a), NEW x \in T, x \notin known => x \notin a.server
      PROVE  Learned(a, Learn(known, a, x), x)
  BY Zenon, <1>5, LearnResult
<1> HIDE DEF d, known, l4, e1, e2, e3, e4
<1>6. /\ l4 \in Conn(T) /\ Consistent(l4)
      /\ Cached(l4) = Cached(d) /\ l4.server = d.server /\ l4.invalid = d.invalid
      /\ Len(l4.lru) = Len(d.lru)
      /\ {s, u, v} \subseteq Cached(d) /\ t \notin Cached(d) => {s, u, v} \subseteq Recent(l4, 3)
  <2> SUFFICES /\ l4 \in Conn(T) /\ Consistent(l4)
               /\ Cached(l4) = Cached(d) /\ l4.server = d.server /\ l4.invalid = d.invalid
               /\ Len(l4.lru) = Len(d.lru)
               /\ {s, u, v} \subseteq Cached(d) /\ t \notin Cached(d) => {s, u, v} \subseteq Recent(l4, 3)
    OBVIOUS
  <2> QED
    BY <1>2, LookedResult DEF l4
<1>7. /\ l4 \in Conn(T) /\ Consistent(l4) /\ l4.server = known /\ l4.invalid = {} /\ Cached(l4) = known
      /\ Len(l4.lru) = Len(c.lru)
  BY <1>2, <1>6 DEF known
<1>8. /\ Learned(l4, e1, s) /\ Learned(e1, e2, t) /\ Learned(e2, e3, u) /\ Learned(e3, e4, v)
      /\ e4.server = Cached(c) \cup {s, t, u, v}
  <2>1. Learned(l4, e1, s)
    BY Zenon, <1>5, <1>7 DEF e1
  <2>2. e1.server = known \cup {s}
    BY <1>7, <2>1
  <2>3. Learned(e1, e2, t)
    <3>1. t \notin known => t \notin e1.server
      BY <2>2
    <3> QED
      BY Zenon, <1>5, <2>1, <3>1 DEF e2
  <2>4. e2.server = known \cup {s, t}
    BY <2>2, <2>3
  <2>5. Learned(e2, e3, u)
    <3>1. u \notin known => u \notin e2.server
      BY <2>4
    <3> QED
      BY Zenon, <1>5, <2>3, <3>1 DEF e3
  <2>6. e3.server = known \cup {s, t, u}
    BY <2>4, <2>5
  <2>7. Learned(e3, e4, v)
    <3>1. v \notin known => v \notin e3.server
      BY <2>6
    <3> QED
      BY Zenon, <1>5, <2>5, <3>1 DEF e4
  <2>8. e4.server = known \cup {s, t, u, v}
    BY <2>6, <2>7
  <2> QED
    BY Zenon, <1>2, <2>1, <2>3, <2>5, <2>7, <2>8
<1>9. Len(c.lru) = Cap => Len(e4.lru) = Cap
  BY <1>7, <1>8
<1>10. ASSUME {s, t, u, v} \cap Cached(c) = {}
       PROVE  /\ 4 <= Cap => {s, t, u, v} \subseteq Recent(e4, 4)
              /\ \/ Len(e4.lru) = Len(c.lru) + 4 /\ e4.invalid = {} /\ Cached(e4) = Cached(c) \cup {s, t, u, v}
                 \/ Len(c.lru) + 4 > Cap /\ Len(e4.lru) = Cap
  <2>1. s \notin known /\ t \notin known /\ u \notin known /\ v \notin known
    BY <1>2, <1>10
  <2>2. ASSUME 4 <= Cap PROVE {s, t, u, v} \subseteq Recent(e4, 4)
    <3>1. \A n \in Nat : n < Cap =>
             /\ Recent(l4, n) \cup {s} \subseteq Recent(e1, n + 1)
             /\ Recent(e1, n) \cup {t} \subseteq Recent(e2, n + 1)
             /\ Recent(e2, n) \cup {u} \subseteq Recent(e3, n + 1)
             /\ Recent(e3, n) \cup {v} \subseteq Recent(e4, n + 1)
      BY Zenon, <1>8, <2>1
    <3>2. Recent(l4, 0) \cup {s} \subseteq Recent(e1, 1)
      BY <1>3, <3>1
    <3>3. Recent(e1, 1) \cup {t} \subseteq Recent(e2, 2)
      BY <1>3, <2>2, <3>1
    <3>4. Recent(e2, 2) \cup {u} \subseteq Recent(e3, 3)
      BY <1>3, <2>2, <3>1
    <3>5. Recent(e3, 3) \cup {v} \subseteq Recent(e4, 4)
      BY <1>3, <2>2, <3>1
    <3> HIDE DEF Learned
    <3> QED
      BY <3>2, <3>3, <3>4, <3>5
  <2>3. CASE Len(c.lru) + 4 <= Cap
    <3>1. Len(e1.lru) = Len(c.lru) + 1 /\ e1.invalid = {} /\ Cached(e1) = Cached(c) \cup {s}
      BY <1>2, <1>3, <1>7, <1>8, <2>1, <2>3
    <3>2. Len(e2.lru) = Len(c.lru) + 2 /\ e2.invalid = {} /\ Cached(e2) = Cached(c) \cup {s, t}
      BY <1>3, <1>8, <2>1, <2>3, <3>1
    <3>3. Len(e3.lru) = Len(c.lru) + 3 /\ e3.invalid = {} /\ Cached(e3) = Cached(c) \cup {s, t, u}
      BY <1>3, <1>8, <2>1, <2>3, <3>2
    <3>4. Len(e4.lru) = Len(c.lru) + 4 /\ e4.invalid = {} /\ Cached(e4) = Cached(c) \cup {s, t, u, v}
      BY <1>3, <1>8, <2>1, <2>3, <3>3
    <3> QED
      BY <2>2, <3>4
  <2>4. CASE Len(c.lru) + 4 > Cap
    <3>1. /\ Len(e1.lru) = Len(c.lru) + 1 \/ Len(e1.lru) = Cap
          /\ Len(e2.lru) = Len(e1.lru) + 1 \/ Len(e2.lru) = Cap
          /\ Len(e3.lru) = Len(e2.lru) + 1 \/ Len(e3.lru) = Cap
          /\ Len(e4.lru) = Len(e3.lru) + 1 \/ Len(e4.lru) = Cap
      BY Zenon, <1>7, <1>8, <2>1
    <3>2. /\ Len(e1.lru) \in Nat /\ Len(e2.lru) \in Nat /\ Len(e3.lru) \in Nat /\ Len(e4.lru) \in Nat
          /\ Len(e4.lru) <= Cap
      BY Zenon, <1>8, ConnFacts DEF Consistent
    <3> DEFINE n == Len(c.lru)
               n1 == Len(e1.lru)
               n2 == Len(e2.lru)
               n3 == Len(e3.lru)
               n4 == Len(e4.lru)
    <3>3. /\ n \in Nat /\ n1 \in Nat /\ n2 \in Nat /\ n3 \in Nat /\ n4 \in Nat /\ Cap \in Nat
          /\ n + 4 > Cap /\ n4 <= Cap
          /\ n1 = n + 1 \/ n1 = Cap
          /\ n2 = n1 + 1 \/ n2 = Cap
          /\ n3 = n2 + 1 \/ n3 = Cap
          /\ n4 = n3 + 1 \/ n4 = Cap
      BY Zenon, <1>3, <2>4, <3>1, <3>2
    <3>4. n4 = Cap
      <4> HIDE DEF n, n1, n2, n3, n4
      <4> QED
        BY <3>3
    <3> QED
      BY <2>2, <2>4, <3>4
  <2> QED
    BY <1>3, <2>3, <2>4
<1>11. ASSUME 4 <= Cap, {s, u, v} \subseteq Recent(c, 4), t \notin Cached(c)
       PROVE  /\ {s, u, v} \subseteq Recent(e4, 4)
              /\ \/ Len(e4.lru) = Len(c.lru) + 1 /\ e4.invalid = {} /\ Cached(e4) = Cached(c) \cup {t}
                 \/ Len(c.lru) = Cap /\ Len(e4.lru) = Cap
  <2>1. Recent(c, 4) \subseteq Cached(c)
    BY ConnFacts DEF Recent
  <2>2. s \in known /\ u \in known /\ v \in known /\ t \notin known
    BY <1>2, <1>11, <2>1
  <2>6. {s, u, v} \subseteq Recent(l4, 3)
    <3>1. known = Cached(d)
      BY DEF known
    <3> QED
      BY <1>6, <2>2, <3>1
  <2>7. e1 = l4 /\ e3 = e2 /\ e4 = e3
    BY <1>8, <2>2
  <2>8. Recent(l4, 3) \cup {t} \subseteq Recent(e2, 3 + 1)
    BY <1>3, <1>8, <1>11, <2>2, <2>7
  <2>9. \/ Len(e2.lru) = Len(c.lru) + 1 /\ e2.invalid = {} /\ Cached(e2) = Cached(c) \cup {t}
        \/ Len(c.lru) = Cap /\ Len(e2.lru) = Cap
    BY <1>2, <1>7, <1>8, <2>2, <2>7
  <2> QED
    BY <2>6, <2>7, <2>8, <2>9
<1> QED
  BY <1>1, <1>8, <1>9, <1>10, <1>11
=============================================================================
