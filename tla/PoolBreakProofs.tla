-------------------------- MODULE PoolBreakProofs ---------------------------
(***************************************************************************)
(* Proofs about module PoolBreak, for every capacity of the cache from     *)
(* nine on and every number of iterations, whichever of them fail.         *)
(* PoolInv is inductive: one lemma per action below, or per outcome of an  *)
(* iteration, on top of what StmtCacheProofs shows of the cache's          *)
(* operations; the theorems at the end draw the properties from it.        *)
(***************************************************************************)
EXTENDS PoolBreakInv, StmtCacheProofs

LEMMA TextFacts ==
    /\ \A k \in Kinds : Text(k) \in Texts /\ Text(k)[1] = k /\ Text(k)[2] = 0
    /\ \A n \in Nat : SetLocal(n) \in Texts /\ SetLocal(n)[1] = "set local" /\ SetLocal(n)[2] = n
    /\ \A n \in Nat : Commented(n) \in Texts /\ Commented(n)[1] = "select" /\ Commented(n)[2] = n
    /\ Select \in Texts /\ Select[1] = "select" /\ Select[2] = 0
    /\ \A k, l \in Kinds : k # l => Text(k) # Text(l)
    /\ Select = Text("select")
    /\ Asking \subseteq Kinds
BY DEF Text, SetLocal, Commented, Select, Texts, Kinds, Asking

(* A call that adds one text to a cache leaves one statement above the cap *)
(* at most.                                                                *)
LEMMA OneAbove ==
    ASSUME NEW T, NEW c \in Conn(T), Consistent(c), NEW t,
           NEW S, S \subseteq Cached(c) \cup {t}
    PROVE  IsFiniteSet(S) /\ Cardinality(S) \in Nat /\ Cardinality(S) <= Cap + 1
<1>1. /\ IsFiniteSet(Cached(c)) /\ Cardinality(Cached(c)) \in Nat
      /\ Cardinality(Cached(c)) <= Cap /\ Cap \in Nat
  <2>1. IsFiniteSet(Cached(c)) /\ Cardinality(Cached(c)) = Len(c.lru) /\ Len(c.lru) \in Nat
    BY Zenon, CachedCount
  <2>2. Len(c.lru) <= Cap
    BY Zenon DEF Consistent
  <2> QED
    BY <2>1, <2>2, CapAssumption
<1> DEFINE U == Cached(c) \cup {t}
<1>2. IsFiniteSet(U) /\ (Cardinality(U) = Cardinality(Cached(c)) \/ Cardinality(U) = Cardinality(Cached(c)) + 1)
  BY <1>1, FS_AddElement
<1>3. IsFiniteSet(S) /\ Cardinality(S) <= Cardinality(U)
  BY <1>2, FS_Subset
<1> HIDE DEF U
<1> QED
  BY <1>1, <1>2, <1>3, FS_CardinalityType

LEMMA FourAbove ==
    ASSUME NEW T, NEW c \in Conn(T), Consistent(c), NEW s, NEW t, NEW u, NEW v,
           NEW S, S \subseteq Cached(c) \cup {s, t, u, v}
    PROVE  IsFiniteSet(S) /\ Cardinality(S) \in Nat /\ Cardinality(S) <= Cap + 4
<1> DEFINE R == Cached(c)
           U1 == R \cup {s}
           U2 == U1 \cup {t}
           U3 == U2 \cup {u}
           U4 == U3 \cup {v}
<1>1. IsFiniteSet(R) /\ Cardinality(R) \in Nat /\ Cardinality(R) <= Cap /\ Cap \in Nat
  <2>1. IsFiniteSet(Cached(c)) /\ Cardinality(Cached(c)) = Len(c.lru) /\ Len(c.lru) \in Nat
    BY Zenon, CachedCount
  <2>2. Len(c.lru) <= Cap
    BY Zenon DEF Consistent
  <2> QED
    BY <2>1, <2>2, CapAssumption
<1>2. S \subseteq U4
  OBVIOUS
<1>3. ASSUME NEW A, NEW a, IsFiniteSet(A)
      PROVE  /\ IsFiniteSet(A \cup {a})
             /\ Cardinality(A \cup {a}) = Cardinality(A) \/ Cardinality(A \cup {a}) = Cardinality(A) + 1
  BY <1>3, FS_AddElement
<1> HIDE DEF R
<1>4. IsFiniteSet(U1) /\ (Cardinality(U1) = Cardinality(R) \/ Cardinality(U1) = Cardinality(R) + 1)
  BY <1>1, <1>3
<1> HIDE DEF U1
<1>5. IsFiniteSet(U2) /\ (Cardinality(U2) = Cardinality(U1) \/ Cardinality(U2) = Cardinality(U1) + 1)
  BY <1>3, <1>4
<1> HIDE DEF U2
<1>6. IsFiniteSet(U3) /\ (Cardinality(U3) = Cardinality(U2) \/ Cardinality(U3) = Cardinality(U2) + 1)
  BY <1>3, <1>5
<1> HIDE DEF U3
<1>7. IsFiniteSet(U4) /\ (Cardinality(U4) = Cardinality(U3) \/ Cardinality(U4) = Cardinality(U3) + 1)
  BY <1>3, <1>6
<1> HIDE DEF U4
<1>8. IsFiniteSet(S) /\ Cardinality(S) <= Cardinality(U4) /\ Cardinality(S) \in Nat
  BY <1>2, <1>7, FS_Subset, FS_CardinalityType
<1> QED
  BY <1>1, <1>4, <1>5, <1>6, <1>7, <1>8

(* Setup and Take have five texts. *)
LEMMA FiveTexts ==
    ASSUME NEW S, \A t \in S : \E k \in Asking : t = Text(k)
    PROVE  IsFiniteSet(S) /\ Cardinality(S) \in Nat /\ Cardinality(S) <= 5
<1> DEFINE U0 == {Text("count")}
           U1 == U0 \cup {Text("seed")}
           U2 == U1 \cup {Text("extension")}
           U3 == U2 \cup {Text("statements")}
           U4 == U3 \cup {Text("prepared")}
<1>1. S \subseteq U4
  BY DEF Asking
<1>2. ASSUME NEW A, NEW a, IsFiniteSet(A)
      PROVE  /\ IsFiniteSet(A \cup {a})
             /\ Cardinality(A \cup {a}) = Cardinality(A) \/ Cardinality(A \cup {a}) = Cardinality(A) + 1
  BY <1>2, FS_AddElement
<1>3. IsFiniteSet(U0) /\ Cardinality(U0) = 1
  BY FS_Singleton
<1> HIDE DEF U0
<1>4. IsFiniteSet(U1) /\ (Cardinality(U1) = Cardinality(U0) \/ Cardinality(U1) = Cardinality(U0) + 1)
  BY <1>2, <1>3
<1> HIDE DEF U1
<1>5. IsFiniteSet(U2) /\ (Cardinality(U2) = Cardinality(U1) \/ Cardinality(U2) = Cardinality(U1) + 1)
  BY <1>2, <1>4
<1> HIDE DEF U2
<1>6. IsFiniteSet(U3) /\ (Cardinality(U3) = Cardinality(U2) \/ Cardinality(U3) = Cardinality(U2) + 1)
  BY <1>2, <1>5
<1> HIDE DEF U3
<1>7. IsFiniteSet(U4) /\ (Cardinality(U4) = Cardinality(U3) \/ Cardinality(U4) = Cardinality(U3) + 1)
  BY <1>2, <1>6
<1> HIDE DEF U4
<1>8. IsFiniteSet(S) /\ Cardinality(S) <= Cardinality(U4) /\ Cardinality(S) \in Nat
  BY <1>1, <1>7, FS_Subset, FS_CardinalityType
<1> QED
  BY <1>3, <1>4, <1>5, <1>6, <1>7, <1>8

(* Three texts that the client does not know of. *)
LEMMA ThreeMore ==
    ASSUME NEW S, IsFiniteSet(S), NEW a, NEW b, NEW c, NEW O, O \subseteq {a, b, c}
    PROVE  /\ IsFiniteSet(S \cup O) /\ Cardinality(S \cup O) \in Nat
           /\ Cardinality(S) \in Nat /\ Cardinality(S) <= Cardinality(S \cup O)
           /\ Cardinality(S \cup O) <= Cardinality(S) + 3
<1> DEFINE U1 == S \cup {a}
           U2 == U1 \cup {b}
           U3 == U2 \cup {c}
<1>1. S \cup O \subseteq U3 /\ S \subseteq S \cup O
  OBVIOUS
<1>2. ASSUME NEW A, NEW x, IsFiniteSet(A)
      PROVE  /\ IsFiniteSet(A \cup {x})
             /\ Cardinality(A \cup {x}) = Cardinality(A) \/ Cardinality(A \cup {x}) = Cardinality(A) + 1
  BY <1>2, FS_AddElement
<1>3. IsFiniteSet(U1) /\ (Cardinality(U1) = Cardinality(S) \/ Cardinality(U1) = Cardinality(S) + 1)
  BY <1>2
<1> HIDE DEF U1
<1>4. IsFiniteSet(U2) /\ (Cardinality(U2) = Cardinality(U1) \/ Cardinality(U2) = Cardinality(U1) + 1)
  BY <1>2, <1>3
<1> HIDE DEF U2
<1>5. IsFiniteSet(U3) /\ (Cardinality(U3) = Cardinality(U2) \/ Cardinality(U3) = Cardinality(U2) + 1)
  BY <1>2, <1>4
<1> HIDE DEF U3
<1>6. IsFiniteSet(S \cup O) /\ Cardinality(S \cup O) <= Cardinality(U3)
  BY <1>1, <1>5, FS_Subset
<1>7. Cardinality(S) <= Cardinality(S \cup O)
  BY <1>1, <1>6, FS_Subset
<1>8. Cardinality(S) \in Nat /\ Cardinality(S \cup O) \in Nat
  BY <1>6, FS_CardinalityType
<1> QED
  BY <1>3, <1>4, <1>5, <1>6, <1>7, <1>8

(* What every action starts from. *)
LEMMA PoolFacts ==
    ASSUME PoolInv
    PROVE  /\ Cap \in Nat /\ Cap >= 9
           /\ i \in Nat /\ iterations \in Nat \ {0} /\ i <= iterations
           /\ errors \in Nat /\ errors <= i /\ prepared \in Nat
           /\ conn \in Conn(Texts) /\ Consistent(conn)
           /\ Len(conn.lru) \in Nat /\ Len(conn.lru) <= Cap
           /\ Cardinality(Cached(conn)) = Len(conn.lru) /\ IsFiniteSet(Cached(conn))
           /\ Cached(conn) \subseteq conn.server /\ IsFiniteSet(conn.server)
           /\ snapshot["before"].rows \in Nat /\ snapshot["after"].rows \in Nat
           /\ snapshot["before"].rows <= 5
           /\ mode \in {"0", "1a", "1b", "2a", "2b", "3", "4"}
<1>1. conn \in Conn(Texts) /\ Consistent(conn) /\ TypeOK
  BY DEF PoolInv, TypeOK
<1>2. /\ Len(conn.lru) \in Nat /\ Len(conn.lru) <= Cap
      /\ Cardinality(Cached(conn)) = Len(conn.lru) /\ IsFiniteSet(Cached(conn))
  BY <1>1, CachedCount DEF Consistent
<1>3. Cached(conn) \subseteq conn.server /\ IsFiniteSet(conn.server)
  BY <1>1 DEF Consistent
<1>4. /\ Cap \in Nat /\ Cap >= 9
      /\ i \in Nat /\ iterations \in Nat \ {0} /\ i <= iterations
      /\ errors \in Nat /\ errors <= i /\ prepared \in Nat
  <2>1. iterations \in Nat \ {0}
    BY <1>1, IterationsAssumption DEF TypeOK
  <2>2. i \in 0 .. iterations /\ errors \in 0 .. i /\ prepared \in Nat
    BY <1>1 DEF TypeOK
  <2>3. i \in Nat
    BY <2>1, <2>2
  <2> QED
    BY <2>1, <2>2, <2>3, CapAssumption, RoomAssumption
<1>5. snapshot["before"].rows \in Nat /\ snapshot["after"].rows \in Nat
  BY <1>1 DEF TypeOK
<1>6. snapshot["before"].rows <= 5
  BY DEF PoolInv, FewBefore
<1>7. mode \in {"0", "1a", "1b", "2a", "2b", "3", "4"}
  BY <1>1, ModesAssumption DEF TypeOK
<1> QED
  BY <1>1, <1>2, <1>3, <1>4, <1>5, <1>6, <1>7

(* What the SELECT has cost so far. *)
LEMMA PreparedFacts ==
    ASSUME PoolInv
    PROVE  /\ Succeeded \in Nat /\ Succeeded = i - errors
           /\ mode = "2a" => prepared = 0
           /\ mode = "3" => Succeeded <= prepared /\ prepared <= i
           /\ mode \notin {"2a", "3"} =>
                 /\ Succeeded = 0 => prepared <= errors
                 /\ Succeeded # 0 => 1 <= prepared /\ prepared <= errors + 1
<1>1. i \in Nat /\ errors \in Nat /\ errors <= i /\ prepared \in Nat
  BY PoolFacts
<1>2. Succeeded \in Nat /\ Succeeded = i - errors
  BY <1>1 DEF Succeeded
<1> QED
  BY <1>1, <1>2 DEF PoolInv, SelectStaysCached

(* The texts of Setup and Take are five. *)
LEMMA AskingTexts ==
    ASSUME NEW S, S \subseteq Texts, \A t \in S : t[1] \in Asking /\ t[2] = 0
    PROVE  IsFiniteSet(S) /\ Cardinality(S) \in Nat /\ Cardinality(S) <= 5
<1>1. ASSUME NEW t \in S PROVE \E k \in Asking : t = Text(k)
  <2>1. t = <<t[1], t[2]>>
    BY DEF Texts
  <2> QED
    BY <2>1 DEF Text
<1> QED
  BY <1>1, FiveTexts

(* A server without texts of the loop has room. *)
LEMMA ColdFacts ==
    ASSUME PoolInv, Cold
    PROVE  /\ \A t \in conn.server : t[1] \in Asking /\ t[2] = 0
           /\ conn.server \subseteq Texts
           /\ Len(conn.lru) <= 5
<1>1. conn.server \subseteq Texts /\ Cached(conn) \subseteq conn.server
  BY PoolFacts DEF Conn
<1>2. \A t \in conn.server : t[1] \in Asking /\ t[2] = 0
  BY DEF PoolInv, Fresh, Cold
<1>3. Cardinality(Cached(conn)) <= 5
  BY <1>1, <1>2, AskingTexts
<1> QED
  BY <1>1, <1>2, <1>3, PoolFacts

(* What the client does not know of is three texts of a first batch. *)
LEMMA OrphanFacts ==
    ASSUME PoolInv
    PROVE  /\ IsFiniteSet(orphans) /\ \E n \in Nat : orphans \subseteq {Text("begin"), SetLocal(n), Select}
           /\ orphans # {} =>
                 mode = "2b" /\ phase = "after" /\ ~aborted /\ Cold /\ Text("begin") \in orphans
<1>1. orphans # {} =>
         mode = "2b" /\ phase = "after" /\ ~aborted /\ Cold /\ Text("begin") \in orphans
  BY DEF PoolInv, LeftBehind
<1>2. PICK n \in Nat : orphans \subseteq {Text("begin"), SetLocal(n), Select}
  <2>1. CASE orphans = {}
    BY <2>1
  <2>2. CASE orphans # {}
    BY <2>2, PoolFacts DEF PoolInv, LeftBehind
  <2> QED
    BY <2>1, <2>2
<1>3. IsFiniteSet({} \cup orphans)
  BY <1>2, ThreeMore, FS_EmptySet
<1> QED
  BY <1>1, <1>2, <1>3

(* A call of Setup or Take leaves one statement above the cap at most, and *)
(* none when it meets texts that the client does not know of.              *)
LEMMA AskBounded ==
    ASSUME PoolInv, NEW k \in Asking,
           NEW S, S \subseteq conn.server \/ S \subseteq Cached(conn) \cup {Text(k)}
    PROVE  Cardinality(S \cup orphans) <= Cap + (IF mode = "2b" THEN 4 ELSE 1)
<1>1. /\ conn \in Conn(Texts) /\ Consistent(conn) /\ Cached(conn) \subseteq conn.server
      /\ IsFiniteSet(conn.server) /\ IsFiniteSet(orphans) /\ Cap \in Nat /\ Cap >= 9
  BY PoolFacts, OrphanFacts
<1>2. CASE S \subseteq conn.server
  <2>1. IsFiniteSet(conn.server \cup orphans) /\ S \cup orphans \subseteq conn.server \cup orphans
    BY <1>1, <1>2, FS_Union
  <2>2. /\ Cardinality(S \cup orphans) <= Cardinality(conn.server \cup orphans)
        /\ Cardinality(S \cup orphans) \in Nat /\ Cardinality(conn.server \cup orphans) \in Nat
    BY <2>1, FS_Subset, FS_CardinalityType
  <2>3. Cardinality(conn.server \cup orphans) <= Cap + (IF mode = "2b" THEN 4 ELSE 1)
    BY DEF PoolInv, ServerBounded
  <2> QED
    BY <1>1, <2>2, <2>3
<1>3. CASE S \subseteq Cached(conn) \cup {Text(k)}
  <2>1. CASE orphans = {}
    <3>1. Cardinality(S) \in Nat /\ Cardinality(S) <= Cap + 1
      BY <1>1, <1>3, OneAbove
    <3>2. S \cup orphans = S
      BY <2>1
    <3> QED
      BY <1>1, <3>1, <3>2
  <2>2. CASE orphans # {}
    <3>1. Cold
      BY <2>2, OrphanFacts
    <3>2. S \subseteq Texts /\ \A t \in S : t[1] \in Asking /\ t[2] = 0
      <4>1. Text(k) \in Texts /\ Text(k)[1] = k /\ Text(k)[2] = 0
        BY TextFacts
      <4>2. conn.server \subseteq Texts /\ \A t \in conn.server : t[1] \in Asking /\ t[2] = 0
        BY <3>1, ColdFacts
      <4>3. \A t \in S : t \in conn.server \/ t = Text(k)
        BY <1>1, <1>3
      <4> QED
        BY <4>1, <4>2, <4>3
    <3>3. IsFiniteSet(S) /\ Cardinality(S) \in Nat /\ Cardinality(S) <= 5
      BY <3>2, AskingTexts
    <3>4. /\ Cardinality(S \cup orphans) \in Nat
          /\ Cardinality(S \cup orphans) <= Cardinality(S) + 3
      BY <3>3, OrphanFacts, ThreeMore
    <3> QED
      BY <1>1, <3>3, <3>4
  <2> QED
    BY <2>1, <2>2
<1> QED
  BY <1>2, <1>3

(* A query of Setup or Take. *)
LEMMA Asks ==
    ASSUME PoolInv, NEW k \in Asking, conn' = Query(conn, Text(k)), UNCHANGED <<mode, orphans>>
    PROVE  /\ conn' \in Conn(Texts) /\ Consistent(conn)' /\ ServerBounded'
           /\ conn'.server = Cached(conn) \cup {Text(k)} /\ Text(k) \in Cached(conn')
           /\ Len(conn'.lru) \in Nat /\ Len(conn'.lru) <= Cap
           /\ Cardinality(conn'.server) = Len(conn.lru) + (IF Text(k) \in Cached(conn) THEN 0 ELSE 1)
           /\ \A t \in conn'.server : t \in conn.server \/ (t[1] = k /\ t[2] = 0)
           /\ Text(k) \in Cached(conn) =>
                 Len(conn'.lru) = Len(conn.lru) /\ conn'.invalid = {} /\ Cached(conn') = Cached(conn)
           /\ Text(k) \notin Cached(conn) =>
                 \/ /\ Len(conn'.lru) = Len(conn.lru) + 1
                    /\ conn'.invalid = {} /\ Cached(conn') = Cached(conn) \cup {Text(k)}
                 \/ Len(conn.lru) = Cap /\ Len(conn'.lru) = Cap
<1>1. /\ conn \in Conn(Texts) /\ Consistent(conn) /\ Cached(conn) \subseteq conn.server /\ Cap \in Nat
  BY PoolFacts
<1>2. Text(k) \in Texts /\ Text(k)[1] = k /\ Text(k)[2] = 0
  BY TextFacts
<1> DEFINE e == Query(conn, Text(k))
<1>3. /\ e \in Conn(Texts) /\ Consistent(e)
      /\ e.server = Cached(conn) \cup {Text(k)} /\ Text(k) \in Cached(e)
      /\ Text(k) \in Cached(conn) =>
            Len(e.lru) = Len(conn.lru) /\ e.invalid = {} /\ Cached(e) = Cached(conn)
      /\ Text(k) \notin Cached(conn) =>
            \/ Len(e.lru) = Len(conn.lru) + 1 /\ e.invalid = {} /\ Cached(e) = Cached(conn) \cup {Text(k)}
            \/ Len(conn.lru) = Cap /\ Len(e.lru) = Cap
  BY Zenon, <1>1, <1>2, QueryResult
<1>5. Len(e.lru) \in Nat /\ Len(e.lru) <= Cap
  BY <1>3, CachedCount DEF Consistent
<1>6. conn' = e
  OBVIOUS
<1> HIDE DEF e
<1>7. Consistent(conn)'
  <2>1. Consistent(conn')
    BY <1>3, <1>6
  <2> QED
    BY <2>1 DEF Consistent, Cached
<1>8. ServerBounded'
  <2>1. conn'.server \subseteq Cached(conn) \cup {Text(k)}
    BY <1>3, <1>6
  <2>2. Cardinality(conn'.server \cup orphans) <= Cap + (IF mode = "2b" THEN 4 ELSE 1)
    BY <2>1, AskBounded
  <2> QED
    BY <2>2 DEF ServerBounded
<1>9. \A t \in conn'.server : t \in conn.server \/ (t[1] = k /\ t[2] = 0)
  BY <1>1, <1>2, <1>3, <1>6
<1>10. Cardinality(conn'.server) = Len(conn.lru) + (IF Text(k) \in Cached(conn) THEN 0 ELSE 1)
  <2>1. /\ IsFiniteSet(Cached(conn)) /\ Cardinality(Cached(conn)) = Len(conn.lru)
        /\ Len(conn.lru) \in Nat
    BY PoolFacts
  <2>2. CASE Text(k) \in Cached(conn)
    <3>1. conn'.server = Cached(conn)
      BY <1>3, <1>6, <2>2
    <3> QED
      BY <2>1, <2>2, <3>1
  <2>3. CASE Text(k) \notin Cached(conn)
    <3>1. Cardinality(Cached(conn) \cup {Text(k)}) = Cardinality(Cached(conn)) + 1
      BY <2>1, <2>3, FS_AddElement
    <3> QED
      BY <1>3, <1>6, <2>1, <2>3, <3>1
  <2> QED
    BY <2>2, <2>3
<1> QED
  BY <1>3, <1>5, <1>6, <1>7, <1>8, <1>9, <1>10

---------------------------------------------------------------------------
(* The actions. *)

LEMMA InitInv == Init => PoolInv
<1> SUFFICES ASSUME Init PROVE PoolInv
  OBVIOUS
<1>1. /\ conn = [lru |-> <<>>, invalid |-> {}, server |-> {}] /\ orphans = {}
      /\ pc = "count" /\ phase = "before" /\ i = 0 /\ errors = 0 /\ prepared = 0
      /\ snapshot = [t \in {"before", "after"} |-> NoSnapshot]
  BY DEF Init, NewConn
<1>2. Cap \in Nat /\ Cap >= 9 /\ Len(conn.lru) = 0
  BY <1>1, CapAssumption, RoomAssumption
<1>3. TypeOK
  <2>1. conn \in Conn(Texts)
    BY <1>1 DEF Conn
  <2>2. iterations \in IterationCounts /\ iterations \in Nat /\ warmup \in 0 .. iterations
    <3>1. iterations \in IterationCounts /\ iterations \in Nat
      BY IterationsAssumption DEF Init
    <3>2. warmup = iterations \/ (warmup \in WarmupCounts /\ warmup <= iterations)
      BY DEF Init
    <3>3. warmup \in Nat /\ warmup <= iterations
      <4>1. CASE warmup = iterations
        BY <3>1, <4>1
      <4>2. CASE warmup \in WarmupCounts /\ warmup <= iterations
        BY <4>2, IterationsAssumption
      <4> QED
        BY <3>2, <4>1, <4>2
    <3> QED
      BY <3>1, <3>3
  <2>3. snapshot \in [{"before", "after"} -> [ok : BOOLEAN, rows : Nat]]
    BY <1>1 DEF NoSnapshot
  <2>4. /\ command \in {"demo", "bench"} /\ mode \in Modes \cup {"3"}
        /\ installed \in BOOLEAN /\ open \in BOOLEAN /\ aborted \in BOOLEAN /\ ctx \in {"live", "done"}
    BY DEF Init
  <2>5. i \in 0 .. iterations /\ errors \in 0 .. i
    BY <1>1, <2>2
  <2> QED
    BY <1>1, <2>1, <2>2, <2>3, <2>4, <2>5 DEF TypeOK
<1>4. Consistent(conn)
  <2>1. Cached(conn) = {}
    BY <1>1 DEF Cached, ToSet
  <2>2. IsInjective(conn.lru)
    BY <1>1 DEF IsInjective
  <2> QED
    BY <1>1, <1>2, <2>1, <2>2, FS_EmptySet DEF Consistent
<1>5. ServerBounded
  <2>1. conn.server \cup orphans = {}
    BY <1>1
  <2> QED
    BY <1>2, <2>1, FS_EmptySet DEF ServerBounded
<1>6. Phases
  BY <1>1 DEF Phases, TakePc
<1>7. Fresh /\ Filling /\ Held /\ Shared /\ Counted
  BY <1>1 DEF Fresh, Cold, Filling, Held, Shared, Counted
<1>8. FewBefore
  BY <1>1 DEF FewBefore, NoSnapshot
<1>9. SelectStaysCached
  BY <1>1 DEF SelectStaysCached, Succeeded
<1>10. LeftBehind
  BY <1>1 DEF LeftBehind, Init
<1> QED
  BY <1>3, <1>4, <1>5, <1>6, <1>7, <1>8, <1>9, <1>10 DEF PoolInv

(* All queries of Setup and Take but the last. *)
LEMMA AskInv ==
    ASSUME PoolInv, SetupCount \/ SetupSeed \/ TakeExtension \/ TakeStatements
    PROVE  PoolInv'
<1>1. /\ pc \in {"count", "seed", "extension", "statements"} /\ pc \in Asking
      /\ conn' = Query(conn, Text(pc))
      /\ pc' \in {"seed", "extension", "statements", "prepared"}
      /\ pc = "count" => pc' \in {"seed", "extension"}
      /\ pc = "seed" => pc' = "extension"
      /\ pc = "extension" => pc' = IF installed THEN "statements" ELSE "prepared"
      /\ pc = "statements" => pc' = "prepared"
  BY DEF SetupCount, SetupSeed, TakeExtension, TakeStatements, Asking
<1>2. UNCHANGED <<choice, phase, open, ctx, loop, snapshot>>
  BY DEF SetupCount, SetupSeed, TakeExtension, TakeStatements
<1>3. UNCHANGED <<command, mode, iterations, warmup, installed, phase, ctx, i, errors, prepared, orphans, snapshot>>
  BY <1>2 DEF choice, loop
<1>4. /\ conn' \in Conn(Texts) /\ Consistent(conn)' /\ ServerBounded'
      /\ Text(pc) \in Cached(conn')
      /\ Len(conn'.lru) \in Nat /\ Len(conn'.lru) <= Cap
      /\ \A t \in conn'.server : t \in conn.server \/ (t[1] = pc /\ t[2] = 0)
      /\ Text(pc) \in Cached(conn) =>
            Len(conn'.lru) = Len(conn.lru) /\ conn'.invalid = {} /\ Cached(conn') = Cached(conn)
      /\ Text(pc) \notin Cached(conn) =>
            \/ /\ Len(conn'.lru) = Len(conn.lru) + 1
               /\ conn'.invalid = {} /\ Cached(conn') = Cached(conn) \cup {Text(pc)}
            \/ Len(conn.lru) = Cap /\ Len(conn'.lru) = Cap
  <2> HIDE DEF PoolInv
  <2> QED
    BY Zenon, <1>1, <1>3, Asks
<1>5. /\ Cap \in Nat /\ Cap >= 9 /\ i \in Nat
      /\ Len(conn.lru) \in Nat /\ Len(conn.lru) <= Cap
  BY PoolFacts
<1>6. TypeOK'
  <2>1. pc' \in TakePc \cup {"count", "seed", "loop", "report", "done", "failed"}
    BY <1>1 DEF TakePc
  <2>2. open' \in BOOLEAN /\ aborted' \in BOOLEAN
    BY <1>2 DEF loop, PoolInv, TypeOK
  <2> QED
    BY <1>3, <1>4, <2>1, <2>2 DEF PoolInv, TypeOK
<1>7. Phases'
  BY <1>1, <1>3 DEF PoolInv, Phases, TakePc
<1>8. Cold => Cold'
  BY <1>1, <1>4 DEF Cold
<1>9. Fresh'
  <2>1. \A t \in conn'.server : t[2] <= i /\ (t[1] \in Asking => t[2] = 0)
    BY <1>4, <1>5 DEF PoolInv, Fresh
  <2> QED
    BY <1>3, <1>8, <2>1 DEF PoolInv, Fresh
<1>10. Filling'
  <2> SUFFICES ASSUME phase = "before"
               PROVE  /\ pc' \in {"statements", "prepared"} => Text("extension") \in Cached(conn')
                      /\ pc' = "prepared" /\ installed => Text("statements") \in Cached(conn')
    BY <1>3 DEF Filling, Cached
  <2>1. Cold
    BY DEF PoolInv, Phases, Fresh
  <2>2. Len(conn.lru) <= 5
    BY <2>1, ColdFacts
  <2>3. Cached(conn') = Cached(conn) \cup {Text(pc)}
    BY <1>4, <1>5, <2>2
  <2> QED
    BY <1>1, <2>3 DEF PoolInv, Filling
<1>11. Held'
  <2> SUFFICES ASSUME phase = "after", snapshot["before"].ok, ~aborted PROVE Held'
    BY <1>2 DEF Held, loop
  <2> DEFINE b == snapshot["before"].rows
  <2>1. pc \in {"extension", "statements"} /\ pc \in TakePc
    BY <1>1 DEF PoolInv, Phases, TakePc
  <2>2. TextsKept' = TextsKept /\ NewTexts(i)' = NewTexts(i) /\ Queries' = Queries
    BY <1>3 DEF TextsKept, NewTexts, Succeeded, Queries
  <2>3. Text(pc) \in Queries
    <3>1. pc = "statements" => installed
      BY DEF PoolInv, Phases
    <3> QED
      BY <2>1, <3>1 DEF Queries
  <2>4. /\ b + TextsKept <= Len(conn.lru) \/ Full
        /\ Fits(NewTexts(i))
        /\ orphans # {} => Len(conn.lru) = b /\ Queries \subseteq Cached(conn)
    BY <2>1 DEF PoolInv, Held
  <2>5. Queries \subseteq Cached(conn) => Len(conn'.lru) = Len(conn.lru) /\ Cached(conn') = Cached(conn)
    BY <1>4, <2>3
  <2>6. Len(conn.lru) <= Len(conn'.lru)
    BY <1>4, <1>5
  <2>7. b + TextsKept <= Len(conn'.lru) \/ Full'
    <3>1. TextsKept \in Nat /\ b \in Nat /\ errors \in Nat
      BY PoolFacts, PreparedFacts DEF TextsKept, NewTexts
    <3>2. CASE Full
      BY <1>3, <1>4, <1>5, <2>6, <3>2 DEF Full
    <3>3. CASE b + TextsKept <= Len(conn.lru)
      BY <1>4, <1>5, <2>6, <3>1, <3>3
    <3> QED
      BY <2>4, <3>2, <3>3
  <2>8. Fits(NewTexts(i))'
    BY <1>3, <2>2, <2>4, <2>5 DEF Fits, Cached
  <2>9. orphans' # {} => Len(conn'.lru) = b /\ Queries' \subseteq Cached(conn')
    BY <1>3, <2>2, <2>4, <2>5
  <2>10. pc' # "loop" /\ b' = b
    BY <1>1, <1>3
  <2> QED
    BY <2>2, <2>7, <2>8, <2>9, <2>10 DEF Held, Cached
<1>12. Shared' /\ Counted'
  BY <1>1 DEF Shared, Counted
<1>13. SelectStaysCached' /\ FewBefore'
  BY <1>3 DEF PoolInv, SelectStaysCached, Succeeded, FewBefore
<1>14. LeftBehind'
  <2>1. aborted' = aborted
    BY <1>2 DEF loop
  <2> QED
    BY <1>3, <1>8, <2>1 DEF PoolInv, LeftBehind
<1> QED
  BY <1>4, <1>6, <1>7, <1>9, <1>10, <1>11, <1>12, <1>13, <1>14 DEF PoolInv

(* The last query of Take counts the statements, its own among them, and   *)
(* those that the client does not know of.                                 *)
LEMMA TakePreparedInv == ASSUME PoolInv, TakePrepared PROVE PoolInv'
<1> DEFINE rows == Cardinality(conn'.server \cup orphans)
           text == Text("prepared")
           b == snapshot["before"].rows
<1>1. /\ pc = "prepared" /\ "prepared" \in Asking /\ pc \in TakePc /\ ~aborted
      /\ conn' = Query(conn, text)
      /\ snapshot' = [snapshot EXCEPT ![phase] = [ok |-> TRUE, rows |-> rows]]
      /\ pc' = (IF phase = "before" THEN "loop" ELSE "report") /\ phase' = "after"
      /\ UNCHANGED <<choice, open, ctx, loop>>
  BY DEF TakePrepared, TakeReturns, Asking, TakePc
<1>2. UNCHANGED <<command, mode, iterations, warmup, installed, ctx, i, errors, prepared, orphans>>
  BY <1>1 DEF choice, loop
<1>3. /\ conn' \in Conn(Texts) /\ Consistent(conn)' /\ ServerBounded'
      /\ text \in Cached(conn') /\ conn'.server = Cached(conn) \cup {text}
      /\ Len(conn'.lru) \in Nat /\ Len(conn'.lru) <= Cap
      /\ Cardinality(conn'.server) = Len(conn.lru) + (IF text \in Cached(conn) THEN 0 ELSE 1)
      /\ \A t \in conn'.server : t \in conn.server \/ (t[1] = "prepared" /\ t[2] = 0)
      /\ text \in Cached(conn) =>
            Len(conn'.lru) = Len(conn.lru) /\ conn'.invalid = {} /\ Cached(conn') = Cached(conn)
      /\ text \notin Cached(conn) =>
            \/ /\ Len(conn'.lru) = Len(conn.lru) + 1
               /\ conn'.invalid = {} /\ Cached(conn') = Cached(conn) \cup {text}
            \/ Len(conn.lru) = Cap /\ Len(conn'.lru) = Cap
  <2> HIDE DEF PoolInv
  <2> QED
    BY Zenon, <1>1, <1>2, Asks
<1>4. /\ Cap \in Nat /\ Cap >= 9 /\ i \in Nat /\ errors \in Nat /\ b \in Nat /\ b <= 5
      /\ Len(conn.lru) \in Nat /\ Len(conn.lru) <= Cap
  BY PoolFacts
<1>5. /\ rows \in Nat /\ Cardinality(conn'.server) \in Nat
      /\ Cardinality(conn'.server) <= rows /\ rows <= Cardinality(conn'.server) + 3
      /\ orphans = {} => rows = Cardinality(conn'.server)
  <2>1. IsFiniteSet(conn'.server)
    BY <1>3 DEF Consistent
  <2>2. orphans = {} => conn'.server \cup orphans = conn'.server
    OBVIOUS
  <2> QED
    BY <2>1, <2>2, OrphanFacts, ThreeMore
<1>6. snapshot \in [{"before", "after"} -> [ok : BOOLEAN, rows : Nat]] /\ phase \in {"before", "after"}
  BY DEF PoolInv, TypeOK
<1>7. Cold => Cold'
  BY <1>1, <1>3 DEF Cold
<1>8. phase = "before" => i = 0 /\ errors = 0 /\ prepared = 0 /\ Cold /\ orphans = {}
  BY <1>4, PoolFacts DEF PoolInv, Phases, Fresh, LeftBehind
<1>9. phase = "before" => rows <= 5
  <2> SUFFICES ASSUME phase = "before" PROVE rows <= 5
    OBVIOUS
  <2>1. conn'.server \subseteq Texts /\ \A t \in conn'.server : t[1] \in Asking /\ t[2] = 0
    <3>1. \A t \in conn.server : t[1] \in Asking /\ t[2] = 0
      BY <1>8, ColdFacts
    <3> QED
      BY <1>1, <1>3, <3>1 DEF Conn
  <2>2. Cardinality(conn'.server) <= 5
    BY <2>1, AskingTexts
  <2> QED
    BY <1>5, <1>8, <2>2
<1> HIDE DEF rows
<1>10. /\ phase = "before" => snapshot'["before"] = [ok |-> TRUE, rows |-> rows]
       /\ phase = "after" => /\ snapshot'["before"] = snapshot["before"]
                             /\ snapshot'["after"] = [ok |-> TRUE, rows |-> rows]
       /\ snapshot' \in [{"before", "after"} -> [ok : BOOLEAN, rows : Nat]]
  BY <1>1, <1>5, <1>6
<1>11. TypeOK'
  <2>1. pc' \in TakePc \cup {"count", "seed", "loop", "report", "done", "failed"}
    BY <1>1
  <2>2. open' \in BOOLEAN /\ aborted' \in BOOLEAN
    BY <1>1 DEF loop, PoolInv, TypeOK
  <2> QED
    BY <1>1, <1>2, <1>3, <1>10, <2>1, <2>2 DEF PoolInv, TypeOK
<1>12. Phases'
  BY <1>1, <1>2, <1>6 DEF PoolInv, Phases, TakePc
<1>13. Fresh'
  <2>1. \A t \in conn'.server : t[2] <= i /\ (t[1] \in Asking => t[2] = 0)
    BY <1>3, <1>4 DEF PoolInv, Fresh
  <2> QED
    BY <1>2, <1>7, <2>1 DEF PoolInv, Fresh
<1>14. Filling'
  BY <1>1 DEF Filling
<1>15. FewBefore'
  BY <1>6, <1>9, <1>10 DEF PoolInv, FewBefore
<1>16. LeftBehind'
  <2>1. ~aborted'
    BY <1>1 DEF loop
  <2> QED
    BY <1>1, <1>2, <1>7, <2>1 DEF PoolInv, LeftBehind
<1>17. Held'
  <2> SUFFICES ASSUME phase = "before" PROVE Held'
    BY <1>1, <1>6 DEF Held, TakePc
  <2>1. Len(conn.lru) <= 5
    BY <1>8, ColdFacts
  <2>2. Len(conn'.lru) = rows /\ Cached(conn') = Cached(conn) \cup {text}
    <3>1. rows = Len(conn.lru) + (IF text \in Cached(conn) THEN 0 ELSE 1)
      BY <1>3, <1>5, <1>8
    <3>2. CASE text \in Cached(conn)
      BY <1>3, <1>4, <3>1, <3>2
    <3>3. CASE text \notin Cached(conn)
      <4>1. Len(conn.lru) # Cap
        BY <1>4, <2>1
      <4>2. Len(conn'.lru) = Len(conn.lru) + 1 /\ Cached(conn') = Cached(conn) \cup {text}
        BY <1>3, <3>3, <4>1
      <4> QED
        BY <3>1, <3>3, <4>2
    <3> QED
      BY <3>2, <3>3
  <2>3. Queries' \subseteq Cached(conn')
    <3>1. /\ Text("extension") \in Cached(conn)
          /\ installed => Text("statements") \in Cached(conn)
      BY <1>1 DEF PoolInv, Filling
    <3> QED
      BY <1>2, <2>2, <3>1 DEF Queries
  <2>4. snapshot'["before"].rows = rows
    BY <1>10
  <2>5. TextsKept' = 0 /\ NewTexts(i)' = 0
    BY <1>2, <1>8 DEF TextsKept, NewTexts, Succeeded
  <2>6. Select \notin Cached(conn')
    <3>1. Cold'
      BY <1>7, <1>8
    <3>2. Cached(conn') \subseteq conn'.server
      BY <1>3 DEF Consistent, Cached
    <3>3. Select[1] \notin Asking
      BY TextFacts DEF Asking
    <3> QED
      BY <3>1, <3>2, <3>3 DEF Cold
  <2>7. HeldInLoop'
    <3>1. Cold'
      BY <1>7, <1>8
    <3> QED
      BY <1>5, <2>2, <2>3, <2>4, <2>6, <3>1 DEF HeldInLoop, Cached
  <2>8. Fits(NewTexts(i))'
    BY <1>5, <2>2, <2>3, <2>4, <2>5 DEF Fits, Cached
  <2> QED
    BY <1>2, <1>5, <1>8, <2>2, <2>4, <2>5, <2>7, <2>8 DEF Held
<1>18. Counted'
  <2> SUFFICES ASSUME phase = "after", snapshot["before"].ok PROVE DeltaWithinBounds'
    BY <1>1, <1>6, <1>10 DEF Counted
  <2> DEFINE n == Len(conn.lru)
             kept == TextsKept
             met == NewTexts(i)
             full == IF errors = 0 THEN Cap ELSE Cap - 1
  <2>1. /\ b + kept <= n \/ full <= n
        /\ b + met <= Cap => n <= b + met /\ text \in Cached(conn)
        /\ orphans # {} => n = b /\ text \in Cached(conn)
    <3>1. Held
      BY DEF PoolInv
    <3>2. text \in Queries
      BY DEF Queries
    <3>3. full \in Int /\ (Full <=> full <= n)
      BY <1>4 DEF Full
    <3>4. /\ b + kept <= n \/ Full
          /\ Fits(met)
          /\ orphans # {} => n = b /\ Queries \subseteq Cached(conn)
      BY <1>1, <3>1 DEF Held
    <3> QED
      BY <3>2, <3>3, <3>4 DEF Fits
  <2>2. kept \in Nat /\ met \in Nat /\ full \in Int /\ n \in Nat /\ n <= Cap
    BY <1>4, PreparedFacts DEF TextsKept, NewTexts
  <2>3. orphans # {} => met >= 4
    <3>1. orphans # {} => mode = "2b"
      BY OrphanFacts
    <3>2. i # 0
      BY <1>1, PoolFacts DEF PoolInv, Phases
    <3> QED
      BY <1>4, <3>1, <3>2 DEF NewTexts
  <2>4. n <= rows /\ rows <= n + 4 /\ (orphans = {} => rows <= n + 1)
        /\ (text \in Cached(conn) => rows <= n + 3 /\ (orphans = {} => rows = n))
    <3> HIDE DEF n
    <3>1. Cardinality(conn'.server) = n + (IF text \in Cached(conn) THEN 0 ELSE 1) /\ n \in Nat
      BY <1>3, <1>4 DEF n
    <3> QED
      BY <1>5, <3>1
  <2>5. /\ DeltaWithinBounds' <=>
              /\ kept <= rows - b \/ (IF errors = 0 THEN Cap - b ELSE Cap - b - 1) <= rows - b
              /\ rows - b <= (IF met <= Cap - b THEN met ELSE (Cap - b) + 1)
    <3>1. TextsKept' = kept /\ NewTexts(i)' = met /\ errors' = errors
      BY <1>2 DEF TextsKept, NewTexts, Succeeded
    <3>2. Delta' = rows - b /\ snapshot'["before"].rows = b
      BY <1>10 DEF Delta
    <3> HIDE DEF kept, met, b
    <3> QED
      BY <3>1, <3>2 DEF DeltaWithinBounds
  <2> HIDE DEF n, kept, met, b
  <2>6. kept <= rows - b \/ (IF errors = 0 THEN Cap - b ELSE Cap - b - 1) <= rows - b
    BY <1>4, <1>5, <2>1, <2>2, <2>4
  <2>7. rows - b <= (IF met <= Cap - b THEN met ELSE (Cap - b) + 1)
    BY <1>4, <1>5, <2>1, <2>2, <2>3, <2>4
  <2> QED
    BY <2>5, <2>6, <2>7
<1>19. Shared'
  <2>1. phase = "after" => pc' # "loop"
    BY <1>1
  <2>2. phase = "before" => i' = 0 /\ errors' = 0 /\ prepared' = 0 /\ Cold' /\ Succeeded' = 0
    BY <1>2, <1>7, <1>8 DEF Succeeded
  <2>3. phase = "before" => Select \notin Cached(conn)'
    <3>1. Cached(conn)' \subseteq conn'.server
      BY <1>3 DEF Consistent, Cached
    <3>2. Select[1] \notin Asking
      BY TextFacts DEF Asking
    <3> QED
      BY <2>2, <3>1, <3>2 DEF Cold
  <2> QED
    BY <1>6, <2>1, <2>2, <2>3 DEF Shared
<1>20. SelectStaysCached'
  BY <1>2 DEF PoolInv, SelectStaysCached, Succeeded
<1> QED
  BY <1>3, <1>11, <1>12, <1>13, <1>14, <1>15, <1>16, <1>17, <1>18, <1>19, <1>20 DEF PoolInv

LEMMA TakeFailsInv == ASSUME PoolInv, TakeFails PROVE PoolInv'
<1>1. /\ pc \in TakePc
      /\ \/ conn' = conn
         \/ conn' = Invalidate(conn, Text(pc))
         \/ conn' \in Failed(conn, Text(pc))
      /\ snapshot' = [snapshot EXCEPT ![phase] = NoSnapshot]
      /\ pc' = (IF phase = "before" THEN "loop" ELSE "report") /\ phase' = "after"
      /\ UNCHANGED <<choice, ctx, loop>>
      /\ open' \in {open, FALSE}
  BY DEF TakeFails, TakeReturns
<1>2. UNCHANGED <<command, mode, iterations, warmup, installed, ctx, i, errors, prepared, orphans>>
  BY <1>1 DEF choice, loop
<1>3. /\ conn \in Conn(Texts) /\ Consistent(conn) /\ Cached(conn) \subseteq conn.server
      /\ Cap \in Nat /\ i \in Nat
  BY PoolFacts
<1>4. Text(pc) \in Texts /\ Text(pc)[1] = pc /\ Text(pc)[2] = 0 /\ pc \in Asking
  <2>1. pc \in Asking /\ pc \in Kinds
    BY <1>1 DEF TakePc, Kinds, Asking
  <2> QED
    BY Zenon, <2>1, TextFacts
<1>5. /\ conn' \in Conn(Texts) /\ Consistent(conn')
      /\ conn'.server \subseteq conn.server \/ conn'.server \subseteq Cached(conn) \cup {Text(pc)}
  <2>1. CASE conn' = conn
    BY <1>3, <2>1
  <2>2. CASE conn' = Invalidate(conn, Text(pc))
    <3> DEFINE e == Invalidate(conn, Text(pc))
    <3>1. e \in Conn(Texts) /\ Consistent(e) /\ e.server = conn.server
      BY Zenon, <1>3, <1>4, InvalidateResult
    <3> HIDE DEF e
    <3>2. conn' = e
      BY <2>2 DEF e
    <3> QED
      BY Zenon, <3>1, <3>2
  <2>3. CASE conn' \in Failed(conn, Text(pc))
    <3>1. \A d \in Failed(conn, Text(pc)) :
             d \in Conn(Texts) /\ Consistent(d) /\ (d = conn \/ d.server \subseteq Cached(conn) \cup {Text(pc)})
      BY Zenon, <1>3, <1>4, FailedResult
    <3> QED
      BY <2>3, <3>1
  <2> QED
    BY <1>1, <2>1, <2>2, <2>3
<1>6. Consistent(conn)'
  BY <1>5 DEF Consistent, Cached
<1>7. ServerBounded'
  <2>1. Cardinality(conn'.server \cup orphans) <= Cap + (IF mode = "2b" THEN 4 ELSE 1)
    BY <1>4, <1>5, AskBounded
  <2> QED
    BY <1>2, <2>1 DEF ServerBounded
<1>8. \A t \in conn'.server : t \in conn.server \/ (t[1] = pc /\ t[2] = 0)
  BY <1>3, <1>4, <1>5
<1>9. Cold => Cold'
  BY <1>4, <1>8 DEF Cold
<1>10. snapshot \in [{"before", "after"} -> [ok : BOOLEAN, rows : Nat]] /\ phase \in {"before", "after"}
  BY DEF PoolInv, TypeOK
<1>11. /\ snapshot' \in [{"before", "after"} -> [ok : BOOLEAN, rows : Nat]]
       /\ ~snapshot'[phase].ok
       /\ phase = "after" => snapshot'["before"] = snapshot["before"]
  BY <1>1, <1>10 DEF NoSnapshot
<1>12. phase = "before" => i = 0 /\ errors = 0 /\ prepared = 0 /\ Cold
  BY <1>3, PoolFacts DEF PoolInv, Phases, Fresh
<1>13. TypeOK'
  <2>1. pc' \in TakePc \cup {"count", "seed", "loop", "report", "done", "failed"}
    BY <1>1
  <2>2. open' \in BOOLEAN /\ aborted' \in BOOLEAN
    BY <1>1 DEF loop, PoolInv, TypeOK
  <2> QED
    BY <1>1, <1>2, <1>5, <1>11, <2>1, <2>2 DEF PoolInv, TypeOK
<1>14. Phases'
  BY <1>1, <1>2, <1>10 DEF PoolInv, Phases, TakePc
<1>15. Fresh'
  <2>1. \A t \in conn'.server : t[2] <= i /\ (t[1] \in Asking => t[2] = 0)
    BY <1>3, <1>8 DEF PoolInv, Fresh
  <2> QED
    BY <1>2, <1>9, <2>1 DEF PoolInv, Fresh
<1>16. Filling' /\ Counted'
  <2>1. Filling'
    BY <1>1 DEF Filling
  <2>2. Counted'
    BY <1>1, <1>10, <1>11 DEF Counted
  <2> QED
    BY <2>1, <2>2
<1>17. FewBefore'
  BY <1>1, <1>10, <1>11 DEF PoolInv, FewBefore, NoSnapshot
<1>18. LeftBehind'
  <2>1. aborted' = aborted
    BY <1>1 DEF loop
  <2> QED
    BY <1>1, <1>2, <1>9, <2>1 DEF PoolInv, LeftBehind
<1>19. Held'
  BY <1>1, <1>10, <1>11 DEF Held, TakePc
<1>20. Shared'
  <2>1. phase = "after" => pc' # "loop"
    BY <1>1
  <2>2. phase = "before" => i' = 0 /\ errors' = 0 /\ prepared' = 0 /\ Cold' /\ Succeeded' = 0
    BY <1>2, <1>9, <1>12 DEF Succeeded
  <2>3. phase = "before" => Select \notin Cached(conn)'
    <3>1. Cached(conn)' \subseteq conn'.server
      BY <1>5 DEF Consistent, Cached
    <3>2. Select[1] \notin Asking
      BY TextFacts DEF Asking
    <3> QED
      BY <2>2, <3>1, <3>2 DEF Cold
  <2> QED
    BY <1>10, <2>1, <2>2, <2>3 DEF Shared
<1>21. SelectStaysCached'
  BY <1>2 DEF PoolInv, SelectStaysCached, Succeeded
<1> QED
  BY <1>5, <1>6, <1>7, <1>13, <1>14, <1>15, <1>16, <1>17, <1>18, <1>19, <1>20, <1>21 DEF PoolInv

(* The actions that leave the connection alone. *)
LEMMA OtherInv ==
    ASSUME PoolInv, SetupFails \/ Cancelled \/ LoopDone \/ Report \/ Cancel \/ UNCHANGED vars
    PROVE  PoolInv'
<1>1. /\ UNCHANGED <<choice, phase, conn, open, loop, snapshot>>
      /\ ctx' \in {ctx, "done"}
      /\ \/ pc' = pc \/ pc' = "failed"
         \/ pc = "loop" /\ pc' = "extension" /\ i = iterations
         \/ pc = "report" /\ pc' = "done"
  BY DEF SetupFails, Cancelled, LoopDone, Report, Cancel, vars
<1>2. UNCHANGED <<command, mode, iterations, warmup, installed, i, errors, prepared, orphans>>
  BY <1>1 DEF choice, loop
<1>3. open' = open /\ aborted' = aborted
  BY <1>1 DEF loop
<1>4. TypeOK'
  <2>1. pc' \in TakePc \cup {"count", "seed", "loop", "report", "done", "failed"}
    BY <1>1 DEF PoolInv, TypeOK, TakePc
  <2>2. ctx' \in {"live", "done"} /\ open' \in BOOLEAN /\ aborted' \in BOOLEAN
    BY <1>1, <1>3 DEF PoolInv, TypeOK
  <2> QED
    BY <1>1, <1>2, <2>1, <2>2 DEF PoolInv, TypeOK
<1>5. Consistent(conn)' /\ ServerBounded'
  BY <1>1, <1>2 DEF PoolInv, Consistent, Cached, ServerBounded
<1>6. Phases'
  BY <1>1, <1>2 DEF PoolInv, TypeOK, Phases, TakePc
<1>7. phase = "before" => pc' \in {pc, "failed"}
  BY <1>1 DEF PoolInv, Phases, TakePc
<1>8. Cold' <=> Cold
  BY <1>1 DEF Cold
<1>9. Fresh'
  BY <1>1, <1>2, <1>8 DEF PoolInv, Fresh
<1>10. Filling'
  BY <1>1, <1>2, <1>7 DEF PoolInv, Filling, Cached
<1>11. Held'
  <2>1. /\ Queries' = Queries /\ Cached(conn)' = Cached(conn) /\ Succeeded' = Succeeded
        /\ TextsKept' = TextsKept /\ NewTexts(i)' = NewTexts(i)
    BY <1>1, <1>2 DEF Queries, Cached, TextsKept, NewTexts, Succeeded
  <2>2. /\ pc' \in TakePc \cup {"loop"} => pc \in TakePc \cup {"loop"}
        /\ pc' = "loop" => pc = "loop"
    BY <1>1 DEF TakePc
  <2>3. (Fits(NewTexts(i))' <=> Fits(NewTexts(i))) /\ (Full' <=> Full)
    BY <1>1, <1>2, <2>1 DEF Fits, Full
  <2>4. HeldInLoop' <=> HeldInLoop
    BY <1>1, <1>2, <1>8, <2>1, <2>3 DEF HeldInLoop
  <2> QED
    BY <1>1, <1>2, <1>3, <2>1, <2>2, <2>3, <2>4 DEF PoolInv, Held
<1>12. Shared'
  <2>1. pc' = "loop" => pc = "loop"
    BY <1>1
  <2> QED
    BY <1>1, <1>2, <1>3, <1>8, <2>1 DEF PoolInv, Shared, Recent, Cached, Succeeded
<1>13. SelectStaysCached' /\ FewBefore'
  BY <1>1, <1>2 DEF PoolInv, SelectStaysCached, Succeeded, FewBefore
<1>14. LeftBehind'
  BY <1>1, <1>2, <1>3, <1>8 DEF PoolInv, LeftBehind
<1>15. Counted'
  <2>1. pc' \in {"report", "done"} => pc \in {"report", "done"}
    BY <1>1
  <2>2. DeltaWithinBounds' <=> DeltaWithinBounds
    BY <1>1, <1>2 DEF DeltaWithinBounds, Delta, TextsKept, NewTexts, Succeeded
  <2> QED
    BY <1>1, <2>1, <2>2 DEF PoolInv, Counted
<1> QED
  BY <1>4, <1>5, <1>6, <1>9, <1>10, <1>11, <1>12, <1>13, <1>14, <1>15 DEF PoolInv

---------------------------------------------------------------------------
(* The iterations.  Every one that is done advances the loop, whether it   *)
(* succeeded, was counted as an error or ended the command.                *)
Advances ==
    /\ pc = "loop" /\ i < iterations /\ i' = i + 1
    /\ pc' \in {"loop", "failed"}
    /\ errors' \in {errors, errors + 1}
    /\ open' \in BOOLEAN /\ aborted' \in BOOLEAN
    /\ UNCHANGED <<command, mode, iterations, warmup, installed, phase, ctx, snapshot>>

LEMMA LoopFacts ==
    ASSUME PoolInv, Advances
    PROVE  /\ phase = "after" /\ phase' = "after"
           /\ i' = i + 1 /\ i' \in Nat /\ i' <= iterations /\ i' # 0
           /\ errors' \in Nat /\ errors' <= i' /\ (errors' = 0 => errors = 0)
           /\ Succeeded' \in Nat
           /\ errors' = errors => Succeeded' = Succeeded + 1
           /\ errors' = errors + 1 => Succeeded' = Succeeded
<1>1. /\ i \in Nat /\ iterations \in Nat /\ i < iterations /\ i' = i + 1
      /\ errors \in Nat /\ errors <= i /\ errors' \in {errors, errors + 1}
  BY PoolFacts DEF Advances
<1>2. phase = "after" /\ phase' = "after"
  <2>1. pc = "loop" /\ phase' = phase
    BY DEF Advances
  <2> QED
    BY <2>1 DEF PoolInv, TypeOK, Phases, TakePc
<1>3. Succeeded = i - errors /\ Succeeded' = i' - errors'
  BY DEF Succeeded
<1>4. i' \in Nat /\ i' <= iterations /\ i' # 0
  BY <1>1
<1>5. CASE errors' = errors
  <2>1. errors' \in Nat /\ errors' <= i' /\ i' - errors' = (i - errors) + 1 /\ i' - errors' \in Nat
    BY <1>1, <1>5
  <2>2. errors' # errors + 1
    BY <1>1, <1>5
  <2> QED
    BY <1>1, <1>2, <1>3, <1>4, <1>5, <2>1, <2>2
<1>6. CASE errors' = errors + 1
  <2>1. errors' \in Nat /\ errors' <= i' /\ i' - errors' = i - errors /\ i - errors \in Nat
    BY <1>1, <1>6
  <2>2. errors' # errors /\ errors' # 0
    BY <1>1, <1>6
  <2> QED
    BY <1>1, <1>2, <1>3, <1>4, <1>6, <2>1, <2>2
<1> QED
  BY <1>1, <1>5, <1>6

(* What an iteration has to do to the cache and the server: the conjuncts  *)
(* of PoolInv that do not depend on its outcome follow from it.            *)
LEMMA LoopKeeps ==
    ASSUME PoolInv, Advances,
           conn' \in Conn(Texts), Consistent(conn'), ServerBounded',
           \A t \in conn'.server : t \in conn.server \/ (t[1] \notin Asking /\ t[2] <= i + 1),
           mode = "2a" => conn'.server \subseteq conn.server,
           prepared' \in Nat, orphans' \subseteq Texts,
           LeftBehind', Held', Shared', SelectStaysCached'
    PROVE  PoolInv'
<1>1. UNCHANGED <<command, mode, iterations, warmup, installed, phase, ctx, snapshot>>
  BY DEF Advances
<1>2. /\ phase = "after" /\ phase' = "after"
      /\ i' = i + 1 /\ i' \in Nat /\ i' <= iterations /\ i' # 0
      /\ errors' \in Nat /\ errors' <= i' /\ i \in Nat /\ iterations \in Nat
  BY LoopFacts, PoolFacts
<1>3. TypeOK'
  <2>1. pc' \in TakePc \cup {"count", "seed", "loop", "report", "done", "failed"}
    BY DEF Advances
  <2>2. open' \in BOOLEAN /\ aborted' \in BOOLEAN
    BY DEF Advances
  <2>3. i' \in 0 .. iterations /\ errors' \in 0 .. i'
    BY <1>2
  <2> QED
    BY <1>1, <2>1, <2>2, <2>3 DEF PoolInv, TypeOK
<1>4. Phases'
  BY <1>2 DEF Advances, Phases, TakePc
<1>5. Fresh'
  <2>1. \A t \in conn'.server : t[2] <= i' /\ (t[1] \in Asking => t[2] = 0)
    <3> SUFFICES ASSUME NEW t \in conn'.server PROVE t[2] <= i' /\ (t[1] \in Asking => t[2] = 0)
      OBVIOUS
    <3>1. CASE t \in conn.server
      <4>1. t[2] <= i /\ (t[1] \in Asking => t[2] = 0) /\ t \in Texts
        BY <3>1 DEF PoolInv, Fresh, TypeOK, Conn
      <4>2. t[2] \in Nat
        BY <4>1 DEF Texts
      <4> QED
        BY <1>2, <4>1, <4>2
    <3>2. CASE t[1] \notin Asking /\ t[2] <= i + 1
      BY <1>2, <3>2
    <3> QED
      BY <3>1, <3>2
  <2>2. mode = "2a" => Cold'
    BY DEF PoolInv, Fresh, Cold
  <2> QED
    BY <1>1, <1>2, <2>1, <2>2 DEF Fresh
<1>6. Filling' /\ Counted' /\ FewBefore'
  <2>1. Filling'
    BY <1>2 DEF Filling
  <2>2. Counted'
    BY DEF Advances, Counted
  <2>3. FewBefore'
    BY <1>1 DEF PoolInv, FewBefore
  <2> QED
    BY <2>1, <2>2, <2>3
<1>7. Consistent(conn)'
  BY DEF Consistent, Cached
<1> QED
  BY <1>3, <1>4, <1>5, <1>6, <1>7 DEF PoolInv

(* What an iteration that keeps the transaction found in the cache. *)
LEMMA HeldBefore ==
    ASSUME PoolInv, Advances, snapshot["before"].ok, ~aborted
    PROVE  LET b == snapshot["before"].rows
               n == Len(conn.lru)
           IN  /\ b + TextsKept <= n \/ Full
               /\ b + NewTexts(i) <= Cap => n <= b + NewTexts(i) /\ Queries \subseteq Cached(conn)
               /\ orphans # {} => n = b /\ Queries \subseteq Cached(conn)
               /\ mode \in {"0", "1a", "1b", "4"} => n = b + (IF Select \in Cached(conn) THEN 1 ELSE 0)
               /\ mode = "2b" => IF Cold THEN n = b /\ Queries \subseteq Cached(conn)
                                ELSE b + Succeeded + 3 <= n \/ Full
<1>1. pc = "loop" /\ phase = "after"
  BY LoopFacts DEF Advances
<1> QED
  BY <1>1 DEF PoolInv, Held, HeldInLoop, Fits

(* What it has to leave there. *)
LEMMA HeldAfter ==
    ASSUME PoolInv, Advances,
           snapshot["before"].ok /\ ~aborted' =>
               LET b == snapshot["before"].rows
                   n == Len(conn'.lru)
               IN  /\ b + TextsKept' <= n \/ Full'
                   /\ b + NewTexts(i + 1) <= Cap => n <= b + NewTexts(i + 1) /\ Queries \subseteq Cached(conn')
                   /\ orphans' # {} => n = b /\ Queries \subseteq Cached(conn')
                   /\ mode \in {"0", "1a", "1b", "4"} => n = b + (IF Select \in Cached(conn') THEN 1 ELSE 0)
                   /\ mode = "2b" => IF Cold' THEN n = b /\ Queries \subseteq Cached(conn')
                                    ELSE b + Succeeded' + 3 <= n \/ Full'
    PROVE  Held'
<1>1. UNCHANGED <<mode, installed, snapshot>> /\ i' = i + 1
  BY DEF Advances
<1>2. Queries' = Queries /\ Cached(conn)' = Cached(conn') /\ NewTexts(i)' = NewTexts(i + 1)
  BY <1>1 DEF Queries, Cached, NewTexts
<1>3. snapshot["before"].ok /\ ~aborted' => Fits(NewTexts(i))' /\ HeldInLoop'
  BY <1>1, <1>2 DEF Fits, HeldInLoop
<1> QED
  BY <1>1, <1>2, <1>3 DEF Held

(* An iteration that failed before the cache learnt anything: at once, in  *)
(* its deallocation, or in a batch of which the server refused a text.     *)
LEMMA NothingLearnt ==
    ASSUME PoolInv, Advances, errors' = errors + 1, aborted' = aborted,
           conn' \in Conn(Texts), Consistent(conn'),
           conn'.server \subseteq conn.server,
           Cached(conn') = Cached(conn), Len(conn'.lru) = Len(conn.lru),
           {Text("begin"), Select, Text("commit")} \subseteq Recent(conn, 4) /\ ~aborted /\ mode = "2b" =>
               {Text("begin"), Select, Text("commit")} \subseteq Recent(conn', 4),
           prepared' \in {prepared, prepared + 1},
           \/ prepared' = prepared /\ orphans' = orphans
           \/ /\ mode = "2b" /\ Cold /\ ~aborted
              /\ Text("begin") \in orphans' /\ orphans' \subseteq {Text("begin"), SetLocal(i + 1), Select}
    PROVE  PoolInv'
<1>1. UNCHANGED <<command, mode, iterations, warmup, installed, phase, ctx, snapshot>> /\ pc = "loop"
  BY DEF Advances
<1>2. /\ phase = "after" /\ i' = i + 1 /\ i' \in Nat /\ i' # 0
      /\ errors' \in Nat /\ Succeeded' = Succeeded /\ errors' # 0
  BY LoopFacts, PoolFacts
<1>3. /\ Cap \in Nat /\ Cap >= 9 /\ i \in Nat /\ errors \in Nat /\ prepared \in Nat
      /\ Len(conn.lru) \in Nat /\ IsFiniteSet(conn.server)
      /\ snapshot["before"].rows \in Nat
      /\ mode \in {"0", "1a", "1b", "2a", "2b", "3", "4"}
  BY PoolFacts
<1>4. Cached(conn') \subseteq conn'.server /\ IsFiniteSet(conn'.server)
  BY DEF Consistent
<1>5. Cold => Cold'
  BY DEF Cold
<1>6. mode = "2b" /\ ~aborted /\ ~Cold =>
         /\ ~Cold' /\ prepared >= 1
         /\ {Text("begin"), Select, Text("commit")} \subseteq Recent(conn', 4)
  <2> SUFFICES ASSUME mode = "2b", ~aborted, ~Cold
               PROVE  /\ ~Cold' /\ prepared >= 1
                      /\ {Text("begin"), Select, Text("commit")} \subseteq Recent(conn', 4)
    OBVIOUS
  <2>1. {Text("begin"), Select, Text("commit")} \subseteq Recent(conn, 4) /\ prepared >= 1
    BY <1>1 DEF PoolInv, Shared
  <2>2. Text("begin") \in Cached(conn)
    <3>1. Recent(conn, 4) \subseteq Cached(conn)
      BY PoolFacts, ConnFacts DEF Recent
    <3> QED
      BY <2>1, <3>1
  <2>3. Text("begin")[1] \notin Asking
    BY TextFacts DEF Asking, Text
  <2> QED
    BY <1>4, <2>1, <2>2, <2>3 DEF Cold
<1>7. mode = "2b" /\ ~aborted /\ Cold => Succeeded = 0
  BY <1>1 DEF PoolInv, Shared
<1>8. ServerBounded'
  <2>1. CASE orphans' = orphans
    <3>1. /\ IsFiniteSet(conn.server \cup orphans)
          /\ conn'.server \cup orphans' \subseteq conn.server \cup orphans
      BY <1>3, <2>1, OrphanFacts, FS_Union
    <3>2. /\ Cardinality(conn'.server \cup orphans') <= Cardinality(conn.server \cup orphans)
          /\ Cardinality(conn'.server \cup orphans') \in Nat
          /\ Cardinality(conn.server \cup orphans) \in Nat
      BY <3>1, FS_Subset, FS_CardinalityType
    <3>3. Cardinality(conn.server \cup orphans) <= Cap + (IF mode = "2b" THEN 4 ELSE 1)
      BY DEF PoolInv, ServerBounded
    <3> QED
      BY <1>1, <1>3, <3>2, <3>3 DEF ServerBounded
  <2>2. CASE Cold /\ orphans' \subseteq {Text("begin"), SetLocal(i + 1), Select}
    <3>1. Cardinality(conn'.server) \in Nat /\ Cardinality(conn'.server) <= 5
      <4>1. conn'.server \subseteq Texts /\ \A t \in conn'.server : t[1] \in Asking /\ t[2] = 0
        BY <2>2, ColdFacts
      <4> QED
        BY <4>1, AskingTexts
    <3>2. /\ Cardinality(conn'.server \cup orphans') \in Nat
          /\ Cardinality(conn'.server \cup orphans') <= Cardinality(conn'.server) + 3
      BY <1>4, <2>2, ThreeMore
    <3> QED
      BY <1>1, <1>3, <3>1, <3>2 DEF ServerBounded
  <2> QED
    BY <2>1, <2>2
<1>9. orphans' \subseteq Texts /\ LeftBehind'
  <2>1. CASE orphans' = orphans
    <3>1. 0 .. i \subseteq 0 .. i'
      BY <1>2, <1>3
    <3>2. orphans # {} => \E n \in 0 .. i : orphans \subseteq {Text("begin"), SetLocal(n), Select}
      BY DEF PoolInv, LeftBehind
    <3>3. orphans # {} => \E n \in 0 .. i' : orphans \subseteq {Text("begin"), SetLocal(n), Select}
      BY <3>1, <3>2
    <3>4. aborted => mode = "2b" /\ phase = "after"
      BY DEF PoolInv, LeftBehind
    <3>5. orphans \subseteq Texts
      BY DEF PoolInv, TypeOK
    <3> QED
      BY <1>1, <1>5, <2>1, <3>3, <3>4, <3>5, OrphanFacts DEF LeftBehind
  <2>2. CASE /\ mode = "2b" /\ Cold /\ ~aborted
             /\ Text("begin") \in orphans' /\ orphans' \subseteq {Text("begin"), SetLocal(i + 1), Select}
    <3>1. Text("begin") \in Texts /\ SetLocal(i + 1) \in Texts /\ Select \in Texts
      <4>1. "begin" \in Kinds /\ i + 1 \in Nat
        BY <1>3 DEF Kinds
      <4> QED
        BY Zenon, <4>1, TextFacts
    <3>2. i + 1 \in 0 .. i'
      BY <1>2, <1>3
    <3> QED
      BY <1>1, <1>2, <1>5, <2>2, <3>1, <3>2 DEF LeftBehind
  <2> QED
    BY <2>1, <2>2
<1>10. Held'
  <2> DEFINE b == snapshot["before"].rows
             n == Len(conn.lru)
  <2> SUFFICES ASSUME snapshot["before"].ok, ~aborted
               PROVE  /\ b + TextsKept' <= n \/ Full'
                      /\ b + NewTexts(i + 1) <= Cap => n <= b + NewTexts(i + 1) /\ Queries \subseteq Cached(conn)
                      /\ orphans' # {} => n = b /\ Queries \subseteq Cached(conn)
                      /\ mode \in {"0", "1a", "1b", "4"} => n = b + (IF Select \in Cached(conn) THEN 1 ELSE 0)
                      /\ mode = "2b" => IF Cold' THEN n = b /\ Queries \subseteq Cached(conn)
                                       ELSE b + Succeeded + 3 <= n \/ Full'
    BY <1>2, HeldAfter
  <2>1. /\ b + TextsKept <= n \/ Full
        /\ b + NewTexts(i) <= Cap => n <= b + NewTexts(i) /\ Queries \subseteq Cached(conn)
        /\ orphans # {} => n = b /\ Queries \subseteq Cached(conn)
        /\ mode \in {"0", "1a", "1b", "4"} => n = b + (IF Select \in Cached(conn) THEN 1 ELSE 0)
        /\ mode = "2b" => IF Cold THEN n = b /\ Queries \subseteq Cached(conn)
                         ELSE b + Succeeded + 3 <= n \/ Full
    BY HeldBefore
  <2>2. Full => Full'
    BY <1>2, <1>3 DEF Full
  <2>3. b + TextsKept' <= n \/ Full'
    <3>1. CASE mode \in {"2a", "2b", "3"}
      <4>1. TextsKept' = TextsKept
        BY <1>1, <1>2, <3>1 DEF TextsKept, NewTexts
      <4> QED
        BY <2>1, <2>2, <4>1
    <3>2. CASE mode \in {"0", "1a", "1b", "4"}
      <4>1. TextsKept' = 0
        BY <1>1, <1>2, <3>2 DEF TextsKept
      <4> QED
        BY <1>3, <2>1, <3>2, <4>1
    <3> QED
      BY <1>3, <3>1, <3>2
  <2>4. NewTexts(i) \in Nat /\ NewTexts(i + 1) \in Nat /\ NewTexts(i) <= NewTexts(i + 1)
    BY <1>3 DEF NewTexts
  <2>5. b + NewTexts(i + 1) <= Cap => n <= b + NewTexts(i + 1) /\ Queries \subseteq Cached(conn)
    <3> DEFINE m0 == NewTexts(i)
               m1 == NewTexts(i + 1)
    <3>1. b \in Nat /\ n \in Nat /\ m0 \in Nat /\ m1 \in Nat /\ m0 <= m1
      BY <1>3, <2>4
    <3>2. b + m0 <= Cap => n <= b + m0 /\ Queries \subseteq Cached(conn)
      BY <2>1
    <3> HIDE DEF m0, m1, b, n
    <3>3. b + m1 <= Cap => b + m0 <= Cap
      BY <1>3, <3>1
    <3>4. n <= b + m0 => n <= b + m1
      BY <3>1
    <3> QED
      BY <3>2, <3>3, <3>4 DEF m1
  <2>6. orphans' # {} => n = b /\ Queries \subseteq Cached(conn)
    BY <2>1
  <2>7. mode = "2b" => IF Cold' THEN n = b /\ Queries \subseteq Cached(conn)
                      ELSE b + Succeeded + 3 <= n \/ Full'
    BY <1>5, <1>6, <2>1, <2>2
  <2> QED
    BY <2>1, <2>3, <2>5, <2>6, <2>7
<1>11. Shared'
  <2>1. mode \in {"0", "1a", "1b", "4"} => IF Select \in Cached(conn) THEN prepared >= 1 ELSE prepared <= errors
    BY <1>1 DEF PoolInv, Shared
  <2>2. mode \in {"0", "1a", "1b", "4"} => IF Select \in Cached(conn') THEN prepared' >= 1 ELSE prepared' <= errors'
    BY <1>3, <2>1
  <2>3. mode = "2b" /\ ~aborted =>
           IF Cold' THEN Succeeded' = 0
           ELSE {Text("begin"), Select, Text("commit")} \subseteq Recent(conn', 4) /\ prepared' >= 1
    BY <1>2, <1>3, <1>5, <1>6, <1>7
  <2>4. Cached(conn)' = Cached(conn') /\ Recent(conn, 4)' = Recent(conn', 4)
    BY DEF Cached, Recent
  <2> QED
    BY <1>1, <1>2, <2>2, <2>3, <2>4 DEF Shared
<1>12. SelectStaysCached'
  <2>1. prepared' = prepared \/ (mode = "2b" /\ Succeeded = 0 /\ prepared' = prepared + 1)
    BY <1>7
  <2>2. Succeeded \in Nat /\ Succeeded = i - errors
    BY PreparedFacts
  <2>3. CASE mode = "2a"
    BY <1>1, <2>1, <2>3, PreparedFacts DEF SelectStaysCached
  <2>4. CASE mode = "3"
    <3>1. Succeeded <= prepared /\ prepared <= i /\ prepared' = prepared
      BY <2>1, <2>4, PreparedFacts
    <3>2. prepared' \in Succeeded' .. i'
      BY <1>2, <1>3, <2>2, <3>1
    <3> QED
      BY <1>1, <2>4, <3>2 DEF SelectStaysCached
  <2>5. CASE mode \notin {"2a", "3"}
    <3>1. /\ Succeeded = 0 => prepared <= errors
          /\ Succeeded # 0 => 1 <= prepared /\ prepared <= errors + 1
      BY <2>5, PreparedFacts
    <3>2. /\ Succeeded' = 0 => prepared' \in 0 .. errors' + 0
          /\ Succeeded' # 0 => prepared' \in 1 .. errors' + 1
      BY <1>2, <1>3, <2>1, <2>2, <3>1
    <3> QED
      BY <1>1, <2>5, <3>2 DEF SelectStaysCached
  <2> QED
    BY <2>3, <2>4, <2>5
<1>13. prepared' \in Nat
  BY <1>3
<1>14. \A t \in conn'.server : t \in conn.server \/ (t[1] \notin Asking /\ t[2] <= i + 1)
  OBVIOUS
<1>15. mode = "2a" => conn'.server \subseteq conn.server
  OBVIOUS
<1> QED
  BY <1>8, <1>9, <1>10, <1>11, <1>12, <1>13, <1>14, <1>15, LoopKeeps

(* A text that was queried is in the cache, or a failure took it out. *)
Kept(c, t) ==
    /\ t \in Cached(c)
    /\ t \in Cached(conn) => Len(c.lru) = Len(conn.lru) /\ Cached(c) = Cached(conn)
    /\ t \notin Cached(conn) =>
          \/ Len(c.lru) = Len(conn.lru) + 1 /\ Cached(c) = Cached(conn) \cup {t}
          \/ Len(conn.lru) = Cap /\ Len(c.lru) = Cap

Dropped(c, t) ==
    /\ t \notin Cached(c)
    /\ t \in Cached(conn) => Len(c.lru) = Len(conn.lru) - 1 /\ Cached(c) = Cached(conn) \ {t}
    /\ t \notin Cached(conn) =>
          \/ Len(c.lru) = Len(conn.lru) /\ Cached(c) = Cached(conn)
          \/ Len(conn.lru) = Cap /\ Len(c.lru) = Cap - 1

LEMMA QueryOutcome ==
    ASSUME PoolInv, NEW t \in Texts, NEW q \in Queried(conn, t),
           NEW d, d = q \/ d = Invalidate(q, t), NEW e, e = d \/ e = Deallocate(d)
    PROVE  /\ e \in Conn(Texts) /\ Consistent(e) /\ e.server \subseteq Cached(conn) \cup {t}
           /\ d = q => Kept(e, t)
           /\ Kept(e, t) \/ Dropped(e, t)
<1> DEFINE p == Query(conn, t)
<1>1. conn \in Conn(Texts) /\ Consistent(conn) /\ Len(conn.lru) \in Nat /\ Cap \in Nat
  BY PoolFacts
<1>2. /\ p \in Conn(Texts) /\ Consistent(p)
      /\ p.server = Cached(conn) \cup {t} /\ t \in Cached(p)
      /\ t \in Cached(conn) => Len(p.lru) = Len(conn.lru) /\ p.invalid = {} /\ Cached(p) = Cached(conn)
      /\ t \notin Cached(conn) =>
            \/ Len(p.lru) = Len(conn.lru) + 1 /\ p.invalid = {} /\ Cached(p) = Cached(conn) \cup {t}
            \/ Len(conn.lru) = Cap /\ Len(p.lru) = Cap
  BY Zenon, <1>1, QueryResult
<1>3. Kept(p, t)
  BY <1>2 DEF Kept
<1>4. q = p \/ q = Deallocate(p)
  BY DEF Queried
<1> HIDE DEF p
<1>5. ASSUME NEW c \in Conn(Texts), Consistent(c)
      PROVE  /\ Deallocate(c) \in Conn(Texts) /\ Consistent(Deallocate(c))
             /\ Deallocate(c).lru = c.lru /\ Cached(Deallocate(c)) = Cached(c)
             /\ Deallocate(c).server = Cached(c) /\ Cached(c) \subseteq c.server
  <2>1. Cached(c) \subseteq c.server
    BY <1>5 DEF Consistent
  <2> QED
    BY Zenon, <1>5, <2>1, DeallocateResult
<1>6. /\ q \in Conn(Texts) /\ Consistent(q) /\ q.lru = p.lru /\ Cached(q) = Cached(p)
      /\ q.server \subseteq Cached(conn) \cup {t}
  <2>1. CASE q = p
    BY <1>2, <2>1
  <2>2. CASE q = Deallocate(p)
    BY <1>2, <1>5, <2>2
  <2> QED
    BY <1>4, <2>1, <2>2
<1>7. Kept(q, t)
  BY <1>3, <1>6 DEF Kept
<1>8. /\ d \in Conn(Texts) /\ Consistent(d) /\ d.server \subseteq Cached(conn) \cup {t}
      /\ d = q \/ (Cached(d) = Cached(q) \ {t} /\ Len(d.lru) = Len(q.lru) - 1)
  <2>1. CASE d = q
    BY <1>6, <2>1
  <2>2. CASE d = Invalidate(q, t)
    <3> DEFINE f == Invalidate(q, t)
    <3>1. q \in Conn(Texts) /\ Consistent(q)
      BY <1>6
    <3>2. t \in Cached(q)
      BY <1>7 DEF Kept
    <3>3. /\ f \in Conn(Texts) /\ Consistent(f) /\ f.server = q.server
          /\ Cached(f) = Cached(q) \ {t}
          /\ t \in Cached(q) => Len(f.lru) = Len(q.lru) - 1
      BY Zenon, <3>1, InvalidateResult
    <3>4. d = f
      BY <2>2 DEF f
    <3> HIDE DEF f
    <3> QED
      BY <1>6, <3>2, <3>3, <3>4
  <2> QED
    BY <2>1, <2>2
<1>9. d # q => Dropped(d, t)
  <2> SUFFICES ASSUME Cached(d) = Cached(q) \ {t}, Len(d.lru) = Len(q.lru) - 1 PROVE Dropped(d, t)
    BY <1>8
  <2>1. t \in Cached(conn) => Len(d.lru) = Len(conn.lru) - 1 /\ Cached(d) = Cached(conn) \ {t}
    BY <1>7 DEF Kept
  <2>2. t \notin Cached(conn) =>
           \/ Len(d.lru) = Len(conn.lru) /\ Cached(d) = Cached(conn)
           \/ Len(conn.lru) = Cap /\ Len(d.lru) = Cap - 1
    <3> SUFFICES ASSUME t \notin Cached(conn)
                 PROVE  \/ Len(d.lru) = Len(conn.lru) /\ Cached(d) = Cached(conn)
                        \/ Len(conn.lru) = Cap /\ Len(d.lru) = Cap - 1
      OBVIOUS
    <3>1. CASE Len(q.lru) = Len(conn.lru) + 1 /\ Cached(q) = Cached(conn) \cup {t}
      <4>1. Cached(d) = Cached(conn)
        BY <3>1
      <4>2. Len(d.lru) = Len(conn.lru)
        BY <1>1, <3>1
      <4> QED
        BY <4>1, <4>2
    <3>2. CASE Len(conn.lru) = Cap /\ Len(q.lru) = Cap
      BY <3>2
    <3> QED
      BY <1>7, <3>1, <3>2 DEF Kept
  <2> QED
    BY <2>1, <2>2 DEF Dropped
<1>10. /\ e \in Conn(Texts) /\ Consistent(e) /\ e.lru = d.lru /\ Cached(e) = Cached(d)
       /\ e.server \subseteq Cached(conn) \cup {t}
  <2>1. CASE e = d
    BY <1>8, <2>1
  <2>2. CASE e = Deallocate(d)
    BY <1>5, <1>8, <2>2
  <2> QED
    BY <2>1, <2>2
<1>11. d = q => Kept(e, t)
  BY <1>7, <1>10 DEF Kept
<1>12. d # q => Dropped(e, t)
  BY <1>9, <1>10 DEF Dropped
<1> QED
  BY <1>10, <1>11, <1>12

(* The texts of an iteration that queries one. *)
LEMMA StatementFacts ==
    ASSUME PoolInv, Advances
    PROVE  LET t == Statement(i + 1)
           IN  /\ t \in Texts /\ t[1] = "select" /\ t[2] <= i + 1 /\ t[1] \notin Asking /\ t \notin Queries
               /\ mode # "3" => t = Select
               /\ mode = "3" => t \notin Cached(conn)
<1> DEFINE t == Statement(i + 1)
<1>1. i \in Nat /\ i + 1 \in Nat /\ Cached(conn) \subseteq conn.server
  BY PoolFacts
<1>2. t = IF mode = "3" THEN Commented(i + 1) ELSE Select
  BY DEF Statement
<1> HIDE DEF t
<1>3. /\ Commented(i + 1) \in Texts /\ Commented(i + 1)[1] = "select" /\ Commented(i + 1)[2] = i + 1
      /\ Select \in Texts /\ Select[1] = "select" /\ Select[2] = 0
  BY Zenon, <1>1, TextFacts
<1>4. t \in Texts /\ t[1] = "select" /\ t[2] <= i + 1
  BY <1>1, <1>2, <1>3
<1>5. t[1] \notin Asking
  BY <1>4 DEF Asking
<1>6. t \notin Queries
  <2>1. \A x \in Queries : x[1] \in Asking
    BY DEF Queries, Text, Asking
  <2> QED
    BY <1>5, <2>1
<1>7. mode = "3" => t \notin Cached(conn)
  <2>1. \A x \in Cached(conn) : x[2] <= i
    BY <1>1 DEF PoolInv, Fresh
  <2>2. ~(i + 1 <= i)
    BY <1>1
  <2> QED
    BY <1>2, <1>3, <2>1, <2>2
<1> QED
  BY <1>2, <1>4, <1>5, <1>6, <1>7 DEF t

(* What a mode that queries one text leaves, except for the two conjuncts  *)
(* that distinguish the modes.                                             *)
LEMMA QueryKeeps ==
    ASSUME PoolInv, Advances, mode \notin {"2a", "2b"}, UNCHANGED <<orphans, aborted>>,
           conn' \in Conn(Texts), Consistent(conn'),
           conn'.server \subseteq Cached(conn) \cup {Statement(i + 1)},
           prepared' \in Nat, Held', Shared', SelectStaysCached'
    PROVE  PoolInv'
<1> DEFINE t == Statement(i + 1)
<1>1. t \in Texts /\ t[2] <= i + 1 /\ t[1] \notin Asking
  BY StatementFacts
<1> HIDE DEF t
<1>2. orphans = {} /\ ~aborted
  BY OrphanFacts DEF PoolInv, LeftBehind
<1>3. LeftBehind'
  BY <1>2 DEF LeftBehind
<1>4. ServerBounded'
  <2>1. conn \in Conn(Texts) /\ Consistent(conn) /\ Cap \in Nat
    BY PoolFacts
  <2>2. conn'.server \subseteq Cached(conn) \cup {t}
    BY DEF t
  <2>3. Cardinality(conn'.server) \in Nat /\ Cardinality(conn'.server) <= Cap + 1
    BY Zenon, <2>1, <2>2, OneAbove
  <2>4. conn'.server \cup orphans' = conn'.server
    BY <1>2
  <2> QED
    BY <2>1, <2>3, <2>4 DEF ServerBounded
<1>5. \A x \in conn'.server : x \in conn.server \/ (x[1] \notin Asking /\ x[2] <= i + 1)
  BY <1>1, PoolFacts DEF t
<1>6. orphans' \subseteq Texts
  BY <1>2
<1> QED
  BY <1>3, <1>4, <1>5, <1>6, LoopKeeps

(* Modes 0, 1a, 1b and 4 query the same SELECT again. *)
LEMMA SharedSelectInv ==
    ASSUME PoolInv, Advances, mode \in {"0", "1a", "1b", "4"}, UNCHANGED <<orphans, aborted>>,
           conn' \in Conn(Texts), Consistent(conn'),
           conn'.server \subseteq Cached(conn) \cup {Statement(i + 1)},
           Kept(conn', Statement(i + 1)) \/ (Dropped(conn', Statement(i + 1)) /\ errors' = errors + 1),
           prepared' = prepared + New(i + 1)
    PROVE  PoolInv'
<1> DEFINE b == snapshot["before"].rows
           n == Len(conn.lru)
           m == Len(conn'.lru)
<1>1. Statement(i + 1) = Select /\ Select \notin Queries
  <2>1. Statement(i + 1) = Select
    BY StatementFacts
  <2> QED
    BY <2>1, StatementFacts
<1>2. /\ Cap \in Nat /\ Cap >= 9 /\ i \in Nat /\ errors \in Nat /\ prepared \in Nat
      /\ n \in Nat /\ b \in Nat /\ b <= 5
  BY PoolFacts
<1>3. /\ i' = i + 1 /\ i' # 0 /\ errors' \in {errors, errors + 1} /\ UNCHANGED <<mode, snapshot>>
      /\ pc = "loop"
  BY LoopFacts DEF Advances
<1>4. prepared' = prepared + (IF Select \in Cached(conn) THEN 0 ELSE 1)
  BY <1>1 DEF New
<1>5. /\ errors = 0 /\ i > 0 => Select \in Cached(conn)
      /\ IF Select \in Cached(conn) THEN prepared >= 1 ELSE prepared <= errors
  BY <1>3 DEF PoolInv, Shared
<1>6. prepared <= errors + 1 /\ (Succeeded = 0 => prepared <= errors) /\ (Succeeded # 0 => prepared >= 1)
  BY <1>2, PreparedFacts
<1>7. IF Select \in Cached(conn') THEN prepared' >= 1 ELSE prepared' <= errors' /\ errors' = errors + 1
  <2>1. CASE Kept(conn', Select)
    BY <1>2, <1>4, <1>5, <2>1 DEF Kept
  <2>2. CASE Dropped(conn', Select) /\ errors' = errors + 1
    BY <1>2, <1>4, <1>5, <1>6, <2>2 DEF Dropped
  <2> QED
    BY <1>1, <2>1, <2>2
<1>8. Held'
  <2> SUFFICES ASSUME snapshot["before"].ok, ~aborted
               PROVE  /\ b + TextsKept' <= m \/ Full'
                      /\ b + NewTexts(i + 1) <= Cap => m <= b + NewTexts(i + 1) /\ Queries \subseteq Cached(conn')
                      /\ orphans' # {} => m = b /\ Queries \subseteq Cached(conn')
                      /\ mode \in {"0", "1a", "1b", "4"} => m = b + (IF Select \in Cached(conn') THEN 1 ELSE 0)
                      /\ mode = "2b" => IF Cold' THEN m = b /\ Queries \subseteq Cached(conn')
                                       ELSE b + Succeeded' + 3 <= m \/ Full'
    BY HeldAfter
  <2>1. n = b + (IF Select \in Cached(conn) THEN 1 ELSE 0)
    BY HeldBefore
  <2>2. NewTexts(i + 1) = 1 /\ NewTexts(i) \in {0, 1}
    BY <1>2 DEF NewTexts
  <2>3. Queries \subseteq Cached(conn)
    <3>1. b + NewTexts(i) <= Cap
      BY <1>2, <2>2
    <3> QED
      BY <3>1, HeldBefore
  <2>4. n # Cap
    BY <1>2, <2>1
  <2>5. m = b + (IF Select \in Cached(conn') THEN 1 ELSE 0) /\ Queries \subseteq Cached(conn')
    <3>1. CASE Kept(conn', Select) /\ Select \in Cached(conn)
      BY <2>1, <2>3, <3>1 DEF Kept
    <3>2. CASE Kept(conn', Select) /\ Select \notin Cached(conn)
      <4>1. m = n + 1 /\ Cached(conn') = Cached(conn) \cup {Select}
        BY <2>4, <3>2 DEF Kept
      <4> QED
        BY <1>2, <2>1, <2>3, <3>2, <4>1
    <3>3. CASE Dropped(conn', Select) /\ Select \in Cached(conn)
      <4>1. m = n - 1 /\ Cached(conn') = Cached(conn) \ {Select}
        BY <3>3 DEF Dropped
      <4> QED
        BY <1>1, <1>2, <2>1, <2>3, <3>3, <4>1
    <3>4. CASE Dropped(conn', Select) /\ Select \notin Cached(conn)
      <4>1. m = n /\ Cached(conn') = Cached(conn)
        BY <2>4, <3>4 DEF Dropped
      <4> QED
        BY <2>1, <2>3, <3>4, <4>1
    <3> QED
      BY <1>1, <3>1, <3>2, <3>3, <3>4
  <2>6. b + TextsKept' <= m
    <3>1. TextsKept' = (IF errors' = 0 THEN NewTexts(i + 1) ELSE 0)
      BY <1>3 DEF TextsKept, NewTexts
    <3>2. errors' = 0 => Select \in Cached(conn')
      BY <1>2, <1>7
    <3> QED
      BY <1>2, <2>2, <2>5, <3>1, <3>2
  <2>7. m <= b + NewTexts(i + 1)
    BY <1>2, <2>2, <2>5
  <2>8. orphans' = {} /\ mode # "2b"
    BY OrphanFacts
  <2> QED
    BY <2>5, <2>6, <2>7, <2>8
<1>9. Shared'
  <2>1. errors' = 0 => Select \in Cached(conn')
    BY <1>2, <1>7
  <2>2. Cached(conn)' = Cached(conn')
    BY DEF Cached
  <2> QED
    BY <1>3, <1>7, <2>1, <2>2 DEF Shared
<1>10. prepared' \in Nat
  BY <1>2, <1>4
<1>11. SelectStaysCached'
  <2>1. /\ Succeeded \in Nat /\ Succeeded' \in Nat
        /\ errors' = errors => Succeeded' = Succeeded + 1
        /\ errors' = errors + 1 => Succeeded' = Succeeded
    BY LoopFacts, PreparedFacts
  <2>2. prepared' >= 1 \/ errors' = errors + 1
    BY <1>7
  <2>3. CASE errors' = errors
    <3>1. Succeeded' # 0
      BY <2>1, <2>3
    <3>2. errors' # errors + 1
      BY <1>2, <2>3
    <3>3. prepared' <= errors + 1
      BY <1>2, <1>4, <1>5, <1>6
    <3>4. prepared' \in 1 .. errors' + 1
      BY <1>2, <1>10, <2>2, <2>3, <3>2, <3>3
    <3> QED
      BY <1>3, <3>1, <3>4 DEF SelectStaysCached
  <2>4. CASE errors' = errors + 1
    <3>1. /\ Succeeded' = 0 => prepared' \in 0 .. errors' + 0
          /\ Succeeded' # 0 => prepared' \in 1 .. errors' + 1
      BY <1>2, <1>4, <1>6, <2>1, <2>4
    <3> QED
      BY <1>3, <3>1 DEF SelectStaysCached
  <2> QED
    BY <1>3, <2>3, <2>4
<1> QED
  BY <1>8, <1>9, <1>10, <1>11, QueryKeeps

(* Mode 3 queries a text of its own in every iteration. *)
LEMMA CommentedInv ==
    ASSUME PoolInv, Advances, mode = "3", UNCHANGED <<orphans, aborted>>,
           conn' \in Conn(Texts), Consistent(conn'),
           conn'.server \subseteq Cached(conn) \cup {Statement(i + 1)},
           Kept(conn', Statement(i + 1)) \/ (Dropped(conn', Statement(i + 1)) /\ errors' = errors + 1),
           prepared' = prepared + New(i + 1)
    PROVE  PoolInv'
<1> DEFINE b == snapshot["before"].rows
           n == Len(conn.lru)
           m == Len(conn'.lru)
           t == Statement(i + 1)
           s0 == Succeeded
           s1 == Succeeded'
<1>1. t \notin Cached(conn) /\ t \notin Queries
  BY StatementFacts
<1>2. /\ Cap \in Nat /\ Cap >= 9 /\ i \in Nat /\ errors \in Nat /\ prepared \in Nat
      /\ n \in Nat /\ n <= Cap /\ b \in Nat /\ b <= 5
  BY PoolFacts
<1>3. /\ i' = i + 1 /\ i' # 0 /\ errors' \in {errors, errors + 1} /\ UNCHANGED <<mode, snapshot>>
      /\ pc = "loop"
  BY LoopFacts DEF Advances
<1>4. prepared' = prepared + 1
  BY <1>1 DEF New
<1>5. /\ s0 \in Nat /\ s1 \in Nat
      /\ errors' = errors => s1 = s0 + 1
      /\ errors' = errors + 1 => s1 = s0
      /\ errors' = 0 => errors = 0
  BY LoopFacts, PreparedFacts
<1>6. \/ /\ m = n + 1 \/ (n = Cap /\ m = Cap)
         /\ n # Cap => Cached(conn') = Cached(conn) \cup {t}
      \/ /\ m = n \/ (n = Cap /\ m = Cap - 1)
         /\ n # Cap => Cached(conn') = Cached(conn)
         /\ errors' = errors + 1
  <2>1. CASE Kept(conn', t)
    BY <1>1, <2>1 DEF Kept
  <2>2. CASE Dropped(conn', t) /\ errors' = errors + 1
    BY <1>1, <2>2 DEF Dropped
  <2> QED
    BY <2>1, <2>2
<1> HIDE DEF t, m, n, s0, s1
<1>7. Held'
  <2> SUFFICES ASSUME snapshot["before"].ok, ~aborted
               PROVE  /\ b + TextsKept' <= m \/ Full'
                      /\ b + NewTexts(i + 1) <= Cap => m <= b + NewTexts(i + 1) /\ Queries \subseteq Cached(conn')
                      /\ orphans' # {} => m = b /\ Queries \subseteq Cached(conn')
                      /\ mode \in {"0", "1a", "1b", "4"} => m = b + (IF Select \in Cached(conn') THEN 1 ELSE 0)
                      /\ mode = "2b" => IF Cold' THEN m = b /\ Queries \subseteq Cached(conn')
                                       ELSE b + Succeeded' + 3 <= m \/ Full'
    BY HeldAfter DEF m
  <2>1. NewTexts(i + 1) = i + 1 /\ NewTexts(i) = i /\ TextsKept = s0 /\ TextsKept' = s1
    BY <1>3 DEF NewTexts, TextsKept, s0, s1
  <2>2. /\ b + s0 <= n \/ Full
        /\ b + i <= Cap => n <= b + i /\ Queries \subseteq Cached(conn)
    BY <2>1, HeldBefore DEF n
  <2>3. Full <=> n >= (IF errors = 0 THEN Cap ELSE Cap - 1)
    BY DEF Full, n
  <2>4. Full' <=> m >= (IF errors' = 0 THEN Cap ELSE Cap - 1)
    BY DEF Full, m
  <2> HIDE DEF b
  <2>5. b + s1 <= m \/ m >= (IF errors' = 0 THEN Cap ELSE Cap - 1)
    <3>1. b \in Nat /\ m \in Int
      BY <1>2, <1>6 DEF b
    <3>2. CASE errors' = errors
      BY <1>2, <1>5, <1>6, <2>2, <2>3, <3>1, <3>2
    <3>3. CASE errors' = errors + 1
      BY <1>2, <1>5, <1>6, <2>2, <2>3, <3>1, <3>3
    <3> QED
      BY <1>3, <3>2, <3>3
  <2>6. b + (i + 1) <= Cap => m <= b + (i + 1) /\ Queries \subseteq Cached(conn')
    <3> SUFFICES ASSUME b + (i + 1) <= Cap
                 PROVE  m <= b + (i + 1) /\ Queries \subseteq Cached(conn')
      OBVIOUS
    <3>1. b \in Nat
      BY <1>2 DEF b
    <3>2. b + i <= Cap /\ b + i # Cap
      BY <1>2, <3>1
    <3>3. n <= b + i /\ Queries \subseteq Cached(conn)
      BY <2>2, <3>2
    <3>4. n # Cap
      BY <1>2, <3>1, <3>2, <3>3
    <3>5. m = n + 1 \/ m = n
      BY <1>6, <3>4
    <3>6. Queries \subseteq Cached(conn')
      BY <1>6, <3>3, <3>4
    <3> QED
      BY <1>2, <3>1, <3>3, <3>5, <3>6
  <2>7. orphans' = {}
    BY OrphanFacts
  <2> QED
    BY <2>1, <2>4, <2>5, <2>6, <2>7
<1>8. Shared'
  BY <1>3 DEF Shared
<1>9. prepared' \in Nat
  BY <1>2, <1>4
<1>10. SelectStaysCached'
  <2>1. s0 <= prepared /\ prepared <= i
    BY PreparedFacts DEF s0
  <2>2. prepared' \in s1 .. i'
    BY <1>2, <1>3, <1>4, <1>5, <2>1
  <2> QED
    BY <1>3, <2>2 DEF SelectStaysCached, s1
<1> QED
  BY <1>7, <1>8, <1>9, <1>10, QueryKeeps

(* The texts of mode 2b's batches: none of a first one is cached, of the   *)
(* later ones all but the new SET LOCAL.                                   *)
LEMMA BatchFacts ==
    ASSUME PoolInv, Advances, mode = "2b"
    PROVE  LET s == Text("begin")
               t == SetLocal(i + 1)
               v == Text("commit")
           IN  /\ s \in Texts /\ s[1] \notin Asking /\ s[2] <= i + 1
               /\ t \in Texts /\ t[1] \notin Asking /\ t[2] <= i + 1
               /\ Select \in Texts /\ Select[1] \notin Asking /\ Select[2] <= i + 1
               /\ v \in Texts /\ v[1] \notin Asking /\ v[2] <= i + 1
               /\ s # t /\ s # Select /\ s # v /\ t # Select /\ t # v /\ Select # v
               /\ t \notin Cached(conn)
               /\ Cold => {s, t, Select, v} \cap Cached(conn) = {}
               /\ ~Cold /\ ~aborted => {s, Select, v} \subseteq Recent(conn, 4) /\ {s, Select, v} \subseteq Cached(conn)
<1> DEFINE s == Text("begin")
           t == SetLocal(i + 1)
           u == Select
           v == Text("commit")
<1>1. i \in Nat /\ i + 1 \in Nat /\ 0 <= i + 1 /\ Cached(conn) \subseteq conn.server /\ pc = "loop"
  BY PoolFacts DEF Advances
<1>2. /\ s \in Texts /\ s[1] = "begin" /\ s[2] = 0
      /\ t \in Texts /\ t[1] = "set local" /\ t[2] = i + 1
      /\ u \in Texts /\ u[1] = "select" /\ u[2] = 0
      /\ v \in Texts /\ v[1] = "commit" /\ v[2] = 0
  <2>1. "begin" \in Kinds /\ "commit" \in Kinds
    BY DEF Kinds
  <2> QED
    BY Zenon, <1>1, <2>1, TextFacts
<1>3. ~Cold /\ ~aborted => {s, u, v} \subseteq Recent(conn, 4)
  BY <1>1 DEF PoolInv, Shared
<1>4. Recent(conn, 4) \subseteq Cached(conn)
  BY PoolFacts, ConnFacts DEF Recent
<1> HIDE DEF s, t, u, v
<1>5. s # t /\ s # u /\ s # v /\ t # u /\ t # v /\ u # v
  BY <1>2
<1>6. {s[1], t[1], u[1], v[1]} \cap Asking = {}
  BY <1>2 DEF Asking
<1>7. t \notin Cached(conn)
  <2>1. ~(t[2] <= i)
    <3>1. i \in Nat /\ t[2] = i + 1
      BY Zenon, <1>1, <1>2
    <3> QED
      BY <3>1
  <2> QED
    BY <1>1, <2>1 DEF PoolInv, Fresh
<1>8. Cold => {s, t, u, v} \cap Cached(conn) = {}
  BY <1>1, <1>6 DEF Cold
<1>9. s[2] <= i + 1 /\ t[2] <= i + 1 /\ u[2] <= i + 1 /\ v[2] <= i + 1
  <2>1. 0 <= i + 1 /\ i + 1 <= i + 1
    BY <1>1
  <2>2. s[2] = 0 /\ t[2] = i + 1 /\ u[2] = 0 /\ v[2] = 0
    BY Zenon, <1>2
  <2> QED
    BY Zenon, <2>1, <2>2
<1> QED
  BY <1>2, <1>3, <1>4, <1>5, <1>6, <1>7, <1>8, <1>9 DEF s, t, u, v

(* A batch of mode 2b that was prepared: the server and the cache learn    *)
(* four texts from the first one, later ones only their SET LOCAL.         *)
LEMMA BatchSentInv ==
    ASSUME PoolInv, Advances, mode = "2b", ~aborted,
           \A j \in Unknown(i + 1) : Preparable(j, i + 1),
           \/ conn' = SentBatch(conn, i + 1)
           \/ aborted' /\ conn' = Invalidate(SentBatch(conn, i + 1), Select),
           orphans' = orphans, prepared' = prepared + New(i + 1)
    PROVE  PoolInv'
<1> DEFINE s == Text("begin")
           t == SetLocal(i + 1)
           u == Select
           v == Text("commit")
           e == SentBatch(conn, i + 1)
           b == snapshot["before"].rows
           n == Len(conn.lru)
           m == Len(e.lru)
           s0 == Succeeded
           s1 == Succeeded'
<1>1. /\ s \in Texts /\ s[1] \notin Asking /\ s[2] <= i + 1
      /\ t \in Texts /\ t[1] \notin Asking /\ t[2] <= i + 1
      /\ u \in Texts /\ u[1] \notin Asking /\ u[2] <= i + 1
      /\ v \in Texts /\ v[1] \notin Asking /\ v[2] <= i + 1
      /\ s # t /\ s # u /\ s # v /\ t # u /\ t # v /\ u # v
      /\ t \notin Cached(conn)
      /\ Cold => {s, t, u, v} \cap Cached(conn) = {}
      /\ ~Cold => {s, u, v} \subseteq Recent(conn, 4) /\ {s, u, v} \subseteq Cached(conn)
  BY BatchFacts
<1>2. /\ Cap \in Nat /\ Cap >= 9 /\ i \in Nat /\ errors \in Nat /\ prepared \in Nat
      /\ n \in Nat /\ n <= Cap /\ b \in Nat /\ b <= 5
      /\ conn \in Conn(Texts) /\ Consistent(conn) /\ Cached(conn) \subseteq conn.server
  BY PoolFacts
<1>3. /\ i' = i + 1 /\ i' # 0 /\ errors' \in {errors, errors + 1} /\ UNCHANGED <<mode, snapshot>>
      /\ pc = "loop" /\ phase' = "after" /\ aborted' \in BOOLEAN
  BY LoopFacts DEF Advances
<1>4. e = SendBatch(conn, s, t, u, v)
  <2>1. /\ Batch(i + 1)[1] = s /\ Batch(i + 1)[2] = t /\ Batch(i + 1)[3] = u /\ Batch(i + 1)[4] = v
    BY DEF Batch
  <2> QED
    BY <2>1 DEF SentBatch
<1>5. prepared' = prepared + (IF u \in Cached(conn) THEN 0 ELSE 1)
  BY DEF New, Statement
<1>6. orphans = {}
  <2> SUFFICES ASSUME orphans # {} PROVE FALSE
    OBVIOUS
  <2>1. Cold /\ s \in orphans
    BY OrphanFacts
  <2>2. 1 \in 1 .. 4 /\ Batch(i + 1)[1] = s
    BY DEF Batch
  <2>3. s \notin Cached(conn)
    BY <1>1, <2>1
  <2>4. 1 \in Unknown(i + 1)
    BY <2>2, <2>3 DEF Unknown
  <2> QED
    BY <2>1, <2>2, <2>4 DEF Preparable
<1>7. Select = u /\ Text("begin") = s /\ Text("commit") = v
  OBVIOUS
<1> HIDE DEF s, t, u, v, e
<1>8. /\ e \in Conn(Texts) /\ Consistent(e)
      /\ e.server = Cached(conn) \cup {s, t, u, v}
      /\ n = Cap => m = Cap
      /\ Cold =>
            /\ {s, t, u, v} \subseteq Recent(e, 4)
            /\ \/ m = n + 4 /\ Cached(e) = Cached(conn) \cup {s, t, u, v}
               \/ n + 4 > Cap /\ m = Cap
      /\ ~Cold =>
            /\ {s, u, v} \subseteq Recent(e, 4)
            /\ \/ m = n + 1 /\ Cached(e) = Cached(conn) \cup {t}
               \/ n = Cap /\ m = Cap
  <2> DEFINE f == SendBatch(conn, s, t, u, v)
  <2>1. /\ f \in Conn(Texts) /\ Consistent(f)
        /\ f.server = Cached(conn) \cup {s, t, u, v}
        /\ Len(conn.lru) = Cap => Len(f.lru) = Cap
        /\ {s, t, u, v} \cap Cached(conn) = {} =>
              /\ 4 <= Cap => {s, t, u, v} \subseteq Recent(f, 4)
              /\ \/ /\ Len(f.lru) = Len(conn.lru) + 4 /\ f.invalid = {}
                    /\ Cached(f) = Cached(conn) \cup {s, t, u, v}
                 \/ Len(conn.lru) + 4 > Cap /\ Len(f.lru) = Cap
        /\ 4 <= Cap /\ {s, u, v} \subseteq Recent(conn, 4) /\ t \notin Cached(conn) =>
              /\ {s, u, v} \subseteq Recent(f, 4)
              /\ \/ /\ Len(f.lru) = Len(conn.lru) + 1 /\ f.invalid = {}
                    /\ Cached(f) = Cached(conn) \cup {t}
                 \/ Len(conn.lru) = Cap /\ Len(f.lru) = Cap
    <3>1. s # t /\ s # u /\ s # v /\ t # u /\ t # v /\ u # v
      BY <1>1
    <3>2. conn \in Conn(Texts) /\ Consistent(conn) /\ s \in Texts /\ t \in Texts /\ u \in Texts /\ v \in Texts
      BY Zenon, <1>1, <1>2
    <3> QED
      BY <3>1, <3>2, SendBatchResult
  <2>2. 4 <= Cap
    BY <1>2
  <2> HIDE DEF f
  <2>3. e = f
    BY <1>4 DEF f
  <2> QED
    BY Zenon, <1>1, <2>1, <2>2, <2>3
<1>9. /\ conn' \in Conn(Texts) /\ Consistent(conn') /\ conn'.server = e.server
      /\ ~aborted' => conn' = e
  <2>1. CASE conn' = e
    BY <1>8, <2>1
  <2>2. CASE aborted' /\ conn' = Invalidate(e, u)
    <3> DEFINE f == Invalidate(e, u)
    <3>1. e \in Conn(Texts) /\ Consistent(e) /\ u \in Texts
      BY <1>1, <1>8
    <3>2. f \in Conn(Texts) /\ Consistent(f) /\ f.server = e.server
      BY Zenon, <3>1, InvalidateResult
    <3>3. conn' = f
      BY <2>2 DEF f
    <3> HIDE DEF f
    <3> QED
      BY <2>2, <3>2, <3>3
  <2> QED
    BY <1>7, <2>1, <2>2 DEF e
<1>10. ServerBounded'
  <2>1. Cardinality(conn'.server) \in Nat /\ Cardinality(conn'.server) <= Cap + 4
    <3>1. conn'.server \subseteq Cached(conn) \cup {s, t, u, v}
      BY <1>8, <1>9
    <3> QED
      BY Zenon, <1>2, <3>1, FourAbove
  <2>2. conn'.server \cup orphans' = conn'.server
    BY <1>6
  <2> QED
    BY <1>3, <2>1, <2>2 DEF ServerBounded
<1>11. ~Cold'
  <2>1. s \in conn'.server /\ s[1] \notin Asking
    BY <1>1, <1>8, <1>9
  <2> QED
    BY <2>1 DEF Cold
<1>12. LeftBehind' /\ orphans' \subseteq Texts
  BY <1>3, <1>6 DEF LeftBehind
<1>13. /\ s0 \in Nat /\ s1 \in Nat
       /\ errors' = errors => s1 = s0 + 1
       /\ errors' = errors + 1 => s1 = s0
       /\ errors' = 0 => errors = 0
       /\ Cold => s0 = 0 /\ u \notin Cached(conn)
       /\ ~Cold => prepared >= 1 /\ u \in Cached(conn)
  <2>1. IF Cold THEN s0 = 0 ELSE prepared >= 1
    BY <1>3 DEF PoolInv, Shared
  <2> QED
    BY <1>1, <2>1, LoopFacts, PreparedFacts
<1> HIDE DEF s0, s1, m, n, b
<1>14. Held'
  <2> DEFINE m1 == Len(conn'.lru)
  <2> SUFFICES ASSUME snapshot["before"].ok, ~aborted'
               PROVE  /\ b + TextsKept' <= m1 \/ Full'
                      /\ b + NewTexts(i + 1) <= Cap => m1 <= b + NewTexts(i + 1) /\ Queries \subseteq Cached(conn')
                      /\ orphans' # {} => m1 = b /\ Queries \subseteq Cached(conn')
                      /\ mode \in {"0", "1a", "1b", "4"} => m1 = b + (IF Select \in Cached(conn') THEN 1 ELSE 0)
                      /\ mode = "2b" => IF Cold' THEN m1 = b /\ Queries \subseteq Cached(conn')
                                       ELSE b + Succeeded' + 3 <= m1 \/ Full'
    BY HeldAfter DEF b
  <2>1. conn' = e /\ m1 = m
    BY <1>9 DEF m
  <2>2. /\ b + NewTexts(i) <= Cap => n <= b + NewTexts(i) /\ Queries \subseteq Cached(conn)
        /\ IF Cold THEN n = b /\ Queries \subseteq Cached(conn) ELSE b + s0 + 3 <= n \/ Full
    BY HeldBefore DEF b, n, s0
  <2>3. /\ Full <=> n >= (IF errors = 0 THEN Cap ELSE Cap - 1)
        /\ Full' <=> m >= (IF errors' = 0 THEN Cap ELSE Cap - 1)
    <3>1. Full' <=> m1 >= (IF errors' = 0 THEN Cap ELSE Cap - 1)
      BY DEF Full
    <3> QED
      BY <2>1, <3>1 DEF Full, n
  <2>4. NewTexts(i + 1) = i + 4 /\ (~Cold => NewTexts(i) = i + 3)
    <3>1. ~Cold => i # 0
      BY DEF PoolInv, Fresh
    <3> QED
      BY <1>2, <3>1 DEF NewTexts
  <2>5. TextsKept' = IF s1 = 0 THEN 0 ELSE s1 + 3
    BY <1>3 DEF TextsKept, NewTexts, s1
  <2> HIDE DEF m1
  <2>6. CASE Cold
    <3>1. m = n + 4 /\ Cached(e) = Cached(conn) \cup {s, t, u, v} /\ n = b /\ Queries \subseteq Cached(conn)
      BY <1>2, <1>8, <2>2, <2>6
    <3>2. s1 <= 1
      BY <1>2, <1>3, <1>13, <2>6
    <3>3. b + s1 + 3 <= m /\ b + TextsKept' <= m /\ m <= b + NewTexts(i + 1)
      BY <1>2, <1>13, <2>4, <2>5, <3>1, <3>2
    <3> QED
      BY <1>3, <1>6, <1>11, <2>1, <3>1, <3>3 DEF s1
  <2>7. CASE ~Cold
    <3>1. (m = n + 1 /\ Cached(e) = Cached(conn) \cup {t}) \/ (n = Cap /\ m = Cap)
      BY <1>8, <2>7
    <3>2. b + s1 + 3 <= m \/ Full'
      <4>1. CASE errors' = errors
        BY <1>2, <1>13, <2>2, <2>3, <2>7, <3>1, <4>1
      <4>2. CASE errors' = errors + 1
        BY <1>2, <1>13, <2>2, <2>3, <2>7, <3>1, <4>2
      <4> QED
        BY <1>3, <4>1, <4>2
    <3>3. b + TextsKept' <= m \/ Full'
      <4>1. m \in Int
        BY <1>2, <3>1
      <4> QED
        BY <1>2, <1>13, <2>5, <3>2, <4>1
    <3>4. b + NewTexts(i + 1) <= Cap => m <= b + NewTexts(i + 1) /\ Queries \subseteq Cached(e)
      <4> SUFFICES ASSUME b + (i + 4) <= Cap
                   PROVE  m <= b + (i + 4) /\ Queries \subseteq Cached(e)
        BY <2>4
      <4>1. b + (i + 3) <= Cap
        BY <1>2
      <4>2. n <= b + (i + 3) /\ Queries \subseteq Cached(conn)
        BY <2>2, <2>4, <2>7, <4>1
      <4>3. n # Cap
        BY <1>2, <4>2
      <4> QED
        BY <1>2, <3>1, <4>2, <4>3
    <3> QED
      BY <1>3, <1>6, <1>11, <2>1, <3>2, <3>3, <3>4 DEF s1
  <2> QED
    BY <2>6, <2>7
<1>15. Shared'
  <2> SUFFICES ASSUME ~aborted'
               PROVE  {s, u, v} \subseteq Recent(conn', 4) /\ prepared' >= 1
    BY <1>3, <1>7, <1>11 DEF Shared, Recent
  <2>1. {s, u, v} \subseteq Recent(e, 4)
    BY <1>8
  <2>2. prepared' >= 1
    BY <1>2, <1>5, <1>13
  <2> QED
    BY <1>9, <2>1, <2>2
<1>16. prepared' \in Nat
  BY <1>2, <1>5
<1>17. SelectStaysCached'
  <2>1. /\ s0 = 0 => prepared <= errors
        /\ s0 # 0 => 1 <= prepared /\ prepared <= errors + 1
    BY PreparedFacts DEF s0
  <2>2. CASE errors' = errors
    <3>1. s1 # 0 /\ prepared' >= 1 /\ prepared' <= errors + 1
      BY <1>2, <1>5, <1>13, <2>1, <2>2
    <3>2. prepared' \in 1 .. errors' + 1
      BY <1>2, <1>16, <2>2, <3>1
    <3> QED
      BY <1>3, <3>1, <3>2 DEF SelectStaysCached, s1
  <2>3. CASE errors' = errors + 1
    <3>1. /\ s1 = 0 => prepared' \in 0 .. errors' + 0
          /\ s1 # 0 => prepared' \in 1 .. errors' + 1
      BY <1>2, <1>5, <1>13, <2>1, <2>3
    <3> QED
      BY <1>3, <3>1 DEF SelectStaysCached, s1
  <2> QED
    BY <1>3, <2>2, <2>3
<1>18. \A x \in conn'.server : x \in conn.server \/ (x[1] \notin Asking /\ x[2] <= i + 1)
  BY <1>1, <1>2, <1>8, <1>9
<1> QED
  BY <1>9, <1>10, <1>12, <1>14, <1>15, <1>16, <1>17, <1>18, LoopKeeps

(* The server refuses a text of a batch.  It keeps those before it in a    *)
(* first batch; afterwards there are none.                                 *)
LEMMA BatchRefusedInv ==
    ASSUME PoolInv, Advances, errors' = errors + 1, BatchRefused
    PROVE  PoolInv'
<1> DEFINE s == Text("begin")
           t == SetLocal(i + 1)
           u == Select
           v == Text("commit")
           c == IF aborted THEN conn ELSE Deallocate(conn)
           e == Looked(c, s, t, u, v)
<1>1. mode = "2b" /\ aborted' = aborted
  BY DEF BatchRefused
<1>2. /\ t \notin Cached(conn)
      /\ Cold => {s, t, u, v} \cap Cached(conn) = {}
      /\ ~Cold /\ ~aborted => {s, u, v} \subseteq Cached(conn)
  BY <1>1, BatchFacts
<1>3. Batch(i + 1)[1] = s /\ Batch(i + 1)[2] = t /\ Batch(i + 1)[3] = u /\ Batch(i + 1)[4] = v
  BY DEF Batch
<1>4. PICK j \in Unknown(i + 1) :
         LET known == {k \in Unknown(i + 1) : k < j}
         IN  /\ \A k \in known : Preparable(k, i + 1)
             /\ orphans' = orphans \cup {Batch(i + 1)[k] : k \in known}
             /\ prepared' = prepared + (IF 3 \in known THEN 1 ELSE 0)
             /\ conn' = Looked(c, Batch(i + 1)[1], Batch(i + 1)[2], Batch(i + 1)[3], Batch(i + 1)[4])
  BY DEF BatchRefused
<1> DEFINE known == {k \in Unknown(i + 1) : k < j}
<1>5. j \in 1 .. 4 /\ known \subseteq {1, 2, 3} /\ known \subseteq Unknown(i + 1)
  BY <1>4 DEF Unknown
<1>6. conn' = e
  BY <1>3, <1>4
<1>7. conn \in Conn(Texts) /\ Consistent(conn) /\ Cached(conn) \subseteq conn.server /\ prepared \in Nat
  BY PoolFacts
<1>8. s = Text("begin") /\ u = Select /\ v = Text("commit") /\ t = SetLocal(i + 1)
  OBVIOUS
<1> HIDE DEF s, t, u, v
<1>9. /\ c \in Conn(Texts) /\ Consistent(c) /\ Cached(c) = Cached(conn) /\ c.lru = conn.lru
      /\ c.server \subseteq conn.server /\ Recent(c, 4) = Recent(conn, 4)
  <2> DEFINE d == Deallocate(conn)
  <2>1. /\ d \in Conn(Texts) /\ Consistent(d)
        /\ d.lru = conn.lru /\ Cached(d) = Cached(conn) /\ d.server = Cached(conn)
        /\ Recent(d, 4) = Recent(conn, 4)
    BY <1>7, DeallocateResult
  <2> HIDE DEF d
  <2>2. c = conn \/ c = d
    BY DEF d
  <2> HIDE DEF c
  <2> QED
    BY <1>7, <2>1, <2>2
<1> HIDE DEF c
<1>10. /\ e \in Conn(Texts) /\ Consistent(e)
       /\ Cached(e) = Cached(conn) /\ e.server \subseteq conn.server /\ Len(e.lru) = Len(conn.lru)
       /\ {s, u, v} \subseteq Recent(conn, 4) => {s, u, v} \subseteq Recent(e, 4)
  <2>1. /\ e \in Conn(Texts) /\ Consistent(e)
        /\ Cached(e) = Cached(c) /\ e.server = c.server /\ e.invalid = c.invalid
        /\ Len(e.lru) = Len(c.lru)
        /\ {s, u, v} \subseteq Cached(c) /\ t \notin Cached(c) => {s, u, v} \subseteq Recent(e, 3)
        /\ {s, u, v} \subseteq Recent(c, 4) /\ t \notin Cached(c) => {s, u, v} \subseteq Recent(e, 4)
    BY Zenon, <1>9, LookedResult
  <2> HIDE DEF e
  <2> QED
    BY <1>2, <1>9, <2>1
<1> HIDE DEF e
<1>11. known = {} => orphans' = orphans /\ prepared' = prepared
  BY <1>4, <1>7
<1>12. Cold /\ known # {} => 1 \in known
  <2> SUFFICES ASSUME Cold, NEW k \in known PROVE 1 \in known
    OBVIOUS
  <2>1. k \in 1 .. 3 /\ k < j
    BY <1>5
  <2>2. 1 < j
    BY <1>5, <2>1
  <2>3. 1 \in Unknown(i + 1)
    BY <1>2, <1>3 DEF Unknown
  <2> QED
    BY <2>2, <2>3
<1>13. \/ prepared' = prepared /\ orphans' = orphans
       \/ Cold /\ ~aborted /\ s \in orphans' /\ orphans' \subseteq {s, t, u}
  <2>1. CASE aborted
    <3>1. known = {}
      BY <1>4, <2>1 DEF Preparable
    <3> QED
      BY <1>11, <3>1
  <2>2. CASE ~aborted /\ ~Cold
    <3>1. Unknown(i + 1) \subseteq {2}
      BY <1>2, <1>3, <2>2 DEF Unknown
    <3>2. known = {}
      BY <1>5, <3>1
    <3> QED
      BY <1>11, <3>2
  <2>3. CASE Cold /\ orphans # {}
    <3>1. s \in orphans
      BY <1>8, <2>3, OrphanFacts
    <3>2. 1 \notin known
      BY <1>3, <1>4, <3>1 DEF Preparable
    <3> QED
      BY <1>11, <1>12, <2>3, <3>2
  <2>4. CASE Cold /\ ~aborted /\ orphans = {} /\ known # {}
    <3>1. orphans' = {Batch(i + 1)[k] : k \in known} /\ 1 \in known
      BY <1>4, <1>12, <2>4
    <3>2. s \in orphans' /\ orphans' \subseteq {s, t, u}
      BY <1>3, <1>5, <3>1
    <3> QED
      BY <2>4, <3>2
  <2>5. CASE known = {}
    BY <1>11, <2>5
  <2> QED
    BY <2>1, <2>2, <2>3, <2>4, <2>5
<1>14. prepared' \in {prepared, prepared + 1}
  BY <1>4, <1>7
<1>15. {s, u, v} \subseteq Recent(conn, 4) => {s, u, v} \subseteq Recent(conn', 4)
  BY <1>6, <1>10
<1> QED
  BY <1>1, <1>6, <1>8, <1>10, <1>13, <1>14, <1>15, NothingLearnt

(* An iteration of a mode that queries one text by itself. *)
LEMMA QueryInv ==
    ASSUME PoolInv, Advances, mode \notin {"2a", "2b"}, UNCHANGED <<orphans, aborted>>,
           NEW q \in Queried(conn, Statement(i + 1)),
           NEW d, d = q \/ (d = Invalidate(q, Statement(i + 1)) /\ errors' = errors + 1),
           conn' = d \/ conn' = Deallocate(d),
           prepared' = prepared + New(i + 1)
    PROVE  PoolInv'
<1> DEFINE t == Statement(i + 1)
<1>1. t \in Texts
  BY StatementFacts
<1> DEFINE e == conn'
<1>2. d = q \/ d = Invalidate(q, t)
  OBVIOUS
<1>3. /\ e \in Conn(Texts) /\ Consistent(e) /\ e.server \subseteq Cached(conn) \cup {t}
      /\ d = q => Kept(e, t)
      /\ Kept(e, t) \/ Dropped(e, t)
  <2> HIDE DEF t, e
  <2>1. q \in Queried(conn, t) /\ (e = d \/ e = Deallocate(d))
    BY DEF t, e
  <2> QED
    BY Zenon, <1>1, <1>2, <2>1, QueryOutcome
<1>4. Kept(conn', t) \/ (Dropped(conn', t) /\ errors' = errors + 1)
  BY <1>3
<1>5. mode = "3" \/ mode \in {"0", "1a", "1b", "4"}
  BY PoolFacts
<1> QED
  BY <1>3, <1>4, <1>5, SharedSelectInv, CommentedInv

LEMMA IterateInv == ASSUME PoolInv, Iterate PROVE PoolInv'
<1>1. /\ mode = "2b" => \A j \in Unknown(i + 1) : Preparable(j, i + 1)
      /\ ~aborted /\ conn' \in RunOne(conn, i + 1)
      /\ prepared' = prepared + New(i + 1)
      /\ orphans' = orphans /\ aborted' = aborted /\ errors' = errors /\ pc = "loop" /\ i' = i + 1
  BY DEF Iterate
<1>2. Advances
  <2>1. UNCHANGED <<choice, pc, phase, open, ctx, errors, aborted, snapshot>> /\ pc = "loop" /\ i < iterations /\ i' = i + 1
    BY DEF Iterate
  <2>2. open' \in BOOLEAN /\ aborted' \in BOOLEAN
    BY <2>1 DEF PoolInv, TypeOK
  <2> QED
    BY <2>1, <2>2 DEF Advances, choice
<1>3. CASE mode = "2b"
  <2>1. conn' = SentBatch(conn, i + 1)
    BY <1>1, <1>3 DEF RunOne
  <2> QED
    BY <1>1, <1>2, <1>3, <2>1, BatchSentInv
<1>4. CASE mode \notin {"2a", "2b"}
  <2>1. \E q \in Queried(conn, Statement(i + 1)) : conn' = q
    BY <1>1, <1>4 DEF RunOne, Queried
  <2> QED
    BY <1>1, <1>2, <1>4, <2>1, QueryInv
<1>5. CASE mode = "2a"
  <2>1. conn' = conn /\ prepared' = 0 /\ prepared = 0
    <3>1. conn' = conn /\ New(i + 1) = 0
      BY <1>1, <1>5 DEF RunOne, New
    <3> QED
      BY <1>1, <1>5, <3>1, PreparedFacts
  <2>2. conn \in Conn(Texts) /\ Consistent(conn) /\ orphans \subseteq Texts /\ orphans = {} /\ mode' = mode
    BY <1>2, <1>5, PoolFacts, OrphanFacts DEF Advances
  <2>3. Held'
    <3> SUFFICES ASSUME snapshot["before"].ok
                 PROVE  LET b == snapshot["before"].rows
                            n == Len(conn.lru)
                        IN  /\ b + TextsKept' <= n \/ Full'
                            /\ b + NewTexts(i + 1) <= Cap => n <= b + NewTexts(i + 1) /\ Queries \subseteq Cached(conn)
      BY <1>1, <1>2, <1>5, <2>1, <2>2, HeldAfter
    <3>1. TextsKept = 0 /\ TextsKept' = 0 /\ NewTexts(i) = 0 /\ NewTexts(i + 1) = 0
      BY <1>5, <2>2 DEF TextsKept, NewTexts
    <3>2. Full => Full'
      BY <1>1, <2>1 DEF Full
    <3> QED
      BY <1>1, <1>2, <3>1, <3>2, HeldBefore
  <2>4. Shared' /\ SelectStaysCached' /\ LeftBehind'
    BY <1>1, <1>5, <2>1, <2>2 DEF Shared, SelectStaysCached, LeftBehind
  <2>5. ServerBounded'
    BY <1>1, <2>1, <2>2 DEF PoolInv, ServerBounded
  <2>6. prepared' \in Nat /\ orphans' \subseteq Texts
    BY <1>1, <2>1, <2>2
  <2>7. /\ conn' \in Conn(Texts) /\ Consistent(conn')
        /\ \A t \in conn'.server : t \in conn.server \/ (t[1] \notin Asking /\ t[2] <= i + 1)
        /\ mode = "2a" => conn'.server \subseteq conn.server
    BY <2>1, <2>2
  <2> QED
    BY <1>2, <2>3, <2>4, <2>5, <2>6, <2>7, LoopKeeps
<1> QED
  BY <1>3, <1>4, <1>5

LEMMA IterationFailsInv == ASSUME PoolInv, IterationFails PROVE PoolInv'
<1>1. /\ pc = "loop" /\ i < iterations /\ i' = i + 1 /\ errors' = errors + 1
      /\ pc' \in {"loop", "failed"}
      /\ UNCHANGED <<choice, phase, ctx, snapshot>>
      /\ \/ UNCHANGED <<conn, open, prepared, orphans, aborted>>
         \/ open' \in BOOLEAN /\ (RequestFails \/ QueryFails \/ BatchRefused \/ BatchFails)
  BY DEF IterationFails
<1>2. conn \in Conn(Texts) /\ Consistent(conn) /\ Cached(conn) \subseteq conn.server
  BY PoolFacts
<1>3. open \in BOOLEAN /\ aborted \in BOOLEAN
  BY DEF PoolInv, TypeOK
<1>4. Advances
  <2>1. open' \in BOOLEAN
    BY <1>1, <1>3
  <2>2. aborted' = aborted \/ aborted' \in BOOLEAN
    BY <1>1 DEF RequestFails, QueryFails, BatchRefused, BatchFails
  <2>3. aborted' \in BOOLEAN
    BY <1>3, <2>2
  <2> QED
    BY <1>1, <2>1, <2>3 DEF Advances, choice
<1>5. CASE UNCHANGED <<conn, prepared, orphans, aborted>> \/ RequestFails
  <2>1. /\ conn' = conn \/ (conn' = Deallocate(conn) /\ mode \notin {"2a", "2b"})
        /\ prepared' = prepared /\ orphans' = orphans /\ aborted' = aborted
    BY <1>5 DEF RequestFails
  <2>2. /\ conn' \in Conn(Texts) /\ Consistent(conn') /\ conn'.server \subseteq conn.server
        /\ Cached(conn') = Cached(conn) /\ Len(conn'.lru) = Len(conn.lru)
    <3> DEFINE d == Deallocate(conn)
    <3>1. /\ d \in Conn(Texts) /\ Consistent(d)
          /\ d.lru = conn.lru /\ Cached(d) = Cached(conn) /\ d.server = Cached(conn)
      BY <1>2, DeallocateResult
    <3> HIDE DEF d
    <3>2. conn' = conn \/ conn' = d
      BY <2>1 DEF d
    <3> QED
      BY <1>2, <3>1, <3>2
  <2>3. mode = "2b" => conn' = conn
    BY <2>1
  <2>4. mode = "2b" => Recent(conn', 4) = Recent(conn, 4)
    BY <2>3
  <2> QED
    BY <1>1, <1>4, <2>1, <2>2, <2>4, NothingLearnt
<1>6. CASE QueryFails
  <2>1. PICK q \in Queried(conn, Statement(i + 1)) :
           \E d \in {q, Invalidate(q, Statement(i + 1))} : conn' \in {d, Deallocate(d)}
    BY <1>6 DEF QueryFails
  <2>2. PICK d \in {q, Invalidate(q, Statement(i + 1))} : conn' \in {d, Deallocate(d)}
    BY <2>1
  <2>3. mode \notin {"2a", "2b"} /\ prepared' = prepared + New(i + 1) /\ UNCHANGED <<orphans, aborted>>
    BY <1>6 DEF QueryFails
  <2> QED
    BY <1>1, <1>4, <2>2, <2>3, QueryInv
<1>7. CASE BatchRefused
  BY <1>1, <1>4, <1>7, BatchRefusedInv
<1>8. CASE BatchFails
  BY <1>4, <1>8, BatchSentInv DEF BatchFails
<1> QED
  BY <1>1, <1>5, <1>6, <1>7, <1>8

LEMMA NextInv == ASSUME PoolInv, [Next]_vars PROVE PoolInv'
<1>1. CASE SetupCount \/ SetupSeed \/ TakeExtension \/ TakeStatements
  BY <1>1, AskInv
<1>2. CASE TakePrepared
  BY <1>2, TakePreparedInv
<1>3. CASE TakeFails
  BY <1>3, TakeFailsInv
<1>4. CASE Iterate
  BY <1>4, IterateInv
<1>5. CASE IterationFails
  BY <1>5, IterationFailsInv
<1>6. CASE SetupFails \/ Cancelled \/ LoopDone \/ Report \/ Cancel \/ Done \/ UNCHANGED vars
  BY <1>6, OtherInv DEF Done
<1> QED
  BY <1>1, <1>2, <1>3, <1>4, <1>5, <1>6 DEF Next, Step

---------------------------------------------------------------------------
(* The theorems. *)

(* The inductive invariant of the pool-break demo and of Run's cells       *)
(* holds, whatever the capacity of pgx's statement cache from nine on and  *)
(* whichever iterations fail (demo.go:80-152, runner.go:119-162).          *)
THEOREM PoolInvariant == Spec => []PoolInv
BY InitInv, NextInv, PTL DEF Spec

(* The variables of PoolBreak keep their types, and the loop never counts  *)
(* more iterations than were asked for.                                    *)
THEOREM PoolTypeCorrect == Spec => []TypeOK
<1>1. PoolInv => TypeOK
  BY DEF PoolInv
<1> QED
  BY <1>1, PoolInvariant, PTL

(* The statements on the server never exceed the capacity of the client's  *)
(* cache by more than one call adds: four in mode 2b, one otherwise; not   *)
(* even with those that a refused batch leaves behind (demo.go:148-151).   *)
THEOREM ServerBoundedCorrect == Spec => []ServerBounded
<1>1. PoolInv => ServerBounded
  BY DEF PoolInv
<1> QED
  BY <1>1, PoolInvariant, PTL

(* The delta of two snapshots that succeeded counts the texts of the       *)
(* iterations that succeeded, perhaps those of failed ones, and nothing    *)
(* else; once the cap is reached, the room that was left for them          *)
(* (demo.go:133, runner.go:149-162).                                       *)
THEOREM DeltaCountsIterationsCorrect == Spec => []DeltaCountsIterations
<1>1. PoolInv => DeltaCountsIterations
  BY DEF PoolInv, Counted, DeltaCountsIterations
<1> QED
  BY <1>1, PoolInvariant, PTL

(* The SELECT is prepared once and again after a failure at most, in mode  *)
(* 3 once per iteration (m2b.go:33-35, m3.go:18-21, runner.go:149-153).    *)
THEOREM SelectStaysCachedCorrect == Spec => []SelectStaysCached
<1>1. PoolInv => SelectStaysCached
  BY DEF PoolInv
<1> QED
  BY <1>1, PoolInvariant, PTL

(* Mode 2b is the only exception to what metrics.go says of the delta in   *)
(* every mode but 3: without it the delta is zero or one, also in cells    *)
(* with failures (metrics.go:44-46).                                       *)
THEOREM OtherModesStayNearOne == ASSUME "2b" \notin Modes PROVE Spec => []ModesStayNearOne
<1>1. PoolInv => ModesStayNearOne
  <2> SUFFICES ASSUME PoolInv, pc = "done", mode \in {"1a", "1b", "2a", "2b", "4"},
                      snapshot["before"].ok, snapshot["after"].ok
               PROVE  Delta \in 0 .. 2
    BY DEF ModesStayNearOne
  <2> DEFINE b == snapshot["before"].rows
             n == NewTexts(i)
             k == TextsKept
             d == Delta
  <2>1. mode # "2b"
    BY DEF PoolInv, TypeOK
  <2>2. n \in {0, 1} /\ k \in {0, 1}
    BY <2>1 DEF NewTexts, TextsKept
  <2>3. Cap \in Nat /\ Cap >= 9 /\ b \in Nat /\ b <= 5 /\ d \in Int
    <3>1. snapshot["after"].rows \in Nat /\ b \in Nat
      BY PoolFacts
    <3> QED
      BY <3>1, PoolFacts DEF Delta
  <2>4. /\ k <= d \/ (IF errors = 0 THEN Cap - b ELSE Cap - b - 1) <= d
        /\ d <= IF n <= Cap - b THEN n ELSE (Cap - b) + 1
    BY DEF PoolInv, Counted, DeltaWithinBounds
  <2> HIDE DEF b, n, k, d
  <2>5. d \in 0 .. 2
    BY <2>2, <2>3, <2>4
  <2> QED
    BY <2>5 DEF d
<1> QED
  BY <1>1, PoolInvariant, PTL
=============================================================================
