---------------------------- MODULE PoolBreakInv ----------------------------
(***************************************************************************)
(* The inductive invariant behind the safety properties of module          *)
(* PoolBreak: which texts the connection can have met so far, how many of  *)
(* them the cache holds after iterations that succeeded or failed, and     *)
(* which texts of a batch are too recent to be given up.                   *)
(***************************************************************************)
EXTENDS PoolBreak

(* Before the loop there is no iteration and no snapshot that succeeded. *)
Phases ==
    /\ phase = "before" =>
          /\ pc \in TakePc \cup {"count", "seed", "failed"}
          /\ i = 0 /\ prepared = 0
          /\ snapshot = [t \in {"before", "after"} |-> NoSnapshot]
    /\ phase = "after" =>
          /\ pc \in TakePc \cup {"loop", "report", "done", "failed"}
          /\ pc \in TakePc \cup {"report", "done"} => i = iterations
    /\ pc = "statements" => installed

(* The kinds of the texts of Setup and Take. *)
Asking == {"count", "seed", "extension", "statements", "prepared"}

(* The loop has left no statement. *)
Cold == \A t \in conn.server : t[1] \in Asking

(* The server has no text that is still to come. *)
Fresh ==
    /\ \A t \in conn.server : t[2] <= i /\ (t[1] \in Asking => t[2] = 0)
    /\ i = 0 \/ mode = "2a" => Cold

(* What one Take asks for. *)
Queries == {Text("extension"), Text("prepared")} \cup (IF installed THEN {Text("statements")} ELSE {})

(* The first Take finds room for its texts. *)
Filling ==
    phase = "before" =>
        /\ pc \in {"statements", "prepared"} => Text("extension") \in Cached(conn)
        /\ pc = "prepared" /\ installed => Text("statements") \in Cached(conn)

(* The first snapshot counts the texts of Setup and of Take at most. *)
FewBefore == snapshot["before"].rows <= 5

(* Only a transaction of mode 2b is left open, and only its first batch    *)
(* leaves texts behind that the client does not know: the next ones are    *)
(* refused at once.                                                        *)
LeftBehind ==
    /\ aborted => mode = "2b" /\ phase = "after"
    /\ orphans # {} =>
          /\ mode = "2b" /\ phase = "after" /\ ~aborted /\ Cold
          /\ Text("begin") \in orphans
          /\ \E n \in 0 .. i : orphans \subseteq {Text("begin"), SetLocal(n), Select}

(* The cache holds no more than what the first snapshot counted and n      *)
(* texts of the loop, if there is room for them.                           *)
Fits(n) ==
    LET b == snapshot["before"].rows
    IN  b + n <= Cap => Len(conn.lru) <= b + n /\ Queries \subseteq Cached(conn)

(* A failure costs a full cache one text; its room is refilled. *)
Full == Len(conn.lru) >= (IF errors = 0 THEN Cap ELSE Cap - 1)

(* In the loop the modes that query the same SELECT again keep it in the   *)
(* cache, and a batch of mode 2b adds all of its new texts or none.        *)
HeldInLoop ==
    LET b == snapshot["before"].rows
        n == Len(conn.lru)
    IN  /\ mode \in {"0", "1a", "1b", "4"} => n = b + (IF Select \in Cached(conn) THEN 1 ELSE 0)
        /\ mode = "2b" => IF Cold THEN n = b /\ Queries \subseteq Cached(conn)
                         ELSE b + Succeeded + 3 <= n \/ Full

(* What the cache holds from the first snapshot to the second. *)
Held ==
    LET b == snapshot["before"].rows
        n == Len(conn.lru)
    IN  phase = "after" /\ pc \in TakePc \cup {"loop"} /\ snapshot["before"].ok /\ ~aborted =>
            /\ b + TextsKept <= n \/ Full
            /\ Fits(NewTexts(i))
            /\ orphans # {} => n = b /\ Queries \subseteq Cached(conn)
            /\ pc = "loop" => HeldInLoop

(* The SELECT leaves the cache when it fails, and no earlier.  A batch of  *)
(* mode 2b that was prepared has its lasting texts among the four most     *)
(* recent ones.                                                            *)
Shared ==
    /\ pc = "loop" /\ mode \in {"0", "1a", "1b", "4"} =>
          /\ errors = 0 /\ i > 0 => Select \in Cached(conn)
          /\ IF Select \in Cached(conn) THEN prepared >= 1 ELSE prepared <= errors
    /\ pc = "loop" /\ mode = "2b" /\ ~aborted =>
          IF Cold THEN Succeeded = 0
          ELSE /\ {Text("begin"), Select, Text("commit")} \subseteq Recent(conn, 4)
               /\ prepared >= 1

Counted ==
    pc \in {"report", "done"} /\ snapshot["before"].ok /\ snapshot["after"].ok => DeltaWithinBounds

PoolInv ==
    /\ TypeOK
    /\ Consistent(conn)
    /\ ServerBounded
    /\ Phases
    /\ Fresh
    /\ Filling
    /\ FewBefore
    /\ LeftBehind
    /\ Held
    /\ Shared
    /\ Counted
    /\ SelectStaysCached
=============================================================================
