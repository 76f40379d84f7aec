----------------------------- MODULE PoolBreak ------------------------------
(***************************************************************************)
(* How far pg_prepared_statements grows between two pgstat.Take calls of   *)
(* one connection: the demo sqlcommenter-pool-break (internal/cli/demo.go) *)
(* and the cells of runner.Run, whose loop runs any mode.  The queries of  *)
(* Setup and Take go through the same statement cache as the iterations.   *)
(* An iteration of the demo or of Run's warm-up that fails ends the        *)
(* command; those that Run measures are counted, and the loop goes on with *)
(* what they left in the cache and on the server.                          *)
(***************************************************************************)
EXTENDS StmtCache

CONSTANTS
    Modes,           \* the modes of Run's cells
    IterationCounts, \* iterations of a command, those of the warm-up included
    WarmupCounts     \* those of the warm-up of Run

ASSUME RoomAssumption == Cap >= 9  \* five texts of Setup and Take and a batch, 512 by default
ASSUME ModesAssumption == Modes \subseteq {"0", "1a", "1b", "2a", "2b", "3", "4"}
ASSUME IterationsAssumption == IterationCounts \subseteq Nat \ {0} /\ WarmupCounts \subseteq Nat

VARIABLES
    command,    \* "demo" or "bench"
    mode,       \* the mode that is run; "3" in the demo
    iterations, \* --iterations, with --warmup
    warmup,     \* iterations at the start whose failure ends the command
    installed,  \* the database has the extension pg_stat_statements
    pc,         \* the next call
    phase,      \* which Take is next or under way: "before" or "after" the loop
    conn,       \* statement cache and server, see StmtCache
    orphans,    \* texts on the server that the client does not know of
    open,       \* the connection is open
    aborted,    \* the server is in a transaction that failed
    ctx,        \* "live" or "done"
    i,          \* iterations done
    errors,     \* those among them that failed
    prepared,   \* SELECTs of the workload that were prepared in the loop
    snapshot    \* [before, after]: whether Take succeeded, and what it counted

choice == <<command, mode, iterations, warmup, installed>>
loop == <<i, errors, prepared, orphans, aborted>>
vars == <<choice, pc, phase, conn, open, ctx, loop, snapshot>>

(* Statement texts; the second component tells texts of different          *)
(* iterations apart.                                                       *)
Select == <<"select", 0>>
Commented(n) == <<"select", n>>
SetLocal(n) == <<"set local", n>>
Text(kind) == <<kind, 0>>
Kinds == {"count", "seed", "extension", "statements", "prepared", "begin", "set local", "select", "commit"}
Texts == Kinds \X Nat

NoSnapshot == [ok |-> FALSE, rows |-> 0]

Init ==
    /\ \/ command = "demo" /\ mode = "3"
       \/ command = "bench" /\ mode \in Modes
    /\ iterations \in IterationCounts
    /\ \/ command = "demo" /\ warmup = iterations
       \/ command = "bench" /\ warmup \in WarmupCounts /\ warmup <= iterations
    /\ installed \in BOOLEAN
    /\ pc = "count" /\ phase = "before"
    /\ conn = NewConn /\ open = TRUE /\ orphans = {} /\ aborted = FALSE
    /\ ctx = "live"
    /\ i = 0 /\ errors = 0 /\ prepared = 0
    /\ snapshot = [t \in {"before", "after"} |-> NoSnapshot]

Live == open /\ ctx = "live"

(* Single.Setup: the CREATE TABLE has no arguments and is not cached, the  *)
(* count and the INSERT are.                                               *)
SetupCount ==
    /\ pc = "count" /\ Live
    /\ conn' = Query(conn, Text("count"))
    /\ pc' \in {"seed", "extension"}
    /\ UNCHANGED <<choice, phase, open, ctx, loop, snapshot>>

SetupSeed ==
    /\ pc = "seed" /\ Live
    /\ conn' = Query(conn, Text("seed"))
    /\ pc' = "extension"
    /\ UNCHANGED <<choice, phase, open, ctx, loop, snapshot>>

SetupFails ==
    /\ pc \in {"count", "seed"}
    /\ pc' = "failed"
    /\ UNCHANGED <<choice, phase, conn, open, ctx, loop, snapshot>>

(* pgstat.Take: the extension, its view if there is one, and the count. *)
TakeExtension ==
    /\ pc = "extension" /\ Live /\ ~aborted
    /\ conn' = Query(conn, Text("extension"))
    /\ pc' = IF installed THEN "statements" ELSE "prepared"
    /\ UNCHANGED <<choice, phase, open, ctx, loop, snapshot>>

TakeStatements ==
    /\ pc = "statements" /\ Live /\ ~aborted
    /\ conn' = Query(conn, Text("statements"))
    /\ pc' = "prepared"
    /\ UNCHANGED <<choice, phase, open, ctx, loop, snapshot>>

TakeReturns(s) ==
    /\ snapshot' = [snapshot EXCEPT ![phase] = s]
    /\ pc' = IF phase = "before" THEN "loop" ELSE "report"
    /\ phase' = "after"

(* The query counts itself. *)
TakePrepared ==
    /\ pc = "prepared" /\ Live /\ ~aborted
    /\ conn' = Query(conn, Text("prepared"))
    /\ TakeReturns([ok |-> TRUE, rows |-> Cardinality(conn'.server \cup orphans)])
    /\ UNCHANGED <<choice, open, ctx, loop>>

TakePc == {"extension", "statements", "prepared"}

(* Take returns an error, which its callers drop.  In a transaction that   *)
(* failed nothing is deallocated, prepared or executed.                    *)
TakeFails ==
    /\ pc \in TakePc
    /\ \/ /\ Live /\ UNCHANGED open
          /\ conn' \in IF aborted THEN {conn, Invalidate(conn, Text(pc))} ELSE Failed(conn, Text(pc))
       \/ open' = FALSE /\ UNCHANGED conn
       \/ ~Live /\ UNCHANGED <<conn, open>>
    /\ TakeReturns(NoSnapshot)
    /\ UNCHANGED <<choice, ctx, loop>>

---------------------------------------------------------------------------
(* The iterations *)

(* The SELECT of iteration n, as the modes that query it by itself send it. *)
Statement(n) == IF mode = "3" THEN Commented(n) ELSE Select

(* A text is queried once or, for a workload of several statements, again. *)
Queried(c, text) == {Query(c, text), Deallocate(Query(c, text))}

Batch(n) == <<Text("begin"), SetLocal(n), Select, Text("commit")>>

SentBatch(c, n) == SendBatch(c, Batch(n)[1], Batch(n)[2], Batch(n)[3], Batch(n)[4])

(* What of a batch has to be prepared, by its place. *)
Unknown(n) == {j \in 1 .. 4 : Batch(n)[j] \notin Cached(conn)}

(* The server refuses a text that it has from an earlier preparation. *)
Preparable(j, n) == ~aborted /\ Batch(n)[j] \notin orphans

(* Mutant: mode 2b tags its statement, too. *)
RunOneTagged(c, n) ==
    CASE mode = "2a" -> {c}
      [] mode = "2b" -> {SendBatch(c, Text("begin"), SetLocal(n), Commented(n), Text("commit"))}
      [] mode \in {"1a", "1b"} -> {Deallocate(Query(c, Statement(n)))}
      [] OTHER -> Queried(c, Statement(n))

(* Mutant: mode 3 sends its statement in a batch with the SET LOCAL. *)
RunOneBatched(c, n) ==
    CASE mode = "2a" -> {c}
      [] mode = "2b" -> {SentBatch(c, n)}
      [] mode = "3"  -> {SendBatch(c, Text("begin"), SetLocal(n), Commented(n), Text("commit"))}
      [] mode \in {"1a", "1b"} -> {Deallocate(Query(c, Statement(n)))}
      [] OTHER -> Queried(c, Statement(n))

(* Iteration n of a mode, as far as it concerns the cache: requests without *)
(* arguments use the simple protocol and prepare nothing, in a batch they   *)
(* are prepared like all others, and mode 2a bypasses the cache.  Modes 1a  *)
(* and 1b end with another such request.                                    *)
RunOne(c, n) ==
    CASE mode = "2a" -> {c}
      [] mode = "2b" -> {SentBatch(c, n)}
      [] mode \in {"1a", "1b"} -> {Deallocate(Query(c, Statement(n)))}
      [] OTHER -> Queried(c, Statement(n))

(* Whether the SELECT is prepared by an iteration that gets that far. *)
New(n) == IF mode # "2a" /\ Statement(n) \notin Cached(conn) THEN 1 ELSE 0

(* Mutant: one iteration too many. *)
IterateOnceMore ==
    /\ pc = "loop" /\ Live /\ i <= iterations
    /\ mode = "2b" => \A j \in Unknown(i + 1) : Preparable(j, i + 1)
    /\ ~aborted
    /\ conn' \in RunOne(conn, i + 1)
    /\ i' = i + 1
    /\ prepared' = prepared + New(i + 1)
    /\ UNCHANGED <<choice, pc, phase, open, ctx, errors, orphans, aborted, snapshot>>

Iterate ==
    /\ pc = "loop" /\ Live /\ i < iterations
    /\ mode = "2b" => \A j \in Unknown(i + 1) : Preparable(j, i + 1)
    /\ ~aborted
    /\ conn' \in RunOne(conn, i + 1)
    /\ i' = i + 1
    /\ prepared' = prepared + New(i + 1)
    /\ UNCHANGED <<choice, pc, phase, open, ctx, errors, orphans, aborted, snapshot>>

(* An iteration fails before it asks for a text. *)
RequestFails ==
    /\ conn' \in (IF mode \in {"2a", "2b"} THEN {conn} ELSE {conn, Deallocate(conn)})
    /\ UNCHANGED <<prepared, orphans, aborted>>

(* The statement of a mode that queries it by itself fails, or what the    *)
(* mode sends after it.  Modes 1a and 1b reset the session in either case. *)
QueryFails ==
    /\ mode \notin {"2a", "2b"}
    /\ \E c \in Queried(conn, Statement(i + 1)) :
          \E d \in {c, Invalidate(c, Statement(i + 1))} : conn' \in {d, Deallocate(d)}
    /\ prepared' = prepared + New(i + 1)
    /\ UNCHANGED <<orphans, aborted>>

(* The server refuses to prepare a text of a batch.  Those before it are   *)
(* on the server, but not in the cache, which learns of all or none.       *)
BatchRefused ==
    /\ mode = "2b"
    /\ LET n == i + 1
           c == IF aborted THEN conn ELSE Deallocate(conn)
       IN  \E j \in Unknown(n) :
              LET known == {k \in Unknown(n) : k < j}
              IN  /\ \A k \in known : Preparable(k, n)
                  /\ orphans' = orphans \cup {Batch(n)[k] : k \in known}
                  /\ prepared' = prepared + (IF 3 \in known THEN 1 ELSE 0)
                  /\ conn' = Looked(c, Batch(n)[1], Batch(n)[2], Batch(n)[3], Batch(n)[4])
    /\ UNCHANGED aborted

(* A statement of a batch fails; between BEGIN and COMMIT it leaves the    *)
(* transaction open, which is the subject of module Runner.                *)
BatchFails ==
    /\ mode = "2b" /\ \A j \in Unknown(i + 1) : Preparable(j, i + 1)
    /\ ~aborted
    /\ aborted' \in BOOLEAN
    /\ LET c == SentBatch(conn, i + 1)
       IN  conn' = c \/ (aborted' /\ conn' = Invalidate(c, Select))
    /\ prepared' = prepared + New(i + 1)
    /\ UNCHANGED orphans

(* Mutant: an iteration that failed is not counted. *)
IterationFailsSilently ==
    /\ pc = "loop" /\ i < iterations
    /\ i' = i + 1
    /\ pc' = IF i < warmup THEN "failed" ELSE "loop"
    /\ \/ ~Live /\ UNCHANGED <<conn, open, prepared, orphans, aborted>>
       \/ Live /\ open' \in BOOLEAN /\ (RequestFails \/ QueryFails \/ BatchRefused \/ BatchFails)
    /\ UNCHANGED <<choice, phase, ctx, snapshot, errors>>

(* An error of an iteration ends the demo and Run's warm-up; Run counts    *)
(* the others and goes on, on a connection that was lost as well.          *)
IterationFails ==
    /\ pc = "loop" /\ i < iterations
    /\ i' = i + 1 /\ errors' = errors + 1
    /\ pc' = IF i < warmup THEN "failed" ELSE "loop"
    /\ \/ ~Live /\ UNCHANGED <<conn, open, prepared, orphans, aborted>>
       \/ Live /\ open' \in BOOLEAN /\ (RequestFails \/ QueryFails \/ BatchRefused \/ BatchFails)
    /\ UNCHANGED <<choice, phase, ctx, snapshot>>

(* Both loops look at the context before every iteration. *)
Cancelled ==
    /\ pc = "loop" /\ i < iterations /\ ctx = "done"
    /\ pc' = "failed"
    /\ UNCHANGED <<choice, phase, conn, open, ctx, loop, snapshot>>

LoopDone ==
    /\ pc = "loop" /\ i = iterations
    /\ pc' = "extension"
    /\ UNCHANGED <<choice, phase, conn, open, ctx, loop, snapshot>>

Report ==
    /\ pc = "report"
    /\ pc' = "done"
    /\ UNCHANGED <<choice, phase, conn, open, ctx, loop, snapshot>>

Cancel ==
    /\ ctx = "live" /\ pc \notin {"done", "failed"}
    /\ ctx' = "done"
    /\ UNCHANGED <<choice, pc, phase, conn, open, loop, snapshot>>

Done == pc \in {"done", "failed"} /\ UNCHANGED vars

Step ==
    \/ SetupCount \/ SetupSeed \/ SetupFails
    \/ TakeExtension \/ TakeStatements \/ TakePrepared \/ TakeFails
    \/ Iterate \/ IterationFails \/ Cancelled \/ LoopDone \/ Report

Next == Step \/ Cancel \/ Done

Spec == Init /\ [][Next]_vars

---------------------------------------------------------------------------
(* Properties *)

TypeOK ==
    /\ command \in {"demo", "bench"}
    /\ mode \in Modes \cup {"3"}
    /\ iterations \in IterationCounts /\ warmup \in 0 .. iterations /\ installed \in BOOLEAN
    /\ conn \in Conn(Texts) /\ orphans \subseteq Texts
    /\ pc \in TakePc \cup {"count", "seed", "loop", "report", "done", "failed"}
    /\ phase \in {"before", "after"}
    /\ open \in BOOLEAN /\ aborted \in BOOLEAN /\ ctx \in {"live", "done"}
    /\ i \in 0 .. iterations /\ errors \in 0 .. i /\ prepared \in Nat
    /\ snapshot \in [{"before", "after"} -> [ok : BOOLEAN, rows : Nat]]

(* The LRU bounds the growth on the backend: what a call has to add to a   *)
(* full cache is all that is ever above the cap, also after the failures   *)
(* that leave texts behind which the client does not know of               *)
(* (demo.go:148-151).                                                      *)
ServerBounded == Cardinality(conn.server \cup orphans) <= Cap + (IF mode = "2b" THEN 4 ELSE 1)

(* The texts a loop of n iterations asks for. *)
NewTexts(n) ==
    CASE mode = "2a" -> 0
      [] mode = "3"  -> n
      [] OTHER       -> IF n = 0 THEN 0 ELSE IF mode = "2b" THEN n + 3 ELSE 1

Succeeded == i - errors

(* Those that are on the server when the loop is done.  Texts of an        *)
(* iteration that failed may be there; the SELECT that the iterations of   *)
(* the other modes share may be missing after one of them failed.          *)
TextsKept ==
    IF mode \in {"2a", "2b", "3"} THEN NewTexts(Succeeded)
    ELSE IF errors = 0 THEN NewTexts(i) ELSE 0

Delta == snapshot["after"].rows - snapshot["before"].rows

DeltaWithinBounds ==
    LET room == Cap - snapshot["before"].rows
    IN  /\ \/ TextsKept <= Delta
           \/ (IF errors = 0 THEN room ELSE room - 1) <= Delta
        /\ Delta <= (IF NewTexts(i) <= room THEN NewTexts(i) ELSE room + 1)

(* A delta of two snapshots that succeeded counts the own texts of the     *)
(* iterations that succeeded, perhaps of those that failed, and nothing    *)
(* else, until the cap is reached; from there on it stays at the room that *)
(* was left, with one statement not yet deallocated, or one missing after  *)
(* a failure, at most (demo.go:133, runner.go:149-162).                    *)
DeltaCountsIterations ==
    pc = "done" /\ snapshot["before"].ok /\ snapshot["after"].ok => DeltaWithinBounds

(* However many one-shot texts pass through the cache, the workload's own  *)
(* SELECT is prepared once, and once more for each failure at most; only   *)
(* mode 3 pays for it in every iteration (m2b.go:33-35, m3.go:18-21,       *)
(* runner.go:149-153).                                                     *)
SelectStaysCached ==
    LET once == IF Succeeded = 0 THEN 0 ELSE 1
    IN  prepared \in CASE mode = "2a" -> {0}
                       [] mode = "3"  -> Succeeded .. i
                       [] OTHER       -> once .. errors + once

(* metrics.go:44-46: modes 1a, 1b, 2a, 2b and 4 stay near one.             *)
ModesStayNearOne ==
    pc = "done" /\ mode \in {"1a", "1b", "2a", "2b", "4"}
      /\ snapshot["before"].ok /\ snapshot["after"].ok => Delta \in 0 .. 2
=============================================================================
