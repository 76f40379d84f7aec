------------------------------- MODULE Runner -------------------------------
(***************************************************************************)
(* runner.Run (internal/runner/runner.go): connect, set up, warm up,       *)
(* measure, take the two statistics snapshots and return a cell, while the *)
(* context may be cancelled and the connection or the server may fail at   *)
(* any step.  RunOne is played by module Modes.                            *)
(***************************************************************************)
EXTENDS Modes

CONSTANTS Warmup, Iterations

ASSUME LoopAssumption == Warmup \in Nat /\ Iterations \in Nat

Total == Warmup + Iterations

VARIABLES
    observed,   \* samples in the histogram of the cell
    errors,     \* Cell.Errors
    before,     \* the statistics snapshots: "none", "ok" or "failed" (the zero
    after,      \*   Snapshot, the error of pgstat.Take is dropped)
    result      \* what Run returns: "none" yet; "nocell"; "warmup", "partial" (a
                \*   cell and an error); "full" (a cell and no error)

cell == <<observed, errors, before, after, result>>
vars == <<session, mode, pc, call, cell>>

RunPc == {"connect", "wsetup", "msetup", "before", "loop", "after", "close", "returned"}
Traces == 0 .. Total

Init ==
    /\ ctx = "live" /\ conn = "none" /\ inflight = FALSE /\ srv = Fresh /\ wbuf = NoTrace
    /\ mode \in RunModes
    /\ pc = "connect"
    /\ it = 0 /\ k = 0 /\ err = FALSE /\ rtt = 0 /\ seen = {}
    /\ cached = FALSE /\ stale = FALSE /\ cold = FALSE /\ due = FALSE /\ evicted = FALSE
    /\ observed = 0 /\ errors = 0
    /\ before = "none" /\ after = "none" /\ result = "none"

---------------------------------------------------------------------------
(* Connecting is bounded by ConnectTimeout and by the run's context. *)
Connect ==
    /\ pc = "connect" /\ ctx = "live"
    /\ conn' = "open"
    /\ pc' = "wsetup"
    /\ UNCHANGED <<ctx, inflight, srv, wbuf, mode, call, cell>>

ConnectFail ==
    /\ pc = "connect"
    /\ pc' = "returned"
    /\ result' = "nocell"
    /\ UNCHANGED <<session, mode, call, observed, errors, before, after>>

(* A series of requests outside any iteration fails; the connection may or *)
(* may not survive.                                                        *)
Broken == conn' \in {conn, "closed"}
          /\ srv' = (IF conn' = "closed" THEN Fresh ELSE srv)
          /\ UNCHANGED <<ctx, inflight, wbuf>>

WorkloadSetup ==
    /\ pc = "wsetup" /\ CanSend
    /\ pc' = "msetup"
    /\ UNCHANGED <<session, mode, call, cell>>

WorkloadSetupFail ==
    /\ pc = "wsetup"
    /\ Broken
    /\ pc' = "close"
    /\ result' = "nocell"
    /\ UNCHANGED <<mode, call, observed, errors, before, after>>

(* Only mode 4 can fail: its Setup reads the parameter status the server   *)
(* reported when the connection started, without a request.                *)
ModeSetup ==
    /\ pc = "msetup"
    /\ \/ pc' = "before" /\ UNCHANGED result
       \/ mode = "4" /\ pc' = "close" /\ result' = "nocell"
    /\ UNCHANGED <<session, mode, call, observed, errors, before, after>>

TakeBefore ==
    /\ pc = "before" /\ CanSend /\ Usable(srv)
    /\ before' = "ok"
    /\ pc' = "loop"
    /\ UNCHANGED <<session, mode, call, observed, errors, after, result>>

(* The query that failed may have been given up by the statement cache. *)
TakeBeforeFail ==
    /\ pc = "before"
    /\ Broken
    /\ before' = "failed"
    /\ pc' = "loop"
    /\ stale' \in BOOLEAN
    /\ UNCHANGED <<mode, it, k, err, cached, cold, due, evicted, rtt, seen>>
    /\ UNCHANGED <<observed, errors, after, result>>

---------------------------------------------------------------------------
(* Mutants: one iteration too many; the last warm-up iteration is measured. *)
MoreInclusive == it <= Total
MeasuredInclusive == it >= Warmup

More == it < Total
Measured == it > Warmup

(* Both loops look at the context before every iteration ... *)
LoopCancelled ==
    /\ pc = "loop" /\ More /\ ctx = "done"
    /\ result' = IF it < Warmup THEN "warmup" ELSE "partial"
    /\ pc' = "close"
    /\ UNCHANGED <<session, mode, call, observed, errors, before, after>>

(* ... which gets a trace context of its own. *)
StartIteration ==
    /\ pc = "loop" /\ More /\ ctx = "live"
    /\ Enter(it + 1)
    /\ UNCHANGED cell

(* RunOne has returned.  An error ends the warm-up and the run; in the     *)
(* measured loop it is counted and the loop goes on.                       *)
WarmupFailed ==
    /\ pc = "ret" /\ err /\ ~Measured
    /\ result' = "warmup"
    /\ pc' = "close"
    /\ UNCHANGED <<session, mode, call, observed, errors, before, after>>

ObserveError ==
    /\ pc = "ret" /\ err /\ Measured
    /\ errors' = errors + 1
    /\ pc' = "loop"
    /\ UNCHANGED <<session, mode, call, observed, before, after, result>>

Observe ==
    /\ pc = "ret" /\ ~err
    /\ observed' = IF Measured THEN observed + 1 ELSE observed
    /\ pc' = "loop"
    /\ UNCHANGED <<session, mode, call, errors, before, after, result>>

LoopDone ==
    /\ pc = "loop" /\ ~More
    /\ pc' = "after"
    /\ UNCHANGED <<session, mode, call, cell>>

---------------------------------------------------------------------------
TakeAfter ==
    /\ pc = "after" /\ CanSend /\ Usable(srv)
    /\ after' = "ok"
    /\ result' = "full"
    /\ pc' = "close"
    /\ UNCHANGED <<session, mode, call, observed, errors, before>>

TakeAfterFail ==
    /\ pc = "after"
    /\ Broken
    /\ after' = "failed"
    /\ result' = "full"
    /\ pc' = "close"
    /\ UNCHANGED <<mode, call, observed, errors, before>>

(* The deferred Teardown, which no mode uses, and Close. *)
Close ==
    /\ pc = "close"
    /\ Hangup
    /\ pc' = "returned"
    /\ UNCHANGED <<mode, call, cell>>

Cancel ==
    /\ pc # "returned"
    /\ CtxDone
    /\ UNCHANGED <<mode, pc, call, cell>>

RunOne == RunOneStep /\ UNCHANGED cell

Returned == pc = "returned" /\ UNCHANGED vars

Next ==
    \/ Connect \/ ConnectFail
    \/ WorkloadSetup \/ WorkloadSetupFail \/ ModeSetup
    \/ TakeBefore \/ TakeBeforeFail
    \/ LoopCancelled \/ StartIteration \/ RunOne
    \/ WarmupFailed \/ ObserveError \/ Observe \/ LoopDone
    \/ TakeAfter \/ TakeAfterFail
    \/ Close \/ Cancel \/ Returned

(* Steps the client takes without waiting for an answer; the connection    *)
(* attempt is among them, its timeout answers if nobody else does.         *)
ClientStep ==
    \/ Connect \/ ConnectFail \/ ModeSetup
    \/ LoopCancelled \/ StartIteration
    \/ (Send \/ Refuse) /\ UNCHANGED cell
    \/ WarmupFailed \/ ObserveError \/ Observe \/ LoopDone \/ Close

(* pgx breaks off a request whose context is done, and fails one on a      *)
(* closed connection.                                                      *)
BreakOff ==
    /\ ~CanSend
    /\ WorkloadSetupFail \/ TakeBeforeFail \/ TakeAfterFail \/ (Lose /\ UNCHANGED cell)

Safety == Init /\ [][Next]_vars
Spec == Safety /\ WF_vars(ClientStep) /\ WF_vars(BreakOff)
---------------------------------------------------------------------------
(* Properties *)

(* Every variable keeps its type; in particular no iteration beyond        *)
(* Warmup + Iterations is ever started.                                    *)
TypeOK ==
    /\ SessionTypeOK(Traces)
    /\ RunOneTypeOK(Traces)
    /\ pc \in RunPc \cup WirePc \cup {"ret"}
    /\ observed \in Nat /\ errors \in Nat
    /\ before \in {"none", "ok", "failed"} /\ after \in {"none", "ok", "failed"}
    /\ result \in {"none", "nocell", "warmup", "partial", "full"}

(* What Run and the modes promise whatever happens on the wire. *)
P == INSTANCE Propagation
        WITH iter <- it, done <- k, ran <- seen,
             busy <- pc \in WirePc \cup {"ret"},
             stopped <- pc \in {"after", "close", "returned"}

(* A workload statement never runs under the context of another iteration, *)
(* not even after an iteration that failed half way and left the session   *)
(* in whatever state its error path leaves (m1a.go:47, m1b.go:38-41).      *)
NoStaleTrace ==
    /\ seen \subseteq P!Legit(mode, it)
    /\ pc = "exec" /\ inflight => StmtTrace(Deliver(srv)) \in P!Legit(mode, it)

(* Between two iterations a connection that is still open is outside any   *)
(* transaction, carries no SET LOCAL value and, while the run goes on, no  *)
(* queued M frame, in every mode but 2b (see AbortedBatchIsCleared).       *)
CleanSession ==
    pc = "loop" /\ conn = "open" /\ mode # "2b" =>
        /\ srv.txn = "idle"
        /\ srv.local = NoTrace
        /\ ctx = "live" => wbuf = NoTrace

(* An iteration that reports success has run all its statements and left   *)
(* an open connection without transaction and without any trace context in *)
(* its GUCs, in every mode.                                                *)
SuccessLeavesClean ==
    pc = "ret" /\ ~err =>
        /\ k = N
        /\ conn = "open"
        /\ srv.txn = "idle"
        /\ srv.local = NoTrace
        /\ srv.guc = NoTrace

(* The round trips a successful iteration pays: one per statement and those *)
(* the mode adds, one if the statement had to be prepared first, and one   *)
(* whenever a call found statements to deallocate: those an earlier        *)
(* iteration left (a failed one, or an evicted one), and in mode 3 the one *)
(* its own first statement evicted, if a second follows.                   *)
Cost ==
    CASE mode = "1a" -> N + 3
      [] mode = "1b" -> N + 2
      [] mode = "2a" -> 1
      [] mode = "2b" -> 2
      [] OTHER       -> N

RoundTrips ==
    pc = "ret" /\ ~err =>
        rtt = Cost + (IF cold /\ mode \notin {"2a", "2b"} THEN 1 ELSE 0)
                   + (IF due /\ mode # "2a" THEN 1 ELSE 0)
                   + (IF evicted /\ mode = "3" /\ N > 1 THEN 1 ELSE 0)

(* Every measured iteration is counted once, as a sample or as an error; a *)
(* run that returns no error has measured all of them, one cut short in    *)
(* the measured loop not all, one that ends in its warm-up none.           *)
Accounting ==
    LET begun == IF Measured THEN it - Warmup ELSE 0
        counted == observed + errors IN
    /\ pc \in WirePc \cup {"ret"} => counted = IF Measured THEN begun - 1 ELSE 0
    /\ pc \in {"loop", "after"} => counted = begun
    /\ result = "full" => counted = Iterations
    /\ result = "partial" => counted < Iterations /\ ctx = "done"
    /\ result \in {"nocell", "warmup"} => counted = 0

(* The session value of the GUC outlives RunOne on an open connection only *)
(* when a SET or RESET itself failed: every other error path of mode 1b    *)
(* undoes it (m1b.go:38-41).                                               *)
LeakOnlyFromReset ==
    [][pc # "ret" /\ pc' = "ret" /\ conn' = "open" /\ srv'.guc # NoTrace
          => pc \in {"set", "reset", "unset"}]_vars

(* Run implements the abstract cell. *)
ImplementsPropagation == P!Spec

(* Once the context is done or the connection is lost, Run returns, be the *)
(* server silent or not.                                                   *)
LostRunReturns == (ctx = "done" \/ conn = "closed") ~> pc = "returned"

---------------------------------------------------------------------------
(* Statements of comments and documents that the code does not meet. *)

(* m4.go:28-29: the M frame goes out with the workload statement in one    *)
(* round trip; workload.go:56-58: mode 4 does not execute sequentially.    *)
PipelinedModesTakeOneRoundTrip ==
    pc = "ret" /\ ~err /\ ~cold /\ ~due /\ mode \in {"2a", "4"} => rtt = 1

(* README.md:554-556: after a failed batch item the connection can be      *)
(* reused when the remaining results have been drained.                    *)
AbortedBatchIsCleared == pc = "loop" /\ conn = "open" => srv.txn = "idle"

(* metrics.go:44-46: the delta in a cell is the snapshot at the end of the *)
(* run minus the one at its start.                                         *)
DeltaHasBothSnapshots == result = "full" => before = "ok" /\ after = "ok"
=============================================================================
