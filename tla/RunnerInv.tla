------------------------------ MODULE RunnerInv ------------------------------
(***************************************************************************)
(* The inductive invariant behind the safety properties of module Runner.  *)
(* NoStaleTrace and its companions say what must hold at one point of      *)
(* RunOne; the conjuncts below say what holds at every other point so that *)
(* it does.                                                                *)
(***************************************************************************)
EXTENDS Runner

(* A mode sends its own requests only. *)
ModePc ==
    /\ pc \in {"begin", "setlocal", "commit", "rollback"} => mode = "1a"
    /\ pc \in {"set", "reset", "unset"} => mode = "1b"
    /\ pc = "simple" => mode = "2a"
    /\ pc \in {"parse", "batch"} => mode = "2b"
    /\ pc \in StmtPc => mode \in {"0", "1a", "1b", "3", "4"}

(* A request is on the wire only inside RunOne and on an open connection,  *)
(* and a connection that is not open has no backend.                       *)
Wire ==
    /\ inflight => pc \in WirePc /\ conn = "open"
    /\ conn # "open" => srv = Fresh
    /\ pc = "connect" => conn = "none" /\ wbuf = NoTrace

(* How far RunOne is. *)
Progress ==
    /\ pc \in WirePc \cup {"ret"} => it > 0
    /\ pc \in {"begin", "setlocal", "set", "simple", "parse", "batch", "prepare"} => k = 0
    /\ pc \in StmtPc => k < N
    /\ pc = "exec" => cached
    /\ pc \in {"commit", "reset"} => k = N
    /\ pc \in WirePc => (err <=> pc \in {"rollback", "unset"})
    /\ pc = "ret" /\ ~err => k = N /\ conn = "open"

(* The transaction status, by mode. *)
Txn ==
    /\ mode \notin {"1a", "2b"} => srv.txn = "idle"
    /\ mode = "2b" => srv.txn # "active" /\ (pc = "ret" /\ ~err => srv.txn = "idle")
    /\ mode = "1a" =>
          /\ pc \in {"setlocal", "commit"} \cup StmtPc => srv.txn = "active"
          /\ pc \notin {"setlocal", "commit", "rollback"} \cup StmtPc => srv.txn = "idle"

(* Where a trace context may be, by mode. *)
Where ==
    /\ mode # "1b" => srv.guc = NoTrace
    /\ mode # "1a" => srv.local = NoTrace
    /\ mode # "4" => srv.hdr = NoTrace /\ wbuf = NoTrace
    /\ mode = "1a" =>
          /\ pc \in StmtPc => srv.local = it
          /\ pc \notin {"commit", "rollback"} \cup StmtPc => srv.local = NoTrace
    /\ mode = "1b" =>
          /\ pc \in StmtPc => srv.guc = it
          /\ pc = "ret" /\ ~err => srv.guc = NoTrace
    /\ mode = "4" =>
          /\ pc \in StmtPc => wbuf = it \/ (wbuf = NoTrace /\ srv.hdr \in {NoTrace, it})
          /\ pc \notin StmtPc /\ ctx = "live" /\ conn = "open" => wbuf = NoTrace

(* What the completed statements of the iteration ran under. *)
Seen == seen \subseteq P!Legit(mode, it)

TraceInv == TypeOK /\ ModePc /\ Wire /\ Progress /\ Txn /\ Where /\ Seen

(* Where the statements to deallocate come from: what RunOne found when it *)
(* was called is gone after its first call, then only the text that its    *)
(* own prepare evicted is left, until the next call.  Mode 2a leaves them. *)
Stale ==
    /\ evicted => FillsCache
    /\ pc \in {"begin", "set", "simple", "parse", "prepare"} => ~evicted
    /\ pc \in {"setlocal", "commit", "reset"} => ~stale
    /\ pc = "batch" => (stale <=> evicted)
    /\ pc = "exec" /\ k = 0 /\ evicted => stale
    /\ pc = "simple" => (stale <=> due)
    /\ pc = "ret" /\ ~err =>
          (stale <=> IF mode = "2a" THEN due ELSE evicted /\ ~(mode = "3" /\ N > 1))

(* Round trips paid before the request at pc: those that are answered. *)
Lead == CASE mode = "1a" -> 2 [] mode = "1b" -> 1 [] OTHER -> 0
One(b) == IF b THEN 1 ELSE 0
Cold == One(cold)

(* Deallocations answered so far. *)
Deallocated == One(due) + One(evicted) - One(stale)

Paid ==
    LET answered == (IF inflight THEN rtt - 1 ELSE rtt) - Deallocated IN
    /\ pc \in {"begin", "set", "simple", "parse"} => answered = 0
    /\ pc \in {"setlocal", "batch"} => answered = 1
    /\ pc \in {"begin", "setlocal", "set"} => (cold <=> ~cached)
    /\ pc = "prepare" => answered = Lead /\ cold
    /\ pc = "exec" => answered = Lead + Cold + k
    /\ pc \in {"commit", "reset"} => answered = Lead + Cold + N
    /\ pc = "ret" /\ ~err => answered = Cost + (IF mode \in {"2a", "2b"} THEN 0 ELSE Cold)

CostInv == Stale /\ Paid

---------------------------------------------------------------------------
(* What has been counted and what Run is going to return. *)
Counting ==
    /\ pc \in {"connect", "wsetup", "msetup", "before"} => it = 0 /\ observed + errors = 0
    /\ pc = "after" => it = Total
    /\ pc \notin {"close", "returned"} => result = "none"

AccountInv == Accounting /\ Counting
=============================================================================
