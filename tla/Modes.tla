------------------------------- MODULE Modes -------------------------------
(***************************************************************************)
(* One call of Mode.RunOne (internal/modes): how each propagation mode     *)
(* gets the trace context of an iteration to the backend, request by       *)
(* request, with every error path of the Go code.                          *)
(*                                                                         *)
(* pc names the request RunOne is about to send or waits for:              *)
(*    begin, setlocal, commit, rollback    mode 1a                         *)
(*    set, reset, unset                    mode 1b (unset: the best-effort *)
(*                                         RESET after a failed workload)  *)
(*    simple                               mode 2a                         *)
(*    parse, batch                         mode 2b                         *)
(*    prepare, exec                        ExecuteSequential, 0 1a 1b 3 4  *)
(* and "ret" once RunOne has returned err.                                 *)
(***************************************************************************)
EXTENDS Session

CONSTANTS N,        \* statements per iteration: 1 for "single", the batch size for "batch"
          RunModes  \* the modes the run may pick from

AllModes == {"0", "1a", "1b", "2a", "2b", "3", "4"}

(* newWorkload refuses a batch size below 1. *)
ASSUME NAssumption == N \in Nat \ {0}
ASSUME RunModesAssumption == RunModes \subseteq AllModes

VARIABLES
    mode,       \* Config.Mode
    pc,         \* control state, of RunOne here and of Run in module Runner
    it,         \* number of the current iteration, which names its trace context
    k,          \* statements of the iteration that have completed
    err,        \* RunOne's error result is not nil
    cached,     \* the text of the iteration's statements is in pgx's statement cache
    stale,      \* the cache has given up statements the server still holds
    cold,       \* the text was not cached when RunOne was called
    due,        \* stale when RunOne was called
    evicted,    \* preparing this iteration's text pushed another one out of the cache
    rtt,        \* requests written by this RunOne
    seen        \* contexts the iteration's completed statements ran under

call == <<it, k, err, cached, stale, cold, due, evicted, rtt, seen>>

StmtPc == {"prepare", "exec"}
WirePc == {"begin", "setlocal", "commit", "rollback", "set", "reset", "unset",
           "simple", "parse", "batch"} \cup StmtPc

(* The calls of pgx.Conn: Exec, Query, SendBatch.  Mode 2a calls pgconn,    *)
(* and "batch" is the second half of a SendBatch.                          *)
CallPc == WirePc \ {"simple", "batch"}

(* Such a call first tells the server to close what the cache has given    *)
(* up, in an exchange of its own: not in an aborted transaction, and not   *)
(* again between the prepare and the execute of one Query.                 *)
Deallocates == stale /\ pc \in CallPc /\ Usable(srv) /\ ~(pc = "exec" /\ k = 0 /\ evicted)

(* Only texts that are new in every iteration fill the cache. *)
FillsCache == mode \in {"2b", "3"}

(* Mutant: the statement cache is not consulted. *)
QueryPcUncached(hit) == "prepare"

(* Query prepares a statement its cache does not hold, then executes it. *)
QueryPc(hit) == IF hit THEN "exec" ELSE "prepare"

(* Mutant: mode 1a without its transaction. *)
FirstPcNoBegin(hit) ==
    CASE mode = "1a" -> "setlocal"
      [] mode = "1b" -> "set"
      [] mode = "2a" -> "simple"
      [] mode = "2b" -> "parse"
      [] OTHER       -> QueryPc(hit)

FirstPc(hit) ==
    CASE mode = "1a" -> "begin"
      [] mode = "1b" -> "set"
      [] mode = "2a" -> "simple"
      [] mode = "2b" -> "parse"
      [] OTHER       -> QueryPc(hit)

(* Mutants: the statement loop ends early; mode 1b skips its RESET. *)
AllDoneEarly(n) == n > 0
DonePcNoReset == IF mode = "1a" THEN "commit" ELSE "ret"

AllDone(n) == n = N

(* Where RunOne goes when ExecuteSequential is through. *)
DonePc == CASE mode = "1a" -> "commit" [] mode = "1b" -> "reset" [] OTHER -> "ret"

(* Mutants: an error path without the deferred Rollback of mode 1a, or     *)
(* without the best-effort RESET of mode 1b.                               *)
ErrorPcNoRollback(p) == IF mode = "1b" /\ p \in StmtPc THEN "unset" ELSE "ret"
ErrorPcNoReset(p) ==
    IF mode = "1a" /\ p \in {"setlocal"} \cup StmtPc THEN "rollback" ELSE "ret"

(* Where RunOne goes when the request at pc p has failed: mode 1a runs its *)
(* deferred Rollback, mode 1b its best-effort RESET.                       *)
ErrorPc(p) ==
    CASE mode = "1a" /\ p \in {"setlocal"} \cup StmtPc -> "rollback"
      [] mode = "1b" /\ p \in StmtPc                   -> "unset"
      [] OTHER                                         -> "ret"

(* Mode 3 writes its context into the statement, the others rely on the session. *)
StmtTrace(s) == IF mode = "3" THEN it ELSE TraceOf(s)

---------------------------------------------------------------------------
(* RunOne is entered.  Mode 3 changes the text of every statement, so its  *)
(* cache entry is never there; mode 4 queues an M frame.                   *)
Enter(i) ==
    LET hit == cached /\ mode # "3" IN
    /\ it' = i
    /\ k' = 0
    /\ err' = FALSE
    /\ cached' = hit
    /\ cold' = ~hit
    /\ due' = stale
    /\ evicted' = FALSE
    /\ rtt' = 0
    /\ seen' = {}
    /\ pc' = FirstPc(hit)
    /\ wbuf' = IF mode = "4" THEN i ELSE wbuf
    /\ UNCHANGED <<ctx, conn, inflight, srv, mode, stale>>

(* A request is written: the call's own, or the deallocation before it. *)
Send ==
    /\ pc \in WirePc
    /\ ~inflight
    /\ CanSend
    /\ inflight' = TRUE
    /\ rtt' = rtt + 1
    /\ UNCHANGED <<ctx, conn, srv, wbuf, mode, pc, it, k, err, cached, stale, cold, due, evicted,
                   seen>>

(* The call fails before anything is written.  pgx gives up the connection *)
(* when it could not begin, commit or roll back a transaction.             *)
Refuse ==
    /\ pc \in WirePc
    /\ ~inflight
    /\ ~CanSend
    /\ IF pc \in {"begin", "commit", "rollback"} THEN Hangup ELSE UNCHANGED session
    /\ pc' = ErrorPc(pc)
    /\ err' = TRUE
    /\ UNCHANGED <<mode, it, k, cached, stale, cold, due, evicted, rtt, seen>>

(* The answer never comes: the network or the server went away, or the     *)
(* context was done and pgx broke off the read.  pgx closes the connection.*)
Lose ==
    /\ pc \in WirePc
    /\ inflight
    /\ Hangup
    /\ pc' = ErrorPc(pc)
    /\ err' = TRUE
    /\ UNCHANGED <<mode, it, k, cached, stale, cold, due, evicted, rtt, seen>>

---------------------------------------------------------------------------
(* The deallocation is answered; the call itself is next. *)
DeallocateOk ==
    /\ Deallocates
    /\ Flush
    /\ srv' \in AfterSync(Deliver(srv))
    /\ stale' = FALSE
    /\ UNCHANGED <<mode, pc, it, k, err, cached, cold, due, evicted, rtt, seen>>

(* The request at p is answered with success, leaving the backend in s. *)
Ok(p, s, next) ==
    /\ pc = p
    /\ ~Deallocates
    /\ Flush
    /\ srv' = s
    /\ pc' = next
    /\ UNCHANGED <<mode, it, err, cold, due, rtt>>

(* What was prepared enters the cache and may push another text out of it. *)
Put ==
    /\ cached' = TRUE
    /\ evicted' \in IF FillsCache THEN BOOLEAN ELSE {FALSE}
    /\ stale' = (stale \/ evicted')

BeginOk    == Ok("begin", Begin(srv), "setlocal")
                 /\ UNCHANGED <<k, cached, stale, evicted, seen>>
SetLocalOk == Ok("setlocal", SetLocal(srv, it), QueryPc(cached))
                 /\ UNCHANGED <<k, cached, stale, evicted, seen>>
CommitOk   == Ok("commit", EndTxn(srv), "ret")
                 /\ UNCHANGED <<k, cached, stale, evicted, seen>>
RollbackOk == Ok("rollback", EndTxn(srv), "ret")
                 /\ UNCHANGED <<k, cached, stale, evicted, seen>>
SetOk      == Ok("set", SetGuc(srv, it), QueryPc(cached))
                 /\ UNCHANGED <<k, cached, stale, evicted, seen>>
ResetOk    == Ok("reset", SetGuc(srv, NoTrace), "ret")
                 /\ UNCHANGED <<k, cached, stale, evicted, seen>>
UnsetOk    == Ok("unset", SetGuc(srv, NoTrace), "ret")
                 /\ UNCHANGED <<k, cached, stale, evicted, seen>>

PrepareOk ==
    /\ Usable(srv)
    /\ \E s \in AfterSync(Deliver(srv)) : Ok("prepare", s, "exec")
    /\ Put
    /\ UNCHANGED <<k, seen>>

(* One statement of ExecuteSequential is through. *)
ExecOk ==
    /\ Usable(srv)
    /\ \E s \in AfterSync(Deliver(srv)) :
          Ok("exec", s, IF AllDone(k + 1) THEN DonePc ELSE QueryPc(cached))
    /\ k' = k + 1
    /\ seen' = seen \cup {StmtTrace(Deliver(srv))}
    /\ UNCHANGED <<cached, stale, evicted>>

(* Mode 2a: SET LOCAL and all statements in one Q, an implicit transaction. *)
SimpleOk ==
    /\ Usable(srv)
    /\ LET s == SetLocal(Begin(srv), it) IN
          /\ Ok("simple", EndTxn(s), "ret")
          /\ seen' = seen \cup {StmtTrace(s)}
    /\ k' = N
    /\ UNCHANGED <<cached, stale, evicted>>

(* Mode 2b: SendBatch first prepares what its cache does not hold, and the *)
(* text of SET LOCAL is new every time.                                    *)
ParseOk ==
    /\ Usable(srv)
    /\ Ok("parse", srv, "batch")
    /\ Put
    /\ UNCHANGED <<k, seen>>

(* BEGIN, SET LOCAL, the statements and COMMIT under one Sync. *)
BatchOk ==
    /\ Usable(srv)
    /\ LET s == SetLocal(Begin(srv), it) IN
          /\ Ok("batch", EndTxn(s), "ret")
          /\ seen' = seen \cup {StmtTrace(s)}
    /\ k' = N
    /\ UNCHANGED <<cached, stale, evicted>>

---------------------------------------------------------------------------
(* The deallocation fails, and the call with it: pgx gives the connection  *)
(* up when it was about to begin or to end a transaction.                  *)
DeallocateErr ==
    /\ Deallocates
    /\ inflight
    /\ IF pc \in {"begin", "commit", "rollback"}
          THEN Hangup
          ELSE Flush /\ srv' = Abort(Deliver(srv))
    /\ pc' = ErrorPc(pc)
    /\ err' = TRUE
    /\ UNCHANGED <<mode, it, k, cached, stale, cold, due, evicted, rtt, seen>>

(* The backend answers the request at p with an ErrorResponse; a prepared  *)
(* statement that fails may be given up by the statement cache, in a batch *)
(* also one of its other texts.                                            *)
Failed(p) ==
    /\ pc = p
    /\ ~Deallocates
    /\ inflight
    /\ pc' = ErrorPc(p)
    /\ err' = TRUE
    /\ cached' \in IF p \in StmtPc \cup {"batch"} THEN {cached, FALSE} ELSE {cached}
    /\ \/ stale' = (stale \/ cached # cached')
       \/ p = "batch" /\ stale' = TRUE
    /\ UNCHANGED <<mode, it, k, cold, due, evicted, rtt>>

(* pgx gives up a connection that cannot begin or roll back. *)
TxnErr == \E p \in {"begin", "rollback"} : Failed(p) /\ Hangup /\ UNCHANGED seen

SetLocalErr == Failed("setlocal") /\ Flush /\ srv' = Abort(srv) /\ UNCHANGED seen

StmtErr ==
    \E p \in StmtPc : Failed(p) /\ Flush /\ srv' = Abort(Deliver(srv)) /\ UNCHANGED seen

(* A failed COMMIT has rolled back. *)
CommitErr == Failed("commit") /\ Flush /\ srv' = EndTxn(srv) /\ UNCHANGED seen

(* SET or RESET of the session value failed and changed nothing. *)
GucErr ==
    \E p \in {"set", "reset", "unset"} : Failed(p) /\ Flush /\ UNCHANGED <<srv, seen>>

(* Mode 2a: whatever failed, the implicit transaction is over. *)
SimpleErr ==
    /\ Failed("simple")
    /\ Flush
    /\ srv' = EndTxn(srv)
    /\ seen' \in {seen, seen \cup {StmtTrace(SetLocal(Begin(srv), it))}}

ParseErr == Failed("parse") /\ Flush /\ srv' = Abort(srv) /\ UNCHANGED seen

(* Mode 2b: BEGIN failed, or something behind it, or COMMIT.  Closing the  *)
(* batch drains its results; nothing rolls the transaction back.           *)
BatchErr ==
    LET s   == SetLocal(Begin(srv), it)
        ran == seen \cup {StmtTrace(s)} IN
    /\ Failed("batch")
    /\ Flush
    /\ \/ srv' = srv /\ seen' = seen
       \/ srv' = Abort(s) /\ seen' \in {seen, ran}
       \/ srv' = EndTxn(s) /\ seen' = ran

Answer ==
    \/ DeallocateOk \/ DeallocateErr
    \/ BeginOk \/ SetLocalOk \/ CommitOk \/ RollbackOk
    \/ SetOk \/ ResetOk \/ UnsetOk
    \/ PrepareOk \/ ExecOk \/ SimpleOk \/ ParseOk \/ BatchOk
    \/ TxnErr \/ SetLocalErr \/ StmtErr \/ CommitErr \/ GucErr
    \/ SimpleErr \/ ParseErr \/ BatchErr

RunOneStep == Send \/ Refuse \/ Lose \/ Answer

CacheTypeOK ==
    /\ cached \in BOOLEAN
    /\ stale \in BOOLEAN
    /\ cold \in BOOLEAN
    /\ due \in BOOLEAN
    /\ evicted \in BOOLEAN

RunOneTypeOK(Traces) ==
    /\ mode \in RunModes
    /\ it \in Traces
    /\ k \in 0 .. N
    /\ err \in BOOLEAN
    /\ CacheTypeOK
    /\ rtt \in Nat
    /\ seen \subseteq Traces
=============================================================================
