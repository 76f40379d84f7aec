------------------------------ MODULE Session ------------------------------
(***************************************************************************)
(* One pgx connection of the bench harness and the PostgreSQL backend on   *)
(* its other end, as far as trace context is concerned.                    *)
(*                                                                         *)
(* pgx and PostgreSQL are not part of the repository: everything here is   *)
(* modelled from the way internal/modes, internal/workload and             *)
(* internal/runner use them.  A connection carries one request at a time   *)
(* (inflight); the backend's part of the answer is chosen by the module    *)
(* that owns the request, with the operators below.                        *)
(***************************************************************************)
EXTENDS Integers

VARIABLES
    ctx,        \* the context.Context of the run: "live" or "done"
    conn,       \* the pgx.Conn: "none", "open" or "closed"
    inflight,   \* a request is on the wire and its answer is not back yet
    srv,        \* the backend session, see Backend
    wbuf        \* trace context of an M frame queued on the Frontend

session == <<ctx, conn, inflight, srv, wbuf>>

(* A trace context is named by the number of the iteration that minted it. *)
NoTrace == 0

(* txn: transaction status; guc: session value of otel_api.traceparent;    *)
(* local: its SET LOCAL value; hdr: headers applied from an M frame.       *)
Fresh == [txn |-> "idle", guc |-> NoTrace, local |-> NoTrace, hdr |-> NoTrace]

Backend(Traces) ==
    [txn : {"idle", "active", "failed"}, guc : Traces, local : Traces, hdr : Traces]

SessionTypeOK(Traces) ==
    /\ ctx \in {"live", "done"}
    /\ conn \in {"none", "open", "closed"}
    /\ inflight \in BOOLEAN
    /\ srv \in Backend(Traces)
    /\ wbuf \in Traces

---------------------------------------------------------------------------
(* What the backend does with one statement. *)

Begin(s) == [s EXCEPT !.txn = "active"]

(* COMMIT, ROLLBACK and the end of an implicit transaction undo SET LOCAL. *)
EndTxn(s) == [s EXCEPT !.txn = "idle", !.local = NoTrace]

(* Outside a transaction block SET LOCAL has no effect. *)
SetLocal(s, c) == IF s.txn = "active" THEN [s EXCEPT !.local = c] ELSE s

SetGuc(s, c) == [s EXCEPT !.guc = c]

(* A statement failed: an explicit transaction block is now aborted. *)
Abort(s) ==
    [s EXCEPT !.txn = IF s.txn = "idle" THEN "idle" ELSE "failed", !.local = NoTrace]

(* An aborted transaction refuses everything except its end. *)
Usable(s) == s.txn # "failed"

(* The queued M frame reaches the backend with the next flush. *)
Deliver(s) == IF wbuf = NoTrace THEN s ELSE [s EXCEPT !.hdr = wbuf]

(* Whether the headers outlive the Sync that ends the request is decided   *)
(* by the patched server, which nothing in the repository pins down.       *)
AfterSync(s) == {s, [s EXCEPT !.hdr = NoTrace]}

(* The context the backend attributes a statement to. *)
TraceOf(s) ==
    IF s.hdr # NoTrace THEN s.hdr ELSE IF s.local # NoTrace THEN s.local ELSE s.guc

---------------------------------------------------------------------------
(* The client's view of a request. *)

(* Mutant: the run's context does not reach the driver. *)
CanSendIgnoringContext == conn = "open"

(* pgx looks at the context and the socket before it writes. *)
CanSend == conn = "open" /\ ctx = "live"

Flush == inflight /\ inflight' = FALSE /\ wbuf' = NoTrace /\ UNCHANGED <<ctx, conn>>

(* The socket is closed: the backend and all its session state are gone. *)
Hangup == conn' = "closed" /\ inflight' = FALSE /\ srv' = Fresh /\ wbuf' = NoTrace
             /\ UNCHANGED ctx

(* SIGINT, SIGTERM or --max-duration. *)
CtxDone == ctx = "live" /\ ctx' = "done" /\ UNCHANGED <<conn, inflight, srv, wbuf>>
=============================================================================
