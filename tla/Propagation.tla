---------------------------- MODULE Propagation ----------------------------
(***************************************************************************)
(* What one measured cell promises, whatever the mode does on the wire:    *)
(* iterations run one after the other, the statements of an iteration are  *)
(* attributed to the trace context of that iteration and to no other, an   *)
(* iteration counts as a success only when all its statements ran, and     *)
(* every measured iteration is counted exactly once, as a latency sample   *)
(* or as an error.                                                         *)
(***************************************************************************)
EXTENDS Integers

CONSTANTS N, Warmup, Iterations, RunModes

VARIABLES
    mode,       \* the propagation mode of the cell
    iter,       \* iterations started so far; also the current trace context
    busy,       \* an iteration is running
    done,       \* statements of it that have completed
    ran,        \* contexts they were attributed to
    observed,   \* measured iterations recorded in the histogram
    errors,     \* measured iterations recorded as errors
    stopped     \* the loop is over

pvars == <<mode, iter, busy, done, ran, observed, errors, stopped>>

(* 0 is the absence of a context.  Mode 0 sends none.  Mode 4 sends its    *)
(* M frame once per iteration, so that whether the statements behind the   *)
(* first still carry it is up to the server.                               *)
Legit(m, i) == IF m = "0" THEN {0} ELSE IF m = "4" THEN {0, i} ELSE {i}

Init ==
    /\ mode \in RunModes
    /\ iter = 0
    /\ busy = FALSE
    /\ done = 0
    /\ ran = {}
    /\ observed = 0
    /\ errors = 0
    /\ stopped = FALSE

Start ==
    /\ ~busy /\ ~stopped
    /\ iter < Warmup + Iterations
    /\ iter' = iter + 1
    /\ busy' = TRUE
    /\ done' = 0
    /\ ran' = {}
    /\ UNCHANGED <<mode, observed, errors, stopped>>

(* Some statements run, all of them under a context of this iteration. *)
Attribute ==
    /\ busy
    /\ done' \in done .. N
    /\ \E c \in Legit(mode, iter) : ran' = ran \cup {c}
    /\ UNCHANGED <<mode, iter, busy, observed, errors, stopped>>

Succeed ==
    /\ busy
    /\ done = N
    /\ busy' = FALSE
    /\ observed' = IF iter > Warmup THEN observed + 1 ELSE observed
    /\ UNCHANGED <<mode, iter, done, ran, errors, stopped>>

(* A failed warm-up iteration ends the cell. *)
Fail ==
    /\ busy
    /\ busy' = FALSE
    /\ errors' = IF iter > Warmup THEN errors + 1 ELSE errors
    /\ stopped' = (iter <= Warmup)
    /\ UNCHANGED <<mode, iter, done, ran, observed>>

Stop ==
    /\ ~busy /\ ~stopped
    /\ stopped' = TRUE
    /\ UNCHANGED <<mode, iter, busy, done, ran, observed, errors>>

Next == Start \/ Attribute \/ Succeed \/ Fail \/ Stop

Spec == Init /\ [][Next]_pvars
=============================================================================
