----------------------------- MODULE TwoBenches -----------------------------
(***************************************************************************)
(* Several otelbench processes that share the toxiproxy proxy and the      *)
(* database: each applies one preset, runs the set-up and the iterations   *)
(* of its cells, and clears the proxy again (internal/cli/bench.go), with  *)
(* no lock between them.  A client of the proxy is an instance of module   *)
(* Latency; an iteration is one step.                                      *)
(***************************************************************************)
EXTENDS Workload

CONSTANTS
    Presets,    \* the presets other than "none"
    PresetOf,   \* the --latency of each process
    Cells,      \* modes, and so cells, of each process
    Iterations, \* iterations per cell
    LeftBehind  \* presets of the processes that were killed earlier

ASSUME ProcsAssumption == Procs # {}
ASSUME PresetsAssumption == "none" \notin Presets
ASSUME PresetOfAssumption == PresetOf \in [Procs -> Presets]
ASSUME LeftBehindAssumption == LeftBehind \subseteq Presets
ASSUME CellsAssumption == Cells \in Nat \ {0} /\ Iterations \in Nat

VARIABLES
    toxics,     \* the delay on each leg of the proxy
    client,     \* [Procs -> record]: the latency client of each process
    pc,         \* [Procs -> ...]: control state of its runBench
    cell, iter, \* [Procs -> Nat]: cells and, in the current one, iterations that are over
    wrong,      \* [Procs -> BOOLEAN]: an iteration was timed under other delays than its preset's
    disturbed   \* [Procs -> BOOLEAN]: another process has changed the toxics
                \*   since this one listed them in its Apply

C(p) == INSTANCE Latency WITH target <- client[p].target, lpc <- client[p].lpc,
                              listed <- client[p].listed, answer <- client[p].answer

proxy == <<toxics, client, disturbed>>
progress == <<cell, iter, wrong>>
vars == <<database, setups, ids, proxy, progress, pc>>

Legs == {"upstream", "downstream"}
Delay == Presets \cup {"none"}
Both(preset) == [l \in Legs |-> preset]

Client == [target : Delay, lpc : {"idle", "list", "remove"} \cup Legs,
           listed : SUBSET Legs, answer : {"ok", "failed"}]

Idle(answer) == [target |-> "none", lpc |-> "idle", listed |-> {}, answer |-> answer]

(* What a process that was killed in Apply or Clear may have left. *)
Leftovers == {[l \in Legs |-> IF l \in on THEN d ELSE "none"] : on \in SUBSET Legs, d \in LeftBehind}

Init ==
    /\ WorkloadInit
    /\ toxics \in Leftovers
    /\ client = [p \in Procs |-> Idle("ok")]
    /\ pc = [p \in Procs |-> "off"]
    /\ cell = [p \in Procs |-> 0] /\ iter = [p \in Procs |-> 0]
    /\ wrong = [p \in Procs |-> FALSE]
    /\ disturbed = [p \in Procs |-> FALSE]

Go(p, to) == pc' = [pc EXCEPT ![p] = to]

ClientMoves(p) == \E c \in Client : client' = [client EXCEPT ![p] = c]

(* The other processes are disturbed by a change of the toxics. *)
Disturbs(p, before) ==
    disturbed' = [q \in Procs |-> IF q = p THEN before ELSE disturbed[q] \/ toxics' # toxics]

(* toxic.Apply(preset), and the deferred toxic.Clear(). *)
CallsProxy(p, preset) ==
    /\ ClientMoves(p)
    /\ C(p)!Call(preset)
    /\ UNCHANGED disturbed

Start(p) ==
    /\ pc[p] = "off"
    /\ CallsProxy(p, PresetOf[p])
    /\ Go(p, "apply")
    /\ UNCHANGED <<database, setups, ids, progress>>

ProxyRequest(p) ==
    /\ pc[p] \in {"apply", "clear"}
    /\ ClientMoves(p)
    /\ C(p)!LatencyStep
    /\ Disturbs(p, disturbed[p] /\ (pc[p] = "clear" \/ client[p].lpc # "list"))
    /\ UNCHANGED <<database, setups, ids, progress, pc>>

(* return: the deferred Clear comes first. *)
Return(p) == CallsProxy(p, "none") /\ Go(p, "clear")

(* runner.Run of the next cell begins with the workload's Setup. *)
NextCell(p) ==
    /\ BeginSetup(p)
    /\ Go(p, "setup")
    /\ UNCHANGED proxy

Applied(p) ==
    /\ pc[p] = "apply" /\ client[p].lpc = "idle"
    /\ \/ client[p].answer = "ok" /\ NextCell(p)
       \/ client[p].answer = "failed" /\ Return(p) /\ UNCHANGED setups
    /\ UNCHANGED <<database, ids, progress>>

SetupRequest(p) ==
    /\ pc[p] = "setup"
    /\ SetupStep(p)
    /\ UNCHANGED <<ids, proxy, progress, pc>>

SetupDone(p) ==
    /\ pc[p] = "setup" /\ wpc[p] = "idle"
    /\ \/ setup[p] = "ok" /\ Go(p, "measure") /\ UNCHANGED proxy
       \/ setup[p] # "ok" /\ Return(p)
    /\ UNCHANGED <<database, setups, ids, progress>>

Iterate(p) ==
    /\ pc[p] = "measure" /\ iter[p] < Iterations
    /\ NextStatements(p)
    /\ wrong' = [wrong EXCEPT ![p] = @ \/ toxics # Both(PresetOf[p])]
    /\ iter' = [iter EXCEPT ![p] = @ + 1]
    /\ UNCHANGED <<database, setups, proxy, cell, pc>>

(* An iteration fails, before or after it asked for its statements: Run counts it and goes on, *)
(* on a lost connection as well.                                                              *)
IterationFails(p) ==
    /\ pc[p] = "measure" /\ iter[p] < Iterations
    /\ NextStatements(p) \/ UNCHANGED ids
    /\ iter' = [iter EXCEPT ![p] = @ + 1]
    /\ UNCHANGED <<database, setups, proxy, cell, wrong, pc>>

(* The cell is complete: the next mode's, or the report and the return. *)
CellDone(p) ==
    /\ pc[p] = "measure" /\ iter[p] = Iterations
    /\ cell' = [cell EXCEPT ![p] = @ + 1]
    /\ iter' = [iter EXCEPT ![p] = 0]
    /\ IF cell'[p] < Cells THEN NextCell(p) ELSE Return(p) /\ UNCHANGED setups
    /\ UNCHANGED <<database, ids, wrong>>

(* The run ends early: its context is done or its warm-up failed. *)
RunFails(p) ==
    /\ pc[p] = "measure"
    /\ Return(p)
    /\ UNCHANGED <<database, setups, ids, progress>>

(* Mutant: the process ends with its Clear under way. *)
ExitAtOnce(p) ==
    /\ pc[p] = "clear"
    /\ Go(p, "done")
    /\ UNCHANGED <<database, setups, ids, proxy, progress>>

Exit(p) ==
    /\ pc[p] = "clear" /\ client[p].lpc = "idle"
    /\ Go(p, "done")
    /\ UNCHANGED <<database, setups, ids, proxy, progress>>

(* SIGKILL: a request under way may have reached the proxy or the server. *)
Kill(p) ==
    /\ pc[p] \notin {"off", "done"}
    /\ Go(p, "done")
    /\ client' = [client EXCEPT ![p] = Idle("failed")]
    /\ toxics' \in C(p)!Effects
    /\ Disturbs(p, disturbed[p])
    /\ \/ SetupFails(p)
       \/ wpc[p] = "idle" /\ UNCHANGED <<database, setups>>
    /\ UNCHANGED <<ids, progress>>

Done == (\A p \in Procs : pc[p] = "done") /\ UNCHANGED vars

BenchStep(p) ==
    \/ Start(p) \/ ProxyRequest(p) \/ Applied(p) \/ SetupRequest(p) \/ SetupDone(p)
    \/ Iterate(p) \/ IterationFails(p) \/ CellDone(p) \/ RunFails(p) \/ Exit(p)

Next == (\E p \in Procs : BenchStep(p) \/ Kill(p)) \/ Done

Spec == Init /\ [][Next]_vars

---------------------------------------------------------------------------
(* Properties *)

ProxyTypeOK ==
    /\ toxics \in [Legs -> Delay]
    /\ client \in [Procs -> Client]
    /\ pc \in [Procs -> {"off", "apply", "setup", "measure", "clear", "done"}]
    /\ wrong \in [Procs -> BOOLEAN]
    /\ disturbed \in [Procs -> BOOLEAN]
    /\ \A p \in Procs : client[p].lpc # "idle" => pc[p] \in {"apply", "clear"}

TypeOK ==
    /\ WorkloadTypeOK
    /\ ProxyTypeOK
    /\ cell \in [Procs -> 0 .. Cells] /\ iter \in [Procs -> 0 .. Iterations]
    /\ \A p \in Procs : wpc[p] # "idle" => pc[p] = "setup"

(* Nothing but another process's requests can put a cell under a wrong     *)
(* delay: while the proxy was left alone since Apply listed it, all        *)
(* iterations ran under the preset on both legs (toxiproxy.go:87-113).     *)
UndisturbedCells ==
    \A p \in Procs : wrong[p] => disturbed[p]

(* When every process has ended with a Clear that succeeded, no toxic is   *)
(* left, in whatever order their requests met (bench.go:115).              *)
SharedCleanExit ==
    (\A p \in Procs : pc[p] = "done" /\ client[p].answer = "ok") => toxics = Both("none")
=============================================================================
