------------------------------- MODULE Bench -------------------------------
(***************************************************************************)
(* otelbench bench (internal/cli/bench.go): runBench measures one cell per *)
(* latency preset and mode, shaping the latency through the toxiproxy      *)
(* client of module Latency, recording its iterations through the tracer   *)
(* of module Spans, and writes one report at the end.  The process may be  *)
(* killed at any step and started again; the toxics of the proxy and a     *)
(* written report survive it.  toxiproxy may restart as well.  runner.Run  *)
(* is one step here, with the results module Runner shows it to have, and  *)
(* spans ending before it.                                                 *)
(***************************************************************************)
EXTENDS Latency, Spans, Sequences

CONSTANTS
    Sweeps,     \* the preset lists the flags can select
    ModeLists,  \* the mode lists the flags can select
    Registered, \* the modes of the registry
    MaxStarts,  \* bound: how often the process is started
    MaxRestarts \* bound: how often toxiproxy is restarted

ModeNames == UNION {{ms[i] : i \in DOMAIN ms} : ms \in ModeLists}

ASSUME SweepsAssumption == Sweeps \subseteq Seq(Delay)
ASSUME ModeListsAssumption == ModeLists \subseteq Seq(ModeNames)
ASSUME BoundsAssumption == MaxStarts \in Nat /\ MaxRestarts \in Nat

VARIABLES
    pc,         \* control state of runBench; "off" while no process runs
    starts,     \* processes started so far
    ctx,        \* cmd.Context() with --max-duration: "live" or "done"
    presets,    \* the presets of this invocation
    modes,      \* its modes
    client,     \* it has a toxiproxy client
    pi, mi,     \* the loop indices: the cell to measure next
    cells,      \* the cells collected so far
    report,     \* the report this process has written, <<>> if none
    status,     \* exit status: "ok", "error"; "none" before the exit
    restarts,   \* restarts of toxiproxy so far
    kept        \* it has been running since the last Apply began

invocation == <<starts, presets, modes, restarts, kept>>
vars == <<latency, spans, pc, ctx, invocation, client, pi, mi, cells, report, status>>

(* A collected cell: its labels, the delays of the legs it was measured    *)
(* under, whether the proxy had kept them since they were applied, and     *)
(* whether its run was complete.                                           *)
Cell == [preset : Delay, mode : ModeNames,
         up : Delay, down : Delay, kept : BOOLEAN, full : BOOLEAN]

BenchPc == {"off", "new", "tracing", "preset", "apply", "mode", "report", "shutdown", "clear",
            "clearing"}

Init ==
    /\ LatencyInit /\ SpansInit
    /\ pc = "off" /\ starts = 0 /\ ctx = "live"
    /\ presets = <<>> /\ modes = <<>>
    /\ client = FALSE
    /\ pi = 1 /\ mi = 1
    /\ cells = <<>> /\ report = <<>>
    /\ status = "none"
    /\ restarts = 0 /\ kept = TRUE

(* The flags are valid; the process starts. *)
Start ==
    /\ pc = "off" /\ starts < MaxStarts
    /\ starts' = starts + 1
    /\ presets' \in Sweeps /\ modes' \in ModeLists
    /\ ctx' = "live" /\ client' = FALSE
    /\ pi' = 1 /\ mi' = 1 /\ cells' = <<>> /\ report' = <<>> /\ status' = "none"
    /\ kept' = TRUE
    /\ pc' = "new"
    /\ NoProvider
    /\ UNCHANGED <<latency, restarts>>

(* anyNonPassthrough: without a delay to apply the proxy is never asked. *)
NeedsClient == \E i \in DOMAIN presets : presets[i] # "none"

NewClient ==
    /\ pc = "new"
    /\ client' = NeedsClient
    /\ pc' = "tracing"
    /\ UNCHANGED <<latency, spans, ctx, invocation, pi, mi, cells, report, status>>

NewClientFails ==
    /\ pc = "new" /\ NeedsClient
    /\ pc' = "off" /\ status' = "error"
    /\ UNCHANGED <<latency, spans, ctx, invocation, client, pi, mi, cells, report>>

(* return err: the deferred calls run before the process ends. *)
Return(s, p) == status' = s /\ pc' = p

TracingSetup ==
    /\ pc = "tracing"
    /\ pc' = "preset"
    /\ Setup
    /\ UNCHANGED <<latency, ctx, invocation, client, pi, mi, cells, report, status>>

TracingSetupFails ==
    /\ pc = "tracing"
    /\ Return("error", "clear")
    /\ UNCHANGED <<latency, spans, ctx, invocation, client, pi, mi, cells, report>>

---------------------------------------------------------------------------
(* Mutant: presets are not applied between the rows of a sweep. *)
ApplyFirstOnly == client /\ pi = 1

Applies == client

(* for _, preset := range latencyPresets *)
NextPreset ==
    /\ pc = "preset"
    /\ mi' = 1
    /\ IF pi > Len(presets) THEN pc' = "report" /\ UNCHANGED <<latency, kept>>
       ELSE IF Applies      THEN pc' = "apply" /\ Call(presets[pi]) /\ kept' = TRUE
       ELSE                      pc' = "mode" /\ UNCHANGED <<latency, kept>>
    /\ UNCHANGED <<spans, ctx, starts, presets, modes, restarts, client, pi, cells, report, status>>

(* A request of Apply or of the deferred Clear. *)
ProxyRequest ==
    /\ pc \in {"apply", "clearing"}
    /\ LatencyStep
    /\ UNCHANGED <<spans, pc, ctx, invocation, client, pi, mi, cells, report, status>>

Applied ==
    /\ pc = "apply" /\ lpc = "idle"
    /\ IF answer = "ok" THEN pc' = "mode" /\ UNCHANGED status ELSE Return("error", "shutdown")
    /\ UNCHANGED <<latency, spans, ctx, invocation, client, pi, mi, cells, report>>

(* for _, id := range ids *)
PresetDone ==
    /\ pc = "mode" /\ mi > Len(modes)
    /\ pi' = pi + 1
    /\ pc' = "preset"
    /\ UNCHANGED <<latency, spans, ctx, invocation, client, mi, cells, report, status>>

UnknownMode ==
    /\ pc = "mode" /\ mi <= Len(modes) /\ modes[mi] \notin Registered
    /\ Return("error", "shutdown")
    /\ UNCHANGED <<latency, spans, ctx, invocation, client, pi, mi, cells, report>>

Runs == pc = "mode" /\ mi <= Len(modes) /\ modes[mi] \in Registered

Measured(full) ==
    cells' = Append(cells, [preset |-> presets[pi], mode |-> modes[mi], full |-> full,
                            up |-> toxics["upstream"], down |-> toxics["downstream"],
                            kept |-> kept])

(* Only a run that started with a live context completes. *)
RunComplete ==
    /\ Runs /\ ctx = "live"
    /\ Measured(TRUE)
    /\ mi' = mi + 1
    /\ UNCHANGED <<latency, spans, pc, ctx, invocation, client, pi, report, status>>

(* Mutants: a failed run does not end the sweep; it is repeated; the run's *)
(* context is not passed on.                                               *)
RunFailsAndGoesOn ==
    /\ Runs
    /\ Measured(FALSE)
    /\ mi' = mi + 1
    /\ UNCHANGED <<latency, spans, pc, ctx, invocation, client, pi, report, status>>
RunFailsAndRetries ==
    /\ Runs
    /\ Measured(FALSE)
    /\ UNCHANGED <<latency, spans, pc, ctx, invocation, client, pi, mi, report, status>>
RunFailsUncancelled ==
    /\ Runs /\ ctx = "live"
    /\ Return("error", "shutdown")
    /\ UNCHANGED <<latency, spans, ctx, invocation, client, pi, mi, cells, report>>

(* Run returns an error, with the cell of a run cut short or without one. *)
RunFails ==
    /\ Runs
    /\ Measured(FALSE) \/ UNCHANGED cells
    /\ Return("error", "shutdown")
    /\ UNCHANGED <<latency, spans, ctx, invocation, client, pi, mi, report>>

(* The span of an iteration of the run, or of one of its requests, ends. *)
IterationRecorded ==
    /\ Runs
    /\ SpanEnds
    /\ UNCHANGED <<latency, pc, ctx, invocation, client, pi, mi, cells, report, status>>

(* The SDK's goroutine. *)
BatchExported ==
    /\ pc # "off"
    /\ Export
    /\ UNCHANGED <<latency, pc, ctx, invocation, client, pi, mi, cells, report, status>>

EmitReport ==
    /\ pc = "report"
    /\ report' = cells
    /\ Return("ok", "shutdown")
    /\ UNCHANGED <<latency, spans, ctx, invocation, client, pi, mi, cells>>

EmitReportFails ==
    /\ pc = "report"
    /\ Return("error", "shutdown")
    /\ UNCHANGED <<latency, spans, ctx, invocation, client, pi, mi, cells, report>>

---------------------------------------------------------------------------
(* Mutant: Shutdown is given the context of the runs. *)
ShutdownWithRunContext ==
    /\ pc = "shutdown"
    /\ pc' = "clear"
    /\ Flushed \/ FlushTimesOut \/ (ctx = "done" /\ UNCHANGED spans)
    /\ UNCHANGED <<latency, ctx, invocation, client, pi, mi, cells, report, status>>

(* Deferred, last first: flush the tracer for at most five seconds ... *)
Shutdown ==
    /\ pc = "shutdown"
    /\ pc' = "clear"
    /\ Flushed \/ FlushTimesOut
    /\ UNCHANGED <<latency, ctx, invocation, client, pi, mi, cells, report, status>>

(* Mutant: no deferred Clear. *)
ClearsNever == FALSE

ClearsToxics == client

(* Mutant: the Clear is started and not waited for. *)
ClearInBackground ==
    /\ pc = "clear"
    /\ pc' = "off"
    /\ IF client THEN Call("none") ELSE UNCHANGED latency
    /\ UNCHANGED <<spans, ctx, invocation, client, pi, mi, cells, report, status>>

(* ... then clear the toxics if there is a client. *)
Clear ==
    /\ pc = "clear"
    /\ IF ClearsToxics THEN pc' = "clearing" /\ Call("none") ELSE pc' = "off" /\ UNCHANGED latency
    /\ UNCHANGED <<spans, ctx, invocation, client, pi, mi, cells, report, status>>

Exit ==
    /\ pc = "clearing" /\ lpc = "idle"
    /\ pc' = "off"
    /\ UNCHANGED <<latency, spans, ctx, invocation, client, pi, mi, cells, report, status>>

---------------------------------------------------------------------------
(* SIGINT, SIGTERM or --max-duration. *)
Cancel ==
    /\ pc # "off" /\ ctx = "live"
    /\ ctx' = "done"
    /\ UNCHANGED <<latency, spans, pc, invocation, client, pi, mi, cells, report, status>>

(* SIGKILL or a crash: nothing deferred runs, a request under way may or   *)
(* may not have reached the proxy.                                         *)
Kill ==
    /\ pc # "off"
    /\ pc' = "off" /\ status' = "none"
    /\ toxics' \in Effects
    /\ lpc' = "idle" /\ listed' = {} /\ answer' = "failed"
    /\ NoProvider
    /\ UNCHANGED <<target, ctx, invocation, client, pi, mi, cells, report>>

(* toxiproxy restarts: its toxics were in its memory. *)
ProxyRestarts ==
    /\ restarts < MaxRestarts
    /\ restarts' = restarts + 1
    /\ toxics' = [l \in Legs |-> "none"]
    /\ kept' = FALSE
    /\ UNCHANGED <<target, lpc, listed, answer, spans, pc, ctx, starts, presets, modes, client,
                   pi, mi, cells, report, status>>

Done == pc = "off" /\ starts = MaxStarts /\ UNCHANGED vars

RunnerRun == RunComplete \/ RunFails

OwnStep ==
    \/ NewClient \/ NewClientFails \/ TracingSetup \/ TracingSetupFails
    \/ NextPreset \/ ProxyRequest \/ Applied \/ PresetDone \/ UnknownMode
    \/ EmitReport \/ EmitReportFails \/ Shutdown \/ Clear \/ Exit

Next ==
    \/ Start \/ OwnStep \/ RunnerRun \/ IterationRecorded \/ BatchExported
    \/ Cancel \/ Kill \/ ProxyRestarts \/ Done

(* runBench goes on and the control plane of the proxy answers; a run is   *)
(* only known to return when its context is done (Runner, LostRunReturns). *)
Safety == Init /\ [][Next]_vars
Spec == Safety /\ WF_vars(OwnStep) /\ WF_vars(RunnerRun /\ ctx = "done")

---------------------------------------------------------------------------
(* Properties *)

(* Every variable keeps its type, the loop indices stay within the grid,   *)
(* and the proxy is asked for something only inside Apply and Clear.       *)
TypeOK ==
    /\ LatencyTypeOK /\ SpansTypeOK
    /\ pc \in BenchPc
    /\ starts \in 0 .. MaxStarts
    /\ ctx \in {"live", "done"}
    /\ client \in BOOLEAN
    /\ presets \in Seq(Delay) /\ modes \in Seq(ModeNames)
    /\ pi \in 1 .. Len(presets) + 1 /\ mi \in 1 .. Len(modes) + 1
    /\ cells \in Seq(Cell) /\ report \in Seq(Cell)
    /\ status \in {"none", "ok", "error"} 
    /\ restarts \in 0 .. MaxRestarts /\ kept \in BOOLEAN
    /\ lpc # "idle" => pc \in {"apply", "clearing"}

(* A cell of an invocation with a toxiproxy client was measured under its  *)
(* preset on both legs, whatever an earlier process left in the proxy or a *)
(* failed request did to it, unless toxiproxy itself was restarted after   *)
(* the Apply of its row; the next row is right again (bench.go:138-142,    *)
(* toxiproxy.go:87-113).                                                   *)
MeasuredUnderPreset ==
    client => \A n \in DOMAIN cells :
        cells[n].kept => cells[n].up = cells[n].preset /\ cells[n].down = cells[n].preset

(* A report holds the whole grid, presets outside, modes inside, and only  *)
(* cells that were measured to the end (bench.go:136-171).                 *)
ReportIsGrid ==
    report # <<>> =>
        /\ Len(report) = Len(presets) * Len(modes)
        /\ \A n \in DOMAIN report :
              /\ report[n].full
              /\ report[n].preset = presets[((n - 1) \div Len(modes)) + 1]
              /\ report[n].mode = modes[((n - 1) % Len(modes)) + 1]

(* A process that had a client and was not killed leaves no toxics behind, *)
(* even after a failed Apply, unless its last Clear failed (bench.go:115). *)
CleanExit ==
    pc = "off" /\ status # "none" /\ client /\ answer = "ok" => Shaped("none")

(* Spans stay behind in a process that returns only if one was given up:   *)
(* the queue was full, the collector refused a batch, or the five seconds  *)
(* of Shutdown went by, which a cancelled context does not cut short       *)
(* (bench.go:129-134).                                                     *)
SpansAreExported ==
    status # "none" /\ pc \in {"off", "clear", "clearing"} /\ ~dropped => queued = 0

(* A bench keeps the promise of module Sweep: what it collects is always a *)
(* beginning of its grid, an unfinished cell is its last, and one report   *)
(* at most follows, of nothing but the finished grid (bench.go:135-171).   *)
Promised == INSTANCE Sweep WITH running <- pc # "off", measured <- cells, published <- report
ImplementsSweep == Promised!Spec

(* A cancelled bench ends. *)
CancelledBenchExits == ctx = "done" ~> pc = "off"

---------------------------------------------------------------------------
(* Statements of comments and documents that the code does not meet. *)

(* README.md:700: the preset none is a passthrough. *)
NoneIsPassthrough ==
    \A n \in DOMAIN cells :
        cells[n].preset = "none" => cells[n].up = "none" /\ cells[n].down = "none"

(* metrics.go:2-4: the union of all cells is emitted as the report; here   *)
(* only those that were measured to the end are asked for.                 *)
CollectedCellsAreReported ==
    pc = "off" /\ status # "none" =>
        \A n \in DOMAIN cells : cells[n].full => \E m \in DOMAIN report : report[m] = cells[n]
=============================================================================
