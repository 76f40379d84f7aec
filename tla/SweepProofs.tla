---------------------------- MODULE SweepProofs ----------------------------
(***************************************************************************)
(* Module Bench implements module Sweep, for all constants: every step     *)
(* from a state of BenchInv is one of Sweep's or changes nothing that      *)
(* Sweep sees.                                                             *)
(***************************************************************************)
EXTENDS BenchProofs

(* What no report has been written for, and is measured to the end so far. *)
LEMMA OpenSweep ==
    ASSUME BenchInv, pc \in {"mode", "report"}
    PROVE  report = <<>> /\ Promised!Whole
BY DEF BenchInv, Status, Collected, Gathered, Looping, Promised!Whole

(* A run that ends adds the next cell of the grid. *)
LEMMA MeasureRefined ==
    ASSUME BenchInv, Runs, NEW full \in BOOLEAN, Measured(full), pc' # "off",
           UNCHANGED <<invocation, report>>
    PROVE  Promised!Measure
<1> DEFINE c == [preset |-> presets[pi], mode |-> modes[mi], full |-> full,
                 up |-> toxics["upstream"], down |-> toxics["downstream"], kept |-> kept]
<1>1. pi <= Len(presets)
  BY DEF BenchInv, Loops, Runs
<1>2. /\ presets \in Seq(Delay) /\ modes \in Seq(ModeNames)
      /\ pi \in Nat \ {0} /\ mi \in 1 .. Len(modes)
  BY DEF BenchInv, TypeOK, Runs
<1>3. c \in Cell
  BY <1>1, <1>2 DEF BenchInv, TypeOK, LatencyTypeOK, Cell, Legs
<1>4. Len(cells) = (pi - 1) * Len(modes) + mi - 1
  BY <1>2 DEF BenchInv, Collected, Looping, Runs
<1>5. (Len(cells) + 1 - 1) \div Len(modes) = pi - 1 /\ (Len(cells) + 1 - 1) % Len(modes) = mi - 1
  <2>1. pi - 1 \in Nat /\ Len(modes) \in Nat
    BY <1>2
  <2>2. /\ ((pi - 1) * Len(modes) + mi - 1) \div Len(modes) = pi - 1
        /\ ((pi - 1) * Len(modes) + mi - 1) % Len(modes) = mi - 1
    BY <1>2, <2>1, Position
  <2>3. Len(cells) + 1 - 1 = Len(cells)
    BY DEF BenchInv, TypeOK
  <2> QED
    BY <1>4, <2>2, <2>3
<1>6. c.preset = presets[pi] /\ c.mode = modes[mi]
  OBVIOUS
<1> HIDE DEF c
<1>7. Promised!Fits(c, Len(cells) + 1)
  BY <1>1, <1>2, <1>5, <1>6 DEF Promised!Fits
<1>8. cells' = Append(cells, c)
  BY DEF Measured, c
<1>9. report = <<>> /\ Promised!Whole
  BY OpenSweep DEF Runs
<1>10. pc # "off" /\ presets' = presets /\ modes' = modes /\ report' = report
  BY DEF Runs, invocation
<1> QED
  BY <1>3, <1>7, <1>8, <1>9, <1>10 DEF Promised!Measure

(* Every other step. *)
LEMMA StepRefines ==
    ASSUME BenchInv, [Next]_vars
    PROVE  [Promised!Next]_(Promised!svars)
<1> USE DEF invocation
<1>1. CASE Start
  BY <1>1 DEF Start, Promised!Next, Promised!Begin
<1>2. CASE RunComplete
  <2>1. pc' = pc /\ Runs /\ Measured(TRUE) /\ UNCHANGED <<invocation, report>>
    BY <1>2 DEF RunComplete
  <2> QED
    BY <2>1, MeasureRefined DEF Runs, Promised!Next
<1>3. CASE RunFails
  <2>1. pc' = "shutdown" /\ Runs /\ UNCHANGED <<invocation, report>>
    BY <1>3 DEF RunFails, Return
  <2>2. CASE Measured(FALSE)
    BY <2>1, <2>2, MeasureRefined DEF Promised!Next
  <2>3. CASE UNCHANGED cells
    BY <2>1, <2>3 DEF Runs, Promised!svars
  <2> QED
    BY <1>3, <2>2, <2>3 DEF RunFails
<1>4. CASE EmitReport
  <2>1. report = <<>> /\ Promised!Whole
    BY <1>4, OpenSweep DEF EmitReport
  <2>2. Len(cells) = Len(presets) * Len(modes)
    BY <1>4 DEF EmitReport, BenchInv, TypeOK, Collected, Loops, Looping
  <2> QED
    BY <1>4, <2>1, <2>2 DEF EmitReport, Return, Promised!Next, Promised!Publish
<1>5. CASE NewClientFails \/ Clear \/ Exit \/ Kill
  BY <1>5 DEF NewClientFails, Clear, Exit, Kill, Promised!Next, Promised!End, Promised!svars
<1>6. CASE OwnStep /\ ~(NewClientFails \/ EmitReport \/ Clear \/ Exit)
  BY <1>6 DEF OwnStep, NewClient, TracingSetup, TracingSetupFails, NextPreset, ProxyRequest,
     Applied, PresetDone, UnknownMode, EmitReportFails, Shutdown, Return, Promised!svars
<1>7. CASE IterationRecorded \/ BatchExported \/ Cancel \/ ProxyRestarts \/ Done
        \/ UNCHANGED vars
  BY <1>7 DEF IterationRecorded, BatchExported, Cancel, ProxyRestarts, Done, vars,
     Promised!svars
<1> QED
  BY <1>1, <1>2, <1>3, <1>4, <1>5, <1>6, <1>7 DEF Next, RunnerRun

(* The bench keeps the promise of module Sweep about its cells and its     *)
(* reports (bench.go:135-171).                                             *)
THEOREM BenchImplementsSweep == Spec => ImplementsSweep
<1>1. Init => Promised!Init
  BY DEF Init, Promised!Init
<1> QED
  BY <1>1, StepRefines, BenchInvariant, PTL DEF Spec, Safety, ImplementsSweep, Promised!Spec
=============================================================================
