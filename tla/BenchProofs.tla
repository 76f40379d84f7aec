---------------------------- MODULE BenchProofs -----------------------------
(***************************************************************************)
(* Proofs about module Bench, for every set of presets, of sweeps and of   *)
(* mode lists, every registry and any number of processes.  BenchInv is    *)
(* inductive: one lemma per action below; the theorems at the end draw the *)
(* properties from it.                                                     *)
(***************************************************************************)
EXTENDS BenchInv, TLAPS

(* The grid is numbered row by row: where cell m of row a + 1 stands. *)
LEMMA Position ==
    ASSUME NEW a \in Nat, NEW l \in Nat, NEW m \in 1 .. l
    PROVE  (a * l + m - 1) \div l = a /\ (a * l + m - 1) % l = m - 1
BY Z3

(* A request that fails leaves a delay on every leg. *)
LEMMA EffectsType ==
    ASSUME LatencyTypeOK, NEW t \in Effects
    PROVE  t \in [Legs -> Delay]
BY DEF LatencyTypeOK, Effects, Delay

(* No provider holds a span. *)
LEMMA NoSpansType == ASSUME NoProvider PROVE SpansTypeOK'
<1>1. queued' \in 0 .. QueueCap
  BY QueueCapAssumption DEF NoProvider
<1>2. enabled' \in BOOLEAN /\ dropped' \in BOOLEAN
  BY Zenon DEF NoProvider
<1> QED
  BY <1>1, <1>2 DEF SpansTypeOK

(* A run that ends appends one cell, with the labels and the delays of the *)
(* moment.                                                                 *)
LEMMA Appended ==
    ASSUME TypeOK, Runs, pi <= Len(presets), NEW full \in BOOLEAN, Measured(full)
    PROVE  /\ cells' \in Seq(Cell) /\ Len(cells') = Len(cells) + 1
           /\ \A n \in 1 .. Len(cells) : cells'[n] = cells[n]
           /\ cells'[Len(cells) + 1].preset = presets[pi]
           /\ cells'[Len(cells) + 1].mode = modes[mi]
           /\ cells'[Len(cells) + 1].full = full
           /\ cells'[Len(cells) + 1].up = toxics["upstream"]
           /\ cells'[Len(cells) + 1].down = toxics["downstream"]
           /\ cells'[Len(cells) + 1].kept = kept
<1> DEFINE c == [preset |-> presets[pi], mode |-> modes[mi], full |-> full,
                 up |-> toxics["upstream"], down |-> toxics["downstream"], kept |-> kept]
<1>1. c \in Cell
  BY DEF TypeOK, LatencyTypeOK, Runs, Cell, Legs
<1>2. cells \in Seq(Cell) /\ cells' = Append(cells, c)
  BY DEF TypeOK, Measured
<1> HIDE DEF c
<1>3. /\ cells' \in Seq(Cell) /\ Len(cells') = Len(cells) + 1
      /\ \A n \in 1 .. Len(cells) : cells'[n] = cells[n]
      /\ cells'[Len(cells) + 1] = c
  BY <1>1, <1>2
<1> QED
  BY <1>3 DEF c

(* A process starts. *)
LEMMA StartStep == ASSUME BenchInv, Start PROVE BenchInv'
<1> USE DEF BenchInv, Start
<1>1. presets' \in Seq(Delay) /\ modes' \in Seq(ModeNames)
  BY SweepsAssumption, ModeListsAssumption
<1>2. TypeOK'
  <2>1. LatencyTypeOK' /\ SpansTypeOK'
    BY NoSpansType DEF TypeOK, LatencyTypeOK, latency
  <2>2. client' \in BOOLEAN
    BY Zenon
  <2>3. starts' \in 0 .. MaxStarts
    BY BoundsAssumption DEF TypeOK
  <2>4. pi' \in 1 .. Len(presets') + 1 /\ mi' \in 1 .. Len(modes') + 1
    BY <1>1
  <2> QED
    BY <1>1, <2>1, <2>2, <2>3, <2>4 DEF TypeOK, BenchPc, latency
<1>3. Loops' /\ Status' /\ NoSpans' /\ SpansAreExported'
  BY DEF Loops, Status, NoSpans, SpansAreExported, NoProvider
<1>4. Requests' /\ Shaping' /\ CleanExit'
  BY DEF TypeOK, Requests, Shaping, CleanExit, latency
<1>5. Collected'
  BY DEF Collected, Looping
<1>6. MeasuredUnderPreset' /\ ReportIsGrid'
  BY DEF MeasuredUnderPreset, ReportIsGrid
<1> QED
  BY <1>2, <1>3, <1>4, <1>5, <1>6

(* latency.New succeeds or is not needed. *)
LEMMA NewClientStep == ASSUME BenchInv, NewClient PROVE BenchInv'
<1> USE DEF BenchInv, NewClient
<1>1. TypeOK'
  BY DEF TypeOK, LatencyTypeOK, SpansTypeOK, BenchPc, latency, spans, invocation, NeedsClient
<1>2. Loops' /\ Status' /\ NoSpans' /\ SpansAreExported'
  BY DEF Loops, Status, NoSpans, SpansAreExported, spans
<1>3. Requests' /\ Shaping' /\ CleanExit'
  BY DEF Requests, Shaping, CleanExit, latency, invocation
<1>4. Collected'
  BY DEF Collected, Looping
<1>5. MeasuredUnderPreset' /\ ReportIsGrid'
  BY DEF Loops, MeasuredUnderPreset, ReportIsGrid, invocation
<1> QED
  BY <1>1, <1>2, <1>3, <1>4, <1>5

(* latency.New fails. *)
LEMMA NewClientFailsStep == ASSUME BenchInv, NewClientFails PROVE BenchInv'
<1> USE DEF BenchInv, NewClientFails
<1>1. TypeOK'
  BY DEF TypeOK, LatencyTypeOK, SpansTypeOK, BenchPc, latency, spans, invocation
<1>2. Loops' /\ Status' /\ NoSpans' /\ SpansAreExported'
  BY DEF Loops, Status, NoSpans, SpansAreExported, Looping, spans
<1>3. Requests' /\ Shaping' /\ CleanExit'
  BY DEF Requests, Shaping, CleanExit, latency, invocation
<1>4. Collected'
  BY DEF Collected, Looping
<1>5. MeasuredUnderPreset' /\ ReportIsGrid'
  BY DEF MeasuredUnderPreset, ReportIsGrid, invocation
<1> QED
  BY <1>1, <1>2, <1>3, <1>4, <1>5

(* tracing.Setup succeeds. *)
LEMMA TracingSetupStep == ASSUME BenchInv, TracingSetup PROVE BenchInv'
<1> USE DEF BenchInv, TracingSetup
<1>1. SpansTypeOK'
  <2>1. queued' \in 0 .. QueueCap
    BY QueueCapAssumption DEF Setup
  <2>2. enabled' \in BOOLEAN /\ dropped' \in BOOLEAN
    BY Zenon DEF Setup
  <2> QED
    BY <2>1, <2>2 DEF SpansTypeOK
<1>2. TypeOK'
  BY <1>1 DEF TypeOK, LatencyTypeOK, BenchPc, latency, invocation
<1>3. Loops' /\ Status' /\ NoSpans' /\ SpansAreExported'
  BY QueueCapAssumption DEF Loops, Status, NoSpans, SpansAreExported
<1>4. Requests' /\ Shaping' /\ CleanExit'
  BY DEF Requests, Shaping, CleanExit, latency, invocation
<1>5. Collected'
  BY DEF Loops, Collected, Gathered
<1>6. MeasuredUnderPreset' /\ ReportIsGrid'
  BY DEF MeasuredUnderPreset, ReportIsGrid, invocation
<1> QED
  BY <1>2, <1>3, <1>4, <1>5, <1>6

(* tracing.Setup fails. *)
LEMMA TracingSetupFailsStep == ASSUME BenchInv, TracingSetupFails PROVE BenchInv'
<1> USE DEF BenchInv, TracingSetupFails
<1>1. TypeOK'
  BY DEF TypeOK, LatencyTypeOK, SpansTypeOK, BenchPc, latency, spans, invocation, Return
<1>2. Loops' /\ Status' /\ NoSpans' /\ SpansAreExported'
  BY DEF Loops, Status, NoSpans, SpansAreExported, Looping, spans, Return
<1>3. Requests' /\ Shaping' /\ CleanExit'
  BY DEF Requests, Shaping, CleanExit, latency, invocation, Return
<1>4. Collected'
  BY DEF Collected, Looping, Return
<1>5. MeasuredUnderPreset' /\ ReportIsGrid'
  BY DEF MeasuredUnderPreset, ReportIsGrid, invocation
<1> QED
  BY <1>1, <1>2, <1>3, <1>4, <1>5

(* The loop over the presets goes on. *)
LEMMA NextPresetStep == ASSUME BenchInv, NextPreset PROVE BenchInv'
<1> USE DEF BenchInv, NextPreset
<1>1. presets[pi] \in Delay \/ pi > Len(presets)
  BY DEF TypeOK
<1>2. TypeOK'
  <2>1. kept' \in BOOLEAN
    BY Zenon DEF TypeOK
  <2> QED
    BY <1>1, <2>1 DEF TypeOK, LatencyTypeOK, SpansTypeOK, BenchPc, spans, latency, Call
<1>3. Loops' /\ Status' /\ NoSpans' /\ SpansAreExported'
  BY DEF TypeOK, Loops, Status, NoSpans, SpansAreExported, Looping, invocation
<1>4. Requests' /\ Shaping' /\ CleanExit'
  BY DEF Legs, Requests, Shaping, CleanExit, latency, invocation, Applies, Call
<1>5. Collected'
  BY DEF Collected, Gathered, Looping, invocation
<1>6. MeasuredUnderPreset' /\ ReportIsGrid'
  BY DEF MeasuredUnderPreset, ReportIsGrid, invocation
<1> QED
  BY <1>2, <1>3, <1>4, <1>5, <1>6

(* Apply returns. *)
LEMMA AppliedStep == ASSUME BenchInv, Applied PROVE BenchInv'
<1> USE DEF BenchInv, Applied
<1>1. TypeOK'
  BY DEF TypeOK, LatencyTypeOK, SpansTypeOK, BenchPc, latency, spans, invocation, Return
<1>2. Loops' /\ Status' /\ NoSpans' /\ SpansAreExported'
  BY DEF Loops, Status, NoSpans, SpansAreExported, Looping, invocation, Return
<1>3. Requests' /\ Shaping' /\ CleanExit'
  BY DEF Requests, Shaping, CleanExit, Shaped, latency, invocation, Return
<1>4. Collected'
  BY DEF Loops, Collected, Gathered, Looping, invocation
<1>5. MeasuredUnderPreset' /\ ReportIsGrid'
  BY DEF MeasuredUnderPreset, ReportIsGrid, invocation
<1> QED
  BY <1>1, <1>2, <1>3, <1>4, <1>5

(* The loop over the modes ends. *)
LEMMA PresetDoneStep == ASSUME BenchInv, PresetDone PROVE BenchInv'
<1> USE DEF BenchInv, PresetDone
<1>1. TypeOK'
  BY DEF TypeOK, LatencyTypeOK, SpansTypeOK, BenchPc, Loops, latency, spans, invocation
<1>2. Loops' /\ Status' /\ NoSpans' /\ SpansAreExported'
  BY DEF Loops, Status, NoSpans, SpansAreExported, Looping
<1>3. Requests' /\ Shaping' /\ CleanExit'
  BY DEF Requests, Shaping, CleanExit, latency, invocation
<1>4. Collected'
  BY DEF TypeOK, LatencyTypeOK, Status, Collected, Gathered, Looping, invocation
<1>5. MeasuredUnderPreset' /\ ReportIsGrid'
  BY DEF MeasuredUnderPreset, ReportIsGrid, invocation
<1> QED
  BY <1>1, <1>2, <1>3, <1>4, <1>5

(* A mode is unknown. *)
LEMMA UnknownModeStep == ASSUME BenchInv, UnknownMode PROVE BenchInv'
<1> USE DEF BenchInv, UnknownMode
<1>1. TypeOK'
  BY DEF TypeOK, LatencyTypeOK, SpansTypeOK, BenchPc, latency, spans, invocation, Return
<1>2. Loops' /\ Status' /\ NoSpans' /\ SpansAreExported'
  BY DEF Loops, Status, NoSpans, SpansAreExported, Looping, Return
<1>3. Requests' /\ Shaping' /\ CleanExit'
  BY DEF Requests, Shaping, CleanExit, latency, invocation, Return
<1>4. Collected'
  BY DEF Collected, Looping, Return
<1>5. MeasuredUnderPreset' /\ ReportIsGrid'
  BY DEF MeasuredUnderPreset, ReportIsGrid, invocation
<1> QED
  BY <1>1, <1>2, <1>3, <1>4, <1>5

(* The report is written. *)
LEMMA EmitReportStep == ASSUME BenchInv, EmitReport PROVE BenchInv'
<1> USE DEF BenchInv, EmitReport
<1>1. TypeOK'
  BY DEF TypeOK, LatencyTypeOK, SpansTypeOK, BenchPc, latency, spans, invocation, Return
<1>2. Loops' /\ Status' /\ NoSpans' /\ SpansAreExported'
  BY DEF Loops, Status, NoSpans, SpansAreExported, Looping, Return
<1>3. Requests' /\ Shaping' /\ CleanExit'
  BY DEF Requests, Shaping, CleanExit, latency, invocation, Return
<1>4. Collected'
  BY DEF Collected, Looping, Return
<1>5. MeasuredUnderPreset' /\ ReportIsGrid'
  BY DEF Loops, Collected, Gathered, MeasuredUnderPreset, ReportIsGrid, Looping, invocation
<1> QED
  BY <1>1, <1>2, <1>3, <1>4, <1>5

(* The report cannot be written. *)
LEMMA EmitReportFailsStep == ASSUME BenchInv, EmitReportFails PROVE BenchInv'
<1> USE DEF BenchInv, EmitReportFails
<1>1. TypeOK'
  BY DEF TypeOK, LatencyTypeOK, SpansTypeOK, BenchPc, latency, spans, invocation, Return
<1>2. Loops' /\ Status' /\ NoSpans' /\ SpansAreExported'
  BY DEF Loops, Status, NoSpans, SpansAreExported, Looping, Return
<1>3. Requests' /\ Shaping' /\ CleanExit'
  BY DEF Requests, Shaping, CleanExit, latency, invocation, Return
<1>4. Collected'
  BY DEF Collected, Looping, Return
<1>5. MeasuredUnderPreset' /\ ReportIsGrid'
  BY DEF MeasuredUnderPreset, ReportIsGrid, invocation
<1> QED
  BY <1>1, <1>2, <1>3, <1>4, <1>5

(* The tracer is shut down. *)
LEMMA ShutdownStep == ASSUME BenchInv, Shutdown PROVE BenchInv'
<1> USE DEF BenchInv, Shutdown
<1>1. SpansTypeOK'
  <2>1. queued' \in 0 .. QueueCap
    BY QueueCapAssumption DEF TypeOK, SpansTypeOK, spans, Flushed, FlushTimesOut
  <2>2. enabled' \in BOOLEAN /\ dropped' \in BOOLEAN
    BY Zenon DEF TypeOK, SpansTypeOK, spans, Flushed, FlushTimesOut
  <2> QED
    BY <2>1, <2>2 DEF SpansTypeOK
<1>2. TypeOK'
  BY <1>1 DEF TypeOK, LatencyTypeOK, BenchPc, latency, invocation
<1>3. Loops' /\ Status' /\ NoSpans' /\ SpansAreExported'
  BY QueueCapAssumption DEF Loops, Status, NoSpans, SpansAreExported, Looping, spans, Flushed,
     FlushTimesOut
<1>4. Requests' /\ Shaping' /\ CleanExit'
  BY DEF Requests, Shaping, CleanExit, latency, invocation
<1>5. Collected'
  BY DEF Collected, Looping
<1>6. MeasuredUnderPreset' /\ ReportIsGrid'
  BY DEF MeasuredUnderPreset, ReportIsGrid, invocation
<1> QED
  BY <1>2, <1>3, <1>4, <1>5, <1>6

(* The deferred Clear begins. *)
LEMMA ClearStep == ASSUME BenchInv, Clear PROVE BenchInv'
<1> USE DEF BenchInv, Clear
<1>1. TypeOK'
  BY DEF TypeOK, LatencyTypeOK, SpansTypeOK, BenchPc, Delay, latency, spans, invocation, Call
<1>2. Loops' /\ Status' /\ NoSpans' /\ SpansAreExported'
  BY DEF Loops, Status, NoSpans, SpansAreExported, Looping, spans
<1>3. Requests' /\ Shaping' /\ CleanExit'
  BY DEF Legs, Requests, Shaping, CleanExit, latency, invocation, ClearsToxics, Call
<1>4. Collected'
  BY DEF Collected, Looping
<1>5. MeasuredUnderPreset' /\ ReportIsGrid'
  BY DEF MeasuredUnderPreset, ReportIsGrid, invocation
<1> QED
  BY <1>1, <1>2, <1>3, <1>4, <1>5

(* The deferred Clear returns. *)
LEMMA ExitStep == ASSUME BenchInv, Exit PROVE BenchInv'
<1> USE DEF BenchInv, Exit
<1>1. TypeOK'
  BY DEF TypeOK, LatencyTypeOK, SpansTypeOK, BenchPc, latency, spans, invocation
<1>2. Loops' /\ Status' /\ NoSpans' /\ SpansAreExported'
  BY DEF Loops, Status, NoSpans, SpansAreExported, Looping, spans
<1>3. Requests' /\ Shaping' /\ CleanExit'
  BY DEF Requests, Shaping, CleanExit, Shaped, latency
<1>4. Collected'
  BY DEF Collected, Looping
<1>5. MeasuredUnderPreset' /\ ReportIsGrid'
  BY DEF MeasuredUnderPreset, ReportIsGrid, invocation
<1> QED
  BY <1>1, <1>2, <1>3, <1>4, <1>5

(* A run succeeds. *)
LEMMA RunCompleteStep == ASSUME BenchInv, RunComplete PROVE BenchInv'
<1> USE DEF BenchInv, RunComplete
<1>1. /\ pi \in 1 .. Len(presets) /\ mi \in 1 .. Len(modes) /\ Len(modes) \in Nat
      /\ Runs /\ pc = "mode" /\ TypeOK
  BY DEF TypeOK, Loops, Runs
<1>2. /\ cells' \in Seq(Cell) /\ Len(cells') = Len(cells) + 1
      /\ \A n \in 1 .. Len(cells) : cells'[n] = cells[n]
      /\ cells'[Len(cells) + 1].preset = presets[pi] /\ cells'[Len(cells) + 1].mode = modes[mi]
      /\ cells'[Len(cells) + 1].full = TRUE
      /\ cells'[Len(cells) + 1].up = toxics["upstream"]
      /\ cells'[Len(cells) + 1].down = toxics["downstream"]
      /\ cells'[Len(cells) + 1].kept = kept
  <2>1. Measured(TRUE) /\ TRUE \in BOOLEAN
    BY Zenon
  <2>2. pi <= Len(presets)
    BY <1>1
  <2> QED
    BY <1>1, <2>1, <2>2, Appended, Zenon
<1>3. TypeOK'
  BY <1>1, <1>2 DEF TypeOK, LatencyTypeOK, SpansTypeOK, latency, spans, invocation
<1>4. Len(cells) \in Nat /\ cells \in Seq(Cell) /\ Len(cells) = (pi - 1) * Len(modes) + mi - 1
  BY <1>1 DEF TypeOK, Collected, Looping
<1>5. /\ Len(cells) \div Len(modes) = pi - 1
      /\ Len(cells) % Len(modes) = mi - 1
  <2> DEFINE a == pi - 1
  <2>1. a \in Nat /\ Len(modes) \in Nat /\ Len(cells) = a * Len(modes) + mi - 1
    BY <1>1, <1>4
  <2> HIDE DEF a
  <2>2. Len(cells) \div Len(modes) = a /\ Len(cells) % Len(modes) = mi - 1
    <3> DEFINE l == Len(modes)
    <3>1. a \in Nat /\ l \in Nat /\ mi \in 1 .. l
      BY <1>1, <2>1
    <3> HIDE DEF l
    <3>2. (a * l + mi - 1) \div l = a /\ (a * l + mi - 1) % l = mi - 1
      BY <3>1, Position, Zenon
    <3> QED
      BY <2>1, <3>2 DEF l
  <2> QED
    BY <2>2 DEF a
<1>6. Gathered(cells)'
  <2> SUFFICES ASSUME NEW n \in 1 .. Len(cells) + 1
               PROVE  /\ cells'[n].full
                      /\ cells'[n].preset = presets[((n - 1) \div Len(modes)) + 1]
                      /\ cells'[n].mode = modes[((n - 1) % Len(modes)) + 1]
    <3>1. DOMAIN cells' = 1 .. Len(cells) + 1 /\ UNCHANGED <<presets, modes>>
      BY <1>2, <1>4 DEF invocation
    <3> QED
      BY <3>1, Zenon DEF Gathered
  <2>1. CASE n = Len(cells) + 1
    <3>1. n - 1 = Len(cells) /\ (pi - 1) + 1 = pi /\ (mi - 1) + 1 = mi
      BY <2>1, <1>1, <1>4
    <3> QED
      BY <3>1, <2>1, <1>2, <1>5
  <2>2. CASE n \in 1 .. Len(cells)
    <3>1. n \in DOMAIN cells /\ cells'[n] = cells[n] /\ Gathered(cells)
      BY <2>2, <1>1, <1>2, <1>4 DEF Collected, Looping
    <3> QED
      BY <3>1, Zenon DEF Gathered
  <2> QED
    BY <2>1, <2>2, <1>4
<1>7. Collected'
  <2>1. Len(cells') = (pi - 1) * Len(modes) + (mi + 1) - 1
    <3> DEFINE row == (pi - 1) * Len(modes)
    <3>1. row \in Int
      BY <1>1
    <3>2. Len(cells) = row + mi - 1
      BY <1>4
    <3> HIDE DEF row
    <3>3. Len(cells') = row + (mi + 1) - 1
      BY <3>1, <3>2, <1>1, <1>2
    <3> QED
      BY <3>3 DEF row
  <2> QED
    BY <2>1, <1>1, <1>6 DEF Collected, invocation
<1>8. Loops' /\ Status' /\ NoSpans' /\ SpansAreExported'
  BY <1>1 DEF Loops, Status, NoSpans, SpansAreExported, invocation
<1>9. Requests' /\ Shaping' /\ CleanExit'
  BY <1>1 DEF Requests, Shaping, CleanExit, Shaped, latency, invocation
<1>10. MeasuredUnderPreset'
  <2> SUFFICES ASSUME client, NEW n \in 1 .. Len(cells) + 1, cells'[n].kept
               PROVE  cells'[n].up = cells'[n].preset /\ cells'[n].down = cells'[n].preset
    BY <1>2, <1>4 DEF MeasuredUnderPreset
  <2>1. kept => toxics["upstream"] = presets[pi] /\ toxics["downstream"] = presets[pi]
    BY <1>1 DEF Shaping, Shaped, Legs
  <2>2. n = Len(cells) + 1 \/ (n \in DOMAIN cells /\ cells'[n] = cells[n])
    BY <1>2, <1>4
  <2> QED
    BY <1>2, <2>1, <2>2 DEF MeasuredUnderPreset
<1>11. ReportIsGrid'
  BY <1>1 DEF Status, Looping, ReportIsGrid
<1> QED
  BY <1>3, <1>7, <1>8, <1>9, <1>10, <1>11

(* A run fails. *)
LEMMA RunFailsStep == ASSUME BenchInv, RunFails PROVE BenchInv'
<1> USE DEF BenchInv, RunFails
<1>1. /\ pi \in 1 .. Len(presets) /\ mi \in 1 .. Len(modes)
      /\ Runs /\ pc = "mode" /\ TypeOK
  BY DEF TypeOK, Loops, Runs
<1>2. \/ UNCHANGED cells
      \/ /\ cells' \in Seq(Cell) /\ Len(cells') = Len(cells) + 1
         /\ \A n \in 1 .. Len(cells) : cells'[n] = cells[n]
         /\ cells'[Len(cells) + 1].preset = presets[pi]
         /\ cells'[Len(cells) + 1].up = toxics["upstream"]
         /\ cells'[Len(cells) + 1].down = toxics["downstream"]
         /\ cells'[Len(cells) + 1].kept = kept
  <2>1. Measured(FALSE) \/ UNCHANGED cells
    OBVIOUS
  <2>2. FALSE \in BOOLEAN /\ pi <= Len(presets)
    BY <1>1
  <2> QED
    BY <1>1, <2>1, <2>2, Appended, Zenon
<1>3. TypeOK'
  BY <1>1, <1>2 DEF TypeOK, LatencyTypeOK, SpansTypeOK, BenchPc, latency, spans, invocation,
     Return
<1>4. Loops' /\ Status' /\ NoSpans' /\ SpansAreExported' /\ Collected'
  BY <1>1 DEF Loops, Status, NoSpans, SpansAreExported, Collected, Looping, Return
<1>5. Requests' /\ Shaping' /\ CleanExit'
  BY <1>1 DEF Requests, Shaping, CleanExit, latency, invocation, Return
<1>6. cells \in Seq(Cell) /\ Len(cells) \in Nat
  BY <1>1 DEF TypeOK
<1>7. MeasuredUnderPreset'
  <2>1. CASE UNCHANGED cells
    BY <2>1 DEF MeasuredUnderPreset
  <2>2. CASE ~UNCHANGED cells
    <3> SUFFICES ASSUME client, NEW n \in 1 .. Len(cells) + 1, cells'[n].kept
                 PROVE  cells'[n].up = cells'[n].preset /\ cells'[n].down = cells'[n].preset
      BY <1>2, <1>6, <2>2 DEF MeasuredUnderPreset
    <3>1. kept => toxics["upstream"] = presets[pi] /\ toxics["downstream"] = presets[pi]
      BY <1>1 DEF Shaping, Shaped, Legs
    <3>2. n = Len(cells) + 1 \/ (n \in DOMAIN cells /\ cells'[n] = cells[n])
      BY <1>2, <1>6, <2>2
    <3> QED
      BY <1>2, <2>2, <3>1, <3>2 DEF MeasuredUnderPreset
  <2> QED
    BY <2>1, <2>2
<1>8. ReportIsGrid'
  BY <1>1 DEF Status, Looping, ReportIsGrid
<1> QED
  BY <1>3, <1>4, <1>5, <1>7, <1>8

(* A span ends. *)
LEMMA IterationRecordedStep == ASSUME BenchInv, IterationRecorded PROVE BenchInv'
<1> USE DEF BenchInv, IterationRecorded
<1>1. SpansTypeOK'
  <2>1. queued' \in 0 .. QueueCap
    BY QueueCapAssumption DEF TypeOK, SpansTypeOK, SpanEnds
  <2>2. enabled' \in BOOLEAN /\ dropped' \in BOOLEAN
    BY Zenon DEF TypeOK, SpansTypeOK, SpanEnds
  <2> QED
    BY <2>1, <2>2 DEF SpansTypeOK
<1>2. TypeOK'
  BY <1>1 DEF TypeOK, LatencyTypeOK, latency, invocation
<1>3. Loops' /\ Status' /\ NoSpans' /\ SpansAreExported'
  BY QueueCapAssumption DEF Loops, Status, NoSpans, SpansAreExported, invocation, Runs
<1>4. Requests' /\ Shaping' /\ CleanExit'
  BY DEF Requests, Shaping, CleanExit, Shaped, latency, invocation
<1>5. Collected'
  BY DEF Collected, Gathered, invocation
<1>6. MeasuredUnderPreset' /\ ReportIsGrid'
  BY DEF MeasuredUnderPreset, ReportIsGrid, invocation
<1> QED
  BY <1>2, <1>3, <1>4, <1>5, <1>6

(* A batch is exported. *)
LEMMA BatchExportedStep == ASSUME BenchInv, BatchExported PROVE BenchInv'
<1> USE DEF BenchInv, BatchExported
<1>1. SpansTypeOK'
  <2>1. queued' \in 0 .. QueueCap
    BY QueueCapAssumption DEF TypeOK, SpansTypeOK, Export
  <2>2. enabled' \in BOOLEAN /\ dropped' \in BOOLEAN
    BY Zenon DEF TypeOK, SpansTypeOK, Export
  <2> QED
    BY <2>1, <2>2 DEF SpansTypeOK
<1>2. TypeOK'
  BY <1>1 DEF TypeOK, LatencyTypeOK, latency, invocation
<1>3. queued # 0 /\ (dropped => dropped')
  <2>1. queued # 0
    BY QueueCapAssumption DEF Export
  <2>2. dropped => dropped'
    BY Zenon DEF Export
  <2> QED
    BY <2>1, <2>2
<1>4. Loops' /\ Status' /\ NoSpans' /\ SpansAreExported'
  BY <1>3 DEF Loops, Status, NoSpans, SpansAreExported, invocation
<1>5. Requests' /\ Shaping' /\ CleanExit'
  BY DEF Requests, Shaping, CleanExit, Shaped, latency, invocation
<1>6. Collected'
  BY DEF Collected, Gathered, invocation
<1>7. MeasuredUnderPreset' /\ ReportIsGrid'
  BY DEF MeasuredUnderPreset, ReportIsGrid, invocation
<1> QED
  BY <1>2, <1>4, <1>5, <1>6, <1>7

(* The context ends. *)
LEMMA CancelStep == ASSUME BenchInv, Cancel PROVE BenchInv'
<1> USE DEF BenchInv, Cancel
<1>1. TypeOK'
  BY DEF TypeOK, LatencyTypeOK, SpansTypeOK, latency, spans, invocation
<1>2. Loops' /\ Status' /\ NoSpans' /\ SpansAreExported'
  BY DEF Loops, Status, NoSpans, SpansAreExported, spans, invocation
<1>3. Requests' /\ Shaping' /\ CleanExit'
  BY DEF Requests, Shaping, CleanExit, Shaped, latency, invocation
<1>4. Collected'
  BY DEF Collected, Gathered, invocation
<1>5. MeasuredUnderPreset' /\ ReportIsGrid'
  BY DEF MeasuredUnderPreset, ReportIsGrid, invocation
<1> QED
  BY <1>1, <1>2, <1>3, <1>4, <1>5

(* The process is killed. *)
LEMMA KillStep == ASSUME BenchInv, Kill PROVE BenchInv'
<1> USE DEF BenchInv, Kill
<1>1. toxics' \in [Legs -> Delay]
  BY EffectsType DEF TypeOK
<1>2. TypeOK'
  <2>1. LatencyTypeOK' /\ SpansTypeOK'
    BY <1>1, NoSpansType DEF TypeOK, LatencyTypeOK
  <2> QED
    BY <2>1 DEF TypeOK, BenchPc, invocation
<1>3. Loops' /\ Status' /\ NoSpans' /\ SpansAreExported'
  BY DEF Loops, Status, NoSpans, SpansAreExported, Looping
<1>4. Requests' /\ Shaping' /\ CleanExit'
  BY DEF Legs, Requests, Shaping, CleanExit
<1>5. Collected'
  BY DEF Collected, Looping
<1>6. MeasuredUnderPreset' /\ ReportIsGrid'
  BY DEF MeasuredUnderPreset, ReportIsGrid, invocation
<1> QED
  BY <1>2, <1>3, <1>4, <1>5, <1>6

(* toxiproxy restarts. *)
LEMMA ProxyRestartsStep == ASSUME BenchInv, ProxyRestarts PROVE BenchInv'
<1> USE DEF BenchInv, ProxyRestarts
<1>1. TypeOK'
  <2>1. LatencyTypeOK' /\ SpansTypeOK'
    BY DEF TypeOK, LatencyTypeOK, SpansTypeOK, spans, Delay
  <2>2. restarts' \in 0 .. MaxRestarts
    BY BoundsAssumption DEF TypeOK
  <2> QED
    BY <2>1, <2>2 DEF TypeOK
<1>2. Loops' /\ Status' /\ NoSpans' /\ SpansAreExported'
  BY DEF Loops, Status, NoSpans, SpansAreExported, spans
<1>3. Requests' /\ Shaping' /\ CleanExit'
  BY DEF Legs, Requests, Shaping, CleanExit, Shaped
<1>4. Collected'
  BY DEF Collected, Gathered
<1>5. MeasuredUnderPreset' /\ ReportIsGrid'
  BY DEF MeasuredUnderPreset, ReportIsGrid
<1> QED
  BY <1>1, <1>2, <1>3, <1>4, <1>5

---------------------------------------------------------------------------
(* The requests of Apply and Clear. *)

(* A call lists the toxics. *)
LEMMA ListStep == ASSUME BenchInv, ProxyRequest, List PROVE BenchInv'
<1> USE DEF BenchInv, ProxyRequest
<1>1. TypeOK'
  BY DEF TypeOK, LatencyTypeOK, SpansTypeOK, spans, invocation, List, ClearedThen, Finish
<1>2. Requests'
  BY DEF Legs, Requests, Shaped, List, ClearedThen, Finish
<1>3. Shaping' /\ CleanExit'
  BY DEF Shaping, CleanExit, invocation, List
<1>4. /\ Loops' /\ Status' /\ NoSpans' /\ SpansAreExported'
      /\ Collected' /\ MeasuredUnderPreset' /\ ReportIsGrid'
  BY DEF Loops, Status, NoSpans, SpansAreExported, Collected, Gathered, MeasuredUnderPreset,
     ReportIsGrid, spans, invocation
<1> QED
  BY <1>1, <1>2, <1>3, <1>4

(* A toxic is removed. *)
LEMMA RemoveStep == ASSUME BenchInv, ProxyRequest, Remove PROVE BenchInv'
<1> USE DEF BenchInv, ProxyRequest
<1>1. TypeOK'
  BY DEF TypeOK, LatencyTypeOK, SpansTypeOK, Delay, spans, invocation, Remove, ClearedThen,
     Finish
<1>2. Requests'
  BY DEF TypeOK, LatencyTypeOK, Legs, Requests, Shaped, Remove, ClearedThen, Finish
<1>3. Shaping' /\ CleanExit'
  BY DEF Shaping, CleanExit, invocation, Remove
<1>4. /\ Loops' /\ Status' /\ NoSpans' /\ SpansAreExported'
      /\ Collected' /\ MeasuredUnderPreset' /\ ReportIsGrid'
  BY DEF Loops, Status, NoSpans, SpansAreExported, Collected, Gathered, MeasuredUnderPreset,
     ReportIsGrid, spans, invocation
<1> QED
  BY <1>1, <1>2, <1>3, <1>4

(* A toxic is added. *)
LEMMA AddStep == ASSUME BenchInv, ProxyRequest, Add PROVE BenchInv'
<1> USE DEF BenchInv, ProxyRequest
<1>1. TypeOK'
  BY DEF TypeOK, LatencyTypeOK, SpansTypeOK, spans, invocation, Add, Finish
<1>2. Requests'
  BY DEF TypeOK, LatencyTypeOK, Legs, Requests, Shaping, Shaped, invocation, Add, Finish
<1>3. Shaping' /\ CleanExit'
  BY DEF Shaping, CleanExit, invocation, Add
<1>4. /\ Loops' /\ Status' /\ NoSpans' /\ SpansAreExported'
      /\ Collected' /\ MeasuredUnderPreset' /\ ReportIsGrid'
  BY DEF Loops, Status, NoSpans, SpansAreExported, Collected, Gathered, MeasuredUnderPreset,
     ReportIsGrid, spans, invocation
<1> QED
  BY <1>1, <1>2, <1>3, <1>4

(* A request fails. *)
LEMMA RequestFailsStep == ASSUME BenchInv, ProxyRequest, RequestFails PROVE BenchInv'
<1> USE DEF BenchInv, ProxyRequest
<1>1. TypeOK'
  BY EffectsType DEF TypeOK, LatencyTypeOK, SpansTypeOK, spans, invocation, RequestFails, Finish
<1>2. Requests'
  BY EffectsType DEF Legs, Requests, RequestFails, Finish
<1>3. Shaping' /\ CleanExit'
  BY DEF Shaping, CleanExit, invocation, RequestFails
<1>4. /\ Loops' /\ Status' /\ NoSpans' /\ SpansAreExported'
      /\ Collected' /\ MeasuredUnderPreset' /\ ReportIsGrid'
  BY DEF Loops, Status, NoSpans, SpansAreExported, Collected, Gathered, MeasuredUnderPreset,
     ReportIsGrid, spans, invocation
<1> QED
  BY <1>1, <1>2, <1>3, <1>4

---------------------------------------------------------------------------
(* BenchInv is an invariant of the specification. *)
LEMMA BenchInitial == ASSUME Init PROVE BenchInv
<1> USE DEF Init, LatencyInit, SpansInit
<1>1. TypeOK
  <2>1. LatencyTypeOK
    BY DEF LatencyTypeOK, Delay
  <2>2. queued \in 0 .. QueueCap /\ starts \in 0 .. MaxStarts /\ restarts \in 0 .. MaxRestarts
    BY QueueCapAssumption, BoundsAssumption
  <2>3. enabled \in BOOLEAN /\ dropped \in BOOLEAN /\ client \in BOOLEAN /\ kept \in BOOLEAN
    BY Zenon
  <2>4. /\ presets \in Seq(Delay) /\ modes \in Seq(ModeNames)
        /\ cells \in Seq(Cell) /\ report \in Seq(Cell)
        /\ pi \in 1 .. Len(presets) + 1 /\ mi \in 1 .. Len(modes) + 1
    OBVIOUS
  <2> QED
    BY <2>1, <2>2, <2>3, <2>4 DEF TypeOK, SpansTypeOK, BenchPc
<1> QED
  BY <1>1 DEF BenchInv, Loops, Collected, Status, Requests, Shaping, NoSpans, Looping, Legs,
     MeasuredUnderPreset, ReportIsGrid, CleanExit, SpansAreExported

(* Steps that change nothing keep it. *)
LEMMA BenchStutter == ASSUME BenchInv, UNCHANGED vars PROVE BenchInv'
BY DEF BenchInv, vars, latency, spans, invocation, TypeOK, LatencyTypeOK, SpansTypeOK, Loops,
   Collected, Gathered, Status, Requests, Shaping, Shaped, NoSpans, MeasuredUnderPreset,
   ReportIsGrid, CleanExit, SpansAreExported

(* The steps of runBench itself keep it. *)
LEMMA OwnStepInvariant == ASSUME BenchInv, OwnStep PROVE BenchInv'
<1>1. CASE ProxyRequest
  BY <1>1, ListStep, RemoveStep, AddStep, RequestFailsStep DEF ProxyRequest, LatencyStep
<1>2. CASE OwnStep /\ ~ProxyRequest
  BY <1>2, NewClientStep, NewClientFailsStep, TracingSetupStep, TracingSetupFailsStep,
     NextPresetStep, AppliedStep, PresetDoneStep, UnknownModeStep, EmitReportStep,
     EmitReportFailsStep, ShutdownStep, ClearStep, ExitStep
  DEF OwnStep
<1> QED
  BY <1>1, <1>2

(* All of them: BenchInv holds in every reachable state, for all constants. *)
THEOREM BenchInvariant == Spec => []BenchInv
<1>1. Init => BenchInv
  BY BenchInitial
<1>2. BenchInv /\ [Next]_vars => BenchInv'
  <2> SUFFICES ASSUME BenchInv, [Next]_vars PROVE BenchInv'
    OBVIOUS
  <2>1. CASE OwnStep
    BY <2>1, OwnStepInvariant
  <2>2. CASE RunnerRun
    BY <2>2, RunCompleteStep, RunFailsStep DEF RunnerRun
  <2>3. CASE Start \/ IterationRecorded \/ BatchExported \/ Cancel \/ Kill \/ ProxyRestarts
    BY <2>3, StartStep, IterationRecordedStep, BatchExportedStep, CancelStep, KillStep,
       ProxyRestartsStep
  <2>4. CASE Done \/ UNCHANGED vars
    BY <2>4, BenchStutter DEF Done
  <2> QED
    BY <2>1, <2>2, <2>3, <2>4 DEF Next
<1> QED
  BY <1>1, <1>2, PTL DEF Spec, Safety

(* Every variable keeps its type, and the proxy is asked for something     *)
(* only inside Apply and Clear.                                            *)
THEOREM BenchTypeCorrect == Spec => []TypeOK
<1>1. BenchInv => TypeOK
  BY DEF BenchInv
<1> QED
  BY <1>1, BenchInvariant, PTL

(* A cell of an invocation with a client was measured under its preset.    *)
THEOREM MeasuredUnderPresetCorrect == Spec => []MeasuredUnderPreset
<1>1. BenchInv => MeasuredUnderPreset
  BY DEF BenchInv
<1> QED
  BY <1>1, BenchInvariant, PTL

(* A report holds the whole grid, in order and measured to the end.        *)
THEOREM ReportIsGridCorrect == Spec => []ReportIsGrid
<1>1. BenchInv => ReportIsGrid
  BY DEF BenchInv
<1> QED
  BY <1>1, BenchInvariant, PTL

(* A process that returns and whose last Clear succeeded leaves no toxics. *)
THEOREM CleanExitCorrect == Spec => []CleanExit
<1>1. BenchInv => CleanExit
  BY DEF BenchInv
<1> QED
  BY <1>1, BenchInvariant, PTL

(* Spans stay behind in a process that returns only if one was given up.   *)
THEOREM SpansAreExportedCorrect == Spec => []SpansAreExported
<1>1. BenchInv => SpansAreExported
  BY DEF BenchInv
<1> QED
  BY <1>1, BenchInvariant, PTL
=============================================================================
