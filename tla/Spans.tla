------------------------------- MODULE Spans -------------------------------
(***************************************************************************)
(* tracing.Provider (internal/tracing/tracing.go) and the batch span       *)
(* processor of the OpenTelemetry SDK behind it (external): iterations end *)
(* spans into a bounded queue, a goroutine of the SDK exports them in      *)
(* batches, and Shutdown exports the rest in the time it is given.         *)
(***************************************************************************)
EXTENDS Integers

CONSTANT QueueCap   \* spans the queue holds, 2048 by default

ASSUME QueueCapAssumption == QueueCap \in Nat \ {0}

VARIABLES
    enabled,    \* an --otlp-endpoint was given
    queued,     \* spans that have ended and are not exported
    dropped     \* a span was given up: full queue, failed export, Shutdown out of time

spans == <<enabled, queued, dropped>>

SpansTypeOK ==
    /\ enabled \in BOOLEAN
    /\ queued \in 0 .. QueueCap
    /\ dropped \in BOOLEAN

SpansInit == enabled = FALSE /\ queued = 0 /\ dropped = FALSE

(* A new process, and Setup, which is disabled without an endpoint. *)
NoProvider == enabled' = FALSE /\ queued' = 0 /\ dropped' = FALSE
Setup == enabled' \in BOOLEAN /\ queued' = 0 /\ dropped' = FALSE

(* span.End(): a full queue does not block the iteration. *)
SpanEnds ==
    /\ enabled
    /\ IF queued < QueueCap THEN queued' = queued + 1 /\ UNCHANGED dropped
                            ELSE dropped' = TRUE /\ UNCHANGED queued
    /\ UNCHANGED enabled

(* A batch reaches the collector or is given up. *)
Export ==
    /\ queued > 0
    /\ queued' \in 0 .. queued - 1
    /\ dropped' \in {dropped, TRUE}
    /\ UNCHANGED enabled

(* Shutdown returns when the queue is empty or its time is up. *)
Flushed == queued = 0 /\ UNCHANGED spans
FlushTimesOut == queued > 0 /\ dropped' = TRUE /\ UNCHANGED <<enabled, queued>>
=============================================================================
