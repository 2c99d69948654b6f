---------------------------- MODULE SpanPipeline ----------------------------
(***************************************************************************)
(* The telemetry resource and its bounded span processor                   *)
(* (internal/kernel/app/observability/telemetry.go): requests and work end *)
(* spans into a bounded queue, one goroutine collects and exports them,    *)
(* and the finalizer flushes and shuts down with a deadline. The kernel    *)
(* finalizes only what is drained, so no span is open by then, and also a  *)
(* candidate whose start was refused. The OTLP exporter and the provider   *)
(* of OpenTelemetry are external.                                          *)
(***************************************************************************)
EXTENDS Naturals, FiniteSets, Sequences

CONSTANTS
    Spans,      \* the sampled spans that may ever be opened
    QueueSize,  \* Tracing.QueueSize
    BatchSize   \* Tracing.BatchSize

ASSUME SizesAssumption == QueueSize \in Nat \ {0} /\ BatchSize \in Nat \ {0}

VARIABLES
    telemetry,  \* built, started or refused
    span,       \* idle, open or ended
    spanQueue,  \* boundedProcessor.queue
    spanBatch,  \* the batch of run
    runner,     \* the goroutine of run
    purpose,    \* what it drains or exports for
    exported, dropped, \* the spans that .exported and .dropped count
    stopClosed, \* .stop
    finalizer,  \* stopTelemetry
    flushed     \* its ForceFlush was answered

spanVars == <<telemetry, span, spanQueue, spanBatch, runner, purpose, exported, dropped, stopClosed, finalizer, flushed>>

SpanTypeOK ==
    /\ telemetry \in {"built", "started", "refused"}
    /\ span \in [Spans -> {"idle", "open", "ended"}]
    /\ spanQueue \in Seq(Spans) /\ Len(spanQueue) <= QueueSize
    /\ spanBatch \in Seq(Spans)
    /\ runner \in {"absent", "selecting", "draining", "exporting", "closing", "done"}
    /\ purpose \in {"full", "tick", "flush", "stop"}
    /\ exported \subseteq Spans /\ dropped \subseteq Spans
    /\ stopClosed \in BOOLEAN /\ flushed \in BOOLEAN
    /\ finalizer \in {"none", "flush", "flushing", "shutdown", "closing", "over", "late"}

SpanInit ==
    /\ telemetry = "built"
    /\ span = [s \in Spans |-> "idle"]
    /\ spanQueue = <<>> /\ spanBatch = <<>>
    /\ runner = "absent" /\ purpose = "tick"
    /\ exported = {} /\ dropped = {}
    /\ stopClosed = FALSE /\ finalizer = "none" /\ flushed = FALSE

-----------------------------------------------------------------------------
(* The resource and those who use it.                                      *)

StartTelemetry ==
    /\ telemetry = "built"
    /\ telemetry' = "started" /\ runner' = "selecting"
    /\ UNCHANGED <<span, spanQueue, spanBatch, purpose, exported, dropped, stopClosed, finalizer, flushed>>

\* The context has ended before start: run never begins.
StartRefused ==
    /\ telemetry = "built"
    /\ telemetry' = "refused"
    /\ UNCHANGED <<span, spanQueue, spanBatch, runner, purpose, exported, dropped, stopClosed, finalizer, flushed>>

\* serveHTTP and observe, inside Use.
OpenSpan(s) ==
    /\ telemetry = "started" /\ finalizer = "none" /\ span[s] = "idle"
    /\ span' = [span EXCEPT ![s] = "open"]
    /\ UNCHANGED <<telemetry, spanQueue, spanBatch, runner, purpose, exported, dropped, stopClosed, finalizer, flushed>>

\* OnEnd never waits: a full queue drops the span and counts it.
EndSpan(s) ==
    /\ span[s] = "open"
    /\ span' = [span EXCEPT ![s] = "ended"]
    /\ IF Len(spanQueue) < QueueSize
       THEN spanQueue' = Append(spanQueue, s) /\ UNCHANGED dropped
       ELSE dropped' = dropped \cup {s} /\ UNCHANGED spanQueue
    /\ UNCHANGED <<telemetry, spanBatch, runner, purpose, exported, stopClosed, finalizer, flushed>>

-----------------------------------------------------------------------------
(* run: one select at a time.                                              *)

runnerRest == <<telemetry, span, stopClosed, finalizer, flushed>>

TakeSpan ==
    /\ runner = "selecting" /\ spanQueue # <<>>
    /\ spanBatch' = Append(spanBatch, Head(spanQueue))
    /\ spanQueue' = Tail(spanQueue)
    /\ IF Len(spanBatch') >= BatchSize
       THEN runner' = "exporting" /\ purpose' = "full"
       ELSE UNCHANGED <<runner, purpose>>
    /\ UNCHANGED <<exported, dropped, runnerRest>>

Tick ==
    /\ runner = "selecting" /\ spanBatch # <<>>
    /\ runner' = "exporting" /\ purpose' = "tick"
    /\ UNCHANGED <<spanQueue, spanBatch, exported, dropped, runnerRest>>

\* The finalizer's ForceFlush is taken.
TakeFlush ==
    /\ runner = "selecting" /\ finalizer = "flush"
    /\ runner' = "draining" /\ purpose' = "flush"
    /\ finalizer' = "flushing"
    /\ UNCHANGED <<telemetry, span, spanQueue, spanBatch, exported, dropped, stopClosed, flushed>>

TakeStop ==
    /\ runner = "selecting" /\ stopClosed
    /\ runner' = "draining" /\ purpose' = "stop"
    /\ UNCHANGED <<spanQueue, spanBatch, exported, dropped, runnerRest>>

\* drain takes what the queue holds, and what comes meanwhile.
Drain ==
    /\ runner = "draining"
    /\ IF spanQueue = <<>>
       THEN runner' = "exporting" /\ UNCHANGED <<spanBatch, spanQueue>>
       ELSE /\ spanBatch' = Append(spanBatch, Head(spanQueue))
            /\ spanQueue' = Tail(spanQueue)
            /\ UNCHANGED runner
    /\ UNCHANGED <<purpose, exported, dropped, runnerRest>>

\* Back to select; the flush is answered, the stop goes on to the exporter.
Emptied ==
    /\ runner = "exporting"
    /\ spanBatch' = <<>>
    /\ runner' = IF purpose = "stop" THEN "closing" ELSE "selecting"
    /\ flushed' = (flushed \/ purpose = "flush")
    /\ UNCHANGED <<telemetry, span, spanQueue, purpose, stopClosed, finalizer>>

Export ==
    /\ Emptied
    /\ exported' = exported \cup {spanBatch[i] : i \in DOMAIN spanBatch}
    /\ UNCHANGED dropped

\* Faulty run: a batch that was not exported is kept although it is counted.
ExportFailsKeeping ==
    /\ runner = "exporting" /\ spanBatch # <<>>
    /\ dropped' = dropped \cup {spanBatch[i] : i \in DOMAIN spanBatch}
    /\ runner' = IF purpose = "stop" THEN "closing" ELSE "selecting"
    /\ flushed' = (flushed \/ purpose = "flush")
    /\ UNCHANGED <<telemetry, span, spanQueue, spanBatch, purpose, stopClosed, finalizer, exported>>

\* The exporter fails or runs out of ExportTimeout: no second try.
ExportFails ==
    /\ spanBatch # <<>> /\ Emptied
    /\ dropped' = dropped \cup {spanBatch[i] : i \in DOMAIN spanBatch}
    /\ UNCHANGED exported

\* exporter.Shutdown, for at most ShutdownTimeout, and close(done).
ExporterCloses ==
    /\ runner = "closing"
    /\ runner' = "done"
    /\ UNCHANGED <<spanQueue, spanBatch, purpose, exported, dropped, runnerRest>>

-----------------------------------------------------------------------------
(* stopTelemetry.                                                          *)

stopRest == <<telemetry, span, spanQueue, spanBatch, runner, purpose, exported, dropped>>

\* The kernel finalizes a drained instance, or a refused candidate.
BeginTelemetryStop ==
    /\ finalizer = "none" /\ telemetry # "built"
    /\ \A s \in Spans : span[s] # "open"
    /\ finalizer' = "flush"
    /\ UNCHANGED <<stopClosed, flushed, stopRest>>

\* ForceFlush is answered.
FlushReturns ==
    /\ finalizer = "flushing" /\ flushed
    /\ finalizer' = "shutdown"
    /\ UNCHANGED <<stopClosed, flushed, stopRest>>

\* provider.Shutdown passes on to the processor, which closes stop.
Shutdown ==
    /\ finalizer = "shutdown"
    /\ stopClosed' = TRUE
    /\ finalizer' = "closing"
    /\ UNCHANGED <<flushed, stopRest>>

\* The context ends during ForceFlush. The provider may see that the context
\* has ended and not pass the shutdown on.
FlushGivesUp ==
    /\ finalizer \in {"flush", "flushing"}
    /\ finalizer' = "late"
    /\ stopClosed' \in BOOLEAN
    /\ UNCHANGED <<flushed, stopRest>>

ShutdownReturns ==
    /\ finalizer = "closing" /\ runner = "done"
    /\ finalizer' = "over"
    /\ UNCHANGED <<stopClosed, flushed, stopRest>>

ShutdownGivesUp ==
    /\ finalizer = "closing"
    /\ finalizer' = "late"
    /\ UNCHANGED <<stopClosed, flushed, stopRest>>

SpanNext ==
    \/ StartTelemetry \/ StartRefused
    \/ \E s \in Spans : OpenSpan(s) \/ EndSpan(s)
    \/ TakeSpan \/ Tick \/ TakeFlush \/ TakeStop \/ Drain \/ Export \/ ExportFails \/ ExporterCloses
    \/ BeginTelemetryStop \/ FlushReturns \/ Shutdown \/ FlushGivesUp \/ ShutdownReturns \/ ShutdownGivesUp

SpanSpec == SpanInit /\ [][SpanNext]_spanVars

-----------------------------------------------------------------------------
(* Properties.                                                             *)

Ended == {s \in Spans : span[s] = "ended"}

\* Every span that ended is waiting in one place, or was exported, or was
\* counted as dropped, and only one of these: DroppedSpans and ExportedSpans
\* of Diagnostics add up. A flush that was answered has left none that ended
\* before it, and neither has the goroutine when it is done, whatever ended
\* while it drained and however its exports went.
SpansAreSettled ==
    /\ SpanTypeOK
    /\ Len(spanQueue) + Len(spanBatch) + Cardinality(exported) + Cardinality(dropped) = Cardinality(Ended)
    /\ exported \cap dropped = {}
    /\ flushed \/ runner = "done" => exported \cup dropped = Ended
    /\ finalizer = "over" => runner = "done" /\ flushed
=============================================================================
