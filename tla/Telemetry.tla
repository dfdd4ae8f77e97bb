------------------------------ MODULE Telemetry -----------------------------
(***************************************************************************)
(* Spans and metrics of a process.                                         *)
(***************************************************************************)
EXTENDS Integers, Sequences, FiniteSets

(***************************************************************************)
(* Trace spans.  A TraceSpan starts its span with a CompositeTraceSink of  *)
(* the hung-span watchdog (TraceSinkImpl) and of the exporter              *)
(* (OtelTraceSink), and ends it when it is destroyed.  Spans start and end *)
(* on any thread, the watchdog's timers fire on the executor's.  A mutex   *)
(* is held for one step; what a handler does outside of it is another.     *)
(***************************************************************************)
CONSTANTS
  Holders,    \* places that hold a TraceSpan, each used by one thread
  MaxSpans    \* bound: spans started in a behaviour

VARIABLES
  timeout_,       \* the watchdog is enabled
  started,        \* the number of spans started; a span is its number
  holder,         \* the span of each TraceSpan, 0 when it was moved out
  closing,        \* of each holder: the span EndSpan works on, and how far it is
  active_spans_,  \* the spans the watchdog watches
  wait,           \* of each span: its steady_timer
  late,           \* the spans whose time-out handler took them off
  warned,         \* the spans OnTimeout wrote a warning about
  spans_,         \* the live spans of the exporter
  context,        \* of each span: trace and parent, as exported
  ended,          \* the spans whose EndSpan is complete
  core_           \* the sink has not been destroyed

uvars == <<timeout_, started, holder, closing, active_spans_, wait, late, warned,
           spans_, context, ended, core_>>

Spans == 1..MaxSpans
None == 0

-----------------------------------------------------------------------------
(* W3C traceparents: version, ids and separators as the text has them *)

Context(trace, parent) == [trace |-> trace, parent |-> parent]

Text(version, trace, span, shape) ==
  [version |-> version, trace |-> trace, span |-> span, shape |-> shape]

\* shape: of the right length, with its separators, in lowercase hex digits.
ParseTraceParent(text) ==
  IF text.shape # "w3c" THEN <<>>
  ELSE IF text.version # "00" THEN <<>>
  ELSE IF text.trace = 0 \/ text.span = 0 THEN <<>>
  ELSE <<Context(text.trace, text.span)>>

FormatTraceParent(trace, span) == Text("00", trace, span, "w3c")

\* No traceparent, a legacy id, and ones that the standard calls invalid.
OtherTexts == {Text("", 0, 0, "empty"), Text("", 0, 0, "uuid"),
               Text("01", 1, 1, "w3c"), Text("00", 1, 0, "w3c")}

\* OtelTraceSink::GetTraceParent of a live span.
GetTraceParent(s) ==
  IF s \in spans_ THEN FormatTraceParent(context[s].trace, s)
  ELSE Text("", 0, 0, "empty")

-----------------------------------------------------------------------------

NotClosing == [span |-> None, at |-> "no"]

UInit ==
  /\ timeout_ \in BOOLEAN /\ started = 0 /\ core_ = TRUE
  /\ holder = [h \in Holders |-> None]
  /\ closing = [h \in Holders |-> NotClosing]
  /\ active_spans_ = {} /\ late = {} /\ warned = {} /\ spans_ = {} /\ ended = {}
  /\ wait = [s \in Spans |-> "none"]
  /\ context = [s \in Spans |-> Context(0, 0)]

Free(h) == core_ /\ holder[h] = None /\ closing[h] = NotClosing

\* OtelTraceSink::StartSpan: a live local parent wins over the remote one.
Parented(s, parent, remote) ==
  IF parent \in spans_ THEN Context(context[parent].trace, parent)
  ELSE IF ParseTraceParent(remote) # <<>> THEN Head(ParseTraceParent(remote))
  ELSE Context(s, None)

\* TraceSinkImpl::Core::StartSpan: watched, and its wait armed.
Watch(s) ==
  IF timeout_
  THEN /\ active_spans_' = active_spans_ \cup {s}
       /\ wait' = [wait EXCEPT ![s] = "armed"]
  ELSE UNCHANGED <<active_spans_, wait>>

\* CompositeTraceSink::StartSpan: the watchdog, then the exporter.
StartInSinks(s, parent, remote) ==
  /\ Watch(s)
  /\ spans_' = spans_ \cup {s}
  /\ context' = [context EXCEPT ![s] = Parented(s, parent, remote)]

\* The TraceSpan constructor; the span is its holder's alone until it returns.
StartSpan(h, parent, remote) ==
  /\ Free(h) /\ started < MaxSpans
  /\ LET s == started + 1
     IN /\ started' = s
        /\ holder' = [holder EXCEPT ![h] = s]
        /\ StartInSinks(s, parent, remote)
  /\ UNCHANGED <<timeout_, closing, late, warned, ended, core_>>

\* TraceSpan::traceparent, empty when the span was moved out.
traceparent(h) ==
  IF holder[h] = None THEN Text("", 0, 0, "empty") ELSE GetTraceParent(holder[h])

\* Tracer::StartSpan, of a request whose traceparent came from another process
\* or from a span of this one.
StartRoot(h) ==
  \E remote \in OtherTexts \cup {traceparent(from) : from \in Holders} :
    StartSpan(h, None, remote)

\* TraceSpan::StartSpan on a span that was not moved out.
StartChild(h, of) ==
  holder[of] # None /\ StartSpan(h, holder[of], Text("", 0, 0, "empty"))

\* The moves of a TraceSpan.  Assigning over a span does not end it.
Move(from, to) ==
  /\ from # to /\ holder[from] # None /\ closing[to] = NotClosing
  /\ holder' = [holder EXCEPT ![to] = holder[from], ![from] = None]
  /\ UNCHANGED <<timeout_, started, closing, active_spans_, wait, late, warned,
                 spans_, context, ended, core_>>

\* ~TraceSpan, in the watchdog: under the mutex the span is taken off.
EndSpan(h) ==
  /\ holder[h] # None /\ holder' = [holder EXCEPT ![h] = None]
  /\ LET s == holder[h]
     IN /\ closing' = [closing EXCEPT ![h] =
               [span |-> s, at |-> IF s \in active_spans_ THEN "cancel" ELSE "export"]]
        /\ active_spans_' = active_spans_ \ {s}
  /\ UNCHANGED <<timeout_, started, wait, late, warned, spans_, context, ended, core_>>

\* A wait that has fired can no longer be cancelled.
Cancelled(s) == IF wait[s] = "armed" THEN "aborted" ELSE wait[s]

\* Outside the mutex the wait is cancelled.
CancelTimer(h) ==
  /\ closing[h].at = "cancel"
  /\ wait' = [wait EXCEPT ![closing[h].span] = Cancelled(closing[h].span)]
  /\ closing' = [closing EXCEPT ![h].at = "export"]
  /\ UNCHANGED <<timeout_, started, holder, active_spans_, late, warned, spans_,
                 context, ended, core_>>

\* OtelTraceSink::EndSpan: taken off under its mutex, then ended.
ExportSpan(h) ==
  /\ closing[h].at = "export"
  /\ spans_' = spans_ \ {closing[h].span}
  /\ ended' = ended \cup {closing[h].span}
  /\ closing' = [closing EXCEPT ![h] = NotClosing]
  /\ UNCHANGED <<timeout_, started, holder, active_spans_, wait, late, warned,
                 context, core_>>

\* The time-out of a span that may still be running.
TimerFires(s) ==
  /\ wait[s] = "armed" /\ wait' = [wait EXCEPT ![s] = "fired"]
  /\ UNCHANGED <<timeout_, started, holder, closing, active_spans_, late, warned,
                 spans_, context, ended, core_>>

\* The handler of the wait: nothing when it was aborted or the sink is gone;
\* under the mutex a span still watched is taken off.
WaitDone(s) ==
  /\ wait[s] \in {"fired", "aborted"} /\ wait' = [wait EXCEPT ![s] = "done"]
  /\ IF wait[s] = "fired" /\ core_ /\ s \in active_spans_
     THEN active_spans_' = active_spans_ \ {s} /\ late' = late \cup {s}
     ELSE UNCHANGED <<active_spans_, late>>
  /\ UNCHANGED <<timeout_, started, holder, closing, warned, spans_, context, ended,
                 core_>>

\* Outside the mutex the span is reported; the handler keeps the Core until then.
OnTimeout(s) ==
  /\ s \in late /\ late' = late \ {s} /\ warned' = warned \cup {s}
  /\ UNCHANGED <<timeout_, started, holder, closing, active_spans_, wait, spans_,
                 context, ended, core_>>

\* The sink outlives the TraceSpans that refer to it.  ~Core cancels the waits
\* of the spans that nobody ends.
DestroySink ==
  /\ core_ /\ core_' = FALSE /\ late = {}
  /\ \A h \in Holders : holder[h] = None /\ closing[h] = NotClosing
  /\ active_spans_' = {}
  /\ wait' = [s \in Spans |-> IF s \in active_spans_ THEN Cancelled(s) ELSE wait[s]]
  /\ UNCHANGED <<timeout_, started, holder, closing, late, warned, spans_, context,
                 ended>>

UNext ==
  \/ \E h \in Holders : StartRoot(h) \/ EndSpan(h) \/ CancelTimer(h) \/ ExportSpan(h)
  \/ \E h, of \in Holders : StartChild(h, of) \/ Move(of, h)
  \/ \E s \in Spans : TimerFires(s) \/ WaitDone(s) \/ OnTimeout(s)
  \/ DestroySink

-----------------------------------------------------------------------------
(* Properties *)

\* No wait stays armed for a span that has ended, nor for any span once the
\* sink is gone: a wait that nobody needs would keep the io_context busy for
\* the whole time-out (trace_sink_impl.cpp, EndSpan and ~Core).
EndedIsDisarmed ==
  \A s \in Spans : wait[s] = "armed" => core_ /\ s \notin ended

\* A span that was taken off by its end is not reported as too long, also when
\* its timer had already fired (trace_sink_impl.cpp, StartSpan's handler).
EndedIsNotLate ==
  [][\A s \in late' \ late : \A h \in Holders : closing[h].span # s /\ s \notin ended]_uvars

\* A span belongs to the trace of the parent it names, whichever of them ends
\* first and whether the parent is in this process or was carried here as a
\* traceparent (otel_trace_sink.cpp, StartSpan; trace_parent.cpp).
TraceIsJoined ==
  \A s \in 1..started :
    IF context[s].parent = None THEN context[s].trace = s
    ELSE context[s].trace = context[context[s].parent].trace

-----------------------------------------------------------------------------
(***************************************************************************)
(* Metrics: a Meter that threads record through, and the in-memory copy of *)
(* what the reader exports, with its observers (ObservingInMemoryMetric-   *)
(* Data).  Instruments are shared between threads under the Meter's mutex; *)
(* recording into one is the OpenTelemetry library's, and is external.     *)
(* AggregatedMetric is a summary of its own.                               *)
(***************************************************************************)
CONSTANTS
  Recorders,      \* threads that record, once each
  MaxExports,     \* bound: exports in a behaviour
  MaxSamples,     \* bound: samples of the AggregatedMetric
  Samples         \* their values

VARIABLES
  attributes_,    \* the attributes of the Meter
  recorder,       \* of each thread: where it is, and what it records
  instruments,    \* the instruments created, in the order of their creation
  cached,         \* counters_, up_down_counters_, histograms_: name -> instrument
  points,         \* what the instruments hold: a value per instrument and attributes
  export,         \* ObservingInMemoryMetricData::Add: the points it goes through
  aggregate_,     \* the last exported value
  exports,        \* the number of exports begun
  told,           \* the values observers were told, checked against aggregate_
  metric, given   \* the AggregatedMetric and the samples since its last reset

mvars == <<attributes_, recorder, instruments, cached, points, export, aggregate_,
           exports, told, metric, given>>

-----------------------------------------------------------------------------
(* Recording *)

\* An instrument has a kind and a name; each kind has a cache of its own.
Kinds == {"counter", "up_down_counter", "histogram"}
Records3 == {[kind |-> "counter", value |-> 2], [kind |-> "up_down_counter", value |-> -1],
             [kind |-> "histogram", value |-> 5]}

\* The value of an attribute that the meter and the call both may set.
MergeAttributes(meter, call) == IF call # "unset" THEN call ELSE meter

MInit ==
  /\ attributes_ \in {"unset", "m"}
  /\ recorder \in [Recorders -> {[at |-> "start", record |-> r, call |-> c, instrument |-> 0] :
                                   r \in Records3, c \in {"unset", "c"}}]
  /\ instruments = <<>> /\ cached = [k \in Kinds |-> 0]
  /\ points = {} /\ export = [at |-> "idle", points |-> {}]
  /\ aggregate_ = {} /\ exports = 0 /\ told = TRUE
  /\ metric = [count |-> 0, min |-> 0, max |-> 0, sum |-> 0] /\ given = <<>>

\* Mutant: the instrument is looked up and created without the mutex in between.
CreateInstrument(t) ==
  /\ recorder[t].at = "start"
  /\ instruments' = Append(instruments, recorder[t].record.kind)
  /\ cached' = [cached EXCEPT ![recorder[t].record.kind] = Len(instruments) + 1]
  /\ recorder' = [recorder EXCEPT ![t].at = "record",
                                  ![t].instrument = Len(instruments) + 1]
  /\ UNCHANGED <<attributes_, points, export, aggregate_, exports, told, metric, given>>

\* FindOrCreateInstrument, under the mutex.
FindOrCreateInstrument(t) ==
  LET kind == recorder[t].record.kind
  IN /\ recorder[t].at = "start"
     /\ IF cached[kind] # 0
        THEN UNCHANGED <<instruments, cached>>
        ELSE /\ instruments' = Append(instruments, kind)
             /\ cached' = [cached EXCEPT ![kind] = Len(instruments) + 1]
     /\ recorder' = [recorder EXCEPT ![t].at = "record", ![t].instrument = cached'[kind]]
     /\ UNCHANGED <<attributes_, points, export, aggregate_, exports, told, metric, given>>

\* What a point holds after one more value: a sum, or a count of values.
Recorded(kind, old, value) == IF kind = "histogram" THEN old + 1 ELSE old + value

\* AddCounter, AddUpDownCounter, RecordHistogram, outside the mutex.
Record(t) ==
  /\ recorder[t].at = "record" /\ recorder' = [recorder EXCEPT ![t].at = "done"]
  /\ LET i == recorder[t].instrument
         attribute == MergeAttributes(attributes_, recorder[t].call)
         old == {p \in points : p.instrument = i /\ p.attribute = attribute}
         was == IF old = {} THEN 0 ELSE (CHOOSE p \in old : TRUE).value
     IN points' = (points \ old) \cup
          {[instrument |-> i, attribute |-> attribute,
            value |-> Recorded(instruments[i], was, recorder[t].record.value)]}
  /\ UNCHANGED <<attributes_, instruments, cached, export, aggregate_, exports, told,
                 metric, given>>

-----------------------------------------------------------------------------
(* Exporting *)

\* A scope's points by metric name: two instruments of one name would both show.
Exported == {[kind |-> instruments[p.instrument], instrument |-> p.instrument,
              attribute |-> p.attribute, value |-> p.value] : p \in points}

\* Add: the points are read off the collected metrics.
ExportBegins ==
  /\ export.at = "idle" /\ exports < MaxExports /\ exports' = exports + 1
  /\ export' = [at |-> "store", points |-> Exported]
  /\ UNCHANGED <<attributes_, recorder, instruments, cached, points, aggregate_, told,
                 metric, given>>

\* Under the mutex the copy is brought up to date.
StoreAggregate ==
  /\ export.at = "store" /\ aggregate_' = export.points
  /\ export' = [export EXCEPT !.at = "tell"]
  /\ UNCHANGED <<attributes_, recorder, instruments, cached, points, exports, told,
                 metric, given>>

\* GetMetricValue of a metric and an attribute: what the copy has for it.
GetMetricValue(kind, attribute) ==
  {p.value : p \in {q \in aggregate_ : q.kind = kind /\ q.attribute = attribute}}

\* The observers are told, outside the mutex; one of them may ask for the value.
SignalPoint ==
  /\ export.at = "tell"
  /\ IF export.points = {}
     THEN export' = [export EXCEPT !.at = "idle"] /\ UNCHANGED told
     ELSE \E p \in export.points :
            /\ told' = (told /\ p.value \in GetMetricValue(p.kind, p.attribute))
            /\ export' = [export EXCEPT !.points = @ \ {p}]
  /\ UNCHANGED <<attributes_, recorder, instruments, cached, points, aggregate_, exports,
                 metric, given>>

-----------------------------------------------------------------------------
(* AggregatedMetric *)

\* operator(): reset leaves the old bounds behind, the first sample replaces them.
Sampled(m, value) ==
  IF m.count = 0 THEN [count |-> 1, min |-> value, max |-> value, sum |-> value]
  ELSE [count |-> m.count + 1, sum |-> m.sum + value,
        min |-> IF value < m.min THEN value ELSE m.min,
        max |-> IF ~(value < m.min) /\ value > m.max THEN value ELSE m.max]

Sample ==
  /\ Len(given) < MaxSamples
  /\ \E value \in Samples :
       metric' = Sampled(metric, value) /\ given' = Append(given, value)
  /\ UNCHANGED <<attributes_, recorder, instruments, cached, points, export, aggregate_,
                 exports, told>>

Reset ==
  /\ metric' = [metric EXCEPT !.count = 0] /\ given' = <<>>
  /\ UNCHANGED <<attributes_, recorder, instruments, cached, points, export, aggregate_,
                 exports, told>>

MNext ==
  \/ \E t \in Recorders : FindOrCreateInstrument(t) \/ Record(t)
  \/ ExportBegins \/ StoreAggregate \/ SignalPoint

SummaryNext == Sample \/ Reset

-----------------------------------------------------------------------------
(* Properties *)

Done(kind, attribute) ==
  {t \in Recorders : /\ recorder[t].at = "done" /\ recorder[t].record.kind = kind
                     /\ MergeAttributes(attributes_, recorder[t].call) = attribute}

\* What the meter holds for a metric and its attributes is what the threads
\* recorded, in one point: none of them records into an instrument of its own
\* (meter.cpp, FindOrCreateInstrument and MergeAttributes).
NothingIsLost ==
  \A p \in points :
    LET kind == instruments[p.instrument]
        done == Done(kind, p.attribute)
        each == CHOOSE r \in Records3 : r.kind = kind
    IN p.value = IF kind = "histogram" THEN Cardinality(done)
                 ELSE Cardinality(done) * each.value

\* An observer that asks for the metric it is told of gets the value it was
\* told (otel_metrics.cpp, Add).
ToldIsReadable == told

\* The summary is that of the samples since the last reset.
SummaryIsExact ==
  metric.count # 0 =>
    /\ metric.count = Len(given)
    /\ \A i \in DOMAIN given : metric.min <= given[i] /\ given[i] <= metric.max
    /\ \E i \in DOMAIN given : given[i] = metric.min
    /\ \E i \in DOMAIN given : given[i] = metric.max
=============================================================================
