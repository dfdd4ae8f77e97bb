------------------------------- MODULE Logging ------------------------------
(***************************************************************************)
(* What a reader of the logs is told: the records, the sinks they go to,   *)
(* and the traffic of a session as its debugger shows it.                  *)
(***************************************************************************)
EXTENDS Naturals, Sequences, FiniteSets

(***************************************************************************)
(* What becomes of a log record on its way out: the JSON object that       *)
(* structured_log_formatter.cpp writes and the OpenTelemetry record that   *)
(* OtelLogSinkBackend emits.  A record is its attributes, in any order;    *)
(* a tag may have the name of a field the format reserves.                 *)
(***************************************************************************)
CONSTANTS MaxAttributes   \* bound: attributes of a record

VARIABLE record

lrvars == <<record>>

\* Attributes are a type and a value; severities are those of Boost.Log.
Attribute(name, type, value) == [name |-> name, type |-> type, value |-> value]

LogAttributes ==
  {Attribute("Severity", "severity", s) : s \in {"trace", "warning", "fatal"}}
    \cup {Attribute("Severity", "string", "x"), Attribute("TimeStamp", "ptime", "local"),
          Attribute("Channel", "string", "channel1"), Attribute("Channel", "string", ""),
          Attribute("Message", "string", "text"), Attribute("TraceParent", "string", "ok"),
          Attribute("TraceParent", "string", "malformed")}
    \cup {Attribute(name, type, "tag") :
            name \in {"severity", "message", "channel", "NodeId"},
            type \in {"bool", "string", "u16string", "int", "unsigned", "float", "any"}}

Named(name) == {i \in DOMAIN record : record[i].name = name}

\* Boost.Log keeps one value per attribute name.
Records ==
  {r \in UNION {[1..n -> LogAttributes] : n \in 1..MaxAttributes} :
     \A i, j \in DOMAIN r : r[i].name = r[j].name => i = j}

LrInit == record = <<>>

\* A record reaches the sinks.
Emit == record = <<>> /\ record' \in Records

LrNext == Emit

\* extract_or_default: a value of another type gives the default.
Extract(name, type, default) ==
  IF \E i \in Named(name) : record[i].type = type
  THEN record[CHOOSE i \in Named(name) : TRUE].value ELSE default

Severity == Extract("Severity", "severity", "info")
Channel == Extract("Channel", "string", "")
LogMessage == Extract("Message", "string", "")
TraceParent == Extract("TraceParent", "string", "") = "ok"

Reserved == {"Severity", "TimeStamp", "Channel", "Message", "TraceParent"}
Tags == {i \in DOMAIN record : record[i].name \notin Reserved}

\* BoostLogAttributeTypes: a type that is not among them is passed over.
TypedAttribute(type) ==
  CASE type = "bool" -> {"bool"}
    [] type \in {"string", "u16string"} -> {"string"}
    [] type = "float" -> {"double"}
    [] type = "int" -> {"int64"}
    [] type = "unsigned" -> {"uint64"}
    [] OTHER -> {}

TypedTags(tags) ==
  [name \in {record[i].name : i \in {j \in tags : TypedAttribute(record[j].type) # {}}} |->
     LET tag == record[CHOOSE i \in Named(name) : TRUE]
     IN [type |-> CHOOSE t \in TypedAttribute(tag.type) : TRUE, value |-> tag.value]]

LogField(type, value) == [type |-> type, value |-> value]

\* Cloud Logging has no trace level.
ToGoogleSeverity(severity) ==
  CASE severity \in {"trace", "debug"} -> "DEBUG"
    [] severity = "info" -> "INFO"
    [] severity = "warning" -> "WARNING"
    [] severity = "error" -> "ERROR"
    [] severity = "fatal" -> "CRITICAL"

ToOtelSeverity(severity) ==
  CASE severity = "trace" -> "kTrace"
    [] severity = "debug" -> "kDebug"
    [] severity = "info" -> "kInfo"
    [] severity = "warning" -> "kWarn"
    [] severity = "error" -> "kError"
    [] severity = "fatal" -> "kFatal"

Merge(f, g) == [x \in DOMAIN f \cup DOMAIN g |-> IF x \in DOMAIN g THEN g[x] ELSE f[x]]

Always == {"severity", "time", "message"}

\* FormatRecord: the tags first, then the fields of the format over them.
FormatRecord ==
  LET fields == [f \in Always |->
                   CASE f = "severity" -> LogField("string", ToGoogleSeverity(Severity))
                     [] f = "time" -> LogField("string", "utc")
                     [] f = "message" -> LogField("string", LogMessage)]
      channel == IF Channel = "" THEN <<>>
                 ELSE [f \in {"channel"} |-> LogField("string", Channel)]
      trace == IF ~TraceParent THEN <<>>
               ELSE [f \in {"trace", "spanId", "trace_sampled"} |->
                       LogField(IF f = "trace_sampled" THEN "bool" ELSE "string", "ok")]
  IN Merge(Merge(Merge(TypedTags(Tags), fields), channel), trace)

\* OtelLogSinkBackend::consume: severity, body and trace have places of their
\* own; the channel is an attribute, over a tag of that name.
consume ==
  [severity |-> ToOtelSeverity(Severity), body |-> LogMessage, traced |-> TraceParent,
   attributes |-> Merge(TypedTags(Tags),
                        IF Channel = "" THEN <<>>
                        ELSE [f \in {"channel"} |-> LogField("string", Channel)])]

-----------------------------------------------------------------------------
(* Properties *)

\* A tag cannot stand in for what the record itself says: severity, message,
\* and the channel the record has, are those of the record in both formats,
\* and every other tag of a known type is kept (FormatRecord, consume).
RecordIsWhole ==
  /\ FormatRecord["severity"].value = ToGoogleSeverity(Severity)
  /\ FormatRecord["message"].value = LogMessage
  /\ Channel # "" => /\ FormatRecord["channel"].value = Channel
                     /\ consume.attributes["channel"].value = Channel
  /\ \A i \in Tags :
       (record[i].name \notin Always \cup {"channel"} /\ record[i].type # "any") =>
         /\ record[i].name \in DOMAIN FormatRecord
         /\ FormatRecord[record[i].name] = consume.attributes[record[i].name]

-----------------------------------------------------------------------------
(***************************************************************************)
(* The sinks of the process log: InitBoostLogging, called first with the   *)
(* defaults and again with the configured parameters, and                  *)
(* ShutdownBoostLogging.  The core holds a set of sinks and ignores one it *)
(* already has (external); every record goes to each sink whose filter it  *)
(* passes, rendered as a line of text or by the structured formatter.      *)
(***************************************************************************)
CONSTANTS MaxLines   \* bound: records written

VARIABLES
  core,          \* the sinks of boost::log::core
  sink_statics,  \* the statics of InitBoostLogging
  console_sink,  \* formatter and filter of the console sink
  asked_for,     \* ghost: the parameters of the last call that had a console
  lines          \* what was written: sink, rendering and severity of each line

lsvars == <<core, sink_statics, console_sink, asked_for, lines>>

-----------------------------------------------------------------------------
kLogSeverities == <<"Trace", "Debug", "Info", "Warning", "Error", "Critical">>
Levels == DOMAIN kLogSeverities

\* ToStringView and ParseLogSeverity, which ignores case: a text is the name it
\* spells, or something else.
ToStringView(level) == IF level \in Levels THEN kLogSeverities[level] ELSE "Info"
ParseLogSeverity(text) == {level \in Levels : kLogSeverities[level] = text}

\* The parts of a line: only the file has the time, an empty channel and empty
\* tags are left out.
FormatLogRecord(entry, console) ==
  <<"line_id">>
    \o (IF console THEN <<>> ELSE <<"timestamp">>)
    \o <<ToStringView(entry.severity)>>
    \o (IF entry.channel = "" THEN <<>> ELSE <<entry.channel>>)
    \o <<entry.message>>
    \o (IF entry.tag = "" THEN <<>> ELSE <<entry.tag>>)

LineRecords ==
  [severity : {2, 3, 5}, channel : {"", "session"}, message : {"text"}, tag : {"", "tag"}]

BoostLogParams ==
  [path : {"", "log"}, console : BOOLEAN, formatter : {"none", "json"},
   console_log_severity : {2, 5}]

NoConsole == [formatter |-> "none", severity |-> 0]

LsInit ==
  /\ core = {}
  /\ sink_statics = [attributes_installed |-> FALSE, console |-> FALSE,
                     file_installed |-> FALSE]
  /\ console_sink = NoConsole /\ asked_for = NoConsole /\ lines = <<>>

Configured(params) ==
  [formatter |-> IF params.formatter = "none" THEN "text" ELSE params.formatter,
   severity |-> params.console_log_severity]

\* InitBoostLogging; a file that cannot be opened is tried again the next time.
InitBoostLogging(params, file_opens) ==
  /\ LET console == params.console /\ ~sink_statics.console
         file == ~sink_statics.file_installed /\ params.path # "" /\ file_opens IN
     /\ core' = core \cup (IF console THEN {"console"} ELSE {})
                     \cup (IF file THEN {"file"} ELSE {})
     /\ sink_statics' = [attributes_installed |-> TRUE,
                         console |-> sink_statics.console \/ params.console,
                         file_installed |-> sink_statics.file_installed \/ file]
  /\ console_sink' = IF params.console THEN Configured(params) ELSE console_sink
  /\ asked_for' = IF params.console THEN Configured(params) ELSE asked_for
  /\ UNCHANGED lines

ShutdownBoostLogging ==
  /\ core # {} /\ core' = {}
  /\ UNCHANGED <<sink_statics, console_sink, asked_for, lines>>

\* What each sink writes of a record.
ConsoleLines(entry) ==
  IF "console" \in core /\ entry.severity >= console_sink.severity
  THEN <<[sink |-> "console", level |-> entry.severity, by |-> asked_for,
          text |-> IF console_sink.formatter = "text" THEN FormatLogRecord(entry, TRUE)
                   ELSE <<console_sink.formatter>>]>>
  ELSE <<>>
FileLines(entry) ==
  IF "file" \in core
  THEN <<[sink |-> "file", level |-> entry.severity, by |-> asked_for,
          text |-> FormatLogRecord(entry, FALSE)]>>
  ELSE <<>>

Log(entry) ==
  /\ core # {} /\ Len(lines) < MaxLines
  /\ lines' = lines \o ConsoleLines(entry) \o FileLines(entry)
  /\ UNCHANGED <<core, sink_statics, console_sink, asked_for>>

LsNext ==
  \/ \E params \in BoostLogParams, file_opens \in BOOLEAN :
       InitBoostLogging(params, file_opens)
  \/ ShutdownBoostLogging
  \/ \E entry \in LineRecords : Log(entry)

-----------------------------------------------------------------------------
(* Properties *)

\* Every console line is one the last configuration asks for, at its severity
\* or above and in its format, however often and with whatever parameters
\* logging is initialised; the file always has the plain line with the severity
\* a parser reads back ("installed once but reconfigured on every call").
ConsoleIsAsConfigured ==
  \A n \in DOMAIN lines :
    IF lines[n].sink = "console"
    THEN /\ lines[n].level >= lines[n].by.severity
         /\ lines[n].by.formatter = "json" <=> lines[n].text = <<"json">>
    ELSE \E part \in DOMAIN lines[n].text :
           ParseLogSeverity(lines[n].text[part]) = {lines[n].level}

-----------------------------------------------------------------------------
(***************************************************************************)
(* What a SessionDebugger is told of the traffic of a SessionProxy, and    *)
(* which messages the proxy logs.  The debugger keeps a list of running    *)
(* requests: an event in phase Running adds one, an event in another phase *)
(* removes the request of that id.  A message is its kind and its id.      *)
(***************************************************************************)
CONSTANTS
  SentKinds,      \* kinds of request the workload sends
  MaxDebugId,     \* bound: numeric_limits<int>::max()
  MaxSent         \* bound: requests on their way at once

ASSUME DebugAssumption == MaxDebugId \in Nat \ {0} /\ MaxSent \in 0..MaxDebugId

VARIABLES
  next_request_id_,
  requests_,           \* the ids with a handler
  sent,                \* the requests on their way to the server, with kinds
  running,             \* the debugger's list: id to title
  askedKind,               \* ghost: the kind of the last request of each id
  log_params,          \* service_log_params_
  logged               \* ghost: ids whose request, and whose answer, was logged

dvars == <<next_request_id_, requests_, sent, running, askedKind,
           log_params, logged>>

-----------------------------------------------------------------------------
(* Titles *)

\* The requests in the order the tests of RequestTitle look for them.
RequestKinds ==
  <<"CreateSession", "DeleteSession", "Ping", "Read", "Write", "Call",
    "CreateSubscription", "DeleteSubscription", "CreateMonitoredItem",
    "DeleteMonitoredItem", "HistoryReadRaw", "HistoryReadEvents", "AddNode",
    "DeleteNode", "AddReference", "DeleteReference", "Browse", "BrowsePath">>

RequestTitle(kind) ==
  IF \E n \in DOMAIN RequestKinds : RequestKinds[n] = kind THEN kind ELSE "Request"

\* The kinds whose answer says nothing but the status.
WithoutResult ==
  {"DeleteSession", "Ping", "Call", "DeleteSubscription", "DeleteMonitoredItem"}

\* A failed answer has no result either.
ResponseTitle(kind, failed) ==
  IF failed \/ kind \in WithoutResult THEN <<"Response">> ELSE <<kind, "Result">>

Notifications ==
  {"SessionDeleted", "DataChange", "ModelChange", "SemanticChange", "Event"}
NotificationTitle(kind) == IF kind \in Notifications THEN kind ELSE "Notification"

-----------------------------------------------------------------------------
(* The log *)

\* Which parts of a message each parameter asks for.
LoggedBy(param) ==
  CASE param = "log_read" -> {"Read"}
    [] param = "log_browse" -> {"Browse"}
    [] param = "log_history" -> {"HistoryReadRaw", "HistoryReadEvents"}
    [] param = "log_event" -> {"Event"}
    [] param = "log_model_change_event" -> {"ModelChange"}
    [] param = "log_node_semantics_change_event" -> {"SemanticChange"}

LogParams ==
  {"log_read", "log_browse", "log_history", "log_event", "log_model_change_event",
   "log_node_semantics_change_event"}

\* A message with one part; an answer counts by the result it carries.
IsMessageLogged(kind, empty) ==
  ~empty /\ \E param \in log_params : kind \in LoggedBy(param)

-----------------------------------------------------------------------------
(* NotifyRequestEvent, and what the subscriber makes of the event *)

RequestEvent(id, phase, title) == [request_id |-> id, phase |-> phase, title |-> title]

NotifyRequestEvent(event) ==
  running' = IF event.phase = "Running"
             THEN [id \in DOMAIN running \cup {event.request_id} |->
                     IF id = event.request_id THEN event.title ELSE running[id]]
             ELSE [id \in DOMAIN running \ {event.request_id} |-> running[id]]

DInit ==
  /\ next_request_id_ = 1 /\ requests_ = {} /\ sent = {}
  /\ running = [id \in {} |-> ""] /\ askedKind = [id \in 1..MaxDebugId |-> ""]
  /\ log_params \in SUBSET LogParams /\ Cardinality(log_params) \in {0, 2}
  /\ logged = [request |-> {}, answer |-> {}]

NextId(id) == IF id = MaxDebugId THEN 1 ELSE id + 1

\* SessionProxy::Request, as its callers use it: deleting an item asks for no
\* answer.  An id is used again only when its request was answered.
DebugRequest(kind) ==
  LET id == next_request_id_ IN
  /\ Cardinality(sent) < MaxSent /\ id \notin requests_
  /\ \A message \in sent : message.id # id
  /\ next_request_id_' = NextId(id)
  /\ requests_' = IF kind = "DeleteMonitoredItem" THEN requests_ ELSE requests_ \cup {id}
  /\ NotifyRequestEvent(RequestEvent(id, "Running", RequestTitle(kind)))
  /\ sent' = sent \cup {[id |-> id, kind |-> kind]}
  /\ askedKind' = [askedKind EXCEPT ![id] = kind]
  /\ logged' = [request |-> IF IsMessageLogged(kind, FALSE)
                            THEN logged.request \cup {id} ELSE logged.request \ {id},
                answer |-> logged.answer \ {id}]
  /\ UNCHANGED <<log_params>>

\* OnMessageReceived of one answer.
OnResponse(message, failed) ==
  /\ message \in sent /\ sent' = sent \ {message}
  /\ logged' = IF IsMessageLogged(message.kind, failed)
               THEN [logged EXCEPT !.answer = @ \cup {message.id}] ELSE logged
  /\ IF message.id \in requests_
     THEN /\ requests_' = requests_ \ {message.id}
          /\ NotifyRequestEvent(RequestEvent(message.id, "Succeeded",
                                             ResponseTitle(message.kind, failed)))
     ELSE UNCHANGED <<requests_, running>>
  /\ UNCHANGED <<next_request_id_, askedKind, log_params>>

\* OnMessageReceived of one notification: the event has no request id.
OnNotification(kind) ==
  /\ NotifyRequestEvent(RequestEvent(0, "Succeeded", NotificationTitle(kind)))
  /\ UNCHANGED <<next_request_id_, requests_, sent, askedKind, log_params, logged>>

\* OnSessionDeleted: every waiting request fails; what is on its way is lost.
DebugSessionDeleted ==
  /\ requests_ # {}
  /\ requests_' = {} /\ sent' = {}
  /\ running' = [id \in DOMAIN running \ requests_ |-> running[id]]
  /\ UNCHANGED <<next_request_id_, askedKind, log_params, logged>>

DNext ==
  \/ \E kind \in SentKinds : DebugRequest(kind)
  \/ \E message \in sent, failed \in BOOLEAN : OnResponse(message, failed)
  \/ \E kind \in Notifications : OnNotification(kind)
  \/ DebugSessionDeleted

-----------------------------------------------------------------------------
(* Properties *)

\* The debugger shows as running the requests somebody waits for, each under
\* its own title, across answers, notifications, a reused id and the loss of
\* the session; only a request without a handler stays when it is done.  And
\* a request is logged whenever its answer is (SessionProxy::Request,
\* OnMessageReceived, OnSessionDeleted, IsMessageLogged).
DebuggerShowsWaiting ==
  /\ requests_ = {id \in DOMAIN running : running[id] # "DeleteMonitoredItem"}
  /\ \A id \in requests_ : running[id] = RequestTitle(askedKind[id])
  /\ logged.answer \subseteq logged.request
=============================================================================
