----------------------------- MODULE MetricLog -----------------------------
(***************************************************************************)
(* The metrics of one converter and the log it reports them to: one        *)
(* message object filled and written once per component, through the       *)
(* stream that RollLog() opens.                                            *)
(*                                                                         *)
(* The operators here are the steps of a report; ConvertFile says when     *)
(* they are taken.                                                         *)
(***************************************************************************)
EXTENDS Message

CONSTANTS Hostname, Pid

kRecordSeparator == 30
kUnitSeparator   == 31

\* The loggers in the order of a report, and the metrics of each in the order
\* of its GetMetrics().
Loggers == <<"cache", "record", "schema", "converter">>

LoggerMetrics ==
    [cache     |-> <<"Connection Errors", "HTTP Errors", "Invalid Histograms",
                     "Invalid Revisions", "Cache Hits", "Cache Misses">>,
     record    |-> <<"Invalid Path Length", "Invalid Data Length",
                     "Inflate Failures", "Parse Failures", "Corrupt Data">>,
     schema    |-> <<"Invalid String Dimension", "Invalid Numeric Dimension">>,
     converter |-> <<"Records Processed", "Records Discarded", "Data In",
                     "Data Out", "Processing Time", "Throughput">>]

MetricName == UNION {Range(LoggerMetrics[l]) : l \in Range(Loggers)}

Representation(name) ==
    CASE name \in {"Data In", "Data Out", "Corrupt Data"} -> "B"
      [] name = "Processing Time" -> "s"
      [] name = "Throughput" -> "MiB/s"
      [] OTHER -> "count"

VARIABLES
    metrics,  \* mValue of every Metric
    msg,      \* the Message that is used for every report
    uuids,    \* how many uuids have been drawn
    ofs,      \* the log stream: "closed", "open", "failed" (not open), or
              \* "bad" (open, but a write has failed)
    buffer,   \* the messages it has not written, those of a failed write included
    log       \* the messages in the file, each whole

logVars == <<metrics, msg, uuids, ofs, buffer, log>>

\* The objects that wait to be used again never outnumber those of the largest
\* report.
LogTypeOK ==
    /\ metrics \in [MetricName -> Nat]
    /\ msg.size \in 0 .. 6 /\ Len(msg.elements) \in msg.size .. 6
    /\ uuids \in Nat
    /\ ofs \in {"closed", "open", "failed", "bad"}
    /\ ofs \in {"closed", "failed"} => buffer = <<>>
    /\ Len(buffer) <= Len(Loggers)
    /\ \A i \in DOMAIN log : log[i].logger \in Range(Loggers)

NoMetrics == [n \in MetricName |-> 0]

\* What main() sets once.
NewLogMessage ==
    Set(Set(Set(NewMessage, "type", "telemetry"), "pid", Pid), "hostname", Hostname)

LogInit ==
    /\ metrics = NoMetrics
    /\ msg = NewLogMessage
    /\ uuids = 0
    /\ ofs = "closed"
    /\ buffer = <<>>
    /\ log = <<>>

-----------------------------------------------------------------------------
(***************************************************************************)
(* From the metrics to the bytes of a message.                             *)
(***************************************************************************)

\* Filling in a field appends to the values it has.
Filled(f, name) ==
    LET named == Set(Set(Set(f, "name", name), "value_type", DOUBLE),
                     "representation", Representation(name))
    IN  [named EXCEPT !.value_double = Append(@, metrics[name])]

ConstructField(m, name) ==
    [add_fields(m) EXCEPT !.elements[m.size + 1] = Filled(@, name)]

\* Mutant of GetMetrics: the message is not emptied first.
GetMetricsOnTop(m, l) == FoldLeft(ConstructField, m, LoggerMetrics[l])

\* The four GetMetrics() differ in their metrics only.
GetMetrics(m, l) == FoldLeft(ConstructField, clear_fields(m), LoggerMetrics[l])

\* Mutant of Reset: the other components start again, too.
ResetAll(l) == NoMetrics

Reset(l) ==
    [n \in MetricName |-> IF n \in Range(LoggerMetrics[l]) THEN 0 ELSE metrics[n]]

\* The bytes WriteMessage() puts into the stream.
Frame(m) ==
    LET h == Set(NewHeader, "message_length", MessageByteSize(m))
    IN  <<kRecordSeparator, HeaderByteSize(h)>> \o HeaderBytes(h)
            \o <<kUnitSeparator>> \o MessageBytes(m)

\* Without the objects that wait.
Sent(m) == [m EXCEPT !.elements = Fields(m)]

\* set_logger(), GetMetrics() and WriteMessage(), which drops the message when
\* the stream has failed.
Report(l) ==
    LET m == GetMetrics(Set(msg, "logger", l), l)
    IN  /\ msg' = m
        /\ metrics' = Reset(l)
        /\ buffer' = IF ofs = "open" THEN Append(buffer, Sent(m)) ELSE buffer
        /\ UNCHANGED <<uuids, ofs, log>>

-----------------------------------------------------------------------------
(***************************************************************************)
(* The stream.  A write that fails has written some messages, the last one *)
(* perhaps in part, which is no message to a reader; the stream keeps all  *)
(* of them and tries once more when it is closed.                          *)
(***************************************************************************)

Writes(k) == log' = log \o SubSeq(buffer, 1, k)

\* Mutant of Stamp: the reports of a process share one uuid.
StampOnce(payload) ==
    /\ uuids' = uuids + 1
    /\ msg' = Set(Set(Set(msg, "uuid", <<1>>), "timestamp", uuids'), "payload", payload)

\* What sets a report apart, in all its messages.
Stamp(payload) ==
    /\ uuids' = uuids + 1
    /\ msg' = Set(Set(Set(msg, "uuid", <<uuids'>>), "timestamp", 100 * uuids'),
                  "payload", payload)

\* RollLog() finds the stream in order.
LogIsOpen ==
    /\ ofs = "open"
    /\ UNCHANGED <<ofs, buffer, log>>

\* close(), if it is open, writes k of the messages it still has and drops the
\* others; then open().
RollLog(k, opens) ==
    /\ ofs # "open"
    /\ k \in 0 .. Len(buffer)
    /\ Writes(k)
    /\ buffer' = <<>>
    /\ ofs' = IF opens THEN "open" ELSE "failed"

Flush ==
    /\ Writes(IF ofs = "open" THEN Len(buffer) ELSE 0)
    /\ buffer' = IF ofs = "open" THEN <<>> ELSE buffer
    /\ UNCHANGED <<metrics, msg, uuids, ofs>>

FlushFails(k) ==
    /\ ofs = "open"
    /\ k \in 0 .. Len(buffer)
    /\ Writes(k)
    /\ ofs' = "bad"
    /\ UNCHANGED <<metrics, msg, uuids, buffer>>

\* The destructor closes the stream.
Destroy(k) ==
    /\ k \in 0 .. Len(buffer)
    /\ Writes(k)
    /\ buffer' = <<>>
    /\ ofs' = "closed"
    /\ UNCHANGED <<metrics, msg, uuids>>

\* A process that is killed takes all of it along but the file.
LogCrash ==
    /\ metrics' = NoMetrics
    /\ msg' = NewLogMessage
    /\ ofs' = "closed"
    /\ buffer' = <<>>
    /\ UNCHANGED <<uuids, log>>

-----------------------------------------------------------------------------
(***************************************************************************)
(* A reader of the log.                                                    *)
(***************************************************************************)

\* The message framed in s, or Malformed, parsed into an object that has been
\* used before.
ReadFrame(s, used) ==
    LET end == 2 + s[2]
        h == HeaderMerge(NewHeader, SubSeq(s, 3, end))
        m == MessageMerge(MessageClear(used), SubSeq(s, end + 2, Len(s)))
    IN  IF /\ s[1] = kRecordSeparator
           /\ s[end + 1] = kUnitSeparator
           /\ h # Malformed /\ HeaderIsInitialized(h)
           /\ h.message_length = Len(s) - end - 1
           /\ m # Malformed /\ MessageIsInitialized(m)
          THEN m ELSE Malformed

\* A report is told by its uuid, and a message of it counts once.
Id(m) == <<m.uuid, m.logger>>
Ids(messages) == {Id(messages[i]) : i \in DOMAIN messages}

Once(messages) ==
    {i \in DOMAIN messages : \A j \in 1 .. i - 1 : Id(messages[j]) # Id(messages[i])}

\* The value a message reports for a metric, 0 if it is another logger's.
Reported(m, name) ==
    LET i == SelectInSeq(m.elements, LAMBDA f : f.name = name)
    IN  IF i = 0 THEN 0 ELSE m.elements[i].value_double[1]

=============================================================================
