--------------------------- MODULE ConvertLedger ---------------------------
(***************************************************************************)
(* A converter and its log implement MetricLedger.                         *)
(***************************************************************************)
EXTENDS ConvertFile

\* What the messages at the indices in S report of n.
Total(n, messages, S) ==
    SumFunctionOnSet([i \in DOMAIN messages |-> Reported(messages[i], n)], S)

Counted == [n \in Counter |-> Tally(n, read)]
Pending == [n \in Counter |-> metrics[n]]

Filed ==
    LET once == Once(log)
    IN  [n \in Counter |-> Total(n, log, once)]

\* A message that a failed write has put into the file is not unsent.
Unsent ==
    LET ids == Ids(log)
        waiting == {i \in DOMAIN buffer : Id(buffer[i]) \notin ids}
    IN  [n \in Counter |-> Total(n, buffer, waiting)]

Ledger == INSTANCE MetricLedger WITH
    counted <- Counted,
    pending <- Pending,
    unsent  <- Unsent,
    filed   <- Filed,
    broken  <- ofs # "open"

\* What happens to the records of files that fail, are reported late or not at
\* all, through streams that fail and are opened again, is counted once, waits,
\* and is filed once; only what is reported while the log stream is not in order
\* may be missing from the log.
ImplementsLedger == Ledger!LedgerSpec

\* What has happened and is neither waiting nor in the log.
Missing == [n \in Counter |-> Counted[n] - Pending[n] - Unsent[n] - Filed[n]]

\* No event is reported twice and none is made up: what waits and what is in the
\* log, a message that failed writes have repeated taken once, is never more than
\* what has happened (Metric.cpp, and each GetMetrics() that sets to zero what it
\* has reported).
NothingTwice == \A n \in Counter : Missing[n] >= 0

\* A step that finds the log open and leaves it open drops nothing that has been
\* counted: not the report of one component on what the others still count, nor a
\* pass that ends in an exception (convert.cpp:184-233).
LossNeedsBrokenLog == [][ofs = "open" /\ ofs' = "open" => UNCHANGED Missing]_vars

=============================================================================
