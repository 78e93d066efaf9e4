-------------------------- MODULE TelemetryRecord --------------------------
(***************************************************************************)
(* TelemetryRecord::Read() over the stream of one file: how records are    *)
(* found behind separators, and what happens at corrupt headers, corrupt   *)
(* bodies and the end of the file.                                         *)
(*                                                                         *)
(* A stream is a sequence of cells.  A header field is one cell, and the   *)
(* separator is a value that lengths, paths and data may contain as well.  *)
(* What becomes of a body is told by its first cell; how a compressed body *)
(* is inflated is left to module Inflate.                                  *)
(***************************************************************************)
EXTENDS Naturals, Sequences

CONSTANTS
    Cell,              \* the values of a cell
    kRecordSeparator,
    kMaxTelemetryPath,
    kMaxTelemetryData,
    Body,              \* Body[x]: what ProcessRecord() makes of data that begin with x
    Streams            \* the streams to be read

\* A body that is never inflated to its end exhausts the memory.
Outcome == {"record", "inflateFailure", "parseFailure", "throws"}

ASSUME RecordAssumption ==
    /\ Cell \subseteq Nat
    /\ kRecordSeparator \in Cell
    /\ kMaxTelemetryPath \in Nat
    /\ kMaxTelemetryData \in Nat
    /\ Body \in [Cell -> Outcome]
    /\ \A s \in Streams : s \in Seq(Cell)

Metric == {"invalidPathLength", "invalidDataLength", "inflateFailures",
           "parseFailures", "corruptData"}

VARIABLES
    stream,      \* the file, never changed
    pos,         \* tellg(): the next cell to be read
    pc,          \* where in Read() the reader is
    mark,        \* pos of FindRecord(): behind the last separator
    pathLength,  \* mPathLength
    dataLength,  \* mDataLength
    metrics,     \* mMetrics
    (***********************************************************************)
    (* Observation, read by no guard.                                      *)
    (***********************************************************************)
    taken,       \* marks of the headers that were accepted, in order
    returned     \* marks of the records Read() has returned, in order

vars == <<stream, pos, pc, mark, pathLength, dataLength, metrics,
          taken, returned>>

\* "read" is the loop of Read(), "find" that of FindRecord(); "done" is a
\* Read() that returned false, "thrown" one that did not return.
PC == {"read", "find", "path", "data", "time", "body", "process", "done", "thrown"}

TypeOK ==
    /\ stream \in Seq(Cell)
    /\ pos \in 1 .. Len(stream) + 1
    /\ pc \in PC
    /\ mark \in 1 .. Len(stream) + 1
    /\ pathLength \in Cell \union {0}
    /\ dataLength \in Cell \union {0}
    /\ metrics \in [Metric -> Nat]
    /\ taken \in Seq(Nat)
    /\ returned \in Seq(Nat)

Init ==
    /\ stream \in Streams
    /\ pos = 1
    /\ pc = "read"
    /\ mark = 1
    /\ pathLength = 0
    /\ dataLength = 0
    /\ metrics = [m \in Metric |-> 0]
    /\ taken = <<>>
    /\ returned = <<>>

-----------------------------------------------------------------------------

Goto(l) == pc' = l

Count(m) == metrics' = [metrics EXCEPT ![m] = @ + 1]

\* n cells from p on are in the file.
Fits(p, n) == p + n <= Len(stream) + 1

\* A read beyond the end sets eofbit and failbit: ReadHeader(), FindRecord()
\* and Read() return false one after the other.
Fail ==
    /\ pos' = Len(stream) + 1
    /\ Goto("done")

header == <<mark, pathLength, dataLength>>

\* while (aInput) in Read()
Enter ==
    /\ pc = "read"
    /\ Goto("find")
    /\ UNCHANGED <<stream, pos, header, metrics, taken, returned>>

\* get(ch) in FindRecord()
Get ==
    /\ pc = "find"
    /\ Fits(pos, 1)
    /\ pos' = pos + 1
    /\ IF stream[pos] = kRecordSeparator
         THEN mark' = pos + 1 /\ Goto("path") /\ UNCHANGED metrics
         ELSE Count("corruptData") /\ UNCHANGED <<mark, pc>>
    /\ UNCHANGED <<stream, pathLength, dataLength, taken, returned>>

\* At the end of the file get(ch) leaves ch unset, and it is tested all the
\* same: as a separator, which no header follows, or as a corrupt byte.
GetAtEnd ==
    /\ pc = "find"
    /\ ~Fits(pos, 1)
    /\ Fail
    /\ Count("corruptData") \/ UNCHANGED metrics
    /\ UNCHANGED <<stream, header, taken, returned>>

\* Mutant of Resync: the search goes on behind the bad field.
ResyncForward == pos' = pos + 1 /\ Goto("find")

\* seekg(pos): the search goes on behind the separator of the bad header.
Resync == pos' = mark /\ Goto("find")

\* Mutant of ReadPathLength: it goes back to the separator.
ReadPathLengthAgain ==
    /\ pc = "path"
    /\ Fits(pos, 1)
    /\ pathLength' = stream[pos]
    /\ IF stream[pos] > kMaxTelemetryPath
         THEN pos' = mark - 1 /\ Goto("find")
         ELSE pos' = pos + 1 /\ Goto("data")
    /\ UNCHANGED <<stream, metrics, mark, dataLength, taken, returned>>

\* A field of ReadHeader() that is in the file and no longer than allowed.
ReadPathLength ==
    /\ pc = "path"
    /\ Fits(pos, 1)
    /\ pathLength' = stream[pos]
    /\ IF stream[pos] > kMaxTelemetryPath
         THEN Count("invalidPathLength") /\ Resync
         ELSE pos' = pos + 1 /\ Goto("data") /\ UNCHANGED metrics
    /\ UNCHANGED <<stream, mark, dataLength, taken, returned>>

ReadDataLength ==
    /\ pc = "data"
    /\ Fits(pos, 1)
    /\ dataLength' = stream[pos]
    /\ IF stream[pos] > kMaxTelemetryData
         THEN Count("invalidDataLength") /\ Resync
         ELSE pos' = pos + 1 /\ Goto("time") /\ UNCHANGED metrics
    /\ UNCHANGED <<stream, mark, pathLength, taken, returned>>

ReadTimestamp ==
    /\ pc = "time"
    /\ Fits(pos, 1)
    /\ pos' = pos + 1
    /\ taken' = Append(taken, mark)
    /\ Goto("body")
    /\ UNCHANGED <<stream, header, metrics, returned>>

HeaderAtEnd ==
    /\ pc \in {"path", "data", "time"}
    /\ ~Fits(pos, 1)
    /\ Fail
    /\ UNCHANGED <<stream, header, metrics, taken, returned>>

\* Mutant of ReadBody: good() is not tested.
ReadBodyUnchecked ==
    /\ pc = "body"
    /\ pos' = pos + pathLength + dataLength
    /\ Goto("read")
    /\ UNCHANGED <<stream, header, metrics, taken, returned>>

\* Mutant of ReadBody: the path is not read.
ReadBodyWithoutPath ==
    /\ pc = "body"
    /\ Fits(pos, pathLength + dataLength)
    /\ pos' = pos + dataLength
    /\ Goto("process")
    /\ UNCHANGED <<stream, header, metrics, taken, returned>>

\* The path and the data of the record.
ReadBody ==
    /\ pc = "body"
    /\ Fits(pos, pathLength + dataLength)
    /\ pos' = pos + pathLength + dataLength
    /\ Goto("process")
    /\ UNCHANGED <<stream, header, metrics, taken, returned>>

\* What is left of the file is dropped, and nothing counts it.
BodyAtEnd ==
    /\ pc = "body"
    /\ ~Fits(pos, pathLength + dataLength)
    /\ Fail
    /\ UNCHANGED <<stream, header, metrics, taken, returned>>

\* The data have just been read; an empty text does not parse.
Result ==
    IF dataLength = 0 THEN "parseFailure" ELSE Body[stream[pos - dataLength]]

\* Mutant of Process: a parse failure is not counted.
ProcessSilently ==
    /\ pc = "process"
    /\ returned' = IF Result = "record" THEN Append(returned, mark) ELSE returned
    /\ CASE Result = "inflateFailure" -> Count("inflateFailures")
         [] Result = "parseFailure" -> UNCHANGED metrics
         [] Result \in {"record", "throws"} -> UNCHANGED metrics
    /\ Goto(IF Result = "throws" THEN "thrown" ELSE "read")
    /\ UNCHANGED <<stream, pos, header, taken>>

\* ProcessRecord().  A record is returned to ProcessFile(), which calls Read()
\* again; after a failure the loop of Read() goes on by itself.
Process ==
    /\ pc = "process"
    /\ returned' = IF Result = "record" THEN Append(returned, mark) ELSE returned
    /\ CASE Result = "inflateFailure" -> Count("inflateFailures")
         [] Result = "parseFailure" -> Count("parseFailures")
         [] Result \in {"record", "throws"} -> UNCHANGED metrics
    /\ Goto(IF Result = "throws" THEN "thrown" ELSE "read")
    /\ UNCHANGED <<stream, pos, header, taken>>

Next ==
    \/ Enter \/ Get \/ GetAtEnd
    \/ ReadPathLength \/ ReadDataLength \/ ReadTimestamp \/ HeaderAtEnd
    \/ ReadBody \/ BodyAtEnd \/ Process

Spec == Init /\ [][Next]_vars

\* Reading a file does not block.
FairSpec == Spec /\ WF_vars(Next)

-----------------------------------------------------------------------------
(***************************************************************************)
(* Properties.                                                             *)
(***************************************************************************)

\* The record whose header begins at p, said of the stream alone.
HeaderAt(p) ==
    /\ Fits(p - 1, 4)
    /\ stream[p - 1] = kRecordSeparator
    /\ stream[p] <= kMaxTelemetryPath
    /\ stream[p + 1] <= kMaxTelemetryData

BehindAt(p) == p + 3 + stream[p] + stream[p + 1]

RecordAt(p) ==
    /\ HeaderAt(p)
    /\ BehindAt(p) <= Len(stream) + 1
    /\ stream[p + 1] # 0
    /\ Body[stream[p + 3 + stream[p]]] = "record"

Marks(s) == {s[i] : i \in DOMAIN s}

\* What is returned are records of the stream, in their order, and no cell
\* belongs to two of them.
Sound ==
    /\ \A i \in DOMAIN returned : RecordAt(returned[i])
    /\ \A i, j \in DOMAIN returned : i < j => BehindAt(returned[i]) < returned[j]

\* A record of the stream is only missed if a header before it that was
\* accepted claims its cells as well: corrupt lengths, corrupt bodies and
\* garbage hide no other record.
NoRecordMissed ==
    pc = "done" =>
        \A p \in 2 .. Len(stream) : RecordAt(p) =>
            \/ p \in Marks(returned)
            \/ \E q \in Marks(taken) : q < p /\ p <= BehindAt(q)

\* Every header that was accepted gave a record or is counted as a failure,
\* unless the file ends inside its record.
AllAccounted ==
    pc = "done" =>
        LET truncated == taken # <<>> /\ BehindAt(taken[Len(taken)]) > Len(stream) + 1
        IN  Len(taken) = Len(returned) + metrics["inflateFailures"]
                + metrics["parseFailures"] + (IF truncated THEN 1 ELSE 0)

\* Reading ends, however often the reader goes back to a bad header.
Terminates == <>(pc \in {"done", "thrown"})

=============================================================================
