------------------------------ MODULE Inflate ------------------------------
(***************************************************************************)
(* TelemetryRecord::Inflate() and what ProcessRecord() does with its       *)
(* result: the buffer mInflate, which grows and is kept from record to     *)
(* record and from file to file.                                           *)
(*                                                                         *)
(* Of a compressed body only how many bytes it inflates to and how it ends *)
(* are kept; zlib is the environment.                                      *)
(***************************************************************************)
EXTENDS Integers

CONSTANTS
    kMaxTelemetryData,  \* the initial size of the buffer
    Lengths,            \* lengths of inflated bodies
    Endings,            \* how bodies end
    Memory,             \* the largest buffer new can provide
    Wrap                \* 2^32: avail_out and mInflateLength have 32 bits

\* A body is complete, or corrupt after some bytes, or it stops in the middle.
Ending == {"complete", "corrupt", "truncated"}

\* The compressed data of a record, at most kMaxTelemetryData bytes, inflate to
\* a thousand times as much at most, far below 2 GiB.
ASSUME InflateAssumption ==
    /\ kMaxTelemetryData \in Nat \ {0}
    /\ kMaxTelemetryData <= Memory
    /\ Memory \in Nat
    /\ Wrap \in Nat
    /\ kMaxTelemetryData < Wrap
    /\ \A l \in Lengths : l \in Nat /\ 2 * l < Wrap
    /\ Endings \subseteq Ending

VARIABLES
    pc,
    length,   \* what the body at hand inflates to
    ending,   \* how it ends
    size,     \* mInflateSize
    filled,   \* mInflateLength
    room,     \* strm.avail_out
    ret,      \* the result of Inflate()
    text,     \* bytes of the text handed to the parser, with the null
    needed    \* observation: the room that the bodies so far ask for

vars == <<pc, length, ending, size, filled, room, ret, text, needed>>

TypeOK ==
    /\ pc \in {"idle", "inflate", "grow", "finish", "thrown"}
    /\ length \in Nat
    /\ ending \in Ending
    /\ size \in Nat \ {0}
    /\ filled \in 0 .. Wrap - 1
    /\ room \in 0 .. Wrap - 1
    /\ ret \in {"Z_OK", "Z_BUF_ERROR", "Z_STREAM_END", "Z_DATA_ERROR"}
    /\ text \in Nat
    /\ needed \in Nat

Init ==
    /\ pc = "idle"
    /\ length = 0
    /\ ending = "complete"
    /\ size = kMaxTelemetryData
    /\ filled = 0
    /\ room = 0
    /\ ret = "Z_OK"
    /\ text = 0
    /\ needed = 0

-----------------------------------------------------------------------------

\* A truncated body never stops asking.
Need(l, e) == IF e = "truncated" THEN Memory ELSE l

\* Mutant of Begin: the z_stream is that of the record before.
BeginKeepsRoom ==
    /\ pc = "idle"
    /\ length' \in Lengths
    /\ ending' \in Endings
    /\ needed' = LET n == Need(length', ending') IN IF n > needed THEN n ELSE needed
    /\ filled' = 0
    /\ ret' = "Z_OK"
    /\ text' = 0
    /\ pc' = "inflate"
    /\ UNCHANGED <<size, room>>

\* The next record with a compressed body: inflateInit2() and a fresh z_stream.
\* What mInflateLength still holds is not read before inflate() has set it.
Begin ==
    /\ pc = "idle"
    /\ length' \in Lengths
    /\ ending' \in Endings
    /\ needed' = LET n == Need(length', ending') IN IF n > needed THEN n ELSE needed
    /\ filled' = 0
    /\ room' = size % Wrap
    /\ ret' = "Z_OK"
    /\ text' = 0
    /\ pc' = "inflate"
    /\ UNCHANGED size

Left == length - filled

\* inflate(&strm, Z_FINISH) writes what is left of the body if there is room.
\* Z_BUF_ERROR says that the room is used up, or that the input is.
CallInflate ==
    /\ pc = "inflate"
    /\ room' = IF Left <= room THEN room - Left ELSE 0
    /\ filled' = (size - room') % Wrap
    /\ ret' = CASE Left > room -> "Z_BUF_ERROR"
                [] Left <= room /\ ending = "complete" -> "Z_STREAM_END"
                [] Left <= room /\ ending = "corrupt" -> "Z_DATA_ERROR"
                [] Left <= room /\ ending = "truncated" -> "Z_BUF_ERROR"
    /\ pc' = IF ret' = "Z_BUF_ERROR" THEN "grow" ELSE "finish"
    /\ UNCHANGED <<length, ending, size, text, needed>>

\* Mutant of Grow: next_out moves, avail_out is the whole buffer.
GrowForgetsFilled ==
    /\ pc = "grow"
    /\ 2 * size <= Memory
    /\ size' = 2 * size
    /\ room' = size' % Wrap
    /\ pc' = "inflate"
    /\ UNCHANGED <<length, ending, filled, ret, text, needed>>

\* Mutant of Grow: avail_out has the width of mInflateSize.
GrowWide ==
    /\ pc = "grow"
    /\ 2 * size <= Memory
    /\ size' = 2 * size
    /\ room' = size' - filled
    /\ pc' = "inflate"
    /\ UNCHANGED <<length, ending, filled, ret, text, needed>>

\* Mutant of Grow: it grows by a factor of four.
GrowFourfold ==
    /\ pc = "grow"
    /\ 2 * size <= Memory
    /\ size' = 4 * size
    /\ room' = (size' - filled) % Wrap
    /\ pc' = "inflate"
    /\ UNCHANGED <<length, ending, filled, ret, text, needed>>

\* Mutant of Grow: the buffer is full, and stays so.
GrowNot ==
    /\ pc = "grow"
    /\ room' = (size - filled) % Wrap
    /\ pc' = "inflate"
    /\ UNCHANGED <<length, ending, size, filled, ret, text, needed>>

\* The buffer is doubled and what it holds is copied.
Grow ==
    /\ pc = "grow"
    /\ 2 * size <= Memory
    /\ size' = 2 * size
    /\ room' = (size' - filled) % Wrap
    /\ pc' = "inflate"
    /\ UNCHANGED <<length, ending, filled, ret, text, needed>>

\* Mutant of Finish: the result is not looked at.
FinishAnyway ==
    /\ pc = "finish"
    /\ filled < size \/ filled + 1 <= Memory
    /\ size' = IF filled < size THEN size ELSE filled + 1
    /\ text' = filled + 1
    /\ pc' = "idle"
    /\ UNCHANGED <<length, ending, filled, room, ret, needed>>

\* ProcessRecord() puts a null behind the text, in a larger buffer if it has
\* to, and has it parsed; any other result than Z_STREAM_END is a failure.
Finish ==
    /\ pc = "finish"
    /\ IF ret # "Z_STREAM_END"
         THEN UNCHANGED <<size, text>>
         ELSE /\ filled < size \/ filled + 1 <= Memory
              /\ size' = IF filled < size THEN size ELSE filled + 1
              /\ text' = filled + 1
    /\ pc' = "idle"
    /\ UNCHANGED <<length, ending, filled, room, ret, needed>>

\* new throws.  The test of its result is never false: the exception leaves
\* Read() and ends the pass over the file, and the buffer keeps its size.
NewThrows ==
    /\ \/ pc = "grow" /\ 2 * size > Memory
       \/ pc = "finish" /\ ret = "Z_STREAM_END" /\ filled = size /\ filled + 1 > Memory
    /\ pc' = "thrown"
    /\ UNCHANGED <<length, ending, size, filled, room, ret, text, needed>>

\* ProcessFile() has returned false, and main() goes on with another file.
NextFile ==
    /\ pc = "thrown"
    /\ pc' = "idle"
    /\ UNCHANGED <<length, ending, size, filled, room, ret, text, needed>>

Next == Begin \/ CallInflate \/ Grow \/ Finish \/ NewThrows \/ NextFile

Spec == Init /\ [][Next]_vars

\* Nothing here blocks; whether there is another record is up to the files.
FairSpec == Spec /\ WF_vars(CallInflate \/ Grow \/ Finish \/ NewThrows \/ NextFile)

-----------------------------------------------------------------------------
(***************************************************************************)
(* Properties.                                                             *)
(***************************************************************************)

\* zlib is never given more room than the buffer has behind what it holds, and
\* the text handed to the parser lies in the buffer together with its null.
InBuffer ==
    /\ pc = "inflate" => filled + room <= size
    /\ text <= size

\* A body that is complete reaches the parser as a whole, one that is not
\* never does.
WholeOrNothing ==
    pc = "idle" /\ text # 0 => ending = "complete" /\ text = length + 1

\* Until a truncated body comes, the buffer stays within twice what the longest
\* one needed, although it never shrinks and outlives the file.
BoundedBuffer == size <= kMaxTelemetryData \/ size <= 2 * needed

\* The loop that grows the buffer ends.
Ends == (pc = "inflate") ~> (pc = "idle")

\* A file is only given up for want of memory (TelemetryRecord.cpp:207-219) if
\* the body at hand is truncated, or if its text and the null do not fit after
\* one more doubling.  What earlier bodies and files have made of the buffer,
\* truncated ones included, is no cause, unless the buffer has reached 4 GiB
\* and what avail_out can say of it is less than the text.
ThrowsForCause ==
    pc = "thrown" =>
        ending = "truncated" \/ 2 * (length + 1) > Memory \/ size % Wrap < length

=============================================================================
