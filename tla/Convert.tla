------------------------------ MODULE Convert ------------------------------
(***************************************************************************)
(* The file loop of the converter daemon: main() of convert.cpp and the    *)
(* file handling of ProcessFile().                                         *)
(*                                                                         *)
(* Several converter processes of one host watch the same input directory  *)
(* and claim a file by renaming it into the temporary directory they also  *)
(* share.  The directories, the producers that fill the input directory,   *)
(* the inotify queues and the signals are the environment; what a record   *)
(* of a file goes through is left to other modules, only how much of a     *)
(* file a pass over it has seen is kept here.                              *)
(***************************************************************************)
EXTENDS Naturals, FiniteSets

CONSTANTS
    Converters,  \* the converter processes
    Files,       \* the submitted files: inodes, not names
    Names,       \* file names
    NameOf,      \* the name each file is submitted under
    Streamed,    \* files written inside the input directory; the others are
                 \* moved into it once they are complete
    Faults,      \* calls that may fail although their operand is there
    MaxCrashes,  \* bound: how often converters are killed
    NoFile, NoName

Fault == {"rename", "process", "remove"}

ASSUME ConvertAssumption ==
    /\ NameOf \in [Files -> Names]
    /\ Streamed \subseteq Files
    /\ Faults \subseteq Fault
    /\ MaxCrashes \in Nat
    /\ NoFile \notin Files
    /\ NoName \notin Names

VARIABLES
    input,     \* input[n]: the file named n in mInputDirectory
    temp,      \* temp[n]: the file named n in fs::temp_directory_path()
    writer,    \* writer[f]: how far the producer of f has got
    pc,        \* pc[c]: where in main() converter c is
    todo,      \* todo[c]: the names its directory_iterator has still to visit
    fn,        \* fn[c]: the name it picked, NoName while fn is empty;
               \* tfn is the same name in temp
    file,      \* file[c]: what the ifstream of ProcessFile() is open on
    gStop,     \* gStop[c]: the flag the signal handler sets
    events,    \* events[c]: unread events of its inotify descriptor
    crashes,
    (***********************************************************************)
    (* Observation: what has been done to a file, read by no guard.        *)
    (***********************************************************************)
    opened,    \* opened[f]: how many passes over f were begun
    seen       \* seen[f]: how much of f a completed pass delivered

env  == <<input, writer, events>>
proc == <<pc, todo, fn, file, gStop>>
obs  == <<opened, seen>>
vars == <<input, temp, writer, pc, todo, fn, file, gStop, events, crashes,
          opened, seen>>

-----------------------------------------------------------------------------

\* main() from the top of its loop on, with the return to "top" of every
\* continue; "down" is a killed process, "stopped" one that left the loop.
PC == {"top", "scan", "claim", "open", "read", "size", "remove", "report",
       "idle", "wait", "stopped", "down"}

Running(c) == pc[c] \notin {"stopped", "down"}

MaybeFile == Files \union {NoFile}

TypeOK ==
    /\ input \in [Names -> MaybeFile]
    /\ temp \in [Names -> MaybeFile]
    /\ writer \in [Files -> {"none", "open", "closed"}]
    /\ pc \in [Converters -> PC]
    /\ todo \in [Converters -> SUBSET Names]
    /\ fn \in [Converters -> Names \union {NoName}]
    /\ file \in [Converters -> MaybeFile]
    /\ gStop \in [Converters -> BOOLEAN]
    /\ events \in [Converters -> Nat]
    /\ crashes \in 0 .. MaxCrashes
    /\ opened \in [Files -> Nat]
    /\ seen \in [Files -> {"nothing", "part", "whole"}]

\* Every converter has installed its handlers, added its watch and is about
\* to enter the loop.
Init ==
    /\ input = [n \in Names |-> NoFile]
    /\ temp = [n \in Names |-> NoFile]
    /\ writer = [f \in Files |-> "none"]
    /\ pc = [c \in Converters |-> "top"]
    /\ todo = [c \in Converters |-> {}]
    /\ fn = [c \in Converters |-> NoName]
    /\ file = [c \in Converters |-> NoFile]
    /\ gStop = [c \in Converters |-> FALSE]
    /\ events = [c \in Converters |-> 0]
    /\ crashes = 0
    /\ opened = [f \in Files |-> 0]
    /\ seen = [f \in Files |-> "nothing"]

-----------------------------------------------------------------------------
(***************************************************************************)
(* The producers.  A name is free when a producer uses it, so no producer  *)
(* overwrites a file that still waits.  The watch asks for IN_CLOSE_WRITE  *)
(* and IN_MOVED_TO: creating a file queues nothing, and closing it only    *)
(* queues an event while it is still in the watched directory.             *)
(***************************************************************************)

Notify == events' = [c \in Converters |->
                        IF Running(c) THEN events[c] + 1 ELSE events[c]]

Create(f) ==
    /\ f \in Streamed
    /\ writer[f] = "none"
    /\ input[NameOf[f]] = NoFile
    /\ writer' = [writer EXCEPT ![f] = "open"]
    /\ input' = [input EXCEPT ![NameOf[f]] = f]
    /\ UNCHANGED <<temp, proc, events, crashes, obs>>

Close(f) ==
    /\ writer[f] = "open"
    /\ writer' = [writer EXCEPT ![f] = "closed"]
    /\ IF input[NameOf[f]] = f THEN Notify ELSE UNCHANGED events
    /\ UNCHANGED <<input, temp, proc, crashes, obs>>

MoveIn(f) ==
    /\ f \notin Streamed
    /\ writer[f] = "none"
    /\ input[NameOf[f]] = NoFile
    /\ writer' = [writer EXCEPT ![f] = "closed"]
    /\ input' = [input EXCEPT ![NameOf[f]] = f]
    /\ Notify
    /\ UNCHANGED <<temp, proc, crashes, obs>>

-----------------------------------------------------------------------------
(***************************************************************************)
(* The scan for the first regular file.                                    *)
(***************************************************************************)

Goto(c, l) == pc' = [pc EXCEPT ![c] = l]

\* The end of the loop body: fn goes out of scope.
Continue(c) ==
    /\ Goto(c, "top")
    /\ fn' = [fn EXCEPT ![c] = NoName]

OpenDir(c) ==
    /\ pc[c] = "top"
    /\ ~gStop[c]
    /\ todo' = [todo EXCEPT ![c] = {n \in Names : input[n] # NoFile}]
    /\ Goto(c, "scan")
    /\ UNCHANGED <<env, temp, fn, file, gStop, crashes, obs>>

\* The iterator may or may not return a name that was added after it was
\* opened; what is_regular_file() confirms is there now.
Pick(c, n) ==
    /\ pc[c] = "scan"
    /\ input[n] # NoFile
    /\ fn' = [fn EXCEPT ![c] = n]
    /\ todo' = [todo EXCEPT ![c] = {}]
    /\ Goto(c, "claim")
    /\ UNCHANGED <<env, temp, file, gStop, crashes, obs>>

\* A listed name another converter has renamed away is no regular file.
Skip(c, n) ==
    /\ pc[c] = "scan"
    /\ n \in todo[c]
    /\ input[n] = NoFile
    /\ todo' = [todo EXCEPT ![c] = @ \ {n}]
    /\ UNCHANGED <<env, temp, pc, fn, file, gStop, crashes, obs>>

ScanEmpty(c) ==
    /\ pc[c] = "scan"
    /\ todo[c] = {}
    /\ Goto(c, "idle")
    /\ UNCHANGED <<env, temp, todo, fn, file, gStop, crashes, obs>>

-----------------------------------------------------------------------------
(***************************************************************************)
(* Claiming the file and ProcessFile().                                    *)
(***************************************************************************)

\* Mutant of Rename: the file is copied and stays in the input directory.
RenameCopies(c) ==
    /\ pc[c] = "claim"
    /\ input[fn[c]] # NoFile
    /\ temp' = [temp EXCEPT ![fn[c]] = input[fn[c]]]
    /\ Goto(c, "open")
    /\ UNCHANGED <<env, todo, fn, file, gStop, crashes, obs>>

\* rename(fn, tfn) replaces whatever the temporary directory holds under
\* that name.
Rename(c) ==
    /\ pc[c] = "claim"
    /\ input[fn[c]] # NoFile
    /\ temp' = [temp EXCEPT ![fn[c]] = input[fn[c]]]
    /\ input' = [input EXCEPT ![fn[c]] = NoFile]
    /\ Goto(c, "open")
    /\ UNCHANGED <<writer, todo, fn, file, gStop, events, crashes, obs>>

\* Mutant of RenameThrows: the failure is logged and the file processed.
RenameThrowsOn(c) ==
    /\ pc[c] = "claim"
    /\ input[fn[c]] = NoFile \/ "rename" \in Faults
    /\ Goto(c, "open")
    /\ UNCHANGED <<env, temp, todo, fn, file, gStop, crashes, obs>>

\* Mutant of RenameThrows: a converter that was beaten waits for an event.
RenameThrowsWaits(c) ==
    /\ pc[c] = "claim"
    /\ input[fn[c]] = NoFile \/ "rename" \in Faults
    /\ fn' = [fn EXCEPT ![c] = NoName]
    /\ Goto(c, "idle")
    /\ UNCHANGED <<env, temp, todo, file, gStop, crashes, obs>>

\* "Rename failed ..., someone beat us to it": the handler of the loop body.
RenameThrows(c) ==
    /\ pc[c] = "claim"
    /\ input[fn[c]] = NoFile \/ "rename" \in Faults
    /\ Continue(c)
    /\ UNCHANGED <<env, temp, todo, file, gStop, crashes, obs>>

\* ifstream file(aName): a name that is gone gives a stream that reads nothing.
Open(c) ==
    /\ pc[c] = "open"
    /\ file' = [file EXCEPT ![c] = temp[fn[c]]]
    /\ opened' = [f \in Files |->
                    IF f = temp[fn[c]] THEN opened[f] + 1 ELSE opened[f]]
    /\ Goto(c, "read")
    /\ UNCHANGED <<env, temp, todo, fn, gStop, crashes, seen>>

\* The records up to end of file: of a file still being written, those that
\* are there by then.
Read(c) ==
    /\ pc[c] = "read"
    /\ seen' = [f \in Files |->
                  IF f # file[c] THEN seen[f]
                  ELSE IF writer[f] = "closed" THEN "whole" ELSE "part"]
    /\ Goto(c, "size")
    /\ UNCHANGED <<env, temp, todo, fn, file, gStop, crashes, opened>>

\* Mutant of ReadThrows: the file is removed whatever ProcessFile() returns.
ReadThrowsRemoves(c) ==
    /\ pc[c] = "read"
    /\ file[c] # NoFile
    /\ "process" \in Faults
    /\ file' = [file EXCEPT ![c] = NoFile]
    /\ Goto(c, "remove")
    /\ UNCHANGED <<env, temp, todo, fn, gStop, crashes, obs>>

\* An exception out of the record loop: ProcessFile() returns false.
ReadThrows(c) ==
    /\ pc[c] = "read"
    /\ file[c] # NoFile
    /\ "process" \in Faults
    /\ file' = [file EXCEPT ![c] = NoFile]
    /\ Goto(c, "report")
    /\ UNCHANGED <<env, temp, todo, fn, gStop, crashes, obs>>

\* Mutant of FileSize: the file is removed if ProcessFile() returns false.
FileSizeInverted(c) ==
    /\ pc[c] = "size"
    /\ file' = [file EXCEPT ![c] = NoFile]
    /\ Goto(c, IF temp[fn[c]] = NoFile THEN "remove" ELSE "report")
    /\ UNCHANGED <<env, temp, todo, fn, gStop, crashes, obs>>

\* file_size(aName) looks the name up again and throws if it is gone; the
\* stream is closed either way.
FileSize(c) ==
    /\ pc[c] = "size"
    /\ file' = [file EXCEPT ![c] = NoFile]
    /\ Goto(c, IF temp[fn[c]] = NoFile THEN "report" ELSE "remove")
    /\ UNCHANGED <<env, temp, todo, fn, gStop, crashes, obs>>

\* remove(tfn) removes what the name refers to now, if anything.
Remove(c) ==
    /\ pc[c] = "remove"
    /\ temp' = [temp EXCEPT ![fn[c]] = NoFile]
    /\ Goto(c, "report")
    /\ UNCHANGED <<env, todo, fn, file, gStop, crashes, obs>>

RemoveThrows(c) ==
    /\ pc[c] = "remove"
    /\ "remove" \in Faults
    /\ Continue(c)
    /\ UNCHANGED <<env, temp, todo, file, gStop, crashes, obs>>

\* RollLog() and the four metric messages, whether the pass failed or not.
Report(c) ==
    /\ pc[c] = "report"
    /\ Continue(c)
    /\ UNCHANGED <<env, temp, todo, file, gStop, crashes, obs>>

-----------------------------------------------------------------------------
(***************************************************************************)
(* Waiting for a file, and stopping.                                       *)
(***************************************************************************)

\* Mutant of Block: pending events are flushed before the read().
BlockFlushes(c) ==
    /\ pc[c] = "idle"
    /\ events' = [events EXCEPT ![c] = 0]
    /\ Goto(c, "wait")
    /\ UNCHANGED <<input, writer, temp, todo, fn, file, gStop, crashes, obs>>

\* An empty scan goes on to read(notify, ...).
Block(c) ==
    /\ pc[c] = "idle"
    /\ Goto(c, "wait")
    /\ UNCHANGED <<env, temp, todo, fn, file, gStop, crashes, obs>>

\* Mutant of Wake: one event more than there are.
WakeTooMany(c) ==
    /\ pc[c] = "wait"
    /\ \E k \in 1 .. events[c] + 1 :
            events' = [events EXCEPT ![c] = @ - k]
    /\ Goto(c, "top")
    /\ UNCHANGED <<input, writer, temp, todo, fn, file, gStop, crashes, obs>>

\* Mutant of Wake: it waits again instead of scanning.
WakeWithoutScan(c) ==
    /\ pc[c] = "wait"
    /\ \E k \in 1 .. events[c] : events' = [events EXCEPT ![c] = @ - k]
    /\ Goto(c, "idle")
    /\ UNCHANGED <<input, writer, temp, todo, fn, file, gStop, crashes, obs>>

\* The buffer takes one event or several, and they are all discarded.
Wake(c) ==
    /\ pc[c] = "wait"
    /\ \E k \in 1 .. events[c] : events' = [events EXCEPT ![c] = @ - k]
    /\ Goto(c, "top")
    /\ UNCHANGED <<input, writer, temp, todo, fn, file, gStop, crashes, obs>>

\* Mutant of Stop: the flag is tested, and the loop goes on to wait.
StopWaits(c) ==
    /\ pc[c] = "top"
    /\ gStop[c]
    /\ Goto(c, "idle")
    /\ UNCHANGED <<env, temp, todo, fn, file, gStop, crashes, obs>>

Stop(c) ==
    /\ pc[c] = "top"
    /\ gStop[c]
    /\ Goto(c, "stopped")
    /\ events' = [events EXCEPT ![c] = 0]
    /\ UNCHANGED <<input, writer, temp, todo, fn, file, gStop, crashes, obs>>

\* The handler only sets the flag.  It is installed without SA_RESTART: a
\* read() that is blocked at that moment fails and the loop is left.
Signal(c) ==
    /\ Running(c)
    /\ gStop' = [gStop EXCEPT ![c] = TRUE]
    /\ IF pc[c] = "wait" /\ events[c] = 0
         THEN Goto(c, "stopped")
         ELSE UNCHANGED pc
    /\ UNCHANGED <<env, temp, todo, fn, file, crashes, obs>>

\* A converter is killed between any two steps and loses all but the files.
Crash(c) ==
    /\ Running(c)
    /\ crashes < MaxCrashes
    /\ crashes' = crashes + 1
    /\ Goto(c, "down")
    /\ todo' = [todo EXCEPT ![c] = {}]
    /\ fn' = [fn EXCEPT ![c] = NoName]
    /\ file' = [file EXCEPT ![c] = NoFile]
    /\ gStop' = [gStop EXCEPT ![c] = FALSE]
    /\ events' = [events EXCEPT ![c] = 0]
    /\ UNCHANGED <<input, temp, writer, obs>>

\* A new process: inotify_add_watch() comes before the first scan.
Start(c) ==
    /\ pc[c] = "down"
    /\ Goto(c, "top")
    /\ UNCHANGED <<env, temp, todo, fn, file, gStop, crashes, obs>>

-----------------------------------------------------------------------------

Produce == \E f \in Files : Create(f) \/ Close(f) \/ MoveIn(f)

\* What the process does by itself.
Step(c) ==
    \/ OpenDir(c) \/ (\E n \in Names : Pick(c, n) \/ Skip(c, n))
    \/ ScanEmpty(c) \/ Rename(c) \/ RenameThrows(c)
    \/ Open(c) \/ Read(c) \/ ReadThrows(c) \/ FileSize(c)
    \/ Remove(c) \/ RemoveThrows(c) \/ Report(c)
    \/ Block(c) \/ Wake(c) \/ Stop(c)

Next ==
    \/ Produce
    \/ \E c \in Converters : Step(c) \/ Signal(c) \/ Crash(c) \/ Start(c)

Spec == Init /\ [][Next]_vars

\* The kernel schedules a process that is ready; nobody has to submit files,
\* send signals or start a process again.
FairSpec == Spec /\ \A c \in Converters : WF_vars(Step(c))

-----------------------------------------------------------------------------
(***************************************************************************)
(* Properties.                                                             *)
(***************************************************************************)

\* No producer ever uses a name twice.
UniqueNames == \A f, g \in Files : NameOf[f] = NameOf[g] => f = g

\* A converter blocked in read() with nothing to read has overlooked no
\* finished file: whatever arrived or was closed between its scan and the
\* read() has left an event.  Whatever names are used, whatever fails.
NoLostWakeup ==
    \A c \in Converters : pc[c] = "wait" /\ events[c] = 0 =>
        \A n \in Names : input[n] # NoFile => writer[input[n]] # "closed"

\* Two converters are never inside ProcessFile() on the same file: winning the
\* rename() is an exclusive claim.
ExclusiveClaim ==
    \A c, d \in Converters :
        c # d /\ file[c] # NoFile => file[c] # file[d]

\* No file is converted a second time, not even after a crash in the middle
\* of the first pass.
AtMostOnce == \A f \in Files : opened[f] <= 1

\* A file moved into the input directory is in one of the two directories
\* until a complete pass has delivered all of it: no race, failure or crash
\* between rename() and remove() makes it disappear unread.
NoFileLost ==
    \A f \in Files \ Streamed : writer[f] = "closed" =>
        \/ input[NameOf[f]] = f
        \/ temp[NameOf[f]] = f
        \/ seen[f] = "whole"

Working(c) == pc[c] \in {"open", "read", "size", "remove"}

\* What is in the temporary directory, where nobody scans, and is not being
\* worked on.
Stranded ==
    {n \in Names : /\ temp[n] # NoFile
                   /\ \A c \in Converters : Working(c) => fn[c] # n}

\* A converter that is killed leaves one file behind in the temporary directory
\* at most, and nothing else does, whoever loses a race, unless reading or
\* removing fails.
OnePerCrash ==
    Faults \subseteq {"rename"} => Cardinality(Stranded) <= crashes

\* What the program deletes it has read to the end.
\* Violated for a file that is still being written when a scan finds it: the
\* scan takes any regular file, not the one the event was about.
RemovedOnlyIfWhole ==
    [][\A n \in Names : temp[n] # NoFile /\ temp'[n] = NoFile =>
            seen[temp[n]] = "whole"]_vars

\* While some converter runs, a finished file does not stay in the input directory,
\* although directory order may prefer other files and another converter may
\* have been killed after it picked this one.
Drained ==
    \A f \in Files :
        (input[NameOf[f]] = f /\ writer[f] = "closed")
            ~> (input[NameOf[f]] # f \/ \A c \in Converters : ~Running(c))

\* Every file moved into the input directory is converted to its end, whichever
\* converters are killed in the meantime, unless it is stranded or there is no
\* converter left.
EventuallyWhole ==
    \A f \in Files \ Streamed :
        writer[f] = "closed"
            ~> \/ seen[f] = "whole"
               \/ NameOf[f] \in Stranded
               \/ \A c \in Converters : ~Running(c)

Asleep(c) == pc[c] = "wait" /\ events[c] = 0

\* Past its last look at gStop before a read() that blocks.
MayMissSignal(c) == pc[c] \in {"scan", "idle"} \/ Asleep(c)

\* A converter that has work when the signal arrives, or is woken later, stops.
\* One between its last look at gStop and the read() that blocks may miss the
\* signal, but all that can come of it is that it sleeps until the next event.
ObeysSignal ==
    \A c \in Converters :
        /\ (gStop[c] /\ ~MayMissSignal(c)) ~> ~Running(c)
        /\ gStop[c] ~> (~Running(c) \/ Asleep(c))

=============================================================================
