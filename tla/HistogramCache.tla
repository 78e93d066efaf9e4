--------------------------- MODULE HistogramCache ---------------------------
(***************************************************************************)
(* HistogramCache of the converters: the histogram specifications a        *)
(* revision key stands for, looked up in the memory of the process, then   *)
(* in files the converters of a host share, then on the histogram server.  *)
(*                                                                         *)
(* A converter is single threaded; what interleaves are the converters,    *)
(* which read and write the same files without a lock.  The server and     *)
(* the connection to it are the environment.  Of a specification only its  *)
(* identity, and of a text only which specification it spells and how, are *)
(* kept.                                                                   *)
(***************************************************************************)
EXTENDS Naturals, FiniteSets

CONSTANTS
    Converters,
    Keys,        \* revision keys that begin with "http"
    OtherKeys,   \* ... and those that do not
    DiskNames, DiskName,  \* the file of a key: '/' replaced, ".json" added
    Specs,       \* histogram specifications
    Invalid,     \* those the constructor of HistogramSpecification rejects
    Known,       \* keys the server has a specification for
    Served,      \* that specification
    Faults,      \* what may go wrong
    MaxCalls,    \* bound: calls between two metric messages
    MaxCrashes,  \* bound: how often converters are killed
    NoText, Empty, Null, Absent

Fault ==
    {"connect",  \* the server cannot be reached, or the connection breaks
     "garbage",  \* the status line is malformed
     "status",   \* a known revision is answered with another status than 200
     "short",    \* the connection closes before the whole body has arrived
     "disk"}     \* a file cannot be created, or not be written

ASSUME CacheAssumption ==
    /\ Keys \intersect OtherKeys = {}
    /\ DiskName \in [Keys -> DiskNames]
    /\ Invalid \subseteq Specs
    /\ Known \subseteq Keys
    /\ Served \in [Known -> Specs]
    /\ Faults \subseteq Fault
    /\ MaxCalls \in Nat
    /\ MaxCrashes \in Nat

\* "raw" is what the server sends; "bare" the same without its white space,
\* and "cut" a proper prefix of it.  The MD5 digest tells all texts apart.
Text == [spec : Specs, form : {"raw", "bare", "cut"}]

Raw(s) == [spec |-> s, form |-> "raw"]
Cut(s) == [spec |-> s, form |-> "cut"]

ASSUME DistinctMarks ==
    /\ Absent # Null
    /\ NoText # Empty
    /\ {NoText, Empty, Null, Absent} \intersect Text = {}

\* Mutant of Parses: the end of the text is not looked for.
ParsesPrefix(t) == t # Empty /\ t.spec \notin Invalid

Parses(t) == t # Empty /\ t.form # "cut" /\ t.spec \notin Invalid

\* What istream_iterator<char> reads: it skips white space.
Skipws(t) == IF t # Empty /\ t.form = "raw" THEN [t EXCEPT !.form = "bare"] ELSE t

Metric == {"connectionErrors", "HTTPErrors", "invalidHistograms",
           "invalidRevisions", "cacheHits", "cacheMisses"}

VARIABLES
    disk,       \* disk[n]: the text of the file n, NoText if there is none
    pc,         \* pc[c]: where in FindHistogram() converter c is
    key,        \* key[c]: aRevisionKey of the call
    json,       \* json[c]
    revisions,  \* mRevisions: the object of a key, Null for a null pointer
    cache,      \* mCache: an object is named by the text it was built from
    metrics,    \* mMetrics
    crashes,
    (***********************************************************************)
    (* Observation, read by no guard but the bound on calls.               *)
    (***********************************************************************)
    calls,      \* calls[c]: calls since the metrics were reset
    found,      \* found[c]: how many of them have loaded a specification
    answered    \* answered[c]: keys the server or a file has settled for c

local == <<pc, key, json, revisions, cache>>
count == <<metrics, calls, found>>
vars  == <<disk, pc, key, json, revisions, cache, metrics, crashes, calls,
           found, answered>>

PC == {"idle", "probe", "fetch", "create", "write", "load", "intern", "down"}

TypeOK ==
    /\ disk \in [DiskNames -> Text \union {NoText, Empty}]
    /\ pc \in [Converters -> PC]
    /\ key \in [Converters -> Keys \union {Absent}]
    /\ json \in [Converters -> Text \union {Empty}]
    /\ revisions \in [Converters -> [Keys -> Text \union {Null, Absent}]]
    /\ cache \in [Converters -> SUBSET Text]
    /\ metrics \in [Converters -> [Metric -> Nat]]
    /\ crashes \in 0 .. MaxCrashes
    /\ calls \in [Converters -> 0 .. MaxCalls]
    /\ found \in [Converters -> Nat]
    /\ answered \in [Converters -> SUBSET Keys]

NoRevisions == [k \in Keys |-> Absent]
NoMetrics   == [m \in Metric |-> 0]

Init ==
    /\ disk = [n \in DiskNames |-> NoText]
    /\ pc = [c \in Converters |-> "idle"]
    /\ key = [c \in Converters |-> Absent]
    /\ json = [c \in Converters |-> Empty]
    /\ revisions = [c \in Converters |-> NoRevisions]
    /\ cache = [c \in Converters |-> {}]
    /\ metrics = [c \in Converters |-> NoMetrics]
    /\ crashes = 0
    /\ calls = [c \in Converters |-> 0]
    /\ found = [c \in Converters |-> 0]
    /\ answered = [c \in Converters |-> {}]

-----------------------------------------------------------------------------

Goto(c, l) == pc' = [pc EXCEPT ![c] = l]

\* Mutant of Count: the wrong operator.
CountDown(c, m) == metrics' = [metrics EXCEPT ![c][m] = @ - 1]

Count(c, m) == metrics' = [metrics EXCEPT ![c][m] = @ + 1]

File(c) == DiskName[key[c]]

\* map::insert() keeps what is there.
Memo(c, o) ==
    revisions' = [revisions EXCEPT ![c][key[c]] = IF @ = Absent THEN o ELSE @]

Settle(c) == answered' = [answered EXCEPT ![c] = @ \union {key[c]}]

\* The lookup returns.  The locals of LoadHistogram() are gone.
Return(c) ==
    /\ Goto(c, "idle")
    /\ key' = [key EXCEPT ![c] = Absent]
    /\ json' = [json EXCEPT ![c] = Empty]

-----------------------------------------------------------------------------
(***************************************************************************)
(* FindHistogram()                                                         *)
(***************************************************************************)

Call(c) ==
    /\ pc[c] = "idle"
    /\ calls[c] < MaxCalls
    /\ calls' = [calls EXCEPT ![c] = @ + 1]

FindInvalid(c, k) ==
    /\ Call(c)
    /\ k \in OtherKeys
    /\ Count(c, "invalidRevisions")
    /\ UNCHANGED <<disk, local, crashes, found, answered>>

FindHit(c, k) ==
    /\ Call(c)
    /\ revisions[c][k] # Absent
    /\ Count(c, "cacheHits")
    /\ UNCHANGED <<disk, local, crashes, found, answered>>

FindMiss(c, k) ==
    /\ Call(c)
    /\ revisions[c][k] = Absent
    /\ Count(c, "cacheMisses")
    /\ key' = [key EXCEPT ![c] = k]
    /\ Goto(c, "probe")
    /\ UNCHANGED <<disk, json, revisions, cache, crashes, found, answered>>

-----------------------------------------------------------------------------
(***************************************************************************)
(* LoadHistogram()                                                         *)
(***************************************************************************)

\* Nothing removes the file once it has been opened.
Probe(c) ==
    /\ pc[c] = "probe"
    /\ Goto(c, IF disk[File(c)] = NoText THEN "fetch" ELSE "load")
    /\ UNCHANGED <<disk, key, json, revisions, cache, count, crashes, answered>>

Fetching(c) == pc[c] = "fetch"

\* Resolving, connecting, sending or receiving throws.
FetchThrows(c) ==
    /\ Fetching(c)
    /\ "connect" \in Faults
    /\ Count(c, "connectionErrors")
    /\ Return(c)
    /\ UNCHANGED <<disk, revisions, cache, crashes, calls, found, answered>>

FetchGarbage(c) ==
    /\ Fetching(c)
    /\ "garbage" \in Faults
    /\ Count(c, "HTTPErrors")
    /\ Return(c)
    /\ UNCHANGED <<disk, revisions, cache, crashes, calls, found, answered>>

\* Mutant of FetchStatus: the status is not remembered.
FetchStatusForgets(c) ==
    /\ Fetching(c)
    /\ key[c] \notin Known \/ "status" \in Faults
    /\ Count(c, "HTTPErrors")
    /\ Settle(c)
    /\ Return(c)
    /\ UNCHANGED <<disk, revisions, cache, crashes, calls, found>>

\* Any other status than 200 is remembered for good.
FetchStatus(c) ==
    /\ Fetching(c)
    /\ key[c] \notin Known \/ "status" \in Faults
    /\ Count(c, "HTTPErrors")
    /\ Memo(c, Null)
    /\ Settle(c)
    /\ Return(c)
    /\ UNCHANGED <<disk, cache, crashes, calls, found>>

\* The body is whatever arrives until the connection is closed.
FetchBody(c) ==
    /\ Fetching(c)
    /\ key[c] \in Known
    /\ LET s == Served[key[c]]
       IN  \E t \in {Raw(s)} \union (IF "short" \in Faults THEN {Cut(s), Empty} ELSE {}) :
               json' = [json EXCEPT ![c] = t]
    /\ Goto(c, "create")
    /\ UNCHANGED <<disk, key, revisions, cache, count, crashes, answered>>

\* ofstream ofs(...): creates or truncates the file.  A stream that fails is
\* silent.
CreateFile(c) ==
    /\ pc[c] = "create"
    /\ \/ /\ disk' = [disk EXCEPT ![File(c)] = Empty]
          /\ Goto(c, "write")
       \/ /\ "disk" \in Faults
          /\ UNCHANGED disk
          /\ Goto(c, "intern")
    /\ UNCHANGED <<key, json, revisions, cache, count, crashes, answered>>

\* Two writers truncate, then write from offset 0: a shorter text does not
\* remove what follows it.
Written(old, new) ==
    IF new = Empty THEN {old}
    ELSE IF old = Empty THEN {new}
    ELSE IF old.spec = new.spec
      THEN {IF old.form = "raw" THEN old ELSE new}
    ELSE {new, Cut(new.spec)}

\* Mutant of WriteFile: a text whose object exists is not written again.
WriteUnlessKnown(c) ==
    /\ pc[c] = "write"
    /\ \/ /\ json[c] \notin cache[c]
          /\ disk' = [disk EXCEPT ![File(c)] = json[c]]
       \/ json[c] \in cache[c] /\ UNCHANGED disk
    /\ Goto(c, "intern")
    /\ UNCHANGED <<key, json, revisions, cache, count, crashes, answered>>

WriteFile(c) ==
    /\ pc[c] = "write"
    /\ \/ \E t \in Written(disk[File(c)], json[c]) :
               disk' = [disk EXCEPT ![File(c)] = t]
       \/ "disk" \in Faults /\ UNCHANGED disk
    /\ Goto(c, "intern")
    /\ UNCHANGED <<key, json, revisions, cache, count, crashes, answered>>

LoadFile(c) ==
    /\ pc[c] = "load"
    /\ json' = [json EXCEPT ![c] = Skipws(disk[File(c)])]
    /\ Goto(c, "intern")
    /\ UNCHANGED <<disk, key, revisions, cache, count, crashes, answered>>

\* A text whose digest is known shares the object, another one gets its own.
Intern(c) ==
    /\ pc[c] = "intern"
    /\ Parses(json[c])
    /\ cache' = [cache EXCEPT ![c] = @ \union {json[c]}]
    /\ Memo(c, json[c])
    /\ Settle(c)
    /\ found' = [found EXCEPT ![c] = @ + 1]
    /\ Return(c)
    /\ UNCHANGED <<disk, metrics, crashes, calls>>

\* Mutant of InternThrows: the failure is remembered.
InternThrowsForGood(c) ==
    /\ pc[c] = "intern"
    /\ ~Parses(json[c])
    /\ Count(c, "connectionErrors")
    /\ Memo(c, Null)
    /\ Return(c)
    /\ UNCHANGED <<disk, cache, crashes, calls, found, answered>>

\* Mutant of InternThrows: the failure is not counted.
InternThrowsSilently(c) ==
    /\ pc[c] = "intern"
    /\ ~Parses(json[c])
    /\ Return(c)
    /\ UNCHANGED <<disk, revisions, cache, count, crashes, answered>>

\* The constructor throws; FindHistogram() takes it for a connection error.
InternThrows(c) ==
    /\ pc[c] = "intern"
    /\ ~Parses(json[c])
    /\ Count(c, "connectionErrors")
    /\ Return(c)
    /\ UNCHANGED <<disk, revisions, cache, crashes, calls, found, answered>>

-----------------------------------------------------------------------------

\* GetMetrics(), after each file.
GetMetrics(c) ==
    /\ pc[c] = "idle"
    /\ metrics' = [metrics EXCEPT ![c] = NoMetrics]
    /\ calls' = [calls EXCEPT ![c] = 0]
    /\ found' = [found EXCEPT ![c] = 0]
    /\ UNCHANGED <<disk, local, crashes, answered>>

\* A converter is killed: it keeps the files and nothing else.
Crash(c) ==
    /\ pc[c] # "down"
    /\ crashes < MaxCrashes
    /\ crashes' = crashes + 1
    /\ pc' = [pc EXCEPT ![c] = "down"]
    /\ key' = [key EXCEPT ![c] = Absent]
    /\ json' = [json EXCEPT ![c] = Empty]
    /\ revisions' = [revisions EXCEPT ![c] = NoRevisions]
    /\ cache' = [cache EXCEPT ![c] = {}]
    /\ metrics' = [metrics EXCEPT ![c] = NoMetrics]
    /\ calls' = [calls EXCEPT ![c] = 0]
    /\ found' = [found EXCEPT ![c] = 0]
    /\ answered' = [answered EXCEPT ![c] = {}]
    /\ UNCHANGED disk

Start(c) ==
    /\ pc[c] = "down"
    /\ Goto(c, "idle")
    /\ UNCHANGED <<disk, key, json, revisions, cache, count, crashes, answered>>

Load(c) ==
    \/ Probe(c) \/ FetchThrows(c) \/ FetchGarbage(c) \/ FetchStatus(c)
    \/ FetchBody(c) \/ CreateFile(c) \/ WriteFile(c) \/ LoadFile(c)
    \/ Intern(c) \/ InternThrows(c)

Find(c, k) ==
    \/ k \in OtherKeys /\ FindInvalid(c, k)
    \/ k \in Keys /\ (FindHit(c, k) \/ FindMiss(c, k))

Next ==
    \E c \in Converters :
        \/ \E k \in Keys \union OtherKeys : Find(c, k)
        \/ Load(c) \/ GetMetrics(c) \/ Crash(c) \/ Start(c)

Spec == Init /\ [][Next]_vars

\* The kernel runs a lookup to its end, and the server answers or closes the
\* connection.  Whether a record asks for a revision is up to the files.
FairSpec == Spec /\ \A c \in Converters : WF_vars(Load(c))

-----------------------------------------------------------------------------
(***************************************************************************)
(* Properties.                                                             *)
(***************************************************************************)

\* No two keys share a file.
UniqueDiskNames ==
    \A j, k \in Keys : DiskName[j] = DiskName[k] => j = k

\* A record is converted with the specification of its own revision, all of
\* it, or not at all: whatever is truncated, half written or half read.
RightSpec ==
    \A c \in Converters, k \in Keys :
        revisions[c][k] \notin {Null, Absent} =>
            /\ k \in Known
            /\ revisions[c][k].spec = Served[k]
            /\ revisions[c][k].form # "cut"

\* The metrics of a file explain all its lookups, and every miss ended in one
\* error or a specification.
Balanced ==
    \A c \in Converters : pc[c] = "idle" =>
        LET m == metrics[c]
        IN  /\ calls[c] = m["invalidRevisions"] + m["cacheHits"] + m["cacheMisses"]
            /\ m["cacheMisses"] = m["connectionErrors"] + m["HTTPErrors"]
                                    + m["invalidHistograms"] + found[c]

\* "Prevent retries": once the server or a file has given its final answer for
\* a revision, the converter does not load it again.
NoRetry ==
    [][\A c \in Converters :
            pc[c] = "idle" /\ pc'[c] = "probe" => key'[c] \notin answered[c]]_vars

Broken(t) == t = Empty \/ (t # NoText /\ t.form = "cut")

\* Files that are no use to anybody and that nobody is about to write.
Poisoned ==
    {n \in DiskNames : /\ Broken(disk[n])
                       /\ \A c \in Converters : pc[c] = "write" => File(c) # n}

\* Two converters that fetch one revision at the same time and write its file
\* over each other do no lasting damage; one that is killed between creating
\* the file and writing it ruins this one file, and nothing else does unless an
\* answer is short or a disk full.
DamagePerCrash ==
    Faults \intersect {"short", "disk"} = {} => Cardinality(Poisoned) <= crashes

\* When no call fails, a converter that is asked for a revision again and again
\* gets its specification, although it may have read the file of another one
\* that was just writing it; the one way not to is that the writer was killed.
Heals ==
    \A c \in Converters : \A k \in Known : Served[k] \notin Invalid =>
        ([]<><<Find(c, k)>>_vars => <>(\/ revisions[c][k] \notin {Null, Absent}
                                     \/ DiskName[k] \in Poisoned))

\* "LoadHistogram - invalid histogram specification": a complete answer that
\* is no valid specification is counted as an invalid histogram.
\* Violated: the metric is only reached from the stream that writes the file,
\* which does not throw; the constructor's exception is a connection error.
InvalidIsCounted ==
    [][\A c \in Converters :
            pc[c] = "intern" /\ pc'[c] = "idle"
              /\ json[c] # Empty /\ json[c].form = "raw"
              /\ json[c].spec \in Invalid
            => metrics'[c]["invalidHistograms"] = metrics[c]["invalidHistograms"] + 1]_vars

=============================================================================
