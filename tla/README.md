# Telemetry converter: specifications, model checks and proofs

This directory holds TLA+ specifications of the telemetry converter of this
repository (`src/convert.cpp`, `src/common/`), the TLC configurations that
check them on small instances, and theorems about them that TLAPS checks for
every instance. Line numbers refer to the files under `src/`.

## 1. The system

The program `convert` turns telemetry submissions into records whose histograms
are plain arrays. As a daemon it watches an input directory; several converters
may run on one host and share the directory. Given file names on the command
line it converts those and exits (batch mode).

| component | state it keeps | operations | interacts with |
|---|---|---|---|
| file loop, `main()` (convert.cpp:256-381) | input and temporary directory, the name it picked, `gStop`, the inotify descriptor | scan, claim by `rename()`, `ProcessFile()`, `remove()`, report, wait, stop | producers (files), other converters (both directories), signals, all components below (calls) |
| `ProcessFile()` (171-230) | the open stream, `gMetrics` | read, convert and write every record of one file | TelemetryRecord, HistogramConverter, TelemetrySchema, RecordWriter |
| `HistogramCache` | `mRevisions`, `mCache`, metrics; on disk one `<revision>.json` per revision | `FindHistogram()`, `GetMetrics()` | the histogram server; other converters through the files |
| `HistogramSpecification` | definitions, each with a map from lower bound to bucket | constructor, `GetDefinition()`, `GetBucketIndex()` | built by HistogramCache, used by HistogramConverter |
| `HistogramConverter` | none | `ConvertHistogramData()`, `RewriteHistogram()`, `RewriteValues()` | HistogramCache |
| `TelemetryRecord` | three buffers, lengths, the parsed document, metrics | `Read()`, `GetMetrics()` | the stream of a file, zlib |
| `TelemetrySchema` | the dimensions, metrics | `GetDimensionPath()`, `GetMetrics()` | used by ProcessFile |
| `Metric`, metric log | one message object, the log stream | `ConstructField()`, `WriteMessage()`, `RollLog()`, the report of a file (329-352) | the metrics of the four components above, the protobuf classes |
| protobuf classes (message.pb.cc) | has-bits, fields, a pool of `Field` objects | set, clear, measure, write, parse | built by the metric log, read by whoever reads the log |
| `WriteDouble()` (rapidjson-0_11.patch) | a buffer of digits | writes the numbers of a record | called by the JSON writer of `ProcessFile()` |
| `RecordWriter` | configuration | empty stubs | - |
| `ReadConfig()` | the configuration | start-up validation | - |

What is hard about it:

* *Interleaving.* Converters share two directories and the files of the
  histogram cache without any lock; `rename()` is the only synchronisation.
* *Events and the scan.* Events are discarded unread and only trigger a scan of
  the whole directory (convert.cpp:361-365); the scan takes whatever regular
  file it meets, finished or not.
* *Crashes.* A converter can be killed between any two system calls. What is in
  the temporary directory then, or half written in a cache file, stays there.
* *Failure paths.* One handler catches every exception of the loop body
  (354-357); `ProcessFile()` turns exceptions into `false` (221-228); an
  `ofstream` fails silently; whatever a lookup throws is a connection error
  (HistogramCache.cpp:54-57).
* *The network.* No timeouts and no check of the length of an answer; an answer
  is stored before it is parsed.
* *The log.* Four components report one after the other through one message
  object and one stream; a stream that has failed drops messages silently, and
  `close()` tries again what a failed write has left.
* *Numbers as text.* A hand-written conversion rounds, carries and strips zeros.
* *Byte streams.* Records are found by a separator that may also occur inside
  them, with lengths that are not checked against the file.

What makes each component correct:

* file loop: a file is converted by one converter and at most once; a complete
  file never disappears unread; no finished file is overlooked; a signal stops it.
* HistogramCache: a record is converted with the complete specification of its
  own revision or not at all; final answers are not asked for again; concurrent
  converters do each other no lasting harm; the metrics explain every lookup.
* HistogramSpecification/-Converter: each count goes to the bucket of its lower
  bound and nothing else changes; a record is marked converted exactly when all
  of it is.
* TelemetryRecord: every well-formed record that no corrupt header covers is
  returned, in order; corrupt bytes are counted; memory stays bounded.
* TelemetrySchema: the path of a record has one level per dimension it has, in
  the order of the schema; records share a directory only if the schema cannot
  tell them apart.
* ProcessFile: each record that can be converted is written once, in order, in a
  line of its own, with its numbers rounded to the nearest of eight digits.
* metric log: a message reads back as it was meant and tells what has happened
  since the last report; what is filed or waiting is never more than what was
  counted, and only a broken log makes it less.

## 2. Modules

| module | models | state and actions |
|---|---|---|
| `Convert` | file loop and file handling of `ProcessFile()` | `input`, `temp`: the two directories; `writer`: how far a producer is; per converter `pc`, `todo` (iterator), `fn`, `file`, `gStop`, `events`; one action per system call or branch of the loop |
| `FileDelivery` | what the converters promise about a file (abstract) | `stage`, `holder`; Offer, Claim, Deliver, Strand |
| `ConvertDelivery` | the refinement mapping from `Convert` to `FileDelivery` | `Status`, `Holder` |
| `HistogramCache` | `HistogramCache` and its cache files | `disk`: the files; per converter `pc`, `key`, `json`, `revisions`, `cache`, `metrics`; one action per lookup, answer of the server, file operation and outcome of the constructor |
| `TelemetryRecord` | `TelemetryRecord::Read()` over one file | `stream`, `pos`, `pc`, `mark`, the two lengths, `metrics`; one action per header field, per failure of the stream and per outcome of a body |
| `Inflate` | `TelemetryRecord::Inflate()` and its buffer over the records of all files | `size`, `filled`, `room` (`mInflateSize`, `mInflateLength`, `avail_out`), `ret`, `text`; Begin, CallInflate, Grow, Finish, NewThrows, NextFile |
| `HistogramSpecification` | its two constructors and two lookups | pure operators; EXTENDed by `HistogramConverter` |
| `HistogramConverter` | `ConvertHistogramData()` with `RewriteHistogram()` and `RewriteValues()` | `doc`, the iterators `it` and `vit`, `rewrite`, `summary`, `result`; one action per member, per value and per way out |
| `TelemetrySchema` | loading a schema, `GetDimensionPath()` | pure operators on sequences of characters |
| `WriteDouble` | the patched `WriteDouble()` | pure operators: `Round`, the digits, and what a parser reads |
| `Message` | Header, Field and Message of message.pb.cc | objects as functions from field names; clear, size, bytes and merge of each class |
| `MetricLog` | `ConstructField()`, `WriteMessage()`, `RollLog()`, `GetMetrics()` | `metrics`, `msg`, `ofs`, `buffer`, `log`; the steps of a report as operators |
| `ConvertFile` | one converter from `ReadConfig()` to its log: EXTENDS `MetricLog`, `TelemetrySchema`, `WriteDouble` | `pc`, `made`, `dimensions`, `file`, `rest`, `sb` and the log; one action per record and way it can end, per report and per failure |
| `MetricLedger` | what the metrics promise (abstract) | `counted`, `pending`, `unsent`, `filed`, `broken`; Count, Hand, Settle, Lose |
| `ConvertLedger` | the refinement mapping from `ConvertFile` to `MetricLedger` | `Counted`, `Pending`, `Unsent`, `Filed`, `Missing` |
| `ConvertProofs` | theorems about `Convert` and its refinement of `FileDelivery` | - |
| `HistogramCacheProofs`, `HistogramConverterProofs` | theorems about `HistogramCache` and `HistogramConverter` | - |
| `InflateProofs`, `TelemetryRecordProofs` | theorems about `Inflate` and `TelemetryRecord` | - |
| `ConvertFileProofs` | theorems about `ConvertFile`, `WriteDouble` and the refinement of `MetricLedger` | - |
| `SequenceLemmas` | lemmas about sequences, sums over sets and sequences, folds, and induction over a bounded range and over a finite set, with which the other proofs get round the induction theorems of the library | - |
| `MC...` | instances for TLC: the sets of keys, streams, lengths and documents | - |

`Convert` in detail. A loop turn is OpenDir (the `directory_iterator`), Pick or
Skip for each entry, ScanEmpty; then Rename or RenameThrows; Open, Read or
ReadThrows, and FileSize for `ProcessFile()`; Remove or RemoveThrows; Report.
With no file it is Block (an event may still arrive before it) and Wake. Every
system call on the shared directories is one action, so converters interleave
between any two. Files are inodes and names are separate: `rename()` and
`remove()` act on names, the open stream on the inode. A producer either streams
into the directory (Create, Close) or moves a complete file in (MoveIn).
Crash kills a converter between any two steps; Start begins a new process.
`opened` and `seen` are observations that no guard reads.

`HistogramCache` in detail. A text is the specification it spells and its form:
as sent, without white space, or cut short. FindMiss starts a lookup; Probe
opens the cache file; FetchThrows, FetchGarbage, FetchStatus and FetchBody are
the outcomes of the request; CreateFile truncates the file and WriteFile writes
it (one `write()`: the text is inserted as a whole); LoadFile reads it, without
white space; Intern or InternThrows ends the lookup. `calls` bounds the
behaviour, `found` and `answered` are observations.

`TelemetryRecord` in detail. A stream is a sequence of cells; a header field
(path length, data length, timestamp) is one cell, so is a byte of a path or of
a body, and the separator is a value that every one of them may have. What
becomes of a body, a record, a parse failure, an inflate failure, or an
exception, is told by its first cell. Get is a turn of `FindRecord()`;
ReadPathLength, ReadDataLength and ReadTimestamp are `ReadHeader()`, with the
`seekg()` back behind the separator when a length is too large; ReadBody and
Process are the rest of `Read()`. GetAtEnd, HeaderAtEnd and BodyAtEnd are the
reads that meet the end of the file. GetAtEnd leaves it open whether a corrupt
byte is counted: `get(ch)` does not set `ch` there and the code tests it. `mark`
is `pos` of `FindRecord()`; `taken` and `returned` are observations.

`Inflate` in detail. Of a compressed body its inflated length and its end
(complete, corrupt, truncated) are kept. `filled` and `room` have 32 bits
(`Wrap`), `size` has not. Grow doubles the buffer after `Z_BUF_ERROR`; a
truncated body asks again and again until `new` throws, which fails the file
(NewThrows); NextFile goes on with the buffer as it is.

`HistogramConverter` in detail. Names are model values; `Startup` and `Behind`
say which begin with "STARTUP_" and what follows the eighth character. For a name
of fewer than eight characters `name + 8` points behind its end, so `Behind` is
a set and Chop or SkipUndefined picks from it. Keys are the numbers that
`strtol()` reads; `ToInt` narrows them as the call of `GetBucketIndex(int)` does.
`Define` and `Chop` begin a histogram, PutValue and FailValues walk over its
values, Replace writes the array, MarkConverted ends the record. The text of a
revision is a JSON value, and Found only takes one that the constructor of
`HistogramSpecification` accepts: every definition complete, its kind a number,
as many buckets as it declares.

`ConvertFile` in detail. A behaviour begins with a scenario: which keys the
configuration has, the schema file, daemon or batch run, the files and how many
calls may fail. Of a record are kept its path, its "info", one number, the
metrics that reading and converting it adds to (what those are is the business
of the modules above) and its fate; behind the last record of a file comes an
entry for what `Read()` meets there. Configure and ConfigureThrows are the start;
Begin, Convert, Refuse, Throw, Finish and FileSizeThrows are `ProcessFile()`;
RemoveFile and RemoveFileThrows, Roll, Reopen and ReopenFails, the four Reports
and FlushLog or FlushLogFails are the rest of a loop turn. In a batch run
ProcessFile() leads back to the top whatever it returns. Crash and Exit end a
process. The log stream is closed, open, open after a failed write ("bad"), or
failed to open; its buffer holds the messages it still has to write, and a
failing write or close puts any number of them into the file. `Frame` spells a
message in bytes exactly as `WriteMessage()` and the generated code do;
`ReadFrame` is a reader of the log, which parses with the generated code.
`written`, `read` and `told` are observations.

`Message` in detail. The has-bits of an object are the domain of a function.
A `RepeatedPtrField` keeps the objects it has had: `elements[1 .. size]` are the
fields of the message, the others wait, cleared, and `add_fields()` hands out the
first of them. `MessageByteSize` computes the length as the code does, field by
field, not from the bytes; that both agree is part of what `ReportsTell` checks.
Strings are atoms with a spelling in bytes (`Utf8`), a double is a small number.

`WriteDouble` in detail. A double is its sign, integer part, whole units of the
last digit and quarters of a unit that are left; one beyond INT_MAX is `huge`.
`Round` is the code's rounding, `NearestEven` what is meant; `Units` is what a
parser reads from the text. A huge negative number is cast to int, which is
undefined: any text in `Garbage` may be written for it.

## 3. Runs

| run | question | instance |
|---|---|---|
| `convert_safe` | types; no lost wake-up; exclusive claim; at most one pass; no complete file lost; `Convert` implements `FileDelivery` | 2 converters, 2 files with distinct names, 1 streamed, every fault, 2 crashes |
| `convert_live` | a crash strands one file at most; finished files are drained, and converted unless stranded; a signal stops a converter, or finds it asleep | 2 converters, 2 files, 1 crash, fair |
| `convert_partial` | (violated) only what was read to the end is removed | 2 converters, 2 files, 1 of them streamed |
| `cache_safe` | types; each revision gets its own, complete specification; the metrics add up; final answers are final | 2 converters, 2 known revisions and an ill-formed key, every fault, 1 crash |
| `cache_live` | each crash ruins one cache file at most, and concurrent fetches ruin none; revisions are resolved, whatever half-written file has been read, unless their file is ruined | 2 converters, 2 revisions, 2 crashes, fair, no fault |
| `cache_invalid` | (violated) invalid specifications are counted as such | 1 converter, 1 invalid specification |
| `record_read` | what is returned are records, in order and disjoint; none is missed without a reason; every accepted header is accounted for; reading ends | every stream of up to 4 segments |
| `inflate` | the buffer is never overrun, texts are whole, memory stays within twice what was needed, a file is given up only for a truncated body or one for which there is no room, whatever came before it; the loop ends | every length from 0 to 14 and every ending, any number of records |
| `converter` | histograms are rewritten in order, as a definition without loops says; the version tells what happened; every bucket found lies inside the array; no count is lost | every record of two histograms out of a few |
| `converter_startup` | (violated) "chop off leading STARTUP_" | as above |
| `file` | lines in order and apart; numbers near; levels explained and paths separate; messages read back and tell what happened; the metrics implement `MetricLedger`; nothing is lost while the log is in order | 525 scenarios, see below |
| `double_rounding` | (violated) "bankers rounding" | the numbers of `file` |

*Bounds.* `MaxCrashes` limits how often converters are killed: one crash at
every point already leaves every combination of files behind, and a restarted
converter meets what the first one left. `MaxCalls` limits the lookups between
two metric messages, not the lookups of a behaviour. Two converters give every
race on one name or one cache file; a third would only repeat it. Two files let
one wait behind another; one of them is streamed, so that it can be met
unfinished. Everything `convert_safe` checks is proved for every number of
converters, files and crashes (section 4), so the run need not be larger; it is
there to catch a wrong model. The converters are interchangeable, which
the safety runs use as a symmetry. The runs disable the deadlock check because
the system does stop: all files converted and nobody obliged to submit more, all
converters stopped by signals, or a converter blocked in `read()`.

`record_read` reads all concatenations of up to four segments: three good
records, six corrupt ones and every single cell, so that a corrupt header, a
separator inside a record, a record cut off at the end and the record behind it
meet in every order; limits are 1 for paths and 2 for data. `inflate` starts
with a buffer of 3 and lets it grow to 100 with counters modulo 32, so bodies
need up to three doublings and truncated ones take the buffer beyond what
`avail_out` can say. A truncated body exhausts the memory, and the files
behind it begin with the buffer that it leaves. `cache_live` allows two crashes, so
that the files of both revisions can be ruined, or one of them twice. `converter` has names that are defined, defined twice,
prefixed and short, two buckets of one bound, and keys that are narrowed onto a
bound (17 to 1, 8 to -8 modulo 16); two histograms are enough to tell the one
that fails, those before it and those behind it apart. Reading and converting
come to an end, so both runs disable the deadlock check.

`file` has four kinds of scenarios. *Numbers*: each sign, an integer part of 0, 9
and 10, fractions of none, the first unit, an even one, one with a zero at its
end and all nines, each with 0 to 3 quarters left, and both huge numbers; two
digits stand for the eight of the code (`Precision`), which makes the same
decisions: is the fraction 0, odd, all nines, does it end in zeros. *Paths*: all
pairs of records with two of eight values (allowed or not, unsafe, empty of
text, with a slash, numbers in and out of range, missing) under three schemas,
which have a free value, a set, a single value, a range with both of its ends
met, and names and values with white space. *Reports*: two files, the first of
which ends well, or in an exception, behind a record that is refused, under any
two failures of `file_size()`, `remove()`, opening, writing or closing the log,
and crashes; two failures are what it takes to leave a message in a bad stream,
write part of it again and lose the rest. *Starts*: each key missing, and eight
faulty schemas. The run disables the deadlock check, since converters exit.

*Fairness.* `Convert!FairSpec` is weak fairness of each converter's own steps:
the kernel runs a process that is ready. Producers, signals, crashes and
restarts are not fair. `HistogramCache!FairSpec` is the same for the steps of a
lookup; as the sockets have no timeout (HistogramCache.cpp:104-159) that
includes the assumption that the server answers or closes the connection.
`Heals` says nothing unless the revision is asked for again and again, since
that depends on the files.

`TelemetryRecord!FairSpec` and `Inflate!FairSpec` are weak fairness of the code's
own steps; neither blocks. Whether there is another record is not fair.

*The violated runs* are disagreements between the code and what it, or the
README, says of itself:

* `convert_partial`: README.md:65 submits with `cp`; a scan that happens to run
  meanwhile claims the unfinished file, and `remove()` deletes it.
* `cache_invalid`: the metric "Invalid Histograms" cannot be reached; an invalid
  specification counts as a connection error.
* `double_rounding`: rapidjson-0_11.patch:64 says "bankers rounding". A tie above
  a fraction of 0 is rounded up, and the increment of line 65 does not carry:
  0.99999999 and a half becomes "0.", which is no JSON. All other ties are right
  (theorem `TiesGoWrong`).
* `converter_startup`: the condition at HistogramConverter.cpp:126 is the wrong
  way round; names with the prefix are kept, others lose eight characters.

*Known behaviour that no run checks*, since no property of the state tells it
from what is meant, or the code makes no promise about it:

* The handler at convert.cpp:354 also catches a failed `remove()`, blames another
  converter and skips the report. The counts wait and are reported under the
  name of the next file; what is assigned (Data In, Processing Time, Throughput)
  is overwritten by it. `ReportsTell` says exactly this.
* `if (tmp) ... else break` (TelemetryRecord.cpp:209) means to turn a lack of
  memory into one inflate failure, but `new` throws, and the file is given up.
  Any truncated body leads there, since it always asks for more (`ThrowsForCause`
  says that, with a buffer below 2^32, only a body that does not fit does, too). Where 2^32 bytes can be had, a truncated body can
  leave a buffer whose size is 0 modulo 2^32: `avail_out` is 0 from the start for
  the bodies behind it, which then double the buffer at once.
* A schema is read through `istream_iterator<char>` (TelemetrySchema.cpp:77),
  which skips white space in strings, too: a name or an allowed value with a
  space in it never matches. `LevelsExplained` leaves such schemas out. The
  configuration is read the same way (convert.cpp:94), paths with spaces included.
* A message may be in the log twice: a write that has failed is tried again by
  `close()`. `ImplementsLedger` counts a message once by its uuid and logger, and
  takes a message cut short for none.
* The digests of HistogramCache.cpp:178 are taken of the text as fetched or as
  read back from its file, which differ in white space: equal specifications
  may be kept twice.
* At the end of a file one corrupt byte too many may be counted
  (TelemetryRecord.cpp:116, see GetAtEnd).
* `case 2` of HistogramConverter.cpp:73 (already converted) is never reached: the
  test at line 50 returns before.
* A key of values that is no number is read as 0 by `strtol()`, and a long is
  narrowed to an int: an invalid lower bound can hit a bucket, where
  HistogramSpecification.h promises -1.
* Two members of one record may have the same name after Chop.

## 4. Proofs

`ConvertProofs` makes no assumption beyond `ConvertAssumption` (the types of the
constants).

* `TypeCorrect`: `Spec => []TypeOK`. `TypeOK` is not inductive: a directory is
  looked up at `fn[c]`, so the invariant adds that a converter past its scan has
  picked a name.
* `WakeupNotLost`: `Spec => []NoLostWakeup`. The property only speaks of a
  converter in `read()`; the invariant (`Watchful`) covers the way there. From
  the moment the iterator is opened, as long as no event is pending, every
  finished file is one the scan has still to visit. A file that is finished
  later leaves an event, because files sit under their own names (`Placed`).
* `CrashesStrandOneEach`: `Spec => []OnePerCrash`. No step of a converter adds to
  `Stranded` as long as reading and removing succeed: it leaves its file by
  Remove only, or by FileSize when another one has already removed the name
  (`StepStrands`). A crash adds the one name the converter is at work on
  (`CrashStrands`).

The second half of `ConvertProofs` assumes in addition that no name is submitted
twice (`UniqueNames`); without it `rename()` may replace a file in the temporary
directory. The inductive invariant `ClaimInv` follows the life of a name: in the
input directory under an untouched file (`InInput`), then in the temporary
directory only (`InTemp`), where a converter at work still finds it (`Held`),
no two work on one name (`Apart`), and each knows how far its pass has got
(`Passes`). From it follow `ClaimIsExclusive`, `ReadAtMostOnce` and
`FilesAreKept`. Only Rename, Open, Read and Remove touch what the invariant is
about; one lemma (`MoveClaimInv`) covers all other steps of a converter.

The last part of `ConvertProofs` shows `DeliveryIsImplemented`: under `UniqueNames`,
`Spec => ImplementsDelivery`. `ClaimInv` and one more fact (`Unread`: the file a
converter is about to read has not been delivered) give what `FileDelivery` sees
of a state in terms of who has claimed a file (`WhatIsSeen`); in particular the
`CHOOSE` of `Holder` has one candidate. Create and MoveIn are an Offer, Rename is
a Claim, Read a Deliver; ReadThrows, and a Crash inside `ProcessFile()`, strand the
file; every other step is a stutter (`Elsewhere`).

`HistogramCacheProofs` holds five results, each with its own invariant.

* `CacheTypeCorrect`: `Spec => []TypeOK`. `TypeInv` adds that a lookup under way
  has a key and that a file that is read or written is there; no converter ever
  removes one.
* `OwnSpecification`: `UniqueDiskNames /\ Spec => []RightSpec`. A specification
  travels from the server through `json` and the file into `revisions`, in the
  hands of several converters; `RightInv` says that each of these places holds
  nothing or a text of the right specification, whole or cut. Two writers of one
  file write texts of the same specification, which is why the key's own file is
  needed. What is cut does not parse, so it never gets into `revisions`.
* `DamageIsBounded`: `UniqueDiskNames /\ Spec => []DamagePerCrash`. Builds on
  `RightInv`: two writers of a file hold the same specification, all of it
  (`WholeInHand`), so whichever writes last leaves a usable file, and an empty one
  still has a writer (`LoadPoisons`). A crash takes the writer of one file
  (`CrashPoisons`).
* `MetricsBalance`: `Spec => []Balanced`. In the middle of a lookup one miss is
  open; `BalanceInv` counts it.
* `FinalAnswers`: `Spec => NoRetry`. What has been answered is in `revisions`
  (`RetryInv`), and only a crash takes both away.

`InflateProofs` shows `BufferHolds` (`InBuffer`) and `TextIsWhole`
(`WholeOrNothing`) from `InflateAssumption`, in which bodies are shorter than
half of `Wrap`. `BufferInv` says that `filled` never exceeds the body or the
buffer and that `room` is what is left of the buffer modulo `Wrap`. Since
`room <= size - filled`, the buffer holds. That `(size - room) % Wrap` is the
number of bytes written although `size` may exceed `Wrap` is the content of
`ModBack` and `ModKeep`. For `BufferBounded` (`BoundedBuffer`) and
`MemoryRunsOutForCause` (`ThrowsForCause`) `Sized` is added: a body that is not truncated has
the buffer grown only if it is longer than what `avail_out` can say of the buffer
(`ModKeep`); if none was truncated so far, the buffer stays below `Wrap`, and that is
all of it. `InflateTypeCorrect` is `TypeOK`.

`TelemetryRecordProofs` proves `TypeOK`, `Sound`, `NoRecordMissed` and
`AllAccounted` for every stream, every limit and every outcome of a body. The
invariant `RecordInv` says what is behind the reader: up to the separator of the
header at hand (or up to `pos` while it searches) every record of the stream has
been returned or lies under an accepted header (`Searched`), everything returned
ends before it (`Behind`), and every accepted header is accounted for
(`Balance`). The one step that goes back (`ResyncRecordInv`) keeps this because it
goes back no further than behind the bad header's separator, where, the header
being bad, no record begins.

`HistogramConverterProofs` assumes of a record and of a text what a JSON parser
gives: lists are lists and integers are integers (`DocumentAssumption`, `IsText` in
`ConverterAssumption`); whether a text has the right members, counts and types is
left to the constructors. `ConverterInv` holds one invariant for each of the two
loops. `Counted`: after some keys, a bucket holds the count of the last of them that
spells its bound, or 0, and a bucket whose bound an earlier one has holds 0
(`OneMoreCounted` is the step, `AllCounted` the end, where this is what `CountIn`
says with a `CHOOSE`). `Rewriting`: what is behind the iterator is settled, what is
ahead untouched. `AtWork` ties them together: the buckets at hand are those of a
definition of the histogram's name, and there are as many counts as buckets because
the constructor has counted them (`LoadedIsSpec`). From these follow `LoopsAreRight`
(`InOrder`), `IndexInside` (`BucketsInside`), `MarkIsTrue` (`MarkTells`) and
`ConverterTypeCorrect` (`TypeOK`).

For `NoCountIsLost` (`CountsKept`) a second invariant, `TotalInv`, says of every
histogram whose keys spell different bounds that, once it is rewritten, its array
sums up to the counts of its keys and, while it is rewritten (`Adding`), to the
counts of the keys read so far. A key without a bucket ends the conversion, so
each key read puts its count into a bucket that still holds 0 (`PutValueTotal`,
by the lemmas about sums in `SequenceLemmas`).

`ConvertFileProofs` rests on five assumptions. `CharAssumption`: '_' and '/' are
safe characters and white space is not. `MagnitudeAssumption` and
`PrecisionAssumption`: `magnitude` is 10^Precision and even, as the two constants
of the patch are. `GarbageAssumption` and `ScenarioAssumption`: texts are sequences
of characters, files are finite and end, what reading a record counts is among
the metrics of two components (as `TelemetryRecord` and `HistogramCache` have it),
and a number that is cast to a string has no slash in it and is not empty. No
assumption is made about which keys, schemas, records or faults there are. The
proofs follow the parts of the module.

* *Rounding.* `NearestUnlessTie`: whatever is not exactly half a unit away from
  two numbers is rounded to the nearest one, with the carry (`UpIsNext`).
  `TiesGoWrong`: a tie is rounded to the even number unless its fraction is 0 or
  all nines; `ParityOfFraction` is why the fraction alone tells whether the number
  is odd.
* *The inductive invariant*, `FileInv`. `ProcessInv`: the schema in `dimensions` is
  that of the file, and the records to come still end with the entry for the end
  of the file. `ReadInv`, `WrittenInv`: everything read has amounts that can be
  counted, and the lines written are those of the converted records among them, in
  order. `LogInv`: the messages have the uuids drawn so far. `StreamInv`: during a
  report the stream is in order or not open at all, holds one message for each
  component that has reported, and what is sent has a uuid that no message in the
  file has; between reports only a failed stream holds anything. `TypeOK` and
  `WrittenInOrder` need all of it, since what is written depends on the schema and
  what is in the log on the stream. `RecordsInv` adds, for each line, the record
  and the schema it was written under.
* *The ledger.* `ConverterKeepsLedger`: `Spec => ImplementsLedger`. The books of
  `MetricLedger` are sums over what was read, the buffer and the log; `BooksInv`
  unfolds them. `CountStep` is a record read, `HandStep` a report, `SettleStep` a
  buffer written in full, `LoseStep` one that is written in part, dropped, or not
  taken at all; `Reports` shows that `GetMetrics()` puts each of its metrics into
  the message once and clears it, which needs that the names of a logger are
  distinct and are nobody else's (`NamesOfLogger`, `MetricNames`). The same steps
  show what the books say of each other (`LedgerKept`): what is `Missing` from them
  is nowhere negative, and stays as it is in a step that begins and ends with an
  open log. From it follow `NothingIsTwice` (`Spec => []NothingTwice`, which no run
  checks by itself, as `ImplementsLedger` implies it) and `LossNeedsCause` (`Spec =>
  LossNeedsBrokenLog`).
* *Numbers.* `NumbersAreNear`: `Spec => []NumbersNear`. `NumberReads`: the row of
  digits of the integer part reads back as it. `FractionReads`: so do the digits of
  the fraction, multiplied by the power of ten of the zeros that were left out;
  the digit at a place is what dividing by a power of ten leaves modulo 10, and
  dividing once more by 10 is dividing by the next power (`Divided`). `TextReads`
  finds sign, point and both rows in the text, `BodyIs` the text in its line.
* *Paths.* `LevelsAreExplained` and `PathsAreSeparate`: `GetDimensionPath()` and
  `LevelsOf` walk over the same dimensions in step (`PathReached`). Each adds the
  same level or none (`LevelAdded`, which compares a dimension as loaded with the
  schema file), and a path whose last directory is complete, when one more is
  added to it, has one more level at its end (`LevelReached`, `OneMoreLevel`). That
  `/=` never gets an empty name or one with a slash is where `Plain` and
  `SafePath()` come in. If every dimension files a record its levels are as many
  as the dimensions (`EveryLevel`), so equal paths are equal levels.

Of the invariants the runs check all are proved. Model-checked only are: the
liveness properties, which are out of the prover's reach, with the fairness they
assume; and `ReportsTell`. Its first half, that a message reads back as it was
meant, unfolds a byte format with nested lengths and numbers of variable length,
written and read by recursive functions; its second, that a message tells what
happened since the last report, is proved for sums (`ConverterKeepsLedger`), but
not for the metrics that are assigned.

## 5. Not modelled

* `RecordWriter`: its operations are empty. Build files and tests.
* Of the generated protobuf code: descriptors, reflection, `MergeFrom()`,
  `CopyFrom()`, `Swap()` and accessors that nothing calls.
* Several converters in `ConvertFile`: they would share the log file, which each
  opens for appending; that their messages do not mix depends on how large one
  `write()` may be, which the code does not control. How converters share
  directories and cache files is modelled in `Convert` and `HistogramCache`.
* What a record holds besides its "info", one number and its fate: `ConvertFile`
  takes from the other modules what reading and converting can count. That
  `info` is an object when `GetDimensionPath()` is called follows from
  `ConvertHistogramData()`, which has refused the record otherwise.
* Directories that cannot be created: like a missing key, that ends the start.
* A lost inotify queue (overflow) and a removed watch: the loop would treat both
  like any event.
* Names submitted again. `Convert` allows them, but `rename()` then replaces a
  file in the temporary directory; what holds nevertheless is `WakeupNotLost`.
* Two revision keys that map to one cache file ('/' and '-' are not told apart)
  are allowed by the module, but the properties are checked without them.
* A reader of a cache file sees it at one instant: a read that spans another
  converter's truncation gives a prefix, which is what reading between the
  truncation and the write gives, too.
* That zlib and the JSON parser fail on a body is a property of the body in
  `TelemetryRecord`.
* Bodies that inflate to 2 GiB or more: the data of a record are at most
  `kMaxTelemetryData` bytes, and zlib expands them about a thousandfold.

## 6. Plan

1. Done: all modules of section 2 with their runs; the theorems of section 4.
2. Theorems still worth proving: the metrics that are assigned hold what the last
   file gave (the second half of `ReportsTell`); a varint, and then a field, reads
   back as it was written (steps towards the first half).
3. Several converters appending to one log, once the code bounds its writes.
