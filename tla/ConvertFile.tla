---------------------------- MODULE ConvertFile ----------------------------
(***************************************************************************)
(* One converter from its configuration to its log: ReadConfig(), the      *)
(* schema, ProcessFile() over the records of each file, and the report of  *)
(* the file; as a daemon, which is killed and started again, or as a batch *)
(* run over the files of the command line.                                 *)
(*                                                                         *)
(* Of a record are kept: its path, its "info", one number of its body, the *)
(* metrics that reading and converting it adds one to, and its fate.  What *)
(* Read() meets behind the last record of a file is a record whose fate is *)
(* "end".  How files are claimed is the business of Convert.               *)
(***************************************************************************)
EXTENDS MetricLog, TelemetrySchema, WriteDouble

CONSTANT
    Scenarios  \* how a converter is set up, the files it gets and a bound on
               \* the number of calls that fail and of crashes

Fate == {"converted", "refused", "throws", "end"}

\* A text that makes one level of a path.
IsLevel(s) == s \in Seq(STRING) /\ s # <<>> /\ "/" \notin Range(s)

\* A number is digits, a sign, a point, an exponent; it is cast to one level.
IsInfo(info) ==
    \A n \in DOMAIN info :
        /\ info[n].type = "string" => info[n].text \in Seq(STRING)
        /\ info[n].type = "number" => IsLevel(CastText(info[n].value))

\* Reading a record and finding its histograms adds to the metrics of two
\* components only.
IsRecord(r) ==
    /\ r.fate \in Fate
    /\ r.counts \subseteq Range(LoggerMetrics["cache"])
                           \union Range(LoggerMetrics["record"])
    /\ r.fate = "converted" =>
            r.path \in Seq(STRING) /\ r.number \in Double /\ IsInfo(r.info)

\* Every file comes to its end, at the latest where nothing more is found.
IsFile(f) ==
    /\ f.size \in Nat
    /\ f.records \in Seq(Range(f.records)) /\ f.records # <<>>
    /\ f.records[Len(f.records)].fate = "end"
    /\ \A i \in DOMAIN f.records : IsRecord(f.records[i])

\* The texts that allowed_values lists.
Strings(allowed) ==
    CASE allowed.type = "string" -> {allowed.text}
      [] allowed.type = "array" -> {e.text : e \in allowed.elements}
      [] allowed.type = "object" -> {}

Texts(raw) == {raw["field_name"].text} \union Strings(raw["allowed_values"])

ASSUME ScenarioAssumption ==
    \A s \in Scenarios :
        /\ s.faults \in Nat
        /\ s.files \in Seq(Range(s.files))
        /\ \A i \in DOMAIN s.files : IsFile(s.files[i])
        /\ LET dims == Member(s.schema.members, "dimensions")
           IN  dims.type = "array" =>
                   /\ dims.elements \in Seq(Range(dims.elements))
                   /\ DimensionsOk(dims) =>
                         \A i \in DOMAIN dims.elements :
                            Texts(dims.elements[i].members) \subseteq Seq(STRING)

VARIABLES
    scenario,
    pc,
    made,        \* the directories ReadConfig() has created
    dimensions,  \* mDimensions
    todo,        \* files to come
    file,        \* the one at hand
    rest,        \* its records not yet read
    sb,          \* the buffer a record is written to
    faults,
    written,     \* observation: what RecordWriter::Write() got, for which record
    read,        \* observation: all records read
    told         \* observation: how many of them the reports have covered

processVars == <<dimensions, file, rest, sb>>
observations == <<written, read, told>>
vars == <<scenario, pc, made, todo, faults, processVars, observations, logVars>>

Phase == {"start", "top", "read", "remove", "roll", "cache", "record", "schema",
          "converter", "flush", "done", "failed"}

TypeOK ==
    /\ scenario \in Scenarios
    /\ pc \in Phase
    /\ made \subseteq {"input_directory", "storage_path", "log_path", "upload_path"}
    /\ faults \in 0 .. scenario.faults
    /\ \A i \in DOMAIN read : read[i].fate \in Fate
    /\ told \in 0 .. Len(read)
    /\ Len(written) <= Len(read)
    /\ LogTypeOK

-----------------------------------------------------------------------------
(***************************************************************************)
(* Starting up.                                                            *)
(***************************************************************************)

\* The keys in the order of ReadConfig(); config is the set of those that are
\* there with the right type.
ConfigKeys ==
    <<"input_directory", "telemetry_schema", "histogram_server", "storage_path",
      "log_path", "upload_path", "max_uncompressed", "memory_constraint",
      "compression_preset">>

Directories == {"input_directory", "storage_path", "log_path", "upload_path"}

\* The keys read before the first one that makes it throw.
ReadConfig(config) ==
    {ConfigKeys[i] : i \in {k \in DOMAIN ConfigKeys :
                                \A j \in 1 .. k : ConfigKeys[j] \in config}}

NoFile == [name |-> "none", size |-> 0, records |-> <<>>]

Init ==
    /\ scenario \in Scenarios
    /\ pc = "start"
    /\ made = {}
    /\ dimensions = <<>>
    /\ todo = scenario.files
    /\ file = NoFile
    /\ rest = <<>>
    /\ sb = <<>>
    /\ faults = 0
    /\ written = <<>>
    /\ read = <<>>
    /\ told = 0
    /\ LogInit

Fault == faults < scenario.faults /\ faults' = faults + 1

Configure ==
    /\ pc = "start"
    /\ ReadConfig(scenario.config) = Range(ConfigKeys)
    /\ SchemaOk(scenario.schema)
    /\ made' = Directories
    /\ dimensions' = LoadDimensions(scenario.schema.members["dimensions"])
    /\ pc' = "top"
    /\ UNCHANGED <<scenario, todo, file, rest, sb, faults, observations, logVars>>

\* An exception during the start ends main().
ConfigureThrows ==
    /\ pc = "start"
    /\ ReadConfig(scenario.config) # Range(ConfigKeys) \/ ~SchemaOk(scenario.schema)
    /\ made' = made \union (ReadConfig(scenario.config) \cap Directories)
    /\ pc' = "failed"
    /\ UNCHANGED <<scenario, todo, faults, processVars, observations, logVars>>

-----------------------------------------------------------------------------
(***************************************************************************)
(* ProcessFile().                                                          *)
(***************************************************************************)

Begin ==
    /\ pc = "top"
    /\ todo # <<>>
    /\ file' = Head(todo)
    /\ rest' = Head(todo).records
    /\ todo' = Tail(todo)
    /\ sb' = <<>>
    /\ pc' = "read"
    /\ UNCHANGED <<scenario, made, dimensions, faults, observations, logVars>>

\* What ++ and += do to the metrics.
Add(amount(_)) == metrics' = [n \in MetricName |-> metrics[n] + amount(n)]

One(b) == IF b THEN 1 ELSE 0

doc == Head(rest)

Reading(fate) ==
    /\ pc = "read"
    /\ doc.fate = fate
    /\ rest' = Tail(rest)
    /\ UNCHANGED <<scenario, made, dimensions, todo, file, told>>
    /\ UNCHANGED <<msg, uuids, ofs, buffer, log>>

Uuid(path) ==
    LET slash == SelectInSeq(path, LAMBDA c : c = "/")
    IN  IF slash = 0 THEN path ELSE SubSeq(path, 1, slash - 1)

Line(path, body) == Uuid(path) \o <<"\t">> \o body \o <<"\n">>

\* Mutant of Clear: the buffer goes on growing.
ClearNothing(s) == s

Clear(s) == <<>>

Convert ==
    /\ Reading("converted")
    /\ \E body \in DoubleTexts(doc.number) :
           sb' = Clear(sb) \o Line(doc.path, body)
    /\ LET p == GetDimensionPath(dimensions, doc.info)
       IN  /\ written' = Append(written, [doc |-> doc, path |-> p.path, text |-> sb'])
           /\ Add(LAMBDA n :
                CASE n = "Invalid String Dimension" -> p.invalidString
                  [] n = "Invalid Numeric Dimension" -> p.invalidNumeric
                  [] n = "Data Out" -> Len(sb')
                  [] OTHER -> One(n = "Records Processed" \/ n \in doc.counts))
    /\ read' = Append(read, doc)
    /\ UNCHANGED <<pc, faults>>

Refuse ==
    /\ Reading("refused")
    /\ Add(LAMBDA n : One(n \in {"Records Processed", "Records Discarded"}
                                    \union doc.counts))
    /\ read' = Append(read, doc)
    /\ UNCHANGED <<pc, sb, faults, written>>

\* A batch run takes no notice of what ProcessFile() returns.
Return(ok) ==
    pc' = IF scenario.batch THEN "top" ELSE IF ok THEN "remove" ELSE "roll"

\* Read() throws: no memory for what a record inflates to.
Throw ==
    /\ Reading("throws")
    /\ Add(LAMBDA n : One(n \in doc.counts))
    /\ read' = Append(read, doc)
    /\ Return(FALSE)
    /\ UNCHANGED <<sb, faults, written>>

Ended(elapsed, size) ==
    Append(read, [fate |-> "end", counts |-> doc.counts, elapsed |-> elapsed,
                  size |-> size])

\* A metric that is assigned, not counted, stays if it is not.
Finish(elapsed) ==
    /\ Reading("end")
    /\ metrics' = [n \in MetricName |->
                      CASE n = "Processing Time" -> elapsed
                        [] n = "Data In" -> file.size
                        [] n = "Throughput" /\ elapsed > 0 -> file.size \div elapsed
                        [] OTHER -> metrics[n] + One(n \in doc.counts)]
    /\ read' = Ended(elapsed, file.size)
    /\ Return(TRUE)
    /\ UNCHANGED <<sb, faults, written>>

\* The file is gone when file_size() looks for it.
FileSizeThrows(elapsed) ==
    /\ Reading("end")
    /\ Fault
    /\ metrics' = [n \in MetricName |->
                      IF n = "Processing Time" THEN elapsed
                      ELSE metrics[n] + One(n \in doc.counts)]
    /\ read' = Ended(elapsed, -1)
    /\ Return(FALSE)
    /\ UNCHANGED <<sb, written>>

-----------------------------------------------------------------------------
(***************************************************************************)
(* The daemon's loop behind ProcessFile().                                 *)
(***************************************************************************)

Go(from, to) ==
    /\ pc = from
    /\ pc' = to
    /\ UNCHANGED <<scenario, made, dimensions, todo, file, rest, sb, written, read>>

RemoveFile ==
    /\ Go("remove", "roll")
    /\ UNCHANGED <<faults, told, logVars>>

\* The handler takes it for a failed rename() and reports nothing.
RemoveFileThrows ==
    /\ Go("remove", "top")
    /\ Fault
    /\ UNCHANGED <<told, logVars>>

Roll ==
    /\ Go("roll", "cache")
    /\ LogIsOpen
    /\ Stamp(file.name)
    /\ UNCHANGED <<faults, told, metrics>>

Reopen ==
    /\ Go("roll", "cache")
    /\ RollLog(Len(buffer), TRUE)
    /\ Stamp(file.name)
    /\ UNCHANGED <<faults, told, metrics>>

ReopenFails(k, opens) ==
    /\ Go("roll", "cache")
    /\ k < Len(buffer) \/ ~opens
    /\ Fault
    /\ RollLog(k, opens)
    /\ Stamp(file.name)
    /\ UNCHANGED <<told, metrics>>

ReportCache  == Go("cache", "record") /\ Report("cache") /\ UNCHANGED <<faults, told>>
ReportRecord == Go("record", "schema") /\ Report("record") /\ UNCHANGED <<faults, told>>
ReportSchema == Go("schema", "converter") /\ Report("schema") /\ UNCHANGED <<faults, told>>

ReportConverter ==
    /\ Go("converter", "flush")
    /\ Report("converter")
    /\ told' = Len(read)
    /\ UNCHANGED faults

FlushLog ==
    /\ Go("flush", "top")
    /\ Flush
    /\ UNCHANGED <<faults, told>>

FlushLogFails(k) ==
    /\ Go("flush", "top")
    /\ Fault
    /\ FlushFails(k)
    /\ UNCHANGED told

\* A signal, or the last file of a batch run.
Exit(k) ==
    /\ Go("top", "done")
    /\ scenario.batch => todo = <<>>
    /\ k < Len(buffer) => faults < scenario.faults
    /\ Destroy(k)
    /\ faults' = faults + One(k < Len(buffer))
    /\ UNCHANGED told

\* Killed and started again; a batch run is not.
Crash ==
    /\ pc \notin {"start", "done", "failed"}
    /\ ~scenario.batch
    /\ Fault
    /\ pc' = "start"
    /\ dimensions' = <<>>
    /\ file' = NoFile
    /\ rest' = <<>>
    /\ sb' = <<>>
    /\ told' = Len(read)
    /\ LogCrash
    /\ UNCHANGED <<scenario, made, todo, written, read>>

Next ==
    \/ Configure \/ ConfigureThrows
    \/ Begin \/ Convert \/ Refuse \/ Throw
    \/ \E elapsed \in 0 .. 1 : Finish(elapsed) \/ FileSizeThrows(elapsed)
    \/ RemoveFile \/ RemoveFileThrows
    \/ Roll \/ Reopen
    \/ \E k \in 0 .. Len(buffer), opens \in BOOLEAN : ReopenFails(k, opens)
    \/ ReportCache \/ ReportRecord \/ ReportSchema \/ ReportConverter
    \/ FlushLog
    \/ \E k \in 0 .. Len(buffer) : FlushLogFails(k) \/ Exit(k)
    \/ Crash

Spec == Init /\ [][Next]_vars

-----------------------------------------------------------------------------
(***************************************************************************)
(* What is written.                                                        *)
(***************************************************************************)

Converted(records) == {i \in DOMAIN records : records[i].fate = "converted"}

\* The body of a line, behind the uuid and the tabulator.
Body(w) == SubSeq(w.text, Len(Uuid(w.doc.path)) + 2, Len(w.text) - 1)

\* Each record that was read and could be converted is written once, in the
\* order of reading and under its own uuid, with nothing of another record in
\* its line (convert.cpp:184-197).
WrittenInOrder ==
    /\ Len(written) = Cardinality(Converted(read))
    /\ \A i \in Converted(read) :
           LET r == read[i]
               w == written[Cardinality({j \in Converted(read) : j <= i})]
           IN  /\ w.doc = r
               /\ \E body \in DoubleTexts(r.number) : w.text = Line(r.path, body)

\* A number that an int can hold and that is no tie is written as JSON and as
\* the number with Precision digits nearest to it, carries into the integer
\* part included (rapidjson-0_11.patch:52-95).
NumbersNear ==
    \A i \in DOMAIN written :
        LET d == written[i].doc.number
            text == Body(written[i])
        IN  ~d.huge /\ d.quarters # 2 =>
                /\ WellFormed(text)
                /\ Units(text) = NearestEven(d)
                /\ d.neg <=> Head(text) = "-"

\* "bankers rounding" (rapidjson-0_11.patch:64): of two numbers equally near
\* the one with the even last digit is written.
BankersRounding ==
    \A i \in DOMAIN written :
        LET d == written[i].doc.number
            text == Body(written[i])
        IN  ~d.huge => WellFormed(text) /\ Units(text) = NearestEven(d)

-----------------------------------------------------------------------------
(***************************************************************************)
(* Where it is written.  The levels are told from the schema file, not     *)
(* from what has been loaded of it.                                        *)
(***************************************************************************)

\* A path taken apart at its slashes.
Levels(path) ==
    FoldLeft(LAMBDA levels, c :
                IF c = "/" THEN Append(levels, <<>>)
                ELSE [levels EXCEPT ![Len(levels)] = Append(@, c)],
             << <<>> >>, path)

\* The dimensions of the schema file, none before it is read.
Raw == [i \in DOMAIN scenario.schema.members["dimensions"].elements |->
            scenario.schema.members["dimensions"].elements[i].members]

\* A dimension in which white space makes no difference.
Spaceless(raw) ==
    \A s \in Texts(raw) : SpaceChar \cap Range(s) = {}

\* A dimension files a record by text or by number, and the record has the
\* other, or neither.
Files(raw, info) ==
    LET v == Member(info, raw["field_name"].text)
    IN  IF raw["allowed_values"].type = "object" THEN v.type = "number"
                                                 ELSE v.type = "string"

Level(raw, info) ==
    LET v == info[raw["field_name"].text]
        allowed == raw["allowed_values"]
        any == allowed.type = "string" /\ allowed.text = <<"*">>
    IN  IF allowed.type = "object"
          THEN IF /\ allowed.members["min"].value <= v.value
                  /\ v.value <= allowed.members["max"].value
                 THEN CastText(v.value) ELSE Other
          ELSE IF v.text \in Strings(allowed) \/ any THEN SafePath(v.text) ELSE Other

\* The levels of a record: those of the dimensions that file it.
LevelsOf(info) ==
    FoldLeft(LAMBDA levels, raw : IF Files(raw, info)
                                    THEN Append(levels, Level(raw, info)) ELSE levels,
             <<>>, Raw)

OneLevel(info) ==
    \A n \in DOMAIN info : info[n].type = "string" => IsLevel(info[n].text)

Plain(info) == OneLevel(info) /\ \A i \in DOMAIN Raw : Spaceless(Raw[i])

\* The directories of a record's path are those of the dimensions it has, in
\* the order of the schema; each is an allowed value in safe characters, or
\* "other" (TelemetrySchema.cpp:95-144).  A dimension it lacks leaves no gap.
LevelsExplained ==
    \A i \in DOMAIN written :
        LET levels == LevelsOf(written[i].doc.info)
        IN  Plain(written[i].doc.info) =>
                IF levels = <<>> THEN written[i].path = <<>>
                                 ELSE Levels(written[i].path) = levels

\* Records that have every dimension share a directory only if they agree in
\* all of them, as far as safe characters and "other" tell values apart.
PathsSeparate ==
    \A i, j \in DOMAIN written :
        LET a == written[i].doc.info
            b == written[j].doc.info
        IN  /\ written[i].path = written[j].path
            /\ Plain(a) /\ Plain(b)
            /\ \A k \in DOMAIN Raw : Files(Raw[k], a) /\ Files(Raw[k], b)
            => \A k \in DOMAIN Raw : Level(Raw[k], a) = Level(Raw[k], b)

-----------------------------------------------------------------------------
(***************************************************************************)
(* What is reported.                                                       *)
(***************************************************************************)

\* Dimensions by number of which a record has a text, and the other way round.
Mismatches(info, kind) ==
    Cardinality({i \in DOMAIN Raw :
        /\ Member(info, WithoutSpace(Raw[i]["field_name"].text)).type = kind
        /\ (Raw[i]["allowed_values"].type = "object") <=> (kind = "string")})

\* What n counts of one record.
Amount(n, r) ==
    CASE n = "Records Processed" -> One(r.fate \in {"converted", "refused"})
      [] n = "Records Discarded" -> One(r.fate = "refused")
      [] n = "Invalid String Dimension" /\ r.fate = "converted" ->
            Mismatches(r.info, "string")
      [] n = "Invalid Numeric Dimension" /\ r.fate = "converted" ->
            Mismatches(r.info, "number")
      [] OTHER -> One(n \in r.counts)

\* Of records which are the last ones read.
Tally(n, records) ==
    LET before == Len(written) - Cardinality(Converted(records))
    IN  IF n = "Data Out"
          THEN SumFunction([i \in before + 1 .. Len(written) |-> Len(written[i].text)])
          ELSE SumFunction([i \in DOMAIN records |-> Amount(n, records[i])])

Counter == MetricName \ {"Data In", "Processing Time", "Throughput"}

\* The last pass of which good() holds gives a metric that is assigned.
Latest(records, good(_), value(_)) ==
    FoldLeft(LAMBDA v, r : IF r.fate = "end" /\ good(r) THEN value(r) ELSE v,
             0, records)

Expected(n, records) ==
    CASE n \in Counter -> Tally(n, records)
      [] n = "Data In" -> Latest(records, LAMBDA r : r.size >= 0, LAMBDA r : r.size)
      [] n = "Processing Time" -> Latest(records, LAMBDA r : TRUE, LAMBDA r : r.elapsed)
      [] n = "Throughput" ->
            Latest(records, LAMBDA r : r.size >= 0 /\ r.elapsed > 0,
                   LAMBDA r : r.size \div r.elapsed)

Newer(m) == [m EXCEPT !.unknown = <<Item(11, VARINT, 300)>>]

\* Every message put into the log reads back as it was meant, from its declared
\* length to the last byte, also with a field of a later version behind it: it
\* carries the file's name and exactly the metrics of its logger, in their
\* order and with one value each, which tells what happened since the last
\* report and nothing else (convert.cpp:329-352, Metric.cpp, message.pb.cc).
MessageTells(m) ==
    LET back == ReadFrame(Frame(m), NewMessage)
        names == LoggerMetrics[m.logger]
        since == SubSeq(read, told + 1, Len(read))
    IN  /\ back = [m EXCEPT !.elements = back.elements]
        /\ back.payload = file.name /\ back.type = "telemetry"
        /\ back.pid = Pid /\ back.hostname = Hostname
        /\ back.size = Len(names)
        /\ \A i \in DOMAIN names :
               back.elements[i] =
                   [n \in {"name", "value_type", "representation"} |->
                        CASE n = "name" -> names[i]
                          [] n = "value_type" -> DOUBLE
                          [] n = "representation" -> Representation(names[i])]
                   @@ [NewField EXCEPT !.value_double = <<Expected(names[i], since)>>]
        /\ ReadFrame(Frame(Newer(m)), back) = Newer(back)

ReportsTell ==
    [][Len(buffer') > Len(buffer) => MessageTells(Last(buffer'))]_vars

=============================================================================
