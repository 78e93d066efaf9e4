-------------------------- MODULE TelemetrySchema --------------------------
(***************************************************************************)
(* TelemetrySchema: which directory a record is filed in.                  *)
(*                                                                         *)
(* A string is a sequence of characters.  A JSON value is a record with a  *)
(* type; a member that is not there has the type "null".                   *)
(***************************************************************************)
EXTENDS Integers, SequencesExt

CONSTANTS
    SafeChar,      \* letters, digits, '_', '/' and '.'
    SpaceChar,     \* what istream_iterator<char> skips
    CastText(_)    \* lexical_cast<string>() of a number

ASSUME CharAssumption ==
    /\ {"_", "/"} \subseteq SafeChar
    /\ SafeChar \cap SpaceChar = {}

Null == [type |-> "null"]
Member(object, name) == IF name \in DOMAIN object THEN object[name] ELSE Null
IsNumber(v) == v.type = "number"

-----------------------------------------------------------------------------
(***************************************************************************)
(* Loading the schema: the text of the file without its white space,       *)
(* parsed.                                                                 *)
(***************************************************************************)

WithoutSpace(s) ==
    FoldLeft(LAMBDA t, c : IF c \in SpaceChar THEN t ELSE Append(t, c), <<>>, s)

Trimmed(v) ==
    IF v.type = "string" THEN [type |-> "string", text |-> WithoutSpace(v.text)] ELSE v

\* The value of a JSON text, as the parser sees it.
Loaded(v) ==
    IF v.type = "array"
      THEN [type |-> "array", elements |-> {Trimmed(e) : e \in v.elements}]
      ELSE Trimmed(v)

\* allowed_values as the constructor of TelemetryDimension takes them.
DimensionOk(raw) ==
    /\ Member(raw, "field_name").type = "string"
    /\ LET av == Member(raw, "allowed_values")
       IN  \/ av.type = "string"
           \/ av.type = "array" /\ \A e \in av.elements : e.type = "string"
           \/ /\ av.type = "object"
              /\ IsNumber(Member(av.members, "min"))
              /\ IsNumber(Member(av.members, "max"))

TelemetryDimension(raw) ==
    LET av == Loaded(raw["allowed_values"])
        name == WithoutSpace(raw["field_name"].text)
    IN  CASE av.type = "string" ->
                [name |-> name, type |-> "kValue", value |-> av.text]
          [] av.type = "array" ->
                [name |-> name, type |-> "kSet",
                 set |-> {e.text : e \in av.elements}]
          [] av.type = "object" ->
                [name |-> name, type |-> "kRange",
                 range |-> <<av.members["min"].value, av.members["max"].value>>]

\* LoadDimensions(): anything but an array of objects, each a dimension, throws.
DimensionsOk(raw) ==
    /\ raw.type = "array"
    /\ \A i \in DOMAIN raw.elements :
            raw.elements[i].type = "object" /\ DimensionOk(raw.elements[i].members)

LoadDimensions(raw) ==
    [i \in DOMAIN raw.elements |-> TelemetryDimension(raw.elements[i].members)]

\* The constructor throws unless it can open and parse the file, the version is
\* an int and the dimensions load.
SchemaOk(file) ==
    /\ file.parses
    /\ Member(file.members, "version").type = "int"
    /\ DimensionsOk(Member(file.members, "dimensions"))

-----------------------------------------------------------------------------
(***************************************************************************)
(* GetDimensionPath().                                                     *)
(***************************************************************************)

Other == <<"o", "t", "h", "e", "r">>

SafePath(s) == [i \in DOMAIN s |-> IF s[i] \in SafeChar THEN s[i] ELSE "_"]

\* p /= s of boost::filesystem::path.
Slash(p, s) ==
    IF s = <<>> THEN p
    ELSE IF p = <<>> \/ Last(p) = "/" \/ Head(s) = "/" THEN p \o s
    ELSE p \o <<"/">> \o s

\* Mutant of Allows: the set is forgotten.
AllowsValue(dim, s) == dim.type = "kValue" /\ (dim.value = <<"*">> \/ dim.value = s)

Allows(dim, s) ==
    \/ dim.type = "kValue" /\ (dim.value = <<"*">> \/ dim.value = s)
    \/ dim.type = "kSet" /\ s \in dim.set

\* Mutant of InRange: the upper end does not belong to the range.
InRangeBelow(dim, n) == dim.range[1] <= n /\ n < dim.range[2]

InRange(dim, n) == dim.range[1] <= n /\ n <= dim.range[2]

\* What one dimension does to the path and to the two metrics.
AddLevel(acc, dim, v) ==
    CASE v.type = "string" /\ dim.type # "kRange" ->
            [acc EXCEPT !.path =
                Slash(@, IF Allows(dim, v.text) THEN SafePath(v.text) ELSE Other)]
      [] v.type = "string" /\ dim.type = "kRange" ->
            [acc EXCEPT !.invalidString = @ + 1]
      [] v.type = "number" /\ dim.type = "kRange" ->
            [acc EXCEPT !.path =
                Slash(@, IF InRange(dim, v.value) THEN CastText(v.value) ELSE Other)]
      [] v.type = "number" /\ dim.type # "kRange" ->
            [acc EXCEPT !.invalidNumeric = @ + 1]
      [] OTHER -> acc

\* info is an object: ConvertHistogramData() has refused all other records.
GetDimensionPath(dimensions, info) ==
    FoldLeft(LAMBDA acc, dim : AddLevel(acc, dim, Member(info, dim.name)),
             [path |-> <<>>, invalidString |-> 0, invalidNumeric |-> 0],
             dimensions)

=============================================================================
