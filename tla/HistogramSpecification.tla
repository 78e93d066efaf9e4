----------------------- MODULE HistogramSpecification -----------------------
(***************************************************************************)
(* HistogramSpecification and HistogramDefinition: which texts the         *)
(* constructors accept, what they keep of one, and the two lookups.        *)
(*                                                                         *)
(* A text is given by its JSON value; an object of which the order or      *)
(* duplicates matter by the sequence of its members.                       *)
(***************************************************************************)
EXTENDS Integers, SequencesExt

CONSTANT Wrap  \* 2^32: bucket bounds are ints, strtol() returns a long

ASSUME WrapAssumption == Wrap \in Nat \ {0} /\ Wrap % 2 = 0

\* operator[] gives null for a member that is not there.
Field(object, f) == IF f \in DOMAIN object THEN object[f] ELSE [type |-> "null"]

IsInt(v) == v.type = "int"

\* What the parser makes of a text.
IsList(s) == Len(s) \in Nat /\ s = [i \in 1 .. Len(s) |-> s[i]]

IsArrayOfInts(v) ==
    v.type = "array" =>
        /\ IsList(v.elements)
        /\ \A i \in DOMAIN v.elements :
               IsInt(v.elements[i]) => v.elements[i].value \in Int

IsText(json) ==
    json.histograms.type = "object" =>
        /\ IsList(json.histograms.members)
        /\ \A i \in DOMAIN json.histograms.members :
               LET raw == json.histograms.members[i].value
               IN  raw.type = "object" => IsArrayOfInts(Field(raw.members, "buckets"))

\* A kind is a string that lexical_cast<int>() takes.
FieldsOk(d) ==
    /\ Field(d, "kind").type = "string"
    /\ Field(d, "kind").isNumber
    /\ \A f \in {"min", "max", "bucket_count"} : IsInt(Field(d, f))
    /\ Field(d, "buckets").type = "array"
    /\ \A i \in DOMAIN d["buckets"].elements : IsInt(d["buckets"].elements[i])

\* Mutant of DefinitionOk: the buckets are not counted.
DefinitionOkUncounted(raw) == raw.type = "object" /\ FieldsOk(raw.members)

DefinitionOk(raw) ==
    /\ raw.type = "object"
    /\ FieldsOk(raw.members)
    /\ Len(raw.members["buckets"].elements) = raw.members["bucket_count"].value

\* The constructor throws unless all definitions can be built.
SpecificationOk(json) ==
    /\ json.parses
    /\ json.histograms.type = "object"
    /\ \A i \in DOMAIN json.histograms.members :
           DefinitionOk(json.histograms.members[i].value)

\* What is kept of a definition; buckets in the order of the text.
LoadDefinitions(json) ==
    LET members == json.histograms.members
        Definition(m) ==
            [name |-> m.name,
             count |-> m.value.members["bucket_count"].value,
             buckets |-> [i \in DOMAIN m.value.members["buckets"].elements |->
                            m.value.members["buckets"].elements[i].value]]
    IN  [i \in DOMAIN members |-> Definition(members[i])]

-----------------------------------------------------------------------------

\* mDefinitions: the first of several definitions of a name is kept.
IsDefined(s, n) == \E k \in DOMAIN s : s[k].name = n

GetDefinition(s, n) == s[SelectInSeq(s, LAMBDA d : d.name = n)]

\* The conversion of a long to an int.
ToInt(n) == ((n + Wrap \div 2) % Wrap) - Wrap \div 2

\* GetBucketIndex(), counted from 1, with 0 for the code's -1: insert() keeps
\* the first of several buckets with one bound.
BucketIndex(b, lb) == SelectInSeq(b, LAMBDA bound : bound = ToInt(lb))

=============================================================================
