------------------------- MODULE HistogramConverter -------------------------
(***************************************************************************)
(* ConvertHistogramData(): the histograms of one record, each an object    *)
(* with counts keyed by the lower bounds of buckets, are rewritten in      *)
(* place as arrays of counts and summary values, one after the other, with *)
(* the definitions of the revision's HistogramSpecification.               *)
(*                                                                         *)
(* Names are model values; what pointer arithmetic makes of them is given  *)
(* by a constant.  A key of a histogram is the number strtol() reads.      *)
(***************************************************************************)
EXTENDS HistogramSpecification

CONSTANTS
    Name,       \* names of histograms
    Startup,    \* those that begin with "STARTUP_"
    Behind,     \* Behind[n]: what name + 8 can spell; for a shorter n, anything
    Specs,      \* Specs[rev]: the text of the revision's specification
    kExtraBucketsSize,
    Values,     \* the values of the members of "histograms"
    Documents   \* the records to be converted

\* The bounds of a definition's buckets.
Bounds == Seq(Int)

ASSUME ConverterAssumption ==
    /\ Startup \subseteq Name
    /\ Behind \in [Name -> SUBSET Name]
    /\ kExtraBucketsSize \in Nat
    /\ \A rev \in DOMAIN Specs : IsText(Specs[rev])

(***************************************************************************)
(* A member of "histograms" has a name and a value: an object, an array    *)
(* written by the conversion, or anything else.  Of the object "values" is *)
(* kept, if it is an object, as a sequence of keys with their counts, and  *)
(* those of the extra fields that are numbers.                             *)
(***************************************************************************)
Histogram(hasValues, values, extra) ==
    [kind |-> "object", hasValues |-> hasValues, values |-> values, extra |-> extra]

Array(counts, summary) == [kind |-> "array", counts |-> counts, summary |-> summary]

Other == [kind |-> "other"]

\* Of a record, what the conversion reads; "lacks" is what is not there.
Document ==
    [lacks : {"nothing", "info", "revision", "histograms"}, ver : Int,
     revision : STRING, histograms : Seq([name : Name, value : Values])]

ASSUME DocumentAssumption ==
    /\ Documents \subseteq Document
    /\ \A v \in Values :
           \/ v.kind = "other"
           \/ /\ v.kind = "object"
              /\ IsList(v.values)
              /\ \A j \in DOMAIN v.values : v.values[j].count \in Int
              /\ \A x \in DOMAIN v.extra : v.extra[x] \in Int

VARIABLES
    original,  \* the record as it was read, never changed
    doc,       \* aDoc
    pc,
    spec,      \* hist, the specification found
    it,        \* the iterator of RewriteHistogram()
    buckets,   \* hd, the definition at hand
    vit,       \* the iterator of RewriteValues()
    rewrite,   \* the counts of the histogram at hand
    summary,   \* outlives the histogram
    result     \* what ConvertHistogramData() returns

vars == <<original, doc, pc, spec, it, buckets, vit, rewrite, summary, result>>

walk == <<it, buckets, vit, rewrite, summary>>

TypeOK ==
    /\ doc.ver \in Int
    /\ Len(doc.histograms) = Len(original.histograms)
    /\ \A i \in DOMAIN doc.histograms : doc.histograms[i].name \in Name
    /\ pc \in {"start", "members", "values", "done"}
    /\ it \in 1 .. Len(doc.histograms) + 1
    /\ buckets \in Bounds
    /\ vit \in Nat \ {0}
    /\ rewrite \in Seq(Int)
    /\ pc = "values" => \E k \in DOMAIN spec : Len(rewrite) = spec[k].count
    /\ summary \in Seq(Int)
    /\ Len(summary) = kExtraBucketsSize
    /\ result \in BOOLEAN

Zeros(n) == [i \in 1 .. n |-> 0]

Init ==
    /\ original \in Documents
    /\ doc = original
    /\ pc = "start"
    /\ spec = <<>>
    /\ it = 1
    /\ buckets = <<>>
    /\ vit = 1
    /\ rewrite = <<>>
    /\ summary = Zeros(kExtraBucketsSize)
    /\ result = TRUE

-----------------------------------------------------------------------------

Finish(ok) == pc' = "done" /\ result' = ok

\* One of the early returns of ConvertHistogramData().  Version 2 is one, too.
Reject ==
    /\ pc = "start"
    /\ doc.lacks # "nothing" \/ doc.ver # 1
    /\ Finish(FALSE)
    /\ UNCHANGED <<original, doc, spec, walk>>

\* FindHistogram() has no specification of the revision, or its constructor has
\* thrown.
NotFound ==
    /\ pc = "start"
    /\ doc.lacks = "nothing" /\ doc.ver = 1
    /\ Finish(FALSE)
    /\ UNCHANGED <<original, doc, spec, walk>>

Found ==
    /\ pc = "start"
    /\ doc.lacks = "nothing" /\ doc.ver = 1
    /\ doc.revision \in DOMAIN Specs
    /\ SpecificationOk(Specs[doc.revision])
    /\ spec' = LoadDefinitions(Specs[doc.revision])
    /\ pc' = "members"
    /\ UNCHANGED <<original, doc, walk, result>>

name == doc.histograms[it].name
value == doc.histograms[it].value

\* A member that is not an object.
SkipOther ==
    /\ pc = "members"
    /\ it <= Len(doc.histograms)
    /\ value.kind # "object"
    /\ it' = it + 1
    /\ UNCHANGED <<original, doc, pc, spec, buckets, vit, rewrite, summary, result>>

\* Mutant of Choose: the counts are not set up.
ChooseReusing(n) ==
    /\ buckets' = GetDefinition(spec, n).buckets
    /\ UNCHANGED rewrite
    /\ vit' = 1
    /\ pc' = "values"

Choose(n) ==
    /\ buckets' = GetDefinition(spec, n).buckets
    /\ rewrite' = Zeros(GetDefinition(spec, n).count)
    /\ vit' = 1
    /\ pc' = "values"

\* A histogram that is defined under its own name.
Define ==
    /\ pc = "members"
    /\ it <= Len(doc.histograms)
    /\ value.kind = "object"
    /\ IsDefined(spec, name)
    /\ Choose(name)
    /\ UNCHANGED <<original, doc, spec, it, summary, result>>

\* strncmp() is not 0: a name that does not begin with "STARTUP_" loses its
\* first eight characters if the rest is defined.
Chop ==
    /\ pc = "members"
    /\ it <= Len(doc.histograms)
    /\ value.kind = "object"
    /\ ~IsDefined(spec, name)
    /\ name \notin Startup
    /\ \E n \in Behind[name] :
           /\ IsDefined(spec, n)
           /\ Choose(n)
           /\ doc' = [doc EXCEPT !.histograms[it].name = n]
    /\ UNCHANGED <<original, spec, it, summary, result>>

SkipUndefined ==
    /\ pc = "members"
    /\ it <= Len(doc.histograms)
    /\ value.kind = "object"
    /\ ~IsDefined(spec, name)
    /\ name \in Startup \/ \E n \in Behind[name] : ~IsDefined(spec, n)
    /\ it' = it + 1
    /\ UNCHANGED <<original, doc, pc, spec, buckets, vit, rewrite, summary, result>>

\* A pair of RewriteValues(): a later key of a bucket replaces the count.
PutValue ==
    /\ pc = "values"
    /\ value.hasValues
    /\ vit <= Len(value.values)
    /\ LET v == value.values[vit]
           index == BucketIndex(buckets, v.lb)
       IN  /\ v.isInt
           /\ index # 0
           /\ rewrite' = [rewrite EXCEPT ![index] = v.count]
    /\ vit' = vit + 1
    /\ UNCHANGED <<original, doc, pc, spec, it, buckets, summary, result>>

\* Mutant of FailValues: the record is not marked.
FailValuesUnmarked ==
    /\ pc = "values"
    /\ \/ ~value.hasValues
       \/ /\ vit <= Len(value.values)
          /\ \/ ~value.values[vit].isInt
             \/ BucketIndex(buckets, value.values[vit].lb) = 0
    /\ Finish(FALSE)
    /\ UNCHANGED <<original, doc, spec, walk>>

\* RewriteValues() returns false: no values, a count that is no integer, or no
\* such bucket.  The loop ends and the record, rewritten up to here, is marked.
FailValues ==
    /\ pc = "values"
    /\ \/ ~value.hasValues
       \/ /\ vit <= Len(value.values)
          /\ \/ ~value.values[vit].isInt
             \/ BucketIndex(buckets, value.values[vit].lb) = 0
    /\ doc' = [doc EXCEPT !.ver = -1]
    /\ Finish(FALSE)
    /\ UNCHANGED <<original, spec, walk>>

\* Mutant of Replace: a missing field leaves the last histogram's value.
ReplaceKeeping ==
    /\ pc = "values"
    /\ value.hasValues
    /\ vit > Len(value.values)
    /\ summary' = [x \in 1 .. kExtraBucketsSize |->
                      IF x \in DOMAIN value.extra THEN value.extra[x] ELSE summary[x]]
    /\ doc' = [doc EXCEPT !.histograms[it].value = Array(rewrite, summary')]
    /\ it' = it + 1
    /\ pc' = "members"
    /\ UNCHANGED <<original, spec, buckets, vit, rewrite, result>>

\* Mutant of Replace: the last value is not waited for.
ReplaceEarly ==
    /\ pc = "values"
    /\ value.hasValues
    /\ vit >= Len(value.values)
    /\ summary' = [x \in 1 .. kExtraBucketsSize |->
                      IF x \in DOMAIN value.extra THEN value.extra[x] ELSE -1]
    /\ doc' = [doc EXCEPT !.histograms[it].value = Array(rewrite, summary')]
    /\ it' = it + 1
    /\ pc' = "members"
    /\ UNCHANGED <<original, spec, buckets, vit, rewrite, result>>

\* All values are in their buckets: the object becomes an array.
Replace ==
    /\ pc = "values"
    /\ value.hasValues
    /\ vit > Len(value.values)
    /\ summary' = [x \in 1 .. kExtraBucketsSize |->
                      IF x \in DOMAIN value.extra THEN value.extra[x] ELSE -1]
    /\ doc' = [doc EXCEPT !.histograms[it].value = Array(rewrite, summary')]
    /\ it' = it + 1
    /\ pc' = "members"
    /\ UNCHANGED <<original, spec, buckets, vit, rewrite, result>>

\* The loop has come to its end.
MarkConverted ==
    /\ pc = "members"
    /\ it > Len(doc.histograms)
    /\ doc' = [doc EXCEPT !.ver = 2]
    /\ Finish(TRUE)
    /\ UNCHANGED <<original, spec, walk>>

Next ==
    \/ Reject \/ NotFound \/ Found
    \/ SkipOther \/ Define \/ Chop \/ SkipUndefined
    \/ PutValue \/ FailValues \/ Replace \/ MarkConverted

Spec == Init /\ [][Next]_vars

-----------------------------------------------------------------------------
(***************************************************************************)
(* Properties.                                                             *)
(***************************************************************************)

\* What array w must be made of object v, said without a loop: a bucket holds
\* the count of the last key that spells its bound, or 0.
LastKeyOf(v, b, j) ==
    /\ ToInt(v.values[j].lb) = b
    /\ \A k \in j + 1 .. Len(v.values) : ToInt(v.values[k].lb) # b

CountIn(v, bs, k) ==
    IF \E j \in 1 .. k - 1 : bs[j] = bs[k]
      THEN 0
      ELSE LET js == {j \in DOMAIN v.values : LastKeyOf(v, bs[k], j)}
           IN  IF js = {} THEN 0 ELSE v.values[CHOOSE j \in js : TRUE].count

IsRewritten(v, bs, w) ==
    /\ v.hasValues
    /\ w = Array([k \in DOMAIN bs |-> CountIn(v, bs, k)],
                 [x \in 1 .. kExtraBucketsSize |->
                     IF x \in DOMAIN v.extra THEN v.extra[x] ELSE -1])

\* The i-th member is what it has to become: rewritten with the definition of
\* its name, or untouched if its name has none; or it has lost a prefix.
Settled(i) ==
    LET was == original.histograms[i]
        is == doc.histograms[i]
    IN  CASE was.value.kind # "object" -> is = was
          [] was.value.kind = "object" /\ IsDefined(spec, was.name) ->
               /\ is.name = was.name
               /\ IsRewritten(was.value, GetDefinition(spec, was.name).buckets, is.value)
          [] OTHER ->
               \/ is = was
               \/ /\ is.name \in Behind[was.name]
                  /\ IsDefined(spec, is.name)
                  /\ IsRewritten(was.value, GetDefinition(spec, is.name).buckets, is.value)

\* Histograms are rewritten one by one, each as its definition says; when one
\* fails, those before it are rewritten and those behind it are untouched.
InOrder ==
    /\ \A i \in DOMAIN doc.histograms :
           /\ i < it => Settled(i)
           /\ i = it => doc.histograms[i].value = original.histograms[i].value
           /\ i > it => doc.histograms[i] = original.histograms[i]
    /\ pc = "done" /\ result => it > Len(doc.histograms)

\* Every bucket that a key can name is inside the array, whatever text the
\* server has sent: RewriteValues() uses the index unchecked
\* (HistogramConverter.cpp:102-107, HistogramSpecification.cpp:60).
BucketsInside ==
    pc = "values" /\ value.hasValues =>
        \A j \in DOMAIN value.values :
            BucketIndex(buckets, value.values[j].lb) <= Len(rewrite)

\* The version tells what has become of the record: 2 if and only if all of it
\* is converted, and whatever has been touched in vain is marked -1.
MarkTells ==
    pc = "done" =>
        /\ result <=> original.ver = 1 /\ doc.ver = 2
        /\ doc.ver = original.ver => doc = original
        /\ doc.ver # original.ver /\ ~result => doc.ver = -1

Total(s) == SumFunction(s)

Injective(s) == \A i, j \in DOMAIN s : s[i] = s[j] => i = j

\* No count is lost: unless two keys spell one bound, the counts of the array
\* add up to the counts of the object.
CountsKept ==
    \A i \in DOMAIN doc.histograms :
        LET was == original.histograms[i].value
            is == doc.histograms[i].value
            keys == [j \in DOMAIN was.values |-> ToInt(was.values[j].lb)]
        IN  was.kind = "object" /\ is.kind = "array" /\ Injective(keys) =>
                Total(is.counts) = Total([j \in DOMAIN keys |-> was.values[j].count])

\* "chop off leading STARTUP_": a histogram that is only defined without this
\* prefix is converted under the shorter name.
\* Violated: the condition is the wrong way round.
StartupChopped ==
    pc = "done" /\ result =>
        \A i \in DOMAIN original.histograms :
            LET was == original.histograms[i]
            IN  /\ was.value.kind = "object"
                /\ ~IsDefined(spec, was.name)
                /\ was.name \in Startup
                /\ \A n \in Behind[was.name] : IsDefined(spec, n)
                => doc.histograms[i].name # was.name

=============================================================================
