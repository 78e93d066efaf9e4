------------------------ MODULE MCHistogramConverter ------------------------
(***************************************************************************)
(* Small instances of HistogramConverter for TLC: all records of two       *)
(* histograms out of a few.                                                *)
(***************************************************************************)
EXTENDS HistogramConverter, TLC

CONSTANTS
    plain,     \* defined
    twice,     \* defined twice
    startup,   \* STARTUP_ and the name of plain
    prefixed,  \* eight other characters and the name of plain
    short      \* shorter than eight characters, not defined

SmallBehind ==
    plain :> {short} @@ twice :> {short} @@ startup :> {plain} @@ prefixed :> {plain}
        @@ short :> {twice, short}

Int0(n) == [type |-> "int", value |-> n]
Kind(ok) == [type |-> "string", isNumber |-> ok]
List(b) == [type |-> "array", elements |-> [i \in DOMAIN b |-> Int0(b[i])]]

RawFields(b) ==
    "kind" :> Kind(TRUE) @@ "min" :> Int0(1) @@ "max" :> Int0(8)
        @@ "bucket_count" :> Int0(Len(b)) @@ "buckets" :> List(b)

Raw(n, fields) == [name |-> n, value |-> [type |-> "object", members |-> fields]]

Definition(n, b) == Raw(n, RawFields(b))

Json(members) ==
    [parses |-> TRUE, histograms |-> [type |-> "object", members |-> members]]

\* The second definition of twice is never used; two buckets of the first have
\* one bound.
GoodSpec ==
    Json(<<Definition(plain, <<0, 1, 7>>), Definition(twice, <<1, 1, -8>>),
           Definition(twice, <<0>>)>>)

WithField(f, v) ==
    Json(<<Raw(plain, (f :> v) @@ RawFields(<<0, 1, 7>>)), Definition(twice, <<0>>)>>)

\* Texts that a constructor rejects: one for each throw.
BadSpecs ==
    "noJson"     :> [GoodSpec EXCEPT !.parses = FALSE]
    @@ "noObject"   :> [GoodSpec EXCEPT !.histograms = Int0(1)]
    @@ "noDef"      :> Json(<<[name |-> plain, value |-> Int0(1)]>>)
    @@ "noKind"     :> WithField("kind", Int0(1))
    @@ "badKind"    :> WithField("kind", Kind(FALSE))
    @@ "noMin"      :> WithField("min", Kind(TRUE))
    @@ "noMax"      :> WithField("max", Kind(TRUE))
    @@ "noCount"    :> WithField("bucket_count", Kind(TRUE))
    @@ "noBuckets"  :> WithField("buckets", Int0(3))
    @@ "badBuckets" :> WithField("buckets", [type |-> "array", elements |-> <<Kind(TRUE)>>])
    @@ "tooFew"     :> WithField("bucket_count", Int0(4))
    @@ "tooMany"    :> WithField("bucket_count", Int0(2))

SmallSpecs == "rev" :> GoodSpec @@ BadSpecs

Pair(lb, count) == [lb |-> lb, count |-> count, isInt |-> TRUE]

NoCount(lb) == [lb |-> lb, count |-> 0, isInt |-> FALSE]

\* With 16 for 2^32, 17 is narrowed to 1, and 8 to -8.
SmallValues ==
    {<<>>, <<Pair(1, 3), NoCount(0)>>}
        \union {<<Pair(a, 3)>> : a \in {7, -8}}
        \union {<<Pair(a, 3), Pair(b, 5)>> : a, b \in {0, 1, 8, 17}}

Objects ==
    {Histogram(TRUE, v, 2 :> Len(v)) : v \in SmallValues}
        \union {Histogram(TRUE, <<>>, <<4, 6>>)}
        \union {Histogram(FALSE, <<>>, <<>>)}

AllValues ==
    Objects \union {Other}
        \union {Histogram(TRUE, v, <<>>) : v \in SmallValues \union {<<Pair(1, 3)>>}}

Member(n, v) == [name |-> n, value |-> v]

Members == {Member(n, v) : n \in Name, v \in Objects} \union {Member(plain, Other)}

Record(lacks, ver, histograms) ==
    [lacks |-> lacks, ver |-> ver, revision |-> "rev", histograms |-> histograms]

SmallDocuments ==
    {Record("nothing", 1, h) : h \in {<<>>} \union {<<m, n>> : m, n \in Members}}
        \union {Record(l, v, <<Member(plain, Histogram(TRUE, <<Pair(1, 3)>>, <<>>))>>) :
                    l \in {"nothing", "info", "revision", "histograms"},
                    v \in {-1, 0, 1, 2}}
        \union {[Record("nothing", 1, <<Member(plain, Histogram(TRUE, v, <<>>))>>)
                    EXCEPT !.revision = rev] : rev \in DOMAIN BadSpecs, v \in SmallValues}

=============================================================================
