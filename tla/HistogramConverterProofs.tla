---------------------- MODULE HistogramConverterProofs ----------------------
(***************************************************************************)
(* Theorems about HistogramConverter, for every record, every text of a    *)
(* specification and every width of an int.                                *)
(***************************************************************************)
EXTENDS HistogramConverter, SequenceLemmas, TLAPS

-----------------------------------------------------------------------------
(***************************************************************************)
(* The two lookups.                                                        *)
(***************************************************************************)

\* GetBucketIndex(): the first bucket of the bound, or none.
LEMMA BucketIndexIs ==
  ASSUME NEW b, NEW lb, Len(b) \in Nat
  PROVE  LET index == BucketIndex(b, lb)
         IN  /\ index \in 0 .. Len(b)
             /\ index # 0 => b[index] = ToInt(lb)
             /\ \A i \in 1 .. Len(b) : b[i] = ToInt(lb) => index # 0 /\ index <= i
  <1> DEFINE I == {i \in 1 .. Len(b) : b[i] = ToInt(lb)}
  <1>1. BucketIndex(b, lb) = IF I # {} THEN Min(I) ELSE 0
    BY DEF BucketIndex, SelectInSeq
  <1>2. I # {} => Min(I) \in I /\ \A i \in I : Min(I) <= i
    <2>1. I \subseteq Nat
      OBVIOUS
    <2> HIDE DEF I
    <2> QED BY <2>1, Least
  <1>3. CASE I = {}
    BY <1>1, <1>3
  <1>4. CASE I # {}
    <2>1. BucketIndex(b, lb) \in I /\ \A i \in I : BucketIndex(b, lb) <= i
      BY <1>1, <1>2, <1>4
    <2>2. BucketIndex(b, lb) \in 1 .. Len(b)
      BY <2>1
    <2> QED BY <2>1, <2>2
  <1> QED BY <1>3, <1>4

\* GetDefinition(): one of the definitions, with the name asked for.
LEMMA GetDefinitionIs ==
  ASSUME NEW s, NEW n, IsDefined(s, n), Len(s) \in Nat, DOMAIN s = 1 .. Len(s)
  PROVE  \E k \in DOMAIN s : s[k].name = n /\ GetDefinition(s, n) = s[k]
  <1> DEFINE I == {i \in 1 .. Len(s) : s[i].name = n}
  <1>1. I # {}
    BY DEF IsDefined
  <1>2. GetDefinition(s, n) = s[Min(I)]
    BY <1>1 DEF GetDefinition, SelectInSeq
  <1>3. Min(I) \in I
    <2>1. I \subseteq Nat
      OBVIOUS
    <2> HIDE DEF I
    <2> QED BY <1>1, <2>1, Least
  <1> QED BY <1>2, <1>3

-----------------------------------------------------------------------------
(***************************************************************************)
(* The invariant.                                                          *)
(***************************************************************************)

Rewritten == [kind : {"array"}, counts : Seq(Int), summary : Seq(Int)]

\* What becomes of a record.
Converted ==
    [lacks : {"nothing", "info", "revision", "histograms"}, ver : Int,
     revision : STRING,
     histograms : Seq([name : Name, value : Values \union Rewritten])]

IsSpec(s) ==
    /\ IsList(s)
    /\ \A k \in DOMAIN s :
           /\ s[k].buckets \in Seq(Int)
           /\ s[k].count = Len(s[k].buckets)

TypeInv ==
    /\ original \in Document /\ doc \in Converted
    /\ Len(doc.histograms) = Len(original.histograms)
    /\ pc \in {"start", "members", "values", "done"}
    /\ it \in 1 .. Len(doc.histograms) + 1
    /\ IsSpec(spec)
    /\ buckets \in Seq(Int)
    /\ vit \in Nat \ {0}
    /\ rewrite \in Seq(Int)
    /\ summary \in Seq(Int) /\ Len(summary) = kExtraBucketsSize
    /\ result \in BOOLEAN

\* The histogram that RewriteValues() is at work on.
AtWork ==
    pc = "values" =>
        /\ it <= Len(doc.histograms)
        /\ value \in Values /\ value.kind = "object"
        /\ IsDefined(spec, name)
        /\ buckets = GetDefinition(spec, name).buckets
        /\ Len(rewrite) = Len(buckets)
        /\ value.hasValues => vit <= Len(value.values) + 1
        /\ LET was == original.histograms[it].name
           IN  \/ name = was
               \/ ~IsDefined(spec, was) /\ name \in Behind[was]

\* Of the first n keys of v, the j-th is the last to spell b.
LastOf(v, b, n, j) ==
    /\ ToInt(v.values[j].lb) = b
    /\ \A i \in j + 1 .. n : ToInt(v.values[i].lb) # b

\* Bucket k after the first n keys.
IsCounted(v, bs, n, k, count) ==
    /\ (\E j \in 1 .. k - 1 : bs[j] = bs[k]) => count = 0
    /\ (\A j \in 1 .. n : ~LastOf(v, bs[k], n, j)) => count = 0
    /\ ~(\E j \in 1 .. k - 1 : bs[j] = bs[k]) =>
           \A j \in 1 .. n : LastOf(v, bs[k], n, j) => count = v.values[j].count

\* The loop of RewriteValues().
Counted ==
    pc = "values" /\ value.hasValues =>
        \A k \in 1 .. Len(rewrite) :
            IsCounted(value, buckets, vit - 1, k, rewrite[k])

\* The loop of RewriteHistogram().
Rewriting ==
    \A i \in DOMAIN doc.histograms :
        /\ i < it => Settled(i)
        /\ i = it => doc.histograms[i].value = original.histograms[i].value
        /\ i = it /\ pc # "values" /\ pc # "done" => doc.histograms[i] = original.histograms[i]
        /\ i > it => doc.histograms[i] = original.histograms[i]

Marking ==
    /\ pc = "start" => doc = original /\ it = 1
    /\ pc # "done" => result /\ doc.ver = original.ver
    /\ pc \in {"members", "values"} => doc.ver = 1
    /\ pc = "done" /\ result => it > Len(doc.histograms)

ConverterInv ==
    /\ TypeInv
    /\ AtWork
    /\ Counted
    /\ Rewriting
    /\ Marking
    /\ MarkTells

-----------------------------------------------------------------------------
(***************************************************************************)
(* Types.                                                                  *)
(***************************************************************************)

\* Sequences, as the prover needs them.
LEMMA ElementsOf ==
  ASSUME NEW S, NEW s \in Seq(S)
  PROVE  /\ Len(s) \in Nat /\ DOMAIN s = 1 .. Len(s)
         /\ \A i \in 1 .. Len(s) : s[i] \in S
  OBVIOUS

LEMMA ListOf ==
  ASSUME NEW S, NEW n \in Nat, NEW s, s = [i \in 1 .. n |-> s[i]],
         \A i \in 1 .. n : s[i] \in S
  PROVE  s \in Seq(S) /\ Len(s) = n
  OBVIOUS

LEMMA Typed ==
  ASSUME TypeInv
  PROVE  /\ Len(doc.histograms) \in Nat
         /\ DOMAIN doc.histograms = 1 .. Len(doc.histograms)
         /\ DOMAIN original.histograms = 1 .. Len(doc.histograms)
         /\ \A i \in 1 .. Len(doc.histograms) :
                /\ doc.histograms[i].name \in Name
                /\ doc.histograms[i].value \in Values \union Rewritten
                /\ original.histograms[i].name \in Name
                /\ original.histograms[i].value \in Values
         /\ doc.ver \in Int /\ original.ver \in Int
         /\ Len(buckets) \in Nat /\ Len(rewrite) \in Nat
  <1>1. /\ doc.histograms \in Seq([name : Name, value : Values \union Rewritten])
        /\ original.histograms \in Seq([name : Name, value : Values])
        /\ doc.ver \in Int /\ original.ver \in Int
        /\ Len(doc.histograms) = Len(original.histograms)
    BY DEF TypeInv, Document, Converted
  <1>2. \A i \in 1 .. Len(doc.histograms) :
          doc.histograms[i] \in [name : Name, value : Values \union Rewritten]
    BY <1>1, ElementsOf, Zenon
  <1>3. \A i \in 1 .. Len(doc.histograms) :
          original.histograms[i] \in [name : Name, value : Values]
    BY <1>1, ElementsOf, Zenon
  <1>4. Len(buckets) \in Nat /\ Len(rewrite) \in Nat
    BY DEF TypeInv
  <1> QED BY <1>1, <1>2, <1>3, <1>4

LEMMA ValueTyped ==
  ASSUME NEW v \in Values, v.kind = "object"
  PROVE  /\ Len(v.values) \in Nat
         /\ DOMAIN v.values = 1 .. Len(v.values)
         /\ \A j \in 1 .. Len(v.values) : v.values[j].count \in Int
         /\ \A x \in DOMAIN v.extra : v.extra[x] \in Int
  <1>1. /\ IsList(v.values)
        /\ \A j \in DOMAIN v.values : v.values[j].count \in Int
        /\ \A x \in DOMAIN v.extra : v.extra[x] \in Int
    BY DocumentAssumption
  <1> QED BY <1>1 DEF IsList

\* The constructors keep as many buckets as they count.
LEMMA LoadedIsSpec ==
  ASSUME NEW json, SpecificationOk(json), IsText(json)
  PROVE  IsSpec(LoadDefinitions(json))
  <1> DEFINE ms == json.histograms.members
             defs == LoadDefinitions(json)
  <1>1. /\ Len(ms) \in Nat /\ DOMAIN ms = 1 .. Len(ms)
        /\ \A i \in 1 .. Len(ms) :
              /\ DefinitionOk(ms[i].value)
              /\ ms[i].value.type = "object" =>
                    IsArrayOfInts(Field(ms[i].value.members, "buckets"))
    BY DEF SpecificationOk, IsText, IsList
  <1>2. /\ DOMAIN defs = 1 .. Len(ms)
        /\ \A k \in 1 .. Len(ms) :
              LET m == ms[k].value.members
              IN  /\ defs[k].count = m["bucket_count"].value
                  /\ defs[k].buckets =
                        [i \in DOMAIN m["buckets"].elements |-> m["buckets"].elements[i].value]
    BY <1>1 DEF LoadDefinitions
  <1>3. IsList(defs)
    <2>1. defs = [i \in 1 .. Len(ms) |-> defs[i]]
      BY <1>1, <1>2 DEF LoadDefinitions
    <2>2. Len(defs) = Len(ms)
      BY <1>1, <2>1
    <2> QED BY <1>1, <2>1, <2>2 DEF IsList
  <1>4. ASSUME NEW k \in 1 .. Len(ms)
        PROVE  defs[k].buckets \in Seq(Int) /\ defs[k].count = Len(defs[k].buckets)
    <2> DEFINE m == ms[k].value.members
               es == m["buckets"].elements
    <2>1. /\ ms[k].value.type = "object"
          /\ Field(m, "buckets").type = "array"
          /\ \A i \in DOMAIN es : IsInt(es[i])
          /\ Len(es) = m["bucket_count"].value
          /\ IsArrayOfInts(Field(m, "buckets"))
      BY <1>1 DEF DefinitionOk, FieldsOk
    <2>2. Field(m, "buckets") = m["buckets"]
      BY <2>1 DEF Field
    <2>3. /\ Len(es) \in Nat /\ DOMAIN es = 1 .. Len(es)
          /\ \A i \in 1 .. Len(es) : es[i].value \in Int
      <3>1. IsList(es) /\ \A i \in DOMAIN es : IsInt(es[i]) => es[i].value \in Int
        BY <2>1, <2>2 DEF IsArrayOfInts
      <3>2. Len(es) \in Nat /\ DOMAIN es = 1 .. Len(es)
        BY <3>1 DEF IsList
      <3> QED BY <2>1, <3>1, <3>2
    <2>4. defs[k].buckets = [i \in 1 .. Len(es) |-> es[i].value]
      BY <1>2, <2>3
    <2>5. defs[k].buckets \in Seq(Int) /\ Len(defs[k].buckets) = Len(es)
      <3> DEFINE bs == defs[k].buckets
      <3>1. bs = [i \in 1 .. Len(es) |-> bs[i]] /\ \A i \in 1 .. Len(es) : bs[i] \in Int
        BY <2>3, <2>4
      <3>2. \A n \in Nat : \A s :
              s = [i \in 1 .. n |-> s[i]] /\ (\A i \in 1 .. n : s[i] \in Int)
                => s \in Seq(Int) /\ Len(s) = n
        BY ListOf
      <3> HIDE DEF bs, es
      <3>3. Len(es) \in Nat
        BY <2>3
      <3>4. bs \in Seq(Int) /\ Len(bs) = Len(es)
        BY <3>1, <3>2, <3>3
      <3> QED BY <3>4 DEF bs, es
    <2> QED BY <1>2, <2>1, <2>5
  <1> HIDE DEF defs
  <1>5. IsSpec(defs)
    BY <1>2, <1>3, <1>4 DEF IsSpec
  <1> QED BY <1>5 DEF defs

LEMMA ZerosTyped ==
  ASSUME NEW n \in Nat
  PROVE  Zeros(n) \in Seq(Int) /\ Len(Zeros(n)) = n
  BY DEF Zeros

\* What the steps do to the record.
LEMMA SetVersion ==
  ASSUME TypeInv, NEW v \in Int, doc' = [doc EXCEPT !.ver = v]
  PROVE  doc' \in Converted /\ doc'.ver = v /\ doc'.histograms = doc.histograms
  BY DEF TypeInv, Converted

LEMMA SetValue ==
  ASSUME TypeInv, NEW i \in 1 .. Len(doc.histograms), NEW w \in Rewritten,
         doc' = [doc EXCEPT !.histograms[i].value = w]
  PROVE  /\ doc' \in Converted /\ doc'.ver = doc.ver
         /\ Len(doc'.histograms) = Len(doc.histograms)
         /\ DOMAIN doc'.histograms = 1 .. Len(doc.histograms)
         /\ \A j \in 1 .. Len(doc.histograms) :
               j # i => doc'.histograms[j] = doc.histograms[j]
         /\ doc'.histograms[i].name = doc.histograms[i].name
         /\ doc'.histograms[i].value = w
  <1> DEFINE M == [name : Name, value : Values \union Rewritten]
             h == doc.histograms
             g == [h EXCEPT ![i].value = w]
  <1>1. h \in Seq(M) /\ doc' = [doc EXCEPT !.histograms = g]
    BY DEF TypeInv, Converted
  <1>2. Len(h) \in Nat /\ DOMAIN h = 1 .. Len(h) /\ \A j \in 1 .. Len(h) : h[j] \in M
    BY <1>1, ElementsOf, Zenon
  <1>3. /\ \A j \in 1 .. Len(h) : j # i => g[j] = h[j]
        /\ g[i] = [h[i] EXCEPT !.value = w]
        /\ g = [j \in 1 .. Len(h) |-> g[j]]
    BY <1>2
  <1>4. g[i] \in M /\ g[i].name = h[i].name /\ g[i].value = w
    BY <1>2, <1>3
  <1>5. \A j \in 1 .. Len(h) : g[j] \in M
    BY <1>2, <1>3, <1>4
  <1> HIDE DEF M, g
  <1>6. g \in Seq(M) /\ Len(g) = Len(h)
    BY <1>2, <1>3, <1>5, ListOf
  <1>7. doc' \in Converted /\ doc'.ver = doc.ver /\ doc'.histograms = g
    BY <1>1, <1>6 DEF TypeInv, Converted, M
  <1> QED BY <1>3, <1>4, <1>6, <1>7

LEMMA SetName ==
  ASSUME TypeInv, NEW i \in 1 .. Len(doc.histograms), NEW n \in Name,
         doc' = [doc EXCEPT !.histograms[i].name = n]
  PROVE  /\ doc' \in Converted /\ doc'.ver = doc.ver
         /\ Len(doc'.histograms) = Len(doc.histograms)
         /\ DOMAIN doc'.histograms = 1 .. Len(doc.histograms)
         /\ \A j \in 1 .. Len(doc.histograms) :
               j # i => doc'.histograms[j] = doc.histograms[j]
         /\ doc'.histograms[i].name = n
         /\ doc'.histograms[i].value = doc.histograms[i].value
  <1> DEFINE M == [name : Name, value : Values \union Rewritten]
             h == doc.histograms
             g == [h EXCEPT ![i].name = n]
  <1>1. h \in Seq(M) /\ doc' = [doc EXCEPT !.histograms = g]
    BY DEF TypeInv, Converted
  <1>2. Len(h) \in Nat /\ DOMAIN h = 1 .. Len(h) /\ \A j \in 1 .. Len(h) : h[j] \in M
    BY <1>1, ElementsOf, Zenon
  <1>3. /\ \A j \in 1 .. Len(h) : j # i => g[j] = h[j]
        /\ g[i] = [h[i] EXCEPT !.name = n]
        /\ g = [j \in 1 .. Len(h) |-> g[j]]
    BY <1>2
  <1>4. g[i] \in M /\ g[i].name = n /\ g[i].value = h[i].value
    BY <1>2, <1>3
  <1>5. \A j \in 1 .. Len(h) : g[j] \in M
    BY <1>2, <1>3, <1>4
  <1> HIDE DEF M, g
  <1>6. g \in Seq(M) /\ Len(g) = Len(h)
    BY <1>2, <1>3, <1>5, ListOf
  <1>7. doc' \in Converted /\ doc'.ver = doc.ver /\ doc'.histograms = g
    BY <1>1, <1>6 DEF TypeInv, Converted, M
  <1> QED BY <1>3, <1>4, <1>6, <1>7

-----------------------------------------------------------------------------
(***************************************************************************)
(* One step per action.                                                    *)
(***************************************************************************)

LEMMA InitConverterInv == Init => ConverterInv
  <1> SUFFICES ASSUME Init PROVE ConverterInv
    OBVIOUS
  <1>1. /\ original \in Document /\ doc = original /\ pc = "start" /\ spec = <<>>
        /\ it = 1 /\ buckets = <<>> /\ vit = 1 /\ rewrite = <<>> /\ result = TRUE
    BY DocumentAssumption DEF Init
  <1>2. summary \in Seq(Int) /\ Len(summary) = kExtraBucketsSize
    BY ConverterAssumption, ZerosTyped DEF Init
  <1>3. doc \in Converted /\ Len(doc.histograms) \in Nat
    <2>1. original.histograms \in Seq([name : Name, value : Values])
      BY <1>1 DEF Document
    <2> DEFINE h == original.histograms
               M == [name : Name, value : Values]
               W == [name : Name, value : Values \union Rewritten]
    <2>2. Len(h) \in Nat /\ h = [i \in 1 .. Len(h) |-> h[i]]
      BY <2>1
    <2>3. \A i \in 1 .. Len(h) : h[i] \in M
      BY <2>1, ElementsOf, Zenon
    <2>4. \A i \in 1 .. Len(h) : h[i] \in W
      BY <2>3
    <2> HIDE DEF W, M
    <2>5. h \in Seq(W)
      BY <2>2, <2>4
    <2> QED BY <1>1, <2>2, <2>5 DEF Document, Converted, W
  <1>4. IsSpec(spec)
    BY <1>1 DEF IsSpec, IsList
  <1>5. TypeInv
    BY <1>1, <1>2, <1>3, <1>4 DEF TypeInv
  <1>6. AtWork /\ Counted /\ Marking /\ MarkTells
    BY <1>1 DEF AtWork, Counted, Marking, MarkTells
  <1>7. Rewriting
    BY <1>1, <1>5, Typed DEF Rewriting
  <1> QED BY <1>5, <1>6, <1>7 DEF ConverterInv

\* What is settled stays settled.
LEMMA SameSettled ==
  ASSUME NEW i, original' = original, spec' = spec,
         doc'.histograms[i] = doc.histograms[i], Settled(i)
  PROVE  Settled(i)'
  BY DEF Settled

LEMMA RejectConverterInv == ConverterInv /\ (Reject \/ NotFound) => ConverterInv'
  <1> SUFFICES ASSUME ConverterInv, Reject \/ NotFound PROVE ConverterInv'
    OBVIOUS
  <1> USE DEF ConverterInv
  <1>1. /\ pc = "start" /\ pc' = "done" /\ result' = FALSE
        /\ UNCHANGED <<original, doc, spec, it, buckets, vit, rewrite, summary>>
    BY DEF Reject, NotFound, Finish, walk
  <1>2. doc = original /\ it = 1
    BY <1>1 DEF Marking
  <1>3. TypeInv'
    BY <1>1 DEF TypeInv
  <1>4. AtWork' /\ Counted' /\ Marking' /\ MarkTells'
    BY <1>1, <1>2 DEF AtWork, Counted, Marking, MarkTells
  <1>5. Rewriting'
    BY <1>1, <1>2, Typed DEF Rewriting
  <1> QED BY <1>3, <1>4, <1>5

LEMMA FoundConverterInv == ConverterInv /\ Found => ConverterInv'
  <1> SUFFICES ASSUME ConverterInv, Found PROVE ConverterInv'
    OBVIOUS
  <1> USE DEF ConverterInv
  <1>1. /\ pc = "start" /\ pc' = "members" /\ doc.ver = 1
        /\ UNCHANGED <<original, doc, it, buckets, vit, rewrite, summary, result>>
    BY DEF Found, walk
  <1>2. doc = original /\ it = 1
    BY <1>1 DEF Marking
  <1>3. IsSpec(spec')
    BY LoadedIsSpec, ConverterAssumption DEF Found
  <1>4. TypeInv'
    BY <1>1, <1>3 DEF TypeInv
  <1>5. AtWork' /\ Counted' /\ Marking' /\ MarkTells'
    BY <1>1, <1>2 DEF AtWork, Counted, Marking, MarkTells
  <1>6. Rewriting'
    BY <1>1, <1>2, Typed DEF Rewriting
  <1> QED BY <1>4, <1>5, <1>6

LEMMA SkipConverterInv ==
  ConverterInv /\ (SkipOther \/ SkipUndefined) => ConverterInv'
  <1> SUFFICES ASSUME ConverterInv, SkipOther \/ SkipUndefined PROVE ConverterInv'
    OBVIOUS
  <1> USE DEF ConverterInv
  <1>1. /\ pc = "members" /\ pc' = "members" /\ it <= Len(doc.histograms) /\ it' = it + 1
        /\ UNCHANGED <<original, doc, spec, buckets, vit, rewrite, summary, result>>
        /\ value.kind # "object" \/ ~IsDefined(spec, name)
    BY DEF SkipOther, SkipUndefined
  <1>2. it \in 1 .. Len(doc.histograms) /\ doc.histograms[it] = original.histograms[it]
    <2>1. it \in 1 .. Len(doc.histograms)
      BY <1>1, Typed DEF TypeInv
    <2> QED BY <1>1, <2>1, Typed DEF Rewriting
  <1>3. Settled(it)
    BY <1>1, <1>2 DEF Settled, value, name
  <1>4. TypeInv'
    BY <1>1, <1>2, Typed DEF TypeInv
  <1>5. AtWork' /\ Counted' /\ Marking' /\ MarkTells'
    BY <1>1 DEF AtWork, Counted, Marking, MarkTells
  <1>6. Rewriting'
    <2> SUFFICES ASSUME NEW i \in 1 .. Len(doc.histograms)
                 PROVE  /\ i < it' => Settled(i)'
                        /\ i >= it' => doc.histograms[i] = original.histograms[i]
      BY <1>1, <1>2, Typed DEF Rewriting
    <2>1. CASE i < it
      BY <1>1, <1>2, <2>1, SameSettled, Typed DEF Rewriting
    <2>2. CASE i = it
      BY <1>1, <1>2, <1>3, <2>2, SameSettled
    <2>3. CASE i > it
      BY <1>1, <1>2, <2>3, Typed DEF Rewriting
    <2> QED BY <1>2, <2>1, <2>2, <2>3
  <1> QED BY <1>4, <1>5, <1>6

\* With no keys read, all counts are 0.
LEMMA NothingCounted ==
  ASSUME NEW v, NEW bs, NEW k
  PROVE  IsCounted(v, bs, 0, k, 0)
  BY DEF IsCounted

\* What a definition sets up.
LEMMA Chosen ==
  ASSUME TypeInv, NEW n, IsDefined(spec, n), Choose(n)
  PROVE  /\ buckets' = GetDefinition(spec, n).buckets
         /\ buckets' \in Seq(Int) /\ rewrite' \in Seq(Int)
         /\ Len(rewrite') = Len(buckets') /\ Len(rewrite') \in Nat
         /\ \A k \in 1 .. Len(rewrite') : rewrite'[k] = 0
         /\ vit' = 1 /\ pc' = "values"
  <1>1. /\ Len(spec) \in Nat /\ DOMAIN spec = 1 .. Len(spec)
        /\ \A k \in DOMAIN spec :
              spec[k].buckets \in Seq(Int) /\ spec[k].count = Len(spec[k].buckets)
    BY DEF TypeInv, IsSpec, IsList
  <1>2. PICK k \in DOMAIN spec : GetDefinition(spec, n) = spec[k]
    BY <1>1, GetDefinitionIs
  <1>3. /\ buckets' = spec[k].buckets /\ rewrite' = Zeros(spec[k].count)
        /\ vit' = 1 /\ pc' = "values"
    BY <1>2 DEF Choose
  <1>4. spec[k].buckets \in Seq(Int) /\ spec[k].count = Len(spec[k].buckets)
    BY <1>1
  <1>5. spec[k].count \in Nat
    BY <1>4
  <1>6. rewrite' \in Seq(Int) /\ Len(rewrite') = spec[k].count
    BY <1>3, <1>5, ZerosTyped
  <1>7. \A j \in 1 .. Len(rewrite') : rewrite'[j] = 0
    BY <1>3, <1>5, <1>6 DEF Zeros
  <1> QED BY <1>2, <1>3, <1>4, <1>5, <1>6, <1>7

LEMMA DefineConverterInv == ConverterInv /\ Define => ConverterInv'
  <1> SUFFICES ASSUME ConverterInv, Define PROVE ConverterInv'
    OBVIOUS
  <1> USE DEF ConverterInv
  <1>1. /\ pc = "members" /\ it <= Len(doc.histograms)
        /\ value.kind = "object" /\ IsDefined(spec, name) /\ Choose(name)
        /\ UNCHANGED <<original, doc, spec, it, summary, result>>
    BY DEF Define
  <1>2. /\ it \in 1 .. Len(doc.histograms)
        /\ doc.histograms[it] = original.histograms[it]
        /\ value \in Values
    <2>1. it \in 1 .. Len(doc.histograms)
      BY <1>1, Typed DEF TypeInv
    <2> QED BY <1>1, <2>1, Typed DEF Rewriting, value
  <1>3. /\ buckets' = GetDefinition(spec, name).buckets
        /\ buckets' \in Seq(Int) /\ rewrite' \in Seq(Int)
        /\ Len(rewrite') = Len(buckets')
        /\ \A k \in 1 .. Len(rewrite') : rewrite'[k] = 0
        /\ vit' = 1 /\ pc' = "values"
    BY <1>1, Chosen
  <1>4. value' = value /\ name' = name
    BY <1>1 DEF value, name
  <1>5. TypeInv'
    BY <1>1, <1>3 DEF TypeInv
  <1>6. AtWork'
    <2>1. Len(value.values) \in Nat
      BY <1>1, <1>2, ValueTyped
    <2>2. name = original.histograms[it].name
      BY <1>2 DEF name
    <2> QED BY <1>1, <1>2, <1>3, <1>4, <2>1, <2>2 DEF AtWork
  <1>7. Counted'
    BY <1>3, NothingCounted DEF Counted
  <1>8. Rewriting'
    BY <1>1, <1>2, <1>3, SameSettled, Typed DEF Rewriting
  <1>9. Marking' /\ MarkTells'
    BY <1>1, <1>3 DEF Marking, MarkTells
  <1> QED BY <1>5, <1>6, <1>7, <1>8, <1>9

LEMMA ChopConverterInv == ConverterInv /\ Chop => ConverterInv'
  <1> SUFFICES ASSUME ConverterInv, Chop PROVE ConverterInv'
    OBVIOUS
  <1> USE DEF ConverterInv
  <1>1. /\ pc = "members" /\ it <= Len(doc.histograms)
        /\ value.kind = "object" /\ ~IsDefined(spec, name)
        /\ UNCHANGED <<original, spec, it, summary, result>>
    BY DEF Chop
  <1>2. PICK n \in Behind[name] :
          /\ IsDefined(spec, n) /\ Choose(n)
          /\ doc' = [doc EXCEPT !.histograms[it].name = n]
    BY DEF Chop
  <1>3. /\ it \in 1 .. Len(doc.histograms)
        /\ doc.histograms[it] = original.histograms[it]
        /\ value \in Values /\ name \in Name
    <2>1. it \in 1 .. Len(doc.histograms)
      BY <1>1, Typed DEF TypeInv
    <2> QED BY <1>1, <2>1, Typed DEF Rewriting, value, name
  <1>4. n \in Name
    BY <1>3, ConverterAssumption
  <1>5. /\ doc' \in Converted /\ doc'.ver = doc.ver
        /\ Len(doc'.histograms) = Len(doc.histograms)
        /\ DOMAIN doc'.histograms = 1 .. Len(doc.histograms)
        /\ \A j \in 1 .. Len(doc.histograms) :
              j # it => doc'.histograms[j] = doc.histograms[j]
        /\ doc'.histograms[it].name = n
        /\ doc'.histograms[it].value = doc.histograms[it].value
    BY <1>2, <1>3, <1>4, SetName
  <1>6. /\ buckets' = GetDefinition(spec, n).buckets
        /\ buckets' \in Seq(Int) /\ rewrite' \in Seq(Int)
        /\ Len(rewrite') = Len(buckets')
        /\ \A k \in 1 .. Len(rewrite') : rewrite'[k] = 0
        /\ vit' = 1 /\ pc' = "values"
    BY <1>2, Chosen
  <1>7. value' = value /\ name' = n
    BY <1>1, <1>5 DEF value, name
  <1>8. TypeInv'
    BY <1>1, <1>5, <1>6 DEF TypeInv
  <1>9. AtWork'
    <2>1. Len(value.values) \in Nat
      BY <1>1, <1>3, ValueTyped
    <2>2. name = original.histograms[it].name
      BY <1>3 DEF name
    <2> QED BY <1>1, <1>2, <1>3, <1>5, <1>6, <1>7, <2>1, <2>2 DEF AtWork
  <1>10. Counted'
    BY <1>6, NothingCounted DEF Counted
  <1>11. Rewriting'
    <2> SUFFICES ASSUME NEW i \in 1 .. Len(doc.histograms)
                 PROVE  /\ i < it => Settled(i)'
                        /\ i = it => doc'.histograms[i].value = original.histograms[i].value
                        /\ i > it => doc'.histograms[i] = original.histograms[i]
      BY <1>1, <1>5, <1>6 DEF Rewriting
    <2>1. CASE i < it
      BY <1>1, <1>3, <1>5, <2>1, SameSettled, Typed DEF Rewriting
    <2>2. CASE i = it
      BY <1>3, <1>5, <2>2
    <2>3. CASE i > it
      BY <1>1, <1>3, <1>5, <2>3, Typed DEF Rewriting
    <2> QED BY <1>3, <2>1, <2>2, <2>3
  <1>12. Marking' /\ MarkTells'
    BY <1>1, <1>5, <1>6 DEF Marking, MarkTells
  <1> QED BY <1>8, <1>9, <1>10, <1>11, <1>12

\* One more key: it counts for the first bucket that has its bound.
LEMMA OneMoreCounted ==
  ASSUME NEW v, NEW bs, NEW n \in Nat, NEW k \in Nat \ {0}, NEW index \in Nat \ {0},
         NEW count, NEW more,
         IsCounted(v, bs, n, k, count),
         bs[index] = ToInt(v.values[n + 1].lb),
         \A i \in 1 .. index - 1 : bs[i] # bs[index],
         k = index => more = v.values[n + 1].count,
         k # index => more = count,
         bs[k] = bs[index] => index <= k
  PROVE  IsCounted(v, bs, n + 1, k, more)
  <1> DEFINE Dup == \E j \in 1 .. k - 1 : bs[j] = bs[k]
  <1>1. CASE k = index
    <2>1. ~Dup
      BY <1>1
    <2>2. LastOf(v, bs[k], n + 1, n + 1)
      BY <1>1 DEF LastOf
    <2>3. \A j \in 1 .. n : ~LastOf(v, bs[k], n + 1, j)
      BY <1>1 DEF LastOf
    <2> QED BY <1>1, <2>1, <2>2, <2>3 DEF IsCounted
  <1>2. CASE k # index /\ bs[k] = bs[index]
    <2>1. Dup
      BY <1>2
    <2> QED BY <1>2, <2>1 DEF IsCounted
  <1>3. CASE bs[k] # bs[index]
    <2>1. k # index /\ more = count
      BY <1>3
    <2>2. ~LastOf(v, bs[k], n + 1, n + 1)
      BY <1>3 DEF LastOf
    <2>3. ASSUME NEW j \in 1 .. n
          PROVE  LastOf(v, bs[k], n + 1, j) <=> LastOf(v, bs[k], n, j)
      <3>1. \A i \in j + 1 .. n + 1 : i \in j + 1 .. n \/ i = n + 1
        OBVIOUS
      <3>2. \A i \in j + 1 .. n : i \in j + 1 .. n + 1
        OBVIOUS
      <3> QED BY <1>3, <3>1, <3>2 DEF LastOf
    <2>4. \A j \in 1 .. n : j \in 1 .. n + 1
      OBVIOUS
    <2>5. \A j \in 1 .. n + 1 : j \in 1 .. n \/ j = n + 1
      OBVIOUS
    <2> QED BY <2>1, <2>2, <2>3, <2>4, <2>5 DEF IsCounted
  <1> QED BY <1>1, <1>2, <1>3

LEMMA PutValueConverterInv == ConverterInv /\ PutValue => ConverterInv'
  <1> SUFFICES ASSUME ConverterInv, PutValue PROVE ConverterInv'
    OBVIOUS
  <1> USE DEF ConverterInv
  <1> DEFINE v == value.values[vit]
             index == BucketIndex(buckets, v.lb)
  <1>1. /\ pc = "values" /\ value.hasValues /\ vit <= Len(value.values)
        /\ index # 0 /\ rewrite' = [rewrite EXCEPT ![index] = v.count]
        /\ vit' = vit + 1
        /\ UNCHANGED <<original, doc, pc, spec, it, buckets, summary, result>>
    BY DEF PutValue
  <1>2. /\ it \in 1 .. Len(doc.histograms)
        /\ value \in Values /\ value.kind = "object"
        /\ Len(rewrite) = Len(buckets) /\ Len(buckets) \in Nat
        /\ vit \in Nat \ {0}
    BY <1>1, Typed DEF AtWork, TypeInv
  <1>3. /\ Len(value.values) \in Nat /\ v.count \in Int
    BY <1>1, <1>2, ValueTyped
  <1>4. /\ index \in 1 .. Len(buckets) /\ buckets[index] = ToInt(v.lb)
        /\ \A i \in 1 .. Len(buckets) : buckets[i] = ToInt(v.lb) => index <= i
    <2>1. /\ index \in 0 .. Len(buckets)
          /\ index # 0 => buckets[index] = ToInt(v.lb)
          /\ \A i \in 1 .. Len(buckets) :
                buckets[i] = ToInt(v.lb) => index # 0 /\ index <= i
      BY <1>2, BucketIndexIs
    <2> HIDE DEF index, v
    <2> QED BY <1>1, <1>2, <2>1
  <1> HIDE DEF index
  <1>5. /\ rewrite' \in Seq(Int) /\ Len(rewrite') = Len(rewrite)
        /\ rewrite'[index] = v.count
        /\ \A k \in 1 .. Len(rewrite) : k # index => rewrite'[k] = rewrite[k]
    <2>1. rewrite \in Seq(Int)
      BY DEF TypeInv
    <2> HIDE DEF v
    <2> QED BY <1>1, <1>2, <1>3, <1>4, <2>1
  <1>6. value' = value /\ name' = name
    BY <1>1 DEF value, name
  <1>7. TypeInv'
    <2>1. vit' \in Nat \ {0} /\ rewrite' \in Seq(Int)
      BY <1>1, <1>2, <1>5
    <2>2. UNCHANGED <<original, doc, pc, spec, it, buckets, summary, result>>
      BY <1>1
    <2> HIDE DEF v
    <2> QED BY <2>1, <2>2 DEF TypeInv
  <1>8. AtWork'
    BY <1>1, <1>2, <1>3, <1>5, <1>6 DEF AtWork
  <1>9. Counted'
    <2> SUFFICES ASSUME NEW k \in 1 .. Len(rewrite)
                 PROVE  IsCounted(value, buckets, vit, k, rewrite'[k])
      <3>1. vit' - 1 = vit
        BY <1>1, <1>2
      <3> QED BY <1>1, <1>5, <1>6, <3>1 DEF Counted
    <2> DEFINE n == vit - 1
    <2>1. n \in Nat /\ n + 1 = vit
      BY <1>2
    <2>2. IsCounted(value, buckets, n, k, rewrite[k])
      BY <1>1 DEF Counted
    <2>3. \A i \in 1 .. index - 1 : buckets[i] # buckets[index]
      BY <1>2, <1>4
    <2>4. buckets[k] = buckets[index] => index <= k
      BY <1>2, <1>4
    <2>5. /\ index \in Nat \ {0} /\ k \in Nat \ {0}
          /\ buckets[index] = ToInt(value.values[n + 1].lb)
      BY <1>2, <1>4, <2>1
    <2>6. /\ k = index => rewrite'[k] = value.values[n + 1].count
          /\ k # index => rewrite'[k] = rewrite[k]
      BY <1>5, <2>1
    <2> HIDE DEF n
    <2>7. IsCounted(value, buckets, n + 1, k, rewrite'[k])
      BY <2>1, <2>2, <2>3, <2>4, <2>5, <2>6, OneMoreCounted
    <2> QED BY <2>1, <2>7
  <1>10. Rewriting'
    BY <1>1, SameSettled DEF Rewriting
  <1>11. Marking' /\ MarkTells'
    BY <1>1 DEF Marking, MarkTells
  <1> QED BY <1>7, <1>8, <1>9, <1>10, <1>11

\* The record that is given up keeps what has been rewritten.
LEMMA FailValuesConverterInv == ConverterInv /\ FailValues => ConverterInv'
  <1> SUFFICES ASSUME ConverterInv, FailValues PROVE ConverterInv'
    OBVIOUS
  <1> USE DEF ConverterInv
  <1>1. /\ pc = "values" /\ pc' = "done" /\ result' = FALSE
        /\ doc' = [doc EXCEPT !.ver = -1]
        /\ UNCHANGED <<original, spec, it, buckets, vit, rewrite, summary>>
    BY DEF FailValues, Finish, walk
  <1>2. doc' \in Converted /\ doc'.ver = -1 /\ doc'.histograms = doc.histograms
    BY <1>1, SetVersion
  <1>3. TypeInv'
    BY <1>1, <1>2 DEF TypeInv
  <1>4. original.ver = 1
    BY <1>1 DEF Marking
  <1>5. AtWork' /\ Counted' /\ Marking' /\ MarkTells'
    BY <1>1, <1>2, <1>4 DEF AtWork, Counted, Marking, MarkTells
  <1>6. Rewriting'
    BY <1>1, <1>2, SameSettled DEF Rewriting
  <1> QED BY <1>3, <1>5, <1>6

LEMMA MarkConvertedConverterInv == ConverterInv /\ MarkConverted => ConverterInv'
  <1> SUFFICES ASSUME ConverterInv, MarkConverted PROVE ConverterInv'
    OBVIOUS
  <1> USE DEF ConverterInv
  <1>1. /\ pc = "members" /\ pc' = "done" /\ result' = TRUE
        /\ it > Len(doc.histograms) /\ doc' = [doc EXCEPT !.ver = 2]
        /\ UNCHANGED <<original, spec, it, buckets, vit, rewrite, summary>>
    BY DEF MarkConverted, Finish, walk
  <1>2. doc' \in Converted /\ doc'.ver = 2 /\ doc'.histograms = doc.histograms
    BY <1>1, SetVersion
  <1>3. TypeInv'
    BY <1>1, <1>2 DEF TypeInv
  <1>4. original.ver = 1
    BY <1>1 DEF Marking
  <1>5. AtWork' /\ Counted' /\ Marking' /\ MarkTells'
    BY <1>1, <1>2, <1>4 DEF AtWork, Counted, Marking, MarkTells
  <1>6. Rewriting'
    BY <1>1, <1>2, SameSettled DEF Rewriting
  <1> QED BY <1>3, <1>5, <1>6

\* With all keys read, every bucket holds what the definition without a loop
\* says.
LEMMA AllCounted ==
  ASSUME NEW v, Len(v.values) \in Nat, DOMAIN v.values = 1 .. Len(v.values),
         NEW bs, NEW k, NEW count,
         IsCounted(v, bs, Len(v.values), k, count)
  PROVE  count = CountIn(v, bs, k)
  <1> DEFINE js == {j \in DOMAIN v.values : LastKeyOf(v, bs[k], j)}
             Dup == \E j \in 1 .. k - 1 : bs[j] = bs[k]
  <1>1. \A j : LastKeyOf(v, bs[k], j) <=> LastOf(v, bs[k], Len(v.values), j)
    BY DEF LastKeyOf, LastOf
  <1>2. CASE Dup
    BY <1>2 DEF IsCounted, CountIn
  <1>3. CASE ~Dup /\ js = {}
    <2>1. \A j \in 1 .. Len(v.values) : ~LastOf(v, bs[k], Len(v.values), j)
      BY <1>1, <1>3
    <2>2. count = 0
      BY <2>1 DEF IsCounted
    <2> QED BY <1>3, <2>2 DEF CountIn
  <1>4. CASE ~Dup /\ js # {}
    <2> DEFINE last == CHOOSE j \in js : TRUE
    <2>1. last \in js
      BY <1>4
    <2>2. last \in 1 .. Len(v.values) /\ LastOf(v, bs[k], Len(v.values), last)
      BY <1>1, <2>1
    <2>3. CountIn(v, bs, k) = v.values[last].count
      BY <1>4 DEF CountIn
    <2> HIDE DEF last
    <2>4. count = v.values[last].count
      BY <1>4, <2>2 DEF IsCounted
    <2> QED BY <2>3, <2>4
  <1> QED BY <1>2, <1>3, <1>4

LEMMA ReplaceConverterInv == ConverterInv /\ Replace => ConverterInv'
  <1> SUFFICES ASSUME ConverterInv, Replace PROVE ConverterInv'
    OBVIOUS
  <1> USE DEF ConverterInv
  <1> DEFINE w == Array(rewrite, summary')
             extra == [x \in 1 .. kExtraBucketsSize |->
                         IF x \in DOMAIN value.extra THEN value.extra[x] ELSE -1]
             was == original.histograms[it]
  <1>1. /\ pc = "values" /\ value.hasValues /\ vit > Len(value.values)
        /\ summary' = extra
        /\ doc' = [doc EXCEPT !.histograms[it].value = w]
        /\ it' = it + 1 /\ pc' = "members"
        /\ UNCHANGED <<original, spec, buckets, vit, rewrite, result>>
    BY DEF Replace
  <1>2. /\ it \in 1 .. Len(doc.histograms)
        /\ value \in Values /\ value.kind = "object"
        /\ value = was.value
        /\ Len(rewrite) = Len(buckets) /\ Len(buckets) \in Nat
        /\ rewrite \in Seq(Int) /\ buckets \in Seq(Int)
        /\ vit \in Nat \ {0} /\ vit <= Len(value.values) + 1
    <2>1. /\ it \in 1 .. Len(doc.histograms)
          /\ value \in Values /\ value.kind = "object"
          /\ Len(rewrite) = Len(buckets) /\ vit <= Len(value.values) + 1
      BY <1>1, Typed DEF AtWork, TypeInv
    <2>2. doc.histograms[it].value = was.value
      BY <2>1, Typed DEF Rewriting
    <2> QED BY <2>1, <2>2, Typed DEF TypeInv, value
  <1>3. /\ Len(value.values) \in Nat /\ DOMAIN value.values = 1 .. Len(value.values)
        /\ \A x \in DOMAIN value.extra : value.extra[x] \in Int
    BY <1>2, ValueTyped
  <1>4. summary' \in Seq(Int) /\ Len(summary') = kExtraBucketsSize
    <2>1. kExtraBucketsSize \in Nat
      BY ConverterAssumption
    <2>2. \A x \in 1 .. kExtraBucketsSize : extra[x] \in Int
      BY <1>3
    <2>3. extra = [x \in 1 .. kExtraBucketsSize |-> extra[x]]
      OBVIOUS
    <2> HIDE DEF extra
    <2> QED BY <1>1, <2>1, <2>2, <2>3, ListOf
  <1>5. w \in Rewritten
    BY <1>2, <1>4 DEF Array, Rewritten
  <1>6. /\ doc' \in Converted /\ doc'.ver = doc.ver
        /\ Len(doc'.histograms) = Len(doc.histograms)
        /\ DOMAIN doc'.histograms = 1 .. Len(doc.histograms)
        /\ \A j \in 1 .. Len(doc.histograms) :
              j # it => doc'.histograms[j] = doc.histograms[j]
        /\ doc'.histograms[it].name = doc.histograms[it].name
        /\ doc'.histograms[it].value = w
    <2> HIDE DEF w
    <2> QED BY <1>1, <1>2, <1>5, SetValue
  <1>7. rewrite = [k \in DOMAIN buckets |-> CountIn(value, buckets, k)]
    <2>1. vit - 1 = Len(value.values)
      BY <1>1, <1>2, <1>3
    <2>2. \A k \in 1 .. Len(rewrite) :
            IsCounted(value, buckets, Len(value.values), k, rewrite[k])
      BY <1>1, <2>1 DEF Counted
    <2>3. \A k \in 1 .. Len(rewrite) : rewrite[k] = CountIn(value, buckets, k)
      BY <1>3, <2>2, AllCounted
    <2>4. /\ DOMAIN buckets = 1 .. Len(rewrite)
          /\ rewrite = [k \in 1 .. Len(rewrite) |-> rewrite[k]]
      BY <1>2
    <2> QED BY <2>3, <2>4
  <1>8. IsRewritten(value, buckets, w)
    BY <1>1, <1>7 DEF IsRewritten
  <1> HIDE DEF w, extra
  <1>9. ASSUME NEW i, i = it
        PROVE  Settled(i)'
    <2>1. /\ doc'.histograms[i].value = w /\ doc'.histograms[i].name = name
          /\ value = was.value /\ was = original'.histograms[i]
      BY <1>1, <1>2, <1>6, <1>9 DEF name
    <2>2. /\ IsDefined(spec, name) /\ buckets = GetDefinition(spec, name).buckets
          /\ \/ name = was.name
             \/ ~IsDefined(spec, was.name) /\ name \in Behind[was.name]
      BY <1>1 DEF AtWork
    <2>3. CASE IsDefined(spec, was.name)
      <3>1. name = was.name
        BY <2>2, <2>3
      <3>2. IsRewritten(was.value, GetDefinition(spec, was.name).buckets, w)
        BY <1>8, <2>1, <2>2, <3>1
      <3> HIDE DEF was
      <3> QED BY <1>1, <1>2, <2>1, <2>3, <3>1, <3>2 DEF Settled
    <2>4. CASE ~IsDefined(spec, was.name)
      <3>1. IsRewritten(was.value, GetDefinition(spec, name).buckets, w)
        BY <1>8, <2>1, <2>2
      <3>2. name \in Behind[was.name]
        BY <2>2, <2>4
      <3> HIDE DEF was
      <3> QED BY <1>1, <1>2, <2>1, <2>2, <2>4, <3>1, <3>2 DEF Settled
    <2> QED BY <2>3, <2>4
  <1>10. TypeInv'
    <2>1. it' \in 1 .. Len(doc'.histograms) + 1
      <3>1. Len(doc.histograms) \in Nat
        BY Typed
      <3>2. Len(doc'.histograms) = Len(doc.histograms) /\ it' = it + 1
        BY <1>1, <1>6
      <3> QED BY <1>2, <3>1, <3>2
    <2> QED BY <1>1, <1>4, <1>6, <2>1 DEF TypeInv
  <1>11. AtWork' /\ Counted' /\ Marking' /\ MarkTells'
    BY <1>1, <1>6 DEF AtWork, Counted, Marking, MarkTells
  <1>12. Rewriting'
    <2> SUFFICES ASSUME NEW i \in 1 .. Len(doc.histograms)
                 PROVE  /\ i < it' => Settled(i)'
                        /\ i >= it' => doc'.histograms[i] = original.histograms[i]
      <3>1. DOMAIN doc'.histograms = 1 .. Len(doc.histograms) /\ it' \in Nat
        BY <1>1, <1>2, <1>6
      <3>2. original' = original
        BY <1>1
      <3>3. \A i \in 1 .. Len(doc.histograms) : i = it' \/ i > it' => i >= it'
        BY <3>1
      <3> QED BY <3>1, <3>2, <3>3 DEF Rewriting
    <2>1. CASE i < it
      BY <1>1, <1>2, <1>6, <2>1, SameSettled, Typed DEF Rewriting
    <2>2. CASE i = it
      BY <1>1, <1>2, <1>9, <2>2
    <2>3. CASE i > it
      BY <1>1, <1>2, <1>6, <2>3, Typed DEF Rewriting
    <2> QED BY <1>2, <2>1, <2>2, <2>3
  <1> QED BY <1>10, <1>11, <1>12

-----------------------------------------------------------------------------
(***************************************************************************)
(* The theorems.                                                           *)
(***************************************************************************)

LEMMA NextConverterInv == ConverterInv /\ [Next]_vars => ConverterInv'
  <1> SUFFICES ASSUME ConverterInv, [Next]_vars PROVE ConverterInv'
    OBVIOUS
  <1>1. CASE UNCHANGED vars
    <2> USE DEF ConverterInv
    <2>1. UNCHANGED <<original, doc, pc, spec, it, buckets, vit, rewrite, summary, result>>
      BY <1>1 DEF vars
    <2>2. TypeInv'
      BY <2>1 DEF TypeInv
    <2>3. AtWork' /\ Counted'
      BY <2>1 DEF AtWork, Counted, value, name
    <2>4. Rewriting'
      BY <2>1, SameSettled DEF Rewriting
    <2>5. Marking' /\ MarkTells'
      BY <2>1 DEF Marking, MarkTells
    <2> QED BY <2>2, <2>3, <2>4, <2>5
  <1> QED
    BY <1>1, RejectConverterInv, FoundConverterInv, SkipConverterInv, DefineConverterInv,
       ChopConverterInv, PutValueConverterInv, FailValuesConverterInv,
       ReplaceConverterInv, MarkConvertedConverterInv DEF Next

LEMMA SpecConverterInv == Spec => []ConverterInv
  BY InitConverterInv, NextConverterInv, PTL DEF Spec

\* The conversion keeps its types: in particular, as many counts are set up as
\* the definition at hand counts buckets, and the iterator stays inside the
\* document that RewriteHistogram() changes under it.
THEOREM ConverterTypeCorrect == Spec => []TypeOK
  <1>1. ConverterInv => TypeOK
    <2> SUFFICES ASSUME ConverterInv PROVE TypeOK
      OBVIOUS
    <2> USE DEF ConverterInv
    <2>1. \A i \in DOMAIN doc.histograms : doc.histograms[i].name \in Name
      BY Typed
    <2>2. pc = "values" => \E k \in DOMAIN spec : Len(rewrite) = spec[k].count
      <3> SUFFICES ASSUME pc = "values"
                   PROVE  \E k \in DOMAIN spec : Len(rewrite) = spec[k].count
        OBVIOUS
      <3>1. Len(spec) \in Nat /\ DOMAIN spec = 1 .. Len(spec)
        BY DEF TypeInv, IsSpec, IsList
      <3>2. PICK k \in DOMAIN spec : GetDefinition(spec, name) = spec[k]
        BY <3>1, GetDefinitionIs DEF AtWork
      <3> QED BY <3>2 DEF AtWork, TypeInv, IsSpec
    <2> QED BY <2>1, <2>2, Typed DEF TypeOK, TypeInv, Bounds
  <1> QED BY <1>1, SpecConverterInv, PTL

\* Whatever text the server has sent and whatever keys a histogram has, the
\* index that RewriteValues() uses unchecked is inside the array.
THEOREM IndexInside == Spec => []BucketsInside
  <1>1. ConverterInv => BucketsInside
    <2> SUFFICES ASSUME ConverterInv, pc = "values", value.hasValues,
                        NEW j \in DOMAIN value.values
                 PROVE  BucketIndex(buckets, value.values[j].lb) <= Len(rewrite)
      BY DEF BucketsInside
    <2> USE DEF ConverterInv
    <2>1. Len(buckets) \in Nat /\ Len(rewrite) = Len(buckets)
      BY Typed DEF AtWork
    <2>2. BucketIndex(buckets, value.values[j].lb) \in 0 .. Len(buckets)
      BY <2>1, BucketIndexIs
    <2> QED BY <2>1, <2>2
  <1> QED BY <1>1, SpecConverterInv, PTL

\* The two loops do what the definition without loops says: at any moment the
\* histograms passed are rewritten by it and those ahead are untouched.
THEOREM LoopsAreRight == Spec => []InOrder
  <1>1. ConverterInv => InOrder
    BY DEF ConverterInv, Rewriting, Marking, InOrder
  <1> QED BY <1>1, SpecConverterInv, PTL

\* The version of a record tells what has become of it.
THEOREM MarkIsTrue == Spec => []MarkTells
  <1>1. ConverterInv => MarkTells
    BY DEF ConverterInv
  <1> QED BY <1>1, SpecConverterInv, PTL

-----------------------------------------------------------------------------
(***************************************************************************)
(* The sums of the counts.  With keys that spell different bounds, a       *)
(* bucket that is about to get its count holds 0.                          *)
(***************************************************************************)

KeysOf(v) == [j \in DOMAIN v.values |-> ToInt(v.values[j].lb)]
CountsOf(v, n) == [j \in 1 .. n |-> v.values[j].count]

\* The counts so far are those of the keys so far.
Adding ==
    pc = "values" /\ value.hasValues /\ Injective(KeysOf(value)) =>
        Total(rewrite) = Total(CountsOf(value, vit - 1))

KeptAt(i) ==
    LET was == original.histograms[i].value
        is == doc.histograms[i].value
    IN  was.kind = "object" /\ is.kind = "array" /\ Injective(KeysOf(was)) =>
            Total(is.counts) = Total(CountsOf(was, Len(was.values)))

TotalInv == Adding /\ \A i \in 1 .. Len(doc.histograms) : KeptAt(i)

LEMMA CountsTyped ==
  ASSUME NEW v \in Values, v.kind = "object", NEW n \in 0 .. Len(v.values)
  PROVE  /\ n \in Nat /\ DOMAIN CountsOf(v, n) = 1 .. n
         /\ \A j \in 1 .. n : /\ CountsOf(v, n)[j] = v.values[j].count
                             /\ CountsOf(v, n)[j] \in Int
  <1>1. Len(v.values) \in Nat /\ \A j \in 1 .. Len(v.values) : v.values[j].count \in Int
    BY ValueTyped
  <1>2. n \in Nat /\ \A j \in 1 .. n : j \in 1 .. Len(v.values)
    BY <1>1
  <1> QED BY <1>1, <1>2 DEF CountsOf

\* All buckets are empty when the first key is read.
LEMMA ChosenTotal ==
  ASSUME TypeInv, NEW n, IsDefined(spec, n), Choose(n),
         doc'.histograms[it].value.kind = "object",
         doc'.histograms[it].value \in Values, it' = it
  PROVE  Adding'
  <1>1. /\ rewrite' \in Seq(Int) /\ Len(rewrite') \in Nat /\ vit' = 1
        /\ \A k \in 1 .. Len(rewrite') : rewrite'[k] = 0
    BY Chosen
  <1>2. Total(rewrite') = 0
    <2>1. DOMAIN rewrite' = 1 .. Len(rewrite') /\ IsFiniteSet(1 .. Len(rewrite'))
      BY <1>1, FS_Interval
    <2> QED BY <1>1, <2>1, SumOfZeros DEF Total, SumFunction
  <1>3. Total(CountsOf(value', vit' - 1)) = 0
    <2>1. DOMAIN CountsOf(value', vit' - 1) = {}
      BY <1>1 DEF CountsOf
    <2> QED BY <2>1, SumOfNone DEF Total, SumFunction
  <1> QED BY <1>2, <1>3 DEF Adding

LEMMA PutValueTotal ==
  ASSUME ConverterInv, TotalInv, PutValue, Injective(KeysOf(value))
  PROVE  Total(rewrite') = Total(CountsOf(value, vit))
  <1> USE DEF ConverterInv, TotalInv
  <1> DEFINE v == value.values[vit]
             index == BucketIndex(buckets, v.lb)
  <1>1. /\ pc = "values" /\ value.hasValues /\ vit <= Len(value.values)
        /\ index # 0 /\ rewrite' = [rewrite EXCEPT ![index] = v.count]
    BY DEF PutValue
  <1>2. /\ value \in Values /\ value.kind = "object"
        /\ Len(rewrite) = Len(buckets) /\ Len(buckets) \in Nat
        /\ vit \in Nat \ {0} /\ rewrite \in Seq(Int)
    BY <1>1, Typed DEF AtWork, TypeInv
  <1>3. /\ Len(value.values) \in Nat /\ DOMAIN value.values = 1 .. Len(value.values)
        /\ v.count \in Int
    BY <1>1, <1>2, ValueTyped
  <1>4. index \in 1 .. Len(rewrite) /\ buckets[index] = ToInt(v.lb)
    <2>1. /\ index \in 0 .. Len(buckets)
          /\ index # 0 => buckets[index] = ToInt(v.lb)
      BY <1>2, BucketIndexIs
    <2> HIDE DEF index, v
    <2> QED BY <1>1, <1>2, <2>1
  <1> HIDE DEF index
  <1> DEFINE n == vit - 1
  <1>5. n \in Nat /\ n + 1 = vit /\ n \in 0 .. Len(value.values)
        /\ vit \in 0 .. Len(value.values)
    BY <1>1, <1>2, <1>3
  <1> HIDE DEF n
  <1>6. rewrite[index] = 0
    <2>1. IsCounted(value, buckets, n, index, rewrite[index])
      BY <1>1, <1>4 DEF Counted, n
    <2>2. ASSUME NEW j \in 1 .. n PROVE ToInt(value.values[j].lb) # ToInt(v.lb)
      <3>1. j \in DOMAIN value.values /\ vit \in DOMAIN value.values /\ j # vit
        BY <1>1, <1>2, <1>3, <1>5
      <3>2. KeysOf(value)[j] # KeysOf(value)[vit]
        BY <3>1 DEF Injective, KeysOf
      <3> QED BY <3>1, <3>2 DEF KeysOf
    <2>3. \A j \in 1 .. n : ~LastOf(value, buckets[index], n, j)
      BY <1>4, <2>2 DEF LastOf
    <2> QED BY <2>1, <2>3 DEF IsCounted
  <1>7. Total(rewrite') = Total(rewrite) + v.count
    <2> DEFINE S == 1 .. Len(rewrite)
    <2>1. /\ DOMAIN rewrite = S /\ DOMAIN rewrite' = S /\ IsFiniteSet(S)
          /\ rewrite'[index] = v.count
          /\ \A k \in S : rewrite[k] \in Int /\ rewrite'[k] \in Int
          /\ \A k \in S : k # index => rewrite'[k] = rewrite[k]
      <3>1. IsFiniteSet(S)
        BY <1>2, FS_Interval
      <3> HIDE DEF v
      <3> QED BY <1>1, <1>2, <1>3, <1>4, <3>1
    <2>2. index \in S
      BY <1>4
    <2> HIDE DEF S, v
    <2>3. SumFunctionOnSet(rewrite', S)
            = SumFunctionOnSet(rewrite, S) + (rewrite'[index] - rewrite[index])
      BY <2>1, <2>2, SumReplaced
    <2>4. rewrite'[index] - rewrite[index] = v.count
      BY <1>3, <1>6, <2>1
    <2> QED BY <2>1, <2>3, <2>4 DEF Total, SumFunction
  <1>8. Total(CountsOf(value, vit)) = Total(CountsOf(value, n)) + v.count
    <2>1. /\ DOMAIN CountsOf(value, n) = 1 .. n
          /\ \A j \in 1 .. n : /\ CountsOf(value, n)[j] = value.values[j].count
                              /\ CountsOf(value, n)[j] \in Int
      BY <1>2, <1>5, CountsTyped
    <2>2. /\ DOMAIN CountsOf(value, vit) = 1 .. n + 1
          /\ \A j \in 1 .. n + 1 : /\ CountsOf(value, vit)[j] = value.values[j].count
                                  /\ CountsOf(value, vit)[j] \in Int
      BY <1>2, <1>5, CountsTyped
    <2>3. \A j \in 1 .. n : j \in 1 .. n + 1
      BY <1>5
    <2>4. n + 1 \in 1 .. n + 1
      BY <1>5
    <2>5. /\ \A j \in 1 .. n : CountsOf(value, vit)[j] = CountsOf(value, n)[j]
          /\ CountsOf(value, vit)[n + 1] \in Int
          /\ CountsOf(value, vit)[n + 1] = v.count
      BY <1>5, <2>1, <2>2, <2>3, <2>4
    <2>6. SumFunction(CountsOf(value, vit))
            = SumFunction(CountsOf(value, n)) + CountsOf(value, vit)[n + 1]
      BY <1>5, <2>1, <2>2, <2>5, SumAppend
    <2> QED BY <2>5, <2>6 DEF Total
  <1>9. Total(rewrite) = Total(CountsOf(value, n))
    BY <1>1 DEF Adding, n
  <1> QED BY <1>7, <1>8, <1>9

\* Histograms that have not changed keep what they have.
LEMMA SameKept ==
  ASSUME NEW i, original' = original,
         doc'.histograms[i].value = doc.histograms[i].value, KeptAt(i)
  PROVE  KeptAt(i)'
  BY DEF KeptAt

LEMMA InitTotalInv == Init => TotalInv
  <1> SUFFICES ASSUME Init PROVE TotalInv
    OBVIOUS
  <1>1. ConverterInv /\ doc = original /\ pc = "start"
    BY InitConverterInv DEF Init
  <1>2. \A i \in 1 .. Len(doc.histograms) :
            doc.histograms[i].value.kind = "object"
                => doc.histograms[i].value.kind # "array"
    OBVIOUS
  <1> QED BY <1>1, <1>2 DEF TotalInv, Adding, KeptAt

LEMMA NextTotalInv ==
  ASSUME ConverterInv, TotalInv, [Next]_vars
  PROVE  TotalInv'
  <1> USE DEF ConverterInv, TotalInv
  <1>0. Len(doc.histograms) \in Nat /\ Len(doc'.histograms) = Len(doc.histograms)
    <2>1. ConverterInv'
      BY NextConverterInv
    <2>2. Len(doc'.histograms) = Len(original'.histograms) /\ original' = original
      BY <2>1 DEF TypeInv, Next, vars, Reject, NotFound, Found, SkipOther, Define, Chop,
              SkipUndefined, PutValue, FailValues, Replace, MarkConverted
    <2> QED BY <2>2, Typed DEF TypeInv
  <1>1. CASE \/ UNCHANGED vars \/ Reject \/ NotFound \/ Found \/ SkipOther
             \/ SkipUndefined \/ FailValues \/ MarkConverted
    <2>1. /\ original' = original /\ doc'.histograms = doc.histograms
          /\ pc' = "values" => /\ pc = "values"
                               /\ UNCHANGED <<it, vit, rewrite>>
      <3>1. CASE FailValues \/ MarkConverted
        <4>1. original' = original /\ pc' = "done"
          BY <3>1 DEF FailValues, MarkConverted, Finish
        <4>2. doc' = [doc EXCEPT !.ver = -1] \/ doc' = [doc EXCEPT !.ver = 2]
          BY <3>1 DEF FailValues, MarkConverted
        <4>3. doc'.histograms = doc.histograms
          BY <4>2, SetVersion
        <4> QED BY <4>1, <4>3
      <3>2. CASE ~(FailValues \/ MarkConverted)
        BY <1>1, <3>2 DEF vars, Reject, NotFound, Found, SkipOther, SkipUndefined,
                          Finish, walk
      <3> QED BY <3>1, <3>2
    <2>2. Adding'
      BY <2>1 DEF Adding, value
    <2>3. \A i \in 1 .. Len(doc.histograms) : KeptAt(i)'
      BY <2>1, SameKept
    <2> QED BY <1>0, <2>2, <2>3
  <1>2. CASE Define
    <2>1. /\ pc = "members" /\ it <= Len(doc.histograms)
          /\ value.kind = "object" /\ IsDefined(spec, name) /\ Choose(name)
          /\ UNCHANGED <<original, doc, it>>
      BY <1>2 DEF Define
    <2>2. it \in 1 .. Len(doc.histograms) /\ value \in Values
      <3>1. it \in 1 .. Len(doc.histograms)
        BY <1>0, <2>1 DEF TypeInv
      <3> QED BY <2>1, <3>1, Typed DEF Rewriting, value
    <2>3. Adding'
      BY <2>1, <2>2, ChosenTotal DEF value
    <2>4. \A i \in 1 .. Len(doc.histograms) : KeptAt(i)'
      BY <2>1, SameKept
    <2> QED BY <1>0, <2>3, <2>4
  <1>3. CASE Chop
    <2>1. /\ pc = "members" /\ it <= Len(doc.histograms) /\ value.kind = "object"
          /\ UNCHANGED <<original, it, spec>>
      BY <1>3 DEF Chop
    <2>2. PICK n \in Behind[name] :
            /\ IsDefined(spec, n) /\ Choose(n)
            /\ doc' = [doc EXCEPT !.histograms[it].name = n]
      BY <1>3 DEF Chop
    <2>3. it \in 1 .. Len(doc.histograms) /\ value \in Values /\ name \in Name
      <3>1. it \in 1 .. Len(doc.histograms)
        BY <1>0, <2>1 DEF TypeInv
      <3> QED BY <2>1, <3>1, Typed DEF Rewriting, value, name
    <2>4. n \in Name
      BY <2>3, ConverterAssumption
    <2>5. \A i \in 1 .. Len(doc.histograms) :
             doc'.histograms[i].value = doc.histograms[i].value
      BY <2>2, <2>3, <2>4, SetName
    <2>6. Adding'
      BY <2>1, <2>2, <2>3, <2>5, ChosenTotal DEF value
    <2>7. \A i \in 1 .. Len(doc.histograms) : KeptAt(i)'
      BY <2>1, <2>5, SameKept
    <2> QED BY <1>0, <2>6, <2>7
  <1>4. CASE PutValue
    <2>1. /\ vit' = vit + 1 /\ UNCHANGED <<original, doc, pc, it>> /\ vit \in Nat
      BY <1>4 DEF PutValue, TypeInv
    <2>2. value' = value /\ vit' - 1 = vit
      BY <2>1 DEF value
    <2>3. Adding'
      BY <1>4, <2>2, PutValueTotal DEF Adding
    <2>4. \A i \in 1 .. Len(doc.histograms) : KeptAt(i)'
      BY <2>1, SameKept
    <2> QED BY <1>0, <2>3, <2>4
  <1>5. CASE Replace
    <2> DEFINE w == Array(rewrite, summary')
    <2>1. /\ pc = "values" /\ value.hasValues /\ vit > Len(value.values)
          /\ doc' = [doc EXCEPT !.histograms[it].value = w]
          /\ pc' = "members" /\ original' = original
      BY <1>5 DEF Replace
    <2>2. /\ it \in 1 .. Len(doc.histograms)
          /\ value \in Values /\ value.kind = "object"
          /\ vit \in Nat \ {0} /\ vit <= Len(value.values) + 1
          /\ original.histograms[it].value = value
      <3>1. it \in 1 .. Len(doc.histograms)
        BY <1>0, <2>1 DEF AtWork, TypeInv
      <3> QED BY <2>1, <3>1, Typed DEF AtWork, TypeInv, Rewriting, value
    <2>3. Len(value.values) \in Nat /\ vit - 1 = Len(value.values)
      <3>1. Len(value.values) \in Nat
        BY <2>2, ValueTyped
      <3> QED BY <2>1, <2>2, <3>1
    <2>4. /\ \A i \in 1 .. Len(doc.histograms) :
               i # it => doc'.histograms[i] = doc.histograms[i]
          /\ doc'.histograms[it].value = w
      <3> DEFINE h == doc.histograms
      <3>1. h = [i \in 1 .. Len(h) |-> h[i]]
        BY DEF TypeInv, Converted
      <3>2. \A i \in 1 .. Len(h) : h[i] \in [name : Name, value : Values \union Rewritten]
        <4>1. h \in Seq([name : Name, value : Values \union Rewritten])
          BY DEF TypeInv, Converted
        <4> QED BY <4>1, ElementsOf, Zenon
      <3>3. doc'.histograms = [h EXCEPT ![it].value = w]
        BY <2>1 DEF TypeInv, Converted
      <3> HIDE DEF w, h
      <3>4. \A i \in 1 .. Len(h) : i # it => doc'.histograms[i] = h[i]
        BY <3>1, <3>3
      <3>5. doc'.histograms[it] = [h[it] EXCEPT !.value = w]
        BY <2>2, <3>1, <3>3 DEF h
      <3>6. doc'.histograms[it].value = w
        BY <2>2, <3>2, <3>5 DEF h
      <3> QED BY <3>4, <3>6 DEF h
    <2>5. w.counts = rewrite
      BY DEF Array
    <2> HIDE DEF w
    <2>6. ASSUME NEW i, i = it PROVE KeptAt(i)'
      <3>1. Injective(KeysOf(value)) =>
               Total(rewrite) = Total(CountsOf(value, Len(value.values)))
        BY <2>1, <2>3 DEF Adding
      <3>2. /\ original'.histograms[i].value = value
            /\ doc'.histograms[i].value = w
        BY <2>1, <2>2, <2>4, <2>6
      <3> QED BY <2>5, <3>1, <3>2 DEF KeptAt
    <2>7. ASSUME NEW i \in 1 .. Len(doc.histograms), i # it PROVE KeptAt(i)'
      <3>1. doc'.histograms[i].value = doc.histograms[i].value /\ KeptAt(i)
        BY <2>4, <2>7
      <3> QED BY <2>1, <3>1, SameKept
    <2>8. Adding'
      BY <2>1 DEF Adding
    <2> QED BY <1>0, <2>6, <2>7, <2>8
  <1> QED BY <1>1, <1>2, <1>3, <1>4, <1>5 DEF Next

\* For every record and every specification: if the keys of a histogram spell
\* different bounds, its counts add up to the same before and after.
THEOREM NoCountIsLost == Spec => []CountsKept
  <1>1. ConverterInv /\ TotalInv => CountsKept
    <2> SUFFICES ASSUME ConverterInv, TotalInv, NEW i \in 1 .. Len(doc.histograms),
                        original.histograms[i].value.kind = "object"
                 PROVE  LET was == original.histograms[i].value
                            is == doc.histograms[i].value
                            keys == [j \in DOMAIN was.values |-> ToInt(was.values[j].lb)]
                        IN  is.kind = "array" /\ Injective(keys) =>
                               Total(is.counts)
                                 = Total([j \in DOMAIN keys |-> was.values[j].count])
      BY Typed DEF CountsKept, ConverterInv
    <2> DEFINE was == original.histograms[i].value
    <2>1. KeptAt(i) /\ was \in Values /\ was.kind = "object"
      BY Typed DEF TotalInv, ConverterInv
    <2>2. DOMAIN was.values = 1 .. Len(was.values)
      BY <2>1, ValueTyped
    <2>3. [j \in DOMAIN KeysOf(was) |-> was.values[j].count]
             = CountsOf(was, Len(was.values))
      BY <2>2 DEF KeysOf, CountsOf
    <2> QED BY <2>1, <2>3 DEF KeptAt, KeysOf
  <1> QED
    BY <1>1, InitConverterInv, NextConverterInv, InitTotalInv, NextTotalInv, PTL DEF Spec

=============================================================================
