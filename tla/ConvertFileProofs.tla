-------------------------- MODULE ConvertFileProofs --------------------------
(***************************************************************************)
(* What holds of a converter for every configuration, every file and every *)
(* fault: numbers are rounded to the nearest and read back as such,        *)
(* records are written once and in their order, into directories that tell *)
(* the dimensions apart, and a converter with its log implements           *)
(* MetricLedger.                                                           *)
(***************************************************************************)
EXTENDS ConvertLedger, SequenceLemmas, TLAPS

-----------------------------------------------------------------------------
(***************************************************************************)
(* The rounding of WriteDouble(), for every precision.                     *)
(***************************************************************************)

RoundedUnits(r) == r.number * magnitude + r.fraction

\* The digits that are written denote the nearest number.
DenotesNearest(d) ==
    /\ Round(d).fraction < magnitude
    /\ RoundedUnits(Round(d)) = NearestEven(d)

LEMMA Carry ==
    ASSUME NEW n \in Nat
    PROVE  (n + 1) * magnitude = n * magnitude + magnitude
  <1>1. magnitude \in Nat
    BY MagnitudeAssumption
  <1> QED BY <1>1

\* Rounding up is right with and without a carry into the integer part.
LEMMA UpIsNext ==
    ASSUME NEW d \in Double
    PROVE  /\ Up(d).fraction < magnitude
           /\ RoundedUnits(Up(d)) = UnitsBelow(d) + 1
<1>0. magnitude \in Nat \ {0}
  BY MagnitudeAssumption
<1> USE <1>0 DEF Double
<1>1. CASE d.fraction + 1 >= magnitude
  <2>1. d.fraction + 1 = magnitude
    BY <1>1
  <2>2. Up(d).fraction = 0 /\ Up(d).number = d.number + 1
    BY <1>1 DEF Up, Rounded
  <2>3. (d.number + 1) * magnitude = d.number * magnitude + magnitude
    BY Carry
  <2>4. d.number * magnitude \in Nat
    OBVIOUS
  <2> QED
    BY <2>1, <2>2, <2>3, <2>4 DEF RoundedUnits, UnitsBelow
<1>2. CASE d.fraction + 1 < magnitude
  <2>1. Up(d).fraction = d.fraction + 1 /\ Up(d).number = d.number
    BY <1>2 DEF Up, Rounded
  <2>2. d.number * magnitude \in Nat
    OBVIOUS
  <2> QED
    BY <1>2, <2>1, <2>2 DEF RoundedUnits, UnitsBelow
<1> QED
  BY <1>1, <1>2

\* What is not exactly half a unit away is rounded to the nearest number, and
\* the carry is right (rapidjson-0_11.patch:57-62).
THEOREM NearestUnlessTie ==
    ASSUME NEW d \in Double, d.quarters # 2
    PROVE  DenotesNearest(d)
<1> USE DEF Double
<1>1. d.number * magnitude \in Nat
  BY MagnitudeAssumption
<1>2. CASE d.quarters = 3
  <2>1. Round(d) = Up(d)
    BY <1>2 DEF Round
  <2>2. NearestEven(d) = UnitsBelow(d) + 1
    BY <1>2 DEF NearestEven
  <2> QED
    BY <2>1, <2>2, UpIsNext DEF DenotesNearest
<1>3. CASE d.quarters < 2
  <2>1. Round(d) = Rounded(d.number, d.fraction)
    BY <1>3 DEF Round
  <2>2. NearestEven(d) = UnitsBelow(d)
    BY <1>1, <1>3, MagnitudeAssumption DEF NearestEven, UnitsBelow
  <2> QED
    BY <2>1, <2>2, MagnitudeAssumption
    DEF DenotesNearest, Rounded, RoundedUnits, UnitsBelow
<1> QED
  BY <1>2, <1>3

\* The parity of the units is that of the fraction.
LEMMA ParityOfFraction ==
    ASSUME NEW d \in Double
    PROVE  UnitsBelow(d) % 2 = d.fraction % 2
<1> USE DEF Double
<1> DEFINE half == magnitude \div 2
<1>1. half \in Nat /\ magnitude = 2 * half
  BY MagnitudeAssumption
<1> HIDE DEF half
<1>2. d.number * magnitude = 2 * (d.number * half)
  BY <1>1
<1>3. d.number * half \in Nat
  BY <1>1
<1>4. ASSUME NEW k \in Nat, NEW f \in Nat
      PROVE  (2 * k + f) % 2 = f % 2
  OBVIOUS
<1>5. d.fraction \in Nat
  BY MagnitudeAssumption
<1>6. (2 * (d.number * half) + d.fraction) % 2 = d.fraction % 2
  BY <1>3, <1>4, <1>5
<1> QED
  BY <1>2, <1>6 DEF UnitsBelow

\* Of the ties, those go wrong whose fraction is 0, which is not odd, or all
\* nines, whose carry is lost; every other one is rounded to even
\* (rapidjson-0_11.patch:63-66).
THEOREM TiesGoWrong ==
    ASSUME NEW d \in Double, d.quarters = 2
    PROVE  DenotesNearest(d) <=> d.fraction \notin {0, magnitude - 1}
<1> USE MagnitudeAssumption DEF Double
<1> DEFINE up == d.fraction = 0 \/ d.fraction % 2 = 1
<1>1. d.number * magnitude \in Nat /\ UnitsBelow(d) \in Nat
  BY DEF UnitsBelow
<1>2. Round(d) = IF up THEN Rounded(d.number, d.fraction + 1)
                       ELSE Rounded(d.number, d.fraction)
  BY DEF Round
<1>3. NearestEven(d) = UnitsBelow(d) + (d.fraction % 2)
  <2>1. NearestEven(d) = UnitsBelow(d) + (UnitsBelow(d) % 2)
    BY DEF NearestEven
  <2> QED
    BY <2>1, ParityOfFraction
<1>4. ASSUME NEW f \in Nat, Round(d) = Rounded(d.number, f)
      PROVE  RoundedUnits(Round(d)) = d.number * magnitude + f
  BY <1>4 DEF Rounded, RoundedUnits
<1>5. CASE d.fraction = 0
  <2>1. Round(d) = Rounded(d.number, 1)
    BY <1>2, <1>5
  <2>2. RoundedUnits(Round(d)) = d.number * magnitude + 1
    BY <1>4, <2>1
  <2>3. NearestEven(d) = d.number * magnitude
    BY <1>1, <1>3, <1>5 DEF UnitsBelow
  <2>4. RoundedUnits(Round(d)) # NearestEven(d)
    BY <1>1, <2>2, <2>3
  <2> QED
    BY <1>5, <2>4 DEF DenotesNearest
<1>6. CASE d.fraction # 0 /\ d.fraction % 2 = 1
  <2>1. Round(d) = Rounded(d.number, d.fraction + 1)
    BY <1>2, <1>6
  <2>2. RoundedUnits(Round(d)) = d.number * magnitude + (d.fraction + 1)
    <3>1. d.fraction + 1 \in Nat
      OBVIOUS
    <3> QED
      BY <1>4, <2>1, <3>1
  <2>3. NearestEven(d) = d.number * magnitude + d.fraction + 1
    BY <1>3, <1>6 DEF UnitsBelow
  <2>4. RoundedUnits(Round(d)) = NearestEven(d)
    BY <1>1, <2>2, <2>3
  <2>5. Round(d).fraction < magnitude <=> d.fraction # magnitude - 1
    BY <2>1 DEF Rounded
  <2> QED
    BY <1>6, <2>4, <2>5 DEF DenotesNearest
<1>7. CASE d.fraction # 0 /\ d.fraction % 2 = 0
  <2>1. Round(d) = Rounded(d.number, d.fraction)
    BY <1>2, <1>7
  <2>2. RoundedUnits(Round(d)) = d.number * magnitude + d.fraction
    BY <1>4, <2>1
  <2>3. NearestEven(d) = d.number * magnitude + d.fraction
    BY <1>1, <1>3, <1>7 DEF UnitsBelow
  <2>4. Round(d).fraction < magnitude /\ d.fraction # magnitude - 1
    <3>1. (magnitude - 1) % 2 = 1
      BY Z3
    <3> QED
      BY <1>7, <2>1, <3>1 DEF Rounded
  <2> QED
    BY <1>7, <2>2, <2>3, <2>4 DEF DenotesNearest
<1> QED
  BY <1>5, <1>6, <1>7

-----------------------------------------------------------------------------
(***************************************************************************)
(* What is written for a number is a text.                                 *)
(***************************************************************************)

DigitsUpTo(g, k) ==
    g = [n \in 0 .. k |-> IF n < 10 THEN <<Digit(n)>>
                                    ELSE Append(g[n \div 10], Digit(n % 10))]

LEMMA Tenth ==
  ASSUME NEW n \in Nat, n >= 10
  PROVE  n \div 10 \in Nat /\ n \div 10 < n
  OBVIOUS

LEMMA DigitsExist ==
  ASSUME NEW k \in Nat
  PROVE  \E g : DigitsUpTo(g, k)
  <1> DEFINE Good == {m \in 0 .. k : \E g : DigitsUpTo(g, m)}
  <1>1. 0 \in Good
    <2>1. DigitsUpTo([n \in 0 .. 0 |-> <<Digit(n)>>], 0)
      BY DEF DigitsUpTo
    <2> QED BY <2>1
  <1>2. ASSUME NEW m \in 0 .. k, m \in Good, m < k
        PROVE  m + 1 \in Good
    <2>1. PICK g : DigitsUpTo(g, m)
      BY <1>2
    <2> DEFINE h == [n \in 0 .. m + 1 |->
                       IF n <= m THEN g[n]
                       ELSE IF n < 10 THEN <<Digit(n)>>
                                      ELSE Append(g[n \div 10], Digit(n % 10))]
    <2>2. ASSUME NEW n \in 0 .. m + 1
          PROVE  h[n] = IF n < 10 THEN <<Digit(n)>>
                                  ELSE Append(h[n \div 10], Digit(n % 10))
      <3>1. n >= 10 => n \div 10 \in 0 .. m /\ h[n \div 10] = g[n \div 10]
        <4>1. n >= 10 => n \div 10 \in 0 .. m
          BY Tenth
        <4> QED BY <4>1
      <3>2. CASE n <= m
        <4>1. n \in 0 .. m /\ h[n] = g[n]
          BY <3>2
        <4>2. g[n] = IF n < 10 THEN <<Digit(n)>>
                               ELSE Append(g[n \div 10], Digit(n % 10))
          BY <2>1, <4>1 DEF DigitsUpTo
        <4> HIDE DEF h
        <4> QED BY <3>1, <4>1, <4>2
      <3>3. CASE n > m
        <4>1. h[n] = IF n < 10 THEN <<Digit(n)>>
                               ELSE Append(g[n \div 10], Digit(n % 10))
          BY <3>3
        <4> HIDE DEF h
        <4> QED BY <3>1, <4>1
      <3> QED BY <3>2, <3>3
    <2>3. DOMAIN h = 0 .. m + 1 /\ h = [n \in DOMAIN h |-> h[n]]
      OBVIOUS
    <2> HIDE DEF h
    <2>4. DigitsUpTo(h, m + 1)
      BY <2>2, <2>3 DEF DigitsUpTo
    <2> QED BY <1>2, <2>4
  <1>3. k \in Good
    <2> HIDE DEF Good
    <2> QED BY <1>1, <1>2, InductionUpTo
  <1> QED BY <1>3

LEMMA DigitsAgree ==
  ASSUME NEW k \in Nat, NEW m \in Nat, k <= m, NEW g, DigitsUpTo(g, k),
         NEW h, DigitsUpTo(h, m), NEW n \in 0 .. k
  PROVE  g[n] = h[n]
  <1> DEFINE Good == {j \in 0 .. k : \A i \in 0 .. j : g[i] = h[i]}
  <1>1. ASSUME NEW j \in 0 .. k, \A i \in 0 .. j - 1 : g[i] = h[i]
        PROVE  g[j] = h[j]
    <2>1. /\ g[j] = IF j < 10 THEN <<Digit(j)>> ELSE Append(g[j \div 10], Digit(j % 10))
          /\ h[j] = IF j < 10 THEN <<Digit(j)>> ELSE Append(h[j \div 10], Digit(j % 10))
      <3>1. j \in 0 .. k /\ j \in 0 .. m
        OBVIOUS
      <3> QED BY <3>1 DEF DigitsUpTo
    <2>2. j >= 10 => j \div 10 \in 0 .. j - 1
      BY Tenth
    <2> QED BY <1>1, <2>1, <2>2
  <1>2. 0 \in Good
    <2>1. \A i \in 0 .. 0 - 1 : g[i] = h[i]
      OBVIOUS
    <2>2. 0 \in 0 .. k
      OBVIOUS
    <2>3. g[0] = h[0]
      BY <1>1, <2>1, <2>2
    <2> QED BY <2>2, <2>3
  <1>3. ASSUME NEW j \in 0 .. k, j \in Good, j < k
        PROVE  j + 1 \in Good
    <2>1. j + 1 \in 0 .. k /\ \A i \in 0 .. (j + 1) - 1 : g[i] = h[i]
      BY <1>3
    <2>2. g[j + 1] = h[j + 1]
      BY <1>1, <2>1
    <2> QED BY <2>1, <2>2
  <1>4. k \in Good
    <2> HIDE DEF Good
    <2> QED BY <1>2, <1>3, InductionUpTo
  <1> QED BY <1>4

\* The recursive definition of NumberText has a solution.
LEMMA NumberTextIs ==
  ASSUME NEW n \in Nat
  PROVE  NumberText[n] = IF n < 10 THEN <<Digit(n)>>
                                   ELSE Append(NumberText[n \div 10], Digit(n % 10))
  <1> DEFINE Solution(f) ==
               f = [k \in Nat |-> IF k < 10 THEN <<Digit(k)>>
                                  ELSE Append(f[k \div 10], Digit(k % 10))]
             g(k) == CHOOSE g : DigitsUpTo(g, k)
             f == [k \in Nat |-> g(k)[k]]
  <1>1. \A k \in Nat : DigitsUpTo(g(k), k)
    BY DigitsExist
  <1>2. ASSUME NEW k \in Nat
        PROVE  f[k] = IF k < 10 THEN <<Digit(k)>> ELSE Append(f[k \div 10], Digit(k % 10))
    <2>1. g(k)[k] = IF k < 10 THEN <<Digit(k)>>
                              ELSE Append(g(k)[k \div 10], Digit(k % 10))
      <3>1. k \in 0 .. k
        OBVIOUS
      <3> HIDE DEF g
      <3> QED BY <1>1, <3>1 DEF DigitsUpTo
    <2>2. k >= 10 => g(k)[k \div 10] = f[k \div 10]
      <3> SUFFICES ASSUME k >= 10 PROVE g(k)[k \div 10] = f[k \div 10]
        OBVIOUS
      <3> DEFINE t == k \div 10
      <3>1. t \in Nat /\ t < k /\ t \in 0 .. t
        BY Tenth
      <3> HIDE DEF t, g
      <3>2. g(t)[t] = g(k)[t]
        BY <1>1, <3>1, DigitsAgree
      <3> QED BY <3>1, <3>2 DEF t
    <2> HIDE DEF g
    <2> QED BY <2>1, <2>2
  <1>3. Solution(f)
    <2>1. DOMAIN f = Nat /\ f = [k \in DOMAIN f |-> f[k]]
      OBVIOUS
    <2> HIDE DEF f
    <2> QED BY <1>2, <2>1
  <1>4. Solution(NumberText)
    <2>1. NumberText = CHOOSE h : Solution(h)
      BY DEF NumberText
    <2> HIDE DEF f, Solution
    <2> QED BY <1>3, <2>1
  <1> HIDE DEF f, g
  <1> QED BY <1>4

LEMMA NumberTextTyped ==
  ASSUME NEW k \in Nat
  PROVE  IsSequence(NumberText[k])
  <1> DEFINE Good == {j \in 0 .. k : \A i \in 0 .. j : IsSequence(NumberText[i])}
  <1>1. ASSUME NEW j \in 0 .. k, \A i \in 0 .. j - 1 : IsSequence(NumberText[i])
        PROVE  IsSequence(NumberText[j])
    <2> DEFINE text == NumberText[j]
               shorter == NumberText[j \div 10]
    <2>0. text = IF j < 10 THEN <<Digit(j)>> ELSE Append(shorter, Digit(j % 10))
      <3>1. j \in Nat
        OBVIOUS
      <3> QED BY <3>1, NumberTextIs
    <2>1. CASE j < 10
      <3>1. text = <<Digit(j)>> /\ <<Digit(j)>> \in Seq({Digit(j)})
        <4> HIDE DEF text, shorter
        <4> QED BY <2>0, <2>1
      <3> QED BY <3>1, SequenceOf
    <2>2. CASE j >= 10
      <3>1. j \div 10 \in 0 .. j - 1
        BY <2>2, Tenth
      <3>2. text = Append(shorter, Digit(j % 10))
        <4> HIDE DEF text, shorter
        <4> QED BY <2>0, <2>2
      <3> QED BY <1>1, <3>1, <3>2, AppendIs
    <2> QED BY <2>1, <2>2
  <1>2. 0 \in Good
    <2>1. \A i \in 0 .. 0 - 1 : IsSequence(NumberText[i])
      OBVIOUS
    <2>2. 0 \in 0 .. k
      OBVIOUS
    <2>3. IsSequence(NumberText[0])
      BY <1>1, <2>1, <2>2
    <2> QED BY <2>2, <2>3
  <1>3. ASSUME NEW j \in 0 .. k, j \in Good, j < k
        PROVE  j + 1 \in Good
    <2>1. j + 1 \in 0 .. k /\ \A i \in 0 .. (j + 1) - 1 : IsSequence(NumberText[i])
      BY <1>3
    <2>2. IsSequence(NumberText[j + 1])
      BY <1>1, <2>1
    <2> QED BY <2>1, <2>2
  <1>4. k \in Good
    <2> HIDE DEF Good
    <2> QED BY <1>2, <1>3, InductionUpTo
  <1> QED BY <1>4

LEMMA FractionTextTyped ==
  ASSUME NEW fraction
  PROVE  IsSequence(FractionText(fraction))
  <1> DEFINE S == {i \in 0 .. Precision : i = 0 \/ FractionDigit(fraction, i) # 0}
             last == LastNonzero(fraction)
  <1>1. Precision \in Nat
    BY PrecisionAssumption
  <1>2. Max(S) \in S /\ \A i \in S : i <= Max(S)
    <2>1. S \subseteq 0 .. Precision /\ 0 \in S
      BY <1>1
    <2> HIDE DEF S
    <2> QED BY <1>1, <2>1, Greatest
  <1>3. last \in 0 .. Precision
    <2>1. /\ Max(S) \in 0 .. Precision
          /\ Max(S) = 0 \/ FractionDigit(fraction, Max(S)) # 0
      BY <1>2
    <2>2. ASSUME NEW j \in Max(S) + 1 .. Precision
          PROVE  FractionDigit(fraction, j) = 0
      <3>1. j \in 0 .. Precision /\ ~(j <= Max(S))
        BY <1>1, <2>1
      <3>2. j \notin S
        BY <1>2, <3>1
      <3> QED BY <3>1, <3>2
    <2> HIDE DEF S
    <2> QED BY <2>1, <2>2 DEF LastNonzero
  <1>4. IsSequence([i \in 1 .. last |-> Digit(FractionDigit(fraction, i))])
    <2>1. last \in Nat
      BY <1>1, <1>3
    <2> HIDE DEF last
    <2> QED BY <2>1, SequenceMade
  <1>5. IsSequence(<<".">>) /\ IsSequence(<<>>)
    <2>1. <<".">> \in Seq({"."})
      OBVIOUS
    <2> QED BY <2>1, SequenceOf, EmptySequence
  <1> QED BY <1>4, <1>5, CatIs DEF FractionText

LEMMA BodyTyped ==
  ASSUME NEW d \in Double, NEW body \in DoubleTexts(d)
  PROVE  IsSequence(body)
  <1>1. IsSequence(<<"-">>) /\ IsSequence(<<"%g">>) /\ IsSequence(<<>>)
    <2>1. <<"-">> \in Seq({"-"}) /\ <<"%g">> \in Seq({"%g"})
      OBVIOUS
    <2> QED BY <2>1, SequenceOf, EmptySequence
  <1>2. CASE d.huge
    <2>1. body = <<"%g">> \/ \E g \in Garbage : body = <<"-">> \o g
      BY <1>2 DEF DoubleTexts
    <2>2. \A g \in Garbage : IsSequence(g)
      BY GarbageAssumption, SequenceOf
    <2> QED BY <1>1, <2>1, <2>2, CatIs
  <1>3. CASE ~d.huge
    <2> DEFINE r == Round(d)
               sign == IF d.neg THEN <<"-">> ELSE <<>>
    <2>1. body = (sign \o NumberText[r.number]) \o FractionText(r.fraction)
      BY <1>3 DEF DoubleTexts
    <2>2. r.number \in Nat
      BY DEF Round, Up, Rounded, Double
    <2>3. IsSequence(sign)
      BY <1>1
    <2> HIDE DEF r, sign
    <2>4. IsSequence(sign \o NumberText[r.number])
      BY <2>2, <2>3, NumberTextTyped, CatIs
    <2> QED BY <2>1, <2>4, FractionTextTyped, CatIs
  <1> QED BY <1>2, <1>3

LEMMA UuidTyped ==
  ASSUME NEW path, IsSequence(path)
  PROVE  IsSequence(Uuid(path))
  <1> DEFINE slash == SelectInSeq(path, LAMBDA c : c = "/")
             S == {i \in 1 .. Len(path) : path[i] = "/"}
  <1>1. Len(path) \in Nat
    BY DEF IsSequence
  <1>2. slash = IF S # {} THEN Min(S) ELSE 0
    BY DEF SelectInSeq
  <1>3. S # {} => Min(S) \in S
    <2>1. S \subseteq Nat
      OBVIOUS
    <2> HIDE DEF S
    <2> QED BY <2>1, Least
  <1>4. slash = 0 \/ slash \in 1 .. Len(path)
    <2> HIDE DEF slash
    <2> QED BY <1>2, <1>3
  <1>5. slash # 0 => slash - 1 \in 0 .. Len(path)
    BY <1>1, <1>4
  <1>6. Uuid(path) = IF slash = 0 THEN path ELSE SubSeq(path, 1, slash - 1)
    BY DEF Uuid
  <1> HIDE DEF slash
  <1> QED BY <1>5, <1>6, PrefixIs

\* A line is as long as it looks.
LEMMA LineTyped ==
  ASSUME NEW path, IsSequence(path), NEW body, IsSequence(body)
  PROVE  /\ IsSequence(Line(path, body))
         /\ <<>> \o Line(path, body) = Line(path, body)
  <1>5. IsSequence(Uuid(path))
    BY UuidTyped
  <1>6. IsSequence(<<"\t">>) /\ IsSequence(<<"\n">>)
    <2>1. <<"\t">> \in Seq({"\t"}) /\ <<"\n">> \in Seq({"\n"})
      OBVIOUS
    <2> QED BY <2>1, SequenceOf
  <1>7. IsSequence(Uuid(path) \o <<"\t">>)
    BY <1>5, <1>6, CatIs
  <1>8. IsSequence((Uuid(path) \o <<"\t">>) \o body)
    BY <1>7, CatIs
  <1>9. IsSequence(Line(path, body))
    BY <1>6, <1>8, CatIs DEF Line
  <1>10. <<>> \o Line(path, body) = Line(path, body)
    <2> DEFINE l == Line(path, body)
               T == {l[i] : i \in 1 .. Len(l)}
    <2>1. l \in Seq(T)
      BY <1>9, SequenceIn
    <2> HIDE DEF l, T
    <2>2. <<>> \o l = l
      BY <2>1
    <2> QED BY <2>2 DEF l
  <1> QED BY <1>9, <1>10

-----------------------------------------------------------------------------
(***************************************************************************)
(* The folds of the model, unrolled.                                       *)
(***************************************************************************)

\* GetMetrics(): ConstructField() for one metric after the other.
LEMMA FieldsUnrolled ==
  ASSUME NEW m, NEW l, NEW n \in Nat, DOMAIN LoggerMetrics[l] = 1 .. n
  PROVE  \E it : /\ it[0] = clear_fields(m)
                 /\ \A i \in 1 .. n :
                       it[i] = ConstructField(it[i - 1], LoggerMetrics[l][i])
                 /\ GetMetrics(m, l) = it[n]
  <1> DEFINE base == clear_fields(m)
             s == LoggerMetrics[l]
  <1>0. DOMAIN s = 1 .. n
    OBVIOUS
  <1> HIDE DEF base, s
  <1> DEFINE IsIter(g, k) ==
               g = [t \in SUBSET (1 .. k) |->
                      IF t = {} THEN base ELSE ConstructField(g[t \ {Max(t)}], s[Max(t)])]
             Good == {k \in 0 .. n : \E g : IsIter(g, k)}
  <1>1. 0 \in Good
    <2>1. IsIter([t \in SUBSET (1 .. 0) |-> base], 0)
      OBVIOUS
    <2> QED BY <2>1
  <1>2. ASSUME NEW k \in 0 .. n, k \in Good, k < n
        PROVE  k + 1 \in Good
    <2>1. PICK g : IsIter(g, k)
      BY <1>2
    <2> DEFINE h == [t \in SUBSET (1 .. k + 1) |->
                       IF k + 1 \in t THEN ConstructField(g[t \ {k + 1}], s[k + 1])
                                      ELSE g[t]]
    <2>2. ASSUME NEW t \in SUBSET (1 .. k + 1)
          PROVE  h[t] = IF t = {} THEN base
                                  ELSE ConstructField(h[t \ {Max(t)}], s[Max(t)])
      <3>1. CASE k + 1 \in t
        <4>1. Max(t) = k + 1
          BY <3>1, GreatestOf
        <4>2. h[t \ {k + 1}] = g[t \ {k + 1}]
          OBVIOUS
        <4> QED BY <3>1, <4>1, <4>2
      <3>2. CASE k + 1 \notin t
        <4>1. t \in SUBSET (1 .. k) /\ h[t] = g[t]
          BY <3>2
        <4>2. t # {} => h[t \ {Max(t)}] = g[t \ {Max(t)}]
          BY <3>2
        <4>3. g[t] = IF t = {} THEN base
                               ELSE ConstructField(g[t \ {Max(t)}], s[Max(t)])
          BY <2>1, <4>1
        <4> QED BY <4>1, <4>2, <4>3
      <3> QED BY <3>1, <3>2
    <2> HIDE DEF h
    <2>3. DOMAIN h = SUBSET (1 .. k + 1) /\ h = [t \in DOMAIN h |-> h[t]]
      BY DEF h
    <2>4. IsIter(h, k + 1)
      BY <2>2, <2>3
    <2> HIDE DEF IsIter
    <2> QED BY <1>2, <2>4
  <1> DEFINE g == CHOOSE g : IsIter(g, n)
  <1>3. IsIter(g, n)
    <2>1. n \in Good
      <3> HIDE DEF Good
      <3>1. 0 .. n \subseteq Good
        BY <1>1, <1>2, InductionUpTo
      <3> QED BY <3>1
    <2> HIDE DEF IsIter
    <2> QED BY <2>1
  <1>4. GetMetrics(m, l) = g[1 .. n]
    BY <1>0 DEF GetMetrics, FoldLeft, MapThenFoldSet, base, s
  <1> HIDE DEF g
  <1>5. \A t \in SUBSET (1 .. n) :
            g[t] = IF t = {} THEN base ELSE ConstructField(g[t \ {Max(t)}], s[Max(t)])
    BY <1>3
  <1> DEFINE it == [i \in 0 .. n |-> g[1 .. i]]
  <1>6. it[0] = base /\ it[n] = g[1 .. n]
    <2>1. 1 .. 0 = {} /\ 1 .. 0 \in SUBSET (1 .. n)
      OBVIOUS
    <2>2. g[1 .. 0] = base
      BY <1>5, <2>1
    <2>3. it[0] = g[1 .. 0] /\ it[n] = g[1 .. n]
      OBVIOUS
    <2> QED BY <2>2, <2>3
  <1>7. ASSUME NEW i \in 1 .. n
        PROVE  it[i] = ConstructField(it[i - 1], s[i])
    <2>1. it[i] = g[1 .. i] /\ it[i - 1] = g[1 .. i - 1] /\ 1 .. i \in SUBSET (1 .. n)
      OBVIOUS
    <2>2. i \in Nat \ {0} /\ i \in 1 .. n
      OBVIOUS
    <2>3. Max(1 .. i) = i /\ (1 .. i) \ {i} = 1 .. i - 1 /\ 1 .. i # {}
      BY <2>2, GreatestUpTo
    <2> HIDE DEF it
    <2> QED BY <1>5, <2>1, <2>3
  <1> HIDE DEF it
  <1> QED BY <1>4, <1>6, <1>7 DEF base, s

\* GetDimensionPath(): one level after the other.
LEMMA LevelsUnrolled ==
  ASSUME NEW info, NEW n \in Nat, NEW s, DOMAIN s = 1 .. n
  PROVE  \E it : /\ it[0] = [path |-> <<>>, invalidString |-> 0, invalidNumeric |-> 0]
                 /\ \A i \in 1 .. n :
                       it[i] = AddLevel(it[i - 1], s[i], Member(info, s[i].name))
                 /\ GetDimensionPath(s, info) = it[n]
  <1> DEFINE base == [path |-> <<>>, invalidString |-> 0, invalidNumeric |-> 0]
             IsIter(g, k) ==
               g = [t \in SUBSET (1 .. k) |->
                      IF t = {} THEN base
                      ELSE AddLevel(g[t \ {Max(t)}], s[Max(t)], Member(info, s[Max(t)].name))]
             Good == {k \in 0 .. n : \E g : IsIter(g, k)}
  <1>1. 0 \in Good
    <2>1. IsIter([t \in SUBSET (1 .. 0) |-> base], 0)
      OBVIOUS
    <2> QED BY <2>1
  <1>2. ASSUME NEW k \in 0 .. n, k \in Good, k < n
        PROVE  k + 1 \in Good
    <2>1. PICK g : IsIter(g, k)
      BY <1>2
    <2> HIDE DEF base
    <2> DEFINE h == [t \in SUBSET (1 .. k + 1) |->
                       IF k + 1 \in t
                         THEN AddLevel(g[t \ {k + 1}], s[k + 1], Member(info, s[k + 1].name))
                         ELSE g[t]]
    <2>2. ASSUME NEW t \in SUBSET (1 .. k + 1)
          PROVE  h[t] = IF t = {} THEN base
                        ELSE AddLevel(h[t \ {Max(t)}], s[Max(t)], Member(info, s[Max(t)].name))
      <3>1. CASE k + 1 \in t
        <4>1. Max(t) = k + 1
          BY <3>1, GreatestOf
        <4>2. h[t \ {k + 1}] = g[t \ {k + 1}]
          OBVIOUS
        <4> QED BY <3>1, <4>1, <4>2
      <3>2. CASE k + 1 \notin t
        <4>1. t \in SUBSET (1 .. k) /\ h[t] = g[t]
          BY <3>2
        <4>2. t # {} => h[t \ {Max(t)}] = g[t \ {Max(t)}]
          BY <3>2
        <4>3. g[t] = IF t = {} THEN base
                     ELSE AddLevel(g[t \ {Max(t)}], s[Max(t)], Member(info, s[Max(t)].name))
          BY <2>1, <4>1
        <4> QED BY <4>1, <4>2, <4>3
      <3> QED BY <3>1, <3>2
    <2> HIDE DEF h
    <2>3. DOMAIN h = SUBSET (1 .. k + 1) /\ h = [t \in DOMAIN h |-> h[t]]
      BY DEF h
    <2>4. IsIter(h, k + 1)
      BY <2>2, <2>3
    <2> HIDE DEF IsIter
    <2> QED BY <1>2, <2>4
  <1> DEFINE g == CHOOSE g : IsIter(g, n)
  <1>3. IsIter(g, n)
    <2>1. n \in Good
      <3> HIDE DEF Good
      <3>1. \A k \in 0 .. n : k \in Good /\ k < n => k + 1 \in Good
        BY <1>2
      <3>2. 0 .. n \subseteq Good
        BY <1>1, <3>1, InductionUpTo
      <3> QED BY <3>2
    <2> HIDE DEF IsIter
    <2> QED BY <2>1
  <1>4. GetDimensionPath(s, info) = g[1 .. n]
    BY DEF GetDimensionPath, FoldLeft, MapThenFoldSet
  <1> HIDE DEF g
  <1>5. \A t \in SUBSET (1 .. n) :
            g[t] = IF t = {} THEN base
                   ELSE AddLevel(g[t \ {Max(t)}], s[Max(t)], Member(info, s[Max(t)].name))
    BY <1>3
  <1> DEFINE it == [i \in 0 .. n |-> g[1 .. i]]
  <1>6. it[0] = base /\ it[n] = g[1 .. n]
    <2>1. 1 .. 0 = {} /\ 1 .. 0 \in SUBSET (1 .. n)
      OBVIOUS
    <2>2. g[1 .. 0] = base
      BY <1>5, <2>1
    <2>3. it[0] = g[1 .. 0] /\ it[n] = g[1 .. n]
      OBVIOUS
    <2> QED BY <2>2, <2>3
  <1>7. ASSUME NEW i \in 1 .. n
        PROVE  it[i] = AddLevel(it[i - 1], s[i], Member(info, s[i].name))
    <2>1. it[i] = g[1 .. i] /\ it[i - 1] = g[1 .. i - 1] /\ 1 .. i \in SUBSET (1 .. n)
      OBVIOUS
    <2>2. i \in Nat \ {0} /\ i \in 1 .. n
      OBVIOUS
    <2>3. Max(1 .. i) = i /\ (1 .. i) \ {i} = 1 .. i - 1 /\ 1 .. i # {}
      BY <2>2, GreatestUpTo
    <2> HIDE DEF it
    <2> QED BY <1>5, <2>1, <2>3
  <1> HIDE DEF it
  <1> QED BY <1>4, <1>6, <1>7

-----------------------------------------------------------------------------
(***************************************************************************)
(* The metrics and their names.                                            *)
(***************************************************************************)

LEMMA RangeOfTwo ==
  ASSUME NEW s, DOMAIN s = 1 .. 2
  PROVE  Range(s) = {s[1], s[2]}
  <1>1. 1 .. 2 = {1, 2}
    OBVIOUS
  <1> QED BY <1>1 DEF Range

LEMMA RangeOfFour ==
  ASSUME NEW a, NEW b, NEW c, NEW d
  PROVE  Range(<<a, b, c, d>>) = {a, b, c, d}
  BY DEF Range

LEMMA RangeOfFive ==
  ASSUME NEW s, DOMAIN s = 1 .. 5
  PROVE  Range(s) = {s[1], s[2], s[3], s[4], s[5]}
  <1>1. 1 .. 5 = {1, 2, 3, 4, 5}
    OBVIOUS
  <1> QED BY <1>1 DEF Range

LEMMA RangeOfSix ==
  ASSUME NEW s, DOMAIN s = 1 .. 6
  PROVE  Range(s) = {s[1], s[2], s[3], s[4], s[5], s[6]}
  <1>1. 1 .. 6 = {1, 2, 3, 4, 5, 6}
    OBVIOUS
  <1> QED BY <1>1 DEF Range

LEMMA LoggersAre ==
  /\ Range(Loggers) = {"cache", "record", "schema", "converter"}
  /\ \A i, j \in 1 .. 4 : Loggers[i] = Loggers[j] => i = j
  /\ Len(Loggers) = 4
  BY RangeOfFour DEF Loggers

\* What each logger reports, in its order.
LEMMA NamesAre ==
  /\ LoggerMetrics["cache"] =
        <<"Connection Errors", "HTTP Errors", "Invalid Histograms",
          "Invalid Revisions", "Cache Hits", "Cache Misses">>
  /\ LoggerMetrics["record"] =
        <<"Invalid Path Length", "Invalid Data Length", "Inflate Failures",
          "Parse Failures", "Corrupt Data">>
  /\ LoggerMetrics["schema"] =
        <<"Invalid String Dimension", "Invalid Numeric Dimension">>
  /\ LoggerMetrics["converter"] =
        <<"Records Processed", "Records Discarded", "Data In", "Data Out",
          "Processing Time", "Throughput">>
  BY Zenon DEF LoggerMetrics

LEMMA CacheMetrics ==
  LET s == LoggerMetrics["cache"]
  IN  /\ DOMAIN s = 1 .. 6 /\ Len(s) = 6
      /\ s[1] = "Connection Errors" /\ s[2] = "HTTP Errors" /\
         s[3] = "Invalid Histograms" /\ s[4] = "Invalid Revisions" /\
         s[5] = "Cache Hits" /\ s[6] = "Cache Misses"
      /\ Range(s) = {"Connection Errors", "HTTP Errors",
                    "Invalid Histograms", "Invalid Revisions", "Cache Hits",
                    "Cache Misses"}
  <1> DEFINE c1 == "Connection Errors"  c2 == "HTTP Errors"
             c3 == "Invalid Histograms"  c4 == "Invalid Revisions"
             c5 == "Cache Hits"  c6 == "Cache Misses"
             t == <<c1, c2, c3, c4, c5, c6>>
  <1>1. LoggerMetrics["cache"] = t
    BY NamesAre
  <1> HIDE DEF c1, c2, c3, c4, c5, c6
  <1>2. /\ DOMAIN t = 1 .. 6 /\ Len(t) = 6
        /\ t[1] = c1 /\ t[2] = c2 /\ t[3] = c3 /\ t[4] = c4 /\ t[5] = c5 /\
           t[6] = c6
    OBVIOUS
  <1> HIDE DEF t
  <1>3. Range(t) = {t[1], t[2], t[3], t[4], t[5], t[6]}
    BY <1>2, RangeOfSix
  <1> QED BY <1>1, <1>2, <1>3 DEF c1, c2, c3, c4, c5, c6

LEMMA RecordMetrics ==
  LET s == LoggerMetrics["record"]
  IN  /\ DOMAIN s = 1 .. 5 /\ Len(s) = 5
      /\ s[1] = "Invalid Path Length" /\ s[2] = "Invalid Data Length" /\
         s[3] = "Inflate Failures" /\ s[4] = "Parse Failures" /\
         s[5] = "Corrupt Data"
      /\ Range(s) = {"Invalid Path Length", "Invalid Data Length",
                    "Inflate Failures", "Parse Failures", "Corrupt Data"}
  <1> DEFINE c1 == "Invalid Path Length"  c2 == "Invalid Data Length"
             c3 == "Inflate Failures"  c4 == "Parse Failures"
             c5 == "Corrupt Data"
             t == <<c1, c2, c3, c4, c5>>
  <1>1. LoggerMetrics["record"] = t
    BY NamesAre
  <1> HIDE DEF c1, c2, c3, c4, c5
  <1>2. /\ DOMAIN t = 1 .. 5 /\ Len(t) = 5
        /\ t[1] = c1 /\ t[2] = c2 /\ t[3] = c3 /\ t[4] = c4 /\ t[5] = c5
    OBVIOUS
  <1> HIDE DEF t
  <1>3. Range(t) = {t[1], t[2], t[3], t[4], t[5]}
    BY <1>2, RangeOfFive
  <1> QED BY <1>1, <1>2, <1>3 DEF c1, c2, c3, c4, c5

LEMMA SchemaMetrics ==
  LET s == LoggerMetrics["schema"]
  IN  /\ DOMAIN s = 1 .. 2 /\ Len(s) = 2
      /\ s[1] = "Invalid String Dimension" /\
         s[2] = "Invalid Numeric Dimension"
      /\ Range(s) = {"Invalid String Dimension", "Invalid Numeric Dimension"}
  <1> DEFINE c1 == "Invalid String Dimension"
             c2 == "Invalid Numeric Dimension"
             t == <<c1, c2>>
  <1>1. LoggerMetrics["schema"] = t
    BY NamesAre
  <1> HIDE DEF c1, c2
  <1>2. /\ DOMAIN t = 1 .. 2 /\ Len(t) = 2
        /\ t[1] = c1 /\ t[2] = c2
    OBVIOUS
  <1> HIDE DEF t
  <1>3. Range(t) = {t[1], t[2]}
    BY <1>2, RangeOfTwo
  <1> QED BY <1>1, <1>2, <1>3 DEF c1, c2

LEMMA ConverterMetrics ==
  LET s == LoggerMetrics["converter"]
  IN  /\ DOMAIN s = 1 .. 6 /\ Len(s) = 6
      /\ s[1] = "Records Processed" /\ s[2] = "Records Discarded" /\
         s[3] = "Data In" /\ s[4] = "Data Out" /\ s[5] = "Processing Time" /\
         s[6] = "Throughput"
      /\ Range(s) = {"Records Processed", "Records Discarded", "Data In",
                    "Data Out", "Processing Time", "Throughput"}
  <1> DEFINE c1 == "Records Processed"  c2 == "Records Discarded"
             c3 == "Data In"  c4 == "Data Out"  c5 == "Processing Time"
             c6 == "Throughput"
             t == <<c1, c2, c3, c4, c5, c6>>
  <1>1. LoggerMetrics["converter"] = t
    BY NamesAre
  <1> HIDE DEF c1, c2, c3, c4, c5, c6
  <1>2. /\ DOMAIN t = 1 .. 6 /\ Len(t) = 6
        /\ t[1] = c1 /\ t[2] = c2 /\ t[3] = c3 /\ t[4] = c4 /\ t[5] = c5 /\
           t[6] = c6
    OBVIOUS
  <1> HIDE DEF t
  <1>3. Range(t) = {t[1], t[2], t[3], t[4], t[5], t[6]}
    BY <1>2, RangeOfSix
  <1> QED BY <1>1, <1>2, <1>3 DEF c1, c2, c3, c4, c5, c6

LEMMA MetricNames ==
  MetricName = Range(LoggerMetrics["cache"]) \union Range(LoggerMetrics["record"])
                 \union Range(LoggerMetrics["schema"])
                 \union Range(LoggerMetrics["converter"])
  BY LoggersAre DEF MetricName

Distinct(s) ==
    /\ Len(s) \in 0 .. 6 /\ DOMAIN s = 1 .. Len(s)
    /\ \A i, j \in 1 .. Len(s) : s[i] = s[j] => i = j

LEMMA DistinctSix ==
  ASSUME NEW s, DOMAIN s = 1 .. 6, Len(s) = 6,
         s[1] \notin {s[2], s[3], s[4], s[5], s[6]},
         s[2] \notin {s[3], s[4], s[5], s[6]}, s[3] \notin {s[4], s[5], s[6]},
         s[4] \notin {s[5], s[6]}, s[5] \notin {s[6]}
  PROVE  Distinct(s)
  <1>1. \A i \in 1 .. 6 : i = 1 \/ i = 2 \/ i = 3 \/ i = 4 \/ i = 5 \/ i = 6
    OBVIOUS
  <1>2. ASSUME NEW i \in 1 .. 6, NEW j \in 1 .. 6, s[i] = s[j]
        PROVE  i = j
    BY <1>1, <1>2
  <1> QED BY <1>2 DEF Distinct

LEMMA DistinctFive ==
  ASSUME NEW s, DOMAIN s = 1 .. 5, Len(s) = 5,
         s[1] \notin {s[2], s[3], s[4], s[5]}, s[2] \notin {s[3], s[4], s[5]},
         s[3] \notin {s[4], s[5]}, s[4] \notin {s[5]}
  PROVE  Distinct(s)
  <1>1. \A i \in 1 .. 5 : i = 1 \/ i = 2 \/ i = 3 \/ i = 4 \/ i = 5
    OBVIOUS
  <1>2. ASSUME NEW i \in 1 .. 5, NEW j \in 1 .. 5, s[i] = s[j]
        PROVE  i = j
    BY <1>1, <1>2
  <1> QED BY <1>2 DEF Distinct

LEMMA DistinctTwo ==
  ASSUME NEW s, DOMAIN s = 1 .. 2, Len(s) = 2,
         s[1] \notin {s[2]}
  PROVE  Distinct(s)
  <1>1. \A i \in 1 .. 2 : i = 1 \/ i = 2
    OBVIOUS
  <1>2. ASSUME NEW i \in 1 .. 2, NEW j \in 1 .. 2, s[i] = s[j]
        PROVE  i = j
    BY <1>1, <1>2
  <1> QED BY <1>2 DEF Distinct

LEMMA CacheDistinct == Distinct(LoggerMetrics["cache"])
  BY CacheMetrics, DistinctSix

LEMMA RecordDistinct == Distinct(LoggerMetrics["record"])
  BY RecordMetrics, DistinctFive

LEMMA SchemaDistinct == Distinct(LoggerMetrics["schema"])
  BY SchemaMetrics, DistinctTwo

LEMMA ConverterDistinct == Distinct(LoggerMetrics["converter"])
  BY ConverterMetrics, DistinctSix

\* A logger has up to six metrics, all of them different.
LEMMA NamesOfLogger ==
  ASSUME NEW l \in Range(Loggers)
  PROVE  /\ Len(LoggerMetrics[l]) \in 0 .. 6
         /\ DOMAIN LoggerMetrics[l] = 1 .. Len(LoggerMetrics[l])
         /\ \A i, j \in 1 .. Len(LoggerMetrics[l]) :
               LoggerMetrics[l][i] = LoggerMetrics[l][j] => i = j
         /\ Range(LoggerMetrics[l]) \subseteq MetricName
  <1>5. l \in {"cache", "record", "schema", "converter"}
    BY LoggersAre
  <1>6. Distinct(LoggerMetrics[l])
    BY <1>5, CacheDistinct, RecordDistinct, SchemaDistinct, ConverterDistinct, Zenon
  <1>7. Range(LoggerMetrics[l]) \subseteq MetricName
    BY <1>5, MetricNames
  <1> QED BY <1>6, <1>7 DEF Distinct

-----------------------------------------------------------------------------
(***************************************************************************)
(* The message that is used for every report.                              *)
(***************************************************************************)

\* Of the fields a message has ever had those that wait are empty.
Tidy(m) ==
    /\ {"elements", "size"} \subseteq DOMAIN m
    /\ IsSequence(m.elements)
    /\ m.size \in Nat /\ m.size <= Len(m.elements) /\ Len(m.elements) <= 6
    /\ \A i \in m.size + 1 .. Len(m.elements) : m.elements[i] = NewField

\* What else it holds.
SameHeading(m, g) ==
    /\ DOMAIN g = DOMAIN m
    /\ \A x \in DOMAIN m \ {"elements", "size"} : g[x] = m[x]

LEMMA SetTidy ==
  ASSUME NEW m, Tidy(m), NEW x, x \notin {"elements", "size"}, NEW v
  PROVE  /\ Tidy(Set(m, x, v))
         /\ DOMAIN Set(m, x, v) = DOMAIN m \union {x}
         /\ Set(m, x, v)[x] = v
         /\ \A y \in DOMAIN m : y # x => Set(m, x, v)[y] = m[y]
  <1>1. /\ DOMAIN Set(m, x, v) = DOMAIN m \union {x}
        /\ Set(m, x, v)[x] = v
        /\ \A y \in DOMAIN m : y # x => Set(m, x, v)[y] = m[y]
    BY DEF Set
  <1>2. Set(m, x, v).elements = m.elements /\ Set(m, x, v).size = m.size
    BY <1>1 DEF Tidy
  <1> QED BY <1>1, <1>2 DEF Tidy

LEMMA ClearTidy ==
  ASSUME NEW m, Tidy(m)
  PROVE  LET c == clear_fields(m)
         IN  /\ Tidy(c) /\ c.size = 0 /\ SameHeading(m, c)
  <1> DEFINE c == clear_fields(m)
             e == [i \in 1 .. Len(m.elements) |->
                      IF i <= m.size THEN NewField ELSE m.elements[i]]
  <1>1. /\ DOMAIN c = DOMAIN m /\ c.size = 0
        /\ \A x \in DOMAIN m \ {"elements", "size"} : c[x] = m[x]
        /\ c.elements = e
    BY SequenceDomain DEF Tidy, clear_fields, FieldClear
  <1>2. IsSequence(e) /\ Len(e) = Len(m.elements)
    <2>1. Len(m.elements) \in Nat
      BY DEF Tidy
    <2> QED BY <2>1, SequenceMade
  <1>3. \A i \in 1 .. Len(m.elements) : e[i] = NewField
    BY DEF Tidy
  <1>4. Tidy(c)
    <2> HIDE DEF c, e
    <2> QED BY <1>1, <1>2, <1>3 DEF Tidy
  <1> HIDE DEF c, e
  <1> QED BY <1>1, <1>4 DEF c, SameHeading

\* One more field takes the place of the first one that waits.
LEMMA ConstructTidy ==
  ASSUME NEW m, Tidy(m), m.size < 6, NEW n
  PROVE  LET c == ConstructField(m, n)
         IN  /\ Tidy(c) /\ c.size = m.size + 1 /\ SameHeading(m, c)
             /\ \A i \in 1 .. m.size : c.elements[i] = m.elements[i]
             /\ c.elements[m.size + 1] = Filled(NewField, n)
  <1> DEFINE k == m.size + 1
             a == add_fields(m)
             e == IF m.size < Len(m.elements) THEN m.elements
                                              ELSE Append(m.elements, NewField)
             c == ConstructField(m, n)
  <1>1. /\ m.size \in Nat /\ Len(m.elements) \in Nat
        /\ k \in Nat /\ k <= 6 /\ m.size <= Len(m.elements)
    BY DEF Tidy, IsSequence
  <1>2. /\ IsSequence(e) /\ Len(e) <= 6 /\ Len(e) >= k
        /\ \A i \in 1 .. m.size : e[i] = m.elements[i]
        /\ \A i \in k .. Len(e) : e[i] = NewField
    <2>1. CASE m.size < Len(m.elements)
      <3>1. e = m.elements
        BY <2>1
      <3> HIDE DEF e
      <3> QED BY <1>1, <2>1, <3>1 DEF Tidy
    <2>2. CASE ~(m.size < Len(m.elements))
      <3>1. e = Append(m.elements, NewField) /\ Len(m.elements) = m.size
        BY <1>1, <2>2
      <3>2. /\ IsSequence(e) /\ Len(e) = k
            /\ \A i \in 1 .. m.size : e[i] = m.elements[i]
            /\ e[k] = NewField
        BY <3>1, AppendIs DEF Tidy
      <3> HIDE DEF e
      <3> QED BY <1>1, <3>2
    <2> QED BY <2>1, <2>2
  <1>3. /\ DOMAIN a = DOMAIN m /\ a.elements = e /\ a.size = k
        /\ \A x \in DOMAIN m \ {"elements", "size"} : a[x] = m[x]
    BY DEF Tidy, add_fields
  <1>4. c = [a EXCEPT !.elements[k] = Filled(@, n)]
    BY DEF ConstructField
  <1> HIDE DEF a, e, c, k
  <1> DEFINE e2 == [e EXCEPT ![k] = Filled(@, n)]
  <1>5. /\ DOMAIN c = DOMAIN m /\ c.size = k /\ c.elements = e2
        /\ \A x \in DOMAIN m \ {"elements", "size"} : c[x] = m[x]
    BY <1>3, <1>4 DEF Tidy
  <1>6. /\ IsSequence(e2) /\ Len(e2) = Len(e)
        /\ \A i \in 1 .. Len(e) : i # k => e2[i] = e[i]
        /\ e2[k] = Filled(e[k], n)
    <2>1. Len(e) \in Nat /\ DOMAIN e2 = 1 .. Len(e) /\ k \in 1 .. Len(e)
      <3>1. Len(e) \in Nat /\ DOMAIN e = 1 .. Len(e)
        BY <1>2, SequenceDomain DEF IsSequence
      <3>2. k \in 1 .. Len(e)
        BY <1>1, <1>2, <3>1 DEF k
      <3> QED BY <3>1, <3>2
    <2>2. e2 = [i \in DOMAIN e2 |-> e2[i]]
      OBVIOUS
    <2>3. \A i \in 1 .. Len(e) : i # k => e2[i] = e[i]
      BY <2>1
    <2>4. e2[k] = Filled(e[k], n)
      BY <2>1
    <2> HIDE DEF e2
    <2> QED BY <2>1, <2>2, <2>3, <2>4, SequenceMade
  <1>7. e[k] = NewField
    BY <1>1, <1>2, SequenceDomain DEF IsSequence, k
  <1> HIDE DEF e2
  <1>8. \A i \in k + 1 .. Len(e2) : e2[i] = NewField
    <2> SUFFICES ASSUME NEW i \in k + 1 .. Len(e2) PROVE e2[i] = NewField
      OBVIOUS
    <2>1. Len(e) \in Nat /\ k \in Nat \ {0}
      BY <1>1, <1>2 DEF IsSequence, k
    <2>2. i \in k .. Len(e) /\ i \in 1 .. Len(e) /\ i # k
      BY <1>6, <2>1
    <2> QED BY <1>2, <1>6, <2>2
  <1>9. \A i \in 1 .. m.size : e2[i] = m.elements[i]
    <2> SUFFICES ASSUME NEW i \in 1 .. m.size PROVE e2[i] = m.elements[i]
      OBVIOUS
    <2>1. i \in 1 .. Len(e) /\ i # k
      BY <1>1, <1>2 DEF k, IsSequence
    <2> QED BY <1>2, <1>6, <2>1
  <1>10. Tidy(c)
    BY <1>1, <1>2, <1>5, <1>6, <1>8 DEF Tidy
  <1> QED BY <1>5, <1>6, <1>7, <1>9, <1>10 DEF c, k, SameHeading

-----------------------------------------------------------------------------
(***************************************************************************)
(* A report: the message that is filled, what is sent of it, and what a    *)
(* reader finds in it.                                                     *)
(***************************************************************************)

LEMMA SameHeadingOf ==
  ASSUME NEW m, NEW g, SameHeading(m, g), NEW h, SameHeading(g, h)
  PROVE  SameHeading(m, h)
  BY DEF SameHeading

\* GetMetrics() leaves one field per metric of the logger, with one value each,
\* whatever the message held before.
LEMMA GetMetricsIs ==
  ASSUME NEW m, Tidy(m), NEW l \in Range(Loggers)
  PROVE  LET g == GetMetrics(m, l)
             names == LoggerMetrics[l]
         IN  /\ Tidy(g) /\ g.size = Len(names) /\ SameHeading(m, g)
             /\ \A i \in 1 .. Len(names) : g.elements[i] = Filled(NewField, names[i])
  <1> DEFINE base == clear_fields(m)
             names == LoggerMetrics[l]
             n == Len(names)
  <1>1. n \in 0 .. 6 /\ n \in Nat /\ DOMAIN names = 1 .. n
    BY NamesOfLogger
  <1>2. Tidy(base) /\ base.size = 0 /\ SameHeading(m, base)
    BY ClearTidy
  <1> HIDE DEF base, names, n
  <1>3. PICK it : /\ it[0] = base
                  /\ \A i \in 1 .. n : it[i] = ConstructField(it[i - 1], names[i])
                  /\ GetMetrics(m, l) = it[n]
    <2>1. n \in Nat /\ DOMAIN LoggerMetrics[l] = 1 .. n
      BY <1>1 DEF names
    <2>2. \E it : /\ it[0] = clear_fields(m)
                  /\ \A i \in 1 .. n :
                        it[i] = ConstructField(it[i - 1], LoggerMetrics[l][i])
                  /\ GetMetrics(m, l) = it[n]
      BY <2>1, FieldsUnrolled
    <2> QED BY <2>2 DEF base, names
  <1> DEFINE Done(k) == /\ Tidy(it[k]) /\ it[k].size = k /\ SameHeading(m, it[k])
                        /\ \A i \in 1 .. k :
                              it[k].elements[i] = Filled(NewField, names[i])
             Good == {k \in 0 .. n : Done(k)}
  <1>4. 0 \in Good
    BY <1>1, <1>2, <1>3
  <1>5. ASSUME NEW k \in 0 .. n, k \in Good, k < n
        PROVE  k + 1 \in Good
    <2>1. k + 1 \in 1 .. n /\ (k + 1) - 1 = k /\ k + 1 \in 0 .. n /\ k < 6
      BY <1>1, <1>5
    <2>2. Done(k)
      BY <1>5
    <2> DEFINE a == it[k]
               c == it[k + 1]
    <2>3. c = ConstructField(a, names[k + 1])
      BY <1>3, <2>1
    <2>4. Tidy(a) /\ a.size = k /\ SameHeading(m, a)
      BY <2>2
    <2> HIDE DEF a, c
    <2>5. /\ Tidy(c) /\ c.size = a.size + 1 /\ SameHeading(a, c)
          /\ \A i \in 1 .. a.size : c.elements[i] = a.elements[i]
          /\ c.elements[a.size + 1] = Filled(NewField, names[k + 1])
      BY <2>1, <2>3, <2>4, ConstructTidy
    <2>6. SameHeading(m, c)
      BY <2>4, <2>5, SameHeadingOf
    <2>7. \A i \in 1 .. k + 1 : c.elements[i] = Filled(NewField, names[i])
      <3>1. \A i \in 1 .. k + 1 : i \in 1 .. k \/ i = k + 1
        BY <2>1
      <3>2. \A i \in 1 .. k : a.elements[i] = Filled(NewField, names[i])
        BY <2>2 DEF a
      <3> QED BY <2>4, <2>5, <3>1, <3>2
    <2> QED BY <2>1, <2>4, <2>5, <2>6, <2>7 DEF c
  <1>6. n \in Good
    <2> HIDE DEF Good
    <2> QED BY <1>1, <1>4, <1>5, InductionUpTo
  <1> QED BY <1>3, <1>6 DEF names, n

\* What WriteMessage() takes of it.
LEMMA SentIs ==
  ASSUME NEW g, Tidy(g)
  PROVE  /\ DOMAIN Sent(g) = DOMAIN g
         /\ \A x \in DOMAIN g \ {"elements"} : Sent(g)[x] = g[x]
         /\ IsSequence(Sent(g).elements) /\ Len(Sent(g).elements) = g.size
         /\ \A i \in 1 .. g.size : Sent(g).elements[i] = g.elements[i]
  <1>1. /\ DOMAIN Sent(g) = DOMAIN g
        /\ \A x \in DOMAIN g \ {"elements"} : Sent(g)[x] = g[x]
        /\ Sent(g).elements = SubSeq(g.elements, 1, g.size)
    BY DEF Sent, Fields, Tidy
  <1>2. g.size \in 0 .. Len(g.elements)
    BY DEF Tidy, IsSequence
  <1> QED BY <1>1, <1>2, PrefixIs DEF Tidy

LEMMA FilledIs ==
  ASSUME NEW n
  PROVE  /\ Filled(NewField, n).name = n
         /\ Filled(NewField, n).value_double[1] = metrics[n]
  <1> DEFINE named == Set(Set(Set(NewField, "name", n), "value_type", DOUBLE),
                          "representation", Representation(n))
  <1>1. /\ "name" \in DOMAIN named /\ "value_double" \in DOMAIN named
        /\ named.name = n /\ named.value_double = <<>>
    BY DEF Set, NewField
  <1>2. Filled(NewField, n) = [named EXCEPT !.value_double = Append(@, metrics[n])]
    BY DEF Filled
  <1> HIDE DEF named
  <1>3. Append(<<>>, metrics[n])[1] = metrics[n]
    <2>1. Append(<<>>, metrics[n])[Len(<<>>) + 1] = metrics[n]
      BY EmptySequence, AppendIs
    <2>2. Len(<<>>) + 1 = 1
      BY EmptySequence
    <2> QED BY <2>1, <2>2
  <1> QED BY <1>1, <1>2, <1>3

\* A reader finds the values the metrics had, and those of one logger only.
LEMMA ReportedIs ==
  ASSUME NEW m, Tidy(m), NEW l \in Range(Loggers), NEW n
  PROVE  Reported(Sent(GetMetrics(m, l)), n) =
            IF n \in Range(LoggerMetrics[l]) THEN metrics[n] ELSE 0
  <1> DEFINE g == GetMetrics(m, l)
             names == LoggerMetrics[l]
             e == Sent(g).elements
             S == {i \in 1 .. Len(e) : e[i].name = n}
             at == SelectInSeq(e, LAMBDA f : f.name = n)
  <1>1. /\ Tidy(g) /\ g.size = Len(names)
        /\ \A i \in 1 .. Len(names) : g.elements[i] = Filled(NewField, names[i])
    BY GetMetricsIs
  <1>2. Len(names) \in Nat /\ DOMAIN names = 1 .. Len(names)
    BY NamesOfLogger
  <1>3. Reported(Sent(g), n) = IF at = 0 THEN 0 ELSE e[at].value_double[1]
    BY DEF Reported
  <1>4. at = IF S # {} THEN Min(S) ELSE 0
    BY DEF SelectInSeq
  <1> HIDE DEF g, at
  <1>5. /\ Len(e) = Len(names)
        /\ \A i \in 1 .. Len(names) : e[i] = Filled(NewField, names[i])
    BY <1>1, SentIs
  <1> HIDE DEF e, names
  <1>6. /\ \A i \in S : i \in 1 .. Len(names) /\ names[i] = n
        /\ \A i \in 1 .. Len(names) : names[i] = n => i \in S
    BY <1>5, FilledIs
  <1>7. S # {} => Min(S) \in S
    <2>1. S \subseteq Nat
      OBVIOUS
    <2> HIDE DEF S
    <2> QED BY <2>1, Least
  <1> HIDE DEF S
  <1>8. CASE S = {}
    <2>1. n \notin Range(names)
      BY <1>2, <1>6, <1>8 DEF Range
    <2>2. Reported(Sent(g), n) = 0
      BY <1>3, <1>4, <1>8
    <2> QED BY <2>1, <2>2 DEF g, names
  <1>9. CASE S # {}
    <2>1. at \in S
      BY <1>4, <1>7, <1>9
    <2>2. at \in 1 .. Len(names) /\ names[at] = n
      BY <1>6, <2>1
    <2>3. at # 0
      BY <1>2, <2>2
    <2>4. n \in Range(names)
      BY <1>2, <2>2 DEF Range
    <2>5. e[at].value_double[1] = metrics[n]
      BY <1>5, <2>2, FilledIs
    <2>6. Reported(Sent(g), n) = metrics[n]
      BY <1>3, <2>3, <2>5
    <2> QED BY <2>4, <2>6 DEF g, names
  <1> QED BY <1>8, <1>9

-----------------------------------------------------------------------------
(***************************************************************************)
(* The dimensions a record does not match.                                 *)
(***************************************************************************)

LEMMA OneIs ==
  /\ One(TRUE) = 1 /\ One(FALSE) = 0
  /\ \A b \in BOOLEAN : One(b) \in Nat
  BY DEF One

\* Counting up to n, one by one.
LEMMA CountedOneByOne ==
  ASSUME NEW n \in Nat, NEW S, S \subseteq 1 .. n, NEW c, c[0] = 0,
         \A i \in 1 .. n : c[i] = c[i - 1] + One(i \in S)
  PROVE  c[n] = Cardinality(S)
  <1> DEFINE T(k) == S \cap (1 .. k)
             Good == {k \in 0 .. n : c[k] = Cardinality(T(k)) /\ IsFiniteSet(T(k))}
  <1>1. 0 \in Good
    <2>1. T(0) = {}
      OBVIOUS
    <2> QED BY <2>1, FS_EmptySet
  <1>2. ASSUME NEW k \in 0 .. n, k \in Good, k < n
        PROVE  k + 1 \in Good
    <2>1. k + 1 \in 1 .. n /\ (k + 1) - 1 = k /\ k + 1 \in 0 .. n
      BY <1>2
    <2>2. c[k + 1] = c[k] + One(k + 1 \in S)
      BY <2>1
    <2>3. IsFiniteSet(T(k)) /\ Cardinality(T(k)) \in Nat /\ c[k] = Cardinality(T(k))
      BY <1>2, FS_CardinalityType
    <2>4. CASE k + 1 \in S
      <3>1. T(k + 1) = T(k) \union {k + 1} /\ k + 1 \notin T(k)
        BY <2>1, <2>4
      <3>2. /\ IsFiniteSet(T(k) \union {k + 1})
            /\ Cardinality(T(k) \union {k + 1}) = Cardinality(T(k)) + 1
        <4> HIDE DEF T
        <4> QED BY <2>3, <3>1, FS_AddElement
      <3>3. One(k + 1 \in S) = 1
        BY <2>4 DEF One
      <3> HIDE DEF T
      <3> QED BY <2>1, <2>2, <2>3, <3>1, <3>2, <3>3
    <2>5. CASE k + 1 \notin S
      <3>1. T(k + 1) = T(k)
        BY <2>1, <2>5
      <3>2. One(k + 1 \in S) = 0
        BY <2>5 DEF One
      <3> HIDE DEF T
      <3> QED BY <2>1, <2>2, <2>3, <3>1, <3>2
    <2> QED BY <2>4, <2>5
  <1>3. n \in Good
    <2> HIDE DEF Good
    <2> QED BY <1>1, <1>2, InductionUpTo
  <1>4. T(n) = S
    OBVIOUS
  <1> HIDE DEF T
  <1> QED BY <1>3, <1>4

LEMMA DimensionIs ==
  ASSUME NEW raw, DimensionOk(raw)
  PROVE  /\ TelemetryDimension(raw).name = WithoutSpace(raw["field_name"].text)
         /\ TelemetryDimension(raw).type = "kRange"
                <=> raw["allowed_values"].type = "object"
  <1> DEFINE av == raw["allowed_values"]
             name == WithoutSpace(raw["field_name"].text)
             d == TelemetryDimension(raw)
             l == Loaded(av)
  <1>1. av.type \in {"string", "array", "object"}
    <2>1. Member(raw, "allowed_values").type \in {"string", "array", "object"}
      BY DEF DimensionOk
    <2> QED BY <2>1 DEF Member, Null
  <1>2. l.type = av.type
    BY DEF Loaded, Trimmed
  <1>3. d = CASE l.type = "string" ->
                    [name |-> name, type |-> "kValue", value |-> l.text]
              [] l.type = "array" ->
                    [name |-> name, type |-> "kSet", set |-> {e.text : e \in l.elements}]
              [] l.type = "object" ->
                    [name |-> name, type |-> "kRange",
                     range |-> <<l.members["min"].value, l.members["max"].value>>]
    BY DEF TelemetryDimension
  <1> HIDE DEF av, name, d, l
  <1>4. CASE av.type = "string"
    <2>1. d = [name |-> name, type |-> "kValue", value |-> l.text]
      BY <1>2, <1>3, <1>4
    <2> QED BY <1>4, <2>1 DEF av, name, d
  <1>5. CASE av.type = "array"
    <2>1. d = [name |-> name, type |-> "kSet", set |-> {e.text : e \in l.elements}]
      BY <1>2, <1>3, <1>5
    <2> QED BY <1>5, <2>1 DEF av, name, d
  <1>6. CASE av.type = "object"
    <2>1. d = [name |-> name, type |-> "kRange",
               range |-> <<l.members["min"].value, l.members["max"].value>>]
      BY <1>2, <1>3, <1>6
    <2> QED BY <1>6, <2>1 DEF av, name, d
  <1> QED BY <1>1, <1>4, <1>5, <1>6

Levelled(a) ==
    /\ DOMAIN a = {"path", "invalidString", "invalidNumeric"}
    /\ a.invalidString \in Nat /\ a.invalidNumeric \in Nat

LEMMA AddLevelIs ==
  ASSUME NEW a, Levelled(a), NEW dim, NEW v
  PROVE  LET b == AddLevel(a, dim, v)
         IN  /\ Levelled(b)
             /\ b.invalidString = a.invalidString
                    + One(v.type = "string" /\ dim.type = "kRange")
             /\ b.invalidNumeric = a.invalidNumeric
                    + One(v.type = "number" /\ dim.type # "kRange")
  <1> DEFINE b == AddLevel(a, dim, v)
             p == Slash(a.path, IF Allows(dim, v.text) THEN SafePath(v.text) ELSE Other)
             q == Slash(a.path, IF InRange(dim, v.value) THEN CastText(v.value) ELSE Other)
  <1>0. b = CASE v.type = "string" /\ dim.type # "kRange" -> [a EXCEPT !.path = p]
              [] v.type = "string" /\ dim.type = "kRange" ->
                    [a EXCEPT !.invalidString = @ + 1]
              [] v.type = "number" /\ dim.type = "kRange" -> [a EXCEPT !.path = q]
              [] v.type = "number" /\ dim.type # "kRange" ->
                    [a EXCEPT !.invalidNumeric = @ + 1]
              [] OTHER -> a
    BY DEF AddLevel
  <1> HIDE DEF b, p, q
  <1>1. CASE v.type = "string" /\ dim.type # "kRange"
    <2>1. b = [a EXCEPT !.path = p]
      BY <1>0, <1>1
    <2> QED BY <1>1, <2>1 DEF Levelled, One, b
  <1>2. CASE v.type = "string" /\ dim.type = "kRange"
    <2>1. b = [a EXCEPT !.invalidString = @ + 1]
      BY <1>0, <1>2
    <2> QED BY <1>2, <2>1 DEF Levelled, One, b
  <1>3. CASE v.type = "number" /\ dim.type = "kRange"
    <2>1. b = [a EXCEPT !.path = q]
      BY <1>0, <1>3
    <2> QED BY <1>3, <2>1 DEF Levelled, One, b
  <1>4. CASE v.type = "number" /\ dim.type # "kRange"
    <2>1. b = [a EXCEPT !.invalidNumeric = @ + 1]
      BY <1>0, <1>4
    <2> QED BY <1>4, <2>1 DEF Levelled, One, b
  <1>5. CASE v.type \notin {"string", "number"}
    <2>1. b = a
      BY <1>0, <1>5
    <2> QED BY <1>5, <2>1 DEF Levelled, One, b
  <1> QED BY <1>1, <1>2, <1>3, <1>4, <1>5

\* The state of ConvertFile in which a schema has been loaded.
SchemaLoaded ==
    /\ SchemaOk(scenario.schema)
    /\ dimensions = LoadDimensions(scenario.schema.members["dimensions"])

LEMMA SchemaIs ==
  ASSUME scenario \in Scenarios, SchemaLoaded
  PROVE  LET raw == scenario.schema.members["dimensions"].elements
         IN  /\ IsSequence(raw) /\ DOMAIN dimensions = 1 .. Len(raw)
             /\ DOMAIN Raw = 1 .. Len(raw)
             /\ \A i \in 1 .. Len(raw) :
                    /\ DimensionOk(Raw[i])
                    /\ dimensions[i] = TelemetryDimension(Raw[i])
  <1> DEFINE dims == scenario.schema.members["dimensions"]
             raw == dims.elements
  <1>1. DimensionsOk(Member(scenario.schema.members, "dimensions"))
    BY DEF SchemaLoaded, SchemaOk
  <1>2. Member(scenario.schema.members, "dimensions") = dims
    BY <1>1 DEF Member, DimensionsOk, Null
  <1>3. raw \in Seq(Range(raw))
    BY <1>1, <1>2, ScenarioAssumption DEF DimensionsOk
  <1>4. IsSequence(raw) /\ DOMAIN raw = 1 .. Len(raw)
    BY <1>3, SequenceOf, SequenceDomain
  <1>5. dimensions = [i \in DOMAIN raw |-> TelemetryDimension(raw[i].members)]
    BY DEF SchemaLoaded, LoadDimensions
  <1>6. \A i \in DOMAIN raw : DimensionOk(raw[i].members)
    BY <1>1, <1>2 DEF DimensionsOk
  <1>7. Raw = [i \in DOMAIN raw |-> raw[i].members]
    BY DEF Raw
  <1> HIDE DEF raw
  <1>8. QED BY <1>4, <1>5, <1>6, <1>7 DEF raw

\* The two metrics of the schema count what they say.
LEMMA MismatchesCounted ==
  ASSUME scenario \in Scenarios, SchemaLoaded, NEW info
  PROVE  LET p == GetDimensionPath(dimensions, info)
         IN  /\ p.invalidString = Mismatches(info, "string")
             /\ p.invalidNumeric = Mismatches(info, "number")
             /\ p.invalidString \in Nat /\ p.invalidNumeric \in Nat
  <1> DEFINE n == Len(scenario.schema.members["dimensions"].elements)
             v(i) == Member(info, dimensions[i].name)
             S == {i \in 1 .. n : v(i).type = "string" /\ dimensions[i].type = "kRange"}
             N == {i \in 1 .. n : v(i).type = "number" /\ dimensions[i].type # "kRange"}
  <1>1. /\ n \in Nat /\ DOMAIN dimensions = 1 .. n /\ DOMAIN Raw = 1 .. n
        /\ \A i \in 1 .. n : DimensionOk(Raw[i])
                             /\ dimensions[i] = TelemetryDimension(Raw[i])
    BY SchemaIs DEF IsSequence
  <1> HIDE DEF n
  <1>2. \A i \in 1 .. n :
           /\ dimensions[i].name = WithoutSpace(Raw[i]["field_name"].text)
           /\ dimensions[i].type = "kRange" <=> Raw[i]["allowed_values"].type = "object"
    BY <1>1, DimensionIs
  <1>3. /\ Mismatches(info, "string") = Cardinality(S)
        /\ Mismatches(info, "number") = Cardinality(N)
    <2>1. S = {i \in DOMAIN Raw :
                 /\ Member(info, WithoutSpace(Raw[i]["field_name"].text)).type = "string"
                 /\ (Raw[i]["allowed_values"].type = "object") <=> ("string" = "string")}
      BY <1>1, <1>2
    <2>2. N = {i \in DOMAIN Raw :
                 /\ Member(info, WithoutSpace(Raw[i]["field_name"].text)).type = "number"
                 /\ (Raw[i]["allowed_values"].type = "object") <=> ("number" = "string")}
      BY <1>1, <1>2
    <2> HIDE DEF S, N
    <2> QED BY <2>1, <2>2 DEF Mismatches
  <1>4. \E it :
           /\ it[0] = [path |-> <<>>, invalidString |-> 0, invalidNumeric |-> 0]
           /\ \A i \in 1 .. n : it[i] = AddLevel(it[i - 1], dimensions[i], v(i))
           /\ GetDimensionPath(dimensions, info) = it[n]
    <2>1. n \in Nat /\ DOMAIN dimensions = 1 .. n
      BY <1>1
    <2>2. \E it : /\ it[0] = [path |-> <<>>, invalidString |-> 0, invalidNumeric |-> 0]
                  /\ \A i \in 1 .. n :
                       it[i] = AddLevel(it[i - 1], dimensions[i],
                                        Member(info, dimensions[i].name))
                  /\ GetDimensionPath(dimensions, info) = it[n]
      BY <2>1, LevelsUnrolled
    <2> QED BY <2>2
  <1>5. PICK it :
           /\ it[0] = [path |-> <<>>, invalidString |-> 0, invalidNumeric |-> 0]
           /\ \A i \in 1 .. n : it[i] = AddLevel(it[i - 1], dimensions[i], v(i))
           /\ GetDimensionPath(dimensions, info) = it[n]
    BY <1>4
  <1> DEFINE s == [i \in 0 .. n |-> it[i].invalidString]
             u == [i \in 0 .. n |-> it[i].invalidNumeric]
             Good == {k \in 0 .. n : Levelled(it[k])}
  <1>6. 0 \in Good
    BY <1>1, <1>5 DEF Levelled
  <1>7. ASSUME NEW k \in 0 .. n, k \in Good, k < n
        PROVE  k + 1 \in Good
    <2>1. k + 1 \in 1 .. n /\ (k + 1) - 1 = k /\ k + 1 \in 0 .. n
      BY <1>1, <1>7
    <2>2. Levelled(it[k]) /\ it[k + 1] = AddLevel(it[k], dimensions[k + 1], v(k + 1))
      BY <1>5, <1>7, <2>1
    <2> HIDE DEF v
    <2>3. Levelled(it[k + 1])
      BY <2>2, AddLevelIs
    <2> QED BY <2>1, <2>3
  <1>8. \A k \in 0 .. n : Levelled(it[k])
    <2>1. 0 .. n \subseteq Good
      <3> HIDE DEF Good
      <3> QED BY <1>1, <1>6, <1>7, InductionUpTo
    <2> QED BY <2>1
  <1>9. ASSUME NEW i \in 1 .. n
        PROVE  /\ s[i] = s[i - 1] + One(i \in S)
               /\ u[i] = u[i - 1] + One(i \in N)
    <2>1. i \in 0 .. n /\ i - 1 \in 0 .. n
      BY <1>1
    <2> DEFINE a == it[i - 1]
               b == it[i]
               d == dimensions[i]
               w == v(i)
    <2>2. Levelled(a) /\ b = AddLevel(a, d, w)
      BY <1>5, <1>8, <2>1
    <2>3. /\ i \in S <=> (w.type = "string" /\ d.type = "kRange")
          /\ i \in N <=> (w.type = "number" /\ d.type # "kRange")
      OBVIOUS
    <2> HIDE DEF a, b, d, w, S, N
    <2>4. /\ b.invalidString = a.invalidString
                 + One(w.type = "string" /\ d.type = "kRange")
          /\ b.invalidNumeric = a.invalidNumeric
                 + One(w.type = "number" /\ d.type # "kRange")
      BY <2>2, AddLevelIs
    <2> QED BY <2>1, <2>3, <2>4 DEF a, b, One
  <1>10. s[0] = 0 /\ u[0] = 0
    BY <1>1, <1>5
  <1>11. S \subseteq 1 .. n /\ N \subseteq 1 .. n
    OBVIOUS
  <1>12. s[n] = it[n].invalidString /\ u[n] = it[n].invalidNumeric
    BY <1>1
  <1> HIDE DEF s, u, S, N
  <1>13. s[n] = Cardinality(S) /\ u[n] = Cardinality(N)
    <2>1. s[n] = Cardinality(S)
      BY <1>1, <1>9, <1>10, <1>11, CountedOneByOne
    <2>2. u[n] = Cardinality(N)
      BY <1>1, <1>9, <1>10, <1>11, CountedOneByOne
    <2> QED BY <2>1, <2>2
  <1>14. it[n].invalidString \in Nat /\ it[n].invalidNumeric \in Nat
    BY <1>1, <1>8 DEF Levelled
  <1> QED BY <1>3, <1>5, <1>12, <1>13, <1>14

-----------------------------------------------------------------------------
(***************************************************************************)
(* The inductive invariant: where the converter stands, what it has read,  *)
(* what it has written, and what its log and the stream to it hold.        *)
(***************************************************************************)

ProcessInv ==
    /\ scenario \in Scenarios /\ pc \in Phase /\ made \subseteq Directories
    /\ faults \in 0 .. scenario.faults
    /\ IsSequence(todo) /\ \A i \in 1 .. Len(todo) : IsFile(todo[i])
    /\ file.size \in Nat
    /\ pc = "read" =>
          /\ IsSequence(rest) /\ rest # <<>> /\ rest[Len(rest)].fate = "end"
          /\ \A i \in 1 .. Len(rest) : IsRecord(rest[i])
    /\ pc \notin {"start", "failed"} => SchemaLoaded

\* What Amount() says, with the scenario as a parameter.
RawIn(s) ==
    [i \in DOMAIN s.schema.members["dimensions"].elements |->
        s.schema.members["dimensions"].elements[i].members]

MismatchesIn(s, info, kind) ==
    Cardinality({i \in DOMAIN RawIn(s) :
        /\ Member(info, WithoutSpace(RawIn(s)[i]["field_name"].text)).type = kind
        /\ (RawIn(s)[i]["allowed_values"].type = "object") <=> (kind = "string")})

AmountIn(s, n, r) ==
    CASE n = "Records Processed" -> One(r.fate \in {"converted", "refused"})
      [] n = "Records Discarded" -> One(r.fate = "refused")
      [] n = "Invalid String Dimension" /\ r.fate = "converted" ->
            MismatchesIn(s, r.info, "string")
      [] n = "Invalid Numeric Dimension" /\ r.fate = "converted" ->
            MismatchesIn(s, r.info, "number")
      [] OTHER -> One(n \in r.counts)

ReadInv ==
    /\ IsSequence(read) /\ told \in 0 .. Len(read)
    /\ \A i \in 1 .. Len(read) :
          /\ read[i].fate \in Fate
          /\ \A n \in Counter : AmountIn(scenario, n, read[i]) \in Nat

WrittenInv ==
    /\ IsSequence(written) /\ WrittenInOrder
    /\ \A i \in 1 .. Len(written) : Len(written[i].text) \in Nat

IsSent(m, drawn) ==
    /\ m.logger \in Range(Loggers)
    /\ \E k \in 1 .. drawn : m.uuid = <<k>>
    /\ \A n \in Counter : Reported(m, n) \in Nat

LogInv ==
    /\ metrics \in [MetricName -> Nat] /\ uuids \in Nat /\ Tidy(msg)
    /\ IsSequence(log) /\ \A i \in 1 .. Len(log) : IsSent(log[i], uuids)
    /\ IsSequence(buffer) /\ Len(buffer) <= 4
    /\ \A i \in 1 .. Len(buffer) :
          IsSent(buffer[i], uuids) /\ buffer[i].logger = Loggers[i]

Reporting == pc \in {"cache", "record", "schema", "converter", "flush"}

\* How many components have reported at pc.
Stage ==
    CASE pc = "cache" -> 0 [] pc = "record" -> 1 [] pc = "schema" -> 2
      [] pc = "converter" -> 3 [] pc = "flush" -> 4

\* While a report is made the stream is in order or not open, and what is sent
\* has a uuid that no message in the file has; between the reports only a
\* stream that has failed holds messages.
StreamInv ==
    /\ ofs \in {"closed", "open", "failed", "bad"}
    /\ ofs \in {"closed", "failed"} => buffer = <<>>
    /\ ~Reporting /\ ofs = "open" => buffer = <<>>
    /\ Reporting =>
          /\ ofs \in {"open", "failed"} /\ uuids > 0
          /\ "uuid" \in DOMAIN msg /\ msg.uuid = <<uuids>>
          /\ \A i \in 1 .. Len(log) : log[i].uuid # <<uuids>>
          /\ ofs = "open" => Len(buffer) = Stage

-----------------------------------------------------------------------------
(***************************************************************************)
(* The process.                                                            *)
(***************************************************************************)

LEMMA InitProcess == Init => ProcessInv
  <1> SUFFICES ASSUME Init PROVE ProcessInv
    OBVIOUS
  <1>1. scenario \in Scenarios /\ scenario.faults \in Nat
    BY ScenarioAssumption DEF Init
  <1>2. IsSequence(todo) /\ \A i \in 1 .. Len(todo) : IsFile(todo[i])
    <2>1. todo \in Seq(Range(todo)) /\ \A i \in DOMAIN todo : IsFile(todo[i])
      BY <1>1, ScenarioAssumption DEF Init
    <2> QED BY <2>1, SequenceOf, SequenceDomain
  <1> QED BY <1>1, <1>2 DEF Init, ProcessInv, Phase, NoFile

\* A file has records to read, the last of which is its end.
LEMMA FileIs ==
  ASSUME NEW f, IsFile(f)
  PROVE  /\ f.size \in Nat
         /\ IsSequence(f.records) /\ f.records # <<>>
         /\ f.records[Len(f.records)].fate = "end"
         /\ \A i \in 1 .. Len(f.records) : IsRecord(f.records[i])
  BY SequenceOf, SequenceDomain DEF IsFile

\* What is read is a record, and behind one that is not the end there are more.
LEMMA ReadingOn ==
  ASSUME ProcessInv, pc = "read"
  PROVE  /\ IsRecord(doc)
         /\ doc.fate # "end" =>
               /\ IsSequence(Tail(rest)) /\ Tail(rest) # <<>>
               /\ Tail(rest)[Len(Tail(rest))].fate = "end"
               /\ \A i \in 1 .. Len(Tail(rest)) : IsRecord(Tail(rest)[i])
  <1>1. /\ IsSequence(rest) /\ rest # <<>> /\ rest[Len(rest)].fate = "end"
        /\ \A i \in 1 .. Len(rest) : IsRecord(rest[i])
    BY DEF ProcessInv
  <1>2. /\ Len(rest) \in Nat /\ Len(rest) > 0 /\ doc = rest[1]
        /\ IsSequence(Tail(rest)) /\ Len(Tail(rest)) = Len(rest) - 1
        /\ \A i \in 1 .. Len(rest) - 1 : Tail(rest)[i] = rest[i + 1]
    BY <1>1, TailIs DEF doc, IsSequence
  <1>3. IsRecord(doc)
    BY <1>1, <1>2
  <1>4. ASSUME doc.fate # "end"
        PROVE  /\ Tail(rest) # <<>>
               /\ Tail(rest)[Len(Tail(rest))].fate = "end"
               /\ \A i \in 1 .. Len(Tail(rest)) : IsRecord(Tail(rest)[i])
    <2>1. Len(rest) # 1
      BY <1>1, <1>2, <1>4
    <2>2. Tail(rest) # <<>>
      <3>1. Len(Tail(rest)) # Len(<<>>)
        BY <1>2, <2>1, EmptySequence
      <3> QED BY <3>1
    <2>3. Len(rest) - 1 \in 1 .. Len(rest) - 1 /\ (Len(rest) - 1) + 1 = Len(rest)
      BY <1>2, <2>1
    <2>4. Tail(rest)[Len(Tail(rest))] = rest[Len(rest)]
      BY <1>2, <2>3
    <2>5. \A i \in 1 .. Len(Tail(rest)) : i + 1 \in 1 .. Len(rest)
      BY <1>2
    <2> QED BY <1>1, <1>2, <2>2, <2>4, <2>5
  <1> QED BY <1>2, <1>3, <1>4

LEMMA ProcessKept == ProcessInv /\ [Next]_vars => ProcessInv'
<1> SUFFICES ASSUME ProcessInv, [Next]_vars
             PROVE  ProcessInv'
  OBVIOUS
<1> USE DEF ProcessInv
<1>0. scenario.faults \in Nat
  BY ScenarioAssumption
<1>1. CASE Configure
  <2>1. SchemaLoaded'
    BY <1>1 DEF Configure, SchemaLoaded
  <2> QED BY <1>1, <2>1 DEF Configure, Phase
<1>2. CASE ConfigureThrows
  BY <1>2 DEF ConfigureThrows, Phase, Directories, processVars
<1>3. CASE Begin
  <2>1. /\ IsSequence(todo') /\ \A i \in 1 .. Len(todo') : IsFile(todo'[i])
        /\ IsFile(file')
    <3>1. /\ Len(todo) \in Nat /\ Len(todo) > 0 /\ Head(todo) = todo[1]
          /\ IsSequence(Tail(todo)) /\ Len(Tail(todo)) = Len(todo) - 1
          /\ \A i \in 1 .. Len(todo) - 1 : Tail(todo)[i] = todo[i + 1]
      BY <1>3, TailIs DEF Begin, IsSequence
    <3>2. \A i \in 1 .. Len(Tail(todo)) : i + 1 \in 1 .. Len(todo)
      BY <3>1
    <3> QED BY <1>3, <3>1, <3>2 DEF Begin
  <2>2. SchemaLoaded'
    BY <1>3 DEF Begin, SchemaLoaded
  <2>3. rest' = file'.records
    BY <1>3 DEF Begin
  <2> QED BY <1>3, <2>1, <2>2, <2>3, FileIs DEF Begin, Phase
<1>4. ASSUME NEW fate, Reading(fate), pc' \in {"read", "top", "remove", "roll"},
             pc' = "read" => fate # "end",
             faults' = faults \/ faults' \in 0 .. scenario.faults
      PROVE  ProcessInv'
  <2>1. SchemaLoaded'
    BY <1>4 DEF Reading, SchemaLoaded
  <2>2. pc' = "read" => /\ IsSequence(rest') /\ rest' # <<>>
                        /\ rest'[Len(rest')].fate = "end"
                        /\ \A i \in 1 .. Len(rest') : IsRecord(rest'[i])
    BY <1>4, ReadingOn DEF Reading
  <2> QED BY <1>4, <2>1, <2>2 DEF Reading, Phase
<1>5. CASE Convert
  BY <1>4, <1>5 DEF Convert, Reading
<1>6. CASE Refuse
  BY <1>4, <1>6 DEF Refuse, Reading
<1>7. CASE Throw
  BY <1>4, <1>7 DEF Throw, Return
<1>8. ASSUME NEW elapsed \in 0 .. 1, Finish(elapsed)
      PROVE  ProcessInv'
  BY <1>4, <1>8 DEF Finish, Return
<1>9. ASSUME NEW elapsed \in 0 .. 1, FileSizeThrows(elapsed)
      PROVE  ProcessInv'
  <2>1. faults' \in 0 .. scenario.faults
    <3>1. Fault
      BY <1>9 DEF FileSizeThrows
    <3> QED BY <1>0, <3>1 DEF Fault
  <2> QED BY <1>4, <1>9, <2>1 DEF FileSizeThrows, Return
<1>10. ASSUME NEW from, NEW to \in Phase, Go(from, to), to # "read",
              from \notin {"start", "failed"},
              faults' = faults \/ faults' \in 0 .. scenario.faults
       PROVE  ProcessInv'
  <2>1. SchemaLoaded'
    BY <1>10 DEF Go, SchemaLoaded
  <2> QED BY <1>10, <2>1 DEF Go, Phase
<1>11. Fault => faults' \in 0 .. scenario.faults
  BY <1>0 DEF Fault
<1>12. CASE RemoveFile
  BY <1>10, <1>12 DEF RemoveFile, Phase
<1>13. CASE RemoveFileThrows
  BY <1>10, <1>11, <1>13 DEF RemoveFileThrows, Phase
<1>14. CASE Roll
  BY <1>10, <1>14 DEF Roll, Phase
<1>15. CASE Reopen
  BY <1>10, <1>15 DEF Reopen, Phase
<1>16. ASSUME NEW k \in 0 .. Len(buffer), NEW opens \in BOOLEAN, ReopenFails(k, opens)
       PROVE  ProcessInv'
  BY <1>10, <1>11, <1>16 DEF ReopenFails, Phase
<1>17. CASE ReportCache
  BY <1>10, <1>17 DEF ReportCache, Phase
<1>18. CASE ReportRecord
  BY <1>10, <1>18 DEF ReportRecord, Phase
<1>19. CASE ReportSchema
  BY <1>10, <1>19 DEF ReportSchema, Phase
<1>20. CASE ReportConverter
  BY <1>10, <1>20 DEF ReportConverter, Phase
<1>21. CASE FlushLog
  BY <1>10, <1>21 DEF FlushLog, Phase
<1>22. ASSUME NEW k \in 0 .. Len(buffer), FlushLogFails(k)
       PROVE  ProcessInv'
  BY <1>10, <1>11, <1>22 DEF FlushLogFails, Phase
<1>23. ASSUME NEW k \in 0 .. Len(buffer), Exit(k)
       PROVE  ProcessInv'
  <2>1. faults' \in 0 .. scenario.faults
    BY <1>0, <1>23 DEF Exit, One
  <2> QED BY <1>10, <1>23, <2>1 DEF Exit, Phase
<1>24. CASE Crash
  <2>1. faults' \in 0 .. scenario.faults /\ file'.size \in Nat
    BY <1>11, <1>24 DEF Crash, NoFile
  <2> QED BY <1>24, <2>1 DEF Crash, Phase
<1>25. CASE UNCHANGED vars
  <2>1. SchemaLoaded' <=> SchemaLoaded
    BY <1>25 DEF vars, processVars, SchemaLoaded
  <2> QED BY <1>25, <2>1 DEF vars, processVars
<1> QED
  BY <1>1, <1>2, <1>3, <1>5, <1>6, <1>7, <1>8, <1>9, <1>12, <1>13, <1>14, <1>15,
     <1>16, <1>17, <1>18, <1>19, <1>20, <1>21, <1>22, <1>23, <1>24, <1>25 DEF Next

-----------------------------------------------------------------------------
(***************************************************************************)
(* What a record counts.                                                   *)
(***************************************************************************)

LEMMA MismatchesAre ==
  ASSUME NEW info, NEW kind
  PROVE  Mismatches(info, kind) = MismatchesIn(scenario, info, kind)
  <1>1. Raw = RawIn(scenario)
    BY DEF Raw, RawIn
  <1> QED BY <1>1 DEF Mismatches, MismatchesIn

LEMMA AmountIs ==
  ASSUME NEW n, NEW r
  PROVE  Amount(n, r) = AmountIn(scenario, n, r)
  BY MismatchesAre DEF Amount, AmountIn

\* Reading a record adds to no metric of the schema or the converter.
LEMMA CountsAre ==
  ASSUME NEW C, C \subseteq Range(LoggerMetrics["cache"])
                                \union Range(LoggerMetrics["record"])
  PROVE  C \intersect (Range(LoggerMetrics["schema"])
                           \union Range(LoggerMetrics["converter"])) = {}
  BY CacheMetrics, RecordMetrics, SchemaMetrics, ConverterMetrics

LEMMA CountersAre ==
  /\ Counter \subseteq MetricName
  /\ "Data Out" \in Counter
  /\ Counter \intersect {"Data In", "Processing Time", "Throughput"} = {}
  BY MetricNames, ConverterMetrics DEF Counter

LEMMA AmountOfOthers ==
  ASSUME NEW r, r.fate \in Fate, r.fate # "converted",
         r.counts \subseteq Range(LoggerMetrics["cache"])
                               \union Range(LoggerMetrics["record"]),
         NEW n
  PROVE  /\ AmountIn(scenario, n, r) =
                One(n \in r.counts \union
                      (IF r.fate = "refused" THEN {"Records Processed", "Records Discarded"}
                                             ELSE {}))
         /\ AmountIn(scenario, n, r) \in Nat
         /\ "Data Out" \notin r.counts
  <1>1. {"Records Processed", "Records Discarded", "Data Out"} \intersect r.counts = {}
    BY CountsAre, ConverterMetrics
  <1>2. CASE n = "Records Processed"
    BY <1>1, <1>2 DEF AmountIn, One, Fate
  <1>3. CASE n = "Records Discarded"
    BY <1>1, <1>3 DEF AmountIn, One, Fate
  <1>4. CASE n \notin {"Records Processed", "Records Discarded"}
    BY <1>1, <1>4 DEF AmountIn, One
  <1> QED BY <1>2, <1>3, <1>4

LEMMA AmountOfConverted ==
  ASSUME scenario \in Scenarios, SchemaLoaded,
         NEW r, IsRecord(r), r.fate = "converted", NEW n
  PROVE  LET p == GetDimensionPath(dimensions, r.info)
         IN  /\ n # "Data Out" =>
                  AmountIn(scenario, n, r) =
                     CASE n = "Invalid String Dimension" -> p.invalidString
                       [] n = "Invalid Numeric Dimension" -> p.invalidNumeric
                       [] OTHER -> One(n = "Records Processed" \/ n \in r.counts)
             /\ AmountIn(scenario, n, r) \in Nat
             /\ "Data Out" \notin r.counts
  <1> DEFINE p == GetDimensionPath(dimensions, r.info)
  <1>1. {"Records Processed", "Records Discarded", "Data Out"} \intersect r.counts = {}
    BY CountsAre, ConverterMetrics DEF IsRecord
  <1>2. /\ p.invalidString = MismatchesIn(scenario, r.info, "string")
        /\ p.invalidNumeric = MismatchesIn(scenario, r.info, "number")
        /\ p.invalidString \in Nat /\ p.invalidNumeric \in Nat
    BY MismatchesCounted, MismatchesAre
  <1> HIDE DEF p
  <1>3. CASE n = "Records Processed"
    BY <1>1, <1>3 DEF AmountIn, One
  <1>4. CASE n = "Records Discarded"
    BY <1>1, <1>4 DEF AmountIn, One
  <1>5. CASE n = "Invalid String Dimension"
    <2>1. n # "Data Out" /\ n # "Records Processed" /\ n # "Records Discarded"
      BY <1>5
    <2>2. AmountIn(scenario, n, r) = MismatchesIn(scenario, r.info, "string")
      BY <1>5, <2>1 DEF AmountIn
    <2> QED BY <1>1, <1>2, <1>5, <2>1, <2>2 DEF p
  <1>6. CASE n = "Invalid Numeric Dimension"
    <2>1. n # "Data Out" /\ n # "Records Processed" /\ n # "Records Discarded"
             /\ n # "Invalid String Dimension"
      BY <1>6
    <2>2. AmountIn(scenario, n, r) = MismatchesIn(scenario, r.info, "number")
      BY <1>6, <2>1 DEF AmountIn
    <2> QED BY <1>1, <1>2, <1>6, <2>1, <2>2 DEF p
  <1>7. CASE n \notin {"Records Processed", "Records Discarded",
                       "Invalid String Dimension", "Invalid Numeric Dimension"}
    BY <1>1, <1>7 DEF AmountIn, One
  <1> QED BY <1>1, <1>3, <1>4, <1>5, <1>6, <1>7 DEF p

-----------------------------------------------------------------------------
(***************************************************************************)
(* What is read and what is written.                                       *)
(***************************************************************************)

LEMMA InitRead == Init => ReadInv /\ WrittenInv
  <1> SUFFICES ASSUME Init PROVE ReadInv /\ WrittenInv
    OBVIOUS
  <1>1. read = <<>> /\ written = <<>> /\ told = 0
    BY DEF Init
  <1>2. Converted(read) = {}
    BY <1>1, EmptySequence, SequenceDomain DEF Converted
  <1>3. WrittenInOrder
    BY <1>1, <1>2, EmptySequence, FS_EmptySet DEF WrittenInOrder
  <1> QED BY <1>1, <1>3, EmptySequence DEF ReadInv, WrittenInv

\* The numbers of the lines up to the one of a record.
LEMMA Ranks ==
  ASSUME NEW S, IsFiniteSet(S), S \subseteq Nat, NEW i \in S
  PROVE  Cardinality({j \in S : j <= i}) \in 1 .. Cardinality(S)
  <1> DEFINE T == {j \in S : j <= i}
  <1>1. T \subseteq S /\ i \in T
    OBVIOUS
  <1> HIDE DEF T
  <1>2. IsFiniteSet(T) /\ Cardinality(T) <= Cardinality(S)
    BY <1>1, FS_Subset
  <1>3. Cardinality(T) \in Nat /\ Cardinality(S) \in Nat /\ Cardinality(T) # 0
    BY <1>1, <1>2, FS_CardinalityType, FS_EmptySet
  <1> QED BY <1>2, <1>3 DEF T

LEMMA ConvertedIs ==
  ASSUME NEW s, IsSequence(s), NEW r
  PROVE  /\ Converted(s) \subseteq 1 .. Len(s) /\ IsFiniteSet(Converted(s))
         /\ Cardinality(Converted(s)) \in Nat /\ Cardinality(Converted(s)) <= Len(s)
         /\ Converted(Append(s, r)) =
               IF r.fate = "converted" THEN Converted(s) \union {Len(s) + 1}
                                       ELSE Converted(s)
         /\ \A i \in Converted(s) : Append(s, r)[i] = s[i]
  <1> DEFINE a == Append(s, r)
  <1>1. Len(s) \in Nat /\ DOMAIN s = 1 .. Len(s)
    BY SequenceDomain DEF IsSequence
  <1>2. /\ Converted(s) \subseteq 1 .. Len(s) /\ IsFiniteSet(Converted(s))
        /\ Cardinality(Converted(s)) \in Nat /\ Cardinality(Converted(s)) <= Len(s)
    <2>1. Converted(s) \subseteq 1 .. Len(s)
      BY <1>1 DEF Converted
    <2>2. IsFiniteSet(1 .. Len(s)) /\ Cardinality(1 .. Len(s)) = Len(s)
      <3> DEFINE m == Len(s)
      <3>1. m \in Nat /\ 1 \in Nat
        BY <1>1
      <3> HIDE DEF m
      <3>2. IsFiniteSet(1 .. m) /\ Cardinality(1 .. m) = IF m >= 1 THEN m - 1 + 1 ELSE 0
        BY <3>1, FS_Interval
      <3> QED BY <3>1, <3>2 DEF m
    <2> QED BY <2>1, <2>2, FS_Subset, FS_CardinalityType
  <1>3. /\ IsSequence(a) /\ Len(a) = Len(s) + 1
        /\ \A i \in 1 .. Len(s) : a[i] = s[i]
        /\ a[Len(s) + 1] = r
    BY AppendIs
  <1>4. DOMAIN a = 1 .. Len(s) + 1
    BY <1>3, SequenceDomain
  <1> HIDE DEF a
  <1>5. Converted(a) = IF r.fate = "converted" THEN Converted(s) \union {Len(s) + 1}
                                               ELSE Converted(s)
    <2>1. \A i \in 1 .. Len(s) + 1 : i \in 1 .. Len(s) \/ i = Len(s) + 1
      BY <1>1
    <2>2. Len(s) + 1 \in 1 .. Len(s) + 1 /\ Len(s) + 1 \notin 1 .. Len(s)
             /\ 1 .. Len(s) \subseteq 1 .. Len(s) + 1
      BY <1>1
    <2> QED BY <1>1, <1>3, <1>4, <2>1, <2>2 DEF Converted
  <1> QED BY <1>2, <1>3, <1>5 DEF a

\* What is written for a converted record.
LEMMA LineOfRecord ==
  ASSUME NEW r, IsRecord(r), r.fate = "converted", NEW body \in DoubleTexts(r.number)
  PROVE  /\ Clear(sb) \o Line(r.path, body) = Line(r.path, body)
         /\ Len(Line(r.path, body)) \in Nat
  <1>1. r.number \in Double /\ IsSequence(r.path)
    BY SequenceOf DEF IsRecord
  <1>2. IsSequence(body)
    <2> DEFINE d == r.number
    <2>1. d \in Double /\ body \in DoubleTexts(d)
      BY <1>1
    <2> HIDE DEF d
    <2> QED BY <2>1, BodyTyped, Zenon
  <1> QED BY <1>1, <1>2, LineTyped DEF Clear, IsSequence

LEMMA ReadKept ==
  ASSUME ProcessInv, ReadInv, WrittenInv, [Next]_vars
  PROVE  ReadInv' /\ WrittenInv'
<1>1. /\ IsSequence(read) /\ told \in 0 .. Len(read) /\ Len(read) \in Nat
      /\ IsSequence(written) /\ WrittenInOrder /\ Len(written) \in Nat
      /\ \A i \in 1 .. Len(written) : Len(written[i].text) \in Nat
      /\ \A i \in 1 .. Len(read) :
            /\ read[i].fate \in Fate
            /\ \A n \in Counter : AmountIn(scenario, n, read[i]) \in Nat
  BY DEF ReadInv, WrittenInv, IsSequence
<1>2. ASSUME UNCHANGED <<scenario, read, written>>, told' \in 0 .. Len(read)
      PROVE  ReadInv' /\ WrittenInv'
  <2>1. WrittenInOrder'
    BY <1>1, <1>2 DEF WrittenInOrder
  <2> QED BY <1>1, <1>2, <2>1 DEF ReadInv, WrittenInv
<1>3. ASSUME NEW r, UNCHANGED <<scenario, told>>, read' = Append(read, r),
             r.fate \in Fate, \A n \in Counter : AmountIn(scenario, n, r) \in Nat
      PROVE  ReadInv'
  <2>1. /\ IsSequence(read') /\ Len(read') = Len(read) + 1
        /\ \A i \in 1 .. Len(read) : read'[i] = read[i]
        /\ read'[Len(read) + 1] = r
    BY <1>1, <1>3, AppendIs
  <2>2. \A i \in 1 .. Len(read') : i \in 1 .. Len(read) \/ i = Len(read) + 1
    BY <1>1, <2>1
  <2>3. told' \in 0 .. Len(read')
    BY <1>1, <1>3, <2>1
  <2> QED BY <1>1, <1>3, <2>1, <2>2, <2>3 DEF ReadInv
<1>4. ASSUME NEW r, UNCHANGED <<scenario, told, written>>, read' = Append(read, r),
             r.fate \in Fate, r.fate # "converted",
             r.counts \subseteq Range(LoggerMetrics["cache"])
                                   \union Range(LoggerMetrics["record"])
      PROVE  ReadInv' /\ WrittenInv'
  <2>1. ReadInv'
    BY <1>3, <1>4, AmountOfOthers
  <2>2. /\ Converted(read') = Converted(read)
        /\ \A i \in Converted(read) : read'[i] = read[i]
    BY <1>1, <1>4, ConvertedIs
  <2>3. WrittenInOrder'
    <3> DEFINE C == Converted(read)
    <3>1. /\ Len(written) = Cardinality(C)
          /\ \A i \in C :
                LET w == written[Cardinality({j \in C : j <= i})]
                IN  /\ w.doc = read[i]
                    /\ \E body \in DoubleTexts(read[i].number) :
                          w.text = Line(read[i].path, body)
      BY <1>1 DEF WrittenInOrder
    <3>2. Converted(read') = C /\ \A i \in C : read'[i] = read[i]
      BY <2>2
    <3>3. written' = written
      BY <1>4
    <3> HIDE DEF C
    <3>4. \A i \in C :
             LET w == written'[Cardinality({j \in C : j <= i})]
             IN  /\ w.doc = read'[i]
                 /\ \E body \in DoubleTexts(read'[i].number) :
                       w.text = Line(read'[i].path, body)
      BY <3>1, <3>2, <3>3
    <3> QED BY <3>1, <3>2, <3>3, <3>4 DEF WrittenInOrder
  <2> QED BY <1>1, <1>4, <2>1, <2>3 DEF WrittenInv
<1>5. CASE Convert
  <2>1. pc = "read" /\ doc.fate = "converted" /\ read' = Append(read, doc)
          /\ UNCHANGED <<scenario, told>>
    BY <1>5 DEF Convert, Reading
  <2>2. IsRecord(doc) /\ scenario \in Scenarios /\ SchemaLoaded
    BY <2>1, ReadingOn DEF ProcessInv
  <2>3. PICK body \in DoubleTexts(doc.number) : sb' = Clear(sb) \o Line(doc.path, body)
    BY <1>5 DEF Convert
  <2>4. sb' = Line(doc.path, body) /\ Len(sb') \in Nat
    BY <2>1, <2>2, <2>3, LineOfRecord
  <2> DEFINE w == [doc |-> doc, path |-> GetDimensionPath(dimensions, doc.info).path,
                   text |-> sb']
             N == Len(read)
             C == Converted(read)
             C2 == Converted(read')
  <2>5. written' = Append(written, w)
    BY <1>5 DEF Convert
  <2>6. w.doc = doc /\ w.text = sb'
    OBVIOUS
  <2> HIDE DEF w
  <2>7. /\ IsSequence(written') /\ Len(written') = Len(written) + 1
        /\ \A i \in 1 .. Len(written) : written'[i] = written[i]
        /\ written'[Len(written) + 1] = w
    BY <1>1, <2>5, AppendIs
  <2>8. /\ C \subseteq 1 .. N /\ IsFiniteSet(C) /\ C2 = C \union {N + 1}
        /\ \A i \in C : read'[i] = read[i]
        /\ read'[N + 1] = doc
    BY <1>1, <2>1, ConvertedIs, AppendIs
  <2>9. Len(written) = Cardinality(C)
    BY <1>1 DEF WrittenInOrder
  <2>10. \A i \in C : i \in Nat /\ i <= N /\ i # N + 1
    BY <1>1, <2>8
  <2>11. Cardinality(C2) = Cardinality(C) + 1 /\ IsFiniteSet(C2)
    <3>1. N + 1 \notin C
      BY <2>10
    <3> QED BY <2>8, <3>1, FS_AddElement
  <2> HIDE DEF N, C, C2
  <2>12. ASSUME NEW i \in C
         PROVE  LET k == Cardinality({j \in C2 : j <= i})
                IN  /\ written'[k].doc = read'[i]
                    /\ \E b \in DoubleTexts(read'[i].number) :
                          written'[k].text = Line(read'[i].path, b)
    <3> DEFINE k == Cardinality({j \in C : j <= i})
    <3>1. {j \in C2 : j <= i} = {j \in C : j <= i}
      <4>1. ~(N + 1 <= i)
        BY <1>1, <2>10 DEF N
      <4> QED BY <2>8, <4>1
    <3>2. k \in 1 .. Len(written)
      <4>1. C \subseteq Nat
        BY <2>10
      <4> QED BY <2>8, <2>9, <4>1, Ranks
    <3>3. /\ written[k].doc = read[i]
          /\ \E b \in DoubleTexts(read[i].number) : written[k].text = Line(read[i].path, b)
      BY <1>1 DEF WrittenInOrder, C
    <3>4. Cardinality({j \in C2 : j <= i}) = k
      BY <3>1
    <3> HIDE DEF k
    <3> QED BY <2>7, <2>8, <3>2, <3>3, <3>4
  <2>13. Cardinality({j \in C2 : j <= N + 1}) = Len(written) + 1
    <3>1. \A j \in C2 : j <= N + 1
      BY <1>1, <2>8, <2>10 DEF N
    <3>2. {j \in C2 : j <= N + 1} = C2
      BY <3>1
    <3> QED BY <2>9, <2>11, <3>2
  <2>14. WrittenInOrder'
    <3>1. ASSUME NEW i \in C2
          PROVE  LET k == Cardinality({j \in C2 : j <= i})
                 IN  /\ written'[k].doc = read'[i]
                     /\ \E b \in DoubleTexts(read'[i].number) :
                           written'[k].text = Line(read'[i].path, b)
      <4>1. CASE i \in C
        BY <2>12, <4>1
      <4>2. CASE i = N + 1
        <5>1. /\ written'[Len(written) + 1].doc = read'[N + 1]
              /\ written'[Len(written) + 1].text = Line(read'[N + 1].path, body)
              /\ body \in DoubleTexts(read'[N + 1].number)
          BY <2>3, <2>4, <2>6, <2>7, <2>8
        <5> QED BY <2>13, <4>2, <5>1
      <4> QED BY <2>8, <4>1, <4>2
    <3>2. Len(written') = Cardinality(C2)
      BY <2>7, <2>9, <2>11
    <3> QED BY <3>1, <3>2 DEF WrittenInOrder, C2
  <2>15. \A i \in 1 .. Len(written') : Len(written'[i].text) \in Nat
    <3>1. \A i \in 1 .. Len(written') : i \in 1 .. Len(written) \/ i = Len(written) + 1
      BY <1>1, <2>7
    <3> QED BY <1>1, <2>4, <2>6, <2>7, <3>1
  <2>16. ReadInv'
    <3>1. \A n \in Counter : AmountIn(scenario, n, doc) \in Nat
      BY <2>1, <2>2, AmountOfConverted
    <3> QED BY <1>3, <2>1, <3>1 DEF Fate
  <2> QED BY <2>7, <2>14, <2>15, <2>16 DEF WrittenInv
<1>6. ASSUME NEW fate, Reading(fate)
      PROVE  /\ pc = "read" /\ doc.fate = fate /\ UNCHANGED <<scenario, told>>
             /\ IsRecord(doc)
             /\ doc.counts \subseteq Range(LoggerMetrics["cache"])
                                        \union Range(LoggerMetrics["record"])
  BY <1>6, ReadingOn DEF Reading, IsRecord
<1>7. CASE Refuse
  <2>1. Reading("refused") /\ read' = Append(read, doc) /\ UNCHANGED written
    BY <1>7 DEF Refuse
  <2> QED BY <1>4, <1>6, <2>1 DEF Fate
<1>8. CASE Throw
  <2>1. Reading("throws") /\ read' = Append(read, doc) /\ UNCHANGED written
    BY <1>8 DEF Throw
  <2> QED BY <1>4, <1>6, <2>1 DEF Fate
<1>9. ASSUME NEW elapsed, NEW size, Reading("end"), read' = Ended(elapsed, size),
             UNCHANGED written
      PROVE  ReadInv' /\ WrittenInv'
  <2> DEFINE r == [fate |-> "end", counts |-> doc.counts, elapsed |-> elapsed,
                   size |-> size]
  <2>1. read' = Append(read, r) /\ r.fate = "end" /\ r.counts = doc.counts
    BY <1>9 DEF Ended
  <2> HIDE DEF r
  <2> QED BY <1>4, <1>6, <1>9, <2>1 DEF Fate
<1>10. ASSUME NEW elapsed \in 0 .. 1, Finish(elapsed)
       PROVE  ReadInv' /\ WrittenInv'
  BY <1>9, <1>10 DEF Finish
<1>11. ASSUME NEW elapsed \in 0 .. 1, FileSizeThrows(elapsed)
       PROVE  ReadInv' /\ WrittenInv'
  BY <1>9, <1>11 DEF FileSizeThrows
<1>12. ASSUME NEW from, NEW to, Go(from, to), told' = told \/ told' = Len(read)
       PROVE  ReadInv' /\ WrittenInv'
  <2>1. UNCHANGED <<scenario, read, written>> /\ told' \in 0 .. Len(read)
    BY <1>1, <1>12 DEF Go
  <2> QED BY <1>2, <2>1
<1>13. CASE Configure \/ ConfigureThrows \/ Begin \/ Crash \/ UNCHANGED vars
  <2>1. UNCHANGED <<scenario, read, written>> /\ told' \in 0 .. Len(read)
    BY <1>1, <1>13 DEF Configure, ConfigureThrows, Begin, Crash, vars, observations
  <2> QED BY <1>2, <2>1
<1>14. CASE RemoveFile
  BY <1>12, <1>14 DEF RemoveFile
<1>15. CASE RemoveFileThrows
  BY <1>12, <1>15 DEF RemoveFileThrows
<1>16. CASE Roll
  BY <1>12, <1>16 DEF Roll
<1>17. CASE Reopen
  BY <1>12, <1>17 DEF Reopen
<1>18. ASSUME NEW k \in 0 .. Len(buffer), NEW opens \in BOOLEAN, ReopenFails(k, opens)
       PROVE  ReadInv' /\ WrittenInv'
  BY <1>12, <1>18 DEF ReopenFails
<1>19. CASE ReportCache
  BY <1>12, <1>19 DEF ReportCache
<1>20. CASE ReportRecord
  BY <1>12, <1>20 DEF ReportRecord
<1>21. CASE ReportSchema
  BY <1>12, <1>21 DEF ReportSchema
<1>22. CASE ReportConverter
  BY <1>12, <1>22 DEF ReportConverter
<1>23. CASE FlushLog
  BY <1>12, <1>23 DEF FlushLog
<1>24. ASSUME NEW k \in 0 .. Len(buffer), FlushLogFails(k)
       PROVE  ReadInv' /\ WrittenInv'
  BY <1>12, <1>24 DEF FlushLogFails
<1>25. ASSUME NEW k \in 0 .. Len(buffer), Exit(k)
       PROVE  ReadInv' /\ WrittenInv'
  BY <1>12, <1>25 DEF Exit
<1> QED
  BY <1>5, <1>7, <1>8, <1>10, <1>11, <1>13, <1>14, <1>15, <1>16, <1>17, <1>18, <1>19,
     <1>20, <1>21, <1>22, <1>23, <1>24, <1>25 DEF Next

-----------------------------------------------------------------------------
(***************************************************************************)
(* The log.                                                                *)
(***************************************************************************)

LEMMA NewLogMessageTidy == Tidy(NewLogMessage)
  <1>1. Tidy(NewMessage)
    <2>1. /\ {"elements", "size"} \subseteq DOMAIN NewMessage
          /\ NewMessage.elements = <<>> /\ NewMessage.size = 0
      BY DEF NewMessage
    <2> QED BY <2>1, EmptySequence DEF Tidy
  <1> DEFINE a == Set(NewMessage, "type", "telemetry")
             b == Set(a, "pid", Pid)
  <1>2. Tidy(a)
    BY <1>1, SetTidy, Zenon
  <1> HIDE DEF a
  <1>3. Tidy(b)
    BY <1>2, SetTidy
  <1>4. NewLogMessage = Set(b, "hostname", Hostname)
    BY DEF NewLogMessage, a
  <1> HIDE DEF b
  <1> QED BY <1>3, <1>4, SetTidy

LEMMA NoMetricsTyped == NoMetrics \in [MetricName -> Nat]
  BY DEF NoMetrics

LEMMA InitLog == Init => LogInv /\ StreamInv
  <1> SUFFICES ASSUME Init PROVE LogInv /\ StreamInv
    OBVIOUS
  <1>1. /\ metrics = NoMetrics /\ msg = NewLogMessage /\ uuids = 0
        /\ ofs = "closed" /\ buffer = <<>> /\ log = <<>> /\ pc = "start"
    BY DEF Init, LogInit
  <1>2. LogInv
    BY <1>1, NewLogMessageTidy, NoMetricsTyped, EmptySequence DEF LogInv
  <1>3. StreamInv
    BY <1>1 DEF StreamInv, Reporting
  <1> QED BY <1>2, <1>3

LEMMA IsSentLater ==
  ASSUME NEW m, NEW a \in Nat, NEW b \in Nat, a <= b, IsSent(m, a)
  PROVE  IsSent(m, b)
  BY DEF IsSent

\* What a write puts behind the messages in the file.
LEMMA WritesIs ==
  ASSUME LogInv, NEW k \in 0 .. Len(buffer), Writes(k)
  PROVE  /\ Len(log) \in Nat /\ k \in Nat
         /\ IsSequence(log') /\ Len(log') = Len(log) + k
         /\ \A i \in 1 .. Len(log) : log'[i] = log[i]
         /\ \A i \in 1 .. k : log'[Len(log) + i] = buffer[i]
         /\ \A i \in 1 .. Len(log') : IsSent(log'[i], uuids)
  <1> DEFINE p == SubSeq(buffer, 1, k)
  <1>1. /\ Len(log) \in Nat /\ Len(buffer) \in Nat /\ k \in Nat
        /\ IsSequence(log) /\ IsSequence(buffer)
    BY DEF LogInv, IsSequence
  <1>2. IsSequence(p) /\ Len(p) = k /\ \A i \in 1 .. k : p[i] = buffer[i]
    BY <1>1, PrefixIs
  <1>3. log' = log \o p
    BY DEF Writes
  <1> HIDE DEF p
  <1>4. /\ IsSequence(log') /\ Len(log') = Len(log) + k
        /\ \A i \in 1 .. Len(log) : log'[i] = log[i]
        /\ \A i \in 1 .. k : log'[Len(log) + i] = buffer[i]
    <2> DEFINE s == log
    <2>1. IsSequence(s)
      BY <1>1
    <2> HIDE DEF s
    <2>2. /\ IsSequence(s \o p) /\ Len(s \o p) = Len(s) + Len(p)
          /\ \A i \in 1 .. Len(s) : (s \o p)[i] = s[i]
          /\ \A i \in 1 .. Len(p) : (s \o p)[Len(s) + i] = p[i]
      BY <1>2, <2>1, CatIs
    <2> QED BY <1>2, <1>3, <2>2 DEF s
  <1>5. ASSUME NEW i \in 1 .. Len(log')
        PROVE  IsSent(log'[i], uuids)
    <2>1. CASE i \in 1 .. Len(log)
      BY <1>4, <2>1 DEF LogInv
    <2>2. CASE i \notin 1 .. Len(log)
      <3> DEFINE j == i - Len(log)
      <3>1. j \in 1 .. k /\ j \in 1 .. Len(buffer) /\ i = Len(log) + j
        BY <1>1, <1>4, <2>2
      <3> HIDE DEF j
      <3>2. log'[i] = buffer[j] /\ IsSent(buffer[j], uuids)
        BY <1>4, <3>1 DEF LogInv
      <3> QED BY <3>2
    <2> QED BY <2>1, <2>2
  <1> QED BY <1>1, <1>4, <1>5

LEMMA StampIs ==
  ASSUME LogInv, NEW payload, Stamp(payload)
  PROVE  /\ uuids' = uuids + 1 /\ uuids' \in Nat /\ uuids' > 0
         /\ Tidy(msg') /\ "uuid" \in DOMAIN msg' /\ msg'.uuid = <<uuids'>>
  <1> DEFINE u == <<uuids'>>
             t == 100 * uuids'
             a == Set(msg, "uuid", u)
             b == Set(a, "timestamp", t)
             c == Set(b, "payload", payload)
  <1>1. uuids' = uuids + 1 /\ uuids' \in Nat /\ uuids' > 0 /\ Tidy(msg)
    BY DEF Stamp, LogInv
  <1>2. msg' = c
    BY DEF Stamp
  <1> HIDE DEF u, t
  <1>3. /\ "uuid" \in DOMAIN a /\ a.uuid = u
        /\ "uuid" \in DOMAIN b /\ b.uuid = u
        /\ "uuid" \in DOMAIN c /\ c.uuid = u
    BY DEF Set
  <1>4. Tidy(a)
    BY <1>1, SetTidy
  <1> HIDE DEF a
  <1>5. Tidy(b)
    BY <1>4, SetTidy
  <1> HIDE DEF b
  <1>6. Tidy(c)
    BY <1>5, SetTidy
  <1> HIDE DEF c
  <1> QED BY <1>1, <1>2, <1>3, <1>6 DEF u

LEMMA LoggersMetrics ==
  ASSUME NEW l \in Range(Loggers), metrics \in [MetricName -> Nat]
  PROVE  Reset(l) \in [MetricName -> Nat]
  BY DEF Reset

\* What a component hands to the stream.
LEMMA ReportMade ==
  ASSUME LogInv, NEW l \in Range(Loggers),
         uuids > 0, "uuid" \in DOMAIN msg, msg.uuid = <<uuids>>
  PROVE  LET g == GetMetrics(Set(msg, "logger", l), l)
         IN  /\ Tidy(g) /\ "uuid" \in DOMAIN g /\ g.uuid = <<uuids>>
             /\ Sent(g).uuid = <<uuids>> /\ Sent(g).logger = l
             /\ IsSent(Sent(g), uuids)
             /\ \A n : Reported(Sent(g), n) =
                          IF n \in Range(LoggerMetrics[l]) THEN metrics[n] ELSE 0
  <1> DEFINE u == <<uuids>>
             m == Set(msg, "logger", l)
             g == GetMetrics(m, l)
             s == Sent(g)
  <1>1. /\ Tidy(msg) /\ metrics \in [MetricName -> Nat] /\ uuids \in Nat
        /\ msg.uuid = u
    BY DEF LogInv
  <1> HIDE DEF u
  <1>2. /\ Tidy(m) /\ "uuid" \in DOMAIN m /\ m.uuid = u
        /\ "logger" \in DOMAIN m /\ m.logger = l
    <2>1. Tidy(m)
      BY <1>1, SetTidy
    <2>2. /\ "uuid" \in DOMAIN m /\ m.uuid = u
          /\ "logger" \in DOMAIN m /\ m.logger = l
      BY <1>1 DEF Set
    <2> QED BY <2>1, <2>2
  <1> HIDE DEF m
  <1>3. Tidy(g) /\ SameHeading(m, g)
    BY <1>2, GetMetricsIs
  <1>4. \A n : Reported(s, n) = IF n \in Range(LoggerMetrics[l]) THEN metrics[n] ELSE 0
    BY <1>2, ReportedIs
  <1> HIDE DEF g
  <1>5. /\ "uuid" \in DOMAIN g /\ g.uuid = u
        /\ "logger" \in DOMAIN g /\ g.logger = l
    BY <1>2, <1>3 DEF SameHeading
  <1>6. s.uuid = u /\ s.logger = l
    BY <1>3, <1>5, SentIs
  <1> HIDE DEF s
  <1>7. \A n \in Counter : Reported(s, n) \in Nat
    <2> SUFFICES ASSUME NEW n \in Counter PROVE Reported(s, n) \in Nat
      OBVIOUS
    <2>1. metrics[n] \in Nat
      BY <1>1, CountersAre
    <2>2. Reported(s, n) = metrics[n] \/ Reported(s, n) = 0
      BY <1>4
    <2> QED BY <2>1, <2>2
  <1>8. IsSent(s, uuids)
    <2>1. uuids \in 1 .. uuids
      BY <1>1
    <2> QED BY <1>6, <1>7, <2>1 DEF IsSent, u
  <1> QED BY <1>3, <1>4, <1>5, <1>6, <1>8 DEF g, m, s, u

\* Reading and converting add to the metrics.
LEMMA MetricsTyped ==
  ASSUME ProcessInv, LogInv,
         \/ Convert \/ Refuse \/ Throw
         \/ \E elapsed \in 0 .. 1 : Finish(elapsed) \/ FileSizeThrows(elapsed)
  PROVE  /\ metrics' \in [MetricName -> Nat]
         /\ pc = "read" /\ pc' \in {"read", "top", "remove", "roll"}
         /\ UNCHANGED <<msg, uuids, ofs, buffer, log>>
  <1>1. metrics \in [MetricName -> Nat] /\ \A b : One(b) \in Nat
    BY DEF LogInv, One
  <1>2. CASE Convert
    <2> DEFINE p == GetDimensionPath(dimensions, doc.info)
    <2>1. pc = "read" /\ doc.fate = "converted" /\ UNCHANGED pc
             /\ UNCHANGED <<msg, uuids, ofs, buffer, log>>
      BY <1>2 DEF Convert, Reading
    <2>2. IsRecord(doc) /\ scenario \in Scenarios /\ SchemaLoaded
      BY <2>1, ReadingOn DEF ProcessInv
    <2>3. p.invalidString \in Nat /\ p.invalidNumeric \in Nat
      BY <2>2, MismatchesCounted
    <2>4. Len(sb') \in Nat
      <3>1. PICK body \in DoubleTexts(doc.number) : sb' = Clear(sb) \o Line(doc.path, body)
        BY <1>2 DEF Convert
      <3> QED BY <2>1, <2>2, <3>1, LineOfRecord
    <2>5. metrics' = [n \in MetricName |-> metrics[n] +
                        CASE n = "Invalid String Dimension" -> p.invalidString
                          [] n = "Invalid Numeric Dimension" -> p.invalidNumeric
                          [] n = "Data Out" -> Len(sb')
                          [] OTHER -> One(n = "Records Processed" \/ n \in doc.counts)]
      BY <1>2 DEF Convert, Add
    <2> HIDE DEF p
    <2>6. ASSUME NEW n \in MetricName
          PROVE  metrics[n] +
                   (CASE n = "Invalid String Dimension" -> p.invalidString
                      [] n = "Invalid Numeric Dimension" -> p.invalidNumeric
                      [] n = "Data Out" -> Len(sb')
                      [] OTHER -> One(n = "Records Processed" \/ n \in doc.counts)) \in Nat
      <3> DEFINE o == One(n = "Records Processed" \/ n \in doc.counts)
                 l == Len(sb')
                 v == CASE n = "Invalid String Dimension" -> p.invalidString
                        [] n = "Invalid Numeric Dimension" -> p.invalidNumeric
                        [] n = "Data Out" -> l
                        [] OTHER -> o
      <3>1. o \in Nat /\ l \in Nat
        BY <2>4 DEF One
      <3> HIDE DEF o, l
      <3>2. v \in Nat
        BY <2>3, <3>1
      <3>3. metrics[n] + v \in Nat
        <4> HIDE DEF v
        <4> QED BY <1>1, <3>2
      <3> QED BY <3>3 DEF o, l
    <2> QED BY <2>1, <2>5, <2>6
  <1>3. CASE Refuse
    <2>1. metrics' = [n \in MetricName |-> metrics[n] +
              One(n \in {"Records Processed", "Records Discarded"} \union doc.counts)]
      BY <1>3 DEF Refuse, Add
    <2>2. ASSUME NEW n \in MetricName
          PROVE  metrics[n] +
                   One(n \in {"Records Processed", "Records Discarded"}
                                \union doc.counts) \in Nat
      <3> DEFINE o == One(n \in {"Records Processed", "Records Discarded"}
                                 \union doc.counts)
      <3>1. o \in Nat
        BY DEF One
      <3> HIDE DEF o
      <3>2. metrics[n] + o \in Nat
        BY <1>1, <3>1
      <3> QED BY <3>2 DEF o
    <2>3. metrics' \in [MetricName -> Nat]
      BY <2>1, <2>2
    <2> QED BY <1>3, <2>3 DEF Refuse, Reading
  <1>4. CASE Throw
    BY <1>1, <1>4 DEF Throw, Reading, Return, Add, One
  <1>5. ASSUME NEW elapsed \in 0 .. 1, Finish(elapsed)
        PROVE  /\ metrics' \in [MetricName -> Nat]
               /\ pc = "read" /\ pc' \in {"read", "top", "remove", "roll"}
               /\ UNCHANGED <<msg, uuids, ofs, buffer, log>>
    <2>1. file.size \in Nat /\ (elapsed > 0 => file.size \div elapsed \in Nat)
      BY DEF ProcessInv
    <2>2. metrics' = [n \in MetricName |->
                      CASE n = "Processing Time" -> elapsed
                        [] n = "Data In" -> file.size
                        [] n = "Throughput" /\ elapsed > 0 -> file.size \div elapsed
                        [] OTHER -> metrics[n] + One(n \in doc.counts)]
      BY <1>5 DEF Finish
    <2>3. metrics' \in [MetricName -> Nat]
      <3> DEFINE q == file.size \div elapsed
      <3>1. metrics' = [n \in MetricName |->
                      CASE n = "Processing Time" -> elapsed
                        [] n = "Data In" -> file.size
                        [] n = "Throughput" /\ elapsed > 0 -> q
                        [] OTHER -> metrics[n] + One(n \in doc.counts)]
        BY <2>2
      <3>2. elapsed > 0 => q \in Nat
        BY <2>1
      <3> HIDE DEF q
      <3>3. ASSUME NEW n \in MetricName
            PROVE  (CASE n = "Processing Time" -> elapsed
                      [] n = "Data In" -> file.size
                      [] n = "Throughput" /\ elapsed > 0 -> q
                      [] OTHER -> metrics[n] + One(n \in doc.counts)) \in Nat
        <4> DEFINE e == elapsed
                   fs == file.size
                   o == metrics[n] + One(n \in doc.counts)
        <4>1. e \in Nat /\ fs \in Nat /\ o \in Nat /\ (e > 0 => q \in Nat)
          BY <1>1, <2>1, <3>2 DEF One
        <4> HIDE DEF e, fs, o
        <4>2. (CASE n = "Processing Time" -> e
                 [] n = "Data In" -> fs
                 [] n = "Throughput" /\ e > 0 -> q
                 [] OTHER -> o) \in Nat
          BY <4>1
        <4> QED BY <4>2 DEF e, fs, o
      <3> QED BY <3>1, <3>3
    <2> QED BY <1>5, <2>3 DEF Finish, Reading, Return
  <1>6. ASSUME NEW elapsed \in 0 .. 1, FileSizeThrows(elapsed)
        PROVE  /\ metrics' \in [MetricName -> Nat]
               /\ pc = "read" /\ pc' \in {"read", "top", "remove", "roll"}
               /\ UNCHANGED <<msg, uuids, ofs, buffer, log>>
    <2>1. metrics' = [n \in MetricName |->
                        IF n = "Processing Time" THEN elapsed
                        ELSE metrics[n] + One(n \in doc.counts)]
      BY <1>6 DEF FileSizeThrows
    <2>2. \A n \in MetricName : metrics[n] + One(n \in doc.counts) \in Nat
      BY <1>1 DEF One
    <2>3. metrics' \in [MetricName -> Nat]
      <3>1. elapsed \in Nat
        OBVIOUS
      <3> QED BY <2>1, <2>2, <3>1
    <2> QED BY <1>6, <2>3 DEF FileSizeThrows, Reading, Return
  <1> QED BY <1>2, <1>3, <1>4, <1>5, <1>6

\* What the stream is told apart by, and what is left when it is closed.
LEMMA StreamOpened ==
  ASSUME LogInv, NEW k \in 0 .. Len(buffer), Writes(k), buffer' = <<>>,
         NEW payload, Stamp(payload), UNCHANGED metrics
  PROVE  /\ LogInv' /\ Len(buffer') = 0
         /\ uuids' > 0 /\ "uuid" \in DOMAIN msg' /\ msg'.uuid = <<uuids'>>
         /\ \A i \in 1 .. Len(log') : log'[i].uuid # <<uuids'>>
  <1>1. /\ IsSequence(log')
        /\ \A i \in 1 .. Len(log') : IsSent(log'[i], uuids)
    BY WritesIs
  <1>2. /\ uuids' = uuids + 1 /\ uuids' \in Nat /\ uuids' > 0 /\ uuids \in Nat
        /\ Tidy(msg') /\ "uuid" \in DOMAIN msg' /\ msg'.uuid = <<uuids'>>
    BY StampIs DEF LogInv
  <1>3. \A i \in 1 .. Len(log') : IsSent(log'[i], uuids')
    BY <1>1, <1>2, IsSentLater
  <1>4. LogInv'
    BY <1>1, <1>2, <1>3, EmptySequence DEF LogInv
  <1>5. \A i \in 1 .. Len(log') : log'[i].uuid # <<uuids'>>
    BY <1>1, <1>2 DEF IsSent
  <1> QED BY <1>2, <1>4, <1>5, EmptySequence

LEMMA LogKept ==
  ASSUME ProcessInv, LogInv, StreamInv, [Next]_vars
  PROVE  LogInv' /\ StreamInv'
<1>1. /\ IsSequence(log) /\ IsSequence(buffer) /\ Len(buffer) \in Nat
      /\ metrics \in [MetricName -> Nat] /\ uuids \in Nat /\ Tidy(msg)
  BY DEF LogInv, IsSequence
<1>2. ASSUME UNCHANGED logVars, pc' \notin {"cache", "record", "schema",
             "converter", "flush"}, ofs = "open" => ~Reporting \/ Len(buffer) = 0
      PROVE  LogInv' /\ StreamInv'
  <2>1. LogInv'
    BY <1>2 DEF LogInv, logVars
  <2>2. ofs = "open" => buffer = <<>>
    BY <1>1, <1>2, IsEmpty DEF StreamInv
  <2> QED BY <1>2, <2>1, <2>2 DEF StreamInv, Reporting, logVars
<1>3. CASE Configure \/ ConfigureThrows \/ Begin
  BY <1>2, <1>3 DEF Configure, ConfigureThrows, Begin, Reporting
<1>4. CASE RemoveFile \/ RemoveFileThrows
  BY <1>2, <1>4 DEF RemoveFile, RemoveFileThrows, Go, Reporting
<1>5. CASE Convert \/ Refuse \/ Throw
            \/ \E elapsed \in 0 .. 1 : Finish(elapsed) \/ FileSizeThrows(elapsed)
  <2>1. /\ metrics' \in [MetricName -> Nat]
        /\ pc = "read" /\ pc' \in {"read", "top", "remove", "roll"}
        /\ UNCHANGED <<msg, uuids, ofs, buffer, log>>
    BY <1>5, MetricsTyped
  <2>2. LogInv'
    BY <2>1 DEF LogInv
  <2> QED BY <2>1, <2>2 DEF StreamInv, Reporting
<1>6. CASE Roll
  <2>1. /\ ofs = "open" /\ UNCHANGED <<ofs, buffer, log, metrics>> /\ Stamp(file.name)
        /\ pc = "roll" /\ pc' = "cache"
    BY <1>6 DEF Roll, LogIsOpen, Go
  <2>2. buffer = <<>> /\ Len(buffer) = 0
    BY <2>1, EmptySequence DEF StreamInv, Reporting
  <2>3. 0 \in 0 .. Len(buffer)
    BY <2>2
  <2>4. Writes(0)
    <3> DEFINE p == SubSeq(buffer, 1, 0)
    <3>1. log \o <<>> = log
      <4>1. log \in Seq({log[i] : i \in 1 .. Len(log)})
        BY <1>1, SequenceIn
      <4> DEFINE S == {log[i] : i \in 1 .. Len(log)}
      <4>2. log \in Seq(S)
        BY <4>1
      <4> HIDE DEF S
      <4> QED BY <4>2
    <3>2. p = <<>>
      <4>1. IsSequence(p) /\ Len(p) = 0
        BY <1>1, <2>3, PrefixIs
      <4> QED BY <4>1, IsEmpty
    <3> HIDE DEF p
    <3>3. log' = log \o p
      BY <2>1, <3>1, <3>2
    <3> QED BY <3>3 DEF Writes, p
  <2>5. /\ LogInv' /\ Len(buffer') = 0
        /\ uuids' > 0 /\ "uuid" \in DOMAIN msg' /\ msg'.uuid = <<uuids'>>
        /\ \A i \in 1 .. Len(log') : log'[i].uuid # <<uuids'>>
    BY <2>1, <2>2, <2>3, <2>4, StreamOpened
  <2>6. StreamInv'
    BY <2>1, <2>2, <2>5 DEF StreamInv, Reporting, Stage
  <2> QED BY <2>5, <2>6
<1>7. ASSUME NEW k, NEW opens \in BOOLEAN, Go("roll", "cache"), RollLog(k, opens),
             Stamp(file.name), UNCHANGED metrics
      PROVE  LogInv' /\ StreamInv'
  <2>1. /\ k \in 0 .. Len(buffer) /\ Writes(k) /\ buffer' = <<>>
        /\ ofs' \in {"open", "failed"} /\ pc' = "cache"
    BY <1>7 DEF RollLog, Go
  <2>2. /\ LogInv' /\ Len(buffer') = 0
        /\ uuids' > 0 /\ "uuid" \in DOMAIN msg' /\ msg'.uuid = <<uuids'>>
        /\ \A i \in 1 .. Len(log') : log'[i].uuid # <<uuids'>>
    BY <1>7, <2>1, StreamOpened
  <2>3. StreamInv'
    BY <2>1, <2>2 DEF StreamInv, Reporting, Stage
  <2> QED BY <2>2, <2>3
<1>8. CASE Reopen
  <2>1. Go("roll", "cache") /\ RollLog(Len(buffer), TRUE) /\ Stamp(file.name)
          /\ UNCHANGED metrics
    BY <1>8 DEF Reopen
  <2> QED BY <1>7, <2>1
<1>9. ASSUME NEW k \in 0 .. Len(buffer), NEW opens \in BOOLEAN, ReopenFails(k, opens)
      PROVE  LogInv' /\ StreamInv'
  <2>1. Go("roll", "cache") /\ RollLog(k, opens) /\ Stamp(file.name)
          /\ UNCHANGED metrics
    BY <1>9 DEF ReopenFails
  <2> QED BY <1>7, <2>1
<1>10. ASSUME NEW l, Report(l), Reporting, pc # "flush", l = Loggers[Stage + 1],
              Reporting', Stage' = Stage + 1
       PROVE  LogInv' /\ StreamInv'
  <2> DEFINE i == Stage
             g == GetMetrics(Set(msg, "logger", l), l)
             s == Sent(g)
  <2>1. i \in 0 .. 3 /\ l \in Range(Loggers)
    <3>1. i \in 0 .. 3
      BY <1>10 DEF Reporting, Stage
    <3>2. \A j \in 1 .. 4 : Loggers[j] \in Range(Loggers)
      BY LoggersAre DEF Range, Loggers
    <3>3. i + 1 \in 1 .. 4
      BY <3>1
    <3> QED BY <1>10, <3>1, <3>2, <3>3
  <2>2. /\ ofs \in {"open", "failed"} /\ uuids > 0
        /\ "uuid" \in DOMAIN msg /\ msg.uuid = <<uuids>>
        /\ \A j \in 1 .. Len(log) : log[j].uuid # <<uuids>>
        /\ ofs = "open" => Len(buffer) = i
        /\ ofs = "failed" => buffer = <<>>
    BY <1>10 DEF StreamInv
  <2>3. /\ msg' = g /\ metrics' = Reset(l)
        /\ buffer' = IF ofs = "open" THEN Append(buffer, s) ELSE buffer
        /\ UNCHANGED <<uuids, ofs, log>>
    BY <1>10 DEF Report
  <2>4. /\ Tidy(g) /\ "uuid" \in DOMAIN g /\ g.uuid = <<uuids>>
        /\ s.logger = l /\ IsSent(s, uuids)
    <3>1. LET h == GetMetrics(Set(msg, "logger", l), l)
          IN  /\ Tidy(h) /\ "uuid" \in DOMAIN h /\ h.uuid = <<uuids>>
              /\ Sent(h).uuid = <<uuids>> /\ Sent(h).logger = l
              /\ IsSent(Sent(h), uuids)
              /\ \A n : Reported(Sent(h), n) =
                           IF n \in Range(LoggerMetrics[l]) THEN metrics[n] ELSE 0
      BY <2>1, <2>2, ReportMade
    <3> QED BY <3>1
  <2> HIDE DEF g, s
  <2>5. metrics' \in [MetricName -> Nat]
    BY <1>1, <2>1, <2>3, LoggersMetrics
  <2>6. ofs = "open" => /\ IsSequence(buffer') /\ Len(buffer') = i + 1
                        /\ \A j \in 1 .. i : buffer'[j] = buffer[j]
                        /\ buffer'[i + 1] = s
    BY <1>1, <2>2, <2>3, AppendIs
  <2> HIDE DEF i
  <2>7. ofs = "open" => \A j \in 1 .. Len(buffer') :
                           IsSent(buffer'[j], uuids) /\ buffer'[j].logger = Loggers[j]
    <3>1. \A j \in 1 .. i + 1 : j \in 1 .. i \/ j = i + 1
      BY <2>1
    <3>2. l = Loggers[i + 1]
      BY <1>10 DEF i
    <3> QED BY <2>2, <2>4, <2>6, <3>1, <3>2 DEF LogInv
  <2>8. LogInv'
    <3>1. CASE ofs = "open"
      BY <1>1, <2>1, <2>3, <2>4, <2>5, <2>6, <2>7, <3>1 DEF LogInv
    <3>2. CASE ofs = "failed"
      BY <1>1, <2>3, <2>4, <2>5, <3>2 DEF LogInv
    <3> QED BY <2>2, <3>1, <3>2
  <2>9. StreamInv'
    BY <1>10, <2>2, <2>3, <2>4, <2>6 DEF StreamInv, i
  <2> QED BY <2>8, <2>9
<1>11. /\ Loggers[0 + 1] = "cache" /\ Loggers[1 + 1] = "record"
       /\ Loggers[2 + 1] = "schema" /\ Loggers[3 + 1] = "converter"
  BY DEF Loggers
<1>12. CASE ReportCache
  BY <1>10, <1>11, <1>12 DEF ReportCache, Go, Reporting, Stage
<1>13. CASE ReportRecord
  BY <1>10, <1>11, <1>13 DEF ReportRecord, Go, Reporting, Stage
<1>14. CASE ReportSchema
  BY <1>10, <1>11, <1>14 DEF ReportSchema, Go, Reporting, Stage
<1>15. CASE ReportConverter
  BY <1>10, <1>11, <1>15 DEF ReportConverter, Go, Reporting, Stage
<1>16. ASSUME NEW k \in 0 .. Len(buffer), Writes(k), UNCHANGED <<metrics, msg, uuids>>,
              buffer' \in {<<>>, buffer}
       PROVE  LogInv'
  <2>1. /\ IsSequence(log') /\ \A i \in 1 .. Len(log') : IsSent(log'[i], uuids)
    BY <1>16, WritesIs
  <2> QED BY <1>1, <1>16, <2>1, EmptySequence DEF LogInv
<1>17. CASE FlushLog
  <2>1. /\ Writes(IF ofs = "open" THEN Len(buffer) ELSE 0)
        /\ buffer' = IF ofs = "open" THEN <<>> ELSE buffer
        /\ UNCHANGED <<metrics, msg, uuids, ofs>> /\ pc = "flush" /\ pc' = "top"
    BY <1>17 DEF FlushLog, Flush, Go
  <2>2. (IF ofs = "open" THEN Len(buffer) ELSE 0) \in 0 .. Len(buffer)
    BY <1>1
  <2>3. LogInv'
    BY <1>16, <2>1, <2>2
  <2> QED BY <2>1, <2>3 DEF StreamInv, Reporting
<1>18. ASSUME NEW k \in 0 .. Len(buffer), FlushLogFails(k)
       PROVE  LogInv' /\ StreamInv'
  <2>1. /\ Writes(k) /\ ofs' = "bad" /\ UNCHANGED <<metrics, msg, uuids, buffer>>
        /\ pc' = "top"
    BY <1>18 DEF FlushLogFails, FlushFails, Go
  <2>2. LogInv'
    BY <1>16, <2>1
  <2> QED BY <2>1, <2>2 DEF StreamInv, Reporting
<1>19. ASSUME NEW k \in 0 .. Len(buffer), Exit(k)
       PROVE  LogInv' /\ StreamInv'
  <2>1. /\ Writes(k) /\ ofs' = "closed" /\ buffer' = <<>>
        /\ UNCHANGED <<metrics, msg, uuids>> /\ pc' = "done"
    BY <1>19 DEF Exit, Destroy, Go
  <2>2. LogInv'
    BY <1>16, <2>1
  <2> QED BY <2>1, <2>2 DEF StreamInv, Reporting
<1>20. CASE Crash
  <2>1. /\ metrics' = NoMetrics /\ msg' = NewLogMessage /\ ofs' = "closed"
        /\ buffer' = <<>> /\ UNCHANGED <<uuids, log>> /\ pc' = "start"
    BY <1>20 DEF Crash, LogCrash
  <2>2. LogInv'
    BY <1>1, <2>1, NoMetricsTyped, NewLogMessageTidy, EmptySequence DEF LogInv
  <2> QED BY <2>1, <2>2 DEF StreamInv, Reporting
<1>21. CASE UNCHANGED vars
  BY <1>21 DEF vars, logVars, LogInv, StreamInv, Reporting, Stage
<1> QED
  BY <1>3, <1>4, <1>5, <1>6, <1>8, <1>9, <1>12, <1>13, <1>14, <1>15, <1>17, <1>18,
     <1>19, <1>20, <1>21 DEF Next

-----------------------------------------------------------------------------
(***************************************************************************)
(* The theorems about types and about what is written.                     *)
(***************************************************************************)

FileInv == ProcessInv /\ ReadInv /\ WrittenInv /\ LogInv /\ StreamInv

LEMMA FileInvariant == Spec => []FileInv
  <1>1. Init => FileInv
    BY InitProcess, InitRead, InitLog DEF FileInv
  <1>2. FileInv /\ [Next]_vars => FileInv'
    BY ProcessKept, ReadKept, LogKept DEF FileInv
  <1> QED BY <1>1, <1>2, PTL DEF Spec

LEMMA InvariantTyped == FileInv => TypeOK
  <1> SUFFICES ASSUME FileInv PROVE TypeOK
    OBVIOUS
  <1>1. scenario \in Scenarios /\ pc \in Phase /\ faults \in 0 .. scenario.faults
    BY DEF FileInv, ProcessInv
  <1>2. made \subseteq {"input_directory", "storage_path", "log_path", "upload_path"}
    BY DEF FileInv, ProcessInv, Directories
  <1>3. /\ IsSequence(read) /\ told \in 0 .. Len(read)
        /\ \A i \in DOMAIN read : read[i].fate \in Fate
    BY SequenceDomain DEF FileInv, ReadInv
  <1>4. Len(written) <= Len(read)
    <2>1. Len(written) = Cardinality(Converted(read))
      BY DEF FileInv, WrittenInv, WrittenInOrder
    <2>2. Cardinality(Converted(read)) <= Len(read)
      BY <1>3, ConvertedIs
    <2> QED BY <2>1, <2>2
  <1>5. LogTypeOK
    <2>1. msg.size \in 0 .. 6 /\ Len(msg.elements) \in msg.size .. 6
      BY DEF FileInv, LogInv, Tidy, IsSequence
    <2>2. \A i \in DOMAIN log : log[i].logger \in Range(Loggers)
      BY SequenceDomain DEF FileInv, LogInv, IsSent
    <2>3. Len(buffer) <= Len(Loggers)
      BY LoggersAre DEF FileInv, LogInv
    <2> QED BY <2>1, <2>2, <2>3 DEF FileInv, LogInv, StreamInv, LogTypeOK
  <1> QED BY <1>1, <1>2, <1>3, <1>4, <1>5 DEF TypeOK

\* Whatever the scenario: the phases, the stream and its messages, the records
\* read and lines written, and the objects of the message that is used for
\* every report, of which there are never more than the six of the largest one
\* (Message::mutable_fields and clear_fields under Metric.cpp).
THEOREM ConverterTypeOK == Spec => []TypeOK
  BY FileInvariant, InvariantTyped, PTL

\* Each record that was read and could be converted is written once, in the
\* order of reading and under its own uuid, with nothing of another record in
\* its line (convert.cpp:184-197), whatever the files, the schema and the
\* numbers, through files that end in an exception and processes that are
\* killed.
THEOREM LinesInOrder == Spec => []WrittenInOrder
  <1>1. FileInv => WrittenInOrder
    BY DEF FileInv, WrittenInv
  <1> QED BY <1>1, FileInvariant, PTL

-----------------------------------------------------------------------------
(***************************************************************************)
(* The books, with what they are told from as parameters.                  *)
(***************************************************************************)

RecordsOf(s, n, records) ==
    SumFunction([i \in DOMAIN records |-> AmountIn(s, n, records[i])])

LinesOf(lines) == SumFunction([i \in 1 .. Len(lines) |-> Len(lines[i].text)])

CountedOf(s, n, records, lines) ==
    IF n = "Data Out" THEN LinesOf(lines) ELSE RecordsOf(s, n, records)

FiledOf(n, l) == Total(n, l, Once(l))

Waiting(b, l) == {i \in DOMAIN b : Id(b[i]) \notin Ids(l)}

UnsentOf(n, b, l) == Total(n, b, Waiting(b, l))

\* Messages that report an amount of n each.
AmountsOf(n, l) ==
    IsSequence(l) /\ \A i \in 1 .. Len(l) : Reported(l[i], n) \in Nat

LEMMA OnceIs ==
  ASSUME NEW l, IsSequence(l)
  PROVE  /\ Len(l) \in Nat /\ DOMAIN l = 1 .. Len(l)
         /\ Once(l) \subseteq 1 .. Len(l) /\ IsFiniteSet(Once(l))
         /\ \A b : Waiting(b, l) \subseteq DOMAIN b
  <1>1. Len(l) \in Nat /\ DOMAIN l = 1 .. Len(l)
    BY SequenceDomain DEF IsSequence
  <1>2. Once(l) \subseteq 1 .. Len(l)
    BY <1>1 DEF Once
  <1>3. IsFiniteSet(1 .. Len(l))
    BY <1>1, FS_Interval
  <1> QED BY <1>1, <1>2, <1>3, FS_Subset DEF Waiting

LEMMA TotalTyped ==
  ASSUME NEW n, NEW l, AmountsOf(n, l), NEW S, S \subseteq 1 .. Len(l)
  PROVE  Total(n, l, S) \in Nat /\ IsFiniteSet(S)
  <1> DEFINE f == [i \in DOMAIN l |-> Reported(l[i], n)]
  <1>1. Len(l) \in Nat /\ DOMAIN l = 1 .. Len(l)
    BY OnceIs DEF AmountsOf
  <1>2. IsFiniteSet(S)
    <2>1. IsFiniteSet(1 .. Len(l))
      BY <1>1, FS_Interval
    <2> QED BY <2>1, FS_Subset
  <1>3. \A i \in S : f[i] \in Nat
    BY <1>1 DEF AmountsOf
  <1>4. SumFunctionOnSet(f, S) \in Nat
    <2> HIDE DEF f
    <2> QED BY <1>2, <1>3, SumIsNat
  <1> QED BY <1>2, <1>4 DEF Total

LEMMA BooksTyped ==
  ASSUME NEW n, NEW l, AmountsOf(n, l), NEW b, AmountsOf(n, b)
  PROVE  FiledOf(n, l) \in Nat /\ UnsentOf(n, b, l) \in Nat
  <1>1. Once(l) \subseteq 1 .. Len(l) /\ Waiting(b, l) \subseteq 1 .. Len(b)
    BY OnceIs, SequenceDomain DEF AmountsOf
  <1> QED BY <1>1, TotalTyped DEF FiledOf, UnsentOf

LEMMA EmptyBooks ==
  ASSUME NEW n, NEW l
  PROVE  UnsentOf(n, <<>>, l) = 0 /\ FiledOf(n, <<>>) = 0
  <1>1. DOMAIN <<>> = {}
    BY EmptySequence, SequenceDomain
  <1>2. Waiting(<<>>, l) = {} /\ Once(<<>>) = {}
    BY <1>1 DEF Waiting, Once
  <1> QED BY <1>2, SumOfNone DEF UnsentOf, FiledOf, Total

\* l2 is l with the first k messages of b behind it.
Extended(l2, l, b, k) ==
    /\ IsSequence(l2) /\ Len(l2) = Len(l) + k
    /\ \A i \in 1 .. Len(l) : l2[i] = l[i]
    /\ \A i \in 1 .. k : l2[Len(l) + i] = b[i]

\* What a write moves from the stream to the file: the first k messages, those
\* of them that the file does not have yet.
LEMMA WriteMoves ==
  ASSUME NEW n, NEW l, AmountsOf(n, l), NEW b, AmountsOf(n, b),
         \A i, j \in 1 .. Len(b) : Id(b[i]) = Id(b[j]) => i = j,
         NEW k \in 0 .. Len(b), NEW l2, Extended(l2, l, b, k)
  PROVE  LET moved == Total(n, b, Waiting(b, l) \intersect (1 .. k))
         IN  /\ moved \in Nat
             /\ FiledOf(n, l2) = FiledOf(n, l) + moved
             /\ UnsentOf(n, b, l) = UnsentOf(n, b, l2) + moved
             /\ k = Len(b) => UnsentOf(n, b, l) = moved
  <1> DEFINE L == Len(l)
             W == Waiting(b, l)
             V == W \intersect (1 .. k)
             moved == Total(n, b, V)
             f == [i \in DOMAIN l |-> Reported(l[i], n)]
             f2 == [i \in DOMAIN l2 |-> Reported(l2[i], n)]
             g == [i \in DOMAIN b |-> Reported(b[i], n)]
             shifted == {L + i : i \in V}
  <1>1. /\ L \in Nat /\ DOMAIN l = 1 .. L
        /\ Len(b) \in Nat /\ DOMAIN b = 1 .. Len(b) /\ k \in Nat /\ k <= Len(b)
        /\ DOMAIN l2 = 1 .. L + k
        /\ Once(l) \subseteq 1 .. L /\ IsFiniteSet(Once(l))
    BY OnceIs DEF AmountsOf, Extended
  <1>2. /\ W \subseteq 1 .. Len(b) /\ V \subseteq 1 .. k
        /\ \A i \in 1 .. Len(b) : i \in W <=> \A j \in 1 .. L : Id(l[j]) # Id(b[i])
    BY <1>1 DEF Waiting, Ids
  <1>3. V \subseteq 1 .. Len(b) /\ V \subseteq Nat /\ moved \in Nat /\ IsFiniteSet(V)
    <2>1. V \subseteq 1 .. Len(b) /\ V \subseteq Nat
      BY <1>1, <1>2
    <2> HIDE DEF V
    <2> QED BY <2>1, TotalTyped
  <1>4. \A i \in 1 .. L + k : i \in 1 .. L \/ \E j \in 1 .. k : i = L + j
    <2> SUFFICES ASSUME NEW i \in 1 .. L + k, i \notin 1 .. L
                 PROVE  \E j \in 1 .. k : i = L + j
      OBVIOUS
    <2>1. i - L \in 1 .. k /\ i = L + (i - L)
      BY <1>1
    <2> QED BY <2>1
  <1>5. /\ \A i \in 1 .. L : i \in 1 .. L + k /\ l2[i] = l[i]
        /\ \A j \in 1 .. k : L + j \in 1 .. L + k /\ l2[L + j] = b[j]
                             /\ j \in 1 .. Len(b) /\ L + j \notin 1 .. L
    BY <1>1 DEF Extended
  <1>6. ASSUME NEW i \in 1 .. L
        PROVE  i \in Once(l2) <=> i \in Once(l)
    <2>1. \A j \in 1 .. i - 1 : j \in 1 .. L
      BY <1>1
    <2> QED BY <1>1, <1>5, <2>1 DEF Once
  <1>7. ASSUME NEW j \in 1 .. k
        PROVE  L + j \in Once(l2) <=> j \in V
    <2>1. L + j \in Once(l2) <=> \A m \in 1 .. L + j - 1 : Id(l2[m]) # Id(b[j])
      BY <1>1, <1>5 DEF Once
    <2>2. j \in V <=> \A m \in 1 .. L : Id(l2[m]) # Id(b[j])
      BY <1>2, <1>5
    <2>3. \A m \in 1 .. L : m \in 1 .. L + j - 1
      BY <1>1
    <2>4. ASSUME NEW m \in 1 .. L + j - 1, m \notin 1 .. L
          PROVE  Id(l2[m]) # Id(b[j])
      <3>1. m - L \in 1 .. k /\ m = L + (m - L) /\ m - L # j
        BY <1>1, <2>4
      <3>2. l2[m] = b[m - L] /\ m - L \in 1 .. Len(b) /\ j \in 1 .. Len(b)
        BY <1>5, <3>1
      <3> QED BY <3>1, <3>2
    <2> QED BY <2>1, <2>2, <2>3, <2>4
  <1>8. Once(l2) = Once(l) \union shifted
    <2>1. Once(l2) \subseteq 1 .. L + k
      BY <1>1 DEF Once
    <2>2. \A i \in Once(l2) : i \in Once(l) \/ \E j \in V : i = L + j
      BY <1>4, <1>6, <1>7, <2>1
    <2>3. \A i \in Once(l) : i \in Once(l2)
      BY <1>1, <1>6
    <2>4. \A j \in V : L + j \in Once(l2)
      BY <1>2, <1>7
    <2> QED BY <2>2, <2>3, <2>4
  <1>9. Once(l) \intersect shifted = {}
    BY <1>1, <1>2, <1>5
  <1>10. FiledOf(n, l2) = FiledOf(n, l) + moved
    <2>1. \A i \in Once(l) : f[i] \in Int /\ f2[i] = f[i]
      BY <1>1, <1>5 DEF AmountsOf
    <2>2. \A j \in V : g[j] \in Int /\ f2[L + j] = g[j]
      BY <1>1, <1>2, <1>5 DEF AmountsOf
    <2>3. FiledOf(n, l) = SumFunctionOnSet(f, Once(l))
      BY DEF FiledOf, Total
    <2>4. FiledOf(n, l2) = SumFunctionOnSet(f2, Once(l2))
      BY DEF FiledOf, Total
    <2>5. moved = SumFunctionOnSet(g, V)
      BY DEF Total
    <2>6. IsFiniteSet(shifted) /\ SumFunctionOnSet(f2, shifted) = SumFunctionOnSet(g, V)
      <3> DEFINE h == [x \in V |-> L + x]
      <3>1. Renames(h, V, shifted)
        <4> HIDE DEF V, L
        <4> QED BY <1>1, <1>3 DEF Renames
      <3>2. \A x \in V : h[x] = L + x
        OBVIOUS
      <3> HIDE DEF V, f2, g, h, shifted
      <3>3. Carries(h, V, g, f2)
        BY <2>2, <3>2 DEF Carries
      <3> QED BY <1>3, <3>1, <3>3, SumRenamed
    <2>7. SumFunctionOnSet(f2, Once(l)) = SumFunctionOnSet(f, Once(l))
      <3> HIDE DEF f, f2
      <3> QED BY <1>1, <2>1, SumSame
    <2>8. \A i \in Once(l) \union shifted : f2[i] \in Int
      <3> HIDE DEF V, f, f2, g
      <3> QED BY <2>1, <2>2
    <2>9. SumFunctionOnSet(f2, Once(l) \union shifted)
             = SumFunctionOnSet(f2, Once(l)) + SumFunctionOnSet(f2, shifted)
      <3> HIDE DEF f2, shifted
      <3> QED BY <1>1, <1>9, <2>6, <2>8, SumOfUnion
    <2> HIDE DEF f, f2, g, shifted, moved, V
    <2> QED BY <1>8, <2>3, <2>4, <2>5, <2>6, <2>7, <2>9
  <1>11. Waiting(b, l2) = W \ (1 .. k)
    <2>1. \A i \in 1 .. Len(b) : i \in Waiting(b, l2) <=>
                                    \A j \in 1 .. L + k : Id(l2[j]) # Id(b[i])
      BY <1>1 DEF Waiting, Ids
    <2>2. ASSUME NEW i \in 1 .. Len(b)
          PROVE  i \in Waiting(b, l2) <=> i \in W /\ i \notin 1 .. k
      <3>1. CASE i \in 1 .. k
        <4>1. l2[L + i] = b[i] /\ L + i \in 1 .. L + k
          BY <1>5, <3>1
        <4> QED BY <2>1, <3>1, <4>1
      <3>2. CASE i \notin 1 .. k
        <4>1. \A j \in 1 .. k : Id(l2[L + j]) # Id(b[i])
          BY <1>5, <3>2
        <4>2. i \in W <=> \A j \in 1 .. L : Id(l2[j]) # Id(b[i])
          BY <1>2, <1>5
        <4>3. i \in W => \A j \in 1 .. L + k : Id(l2[j]) # Id(b[i])
          BY <1>4, <4>1, <4>2
        <4>4. (\A j \in 1 .. L + k : Id(l2[j]) # Id(b[i])) => i \in W
          BY <1>5, <4>2
        <4> QED BY <2>1, <3>2, <4>3, <4>4
      <3> QED BY <3>1, <3>2
    <2>3. Waiting(b, l2) \subseteq 1 .. Len(b)
      BY <1>1 DEF Waiting
    <2> QED BY <1>2, <2>2, <2>3
  <1>12. UnsentOf(n, b, l) = UnsentOf(n, b, l2) + moved
    <2> DEFINE R == W \ (1 .. k)
    <2>1. UnsentOf(n, b, l) = SumFunctionOnSet(g, W)
      BY DEF UnsentOf, Total
    <2>2. UnsentOf(n, b, l2) = SumFunctionOnSet(g, R)
      BY <1>11 DEF UnsentOf, Total
    <2>3. moved = SumFunctionOnSet(g, V)
      BY DEF Total
    <2>4. R \union V = W /\ R \intersect V = {}
      OBVIOUS
    <2>5. IsFiniteSet(R)
      <3>1. IsFiniteSet(1 .. Len(b))
        BY <1>1, FS_Interval
      <3>2. R \subseteq 1 .. Len(b)
        BY <1>2
      <3> QED BY <3>1, <3>2, FS_Subset
    <2>6. \A i \in R \union V : g[i] \in Int
      BY <1>1, <1>2 DEF AmountsOf
    <2>7. SumFunctionOnSet(g, R \union V)
             = SumFunctionOnSet(g, R) + SumFunctionOnSet(g, V)
      <3> HIDE DEF R, V, g
      <3> QED BY <1>3, <2>4, <2>5, <2>6, SumOfUnion
    <2> HIDE DEF R, V, g, moved, W
    <2> QED BY <2>1, <2>2, <2>3, <2>4, <2>7
  <1>13. k = Len(b) => UnsentOf(n, b, l) = moved
    <2>1. k = Len(b) => V = W
      BY <1>2
    <2> QED BY <2>1 DEF UnsentOf
  <1> QED BY <1>3, <1>10, <1>12, <1>13

\* A message that is put into the stream for the first time.
LEMMA HandMoves ==
  ASSUME NEW n, NEW l, IsSequence(l), NEW b, AmountsOf(n, b),
         NEW s, Reported(s, n) \in Nat, Id(s) \notin Ids(l)
  PROVE  UnsentOf(n, Append(b, s), l) = UnsentOf(n, b, l) + Reported(s, n)
  <1> DEFINE b2 == Append(b, s)
             m == Len(b)
             W == Waiting(b, l)
             g == [i \in DOMAIN b |-> Reported(b[i], n)]
             g2 == [i \in DOMAIN b2 |-> Reported(b2[i], n)]
  <1>1. /\ IsSequence(b2) /\ Len(b2) = m + 1 /\ m \in Nat
        /\ \A i \in 1 .. m : b2[i] = b[i]
        /\ b2[m + 1] = s
        /\ DOMAIN b = 1 .. m /\ DOMAIN b2 = 1 .. m + 1
    BY AppendIs, SequenceDomain DEF AmountsOf, IsSequence
  <1> HIDE DEF b2
  <1>2. Waiting(b2, l) = W \union {m + 1}
    <2>1. \A i \in 1 .. m + 1 : i \in 1 .. m \/ i = m + 1
      BY <1>1
    <2>2. m + 1 \in 1 .. m + 1 /\ \A i \in 1 .. m : i \in 1 .. m + 1
      BY <1>1
    <2> QED BY <1>1, <2>1, <2>2 DEF Waiting
  <1>3. W \subseteq 1 .. m /\ IsFiniteSet(W) /\ m + 1 \notin W
    <2>1. W \subseteq 1 .. m
      BY <1>1 DEF Waiting
    <2>2. m + 1 \notin 1 .. m
      BY <1>1
    <2> HIDE DEF W
    <2> QED BY <2>1, <2>2, TotalTyped
  <1>4. /\ \A i \in W : g[i] \in Int /\ g2[i] = g[i]
        /\ g2[m + 1] = Reported(s, n) /\ g2[m + 1] \in Int
    <2>1. m + 1 \in 1 .. m + 1 /\ \A i \in 1 .. m : i \in 1 .. m + 1
      BY <1>1
    <2> QED BY <1>1, <1>3, <2>1 DEF AmountsOf
  <1>5. UnsentOf(n, b, l) = SumFunctionOnSet(g, W)
    BY DEF UnsentOf, Total
  <1>6. UnsentOf(n, b2, l) = SumFunctionOnSet(g2, W \union {m + 1})
    BY <1>2 DEF UnsentOf, Total
  <1> HIDE DEF W, g, g2, m
  <1>7. SumFunctionOnSet(g2, W) = SumFunctionOnSet(g, W)
    BY <1>3, <1>4, SumSame
  <1>8. SumFunctionOnSet(g2, W \union {m + 1}) = SumFunctionOnSet(g2, W) + g2[m + 1]
    <2> DEFINE y == m + 1
    <2>1. y \notin W /\ \A x \in W \union {y} : g2[x] \in Int
      BY <1>3, <1>4
    <2> HIDE DEF y
    <2>2. SumFunctionOnSet(g2, W \union {y}) = SumFunctionOnSet(g2, W) + g2[y]
      BY <1>3, <2>1, SumOneMore
    <2> QED BY <2>2 DEF y
  <1> QED BY <1>4, <1>5, <1>6, <1>7, <1>8 DEF b2

LEMMA SumTyped ==
  ASSUME NEW k \in Nat, NEW f, DOMAIN f = 1 .. k, \A i \in 1 .. k : f[i] \in Nat
  PROVE  SumFunction(f) \in Nat
  <1>1. IsFiniteSet(1 .. k)
    BY FS_Interval
  <1>2. SumFunctionOnSet(f, 1 .. k) \in Nat
    BY <1>1, SumIsNat
  <1> QED BY <1>2 DEF SumFunction

LEMMA CountedTyped ==
  ASSUME NEW s, NEW n, NEW records, IsSequence(records),
         \A i \in 1 .. Len(records) : AmountIn(s, n, records[i]) \in Nat,
         NEW lines, IsSequence(lines), \A i \in 1 .. Len(lines) : Len(lines[i].text) \in Nat
  PROVE  CountedOf(s, n, records, lines) \in Nat
  <1> DEFINE f == [i \in 1 .. Len(lines) |-> Len(lines[i].text)]
             g == [i \in DOMAIN records |-> AmountIn(s, n, records[i])]
             k == Len(lines)
             m == Len(records)
  <1>1. /\ k \in Nat /\ DOMAIN f = 1 .. k /\ \A i \in 1 .. k : f[i] \in Nat
        /\ m \in Nat /\ DOMAIN g = 1 .. m /\ \A i \in 1 .. m : g[i] \in Nat
    BY SequenceDomain DEF IsSequence
  <1> HIDE DEF f, g, k, m
  <1>2. SumFunction(f) \in Nat /\ SumFunction(g) \in Nat
    BY <1>1, SumTyped
  <1> QED BY <1>2 DEF CountedOf, RecordsOf, LinesOf, f, g

LEMMA OneMoreRecord ==
  ASSUME NEW s, NEW n, NEW records, IsSequence(records),
         \A i \in 1 .. Len(records) : AmountIn(s, n, records[i]) \in Nat,
         NEW r, AmountIn(s, n, r) \in Nat
  PROVE  RecordsOf(s, n, Append(records, r)) = RecordsOf(s, n, records) + AmountIn(s, n, r)
  <1> DEFINE k == Len(records)
             a == Append(records, r)
             f == [i \in DOMAIN records |-> AmountIn(s, n, records[i])]
             g == [i \in DOMAIN a |-> AmountIn(s, n, a[i])]
  <1>1. /\ IsSequence(a) /\ Len(a) = k + 1 /\ a[k + 1] = r
        /\ \A i \in 1 .. k : a[i] = records[i]
    BY AppendIs
  <1>2. RecordsOf(s, n, records) = SumFunction(f) /\ RecordsOf(s, n, a) = SumFunction(g)
    BY DEF RecordsOf
  <1> HIDE DEF a
  <1>3. k \in Nat /\ DOMAIN records = 1 .. k /\ DOMAIN a = 1 .. k + 1
    BY <1>1, SequenceDomain DEF IsSequence
  <1> HIDE DEF k
  <1>4. k + 1 \in 1 .. k + 1 /\ \A i \in 1 .. k : i \in 1 .. k + 1
    BY <1>3
  <1>5. /\ DOMAIN f = 1 .. k /\ \A i \in 1 .. k : f[i] \in Int
        /\ DOMAIN g = 1 .. k + 1 /\ \A i \in 1 .. k : g[i] = f[i]
        /\ g[k + 1] = AmountIn(s, n, r) /\ g[k + 1] \in Int
    BY <1>1, <1>3, <1>4 DEF k
  <1> HIDE DEF f, g
  <1>6. SumFunction(g) = SumFunction(f) + g[k + 1]
    BY <1>3, <1>5, SumAppend
  <1> QED BY <1>2, <1>5, <1>6 DEF a

LEMMA OneMoreLine ==
  ASSUME NEW lines, IsSequence(lines),
         \A i \in 1 .. Len(lines) : Len(lines[i].text) \in Nat,
         NEW w, Len(w.text) \in Nat
  PROVE  LinesOf(Append(lines, w)) = LinesOf(lines) + Len(w.text)
  <1> DEFINE k == Len(lines)
             a == Append(lines, w)
             f == [i \in 1 .. Len(lines) |-> Len(lines[i].text)]
             g == [i \in 1 .. Len(a) |-> Len(a[i].text)]
  <1>1. /\ k \in Nat /\ Len(a) = k + 1 /\ a[k + 1] = w
        /\ \A i \in 1 .. k : a[i] = lines[i]
    BY AppendIs DEF IsSequence
  <1>2. LinesOf(lines) = SumFunction(f) /\ LinesOf(a) = SumFunction(g)
    BY DEF LinesOf
  <1> HIDE DEF a
  <1>3. k + 1 \in 1 .. k + 1 /\ \A i \in 1 .. k : i \in 1 .. k + 1
    BY <1>1
  <1>4. /\ DOMAIN f = 1 .. k /\ \A i \in 1 .. k : f[i] \in Int
        /\ DOMAIN g = 1 .. k + 1 /\ \A i \in 1 .. k : g[i] = f[i]
        /\ g[k + 1] = Len(w.text) /\ g[k + 1] \in Int
    BY <1>1, <1>3
  <1> HIDE DEF k, f, g
  <1>5. SumFunction(g) = SumFunction(f) + g[k + 1]
    BY <1>1, <1>4, SumAppend
  <1> QED BY <1>2, <1>4, <1>5 DEF a

\* What is read is counted as it is added to the metrics.
CountsOne ==
    /\ UNCHANGED <<scenario, msg, uuids, ofs, buffer, log>>
    /\ \A n \in Counter :
          \E a \in Nat :
             /\ metrics'[n] = metrics[n] + a
             /\ CountedOf(scenario, n, read', written')
                   = CountedOf(scenario, n, read, written) + a

LEMMA NothingAdded == \A c \in Nat : \A a : a = 0 => c = c + a
  OBVIOUS

LEMMA OthersCount ==
  ASSUME ProcessInv, ReadInv, WrittenInv, NEW fate, Reading(fate), fate \in Fate,
         fate # "converted", UNCHANGED written,
         NEW r, read' = Append(read, r), r.fate = fate, r.counts = doc.counts,
         \A n \in Counter : metrics'[n] = metrics[n] +
             One(n \in r.counts \union
                   (IF r.fate = "refused" THEN {"Records Processed", "Records Discarded"}
                                          ELSE {}))
  PROVE  CountsOne
  <1>1. /\ IsSequence(read)
        /\ \A i \in 1 .. Len(read) : \A n \in Counter :
              AmountIn(scenario, n, read[i]) \in Nat
    BY DEF ReadInv
  <1>2. r.counts \subseteq Range(LoggerMetrics["cache"])
                               \union Range(LoggerMetrics["record"])
    BY ReadingOn DEF Reading, IsRecord
  <1>3. ASSUME NEW n \in Counter
        PROVE  \E a \in Nat :
                 /\ metrics'[n] = metrics[n] + a
                 /\ CountedOf(scenario, n, read', written')
                       = CountedOf(scenario, n, read, written) + a
    <2> DEFINE a == AmountIn(scenario, n, r)
    <2>1. /\ a = One(n \in r.counts \union
                      (IF r.fate = "refused" THEN {"Records Processed", "Records Discarded"}
                                             ELSE {}))
          /\ a \in Nat /\ "Data Out" \notin r.counts
      BY <1>2, AmountOfOthers
    <2>2. CASE n # "Data Out"
      <3>0. RecordsOf(scenario, n, Append(read, r)) = RecordsOf(scenario, n, read) + a
        BY <1>1, <2>1, OneMoreRecord
      <3>1. CountedOf(scenario, n, read', written')
               = CountedOf(scenario, n, read, written) + a
        BY <2>2, <3>0 DEF CountedOf
      <3> HIDE DEF a
      <3>2. metrics'[n] = metrics[n] + a
        BY <2>1
      <3> QED BY <2>1, <3>1, <3>2
    <2>3. CASE n = "Data Out"
      <3>1. CountedOf(scenario, n, read', written') = CountedOf(scenario, n, read, written)
        BY <2>3 DEF CountedOf
      <3>2. a = 0
        BY <2>1, <2>3 DEF One
      <3>3. CountedOf(scenario, n, read, written) \in Nat
        BY <1>1, CountedTyped DEF WrittenInv
      <3>4. metrics'[n] = metrics[n] + a
        BY <2>1
      <3> HIDE DEF a
      <3>5. CountedOf(scenario, n, read', written')
               = CountedOf(scenario, n, read, written) + a
        BY <3>1, <3>2, <3>3, NothingAdded
      <3> QED BY <2>1, <3>4, <3>5
    <2> QED BY <2>2, <2>3
  <1> QED BY <1>3 DEF CountsOne, Reading

LEMMA ConvertedCounts == FileInv /\ Convert => CountsOne
  <1> SUFFICES ASSUME FileInv, Convert PROVE CountsOne
    OBVIOUS
  <1>1. /\ pc = "read" /\ doc.fate = "converted" /\ read' = Append(read, doc)
        /\ UNCHANGED <<scenario, msg, uuids, ofs, buffer, log>>
    BY DEF Convert, Reading
  <1>2. /\ IsRecord(doc) /\ scenario \in Scenarios /\ SchemaLoaded
        /\ IsSequence(read) /\ IsSequence(written)
        /\ \A i \in 1 .. Len(read) : \A n \in Counter :
              AmountIn(scenario, n, read[i]) \in Nat
        /\ \A i \in 1 .. Len(written) : Len(written[i].text) \in Nat
    BY <1>1, ReadingOn DEF FileInv, ProcessInv, ReadInv, WrittenInv
  <1> DEFINE p == GetDimensionPath(dimensions, doc.info)
             w == [doc |-> doc, path |-> p.path, text |-> sb']
  <1>3. Len(sb') \in Nat
    <2>1. PICK body \in DoubleTexts(doc.number) : sb' = Clear(sb) \o Line(doc.path, body)
      BY DEF Convert
    <2> QED BY <1>1, <1>2, <2>1, LineOfRecord
  <1>4. written' = Append(written, w) /\ w.text = sb'
    BY DEF Convert
  <1>5. metrics' = [n \in MetricName |-> metrics[n] +
                      CASE n = "Invalid String Dimension" -> p.invalidString
                        [] n = "Invalid Numeric Dimension" -> p.invalidNumeric
                        [] n = "Data Out" -> Len(sb')
                        [] OTHER -> One(n = "Records Processed" \/ n \in doc.counts)]
    BY DEF Convert, Add
  <1>6. ASSUME NEW n
        PROVE  /\ n # "Data Out" =>
                    AmountIn(scenario, n, doc) =
                       CASE n = "Invalid String Dimension" -> p.invalidString
                         [] n = "Invalid Numeric Dimension" -> p.invalidNumeric
                         [] OTHER -> One(n = "Records Processed" \/ n \in doc.counts)
               /\ AmountIn(scenario, n, doc) \in Nat
    BY <1>1, <1>2, AmountOfConverted
  <1> HIDE DEF p, w
  <1>7. ASSUME NEW n \in Counter
        PROVE  \E a \in Nat :
                 /\ metrics'[n] = metrics[n] + a
                 /\ CountedOf(scenario, n, read', written')
                       = CountedOf(scenario, n, read, written) + a
    <2>1. n \in MetricName
      BY CountersAre
    <2>2. CASE n # "Data Out"
      <3> DEFINE a == AmountIn(scenario, n, doc)
      <3>1. metrics'[n] = metrics[n] + a
        BY <1>5, <1>6, <2>1, <2>2
      <3>2. RecordsOf(scenario, n, Append(read, doc)) = RecordsOf(scenario, n, read) + a
        <4>1. /\ IsSequence(read)
              /\ \A i \in 1 .. Len(read) : AmountIn(scenario, n, read[i]) \in Nat
          BY <1>2
        <4>2. AmountIn(scenario, n, doc) \in Nat
          BY <1>6
        <4> QED BY <4>1, <4>2, OneMoreRecord
      <3>3. CountedOf(scenario, n, read', written')
               = CountedOf(scenario, n, read, written) + a
        BY <1>1, <2>2, <3>2 DEF CountedOf
      <3>4. a \in Nat
        BY <1>6
      <3> HIDE DEF a
      <3> QED BY <3>1, <3>3, <3>4
    <2>3. CASE n = "Data Out"
      <3> DEFINE a == Len(sb')
      <3>1. metrics'[n] = metrics[n] + a
        BY <1>5, <2>1, <2>3
      <3>2. LinesOf(Append(written, w)) = LinesOf(written) + a
        BY <1>2, <1>3, <1>4, OneMoreLine
      <3>3. CountedOf(scenario, n, read', written')
               = CountedOf(scenario, n, read, written) + a
        BY <1>4, <2>3, <3>2 DEF CountedOf
      <3> HIDE DEF a
      <3> QED BY <1>3, <3>1, <3>3 DEF a
    <2> QED BY <2>2, <2>3
  <1> QED BY <1>1, <1>7 DEF CountsOne

LEMMA ReadingCounts ==
  ASSUME FileInv,
         \/ Convert \/ Refuse \/ Throw
         \/ \E elapsed \in 0 .. 1 : Finish(elapsed) \/ FileSizeThrows(elapsed)
  PROVE  CountsOne
  <1>1. ProcessInv /\ ReadInv /\ WrittenInv
    BY DEF FileInv
  <1> DEFINE Others(r) == \A n \in Counter : metrics'[n] = metrics[n] +
                One(n \in r.counts \union
                      (IF r.fate = "refused" THEN {"Records Processed", "Records Discarded"}
                                             ELSE {}))
  <1>2. CASE Convert
    BY <1>2, ConvertedCounts
  <1>3. CASE Refuse
    <2>1. /\ Reading("refused") /\ read' = Append(read, doc) /\ UNCHANGED written
          /\ doc.fate = "refused"
      BY <1>3 DEF Refuse, Reading
    <2>2. Others(doc)
      <3>1. metrics' = [n \in MetricName |-> metrics[n] +
              One(n \in {"Records Processed", "Records Discarded"} \union doc.counts)]
        BY <1>3 DEF Refuse, Add
      <3>2. {"Records Processed", "Records Discarded"} \union doc.counts
              = doc.counts \union (IF doc.fate = "refused"
                                     THEN {"Records Processed", "Records Discarded"}
                                     ELSE {})
        BY <2>1
      <3> QED BY <3>1, <3>2, CountersAre
    <2> QED BY <1>1, <2>1, <2>2, OthersCount DEF Fate
  <1>4. CASE Throw
    <2>1. /\ Reading("throws") /\ read' = Append(read, doc) /\ UNCHANGED written
          /\ doc.fate = "throws"
      BY <1>4 DEF Throw, Reading
    <2>2. Others(doc)
      <3>1. metrics' = [n \in MetricName |-> metrics[n] + One(n \in doc.counts)]
        BY <1>4 DEF Throw, Add
      <3>2. doc.counts = doc.counts \union
                           (IF doc.fate = "refused"
                              THEN {"Records Processed", "Records Discarded"} ELSE {})
        BY <2>1
      <3> QED BY <3>1, <3>2, CountersAre
    <2> QED BY <1>1, <2>1, <2>2, OthersCount DEF Fate
  <1>5. ASSUME NEW elapsed \in 0 .. 1, NEW size, Reading("end"), UNCHANGED written,
               read' = Ended(elapsed, size),
               \A n \in Counter : metrics'[n] = metrics[n] + One(n \in doc.counts)
        PROVE  CountsOne
    <2> DEFINE r == [fate |-> "end", counts |-> doc.counts, elapsed |-> elapsed,
                     size |-> size]
    <2>1. read' = Append(read, r) /\ r.fate = "end" /\ r.counts = doc.counts
      BY <1>5 DEF Ended
    <2> HIDE DEF r
    <2>2. Others(r)
      <3>1. doc.counts = r.counts \union
                           (IF r.fate = "refused"
                              THEN {"Records Processed", "Records Discarded"} ELSE {})
        BY <2>1
      <3> QED BY <1>5, <3>1
    <2> QED BY <1>1, <1>5, <2>1, <2>2, OthersCount DEF Fate
  <1>6. ASSUME NEW elapsed \in 0 .. 1, Finish(elapsed)
        PROVE  CountsOne
    <2>1. metrics' = [n \in MetricName |->
                      CASE n = "Processing Time" -> elapsed
                        [] n = "Data In" -> file.size
                        [] n = "Throughput" /\ elapsed > 0 -> file.size \div elapsed
                        [] OTHER -> metrics[n] + One(n \in doc.counts)]
      BY <1>6 DEF Finish
    <2>2. ASSUME NEW n \in Counter
          PROVE  metrics'[n] = metrics[n] + One(n \in doc.counts)
      <3>1. n \in MetricName /\ n # "Processing Time" /\ n # "Data In" /\ n # "Throughput"
        BY CountersAre
      <3> QED BY <2>1, <3>1
    <2>3. Reading("end") /\ UNCHANGED written /\ read' = Ended(elapsed, file.size)
      BY <1>6 DEF Finish
    <2> QED BY <1>5, <2>2, <2>3
  <1>7. ASSUME NEW elapsed \in 0 .. 1, FileSizeThrows(elapsed)
        PROVE  CountsOne
    <2>1. metrics' = [n \in MetricName |->
                        IF n = "Processing Time" THEN elapsed
                        ELSE metrics[n] + One(n \in doc.counts)]
      BY <1>7 DEF FileSizeThrows
    <2>2. ASSUME NEW n \in Counter
          PROVE  metrics'[n] = metrics[n] + One(n \in doc.counts)
      <3>1. n \in MetricName /\ n # "Processing Time"
        BY CountersAre
      <3> QED BY <2>1, <3>1
    <2>3. Reading("end") /\ UNCHANGED written /\ read' = Ended(elapsed, -1)
      BY <1>7 DEF FileSizeThrows
    <2> QED BY <1>5, <2>2, <2>3
  <1> QED BY <1>2, <1>3, <1>4, <1>6, <1>7

-----------------------------------------------------------------------------
(***************************************************************************)
(* The refinement: what is counted, waits and is filed at each step.       *)
(***************************************************************************)

\* The books are told from what was read and written, and from the messages.
BooksInv ==
    /\ Counted = [n \in Counter |-> CountedOf(scenario, n, read, written)]
    /\ Pending = [n \in Counter |-> metrics[n]]
    /\ Unsent = [n \in Counter |-> UnsentOf(n, buffer, log)]
    /\ Filed = [n \in Counter |-> FiledOf(n, log)]
    /\ Counted \in [Counter -> Nat] /\ Pending \in [Counter -> Nat]
    /\ Unsent \in [Counter -> Nat] /\ Filed \in [Counter -> Nat]

LedgerInv == Missing \in [Counter -> Nat]

\* What a step leaves of it.
LedgerKept == LedgerInv' /\ (ofs = "open" /\ ofs' = "open" => Missing' = Missing)

LEMMA TallyIs ==
  ASSUME ReadInv, WrittenInv, NEW n
  PROVE  Tally(n, read) = CountedOf(scenario, n, read, written)
  <1> DEFINE before == Len(written) - Cardinality(Converted(read))
  <1>1. before = 0 /\ Len(written) \in Nat
    BY DEF WrittenInv, WrittenInOrder, IsSequence
  <1> HIDE DEF before
  <1>2. [i \in before + 1 .. Len(written) |-> Len(written[i].text)]
           = [i \in 1 .. Len(written) |-> Len(written[i].text)]
    BY <1>1
  <1>3. [i \in DOMAIN read |-> Amount(n, read[i])]
           = [i \in DOMAIN read |-> AmountIn(scenario, n, read[i])]
    BY AmountIs
  <1> QED BY <1>2, <1>3 DEF Tally, CountedOf, RecordsOf, LinesOf, before

LEMMA MessagesReport ==
  ASSUME LogInv, NEW n \in Counter
  PROVE  AmountsOf(n, log) /\ AmountsOf(n, buffer)
  BY DEF LogInv, IsSent, AmountsOf

LEMMA BooksAre == FileInv => BooksInv
  <1> SUFFICES ASSUME FileInv PROVE BooksInv
    OBVIOUS
  <1>1. Counted = [n \in Counter |-> CountedOf(scenario, n, read, written)]
    BY TallyIs DEF Counted, FileInv
  <1>2. Pending = [n \in Counter |-> metrics[n]]
    BY DEF Pending
  <1>3. Unsent = [n \in Counter |-> UnsentOf(n, buffer, log)]
    BY DEF Unsent, UnsentOf, Waiting
  <1>4. Filed = [n \in Counter |-> FiledOf(n, log)]
    BY DEF Filed, FiledOf
  <1>5. ASSUME NEW n \in Counter
        PROVE  /\ CountedOf(scenario, n, read, written) \in Nat /\ metrics[n] \in Nat
               /\ UnsentOf(n, buffer, log) \in Nat /\ FiledOf(n, log) \in Nat
    <2>1. CountedOf(scenario, n, read, written) \in Nat
      <3>1. \A i \in 1 .. Len(read) : AmountIn(scenario, n, read[i]) \in Nat
        BY DEF FileInv, ReadInv
      <3> QED BY <3>1, CountedTyped DEF FileInv, ReadInv, WrittenInv
    <2>2. metrics[n] \in Nat
      BY CountersAre DEF FileInv, LogInv
    <2>3. UnsentOf(n, buffer, log) \in Nat /\ FiledOf(n, log) \in Nat
      BY MessagesReport, BooksTyped DEF FileInv
    <2> QED BY <2>1, <2>2, <2>3
  <1> QED BY <1>1, <1>2, <1>3, <1>4, <1>5 DEF BooksInv

LEMMA BookTypes ==
  ASSUME BooksInv, BooksInv', NEW n \in Counter
  PROVE  /\ Counted[n] \in Nat /\ Pending[n] \in Nat
         /\ Unsent[n] \in Nat /\ Filed[n] \in Nat
         /\ Counted'[n] \in Nat /\ Pending'[n] \in Nat
         /\ Unsent'[n] \in Nat /\ Filed'[n] \in Nat
  <1>1. /\ Counted \in [Counter -> Nat] /\ Pending \in [Counter -> Nat]
        /\ Unsent \in [Counter -> Nat] /\ Filed \in [Counter -> Nat]
    BY DEF BooksInv
  <1>2. /\ Counted' \in [Counter -> Nat] /\ Pending' \in [Counter -> Nat]
        /\ Unsent' \in [Counter -> Nat] /\ Filed' \in [Counter -> Nat]
    BY DEF BooksInv
  <1> QED BY <1>1, <1>2

\* The kinds of steps, as MetricLedger knows them.
LEMMA CountStep ==
  ASSUME BooksInv, BooksInv', LedgerInv,
         \A n \in Counter : /\ Pending[n] <= Pending'[n]
                            /\ Pending'[n] - Pending[n] = Counted'[n] - Counted[n],
         Unsent' = Unsent, Filed' = Filed, ofs' = ofs
  PROVE  Ledger!Count /\ LedgerKept
  <1>1. ASSUME NEW n \in Counter
        PROVE  /\ Counted[n] \in Nat /\ Counted'[n] \in Nat
               /\ Pending[n] \in Nat /\ Pending'[n] \in Nat
               /\ Counted[n] <= Counted'[n]
               /\ Counted'[n] - Pending'[n] - Unsent'[n] - Filed'[n]
                     = Counted[n] - Pending[n] - Unsent[n] - Filed[n]
               /\ Unsent[n] \in Nat /\ Filed[n] \in Nat
    BY BookTypes
  <1>2. Missing' = Missing
    BY <1>1 DEF Missing
  <1>3. Ledger!Grown(Counted, Counted', Pending, Pending')
    BY <1>1 DEF BooksInv, Ledger!Grown, Ledger!Amounts
  <1> QED BY <1>2, <1>3 DEF Ledger!Count, LedgerInv, LedgerKept

LEMMA HandStep ==
  ASSUME BooksInv, BooksInv', LedgerInv,
         \A n \in Counter : /\ Pending'[n] <= Pending[n]
                            /\ Pending[n] - Pending'[n] = Unsent'[n] - Unsent[n],
         Counted' = Counted, Filed' = Filed, ofs' = ofs
  PROVE  Ledger!Hand /\ LedgerKept
  <1>1. ASSUME NEW n \in Counter
        PROVE  Counted'[n] - Pending'[n] - Unsent'[n] - Filed'[n]
                     = Counted[n] - Pending[n] - Unsent[n] - Filed[n]
    BY BookTypes
  <1>2. Missing' = Missing
    BY <1>1 DEF Missing
  <1>3. Ledger!Moved(Pending, Pending', Unsent, Unsent')
    BY DEF BooksInv, Ledger!Moved, Ledger!Amounts
  <1> QED BY <1>2, <1>3 DEF Ledger!Hand, LedgerInv, LedgerKept

LEMMA SettleStep ==
  ASSUME BooksInv, BooksInv', LedgerInv,
         \A n \in Counter : /\ Unsent'[n] <= Unsent[n]
                            /\ Unsent[n] - Unsent'[n] = Filed'[n] - Filed[n],
         Counted' = Counted, Pending' = Pending
  PROVE  Ledger!Settle /\ LedgerKept
  <1>1. ASSUME NEW n \in Counter
        PROVE  Counted'[n] - Pending'[n] - Unsent'[n] - Filed'[n]
                     = Counted[n] - Pending[n] - Unsent[n] - Filed[n]
    BY BookTypes
  <1>2. Missing' = Missing
    BY <1>1 DEF Missing
  <1>3. Ledger!Moved(Unsent, Unsent', Filed, Filed')
    BY DEF BooksInv, Ledger!Moved, Ledger!Amounts
  <1> QED BY <1>2, <1>3 DEF Ledger!Settle, LedgerInv, LedgerKept

LEMMA LoseStep ==
  ASSUME BooksInv, BooksInv', LedgerInv, ofs # "open" \/ ofs' # "open",
         \A n \in Counter :
            /\ Pending'[n] <= Pending[n] /\ Unsent'[n] <= Unsent[n]
            /\ Filed[n] <= Filed'[n]
            /\ Filed'[n] - Filed[n] <= Unsent[n] - Unsent'[n],
         Counted' = Counted
  PROVE  Ledger!Lose /\ LedgerKept
  <1>1. ASSUME NEW n \in Counter
        PROVE  /\ Counted'[n] - Pending'[n] - Unsent'[n] - Filed'[n] \in Nat
               /\ Pending'[n] + Unsent'[n] + Filed'[n] <= Pending[n] + Unsent[n] + Filed[n]
    <2>1. Counted[n] - Pending[n] - Unsent[n] - Filed[n] \in Nat
      BY DEF LedgerInv, Missing
    <2> QED BY <2>1 DEF BooksInv
  <1>2. LedgerInv'
    BY <1>1 DEF LedgerInv, Missing
  <1>3. /\ Ledger!Less(Pending, Pending') /\ Ledger!Less(Unsent, Unsent')
        /\ Ledger!More(Filed, Filed')
    BY DEF BooksInv, Ledger!Less, Ledger!More, Ledger!Amounts
  <1> QED BY <1>1, <1>2, <1>3 DEF Ledger!Lose, LedgerKept

LEMMA NoStep ==
  ASSUME LedgerInv, Counted' = Counted, Pending' = Pending, Unsent' = Unsent,
         Filed' = Filed, ofs' = ofs
  PROVE  UNCHANGED Ledger!lvars /\ LedgerKept
  <1>1. Missing' = Missing
    BY DEF Missing
  <1> QED BY <1>1 DEF LedgerInv, LedgerKept, Ledger!lvars

\* The messages in the stream are from different components.
LEMMA BufferIds ==
  ASSUME LogInv
  PROVE  \A i, j \in 1 .. Len(buffer) : Id(buffer[i]) = Id(buffer[j]) => i = j
  <1> SUFFICES ASSUME NEW i \in 1 .. Len(buffer), NEW j \in 1 .. Len(buffer),
                      Id(buffer[i]) = Id(buffer[j])
               PROVE  i = j
    OBVIOUS
  <1>1. buffer[i].logger = buffer[j].logger
    BY DEF Id
  <1>2. Loggers[i] = Loggers[j] /\ i \in 1 .. 4 /\ j \in 1 .. 4
    BY <1>1 DEF LogInv, IsSequence
  <1> QED BY <1>2, LoggersAre

LEMMA StreamWrites ==
  ASSUME LogInv, NEW k \in 0 .. Len(buffer), Writes(k), NEW n \in Counter
  PROVE  \E moved \in Nat :
            /\ FiledOf(n, log') = FiledOf(n, log) + moved
            /\ UnsentOf(n, buffer, log) = UnsentOf(n, buffer, log') + moved
            /\ k = Len(buffer) => UnsentOf(n, buffer, log) = moved
  <1> DEFINE l2 == log'
             b == buffer
             moved == Total(n, buffer, Waiting(buffer, log) \intersect (1 .. k))
  <1>1. AmountsOf(n, log) /\ AmountsOf(n, b)
    BY MessagesReport
  <1>2. \A i, j \in 1 .. Len(b) : Id(b[i]) = Id(b[j]) => i = j
    BY BufferIds
  <1>3. Extended(l2, log, b, k) /\ k \in 0 .. Len(b)
    BY WritesIs DEF Extended
  <1> HIDE DEF l2, b
  <1>4. LET m == Total(n, b, Waiting(b, log) \intersect (1 .. k))
        IN  /\ m \in Nat
            /\ FiledOf(n, l2) = FiledOf(n, log) + m
            /\ UnsentOf(n, b, log) = UnsentOf(n, b, l2) + m
            /\ k = Len(b) => UnsentOf(n, b, log) = m
    BY <1>1, <1>2, <1>3, WriteMoves
  <1>5. /\ moved \in Nat
        /\ FiledOf(n, log') = FiledOf(n, log) + moved
        /\ UnsentOf(n, buffer, log) = UnsentOf(n, buffer, log') + moved
        /\ k = Len(buffer) => UnsentOf(n, buffer, log) = moved
    BY <1>4 DEF l2, b
  <1> HIDE DEF moved
  <1> QED BY <1>5

\* What the books say before and after a step.
LEMMA BooksBoth ==
  ASSUME BooksInv, BooksInv', NEW n \in Counter
  PROVE  /\ Counted[n] = CountedOf(scenario, n, read, written)
         /\ Counted'[n] = CountedOf(scenario', n, read', written')
         /\ Pending[n] = metrics[n] /\ Pending'[n] = metrics'[n]
         /\ Unsent[n] = UnsentOf(n, buffer, log)
         /\ Unsent'[n] = UnsentOf(n, buffer', log')
         /\ Filed[n] = FiledOf(n, log) /\ Filed'[n] = FiledOf(n, log')
  <1>1. /\ Counted[n] = CountedOf(scenario, n, read, written)
        /\ Pending[n] = metrics[n] /\ Unsent[n] = UnsentOf(n, buffer, log)
        /\ Filed[n] = FiledOf(n, log)
    BY DEF BooksInv
  <1>2. /\ Counted'[n] = CountedOf(scenario', n, read', written')
        /\ Pending'[n] = metrics'[n] /\ Unsent'[n] = UnsentOf(n, buffer', log')
        /\ Filed'[n] = FiledOf(n, log')
    BY DEF BooksInv
  <1> QED BY <1>1, <1>2

LEMMA SameBooks ==
  ASSUME BooksInv, BooksInv'
  PROVE  /\ UNCHANGED <<scenario, read, written>> => Counted' = Counted
         /\ UNCHANGED metrics => Pending' = Pending
         /\ UNCHANGED <<buffer, log>> => Unsent' = Unsent
         /\ UNCHANGED log => Filed' = Filed
  BY DEF BooksInv

\* A closed stream has written k of its messages and dropped the others.
LEMMA ClosingLoses ==
  ASSUME LogInv, BooksInv, BooksInv', LedgerInv, NEW k \in 0 .. Len(buffer), Writes(k),
         buffer' = <<>>, UNCHANGED <<scenario, read, written, metrics>>,
         ofs # "open" \/ ofs' # "open"
  PROVE  Ledger!Lose /\ LedgerKept
  <1>1. Counted' = Counted /\ Pending' = Pending
    BY SameBooks
  <1>2. ASSUME NEW n \in Counter
        PROVE  /\ Pending'[n] <= Pending[n] /\ Unsent'[n] <= Unsent[n]
               /\ Filed[n] <= Filed'[n]
               /\ Filed'[n] - Filed[n] <= Unsent[n] - Unsent'[n]
    <2>1. PICK moved \in Nat :
             /\ FiledOf(n, log') = FiledOf(n, log) + moved
             /\ UnsentOf(n, buffer, log) = UnsentOf(n, buffer, log') + moved
      BY StreamWrites
    <2>2. UnsentOf(n, buffer, log') \in Nat
      <3>1. AmountsOf(n, buffer)
        BY MessagesReport
      <3>2. AmountsOf(n, log')
        BY WritesIs DEF IsSent, AmountsOf
      <3> QED BY <3>1, <3>2, BooksTyped
    <2>3. Unsent'[n] = 0
      BY BooksBoth, EmptyBooks
    <2>4. /\ Filed'[n] = Filed[n] + moved
          /\ Unsent[n] = UnsentOf(n, buffer, log') + moved
      BY <2>1, BooksBoth
    <2>5. Filed[n] \in Nat /\ Unsent[n] \in Nat /\ Pending[n] \in Nat
      BY BookTypes
    <2> QED BY <1>1, <2>2, <2>3, <2>4, <2>5
  <1> QED BY <1>1, <1>2, LoseStep

\* A write that leaves the others where they are.
LEMMA WritingSettles ==
  ASSUME LogInv, BooksInv, BooksInv', LedgerInv, NEW k \in 0 .. Len(buffer), Writes(k),
         buffer' = buffer \/ (buffer' = <<>> /\ k = Len(buffer)),
         UNCHANGED <<scenario, read, written, metrics>>
  PROVE  Ledger!Settle /\ LedgerKept
  <1>1. Counted' = Counted /\ Pending' = Pending
    BY SameBooks
  <1>2. ASSUME NEW n \in Counter
        PROVE  /\ Unsent'[n] <= Unsent[n]
               /\ Unsent[n] - Unsent'[n] = Filed'[n] - Filed[n]
    <2>1. PICK moved \in Nat :
             /\ FiledOf(n, log') = FiledOf(n, log) + moved
             /\ UnsentOf(n, buffer, log) = UnsentOf(n, buffer, log') + moved
             /\ k = Len(buffer) => UnsentOf(n, buffer, log) = moved
      BY StreamWrites
    <2>2. /\ Filed[n] \in Nat /\ Unsent[n] \in Nat
          /\ Filed'[n] \in Nat /\ Unsent'[n] \in Nat
      BY BookTypes
    <2>3. Filed'[n] = Filed[n] + moved
      BY <2>1, BooksBoth
    <2>4. Unsent[n] = Unsent'[n] + moved
      <3>1. CASE buffer' = buffer
        BY <2>1, <3>1, BooksBoth
      <3>2. CASE buffer' = <<>> /\ k = Len(buffer)
        <4>1. Unsent'[n] = 0
          BY <3>2, BooksBoth, EmptyBooks
        <4>2. Unsent[n] = moved
          BY <2>1, <3>2, BooksBoth
        <4> QED BY <4>1, <4>2
      <3> QED BY <3>1, <3>2
    <2> QED BY <2>2, <2>3, <2>4
  <1> QED BY <1>1, <1>2, SettleStep

\* A component reports: into a stream that is open, or to nobody.
LEMMA Reports ==
  ASSUME FileInv, BooksInv, BooksInv', LedgerInv, Reporting,
         NEW l \in Range(Loggers), Report(l), UNCHANGED <<scenario, read, written>>
  PROVE  (Ledger!Hand \/ Ledger!Lose) /\ LedgerKept
  <1> DEFINE s == Sent(GetMetrics(Set(msg, "logger", l), l))
  <1>1. /\ ofs \in {"open", "failed"} /\ uuids > 0
        /\ "uuid" \in DOMAIN msg /\ msg.uuid = <<uuids>>
        /\ \A i \in 1 .. Len(log) : log[i].uuid # <<uuids>>
        /\ LogInv
    BY DEF FileInv, StreamInv
  <1>2. /\ s.uuid = <<uuids>> /\ IsSent(s, uuids)
        /\ \A n : Reported(s, n) = IF n \in Range(LoggerMetrics[l]) THEN metrics[n] ELSE 0
    <2>1. LET g == GetMetrics(Set(msg, "logger", l), l)
          IN  /\ Tidy(g) /\ "uuid" \in DOMAIN g /\ g.uuid = <<uuids>>
              /\ Sent(g).uuid = <<uuids>> /\ Sent(g).logger = l
              /\ IsSent(Sent(g), uuids)
              /\ \A n : Reported(Sent(g), n) =
                           IF n \in Range(LoggerMetrics[l]) THEN metrics[n] ELSE 0
      BY <1>1, ReportMade
    <2> QED BY <2>1
  <1>3. /\ metrics' = Reset(l)
        /\ buffer' = IF ofs = "open" THEN Append(buffer, s) ELSE buffer
        /\ UNCHANGED <<uuids, ofs, log>>
    BY DEF Report
  <1> HIDE DEF s
  <1>4. Counted' = Counted /\ Filed' = Filed
    BY <1>3, SameBooks
  <1>5. ASSUME NEW n \in Counter
        PROVE  /\ Pending[n] \in Nat /\ Reported(s, n) \in Nat
               /\ Reported(s, n) <= Pending[n]
               /\ Pending'[n] = Pending[n] - Reported(s, n)
    <2>1. Pending[n] \in Nat /\ Pending[n] = metrics[n] /\ Pending'[n] = metrics'[n]
      BY BookTypes, BooksBoth
    <2>2. metrics'[n] = IF n \in Range(LoggerMetrics[l]) THEN 0 ELSE metrics[n]
      BY <1>3, CountersAre DEF Reset
    <2>3. Reported(s, n) = IF n \in Range(LoggerMetrics[l]) THEN metrics[n] ELSE 0
      BY <1>2
    <2> QED BY <2>1, <2>2, <2>3
  <1>6. CASE ofs = "open"
    <2>1. Id(s) \notin Ids(log)
      <3>1. \A i \in DOMAIN log : log[i].uuid # s.uuid
        BY <1>1, <1>2, SequenceDomain DEF LogInv
      <3>2. \A i \in DOMAIN log : Id(log[i]) # Id(s)
        BY <3>1 DEF Id
      <3> QED BY <3>2 DEF Ids
    <2>2. ASSUME NEW n \in Counter
          PROVE  /\ Pending'[n] <= Pending[n]
                 /\ Pending[n] - Pending'[n] = Unsent'[n] - Unsent[n]
      <3>1. UnsentOf(n, Append(buffer, s), log) = UnsentOf(n, buffer, log) + Reported(s, n)
        <4>1. AmountsOf(n, buffer) /\ IsSequence(log) /\ Reported(s, n) \in Nat
          BY <1>1, <1>5, MessagesReport DEF LogInv
        <4> QED BY <2>1, <4>1, HandMoves
      <3>2. Unsent'[n] = Unsent[n] + Reported(s, n)
        BY <1>3, <1>6, <3>1, BooksBoth
      <3>3. Unsent[n] \in Nat
        BY BookTypes
      <3> QED BY <1>5, <3>2, <3>3
    <2> QED BY <1>3, <1>4, <2>2, HandStep
  <1>7. CASE ofs = "failed"
    <2>1. Unsent' = Unsent
      BY <1>3, <1>7, SameBooks
    <2>2. ASSUME NEW n \in Counter
          PROVE  /\ Pending'[n] <= Pending[n] /\ Unsent'[n] <= Unsent[n]
                 /\ Filed[n] <= Filed'[n]
                 /\ Filed'[n] - Filed[n] <= Unsent[n] - Unsent'[n]
      <3>1. Unsent[n] \in Nat /\ Filed[n] \in Nat
        BY BookTypes
      <3> QED BY <1>4, <1>5, <2>1, <3>1
    <2> QED BY <1>4, <1>7, <2>2, LoseStep
  <1> QED BY <1>1, <1>6, <1>7

LEMMA LedgerStep ==
  ASSUME FileInv, BooksInv, BooksInv', LedgerInv, [Next]_vars
  PROVE  [Ledger!LedgerNext]_Ledger!lvars /\ LedgerKept
<1>1. LogInv /\ Len(buffer) \in Nat
  BY DEF FileInv, LogInv, IsSequence
<1>2. ASSUME UNCHANGED <<scenario, read, written, metrics, ofs, buffer, log>>
      PROVE  [Ledger!LedgerNext]_Ledger!lvars /\ LedgerKept
  BY <1>2, SameBooks, NoStep
<1>3. CASE Configure \/ ConfigureThrows \/ Begin \/ RemoveFile \/ RemoveFileThrows \/ Roll
  <2>1. UNCHANGED <<scenario, read, written, metrics, ofs, buffer, log>>
    BY <1>3 DEF Configure, ConfigureThrows, Begin, RemoveFile, RemoveFileThrows, Roll,
                Go, LogIsOpen, observations, logVars
  <2> QED BY <1>2, <2>1
<1>4. CASE \/ Convert \/ Refuse \/ Throw
           \/ \E elapsed \in 0 .. 1 : Finish(elapsed) \/ FileSizeThrows(elapsed)
  <2>1. CountsOne
    BY <1>4, ReadingCounts
  <2>2. Unsent' = Unsent /\ Filed' = Filed /\ ofs' = ofs
    BY <2>1, SameBooks DEF CountsOne
  <2>3. ASSUME NEW n \in Counter
        PROVE  /\ Pending[n] <= Pending'[n]
               /\ Pending'[n] - Pending[n] = Counted'[n] - Counted[n]
    <3>1. PICK a \in Nat :
             /\ metrics'[n] = metrics[n] + a
             /\ CountedOf(scenario, n, read', written')
                   = CountedOf(scenario, n, read, written) + a
      BY <2>1 DEF CountsOne
    <3>2. scenario' = scenario
      BY <2>1 DEF CountsOne
    <3>3. Pending'[n] = Pending[n] + a /\ Counted'[n] = Counted[n] + a
      BY <3>1, <3>2, BooksBoth
    <3>4. Pending[n] \in Nat /\ Counted[n] \in Nat
      BY BookTypes
    <3> QED BY <3>3, <3>4
  <2>4. Ledger!Count /\ LedgerKept
    BY <2>2, <2>3, CountStep
  <2> QED BY <2>4 DEF Ledger!LedgerNext
<1>5. ASSUME NEW k, NEW opens, Go("roll", "cache"), RollLog(k, opens), UNCHANGED metrics
      PROVE  [Ledger!LedgerNext]_Ledger!lvars /\ LedgerKept
  <2>1. /\ k \in 0 .. Len(buffer) /\ Writes(k) /\ buffer' = <<>> /\ ofs # "open"
        /\ UNCHANGED <<scenario, read, written, metrics>>
    BY <1>5 DEF RollLog, Go
  <2>2. Ledger!Lose /\ LedgerKept
    BY <1>1, <2>1, ClosingLoses
  <2> QED BY <2>2 DEF Ledger!LedgerNext
<1>6. CASE Reopen
  BY <1>5, <1>6 DEF Reopen
<1>7. ASSUME NEW k \in 0 .. Len(buffer), NEW opens \in BOOLEAN, ReopenFails(k, opens)
      PROVE  [Ledger!LedgerNext]_Ledger!lvars /\ LedgerKept
  BY <1>5, <1>7 DEF ReopenFails
<1>8. ASSUME NEW l \in Range(Loggers), Report(l), NEW from, NEW to, Go(from, to),
             from \in {"cache", "record", "schema", "converter"}
      PROVE  [Ledger!LedgerNext]_Ledger!lvars /\ LedgerKept
  <2>1. Reporting /\ UNCHANGED <<scenario, read, written>>
    BY <1>8 DEF Go, Reporting
  <2>2. (Ledger!Hand \/ Ledger!Lose) /\ LedgerKept
    BY <1>8, <2>1, Reports
  <2> QED BY <2>2 DEF Ledger!LedgerNext
<1>9. CASE ReportCache
  BY <1>8, <1>9, LoggersAre DEF ReportCache
<1>10. CASE ReportRecord
  BY <1>8, <1>10, LoggersAre DEF ReportRecord
<1>11. CASE ReportSchema
  BY <1>8, <1>11, LoggersAre DEF ReportSchema
<1>12. CASE ReportConverter
  BY <1>8, <1>12, LoggersAre DEF ReportConverter
<1>13. ASSUME NEW k \in 0 .. Len(buffer), Writes(k), NEW from, NEW to, Go(from, to),
              buffer' = buffer \/ (buffer' = <<>> /\ k = Len(buffer)),
              UNCHANGED metrics
       PROVE  [Ledger!LedgerNext]_Ledger!lvars /\ LedgerKept
  <2>1. UNCHANGED <<scenario, read, written, metrics>>
    BY <1>13 DEF Go
  <2>2. Ledger!Settle /\ LedgerKept
    BY <1>1, <1>13, <2>1, WritingSettles
  <2> QED BY <2>2 DEF Ledger!LedgerNext
<1>14. CASE FlushLog
  <2> DEFINE k == IF ofs = "open" THEN Len(buffer) ELSE 0
  <2>1. /\ Writes(k) /\ buffer' = IF ofs = "open" THEN <<>> ELSE buffer
        /\ UNCHANGED metrics /\ Go("flush", "top")
    BY <1>14 DEF FlushLog, Flush
  <2>2. /\ k \in 0 .. Len(buffer)
        /\ buffer' = buffer \/ (buffer' = <<>> /\ k = Len(buffer))
    BY <1>1, <2>1
  <2> HIDE DEF k
  <2> QED BY <1>13, <2>1, <2>2
<1>15. ASSUME NEW k \in 0 .. Len(buffer), FlushLogFails(k)
       PROVE  [Ledger!LedgerNext]_Ledger!lvars /\ LedgerKept
  BY <1>13, <1>15 DEF FlushLogFails, FlushFails
<1>16. ASSUME NEW k \in 0 .. Len(buffer), Exit(k)
       PROVE  [Ledger!LedgerNext]_Ledger!lvars /\ LedgerKept
  <2>1. /\ Writes(k) /\ buffer' = <<>> /\ ofs' # "open"
        /\ UNCHANGED <<scenario, read, written, metrics>>
    BY <1>16 DEF Exit, Destroy, Go
  <2>2. Ledger!Lose /\ LedgerKept
    BY <1>1, <2>1, ClosingLoses
  <2> QED BY <2>2 DEF Ledger!LedgerNext
<1>17. CASE Crash
  <2>1. /\ metrics' = NoMetrics /\ ofs' = "closed" /\ buffer' = <<>> /\ log' = log
        /\ UNCHANGED <<scenario, read, written>>
    BY <1>17 DEF Crash, LogCrash
  <2>2. Counted' = Counted /\ Filed' = Filed
    BY <2>1, SameBooks
  <2>3. ASSUME NEW n \in Counter
        PROVE  /\ Pending'[n] <= Pending[n] /\ Unsent'[n] <= Unsent[n]
               /\ Filed[n] <= Filed'[n]
               /\ Filed'[n] - Filed[n] <= Unsent[n] - Unsent'[n]
    <3>1. Pending'[n] = 0
      BY <2>1, BooksBoth, CountersAre DEF NoMetrics
    <3>2. Unsent'[n] = 0
      BY <2>1, BooksBoth, EmptyBooks
    <3>3. Pending[n] \in Nat /\ Unsent[n] \in Nat /\ Filed[n] \in Nat
      BY BookTypes
    <3> QED BY <2>2, <3>1, <3>2, <3>3
  <2>4. Ledger!Lose /\ LedgerKept
    BY <2>1, <2>2, <2>3, LoseStep
  <2> QED BY <2>4 DEF Ledger!LedgerNext
<1>18. CASE UNCHANGED vars
  <2>1. UNCHANGED <<scenario, read, written, metrics, ofs, buffer, log>>
    BY <1>18 DEF vars, observations, logVars
  <2> QED BY <1>2, <2>1
<1> QED
  BY <1>3, <1>4, <1>6, <1>7, <1>9, <1>10, <1>11, <1>12, <1>14, <1>15, <1>16, <1>17,
     <1>18 DEF Next

LEMMA LedgerStarts == Init => Ledger!LedgerInit /\ LedgerInv
  <1> SUFFICES ASSUME Init PROVE Ledger!LedgerInit /\ LedgerInv
    OBVIOUS
  <1>1. BooksInv
    BY InitProcess, InitRead, InitLog, BooksAre DEF FileInv
  <1>2. /\ read = <<>> /\ written = <<>> /\ buffer = <<>> /\ log = <<>>
        /\ metrics = NoMetrics /\ ofs = "closed"
    BY DEF Init, LogInit
  <1>3. ASSUME NEW n \in Counter
        PROVE  Counted[n] = 0 /\ Pending[n] = 0 /\ Unsent[n] = 0 /\ Filed[n] = 0
    <2>1. CountedOf(scenario, n, <<>>, <<>>) = 0
      <3>1. DOMAIN <<>> = {} /\ 1 .. Len(<<>>) = {}
        BY EmptySequence, SequenceDomain
      <3>2. \A f : DOMAIN f = {} => SumFunction(f) = 0
        BY SumOfNone DEF SumFunction
      <3>3. LinesOf(<<>>) = 0
        BY <3>1, <3>2 DEF LinesOf
      <3>4. RecordsOf(scenario, n, <<>>) = 0
        BY <3>1, <3>2 DEF RecordsOf
      <3> QED BY <3>3, <3>4 DEF CountedOf
    <2>2. UnsentOf(n, <<>>, <<>>) = 0 /\ FiledOf(n, <<>>) = 0
      BY EmptyBooks
    <2>3. metrics[n] = 0
      BY <1>2, CountersAre DEF NoMetrics
    <2> QED BY <1>1, <1>2, <2>1, <2>2, <2>3 DEF BooksInv
  <1>4. /\ Counted = Ledger!None /\ Pending = Ledger!None
        /\ Unsent = Ledger!None /\ Filed = Ledger!None
    BY <1>1, <1>3 DEF BooksInv, Ledger!None
  <1>5. LedgerInv
    BY <1>3 DEF LedgerInv, Missing
  <1> QED BY <1>2, <1>4, <1>5 DEF Ledger!LedgerInit

\* Whatever the files, the records and the faults: what happens is counted
\* once, waits, and is filed once; only what is reported while the log stream
\* is not in order may be missing from the log (convert.cpp:184-352, Metric.cpp).
THEOREM ConverterKeepsLedger == Spec => ImplementsLedger
  <1>1. Init => Ledger!LedgerInit /\ LedgerInv
    BY LedgerStarts
  <1>2. BooksInv /\ BooksInv' /\ FileInv /\ LedgerInv /\ [Next]_vars
           => [Ledger!LedgerNext]_Ledger!lvars /\ LedgerInv'
    BY LedgerStep DEF LedgerKept
  <1>3. FileInv => BooksInv
    BY BooksAre
  <1> QED
    BY <1>1, <1>2, <1>3, FileInvariant, PTL DEF Spec, ImplementsLedger, Ledger!LedgerSpec

\* Whatever the files, the records, the streams that fail and the messages that
\* are written again: no event is in the metrics, in the stream and in the log
\* more often than it happened (Metric.cpp, convert.cpp:184-352).
THEOREM NothingIsTwice == Spec => []NothingTwice
  <1>1. Init => LedgerInv
    BY LedgerStarts
  <1>2. BooksInv /\ BooksInv' /\ FileInv /\ LedgerInv /\ [Next]_vars => LedgerInv'
    BY LedgerStep DEF LedgerKept
  <1>3. FileInv => BooksInv
    BY BooksAre
  <1>4. LedgerInv => NothingTwice
    BY DEF LedgerInv, NothingTwice
  <1> QED
    BY <1>1, <1>2, <1>3, <1>4, FileInvariant, PTL DEF Spec

\* An event that has been counted and is no longer on its way to the log is
\* there: it can get lost only in a step that finds the log unable to be written
\* or leaves it so (convert.cpp:184-233, Metric.cpp).
THEOREM LossNeedsCause == Spec => LossNeedsBrokenLog
  <1>1. Init => LedgerInv
    BY LedgerStarts
  <1>2. BooksInv /\ BooksInv' /\ FileInv /\ LedgerInv /\ [Next]_vars
           => LedgerInv' /\ [ofs = "open" /\ ofs' = "open" => UNCHANGED Missing]_vars
    BY LedgerStep DEF LedgerKept
  <1>3. FileInv => BooksInv
    BY BooksAre
  <1> QED
    BY <1>1, <1>2, <1>3, FileInvariant, PTL DEF Spec, LossNeedsBrokenLog

-----------------------------------------------------------------------------
(***************************************************************************)
(* Powers of ten.                                                          *)
(***************************************************************************)

PowersUpTo(g, k) == g = [n \in 0 .. k |-> IF n = 0 THEN 1 ELSE 10 * g[n - 1]]

LEMMA PowersExist ==
  ASSUME NEW k \in Nat
  PROVE  \E g : PowersUpTo(g, k)
  <1> DEFINE Good == {m \in 0 .. k : \E g : PowersUpTo(g, m)}
  <1>1. 0 \in Good
    <2>1. PowersUpTo([n \in 0 .. 0 |-> 1], 0)
      BY DEF PowersUpTo
    <2> QED BY <2>1
  <1>2. ASSUME NEW m \in 0 .. k, m \in Good, m < k
        PROVE  m + 1 \in Good
    <2>1. PICK g : PowersUpTo(g, m)
      BY <1>2
    <2> DEFINE h == [n \in 0 .. m + 1 |-> IF n <= m THEN g[n] ELSE 10 * g[n - 1]]
    <2>2. ASSUME NEW n \in 0 .. m + 1
          PROVE  h[n] = IF n = 0 THEN 1 ELSE 10 * h[n - 1]
      <3>1. n # 0 => n - 1 \in 0 .. m /\ h[n - 1] = g[n - 1]
        OBVIOUS
      <3>2. CASE n <= m
        <4>1. n \in 0 .. m /\ h[n] = g[n]
          BY <3>2
        <4>2. g[n] = IF n = 0 THEN 1 ELSE 10 * g[n - 1]
          BY <2>1, <4>1 DEF PowersUpTo
        <4> HIDE DEF h
        <4> QED BY <3>1, <4>1, <4>2
      <3>3. CASE n > m
        <4>1. n # 0 /\ h[n] = 10 * g[n - 1]
          BY <3>3
        <4> HIDE DEF h
        <4> QED BY <3>1, <4>1
      <3> QED BY <3>2, <3>3
    <2>3. DOMAIN h = 0 .. m + 1 /\ h = [n \in DOMAIN h |-> h[n]]
      OBVIOUS
    <2> HIDE DEF h
    <2>4. PowersUpTo(h, m + 1)
      BY <2>2, <2>3 DEF PowersUpTo
    <2> QED BY <1>2, <2>4
  <1>3. k \in Good
    <2> HIDE DEF Good
    <2>1. \A m \in 0 .. k : m \in Good /\ m < k => m + 1 \in Good
      BY <1>2
    <2>2. 0 .. k \subseteq Good
      BY <1>1, <2>1, InductionUpTo
    <2> QED BY <2>2
  <1> QED BY <1>3

LEMMA PowersAgree ==
  ASSUME NEW k \in Nat, NEW m \in Nat, k <= m, NEW g, PowersUpTo(g, k),
         NEW h, PowersUpTo(h, m)
  PROVE  g[k] = h[k]
  <1> DEFINE Good == {j \in 0 .. k : g[j] = h[j]}
  <1>1. ASSUME NEW j \in 0 .. k
        PROVE  /\ g[j] = IF j = 0 THEN 1 ELSE 10 * g[j - 1]
               /\ h[j] = IF j = 0 THEN 1 ELSE 10 * h[j - 1]
    <2>1. j \in 0 .. k /\ j \in 0 .. m
      OBVIOUS
    <2> QED BY <2>1 DEF PowersUpTo
  <1>2. 0 \in Good
    <2>1. 0 \in 0 .. k
      OBVIOUS
    <2>2. g[0] = h[0]
      BY <1>1, <2>1
    <2> QED BY <2>1, <2>2
  <1>3. ASSUME NEW j \in 0 .. k, j \in Good, j < k
        PROVE  j + 1 \in Good
    <2>1. j + 1 \in 0 .. k /\ j + 1 # 0 /\ (j + 1) - 1 = j
      BY <1>3
    <2>2. g[j + 1] = 10 * g[j] /\ h[j + 1] = 10 * h[j]
      BY <1>1, <2>1
    <2>3. g[j + 1] = h[j + 1]
      BY <1>3, <2>2
    <2> QED BY <2>1, <2>3
  <1>4. k \in Good
    <2> HIDE DEF Good
    <2>1. \A j \in 0 .. k : j \in Good /\ j < k => j + 1 \in Good
      BY <1>3
    <2>2. 0 .. k \subseteq Good
      BY <1>2, <2>1, InductionUpTo
    <2> QED BY <2>2
  <1> QED BY <1>4

LEMMA TenToIs ==
  ASSUME NEW n \in Nat
  PROVE  TenTo[n] = IF n = 0 THEN 1 ELSE 10 * TenTo[n - 1]
  <1> DEFINE Solution(f) == f = [k \in Nat |-> IF k = 0 THEN 1 ELSE 10 * f[k - 1]]
             g(k) == CHOOSE g : PowersUpTo(g, k)
             f == [k \in Nat |-> g(k)[k]]
  <1>1. \A k \in Nat : PowersUpTo(g(k), k)
    BY PowersExist
  <1>2. ASSUME NEW k \in Nat
        PROVE  f[k] = IF k = 0 THEN 1 ELSE 10 * f[k - 1]
    <2>1. g(k)[k] = IF k = 0 THEN 1 ELSE 10 * g(k)[k - 1]
      <3>1. k \in 0 .. k
        OBVIOUS
      <3> HIDE DEF g
      <3> QED BY <1>1, <3>1 DEF PowersUpTo
    <2>2. k # 0 => g(k)[k - 1] = f[k - 1]
      <3> SUFFICES ASSUME k # 0 PROVE g(k)[k - 1] = f[k - 1]
        OBVIOUS
      <3> DEFINE t == k - 1
      <3>1. t \in Nat /\ t <= k
        OBVIOUS
      <3> HIDE DEF t, g
      <3>2. g(t)[t] = g(k)[t]
        BY <1>1, <3>1, PowersAgree
      <3> QED BY <3>1, <3>2 DEF t
    <2> HIDE DEF g
    <2> QED BY <2>1, <2>2
  <1>3. Solution(f)
    <2>1. DOMAIN f = Nat /\ f = [k \in DOMAIN f |-> f[k]]
      OBVIOUS
    <2> HIDE DEF f
    <2> QED BY <1>2, <2>1
  <1>4. Solution(TenTo)
    <2>1. TenTo = CHOOSE h : Solution(h)
      BY DEF TenTo
    <2> HIDE DEF f, Solution
    <2> QED BY <1>3, <2>1
  <1> HIDE DEF f, g
  <1> QED BY <1>4

LEMMA Power ==
  ASSUME NEW k \in Nat
  PROVE  TenTo[k] \in Nat \ {0} /\ TenTo[k + 1] = 10 * TenTo[k]
  <1> DEFINE Good == {j \in 0 .. k : TenTo[j] \in Nat \ {0}}
  <1>1. 0 \in Good
    BY TenToIs
  <1>2. \A j \in Nat : TenTo[j + 1] = 10 * TenTo[j]
    <2> SUFFICES ASSUME NEW j \in Nat PROVE TenTo[j + 1] = 10 * TenTo[j]
      OBVIOUS
    <2>1. j + 1 \in Nat /\ j + 1 # 0 /\ (j + 1) - 1 = j
      OBVIOUS
    <2> QED BY <2>1, TenToIs
  <1>3. ASSUME NEW j \in 0 .. k, j \in Good, j < k
        PROVE  j + 1 \in Good
    <2>1. TenTo[j] \in Nat \ {0} /\ TenTo[j + 1] = 10 * TenTo[j]
      BY <1>2, <1>3
    <2>2. TenTo[j + 1] \in Nat \ {0}
      BY <2>1
    <2> QED BY <1>3, <2>2
  <1>4. k \in Good
    <2> HIDE DEF Good
    <2>1. \A j \in 0 .. k : j \in Good /\ j < k => j + 1 \in Good
      BY <1>3
    <2>2. 0 .. k \subseteq Good
      BY <1>1, <2>1, InductionUpTo
    <2> QED BY <2>2
  <1> QED BY <1>2, <1>4

-----------------------------------------------------------------------------
(***************************************************************************)
(* Digits, and the number that a row of them denotes.                      *)
(***************************************************************************)

Digits == {Digit(n) : n \in 0 .. 9}

LEMMA DigitIs ==
  ASSUME NEW n \in 0 .. 9
  PROVE  /\ Digit(n) \in Digits /\ Digit(n) \in DOMAIN DigitValue
         /\ Digit(n) # "." /\ Digit(n) # "-"
         /\ DigitValue[Digit(n)] = n
  <1>1. Digit(n) # "." /\ Digit(n) # "-"
    BY DEF Digit
  <1>2. \A m \in 0 .. 9 : Digit(m) = Digit(n) => m = n
    BY DEF Digit
  <1>3. Digit(n) \in Digits
    BY DEF Digits
  <1>4. DigitValue = [c \in Digits |-> CHOOSE m \in 0 .. 9 : Digit(m) = c]
    BY DEF DigitValue, Digits
  <1>5. (CHOOSE m \in 0 .. 9 : Digit(m) = Digit(n)) = n
    BY <1>2
  <1> QED BY <1>1, <1>3, <1>4, <1>5

ReadsUpTo(v, digits, k) ==
    v = [i \in 0 .. k |-> IF i = 0 THEN 0 ELSE 10 * v[i - 1] + DigitValue[digits[i]]]

LEMMA ReadingExists ==
  ASSUME NEW digits, NEW k \in Nat
  PROVE  \E v : ReadsUpTo(v, digits, k)
  <1> DEFINE Good == {m \in 0 .. k : \E v : ReadsUpTo(v, digits, m)}
             D(i) == DigitValue[digits[i]]
  <1>1. 0 \in Good
    <2>1. ReadsUpTo([i \in 0 .. 0 |-> 0], digits, 0)
      BY DEF ReadsUpTo
    <2> QED BY <2>1
  <1>2. ASSUME NEW m \in 0 .. k, m \in Good, m < k
        PROVE  m + 1 \in Good
    <2>1. PICK g : ReadsUpTo(g, digits, m)
      BY <1>2
    <2>2. g = [i \in 0 .. m |-> IF i = 0 THEN 0 ELSE 10 * g[i - 1] + D(i)]
      BY <2>1 DEF ReadsUpTo
    <2> HIDE DEF D
    <2> DEFINE h == [i \in 0 .. m + 1 |-> IF i <= m THEN g[i] ELSE 10 * g[i - 1] + D(i)]
    <2>3. ASSUME NEW n \in 0 .. m + 1
          PROVE  h[n] = IF n = 0 THEN 0 ELSE 10 * h[n - 1] + D(n)
      <3>1. n # 0 => n - 1 \in 0 .. m /\ h[n - 1] = g[n - 1]
        OBVIOUS
      <3>2. CASE n <= m
        <4>1. n \in 0 .. m /\ h[n] = g[n]
          BY <3>2
        <4>2. g[n] = IF n = 0 THEN 0 ELSE 10 * g[n - 1] + D(n)
          BY <2>2, <4>1
        <4> HIDE DEF h
        <4> QED BY <3>1, <4>1, <4>2
      <3>3. CASE n > m
        <4>1. n # 0 /\ h[n] = 10 * g[n - 1] + D(n)
          BY <3>3
        <4> HIDE DEF h
        <4> QED BY <3>1, <4>1
      <3> QED BY <3>2, <3>3
    <2>4. DOMAIN h = 0 .. m + 1 /\ h = [n \in DOMAIN h |-> h[n]]
      OBVIOUS
    <2> HIDE DEF h
    <2>5. h = [i \in 0 .. m + 1 |-> IF i = 0 THEN 0 ELSE 10 * h[i - 1] + D(i)]
      BY <2>3, <2>4
    <2>6. ReadsUpTo(h, digits, m + 1)
      BY <2>5 DEF ReadsUpTo, D
    <2> QED BY <1>2, <2>6
  <1>3. k \in Good
    <2> HIDE DEF Good
    <2>1. \A m \in 0 .. k : m \in Good /\ m < k => m + 1 \in Good
      BY <1>2
    <2>2. 0 .. k \subseteq Good
      BY <1>1, <2>1, InductionUpTo
    <2> QED BY <2>2
  <1> QED BY <1>3

LEMMA ValueIs ==
  ASSUME NEW digits, Len(digits) \in Nat
  PROVE  \E v : ReadsUpTo(v, digits, Len(digits)) /\ Value(digits) = v[Len(digits)]
  <1> DEFINE v == CHOOSE v : ReadsUpTo(v, digits, Len(digits))
  <1>1. ReadsUpTo(v, digits, Len(digits))
    BY ReadingExists
  <1>2. Value(digits) = v[Len(digits)]
    BY DEF Value, ReadsUpTo
  <1> HIDE DEF v
  <1> QED BY <1>1, <1>2

LEMMA ValueOfNone ==
  ASSUME NEW digits, Len(digits) = 0
  PROVE  Value(digits) = 0
  <1>1. PICK v : ReadsUpTo(v, digits, 0) /\ Value(digits) = v[0]
    BY ValueIs
  <1> QED BY <1>1 DEF ReadsUpTo

\* One more digit behind the others.
LEMMA ValueOfNext ==
  ASSUME NEW s, Len(s) \in Nat, NEW t, Len(t) = Len(s) + 1,
         \A i \in 1 .. Len(s) : t[i] = s[i]
  PROVE  Value(t) = 10 * Value(s) + DigitValue[t[Len(s) + 1]]
  <1> DEFINE m == Len(s)
  <1>0. m \in Nat /\ Len(t) = m + 1 /\ \A i \in 1 .. m : t[i] = s[i]
    OBVIOUS
  <1>1. PICK v : ReadsUpTo(v, s, m) /\ Value(s) = v[m]
    BY ValueIs
  <1>2. PICK w : ReadsUpTo(w, t, m + 1) /\ Value(t) = w[m + 1]
    BY ValueIs
  <1> HIDE DEF m
  <1> DEFINE Good == {j \in 0 .. m : v[j] = w[j]}
  <1>3. 0 \in Good
    BY <1>0, <1>1, <1>2 DEF ReadsUpTo
  <1>4. ASSUME NEW j \in 0 .. m, j \in Good, j < m
        PROVE  j + 1 \in Good
    <2>1. j + 1 \in 1 .. m /\ j + 1 \in 0 .. m /\ j + 1 \in 0 .. m + 1 /\ (j + 1) - 1 = j
      BY <1>0, <1>4
    <2>2. v[j + 1] = 10 * v[j] + DigitValue[s[j + 1]]
      BY <1>1, <2>1 DEF ReadsUpTo
    <2>3. w[j + 1] = 10 * w[j] + DigitValue[t[j + 1]]
      <3> DEFINE n == m + 1
                 i == j + 1
      <3>1. ReadsUpTo(w, t, n) /\ i \in 0 .. n /\ i # 0 /\ i - 1 = j
        BY <1>2, <2>1
      <3> HIDE DEF n, i
      <3>2. w[i] = 10 * w[i - 1] + DigitValue[t[i]]
        BY <3>1 DEF ReadsUpTo
      <3> QED BY <3>1, <3>2 DEF i
    <2>4. v[j + 1] = w[j + 1]
      BY <1>0, <1>4, <2>1, <2>2, <2>3
    <2> QED BY <2>1, <2>4
  <1>5. m \in Good
    <2> HIDE DEF Good
    <2>1. \A j \in 0 .. m : j \in Good /\ j < m => j + 1 \in Good
      BY <1>4
    <2>2. 0 .. m \subseteq Good
      BY <1>0, <1>3, <2>1, InductionUpTo
    <2> QED BY <1>0, <2>2
  <1>6. w[m + 1] = 10 * w[m] + DigitValue[t[m + 1]]
    <2>1. m + 1 \in 0 .. m + 1 /\ m + 1 # 0 /\ (m + 1) - 1 = m
      BY <1>0
    <2> QED BY <1>2, <2>1 DEF ReadsUpTo
  <1> QED BY <1>1, <1>2, <1>5, <1>6 DEF m

IsNumeral(s, n) == s \in Seq(Digits) /\ Len(s) > 0 /\ Value(s) = n

LEMMA Tens ==
  ASSUME NEW q \in Nat
  PROVE  q \div 10 \in Nat /\ q % 10 \in 0 .. 9 /\ q = 10 * (q \div 10) + (q % 10)
  OBVIOUS

\* A row of digits with one more of them.
LEMMA OneMoreDigit ==
  ASSUME NEW s \in Seq(Digits), NEW d \in 0 .. 9
  PROVE  /\ Append(s, Digit(d)) \in Seq(Digits) /\ Len(Append(s, Digit(d))) > 0
         /\ Value(Append(s, Digit(d))) = 10 * Value(s) + d
  <1> DEFINE c == Digit(d)
             t == Append(s, c)
  <1>1. c \in Digits /\ DigitValue[c] = d
    BY DigitIs
  <1> HIDE DEF c
  <1>2. /\ Len(s) \in Nat /\ t \in Seq(Digits) /\ Len(t) = Len(s) + 1
        /\ \A i \in 1 .. Len(s) : t[i] = s[i]
        /\ t[Len(s) + 1] = c
    BY <1>1
  <1> HIDE DEF t
  <1>3. Value(t) = 10 * Value(s) + DigitValue[t[Len(s) + 1]]
    BY <1>2, ValueOfNext
  <1>4. Value(t) = 10 * Value(s) + d
    BY <1>1, <1>2, <1>3
  <1> QED BY <1>2, <1>4 DEF t, c

\* What is written for a number denotes it.
LEMMA NumberReads ==
  ASSUME NEW k \in Nat
  PROVE  IsNumeral(NumberText[k], k)
  <1> DEFINE Good == {j \in 0 .. k : \A i \in 0 .. j : IsNumeral(NumberText[i], i)}
  <1>1. ASSUME NEW j \in 0 .. k, \A i \in 0 .. j - 1 : IsNumeral(NumberText[i], i)
        PROVE  IsNumeral(NumberText[j], j)
    <2> DEFINE text == NumberText[j]
               shorter == NumberText[j \div 10]
    <2>0. text = IF j < 10 THEN <<Digit(j)>> ELSE Append(shorter, Digit(j % 10))
      <3>1. j \in Nat
        OBVIOUS
      <3> QED BY <3>1, NumberTextIs
    <2>1. CASE j < 10
      <3>1. j \in 0 .. 9
        BY <2>1
      <3>2. text = Append(<<>>, Digit(j))
        <4>1. Append(<<>>, Digit(j)) = <<Digit(j)>>
          OBVIOUS
        <4> HIDE DEF text, shorter
        <4> QED BY <2>0, <2>1, <4>1
      <3>3. <<>> \in Seq(Digits) /\ Value(<<>>) = 0
        BY ValueOfNone
      <3>4. /\ Append(<<>>, Digit(j)) \in Seq(Digits) /\ Len(Append(<<>>, Digit(j))) > 0
            /\ Value(Append(<<>>, Digit(j))) = 10 * Value(<<>>) + j
        BY <3>1, <3>3, OneMoreDigit
      <3>5. 10 * Value(<<>>) + j = j
        BY <3>3
      <3> HIDE DEF text
      <3>6. IsNumeral(text, j)
        BY <3>2, <3>4, <3>5 DEF IsNumeral
      <3> QED BY <3>6 DEF text
    <2>2. CASE j >= 10
      <3>1. j \div 10 \in 0 .. j - 1 /\ j % 10 \in 0 .. 9 /\ 10 * (j \div 10) + (j % 10) = j
        <4>1. j \in Nat
          OBVIOUS
        <4>2. j \div 10 \in Nat /\ j \div 10 < j
          BY <2>2, <4>1, Tenth
        <4>3. j % 10 \in 0 .. 9 /\ j = 10 * (j \div 10) + (j % 10)
          BY <4>1, Tens
        <4> DEFINE q == j \div 10
                   d == j % 10
        <4> HIDE DEF q, d
        <4>4. q \in 0 .. j - 1 /\ 10 * q + d = j
          BY <4>1, <4>2, <4>3 DEF q, d
        <4> QED BY <4>3, <4>4 DEF q, d
      <3>2. text = Append(shorter, Digit(j % 10))
        <4> HIDE DEF text, shorter
        <4> QED BY <2>0, <2>2
      <3>3. shorter \in Seq(Digits) /\ Value(shorter) = j \div 10
        BY <1>1, <3>1 DEF IsNumeral
      <3> DEFINE d == j % 10
                 q == j \div 10
      <3>4. d \in 0 .. 9 /\ 10 * q + d = j
        BY <3>1
      <3> HIDE DEF d, shorter, text
      <3>5. /\ Append(shorter, Digit(d)) \in Seq(Digits) /\ Len(Append(shorter, Digit(d))) > 0
            /\ Value(Append(shorter, Digit(d))) = 10 * Value(shorter) + d
        BY <3>3, <3>4, OneMoreDigit
      <3>6. IsNumeral(text, j)
        BY <3>2, <3>3, <3>4, <3>5 DEF IsNumeral, d
      <3> QED BY <3>6 DEF text
    <2> QED BY <2>1, <2>2
  <1>2. 0 \in Good
    <2>1. \A i \in 0 .. 0 - 1 : IsNumeral(NumberText[i], i)
      OBVIOUS
    <2>2. 0 \in 0 .. k
      OBVIOUS
    <2>3. IsNumeral(NumberText[0], 0)
      BY <1>1, <2>1, <2>2
    <2> QED BY <2>2, <2>3
  <1>3. ASSUME NEW j \in 0 .. k, j \in Good, j < k
        PROVE  j + 1 \in Good
    <2>1. j + 1 \in 0 .. k /\ \A i \in 0 .. (j + 1) - 1 : IsNumeral(NumberText[i], i)
      BY <1>3
    <2>2. IsNumeral(NumberText[j + 1], j + 1)
      BY <1>1, <2>1
    <2> QED BY <2>1, <2>2
  <1>4. k \in Good
    <2> HIDE DEF Good
    <2>1. \A j \in 0 .. k : j \in Good /\ j < k => j + 1 \in Good
      BY <1>3
    <2>2. 0 .. k \subseteq Good
      BY <1>2, <2>1, InductionUpTo
    <2> QED BY <2>2
  <1> QED BY <1>4

-----------------------------------------------------------------------------
(***************************************************************************)
(* The fraction: its last zeros are left out.                              *)
(***************************************************************************)

LEMMA Divided ==
  ASSUME NEW a \in Nat, NEW b \in Nat \ {0}
  PROVE  /\ a \div b \in Nat
         /\ a \div b = 10 * (a \div (10 * b)) + ((a \div b) % 10)
         /\ a < b => a \div b = 0
         /\ a % b = 0 => (a \div b) * b = a
         /\ a % b = 0 /\ (a \div b) % 10 = 0 => a % (10 * b) = 0
         /\ (a \div b) % 10 \in 0 .. 9
  <1> DEFINE q == a \div b
             r == a % b
  <1>1. q \in Nat /\ r \in 0 .. b - 1 /\ a = b * q + r
    OBVIOUS
  <1>2. q \div 10 = a \div (10 * b)
    OBVIOUS
  <1>3. a < b => q = 0
    OBVIOUS
  <1> HIDE DEF q, r
  <1>4. q = 10 * (q \div 10) + (q % 10) /\ q % 10 \in 0 .. 9
    BY <1>1, Tens
  <1>5. r = 0 => q * b = a
    BY <1>1
  <1>6. r = 0 /\ q % 10 = 0 => a % (10 * b) = 0
    <2> SUFFICES ASSUME r = 0, q % 10 = 0 PROVE a % (10 * b) = 0
      OBVIOUS
    <2> DEFINE s == q \div 10
               c == 10 * b
    <2>1. s \in Nat /\ q = 10 * s
      BY <1>1, <1>4
    <2>2. b * (10 * s) = (10 * b) * s
      BY <2>1
    <2>3. a = c * s + 0 /\ c \in Nat \ {0}
      BY <1>1, <2>1, <2>2
    <2> HIDE DEF s, c
    <2>4. a % c = 0
      BY <2>1, <2>3
    <2> QED BY <2>4 DEF c
  <1> QED BY <1>1, <1>2, <1>3, <1>4, <1>5, <1>6 DEF q, r

\* What the digits i of a fraction are taken from.
Leading(f, i) == f \div TenTo[Precision - i]

LEMMA LeadingIs ==
  ASSUME NEW f \in 0 .. magnitude - 1
  PROVE  /\ Leading(f, 0) = 0
         /\ \A i \in 0 .. Precision : Leading(f, i) \in Nat
         /\ \A i \in 1 .. Precision :
               /\ FractionDigit(f, i) \in 0 .. 9
               /\ Leading(f, i) = 10 * Leading(f, i - 1) + FractionDigit(f, i)
  <1>1. Precision \in Nat \ {0} /\ magnitude \in Nat \ {0} /\ magnitude = TenTo[Precision]
    BY PrecisionAssumption, MagnitudeAssumption
  <1>2. f \in Nat /\ f < magnitude
    BY <1>1
  <1>3. Leading(f, 0) = 0
    <2>1. f \div magnitude = 0
      BY <1>1, <1>2, Divided
    <2> QED BY <1>1, <2>1 DEF Leading
  <1>4. ASSUME NEW i \in 0 .. Precision
        PROVE  Leading(f, i) \in Nat
    <2>1. Precision - i \in Nat
      BY <1>1
    <2>2. TenTo[Precision - i] \in Nat \ {0}
      BY <2>1, Power
    <2> QED BY <1>2, <2>2, Divided DEF Leading
  <1>5. ASSUME NEW i \in 1 .. Precision
        PROVE  /\ FractionDigit(f, i) \in 0 .. 9
               /\ Leading(f, i) = 10 * Leading(f, i - 1) + FractionDigit(f, i)
    <2> DEFINE k == Precision - i
               b == TenTo[k]
    <2>1. k \in Nat /\ Precision - (i - 1) = k + 1
      BY <1>1
    <2>2. b \in Nat \ {0} /\ TenTo[k + 1] = 10 * b
      BY <2>1, Power
    <2> HIDE DEF k
    <2>3. Leading(f, i) = f \div b /\ FractionDigit(f, i) = (f \div b) % 10
      BY DEF Leading, FractionDigit, k
    <2>4. Leading(f, i - 1) = f \div (10 * b)
      BY <2>1, <2>2 DEF Leading
    <2> HIDE DEF b
    <2>5. f \div b = 10 * (f \div (10 * b)) + ((f \div b) % 10) /\ (f \div b) % 10 \in 0 .. 9
      BY <1>2, <2>2, Divided
    <2> DEFINE x == f \div b
               y == f \div (10 * b)
               z == (f \div b) % 10
    <2> HIDE DEF x, y, z
    <2>6. Leading(f, i) = x /\ FractionDigit(f, i) = z /\ Leading(f, i - 1) = y
      BY <2>3, <2>4 DEF x, y, z
    <2>7. x = 10 * y + z /\ z \in 0 .. 9
      BY <2>5 DEF x, y, z
    <2> QED BY <2>6, <2>7
  <1> QED BY <1>3, <1>4, <1>5

\* Behind the last digit that is no 0 nothing is left of the fraction.
LEMMA LastIs ==
  ASSUME NEW f \in 0 .. magnitude - 1
  PROVE  /\ LastNonzero(f) \in 0 .. Precision
         /\ f # 0 => LastNonzero(f) # 0
         /\ Leading(f, LastNonzero(f)) * TenTo[Precision - LastNonzero(f)] = f
  <1> DEFINE S == {i \in 0 .. Precision : i = 0 \/ FractionDigit(f, i) # 0}
             last == LastNonzero(f)
  <1>1. Precision \in Nat \ {0} /\ magnitude \in Nat \ {0} /\ magnitude = TenTo[Precision]
    BY PrecisionAssumption, MagnitudeAssumption
  <1>2. Max(S) \in S /\ \A i \in S : i <= Max(S)
    <2>1. S \subseteq 0 .. Precision /\ 0 \in S
      BY <1>1
    <2> HIDE DEF S
    <2> QED BY <1>1, <2>1, Greatest
  <1>3. last \in 0 .. Precision /\ \A j \in last + 1 .. Precision : FractionDigit(f, j) = 0
    <2>1. /\ Max(S) \in 0 .. Precision
          /\ Max(S) = 0 \/ FractionDigit(f, Max(S)) # 0
      BY <1>2
    <2>2. ASSUME NEW j \in Max(S) + 1 .. Precision
          PROVE  FractionDigit(f, j) = 0
      <3>1. j \in 0 .. Precision /\ ~(j <= Max(S))
        BY <1>1, <2>1
      <3>2. j \notin S
        BY <1>2, <3>1
      <3> QED BY <3>1, <3>2
    <2> HIDE DEF S
    <2> QED BY <2>1, <2>2 DEF LastNonzero
  <1> HIDE DEF last
  <1>4. f \in Nat /\ last \in Nat /\ last <= Precision /\ Precision - last \in Nat
    BY <1>1, <1>3
  <1> DEFINE m == Precision - last
             Good == {k \in 0 .. m : f % TenTo[k] = 0}
  <1>5. 0 \in Good
    <2>1. TenTo[0] = 1
      BY TenToIs
    <2> QED BY <1>4, <2>1
  <1>6. ASSUME NEW k \in 0 .. m, k \in Good, k < m
        PROVE  k + 1 \in Good
    <2> DEFINE b == TenTo[k]
               i == Precision - k
    <2>1. k \in Nat /\ i \in last + 1 .. Precision /\ Precision - i = k
      BY <1>1, <1>4, <1>6
    <2>2. b \in Nat \ {0} /\ TenTo[k + 1] = 10 * b /\ f % b = 0
      BY <1>6, <2>1, Power
    <2>3. (f \div b) % 10 = 0
      <3> HIDE DEF i
      <3>1. FractionDigit(f, i) = 0
        BY <1>3, <2>1
      <3> QED BY <2>1, <3>1 DEF FractionDigit
    <2> HIDE DEF b
    <2>4. f % (10 * b) = 0
      BY <1>4, <2>2, <2>3, Divided
    <2>5. k + 1 \in 0 .. m
      BY <1>4, <1>6
    <2> QED BY <2>2, <2>4, <2>5
  <1>7. f % TenTo[m] = 0
    <2> HIDE DEF Good
    <2>1. \A k \in 0 .. m : k \in Good /\ k < m => k + 1 \in Good
      BY <1>6
    <2>2. m \in Nat
      BY <1>4
    <2> HIDE DEF m
    <2>3. 0 .. m \subseteq Good
      BY <1>5, <2>1, <2>2, InductionUpTo
    <2> QED BY <2>2, <2>3 DEF Good
  <1>8. Leading(f, last) * TenTo[m] = f
    <2> DEFINE b == TenTo[m]
    <2>1. b \in Nat \ {0}
      BY <1>4, Power
    <2>2. f % b = 0
      BY <1>7
    <2>3. Leading(f, last) = f \div b
      BY DEF Leading
    <2> HIDE DEF b
    <2>4. (f \div b) * b = f
      BY <1>4, <2>1, <2>2, Divided
    <2> QED BY <2>3, <2>4 DEF b
  <1>9. f # 0 => last # 0
    <2> SUFFICES ASSUME last = 0 PROVE f = 0
      OBVIOUS
    <2>1. Leading(f, 0) = 0
      BY LeadingIs
    <2>2. TenTo[m] \in Nat
      BY <1>4, Power
    <2> HIDE DEF m
    <2>3. 0 * TenTo[m] = 0
      BY <2>2
    <2> QED BY <1>8, <2>1, <2>3
  <1> QED BY <1>3, <1>8, <1>9 DEF last

\* The digits behind the point, without the zeros at the end.
LEMMA FractionReads ==
  ASSUME NEW f \in 1 .. magnitude - 1
  PROVE  \E t : /\ FractionText(f) = <<".">> \o t
                /\ t \in Seq(Digits) /\ Len(t) \in 1 .. Precision
                /\ Value(t) * TenTo[Precision - Len(t)] = f
  <1> DEFINE last == LastNonzero(f)
             c(i) == Digit(FractionDigit(f, i))
             front(k) == [i \in 1 .. k |-> c(i)]
             Good == {k \in 0 .. last : Value(front(k)) = Leading(f, k)}
  <1>1. f \in 0 .. magnitude - 1 /\ f # 0
    BY MagnitudeAssumption
  <1>2. /\ last \in 1 .. Precision /\ last \in Nat /\ Precision \in Nat
        /\ Leading(f, last) * TenTo[Precision - last] = f
    <2>1. /\ last \in 0 .. Precision /\ last # 0
          /\ Leading(f, last) * TenTo[Precision - last] = f
      BY <1>1, LastIs
    <2> HIDE DEF last
    <2> QED BY <2>1, PrecisionAssumption
  <1> HIDE DEF last
  <1>3. \A i \in 1 .. last : FractionDigit(f, i) \in 0 .. 9
    BY <1>1, <1>2, LeadingIs
  <1>4. \A i \in 1 .. last : c(i) \in Digits /\ DigitValue[c(i)] = FractionDigit(f, i)
    BY <1>3, DigitIs
  <1> HIDE DEF c
  <1>5. ASSUME NEW k \in 0 .. last
        PROVE  front(k) \in Seq(Digits) /\ Len(front(k)) = k
    <2>1. \A i \in 1 .. k : c(i) \in Digits
      BY <1>2, <1>4
    <2>2. k \in Nat
      BY <1>2
    <2> QED BY <2>1, <2>2
  <1>6. 0 \in Good
    <2>1. Len(front(0)) = 0
      BY <1>2, <1>5
    <2>2. Value(front(0)) = 0
      <3> HIDE DEF front
      <3> QED BY <2>1, ValueOfNone
    <2>3. Leading(f, 0) = 0
      BY <1>1, LeadingIs
    <2> HIDE DEF front
    <2> QED BY <1>2, <2>2, <2>3
  <1>7. ASSUME NEW k \in 0 .. last, k \in Good, k < last
        PROVE  k + 1 \in Good
    <2> DEFINE j == k + 1
               s == front(k)
               t == front(j)
    <2>1. j \in 1 .. last /\ j \in 0 .. last /\ j - 1 = k /\ k \in Nat /\ j = k + 1
      BY <1>2, <1>7
    <2> HIDE DEF j
    <2>2. Len(s) = k /\ Len(t) = k + 1
      BY <1>5, <2>1
    <2>3. \A i \in 1 .. k : t[i] = s[i]
      BY <2>1
    <2>4. t[k + 1] = c(j)
      BY <2>1
    <2>5. Value(s) = Leading(f, k)
      BY <1>7
    <2> HIDE DEF s, t
    <2>6. Value(t) = 10 * Value(s) + DigitValue[t[Len(s) + 1]]
      BY <2>1, <2>2, <2>3, ValueOfNext
    <2>7. Leading(f, j) = 10 * Leading(f, j - 1) + FractionDigit(f, j)
      BY <1>1, <1>2, <2>1, LeadingIs
    <2>8. Value(t) = Leading(f, j)
      BY <1>4, <2>1, <2>2, <2>4, <2>5, <2>6, <2>7
    <2> QED BY <2>1, <2>8 DEF t
  <1>8. Value(front(last)) = Leading(f, last)
    <2> HIDE DEF Good
    <2>1. \A k \in 0 .. last : k \in Good /\ k < last => k + 1 \in Good
      BY <1>7
    <2>2. 0 .. last \subseteq Good
      BY <1>2, <1>6, <2>1, InductionUpTo
    <2> QED BY <1>2, <2>2 DEF Good
  <1>9. FractionText(f) = <<".">> \o front(last)
    BY <1>1 DEF FractionText, last, c
  <1>10. front(last) \in Seq(Digits) /\ Len(front(last)) = last
    BY <1>2, <1>5
  <1> HIDE DEF front
  <1> QED BY <1>2, <1>8, <1>9, <1>10

-----------------------------------------------------------------------------
(***************************************************************************)
(* Reading back a sign, a row of digits and a fraction.                    *)
(***************************************************************************)

LEMMA DigitsApart ==
  ASSUME NEW c \in Digits
  PROVE  c \in DOMAIN DigitValue /\ c # "." /\ c # "-"
  <1>1. PICK n \in 0 .. 9 : c = Digit(n)
    BY DEF Digits
  <1> QED BY <1>1, DigitIs

\* t is what stands behind the point of f, if there is one.
IsFraction(f, t) == \/ f = <<".">> \o t /\ Len(t) > 0
                    \/ f = <<>> /\ t = <<>>

\* text is s behind the sign and before the fraction f.
IsText(text, sign, s, f) == text = (sign \o s) \o f

\* What stands before the digits of a number.
IsSign(sign) == sign = <<>> \/ sign = <<"-">>

LEMMA TextReads ==
  ASSUME NEW sign, IsSign(sign), NEW s \in Seq(Digits), Len(s) > 0,
         NEW t \in Seq(Digits), NEW f, IsFraction(f, t),
         NEW text, IsText(text, sign, s, f)
  PROVE  /\ WellFormed(text)
         /\ sign = <<"-">> <=> Head(text) = "-"
         /\ Units(text) = Value(s) * magnitude + Value(t) * TenTo[Precision - Len(t)]
  <1> DEFINE A == Digits \union {".", "-"}
             neg == sign = <<"-">>
             a == Len(sign)
             b == Len(s)
             c == Len(f)
             p == a + b + 1
             first == IF Head(text) = "-" THEN 2 ELSE 1
  <1>0. <<"-">> \in Seq(A) /\ <<".">> \in Seq(A) /\ s \in Seq(A) /\ t \in Seq(A)
    OBVIOUS
  <1> HIDE DEF A
  <1>1. /\ sign \in Seq(A) /\ s \in Seq(A) /\ t \in Seq(A)
        /\ a = IF neg THEN 1 ELSE 0
        /\ \A i \in 1 .. a : sign[i] = "-"
    <2>1. CASE neg
      <3>1. sign = <<"-">> /\ Len(<<"-">>) = 1 /\ <<"-">>[1] = "-"
        BY <2>1
      <3>2. \A i \in 1 .. 1 : sign[i] = "-"
        BY <3>1
      <3> QED BY <1>0, <2>1, <3>1, <3>2
    <2>2. CASE ~neg
      <3>1. sign = <<>>
        BY <2>2 DEF IsSign
      <3>2. sign \in Seq(A) /\ Len(sign) = 0
        BY <3>1
      <3> QED BY <1>0, <2>2, <3>2
    <2> QED BY <2>1, <2>2
  <1>2. /\ f \in Seq(A) /\ c \in Nat /\ c # 1
        /\ c = IF t = <<>> THEN 0 ELSE 1 + Len(t)
        /\ t = <<>> => f = <<>> /\ Len(t) = 0
        /\ t # <<>> => f = <<".">> \o t
        /\ c > 0 => f[1] = "." /\ \A i \in 2 .. c : f[i] = t[i - 1] /\ f[i] \in Digits
    <2>1. CASE f = <<>> /\ t = <<>>
      BY <2>1
    <2>2. CASE f = <<".">> \o t /\ Len(t) > 0
      <3>1. <<".">> \in Seq(A)
        BY <1>0
      <3>2. /\ f \in Seq(A) /\ Len(f) = 1 + Len(t) /\ f[1] = "." /\ Len(t) \in Nat
            /\ t # <<>>
        BY <1>1, <2>2, <3>1
      <3>3. \A i \in 1 .. Len(t) : f[1 + i] = t[i] /\ t[i] \in Digits
        BY <1>1, <2>2
      <3>4. \A i \in 2 .. c : f[i] = t[i - 1] /\ f[i] \in Digits
        <4> SUFFICES ASSUME NEW i \in 2 .. c PROVE f[i] = t[i - 1] /\ f[i] \in Digits
          OBVIOUS
        <4>1. i - 1 \in 1 .. Len(t) /\ 1 + (i - 1) = i
          BY <3>2
        <4> QED BY <3>3, <4>1
      <3> QED BY <2>2, <3>2, <3>4
    <2> QED BY <2>1, <2>2 DEF IsFraction
  <1>3. /\ sign \o s \in Seq(A) /\ Len(sign \o s) = a + b
        /\ \A i \in 1 .. a : (sign \o s)[i] = "-"
        /\ \A i \in 1 .. b : (sign \o s)[a + i] = s[i]
        /\ a \in 0 .. 1 /\ b \in Nat \ {0}
    <2>1. IsSequence(sign) /\ IsSequence(s)
      BY <1>1, SequenceOf
    <2>2. sign \o s \in Seq(A)
      BY <1>1
    <2>3. a \in 0 .. 1 /\ b \in Nat \ {0}
      BY <1>1
    <2>4. /\ Len(sign \o s) = Len(sign) + Len(s)
          /\ \A i \in 1 .. Len(sign) : (sign \o s)[i] = sign[i]
          /\ \A i \in 1 .. Len(s) : (sign \o s)[Len(sign) + i] = s[i]
      BY <2>1, CatIs
    <2>5. \A i \in 1 .. a : (sign \o s)[i] = "-"
      BY <1>1, <2>4
    <2> QED BY <2>2, <2>3, <2>4, <2>5
  <1> DEFINE w == sign \o s
  <1>4. text = w \o f
    BY DEF IsText
  <1> DEFINE size == Len(text)
  <1>5. /\ text \in Seq(A) /\ Len(text) = a + b + c
        /\ \A i \in 1 .. a + b : text[i] = w[i]
        /\ \A i \in 1 .. c : text[a + b + i] = f[i]
    <2>1. w \in Seq(A) /\ Len(w) = a + b
      BY <1>3
    <2> HIDE DEF w
    <2>2. IsSequence(w) /\ IsSequence(f)
      BY <1>2, <2>1, SequenceOf
    <2>3. text \in Seq(A)
      <3>1. f \in Seq(A) /\ w \in Seq(A)
        BY <1>2, <2>1
      <3>2. w \o f \in Seq(A)
        BY <3>1
      <3> QED BY <1>4, <3>2
    <2>4. /\ Len(w \o f) = Len(w) + Len(f)
          /\ \A i \in 1 .. Len(w) : (w \o f)[i] = w[i]
          /\ \A i \in 1 .. Len(f) : (w \o f)[Len(w) + i] = f[i]
      BY <2>2, CatIs
    <2> QED BY <1>4, <2>1, <2>3, <2>4
  <1> HIDE DEF w, neg
  <1> DEFINE n == a + b
  <1>6. ASSUME NEW i \in 1 .. Len(text)
        PROVE  /\ i <= a => text[i] = "-"
               /\ a < i /\ i < p => text[i] = s[i - a] /\ text[i] \in Digits
               /\ i = p => text[i] = "."
               /\ i > p => text[i] \in Digits
    <2>1. i <= a => text[i] = "-"
      <3> SUFFICES ASSUME i <= a PROVE text[i] = "-"
        OBVIOUS
      <3>1. i \in 1 .. a /\ i \in 1 .. a + b
        BY <1>3, <1>5
      <3>2. w[i] = "-"
        BY <1>3, <3>1 DEF w
      <3> QED BY <1>5, <3>1, <3>2
    <2>2. a < i /\ i < p => text[i] = s[i - a] /\ text[i] \in Digits
      <3> SUFFICES ASSUME a < i, i < p PROVE text[i] = s[i - a] /\ text[i] \in Digits
        OBVIOUS
      <3>1. i - a \in 1 .. b /\ a + (i - a) = i /\ i \in 1 .. a + b
        BY <1>3
      <3>2. w[i] = s[i - a]
        BY <1>3, <3>1 DEF w
      <3>3. s[i - a] \in Digits
        BY <3>1
      <3> QED BY <1>5, <3>1, <3>2, <3>3
    <2>3. i >= p => text[i] = f[i - n] /\ i - n \in 1 .. c
      <3> SUFFICES ASSUME i >= p PROVE text[i] = f[i - n] /\ i - n \in 1 .. c
        OBVIOUS
      <3>1. i - n \in 1 .. c /\ a + b + (i - n) = i
        <4>1. a \in Nat /\ b \in Nat /\ c \in Nat
          BY <1>2, <1>3
        <4>2. i \in 1 .. a + b + c
          BY <1>5
        <4>3. i >= a + b + 1
          OBVIOUS
        <4> HIDE DEF a, b, c
        <4> QED BY <4>1, <4>2, <4>3
      <3> HIDE DEF n
      <3> QED BY <1>5, <3>1
    <2>4. i = p => i - n = 1
      BY <1>3
    <2>5. i > p => i - n > 1
      BY <1>3
    <2>6. p \in Nat /\ i \in Nat
      BY <1>3, <1>5
    <2> HIDE DEF n, p
    <2>7. i = p => text[i] = "."
      BY <1>2, <2>3, <2>4, <2>6
    <2>8. i > p => text[i] \in Digits
      <3> SUFFICES ASSUME i > p PROVE text[i] \in Digits
        OBVIOUS
      <3> DEFINE k == i - n
      <3>1. k > 1 /\ k \in 1 .. c /\ text[i] = f[k]
        BY <2>3, <2>5, <2>6
      <3> HIDE DEF k
      <3> QED BY <1>2, <3>1
    <2> QED BY <2>1, <2>2, <2>7, <2>8
  <1>7. \A d \in Digits : d \in DOMAIN DigitValue /\ d # "." /\ d # "-"
    BY DigitsApart
  <1>8. Head(text) = text[1] /\ 1 \in 1 .. Len(text)
    <2>1. a \in Nat /\ b \in Nat \ {0} /\ c \in Nat /\ size = a + b + c
      BY <1>2, <1>3, <1>5
    <2> HIDE DEF a, b, c
    <2>2. size > 0
      BY <2>1
    <2> QED BY <1>5, <2>2
  <1>9. /\ neg <=> Head(text) = "-"
        /\ first = a + 1
    <2>1. CASE neg
      <3>1. a = 1
        BY <1>1, <2>1
      <3> QED BY <1>6, <1>8, <2>1, <3>1
    <2>2. CASE ~neg
      <3>1. a = 0 /\ 1 < p
        BY <1>1, <1>3, <2>2
      <3>2. text[1] \in Digits
        BY <1>6, <1>8, <3>1
      <3> QED BY <1>7, <1>8, <2>2, <3>1, <3>2
    <2> QED BY <2>1, <2>2
  <1>10. Point(text) = p
    <2>1. DOMAIN text = 1 .. Len(text)
      BY <1>5
    <2>2. \A i \in 1 .. Len(text) : text[i] = "." => i = p
      <3> SUFFICES ASSUME NEW i \in 1 .. Len(text), i # p PROVE text[i] # "."
        OBVIOUS
      <3>1. i <= a \/ (a < i /\ i < p) \/ i > p
        <4>1. a \in Nat /\ p \in Nat
          BY <1>3
        <4>2. i \in Nat
          BY <1>5
        <4> HIDE DEF a, p
        <4> QED BY <4>1, <4>2
      <3> QED BY <1>6, <1>7, <3>1
    <2>3. CASE c = 0
      <3>1. Len(text) + 1 = p /\ p \notin 1 .. Len(text)
        BY <1>3, <1>5, <2>3
      <3> HIDE DEF p
      <3> QED BY <2>1, <2>2, <3>1 DEF Point
    <2>4. CASE c > 0
      <3>1. p \in 1 .. Len(text)
        BY <1>2, <1>3, <1>5, <2>4
      <3>2. text[p] = "."
        BY <1>6, <3>1
      <3> HIDE DEF p
      <3> QED BY <2>1, <2>2, <3>1, <3>2 DEF Point
    <2> QED BY <1>2, <2>3, <2>4
  <1>11. WellFormed(text)
    <2>1. p > first /\ p # Len(text)
      <3>1. /\ a \in Nat /\ b \in Nat \ {0} /\ c \in Nat /\ c # 1 /\ size = a + b + c
            /\ first = a + 1 /\ p = a + b + 1
        <4>1. first = a + 1
          BY <1>9
        <4> HIDE DEF first
        <4> QED BY <1>2, <1>3, <1>5, <4>1
      <3> HIDE DEF a, b, c, first, p
      <3> DEFINE m == a + b
      <3>2. m \in Nat /\ m > a /\ size = m + c /\ p = m + 1
        BY <3>1
      <3> HIDE DEF m
      <3>3. p > first /\ p # size
        BY <3>1, <3>2
      <3> QED BY <3>3
    <2>2. \A i \in first .. Len(text) : i = p \/ text[i] \in DOMAIN DigitValue
      <3> SUFFICES ASSUME NEW i \in first .. Len(text), i # p
                   PROVE  text[i] \in DOMAIN DigitValue
        OBVIOUS
      <3>1. i \in 1 .. Len(text) /\ ((a < i /\ i < p) \/ i > p)
        <4>1. /\ a \in Nat /\ b \in Nat /\ Len(text) \in Nat /\ first = a + 1
              /\ p \in Nat
          <5>1. size \in Nat
            BY <1>5
          <5> QED BY <1>3, <1>9, <5>1
        <4> HIDE DEF a, b, first, p
        <4> QED BY <4>1
      <3> QED BY <1>6, <1>7, <3>1
    <2> HIDE DEF p
    <2> QED BY <1>10, <2>1, <2>2 DEF WellFormed
  <1>12. SubSeq(text, first, p - 1) = s
    <2>1. text = (sign \o s) \o f
      BY <1>4 DEF w
    <2>2. SubSeq((sign \o s) \o f, a + 1, a + b) = s
      <3> HIDE DEF A
      <3>1. sign \in Seq(A) /\ s \in Seq(A) /\ f \in Seq(A)
        BY <1>1, <1>2
      <3>2. SubSeq((sign \o s) \o f, Len(sign) + 1, Len(sign) + Len(s)) = s
        BY <3>1, MiddleOf
      <3> QED BY <3>2
    <2>3. first = a + 1 /\ p - 1 = a + b
      BY <1>3, <1>9
    <2> HIDE DEF p, first
    <2> QED BY <2>1, <2>2, <2>3
  <1>13. SubSeq(text, p + 1, Len(text)) = t
    <2>1. CASE t = <<>>
      <3>1. p + 1 > Len(text) /\ p + 1 \in Nat /\ Len(text) \in Nat
        BY <1>2, <1>3, <1>5, <2>1
      <3> HIDE DEF p
      <3> QED BY <1>5, <2>1, <3>1
    <2>2. CASE t # <<>>
      <3> DEFINE v == w \o <<".">>
      <3>1. v \in Seq(A) /\ Len(v) = a + b + 1
        <4>1. w \in Seq(A) /\ Len(w) = a + b /\ <<".">> \in Seq(A) /\ Len(<<".">>) = 1
          BY <1>0, <1>3 DEF w
        <4>2. w \o <<".">> \in Seq(A) /\ Len(w \o <<".">>) = Len(w) + Len(<<".">>)
          <5> DEFINE q == <<".">>
          <5>1. w \in Seq(A) /\ q \in Seq(A)
            BY <4>1
          <5> HIDE DEF q
          <5>2. w \o q \in Seq(A) /\ Len(w \o q) = Len(w) + Len(q)
            BY <5>1
          <5> QED BY <5>2 DEF q
        <4> QED BY <4>1, <4>2
      <3>2. text = v \o t
        <4>1. f = <<".">> \o t /\ <<".">> \in Seq(A) /\ w \in Seq(A)
          BY <1>2, <1>3, <2>2 DEF w
        <4> HIDE DEF A
        <4>2. w \o (<<".">> \o t) = (w \o <<".">>) \o t
          BY <1>1, <4>1
        <4> QED BY <1>4, <4>1, <4>2
      <3> HIDE DEF v
      <3>3. SubSeq(v \o t, Len(v) + 1, Len(v) + Len(t)) = t
        BY <1>1, <3>1, EndOf
      <3>4. p + 1 = Len(v) + 1 /\ Len(text) = Len(v) + Len(t)
        BY <1>2, <1>3, <1>5, <2>2, <3>1
      <3> HIDE DEF p
      <3> QED BY <3>2, <3>3, <3>4
    <2> QED BY <2>1, <2>2
  <1>14. Units(text) = Value(s) * magnitude + Value(t) * TenTo[Precision - Len(t)]
    <2> HIDE DEF p
    <2> QED BY <1>10, <1>12, <1>13 DEF Units
  <1> QED BY <1>9, <1>11, <1>14 DEF neg

-----------------------------------------------------------------------------
(***************************************************************************)
(* Each line is that of a record, and its path that of the schema.         *)
(***************************************************************************)

\* w was written for a record that could be converted, under the schema of s.
IsWritten(s, w) ==
    /\ SchemaOk(s.schema)
    /\ IsRecord(w.doc) /\ w.doc.fate = "converted"
    /\ \E body \in DoubleTexts(w.doc.number) : w.text = Line(w.doc.path, body)
    /\ w.path = GetDimensionPath(LoadDimensions(s.schema.members["dimensions"]),
                                 w.doc.info).path

RecordsInv == \A i \in 1 .. Len(written) : IsWritten(scenario, written[i])

LEMMA RecordsKept ==
  ASSUME FileInv, RecordsInv, [Next]_vars
  PROVE  RecordsInv'
<1>1. IsSequence(written) /\ Len(written) \in Nat
  BY DEF FileInv, WrittenInv, IsSequence
<1>2. ASSUME UNCHANGED <<scenario, written>>
      PROVE  RecordsInv'
  BY <1>2 DEF RecordsInv
<1>3. CASE Convert
  <2>1. pc = "read" /\ doc.fate = "converted" /\ UNCHANGED scenario
    BY <1>3 DEF Convert, Reading
  <2>2. IsRecord(doc) /\ SchemaLoaded
    BY <2>1, ReadingOn DEF FileInv, ProcessInv
  <2>3. PICK body \in DoubleTexts(doc.number) : sb' = Clear(sb) \o Line(doc.path, body)
    BY <1>3 DEF Convert
  <2>4. sb' = Line(doc.path, body)
    BY <2>1, <2>2, <2>3, LineOfRecord
  <2> DEFINE w == [doc |-> doc, path |-> GetDimensionPath(dimensions, doc.info).path,
                   text |-> sb']
  <2>5. written' = Append(written, w)
    BY <1>3 DEF Convert
  <2>6. /\ w.doc = doc /\ w.text = sb'
        /\ w.path = GetDimensionPath(dimensions, doc.info).path
    OBVIOUS
  <2> HIDE DEF w
  <2>7. /\ Len(written') = Len(written) + 1
        /\ \A i \in 1 .. Len(written) : written'[i] = written[i]
        /\ written'[Len(written) + 1] = w
    BY <1>1, <2>5, AppendIs
  <2>8. IsWritten(scenario, w)
    BY <2>1, <2>2, <2>3, <2>4, <2>6 DEF IsWritten, SchemaLoaded
  <2>9. \A i \in 1 .. Len(written') : i \in 1 .. Len(written) \/ i = Len(written) + 1
    BY <1>1, <2>7
  <2>10. ASSUME NEW i \in 1 .. Len(written')
         PROVE  IsWritten(scenario, written'[i])
    BY <2>7, <2>8, <2>9 DEF RecordsInv
  <2> QED BY <2>1, <2>10 DEF RecordsInv
<1>4. ASSUME NEW fate, Reading(fate) PROVE UNCHANGED scenario
  BY <1>4 DEF Reading
<1>5. CASE Refuse \/ Throw
  BY <1>2, <1>4, <1>5 DEF Refuse, Throw
<1>6. ASSUME NEW elapsed \in 0 .. 1, Finish(elapsed) \/ FileSizeThrows(elapsed)
      PROVE  RecordsInv'
  BY <1>2, <1>4, <1>6 DEF Finish, FileSizeThrows
<1>7. ASSUME NEW from, NEW to, Go(from, to) PROVE RecordsInv'
  BY <1>2, <1>7 DEF Go
<1>8. CASE Configure \/ ConfigureThrows \/ Begin \/ Crash \/ UNCHANGED vars
  <2>1. UNCHANGED <<scenario, written>>
    BY <1>8 DEF Configure, ConfigureThrows, Begin, Crash, vars, observations
  <2> QED BY <1>2, <2>1
<1>9. CASE RemoveFile \/ RemoveFileThrows \/ Roll \/ Reopen
  BY <1>7, <1>9 DEF RemoveFile, RemoveFileThrows, Roll, Reopen
<1>10. ASSUME NEW k \in 0 .. Len(buffer), NEW opens \in BOOLEAN, ReopenFails(k, opens)
       PROVE  RecordsInv'
  BY <1>7, <1>10 DEF ReopenFails
<1>11. CASE ReportCache \/ ReportRecord \/ ReportSchema \/ ReportConverter
  BY <1>7, <1>11 DEF ReportCache, ReportRecord, ReportSchema, ReportConverter
<1>12. CASE FlushLog
  BY <1>7, <1>12 DEF FlushLog
<1>13. ASSUME NEW k \in 0 .. Len(buffer), FlushLogFails(k) \/ Exit(k)
       PROVE  RecordsInv'
  BY <1>7, <1>13 DEF FlushLogFails, Exit
<1> QED
  BY <1>3, <1>5, <1>6, <1>8, <1>9, <1>10, <1>11, <1>12, <1>13 DEF Next

LEMMA RecordsInvariant == Spec => [](FileInv /\ RecordsInv)
  <1>1. Init => RecordsInv
    <2> SUFFICES ASSUME Init PROVE RecordsInv
      OBVIOUS
    <2>1. written = <<>> /\ Len(<<>>) = 0
      BY EmptySequence DEF Init
    <2> QED BY <2>1 DEF RecordsInv
  <1>2. FileInv /\ RecordsInv /\ [Next]_vars => RecordsInv'
    BY RecordsKept
  <1> QED BY <1>1, <1>2, FileInvariant, PTL DEF Spec

-----------------------------------------------------------------------------
(***************************************************************************)
(* What is written denotes the nearest number.                             *)
(***************************************************************************)

\* What NumbersNear says of one text.
Near(d, text) ==
    ~d.huge /\ d.quarters # 2 =>
        /\ WellFormed(text)
        /\ Units(text) = NearestEven(d)
        /\ d.neg <=> Head(text) = "-"

LEMMA RoundTyped ==
  ASSUME NEW d \in Double, d.quarters # 2
  PROVE  Round(d).number \in Nat /\ Round(d).fraction \in 0 .. magnitude - 1
  <1>1. magnitude \in Nat \ {0}
    BY MagnitudeAssumption
  <1>2. /\ d.number \in Nat /\ d.fraction \in 0 .. magnitude - 1
    BY DEF Double
  <1>3. CASE d.quarters = 3
    <2>1. Round(d) = Up(d)
      BY <1>3 DEF Round
    <2> QED BY <1>1, <1>2, <2>1 DEF Up, Rounded
  <1>4. CASE d.quarters # 3
    <2>1. Round(d) = Rounded(d.number, d.fraction)
      BY <1>4 DEF Round
    <2> QED BY <1>2, <2>1 DEF Rounded
  <1> QED BY <1>3, <1>4

LEMMA DoubleNear ==
  ASSUME NEW d \in Double, NEW text \in DoubleTexts(d)
  PROVE  Near(d, text)
  <1> SUFFICES ASSUME ~d.huge, d.quarters # 2
               PROVE  /\ WellFormed(text)
                      /\ Units(text) = NearestEven(d)
                      /\ d.neg <=> Head(text) = "-"
    BY DEF Near
  <1> DEFINE n == Round(d).number
             f == Round(d).fraction
             s == NumberText[n]
  <1>1. n \in Nat /\ f \in 0 .. magnitude - 1 /\ d.neg \in BOOLEAN
    BY RoundTyped DEF Double
  <1>2. text = ((IF d.neg THEN <<"-">> ELSE <<>>) \o s) \o FractionText(f)
    BY DEF DoubleTexts
  <1>3. n * magnitude + f = NearestEven(d)
    BY NearestUnlessTie DEF DenotesNearest, RoundedUnits
  <1> HIDE DEF n, f
  <1>4. s \in Seq(Digits) /\ Len(s) > 0 /\ Value(s) = n
    BY <1>1, NumberReads DEF IsNumeral
  <1> HIDE DEF s
  <1> DEFINE left(t) == Value(t) * TenTo[Precision - Len(t)]
  <1>5. \E t \in Seq(Digits) : IsFraction(FractionText(f), t) /\ left(t) = f
    <2>1. CASE f = 0
      <3>1. FractionText(f) = <<>>
        BY <2>1 DEF FractionText
      <3>2. <<>> \in Seq(Digits) /\ Len(<<>>) = 0 /\ Value(<<>>) = 0
        BY ValueOfNone
      <3>3. Precision - 0 \in Nat
        BY PrecisionAssumption
      <3>4. TenTo[Precision - 0] \in Nat
        BY <3>3, Power
      <3>5. left(<<>>) = 0
        BY <3>2, <3>4
      <3>6. IsFraction(FractionText(f), <<>>)
        BY <3>1 DEF IsFraction
      <3> HIDE DEF left
      <3> QED BY <2>1, <3>2, <3>5, <3>6
    <2>2. CASE f # 0
      <3>1. f \in 1 .. magnitude - 1
        BY <1>1, <2>2, MagnitudeAssumption
      <3>2. PICK t : /\ FractionText(f) = <<".">> \o t
                     /\ t \in Seq(Digits) /\ Len(t) \in 1 .. Precision
                     /\ Value(t) * TenTo[Precision - Len(t)] = f
        BY <3>1, FractionReads
      <3> DEFINE k == Len(t)
                 r == FractionText(f)
      <3>3. k \in 1 .. Precision /\ r = <<".">> \o t
        BY <3>2
      <3> HIDE DEF k, r
      <3>4. k > 0
        BY <3>3, PrecisionAssumption
      <3>5. r = <<".">> \o t /\ Len(t) > 0
        BY <3>3, <3>4 DEF k
      <3>6. IsFraction(r, t)
        BY <3>5, Zenon DEF IsFraction
      <3> QED BY <3>2, <3>6 DEF r
    <2> QED BY <2>1, <2>2
  <1>6. PICK t \in Seq(Digits) : IsFraction(FractionText(f), t) /\ left(t) = f
    BY <1>5
  <1> DEFINE sign == IF d.neg THEN <<"-">> ELSE <<>>
             g == FractionText(f)
  <1>7. /\ IsSign(sign) /\ IsFraction(g, t)
        /\ IsText(text, sign, s, g)
        /\ d.neg <=> sign = <<"-">>
    BY <1>1, <1>2, <1>6 DEF IsSign, IsText
  <1> HIDE DEF sign, g
  <1>8. /\ WellFormed(text)
        /\ sign = <<"-">> <=> Head(text) = "-"
        /\ Units(text) = Value(s) * magnitude + left(t)
    <2>1. s \in Seq(Digits) /\ Len(s) > 0 /\ t \in Seq(Digits)
      BY <1>4, <1>6
    <2> QED BY <1>7, <2>1, TextReads
  <1> HIDE DEF left
  <1>9. Units(text) = NearestEven(d)
    BY <1>3, <1>4, <1>6, <1>8
  <1> QED BY <1>7, <1>8, <1>9

\* The body of a line is found behind the uuid and the tabulator.
LEMMA BodyIs ==
  ASSUME NEW w, NEW body, IsSequence(body), IsSequence(w.doc.path),
         w.text = Line(w.doc.path, body)
  PROVE  Body(w) = body
  <1> DEFINE u == Uuid(w.doc.path)
             A == {u[i] : i \in 1 .. Len(u)} \union {body[i] : i \in 1 .. Len(body)}
                     \union {"\t", "\n"}
             tab == <<"\t">>
             end == <<"\n">>
             p == u \o tab
  <1>1. IsSequence(u)
    BY UuidTyped
  <1>2. u \in Seq(A) /\ body \in Seq(A)
    BY <1>1, SequenceIn
  <1>3. tab \in Seq(A) /\ end \in Seq(A) /\ Len(tab) = 1 /\ Len(end) = 1
    OBVIOUS
  <1>4. w.text = (p \o body) \o end
    BY DEF Line
  <1> HIDE DEF A, u, tab, end
  <1>0. IsSequence(tab) /\ IsSequence(end)
    BY <1>3, SequenceOf
  <1>5. p \in Seq(A) /\ Len(p) = Len(u) + 1 /\ Len(u) \in Nat /\ Len(body) \in Nat
    <2>1. Len(u) \in Nat /\ Len(body) \in Nat
      BY <1>2
    <2>2. u \o tab \in Seq(A)
      BY <1>2, <1>3
    <2>3. Len(u \o tab) = Len(u) + Len(tab)
      BY <1>0, <1>1, CatIs
    <2> QED BY <1>3, <2>1, <2>2, <2>3
  <1> HIDE DEF p
  <1>6. Len((p \o body) \o end) = Len(p) + Len(body) + 1
    <2> DEFINE q == p \o body
    <2>1. q \in Seq(A) /\ Len(q) = Len(p) + Len(body)
      BY <1>2, <1>5
    <2> HIDE DEF q
    <2>2. Len(q \o end) = Len(q) + Len(end)
      BY <1>0, <2>1, SequenceOf, CatIs
    <2> QED BY <1>3, <2>1, <2>2 DEF q
  <1>7. SubSeq((p \o body) \o end, Len(p) + 1, Len(p) + Len(body)) = body
    BY <1>2, <1>3, <1>5, MiddleOf
  <1> DEFINE from == Len(u) + 2
             to == Len(w.text) - 1
  <1>8. from = Len(p) + 1 /\ to = Len(p) + Len(body)
    BY <1>2, <1>4, <1>5, <1>6
  <1>9. Body(w) = SubSeq(w.text, from, to)
    BY DEF Body, u
  <1> HIDE DEF from, to
  <1> QED BY <1>4, <1>7, <1>8, <1>9

\* A number that an int can hold and that is no tie is written as JSON and as
\* the nearest number, for every precision (rapidjson-0_11.patch:52-95).
THEOREM NumbersAreNear == Spec => []NumbersNear
  <1>1. FileInv /\ RecordsInv => NumbersNear
    <2> SUFFICES ASSUME FileInv, RecordsInv, NEW i \in DOMAIN written
                 PROVE  Near(written[i].doc.number, Body(written[i]))
      BY DEF NumbersNear, Near
    <2> DEFINE w == written[i]
    <2>1. IsWritten(scenario, w)
      <3>1. DOMAIN written = 1 .. Len(written)
        BY SequenceDomain DEF FileInv, WrittenInv
      <3> QED BY <3>1 DEF RecordsInv
    <2> HIDE DEF w
    <2> DEFINE d == w.doc.number
    <2>2. PICK body \in DoubleTexts(d) : w.text = Line(w.doc.path, body)
      BY <2>1 DEF IsWritten
    <2>3. d \in Double /\ IsSequence(w.doc.path)
      BY <2>1, SequenceOf DEF IsWritten, IsRecord
    <2> HIDE DEF d
    <2>4. IsSequence(body)
      BY <2>2, <2>3, BodyTyped
    <2>5. Body(w) = body
      BY <2>2, <2>3, <2>4, BodyIs
    <2>6. Near(d, body)
      BY <2>2, <2>3, DoubleNear
    <2> QED BY <2>5, <2>6 DEF w, d
  <1> QED BY <1>1, RecordsInvariant, PTL

-----------------------------------------------------------------------------
(***************************************************************************)
(* WithoutSpace() and the levels of a path, one character after the other. *)
(***************************************************************************)

Trim(t, c) == IF c \in SpaceChar THEN t ELSE Append(t, c)

LEMMA TrimUnrolled ==
  ASSUME NEW S, NEW s \in Seq(S)
  PROVE  \E it : /\ it[0] = <<>>
                 /\ \A i \in 1 .. Len(s) : it[i] = Trim(it[i - 1], s[i])
                 /\ WithoutSpace(s) = it[Len(s)]
  <1> DEFINE n == Len(s)
             A == Seq(S)
             step == [x \in A \X (1 .. n) |-> Trim(x[1], s[x[2]])]
             IsIter(g) == g = [t \in SUBSET (1 .. n) |->
                                 IF t = {} THEN <<>> ELSE Trim(g[t \ {Max(t)}], s[Max(t)])]
  <1>1. n \in Nat /\ DOMAIN s = 1 .. n /\ \A i \in 1 .. n : s[i] \in S
    OBVIOUS
  <1> HIDE DEF n
  <1>2. step \in [A \X (1 .. n) -> A] /\ <<>> \in A
    <2>1. ASSUME NEW t \in A, NEW c \in S PROVE Trim(t, c) \in A
      <3>1. Append(t, c) \in A
        BY AppendTyped
      <3> HIDE DEF A
      <3> QED BY <3>1 DEF Trim
    <2>2. ASSUME NEW x \in A \X (1 .. n) PROVE Trim(x[1], s[x[2]]) \in A
      <3>1. x[1] \in A /\ x[2] \in 1 .. n
        OBVIOUS
      <3> QED BY <1>1, <2>1, <3>1
    <2> QED BY <2>2
  <1>3. \E g : IsIter(g)
    <2>1. PICK g \in [SUBSET (1 .. n) -> A] : IsFold(g, <<>>, step, n)
      <3> DEFINE none == <<>>
      <3>1. none \in A /\ step \in [A \X (1 .. n) -> A]
        BY <1>2
      <3> HIDE DEF none, A, step
      <3>2. \E g \in [SUBSET (1 .. n) -> A] : IsFold(g, none, step, n)
        BY <1>1, <3>1, FoldExists
      <3> QED BY <3>2 DEF none
    <2>2. ASSUME NEW t \in SUBSET (1 .. n)
          PROVE  g[t] = IF t = {} THEN <<>> ELSE Trim(g[t \ {Max(t)}], s[Max(t)])
      <3>1. CASE t = {}
        BY <2>1, <3>1 DEF IsFold
      <3>2. CASE t # {}
        <4>1. Max(t) \in 1 .. n /\ t \ {Max(t)} \in SUBSET (1 .. n)
          BY <1>1, <3>2, IndexSets
        <4>2. <<g[t \ {Max(t)}], Max(t)>> \in A \X (1 .. n)
          BY <4>1
        <4>3. step[<<g[t \ {Max(t)}], Max(t)>>] = Trim(g[t \ {Max(t)}], s[Max(t)])
          BY <4>2
        <4>4. g[t] = step[<<g[t \ {Max(t)}], Max(t)>>]
          BY <2>1, <3>2 DEF IsFold
        <4> HIDE DEF step
        <4> QED BY <3>2, <4>3, <4>4
      <3> QED BY <3>1, <3>2
    <2>3. IsIter(g)
      BY <2>2
    <2> HIDE DEF IsIter
    <2> QED BY <2>3
  <1> DEFINE g == CHOOSE g : IsIter(g)
  <1>4. IsIter(g)
    <2> HIDE DEF IsIter
    <2> QED BY <1>3
  <1>5. WithoutSpace(s) = g[1 .. n]
    BY <1>1 DEF WithoutSpace, FoldLeft, MapThenFoldSet, Trim
  <1> HIDE DEF g
  <1>6. \A t \in SUBSET (1 .. n) :
            g[t] = IF t = {} THEN <<>> ELSE Trim(g[t \ {Max(t)}], s[Max(t)])
    BY <1>4
  <1> DEFINE it == [i \in 0 .. n |-> g[1 .. i]]
  <1>7. it[0] = <<>> /\ it[n] = g[1 .. n]
    <2>1. 1 .. 0 = {} /\ 1 .. 0 \in SUBSET (1 .. n)
      OBVIOUS
    <2>2. g[1 .. 0] = <<>>
      BY <1>6, <2>1
    <2>3. it[0] = g[1 .. 0] /\ it[n] = g[1 .. n]
      BY <1>1
    <2> QED BY <2>2, <2>3
  <1>8. ASSUME NEW i \in 1 .. n
        PROVE  it[i] = Trim(it[i - 1], s[i])
    <2>1. it[i] = g[1 .. i] /\ it[i - 1] = g[1 .. i - 1] /\ i \in 0 .. n
      BY <1>1
    <2>2. /\ 1 .. i \in SUBSET (1 .. n) /\ 1 .. i # {} /\ Max(1 .. i) = i
          /\ (1 .. i) \ {i} = 1 .. i - 1
      BY <1>1, <2>1, IndexSets
    <2> HIDE DEF it
    <2> QED BY <1>6, <2>1, <2>2
  <1> HIDE DEF it
  <1> QED BY <1>5, <1>7, <1>8 DEF n

Split(t, c) == IF c = "/" THEN Append(t, <<>>) ELSE [t EXCEPT ![Len(t)] = Append(@, c)]

LEMMA SplitTyped ==
  ASSUME NEW S, NEW t \in Seq(Seq(S)) \ {<<>>}, NEW c \in S
  PROVE  Split(t, c) \in Seq(Seq(S)) \ {<<>>}
  <1> DEFINE A == Seq(S)
             n == Len(t)
             l == Append(t[n], c)
             u == [t EXCEPT ![n] = l]
  <1>1. t \in Seq(A) /\ n \in Nat \ {0}
    OBVIOUS
  <1>2. t[n] \in A
    <2> HIDE DEF A
    <2> QED BY <1>1
  <1>3. l \in A
    BY <1>2, AppendTyped
  <1>4. <<>> \in A
    OBVIOUS
  <1> HIDE DEF A, l
  <1>5. u \in Seq(A) /\ Len(u) = n
    <2> HIDE DEF n
    <2> QED BY <1>1, <1>3 DEF n
  <1>6. Append(t, <<>>) \in Seq(A) /\ Len(Append(t, <<>>)) = n + 1
    <2> DEFINE e == <<>>
    <2> HIDE DEF e
    <2> QED BY <1>1, <1>4 DEF e
  <1>7. Split(t, c) = IF c = "/" THEN Append(t, <<>>) ELSE u
    BY DEF Split, l
  <1> HIDE DEF u, n
  <1>8. \A v \in Seq(A) : Len(v) > 0 => v # <<>>
    OBVIOUS
  <1> DEFINE v == Append(t, <<>>)
  <1>9. v \in Seq(A) /\ Len(v) > 0 /\ u \in Seq(A) /\ Len(u) > 0
    BY <1>1, <1>5, <1>6
  <1>10. Split(t, c) = v \/ Split(t, c) = u
    BY <1>7
  <1> HIDE DEF v
  <1>11. Split(t, c) \in Seq(A) /\ Split(t, c) # <<>>
    BY <1>8, <1>9, <1>10
  <1> QED BY <1>11 DEF A

LEMMA SplitUnrolled ==
  ASSUME NEW S, NEW s \in Seq(S)
  PROVE  \E it : /\ it[0] = << <<>> >>
                 /\ \A i \in 1 .. Len(s) : it[i] = Split(it[i - 1], s[i])
                 /\ Levels(s) = it[Len(s)]
  <1> DEFINE n == Len(s)
             base == << <<>> >>
             A == Seq(Seq(S)) \ {<<>>}
             step == [x \in A \X (1 .. n) |-> Split(x[1], s[x[2]])]
             IsIter(g) == g = [t \in SUBSET (1 .. n) |->
                                 IF t = {} THEN base ELSE Split(g[t \ {Max(t)}], s[Max(t)])]
  <1>1. n \in Nat /\ DOMAIN s = 1 .. n /\ \A i \in 1 .. n : s[i] \in S
    OBVIOUS
  <1> HIDE DEF n
  <1>2. step \in [A \X (1 .. n) -> A] /\ base \in A
    <2>1. ASSUME NEW t \in A, NEW c \in S PROVE Split(t, c) \in A
      BY SplitTyped
    <2>2. ASSUME NEW x \in A \X (1 .. n) PROVE Split(x[1], s[x[2]]) \in A
      <3>1. x[1] \in A /\ x[2] \in 1 .. n
        OBVIOUS
      <3> QED BY <1>1, <2>1, <3>1
    <2> QED BY <2>2
  <1>3. \E g : IsIter(g)
    <2>1. PICK g \in [SUBSET (1 .. n) -> A] : IsFold(g, base, step, n)
      <3>1. base \in A /\ step \in [A \X (1 .. n) -> A]
        BY <1>2
      <3> HIDE DEF A, step
      <3>2. \E g \in [SUBSET (1 .. n) -> A] : IsFold(g, base, step, n)
        BY <1>1, <3>1, FoldExists
      <3> QED BY <3>2
    <2>2. ASSUME NEW t \in SUBSET (1 .. n)
          PROVE  g[t] = IF t = {} THEN base ELSE Split(g[t \ {Max(t)}], s[Max(t)])
      <3>1. CASE t = {}
        BY <2>1, <3>1 DEF IsFold
      <3>2. CASE t # {}
        <4>1. Max(t) \in 1 .. n /\ t \ {Max(t)} \in SUBSET (1 .. n)
          BY <1>1, <3>2, IndexSets
        <4>2. <<g[t \ {Max(t)}], Max(t)>> \in A \X (1 .. n)
          BY <4>1
        <4>3. step[<<g[t \ {Max(t)}], Max(t)>>] = Split(g[t \ {Max(t)}], s[Max(t)])
          BY <4>2
        <4>4. g[t] = step[<<g[t \ {Max(t)}], Max(t)>>]
          BY <2>1, <3>2 DEF IsFold
        <4> HIDE DEF step
        <4> QED BY <3>2, <4>3, <4>4
      <3> QED BY <3>1, <3>2
    <2>3. IsIter(g)
      BY <2>2
    <2> HIDE DEF IsIter
    <2> QED BY <2>3
  <1> DEFINE g == CHOOSE g : IsIter(g)
  <1>4. IsIter(g)
    <2> HIDE DEF IsIter
    <2> QED BY <1>3
  <1>5. Levels(s) = g[1 .. n]
    BY <1>1 DEF Levels, FoldLeft, MapThenFoldSet, Split
  <1> HIDE DEF g
  <1>6. \A t \in SUBSET (1 .. n) :
            g[t] = IF t = {} THEN base ELSE Split(g[t \ {Max(t)}], s[Max(t)])
    BY <1>4
  <1> DEFINE it == [i \in 0 .. n |-> g[1 .. i]]
  <1>7. it[0] = base /\ it[n] = g[1 .. n]
    <2>1. 1 .. 0 = {} /\ 1 .. 0 \in SUBSET (1 .. n)
      OBVIOUS
    <2>2. g[1 .. 0] = base
      BY <1>6, <2>1
    <2>3. it[0] = g[1 .. 0] /\ it[n] = g[1 .. n]
      BY <1>1
    <2> QED BY <2>2, <2>3
  <1>8. ASSUME NEW i \in 1 .. n
        PROVE  it[i] = Split(it[i - 1], s[i])
    <2>1. it[i] = g[1 .. i] /\ it[i - 1] = g[1 .. i - 1] /\ i \in 0 .. n
      BY <1>1
    <2>2. /\ 1 .. i \in SUBSET (1 .. n) /\ 1 .. i # {} /\ Max(1 .. i) = i
          /\ (1 .. i) \ {i} = 1 .. i - 1
      BY <1>1, <2>1, IndexSets
    <2> HIDE DEF it
    <2> QED BY <1>6, <2>1, <2>2
  <1> HIDE DEF it
  <1> QED BY <1>5, <1>7, <1>8 DEF n

\* Without white space nothing is left out.
LEMMA NothingTrimmed ==
  ASSUME NEW S, NEW s \in Seq(S), SpaceChar \cap Range(s) = {}
  PROVE  WithoutSpace(s) = s
  <1>1. PICK it : /\ it[0] = <<>>
                  /\ \A i \in 1 .. Len(s) : it[i] = Trim(it[i - 1], s[i])
                  /\ WithoutSpace(s) = it[Len(s)]
    BY TrimUnrolled
  <1> DEFINE n == Len(s)
             p(k) == SubSeq(s, 1, k)
             Good == {k \in 0 .. n : it[k] = p(k)}
  <1>2. n \in Nat /\ \A i \in 1 .. n : s[i] \notin SpaceChar
    <2>1. DOMAIN s = 1 .. n
      OBVIOUS
    <2> QED BY <2>1 DEF Range
  <1>3. 0 \in Good
    <2>1. p(0) = <<>> /\ 0 \in 0 .. n
      BY <1>2, WholePrefix
    <2> HIDE DEF p
    <2> QED BY <1>1, <2>1
  <1>4. ASSUME NEW k \in 0 .. n, k \in Good, k < n
        PROVE  k + 1 \in Good
    <2>1. k \in Nat /\ k + 1 \in 1 .. n /\ (k + 1) - 1 = k /\ k + 1 \in 0 .. n
      BY <1>2, <1>4
    <2>2. it[k + 1] = Trim(it[k], s[k + 1])
      BY <1>1, <2>1
    <2>3. it[k + 1] = Append(it[k], s[k + 1])
      BY <1>2, <2>1, <2>2 DEF Trim
    <2>4. p(k + 1) = Append(p(k), s[k + 1])
      BY <1>4, <2>1, PrefixGrows
    <2>5. it[k] = p(k)
      BY <1>4
    <2> QED BY <2>1, <2>3, <2>4, <2>5
  <1>5. n \in Good
    <2> HIDE DEF Good
    <2>1. \A k \in 0 .. n : k \in Good /\ k < n => k + 1 \in Good
      BY <1>4
    <2>2. 0 .. n \subseteq Good
      BY <1>2, <1>3, <2>1, InductionUpTo
    <2> QED BY <1>2, <2>2
  <1> QED BY <1>1, <1>5, WholePrefix

-----------------------------------------------------------------------------
(***************************************************************************)
(* The levels of a path that one level has been added to.                  *)
(***************************************************************************)

LEMMA SplitAppend ==
  ASSUME NEW S, NEW ls \in Seq(S), NEW x \in S, NEW c, Append(x, c) \in S, c # "/"
  PROVE  Split(Append(ls, x), c) = Append(ls, Append(x, c))
  <1> DEFINE t == Append(ls, x)
             y == Append(x, c)
             n == Len(ls) + 1
             u == [t EXCEPT ![n] = y]
             v == Append(ls, y)
  <1>1. t \in Seq(S) /\ Len(t) = n /\ t[n] = x /\ n \in Nat \ {0}
    OBVIOUS
  <1>2. Split(t, c) = u
    BY <1>1 DEF Split
  <1>3. /\ v \in Seq(S) /\ Len(v) = n /\ v[n] = y
        /\ \A i \in 1 .. n : i # n => v[i] = ls[i] /\ t[i] = ls[i]
    <2> HIDE DEF y
    <2> QED BY DEF y
  <1> HIDE DEF t, v, y, n
  <1>4. u \in Seq(S) /\ Len(u) = n /\ \A i \in 1 .. n : u[i] = IF i = n THEN y ELSE t[i]
    BY <1>1 DEF y
  <1> HIDE DEF u
  <1>5. u = v
    <2>1. \A i \in 1 .. n : u[i] = v[i]
      BY <1>3, <1>4
    <2>2. IsSequence(u) /\ IsSequence(v)
      BY <1>3, <1>4, SequenceOf
    <2> QED BY <1>3, <1>4, <2>1, <2>2 DEF IsSequence
  <1> QED BY <1>2, <1>5 DEF t, v, y

\* it is the way of Levels() through path.
IsWay(it, path) ==
    /\ it[0] = << <<>> >>
    /\ \A i \in 1 .. Len(path) : it[i] = Split(it[i - 1], path[i])

\* Behind its k-th character path is s.
EndsWith(path, k, s) ==
    Len(path) = k + Len(s) /\ \A i \in 1 .. Len(s) : path[k + i] = s[i]

\* A level that ends the path: from the position k on there is only s.
LEMMA LevelGrows ==
  ASSUME NEW S, NEW path \in Seq(S), NEW it, IsWay(it, path),
         NEW k \in Nat, NEW ls \in Seq(Seq(S)), it[k] = Append(ls, <<>>),
         NEW s \in Seq(S), "/" \notin Range(s), EndsWith(path, k, s)
  PROVE  it[Len(path)] = Append(ls, s)
  <1> DEFINE n == Len(s)
             p(i) == SubSeq(s, 1, i)
             Good == {i \in 0 .. n : it[k + i] = Append(ls, p(i))}
  <1>1. n \in Nat /\ \A i \in 1 .. n : s[i] # "/"
    <2>1. n \in Nat /\ DOMAIN s = 1 .. n
      OBVIOUS
    <2>2. \A i \in 1 .. n : s[i] \in Range(s)
      BY <2>1 DEF Range
    <2> QED BY <2>1, <2>2
  <1>2. 0 \in Good
    <2>1. p(0) = <<>>
      BY WholePrefix
    <2>2. k + 0 = k /\ 0 \in 0 .. n
      BY <1>1
    <2> HIDE DEF p
    <2> QED BY <2>1, <2>2
  <1>3. ASSUME NEW i \in 0 .. n, i \in Good, i < n
        PROVE  i + 1 \in Good
    <2>1. /\ i \in Nat /\ i + 1 \in 1 .. n /\ i + 1 \in 0 .. n
          /\ k + (i + 1) \in 1 .. Len(path) /\ (k + (i + 1)) - 1 = k + i
      BY <1>1, <1>3 DEF EndsWith
    <2>2. path[k + (i + 1)] = s[i + 1] /\ s[i + 1] # "/"
      BY <1>1, <2>1 DEF EndsWith
    <2> DEFINE c == s[i + 1]
               j == k + (i + 1)
               x == p(i)
               L == Seq(S)
    <2>3. it[j] = Split(it[k + i], c)
      BY <2>1, <2>2 DEF IsWay
    <2>4. it[k + i] = Append(ls, x)
      BY <1>3
    <2>5. p(i + 1) = Append(x, c)
      BY <1>3, <2>1, PrefixGrows
    <2>6. x \in L /\ p(i + 1) \in L /\ Append(x, c) \in L
      BY <1>1, <2>1, <2>5, WholePrefix
    <2>7. ls \in Seq(L) /\ c # "/"
      BY <2>2
    <2> HIDE DEF c, x, L, p
    <2>8. Split(Append(ls, x), c) = Append(ls, Append(x, c))
      BY <2>5, <2>6, <2>7, SplitAppend
    <2>9. it[j] = Append(ls, p(i + 1))
      BY <2>3, <2>4, <2>5, <2>8
    <2> QED BY <2>1, <2>9
  <1>4. n \in Good
    <2> HIDE DEF Good
    <2>1. \A i \in 0 .. n : i \in Good /\ i < n => i + 1 \in Good
      BY <1>3
    <2>2. 0 .. n \subseteq Good
      BY <1>1, <1>2, <2>1, InductionUpTo
    <2> QED BY <1>1, <2>2
  <1>5. p(n) = s
    BY WholePrefix
  <1> HIDE DEF p
  <1>6. it[k + n] = Append(ls, s)
    BY <1>4, <1>5
  <1> QED BY <1>6 DEF EndsWith

LEMMA WayTyped ==
  ASSUME NEW S, NEW path \in Seq(S), NEW it, IsWay(it, path)
  PROVE  \A k \in 0 .. Len(path) : it[k] \in Seq(Seq(S)) \ {<<>>}
  <1> DEFINE n == Len(path)
             A == Seq(Seq(S)) \ {<<>>}
             Good == {k \in 0 .. n : it[k] \in A}
  <1>1. 0 \in Good
    <2> DEFINE e == << <<>> >>
    <2>1. e \in A /\ n \in Nat
      OBVIOUS
    <2>2. it[0] = e
      BY DEF IsWay
    <2> HIDE DEF A, e
    <2> QED BY <2>1, <2>2
  <1>2. ASSUME NEW k \in 0 .. n, k \in Good, k < n
        PROVE  k + 1 \in Good
    <2>1. k + 1 \in 1 .. n /\ (k + 1) - 1 = k /\ k + 1 \in 0 .. n
      BY <1>2
    <2>2. it[k + 1] = Split(it[k], path[k + 1]) /\ path[k + 1] \in S
      BY <2>1 DEF IsWay
    <2>3. it[k] \in A
      BY <1>2
    <2>4. it[k + 1] \in A
      BY <2>2, <2>3, SplitTyped
    <2> QED BY <2>1, <2>4
  <1>3. 0 .. n \subseteq Good
    <2> HIDE DEF Good
    <2>1. \A k \in 0 .. n : k \in Good /\ k < n => k + 1 \in Good
      BY <1>2
    <2> QED BY <1>1, <2>1, InductionUpTo
  <1> QED BY <1>3

LEMMA WaysAgree ==
  ASSUME NEW S, NEW p \in Seq(S), NEW q \in Seq(S), Len(p) <= Len(q),
         \A i \in 1 .. Len(p) : q[i] = p[i],
         NEW it, IsWay(it, p), NEW jt, IsWay(jt, q)
  PROVE  it[Len(p)] = jt[Len(p)]
  <1> DEFINE n == Len(p)
             Good == {k \in 0 .. n : it[k] = jt[k]}
  <1>1. 0 \in Good
    BY DEF IsWay
  <1>2. ASSUME NEW k \in 0 .. n, k \in Good, k < n
        PROVE  k + 1 \in Good
    <2>1. /\ k + 1 \in 1 .. n /\ (k + 1) - 1 = k /\ k + 1 \in 0 .. n
          /\ k + 1 \in 1 .. Len(q)
      BY <1>2
    <2>2. /\ it[k + 1] = Split(it[k], p[k + 1])
          /\ jt[k + 1] = Split(jt[k], q[k + 1])
      BY <2>1 DEF IsWay
    <2>3. it[k] = jt[k] /\ q[k + 1] = p[k + 1]
      BY <1>2, <2>1
    <2> QED BY <2>1, <2>2, <2>3
  <1>3. 0 .. n \subseteq Good
    <2> HIDE DEF Good
    <2>1. \A k \in 0 .. n : k \in Good /\ k < n => k + 1 \in Good
      BY <1>2
    <2>2. n \in Nat
      OBVIOUS
    <2> HIDE DEF n
    <2> QED BY <1>1, <2>1, <2>2, InductionUpTo
  <1> QED BY <1>3

LEMMA WayOf ==
  ASSUME NEW S, NEW path \in Seq(S)
  PROVE  \E it : IsWay(it, path) /\ Levels(path) = it[Len(path)]
  BY SplitUnrolled DEF IsWay

LEMMA LevelsTyped ==
  ASSUME NEW S, NEW path \in Seq(S)
  PROVE  Levels(path) \in Seq(Seq(S)) \ {<<>>}
  <1>1. PICK it : IsWay(it, path) /\ Levels(path) = it[Len(path)]
    BY WayOf
  <1>2. Len(path) \in 0 .. Len(path)
    OBVIOUS
  <1> QED BY <1>1, <1>2, WayTyped

\* One directory of a path.
IsDirectory(s) == IsSequence(s) /\ s # <<>> /\ "/" \notin Range(s)

LEMMA FirstLevel ==
  ASSUME NEW s, IsDirectory(s)
  PROVE  Levels(s) = <<s>>
  <1> DEFINE S == {s[i] : i \in 1 .. Len(s)}
  <1>1. s \in Seq(S) /\ "/" \notin Range(s)
    BY SequenceIn DEF IsDirectory
  <1> HIDE DEF S
  <1>2. PICK it : IsWay(it, s) /\ Levels(s) = it[Len(s)]
    BY <1>1, WayOf
  <1> DEFINE none == <<>>
  <1>3. it[0] = Append(none, <<>>)
    BY <1>2, AppendToNone DEF IsWay
  <1>4. none \in Seq(Seq(S)) /\ 0 \in Nat /\ EndsWith(s, 0, s)
    BY <1>1 DEF EndsWith
  <1>5. Append(none, s) = <<s>>
    BY AppendToNone
  <1> HIDE DEF none
  <1>6. it[Len(s)] = Append(none, s)
    BY <1>1, <1>2, <1>3, <1>4, LevelGrows
  <1> QED BY <1>2, <1>5, <1>6

LEMMA SlashIs == IsSequence(<<"/">>) /\ Len(<<"/">>) = 1 /\ <<"/">>[1] = "/"
  <1> DEFINE t == <<"/">>
  <1>1. t \in Seq({"/"}) /\ Len(t) = 1 /\ t[1] = "/"
    OBVIOUS
  <1> HIDE DEF t
  <1>2. IsSequence(t)
    BY <1>1, SequenceOf
  <1> QED BY <1>1, <1>2 DEF t

LEMMA OneMoreLevel ==
  ASSUME NEW p, IsSequence(p), NEW s, IsDirectory(s)
  PROVE  /\ IsSequence(Levels(p))
         /\ Levels(p \o <<"/">> \o s) = Append(Levels(p), s)
         /\ IsSequence(p \o <<"/">> \o s)
         /\ Len(p \o <<"/">> \o s) = Len(p) + 1 + Len(s)
         /\ \A i \in 1 .. Len(s) : (p \o <<"/">> \o s)[Len(p) + 1 + i] = s[i]
  <1> DEFINE k == Len(p)
             slash == <<"/">>
             f == p \o slash
             q == f \o s
             S == {p[i] : i \in 1 .. k} \union {s[i] : i \in 1 .. Len(s)} \union {"/"}
  <1>1. IsSequence(s) /\ "/" \notin Range(s)
    BY DEF IsDirectory
  <1>2. IsSequence(slash) /\ Len(slash) = 1 /\ slash[1] = "/" /\ k \in Nat /\ Len(s) \in Nat
    BY <1>1, SlashIs DEF IsSequence
  <1> HIDE DEF slash
  <1>3. /\ IsSequence(f) /\ Len(f) = k + 1
        /\ \A i \in 1 .. k : f[i] = p[i]
        /\ f[k + 1] = "/"
    <2>0. IsSequence(slash)
      BY <1>2
    <2>1. /\ IsSequence(f) /\ Len(f) = k + Len(slash)
          /\ \A i \in 1 .. k : f[i] = p[i]
          /\ \A i \in 1 .. Len(slash) : f[k + i] = slash[i]
      BY <2>0, CatIs
    <2>2. f[k + 1] = slash[1]
      BY <1>2, <2>1
    <2> QED BY <1>2, <2>1, <2>2
  <1> HIDE DEF f
  <1>4. /\ IsSequence(q) /\ Len(q) = k + 1 + Len(s)
        /\ \A i \in 1 .. k + 1 : q[i] = f[i]
        /\ \A i \in 1 .. Len(s) : q[k + 1 + i] = s[i]
    <2>1. /\ IsSequence(q) /\ Len(q) = Len(f) + Len(s)
          /\ \A i \in 1 .. Len(f) : q[i] = f[i]
          /\ \A i \in 1 .. Len(s) : q[Len(f) + i] = s[i]
      BY <1>1, <1>3, CatIs
    <2> QED BY <1>3, <2>1
  <1> HIDE DEF q
  <1>5. p \in Seq(S) /\ s \in Seq(S) /\ q \in Seq(S)
    <2>1. \A i \in 1 .. k : p[i] \in S
      OBVIOUS
    <2>2. \A i \in 1 .. Len(s) : s[i] \in S
      OBVIOUS
    <2>3. "/" \in S
      OBVIOUS
    <2> HIDE DEF S
    <2>4. ASSUME NEW i \in 1 .. Len(q) PROVE q[i] \in S
      <3>1. CASE i <= k
        <4>1. i \in 1 .. k /\ i \in 1 .. k + 1
          BY <1>2, <1>4, <3>1
        <4> QED BY <1>3, <1>4, <2>1, <4>1
      <3>2. CASE i = k + 1
        <4>1. k + 1 \in 1 .. k + 1
          BY <1>2
        <4> QED BY <1>3, <1>4, <2>3, <3>2, <4>1
      <3>3. CASE i > k + 1
        <4> DEFINE m == i - (k + 1)
        <4>1. m \in 1 .. Len(s) /\ k + 1 + m = i
          BY <1>2, <1>4, <3>3
        <4> HIDE DEF m
        <4>2. q[k + 1 + m] = s[m]
          BY <1>4, <4>1
        <4> QED BY <2>2, <4>1, <4>2
      <3>4. i <= k \/ i = k + 1 \/ i > k + 1
        BY <1>2
      <3> QED BY <3>1, <3>2, <3>3, <3>4
    <2> QED BY <1>1, <1>4, <2>1, <2>2, <2>4, SequenceIn
  <1> HIDE DEF S
  <1>6. PICK it : IsWay(it, p) /\ Levels(p) = it[k]
    BY <1>5, WayOf
  <1>7. PICK jt : IsWay(jt, q) /\ Levels(q) = jt[Len(q)]
    BY <1>5, WayOf
  <1>8. it[k] = jt[k]
    <2>1. Len(p) <= Len(q)
      BY <1>2, <1>4
    <2>2. \A i \in 1 .. Len(p) : q[i] = p[i]
      BY <1>2, <1>3, <1>4
    <2>3. p \in Seq(S) /\ q \in Seq(S) /\ IsWay(it, p) /\ IsWay(jt, q)
      BY <1>5, <1>6, <1>7
    <2> QED BY <2>1, <2>2, <2>3, WaysAgree
  <1> DEFINE ls == Levels(p)
             j == k + 1
  <1>9. jt[j] = Append(ls, <<>>)
    <2>1. j \in 1 .. Len(q) /\ j - 1 = k /\ q[j] = "/"
      <3>1. j \in 1 .. k + 1 /\ j \in 1 .. Len(q) /\ j - 1 = k
        BY <1>2, <1>4
      <3> QED BY <1>3, <1>4, <3>1
    <2>2. jt[j] = Split(jt[k], "/")
      BY <1>7, <2>1 DEF IsWay
    <2> QED BY <1>6, <1>8, <2>2 DEF Split
  <1>10. ls \in Seq(Seq(S))
    BY <1>5, LevelsTyped
  <1>11. j \in Nat /\ Len(q) = j + Len(s) /\ \A i \in 1 .. Len(s) : q[j + i] = s[i]
    BY <1>2, <1>4
  <1> HIDE DEF ls, j
  <1>12. jt[Len(q)] = Append(ls, s)
    <2>1. q \in Seq(S) /\ s \in Seq(S) /\ "/" \notin Range(s) /\ IsWay(jt, q)
      BY <1>1, <1>5, <1>7
    <2>2. j \in Nat /\ EndsWith(q, j, s)
      BY <1>11 DEF EndsWith
    <2> QED BY <1>9, <1>10, <2>1, <2>2, LevelGrows
  <1>13. IsSequence(ls)
    BY <1>10, SequenceOf
  <1> QED BY <1>4, <1>7, <1>12, <1>13 DEF ls, q, f, slash

-----------------------------------------------------------------------------
(***************************************************************************)
(* The path of a record and its levels grow together.                      *)
(***************************************************************************)

File(levels, raw, info) ==
    IF Files(raw, info) THEN Append(levels, Level(raw, info)) ELSE levels

LEMMA LevelsOfUnrolled ==
  ASSUME NEW info, NEW n \in Nat, DOMAIN Raw = 1 .. n
  PROVE  \E it : /\ it[0] = <<>>
                 /\ \A i \in 1 .. n : it[i] = File(it[i - 1], Raw[i], info)
                 /\ LevelsOf(info) = it[n]
  <1> DEFINE raw == Raw
             A == Seq({Level(raw[i], info) : i \in 1 .. n})
             step == [x \in A \X (1 .. n) |-> File(x[1], raw[x[2]], info)]
             IsIter(g) == g = [t \in SUBSET (1 .. n) |->
                                 IF t = {} THEN <<>>
                                 ELSE File(g[t \ {Max(t)}], raw[Max(t)], info)]
  <1>0. DOMAIN raw = 1 .. n
    OBVIOUS
  <1>1. LevelsOf(info) =
            FoldLeft(LAMBDA levels, r : File(levels, r, info), <<>>, raw)
    BY DEF LevelsOf, File
  <1> HIDE DEF raw
  <1>2. step \in [A \X (1 .. n) -> A] /\ <<>> \in A
    <2> DEFINE S == {Level(raw[i], info) : i \in 1 .. n}
    <2>1. ASSUME NEW t \in A, NEW i \in 1 .. n PROVE File(t, raw[i], info) \in A
      <3>1. Level(raw[i], info) \in S /\ t \in Seq(S)
        OBVIOUS
      <3> HIDE DEF S
      <3>2. Append(t, Level(raw[i], info)) \in Seq(S)
        BY <3>1, AppendTyped
      <3> QED BY <3>1, <3>2 DEF File, S
    <2>2. ASSUME NEW x \in A \X (1 .. n) PROVE File(x[1], raw[x[2]], info) \in A
      <3>1. x[1] \in A /\ x[2] \in 1 .. n
        OBVIOUS
      <3> HIDE DEF A
      <3> QED BY <2>1, <3>1
    <2> HIDE DEF S
    <2>3. <<>> \in A
      OBVIOUS
    <2> QED BY <2>2, <2>3
  <1>3. \E g : IsIter(g)
    <2>1. PICK g \in [SUBSET (1 .. n) -> A] : IsFold(g, <<>>, step, n)
      <3> DEFINE none == <<>>
      <3>1. none \in A /\ step \in [A \X (1 .. n) -> A]
        BY <1>2
      <3> HIDE DEF none, A, step
      <3>2. \E g \in [SUBSET (1 .. n) -> A] : IsFold(g, none, step, n)
        BY <3>1, FoldExists
      <3> QED BY <3>2 DEF none
    <2> HIDE DEF A
    <2>2. ASSUME NEW t \in SUBSET (1 .. n)
          PROVE  g[t] = IF t = {} THEN <<>>
                        ELSE File(g[t \ {Max(t)}], raw[Max(t)], info)
      <3>1. CASE t = {}
        BY <2>1, <3>1 DEF IsFold
      <3>2. CASE t # {}
        <4>1. Max(t) \in 1 .. n /\ t \ {Max(t)} \in SUBSET (1 .. n)
          BY <3>2, IndexSets
        <4>2. <<g[t \ {Max(t)}], Max(t)>> \in A \X (1 .. n)
          BY <4>1
        <4>3. step[<<g[t \ {Max(t)}], Max(t)>>]
                = File(g[t \ {Max(t)}], raw[Max(t)], info)
          BY <4>2
        <4>4. g[t] = step[<<g[t \ {Max(t)}], Max(t)>>]
          BY <2>1, <3>2 DEF IsFold
        <4> HIDE DEF step
        <4> QED BY <3>2, <4>3, <4>4
      <3> QED BY <3>1, <3>2
    <2>3. IsIter(g)
      BY <2>2
    <2> HIDE DEF IsIter
    <2> QED BY <2>3
  <1> DEFINE g == CHOOSE g : IsIter(g)
  <1>4. IsIter(g)
    <2> HIDE DEF IsIter
    <2> QED BY <1>3
  <1>5. LevelsOf(info) = g[1 .. n]
    BY <1>0, <1>1 DEF FoldLeft, MapThenFoldSet
  <1> HIDE DEF g
  <1>6. \A t \in SUBSET (1 .. n) :
            g[t] = IF t = {} THEN <<>> ELSE File(g[t \ {Max(t)}], raw[Max(t)], info)
    BY <1>4
  <1> DEFINE it == [i \in 0 .. n |-> g[1 .. i]]
  <1>7. it[0] = <<>> /\ it[n] = g[1 .. n]
    <2>1. 1 .. 0 = {} /\ 1 .. 0 \in SUBSET (1 .. n)
      OBVIOUS
    <2>2. g[1 .. 0] = <<>>
      BY <1>6, <2>1
    <2>3. it[0] = g[1 .. 0] /\ it[n] = g[1 .. n]
      OBVIOUS
    <2> QED BY <2>2, <2>3
  <1>8. ASSUME NEW i \in 1 .. n
        PROVE  it[i] = File(it[i - 1], raw[i], info)
    <2>1. it[i] = g[1 .. i] /\ it[i - 1] = g[1 .. i - 1] /\ i \in 0 .. n
      OBVIOUS
    <2>2. /\ 1 .. i \in SUBSET (1 .. n) /\ 1 .. i # {} /\ Max(1 .. i) = i
          /\ (1 .. i) \ {i} = 1 .. i - 1
      BY <2>1, IndexSets
    <2> HIDE DEF it
    <2> QED BY <1>6, <2>1, <2>2
  <1> HIDE DEF it
  <1> QED BY <1>5, <1>7, <1>8 DEF raw

\* Where the path stands after the levels.
Reached(path, levels) ==
    /\ IsSequence(levels)
    /\ \/ levels = <<>> /\ path = <<>>
       \/ /\ levels # <<>> /\ Levels(path) = levels
          /\ IsSequence(path) /\ Len(path) > 0 /\ path[Len(path)] # "/"

LEMMA LevelReached ==
  ASSUME NEW p, NEW ls, Reached(p, ls), NEW s, IsDirectory(s)
  PROVE  Reached(Slash(p, s), Append(ls, s))
  <1> DEFINE ms == Append(ls, s)
  <1>1. IsSequence(ls) /\ IsSequence(ms) /\ Len(ms) = Len(ls) + 1 /\ Len(ls) \in Nat
    BY AppendIs DEF Reached, IsSequence
  <1>2. ms # <<>>
    <2>1. Len(ms) # 0
      BY <1>1
    <2> HIDE DEF ms
    <2> QED BY <2>1, EmptySequence
  <1>3. /\ IsSequence(s) /\ s # <<>> /\ Len(s) > 0 /\ Len(s) \in Nat
        /\ \A i \in 1 .. Len(s) : s[i] # "/"
        /\ Head(s) = s[1]
    <2>1. IsSequence(s) /\ s # <<>> /\ "/" \notin Range(s)
      BY DEF IsDirectory
    <2>2. Len(s) > 0 /\ Head(s) = s[1]
      BY <2>1, TailIs
    <2>3. Len(s) \in Nat /\ DOMAIN s = 1 .. Len(s)
      BY <2>1, SequenceDomain DEF IsSequence
    <2>4. \A i \in 1 .. Len(s) : s[i] \in Range(s)
      BY <2>3 DEF Range
    <2> QED BY <2>1, <2>2, <2>3, <2>4
  <1>4. s[1] # "/" /\ s[Len(s)] # "/"
    <2>1. 1 \in 1 .. Len(s) /\ Len(s) \in 1 .. Len(s)
      BY <1>3
    <2> QED BY <1>3, <2>1
  <1>5. CASE ls = <<>> /\ p = <<>>
    <2>1. Slash(p, s) = s
      <3>1. Slash(p, s) = p \o s
        BY <1>3, <1>5 DEF Slash
      <3>2. <<>> \o s = s
        <4>1. s \in Seq({s[i] : i \in 1 .. Len(s)})
          BY <1>3, SequenceIn
        <4> QED BY <4>1
      <3> QED BY <1>5, <3>1, <3>2
    <2>2. Levels(s) = <<s>>
      BY FirstLevel
    <2>3. ms = <<s>>
      BY <1>5, AppendToNone
    <2> HIDE DEF ms
    <2> QED BY <1>1, <1>2, <1>3, <1>4, <2>1, <2>2, <2>3 DEF Reached, ms
  <1>6. CASE /\ ls # <<>> /\ Levels(p) = ls
             /\ IsSequence(p) /\ Len(p) > 0 /\ p[Len(p)] # "/"
    <2> DEFINE q == p \o <<"/">> \o s
    <2>1. Slash(p, s) = q
      <3>1. p # <<>>
        BY <1>6, EmptySequence
      <3>2. Last(p) # "/" /\ Head(s) # "/"
        BY <1>3, <1>4, <1>6 DEF Last
      <3> QED BY <1>3, <3>1, <3>2 DEF Slash
    <2>2. /\ Levels(q) = ms /\ IsSequence(q) /\ Len(q) = Len(p) + 1 + Len(s)
          /\ \A i \in 1 .. Len(s) : q[Len(p) + 1 + i] = s[i]
      BY <1>6, OneMoreLevel
    <2> HIDE DEF q, ms
    <2>3. Len(p) \in Nat
      BY <1>6 DEF IsSequence
    <2>4. Len(s) \in 1 .. Len(s) /\ Len(q) > 0
      BY <1>3, <2>2, <2>3
    <2>5. q[Len(q)] = s[Len(s)]
      BY <2>2, <2>4
    <2> QED BY <1>1, <1>2, <1>4, <2>1, <2>2, <2>4, <2>5 DEF Reached, ms
  <1> QED BY <1>5, <1>6 DEF Reached

LEMMA OtherIs == IsDirectory(Other)
  <1>1. /\ Other \in Seq({"o", "t", "h", "e", "r"}) /\ Len(Other) = 5
    BY DEF Other
  <1>2. DOMAIN Other = 1 .. 5
    BY <1>1
  <1>3. /\ Other[1] = "o" /\ Other[2] = "t" /\ Other[3] = "h" /\ Other[4] = "e"
        /\ Other[5] = "r"
    BY DEF Other
  <1>4. \A i \in 1 .. 5 : Other[i] # "/"
    <2>1. 1 .. 5 = {1, 2, 3, 4, 5}
      OBVIOUS
    <2> QED BY <1>3, <2>1
  <1>5. IsSequence(Other)
    BY <1>1, SequenceOf
  <1>6. Other # <<>>
    <2>1. Len(Other) = 5
      BY <1>1
    <2> QED BY <2>1, EmptySequence
  <1>7. "/" \notin Range(Other)
    BY <1>2, <1>4 DEF Range
  <1> QED BY <1>5, <1>6, <1>7 DEF IsDirectory

LEMMA LevelIsDirectory ==
  ASSUME NEW s, IsLevel(s)
  PROVE  IsDirectory(s)
  <1>1. IsSequence(s)
    BY SequenceOf DEF IsLevel
  <1> QED BY <1>1 DEF IsLevel, IsDirectory

LEMMA SafeIsDirectory ==
  ASSUME NEW s, IsLevel(s)
  PROVE  IsDirectory(SafePath(s))
  <1> DEFINE t == SafePath(s)
  <1>1. IsSequence(s) /\ s # <<>> /\ "/" \notin Range(s)
    BY LevelIsDirectory DEF IsDirectory
  <1>2. DOMAIN s = 1 .. Len(s) /\ Len(s) \in Nat
    BY <1>1, SequenceDomain DEF IsSequence
  <1>3. t = [i \in 1 .. Len(s) |-> IF s[i] \in SafeChar THEN s[i] ELSE "_"]
    BY <1>2 DEF SafePath
  <1> HIDE DEF t
  <1>4. IsSequence(t) /\ Len(t) = Len(s) /\ DOMAIN t = 1 .. Len(s)
    <2>1. DOMAIN t = 1 .. Len(s) /\ t = [i \in DOMAIN t |-> t[i]]
      BY <1>3
    <2> QED BY <1>2, <2>1, SequenceMade
  <1>5. t # <<>>
    BY <1>1, <1>4, EmptySequence, IsEmpty
  <1>6. \A i \in 1 .. Len(s) : t[i] # "/"
    <2>1. \A i \in 1 .. Len(s) : s[i] # "/"
      BY <1>1, <1>2 DEF Range
    <2> QED BY <1>3, <2>1
  <1>7. "/" \notin Range(t)
    BY <1>4, <1>6 DEF Range
  <1> QED BY <1>4, <1>5, <1>7 DEF IsDirectory, t

\* A dimension in which white space makes no difference, as it is loaded.
LEMMA DimensionLoaded ==
  ASSUME NEW raw, DimensionOk(raw), Spaceless(raw),
         \A s \in Texts(raw) : IsSequence(s)
  PROVE  LET av == raw["allowed_values"]
             d == TelemetryDimension(raw)
         IN  /\ av.type \in {"string", "array", "object"}
             /\ d.name = raw["field_name"].text
             /\ av.type = "string" => d.type = "kValue" /\ d.value = av.text
             /\ av.type = "array" => d.type = "kSet" /\ d.set = Strings(av)
             /\ av.type = "object" =>
                   /\ d.type = "kRange"
                   /\ d.range = <<av.members["min"].value, av.members["max"].value>>
  <1> DEFINE av == raw["allowed_values"]
             l == Loaded(av)
             name == WithoutSpace(raw["field_name"].text)
             d == TelemetryDimension(raw)
  <1>1. /\ av.type \in {"string", "array", "object"}
        /\ av.type = "array" => \A e \in av.elements : e.type = "string"
    <2> DEFINE m == Member(raw, "allowed_values")
    <2>1. /\ m.type \in {"string", "array", "object"}
          /\ m.type = "array" => \A e \in m.elements : e.type = "string"
      BY DEF DimensionOk
    <2>2. m = av
      BY <2>1 DEF Member, Null
    <2> HIDE DEF m
    <2> QED BY <2>1, <2>2
  <1>2. \A s \in Texts(raw) : WithoutSpace(s) = s
    <2> SUFFICES ASSUME NEW s \in Texts(raw) PROVE WithoutSpace(s) = s
      OBVIOUS
    <2> DEFINE S == {s[i] : i \in 1 .. Len(s)}
    <2>1. s \in Seq(S) /\ SpaceChar \cap Range(s) = {}
      BY SequenceIn DEF Spaceless
    <2> HIDE DEF S
    <2> QED BY <2>1, NothingTrimmed
  <1>3. name = raw["field_name"].text
    BY <1>2 DEF Texts
  <1>4. \A s \in Strings(av) : WithoutSpace(s) = s
    BY <1>2 DEF Texts
  <1>5. d = CASE l.type = "string" ->
                    [name |-> name, type |-> "kValue", value |-> l.text]
              [] l.type = "array" ->
                    [name |-> name, type |-> "kSet", set |-> {e.text : e \in l.elements}]
              [] l.type = "object" ->
                    [name |-> name, type |-> "kRange",
                     range |-> <<l.members["min"].value, l.members["max"].value>>]
    BY DEF TelemetryDimension
  <1>6. l = IF av.type = "array"
              THEN [type |-> "array", elements |-> {Trimmed(e) : e \in av.elements}]
              ELSE IF av.type = "string"
                     THEN [type |-> "string", text |-> WithoutSpace(av.text)] ELSE av
    BY DEF Loaded, Trimmed
  <1> HIDE DEF name, d, l, av
  <1>7. CASE av.type = "string"
    <2>1. l = [type |-> "string", text |-> WithoutSpace(av.text)]
      BY <1>6, <1>7
    <2>2. Strings(av) = {av.text}
      BY <1>7 DEF Strings
    <2>3. l.type = "string" /\ l.text = av.text
      BY <1>4, <2>1, <2>2
    <2>4. d = [name |-> name, type |-> "kValue", value |-> l.text]
      BY <1>5, <2>3
    <2> QED BY <1>3, <1>7, <2>3, <2>4 DEF av, d
  <1>8. CASE av.type = "array"
    <2>1. l = [type |-> "array", elements |-> {Trimmed(e) : e \in av.elements}]
      BY <1>6, <1>8
    <2>2. Strings(av) = {e.text : e \in av.elements}
      BY <1>8 DEF Strings
    <2>3. \A e \in av.elements : Trimmed(e).text = e.text
      <3> SUFFICES ASSUME NEW e \in av.elements PROVE Trimmed(e).text = e.text
        OBVIOUS
      <3>1. e.type = "string" /\ e.text \in Strings(av)
        BY <1>1, <1>8, <2>2
      <3>2. Trimmed(e) = [type |-> "string", text |-> WithoutSpace(e.text)]
        BY <3>1 DEF Trimmed
      <3> QED BY <1>4, <3>1, <3>2
    <2>4. {e.text : e \in l.elements} = Strings(av)
      <3>1. l.elements = {Trimmed(e) : e \in av.elements}
        BY <2>1
      <3> QED BY <2>2, <2>3, <3>1
    <2>5. l.type = "array"
      BY <2>1
    <2>6. d = [name |-> name, type |-> "kSet", set |-> {e.text : e \in l.elements}]
      BY <1>5, <2>5
    <2> QED BY <1>3, <1>8, <2>4, <2>6 DEF av, d
  <1>9. CASE av.type = "object"
    <2>1. l = av
      BY <1>6, <1>9
    <2>2. d = [name |-> name, type |-> "kRange",
               range |-> <<av.members["min"].value, av.members["max"].value>>]
      BY <1>5, <1>9, <2>1
    <2> QED BY <1>3, <1>9, <2>2 DEF av, d
  <1> QED BY <1>1, <1>7, <1>8, <1>9 DEF av

\* One dimension adds the level that LevelsOf() adds, or none as it does.
LEMMA LevelAdded ==
  ASSUME NEW raw, DimensionOk(raw), Spaceless(raw),
         \A s \in Texts(raw) : IsSequence(s),
         NEW info, IsInfo(info), OneLevel(info), NEW a, Levelled(a)
  PROVE  LET dim == TelemetryDimension(raw)
             b == AddLevel(a, dim, Member(info, dim.name))
         IN  IF Files(raw, info)
               THEN IsDirectory(Level(raw, info)) /\ b.path = Slash(a.path, Level(raw, info))
               ELSE b.path = a.path
  <1> DEFINE dim == TelemetryDimension(raw)
             name == raw["field_name"].text
             v == Member(info, name)
             b == AddLevel(a, dim, v)
             av == raw["allowed_values"]
             l == Level(raw, info)
             text == IF Allows(dim, v.text) THEN SafePath(v.text) ELSE Other
             number == IF InRange(dim, v.value) THEN CastText(v.value) ELSE Other
  <1>1. /\ av.type \in {"string", "array", "object"}
        /\ dim.name = name
        /\ av.type = "string" => dim.type = "kValue" /\ dim.value = av.text
        /\ av.type = "array" => dim.type = "kSet" /\ dim.set = Strings(av)
        /\ av.type = "object" =>
              /\ dim.type = "kRange"
              /\ dim.range = <<av.members["min"].value, av.members["max"].value>>
    BY DimensionLoaded
  <1>2. dim.type = "kRange" <=> av.type = "object"
    BY <1>1
  <1>3. Files(raw, info) <=> v.type = (IF av.type = "object" THEN "number" ELSE "string")
    BY DEF Files
  <1>4. v.type # "null" => name \in DOMAIN info /\ v = info[name]
    BY DEF Member, Null
  <1>5. b = CASE v.type = "string" /\ dim.type # "kRange" ->
                    [a EXCEPT !.path = Slash(a.path, text)]
              [] v.type = "string" /\ dim.type = "kRange" ->
                    [a EXCEPT !.invalidString = @ + 1]
              [] v.type = "number" /\ dim.type = "kRange" ->
                    [a EXCEPT !.path = Slash(a.path, number)]
              [] v.type = "number" /\ dim.type # "kRange" ->
                    [a EXCEPT !.invalidNumeric = @ + 1]
              [] OTHER -> a
    BY DEF AddLevel
  <1>6. DOMAIN a = {"path", "invalidString", "invalidNumeric"}
    BY DEF Levelled
  <1>7. CASE v.type = "string" /\ av.type # "object"
    <2>1. name \in DOMAIN info /\ v = info[name]
      BY <1>4, <1>7
    <2>2. l = text
      <3>1. l = IF \/ v.text \in Strings(av)
                   \/ av.type = "string" /\ av.text = <<"*">>
                  THEN SafePath(v.text) ELSE Other
        BY <1>7, <2>1 DEF Level
      <3>2. Allows(dim, v.text) <=> \/ v.text \in Strings(av)
                                    \/ av.type = "string" /\ av.text = <<"*">>
        <4>1. CASE av.type = "string"
          <5>1. Strings(av) = {av.text}
            BY <4>1 DEF Strings
          <5>2. dim.type = "kValue" /\ dim.value = av.text
            BY <1>1, <4>1
          <5> HIDE DEF dim, av, v
          <5> QED BY <4>1, <5>1, <5>2 DEF Allows
        <4>2. CASE av.type = "array"
          <5>1. dim.type = "kSet" /\ dim.set = Strings(av)
            BY <1>1, <4>2
          <5> HIDE DEF dim, av, v
          <5> QED BY <4>2, <5>1 DEF Allows
        <4> QED BY <1>1, <1>7, <4>1, <4>2
      <3> HIDE DEF l, v, av, dim
      <3> QED BY <3>1, <3>2
    <2>3. IsDirectory(text)
      <3>1. IsLevel(v.text)
        BY <1>7, <2>1 DEF OneLevel
      <3> HIDE DEF v, dim
      <3> QED BY <3>1, SafeIsDirectory, OtherIs
    <2>4. b = [a EXCEPT !.path = Slash(a.path, text)]
      <3> HIDE DEF b, v, dim, av, text, number
      <3> QED BY <1>2, <1>5, <1>7
    <2> HIDE DEF b, v, dim, av, text, number, l
    <2>5. b.path = Slash(a.path, l)
      BY <1>6, <2>2, <2>4
    <2>6. Files(raw, info) /\ IsDirectory(l)
      BY <1>3, <1>7, <2>2, <2>3
    <2> QED BY <1>1, <2>5, <2>6 DEF b, v, l, dim
  <1>8. CASE v.type = "number" /\ av.type = "object"
    <2>1. name \in DOMAIN info /\ v = info[name]
      BY <1>4, <1>8
    <2>2. l = number
      <3>1. l = IF /\ av.members["min"].value <= v.value
                   /\ v.value <= av.members["max"].value
                  THEN CastText(v.value) ELSE Other
        BY <1>8, <2>1 DEF Level
      <3>2. /\ dim.range[1] = av.members["min"].value
            /\ dim.range[2] = av.members["max"].value
        BY <1>1, <1>8
      <3> HIDE DEF l, v, av, dim
      <3> QED BY <3>1, <3>2 DEF InRange
    <2>3. IsDirectory(number)
      <3>1. IsLevel(CastText(v.value))
        BY <1>8, <2>1 DEF IsInfo
      <3> HIDE DEF v, dim
      <3> QED BY <3>1, LevelIsDirectory, OtherIs
    <2>4. b = [a EXCEPT !.path = Slash(a.path, number)]
      <3> HIDE DEF b, v, dim, av, text, number
      <3> QED BY <1>2, <1>5, <1>8
    <2> HIDE DEF b, v, dim, av, text, number, l
    <2>5. b.path = Slash(a.path, l)
      BY <1>6, <2>2, <2>4
    <2>6. Files(raw, info) /\ IsDirectory(l)
      BY <1>3, <1>8, <2>2, <2>3
    <2> QED BY <1>1, <2>5, <2>6 DEF b, v, l, dim
  <1>9. CASE ~(v.type = "string" /\ av.type # "object")
             /\ ~(v.type = "number" /\ av.type = "object")
    <2>1. ~Files(raw, info)
      <3> HIDE DEF v, av
      <3> QED BY <1>3, <1>9
    <2>2. b.path = a.path
      <3> HIDE DEF b, v, dim, av, text, number, l
      <3> QED BY <1>2, <1>5, <1>6, <1>9
    <2> HIDE DEF b, v, l, dim
    <2> QED BY <1>1, <2>1, <2>2 DEF b, v, dim
  <1> QED BY <1>7, <1>8, <1>9

\* The n dimensions of the schema file, and d, what is loaded of them.
AreLoaded(n, d, raw) ==
    /\ DOMAIN d = 1 .. n /\ DOMAIN raw = 1 .. n
    /\ \A i \in 1 .. n : /\ DimensionOk(raw[i]) /\ d[i] = TelemetryDimension(raw[i])
                         /\ \A s \in Texts(raw[i]) : IsSequence(s)

LEMMA DimensionsAre ==
  ASSUME scenario \in Scenarios, SchemaOk(scenario.schema)
  PROVE  \E n \in Nat :
            AreLoaded(n, LoadDimensions(scenario.schema.members["dimensions"]), Raw)
  <1> DEFINE dims == scenario.schema.members["dimensions"]
             elements == dims.elements
             n == Len(elements)
             d == LoadDimensions(dims)
  <1>1. DimensionsOk(Member(scenario.schema.members, "dimensions"))
    BY DEF SchemaOk
  <1>2. Member(scenario.schema.members, "dimensions") = dims
    BY <1>1 DEF Member, DimensionsOk, Null
  <1>3. /\ elements \in Seq(Range(elements))
        /\ \A i \in DOMAIN elements : Texts(elements[i].members) \subseteq Seq(STRING)
    <2>1. dims.type = "array" /\ DimensionsOk(dims)
      BY <1>1, <1>2 DEF DimensionsOk
    <2> QED BY <1>2, <2>1, ScenarioAssumption
  <1>4. n \in Nat /\ DOMAIN elements = 1 .. n
    BY <1>3
  <1>5. d = [i \in DOMAIN elements |-> TelemetryDimension(elements[i].members)]
    BY DEF LoadDimensions
  <1>6. \A i \in DOMAIN elements : DimensionOk(elements[i].members)
    BY <1>1, <1>2 DEF DimensionsOk
  <1>7. Raw = [i \in DOMAIN elements |-> elements[i].members]
    BY DEF Raw
  <1> HIDE DEF n, d, elements
  <1>8. \A i \in 1 .. n : \A s \in Texts(Raw[i]) : IsSequence(s)
    <2> SUFFICES ASSUME NEW i \in 1 .. n, NEW s \in Texts(Raw[i]) PROVE IsSequence(s)
      OBVIOUS
    <2>1. Raw[i] = elements[i].members /\ i \in DOMAIN elements
      BY <1>4, <1>7
    <2>2. s \in Seq(STRING)
      BY <1>3, <2>1
    <2> QED BY <2>2, SequenceOf
  <1>9. AreLoaded(n, d, Raw)
    BY <1>4, <1>5, <1>6, <1>7, <1>8 DEF AreLoaded
  <1> QED BY <1>4, <1>9 DEF d

\* The path and the levels, dimension by dimension.
LEMMA PathReached ==
  ASSUME NEW n \in Nat, NEW d, AreLoaded(n, d, Raw),
         NEW info, IsInfo(info), Plain(info)
  PROVE  Reached(GetDimensionPath(d, info).path, LevelsOf(info))
  <1>1. DOMAIN d = 1 .. n /\ DOMAIN Raw = 1 .. n
    BY DEF AreLoaded
  <1>2. PICK it : /\ it[0] = [path |-> <<>>, invalidString |-> 0, invalidNumeric |-> 0]
                  /\ \A i \in 1 .. n :
                        it[i] = AddLevel(it[i - 1], d[i], Member(info, d[i].name))
                  /\ GetDimensionPath(d, info) = it[n]
    <2>1. DOMAIN d = 1 .. n
      BY <1>1
    <2>2. \E it : /\ it[0] = [path |-> <<>>, invalidString |-> 0, invalidNumeric |-> 0]
                  /\ \A i \in 1 .. n :
                        it[i] = AddLevel(it[i - 1], d[i], Member(info, d[i].name))
                  /\ GetDimensionPath(d, info) = it[n]
      BY <2>1, LevelsUnrolled
    <2> QED BY <2>2
  <1>3. PICK lt : /\ lt[0] = <<>>
                  /\ \A i \in 1 .. n : lt[i] = File(lt[i - 1], Raw[i], info)
                  /\ LevelsOf(info) = lt[n]
    BY <1>1, LevelsOfUnrolled
  <1> DEFINE Good == {k \in 0 .. n : Levelled(it[k]) /\ Reached(it[k].path, lt[k])}
  <1>4. 0 \in Good
    <2>1. Levelled(it[0])
      BY <1>2 DEF Levelled
    <2>2. it[0].path = <<>> /\ lt[0] = <<>>
      BY <1>2, <1>3
    <2>3. Reached(it[0].path, lt[0])
      BY <2>2, EmptySequence DEF Reached
    <2> QED BY <2>1, <2>3
  <1>5. ASSUME NEW k \in 0 .. n, k \in Good, k < n
        PROVE  k + 1 \in Good
    <2>1. k + 1 \in 1 .. n /\ (k + 1) - 1 = k /\ k + 1 \in 0 .. n
      BY <1>5
    <2> DEFINE raw == Raw[k + 1]
               dim == d[k + 1]
               a == it[k]
               b == it[k + 1]
               v == Member(info, dim.name)
    <2>2. b = AddLevel(a, dim, v) /\ lt[k + 1] = File(lt[k], raw, info)
      BY <1>2, <1>3, <2>1
    <2>3. Levelled(a) /\ Reached(a.path, lt[k])
      BY <1>5
    <2>4. /\ DimensionOk(raw) /\ dim = TelemetryDimension(raw)
          /\ \A s \in Texts(raw) : IsSequence(s)
      BY <2>1 DEF AreLoaded
    <2>5. Spaceless(raw) /\ OneLevel(info)
      BY <1>1, <2>1 DEF Plain
    <2> HIDE DEF raw, dim, a, b
    <2>6. Levelled(b)
      BY <2>2, <2>3, AddLevelIs
    <2>7. IF Files(raw, info)
            THEN IsDirectory(Level(raw, info)) /\ b.path = Slash(a.path, Level(raw, info))
            ELSE b.path = a.path
      <3> DEFINE dim2 == TelemetryDimension(raw)
                 b2 == AddLevel(a, dim2, Member(info, dim2.name))
      <3>1. IF Files(raw, info)
              THEN IsDirectory(Level(raw, info))
                     /\ b2.path = Slash(a.path, Level(raw, info))
              ELSE b2.path = a.path
        BY <2>3, <2>4, <2>5, LevelAdded
      <3>2. b = b2
        BY <2>2, <2>4
      <3> HIDE DEF b2
      <3> QED BY <3>1, <3>2
    <2>8. Reached(b.path, lt[k + 1])
      <3>1. CASE Files(raw, info)
        <4>1. Reached(Slash(a.path, Level(raw, info)), Append(lt[k], Level(raw, info)))
          BY <2>3, <2>7, <3>1, LevelReached
        <4>2. lt[k + 1] = Append(lt[k], Level(raw, info))
          BY <2>2, <3>1 DEF File
        <4> QED BY <2>7, <3>1, <4>1, <4>2
      <3>2. CASE ~Files(raw, info)
        <4>1. lt[k + 1] = lt[k]
          BY <2>2, <3>2 DEF File
        <4> QED BY <2>3, <2>7, <3>2, <4>1
      <3> QED BY <3>1, <3>2
    <2> QED BY <2>1, <2>6, <2>8 DEF b
  <1>6. n \in Good
    <2> HIDE DEF Good
    <2>1. \A k \in 0 .. n : k \in Good /\ k < n => k + 1 \in Good
      BY <1>5
    <2>2. 0 .. n \subseteq Good
      BY <1>4, <2>1, InductionUpTo
    <2> QED BY <2>2
  <1> QED BY <1>2, <1>3, <1>6

\* A record that every dimension files has a level of each.
LEMMA EveryLevel ==
  ASSUME NEW n \in Nat, DOMAIN Raw = 1 .. n,
         NEW info, \A k \in DOMAIN Raw : Files(Raw[k], info)
  PROVE  /\ Len(LevelsOf(info)) = n
         /\ \A k \in 1 .. n : LevelsOf(info)[k] = Level(Raw[k], info)
  <1>1. PICK lt : /\ lt[0] = <<>>
                  /\ \A i \in 1 .. n : lt[i] = File(lt[i - 1], Raw[i], info)
                  /\ LevelsOf(info) = lt[n]
    BY LevelsOfUnrolled
  <1> DEFINE Good == {k \in 0 .. n :
                        /\ IsSequence(lt[k]) /\ Len(lt[k]) = k
                        /\ \A i \in 1 .. k : lt[k][i] = Level(Raw[i], info)}
  <1>2. 0 \in Good
    BY <1>1, EmptySequence
  <1>3. ASSUME NEW k \in 0 .. n, k \in Good, k < n
        PROVE  k + 1 \in Good
    <2>1. k + 1 \in 1 .. n /\ (k + 1) - 1 = k /\ k + 1 \in 0 .. n
      BY <1>3
    <2> DEFINE l == Level(Raw[k + 1], info)
               t == lt[k]
    <2>2. lt[k + 1] = Append(t, l)
      BY <1>1, <2>1 DEF File
    <2>3. IsSequence(t) /\ Len(t) = k /\ \A i \in 1 .. k : t[i] = Level(Raw[i], info)
      BY <1>3
    <2> HIDE DEF t, l
    <2>4. /\ IsSequence(lt[k + 1]) /\ Len(lt[k + 1]) = k + 1
          /\ \A i \in 1 .. k : lt[k + 1][i] = t[i]
          /\ lt[k + 1][k + 1] = l
      BY <2>2, <2>3, AppendIs
    <2>5. \A i \in 1 .. k + 1 : lt[k + 1][i] = Level(Raw[i], info)
      <3> SUFFICES ASSUME NEW i \in 1 .. k + 1
                   PROVE  lt[k + 1][i] = Level(Raw[i], info)
        OBVIOUS
      <3>1. i \in 1 .. k \/ i = k + 1
        OBVIOUS
      <3> QED BY <2>3, <2>4, <3>1 DEF l
    <2> QED BY <2>1, <2>4, <2>5
  <1>4. n \in Good
    <2> HIDE DEF Good
    <2>1. \A k \in 0 .. n : k \in Good /\ k < n => k + 1 \in Good
      BY <1>3
    <2>2. 0 .. n \subseteq Good
      BY <1>2, <2>1, InductionUpTo
    <2> QED BY <2>2
  <1> QED BY <1>1, <1>4

LEMMA WrittenReached ==
  ASSUME FileInv, RecordsInv, NEW i \in DOMAIN written
  PROVE  LET info == written[i].doc.info
         IN  Plain(info) => Reached(written[i].path, LevelsOf(info))
  <1> DEFINE w == written[i]
             d == LoadDimensions(scenario.schema.members["dimensions"])
  <1>1. IsWritten(scenario, w)
    <2>1. DOMAIN written = 1 .. Len(written)
      BY SequenceDomain DEF FileInv, WrittenInv
    <2> QED BY <2>1 DEF RecordsInv
  <1>2. scenario \in Scenarios /\ SchemaOk(scenario.schema)
    BY <1>1 DEF IsWritten, FileInv, ProcessInv
  <1>3. PICK n \in Nat : AreLoaded(n, d, Raw)
    BY <1>2, DimensionsAre
  <1>4. IsInfo(w.doc.info) /\ w.path = GetDimensionPath(d, w.doc.info).path
    BY <1>1 DEF IsWritten, IsRecord
  <1> HIDE DEF w, d
  <1>5. Plain(w.doc.info) => Reached(w.path, LevelsOf(w.doc.info))
    BY <1>3, <1>4, PathReached
  <1> QED BY <1>5 DEF w

\* The directories of a record's path are those of the dimensions that file it,
\* for every schema and every record (TelemetrySchema.cpp:95-144).
THEOREM LevelsAreExplained == Spec => []LevelsExplained
  <1>1. FileInv /\ RecordsInv => LevelsExplained
    BY WrittenReached DEF LevelsExplained, Reached
  <1> QED BY <1>1, RecordsInvariant, PTL

\* Records that have every dimension and lie in one directory agree in all of
\* them, as far as a directory can tell (TelemetrySchema.cpp:95-144).
THEOREM PathsAreSeparate == Spec => []PathsSeparate
  <1>1. FileInv /\ RecordsInv => PathsSeparate
    <2> SUFFICES ASSUME FileInv, RecordsInv,
                        NEW i \in DOMAIN written, NEW j \in DOMAIN written,
                        written[i].path = written[j].path,
                        Plain(written[i].doc.info), Plain(written[j].doc.info),
                        \A k \in DOMAIN Raw : /\ Files(Raw[k], written[i].doc.info)
                                              /\ Files(Raw[k], written[j].doc.info),
                        NEW k \in DOMAIN Raw
                 PROVE  Level(Raw[k], written[i].doc.info)
                           = Level(Raw[k], written[j].doc.info)
      BY DEF PathsSeparate
    <2> DEFINE a == written[i].doc.info
               b == written[j].doc.info
               p == written[i].path
    <2>1. Reached(p, LevelsOf(a)) /\ Reached(p, LevelsOf(b))
      BY WrittenReached
    <2>2. PICK n \in Nat : DOMAIN Raw = 1 .. n
      <3>1. \E n \in Nat :
               AreLoaded(n, LoadDimensions(scenario.schema.members["dimensions"]), Raw)
        <4>1. DOMAIN written = 1 .. Len(written)
          BY SequenceDomain DEF FileInv, WrittenInv
        <4>2. scenario \in Scenarios /\ SchemaOk(scenario.schema)
          BY <4>1 DEF RecordsInv, IsWritten, FileInv, ProcessInv
        <4> QED BY <4>2, DimensionsAre
      <3> QED BY <3>1 DEF AreLoaded
    <2>3. /\ Len(LevelsOf(a)) = n /\ LevelsOf(a)[k] = Level(Raw[k], a)
          /\ Len(LevelsOf(b)) = n /\ LevelsOf(b)[k] = Level(Raw[k], b)
      BY <2>2, EveryLevel
    <2>4. n # 0
      BY <2>2
    <2>5. LevelsOf(a) # <<>> /\ LevelsOf(b) # <<>>
      BY <2>3, <2>4, EmptySequence
    <2>6. LevelsOf(a) = LevelsOf(b)
      BY <2>1, <2>5 DEF Reached
    <2> QED BY <2>3, <2>6
  <1> QED BY <1>1, RecordsInvariant, PTL

=============================================================================
