---------------------------- MODULE WriteDouble ----------------------------
(***************************************************************************)
(* How a double of a record is written: the WriteDouble() that             *)
(* rapidjson-0_11.patch puts into rapidjson's Writer.                      *)
(*                                                                         *)
(* A unit is the value of the last digit written.  Of a double its sign,   *)
(* the integer part, the whole units of the rest and how many quarters of  *)
(* a unit are left (0, 1: less than half, 2: exactly half, 3: more) are    *)
(* kept; huge says that the absolute value is above INT_MAX.               *)
(***************************************************************************)
EXTENDS Integers, Sequences

CONSTANTS
    Precision,  \* the digits of a fraction
    magnitude,  \* 10^Precision, a constant of its own
    Garbage     \* what may be written in place of a number

\* Powers of ten.
TenTo[k \in Nat] == IF k = 0 THEN 1 ELSE 10 * TenTo[k - 1]

ASSUME PrecisionAssumption == Precision \in Nat \ {0}
ASSUME MagnitudeAssumption ==
    /\ magnitude \in Nat \ {0}
    /\ magnitude = TenTo[Precision]
    /\ magnitude % 2 = 0
ASSUME GarbageAssumption == Garbage \subseteq Seq(STRING)

Double == [neg : BOOLEAN, huge : BOOLEAN, number : Nat,
           fraction : 0 .. magnitude - 1, quarters : 0 .. 3]

-----------------------------------------------------------------------------
(***************************************************************************)
(* Rounding to whole units: the integer part and the units.                *)
(***************************************************************************)

Rounded(number, fraction) == [number |-> number, fraction |-> fraction]

Up(d) ==
    IF d.fraction + 1 >= magnitude THEN Rounded(d.number + 1, 0)
                                   ELSE Rounded(d.number, d.fraction + 1)

\* Mutant of Round: the carry is forgotten.
RoundWithoutCarry(d) ==
    IF \/ d.quarters = 3
       \/ d.quarters = 2 /\ (d.fraction = 0 \/ d.fraction % 2 = 1)
      THEN Rounded(d.number, d.fraction + 1)
      ELSE Rounded(d.number, d.fraction)

\* The increment of a half does not carry, and no units count as odd.
Round(d) ==
    CASE d.quarters = 3 -> Up(d)
      [] d.quarters = 2 /\ (d.fraction = 0 \/ d.fraction % 2 = 1) ->
            Rounded(d.number, d.fraction + 1)
      [] OTHER -> Rounded(d.number, d.fraction)

-----------------------------------------------------------------------------
(***************************************************************************)
(* The digits.  The buffer is filled from the last digit on and read       *)
(* backwards.                                                              *)
(***************************************************************************)

Digit(n) == <<"0", "1", "2", "3", "4", "5", "6", "7", "8", "9">>[n + 1]

\* The i-th digit behind the point, and the last one that is no 0.
FractionDigit(fraction, i) == (fraction \div TenTo[Precision - i]) % 10

LastNonzero(fraction) ==
    CHOOSE i \in 0 .. Precision :
        /\ i = 0 \/ FractionDigit(fraction, i) # 0
        /\ \A j \in i + 1 .. Precision : FractionDigit(fraction, j) = 0

FractionText(fraction) ==
    IF fraction = 0 THEN <<>>
    ELSE <<".">> \o [i \in 1 .. LastNonzero(fraction) |->
                        Digit(FractionDigit(fraction, i))]

NumberText[n \in Nat] ==
    IF n < 10 THEN <<Digit(n)>>
              ELSE Append(NumberText[n \div 10], Digit(n % 10))

\* What may be written for d.  "%g" writes a huge number; the cast of one to
\* int is undefined, and only positive ones are kept from it.
DoubleTexts(d) ==
    IF d.huge
      THEN IF d.neg THEN {<<"-">> \o g : g \in Garbage} ELSE {<<"%g">>}
      ELSE LET r == Round(d)
           IN  {(IF d.neg THEN <<"-">> ELSE <<>>)
                    \o NumberText[r.number] \o FractionText(r.fraction)}

-----------------------------------------------------------------------------
(***************************************************************************)
(* What a parser reads, and what should have been written.                 *)
(***************************************************************************)

DigitValue == [c \in {Digit(n) : n \in 0 .. 9} |->
                 CHOOSE n \in 0 .. 9 : Digit(n) = c]

Value(digits) ==
    LET v[i \in 0 .. Len(digits)] ==
            IF i = 0 THEN 0 ELSE 10 * v[i - 1] + DigitValue[digits[i]]
    IN  v[Len(digits)]

Point(text) ==
    IF \E i \in DOMAIN text : text[i] = "."
      THEN CHOOSE i \in DOMAIN text : text[i] = "."
      ELSE Len(text) + 1

\* A number of JSON: at least one digit, and at least one behind a point.
WellFormed(text) ==
    LET first == IF Head(text) = "-" THEN 2 ELSE 1
    IN  /\ Point(text) > first
        /\ Point(text) # Len(text)
        /\ \A i \in first .. Len(text) :
                i = Point(text) \/ text[i] \in DOMAIN DigitValue

\* The units that a text denotes.
Units(text) ==
    LET first == IF Head(text) = "-" THEN 2 ELSE 1
        behind == SubSeq(text, Point(text) + 1, Len(text))
    IN  Value(SubSeq(text, first, Point(text) - 1)) * magnitude
            + Value(behind) * TenTo[Precision - Len(behind)]

UnitsBelow(d) == d.number * magnitude + d.fraction

\* The nearest whole number of units, the even one of two.
NearestEven(d) ==
    UnitsBelow(d) +
        CASE d.quarters < 2 -> 0
          [] d.quarters = 2 -> UnitsBelow(d) % 2
          [] d.quarters = 3 -> 1

=============================================================================
