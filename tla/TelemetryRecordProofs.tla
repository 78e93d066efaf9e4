----------------------- MODULE TelemetryRecordProofs -----------------------
(***************************************************************************)
(* Theorems about TelemetryRecord, for every stream, every limit on paths  *)
(* and data and whatever becomes of the bodies.                            *)
(***************************************************************************)
EXTENDS TelemetryRecord, TLAPS

-----------------------------------------------------------------------------
(***************************************************************************)
(* The invariant: what the reader has behind it.  Up to the separator of   *)
(* the header at hand, or up to the position while it searches, nothing is *)
(* still to be found.                                                      *)
(***************************************************************************)

InHeader == pc \in {"path", "data", "time", "body", "process"}

\* The fields of the header at hand.
HeaderRead ==
    /\ InHeader =>
          mark \in 2 .. Len(stream) + 1 /\ stream[mark - 1] = kRecordSeparator
    /\ pc = "path" => pos = mark
    /\ pc = "data" =>
          /\ pos = mark + 1
          /\ pathLength = stream[mark] /\ pathLength <= kMaxTelemetryPath
    /\ pc = "time" =>
          /\ pos = mark + 2
          /\ pathLength = stream[mark] /\ pathLength <= kMaxTelemetryPath
          /\ dataLength = stream[mark + 1] /\ dataLength <= kMaxTelemetryData
    /\ pc \in {"body", "process"} =>
          /\ HeaderAt(mark)
          /\ pathLength = stream[mark] /\ dataLength = stream[mark + 1]
          /\ taken # <<>> /\ taken[Len(taken)] = mark
    /\ pc = "body" => pos = mark + 3
    /\ pc = "process" => pos = BehindAt(mark)

\* Of the headers accepted, all but the one at hand lie in the file with what
\* follows them.
TakenWhole ==
    /\ \A i \in DOMAIN taken : taken[i] \in 2 .. Len(stream) /\ HeaderAt(taken[i])
    /\ pc \in {"read", "find", "path", "data", "time"} /\ taken # <<>> =>
          BehindAt(taken[Len(taken)]) <= Len(stream) + 1

Behind ==
    /\ \A i \in DOMAIN returned :
          /\ returned[i] >= 2 /\ RecordAt(returned[i])
          /\ pc \in {"read", "find"} => BehindAt(returned[i]) <= pos
          /\ InHeader => BehindAt(returned[i]) < mark
    /\ \A i, j \in DOMAIN returned : i < j => BehindAt(returned[i]) < returned[j]

Found(p) ==
    \/ p \in Marks(returned)
    \/ \E q \in Marks(taken) : q < p /\ p <= BehindAt(q)

Searched ==
    \A p \in 2 .. Len(stream) : RecordAt(p) =>
        /\ pc \in {"read", "find"} /\ p <= pos => Found(p)
        /\ InHeader /\ p < mark => Found(p)
        /\ pc = "done" => Found(p)

Failures == metrics["inflateFailures"] + metrics["parseFailures"]

Balance ==
    /\ pc \in {"read", "find", "path", "data", "time"} =>
          Len(taken) = Len(returned) + Failures
    /\ pc \in {"body", "process"} => Len(taken) = Len(returned) + Failures + 1

RecordInv ==
    /\ TypeOK
    /\ HeaderRead /\ TakenWhole
    /\ Behind /\ Searched /\ Balance
    /\ AllAccounted


LEMMA InitRecordInv == Init => RecordInv
  <1> SUFFICES ASSUME Init PROVE RecordInv
    OBVIOUS
  <1>1. stream \in Seq(Cell)
    BY RecordAssumption DEF Init
  <1>2. TypeOK
    BY <1>1, RecordAssumption DEF Init, TypeOK, PC
  <1>3. HeaderRead /\ TakenWhole /\ Behind
    BY DEF Init, HeaderRead, TakenWhole, Behind, InHeader
  <1>4. Searched
    BY DEF Init, Searched, InHeader
  <1>5. Balance /\ AllAccounted
    BY DEF Init, Balance, AllAccounted, Failures, Metric
  <1> QED BY <1>2, <1>3, <1>4, <1>5 DEF RecordInv

-----------------------------------------------------------------------------
(***************************************************************************)
(* What is used of the types.                                              *)
(***************************************************************************)

LEMMA Typed ==
  ASSUME TypeOK
  PROVE  /\ Len(stream) \in Nat
         /\ \A i \in 1 .. Len(stream) : stream[i] \in Nat /\ stream[i] \in Cell
         /\ pos \in 1 .. Len(stream) + 1 /\ mark \in 1 .. Len(stream) + 1
         /\ pathLength \in Nat /\ dataLength \in Nat
         /\ kMaxTelemetryPath \in Nat /\ kMaxTelemetryData \in Nat
         /\ Len(taken) \in Nat /\ Len(returned) \in Nat
  <1>1. Cell \subseteq Nat /\ kMaxTelemetryPath \in Nat /\ kMaxTelemetryData \in Nat
    BY RecordAssumption
  <1>2. stream \in Seq(Cell) /\ taken \in Seq(Nat) /\ returned \in Seq(Nat)
    BY DEF TypeOK
  <1>3. Len(stream) \in Nat /\ \A i \in 1 .. Len(stream) : stream[i] \in Cell
    BY <1>2
  <1>4. pathLength \in Nat /\ dataLength \in Nat
    BY <1>1 DEF TypeOK
  <1>5. Len(taken) \in Nat /\ Len(returned) \in Nat
    BY <1>2
  <1> QED BY <1>1, <1>3, <1>4, <1>5 DEF TypeOK

\* Where a record whose lengths are a and b ends.
LEMMA BehindIs ==
  ASSUME NEW m \in Nat, NEW a \in Nat, NEW b \in Nat,
         stream[m] = a, stream[m + 1] = b
  PROVE  BehindAt(m) = m + 3 + a + b /\ BehindAt(m) \in Nat
  BY DEF BehindAt

\* One that does not lie in the file ends behind it.
LEMMA BehindCut ==
  ASSUME NEW m \in Nat, NEW a \in Nat, NEW b \in Nat, NEW n \in Nat,
         stream[m] = a, stream[m + 1] = b, ~(m + 3 + (a + b) <= n + 1)
  PROVE  BehindAt(m) \in Nat /\ BehindAt(m) > n + 1
  <1>1. BehindAt(m) = m + 3 + a + b /\ BehindAt(m) \in Nat
    BY BehindIs
  <1> QED BY <1>1

\* A step that moves the reader and leaves the rest alone keeps the types.
LEMMA MoveTyped ==
  ASSUME TypeOK, pos' \in 1 .. Len(stream) + 1, pc' \in PC,
         UNCHANGED <<stream, mark, pathLength, dataLength, metrics, taken, returned>>
  PROVE  TypeOK'
  BY DEF TypeOK

\* A header and what is behind it, as numbers.
LEMMA HeaderTyped ==
  ASSUME TypeOK, NEW p \in Nat, p >= 2, HeaderAt(p)
  PROVE  /\ p + 3 <= Len(stream) + 1
         /\ stream[p] \in Nat /\ stream[p + 1] \in Nat
         /\ BehindAt(p) \in Nat /\ BehindAt(p) >= p + 3
  <1>1. Len(stream) \in Nat /\ \A i \in 1 .. Len(stream) : stream[i] \in Nat
    BY Typed
  <1>2. p - 1 + 4 <= Len(stream) + 1
    BY DEF HeaderAt, Fits
  <1>3. p \in 1 .. Len(stream) /\ p + 1 \in 1 .. Len(stream) /\ p + 3 <= Len(stream) + 1
    BY <1>1, <1>2
  <1>4. stream[p] \in Nat /\ stream[p + 1] \in Nat
    BY <1>1, <1>3
  <1> QED BY <1>3, <1>4 DEF BehindAt

LEMMA SameStream ==
  ASSUME stream' = stream, NEW p
  PROVE  /\ HeaderAt(p)' <=> HeaderAt(p)
         /\ RecordAt(p)' <=> RecordAt(p)
         /\ BehindAt(p)' = BehindAt(p)
  BY DEF RecordAt, HeaderAt, BehindAt, Fits

LEMMA ReturnedTyped ==
  ASSUME TypeOK, Behind, NEW i \in DOMAIN returned
  PROVE  /\ returned[i] \in Nat
         /\ BehindAt(returned[i]) \in Nat
  <1>1. returned[i] \in Nat /\ RecordAt(returned[i])
    BY DEF TypeOK, Behind
  <1>2. returned[i] >= 2
    BY DEF Behind
  <1> QED BY <1>1, <1>2, HeaderTyped DEF RecordAt

LEMMA TakenTyped ==
  ASSUME TypeOK, TakenWhole, taken # <<>>
  PROVE  /\ Len(taken) \in DOMAIN taken
         /\ taken[Len(taken)] \in 2 .. Len(stream)
         /\ BehindAt(taken[Len(taken)]) \in Nat
  <1>1. Len(taken) \in DOMAIN taken
    BY DEF TypeOK
  <1>2. taken[Len(taken)] \in 2 .. Len(stream) /\ HeaderAt(taken[Len(taken)])
    BY <1>1 DEF TakenWhole
  <1> QED BY <1>1, <1>2, HeaderTyped, Typed

LEMMA MarksAppend ==
  ASSUME NEW s \in Seq(Nat), NEW x
  PROVE  Marks(Append(s, x)) = Marks(s) \union {x}
  <1>1. /\ Len(Append(s, x)) = Len(s) + 1 /\ Len(s) \in Nat
        /\ Append(s, x)[Len(s) + 1] = x
        /\ \A i \in 1 .. Len(s) : Append(s, x)[i] = s[i]
        /\ DOMAIN s = 1 .. Len(s) /\ DOMAIN Append(s, x) = 1 .. Len(s) + 1
    OBVIOUS
  <1> DEFINE t == Append(s, x)
  <1> HIDE DEF t
  <1>2. ASSUME NEW y PROVE y \in Marks(t) <=> y \in Marks(s) \union {x}
    BY <1>1 DEF Marks, t
  <1> QED BY <1>2 DEF t

\* The metrics that count failed records are not touched by the others.
LEMMA CountType ==
  ASSUME TypeOK, NEW m \in Metric, Count(m)
  PROVE  /\ metrics' \in [Metric -> Nat]
         /\ m \notin {"inflateFailures", "parseFailures"} => Failures' = Failures
         /\ m \in {"inflateFailures", "parseFailures"} => Failures' = Failures + 1
         /\ Failures \in Nat
  <1>1. /\ metrics \in [Metric -> Nat] /\ metrics' = [metrics EXCEPT ![m] = @ + 1]
        /\ "inflateFailures" \in Metric /\ "parseFailures" \in Metric
    BY DEF TypeOK, Count, Metric
  <1>2. metrics' \in [Metric -> Nat]
    BY <1>1
  <1>3. metrics'[m] = metrics[m] + 1 /\ \A n \in Metric \ {m} : metrics'[n] = metrics[n]
    BY <1>1
  <1>4. metrics["inflateFailures"] \in Nat /\ metrics["parseFailures"] \in Nat
    BY <1>1
  <1>5. CASE m = "inflateFailures"
    BY <1>1, <1>2, <1>3, <1>4, <1>5 DEF Failures
  <1>6. CASE m = "parseFailures"
    BY <1>1, <1>2, <1>3, <1>4, <1>6 DEF Failures
  <1>7. CASE m \notin {"inflateFailures", "parseFailures"}
    BY <1>1, <1>2, <1>3, <1>4, <1>7 DEF Failures
  <1> QED BY <1>5, <1>6, <1>7

-----------------------------------------------------------------------------
(***************************************************************************)
(* The search for a separator.                                             *)
(***************************************************************************)

LEMMA EnterRecordInv == RecordInv /\ Enter => RecordInv'
  BY DEF RecordInv, Enter, Goto, header, TypeOK, PC, HeaderRead, InHeader, TakenWhole,
         Behind, Searched, Balance, AllAccounted, Found, Failures, RecordAt, HeaderAt,
         BehindAt, Fits

LEMMA GetRecordInv == RecordInv /\ Get => RecordInv'
  <1> SUFFICES ASSUME RecordInv, Get PROVE RecordInv'
    OBVIOUS
  <1> USE DEF RecordInv, Goto
  <1>1. /\ pc = "find" /\ pos \in 1 .. Len(stream) /\ pos' = pos + 1
        /\ UNCHANGED <<stream, pathLength, dataLength, taken, returned>>
        /\ Len(stream) \in Nat
    BY Typed DEF Get, Fits
  <1>2. \/ stream[pos] = kRecordSeparator /\ mark' = pos + 1 /\ pc' = "path" /\ metrics' = metrics
        \/ stream[pos] # kRecordSeparator /\ mark' = mark /\ pc' = "find" /\ Count("corruptData")
    BY <1>1 DEF Get
  <1>3. metrics' \in [Metric -> Nat] /\ Failures' = Failures
    BY <1>2, CountType DEF TypeOK, Metric, Failures
  <1>4. TypeOK'
    BY <1>1, <1>2, <1>3 DEF TypeOK, PC
  <1>5. HeaderRead'
    BY <1>1, <1>2 DEF HeaderRead, InHeader
  <1>6. TakenWhole'
    BY <1>1, <1>2 DEF TakenWhole, HeaderAt, BehindAt, Fits
  <1>7. \A p : (RecordAt(p)' <=> RecordAt(p)) /\ (Found(p)' <=> Found(p))
               /\ BehindAt(p)' = BehindAt(p)
    BY <1>1, SameStream DEF Found
  <1>8. Behind'
    <2>1. \A i \in DOMAIN returned : BehindAt(returned[i]) <= pos /\ BehindAt(returned[i]) \in Nat
      BY <1>1, ReturnedTyped DEF Behind
    <2> QED BY <1>1, <1>2, <1>7, <2>1 DEF Behind, InHeader
  <1>9. Searched'
    <2>1. stream[pos] # kRecordSeparator => ~RecordAt(pos + 1)
      BY <1>1 DEF RecordAt, HeaderAt
    <2> QED BY <1>1, <1>2, <1>7, <2>1 DEF Searched, InHeader
  <1>10. Balance' /\ AllAccounted'
    BY <1>1, <1>2, <1>3 DEF Balance, AllAccounted
  <1> QED BY <1>4, <1>5, <1>6, <1>8, <1>9, <1>10

\* The books at the end of a file that does not end inside a record.
LEMMA EndBalance ==
  ASSUME TypeOK, TakenWhole, Balance,
         pc \in {"find", "path", "data", "time"},
         UNCHANGED <<stream, taken, returned>>,
         metrics' \in [Metric -> Nat], Failures' = Failures
  PROVE  AllAccounted'
  <1>1. Len(taken) = Len(returned) + Failures
    BY DEF Balance
  <1>2. taken = <<>> \/ BehindAt(taken[Len(taken)]) <= Len(stream) + 1
    BY DEF TakenWhole
  <1>3. taken # <<>> => BehindAt(taken[Len(taken)]) \in Nat
    BY TakenTyped
  <1>4. ~(taken # <<>> /\ BehindAt(taken[Len(taken)]) > Len(stream) + 1)
    BY <1>2, <1>3, Typed
  <1>5. metrics'["inflateFailures"] \in Nat /\ metrics'["parseFailures"] \in Nat
    BY DEF Metric
  <1>6. Len(taken) = Len(returned) + metrics'["inflateFailures"]
              + metrics'["parseFailures"] + 0
    <2>1. Failures = metrics'["inflateFailures"] + metrics'["parseFailures"]
      BY DEF Failures
    <2>2. Len(returned) \in Nat
      BY Typed
    <2> QED BY <1>1, <1>5, <2>1, <2>2
  <1>7. BehindAt(taken[Len(taken)])' = BehindAt(taken[Len(taken)])
    BY DEF BehindAt
  <1>8. ~(taken # <<>> /\ BehindAt(taken[Len(taken)]) > Len(stream) + 1)'
    BY <1>4, <1>7
  <1> QED BY <1>6, <1>8 DEF AllAccounted

LEMMA GetAtEndRecordInv == RecordInv /\ GetAtEnd => RecordInv'
  <1> SUFFICES ASSUME RecordInv, GetAtEnd PROVE RecordInv'
    OBVIOUS
  <1> USE DEF RecordInv, Goto
  <1>1. /\ pc = "find" /\ pc' = "done" /\ pos = Len(stream) + 1 /\ pos' = Len(stream) + 1
        /\ UNCHANGED <<stream, mark, pathLength, dataLength, taken, returned>>
        /\ Len(stream) \in Nat
    BY Typed DEF GetAtEnd, Fits, Fail, header
  <1>2. metrics' \in [Metric -> Nat] /\ Failures' = Failures
    <2>1. CASE Count("corruptData")
      BY <2>1, CountType DEF Metric
    <2>2. CASE UNCHANGED metrics
      BY <2>2 DEF TypeOK, Failures
    <2> QED BY <2>1, <2>2 DEF GetAtEnd
  <1>3. TypeOK'
    BY <1>1, <1>2 DEF TypeOK, PC
  <1>4. \A p : /\ RecordAt(p)' <=> RecordAt(p)
               /\ HeaderAt(p)' <=> HeaderAt(p)
               /\ Found(p)' <=> Found(p)
               /\ BehindAt(p)' = BehindAt(p)
    BY <1>1, SameStream DEF Found
  <1>5. HeaderRead' /\ TakenWhole'
    BY <1>1, <1>4 DEF HeaderRead, TakenWhole, InHeader
  <1>6. Behind'
    BY <1>1, <1>4 DEF Behind, InHeader
  <1>7. Searched'
    BY <1>1, <1>4 DEF Searched, InHeader
  <1>8. Balance' /\ AllAccounted'
    BY <1>1, <1>2, EndBalance DEF Balance
  <1> QED BY <1>3, <1>5, <1>6, <1>7, <1>8

-----------------------------------------------------------------------------
(***************************************************************************)
(* The fields of a header.                                                 *)
(***************************************************************************)

\* A header with a length that is not allowed: the search goes on behind its
\* separator, and no record has begun there.
LEMMA ResyncRecordInv ==
  ASSUME RecordInv, pc \in {"path", "data"}, ~HeaderAt(mark), Resync,
         NEW m \in Metric \ {"inflateFailures", "parseFailures"}, Count(m),
         UNCHANGED <<stream, mark, taken, returned>>,
         pathLength' \in Cell \union {0}, dataLength' \in Cell \union {0}
  PROVE  RecordInv'
  <1> USE DEF RecordInv, Goto
  <1>1. /\ mark \in 2 .. Len(stream) + 1 /\ Len(stream) \in Nat
        /\ pos' = mark /\ pc' = "find"
    BY Typed DEF HeaderRead, InHeader, Resync
  <1>2. metrics' \in [Metric -> Nat] /\ Failures' = Failures
    BY CountType
  <1>3. TypeOK'
    BY <1>1, <1>2 DEF TypeOK, PC
  <1>4. \A p : /\ RecordAt(p)' <=> RecordAt(p)
               /\ HeaderAt(p)' <=> HeaderAt(p)
               /\ Found(p)' <=> Found(p)
               /\ BehindAt(p)' = BehindAt(p)
    BY SameStream DEF Found
  <1>5. HeaderRead' /\ TakenWhole'
    BY <1>1, <1>4 DEF HeaderRead, TakenWhole, InHeader
  <1>6. Behind'
    <2>1. \A i \in DOMAIN returned :
              BehindAt(returned[i]) \in Nat /\ BehindAt(returned[i]) <= mark
      BY <1>1, ReturnedTyped DEF Behind, InHeader
    <2> QED BY <1>1, <1>4, <2>1 DEF Behind, InHeader
  <1>7. Searched'
    BY <1>1, <1>4 DEF Searched, InHeader, RecordAt
  <1>8. Balance' /\ AllAccounted'
    BY <1>1, <1>2 DEF Balance, AllAccounted
  <1> QED BY <1>3, <1>5, <1>6, <1>7, <1>8

\* A field that is accepted: all that changes is how much of the header is read.
LEMMA FieldRecordInv ==
  ASSUME RecordInv, pc \in {"path", "data"}, pc' \in {"data", "time"},
         UNCHANGED <<stream, mark, metrics, taken, returned>>,
         TypeOK', HeaderRead'
  PROVE  RecordInv'
  <1> USE DEF RecordInv
  <1>4. \A p : /\ RecordAt(p)' <=> RecordAt(p)
               /\ HeaderAt(p)' <=> HeaderAt(p)
               /\ Found(p)' <=> Found(p)
               /\ BehindAt(p)' = BehindAt(p)
    BY SameStream DEF Found
  <1>5. TakenWhole' /\ Behind' /\ Searched'
    BY <1>4 DEF TakenWhole, Behind, Searched, InHeader
  <1>6. Balance' /\ AllAccounted'
    BY DEF Balance, AllAccounted, Failures
  <1> QED BY <1>5, <1>6

LEMMA PathLengthRecordInv == RecordInv /\ ReadPathLength => RecordInv'
  <1> SUFFICES ASSUME RecordInv, ReadPathLength PROVE RecordInv'
    OBVIOUS
  <1>1. /\ pc = "path" /\ pos = mark /\ mark \in 2 .. Len(stream)
        /\ stream[mark] \in Cell /\ stream[mark] \in Nat /\ Len(stream) \in Nat
        /\ kMaxTelemetryPath \in Nat
        /\ pathLength' = stream[mark] /\ dataLength \in Cell \union {0}
        /\ UNCHANGED <<stream, mark, dataLength, taken, returned>>
    BY Typed DEF ReadPathLength, Fits, RecordInv, HeaderRead, InHeader, TypeOK
  <1>2. CASE stream[mark] > kMaxTelemetryPath
    <2>1. ~HeaderAt(mark)
      BY <1>1, <1>2 DEF HeaderAt
    <2>2. Count("invalidPathLength") /\ Resync
      BY <1>1, <1>2 DEF ReadPathLength
    <2> QED BY <1>1, <2>1, <2>2, ResyncRecordInv DEF Metric
  <1>3. CASE ~(stream[mark] > kMaxTelemetryPath)
    <2>1. pos' = mark + 1 /\ pc' = "data" /\ metrics' = metrics
      BY <1>1, <1>3 DEF ReadPathLength, Goto
    <2>2. TypeOK'
      BY <1>1, <2>1 DEF RecordInv, TypeOK, PC
    <2>3. HeaderRead'
      BY <1>1, <1>3, <2>1 DEF RecordInv, HeaderRead, InHeader
    <2> QED BY <1>1, <2>1, <2>2, <2>3, FieldRecordInv
  <1> QED BY <1>2, <1>3

LEMMA DataLengthRecordInv == RecordInv /\ ReadDataLength => RecordInv'
  <1> SUFFICES ASSUME RecordInv, ReadDataLength PROVE RecordInv'
    OBVIOUS
  <1>1. /\ pc = "data" /\ pos = mark + 1 /\ mark \in 2 .. Len(stream) - 1
        /\ stream[mark + 1] \in Cell /\ stream[mark + 1] \in Nat /\ Len(stream) \in Nat
        /\ kMaxTelemetryData \in Nat
        /\ dataLength' = stream[mark + 1] /\ pathLength \in Cell \union {0}
        /\ UNCHANGED <<stream, mark, pathLength, taken, returned>>
    BY Typed DEF ReadDataLength, Fits, RecordInv, HeaderRead, InHeader, TypeOK
  <1>2. CASE stream[mark + 1] > kMaxTelemetryData
    <2>1. ~HeaderAt(mark)
      BY <1>1, <1>2 DEF HeaderAt
    <2>2. Count("invalidDataLength") /\ Resync
      BY <1>1, <1>2 DEF ReadDataLength
    <2> QED BY <1>1, <2>1, <2>2, ResyncRecordInv DEF Metric
  <1>3. CASE ~(stream[mark + 1] > kMaxTelemetryData)
    <2>1. pos' = mark + 2 /\ pc' = "time" /\ metrics' = metrics
      BY <1>1, <1>3 DEF ReadDataLength, Goto
    <2>2. TypeOK'
      BY <1>1, <2>1 DEF RecordInv, TypeOK, PC
    <2>3. HeaderRead'
      BY <1>1, <1>3, <2>1 DEF RecordInv, HeaderRead, InHeader
    <2> QED BY <1>1, <2>1, <2>2, <2>3, FieldRecordInv
  <1> QED BY <1>2, <1>3

LEMMA TimestampRecordInv == RecordInv /\ ReadTimestamp => RecordInv'
  <1> SUFFICES ASSUME RecordInv, ReadTimestamp PROVE RecordInv'
    OBVIOUS
  <1> USE DEF RecordInv, Goto
  <1>1. /\ pc = "time" /\ pc' = "body" /\ pos = mark + 2 /\ pos' = mark + 3
        /\ mark \in 2 .. Len(stream) - 2 /\ Len(stream) \in Nat
        /\ taken' = Append(taken, mark) /\ taken \in Seq(Nat)
        /\ UNCHANGED <<stream, mark, pathLength, dataLength, metrics, returned>>
    BY Typed DEF ReadTimestamp, Fits, HeaderRead, InHeader, TypeOK, header
  <1>2. HeaderAt(mark)
    BY <1>1 DEF HeaderRead, InHeader, HeaderAt, Fits
  <1>3. /\ taken' \in Seq(Nat) /\ taken' # <<>> /\ Len(taken') = Len(taken) + 1
        /\ taken'[Len(taken')] = mark
        /\ \A i \in DOMAIN taken' : taken'[i] = mark \/ (i \in DOMAIN taken /\ taken'[i] = taken[i])
    BY <1>1
  <1>4. Marks(taken') = Marks(taken) \union {mark}
    BY <1>1, MarksAppend
  <1>5. \A p : /\ RecordAt(p)' <=> RecordAt(p)
               /\ HeaderAt(p)' <=> HeaderAt(p)
               /\ BehindAt(p)' = BehindAt(p)
               /\ Found(p) => Found(p)'
    BY <1>1, <1>4, SameStream DEF Found, Marks
  <1>6. TypeOK'
    BY <1>1, <1>3 DEF TypeOK, PC
  <1>7. HeaderRead'
    BY <1>1, <1>2, <1>3, <1>5 DEF HeaderRead, InHeader
  <1>8. TakenWhole'
    BY <1>1, <1>2, <1>3, <1>5 DEF TakenWhole
  <1>9. Behind' /\ Searched'
    BY <1>1, <1>5 DEF Behind, Searched, InHeader
  <1>10. Balance' /\ AllAccounted'
    BY <1>1, <1>3, Typed DEF Balance, AllAccounted, Failures
  <1> QED BY <1>6, <1>7, <1>8, <1>9, <1>10

\* No header fits between the separator and the end of the file.
LEMMA HeaderAtEndRecordInv == RecordInv /\ HeaderAtEnd => RecordInv'
  <1> SUFFICES ASSUME RecordInv, HeaderAtEnd PROVE RecordInv'
    OBVIOUS
  <1> USE DEF RecordInv, Goto
  <1>1. /\ pc \in {"path", "data", "time"} /\ pc' = "done"
        /\ pos = Len(stream) + 1 /\ pos' = Len(stream) + 1
        /\ mark \in 2 .. Len(stream) + 1 /\ pos <= mark + 2 /\ Len(stream) \in Nat
        /\ UNCHANGED <<stream, mark, pathLength, dataLength, metrics, taken, returned>>
    BY Typed DEF HeaderAtEnd, Fits, Fail, HeaderRead, InHeader, header
  <1>2. \A p \in 2 .. Len(stream) : p >= mark => ~RecordAt(p)
    BY <1>1 DEF RecordAt, HeaderAt, Fits
  <1>3. \A p : /\ RecordAt(p)' <=> RecordAt(p)
               /\ HeaderAt(p)' <=> HeaderAt(p)
               /\ Found(p)' <=> Found(p)
               /\ BehindAt(p)' = BehindAt(p)
    BY <1>1, SameStream DEF Found
  <1>4. TypeOK'
    BY <1>1 DEF TypeOK, PC
  <1>5. HeaderRead' /\ TakenWhole' /\ Behind'
    BY <1>1, <1>3 DEF HeaderRead, TakenWhole, Behind, InHeader
  <1>6. Searched'
    <2>1. \A p \in 2 .. Len(stream) : RecordAt(p) => p < mark
      BY <1>1, <1>2
    <2> QED BY <1>1, <1>3, <2>1 DEF Searched, InHeader
  <1>7. Balance' /\ AllAccounted'
    <2>1. metrics' \in [Metric -> Nat] /\ Failures' = Failures
      BY <1>1 DEF TypeOK, Failures
    <2> QED BY <1>1, <2>1, EndBalance DEF Balance
  <1> QED BY <1>4, <1>5, <1>6, <1>7

-----------------------------------------------------------------------------
(***************************************************************************)
(* The path and the data.                                                  *)
(***************************************************************************)

LEMMA BodyRecordInv == RecordInv /\ ReadBody => RecordInv'
  <1> SUFFICES ASSUME RecordInv, ReadBody PROVE RecordInv'
    OBVIOUS
  <1> USE DEF RecordInv, Goto
  <1>1. /\ pc = "body" /\ pc' = "process" /\ pos = mark + 3
        /\ pos' = pos + pathLength + dataLength
        /\ pos + (pathLength + dataLength) <= Len(stream) + 1
        /\ mark \in 2 .. Len(stream) + 1 /\ Len(stream) \in Nat
        /\ pathLength = stream[mark] /\ dataLength = stream[mark + 1]
        /\ pathLength \in Nat /\ dataLength \in Nat
        /\ UNCHANGED <<stream, mark, pathLength, dataLength, metrics, taken, returned>>
    BY Typed DEF ReadBody, Fits, HeaderRead, InHeader, header
  <1>2. pos' = BehindAt(mark) /\ pos' \in 1 .. Len(stream) + 1
    <2>1. pos' = mark + 3 + stream[mark] + stream[mark + 1]
      BY <1>1
    <2>2. \A m, p, d \in Nat : /\ m + 3 + p + d = m + 3 + (p + d)
                               /\ m + 3 + p + d \in Nat /\ m + 3 + p + d >= 1
      OBVIOUS
    <2>3. /\ mark \in Nat /\ pathLength \in Nat /\ dataLength \in Nat
          /\ mark + 3 + (pathLength + dataLength) <= Len(stream) + 1
      BY <1>1
    <2>4. pos' = mark + 3 + pathLength + dataLength
      BY <1>1
    <2>5. pos' \in Nat /\ pos' >= 1 /\ pos' <= Len(stream) + 1
      BY <2>2, <2>3, <2>4
    <2> QED BY <1>1, <2>1, <2>5 DEF BehindAt
  <1>3. \A p : /\ RecordAt(p)' <=> RecordAt(p)
               /\ HeaderAt(p)' <=> HeaderAt(p)
               /\ Found(p)' <=> Found(p)
               /\ BehindAt(p)' = BehindAt(p)
    BY <1>1, SameStream DEF Found
  <1>4. TypeOK'
    BY <1>1, <1>2 DEF TypeOK, PC
  <1>5. HeaderRead' /\ TakenWhole' /\ Behind' /\ Searched'
    BY <1>1, <1>2, <1>3 DEF HeaderRead, TakenWhole, Behind, Searched, InHeader
  <1>6. Balance' /\ AllAccounted'
    BY <1>1 DEF Balance, AllAccounted, Failures
  <1> QED BY <1>4, <1>5, <1>6

\* Whatever else looks like a record is inside the one that is cut off.
LEMMA BodyAtEndRecordInv == RecordInv /\ BodyAtEnd => RecordInv'
  <1> SUFFICES ASSUME RecordInv, BodyAtEnd PROVE RecordInv'
    OBVIOUS
  <1> USE DEF RecordInv, Goto
  <1>1. /\ pc = "body" /\ pc' = "done" /\ pos = mark + 3 /\ pos' = Len(stream) + 1
        /\ ~(pos + (pathLength + dataLength) <= Len(stream) + 1)
        /\ mark \in 2 .. Len(stream) + 1 /\ Len(stream) \in Nat
        /\ pathLength = stream[mark] /\ dataLength = stream[mark + 1]
        /\ pathLength \in Nat /\ dataLength \in Nat
        /\ taken # <<>> /\ taken[Len(taken)] = mark
        /\ UNCHANGED <<stream, mark, pathLength, dataLength, metrics, taken, returned>>
    <2>1. /\ pc = "body" /\ pc' = "done" /\ pos' = Len(stream) + 1
          /\ ~(pos + (pathLength + dataLength) <= Len(stream) + 1)
          /\ UNCHANGED <<stream, mark, pathLength, dataLength, metrics, taken, returned>>
      BY DEF BodyAtEnd, Fits, Fail, header
    <2>2. /\ pos = mark + 3 /\ mark \in 2 .. Len(stream) + 1
          /\ pathLength = stream[mark] /\ dataLength = stream[mark + 1]
          /\ taken # <<>> /\ taken[Len(taken)] = mark
      BY <2>1 DEF HeaderRead, InHeader
    <2>3. Len(stream) \in Nat /\ pathLength \in Nat /\ dataLength \in Nat
      BY Typed
    <2> QED BY <2>1, <2>2, <2>3
  <1>2. BehindAt(mark) \in Nat /\ BehindAt(mark) > Len(stream) + 1
    <2>1. mark \in Nat /\ ~(mark + 3 + (pathLength + dataLength) <= Len(stream) + 1)
      BY <1>1
    <2> QED BY <1>1, <2>1, BehindCut
  <1>3. \A p : /\ RecordAt(p)' <=> RecordAt(p)
               /\ HeaderAt(p)' <=> HeaderAt(p)
               /\ Found(p)' <=> Found(p)
               /\ BehindAt(p)' = BehindAt(p)
    BY <1>1, SameStream DEF Found
  <1>4. TypeOK'
    <2>1. pos' \in 1 .. Len(stream) + 1 /\ pc' \in PC
      BY <1>1 DEF PC
    <2> QED BY <1>1, <2>1, MoveTyped
  <1>5. HeaderRead' /\ TakenWhole' /\ Behind'
    BY <1>1, <1>3 DEF HeaderRead, TakenWhole, Behind, InHeader
  <1>6. Searched'
    <2> SUFFICES ASSUME NEW p \in 2 .. Len(stream), RecordAt(p) PROVE Found(p)
      BY <1>1, <1>3 DEF Searched, InHeader
    <2>1. mark \in Marks(taken)
      BY <1>1, TakenTyped DEF Marks
    <2>2. CASE p < mark
      BY <1>1, <2>2 DEF Searched, InHeader
    <2>3. CASE p = mark
      BY <1>1, <1>2, <2>3 DEF RecordAt, BehindAt
    <2>4. CASE p > mark
      <3>1. p <= BehindAt(mark)
        BY <1>1, <1>2
      <3> QED BY <1>1, <2>1, <2>4, <3>1 DEF Found
    <2> QED BY <1>1, <2>2, <2>3, <2>4
  <1>7. Balance' /\ AllAccounted'
    <2>1. Len(taken) = Len(returned) + metrics["inflateFailures"]
                + metrics["parseFailures"] + 1
      <3>1. metrics["inflateFailures"] \in Nat /\ metrics["parseFailures"] \in Nat
        BY DEF TypeOK, Metric
      <3>2. Len(taken) = Len(returned)
                + (metrics["inflateFailures"] + metrics["parseFailures"]) + 1
        BY <1>1 DEF Balance, Failures
      <3> QED BY <3>1, <3>2, Typed
    <2>2. (taken # <<>> /\ BehindAt(taken[Len(taken)]) > Len(stream) + 1)'
      BY <1>1, <1>2, <1>3
    <2>3. AllAccounted'
      BY <1>1, <2>1, <2>2 DEF AllAccounted
    <2> QED BY <1>1, <2>3 DEF Balance
  <1> QED BY <1>4, <1>5, <1>6, <1>7

\* What ProcessRecord() makes of the data is what the stream says of them.
LEMMA ResultIsRecord ==
  ASSUME TypeOK, HeaderRead, pc = "process"
  PROVE  /\ Result \in Outcome
         /\ RecordAt(mark) <=> Result = "record"
  <1>1. /\ mark \in 2 .. Len(stream) + 1 /\ Len(stream) \in Nat
        /\ HeaderAt(mark) /\ pos = BehindAt(mark) /\ pos <= Len(stream) + 1
        /\ pathLength = stream[mark] /\ dataLength = stream[mark + 1]
        /\ pathLength \in Nat /\ dataLength \in Nat /\ pos \in Nat
    BY Typed DEF HeaderRead, InHeader
  <1>2. CASE dataLength = 0
    BY <1>1, <1>2 DEF Result, RecordAt, Outcome
  <1>3. CASE dataLength # 0
    <2>1. mark \in Nat /\ pos = mark + 3 + pathLength + dataLength
      BY <1>1, BehindIs
    <2>2. pos - dataLength \in 1 .. Len(stream)
      BY <1>1, <1>3, <2>1
    <2>3. stream[pos - dataLength] \in Cell
      BY <2>2, Typed
    <2>4. Result = Body[stream[pos - dataLength]]
      BY <1>3 DEF Result
    <2>5. Result \in Outcome
      BY <2>3, <2>4, RecordAssumption
    <2>6. Result = Body[stream[mark + 3 + stream[mark]]]
      <3>1. pos - dataLength = mark + 3 + stream[mark]
        BY <1>1, <2>1
      <3> QED BY <2>4, <3>1
    <2> QED BY <1>1, <1>3, <2>5, <2>6 DEF RecordAt
  <1> QED BY <1>2, <1>3

LEMMA ProcessRecordInv == RecordInv /\ Process => RecordInv'
  <1> SUFFICES ASSUME RecordInv, Process PROVE RecordInv'
    OBVIOUS
  <1> USE DEF RecordInv, Goto
  <1>1. /\ pc = "process" /\ mark \in 2 .. Len(stream) + 1 /\ Len(stream) \in Nat
        /\ HeaderAt(mark) /\ pos = BehindAt(mark) /\ pos \in 1 .. Len(stream) + 1
        /\ taken # <<>> /\ taken[Len(taken)] = mark
        /\ UNCHANGED <<stream, pos, mark, pathLength, dataLength, taken>>
        /\ pc' = IF Result = "throws" THEN "thrown" ELSE "read"
        /\ returned' = IF Result = "record" THEN Append(returned, mark) ELSE returned
    BY Typed DEF Process, HeaderRead, InHeader, header
  <1>2. Result \in Outcome /\ (RecordAt(mark) <=> Result = "record")
    BY <1>1, ResultIsRecord
  <1>3. /\ metrics' \in [Metric -> Nat] /\ Failures \in Nat
        /\ Result \in {"inflateFailure", "parseFailure"} => Failures' = Failures + 1
        /\ Result \in {"record", "throws"} => Failures' = Failures
    <2>1. CASE Result = "inflateFailure"
      <3>1. Count("inflateFailures")
        BY <2>1 DEF Process
      <3> QED BY <2>1, <3>1, CountType DEF Metric
    <2>2. CASE Result = "parseFailure"
      <3>1. Count("parseFailures")
        BY <2>2 DEF Process
      <3>2. Failures \in Nat /\ metrics' \in [Metric -> Nat] /\ Failures' = Failures + 1
        BY <3>1, CountType DEF Metric
      <3> QED BY <2>2, <3>2
    <2>3. CASE Result \in {"record", "throws"}
      <3>1. metrics' = metrics
        BY <2>3 DEF Process
      <3>2. metrics \in [Metric -> Nat]
        BY DEF TypeOK
      <3>3. Failures \in Nat /\ Failures' = Failures
        BY <3>1, <3>2 DEF Failures, Metric
      <3> QED BY <2>3, <3>1, <3>2, <3>3
    <2> QED BY <1>2, <2>1, <2>2, <2>3 DEF Outcome
  <1>4. \A p : /\ RecordAt(p)' <=> RecordAt(p)
               /\ HeaderAt(p)' <=> HeaderAt(p)
               /\ BehindAt(p)' = BehindAt(p)
    BY <1>1, SameStream
  <1>5. /\ returned \in Seq(Nat) /\ returned' \in Seq(Nat)
        /\ Len(returned') = IF Result = "record" THEN Len(returned) + 1 ELSE Len(returned)
        /\ Marks(returned') = IF Result = "record" THEN Marks(returned) \union {mark}
                                                   ELSE Marks(returned)
    <2>1. returned \in Seq(Nat) /\ mark \in Nat
      BY <1>1 DEF TypeOK
    <2>2. CASE Result = "record"
      BY <1>1, <2>1, <2>2, MarksAppend
    <2>3. CASE Result # "record"
      BY <1>1, <2>1, <2>3
    <2> QED BY <2>1, <2>2, <2>3
  <1>6. TypeOK'
    BY <1>1, <1>3, <1>5 DEF TypeOK, PC
  <1>7. HeaderRead'
    BY <1>1 DEF HeaderRead, InHeader
  <1>8. TakenWhole'
    BY <1>1, <1>4 DEF TakenWhole
  <1>9. Behind'
    <2>1. \A i \in DOMAIN returned :
              /\ BehindAt(returned[i]) \in Nat /\ BehindAt(returned[i]) < mark
              /\ returned[i] >= 2 /\ RecordAt(returned[i])
      BY <1>1, ReturnedTyped DEF Behind, InHeader
    <2>2. BehindAt(mark) >= mark + 3
      BY <1>1, HeaderTyped
    <2>3. CASE Result = "record"
      <3>1. /\ \A i \in DOMAIN returned' :
                  \/ i \in DOMAIN returned /\ returned'[i] = returned[i]
                  \/ i = Len(returned) + 1 /\ returned'[i] = mark
            /\ DOMAIN returned = 1 .. Len(returned) /\ Len(returned) \in Nat
        BY <1>1, <1>5, <2>3
      <3>2. /\ \A i \in DOMAIN returned' :
                  /\ returned'[i] >= 2 /\ RecordAt(returned'[i])
                  /\ BehindAt(returned'[i]) <= pos
        BY <1>1, <1>2, <2>1, <2>2, <2>3, <3>1
      <3>3. ASSUME NEW i \in DOMAIN returned', NEW j \in DOMAIN returned', i < j
            PROVE  BehindAt(returned'[i]) < returned'[j]
        <4>1. i \in DOMAIN returned /\ returned'[i] = returned[i]
          BY <3>1, <3>3, <1>5, <2>3
        <4>2. CASE j \in DOMAIN returned /\ returned'[j] = returned[j]
          BY <3>3, <4>1, <4>2 DEF Behind
        <4>3. CASE returned'[j] = mark
          BY <2>1, <4>1, <4>3
        <4> QED BY <3>1, <4>2, <4>3
      <3> QED BY <1>1, <1>4, <3>2, <3>3, <2>3 DEF Behind, InHeader
    <2>4. CASE Result # "record"
      <3>1. \A i \in DOMAIN returned : BehindAt(returned[i]) <= pos
        BY <1>1, <2>1, <2>2
      <3> QED BY <1>1, <1>4, <2>4, <3>1 DEF Behind, InHeader
    <2> QED BY <2>3, <2>4
  <1>10. Searched'
    <2> SUFFICES ASSUME NEW p \in 2 .. Len(stream), RecordAt(p), p <= pos, pc' = "read"
                 PROVE  Found(p)'
      BY <1>1, <1>4 DEF Searched, InHeader
    <2>1. Found(p) => Found(p)'
      BY <1>1, <1>4, <1>5 DEF Found
    <2>2. CASE p < mark
      BY <1>1, <2>1, <2>2 DEF Searched, InHeader
    <2>3. CASE p = mark
      BY <1>2, <1>5, <2>3 DEF Found
    <2>4. CASE p > mark
      <3>1. mark \in Marks(taken)
        BY <1>1, TakenTyped DEF Marks
      <3> QED BY <1>1, <2>1, <2>4, <3>1 DEF Found
    <2> QED BY <1>1, <2>2, <2>3, <2>4
  <1>11. Balance' /\ AllAccounted'
    <2>1. Len(taken) = Len(returned) + Failures + 1
      BY <1>1 DEF Balance
    <2>2. pc' = "read" => Len(taken) = Len(returned') + Failures'
      BY <1>1, <1>2, <1>3, <1>5, <2>1, Typed DEF Outcome
    <2> QED BY <1>1, <2>2 DEF Balance, AllAccounted
  <1> QED BY <1>6, <1>7, <1>8, <1>9, <1>10, <1>11

-----------------------------------------------------------------------------
(***************************************************************************)
(* The theorems.                                                           *)
(***************************************************************************)

LEMMA NextRecordInv == RecordInv /\ [Next]_vars => RecordInv'
  <1> SUFFICES ASSUME RecordInv, [Next]_vars PROVE RecordInv'
    OBVIOUS
  <1>1. CASE UNCHANGED vars
    <2> USE DEF RecordInv
    <2>1. /\ UNCHANGED <<stream, pos, pc, mark, pathLength, dataLength>>
          /\ UNCHANGED <<metrics, taken, returned>>
      BY <1>1 DEF vars
    <2>2. \A p : /\ RecordAt(p)' <=> RecordAt(p)
                 /\ HeaderAt(p)' <=> HeaderAt(p)
                 /\ Found(p)' <=> Found(p)
                 /\ BehindAt(p)' = BehindAt(p)
      BY <2>1, SameStream DEF Found
    <2>3. TypeOK'
      BY <2>1 DEF TypeOK
    <2>4. HeaderRead' /\ TakenWhole'
      BY <2>1, <2>2 DEF HeaderRead, InHeader, TakenWhole
    <2>5. Behind' /\ Searched'
      BY <2>1, <2>2 DEF Behind, Searched, InHeader
    <2>6. Balance' /\ AllAccounted'
      BY <2>1, <2>2 DEF Balance, Failures, AllAccounted
    <2> QED BY <2>3, <2>4, <2>5, <2>6
  <1> QED
    BY <1>1, EnterRecordInv, GetRecordInv, GetAtEndRecordInv, PathLengthRecordInv,
       DataLengthRecordInv, TimestampRecordInv, HeaderAtEndRecordInv, BodyRecordInv,
       BodyAtEndRecordInv, ProcessRecordInv DEF Next

\* Every variable keeps its type: the reader never leaves the file, however
\* often it goes back.
THEOREM RecordTypeCorrect == Spec => []TypeOK
  <1>1. RecordInv => TypeOK
    BY DEF RecordInv
  <1> QED
    BY InitRecordInv, NextRecordInv, <1>1, PTL DEF Spec

\* Read() returns records of the file, in order and without overlap, and makes
\* up none from garbage.
THEOREM RecordsAreReal == Spec => []Sound
  <1>1. RecordInv => Sound
    BY DEF RecordInv, Behind, Sound
  <1> QED
    BY InitRecordInv, NextRecordInv, <1>1, PTL DEF Spec

\* The seekg() behind a bad header, and no other step of the search, is what
\* makes this true: a record is hidden only by an accepted header before it.
THEOREM RecordsAreFound == Spec => []NoRecordMissed
  <1>1. RecordInv => NoRecordMissed
    BY DEF RecordInv, Searched, Found, NoRecordMissed
  <1> QED
    BY InitRecordInv, NextRecordInv, <1>1, PTL DEF Spec

\* The metrics of Read() explain every header it has accepted but the one that
\* the end of the file has cut off.
THEOREM HeadersAccounted == Spec => []AllAccounted
  <1>1. RecordInv => AllAccounted
    BY DEF RecordInv
  <1> QED
    BY InitRecordInv, NextRecordInv, <1>1, PTL DEF Spec

=============================================================================
