------------------------ MODULE HistogramCacheProofs ------------------------
(***************************************************************************)
(* Theorems about HistogramCache, for any number of converters, any keys   *)
(* and specifications, any faults and any number of crashes.               *)
(***************************************************************************)
EXTENDS HistogramCache, FiniteSetTheorems, TLAPS

-----------------------------------------------------------------------------
(***************************************************************************)
(* Type correctness.  TypeOK is not inductive: a lookup needs its key, and *)
(* a file that is read or written has to be there.                         *)
(***************************************************************************)

Busy(c) == pc[c] \in PC \ {"idle", "down"}

TypeInv ==
    /\ TypeOK
    /\ \A c \in Converters : Busy(c) => key[c] \in Keys
    /\ \A c \in Converters : pc[c] \in {"write", "load"} => disk[File(c)] # NoText

LEMMA TextFacts ==
  /\ \A s \in Specs : Raw(s) \in Text /\ Cut(s) \in Text
  /\ \A s \in Specs : Raw(s).spec = s /\ Cut(s).spec = s
  /\ NoText \notin Text /\ Empty \notin Text /\ NoText # Empty
  /\ Null \notin Text /\ Absent \notin Text /\ Null # Absent
  /\ \A t \in Text \union {Empty} : Skipws(t) \in Text \union {Empty}
  /\ Skipws(Empty) = Empty
  /\ \A t \in Text : Skipws(t) \in Text /\ Skipws(t).spec = t.spec
  BY DistinctMarks DEF Raw, Cut, Text, Skipws

\* What is written is the new text, a part of it, or the old one spelling the
\* same specification.
LEMMA WrittenFacts ==
  ASSUME NEW old \in Text \union {Empty}, NEW new \in Text \union {Empty},
         NEW t \in Written(old, new)
  PROVE  /\ t \in Text \union {Empty}
         /\ new = Empty => t = old
         /\ new # Empty => t # Empty /\ t.spec = new.spec
  BY TextFacts DEF Written, Cut, Text

LEMMA InitTypeInv == Init => TypeInv
  BY CacheAssumption, DistinctMarks
     DEF Init, TypeInv, TypeOK, PC, Busy, NoRevisions, NoMetrics

LEMMA CountType ==
  ASSUME TypeOK, NEW c \in Converters, NEW m \in Metric, Count(c, m)
  PROVE  metrics' \in [Converters -> [Metric -> Nat]]
  BY DEF Count, TypeOK

LEMMA FindTypeInv ==
  ASSUME TypeInv, NEW c \in Converters, NEW k, Find(c, k)
  PROVE  TypeInv'
  <1> USE DEF TypeInv, TypeOK, Busy, PC, File
  <1>1. ASSUME Call(c) PROVE calls' \in [Converters -> 0 .. MaxCalls]
    BY <1>1, CacheAssumption DEF Call
  <1>2. CASE FindInvalid(c, k)
    BY <1>1, <1>2, CountType DEF FindInvalid, local, Metric
  <1>3. CASE FindHit(c, k)
    BY <1>1, <1>3, CountType DEF FindHit, local, Metric
  <1>4. CASE k \in Keys /\ FindMiss(c, k)
    BY <1>1, <1>4, CountType DEF FindMiss, Call, Goto, Metric
  <1> QED BY <1>2, <1>3, <1>4 DEF Find

LEMMA ReturnTypeInv ==
  ASSUME TypeInv, NEW c \in Converters, Return(c), UNCHANGED disk
  PROVE  /\ pc' \in [Converters -> PC]
         /\ key' \in [Converters -> Keys \union {Absent}]
         /\ json' \in [Converters -> Text \union {Empty}]
         /\ \A d \in Converters : Busy(d)' => key'[d] \in Keys
         /\ \A d \in Converters : pc'[d] \in {"write", "load"} => disk'[File(d)'] # NoText
  BY DEF TypeInv, TypeOK, Return, Goto, PC, Busy, File

\* A file that is there is never removed.
LEMMA FilesStay ==
  ASSUME TypeInv, NEW c \in Converters, File(c) \in DiskNames, UNCHANGED key,
         \/ disk' = disk
         \/ \E t \in Text \union {Empty} : disk' = [disk EXCEPT ![File(c)] = t]
  PROVE  /\ disk' \in [DiskNames -> Text \union {NoText, Empty}]
         /\ \A d \in Converters :
                pc[d] \in {"write", "load"} => disk'[File(d)'] # NoText
         /\ \A t \in Text \union {Empty} :
                disk' = [disk EXCEPT ![File(c)] = t] => disk'[File(c)'] # NoText
  <1>1. disk \in [DiskNames -> Text \union {NoText, Empty}]
    BY DEF TypeInv, TypeOK
  <1>2. \A d \in Converters : File(d)' = File(d)
    BY DEF File
  <1>3. \A d \in Converters :
            pc[d] \in {"write", "load"} => File(d) \in DiskNames /\ disk[File(d)] # NoText
    BY CacheAssumption DEF TypeInv, File, Busy, PC
  <1> QED BY <1>1, <1>2, <1>3, TextFacts

LEMMA LoadTypeInv ==
  ASSUME TypeInv, NEW c \in Converters, Load(c)
  PROVE  TypeInv'
  <1> USE CacheAssumption DEF TypeInv, count
  <1>1. CASE Probe(c)
    BY <1>1 DEF Probe, TypeOK, Busy, PC, File, Goto
  <1>2. CASE FetchThrows(c)
    BY <1>2, CountType, ReturnTypeInv DEF FetchThrows, TypeOK, Metric
  <1>3. CASE FetchGarbage(c)
    BY <1>3, CountType, ReturnTypeInv DEF FetchGarbage, TypeOK, Metric
  <1>4. CASE FetchStatus(c)
    <2>1. key[c] \in Keys
      BY <1>4 DEF FetchStatus, Fetching, Busy, PC
    <2>2. /\ revisions' \in [Converters -> [Keys -> Text \union {Null, Absent}]]
          /\ answered' \in [Converters -> SUBSET Keys]
      BY <1>4, <2>1 DEF FetchStatus, Memo, Settle, TypeOK
    <2> QED BY <1>4, <2>2, CountType, ReturnTypeInv DEF FetchStatus, TypeOK, Metric
  <1>5. CASE FetchBody(c)
    <2>1. json' \in [Converters -> Text \union {Empty}]
      BY <1>5, TextFacts DEF FetchBody, TypeOK
    <2> QED BY <1>5, <2>1 DEF FetchBody, Fetching, TypeOK, Busy, PC, File, Goto
  <1>6. CASE CreateFile(c)
    <2>1. File(c) \in DiskNames
      BY <1>6 DEF CreateFile, TypeOK, Busy, PC, File
    <2>2. /\ disk' = disk \/ disk' = [disk EXCEPT ![File(c)] = Empty]
          /\ pc'[c] # "write" => pc'[c] # "load"
          /\ pc'[c] = "write" => disk' = [disk EXCEPT ![File(c)] = Empty]
          /\ pc' \in [Converters -> PC]
          /\ \A d \in Converters : d # c => pc'[d] = pc[d]
      BY <1>6 DEF CreateFile, TypeOK, PC, Goto
    <2> QED BY <1>6, <2>1, <2>2, FilesStay DEF CreateFile, TypeOK, Busy, PC
  <1>7. CASE WriteFile(c)
    <2>1. File(c) \in DiskNames
      BY <1>7 DEF WriteFile, TypeOK, Busy, PC, File
    <2>2. /\ disk[File(c)] \in Text \union {Empty}
          /\ json[c] \in Text \union {Empty}
      BY <1>7, <2>1 DEF WriteFile, TypeOK
    <2>3. disk' = disk \/ \E t \in Text \union {Empty} : disk' = [disk EXCEPT ![File(c)] = t]
      BY <1>7, <2>2, WrittenFacts DEF WriteFile
    <2>4. /\ pc' \in [Converters -> PC]
          /\ pc'[c] = "intern"
          /\ \A d \in Converters : d # c => pc'[d] = pc[d]
      BY <1>7 DEF WriteFile, TypeOK, PC, Goto
    <2> QED BY <1>7, <2>1, <2>3, <2>4, FilesStay DEF WriteFile, TypeOK, Busy, PC
  <1>8. CASE LoadFile(c)
    <2>1. disk[File(c)] \in Text \union {Empty}
      BY <1>8 DEF LoadFile, TypeOK, Busy, PC, File
    <2>2. json' \in [Converters -> Text \union {Empty}]
      BY <1>8, <2>1, TextFacts DEF LoadFile, TypeOK
    <2> QED BY <1>8, <2>2 DEF LoadFile, TypeOK, Busy, PC, File, Goto
  <1>9. CASE Intern(c)
    <2>1. key[c] \in Keys /\ json[c] \in Text
      BY <1>9 DEF Intern, Parses, TypeOK, Busy, PC
    <2>2. /\ revisions' \in [Converters -> [Keys -> Text \union {Null, Absent}]]
          /\ answered' \in [Converters -> SUBSET Keys]
          /\ cache' \in [Converters -> SUBSET Text]
          /\ found' \in [Converters -> Nat]
      BY <1>9, <2>1 DEF Intern, Memo, Settle, TypeOK
    <2> QED BY <1>9, <2>2, ReturnTypeInv DEF Intern, TypeOK
  <1>10. CASE InternThrows(c)
    BY <1>10, CountType, ReturnTypeInv DEF InternThrows, TypeOK, Metric
  <1> QED
    BY <1>1, <1>2, <1>3, <1>4, <1>5, <1>6, <1>7, <1>8, <1>9, <1>10 DEF Load

LEMMA NextTypeInv == TypeInv /\ [Next]_vars => TypeInv'
  <1> SUFFICES ASSUME TypeInv, [Next]_vars PROVE TypeInv'
    OBVIOUS
  <1>1. ASSUME NEW c \in Converters, NEW k, Find(c, k) PROVE TypeInv'
    BY <1>1, FindTypeInv
  <1>2. ASSUME NEW c \in Converters, Load(c) PROVE TypeInv'
    BY <1>2, LoadTypeInv
  <1>3. ASSUME NEW c \in Converters, GetMetrics(c) PROVE TypeInv'
    BY <1>3, CacheAssumption
       DEF GetMetrics, TypeInv, TypeOK, Busy, PC, File, local, NoMetrics
  <1>4. ASSUME NEW c \in Converters, Crash(c) PROVE TypeInv'
    BY <1>4, CacheAssumption
       DEF Crash, TypeInv, TypeOK, Busy, PC, File, NoMetrics, NoRevisions
  <1>5. ASSUME NEW c \in Converters, Start(c) PROVE TypeInv'
    BY <1>5 DEF Start, TypeInv, TypeOK, Busy, PC, File, Goto, count
  <1>6. CASE UNCHANGED vars
    BY <1>6 DEF vars, TypeInv, TypeOK, Busy, PC, File
  <1> QED
    BY <1>1, <1>2, <1>3, <1>4, <1>5, <1>6 DEF Next

\* Every variable keeps its type; in particular a file that has been probed is
\* there when it is read, and a lookup that ends knows its key.
THEOREM CacheTypeCorrect == Spec => []TypeOK
  <1>1. TypeInv => TypeOK
    BY DEF TypeInv
  <1> QED
    BY InitTypeInv, NextTypeInv, <1>1, PTL DEF Spec

-----------------------------------------------------------------------------
(***************************************************************************)
(* A key only ever gets its own specification.  The specification travels  *)
(* from the server through json and the file of the key into mRevisions,   *)
(* in the hands of several converters: each of these places holds nothing, *)
(* or a text of the right specification, whole or cut.  Only what parses   *)
(* gets into mRevisions, and what is cut does not.                         *)
(***************************************************************************)

Right(t, k) == t = Empty \/ (k \in Known /\ t.spec = Served[k])

RightOnDisk ==
    \A k \in Keys : disk[DiskName[k]] # NoText => Right(disk[DiskName[k]], k)

RightInHand ==
    \A c \in Converters :
        pc[c] \in {"create", "write", "intern"} => Right(json[c], key[c])

RightInv == TypeInv /\ RightOnDisk /\ RightInHand /\ RightSpec

LEMMA InitRightInv == Init => RightInv
  <1> SUFFICES ASSUME Init PROVE RightInv
    OBVIOUS
  <1>1. RightOnDisk
    BY CacheAssumption DEF Init, RightOnDisk
  <1>2. RightInHand
    BY DEF Init, RightInHand
  <1>3. RightSpec
    BY DEF Init, RightSpec, NoRevisions
  <1> QED BY <1>1, <1>2, <1>3, InitTypeInv DEF RightInv

\* A text that replaces the file of a key is right for every key, if no two
\* keys share the file.
LEMMA RightFile ==
  ASSUME UniqueDiskNames, TypeInv, RightOnDisk, NEW k \in Keys,
         NEW t \in Text \union {Empty}, Right(t, k),
         disk' = [disk EXCEPT ![DiskName[k]] = t]
  PROVE  RightOnDisk'
  <1> SUFFICES ASSUME NEW j \in Keys, disk'[DiskName[j]] # NoText
               PROVE  Right(disk'[DiskName[j]], j)
    BY DEF RightOnDisk, Right
  <1>1. disk \in [DiskNames -> Text \union {NoText, Empty}]
    BY DEF TypeInv, TypeOK
  <1>2. DiskName[j] \in DiskNames /\ DiskName[k] \in DiskNames
    BY CacheAssumption
  <1>3. CASE j = k
    BY <1>1, <1>2, <1>3
  <1>4. CASE j # k
    <2>1. DiskName[j] # DiskName[k]
      BY <1>4 DEF UniqueDiskNames
    <2>2. disk'[DiskName[j]] = disk[DiskName[j]]
      BY <1>1, <1>2, <2>1
    <2> QED BY <2>2 DEF RightOnDisk
  <1> QED BY <1>3, <1>4

LEMMA LoadRightInv ==
  ASSUME UniqueDiskNames, RightInv, NEW c \in Converters, Load(c)
  PROVE  RightOnDisk' /\ RightInHand' /\ RightSpec'
  <1> USE DEF RightInv
  <1>k. key[c] \in Keys
    BY DEF Load, Probe, FetchThrows, FetchGarbage, FetchStatus, FetchBody, Fetching,
           CreateFile, WriteFile, LoadFile, Intern, InternThrows, TypeInv, Busy, PC
  <1>t. /\ disk \in [DiskNames -> Text \union {NoText, Empty}]
        /\ pc \in [Converters -> PC]
        /\ json \in [Converters -> Text \union {Empty}]
        /\ key \in [Converters -> Keys \union {Absent}]
        /\ revisions \in [Converters -> [Keys -> Text \union {Null, Absent}]]
        /\ DiskName[key[c]] \in DiskNames
    BY <1>k, CacheAssumption DEF TypeInv, TypeOK
  <1>1. CASE Probe(c)
    BY <1>1, <1>t DEF Probe, Goto, RightOnDisk, RightInHand, RightSpec, Right
  <1>2. CASE FetchThrows(c) \/ FetchGarbage(c) \/ InternThrows(c)
    <2>1. /\ pc' = [pc EXCEPT ![c] = "idle"]
          /\ key' = [key EXCEPT ![c] = Absent]
          /\ json' = [json EXCEPT ![c] = Empty]
          /\ UNCHANGED <<disk, revisions>>
      BY <1>2 DEF FetchThrows, FetchGarbage, InternThrows, Return, Goto
    <2> QED
      BY <1>t, <2>1 DEF RightOnDisk, RightInHand, RightSpec, Right
  <1>3. CASE FetchStatus(c)
    <2>1. RightOnDisk' /\ RightInHand'
      BY <1>3, <1>t DEF FetchStatus, Return, Goto, RightOnDisk, RightInHand, Right
    <2>2. RightSpec'
      BY <1>3, <1>t, <1>k, TextFacts DEF FetchStatus, Memo, RightSpec
    <2> QED BY <2>1, <2>2
  <1>4. CASE FetchBody(c)
    <2>1. Right(json'[c], key[c])
      BY <1>4, <1>t, TextFacts, CacheAssumption DEF FetchBody, Right
    <2> QED BY <1>4, <1>t, <2>1 DEF FetchBody, Goto, RightOnDisk, RightInHand, RightSpec, Right
  <1>5. CASE CreateFile(c)
    <2>1. RightOnDisk'
      <3>1. CASE UNCHANGED disk
        BY <3>1 DEF RightOnDisk, Right
      <3>2. CASE disk' = [disk EXCEPT ![DiskName[key[c]]] = Empty]
        BY <3>2, <1>k, RightFile DEF Right
      <3> QED BY <1>5, <3>1, <3>2 DEF CreateFile, File
    <2> QED BY <1>5, <1>t, <2>1 DEF CreateFile, Goto, RightInHand, RightSpec, Right
  <1>6. CASE WriteFile(c)
    <2>1. RightOnDisk'
      <3>1. CASE UNCHANGED disk
        BY <3>1 DEF RightOnDisk, Right
      <3>2. CASE \E t \in Written(disk[File(c)], json[c]) :
                     disk' = [disk EXCEPT ![File(c)] = t]
        <4>1. PICK t \in Written(disk[File(c)], json[c]) :
                     disk' = [disk EXCEPT ![File(c)] = t]
          BY <3>2
        <4>2. /\ disk[File(c)] \in Text \union {Empty}
              /\ Right(disk[File(c)], key[c])
          BY <1>6, <1>k, <1>t DEF WriteFile, TypeInv, File, RightOnDisk
        <4>3. Right(json[c], key[c]) /\ json[c] \in Text \union {Empty}
          BY <1>6, <1>t DEF WriteFile, RightInHand
        <4>4. t \in Text \union {Empty} /\ Right(t, key[c])
          BY <4>2, <4>3, WrittenFacts DEF Right
        <4> QED BY <4>1, <4>4, <1>k, RightFile DEF File
      <3> QED BY <1>6, <3>1, <3>2 DEF WriteFile
    <2> QED BY <1>6, <1>t, <2>1 DEF WriteFile, Goto, RightInHand, RightSpec, Right
  <1>7. CASE LoadFile(c)
    <2>1. /\ disk[File(c)] \in Text \union {Empty}
          /\ Right(disk[File(c)], key[c])
      BY <1>7, <1>k, <1>t DEF LoadFile, TypeInv, File, RightOnDisk
    <2>2. Right(Skipws(disk[File(c)]), key[c])
      BY <2>1, TextFacts DEF Right
    <2> QED BY <1>7, <1>t, <2>2 DEF LoadFile, Goto, RightOnDisk, RightInHand, RightSpec, Right
  <1>8. CASE Intern(c)
    <2>1. RightOnDisk' /\ RightInHand'
      BY <1>8, <1>t DEF Intern, Return, Goto, RightOnDisk, RightInHand, Right
    <2>2. /\ json[c] \in Text
          /\ json[c].form # "cut"
          /\ key[c] \in Known /\ json[c].spec = Served[key[c]]
      BY <1>8, <1>t DEF Intern, Parses, RightInHand, Right
    <2>3. RightSpec'
      BY <1>8, <1>t, <1>k, <2>2 DEF Intern, Memo, RightSpec
    <2> QED BY <2>1, <2>3
  <1> QED
    BY <1>1, <1>2, <1>3, <1>4, <1>5, <1>6, <1>7, <1>8 DEF Load

LEMMA NextRightInv == UniqueDiskNames /\ RightInv /\ [Next]_vars => RightInv'
  <1> SUFFICES ASSUME UniqueDiskNames, RightInv, [Next]_vars
               PROVE  RightOnDisk' /\ RightInHand' /\ RightSpec'
    BY NextTypeInv DEF RightInv
  <1> USE DEF RightOnDisk, RightInHand, RightSpec, Right
  <1>t. /\ pc \in [Converters -> PC]
        /\ key \in [Converters -> Keys \union {Absent}]
        /\ revisions \in [Converters -> [Keys -> Text \union {Null, Absent}]]
    BY DEF RightInv, TypeInv, TypeOK
  <1>1. ASSUME NEW c \in Converters, NEW k, Find(c, k)
        PROVE  RightOnDisk' /\ RightInHand' /\ RightSpec'
    BY <1>1, <1>t DEF RightInv, Find, FindInvalid, FindHit, FindMiss, local, Goto, PC
  <1>2. ASSUME NEW c \in Converters, Load(c)
        PROVE  RightOnDisk' /\ RightInHand' /\ RightSpec'
    BY <1>2, LoadRightInv
  <1>3. ASSUME NEW c \in Converters, GetMetrics(c)
        PROVE  RightOnDisk' /\ RightInHand' /\ RightSpec'
    BY <1>3 DEF RightInv, GetMetrics, local
  <1>4. ASSUME NEW c \in Converters, Crash(c)
        PROVE  RightOnDisk' /\ RightInHand' /\ RightSpec'
    BY <1>4, <1>t DEF RightInv, Crash, NoRevisions
  <1>5. ASSUME NEW c \in Converters, Start(c)
        PROVE  RightOnDisk' /\ RightInHand' /\ RightSpec'
    BY <1>5, <1>t DEF RightInv, Start, Goto
  <1>6. CASE UNCHANGED vars
    BY <1>6 DEF RightInv, vars
  <1> QED
    BY <1>1, <1>2, <1>3, <1>4, <1>5, <1>6 DEF Next

\* Whatever is truncated, half written, read in between or left behind by a
\* killed converter: a revision is resolved with its own specification, all of
\* it, provided that no two revisions share a file.
THEOREM OwnSpecification == UniqueDiskNames /\ Spec => []RightSpec
  <1>1. RightInv => RightSpec
    BY DEF RightInv
  <1>2. (UniqueDiskNames /\ RightInv) /\ [Next]_vars => (UniqueDiskNames /\ RightInv)'
    BY NextRightInv DEF UniqueDiskNames
  <1> QED
    BY InitRightInv, <1>1, <1>2, PTL DEF Spec

-----------------------------------------------------------------------------
(***************************************************************************)
(* The metrics.  In the middle of a lookup one miss is still open.         *)
(***************************************************************************)

Open(c) == IF Busy(c) THEN 1 ELSE 0

Accounts(c) ==
    LET m == metrics[c]
    IN  /\ calls[c] = m["invalidRevisions"] + m["cacheHits"] + m["cacheMisses"]
        /\ m["cacheMisses"] = m["connectionErrors"] + m["HTTPErrors"]
                                + m["invalidHistograms"] + found[c] + Open(c)

BalanceInv == TypeInv /\ \A c \in Converters : Accounts(c)

LEMMA InitBalanceInv == Init => BalanceInv
  BY InitTypeInv DEF Init, BalanceInv, Accounts, Open, Busy, NoMetrics, Metric

LEMMA CountFacts ==
  ASSUME TypeInv, NEW c \in Converters, NEW m \in Metric, Count(c, m)
  PROVE  /\ metrics'[c][m] = metrics[c][m] + 1
         /\ \A n \in Metric : n # m => metrics'[c][n] = metrics[c][n]
         /\ \A n \in Metric : metrics[c][n] \in Nat
         /\ \A d \in Converters : d # c => metrics'[d] = metrics[d]
  BY DEF TypeInv, TypeOK, Count

\* A converter only touches its own account.
LEMMA OthersBalanced ==
  ASSUME BalanceInv, NEW c \in Converters,
         \A d \in Converters : d # c =>
             /\ metrics'[d] = metrics[d] /\ calls'[d] = calls[d]
             /\ found'[d] = found[d] /\ pc'[d] = pc[d],
         Accounts(c)'
  PROVE  \A d \in Converters : Accounts(d)'
  BY DEF BalanceInv, Accounts, Open, Busy

LEMMA FindBalanceInv ==
  ASSUME BalanceInv, NEW c \in Converters, NEW k, Find(c, k)
  PROVE  \A d \in Converters : Accounts(d)'
  <1>t. /\ pc \in [Converters -> PC] /\ calls \in [Converters -> 0 .. MaxCalls]
        /\ found \in [Converters -> Nat] /\ TypeInv /\ Accounts(c)
    BY DEF BalanceInv, TypeInv, TypeOK
  <1>n. calls[c] \in Nat /\ found[c] \in Nat
    BY <1>t, CacheAssumption
  <1> USE DEF Metric
  <1>1. CASE FindInvalid(c, k)
    <2>1. /\ pc' = pc /\ found' = found /\ pc[c] = "idle"
          /\ calls'[c] = calls[c] + 1
          /\ \A d \in Converters : d # c => calls'[d] = calls[d]
      BY <1>1, <1>t DEF FindInvalid, Call, local
    <2>2. Accounts(c)'
      BY <1>1, <1>t, <1>n, <2>1, CountFacts DEF FindInvalid, Accounts, Open, Busy
    <2> QED BY <1>1, <1>t, <2>1, <2>2, CountFacts, OthersBalanced DEF FindInvalid
  <1>2. CASE FindHit(c, k)
    <2>1. /\ pc' = pc /\ found' = found /\ pc[c] = "idle"
          /\ calls'[c] = calls[c] + 1
          /\ \A d \in Converters : d # c => calls'[d] = calls[d]
      BY <1>2, <1>t DEF FindHit, Call, local
    <2>2. Accounts(c)'
      BY <1>2, <1>t, <1>n, <2>1, CountFacts DEF FindHit, Accounts, Open, Busy
    <2> QED BY <1>2, <1>t, <2>1, <2>2, CountFacts, OthersBalanced DEF FindHit
  <1>3. CASE FindMiss(c, k)
    <2>1. /\ found' = found /\ pc[c] = "idle" /\ pc'[c] = "probe"
          /\ calls'[c] = calls[c] + 1
          /\ \A d \in Converters : d # c => calls'[d] = calls[d] /\ pc'[d] = pc[d]
      BY <1>3, <1>t DEF FindMiss, Call, Goto
    <2>2. Accounts(c)'
      BY <1>3, <1>t, <1>n, <2>1, CountFacts DEF FindMiss, Accounts, Open, Busy, PC
    <2> QED BY <1>3, <1>t, <2>1, <2>2, CountFacts, OthersBalanced DEF FindMiss
  <1> QED BY <1>1, <1>2, <1>3 DEF Find

\* A step that ends a lookup with an error counts it once.
LEMMA ErrorBalances ==
  ASSUME BalanceInv, NEW c \in Converters, Busy(c), Return(c), UNCHANGED <<calls, found>>,
         Count(c, "connectionErrors") \/ Count(c, "HTTPErrors")
  PROVE  \A d \in Converters : Accounts(d)'
  <1>t. /\ pc \in [Converters -> PC] /\ calls \in [Converters -> 0 .. MaxCalls]
        /\ found \in [Converters -> Nat] /\ TypeInv /\ Accounts(c)
    BY DEF BalanceInv, TypeInv, TypeOK
  <1>n. calls[c] \in Nat /\ found[c] \in Nat
    BY <1>t, CacheAssumption
  <1>p. /\ pc'[c] = "idle"
        /\ \A d \in Converters : d # c => pc'[d] = pc[d]
    BY <1>t DEF Return, Goto
  <1> USE DEF Metric
  <1>1. Accounts(c)'
    BY <1>t, <1>n, <1>p, CountFacts DEF Accounts, Open, Busy
  <1> QED BY <1>1, <1>t, <1>p, CountFacts, OthersBalanced

LEMMA LoadBalanceInv ==
  ASSUME BalanceInv, NEW c \in Converters, Load(c)
  PROVE  \A d \in Converters : Accounts(d)'
  <1>t. /\ pc \in [Converters -> PC] /\ calls \in [Converters -> 0 .. MaxCalls]
        /\ found \in [Converters -> Nat] /\ TypeInv /\ Accounts(c)
    BY DEF BalanceInv, TypeInv, TypeOK
  <1>1. ASSUME UNCHANGED count, Busy(c), Busy(c)',
               \A d \in Converters : d # c => pc'[d] = pc[d]
        PROVE  \A d \in Converters : Accounts(d)'
    BY <1>1, <1>t, OthersBalanced DEF Accounts, Open, count
  <1>2. CASE Probe(c)
    BY <1>1, <1>2, <1>t DEF Probe, Busy, PC, Goto
  <1>3. CASE FetchBody(c)
    BY <1>1, <1>3, <1>t DEF FetchBody, Fetching, Busy, PC, Goto
  <1>4. CASE CreateFile(c)
    BY <1>1, <1>4, <1>t DEF CreateFile, Busy, PC, Goto
  <1>5. CASE WriteFile(c)
    BY <1>1, <1>5, <1>t DEF WriteFile, Busy, PC, Goto
  <1>6. CASE LoadFile(c)
    BY <1>1, <1>6, <1>t DEF LoadFile, Busy, PC, Goto
  <1>7. CASE FetchThrows(c) \/ FetchGarbage(c) \/ FetchStatus(c) \/ InternThrows(c)
    BY <1>7, ErrorBalances
       DEF FetchThrows, FetchGarbage, FetchStatus, Fetching, InternThrows, Busy, PC
  <1>8. CASE Intern(c)
    <2>1. /\ pc[c] = "intern" /\ pc'[c] = "idle" /\ found'[c] = found[c] + 1
          /\ metrics' = metrics /\ calls' = calls
          /\ \A d \in Converters : d # c => found'[d] = found[d] /\ pc'[d] = pc[d]
      BY <1>8, <1>t DEF Intern, Return, Goto
    <2>2. /\ \A m \in Metric : metrics[c][m] \in Nat
          /\ found[c] \in Nat
      BY <1>t DEF TypeInv, TypeOK
    <2>3. /\ Accounts(c) /\ Open(c) = 1 /\ Open(c)' = 0
          /\ metrics'[c] = metrics[c] /\ calls'[c] = calls[c]
      BY <1>t, <2>1 DEF Open, Busy, PC
    <2>4. /\ calls[c] = metrics[c]["invalidRevisions"] + metrics[c]["cacheHits"]
                           + metrics[c]["cacheMisses"]
          /\ metrics[c]["cacheMisses"] =
                 metrics[c]["connectionErrors"] + metrics[c]["HTTPErrors"]
                     + metrics[c]["invalidHistograms"] + found[c] + 1
      BY <2>3 DEF Accounts
    <2>5. metrics[c]["cacheMisses"] =
              metrics[c]["connectionErrors"] + metrics[c]["HTTPErrors"]
                  + metrics[c]["invalidHistograms"] + (found[c] + 1) + 0
      BY <2>2, <2>4 DEF Metric
    <2>6. Accounts(c)'
      BY <2>1, <2>3, <2>4, <2>5 DEF Accounts
    <2> QED BY <2>1, <2>6, OthersBalanced
  <1> QED BY <1>2, <1>3, <1>4, <1>5, <1>6, <1>7, <1>8 DEF Load

LEMMA NextBalanceInv == BalanceInv /\ [Next]_vars => BalanceInv'
  <1> SUFFICES ASSUME BalanceInv, [Next]_vars
               PROVE  \A d \in Converters : Accounts(d)'
    BY NextTypeInv DEF BalanceInv
  <1>t. /\ pc \in [Converters -> PC]
        /\ metrics \in [Converters -> [Metric -> Nat]]
        /\ calls \in [Converters -> 0 .. MaxCalls]
        /\ found \in [Converters -> Nat]
    BY DEF BalanceInv, TypeInv, TypeOK
  <1>1. ASSUME NEW c \in Converters, NEW k, Find(c, k)
        PROVE  \A d \in Converters : Accounts(d)'
    BY <1>1, FindBalanceInv
  <1>2. ASSUME NEW c \in Converters, Load(c)
        PROVE  \A d \in Converters : Accounts(d)'
    BY <1>2, LoadBalanceInv
  <1>3. ASSUME NEW c \in Converters, GetMetrics(c)
        PROVE  \A d \in Converters : Accounts(d)'
    <2>1. Accounts(c)'
      BY <1>3, <1>t DEF GetMetrics, local, Accounts, Open, Busy, NoMetrics, Metric
    <2> QED BY <1>3, <1>t, <2>1, OthersBalanced DEF GetMetrics, local
  <1>4. ASSUME NEW c \in Converters, Crash(c)
        PROVE  \A d \in Converters : Accounts(d)'
    <2>1. Accounts(c)'
      BY <1>4, <1>t DEF Crash, Accounts, Open, Busy, NoMetrics, Metric
    <2> QED BY <1>4, <1>t, <2>1, OthersBalanced DEF Crash
  <1>5. ASSUME NEW c \in Converters, Start(c)
        PROVE  \A d \in Converters : Accounts(d)'
    <2>1. Accounts(c)'
      BY <1>5, <1>t DEF BalanceInv, Start, Goto, count, Accounts, Open, Busy
    <2> QED BY <1>5, <1>t, <2>1, OthersBalanced DEF Start, Goto, count
  <1>6. CASE UNCHANGED vars
    BY <1>6 DEF vars, BalanceInv, Accounts, Open, Busy
  <1> QED
    BY <1>1, <1>2, <1>3, <1>4, <1>5, <1>6 DEF Next

\* Every way out of FindHistogram() counts: the calls of a file are its
\* invalid revisions, hits and misses, and each miss ended in one error or in
\* a specification.
THEOREM MetricsBalance == Spec => []Balanced
  <1>1. BalanceInv => Balanced
    <2> SUFFICES ASSUME BalanceInv, NEW c \in Converters, pc[c] = "idle"
                 PROVE  Accounts(c) /\ Open(c) = 0 /\ metrics[c] \in [Metric -> Nat]
                          /\ found[c] \in Nat
      BY DEF Balanced, Accounts, Metric
    <2> QED BY DEF BalanceInv, TypeInv, TypeOK, Open, Busy
  <1> QED
    BY InitBalanceInv, NextBalanceInv, <1>1, PTL DEF Spec

-----------------------------------------------------------------------------
(***************************************************************************)
(* No retries.  A final answer is in mRevisions, even if it is no          *)
(* specification, and only a crash takes both away.                        *)
(***************************************************************************)

RetryInv ==
    /\ TypeInv
    /\ \A c \in Converters : \A k \in answered[c] : revisions[c][k] # Absent

LEMMA InitRetryInv == Init => RetryInv
  BY InitTypeInv DEF Init, RetryInv

\* Memo and Settle go together, and Memo removes nothing.
LEMMA MemoSettles ==
  ASSUME RetryInv, NEW c \in Converters, key[c] \in Keys,
         NEW o \in Text \union {Null}, Memo(c, o), Settle(c)
  PROVE  \A d \in Converters : \A k \in answered'[d] : revisions'[d][k] # Absent
  BY TextFacts DEF RetryInv, TypeInv, TypeOK, Memo, Settle

LEMMA NextRetryInv ==
  RetryInv /\ [Next]_vars =>
    /\ RetryInv'
    /\ \A c \in Converters :
           pc[c] = "idle" /\ pc'[c] = "probe" => key'[c] \notin answered[c]
  <1> SUFFICES ASSUME RetryInv, [Next]_vars
               PROVE  /\ \A c \in Converters : \A k \in answered'[c] : revisions'[c][k] # Absent
                      /\ \A c \in Converters : pc[c] = "idle" /\ pc'[c] = "probe" =>
                                                   key'[c] \notin answered[c]
    BY NextTypeInv DEF RetryInv
  <1>t. /\ pc \in [Converters -> PC]
        /\ key \in [Converters -> Keys \union {Absent}]
        /\ json \in [Converters -> Text \union {Empty}]
        /\ answered \in [Converters -> SUBSET Keys]
        /\ revisions \in [Converters -> [Keys -> Text \union {Null, Absent}]]
    BY DEF RetryInv, TypeInv, TypeOK
  <1> DEFINE Kept == \A c \in Converters : \A k \in answered'[c] : revisions'[c][k] # Absent
             Fresh == \A c \in Converters : pc[c] = "idle" /\ pc'[c] = "probe" =>
                                                key'[c] \notin answered[c]
  <1>1. ASSUME NEW c \in Converters, NEW k, Find(c, k) PROVE Kept /\ Fresh
    BY <1>1, <1>t DEF RetryInv, Find, FindInvalid, FindHit, FindMiss, Call, local, Goto
  <1>2. ASSUME NEW c \in Converters, Load(c) PROVE Kept /\ Fresh
    <2>1. CASE Probe(c) \/ FetchBody(c) \/ CreateFile(c) \/ WriteFile(c) \/ LoadFile(c)
      BY <2>1, <1>t
         DEF RetryInv, Probe, FetchBody, Fetching, CreateFile, WriteFile, LoadFile, Goto
    <2>2. CASE FetchThrows(c) \/ FetchGarbage(c) \/ InternThrows(c)
      BY <2>2, <1>t
         DEF RetryInv, FetchThrows, FetchGarbage, Fetching, InternThrows, Return, Goto
    <2>3. CASE FetchStatus(c)
      <3>1. key[c] \in Keys
        BY <2>3 DEF RetryInv, TypeInv, FetchStatus, Fetching, Busy, PC
      <3>2. Kept
        BY <2>3, <3>1, MemoSettles DEF FetchStatus
      <3> QED BY <2>3, <3>2, <1>t DEF FetchStatus, Fetching, Return, Goto
    <2>4. CASE Intern(c)
      <3>1. key[c] \in Keys
        BY <2>4 DEF RetryInv, TypeInv, Intern, Busy, PC
      <3>2. json[c] \in Text
        BY <2>4, <1>t DEF Intern, Parses
      <3>3. Kept
        BY <2>4, <3>1, <3>2, MemoSettles DEF Intern
      <3> QED BY <2>4, <3>3, <1>t DEF Intern, Return, Goto
    <2> QED BY <1>2, <2>1, <2>2, <2>3, <2>4 DEF Load
  <1>3. ASSUME NEW c \in Converters, GetMetrics(c) PROVE Kept /\ Fresh
    BY <1>3, <1>t DEF RetryInv, GetMetrics, local
  <1>4. ASSUME NEW c \in Converters, Crash(c) PROVE Kept /\ Fresh
    BY <1>4, <1>t DEF RetryInv, Crash
  <1>5. ASSUME NEW c \in Converters, Start(c) PROVE Kept /\ Fresh
    BY <1>5, <1>t DEF RetryInv, Start, Goto
  <1>6. CASE UNCHANGED vars
    BY <1>6 DEF RetryInv, vars
  <1> QED
    BY <1>1, <1>2, <1>3, <1>4, <1>5, <1>6 DEF Next

\* Once the server has answered for a revision, or a file has been read for
\* it, the converter never loads it again.
THEOREM FinalAnswers == Spec => NoRetry
  <1>1. RetryInv /\ [Next]_vars =>
            [\A c \in Converters :
                pc[c] = "idle" /\ pc'[c] = "probe" => key'[c] \notin answered[c]]_vars
    BY NextRetryInv
  <1>2. RetryInv /\ [Next]_vars => RetryInv'
    BY NextRetryInv
  <1> QED
    BY InitRetryInv, <1>1, <1>2, PTL DEF Spec, NoRetry

-----------------------------------------------------------------------------
(***************************************************************************)
(* One file per crash.  Between the truncation and the write a file is     *)
(* empty; a second writer may truncate or write over what the first has    *)
(* written, but with the same specification and all of it.  A converter    *)
(* that is killed leaves one file without its writer.                      *)
(***************************************************************************)

Harmless == Faults \intersect {"short", "disk"} = {}

WholeInHand ==
    Harmless => \A c \in Converters :
        pc[c] \in {"create", "write"} => json[c] # Empty /\ json[c].form = "raw"

DamageBound ==
    Harmless => IsFiniteSet(Poisoned) /\ Cardinality(Poisoned) <= crashes

PoisonInv == RightInv /\ WholeInHand /\ DamageBound

LEMMA InitPoisonInv == Init => PoisonInv
  <1> SUFFICES ASSUME Init PROVE PoisonInv
    OBVIOUS
  <1>1. WholeInHand
    BY DEF Init, WholeInHand
  <1>2. Poisoned = {} /\ crashes = 0
    BY DistinctMarks DEF Init, Poisoned, Broken
  <1> QED BY <1>1, <1>2, InitRightInv, FS_EmptySet DEF PoisonInv, DamageBound

\* A file that a step of a lookup damages has a writer afterwards.
LEMMA LoadPoisons ==
  ASSUME RightInv, WholeInHand, Harmless, UniqueDiskNames,
         NEW c \in Converters, Load(c)
  PROVE  WholeInHand' /\ Poisoned' \subseteq Poisoned
  <1> USE DEF RightInv
  <1> DEFINE Tended == \A n \in DiskNames : Broken(disk'[n]) /\ n \notin Poisoned =>
                           \E d \in Converters : pc'[d] = "write" /\ File(d)' = n
  <1>p. ASSUME Tended PROVE Poisoned' \subseteq Poisoned
    <2> SUFFICES ASSUME NEW n \in Poisoned' PROVE n \in Poisoned
      OBVIOUS
    <2>1. /\ n \in DiskNames /\ Broken(disk'[n])
          /\ \A d \in Converters : pc'[d] = "write" => File(d)' # n
      BY DEF Poisoned, Broken
    <2> QED BY <1>p, <2>1
  <1>o. ASSUME NEW n \in DiskNames, Broken(disk[n]), n \notin Poisoned
        PROVE  \E d \in Converters : pc[d] = "write" /\ File(d) = n
    BY <1>o DEF Poisoned
  <1>t. /\ disk \in [DiskNames -> Text \union {NoText, Empty}]
        /\ pc \in [Converters -> PC]
        /\ json \in [Converters -> Text \union {Empty}]
        /\ key \in [Converters -> Keys \union {Absent}]
    BY DEF TypeInv, TypeOK
  <1>1. CASE CreateFile(c)
    <2>1. WholeInHand'
      BY <1>1, <1>t DEF CreateFile, Goto, WholeInHand
    <2>2. Tended
      <3> SUFFICES ASSUME NEW n \in DiskNames, Broken(disk'[n]), n \notin Poisoned
                   PROVE  \E d \in Converters : pc'[d] = "write" /\ File(d)' = n
        OBVIOUS
      <3>1. disk' = [disk EXCEPT ![File(c)] = Empty] /\ pc' = [pc EXCEPT ![c] = "write"]
        BY <1>1 DEF CreateFile, Goto, Harmless
      <3>2. CASE n = File(c)
        BY <1>1, <1>t, <3>1, <3>2 DEF CreateFile, File
      <3>3. CASE n # File(c)
        <4>1. Broken(disk[n])
          BY <1>t, <3>1, <3>3
        <4>2. PICK d \in Converters : pc[d] = "write" /\ File(d) = n
          BY <1>o, <4>1
        <4> QED BY <1>1, <1>t, <3>1, <4>2 DEF CreateFile, File
      <3> QED BY <3>2, <3>3
    <2> QED BY <1>p, <2>1, <2>2
  <1>2. CASE WriteFile(c)
    <2>1. WholeInHand'
      BY <1>2, <1>t DEF WriteFile, Goto, WholeInHand
    <2>2. Tended
      <3> SUFFICES ASSUME NEW n \in DiskNames, Broken(disk'[n]), n \notin Poisoned
                   PROVE  \E d \in Converters : pc'[d] = "write" /\ File(d)' = n
        OBVIOUS
      <3>1. PICK t \in Written(disk[File(c)], json[c]) :
                disk' = [disk EXCEPT ![File(c)] = t]
        BY <1>2 DEF WriteFile, Harmless
      <3>k. key[c] \in Keys /\ File(c) \in DiskNames /\ pc[c] = "write"
        BY <1>2, CacheAssumption DEF WriteFile, TypeInv, Busy, PC, File
      <3>2. json[c] \in Text /\ json[c] # Empty /\ json[c].form = "raw"
        BY <1>t, <3>k DEF WholeInHand
      <3>3. disk[File(c)] = Empty \/ (disk[File(c)] \in Text /\ disk[File(c)].spec = json[c].spec)
        <4>1. disk[File(c)] \in Text \union {Empty} /\ Right(disk[File(c)], key[c])
          BY <1>t, <3>k DEF TypeInv, File, RightOnDisk
        <4>2. Right(json[c], key[c])
          BY <3>k DEF RightInHand
        <4> QED BY <3>2, <4>1, <4>2 DEF Right
      <3>4. t \in {disk[File(c)], json[c]} /\ t # Empty /\ t.form = "raw"
        BY <3>1, <3>2, <3>3, TextFacts DEF Written
      <3>5. n # File(c)
        BY <1>t, <3>1, <3>k, <3>4 DEF Broken
      <3>6. Broken(disk[n])
        BY <1>t, <3>1, <3>5
      <3>7. PICK d \in Converters : pc[d] = "write" /\ File(d) = n
        BY <1>o, <3>6
      <3> QED BY <1>2, <1>t, <3>5, <3>7 DEF WriteFile, Goto, File
    <2> QED BY <1>p, <2>1, <2>2
  <1>3. CASE FetchBody(c)
    <2>1. WholeInHand'
      <3>1. json' = [json EXCEPT ![c] = Raw(Served[key[c]])]
        BY <1>3 DEF FetchBody, Harmless
      <3>2. Raw(Served[key[c]]) # Empty /\ Raw(Served[key[c]]).form = "raw"
        BY <1>3, CacheAssumption, TextFacts DEF FetchBody, Raw
      <3> QED BY <1>3, <1>t, <3>1, <3>2 DEF FetchBody, Fetching, Goto, WholeInHand
    <2>2. Poisoned' \subseteq Poisoned
      BY <1>3, <1>t DEF FetchBody, Fetching, Goto, Poisoned, Broken, File
    <2> QED BY <2>1, <2>2
  <1>4. ASSUME ~(CreateFile(c) \/ WriteFile(c) \/ FetchBody(c))
        PROVE  WholeInHand' /\ Poisoned' \subseteq Poisoned
    <2>1. /\ UNCHANGED <<disk, crashes>>
          /\ pc[c] \notin {"write"} /\ pc'[c] \notin {"create", "write"}
          /\ \A d \in Converters : d # c =>
                pc'[d] = pc[d] /\ key'[d] = key[d] /\ json'[d] = json[d]
      BY <1>4, <1>t DEF Load, Probe, FetchThrows, FetchGarbage, FetchStatus, Fetching,
             LoadFile, Intern, InternThrows, Return, Goto
    <2>2. WholeInHand'
      BY <2>1 DEF WholeInHand
    <2>3. Poisoned' \subseteq Poisoned
      BY <2>1 DEF Poisoned, Broken, File
    <2> QED BY <2>2, <2>3
  <1> QED BY <1>1, <1>2, <1>3, <1>4

LEMMA CrashPoisons ==
  ASSUME TypeInv, NEW c \in Converters, Crash(c)
  PROVE  Poisoned' \subseteq Poisoned \union {File(c)}
  BY DEF TypeInv, TypeOK, Crash, Poisoned, Broken, File

LEMMA NextPoisonInv == UniqueDiskNames /\ PoisonInv /\ [Next]_vars => PoisonInv'
  <1> SUFFICES ASSUME UniqueDiskNames, PoisonInv, [Next]_vars, Harmless
               PROVE  /\ WholeInHand'
                      /\ IsFiniteSet(Poisoned') /\ Cardinality(Poisoned') <= crashes'
    BY NextRightInv DEF PoisonInv, DamageBound, WholeInHand, Harmless
  <1>0. /\ RightInv /\ WholeInHand /\ TypeInv /\ crashes \in Nat
        /\ IsFiniteSet(Poisoned) /\ Cardinality(Poisoned) <= crashes
    BY CacheAssumption DEF PoisonInv, DamageBound, RightInv, TypeInv, TypeOK
  <1>c. Cardinality(Poisoned) \in Nat
    BY <1>0, FS_CardinalityType
  <1>t. /\ pc \in [Converters -> PC] /\ json \in [Converters -> Text \union {Empty}]
        /\ key \in [Converters -> Keys \union {Absent}]
    BY <1>0 DEF TypeInv, TypeOK
  <1> DEFINE Kept == WholeInHand' /\ Poisoned' \subseteq Poisoned /\ crashes' = crashes
  <1>s. ASSUME Kept
        PROVE  IsFiniteSet(Poisoned') /\ Cardinality(Poisoned') <= crashes'
    <2>1. IsFiniteSet(Poisoned') /\ Cardinality(Poisoned') <= Cardinality(Poisoned)
      BY <1>0, <1>s, FS_Subset
    <2>2. Cardinality(Poisoned') \in Nat
      BY <2>1, FS_CardinalityType
    <2> QED BY <1>0, <1>c, <1>s, <2>1, <2>2
  <1>1. ASSUME NEW c \in Converters, NEW k, Find(c, k) PROVE Kept
    <2>1. /\ UNCHANGED <<disk, crashes, json>>
          /\ \A d \in Converters :
                /\ pc'[d] \in {"create", "write"} => pc[d] = pc'[d]
                /\ pc[d] = "write" => pc'[d] = "write" /\ key'[d] = key[d]
      BY <1>1, <1>t DEF Find, FindInvalid, FindHit, FindMiss, Call, local, Goto, PC
    <2> QED BY <1>0, <2>1 DEF WholeInHand, Poisoned, Broken, File
  <1>2. ASSUME NEW c \in Converters, Load(c) PROVE Kept
    <2>1. crashes' = crashes
      BY <1>2 DEF Load, Probe, FetchThrows, FetchGarbage, FetchStatus, FetchBody,
             CreateFile, WriteFile, LoadFile, Intern, InternThrows
    <2> QED BY <1>0, <1>2, <2>1, LoadPoisons
  <1>3. ASSUME NEW c \in Converters, GetMetrics(c) PROVE Kept
    BY <1>0, <1>3 DEF GetMetrics, local, WholeInHand, Poisoned, Broken, File
  <1>4. ASSUME NEW c \in Converters, Crash(c)
        PROVE  /\ WholeInHand'
               /\ IsFiniteSet(Poisoned') /\ Cardinality(Poisoned') <= crashes'
    <2>1. WholeInHand'
      BY <1>0, <1>4, <1>t DEF Crash, WholeInHand
    <2>2. PICK n : Poisoned' \subseteq Poisoned \union {n}
      BY <1>0, <1>4, CrashPoisons
    <2>3. /\ IsFiniteSet(Poisoned \union {n})
          /\ Cardinality(Poisoned \union {n}) <= Cardinality(Poisoned) + 1
      BY <1>0, <1>c, FS_AddElement
    <2>4. /\ IsFiniteSet(Poisoned')
          /\ Cardinality(Poisoned') <= Cardinality(Poisoned \union {n})
      BY <2>2, <2>3, FS_Subset
    <2>5. /\ Cardinality(Poisoned') \in Nat
          /\ Cardinality(Poisoned \union {n}) \in Nat
      BY <2>3, <2>4, FS_CardinalityType
    <2>6. crashes' = crashes + 1
      BY <1>4 DEF Crash
    <2> QED BY <1>0, <1>c, <2>1, <2>3, <2>4, <2>5, <2>6
  <1>5. ASSUME NEW c \in Converters, Start(c) PROVE Kept
    BY <1>0, <1>5, <1>t DEF Start, Goto, WholeInHand, Poisoned, Broken, File
  <1>6. CASE UNCHANGED vars
    <2>1. Kept
      BY <1>0, <1>6 DEF vars, WholeInHand, Poisoned, Broken, File
    <2> QED BY <1>s, <2>1
  <1> QED
    BY <1>1, <1>2, <1>3, <1>4, <1>5, <1>6, <1>s DEF Next

\* However many converters fetch one revision at the same time and write its
\* file over each other, a file no one is about to write is whole, but for one
\* file for each converter that was killed, as long as answers and disks are
\* whole.
THEOREM DamageIsBounded == UniqueDiskNames /\ Spec => []DamagePerCrash
  <1>1. PoisonInv => DamagePerCrash
    BY DEF PoisonInv, DamageBound, DamagePerCrash, Harmless
  <1>2. (UniqueDiskNames /\ PoisonInv) /\ [Next]_vars => (UniqueDiskNames /\ PoisonInv)'
    BY NextPoisonInv DEF UniqueDiskNames
  <1> QED
    BY InitPoisonInv, <1>1, <1>2, PTL DEF Spec

=============================================================================
