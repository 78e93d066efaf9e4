--------------------------- MODULE ConvertProofs ---------------------------
(***************************************************************************)
(* Theorems about Convert, for any number of converters and files, any     *)
(* faults and any number of crashes; and when no name is submitted twice:  *)
(* the rename() is an exclusive claim, a file is read at most once, and a  *)
(* complete file is never deleted unread.                                  *)
(***************************************************************************)
EXTENDS ConvertDelivery, FiniteSetTheorems, TLAPS

-----------------------------------------------------------------------------
(***************************************************************************)
(* Type correctness.  TypeOK is not inductive: the name under which a file *)
(* is looked up has to be one, so a converter past its scan has to have    *)
(* picked a name.                                                          *)
(***************************************************************************)

Picked(c) == pc[c] \in {"claim", "open", "read", "size", "remove", "report"}

TypeInv ==
    /\ TypeOK
    /\ \A c \in Converters : Picked(c) => fn[c] \in Names

LEMMA InitTypeInv == Init => TypeInv
  BY ConvertAssumption DEF Init, TypeInv, TypeOK, MaybeFile, PC, Picked

LEMMA ProduceTypeInv ==
  ASSUME TypeInv, NEW f \in Files, Create(f) \/ Close(f) \/ MoveIn(f)
  PROVE  TypeInv'
  <1>1. CASE Create(f)
    BY <1>1 DEF Create, TypeInv, TypeOK, Picked, proc, obs, MaybeFile
  <1>2. CASE Close(f)
    BY <1>2 DEF Close, TypeInv, TypeOK, Picked, proc, obs, Notify
  <1>3. CASE MoveIn(f)
    <2>1. events' \in [Converters -> Nat]
      BY <1>3 DEF MoveIn, TypeInv, TypeOK, Notify
    <2>2. input' \in [Names -> MaybeFile] /\ writer' \in [Files -> {"none", "open", "closed"}]
      BY <1>3 DEF MoveIn, TypeInv, TypeOK, MaybeFile
    <2> QED BY <1>3, <2>1, <2>2 DEF MoveIn, TypeInv, TypeOK, Picked, proc, obs
  <1> QED BY <1>1, <1>2, <1>3

LEMMA StepTypeInv ==
  ASSUME TypeInv, NEW c \in Converters, Step(c)
  PROVE  TypeInv'
  <1> USE DEF TypeInv, TypeOK, Picked, env, obs, Goto, Continue, PC, MaybeFile
  <1>1. CASE OpenDir(c)
    BY <1>1 DEF OpenDir
  <1>2. ASSUME NEW n \in Names, Pick(c, n) PROVE TypeInv'
    BY <1>2 DEF Pick
  <1>3. ASSUME NEW n \in Names, Skip(c, n) PROVE TypeInv'
    BY <1>3 DEF Skip
  <1>4. CASE ScanEmpty(c)
    BY <1>4 DEF ScanEmpty
  <1>5. CASE Rename(c)
    BY <1>5, ConvertAssumption DEF Rename
  <1>6. CASE RenameThrows(c)
    BY <1>6 DEF RenameThrows
  <1>7. CASE Open(c)
    BY <1>7 DEF Open
  <1>8. CASE Read(c)
    BY <1>8 DEF Read
  <1>9. CASE ReadThrows(c)
    BY <1>9 DEF ReadThrows
  <1>10. CASE FileSize(c)
    BY <1>10 DEF FileSize
  <1>11. CASE Remove(c)
    BY <1>11 DEF Remove
  <1>12. CASE RemoveThrows(c)
    BY <1>12 DEF RemoveThrows
  <1>13. CASE Report(c)
    BY <1>13 DEF Report
  <1>14. CASE Block(c)
    BY <1>14 DEF Block
  <1>15. CASE Wake(c)
    BY <1>15 DEF Wake
  <1>16. CASE Stop(c)
    BY <1>16 DEF Stop
  <1> QED
    BY <1>1, <1>2, <1>3, <1>4, <1>5, <1>6, <1>7, <1>8, <1>9, <1>10,
       <1>11, <1>12, <1>13, <1>14, <1>15, <1>16 DEF Step

LEMMA NextTypeInv == TypeInv /\ [Next]_vars => TypeInv'
  <1> SUFFICES ASSUME TypeInv, [Next]_vars PROVE TypeInv'
    OBVIOUS
  <1>1. CASE Produce
    BY <1>1, ProduceTypeInv DEF Produce
  <1>2. ASSUME NEW c \in Converters, Step(c) PROVE TypeInv'
    BY <1>2, StepTypeInv
  <1>3. ASSUME NEW c \in Converters, Signal(c) PROVE TypeInv'
    BY <1>3 DEF Signal, TypeInv, TypeOK, Picked, env, obs, Goto, PC
  <1>4. ASSUME NEW c \in Converters, Crash(c) PROVE TypeInv'
    BY <1>4, ConvertAssumption DEF Crash, TypeInv, TypeOK, Picked, obs, Goto, PC, MaybeFile
  <1>5. ASSUME NEW c \in Converters, Start(c) PROVE TypeInv'
    BY <1>5 DEF Start, TypeInv, TypeOK, Picked, env, obs, Goto, PC
  <1>6. CASE UNCHANGED vars
    BY <1>6 DEF vars, TypeInv, TypeOK, Picked
  <1> QED
    BY <1>1, <1>2, <1>3, <1>4, <1>5, <1>6 DEF Next

\* Every variable keeps its type in every behaviour; in particular no wake-up
\* takes more events from a queue than it holds.
THEOREM TypeCorrect == Spec => []TypeOK
  <1>1. TypeInv => TypeOK
    BY DEF TypeInv
  <1> QED
    BY InitTypeInv, NextTypeInv, <1>1, PTL DEF Spec


-----------------------------------------------------------------------------
(***************************************************************************)
(* No lost wake-up.  The invariant speaks about the whole way from the     *)
(* directory_iterator to read(): as long as no event is pending, a         *)
(* finished file is one the scan has still to visit, and no scan is over.  *)
(* A file that is closed queues its event only where its producer put it,  *)
(* so files have to be under their names.                                  *)
(***************************************************************************)

Placed ==
    \A n \in Names : input[n] # NoFile =>
        NameOf[input[n]] = n /\ writer[input[n]] # "none"

Overlooked(c, n) ==
    /\ pc[c] \in {"scan", "idle", "wait"}
    /\ events[c] = 0
    /\ input[n] # NoFile
    /\ writer[input[n]] = "closed"

Watchful ==
    \A c \in Converters, n \in Names :
        Overlooked(c, n) => pc[c] = "scan" /\ n \in todo[c]

WakeupInv == TypeInv /\ Placed /\ Watchful

LEMMA InitWakeupInv == Init => WakeupInv
  BY InitTypeInv DEF Init, WakeupInv, Placed, Watchful, Overlooked

LEMMA ProduceWakeupInv ==
  ASSUME WakeupInv, NEW f \in Files, Create(f) \/ Close(f) \/ MoveIn(f)
  PROVE  Placed' /\ Watchful'
  <1> USE ConvertAssumption DEF WakeupInv, TypeInv, TypeOK, MaybeFile
  <1>1. CASE Create(f)
    BY <1>1 DEF Create, Placed, Watchful, Overlooked, proc
  <1>2. CASE Close(f)
    <2>1. Placed'
      BY <1>2 DEF Close, Placed
    <2>2. CASE input[NameOf[f]] = f
      <3>1. \A c \in Converters :
                pc[c] \in {"scan", "idle", "wait"} => events'[c] # 0
        BY <1>2, <2>2 DEF Close, Notify, Running
      <3> QED BY <1>2, <2>1, <3>1 DEF Close, Watchful, Overlooked, proc
    <2>3. CASE input[NameOf[f]] # f
      <3>1. \A n \in Names : input[n] # f
        BY <2>3 DEF Placed
      <3> QED BY <1>2, <2>1, <2>3, <3>1 DEF Close, Watchful, Overlooked, proc
    <2> QED BY <2>1, <2>2, <2>3
  <1>3. CASE MoveIn(f)
    <2>1. Placed'
      BY <1>3 DEF MoveIn, Placed
    <2>2. \A c \in Converters :
                pc[c] \in {"scan", "idle", "wait"} => events'[c] # 0
      BY <1>3 DEF MoveIn, Notify, Running
    <2> QED BY <1>3, <2>1, <2>2 DEF MoveIn, Watchful, Overlooked, proc
  <1> QED BY <1>1, <1>2, <1>3

LEMMA StepWakeupInv ==
  ASSUME WakeupInv, NEW c \in Converters, Step(c)
  PROVE  Placed' /\ Watchful'
  <1> USE DEF WakeupInv, TypeInv, TypeOK, Placed, Watchful, Overlooked,
              Goto, Continue
  <1>1. CASE OpenDir(c)
    BY <1>1 DEF OpenDir, env
  <1>2. ASSUME NEW n \in Names, Pick(c, n) PROVE Placed' /\ Watchful'
    BY <1>2 DEF Pick, env
  <1>3. ASSUME NEW n \in Names, Skip(c, n) PROVE Placed' /\ Watchful'
    BY <1>3 DEF Skip, env
  <1>4. CASE ScanEmpty(c)
    BY <1>4 DEF ScanEmpty, env
  <1>5. CASE Rename(c)
    BY <1>5, ConvertAssumption DEF Rename
  <1>6. CASE RenameThrows(c)
    BY <1>6 DEF RenameThrows, env
  <1>7. CASE Open(c)
    BY <1>7 DEF Open, env
  <1>8. CASE Read(c)
    BY <1>8 DEF Read, env
  <1>9. CASE ReadThrows(c)
    BY <1>9 DEF ReadThrows, env
  <1>10. CASE FileSize(c)
    BY <1>10 DEF FileSize, env
  <1>11. CASE Remove(c)
    BY <1>11 DEF Remove, env
  <1>12. CASE RemoveThrows(c)
    BY <1>12 DEF RemoveThrows, env
  <1>13. CASE Report(c)
    BY <1>13 DEF Report, env
  <1>14. CASE Block(c)
    BY <1>14 DEF Block, env
  <1>15. CASE Wake(c)
    BY <1>15 DEF Wake
  <1>16. CASE Stop(c)
    BY <1>16 DEF Stop
  <1> QED
    BY <1>1, <1>2, <1>3, <1>4, <1>5, <1>6, <1>7, <1>8, <1>9, <1>10,
       <1>11, <1>12, <1>13, <1>14, <1>15, <1>16 DEF Step

LEMMA NextWakeupInv == WakeupInv /\ [Next]_vars => WakeupInv'
  <1> SUFFICES ASSUME WakeupInv, [Next]_vars PROVE Placed' /\ Watchful'
    BY NextTypeInv DEF WakeupInv
  <1> USE DEF WakeupInv, TypeInv, TypeOK, Placed, Watchful, Overlooked, Goto
  <1>1. CASE Produce
    BY <1>1, ProduceWakeupInv DEF Produce
  <1>2. ASSUME NEW c \in Converters, Step(c) PROVE Placed' /\ Watchful'
    BY <1>2, StepWakeupInv
  <1>3. ASSUME NEW c \in Converters, Signal(c) PROVE Placed' /\ Watchful'
    BY <1>3 DEF Signal, env
  <1>4. ASSUME NEW c \in Converters, Crash(c) PROVE Placed' /\ Watchful'
    BY <1>4 DEF Crash
  <1>5. ASSUME NEW c \in Converters, Start(c) PROVE Placed' /\ Watchful'
    BY <1>5 DEF Start, env
  <1>6. CASE UNCHANGED vars
    BY <1>6 DEF vars
  <1> QED
    BY <1>1, <1>2, <1>3, <1>4, <1>5, <1>6 DEF Next

\* A converter blocks in read() with an empty queue only when no finished file
\* waits: adding the watch before the first scan and scanning again after
\* every event is enough, whatever is submitted, fails or is killed.
THEOREM WakeupNotLost == Spec => []NoLostWakeup
  <1>1. WakeupInv => NoLostWakeup
    BY DEF WakeupInv, Watchful, Overlooked, NoLostWakeup
  <1> QED
    BY InitWakeupInv, NextWakeupInv, <1>1, PTL DEF Spec

-----------------------------------------------------------------------------
(***************************************************************************)
(* One file per crash.  The steps by which a converter leaves              *)
(* ProcessFile() either remove its file or need a fault or a kill, and a   *)
(* converter that is killed works on one file only.                        *)
(***************************************************************************)

NoLeaks == Faults \subseteq {"rename"}

StrandedInv ==
    /\ TypeInv
    /\ NoLeaks => IsFiniteSet(Stranded) /\ Cardinality(Stranded) <= crashes

LEMMA InitStrandedInv == Init => StrandedInv
  <1> SUFFICES ASSUME Init PROVE StrandedInv
    OBVIOUS
  <1>1. Stranded = {} /\ crashes = 0
    BY DEF Init, Stranded
  <1> QED BY <1>1, InitTypeInv, FS_EmptySet DEF StrandedInv

LEMMA StepStrands ==
  ASSUME TypeInv, NoLeaks, NEW c \in Converters, Step(c)
  PROVE  Stranded' \subseteq Stranded
  <1> SUFFICES ASSUME NEW n \in Names, temp'[n] # NoFile, n \notin Stranded
               PROVE  \E d \in Converters : Working(d)' /\ fn'[d] = n
    BY DEF Stranded
  <1> USE DEF Goto, Continue, env, obs, Working, NoLeaks
  <1>0. TypeOK
    BY DEF TypeInv
  <1>1. temp[n] # NoFile => \E d \in Converters : Working(d) /\ fn[d] = n
    BY DEF Stranded
  <1>2. CASE Rename(c)
    <2>1. CASE n = fn[c]
      BY <1>0, <1>2, <2>1 DEF Rename, TypeOK
    <2>2. CASE n # fn[c]
      <3>1. temp[n] # NoFile
        BY <1>0, <1>2, <2>2 DEF Rename, TypeOK
      <3>2. PICK d \in Converters : Working(d) /\ fn[d] = n
        BY <1>1, <3>1
      <3> QED BY <1>0, <1>2, <2>2, <3>2 DEF Rename, TypeOK
    <2> QED BY <2>1, <2>2
  <1>3. CASE Remove(c)
    <2>1. temp[n] # NoFile /\ n # fn[c]
      BY <1>0, <1>3 DEF Remove, TypeOK
    <2>2. PICK d \in Converters : Working(d) /\ fn[d] = n
      BY <1>1, <2>1
    <2> QED BY <1>0, <1>3, <2>1, <2>2 DEF Remove, TypeOK
  <1>4. ASSUME ~Rename(c), ~Remove(c)
        PROVE  \E d \in Converters : Working(d)' /\ fn'[d] = n
    <2>1. temp[n] # NoFile /\ temp' = temp
      BY <1>4 DEF Step, OpenDir, Pick, Skip, ScanEmpty, RenameThrows, Open, Read,
             ReadThrows, FileSize, RemoveThrows, Report, Block, Wake, Stop
    <2>2. PICK d \in Converters : Working(d) /\ fn[d] = n
      BY <1>1, <2>1
    <2>3. Working(d)' /\ fn'[d] = n
      BY <1>0, <1>4, <2>1, <2>2 DEF Step, OpenDir, Pick, Skip, ScanEmpty, RenameThrows,
             Open, Read, ReadThrows, FileSize, RemoveThrows, Report, Block, Wake, Stop,
             TypeOK
    <2> QED BY <2>3
  <1> QED BY <1>2, <1>3, <1>4

LEMMA CrashStrands ==
  ASSUME TypeInv, NEW c \in Converters, Crash(c)
  PROVE  Stranded' \subseteq Stranded \union {fn[c]}
  BY DEF TypeInv, TypeOK, Crash, Goto, Stranded, Working

LEMMA NextStrandedInv == StrandedInv /\ [Next]_vars => StrandedInv'
  <1> SUFFICES ASSUME StrandedInv, [Next]_vars, NoLeaks
               PROVE  IsFiniteSet(Stranded') /\ Cardinality(Stranded') <= crashes'
    BY NextTypeInv DEF StrandedInv, NoLeaks
  <1>0. /\ TypeInv /\ crashes \in Nat
        /\ IsFiniteSet(Stranded) /\ Cardinality(Stranded) <= crashes
    BY ConvertAssumption DEF StrandedInv, TypeInv, TypeOK
  <1>c. Cardinality(Stranded) \in Nat
    BY <1>0, FS_CardinalityType
  <1>s. ASSUME Stranded' \subseteq Stranded, crashes' = crashes
        PROVE  IsFiniteSet(Stranded') /\ Cardinality(Stranded') <= crashes'
    <2>1. IsFiniteSet(Stranded') /\ Cardinality(Stranded') <= Cardinality(Stranded)
      BY <1>0, <1>s, FS_Subset
    <2>2. Cardinality(Stranded') \in Nat
      BY <2>1, FS_CardinalityType
    <2> QED BY <1>0, <1>c, <1>s, <2>1, <2>2
  <1>1. CASE Produce
    BY <1>1, <1>s DEF Produce, Create, Close, MoveIn, proc, obs, Stranded, Working
  <1>2. ASSUME NEW c \in Converters, Step(c) PROVE Stranded' \subseteq Stranded /\ crashes' = crashes
    BY <1>0, <1>2, StepStrands
       DEF Step, OpenDir, Pick, Skip, ScanEmpty, Rename, RenameThrows, Open, Read,
           ReadThrows, FileSize, Remove, RemoveThrows, Report, Block, Wake, Stop
  <1>3. ASSUME NEW c \in Converters, Signal(c)
        PROVE  Stranded' \subseteq Stranded /\ crashes' = crashes
    BY <1>0, <1>3 DEF TypeInv, TypeOK, Signal, Goto, env, obs, Stranded, Working
  <1>4. ASSUME NEW c \in Converters, Crash(c)
        PROVE  IsFiniteSet(Stranded') /\ Cardinality(Stranded') <= crashes'
    <2>1. Stranded' \subseteq Stranded \union {fn[c]}
      BY <1>0, <1>4, CrashStrands
    <2>2. /\ IsFiniteSet(Stranded \union {fn[c]})
          /\ Cardinality(Stranded \union {fn[c]}) <= Cardinality(Stranded) + 1
      BY <1>0, <1>c, FS_AddElement
    <2>3. /\ IsFiniteSet(Stranded')
          /\ Cardinality(Stranded') <= Cardinality(Stranded \union {fn[c]})
      BY <2>1, <2>2, FS_Subset
    <2>4. /\ Cardinality(Stranded') \in Nat
          /\ Cardinality(Stranded \union {fn[c]}) \in Nat
      BY <2>2, <2>3, FS_CardinalityType
    <2>5. crashes' = crashes + 1
      BY <1>4 DEF Crash
    <2> QED BY <1>0, <1>c, <2>2, <2>3, <2>4, <2>5
  <1>5. ASSUME NEW c \in Converters, Start(c)
        PROVE  Stranded' \subseteq Stranded /\ crashes' = crashes
    BY <1>0, <1>5 DEF TypeInv, TypeOK, Start, Goto, env, obs, Stranded, Working
  <1>6. CASE UNCHANGED vars
    BY <1>6, <1>s DEF vars, Stranded, Working
  <1> QED
    BY <1>1, <1>2, <1>3, <1>4, <1>5, <1>6, <1>s DEF Next

\* Every converter that is killed leaves one file behind in the temporary
\* directory at most, and nothing else does as long as reading and removing
\* succeed, even if names are used again and converters replace each other's
\* files there.
THEOREM CrashesStrandOneEach == Spec => []OnePerCrash
  <1>1. StrandedInv => OnePerCrash
    BY DEF StrandedInv, NoLeaks, OnePerCrash
  <1> QED
    BY InitStrandedInv, NextStrandedInv, <1>1, PTL DEF Spec

-----------------------------------------------------------------------------
(***************************************************************************)
(* The inductive invariant.  The properties relate a file to whoever works *)
(* on it; what makes them inductive is the life of a name: it is in the    *)
(* input directory under a file nobody has opened, then in the temporary   *)
(* directory with at most one converter at work on it, and never in both.  *)
(***************************************************************************)

\* A file of the input directory is untouched.
InInput ==
    \A n \in Names : input[n] # NoFile =>
        /\ NameOf[input[n]] = n
        /\ writer[input[n]] # "none"
        /\ opened[input[n]] = 0
        /\ seen[input[n]] = "nothing"

InTemp ==
    \A n \in Names : temp[n] # NoFile =>
        /\ NameOf[temp[n]] = n
        /\ writer[temp[n]] # "none"
        /\ input[n] = NoFile

\* A file is untouched before it is submitted; one that is moved into the
\* input directory is never seen in part.
Producers ==
    \A f \in Files :
        /\ writer[f] = "none" => opened[f] = 0 /\ seen[f] = "nothing"
        /\ f \notin Streamed => writer[f] # "open" /\ seen[f] # "part"

Held == \A c \in Converters : Working(c) => temp[fn[c]] # NoFile

Apart ==
    \A c, d \in Converters :
        c # d /\ Working(c) /\ Working(d) => fn[c] # fn[d]

\* How far the pass of a converter over its file has got.
Passes ==
    \A c \in Converters :
        /\ pc[c] = "open" => opened[temp[fn[c]]] = 0
        /\ pc[c] \in {"read", "size"} => file[c] = temp[fn[c]]
        /\ pc[c] \notin {"read", "size"} => file[c] = NoFile
        /\ pc[c] \in {"size", "remove"} => seen[temp[fn[c]]] # "nothing"

ClaimInv ==
    /\ UniqueNames
    /\ TypeInv
    /\ InInput /\ InTemp /\ Producers
    /\ Held /\ Apart /\ Passes
    /\ AtMostOnce
    /\ NoFileLost

LEMMA InitClaimInv == UniqueNames /\ Init => ClaimInv
  <1> SUFFICES ASSUME UniqueNames, Init PROVE ClaimInv
    OBVIOUS
  <1>1. TypeInv
    BY InitTypeInv
  <1>2. InInput /\ InTemp /\ Producers
    BY DEF Init, InInput, InTemp, Producers
  <1>3. Held /\ Apart /\ Passes
    BY DEF Init, Held, Apart, Passes, Working
  <1>4. AtMostOnce /\ NoFileLost
    BY DEF Init, AtMostOnce, NoFileLost
  <1> QED BY <1>1, <1>2, <1>3, <1>4 DEF ClaimInv

\* Two files of one name are one file.
LEMMA SameName ==
  ASSUME UniqueNames, NEW f \in Files, NEW g \in Files, NameOf[f] = NameOf[g]
  PROVE  f = g
  BY DEF UniqueNames

LEMMA ProduceClaimInv ==
  ASSUME ClaimInv, NEW f \in Files, Create(f) \/ Close(f) \/ MoveIn(f)
  PROVE  ClaimInv'
  <1> USE ConvertAssumption DEF ClaimInv, TypeInv, TypeOK, MaybeFile
  <1>1. TypeInv' /\ UniqueNames'
    BY ProduceTypeInv DEF UniqueNames
  <1>2. UNCHANGED <<temp, pc, fn, file, opened, seen>>
    BY DEF Create, Close, MoveIn, proc, obs
  <1>3. \A g \in Files : writer[g] # "none" => writer'[g] # "none"
    BY DEF Create, Close, MoveIn
  <1>4. \/ input' = input /\ writer[f] = "open"
        \/ input' = [input EXCEPT ![NameOf[f]] = f] /\ writer[f] = "none"
    BY DEF Create, Close, MoveIn
  <1>5. writer'[f] # "none" /\ \A g \in Files : g # f => writer'[g] = writer[g]
    BY DEF Create, Close, MoveIn
  <1>6. writer[f] = "none" => temp[NameOf[f]] = NoFile
    BY SameName DEF InTemp
  <1>7. InInput'
    BY <1>2, <1>3, <1>4, <1>5 DEF InInput, Producers
  <1>8. InTemp'
    BY <1>2, <1>3, <1>4, <1>6 DEF InTemp
  <1>9. Producers'
    BY <1>2, <1>3, <1>5 DEF Producers, Create, Close, MoveIn
  <1>10. Held' /\ Apart' /\ Passes'
    BY <1>2 DEF Held, Apart, Passes, Working
  <1>11. AtMostOnce'
    BY <1>2 DEF AtMostOnce
  <1>12. NoFileLost'
    <2> SUFFICES ASSUME NEW g \in Files \ Streamed, writer'[g] = "closed"
                 PROVE  \/ input'[NameOf[g]] = g
                        \/ temp'[NameOf[g]] = g
                        \/ seen'[g] = "whole"
      BY DEF NoFileLost
    <2>1. CASE g = f
      BY <1>2, <1>4, <2>1 DEF Producers
    <2>2. CASE g # f
      BY <1>2, <1>4, <1>5, <2>2, SameName DEF NoFileLost
    <2> QED BY <2>1, <2>2
  <1> QED
    BY <1>1, <1>7, <1>8, <1>9, <1>10, <1>11, <1>12

LEMMA RenameClaimInv ==
  ASSUME ClaimInv, NEW c \in Converters, Rename(c), TypeInv'
  PROVE  ClaimInv'
  <1> USE ConvertAssumption DEF ClaimInv, TypeInv, TypeOK, MaybeFile, Goto
  <1> DEFINE n == fn[c]
             f == input[n]
  <1>1. n \in Names /\ f \in Files
    BY DEF Rename, Picked
  <1>2. /\ temp' = [temp EXCEPT ![n] = f]
        /\ input' = [input EXCEPT ![n] = NoFile]
        /\ pc' = [pc EXCEPT ![c] = "open"]
        /\ UNCHANGED <<writer, fn, file, opened, seen>>
    BY DEF Rename, obs
  <1>3. temp[n] = NoFile
    BY <1>1 DEF InTemp
  <1>4. NameOf[f] = n /\ writer[f] # "none" /\ opened[f] = 0
    BY <1>1 DEF InInput
  <1>5. \A d \in Converters : Working(d) => fn[d] # n
    BY <1>3 DEF Held
  <1>6. pc[c] = "claim"
    BY DEF Rename
  <1> HIDE DEF n, f
  <1>7. InInput' /\ InTemp'
    BY <1>1, <1>2, <1>4 DEF InInput, InTemp
  <1>8. Producers' /\ AtMostOnce'
    BY <1>2 DEF Producers, AtMostOnce
  <1>9. Held'
    BY <1>1, <1>2, <1>5 DEF Held, Working, n
  <1>10. Apart'
    BY <1>1, <1>2, <1>5 DEF Apart, Working, n
  <1>11. Passes'
    BY <1>1, <1>2, <1>4, <1>5, <1>6 DEF Passes, Working, n
  <1>12. NoFileLost'
    BY <1>1, <1>2, <1>3 DEF NoFileLost, f
  <1> QED
    BY <1>7, <1>8, <1>9, <1>10, <1>11, <1>12 DEF UniqueNames

LEMMA RemoveClaimInv ==
  ASSUME ClaimInv, NEW c \in Converters, Remove(c), TypeInv'
  PROVE  ClaimInv'
  <1> USE ConvertAssumption DEF ClaimInv, TypeInv, TypeOK, MaybeFile, Goto
  <1> DEFINE n == fn[c]
             f == temp[n]
  <1>1. n \in Names /\ f \in Files /\ NameOf[f] = n
    BY DEF Remove, Picked, Held, Working, InTemp
  <1>2. /\ temp' = [temp EXCEPT ![n] = NoFile]
        /\ pc' = [pc EXCEPT ![c] = "report"]
        /\ UNCHANGED <<input, writer, fn, file, opened, seen>>
    BY DEF Remove, env, obs
  <1>3. pc[c] = "remove"
    BY DEF Remove
  <1>4. seen[f] # "nothing"
    BY <1>1, <1>3 DEF Passes
  <1>5. \A d \in Converters : d # c /\ Working(d) => fn[d] # n
    BY <1>3 DEF Apart, Working
  <1> HIDE DEF n, f
  <1>6. InInput' /\ InTemp' /\ Producers' /\ AtMostOnce'
    BY <1>1, <1>2 DEF InInput, InTemp, Producers, AtMostOnce
  <1>7. Held' /\ Apart'
    BY <1>1, <1>2, <1>5 DEF Held, Apart, Working
  <1>8. Passes'
    BY <1>1, <1>2, <1>3, <1>5 DEF Passes, Working
  <1>9. NoFileLost'
    <2> SUFFICES ASSUME NEW g \in Files \ Streamed, writer[g] = "closed"
                 PROVE  \/ input[NameOf[g]] = g
                        \/ temp'[NameOf[g]] = g
                        \/ seen[g] = "whole"
      BY <1>2 DEF NoFileLost
    <2>1. CASE NameOf[g] = n
      BY <1>1, <1>4, <2>1, SameName DEF Producers
    <2>2. CASE NameOf[g] # n
      BY <1>1, <1>2, <2>2 DEF NoFileLost
    <2> QED BY <2>1, <2>2
  <1> QED
    BY <1>6, <1>7, <1>8, <1>9 DEF UniqueNames

LEMMA OpenClaimInv ==
  ASSUME ClaimInv, NEW c \in Converters, Open(c), TypeInv'
  PROVE  ClaimInv'
  <1> USE DEF ClaimInv, TypeInv, TypeOK, MaybeFile, Goto
  <1> DEFINE f == temp[fn[c]]
  <1>1. /\ file' = [file EXCEPT ![c] = f]
        /\ opened' = [g \in Files |-> IF g = f THEN opened[g] + 1 ELSE opened[g]]
        /\ pc' = [pc EXCEPT ![c] = "read"]
        /\ UNCHANGED <<input, temp, writer, fn, seen>>
    BY DEF Open, env
  <1>2. pc[c] = "open" /\ fn[c] \in Names
    BY DEF Open, Picked
  <1>3. /\ f \in Files /\ NameOf[f] = fn[c] /\ writer[f] # "none"
        /\ input[fn[c]] = NoFile /\ opened[f] = 0
    BY <1>2 DEF Held, Working, InTemp, Passes
  <1>4. \A d \in Converters : d # c /\ Working(d) => temp[fn[d]] # f
    <2> SUFFICES ASSUME NEW d \in Converters, d # c, Working(d), temp[fn[d]] = f
                 PROVE  FALSE
      OBVIOUS
    <2>1. fn[d] \in Names
      BY DEF Working, Picked
    <2>2. NameOf[f] = fn[d]
      BY <1>3, <2>1, ConvertAssumption DEF InTemp
    <2> QED BY <1>2, <1>3, <2>2 DEF Apart, Working
  <1> HIDE DEF f
  <1>5. InInput' /\ InTemp'
    BY <1>1, <1>3, ConvertAssumption DEF InInput, InTemp
  <1>6. Producers' /\ AtMostOnce'
    BY <1>1, <1>3 DEF Producers, AtMostOnce
  <1>7. Held' /\ Apart'
    BY <1>1, <1>2 DEF Held, Apart, Working
  <1>8. Passes'
    <2> SUFFICES ASSUME NEW d \in Converters
                 PROVE  /\ pc'[d] = "open" => opened'[temp[fn[d]]] = 0
                        /\ pc'[d] \in {"read", "size"} => file'[d] = temp[fn[d]]
                        /\ pc'[d] \notin {"read", "size"} => file'[d] = NoFile
                        /\ pc'[d] \in {"size", "remove"} =>
                                seen[temp[fn[d]]] # "nothing"
      BY <1>1 DEF Passes
    <2>1. CASE d = c
      BY <1>1, <2>1 DEF f
    <2>2. CASE d # c
      <3>1. pc[d] = "open" => opened'[temp[fn[d]]] = opened[temp[fn[d]]]
        BY <1>1, <1>4, <2>2 DEF Working, Held, Picked
      <3> QED BY <1>1, <2>2, <3>1 DEF Passes
    <2> QED BY <2>1, <2>2
  <1>9. NoFileLost'
    BY <1>1 DEF NoFileLost
  <1> QED
    BY <1>5, <1>6, <1>7, <1>8, <1>9 DEF UniqueNames

LEMMA ReadClaimInv ==
  ASSUME ClaimInv, NEW c \in Converters, Read(c), TypeInv'
  PROVE  ClaimInv'
  <1> USE DEF ClaimInv, TypeInv, TypeOK, MaybeFile, Goto
  <1> DEFINE f == file[c]
  <1>1. /\ seen' = [g \in Files |->
                      IF g # f THEN seen[g]
                      ELSE IF writer[g] = "closed" THEN "whole" ELSE "part"]
        /\ pc' = [pc EXCEPT ![c] = "size"]
        /\ UNCHANGED <<input, temp, writer, fn, file, opened>>
    BY DEF Read, env
  <1>2. pc[c] = "read" /\ fn[c] \in Names
    BY DEF Read, Picked
  <1>3. /\ f = temp[fn[c]] /\ f \in Files /\ NameOf[f] = fn[c]
        /\ writer[f] # "none" /\ input[fn[c]] = NoFile
    BY <1>2 DEF Passes, Held, Working, InTemp
  <1> HIDE DEF f
  <1>4. InInput' /\ InTemp'
    BY <1>1, <1>3, ConvertAssumption DEF InInput, InTemp
  <1>5. Producers' /\ AtMostOnce'
    BY <1>1, <1>3 DEF Producers, AtMostOnce
  <1>6. Held' /\ Apart'
    BY <1>1, <1>2 DEF Held, Apart, Working
  <1>7. Passes'
    BY <1>1, <1>2, <1>3 DEF Passes, Held, Working, Picked
  <1>8. NoFileLost'
    BY <1>1 DEF NoFileLost
  <1> QED
    BY <1>4, <1>5, <1>6, <1>7, <1>8 DEF UniqueNames

\* The steps that touch neither the directories nor what is known of a file:
\* all they can disturb is where the converters are.
LEMMA MoveClaimInv ==
  ASSUME ClaimInv, TypeInv', NEW c \in Converters,
         UNCHANGED <<input, temp, writer, opened, seen>>,
         \A d \in Converters : d # c =>
            pc'[d] = pc[d] /\ fn'[d] = fn[d] /\ file'[d] = file[d],
         \/ pc'[c] \notin {"open", "read", "size", "remove"} /\ file'[c] = NoFile
         \/ /\ pc[c] = "size" /\ pc'[c] = "remove"
            /\ fn'[c] = fn[c] /\ file'[c] = NoFile
         \/ pc'[c] = pc[c] /\ fn'[c] = fn[c] /\ file'[c] = file[c]
  PROVE  ClaimInv'
  <1> USE DEF ClaimInv
  <1>1. InInput' /\ InTemp' /\ Producers'
    BY DEF InInput, InTemp, Producers
  <1>2. AtMostOnce' /\ NoFileLost'
    BY DEF AtMostOnce, NoFileLost
  <1>3. \A d \in Converters : Working(d)' => Working(d) /\ fn'[d] = fn[d]
    BY DEF Working
  <1>4. Held' /\ Apart'
    BY <1>3 DEF Held, Apart
  <1>5. Passes'
    BY DEF Passes
  <1> QED
    BY <1>1, <1>2, <1>4, <1>5 DEF UniqueNames

LEMMA StepClaimInv ==
  ASSUME ClaimInv, NEW c \in Converters, Step(c)
  PROVE  ClaimInv'
  <1> USE DEF env, obs, Goto, Continue
  <1>0. TypeInv /\ TypeInv'
    BY StepTypeInv DEF ClaimInv
  <1>1. CASE Rename(c)
    BY <1>0, <1>1, RenameClaimInv
  <1>2. CASE Open(c)
    BY <1>0, <1>2, OpenClaimInv
  <1>3. CASE Read(c)
    BY <1>0, <1>3, ReadClaimInv
  <1>4. CASE Remove(c)
    BY <1>0, <1>4, RemoveClaimInv
  <1> DEFINE Moves ==
        /\ UNCHANGED <<input, temp, writer, opened, seen>>
        /\ \A d \in Converters : d # c =>
              pc'[d] = pc[d] /\ fn'[d] = fn[d] /\ file'[d] = file[d]
        /\ \/ /\ pc'[c] \notin {"open", "read", "size", "remove"}
              /\ file'[c] = NoFile
           \/ /\ pc[c] = "size" /\ pc'[c] = "remove"
              /\ fn'[c] = fn[c] /\ file'[c] = NoFile
           \/ pc'[c] = pc[c] /\ fn'[c] = fn[c] /\ file'[c] = file[c]
  <1>5. Moves => ClaimInv'
    BY <1>0, MoveClaimInv
  <1> USE DEF TypeInv, TypeOK, ClaimInv, Passes
  <1>6. CASE OpenDir(c)
    <2>1. Moves BY <1>0, <1>6 DEF OpenDir
    <2> QED BY <1>5, <2>1
  <1>7. ASSUME NEW n \in Names, Pick(c, n) PROVE ClaimInv'
    <2>1. Moves BY <1>0, <1>7 DEF Pick
    <2> QED BY <1>5, <2>1
  <1>8. ASSUME NEW n \in Names, Skip(c, n) PROVE ClaimInv'
    <2>1. Moves BY <1>0, <1>8 DEF Skip
    <2> QED BY <1>5, <2>1
  <1>9. CASE ScanEmpty(c)
    <2>1. Moves BY <1>0, <1>9 DEF ScanEmpty
    <2> QED BY <1>5, <2>1
  <1>10. CASE RenameThrows(c)
    <2>1. Moves BY <1>0, <1>10 DEF RenameThrows
    <2> QED BY <1>5, <2>1
  <1>11. CASE ReadThrows(c)
    <2>1. Moves BY <1>0, <1>11 DEF ReadThrows
    <2> QED BY <1>5, <2>1
  <1>12. CASE FileSize(c)
    <2>1. Moves BY <1>0, <1>12 DEF FileSize
    <2> QED BY <1>5, <2>1
  <1>13. CASE RemoveThrows(c)
    <2>1. Moves BY <1>0, <1>13 DEF RemoveThrows
    <2> QED BY <1>5, <2>1
  <1>14. CASE Report(c)
    <2>1. Moves BY <1>0, <1>14 DEF Report
    <2> QED BY <1>5, <2>1
  <1>15. CASE Block(c)
    <2>1. Moves BY <1>0, <1>15 DEF Block
    <2> QED BY <1>5, <2>1
  <1>16. CASE Wake(c)
    <2>1. Moves BY <1>0, <1>16 DEF Wake
    <2> QED BY <1>5, <2>1
  <1>17. CASE Stop(c)
    <2>1. Moves BY <1>0, <1>17 DEF Stop
    <2> QED BY <1>5, <2>1
  <1> QED
    BY <1>1, <1>2, <1>3, <1>4, <1>6, <1>7, <1>8, <1>9, <1>10, <1>11,
       <1>12, <1>13, <1>14, <1>15, <1>16, <1>17 DEF Step

LEMMA NextClaimInv == ClaimInv /\ [Next]_vars => ClaimInv'
  <1> SUFFICES ASSUME ClaimInv, [Next]_vars PROVE ClaimInv'
    OBVIOUS
  <1> USE DEF ClaimInv, TypeInv, TypeOK, Passes, obs, env, Goto
  <1>0. TypeInv'
    BY NextTypeInv
  <1>1. CASE Produce
    BY <1>1, ProduceClaimInv DEF Produce
  <1>2. ASSUME NEW c \in Converters, Step(c) PROVE ClaimInv'
    BY <1>2, StepClaimInv
  <1>3. ASSUME NEW c \in Converters, Signal(c) PROVE ClaimInv'
    BY <1>0, <1>3, MoveClaimInv DEF Signal
  <1>4. ASSUME NEW c \in Converters, Crash(c) PROVE ClaimInv'
    BY <1>0, <1>4, MoveClaimInv DEF Crash
  <1>5. ASSUME NEW c \in Converters, Start(c) PROVE ClaimInv'
    BY <1>0, <1>5, MoveClaimInv DEF Start
  <1>6. CASE UNCHANGED vars
    BY <1>6 DEF vars, InInput, InTemp, Producers, Held, Apart, Working,
                AtMostOnce, NoFileLost, UniqueNames, Picked
  <1> QED
    BY <1>1, <1>2, <1>3, <1>4, <1>5, <1>6 DEF Next

-----------------------------------------------------------------------------
(***************************************************************************)
(* The theorems.                                                           *)
(***************************************************************************)

\* A file open in ProcessFile() of one converter is not open in another's,
\* however many scan the directory and however they fail.
THEOREM ClaimIsExclusive == UniqueNames /\ Spec => []ExclusiveClaim
  <1>1. ClaimInv => ExclusiveClaim
    <2> SUFFICES ASSUME ClaimInv, NEW c \in Converters, NEW d \in Converters,
                        c # d, file[c] # NoFile, file[c] = file[d]
                 PROVE  FALSE
      BY DEF ExclusiveClaim
    <2>1. pc[c] \in {"read", "size"} /\ pc[d] \in {"read", "size"}
      BY DEF ClaimInv, Passes
    <2>2. temp[fn[c]] # NoFile /\ temp[fn[c]] = temp[fn[d]]
      BY <2>1 DEF ClaimInv, Passes
    <2>3. fn[c] \in Names /\ fn[d] \in Names
      BY <2>1 DEF ClaimInv, TypeInv, Picked
    <2>4. fn[c] = fn[d]
      BY <2>2, <2>3 DEF ClaimInv, InTemp
    <2> QED BY <2>1, <2>4 DEF ClaimInv, Apart, Working
  <1> QED
    BY InitClaimInv, NextClaimInv, <1>1, PTL DEF Spec

\* ProcessFile() begins no second pass over a file: one that a killed
\* converter has left in the temporary directory is not taken up again.
THEOREM ReadAtMostOnce == UniqueNames /\ Spec => []AtMostOnce
  <1>1. ClaimInv => AtMostOnce
    BY DEF ClaimInv
  <1> QED
    BY InitClaimInv, NextClaimInv, <1>1, PTL DEF Spec

\* The remove() of a converter only ever deletes a complete file it has read
\* to the end, and no rename() replaces one that has not been.
THEOREM FilesAreKept == UniqueNames /\ Spec => []NoFileLost
  <1>1. ClaimInv => NoFileLost
    BY DEF ClaimInv
  <1> QED
    BY InitClaimInv, NextClaimInv, <1>1, PTL DEF Spec

-----------------------------------------------------------------------------
(***************************************************************************)
(* The refinement: when no name is submitted twice, the file loop          *)
(* implements FileDelivery.  First, the file a converter is about to read  *)
(* has not been delivered.                                                 *)
(***************************************************************************)

\* c has claimed f and not yet come to its end.
Takes(c, f) == pc[c] \in {"open", "read"} /\ temp[fn[c]] = f

Unread == \A c \in Converters, f \in Files : Takes(c, f) => seen[f] = "nothing"

DeliveryInv == ClaimInv /\ Unread

LEMMA InitDeliveryInv == UniqueNames /\ Init => DeliveryInv
  BY InitClaimInv DEF DeliveryInv, Unread, Takes, Init

\* Whoever is inside ProcessFile() has its file in the temporary directory,
\* and the file goes by the name it was picked under.
LEMMA TakenFile ==
  ASSUME ClaimInv, NEW c \in Converters, pc[c] \in {"open", "read"}
  PROVE  /\ fn[c] \in Names
         /\ temp[fn[c]] \in Files
         /\ NameOf[temp[fn[c]]] = fn[c]
         /\ writer[temp[fn[c]]] # "none"
         /\ input[fn[c]] = NoFile
  BY DEF ClaimInv, TypeInv, TypeOK, MaybeFile, Picked, Held, Working, InTemp

\* Two converters inside ProcessFile() have two files.
LEMMA TakersApart ==
  ASSUME ClaimInv, NEW c \in Converters, NEW d \in Converters, c # d,
         pc[c] \in {"open", "read"}, pc[d] \in {"open", "read"}
  PROVE  temp[fn[c]] # temp[fn[d]] /\ fn[c] # fn[d]
  <1>1. fn[c] # fn[d]
    BY DEF ClaimInv, Apart, Working
  <1> QED BY <1>1, TakenFile

LEMMA NextDeliveryInv == DeliveryInv /\ [Next]_vars => DeliveryInv'
  <1> SUFFICES ASSUME DeliveryInv, [Next]_vars PROVE Unread'
    BY NextClaimInv DEF DeliveryInv
  <1> USE DEF DeliveryInv, Unread, Takes, Goto, Continue, env, obs
  <1>0. TypeOK /\ ClaimInv
    BY DEF ClaimInv, TypeInv
  <1>1. CASE Produce
    BY <1>1 DEF Produce, Create, Close, MoveIn, proc
  <1>2. ASSUME NEW c \in Converters, Step(c) PROVE Unread'
    <2>1. CASE Rename(c)
      <3>1. fn[c] \in Names /\ seen[input[fn[c]]] = "nothing"
        BY <1>0, <2>1 DEF Rename, ClaimInv, TypeInv, Picked, InInput
      <3>2. \A d \in Converters : d # c /\ pc[d] \in {"open", "read"} => fn[d] # fn[c]
        <4> SUFFICES ASSUME NEW d \in Converters, d # c, pc[d] \in {"open", "read"},
                            fn[d] = fn[c]
                     PROVE  FALSE
          OBVIOUS
        <4>1. input[fn[d]] = NoFile
          BY <1>0, TakenFile
        <4> QED BY <2>1, <4>1 DEF Rename
      <3> QED BY <1>0, <2>1, <3>1, <3>2 DEF Rename, TypeOK
    <2>2. CASE Read(c)
      <3>1. pc[c] = "read" /\ file[c] = temp[fn[c]]
        BY <1>0, <2>2 DEF Read, ClaimInv, Passes
      <3>2. \A d \in Converters :
                d # c /\ pc[d] \in {"open", "read"} => temp[fn[d]] # file[c]
        BY <1>0, <3>1, TakersApart
      <3> QED BY <1>0, <2>2, <3>2 DEF Read, TypeOK
    <2>3. CASE Remove(c)
      <3>1. \A d \in Converters : d # c /\ pc[d] \in {"open", "read"} => fn[d] # fn[c]
        BY <1>0, <2>3 DEF Remove, ClaimInv, Apart, Working
      <3> QED BY <1>0, <2>3, <3>1 DEF Remove, TypeOK
    <2>4. CASE Open(c)
      BY <1>0, <2>4 DEF Open, TypeOK
    <2>5. ASSUME ~(Rename(c) \/ Read(c) \/ Remove(c) \/ Open(c)) PROVE Unread'
      <3>1. UNCHANGED <<temp, seen>>
        BY <1>2, <2>5 DEF Step, OpenDir, Pick, Skip, ScanEmpty, RenameThrows,
                ReadThrows, FileSize, RemoveThrows, Report, Block, Wake, Stop
      <3>2. \A d \in Converters : pc'[d] \in {"open", "read"} =>
                pc[d] \in {"open", "read"} /\ fn'[d] = fn[d]
        BY <1>0, <1>2, <2>5 DEF Step, OpenDir, Pick, Skip, ScanEmpty, RenameThrows,
                ReadThrows, FileSize, RemoveThrows, Report, Block, Wake, Stop, TypeOK
      <3> QED BY <3>1, <3>2
    <2> QED BY <2>1, <2>2, <2>3, <2>4, <2>5
  <1>3. ASSUME NEW c \in Converters, Signal(c) PROVE Unread'
    BY <1>0, <1>3 DEF Signal, TypeOK
  <1>4. ASSUME NEW c \in Converters, Crash(c) PROVE Unread'
    BY <1>0, <1>4 DEF Crash, TypeOK
  <1>5. ASSUME NEW c \in Converters, Start(c) PROVE Unread'
    BY <1>0, <1>5 DEF Start, TypeOK
  <1>6. CASE UNCHANGED vars
    BY <1>6 DEF vars
  <1> QED
    BY <1>1, <1>2, <1>3, <1>4, <1>5, <1>6 DEF Next

-----------------------------------------------------------------------------
(***************************************************************************)
(* What FileDelivery sees of a state, in terms of whoever takes a file.    *)
(***************************************************************************)

Taken(f) == \E c \in Converters : Takes(c, f)

Seen ==
    \A f \in Files :
        /\ Status(f) =
              IF writer[f] = "none" THEN "absent"
              ELSE IF input[NameOf[f]] = f THEN "offered"
              ELSE IF seen[f] # "nothing" THEN "delivered"
              ELSE IF Taken(f) THEN "held" ELSE "stranded"
        /\ \A c \in Converters : Takes(c, f) =>
              /\ writer[f] # "none" /\ input[NameOf[f]] # f
              /\ seen[f] = "nothing"
              /\ Holder(f) = c
        /\ ~Taken(f) => Holder(f) = Nobody

LEMMA WhatIsSeen == DeliveryInv => Seen
  <1> SUFFICES ASSUME DeliveryInv, NEW f \in Files
               PROVE  /\ Status(f) =
                            IF writer[f] = "none" THEN "absent"
                            ELSE IF input[NameOf[f]] = f THEN "offered"
                            ELSE IF seen[f] # "nothing" THEN "delivered"
                            ELSE IF Taken(f) THEN "held" ELSE "stranded"
                      /\ \A c \in Converters : Takes(c, f) =>
                            /\ writer[f] # "none" /\ input[NameOf[f]] # f
                            /\ seen[f] = "nothing"
                            /\ Holder(f) = c
                      /\ ~Taken(f) => Holder(f) = Nobody
    BY DEF Seen
  <1>0. ClaimInv
    BY DEF DeliveryInv
  <1>1. \A c \in Converters : Holds(c, f) <=> Takes(c, f)
    <2>1. ASSUME NEW c \in Converters, Holds(c, f) PROVE Takes(c, f)
      <3>1. temp[fn[c]] \in Files /\ NameOf[temp[fn[c]]] = NameOf[f]
        BY <1>0, <2>1, TakenFile DEF Holds
      <3>2. temp[fn[c]] = f
        BY <1>0, <3>1 DEF ClaimInv, UniqueNames
      <3> QED BY <2>1, <3>2 DEF Holds, Takes
    <2>2. ASSUME NEW c \in Converters, Takes(c, f) PROVE Holds(c, f)
      BY <1>0, <2>2, TakenFile DEF Holds, Takes
    <2> QED BY <2>1, <2>2
  <1>2. \A c \in Converters : Takes(c, f) =>
            writer[f] # "none" /\ input[NameOf[f]] # f /\ seen[f] = "nothing"
    BY <1>0, TakenFile, ConvertAssumption DEF Takes, DeliveryInv, Unread
  <1>3. (\E c \in Converters : Holds(c, f)) <=> Taken(f)
    BY <1>1 DEF Taken
  <1>4. Status(f) =
            IF writer[f] = "none" THEN "absent"
            ELSE IF input[NameOf[f]] = f THEN "offered"
            ELSE IF seen[f] # "nothing" THEN "delivered"
            ELSE IF Taken(f) THEN "held" ELSE "stranded"
    BY <1>3 DEF Status
  <1>5. ASSUME NEW c \in Converters, Takes(c, f) PROVE Holder(f) = c
    <2>1. Status(f) = "held"
      BY <1>2, <1>4, <1>5 DEF Taken
    <2>2. \A d \in Converters : Takes(d, f) => d = c
      BY <1>0, <1>5, TakersApart DEF Takes
    <2>3. \A d \in Converters : Holds(d, f) <=> d = c
      BY <1>1, <1>5, <2>2
    <2> QED BY <2>1, <2>3 DEF Holder
  <1>6. ~Taken(f) => Holder(f) = Nobody
    BY <1>4 DEF Holder
  <1> QED BY <1>2, <1>4, <1>5, <1>6

-----------------------------------------------------------------------------
(***************************************************************************)
(* The refinement, step by step.                                           *)
(***************************************************************************)

\* What FileDelivery sees of one file is the same before and after a step.
Same(f) ==
    /\ (writer'[f] = "none") <=> (writer[f] = "none")
    /\ (input'[NameOf[f]] = f) <=> (input[NameOf[f]] = f)
    /\ (seen'[f] = "nothing") <=> (seen[f] = "nothing")
    /\ \A c \in Converters : Takes(c, f)' <=> Takes(c, f)

LEMMA SameIsSame ==
  ASSUME Seen, Seen', NEW f \in Files, Same(f)
  PROVE  Status(f)' = Status(f) /\ Holder(f)' = Holder(f)
  <1>1. Taken(f)' <=> Taken(f)
    BY DEF Taken, Same
  <1>2. Status(f)' = Status(f)
    BY <1>1 DEF Seen, Same
  <1>3. CASE Taken(f)
    <2>1. PICK c \in Converters : Takes(c, f)
      BY <1>3 DEF Taken
    <2> QED BY <1>2, <2>1 DEF Seen, Same
  <1>4. CASE ~Taken(f)
    BY <1>1, <1>2, <1>4 DEF Seen
  <1> QED BY <1>2, <1>3, <1>4

LEMMA Stutter ==
  ASSUME Seen, Seen', \A f \in Files : Same(f)
  PROVE  UNCHANGED Delivery!dvars
  <1>1. \A f \in Files : Status(f)' = Status(f) /\ Holder(f)' = Holder(f)
    BY SameIsSame
  <1> QED BY <1>1 DEF Delivery!dvars

\* One file moves on, and with it perhaps its holder.
LEMMA OneMoves ==
  ASSUME NEW f \in Files, NEW s, NEW h,
         Status(f)' = s, Holder(f)' = h,
         \A g \in Files : g # f => Status(g)' = Status(g) /\ Holder(g)' = Holder(g)
  PROVE  /\ [g \in Files |-> Status(g)]'
               = [[g \in Files |-> Status(g)] EXCEPT ![f] = s]
         /\ [g \in Files |-> Holder(g)]'
               = [[g \in Files |-> Holder(g)] EXCEPT ![f] = h]
  OBVIOUS

LEMMA OfferStep ==
  ASSUME DeliveryInv, Seen, Seen', NEW f \in Files, Create(f) \/ MoveIn(f)
  PROVE  Delivery!Offer(f)
  <1> USE DEF proc, obs
  <1>0. TypeOK /\ ClaimInv
    BY DEF DeliveryInv, ClaimInv, TypeInv
  <1>1. /\ writer[f] = "none" /\ writer'[f] # "none"
        /\ input'[NameOf[f]] = f
        /\ \A g \in Files : g # f =>
              /\ writer'[g] = writer[g]
              /\ input'[NameOf[g]] = input[NameOf[g]]
        /\ UNCHANGED <<temp, pc, fn, seen>>
    BY <1>0, ConvertAssumption DEF Create, MoveIn, TypeOK, ClaimInv, UniqueNames
  <1>2. \A c \in Converters, g \in Files : Takes(c, g)' <=> Takes(c, g)
    BY <1>1 DEF Takes
  <1>3. \A g \in Files : g # f => Same(g)
    BY <1>1, <1>2 DEF Same
  <1>4. \A g \in Files : g # f => Status(g)' = Status(g) /\ Holder(g)' = Holder(g)
    BY <1>3, SameIsSame
  <1>5. ~Taken(f) /\ ~Taken(f)'
    BY <1>1, <1>2 DEF Taken, Seen
  <1>6. Status(f) = "absent" /\ Status(f)' = "offered"
    BY <1>1 DEF Seen
  <1>7. Holder(f)' = Holder(f)
    BY <1>5 DEF Seen
  <1>8. /\ [g \in Files |-> Status(g)]'
              = [[g \in Files |-> Status(g)] EXCEPT ![f] = "offered"]
        /\ [g \in Files |-> Holder(g)]' = [g \in Files |-> Holder(g)]
    BY <1>4, <1>6, <1>7
  <1> QED BY <1>6, <1>8 DEF Delivery!Offer, Delivery!Move

LEMMA ClaimStep ==
  ASSUME DeliveryInv, Seen, Seen', NEW c \in Converters, Rename(c)
  PROVE  \E f \in Files : Delivery!Claim(c, f)
  <1> USE DEF Goto
  <1>0. TypeOK /\ ClaimInv
    BY DEF DeliveryInv, ClaimInv, TypeInv
  <1>a. fn[c] \in Names /\ input[fn[c]] \in Files /\ NameOf[input[fn[c]]] = fn[c]
    BY <1>0 DEF Rename, ClaimInv, TypeInv, Picked, TypeOK, MaybeFile, InInput
  <1>b. PICK f \in Files : f = input[fn[c]]
    BY <1>a
  <1>1. /\ pc[c] = "claim" /\ fn[c] \in Names /\ f \in Files
        /\ f = input[fn[c]] /\ NameOf[f] = fn[c] /\ f # NoFile
    BY <1>a, <1>b DEF Rename
  <1>2. /\ temp' = [temp EXCEPT ![fn[c]] = f]
        /\ input' = [input EXCEPT ![fn[c]] = NoFile]
        /\ pc' = [pc EXCEPT ![c] = "open"]
        /\ UNCHANGED <<writer, fn, seen>>
    BY <1>1 DEF Rename, obs
  <1>3. \A d \in Converters : pc[d] \in {"open", "read"} => d # c /\ fn[d] # fn[c]
    BY <1>0, <1>1, TakenFile
  <1>4. Takes(c, f)' /\ Status(f) = "offered"
    BY <1>0, <1>1, <1>2 DEF Takes, TypeOK, Seen, ClaimInv, InInput
  <1>5. \A d \in Converters, g \in Files : g # f => (Takes(d, g)' <=> Takes(d, g))
    BY <1>0, <1>1, <1>2, <1>3 DEF Takes, TypeOK
  <1>6. \A g \in Files : g # f => Same(g)
    <2> SUFFICES ASSUME NEW g \in Files, g # f
                 PROVE  (input'[NameOf[g]] = g) <=> (input[NameOf[g]] = g)
      BY <1>2, <1>5 DEF Same
    <2>1. NameOf[g] # fn[c] /\ NameOf[g] \in Names
      BY <1>0, <1>1, ConvertAssumption DEF ClaimInv, UniqueNames
    <2> QED BY <1>0, <1>2, <2>1 DEF TypeOK
  <1>7. \A g \in Files : g # f => Status(g)' = Status(g) /\ Holder(g)' = Holder(g)
    BY <1>6, SameIsSame
  <1>8. Holder(f)' = c /\ Status(f)' = "held"
    BY <1>1, <1>4 DEF Seen, Taken
  <1>9. \A g \in Files : Holder(g) # c
    <2> SUFFICES ASSUME NEW g \in Files, Holder(g) = c PROVE FALSE
      OBVIOUS
    <2>1. Taken(g)
      BY NobodyAssumption DEF Seen
    <2>2. PICK d \in Converters : Takes(d, g)
      BY <2>1 DEF Taken
    <2> QED BY <1>3, <2>2 DEF Seen, Takes
  <1>10. Delivery!Claim(c, f)
    BY <1>1, <1>4, <1>7, <1>8, <1>9, OneMoves DEF Delivery!Claim, Delivery!Move
  <1> QED BY <1>1, <1>10

\* A converter comes to the end of its file, or fails on it: what the holder
\* gives up is delivered or stranded.
LEMMA GiveUp ==
  ASSUME DeliveryInv, Seen, Seen', NEW c \in Converters, pc[c] \in {"open", "read"},
         UNCHANGED <<input, temp, writer>>,
         pc'[c] \notin {"open", "read"},
         \A d \in Converters : d # c => pc'[d] = pc[d] /\ fn'[d] = fn[d],
         \A g \in Files : g # temp[fn[c]] => seen'[g] = seen[g]
  PROVE  \E f \in Files :
            /\ f = temp[fn[c]]
            /\ seen'[f] # "nothing" => Delivery!Deliver(c, f)
            /\ seen'[f] = "nothing" => Delivery!Strand(c, f)
  <1>0. ClaimInv
    BY DEF DeliveryInv
  <1>1. PICK f \in Files : f = temp[fn[c]]
    BY <1>0, TakenFile
  <1>2. \A d \in Converters : Takes(d, f) <=> d = c
    BY <1>0, <1>1, TakersApart DEF Takes
  <1>3. \A d \in Converters, g \in Files : g # f => (Takes(d, g)' <=> Takes(d, g))
    BY <1>1 DEF Takes
  <1>4. ~Taken(f)'
    <2> SUFFICES ASSUME NEW d \in Converters, Takes(d, f)' PROVE FALSE
      BY DEF Taken
    <2>1. d # c
      BY DEF Takes
    <2> QED BY <1>2, <2>1 DEF Takes
  <1>5. /\ Status(f) = "held" /\ Holder(f) = c
        /\ Holder(f)' = Nobody
        /\ seen'[f] # "nothing" => Status(f)' = "delivered"
        /\ seen'[f] = "nothing" => Status(f)' = "stranded"
    BY <1>1, <1>2, <1>4 DEF Seen, Taken
  <1>6. \A g \in Files : g # f => Same(g)
    BY <1>1, <1>3 DEF Same
  <1>7. \A g \in Files : g # f => Status(g)' = Status(g) /\ Holder(g)' = Holder(g)
    BY <1>6, SameIsSame
  <1>8. CASE seen'[f] # "nothing"
    <2>1. Delivery!Deliver(c, f)
      BY <1>1, <1>5, <1>7, <1>8, OneMoves DEF Delivery!Deliver, Delivery!Move
    <2> QED BY <1>1, <1>8, <2>1
  <1>9. CASE seen'[f] = "nothing"
    <2>1. Delivery!Strand(c, f)
      BY <1>1, <1>5, <1>7, <1>9, OneMoves DEF Delivery!Strand, Delivery!Move
    <2> QED BY <1>1, <1>9, <2>1
  <1> QED BY <1>8, <1>9

\* The steps that neither take a file nor give one up.
LEMMA Elsewhere ==
  ASSUME DeliveryInv, Seen, Seen', UNCHANGED <<input, seen>>,
         \A f \in Files : (writer'[f] = "none") <=> (writer[f] = "none"),
         \A c \in Converters :
            /\ (pc'[c] \in {"open", "read"}) <=> (pc[c] \in {"open", "read"})
            /\ pc[c] \in {"open", "read"} =>
                  fn'[c] = fn[c] /\ temp'[fn[c]] = temp[fn[c]]
  PROVE  UNCHANGED Delivery!dvars
  <1>1. \A c \in Converters, f \in Files : Takes(c, f)' <=> Takes(c, f)
    BY DEF Takes
  <1>2. \A f \in Files : Same(f)
    BY <1>1 DEF Same
  <1> QED BY <1>2, Stutter

\* A step FileDelivery allows.
Abstracted == Delivery!DeliveryNext \/ UNCHANGED Delivery!dvars

LEMMA StepDelivery ==
  ASSUME DeliveryInv, Seen, Seen', NEW c \in Converters, Step(c)
  PROVE  Abstracted
  <1> USE DEF Goto, Continue, env, obs
  <1>0. TypeOK /\ ClaimInv
    BY DEF DeliveryInv, ClaimInv, TypeInv
  <1>1. CASE Rename(c)
    BY <1>1, ClaimStep DEF Abstracted, Delivery!DeliveryNext
  <1>2. CASE Read(c)
    <2>1. /\ pc[c] = "read" /\ file[c] = temp[fn[c]]
          /\ pc'[c] = "size"
          /\ UNCHANGED <<input, temp, writer, fn>>
          /\ \A d \in Converters : d # c => pc'[d] = pc[d]
          /\ \A g \in Files : g # temp[fn[c]] => seen'[g] = seen[g]
      BY <1>0, <1>2 DEF Read, ClaimInv, Passes, TypeOK
    <2>2. \E f \in Files : Delivery!Deliver(c, f) \/ Delivery!Strand(c, f)
      BY <2>1, GiveUp
    <2> QED BY <2>2 DEF Abstracted, Delivery!DeliveryNext
  <1>3. CASE ReadThrows(c)
    <2>1. /\ pc[c] = "read" /\ pc'[c] = "report"
          /\ UNCHANGED <<input, temp, writer, fn, seen>>
          /\ \A d \in Converters : d # c => pc'[d] = pc[d]
      BY <1>0, <1>3 DEF ReadThrows, TypeOK
    <2>2. \E f \in Files : Delivery!Deliver(c, f) \/ Delivery!Strand(c, f)
      BY <2>1, GiveUp
    <2> QED BY <2>2 DEF Abstracted, Delivery!DeliveryNext
  <1>4. CASE Remove(c)
    <2>1. /\ pc[c] = "remove" /\ pc'[c] = "report"
          /\ UNCHANGED <<input, writer, fn, seen>>
          /\ \A d \in Converters : d # c => pc'[d] = pc[d]
          /\ temp' = [temp EXCEPT ![fn[c]] = NoFile]
      BY <1>0, <1>4 DEF Remove, TypeOK
    <2>2. \A d \in Converters : pc[d] \in {"open", "read"} =>
              fn[d] # fn[c] /\ fn[d] \in Names
      BY <1>0, <2>1, TakenFile DEF ClaimInv, Apart, Working
    <2>3. \A d \in Converters : pc[d] \in {"open", "read"} => temp'[fn[d]] = temp[fn[d]]
      BY <1>0, <2>1, <2>2 DEF TypeOK
    <2>4. UNCHANGED Delivery!dvars
      BY <2>1, <2>3, Elsewhere
    <2> QED BY <2>4 DEF Abstracted
  <1>5. ASSUME ~(Rename(c) \/ Read(c) \/ ReadThrows(c) \/ Remove(c)) PROVE Abstracted
    <2>1. UNCHANGED <<input, temp, writer, seen>>
      BY <1>5 DEF Step, OpenDir, Pick, Skip, ScanEmpty, RenameThrows, Open,
              FileSize, RemoveThrows, Report, Block, Wake, Stop
    <2>2. \A d \in Converters :
              /\ (pc'[d] \in {"open", "read"}) <=> (pc[d] \in {"open", "read"})
              /\ pc[d] \in {"open", "read"} => fn'[d] = fn[d]
      BY <1>0, <1>5 DEF Step, OpenDir, Pick, Skip, ScanEmpty, RenameThrows, Open,
              FileSize, RemoveThrows, Report, Block, Wake, Stop, TypeOK
    <2>3. UNCHANGED Delivery!dvars
      BY <2>1, <2>2, Elsewhere
    <2> QED BY <2>3 DEF Abstracted, Delivery!DeliveryNext
  <1> QED BY <1>1, <1>2, <1>3, <1>4, <1>5

LEMMA NextDelivery ==
  ASSUME DeliveryInv, Seen, Seen', [Next]_vars
  PROVE  Abstracted
  <1> USE DEF Goto, env, obs
  <1>0. TypeOK /\ ClaimInv
    BY DEF DeliveryInv, ClaimInv, TypeInv
  <1>1. ASSUME NEW f \in Files, Create(f) \/ MoveIn(f) PROVE Abstracted
    BY <1>1, OfferStep DEF Abstracted, Delivery!DeliveryNext
  <1>2. ASSUME NEW f \in Files, Close(f) PROVE Abstracted
    <2>1. /\ UNCHANGED <<input, temp, pc, fn, seen>>
          /\ \A g \in Files : (writer'[g] = "none") <=> (writer[g] = "none")
      BY <1>0, <1>2 DEF Close, TypeOK, proc
    <2>2. UNCHANGED Delivery!dvars
      BY <2>1, Elsewhere
    <2> QED BY <2>2 DEF Abstracted, Delivery!DeliveryNext
  <1>3. ASSUME NEW c \in Converters, Step(c) PROVE Abstracted
    BY <1>3, StepDelivery
  <1>4. ASSUME NEW c \in Converters, Crash(c) PROVE Abstracted
    <2>1. /\ pc'[c] = "down"
          /\ UNCHANGED <<input, temp, writer, seen>>
          /\ \A d \in Converters : d # c => pc'[d] = pc[d] /\ fn'[d] = fn[d]
      BY <1>0, <1>4 DEF Crash, TypeOK
    <2>2. CASE pc[c] \in {"open", "read"}
      <3>1. \E f \in Files : Delivery!Deliver(c, f) \/ Delivery!Strand(c, f)
        BY <2>1, <2>2, GiveUp
      <3> QED BY <3>1 DEF Abstracted, Delivery!DeliveryNext
    <2>3. CASE pc[c] \notin {"open", "read"}
      <3>1. UNCHANGED Delivery!dvars
        BY <2>1, <2>3, Elsewhere
      <3> QED BY <3>1 DEF Abstracted, Delivery!DeliveryNext
    <2> QED BY <2>2, <2>3
  <1>5. ASSUME NEW c \in Converters, Signal(c) \/ Start(c) PROVE Abstracted
    <2>1. /\ UNCHANGED <<input, temp, writer, fn, seen>>
          /\ \A d \in Converters :
                (pc'[d] \in {"open", "read"}) <=> (pc[d] \in {"open", "read"})
      BY <1>0, <1>5 DEF Signal, Start, TypeOK
    <2>2. UNCHANGED Delivery!dvars
      BY <2>1, Elsewhere
    <2> QED BY <2>2 DEF Abstracted, Delivery!DeliveryNext
  <1>6. CASE UNCHANGED vars
    <2>1. UNCHANGED Delivery!dvars
      BY <1>6, Elsewhere DEF vars
    <2> QED BY <2>1 DEF Abstracted, Delivery!DeliveryNext
  <1> QED
    BY <1>1, <1>2, <1>3, <1>4, <1>5, <1>6 DEF Next, Produce

LEMMA InitDelivery == Init => Delivery!DeliveryInit
  <1> SUFFICES ASSUME Init PROVE Delivery!DeliveryInit
    OBVIOUS
  <1>1. \A f \in Files : writer[f] = "none"
    BY DEF Init
  <1>2. \A f \in Files : Status(f) = "absent"
    BY <1>1 DEF Status
  <1>3. \A f \in Files : Holder(f) = Nobody
    BY <1>2 DEF Holder
  <1> QED BY <1>2, <1>3 DEF Delivery!DeliveryInit

-----------------------------------------------------------------------------

\* With distinct names, whatever the converters, the producers, the signals and
\* the failures do to the two directories, a file is taken by one converter,
\* delivered by that one and at most once, and stranded for good if it fails.
THEOREM DeliveryIsImplemented == UniqueNames /\ Spec => ImplementsDelivery
  <1>1. DeliveryInv /\ DeliveryInv' /\ [Next]_vars
            => [Delivery!DeliveryNext]_(Delivery!dvars)
    <2>1. SUFFICES ASSUME DeliveryInv, DeliveryInv', [Next]_vars
                   PROVE  [Delivery!DeliveryNext]_(Delivery!dvars)
      OBVIOUS
    <2>2. Seen
      BY <2>1, WhatIsSeen
    <2>3. Seen'
      BY <2>1, WhatIsSeen, PTL
    <2>4. Abstracted
      BY <2>1, <2>2, <2>3, NextDelivery
    <2> QED BY <2>4 DEF Abstracted
  <1> QED
    BY InitDeliveryInv, NextDeliveryInv, InitDelivery, <1>1, PTL
       DEF Spec, ImplementsDelivery, Delivery!DeliverySpec

=============================================================================
