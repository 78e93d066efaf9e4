---------------------------- MODULE InflateProofs ----------------------------
(***************************************************************************)
(* Theorems about Inflate: the buffer is never overrun, whatever the       *)
(* bodies, the sizes and the memory are.                                   *)
(***************************************************************************)
EXTENDS Inflate, TLAPS

-----------------------------------------------------------------------------
(***************************************************************************)
(* Remainders.  avail_out and mInflateLength are sizes modulo 2^32.        *)
(***************************************************************************)

LEMMA ModRange ==
  ASSUME NEW a \in Int, NEW w \in Nat \ {0}
  PROVE  a % w \in 0 .. w - 1
  OBVIOUS

LEMMA ModSmall ==
  ASSUME NEW w \in Nat \ {0}, NEW a \in 0 .. w - 1
  PROVE  a % w = a
  OBVIOUS

LEMMA ModAtMost ==
  ASSUME NEW a \in Nat, NEW w \in Nat \ {0}
  PROVE  a % w <= a
  OBVIOUS

LEMMA ModSplit ==
  ASSUME NEW a \in Int, NEW w \in Nat \ {0}
  PROVE  a \div w \in Int /\ a = w * (a \div w) + (a % w)
  OBVIOUS

LEMMA ModUnique ==
  ASSUME NEW w \in Nat \ {0}, NEW q \in Int, NEW x \in 0 .. w - 1
  PROVE  (w * q + x) % w = x
  <1> DEFINE b == w * q + x
             d == b \div w
  <1>1. b \in Int /\ d \in Int /\ b = w * d + (b % w) /\ b % w \in 0 .. w - 1
    BY ModSplit, ModRange
  <1>2. w * q - w * d = w * (q - d)
    BY <1>1
  <1>3. CASE q - d >= 1
    <2>1. w * (q - d) >= w
      BY <1>1, <1>3
    <2> QED BY <1>1, <1>2, <2>1
  <1>4. CASE q - d <= -1
    <2>1. w * (q - d) <= -w
      BY <1>1, <1>4
    <2> QED BY <1>1, <1>2, <2>1
  <1>5. CASE q = d
    BY <1>1, <1>5
  <1> QED BY <1>1, <1>3, <1>4, <1>5

LEMMA ModBack ==
  ASSUME NEW w \in Nat \ {0}, NEW s \in Int, NEW f \in Int, NEW x \in 0 .. w - 1,
         NEW r \in Int, r = ((s - f) % w) - (x - f)
  PROVE  (s - r) % w = x
  <1> DEFINE q == (s - f) \div w
  <1>1. q \in Int /\ s - f = w * q + ((s - f) % w) /\ (s - f) % w \in Int
    BY ModSplit, ModRange
  <1>2. s - r = w * q + x
    BY <1>1
  <1> QED BY <1>1, <1>2, ModUnique

LEMMA ModKeep ==
  ASSUME NEW w \in Nat \ {0}, NEW s \in Int, NEW f \in Int, NEW r \in Int,
         r = (s - f) % w, f + r \in 0 .. w - 1
  PROVE  s % w = f + r
  <1> DEFINE q == (s - f) \div w
  <1>1. q \in Int /\ s - f = w * q + r
    BY ModSplit
  <1>2. s = w * q + (f + r)
    BY <1>1
  <1> QED BY <1>1, <1>2, ModUnique

-----------------------------------------------------------------------------
(***************************************************************************)
(* The invariant.  As long as bodies are shorter than 2 GiB the length and *)
(* the room that are kept modulo 2^32 are those of the body: what has been *)
(* written is in the buffer, and the room is what is behind it, or less.   *)
(***************************************************************************)

Consistent ==
    /\ 2 * length < Wrap
    /\ filled <= length
    /\ filled <= size
    /\ pc = "inflate" => room = (size - filled) % Wrap

Delivered ==
    /\ pc = "finish" /\ ret = "Z_STREAM_END" => ending = "complete" /\ filled = length
    /\ pc # "idle" => text = 0
    /\ text # 0 => ending = "complete" /\ text = length + 1
    /\ text <= size

BufferInv == TypeOK /\ Consistent /\ Delivered

LEMMA InitBufferInv == Init => BufferInv
  BY InflateAssumption DEF Init, BufferInv, TypeOK, Consistent, Delivered, Ending

LEMMA BeginBufferInv == BufferInv /\ Begin => BufferInv'
  <1> SUFFICES ASSUME BufferInv, Begin PROVE BufferInv'
    OBVIOUS
  <1>1. length' \in Nat /\ 2 * length' < Wrap /\ ending' \in Ending /\ Wrap \in Nat \ {0}
    BY InflateAssumption DEF Begin
  <1>2. size \in Nat \ {0} /\ size % Wrap \in 0 .. Wrap - 1
    BY <1>1, ModRange DEF BufferInv, TypeOK
  <1>3. needed' \in Nat
    BY <1>1, InflateAssumption DEF BufferInv, TypeOK, Begin, Need
  <1>4. /\ pc' = "inflate" /\ ret' = "Z_OK" /\ text' = 0 /\ filled' = 0
        /\ size' = size /\ room' = size % Wrap
    BY DEF Begin
  <1>5. size - 0 = size
    BY <1>2
  <1>6. room' = (size' - filled') % Wrap
    BY <1>4, <1>5
  <1>7. TypeOK'
    BY <1>1, <1>2, <1>3, <1>4 DEF TypeOK
  <1>8. Consistent'
    <2>1. filled' = 0 /\ length' \in Nat /\ size' \in Nat
      BY <1>1, <1>2, <1>4, Zenon
    <2>2. filled' <= length' /\ filled' <= size'
      BY <2>1
    <2> QED BY <1>1, <1>6, <2>2, Zenon DEF Consistent
  <1>9. Delivered'
    BY <1>2, <1>4 DEF Delivered
  <1> QED BY <1>7, <1>8, <1>9 DEF BufferInv

LEMMA CallBufferInv == BufferInv /\ CallInflate => BufferInv'
  <1> SUFFICES ASSUME BufferInv, CallInflate PROVE BufferInv'
    OBVIOUS
  <1>t. /\ size \in Nat \ {0} /\ length \in Nat /\ filled \in Nat /\ room \in Nat
        /\ Wrap \in Nat \ {0} /\ length < Wrap /\ filled <= length /\ filled <= size
        /\ room = (size - filled) % Wrap /\ room < Wrap /\ ending \in Ending
    BY InflateAssumption DEF BufferInv, TypeOK, Consistent, CallInflate
  <1>r. room <= size - filled
    BY <1>t, ModAtMost
  <1>u. /\ 2 * length' < Wrap /\ length' = length /\ ending' = ending /\ size' = size
        /\ text' = text /\ text = 0 /\ needed' = needed /\ needed \in Nat
    BY DEF BufferInv, TypeOK, Consistent, Delivered, CallInflate
  <1>1. CASE Left <= room
    <2>1. room' = room - (length - filled) /\ room' \in 0 .. Wrap - 1
      BY <1>1, <1>t DEF CallInflate, Left
    <2>2. (size - room') % Wrap = length
      BY <1>t, <2>1, ModBack
    <2>3. filled' = length /\ length <= size
      BY <1>1, <1>t, <1>r, <2>2 DEF CallInflate, Left
    <2>4. /\ ret' \in {"Z_BUF_ERROR", "Z_STREAM_END", "Z_DATA_ERROR"}
          /\ ret' = "Z_STREAM_END" => ending = "complete"
          /\ pc' \in {"grow", "finish"}
      BY <1>1, <1>t DEF CallInflate, Ending, Left
    <2> QED
      BY <1>t, <1>u, <2>1, <2>3, <2>4 DEF BufferInv, TypeOK, Consistent, Delivered
  <1>2. CASE Left > room
    <2>1. room' = 0 /\ ret' = "Z_BUF_ERROR" /\ pc' = "grow"
      BY <1>2, <1>t DEF CallInflate, Left
    <2>2. filled + room \in 0 .. Wrap - 1 /\ filled + room <= length
      BY <1>2, <1>t DEF Left
    <2>3. (size - 0) % Wrap = filled + room
      <3>1. /\ Wrap \in Nat \ {0} /\ size \in Int /\ filled \in Int /\ room \in Int
            /\ room = (size - filled) % Wrap
        BY <1>t
      <3>2. size % Wrap = filled + room
        BY <3>1, <2>2, ModKeep, ZenonT(40)
      <3>3. size - 0 = size
        BY <1>t
      <3> QED BY <3>2, <3>3
    <2>4. filled' = filled + room
      BY <2>1, <2>3 DEF CallInflate
    <2>5. TypeOK'
      BY <1>t, <1>u, <2>1, <2>2, <2>4 DEF TypeOK
    <2>6. Consistent'
      BY <1>t, <1>r, <1>u, <2>1, <2>2, <2>4 DEF Consistent
    <2>7. Delivered'
      BY <1>t, <1>u, <2>1 DEF Delivered
    <2> QED BY <2>5, <2>6, <2>7 DEF BufferInv
  <1> QED BY <1>1, <1>2, <1>t DEF Left

LEMMA NextBufferInv == BufferInv /\ [Next]_vars => BufferInv'
  <1> SUFFICES ASSUME BufferInv, [Next]_vars PROVE BufferInv'
    OBVIOUS
  <1>1. CASE Begin
    BY <1>1, BeginBufferInv
  <1>2. CASE CallInflate
    BY <1>2, CallBufferInv
  <1>3. CASE Grow
    <2>1. 2 * size - filled \in Int /\ Wrap \in Nat \ {0}
      BY InflateAssumption DEF BufferInv, TypeOK
    <2>2. room' \in 0 .. Wrap - 1
      BY <1>3, <2>1, ModRange DEF Grow
    <2> QED BY <1>3, <2>2 DEF Grow, BufferInv, TypeOK, Consistent, Delivered
  <1>4. CASE Finish
    BY <1>4 DEF Finish, BufferInv, TypeOK, Consistent, Delivered
  <1>5. CASE NewThrows
    BY <1>5 DEF NewThrows, BufferInv, TypeOK, Consistent, Delivered
  <1>6. CASE NextFile
    BY <1>6 DEF NextFile, BufferInv, TypeOK, Consistent, Delivered
  <1>7. CASE UNCHANGED vars
    BY <1>7 DEF vars, BufferInv, TypeOK, Consistent, Delivered
  <1> QED
    BY <1>1, <1>2, <1>3, <1>4, <1>5, <1>6, <1>7 DEF Next

\* zlib is never told of more room than the buffer has, although the buffer
\* may be larger than avail_out can say, and the text and its null lie inside.
THEOREM BufferHolds == Spec => []InBuffer
  <1>1. BufferInv => InBuffer
    <2> SUFFICES ASSUME BufferInv PROVE InBuffer
      OBVIOUS
    <2>1. pc = "inflate" => room <= size - filled
      BY ModAtMost, InflateAssumption DEF BufferInv, TypeOK, Consistent
    <2> QED BY <2>1 DEF InBuffer, BufferInv, TypeOK, Delivered
  <1> QED
    BY InitBufferInv, NextBufferInv, <1>1, PTL DEF Spec

\* The parser gets all of a complete body, however often the buffer has grown
\* under it, and nothing of any other.
THEOREM TextIsWhole == Spec => []WholeOrNothing
  <1>1. BufferInv => WholeOrNothing
    BY DEF BufferInv, Delivered, WholeOrNothing
  <1> QED
    BY InitBufferInv, NextBufferInv, <1>1, PTL DEF Spec

-----------------------------------------------------------------------------
(***************************************************************************)
(* How large the buffer gets.  It is grown only if the body is truncated,  *)
(* or longer than what avail_out could offer of the buffer.  As long as no *)
(* truncated body has come, the buffer is below 4 GiB, and that is all of  *)
(* it.                                                                     *)
(***************************************************************************)

\* The buffer is asked to hold more than there is memory for.
Exhausted == needed >= Memory

Sized ==
    /\ ~Exhausted => 2 * needed < Wrap
    /\ pc # "idle" /\ ~Exhausted => ending # "truncated" /\ length <= needed
    /\ pc = "grow" /\ ending # "truncated" => size % Wrap < length

SizeInv == BufferInv /\ Sized /\ BoundedBuffer /\ ThrowsForCause

LEMMA InitSizeInv == Init => SizeInv
  BY InitBufferInv, InflateAssumption
     DEF Init, SizeInv, Sized, BoundedBuffer, ThrowsForCause

LEMMA BeginSizeInv == SizeInv /\ Begin => SizeInv'
  <1> SUFFICES ASSUME SizeInv, Begin PROVE Sized' /\ BoundedBuffer' /\ ThrowsForCause'
    BY BeginBufferInv DEF SizeInv
  <1>1. /\ needed \in Nat /\ size \in Nat /\ Memory \in Nat /\ Wrap \in Nat
        /\ kMaxTelemetryData \in Nat
    BY InflateAssumption DEF SizeInv, BufferInv, TypeOK
  <1>2. /\ length' \in Nat /\ 2 * length' < Wrap
        /\ pc' = "inflate" /\ size' = size
    BY InflateAssumption DEF Begin
  <1>3. /\ needed' \in Nat /\ needed' >= needed
        /\ needed' = needed \/ needed' = Need(length', ending')
        /\ needed' >= Need(length', ending')
    BY <1>1, <1>2 DEF Begin, Need
  <1>4. ~Exhausted' => 2 * needed' < Wrap
    BY <1>1, <1>2, <1>3 DEF Exhausted, Need, SizeInv, Sized
  <1>5. ~Exhausted' => ending' # "truncated" /\ length' <= needed'
    BY <1>1, <1>2, <1>3 DEF Exhausted, Need
  <1>6. Sized'
    BY <1>2, <1>4, <1>5 DEF Sized
  <1>7. BoundedBuffer'
    <2>1. size <= kMaxTelemetryData \/ size <= 2 * needed
      BY DEF SizeInv, BoundedBuffer
    <2>2. needed' \in Nat /\ needed' >= needed /\ size' = size
      BY <1>2, <1>3
    <2>3. \A s, k, m, n \in Nat : n >= m /\ (s <= k \/ s <= 2 * m) => s <= k \/ s <= 2 * n
      OBVIOUS
    <2>4. size <= kMaxTelemetryData \/ size <= 2 * needed'
      BY <1>1, <2>1, <2>2, <2>3
    <2> QED BY <2>2, <2>4 DEF BoundedBuffer
  <1> QED BY <1>2, <1>6, <1>7 DEF ThrowsForCause

\* A complete or corrupt body is only cut off by the end of the buffer.
LEMMA CallSizeInv == SizeInv /\ CallInflate => SizeInv'
  <1> SUFFICES ASSUME SizeInv, CallInflate PROVE Sized' /\ BoundedBuffer' /\ ThrowsForCause'
    BY CallBufferInv DEF SizeInv
  <1>1. /\ size \in Nat \ {0} /\ length \in Nat /\ filled \in Nat /\ room \in Nat
        /\ Wrap \in Nat \ {0} /\ needed \in Nat /\ Memory \in Nat
        /\ filled <= size /\ filled <= length /\ length < Wrap
        /\ room = (size - filled) % Wrap /\ ending \in Ending
        /\ kMaxTelemetryData \in Nat /\ kMaxTelemetryData < Wrap
    BY InflateAssumption DEF SizeInv, BufferInv, TypeOK, Consistent, CallInflate
  <1>2. UNCHANGED <<length, ending, size, needed>> /\ pc' \in {"grow", "finish"}
    BY DEF CallInflate
  <1>3. ASSUME pc' = "grow", ending # "truncated" PROVE size % Wrap < length
    <2>1. Left > room
      BY <1>1, <1>3 DEF CallInflate, Left, Ending
    <2>2. filled + room < length /\ filled + room \in 0 .. Wrap - 1
      BY <1>1, <2>1 DEF Left
    <2>3. /\ Wrap \in Nat \ {0} /\ size \in Int /\ filled \in Int /\ room \in Int
          /\ room = (size - filled) % Wrap
      BY <1>1
    <2>4. size % Wrap = filled + room
      BY ONLY <2>2, <2>3, ModKeep
    <2> QED BY <2>2, <2>4
  <1>4. Sized'
    BY <1>2, <1>3 DEF Sized, SizeInv, Exhausted, CallInflate
  <1> QED BY <1>2, <1>4 DEF BoundedBuffer, ThrowsForCause, SizeInv

LEMMA NextSizeInv == SizeInv /\ [Next]_vars => SizeInv'
  <1> SUFFICES ASSUME SizeInv, [Next]_vars PROVE SizeInv'
    OBVIOUS
  <1> USE DEF SizeInv, Sized, BoundedBuffer, ThrowsForCause, Exhausted
  <1>0. BufferInv'
    BY NextBufferInv
  <1>t. /\ size \in Nat \ {0} /\ length \in Nat /\ filled \in Nat /\ needed \in Nat
        /\ Memory \in Nat /\ kMaxTelemetryData \in Nat
    BY InflateAssumption DEF BufferInv, TypeOK
  <1>1. CASE Begin
    BY <1>1, BeginSizeInv
  <1>2. CASE CallInflate
    BY <1>2, CallSizeInv
  <1>3. CASE Grow
    <2>1. ASSUME ~Exhausted PROVE size < length /\ length <= needed
      <3>1. ending # "truncated" /\ length <= needed /\ size % Wrap < length
        BY <1>3, <2>1 DEF Grow
      <3>2. size \in 0 .. Wrap - 1 /\ Wrap \in Nat \ {0}
        BY <1>t, <2>1, InflateAssumption
      <3> QED BY <3>1, <3>2, ModSmall
    <2>2. Sized'
      BY <1>3 DEF Grow
    <2>3. BoundedBuffer' /\ ThrowsForCause'
      BY <1>t, <1>3, <2>1 DEF Grow
    <2> QED BY <1>0, <2>2, <2>3
  <1>4. CASE Finish
    <2>1. ret = "Z_STREAM_END" => filled = length
      BY <1>4 DEF Finish, BufferInv, Delivered
    <2> QED BY <1>0, <1>t, <1>4, <2>1 DEF Finish, BufferInv, Consistent
  <1>5. CASE NewThrows
    <2>1. ret = "Z_STREAM_END" /\ pc = "finish" => filled = length
      BY DEF BufferInv, Delivered
    <2>2. Wrap \in Nat
      BY InflateAssumption
    <2>3. ThrowsForCause'
      <3>1. CASE pc = "grow" /\ 2 * size > Memory
        BY <1>t, <1>5, <2>2, <3>1 DEF NewThrows
      <3>2. CASE pc = "finish" /\ ret = "Z_STREAM_END" /\ filled + 1 > Memory
        BY <1>t, <1>5, <2>1, <3>2 DEF NewThrows
      <3> QED BY <1>5, <3>1, <3>2 DEF NewThrows
    <2> QED BY <1>0, <1>t, <1>5, <2>3 DEF NewThrows
  <1>6. CASE NextFile
    BY <1>0, <1>6 DEF NextFile
  <1>7. CASE UNCHANGED vars
    BY <1>0, <1>7 DEF vars
  <1> QED
    BY <1>1, <1>2, <1>3, <1>4, <1>5, <1>6, <1>7 DEF Next

\* Complete and corrupt bodies, however many and in whatever order, leave a
\* buffer within twice what the longest one needed: nothing accumulates over
\* the life of a converter.
THEOREM BufferBounded == Spec => []BoundedBuffer
  <1>1. SizeInv => BoundedBuffer
    BY DEF SizeInv
  <1> QED
    BY InitSizeInv, NextSizeInv, <1>1, PTL DEF Spec

\* A file is given up for want of memory only by its own text: truncated, or
\* too long.  A truncated body of an earlier file does no harm to this one as
\* long as avail_out can say enough of the buffer that body leaves, and it can of
\* every buffer below 4 GiB.
THEOREM MemoryRunsOutForCause == Spec => []ThrowsForCause
  <1>1. SizeInv => ThrowsForCause
    BY DEF SizeInv
  <1> QED
    BY InitSizeInv, NextSizeInv, <1>1, PTL DEF Spec

\* Every variable keeps its type, the 32 bits of avail_out and mInflateLength
\* included.
THEOREM InflateTypeCorrect == Spec => []TypeOK
  <1>1. BufferInv => TypeOK
    BY DEF BufferInv
  <1> QED
    BY InitBufferInv, NextBufferInv, <1>1, PTL DEF Spec

=============================================================================
