------------------------ MODULE PodSerializerProofs ------------------------
(***************************************************************************)
(* What is proved of PodSerializer, for leaves, keys, elements and nesting *)
(* of any size: the byte counters of open containers agree with the        *)
(* writer's position, fields end aligned, and end() seeks back.  A writer  *)
(* is assumed to be handed over at its end, as a Vec that is appended to.  *)
(***************************************************************************)
EXTENDS PodSerializer, TLAPS

(***************************************************************************)
(* Lengths of what is written.                                             *)
(***************************************************************************)
LEMMA TupleOfBytes ==
  ASSUME NEW a \in Byte, NEW b \in Byte, NEW c \in Byte, NEW d \in Byte
  PROVE  <<a, b, c, d>> \in Seq(Byte) /\ Len(<<a, b, c, d>>) = 4
OBVIOUS

LEMMA LowByte ==
  ASSUME NEW n \in Nat
  PROVE  n % 256 \in Byte
BY SMT DEF Byte

LEMMA U32Length ==
  ASSUME NEW n \in Nat
  PROVE  U32(n) \in Seq(Byte) /\ Len(U32(n)) = 4
<1>1. n \div 256 \in Nat /\ n \div 65536 \in Nat /\ n \div 16777216 \in Nat
  BY SMT
<1>2. /\ n % 256 \in Byte /\ (n \div 256) % 256 \in Byte
      /\ (n \div 65536) % 256 \in Byte /\ (n \div 16777216) % 256 \in Byte
  BY <1>1, LowByte
<1>. QED
  BY <1>2, TupleOfBytes DEF U32

LEMMA FunctionLength ==
  ASSUME NEW S, NEW n \in Nat, NEW f \in [1 .. n -> S]
  PROVE  f \in Seq(S) /\ Len(f) = n
<1>1. f \in Seq(S)
  OBVIOUS
<1>2. Len(f) \in Nat /\ DOMAIN f = 1 .. Len(f) /\ DOMAIN f = 1 .. n
  BY <1>1
<1>3. Len(f) = n
  BY <1>2, SMT
<1>. QED
  BY <1>1, <1>3

LEMMA ZeroesLength ==
  ASSUME NEW n \in Nat
  PROVE  Zeroes(n) \in Seq(Byte) /\ Len(Zeroes(n)) = n
<1>1. Zeroes(n) \in [1 .. n -> Byte]
  BY DEF Zeroes, Byte
<1>. QED
  BY <1>1, FunctionLength

LEMMA ConcatLength ==
  ASSUME NEW S, NEW p \in Seq(S), NEW q \in Seq(S)
  PROVE  p \o q \in Seq(S) /\ Len(p \o q) = Len(p) + Len(q)
OBVIOUS

(* Padding completes a size to a multiple of 8. *)
LEMMA PaddingAligns ==
  ASSUME NEW n \in Nat
  PROVE  Padding(n) \in Nat /\ (n + Padding(n)) % 8 = 0
BY SMT DEF Padding

Aligned(n) == n \in Nat /\ n % 8 = 0

LEMMA AlignedSum ==
  /\ Aligned(0) /\ Aligned(8) /\ Aligned(16)
  /\ \A a, b : Aligned(a) /\ Aligned(b) => Aligned(a + b)
BY SMT DEF Aligned

(* A multiple of 8 further is as aligned. *)
LEMMA StaysAligned ==
  ASSUME NEW p \in Nat, NEW q \in Nat, NEW n, Aligned(n), (p - q) % 8 = 0
  PROVE  ((p + n) - q) % 8 = 0
BY SMT DEF Aligned

LEMMA HeaderLength ==
  ASSUME NEW n \in Nat, NEW t \in Nat
  PROVE  Header(n, t) \in Seq(Byte) /\ Len(Header(n, t)) = 8
<1>1. /\ U32(n) \in Seq(Byte) /\ Len(U32(n)) = 4
      /\ U32(t) \in Seq(Byte) /\ Len(U32(t)) = 4
  BY U32Length
<1>2. /\ U32(n) \o U32(t) \in Seq(Byte)
      /\ Len(U32(n) \o U32(t)) = Len(U32(n)) + Len(U32(t))
  BY <1>1, ConcatLength, Zenon
<1>3. Len(U32(n)) + Len(U32(t)) = 8
  BY <1>1, SMT
<1>. QED
  BY <1>2, <1>3, Zenon DEF Header

(* A raw pod is its header, its body, and aligned. *)
LEMMA RawPodLength ==
  ASSUME NEW n \in Nat, NEW t \in Nat, NEW body \in Seq(Byte), Len(body) = n
  PROVE  /\ RawPod(n, t, body) \in Seq(Byte)
         /\ Len(RawPod(n, t, body)) = 8 + n + Padding(n)
         /\ Len(RawPod(n, t, body)) % 8 = 0
<1>1. Padding(n) \in Nat /\ (n + Padding(n)) % 8 = 0
  BY PaddingAligns
<1>2. Header(n, t) \in Seq(Byte) /\ Len(Header(n, t)) = 8
  BY HeaderLength
<1>3. Zeroes(Padding(n)) \in Seq(Byte) /\ Len(Zeroes(Padding(n))) = Padding(n)
  BY <1>1, ZeroesLength, Zenon
<1>4. /\ Header(n, t) \o body \in Seq(Byte)
      /\ Len(Header(n, t) \o body) = Len(Header(n, t)) + Len(body)
  BY <1>2, ConcatLength, Zenon
<1>5. /\ RawPod(n, t, body) \in Seq(Byte)
      /\ Len(RawPod(n, t, body)) = Len(Header(n, t) \o body) + Len(Zeroes(Padding(n)))
  BY <1>3, <1>4, ConcatLength, Zenon DEF RawPod
<1>6. Len(RawPod(n, t, body)) = 8 + n + Padding(n)
  BY <1>1, <1>2, <1>3, <1>4, <1>5, SMT
<1>7. (8 + n + Padding(n)) % 8 = 0
  BY <1>1, SMT
<1>. QED
  BY <1>5, <1>6, <1>7, Zenon

(* Bodies of one fixed size, joined. *)
LEMMA JoinedLength ==
  ASSUME NEW size \in {4, 8}, NEW vals \in Seq([1 .. size -> Byte])
  PROVE  /\ Joined(vals, size) \in Seq(Byte)
         /\ Len(Joined(vals, size)) = Len(vals) * size
         /\ Len(vals) * size \in Nat
<1>1. Len(vals) \in Nat /\ Len(vals) * size \in Nat
  BY SMT
<1>2. ASSUME NEW i \in 1 .. Len(vals) * size
      PROVE  /\ ((i - 1) \div size) + 1 \in 1 .. Len(vals)
             /\ ((i - 1) % size) + 1 \in 1 .. size
  <2>1. CASE size = 4
    BY <1>1, <2>1, SMT
  <2>2. CASE size = 8
    BY <1>1, <2>2, SMT
  <2>. QED
    BY <2>1, <2>2
<1>3. ASSUME NEW i \in 1 .. Len(vals) * size
      PROVE  vals[((i - 1) \div size) + 1][((i - 1) % size) + 1] \in Byte
  <2>1. vals[((i - 1) \div size) + 1] \in [1 .. size -> Byte]
    BY <1>2
  <2>. QED
    BY <2>1, <1>2
<1>4. Joined(vals, size) \in [1 .. Len(vals) * size -> Byte]
  BY <1>3 DEF Joined
<1>. QED
  BY <1>1, <1>4, FunctionLength

LEMMA SizeRange ==
  ASSUME NEW t
  PROVE  SIZE(t) \in {0, 4, 8} /\ (t \in FixedSized \ Empty => SIZE(t) \in {4, 8})
BY DEF SIZE, FixedSized, Words, Doubles, Empty

LEMMA ProductNat ==
  ASSUME NEW n \in Nat, NEW t
  PROVE  n * SIZE(t) \in Nat
BY SizeRange, SMT

(* A pod written by one call is a multiple of 8 bytes long. *)
LEMMA WholeLength ==
  ASSUME NEW v, WholeValue(v)
  PROVE  /\ SerializedWhole(v) \in Seq(Byte)
         /\ Len(SerializedWhole(v)) % 8 = 0
<1>. DEFINE Good(pod) == pod \in Seq(Byte) /\ Len(pod) % 8 = 0
<1>1. CASE v.t \in FixedSized /\ v.b \in [1 .. SIZE(v.t) -> Byte]
  <2>1. SIZE(v.t) \in Nat
    BY SizeRange
  <2>2. v.b \in Seq(Byte) /\ Len(v.b) = SIZE(v.t)
    BY <1>1, <2>1, FunctionLength
  <2>3. v.t \in Nat
    BY <1>1 DEF FixedSized, Empty, Words, Doubles, SPA_TYPE_None, SPA_TYPE_Bool, SPA_TYPE_Id,
         SPA_TYPE_Int, SPA_TYPE_Long, SPA_TYPE_Float, SPA_TYPE_Double, SPA_TYPE_Rectangle,
         SPA_TYPE_Fraction, SPA_TYPE_Fd
  <2>4. Good(SerializedFixedSized(v))
    BY <2>1, <2>2, <2>3, RawPodLength, Zenon DEF SerializedFixedSized
  <2>5. SerializedWhole(v) = SerializedFixedSized(v)
    BY <1>1 DEF SerializedWhole, FixedSized, Empty, Words, Doubles, SPA_TYPE_None, SPA_TYPE_Bool,
         SPA_TYPE_Id, SPA_TYPE_Int, SPA_TYPE_Long, SPA_TYPE_Float, SPA_TYPE_Double,
         SPA_TYPE_Rectangle, SPA_TYPE_Fraction, SPA_TYPE_Fd, SPA_TYPE_String, SPA_TYPE_Bytes,
         SPA_TYPE_Pointer, SPA_TYPE_Choice
  <2>. QED
    BY <2>4, <2>5, Zenon
<1>2. CASE v.t = SPA_TYPE_String /\ v.b \in Seq(Byte)
  <2>1. <<0>> \in Seq(Byte) /\ Len(<<0>>) = 1
    BY DEF Byte
  <2>2. v.b \o <<0>> \in Seq(Byte) /\ Len(v.b \o <<0>>) = Len(v.b) + 1
    BY <1>2, <2>1, ConcatLength
  <2>3. Len(v.b) + 1 \in Nat /\ SPA_TYPE_String \in Nat
    BY <1>2 DEF SPA_TYPE_String
  <2>4. Good(SerializedString(v))
    BY <2>2, <2>3, RawPodLength, Zenon DEF SerializedString
  <2>5. SerializedWhole(v) = SerializedString(v)
    BY <1>2 DEF SerializedWhole, SPA_TYPE_String, SPA_TYPE_Bytes, SPA_TYPE_Pointer,
         SPA_TYPE_Choice
  <2>. QED
    BY <2>4, <2>5, Zenon
<1>3. CASE v.t = SPA_TYPE_Bytes /\ v.b \in Seq(Byte)
  <2>1. Len(v.b) \in Nat /\ SPA_TYPE_Bytes \in Nat
    BY <1>3 DEF SPA_TYPE_Bytes
  <2>2. Good(SerializedBytes(v))
    BY <1>3, <2>1, RawPodLength, Zenon DEF SerializedBytes
  <2>3. SerializedWhole(v) = SerializedBytes(v)
    BY <1>3 DEF SerializedWhole, SPA_TYPE_String, SPA_TYPE_Bytes, SPA_TYPE_Pointer,
         SPA_TYPE_Choice
  <2>. QED
    BY <2>2, <2>3, Zenon
<1>4. CASE v.t = SPA_TYPE_Pointer /\ v.ptype \in Nat /\ v.b \in [1 .. 8 -> Byte]
  <2>1. v.b \in Seq(Byte) /\ Len(v.b) = 8
    BY <1>4, FunctionLength
  <2>2. Header(v.ptype, 0) \in Seq(Byte) /\ Len(Header(v.ptype, 0)) = 8
    BY <1>4, HeaderLength
  <2>3. /\ Header(v.ptype, 0) \o v.b \in Seq(Byte)
        /\ Len(Header(v.ptype, 0) \o v.b) = Len(Header(v.ptype, 0)) + Len(v.b)
    BY <2>1, <2>2, ConcatLength, Zenon
  <2>4. 8 + 8 = 16 /\ 16 \in Nat /\ SPA_TYPE_Pointer \in Nat
    BY SMT DEF SPA_TYPE_Pointer
  <2>7. Len(Header(v.ptype, 0) \o v.b) = 16
    BY <2>1, <2>2, <2>3, <2>4, Zenon
  <2>5. Good(SerializedPointer(v))
    BY <2>3, <2>4, <2>7, RawPodLength, Zenon DEF SerializedPointer, Header
  <2>6. SerializedWhole(v) = SerializedPointer(v)
    BY <1>4 DEF SerializedWhole, SPA_TYPE_String, SPA_TYPE_Bytes, SPA_TYPE_Pointer,
         SPA_TYPE_Choice
  <2>. QED
    BY <2>5, <2>6, Zenon
<1>5. CASE /\ v.t = SPA_TYPE_Choice /\ v.kind \in Nat /\ v.flags \in Nat
           /\ v.child \in FixedSized \ Empty /\ v.vals \in Seq([1 .. SIZE(v.child) -> Byte])
  <2>. DEFINE size == SIZE(v.child)
              first == Header(v.kind, v.flags)
              child == Header(size, v.child)
              vals == Joined(v.vals, size)
  <2>1. size \in {4, 8} /\ size \in Nat
    BY <1>5, SizeRange
  <2>2. v.child \in Nat
    BY <1>5 DEF FixedSized, Empty, Words, Doubles, SPA_TYPE_None, SPA_TYPE_Bool, SPA_TYPE_Id,
         SPA_TYPE_Int, SPA_TYPE_Long, SPA_TYPE_Float, SPA_TYPE_Double, SPA_TYPE_Rectangle,
         SPA_TYPE_Fraction, SPA_TYPE_Fd
  <2>3. first \in Seq(Byte) /\ Len(first) = 8 /\ child \in Seq(Byte) /\ Len(child) = 8
    BY <1>5, <2>1, <2>2, HeaderLength
  <2>4. vals \in Seq(Byte) /\ Len(vals) = Len(v.vals) * size /\ Len(v.vals) * size \in Nat
    BY <1>5, <2>1, JoinedLength
  <2>5. first \o child \in Seq(Byte) /\ Len(first \o child) = Len(first) + Len(child)
    BY <2>3, ConcatLength, Zenon
  <2>6. /\ (first \o child) \o vals \in Seq(Byte)
        /\ Len((first \o child) \o vals) = Len(first \o child) + Len(vals)
    BY <2>4, <2>5, ConcatLength, Zenon
  <2>. HIDE DEF size, first, child, vals
  <2>7. /\ Len((first \o child) \o vals) = 16 + Len(v.vals) * size
        /\ 16 + Len(v.vals) * size \in Nat /\ SPA_TYPE_Choice \in Nat
    BY <2>3, <2>4, <2>5, <2>6, SMT DEF SPA_TYPE_Choice
  <2>8. Good(RawPod(16 + Len(v.vals) * size, SPA_TYPE_Choice, (first \o child) \o vals))
    BY <2>6, <2>7, RawPodLength, Zenon
  <2>9. SerializedWhole(v) = SerializedChoice(v)
    BY <1>5 DEF SerializedWhole, SPA_TYPE_String, SPA_TYPE_Bytes, SPA_TYPE_Pointer,
         SPA_TYPE_Choice
  <2>10. U32(v.kind) \o U32(v.flags) \o Header(SIZE(v.child), v.child)
           \o Joined(v.vals, SIZE(v.child)) = (first \o child) \o vals
    BY Zenon DEF first, child, vals, size, Header
  <2>11. SerializedChoice(v)
           = RawPod(16 + Len(v.vals) * size, SPA_TYPE_Choice, (first \o child) \o vals)
    BY <2>10, Zenon DEF SerializedChoice, size
  <2>. QED
    BY <2>8, <2>9, <2>11, Zenon
<1>. QED
  BY <1>1, <1>2, <1>3, <1>4, <1>5 DEF WholeValue

(* What is written over what is there. *)
LEMMA OverwrittenLength ==
  ASSUME out \in Seq(Byte), NEW bytes \in Seq(Byte), NEW place \in 0 .. Len(out)
  PROVE  /\ Overwritten(bytes, place) \in Seq(Byte)
         /\ Len(Overwritten(bytes, place))
              = IF place + Len(bytes) > Len(out) THEN place + Len(bytes) ELSE Len(out)
<1>. DEFINE end == place + Len(bytes)
            n == IF end > Len(out) THEN end ELSE Len(out)
<1>1. n \in Nat /\ end \in Nat
  OBVIOUS
<1>2. ASSUME NEW i \in 1 .. n
      PROVE  (IF i > place /\ i <= end THEN bytes[i - place] ELSE out[i]) \in Byte
  <2>1. CASE i > place /\ i <= end
    <3>1. i - place \in 1 .. Len(bytes)
      BY <2>1, SMT
    <3>. QED
      BY <2>1, <3>1
  <2>2. CASE ~(i > place /\ i <= end)
    <3>1. i \in 1 .. Len(out)
      BY <2>2, <1>1, SMT
    <3>. QED
      BY <2>2, <3>1
  <2>. QED
    BY <2>1, <2>2
<1>3. Overwritten(bytes, place) \in [1 .. n -> Byte]
  BY <1>2 DEF Overwritten
<1>. QED
  BY <1>1, <1>3, FunctionLength

(***************************************************************************)
(* Sequences of open containers.                                           *)
(***************************************************************************)
LEMMA TailFacts ==
  ASSUME NEW S, NEW q \in Seq(S), q # <<>>
  PROVE  /\ Tail(q) \in Seq(S) /\ Len(Tail(q)) = Len(q) - 1
         /\ Len(q) \in Nat \ {0} /\ q[1] \in S
         /\ \A i \in 1 .. Len(q) - 1 : Tail(q)[i] = q[i + 1]
OBVIOUS

LEMMA PushFacts ==
  ASSUME NEW S, NEW q \in Seq(S), NEW x \in S
  PROVE  /\ <<x>> \o q \in Seq(S) /\ Len(<<x>> \o q) = Len(q) + 1
         /\ Len(q) \in Nat /\ (<<x>> \o q)[1] = x
         /\ \A i \in 2 .. Len(q) + 1 : (<<x>> \o q)[i] = q[i - 1]
OBVIOUS

(* What the invariant says of the open containers alone. *)
Sound(s) ==
  /\ s \in Seq(Frame)
  /\ \A i \in 1 .. Len(s) : s[i].kind = "array" => s[i].child \in DOMAIN Child
  /\ \A i \in 1 .. Len(s) : (s[i].at - Start) % 8 = 0
  /\ \A i \in 2 .. Len(s) : s[i].kind # "array"
  /\ \A i \in 2 .. Len(s) : s[i - 1].at = Filled(s[i]) + KeyBytes(s[i])

LEMMA FilledNat ==
  ASSUME NEW f \in Frame
  PROVE  Filled(f) \in Nat /\ KeyBytes(f) \in {0, 8} /\ f.written * SIZE(f.child) \in Nat
<1>1. f.at \in Nat /\ f.written \in Nat
  BY DEF Frame
<1>2. f.written * SIZE(f.child) \in Nat
  BY <1>1, ProductNat
<1>3. f.written * 1 = f.written
  BY <1>1
<1>. QED
  BY <1>1, <1>2, <1>3 DEF Filled, KeyBytes

LEMMA SoundTail ==
  ASSUME NEW s, Sound(s), s # <<>>
  PROVE  /\ Sound(Tail(s))
         /\ Tail(s) # <<>> => /\ Tail(s)[1].kind # "array"
                             /\ s[1].at = Filled(Tail(s)[1]) + KeyBytes(Tail(s)[1])
<1>. USE DEF Sound
<1>1. /\ Tail(s) \in Seq(Frame) /\ Len(Tail(s)) = Len(s) - 1 /\ Len(s) \in Nat \ {0}
      /\ \A i \in 1 .. Len(s) - 1 : Tail(s)[i] = s[i + 1]
  BY TailFacts
<1>. DEFINE t == Tail(s)
<1>. HIDE DEF t
<1>2. /\ t \in Seq(Frame) /\ Len(t) = Len(s) - 1
      /\ \A i \in 1 .. Len(t) : i + 1 \in 2 .. Len(s) /\ t[i] = s[i + 1]
  BY <1>1 DEF t
<1>3. \A i \in 1 .. Len(t) : t[i].kind # "array" /\ (t[i].at - Start) % 8 = 0
  BY <1>1, <1>2
<1>4. ASSUME NEW i \in 2 .. Len(t)
      PROVE  t[i - 1].at = Filled(t[i]) + KeyBytes(t[i])
  <2>1. i \in 1 .. Len(t) /\ i - 1 \in 1 .. Len(t) /\ (i - 1) + 1 = i /\ (i + 1) - 1 = i
    BY <1>1, <1>2
  <2>2. t[i] = s[i + 1] /\ t[i - 1] = s[i] /\ i + 1 \in 2 .. Len(s)
    BY <1>2, <2>1
  <2>. QED
    BY <2>1, <2>2
<1>5. ASSUME t # <<>>
      PROVE  t[1].kind # "array" /\ s[1].at = Filled(t[1]) + KeyBytes(t[1])
  <2>1. 1 \in 1 .. Len(t) /\ 2 \in 2 .. Len(s) /\ t[1] = s[2] /\ 2 - 1 = 1
    BY <1>1, <1>2, <1>5
  <2>. QED
    BY <2>1, <1>3
<1>. QED
  BY <1>2, <1>3, <1>4, <1>5 DEF t

LEMMA SoundPush ==
  ASSUME NEW s, Sound(s), NEW f \in Frame,
         f.kind = "array" => f.child \in DOMAIN Child,
         (f.at - Start) % 8 = 0,
         s # <<>> => s[1].kind # "array" /\ f.at = Filled(s[1]) + KeyBytes(s[1])
  PROVE  Sound(<<f>> \o s)
<1>. USE DEF Sound
<1>. DEFINE t == <<f>> \o s
<1>1. /\ t \in Seq(Frame) /\ Len(t) = Len(s) + 1 /\ Len(s) \in Nat /\ t[1] = f
      /\ \A i \in 2 .. Len(s) + 1 : t[i] = s[i - 1]
  BY PushFacts
<1>. HIDE DEF t
<1>2. ASSUME NEW i \in 1 .. Len(t)
      PROVE  /\ t[i].kind = "array" => t[i].child \in DOMAIN Child
             /\ (t[i].at - Start) % 8 = 0
  <2>1. CASE i = 1
    BY <1>1, <2>1
  <2>2. CASE i # 1
    <3>1. i - 1 \in 1 .. Len(s) /\ t[i] = s[i - 1]
      BY <1>1, <2>2
    <3>. QED
      BY <3>1
  <2>. QED
    BY <2>1, <2>2
<1>3. ASSUME NEW i \in 2 .. Len(t)
      PROVE  t[i].kind # "array" /\ t[i - 1].at = Filled(t[i]) + KeyBytes(t[i])
  <2>1. i - 1 \in 1 .. Len(s) /\ t[i] = s[i - 1]
    BY <1>1
  <2>2. CASE i = 2
    <3>1. s # <<>> /\ i - 1 = 1
      BY <1>1, <2>1, <2>2
    <3>. QED
      BY <1>1, <2>1, <3>1
  <2>3. CASE i # 2
    <3>1. Len(s) \in Nat /\ i \in 2 .. Len(s) + 1
      BY <1>1
    <3>2. i - 1 \in 2 .. Len(s) /\ i - 1 \in 2 .. Len(s) + 1
      BY <3>1, <2>3
    <3>3. t[i - 1] = s[(i - 1) - 1]
      BY <1>1, <3>2, Zenon
    <3>. QED
      BY <2>1, <3>2, <3>3
  <2>. QED
    BY <2>2, <2>3
<1>. QED
  BY <1>1, <1>2, <1>3 DEF t

(* A counter changes where its container lies for nothing above it. *)
LEMMA SoundCount ==
  ASSUME NEW s, Sound(s), s # <<>>, NEW n \in Nat
  PROVE  /\ [s[1] EXCEPT !.written = n] \in Frame
         /\ Sound(<<[s[1] EXCEPT !.written = n]>> \o Tail(s))
<1>1. s \in Seq(Frame) /\ s[1] \in Frame /\ Len(s) \in Nat \ {0}
  BY TailFacts DEF Sound
<1>. DEFINE f == [s[1] EXCEPT !.written = n]
<1>2. /\ f \in Frame /\ f.kind = s[1].kind /\ f.at = s[1].at /\ f.child = s[1].child
  BY <1>1 DEF Frame
<1>. HIDE DEF f
<1>3. /\ f.kind = "array" => f.child \in DOMAIN Child
      /\ (f.at - Start) % 8 = 0
  BY <1>1, <1>2 DEF Sound
<1>4. Sound(<<f>> \o Tail(s))
  BY <1>2, <1>3, SoundTail, SoundPush
<1>. QED
  BY <1>2, <1>4 DEF f

(***************************************************************************)
(* The invariant, in the terms the steps use while no call has failed.     *)
(***************************************************************************)
Good(o, p, s) ==
  /\ o \in Seq(Byte) /\ p \in Nat /\ p = Len(o)
  /\ Sound(s)
  /\ s # <<>> => p = Filled(s[1])
  /\ (s = <<>> \/ s[1].kind # "array") => (p - Start) % 8 = 0

LEMMA Unfold ==
  ASSUME IInv, status = "ok"
  PROVE  Good(out, pos, open)
BY DEF IInv, TypeOK, ArraysAreInnermost, CountersAreExact, AtTheEnd, FieldsEndAligned, InArray,
       Good, Sound

LEMMA Refold ==
  ASSUME status' = "ok", Good(out', pos', open')
  PROVE  IInv'
<1>. DEFINE InArr == open # <<>> /\ open[1].kind = "array"
<1>1. TypeOK' /\ ArraysAreInnermost'
  BY DEF Good, Sound, TypeOK, ArraysAreInnermost
<1>2. CountersAreExact' /\ AtTheEnd'
  BY DEF Good, Sound, CountersAreExact, AtTheEnd
<1>3. FieldsEndAligned'
  BY DEF Good, Sound, FieldsEndAligned, InArray
<1>. QED
  BY <1>1, <1>2, <1>3 DEF IInv

LEMMA RefoldStopped ==
  ASSUME status' \in {"done", "err", "panic"}, out' \in Seq(Byte), pos' \in Nat, Sound(open')
  PROVE  IInv'
BY DEF IInv, TypeOK, ArraysAreInnermost, CountersAreExact, AtTheEnd, FieldsEndAligned, Sound

LEMMA FailsStep ==
  ASSUME IInv, NEW how \in {"err", "panic"}, Fails(how)
  PROVE  IInv'
BY DEF Fails, IInv, TypeOK, ArraysAreInnermost, CountersAreExact, AtTheEnd, FieldsEndAligned

LEMMA GenStep ==
  ASSUME Good(out, pos, open), NEW bytes \in Seq(Byte), Gen(bytes)
  PROVE  /\ out' \in Seq(Byte) /\ pos' \in Nat
         /\ pos' = Len(out') /\ pos' = pos + Len(bytes)
<1>1. pos \in 0 .. Len(out) /\ pos = Len(out) /\ out \in Seq(Byte) /\ Len(bytes) \in Nat
  BY DEF Good
<1>2. /\ Overwritten(bytes, pos) \in Seq(Byte)
      /\ Len(Overwritten(bytes, pos))
           = IF pos + Len(bytes) > Len(out) THEN pos + Len(bytes) ELSE Len(out)
  BY <1>1, OverwrittenLength
<1>. QED
  BY <1>1, <1>2 DEF Gen

LEMMA FilledAdds ==
  ASSUME NEW f \in Frame, NEW g \in Frame, NEW m \in Nat,
         f.kind # "array", g.kind = f.kind, g.at = f.at, g.written = f.written + m
  PROVE  Filled(g) = Filled(f) + m
<1>1. f.at \in Nat /\ f.written \in Nat /\ g.written \in Nat
  BY DEF Frame
<1>2. f.written * 1 = f.written /\ g.written * 1 = g.written
  BY <1>1
<1>3. /\ Filled(f) = f.at + (IF f.kind = "struct" THEN 8 ELSE 16) + f.written
      /\ Filled(g) = f.at + (IF f.kind = "struct" THEN 8 ELSE 16) + g.written
  BY <1>2 DEF Filled
<1>. QED
  BY <1>1, <1>3

(* A complete pod of len bytes, whose key and flags began at base. *)
LEMMA SucceedStep ==
  ASSUME NEW outer, Sound(outer), NEW around, NEW k, NEW v, NEW len \in Nat, NEW place,
         outer # <<>> => outer[1].kind # "array" /\ place = Filled(outer[1]) + KeyBytes(outer[1]),
         Succeed(outer, around, k, len, v)
  PROVE  /\ Sound(open')
         /\ outer = <<>> => status' = "done"
         /\ outer # <<>> => /\ status' = status
                            /\ open' # <<>> /\ open'[1].kind # "array"
                            /\ Filled(open'[1]) = place + len
<1>1. CASE outer = <<>>
  BY <1>1 DEF Succeed
<1>2. CASE outer # <<>>
  <2>. DEFINE n == Added(outer[1], len)
              f == [outer[1] EXCEPT !.written = n]
  <2>1. outer[1] \in Frame
    BY <1>2, TailFacts DEF Sound
  <2>2. n \in Nat /\ n = outer[1].written + len + KeyBytes(outer[1])
    BY <2>1 DEF Added, KeyBytes, Frame
  <2>3. f \in Frame /\ Sound(<<f>> \o Tail(outer))
    BY <1>2, <2>2, SoundCount
  <2>4. open' = <<f>> \o Tail(outer) /\ status' = status
    BY <1>2 DEF Succeed
  <2>5. open' # <<>> /\ open'[1] = f
    <3>1. Tail(outer) \in Seq(Frame)
      BY <1>2, TailFacts DEF Sound
    <3>. QED
      BY <2>3, <2>4, <3>1
  <2>6. f.kind = outer[1].kind /\ f.at = outer[1].at /\ f.written = n
    BY <2>1 DEF Frame
  <2>. HIDE DEF f, n
  <2>7. Filled(f) = Filled(outer[1]) + KeyBytes(outer[1]) + len
    <3>1. KeyBytes(outer[1]) + len \in Nat /\ Filled(outer[1]) \in Nat
      BY <2>1, FilledNat
    <3>2. n = outer[1].written + (KeyBytes(outer[1]) + len)
      BY SMTT(30), <2>1, <2>2, FilledNat DEF Frame
    <3>3. Filled(f) = Filled(outer[1]) + (KeyBytes(outer[1]) + len)
      BY <1>2, <2>1, <2>3, <2>6, <3>1, <3>2, FilledAdds
    <3>. QED
      BY <2>1, <3>1, <3>3, FilledNat
  <2>8. Filled(outer[1]) \in Nat /\ KeyBytes(outer[1]) \in Nat
    BY <2>1, FilledNat
  <2>. QED
    BY <1>2, <2>3, <2>4, <2>5, <2>6, <2>7, <2>8
<1>. QED
  BY <1>1, <1>2

LEMMA PrefixLength ==
  ASSUME NEW k \in KeysHere
  PROVE  /\ k \in Nat \X Nat
         /\ Prefix(k) \in Seq(Byte)
         /\ Len(Prefix(k)) \in {0, 8}
         /\ open # <<>> => Len(Prefix(k)) = KeyBytes(open[1])
<1>1. k \in Nat \X Nat
  BY SerializerAssumption DEF KeysHere, NoKey
<1>2. Header(k[1], k[2]) \in Seq(Byte) /\ Len(Header(k[1], k[2])) = 8
  BY <1>1, HeaderLength
<1>3. CASE InObject
  BY <1>1, <1>2, <1>3 DEF Prefix, Header, InObject, KeyBytes
<1>4. CASE ~InObject
  BY <1>1, <1>4 DEF Prefix, InObject, KeyBytes
<1>. QED
  BY <1>3, <1>4

LEMMA OneMoreElement ==
  ASSUME NEW place \in Nat, NEW filled \in Nat, NEW size \in {0, 4, 8}
  PROVE  place + 16 + (filled + 1) * size = (place + 16 + filled * size) + size
BY SMT

LEMMA ArrayExtent ==
  ASSUME NEW place \in Nat, NEW body \in Nat, NEW padding \in Nat
  PROVE  (place + 16 + body) + padding = place + (16 + body + padding)
BY SMT

(***************************************************************************)
(* One step per action.                                                    *)
(***************************************************************************)
LEMMA WholeStep ==
  ASSUME IInv, NEW k \in KeysHere, NEW v \in Leaf, SerializeWhole(v, k)
  PROVE  IInv'
<1>. DEFINE pod == SerializedWhole(v)
            bytes == Prefix(k) \o pod
<1>1. CASE Fails("panic") \/ Fails("err")
  BY <1>1, FailsStep
<1>2. CASE Gen(bytes) /\ Succeed(open, items, k, Len(pod), v)
  <2>1. Good(out, pos, open) /\ ~InArray
    BY Unfold DEF SerializeWhole, MayWrite
  <2>2. pod \in Seq(Byte) /\ Len(pod) % 8 = 0
    BY WholeLength, SerializerAssumption
  <2>3. /\ Prefix(k) \in Seq(Byte) /\ Len(Prefix(k)) \in {0, 8}
        /\ open # <<>> => Len(Prefix(k)) = KeyBytes(open[1])
    BY PrefixLength
  <2>4. bytes \in Seq(Byte) /\ Len(bytes) = Len(Prefix(k)) + Len(pod)
    BY <2>2, <2>3, ConcatLength, Zenon
  <2>. HIDE DEF bytes, pod
  <2>5. /\ out' \in Seq(Byte) /\ pos' \in Nat
        /\ pos' = Len(out') /\ pos' = pos + Len(bytes)
    BY <1>2, <2>1, <2>4, GenStep
  <2>6. Len(pod) \in Nat
    BY <2>2
  <2>. DEFINE place == pos + Len(Prefix(k))
  <2>7. open # <<>> => open[1].kind # "array" /\ place = Filled(open[1]) + KeyBytes(open[1])
    BY <2>1, <2>3 DEF Good, InArray
  <2>8. Sound(open)
    BY <2>1 DEF Good
  <2>. HIDE DEF place
  <2>9. /\ Sound(open')
        /\ open = <<>> => status' = "done"
        /\ open # <<>> => /\ status' = status
                          /\ open' # <<>> /\ open'[1].kind # "array"
                          /\ Filled(open'[1]) = place + Len(pod)
    BY <1>2, <2>6, <2>7, <2>8, SucceedStep
  <2>10. CASE open = <<>>
    BY <2>5, <2>9, <2>10, RefoldStopped
  <2>11. CASE open # <<>>
    <3>1. pos' = place + Len(pod)
      BY <2>1, <2>3, <2>4, <2>5, <2>6 DEF place, Good
    <3>2. (pos - Start) % 8 = 0 /\ pos \in Nat /\ Start \in Nat
      BY <2>1, SerializerAssumption DEF Good, InArray
    <3>3. (pos' - Start) % 8 = 0
      <4>1. Aligned(Len(Prefix(k))) /\ Aligned(Len(pod))
        BY <2>2, <2>3, <2>6, AlignedSum, Zenon DEF Aligned
      <4>2. Aligned(Len(bytes))
        BY <2>4, <4>1, AlignedSum, Zenon
      <4>. QED
        BY <2>5, <3>2, <4>2, StaysAligned, ZenonT(30)
    <3>4. status' = "ok"
      BY <2>9, <2>11 DEF SerializeWhole, MayWrite
    <3>5. Good(out', pos', open')
      BY <2>5, <2>9, <2>11, <3>1, <3>3 DEF Good
    <3>. QED
      BY <3>4, <3>5, Refold
  <2>. QED
    BY <2>10, <2>11
<1>. QED
  BY <1>1, <1>2 DEF SerializeWhole

LEMMA BeginStep ==
  ASSUME IInv, NEW kind \in {"struct", "object", "array"}, NEW k \in KeysHere,
         NEW header \in Seq(Byte), NEW type \in Nat \X Nat, NEW child \in FixedSized,
         NEW length \in Nat,
         kind = "array" => child \in DOMAIN Child,
         Len(header) = (IF kind = "struct" THEN 8 ELSE 16),
         Begin(kind, k, header, type, child, length)
  PROVE  IInv'
<1>. DEFINE bytes == Prefix(k) \o header
            f == [kind |-> kind, at |-> pos + Len(Prefix(k)), written |-> 0, key |-> k,
                  type |-> type, child |-> child, length |-> length]
<1>1. CASE Fails("err")
  BY <1>1, FailsStep
<1>2. CASE Gen(bytes) /\ open' = <<f>> \o open /\ UNCHANGED status
  <2>1. Good(out, pos, open) /\ ~InArray /\ status = "ok"
    BY Unfold DEF Begin, MayWrite
  <2>2. /\ k \in Nat \X Nat /\ Prefix(k) \in Seq(Byte) /\ Len(Prefix(k)) \in {0, 8}
        /\ open # <<>> => Len(Prefix(k)) = KeyBytes(open[1])
    BY PrefixLength
  <2>3. bytes \in Seq(Byte) /\ Len(bytes) = Len(Prefix(k)) + Len(header)
    BY <2>2, ConcatLength, Zenon
  <2>. HIDE DEF bytes
  <2>4. /\ out' \in Seq(Byte) /\ pos' \in Nat
        /\ pos' = Len(out') /\ pos' = pos + Len(bytes)
    BY <1>2, <2>1, <2>3, GenStep
  <2>5. pos \in Nat /\ Start \in Nat /\ (pos - Start) % 8 = 0 /\ Sound(open)
    BY <2>1, SerializerAssumption DEF Good, InArray
  <2>6. pos + Len(Prefix(k)) \in Nat /\ 0 \in Nat
    BY <2>2, <2>5
  <2>7. /\ f \in Frame /\ f.kind = kind /\ f.at = pos + Len(Prefix(k)) /\ f.written = 0
        /\ f.child = child
    BY <2>2, <2>6 DEF Frame
  <2>. HIDE DEF f
  <2>8. (f.at - Start) % 8 = 0
    <3>1. Aligned(Len(Prefix(k)))
      BY <2>2, AlignedSum, Zenon
    <3>2. ((pos + Len(Prefix(k))) - Start) % 8 = 0
      BY <2>5, <3>1, StaysAligned
    <3>. QED
      BY <2>7, <3>2, Zenon
  <2>9. open # <<>> => open[1].kind # "array" /\ f.at = Filled(open[1]) + KeyBytes(open[1])
    BY <2>1, <2>2, <2>7 DEF Good, InArray
  <2>10. Sound(<<f>> \o open)
    BY <2>5, <2>7, <2>8, <2>9, SoundPush
  <2>11. open' # <<>> /\ open'[1] = f
    BY <1>2, <2>5, <2>7, PushFacts DEF Sound
  <2>12. Filled(f) = pos'
    <3>1. 0 * SIZE(f.child) = 0
      BY SizeRange, SMT
    <3>2. 0 * 1 = 0
      OBVIOUS
    <3>3. Filled(f) = f.at + (IF kind = "struct" THEN 8 ELSE 16) + 0
      BY <2>7, <3>1, <3>2 DEF Filled
    <3>. QED
      BY SMTT(30), <2>2, <2>3, <2>4, <2>5, <2>7, <3>3
  <2>13. (pos' - Start) % 8 = 0
    <3>1. Aligned(Len(Prefix(k))) /\ Aligned(Len(header))
      BY <2>2, AlignedSum, Zenon
    <3>2. Aligned(Len(bytes))
      BY <2>3, <3>1, AlignedSum, Zenon
    <3>3. ((pos + Len(bytes)) - Start) % 8 = 0
      BY <2>5, <3>2, StaysAligned
    <3>. QED
      BY <2>4, <3>3, Zenon
  <2>14. Good(out', pos', open')
    BY <1>2, <2>4, <2>10, <2>11, <2>12, <2>13 DEF Good
  <2>. QED
    BY <1>2, <2>1, <2>14, Refold
<1>. QED
  BY <1>1, <1>2 DEF Begin

LEMMA StructStep ==
  ASSUME IInv, NEW k \in KeysHere, SerializeStruct(k)
  PROVE  IInv'
<1>1. /\ Header(0, SPA_TYPE_Struct) \in Seq(Byte) /\ Len(Header(0, SPA_TYPE_Struct)) = 8
      /\ SPA_TYPE_None \in FixedSized /\ NoKey \in Nat \X Nat /\ 0 \in Nat
  BY HeaderLength DEF SPA_TYPE_Struct, SPA_TYPE_None, FixedSized, Empty, NoKey
<1>. QED
  BY <1>1, BeginStep DEF SerializeStruct

LEMMA ObjectStep ==
  ASSUME IInv, NEW k \in KeysHere, NEW type \in Key, SerializeObject(k, type)
  PROVE  IInv'
<1>. DEFINE first == Header(0, SPA_TYPE_Object)
            second == Header(type[1], type[2])
<1>1. /\ SPA_TYPE_None \in FixedSized /\ type \in Nat \X Nat /\ 0 \in Nat
      /\ SPA_TYPE_Object \in Nat
  BY SerializerAssumption DEF SPA_TYPE_Object, SPA_TYPE_None, FixedSized, Empty
<1>2. first \in Seq(Byte) /\ Len(first) = 8 /\ second \in Seq(Byte) /\ Len(second) = 8
  BY <1>1, HeaderLength
<1>3. first \o second \in Seq(Byte) /\ Len(first \o second) = Len(first) + Len(second)
  BY <1>2, ConcatLength, Zenon
<1>4. 8 + 8 = 16
  OBVIOUS
<1>5. Len(first \o second) = 16
  BY <1>2, <1>3, <1>4, Zenon
<1>6. first \o second = Header(0, SPA_TYPE_Object) \o U32(type[1]) \o U32(type[2])
  <2>1. /\ U32(type[1]) \in Seq(Byte) /\ U32(type[2]) \in Seq(Byte)
    BY <1>1, U32Length
  <2>. HIDE DEF first
  <2>2. first \o (U32(type[1]) \o U32(type[2])) = (first \o U32(type[1])) \o U32(type[2])
    BY <1>2, <2>1
  <2>. QED
    BY <2>2 DEF first, Header
<1>. HIDE DEF first, second
<1>7. Begin("object", k, first \o second, type, SPA_TYPE_None, 0)
  BY <1>6 DEF SerializeObject
<1>. QED
  BY <1>1, <1>3, <1>5, <1>7, BeginStep

LEMMA ArrayStep ==
  ASSUME IInv, NEW k \in KeysHere, NEW t \in DOMAIN Child, NEW length \in 0 .. MaxItems,
         SerializeArray(k, t, length)
  PROVE  IInv'
<1>. DEFINE first == Header((8 + length * SIZE(t)) % Modulus, SPA_TYPE_Array)
            second == Header(SIZE(t), t)
<1>1. t \in FixedSized /\ length \in Nat /\ SIZE(t) \in Nat /\ NoKey \in Nat \X Nat
  BY SerializerAssumption, SizeRange DEF NoKey
<1>2. length * SIZE(t) \in Nat
  BY <1>1, ProductNat
<1>3. (8 + length * SIZE(t)) % Modulus \in Nat /\ SPA_TYPE_Array \in Nat /\ t \in Nat
  BY <1>1, <1>2, LayoutAssumption DEF SPA_TYPE_Array, FixedSized, Empty, Words, Doubles,
     SPA_TYPE_None, SPA_TYPE_Bool, SPA_TYPE_Id, SPA_TYPE_Int, SPA_TYPE_Long, SPA_TYPE_Float,
     SPA_TYPE_Double, SPA_TYPE_Rectangle, SPA_TYPE_Fraction, SPA_TYPE_Fd
<1>4. first \in Seq(Byte) /\ Len(first) = 8 /\ second \in Seq(Byte) /\ Len(second) = 8
  BY <1>1, <1>3, HeaderLength
<1>5. first \o second \in Seq(Byte) /\ Len(first \o second) = Len(first) + Len(second)
  BY <1>4, ConcatLength, Zenon
<1>6. 8 + 8 = 16
  OBVIOUS
<1>7. Len(first \o second) = 16
  BY <1>4, <1>5, <1>6, Zenon
<1>8. Begin("array", k, first \o second, NoKey, t, length)
  BY DEF SerializeArray
<1>. HIDE DEF first, second
<1>. QED
  BY <1>1, <1>5, <1>7, <1>8, BeginStep

LEMMA ElementStep ==
  ASSUME IInv, InArray, NEW b \in Child[open[1].child], SerializeElement(b)
  PROVE  IInv'
<1>1. CASE Fails("panic") \/ Fails("err")
  BY <1>1, FailsStep
<1>2. CASE /\ Gen(b) /\ UNCHANGED status
           /\ open' = <<[open[1] EXCEPT !.written = @ + 1]>> \o Tail(open)
  <2>1. Good(out, pos, open) /\ status = "ok" /\ open # <<>> /\ open[1].kind = "array"
    BY Unfold DEF SerializeElement, InArray
  <2>2. /\ Sound(open) /\ open[1] \in Frame /\ Len(open) \in Nat \ {0}
        /\ pos = Filled(open[1]) /\ pos \in Nat
    BY <2>1, TailFacts DEF Good, Sound
  <2>3. open[1].child \in DOMAIN Child
    BY <2>1, <2>2 DEF Sound
  <2>. DEFINE size == SIZE(open[1].child)
              n == open[1].written + 1
              f == [open[1] EXCEPT !.written = n]
  <2>4. b \in [1 .. size -> Byte] /\ size \in {0, 4, 8} /\ size \in Nat
    BY <2>3, SerializerAssumption, SizeRange
  <2>5. b \in Seq(Byte) /\ Len(b) = size
    BY <2>4, FunctionLength
  <2>6. /\ out' \in Seq(Byte) /\ pos' \in Nat
        /\ pos' = Len(out') /\ pos' = pos + Len(b)
    BY <1>2, <2>1, <2>5, GenStep
  <2>7. n \in Nat /\ open' = <<f>> \o Tail(open)
    BY <1>2, <2>2 DEF Frame
  <2>8. f \in Frame /\ Sound(<<f>> \o Tail(open))
    BY <2>1, <2>2, <2>7, SoundCount
  <2>9. open' # <<>> /\ open'[1] = f
    <3>1. Tail(open) \in Seq(Frame)
      BY <2>1, <2>2, TailFacts DEF Sound
    <3>. QED
      BY <2>7, <2>8, <3>1
  <2>10. f.kind = "array" /\ f.at = open[1].at /\ f.written = n /\ f.child = open[1].child
    BY <2>1, <2>2 DEF Frame
  <2>11. open[1].at \in Nat /\ open[1].written \in Nat
    BY <2>2 DEF Frame
  <2>. HIDE DEF f, size
  <2>12. Filled(f) = pos'
    <3>1. Filled(f) = open[1].at + 16 + (open[1].written + 1) * size
      BY <2>10 DEF Filled, size
    <3>2. Filled(open[1]) = open[1].at + 16 + open[1].written * size
      BY <2>1 DEF Filled, size
    <3>3. Filled(f) = (open[1].at + 16 + open[1].written * size) + size
      BY <2>4, <2>11, <3>1, OneMoreElement, Zenon DEF size
    <3>. QED
      BY <2>2, <2>5, <2>6, <3>2, <3>3, Zenon
  <2>13. Good(out', pos', open')
    BY <2>6, <2>7, <2>8, <2>9, <2>10, <2>12 DEF Good
  <2>. QED
    BY <1>2, <2>1, <2>13, Refold
<1>. QED
  BY <1>1, <1>2 DEF SerializeElement

LEMMA EndArrayStep ==
  ASSUME IInv, EndArray
  PROVE  IInv'
<1>. DEFINE f == open[1]
            size == SIZE(f.child)
            bytes == Zeroes(Padding(f.written * size))
            len == 16 + f.written * size + Len(bytes)
            value == [t |-> SPA_TYPE_Array, child |-> f.child, vals |-> items[1]]
<1>1. CASE Fails("panic") \/ Fails("err")
  BY <1>1, FailsStep
<1>2. CASE Gen(bytes) /\ Succeed(Tail(open), Tail(items), f.key, len, value)
  <2>1. Good(out, pos, open) /\ status = "ok" /\ open # <<>> /\ f.kind = "array"
    BY Unfold DEF EndArray, InArray
  <2>2. /\ Sound(open) /\ f \in Frame /\ Len(open) \in Nat \ {0}
        /\ pos = Filled(f) /\ pos \in Nat
    BY <2>1, TailFacts DEF Good, Sound
  <2>3. f.at \in Nat /\ f.written * size \in Nat /\ Filled(f) = f.at + 16 + f.written * size
    BY <2>1, <2>2, FilledNat DEF Frame, Filled
  <2>4. /\ Padding(f.written * size) \in Nat
        /\ (f.written * size + Padding(f.written * size)) % 8 = 0
    BY <2>3, PaddingAligns
  <2>5. bytes \in Seq(Byte) /\ Len(bytes) = Padding(f.written * size)
    BY <2>4, ZeroesLength
  <2>6. Aligned(f.written * size + Len(bytes))
    BY <2>3, <2>4, <2>5 DEF Aligned
  <2>7. Aligned(16 + (f.written * size + Len(bytes)))
    BY <2>6, AlignedSum, Zenon
  <2>8. 16 + (f.written * size + Len(bytes)) = len
    BY <2>3, <2>4, <2>5
  <2>9. len \in Nat /\ Aligned(len)
    BY <2>7, <2>8, Zenon DEF Aligned
  <2>10. /\ Sound(Tail(open))
         /\ Tail(open) # <<>> => /\ Tail(open)[1].kind # "array"
                                /\ f.at = Filled(Tail(open)[1]) + KeyBytes(Tail(open)[1])
    BY <2>1, <2>2, SoundTail
  <2>11. /\ out' \in Seq(Byte) /\ pos' \in Nat
         /\ pos' = Len(out') /\ pos' = pos + Len(bytes)
    BY <1>2, <2>1, <2>5, GenStep
  <2>12. pos' = f.at + len
    <3>1. pos' = (f.at + 16 + f.written * size) + Len(bytes)
      BY <2>2, <2>3, <2>11, Zenon
    <3>2. Len(bytes) \in Nat
      BY <2>4, <2>5, Zenon
    <3>. QED
      BY <2>3, <3>1, <3>2, ArrayExtent, Zenon
  <2>13. (f.at - Start) % 8 = 0 /\ Start \in Nat
    BY <2>2, SerializerAssumption DEF Sound
  <2>14. (pos' - Start) % 8 = 0
    <3>1. ((f.at + len) - Start) % 8 = 0
      BY <2>3, <2>9, <2>13, StaysAligned
    <3>. QED
      BY <2>12, <3>1, Zenon
  <2>. HIDE DEF len, bytes, size, value
  <2>. DEFINE outer == Tail(open)
  <2>. HIDE DEF outer
  <2>15. /\ Sound(open')
         /\ outer = <<>> => status' = "done"
         /\ outer # <<>> => /\ status' = status
                            /\ open' # <<>> /\ open'[1].kind # "array"
                            /\ Filled(open'[1]) = f.at + len
    <3>1. /\ Sound(outer)
          /\ outer # <<>> => outer[1].kind # "array" /\ f.at = Filled(outer[1]) + KeyBytes(outer[1])
          /\ Succeed(outer, Tail(items), f.key, len, value)
      BY <1>2, <2>10 DEF outer
    <3>. QED
      BY <2>9, <3>1, SucceedStep
  <2>16. CASE outer = <<>>
    BY <2>11, <2>15, <2>16, RefoldStopped
  <2>17. CASE outer # <<>>
    <3>1. Good(out', pos', open')
      BY <2>11, <2>12, <2>14, <2>15, <2>17 DEF Good
    <3>. QED
      BY <2>1, <2>15, <2>17, <3>1, Refold
  <2>. QED
    BY <2>16, <2>17
<1>. QED
  BY <1>1, <1>2 DEF EndArray

(* end() finds the writer exactly behind the body it writes the size of.   *)
LEMMA EndExtent ==
  ASSUME IInv, End
  PROVE  /\ Good(out, pos, open) /\ status = "ok" /\ open # <<>>
         /\ open[1] \in Frame /\ FinalSize(open[1]) \in Nat
         /\ pos = open[1].at + (8 + FinalSize(open[1]))
         /\ (pos - Start) % 8 = 0
         /\ out' \in Seq(Byte) /\ Len(out') = Len(out)
         /\ pos' = Len(out')
<1>. DEFINE f == open[1]
<1>1. Good(out, pos, open) /\ status = "ok" /\ open # <<>> /\ f.kind # "array"
  BY Unfold DEF End, InArray
<1>2. /\ Sound(open) /\ f \in Frame /\ pos = Filled(f) /\ pos \in Nat /\ pos = Len(out)
      /\ out \in Seq(Byte) /\ (pos - Start) % 8 = 0
  BY <1>1, TailFacts DEF Good, Sound
<1>3. f.at \in Nat /\ f.written \in Nat /\ f.kind \in {"struct", "object"}
  BY <1>1, <1>2 DEF Frame
<1>4. FinalSize(f) \in Nat
  BY <1>3 DEF FinalSize
<1>5. f.written * 1 = f.written
  BY <1>3
<1>6. Filled(f) = f.at + (8 + FinalSize(f))
  BY <1>3, <1>5 DEF Filled, FinalSize
<1>. DEFINE header == Header(FinalSize(f), FinalType(f))
<1>7. header \in Seq(Byte) /\ Len(header) = 8
  BY <1>4, HeaderLength DEF FinalType, SPA_TYPE_Object, SPA_TYPE_Struct
<1>. HIDE DEF header
<1>8. /\ f.at \in 0 .. Len(out) /\ ~(f.at + Len(header) > Len(out)) /\ Len(out) \in Nat
  <2>. DEFINE place == f.at  size == FinalSize(f)
  <2>1. place \in Nat /\ size \in Nat /\ Len(out) = place + (8 + size)
    BY <1>2, <1>3, <1>4, <1>6, Zenon
  <2>. HIDE DEF place, size
  <2>2. place \in 0 .. Len(out) /\ ~(place + 8 > Len(out)) /\ Len(out) \in Nat
    BY <2>1, SMT
  <2>. QED
    BY <1>7, <2>2, Zenon DEF place
<1>9. /\ Overwritten(header, f.at) \in Seq(Byte)
      /\ Len(Overwritten(header, f.at))
           = IF f.at + Len(header) > Len(out) THEN f.at + Len(header) ELSE Len(out)
  BY <1>2, <1>7, <1>8, OverwrittenLength
<1>10. out' = Overwritten(header, f.at) /\ pos' = Len(out')
  BY DEF End, header
<1>. QED
  BY <1>1, <1>2, <1>4, <1>6, <1>8, <1>9, <1>10, Zenon

LEMMA EndStep ==
  ASSUME IInv, End
  PROVE  IInv'
<1>. DEFINE f == open[1]
            len == 8 + FinalSize(f)
            outer == Tail(open)
            value == [t |-> FinalType(f), type |-> f.type, items |-> items[1]]
<1>1. /\ Good(out, pos, open) /\ status = "ok" /\ open # <<>>
      /\ f \in Frame /\ len \in Nat /\ pos = f.at + len
      /\ (pos - Start) % 8 = 0
      /\ out' \in Seq(Byte) /\ Len(out') = Len(out) /\ pos' = Len(out')
  BY EndExtent
<1>2. Sound(open) /\ pos \in Nat /\ pos = Len(out)
  BY <1>1 DEF Good
<1>3. pos' = pos /\ pos' \in Nat
  BY <1>1, <1>2, Zenon
<1>4. /\ Sound(outer)
      /\ outer # <<>> => outer[1].kind # "array" /\ f.at = Filled(outer[1]) + KeyBytes(outer[1])
  BY <1>1, <1>2, SoundTail
<1>5. Succeed(outer, Tail(items), f.key, len, value)
  BY DEF End
<1>. HIDE DEF outer, len, value, f
<1>6. /\ Sound(open')
      /\ outer = <<>> => status' = "done"
      /\ outer # <<>> => /\ status' = status
                         /\ open' # <<>> /\ open'[1].kind # "array"
                         /\ Filled(open'[1]) = f.at + len
  BY <1>1, <1>4, <1>5, SucceedStep
<1>7. CASE outer = <<>>
  BY <1>1, <1>3, <1>6, <1>7, RefoldStopped
<1>8. CASE outer # <<>>
  <2>1. Good(out', pos', open')
    BY <1>1, <1>3, <1>6, <1>8 DEF Good
  <2>. QED
    BY <1>1, <1>6, <1>8, <2>1, Refold
<1>. QED
  BY <1>7, <1>8

(***************************************************************************)
(* The theorems.                                                           *)
(***************************************************************************)

(* The inductive invariant of a serializer whose writer is at its end. *)
THEOREM Invariant ==
  ASSUME Start = Existing
  PROVE  Spec => []IInv
<1>1. Init => IInv
  <2>. SUFFICES ASSUME Init PROVE IInv
    OBVIOUS
  <2>1. Existing \in Nat /\ Start \in Nat /\ Start = Existing
    BY SerializerAssumption
  <2>2. out \in Seq(Byte) /\ Len(out) = Existing
    BY <2>1, ZeroesLength DEF Init
  <2>3. pos = Existing /\ open = <<>> /\ status = "ok" /\ open \in Seq(Frame) /\ Len(open) = 0
    BY <2>1 DEF Init
  <2>4. (pos - Start) % 8 = 0
    BY <2>1, <2>3, SMT
  <2>. QED
    BY <2>1, <2>2, <2>3, <2>4
       DEF IInv, TypeOK, ArraysAreInnermost, CountersAreExact, AtTheEnd, FieldsEndAligned, InArray
<1>2. IInv /\ [Next]_vars => IInv'
  <2>. SUFFICES ASSUME IInv, [Next]_vars PROVE IInv'
    OBVIOUS
  <2>1. ASSUME NEW k \in KeysHere, NEW v \in Leaf, SerializeWhole(v, k) PROVE IInv'
    BY <2>1, WholeStep
  <2>2. ASSUME NEW k \in KeysHere, SerializeStruct(k) PROVE IInv'
    BY <2>2, StructStep
  <2>3. ASSUME NEW k \in KeysHere, NEW type \in Key, SerializeObject(k, type) PROVE IInv'
    BY <2>3, ObjectStep
  <2>4. ASSUME NEW k \in KeysHere, NEW t \in DOMAIN Child, NEW n \in 0 .. MaxItems,
               SerializeArray(k, t, n)
        PROVE  IInv'
    BY <2>4, ArrayStep
  <2>5. ASSUME InArray, NEW b \in Child[open[1].child], SerializeElement(b) PROVE IInv'
    BY <2>5, ElementStep
  <2>6. CASE EndArray
    BY <2>6, EndArrayStep
  <2>7. CASE End
    BY <2>7, EndStep
  <2>8. CASE GoOnAfterError
    BY <2>8, FailsStep DEF GoOnAfterError
  <2>9. CASE UNCHANGED vars
    BY <2>9 DEF vars, IInv, TypeOK, ArraysAreInnermost, CountersAreExact, AtTheEnd,
       FieldsEndAligned, InArray
  <2>. QED
    BY <2>1, <2>2, <2>3, <2>4, <2>5, <2>6, <2>7, <2>8, <2>9 DEF Next
<1>. QED
  BY <1>1, <1>2, PTL DEF Spec

(* The writer holds bytes, and every open container has a header in it. *)
THEOREM TypeCorrect ==
  ASSUME Start = Existing
  PROVE  Spec => []TypeOK
<1>1. IInv => TypeOK
  BY DEF IInv
<1>. QED
  BY <1>1, Invariant, PTL

(* The counts of written bytes agree with where the writer is. *)
THEOREM CountersExact ==
  ASSUME Start = Existing
  PROVE  Spec => []CountersAreExact
<1>1. IInv => CountersAreExact
  BY DEF IInv
<1>. QED
  BY <1>1, Invariant, PTL

(* No padding is needed where end() of a struct or an object writes none.  *)
THEOREM FieldsAligned ==
  ASSUME Start = Existing
  PROVE  Spec => []FieldsEndAligned
<1>1. IInv => FieldsEndAligned
  BY DEF IInv
<1>. QED
  BY <1>1, Invariant, PTL

(* SeekFrom::End(0) seeks back to where the writer was.                    *)
THEOREM SeeksBack ==
  ASSUME Start = Existing
  PROVE  Spec => EndSeeksBack
<1>1. IInv /\ [Next]_vars => [End => pos' = pos]_vars
  BY EndExtent, Zenon DEF Good
<1>. QED
  BY <1>1, Invariant, PTL DEF Spec, EndSeeksBack
=============================================================================
