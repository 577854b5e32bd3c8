----------------------------- MODULE PodLayout -----------------------------
(***************************************************************************)
(* The raw pod format that libspa/src/pod writes and reads: a header of    *)
(* two u32 (the body's size in bytes, its type), the body, and zeroes up   *)
(* to the next multiple of 8.  Bytes are little-endian, as on every        *)
(* platform the bindings are built for.                                    *)
(***************************************************************************)
EXTENDS Integers, Sequences

CONSTANT Modulus       \* 2^32, the number of u32 values

ASSUME LayoutAssumption == Modulus \in Nat /\ Modulus > 255

SPA_TYPE_None == 1
SPA_TYPE_Bool == 2
SPA_TYPE_Id == 3
SPA_TYPE_Int == 4
SPA_TYPE_Long == 5
SPA_TYPE_Float == 6
SPA_TYPE_Double == 7
SPA_TYPE_String == 8
SPA_TYPE_Bytes == 9
SPA_TYPE_Rectangle == 10
SPA_TYPE_Fraction == 11
SPA_TYPE_Array == 13
SPA_TYPE_Struct == 14
SPA_TYPE_Object == 15
SPA_TYPE_Sequence == 16
SPA_TYPE_Pointer == 17
SPA_TYPE_Fd == 18
SPA_TYPE_Choice == 19

SPA_CHOICE_None == 0
SPA_CHOICE_Range == 1
SPA_CHOICE_Step == 2
SPA_CHOICE_Enum == 3
SPA_CHOICE_Flags == 4
ChoiceKind == SPA_CHOICE_None .. SPA_CHOICE_Flags

(* CanonicalFixedSizedPod: the types of fixed size, and their SIZE. *)
Empty == {SPA_TYPE_None}
Words == {SPA_TYPE_Bool, SPA_TYPE_Id, SPA_TYPE_Int, SPA_TYPE_Float}
Doubles == {SPA_TYPE_Long, SPA_TYPE_Double, SPA_TYPE_Rectangle, SPA_TYPE_Fraction, SPA_TYPE_Fd}
FixedSized == Empty \cup Words \cup Doubles

SIZE(t) == IF t \in Words THEN 4 ELSE IF t \in Doubles THEN 8 ELSE 0

-----------------------------------------------------------------------------
Byte == 0 .. 255

U32(n) ==
  <<n % 256, (n \div 256) % 256, (n \div 65536) % 256, (n \div 16777216) % 256>>

Zeroes(n) == [i \in 1 .. n |-> 0]

Header(size, type) == U32(size) \o U32(type)

Padding(size) == (8 - (size % 8)) % 8

(* write_pod: header, body, padding. *)
RawPod(size, type, body) == Header(size, type) \o body \o Zeroes(Padding(size))

(* Bodies of one size, one after the other. *)
Joined(bodies, size) ==
  [i \in 1 .. Len(bodies) * size |-> bodies[((i - 1) \div size) + 1][((i - 1) % size) + 1]]

-----------------------------------------------------------------------------
(* The pods that are written by one call.  A value is a record: its type t *)
(* and what that type holds.                                               *)

SerializedFixedSized(v) == RawPod(SIZE(v.t), v.t, v.b)
SerializedString(v) == RawPod(Len(v.b) + 1, SPA_TYPE_String, v.b \o <<0>>)
SerializedBytes(v) == RawPod(Len(v.b), SPA_TYPE_Bytes, v.b)
SerializedPointer(v) == RawPod(16, SPA_TYPE_Pointer, U32(v.ptype) \o U32(0) \o v.b)

(* Mutant: the size of a choice leaves out the child's header. *)
SerializedChoiceShort(v) ==
  LET size == SIZE(v.child) IN
  RawPod(8 + Len(v.vals) * size, SPA_TYPE_Choice,
         U32(v.kind) \o U32(v.flags) \o Header(size, v.child) \o Joined(v.vals, size))

(* A choice: kind and flags, the child's header, the default value first. *)
SerializedChoice(v) ==
  LET size == SIZE(v.child) IN
  RawPod(16 + Len(v.vals) * size, SPA_TYPE_Choice,
         U32(v.kind) \o U32(v.flags) \o Header(size, v.child) \o Joined(v.vals, size))

(* The values that one call can write, by type. *)
WholeValue(v) ==
  \/ v.t \in FixedSized /\ v.b \in [1 .. SIZE(v.t) -> Byte]
  \/ v.t \in {SPA_TYPE_String, SPA_TYPE_Bytes} /\ v.b \in Seq(Byte)
  \/ v.t = SPA_TYPE_Pointer /\ v.ptype \in Nat /\ v.b \in [1 .. 8 -> Byte]
  \/ /\ v.t = SPA_TYPE_Choice /\ v.kind \in Nat /\ v.flags \in Nat
     /\ v.child \in FixedSized \ Empty /\ v.vals \in Seq([1 .. SIZE(v.child) -> Byte])

SerializedWhole(v) ==
  IF v.t = SPA_TYPE_String THEN SerializedString(v)
  ELSE IF v.t = SPA_TYPE_Bytes THEN SerializedBytes(v)
  ELSE IF v.t = SPA_TYPE_Pointer THEN SerializedPointer(v)
  ELSE IF v.t = SPA_TYPE_Choice THEN SerializedChoice(v)
  ELSE SerializedFixedSized(v)
=============================================================================
