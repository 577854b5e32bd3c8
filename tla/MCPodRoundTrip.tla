--------------------------- MODULE MCPodRoundTrip ---------------------------
(* Instances of PodRoundTrip for TLC.  The slices that come from elsewhere *)
(* are the encodings of values, with bytes behind them, cut short, or with *)
(* one word changed.                                                       *)
EXTENDS PodRoundTrip, MCPodSerializer

FixedPod(t, b) == [t |-> t, b |-> b]
BytesPod(b) == [t |-> SPA_TYPE_Bytes, b |-> b]
Ints(n) == [i \in 1 .. n |-> U32(i)]
ChoicePod(kind, flags, n) ==
  [t |-> SPA_TYPE_Choice, kind |-> kind, flags |-> flags, child |-> SPA_TYPE_Int,
   vals |-> Ints(n)]
ArrayPod(t, vals) == [t |-> SPA_TYPE_Array, child |-> t, vals |-> vals]
StructPod(fields) ==
  [t |-> SPA_TYPE_Struct, type |-> NoKey, items |-> [i \in DOMAIN fields |-> <<NoKey, fields[i]>>]]
ObjectPod(props) ==
  [t |-> SPA_TYPE_Object, type |-> <<3, 4>>, items |-> [i \in DOMAIN props |-> <<<<i, 1>>, props[i]>>]]

Leaves ==
  {FixedPod(SPA_TYPE_None, <<>>), FixedPod(SPA_TYPE_Bool, U32(1)), IntPod(7),
   FixedPod(SPA_TYPE_Long, U32(8) \o U32(0)), StringPod(<<>>), StringPod(<<97>>), StringPod(<<97, 0, 98>>),
   BytesPod(<<>>), BytesPod(<<1, 2, 3>>), BytesPod(<<1, 2, 3, 4, 5, 6, 7, 8>>),
   [t |-> SPA_TYPE_Pointer, ptype |-> 5, b |-> U32(9) \o U32(1)],
   ChoicePod(SPA_CHOICE_None, 0, 1), ChoicePod(SPA_CHOICE_Range, 6, 3), ChoicePod(SPA_CHOICE_Step, 0, 4),
   ChoicePod(SPA_CHOICE_Enum, 1, 2), ChoicePod(SPA_CHOICE_Flags, 0, 1),
   ArrayPod(SPA_TYPE_None, <<>>), ArrayPod(SPA_TYPE_Int, Ints(0)), ArrayPod(SPA_TYPE_Int, Ints(3)),
   ArrayPod(SPA_TYPE_Long, <<U32(1) \o U32(2), U32(3) \o U32(4)>>)}

Short == {IntPod(7), BytesPod(<<1, 2, 3>>), ChoicePod(SPA_CHOICE_Range, 0, 3), ArrayPod(SPA_TYPE_Int, Ints(1))}

(* Containers of each kind, side by side and three deep. *)
Nested ==
  {StructPod(<<>>), ObjectPod(<<>>),
   StructPod(<<StructPod(<<IntPod(1), StructPod(<<>>)>>), IntPod(2)>>),
   StructPod(<<ObjectPod(<<StructPod(<<IntPod(1)>>)>>), IntPod(2)>>),
   ObjectPod(<<StructPod(<<ArrayPod(SPA_TYPE_Int, Ints(1)), IntPod(1)>>), ObjectPod(<<IntPod(2)>>)>>)}

Values ==
  Leaves \cup Nested \cup {StructPod(<<v, w>>) : v, w \in Short} \cup {ObjectPod(<<v>>) : v \in Short}

Encoded == [v \in Values |-> Encode(v)]
Encodings == {Encoded[v] : v \in Values}

Behind == <<1, 2, 3, 4, 5, 6, 7, 8>>
Continued == {e \o Behind : e \in Encodings}

CutShort == UNION {{SubSeq(e, 1, n) : n \in 0 .. Len(e) - 1} : e \in Encodings}

(* The encodings that are also tried with one word changed. *)
Base == {Encoded[v] : v \in Nested \cup
            {IntPod(7), StringPod(<<97>>), ChoicePod(SPA_CHOICE_Range, 6, 3), ArrayPod(SPA_TYPE_Int, Ints(3)),
             [t |-> SPA_TYPE_Pointer, ptype |-> 5, b |-> U32(9) \o U32(1)],
             StructPod(<<IntPod(7), BytesPod(<<1, 2, 3>>)>>), ObjectPod(<<ChoicePod(SPA_CHOICE_Range, 0, 3)>>)}}
WithWord(e, k, n) == [i \in DOMAIN e |-> IF i \in 4 * k + 1 .. 4 * k + 4
                                         THEN U32(n)[i - 4 * k] ELSE e[i]]
Changed ==
  UNION {{WithWord(e, k, n) : k \in 0 .. (Len(e) \div 4) - 1, n \in {0, 4, 8, 12, 40}} : e \in Base}

Inputs == Encodings \cup Continued \cup CutShort \cup Changed

AskedTypes == {SPA_TYPE_None, SPA_TYPE_Int, SPA_TYPE_Array, SPA_TYPE_Struct, SPA_TYPE_Object}

(* What the builder is given, and what is asked of a parser. *)
BuiltLeaves ==
  {IntPod(7), FixedPod(SPA_TYPE_Fraction, U32(1) \o U32(2)), StringPod(<<97>>), StringPod(<<97, 0>>), BytesPod(<<1, 2, 3>>),
   [t |-> SPA_TYPE_Pointer, ptype |-> 5, b |-> U32(9) \o U32(1)]}
EnumKey == {<<3, 1>>}
ParsedTypes == {SPA_TYPE_Int, SPA_TYPE_Fraction, SPA_TYPE_Bytes, SPA_TYPE_String, SPA_TYPE_Pointer}

-----------------------------------------------------------------------------
(* Properties                                                              *)

(* Values that ValueVisitor can make of a pod: it knows no sequences, and  *)
(* choices only with the values that their kind needs.                     *)
RECURSIVE Readable(_)
Readable(v) ==
  CASE v.t \in {SPA_TYPE_Struct, SPA_TYPE_Object} -> \A i \in DOMAIN v.items : Readable(v.items[i][2])
    [] v.t = SPA_TYPE_Choice ->
         /\ v.kind \in ChoiceKind /\ v.child # SPA_TYPE_None
         /\ Len(v.vals) >= D!Needed(v.kind) /\ D!Taken(v.kind, v.vals) = v.vals
         /\ v.kind = SPA_CHOICE_None => v.flags = 0
    [] OTHER -> v.t # SPA_TYPE_Sequence

(* What the serializer or the builder wrote is read back as it was, from   *)
(* its bytes and no others, in either build; so is every slice that starts *)
(* with the encoding of a value.                                           *)
WellFormedIsRead ==
  phase = "deserialize" /\ state # "ok" /\ visitor = "value" =>
    /\ written # NotWritten /\ Readable(written) =>
         state = "done" /\ value = written /\ at = Len(Encode(written))
    /\ \A v \in Values :
         IsPrefix(Encoded[v], input) => state = "done" /\ value = v /\ at = Len(Encoded[v])

(* A pod that is cut short anywhere, its padding included, is an error and *)
(* not a panic.                                                            *)
TruncatedIsError ==
  phase = "deserialize" /\ visitor = "value" /\ input \in CutShort => state \notin {"done", "panic"}

(* A slice is read as the value it starts with, or refused if it holds     *)
(* only part of one: never less of it, never more (deserialize_from).      *)
SlicesAreReadWhole == WellFormedIsRead /\ TruncatedIsError

(* Whatever a builder was called with, its Vec holds the encoding of the   *)
(* value, in front of what it held there before.                           *)
BuiltIsEncoding ==
  phase = "build" /\ state = "done" =>
    LET e == Encode(value) IN
    /\ IsPrefix(e, native.data)
    /\ SubSeq(native.data, Len(e) + 1, Len(native.data)) =
         [i \in 1 .. (IF OldLength > Len(e) THEN OldLength - Len(e) ELSE 0) |-> B!OldByte]

(* r is w, as far as it was asked for: get_pod gives a pod's bytes, a      *)
(* struct that is popped early has only its first fields, an object none.  *)
RECURSIVE IsPartOf(_, _)
IsPartOf(r, w) ==
  \/ r.t = SPA_TYPE_None /\ IsPrefix(r.raw, Encode(w))
  \/ /\ r.t = w.t /\ r.t \in {SPA_TYPE_Struct, SPA_TYPE_Object}
     /\ r.type = w.type
     /\ Len(r.items) <= Len(w.items)
     /\ \A i \in DOMAIN r.items : IsPartOf(r.items[i][2], w.items[i][2])
  \/ r = w

(* What a parser says it read is what was written, at that place, whatever *)
(* was left unread in the structs before.                                  *)
ParsedIsWritten ==
  phase = "parse" /\ state = "done" => IsPartOf(value, written)
=============================================================================
