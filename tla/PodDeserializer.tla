-------------------------- MODULE PodDeserializer --------------------------
(***************************************************************************)
(* PodDeserializer of libspa/src/pod/deserialize.rs: a pod is read from a  *)
(* slice by a visitor.  A struct or an object counts the bytes its fields  *)
(* took down from its size; an array or a choice computes from its size    *)
(* how many elements it holds.  Containers nest: each action is one call   *)
(* on the innermost deserializer, open[1].                                 *)
(*                                                                         *)
(* The visitor is ValueVisitor, which reads whatever is there, or one that *)
(* an application writes: it asks for types of its own choosing, stops     *)
(* when it likes and may go on after an error.                             *)
(***************************************************************************)
EXTENDS PodSlices

VARIABLES
  input,               \* the slice; PodDeserializer.input is its rest
  visitor,             \* "value" or "application"
  checks,              \* is the crate built with overflow checks?
  pos,                 \* how much of the slice has been read
  open,                \* the containers being read, innermost first
  items,               \* what was read from each of them
  status,              \* ok, done (Ok returned), err (Err returned), panic
  result               \* what deserialize_from returned: the value read

given == <<input, visitor, checks>>
vars == <<input, visitor, checks, pos, open, items, status, result>>

NoKey == <<0, 0>>

Init ==
  /\ input \in Input
  /\ visitor \in {"value", "application"}
  /\ checks \in BOOLEAN
  /\ pos = 0
  /\ open = <<>>
  /\ items = <<>>
  /\ status = "ok"
  /\ result = <<>>

-----------------------------------------------------------------------------
(* Parsers: what lies at offset p of the slice.                            *)

Has(p, n) == p + n <= Len(input)
BytesAt(p, n) == [i \in 1 .. n |-> input[p + i]]

U32At(p) ==
  input[p + 1] + 256 * input[p + 2] + 65536 * input[p + 3] + 16777216 * input[p + 4]

SizeAt(p) == U32At(p)
TypeAt(p) == U32At(p + 4)

(* header(type): the size, if the type is the one that is wanted. *)
HeaderAt(type, p) == Has(p, 8) /\ TypeAt(p) = type

(* Subtraction of u32: a panic with overflow checks, else it wraps. *)
Overflows(a, b) == checks /\ a < b
Minus(a, b) == IF a >= b THEN a - b ELSE a + Modulus - b

Parsed(next, v) == [outcome |-> "ok", next |-> next, value |-> v]
Failed(how) == [outcome |-> how, next |-> pos, value |-> <<>>]

(* A bool is any word; every other body is kept as it is. *)
FromBody(t, b) ==
  IF t = SPA_TYPE_Bool THEN U32(IF b = U32(0) THEN 0 ELSE 1) ELSE b

(* deserialize_fixed_sized_pod reads SIZE bytes whatever the header says;  *)
(* deserialize_none unwraps what it returns.                               *)
FixedSizedAt(t, p) ==
  IF ~HeaderAt(t, p) THEN Failed(IF t = SPA_TYPE_None THEN "panic" ELSE "err")
  ELSE IF ~Has(p + 8, SIZE(t) + Padding(SIZE(t))) THEN Failed("err")
  ELSE Parsed(p + 8 + SIZE(t) + Padding(SIZE(t)),
              [t |-> t, b |-> FromBody(t, BytesAt(p + 8, SIZE(t)))])

(* from_utf8, of the strings in Input: ASCII, or a byte that starts none. *)
Utf8(b) == \A i \in 1 .. Len(b) : b[i] < 128

StringAt(p) ==
  LET len == SizeAt(p) IN
  IF ~HeaderAt(SPA_TYPE_String, p) THEN Failed("err")
  ELSE IF Overflows(len, 1) THEN Failed("panic")
  ELSE IF /\ Has(p + 8, Minus(len, 1) + 1 + Padding(len))
          /\ input[p + 8 + len] = 0
          /\ Utf8(BytesAt(p + 8, len - 1))
       THEN Parsed(p + 8 + len + Padding(len),
                   [t |-> SPA_TYPE_String, b |-> BytesAt(p + 8, len - 1)])
       ELSE Failed("err")

BytesPodAt(p) ==
  LET len == SizeAt(p) IN
  IF ~(HeaderAt(SPA_TYPE_Bytes, p) /\ Has(p + 8, len + Padding(len))) THEN Failed("err")
  ELSE Parsed(p + 8 + len + Padding(len), [t |-> SPA_TYPE_Bytes, b |-> BytesAt(p + 8, len)])

(* deserialize_pointer: 8 bytes, or 4 and as many to skip. *)
PointerAt(p) ==
  LET size == Minus(SizeAt(p), 8)
      At(n) == [t |-> SPA_TYPE_Pointer, ptype |-> U32At(p + 8),
                b |-> BytesAt(p + 16, n) \o Zeroes(8 - n)] IN
  IF ~HeaderAt(SPA_TYPE_Pointer, p) \/ ~Has(p + 8, 8) THEN Failed("err")
  ELSE IF Overflows(SizeAt(p), 8) \/ size \notin {4, 8} THEN Failed("panic")
  ELSE IF Has(p + 16, 8) THEN Parsed(p + 24, At(size))
  ELSE Failed("err")

(* The pods that are read by one call. *)
Whole == FixedSized \cup {SPA_TYPE_String, SPA_TYPE_Bytes, SPA_TYPE_Pointer}

WholeAt(t, p) ==
  IF t = SPA_TYPE_String THEN StringAt(p)
  ELSE IF t = SPA_TYPE_Bytes THEN BytesPodAt(p)
  ELSE IF t = SPA_TYPE_Pointer THEN PointerAt(p)
  ELSE FixedSizedAt(t, p)

-----------------------------------------------------------------------------
InObject == open # <<>> /\ open[1].kind = "object"
InElements == open # <<>> /\ open[1].kind \in {"array", "choice"}

(* A property's value comes after its key and flags. *)
PodAt == IF InObject THEN pos + 8 ELSE pos
KeyHere == IF InObject THEN <<U32At(pos), U32At(pos + 4)>> ELSE NoKey

(* An array whose elements are read one by one by the application.         *)
ByHand == visitor = "application" /\ open[1].kind = "array"

(* What deserialize_any finds, or what the application asks for.           *)
Wants(t) ==
  IF visitor = "value" THEN Has(PodAt, 8) /\ TypeAt(PodAt) = t ELSE t \in Asked

(* A call fails: the deserializer is lost, the error goes to the visitor   *)
(* of the next container around.                                           *)
Fails(how, around) ==
  /\ status' = how
  /\ open' = around
  /\ UNCHANGED <<given, pos, items, result>>

(* The pod ends at next.  The field that it is takes its bytes, key and    *)
(* flags included, off what remains of the container around it.            *)
Completes(around, values, k, next, v) ==
  /\ UNCHANGED given
  /\ IF around = <<>>
     THEN /\ status' = "done" /\ result' = v /\ pos' = next
          /\ open' = <<>> /\ items' = <<>>
     ELSE IF Overflows(around[1].remaining, next - around[1].from)
     THEN /\ status' = "panic" /\ open' = around
          /\ UNCHANGED <<pos, items, result>>
     ELSE /\ pos' = next
          /\ open' = <<[around[1] EXCEPT
                          !.remaining = Minus(@, next - around[1].from),
                          !.from = next]>> \o Tail(around)
          /\ items' = <<Append(values[1], <<k, v>>)>> \o Tail(values)
          /\ UNCHANGED <<status, result>>

(* A field or property is read while bytes remain; else the call returns   *)
(* None and changes nothing.                                               *)
MayRead == status = "ok" /\ ~InElements /\ (open # <<>> => open[1].remaining # 0)

Opens(kind, k, end, from, remaining, type, child, length) ==
  /\ open' = <<[kind |-> kind, end |-> end, from |-> from, remaining |-> remaining, key |-> k,
                type |-> type, child |-> child, length |-> length, deserialized |-> 0]>> \o open
  /\ items' = <<<<>>>> \o items
  /\ pos' = from
  /\ UNCHANGED <<given, status, result>>

-----------------------------------------------------------------------------
(* What deserialize_any or the parse of key and flags cannot get past.     *)
NothingToRead ==
  /\ MayRead
  /\ \/ InObject /\ ~Has(pos, 8)
     \/ visitor = "value" /\ ~Has(PodAt, 8)
     \/ /\ visitor = "value" /\ Has(PodAt, 8)
        /\ TypeAt(PodAt) \notin Whole \cup {SPA_TYPE_Struct, SPA_TYPE_Object, SPA_TYPE_Array,
                                            SPA_TYPE_Choice}
  /\ Fails("err", open)

Starts(t) == MayRead /\ (InObject => Has(pos, 8)) /\ Wants(t)

ReadWhole(t) ==
  /\ Starts(t)
  /\ LET r == WholeAt(t, PodAt) IN
     IF r.outcome = "ok" THEN Completes(open, items, KeyHere, r.next, r.value)
                         ELSE Fails(r.outcome, open)

(* new_struct_deserializer *)
ReadStruct ==
  LET p == PodAt IN
  /\ Starts(SPA_TYPE_Struct)
  /\ IF ~HeaderAt(SPA_TYPE_Struct, p) THEN Fails("err", open)
     ELSE Opens("struct", KeyHere, p + 8 + SizeAt(p), p + 8, SizeAt(p),
                NoKey, SPA_TYPE_None, 0)

(* new_object_deserializer *)
ReadObject ==
  LET p == PodAt IN
  /\ Starts(SPA_TYPE_Object)
  /\ IF ~HeaderAt(SPA_TYPE_Object, p) \/ ~Has(p + 8, 8) THEN Fails("err", open)
     ELSE IF Overflows(SizeAt(p), 8) THEN Fails("panic", open)
     ELSE Opens("object", KeyHere, p + 8 + SizeAt(p), p + 16, Minus(SizeAt(p), 8),
                <<U32At(p + 8), U32At(p + 12)>>, SPA_TYPE_None, 0)

(* deserialize_array_any and new_array_deserializer.  The application asks *)
(* for elements of a type of its own.                                      *)
ReadArray(t) ==
  LET p == PodAt IN
  /\ Starts(SPA_TYPE_Array)
  /\ IF visitor = "value"
     THEN (Has(p + 8, 8) /\ TypeAt(p + 8) \in FixedSized) => TypeAt(p + 8) = t
     ELSE t \in Asked
  /\ IF \/ ~HeaderAt(SPA_TYPE_Array, p) \/ ~HeaderAt(t, p + 8)
        \/ SizeAt(p + 8) # SIZE(t)
     THEN Fails("err", open)
     ELSE IF SIZE(t) # 0 /\ Overflows(SizeAt(p), 8) THEN Fails("panic", open)
     ELSE Opens("array", KeyHere, p + 8 + SizeAt(p), p + 16, 0, NoKey, t,
                IF SIZE(t) = 0 THEN 0 ELSE Minus(SizeAt(p), 8) \div SIZE(t))

(* deserialize_choice, up to the first value *)
ReadChoice ==
  LET p == PodAt
      childSize == SizeAt(p + 16)
      childType == TypeAt(p + 16) IN
  /\ Starts(SPA_TYPE_Choice)
  /\ IF ~HeaderAt(SPA_TYPE_Choice, p) \/ ~Has(p + 8, 16) THEN Fails("err", open)
     ELSE IF Overflows(SizeAt(p), 16) \/ childSize = 0 THEN Fails("panic", open)
     ELSE IF childType \notin FixedSized \ Empty THEN Fails("err", open)
     ELSE Opens("choice", KeyHere, p + 8 + SizeAt(p), p + 24, 0,
                <<U32At(p + 8), U32At(p + 12)>>, childType,
                Minus(SizeAt(p), 16) \div childSize)

-----------------------------------------------------------------------------
(* The check in deserialize_element negates bit by bit: !deserialized < n. *)
TooMany(f) == Modulus - 1 - f.deserialized < f.length

(* deserialize_element: called once for each element, except by hand.      *)
ReadElement ==
  LET f == open[1]
      counted == <<[f EXCEPT !.deserialized = @ + 1]>> \o Tail(open) IN
  /\ status = "ok" /\ InElements
  /\ f.deserialized < f.length \/ ByHand
  /\ f.deserialized < f.length + MaxExtra
  /\ IF TooMany(f) THEN Fails("panic", Tail(open))
     ELSE IF Has(pos, SIZE(f.child))
     THEN /\ pos' = pos + SIZE(f.child)
          /\ open' = counted
          /\ items' = <<Append(items[1], FromBody(f.child, BytesAt(pos, SIZE(f.child))))>>
                        \o Tail(items)
          /\ UNCHANGED <<given, status, result>>
     ELSE \/ Fails("err", Tail(open))
          \/ /\ ByHand                  \* the error is dropped, the call counted
             /\ open' = counted
             /\ UNCHANGED <<given, pos, items, status, result>>

(* ArrayPodDeserializer::end, reached by all but a hand at length elements *)
EndElements(kind) ==
  /\ status = "ok" /\ InElements /\ open[1].kind = kind
  /\ open[1].deserialized = open[1].length \/ ByHand

AfterElements == pos + Padding(open[1].deserialized * SIZE(open[1].child))

EndArray ==
  LET f == open[1] IN
  /\ EndElements("array")
  /\ IF f.deserialized # f.length THEN Fails("panic", Tail(open))
     ELSE IF AfterElements > Len(input) THEN Fails("err", Tail(open))
     ELSE Completes(Tail(open), Tail(items), f.key, AfterElements,
                    [t |-> SPA_TYPE_Array, child |-> f.child, vals |-> items[1]])

(* create_choice: the values a kind needs; what is behind them is ignored, *)
(* but for Enum and Flags, which take all.                                 *)
Needed(kind) ==
  IF kind = SPA_CHOICE_Range THEN 3 ELSE IF kind = SPA_CHOICE_Step THEN 4 ELSE 1

Taken(kind, vals) ==
  IF kind \in {SPA_CHOICE_Enum, SPA_CHOICE_Flags} THEN vals
                                                  ELSE SubSeq(vals, 1, Needed(kind))

EndChoice ==
  LET f == open[1]
      kind == f.type[1] IN
  /\ EndElements("choice")
  /\ IF AfterElements > Len(input) \/ kind \notin ChoiceKind \/ Len(items[1]) < Needed(kind)
     THEN Fails("err", Tail(open))
     ELSE Completes(Tail(open), Tail(items), f.key, AfterElements,
                    [t |-> SPA_TYPE_Choice, kind |-> kind,
                     flags |-> IF kind = SPA_CHOICE_None THEN 0 ELSE f.type[2],
                     child |-> f.child, vals |-> Taken(kind, items[1])])

(* The visitor of a struct or object returns Ok: ValueVisitor when it gets *)
(* None, an application's when it likes.                                   *)
InFields == status = "ok" /\ open # <<>> /\ ~InElements
MayEnd == InFields /\ (visitor = "value" => open[1].remaining = 0)

EndType(f) == IF f.kind = "object" THEN SPA_TYPE_Object ELSE SPA_TYPE_Struct

(* Mutant: end does not assert that nothing remains. *)
EndUnchecked ==
  LET f == open[1] IN
  /\ MayEnd
  /\ Completes(Tail(open), Tail(items), f.key, pos,
               [t |-> EndType(f), type |-> f.type, items |-> items[1]])

(* StructPodDeserializer::end and ObjectPodDeserializer::end *)
End ==
  LET f == open[1] IN
  /\ MayEnd
  /\ IF f.remaining # 0 THEN Fails("panic", Tail(open))
     ELSE Completes(Tail(open), Tail(items), f.key, pos,
                    [t |-> EndType(f), type |-> f.type, items |-> items[1]])

(* An application's visitor returns an error of its own, or that of        *)
(* deserialize_property_key: PropertyMissing, PropertyWrongKey.            *)
Reject ==
  /\ status = "ok" /\ open # <<>> /\ visitor = "application"
  /\ Fails("err", Tail(open))

(* An application's visitor of a container around drops an error: the next *)
(* field finds no deserializer, and end finds bytes remaining.             *)
GoOnAfterError ==
  /\ status = "err" /\ visitor = "application" /\ open # <<>>
  /\ Fails("panic", Tail(open))

Next ==
  \/ NothingToRead
  \/ \E t \in Whole : ReadWhole(t)
  \/ ReadStruct \/ ReadObject \/ ReadChoice
  \/ \E t \in FixedSized : ReadArray(t)
  \/ ReadElement \/ EndArray \/ EndChoice \/ End
  \/ Reject \/ GoOnAfterError

Spec == Init /\ [][Next]_vars

-----------------------------------------------------------------------------
(* Properties                                                              *)

Frame == [kind : {"struct", "object", "array", "choice"}, end : Nat, from : Nat,
          remaining : Nat, key : Nat \X Nat, type : Nat \X Nat, child : FixedSized,
          length : Nat, deserialized : Nat]

HasFields(f) == f.kind \in {"struct", "object"}

(* The types, and: the slice is never read behind its end. *)
TypeOK ==
  /\ input \in Seq(Byte) /\ Len(input) < Modulus
  /\ pos \in 0 .. Len(input)
  /\ open \in Seq(Frame)
  /\ visitor \in {"value", "application"} /\ checks \in BOOLEAN
  /\ status \in {"ok", "done", "err", "panic"}

(* Elements are of fixed size: nothing is opened inside an array or choice. *)
ElementsAreInnermost == \A i \in 2 .. Len(open) : HasFields(open[i])

(* What a struct or object takes to remain is the way from where its next, *)
(* or current, field begins to where its size says it ends; modulo 2^32    *)
(* when a field went past that in a build without overflow checks.         *)
RemainingIsExact ==
  \A i \in 1 .. Len(open) :
    HasFields(open[i]) =>
      /\ open[i].remaining = Minus(open[i].end, open[i].from)
      /\ open[i].from <= pos

(* The innermost deserializer is between two fields. *)
BetweenFields == InFields => open[1].from = pos

(* The inductive invariant. *)
IInv ==
  /\ TypeOK
  /\ ElementsAreInnermost
  /\ RemainingIsExact
  /\ BetweenFields

(* A struct or object is only ever left where its header says it ends, by  *)
(* whatever visitor and in either build.                                   *)
LeftAtItsEnd ==
  [][(InFields /\ Len(open') < Len(open) /\ status' \in {"ok", "done"})
       => pos = open[1].end /\ pos' = pos]_vars
=============================================================================
