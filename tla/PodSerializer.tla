--------------------------- MODULE PodSerializer ---------------------------
(***************************************************************************)
(* PodSerializer of libspa/src/pod/serialize.rs: a pod is streamed into a  *)
(* writer that can seek.  Arrays announce their length and are checked at  *)
(* their end; structs and objects are written with size 0 and their header *)
(* is rewritten at their end, from a count of the bytes each field         *)
(* reported.  Containers nest: each action is one call on the innermost    *)
(* serializer, open[1].                                                    *)
(***************************************************************************)
EXTENDS PodLayout

CONSTANTS
  Leaf,                \* values written by one call
  Key,                 \* keys and flags of properties: pairs of u32
  Child,               \* element bodies of each array type: [types -> sets]
  Existing,            \* bytes the writer holds when it is handed over
  Start,               \* the writer's position then
  Capacity,            \* where the writer ends; a Vec's is out of reach
  MaxDepth,            \* bound on nested containers
  MaxItems             \* bound on fields, properties and announced elements

ASSUME SerializerAssumption ==
  /\ Existing \in Nat /\ Start \in 0 .. Existing
  /\ Capacity \in Nat /\ Existing <= Capacity
  /\ MaxDepth \in Nat /\ MaxItems \in Nat
  /\ \A v \in Leaf : WholeValue(v)
  /\ Key \subseteq Nat \X Nat
  /\ DOMAIN Child \subseteq FixedSized
  /\ \A t \in DOMAIN Child : Child[t] \subseteq [1 .. SIZE(t) -> Byte]

VARIABLES
  out,                 \* what the writer holds
  pos,                 \* where it writes next
  open,                \* the containers being serialized, innermost first
  items,               \* history: what was written into each of them
  status,              \* ok, done (Ok returned), err (Err returned), panic
  result               \* what serialize() returned, with the value written

vars == <<out, pos, open, items, status, result>>

NoKey == <<0, 0>>
NoResult == [len |-> 0, value |-> <<>>]

Init ==
  /\ out = Zeroes(Existing)
  /\ pos = Start
  /\ open = <<>>
  /\ items = <<>>
  /\ status = "ok"
  /\ result = NoResult

-----------------------------------------------------------------------------
(* Bytes written at a position replace what is there and extend the end.   *)
Overwritten(bytes, at) ==
  LET end == at + Len(bytes) IN
  [i \in 1 .. (IF end > Len(out) THEN end ELSE Len(out)) |->
     IF i > at /\ i <= end THEN bytes[i - at] ELSE out[i]]

(* gen puts the writer back only on success: after an error it is gone,    *)
(* with whatever part of the bytes it took, and every later call finds     *)
(* that out.                                                               *)
Fits(bytes) == pos + Len(bytes) <= Capacity

Gen(bytes) ==
  /\ out' = Overwritten(bytes, pos)
  /\ pos' = pos + Len(bytes)

Fails(how) == status' = how /\ UNCHANGED <<out, pos, open, items, result>>

InObject == open # <<>> /\ open[1].kind = "object"
InArray == open # <<>> /\ open[1].kind = "array"

(* A property's value is preceded by its key and flags. *)
KeysHere == IF InObject THEN Key ELSE {NoKey}
Prefix(k) == IF InObject THEN U32(k[1]) \o U32(k[2]) ELSE <<>>

(* Mutant: the key and flags of a property are not counted. *)
AddedWithoutKey(f, len) == f.written + len

(* What serialize_field and serialize_property add to written. *)
Added(f, len) == f.written + len + (IF f.kind = "object" THEN 8 ELSE 0)

(* A pod of len bytes is complete: its caller gets the SerializeSuccess.   *)
Succeed(outer, around, k, len, v) ==
  IF outer = <<>>
  THEN /\ status' = "done" /\ result' = [len |-> len, value |-> v]
       /\ open' = <<>> /\ items' = <<>>
  ELSE /\ open' = <<[outer[1] EXCEPT !.written = Added(outer[1], len)]>> \o Tail(outer)
       /\ items' = <<Append(around[1], <<k, v>>)>> \o Tail(around)
       /\ UNCHANGED <<status, result>>

MayWrite ==
  /\ status = "ok" /\ ~InArray
  /\ open # <<>> => Len(items[1]) < MaxItems

-----------------------------------------------------------------------------
(* serialized_fixed_sized_pod, serialize_bytes, serialize_pointer,         *)
(* serialize_choice and serialize_string, which panics on an inner NUL.    *)
SerializeWhole(v, k) ==
  LET bytes == Prefix(k) \o SerializedWhole(v) IN
  /\ MayWrite
  /\ IF v.t = SPA_TYPE_String /\ \E i \in 1 .. Len(v.b) : v.b[i] = 0 THEN Fails("panic")
     ELSE IF ~Fits(bytes) THEN Fails("err")
     ELSE /\ Gen(bytes)
          /\ Succeed(open, items, k, Len(SerializedWhole(v)), v)

(* A container starts: its serializer remembers where its header is.       *)
Begin(kind, k, header, type, child, length) ==
  LET bytes == Prefix(k) \o header IN
  /\ MayWrite /\ Len(open) < MaxDepth
  /\ IF ~Fits(bytes) THEN Fails("err")
     ELSE /\ Gen(bytes)
          /\ open' = <<[kind |-> kind, at |-> pos + Len(Prefix(k)), written |-> 0, key |-> k,
                        type |-> type, child |-> child, length |-> length]>> \o open
          /\ items' = <<<<>>>> \o items
          /\ UNCHANGED <<status, result>>

SerializeStruct(k) == Begin("struct", k, Header(0, SPA_TYPE_Struct), NoKey, SPA_TYPE_None, 0)

SerializeObject(k, type) ==
  Begin("object", k, Header(0, SPA_TYPE_Object) \o U32(type[1]) \o U32(type[2]),
        type, SPA_TYPE_None, 0)

SerializeArray(k, t, length) ==
  Begin("array", k,
        Header((8 + length * SIZE(t)) % Modulus, SPA_TYPE_Array) \o Header(SIZE(t), t),
        NoKey, t, length)

(* The check in serialize_element negates bit by bit: !written < length.   *)
TooMany(f) == Modulus - 1 - f.written < f.length

SerializeElement(b) ==
  /\ status = "ok" /\ InArray
  /\ b \in Child[open[1].child] /\ open[1].written <= MaxItems
  /\ IF TooMany(open[1]) THEN Fails("panic")
     ELSE IF ~Fits(b) THEN Fails("err")
     ELSE /\ Gen(b)
          /\ open' = <<[open[1] EXCEPT !.written = @ + 1]>> \o Tail(open)
          /\ items' = <<Append(items[1], b)>> \o Tail(items)
          /\ UNCHANGED <<status, result>>

(* Mutant: the number of elements is not checked. *)
EndArrayUnchecked ==
  LET f == open[1]
      bytes == Zeroes(Padding(f.written * SIZE(f.child))) IN
  /\ status = "ok" /\ InArray
  /\ IF ~Fits(bytes) THEN Fails("err")
     ELSE /\ Gen(bytes)
          /\ Succeed(Tail(open), Tail(items), f.key, 16 + f.written * SIZE(f.child) + Len(bytes),
                     [t |-> SPA_TYPE_Array, child |-> f.child, vals |-> items[1]])

(* ArrayPodSerializer::end: assert_eq!, then the padding. *)
EndArray ==
  LET f == open[1]
      bytes == Zeroes(Padding(f.written * SIZE(f.child))) IN
  /\ status = "ok" /\ InArray
  /\ IF f.length # f.written THEN Fails("panic")
     ELSE IF ~Fits(bytes) THEN Fails("err")
     ELSE /\ Gen(bytes)
          /\ Succeed(Tail(open), Tail(items), f.key, 16 + f.written * SIZE(f.child) + Len(bytes),
                     [t |-> SPA_TYPE_Array, child |-> f.child, vals |-> items[1]])

(* The body's size, and the type, that end() writes into the header.       *)
FinalSize(f) == IF f.kind = "object" THEN f.written + 8 ELSE f.written
FinalType(f) == IF f.kind = "object" THEN SPA_TYPE_Object ELSE SPA_TYPE_Struct

(* Mutant: the writer is left behind the rewritten header. *)
EndNoSeek ==
  LET f == open[1] IN
  /\ status = "ok" /\ open # <<>> /\ ~InArray
  /\ out' = Overwritten(Header(FinalSize(f), FinalType(f)), f.at)
  /\ pos' = f.at + 8
  /\ Succeed(Tail(open), Tail(items), f.key, 8 + FinalSize(f),
             [t |-> FinalType(f), type |-> f.type, items |-> items[1]])

(* StructPodSerializer::end and ObjectPodSerializer::end: seek to the      *)
(* header, write it again, seek to the end of the writer.                  *)
End ==
  LET f == open[1] IN
  /\ status = "ok" /\ open # <<>> /\ ~InArray
  /\ out' = Overwritten(Header(FinalSize(f), FinalType(f)), f.at)
  /\ pos' = Len(out')
  /\ Succeed(Tail(open), Tail(items), f.key, 8 + FinalSize(f),
             [t |-> FinalType(f), type |-> f.type, items |-> items[1]])

(* A caller that goes on after a nested call failed finds no serializer,   *)
(* or no writer in it: expect panics.                                      *)
GoOnAfterError ==
  /\ status = "err" /\ open # <<>>
  /\ Fails("panic")

Next ==
  \/ \E k \in KeysHere :
       \/ \E v \in Leaf : SerializeWhole(v, k)
       \/ SerializeStruct(k)
       \/ \E type \in Key : SerializeObject(k, type)
       \/ \E t \in DOMAIN Child, n \in 0 .. MaxItems : SerializeArray(k, t, n)
  \/ InArray /\ \E b \in Child[open[1].child] : SerializeElement(b)
  \/ EndArray \/ End \/ GoOnAfterError

Spec == Init /\ [][Next]_vars

-----------------------------------------------------------------------------
(* Properties                                                              *)

Frame == [kind : {"struct", "object", "array"}, at : Nat, written : Nat, key : Nat \X Nat,
          type : Nat \X Nat, child : FixedSized, length : Nat]

TypeOK ==
  /\ out \in Seq(Byte)
  /\ pos \in Nat
  /\ open \in Seq(Frame)
  /\ \A i \in 1 .. Len(open) : open[i].kind = "array" => open[i].child \in DOMAIN Child
  /\ status \in {"ok", "done", "err", "panic"}

(* Where the next byte of a container goes, as its counter has it. *)
Filled(f) ==
  f.at + (IF f.kind = "struct" THEN 8 ELSE 16)
       + f.written * (IF f.kind = "array" THEN SIZE(f.child) ELSE 1)

KeyBytes(f) == IF f.kind = "object" THEN 8 ELSE 0

(* The counters agree with the positions, so the size that end() writes is *)
(* the size of what lies between the header and the writer, at any depth.  *)
CountersAreExact ==
  status = "ok" =>
    /\ open # <<>> => pos = Filled(open[1])
    /\ \A i \in 2 .. Len(open) : open[i - 1].at = Filled(open[i]) + KeyBytes(open[i])

(* A writer handed over at its end is always written at its end. *)
AtTheEnd == status = "ok" => pos = Len(out)

(* "No padding needed: Last field will already end aligned."  Headers, and *)
(* the end of every field, are a multiple of 8 from where the pod began.   *)
FieldsEndAligned ==
  status = "ok" =>
    /\ ~InArray => (pos - Start) % 8 = 0
    /\ \A i \in 1 .. Len(open) : (open[i].at - Start) % 8 = 0

(* Elements of an array are of fixed size: nothing is opened inside one. *)
ArraysAreInnermost == \A i \in 2 .. Len(open) : open[i].kind # "array"

(* The inductive invariant, for a writer handed over at its end. *)
IInv ==
  /\ TypeOK
  /\ ArraysAreInnermost
  /\ CountersAreExact
  /\ AtTheEnd
  /\ FieldsEndAligned

(* "Seek to header position, write header with updates size, seek back."   *)
EndSeeksBack == [][End => pos' = pos]_vars
=============================================================================
