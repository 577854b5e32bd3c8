----------------------------- MODULE PodBuilder -----------------------------
(***************************************************************************)
(* Builder of libspa/src/pod/builder.rs, a wrapper of the native           *)
(* spa_pod_builder that grows a Vec from its overflow callback.  Whoever   *)
(* builds a container lends the builder a frame, a local variable, until   *)
(* it pops the container: the builder links the frames it was lent.  A     *)
(* builder is a record native; each operator below returns the next one.   *)
(***************************************************************************)
EXTENDS PodLayout

CONSTANTS
  Leaf,                \* values added by one call
  Key,                 \* what add_prop, add_control and push_* are given
  Child,               \* element bodies of each array type: [types -> sets]
  Existing,            \* bytes in the Vec when the builder is made
  MaxDepth,            \* bound on nested containers
  MaxItems,            \* bound on what is added to each of them
  MaxLength            \* bound on what is built before a value is added

(* What is asked of the constants; assumed where the module is used. *)
BuilderAssumption ==
  /\ Existing \in Nat /\ MaxDepth \in Nat /\ MaxItems \in Nat /\ MaxLength \in Nat
  /\ \A v \in Leaf : WholeValue(v)
  /\ Key \subseteq Nat \X Nat
  /\ DOMAIN Child \subseteq FixedSized \ Empty
  /\ \A t \in DOMAIN Child : Child[t] \subseteq [1 .. SIZE(t) -> Byte]

VARIABLES
  native,              \* the Vec and the spa_pod_builder that points into it
  open,                \* the containers under construction, innermost first
  items,               \* history: what was added to each of them
  status,              \* ok, done (the outermost call returned), undefined
  result               \* the value built

vars == <<native, open, items, status, result>>

NoKey == <<0, 0>>
OldByte == 255         \* what an old Vec holds

-----------------------------------------------------------------------------
(* The native builder and its callback.                                    *)

(* Builder::new: spa_pod_builder_init on the Vec's bytes, all its length. *)
New(length) ==
  [data |-> [i \in 1 .. length |-> OldByte], size |-> length, offset |-> 0,
   flags |-> "none", frames |-> <<>>, sound |-> TRUE]

(* Mutant: the Vec becomes size bytes longer, not size bytes long. *)
OverflowBy(n, size) ==
  [n EXCEPT !.data = @ \o Zeroes(size), !.size = Len(n.data) + size,
            !.sound = @ /\ size > Len(n.data)]

(* overflow: the Vec is resized, the builder told; sound is its assertion. *)
Overflow(n, size) ==
  [n EXCEPT !.data = @ \o Zeroes(size - Len(@)), !.size = size,
            !.sound = @ /\ size > Len(n.data)]

(* A frame that is linked counts what is written. *)
Counted(frame, length) == [frame EXCEPT !.size = @ + length]

(* spa_pod_builder_raw: bytes at the offset, counted by every frame. *)
Raw(n, bytes) ==
  LET end == n.offset + Len(bytes)
      room == IF end > n.size THEN Overflow(n, end) ELSE n IN
  [room EXCEPT
     !.data = [i \in DOMAIN @ |-> IF i \in n.offset + 1 .. end THEN bytes[i - n.offset] ELSE @[i]],
     !.offset = end,
     !.frames = [i \in DOMAIN @ |-> Counted(@[i], Len(bytes))]]

Pad(n, size) == Raw(n, Zeroes(Padding(size)))

(* raw_padded, and spa_pod_builder_primitive outside of arrays. *)
RawPadded(n, bytes) == Pad(Raw(n, bytes), Len(bytes))

(* In an array or choice the first child is written with its header, the   *)
(* others as bare bodies.                                                  *)
Primitive(n, t, body) ==
  IF n.flags = "body" THEN Raw(n, body)
  ELSE IF n.flags = "first" THEN [Raw(n, Header(Len(body), t) \o body) EXCEPT !.flags = "body"]
  ELSE RawPadded(n, Header(Len(body), t) \o body)

(* spa_pod_builder_push: the header is written, then the frame is linked.  *)
Push(n, t, size, rest) ==
  [Raw(n, Header(size, t) \o rest) EXCEPT
     !.frames = <<[type |-> t, at |-> n.offset, size |-> size, flags |-> n.flags, alive |-> TRUE]>> \o @,
     !.flags = IF t \in {SPA_TYPE_Array, SPA_TYPE_Choice} THEN "first" ELSE n.flags]

(* Mutant: the frame stays linked. *)
PopLinked(n) ==
  LET m == IF n.flags = "first" THEN Raw(n, Header(0, SPA_TYPE_None)) ELSE n
      f == m.frames[1]
      header == Header(f.size, f.type) IN
  Pad([m EXCEPT
         !.data = [i \in DOMAIN @ |-> IF i \in f.at + 1 .. f.at + 8 THEN header[i - f.at] ELSE @[i]],
         !.frames[1].alive = FALSE,
         !.flags = f.flags],
      m.offset)

(* spa_pod_builder_pop: the header is written again with the size counted, *)
(* if the builder's size has room for the pod; the frame is unlinked.      *)
Pop(n) ==
  LET m == IF n.flags = "first" THEN Raw(n, Header(0, SPA_TYPE_None)) ELSE n
      f == m.frames[1]
      header == Header(f.size, f.type) IN
  Pad([m EXCEPT
         !.data = IF f.at + 8 + f.size > m.size THEN @
                  ELSE [i \in DOMAIN @ |-> IF i \in f.at + 1 .. f.at + 8 THEN header[i - f.at] ELSE @[i]],
         !.frames = Tail(@),
         !.flags = f.flags],
      m.offset)

-----------------------------------------------------------------------------
Init ==
  /\ native = New(Existing)
  /\ open = <<>>
  /\ items = <<>>
  /\ status = "ok"
  /\ result = <<>>

(* What may be added here.  A property or control is announced by its key  *)
(* before its value; elements of an array or choice are of one type.       *)
InPairs == open # <<>> /\ open[1].t \in {SPA_TYPE_Object, SPA_TYPE_Sequence}
InElements == open # <<>> /\ open[1].t \in {SPA_TYPE_Array, SPA_TYPE_Choice}

(* Is a frame linked whose memory is gone?                                 *)
LinksGone == \E i \in DOMAIN native.frames : ~native.frames[i].alive

Usable == status = "ok" /\ ~LinksGone

MayAdd ==
  /\ Usable /\ ~InElements /\ native.offset <= MaxLength
  /\ InPairs => open[1].pending # <<>>
  /\ open # <<>> => Len(items[1]) < MaxItems

(* A value is complete: the next one, or the outermost call returns Ok. *)
Complete(o, h, v) ==
  IF o = <<>> THEN
    /\ open' = <<>> /\ items' = <<>>
    /\ status' = "done" /\ result' = v
  ELSE
    /\ open' = <<[o[1] EXCEPT !.pending = <<>>]>> \o Tail(o)
    /\ items' = <<Append(h[1], <<IF o[1].pending = <<>> THEN NoKey ELSE o[1].pending[1], v>>)>> \o Tail(h)
    /\ UNCHANGED <<status, result>>

(* add_none, add_bool, add_id, add_int, add_long, add_float, add_double *)
AddScalar(v) ==
  /\ MayAdd /\ v.t \in Empty \cup Words \cup {SPA_TYPE_Long, SPA_TYPE_Double}
  /\ native' = Primitive(native, v.t, v.b)
  /\ Complete(open, items, v)

(* add_fd, add_rectangle, add_fraction *)
AddPair(v) ==
  /\ MayAdd /\ v.t \in {SPA_TYPE_Fd, SPA_TYPE_Rectangle, SPA_TYPE_Fraction}
  /\ native' = Primitive(native, v.t, v.b)
  /\ Complete(open, items, v)

HasNul(b) == \E i \in DOMAIN b : b[i] = 0

(* What is on the stack goes away: every frame with it, and no container   *)
(* is under construction any more.  The builder still links the frames,    *)
(* and whoever lent it out can use it again.                               *)
Leaves ==
  /\ native' = [native EXCEPT !.frames = [i \in DOMAIN @ |-> [@[i] EXCEPT !.alive = FALSE]]]
  /\ open' = <<>> /\ items' = <<>>
  /\ UNCHANGED <<status, result>>

(* add_string: a CString of it panics at an interior NUL. *)
AddString(v) ==
  /\ MayAdd /\ v.t = SPA_TYPE_String
  /\ IF HasNul(v.b) THEN Leaves
     ELSE /\ native' = Pad(Raw(Raw(native, Header(Len(v.b) + 1, SPA_TYPE_String)), v.b \o <<0>>), Len(v.b) + 1)
          /\ Complete(open, items, v)

AddBytes(v) ==
  /\ MayAdd /\ v.t = SPA_TYPE_Bytes
  /\ native' = RawPadded(Raw(native, Header(Len(v.b), SPA_TYPE_Bytes)), v.b)
  /\ Complete(open, items, v)

AddPointer(v) ==
  /\ MayAdd /\ v.t = SPA_TYPE_Pointer
  /\ native' = Primitive(native, SPA_TYPE_Pointer, U32(v.ptype) \o U32(0) \o v.b)
  /\ Complete(open, items, v)

(* add_array: header, child's header and elements in one call. *)
AddArray(t, vals) ==
  LET body == Header(SIZE(t), t) \o Joined(vals, SIZE(t)) IN
  /\ MayAdd
  /\ native' = RawPadded(native, Header(Len(body), SPA_TYPE_Array) \o body)
  /\ Complete(open, items, [t |-> SPA_TYPE_Array, child |-> t, vals |-> vals])

(* push_*: a frame is lent; type holds the two words behind the header. *)
Open(t, type, child) ==
  /\ open' = <<[t |-> t, type |-> type, child |-> child, pending |-> <<>>]>> \o open
  /\ items' = <<<<>>>> \o items
  /\ UNCHANGED <<status, result>>

MayPush == MayAdd /\ Len(open) < MaxDepth

PushStruct ==
  /\ MayPush
  /\ native' = Push(native, SPA_TYPE_Struct, 0, <<>>)
  /\ Open(SPA_TYPE_Struct, NoKey, SPA_TYPE_None)

PushObject(type) ==
  /\ MayPush
  /\ native' = Push(native, SPA_TYPE_Object, 8, U32(type[1]) \o U32(type[2]))
  /\ Open(SPA_TYPE_Object, type, SPA_TYPE_None)

PushSequence(unit) ==
  /\ MayPush
  /\ native' = Push(native, SPA_TYPE_Sequence, 8, U32(unit) \o U32(0))
  /\ Open(SPA_TYPE_Sequence, <<unit, 0>>, SPA_TYPE_None)

PushArray(t) ==
  /\ MayPush
  /\ native' = Push(native, SPA_TYPE_Array, 0, <<>>)
  /\ Open(SPA_TYPE_Array, NoKey, t)

PushChoice(kind, flags, t) ==
  /\ MayPush
  /\ native' = Push(native, SPA_TYPE_Choice, 8, U32(kind) \o U32(flags))
  /\ Open(SPA_TYPE_Choice, <<kind, flags>>, t)

(* The key and flags of the next property; a macro's flags are 0. *)
AddProp(k) ==
  /\ Usable /\ InPairs /\ open[1].t = SPA_TYPE_Object
  /\ open[1].pending = <<>> /\ Len(items[1]) < MaxItems
  /\ native' = Raw(native, U32(k[1]) \o U32(k[2]))
  /\ open' = [open EXCEPT ![1].pending = <<k>>]
  /\ UNCHANGED <<items, status, result>>

AddControl(k) ==
  /\ Usable /\ InPairs /\ open[1].t = SPA_TYPE_Sequence
  /\ open[1].pending = <<>> /\ Len(items[1]) < MaxItems
  /\ native' = Raw(native, U32(k[1]) \o U32(k[2]))
  /\ open' = [open EXCEPT ![1].pending = <<k>>]
  /\ UNCHANGED <<items, status, result>>

AddElement(b) ==
  /\ Usable /\ InElements /\ Len(items[1]) < MaxItems
  /\ native' = Primitive(native, open[1].child, b)
  /\ items' = <<Append(items[1], b)>> \o Tail(items)
  /\ UNCHANGED <<open, status, result>>

(* The value that a container under construction has become. *)
BuiltValue(f, its) ==
  LET child == IF its = <<>> THEN SPA_TYPE_None ELSE f.child IN
  IF f.t = SPA_TYPE_Array THEN [t |-> f.t, child |-> child, vals |-> its]
  ELSE IF f.t = SPA_TYPE_Choice
       THEN [t |-> f.t, kind |-> f.type[1], flags |-> f.type[2], child |-> child, vals |-> its]
  ELSE [t |-> f.t, type |-> f.type, items |-> its]

(* Builder::pop, with the frame last lent. *)
PopFrame ==
  /\ Usable /\ open # <<>> /\ open[1].pending = <<>>
  /\ native' = Pop(native)
  /\ Complete(Tail(open), Tail(items), BuiltValue(open[1], items[1]))

(* builder_add! breaks out of its containers when an addition returns an   *)
(* error, and so do a `?`, a return or a panic in one of its arguments.    *)
LeaveEarly == Usable /\ open # <<>> /\ Leaves

(* Any further call: it adds to the size of the frames that are linked,    *)
(* which writes to memory that is something else by now.                   *)
CallAfterLeaving ==
  /\ status = "ok" /\ LinksGone
  /\ status' = "undefined"
  /\ UNCHANGED <<native, open, items, result>>

Next ==
  \/ \E v \in Leaf : AddScalar(v) \/ AddPair(v) \/ AddString(v) \/ AddBytes(v) \/ AddPointer(v)
  \/ \E t \in DOMAIN Child : \/ \E b \in Child[t] : AddArray(t, <<b, b>>)
                             \/ PushArray(t)
                             \/ \E k \in Key : PushChoice(k[1], k[2], t)
  \/ PushStruct
  \/ \E k \in Key : PushObject(k) \/ PushSequence(k[1]) \/ AddProp(k) \/ AddControl(k)
  \/ InElements /\ \E b \in Child[open[1].child] : AddElement(b)
  \/ PopFrame
  \/ LeaveEarly \/ CallAfterLeaving

Spec == Init /\ [][Next]_vars

-----------------------------------------------------------------------------
(* Properties                                                              *)

(* The assertion of overflow, that the size asked for exceeds data.len(), *)
(* holds: the builder's size is the Vec's length whenever it is used.      *)
OverflowIsSound == native.sound /\ native.size = Len(native.data)

(* The frames that are linked are those of the containers under            *)
(* construction, in their order, and exist; or a container was left early, *)
(* nothing is under construction, and all that is linked is gone.          *)
FramesAreThoseOpen ==
  /\ Len(native.frames) = Len(open)
  /\ \A i \in DOMAIN native.frames : native.frames[i].alive /\ native.frames[i].type = open[i].t

FramesAreAllGone ==
  /\ native.frames # <<>> /\ open = <<>> /\ status # "done"
  /\ \A i \in DOMAIN native.frames : ~native.frames[i].alive

(* "The provided frame must not be moved or destroyed before it is popped  *)
(* again": no call finds a frame linked that is gone.                      *)
CallsFindFrames == status # "undefined"

(* What a frame counts is what lies between its header and the offset. *)
FramesCountExactly ==
  \A i \in DOMAIN native.frames :
    native.offset = native.frames[i].at + 8 + native.frames[i].size
=============================================================================
