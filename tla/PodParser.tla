----------------------------- MODULE PodParser -----------------------------
(***************************************************************************)
(* Parser of libspa/src/pod/parser.rs, a wrapper of the native             *)
(* spa_pod_parser, and parser_get!, which asks it for the types a program  *)
(* expects.  A struct or object that is entered lends the parser a frame,  *)
(* a local variable, until it is popped; what was not read of it is        *)
(* skipped then.                                                           *)
(***************************************************************************)
EXTENDS PodLayout

CONSTANTS
  Input,               \* the slices that Parser::new may be given
  Asked,               \* the types of one word or more that are asked for
  ObjectType           \* the types of object that are asked for

(* What is asked of the constants; assumed where the module is used. *)
ParserAssumption ==
  /\ Input \subseteq Seq(Byte)
  /\ \A i \in Input : Len(i) < Modulus
  /\ Asked \subseteq (FixedSized \ Empty) \cup {SPA_TYPE_Bytes, SPA_TYPE_String, SPA_TYPE_Pointer}

VARIABLES
  input,               \* the slice the parser was made of
  pos,                 \* the parser's offset
  open,                \* the frames the parser links, innermost first
  items,               \* what was read from each of them
  status,              \* ok, done (the outermost call returned Ok), err,
                       \* undefined
  result               \* the value that was read

vars == <<input, pos, open, items, status, result>>

NoKey == <<0, 0>>

Init ==
  /\ input \in Input
  /\ pos = 0
  /\ open = <<>>
  /\ items = <<>>
  /\ status = "ok"
  /\ result = <<>>

-----------------------------------------------------------------------------
(* The native parser.                                                      *)

U32At(p) ==
  input[p + 1] + 256 * input[p + 2] + 65536 * input[p + 3] + 16777216 * input[p + 4]
SizeAt(p) == U32At(p)
TypeAt(p) == U32At(p + 4)
BytesAt(p, n) == [i \in 1 .. n |-> input[p + i]]

(* Where the innermost frame ends, or the slice. *)
Limit == IF open = <<>> THEN Len(input) ELSE open[1].at + 8 + open[1].size

(* current: the pod at the offset, if all of it is there. *)
HasPod == pos + 8 <= Limit /\ pos + 8 + SizeAt(pos) <= Limit

After(at, size) == at + 8 + size + Padding(size)

-----------------------------------------------------------------------------
(* Is a frame linked whose memory is gone?                                 *)
LinksGone == \E i \in DOMAIN open : ~open[i].alive

Usable == status = "ok" /\ ~LinksGone

(* Every parser_get! around a call leaves by `break` with its error: their *)
(* frames go, and the parser still links them.                             *)
Leaves == open' = [i \in DOMAIN open |-> [open[i] EXCEPT !.alive = FALSE]]

(* A call returns an error, to the macros around it or to a program that   *)
(* made it, and lent the frames, itself.                                   *)
Fails ==
  /\ status' = "err"
  /\ Leaves \/ UNCHANGED open
  /\ UNCHANGED <<input, pos, items, result>>

(* A value is read: it is assigned to the caller's variable. *)
Got(frames, around, next, v) ==
  /\ pos' = next
  /\ open' = frames
  /\ IF frames = <<>>
     THEN status' = "done" /\ result' = v /\ items' = <<>>
     ELSE items' = <<Append(around[1], <<NoKey, v>>)>> \o Tail(around) /\ UNCHANGED <<status, result>>
  /\ UNCHANGED input

(* get_string_raw makes a CStr of the bytes: it ends at the first NUL. *)
StringLength ==
  CHOOSE n \in 0 .. SizeAt(pos) - 1 :
    input[pos + 9 + n] = 0 /\ \A m \in 0 .. n - 1 : input[pos + 9 + m] # 0

(* A pod of the type that was asked for is there, and its body is fit.     *)
Asks(t, fit, v) ==
  /\ Usable
  /\ IF HasPod /\ TypeAt(pos) = t /\ fit THEN Got(open, items, After(pos, SizeAt(pos)), v) ELSE Fails

(* get_bool, get_id, get_int, get_long, get_float, get_double *)
GetScalar(t) ==
  /\ t \in Words \cup {SPA_TYPE_Long, SPA_TYPE_Double}
  /\ Asks(t, SizeAt(pos) >= SIZE(t),
          [t |-> t, b |-> IF t # SPA_TYPE_Bool THEN BytesAt(pos + 8, SIZE(t))
                          ELSE U32(IF BytesAt(pos + 8, 4) = U32(0) THEN 0 ELSE 1)])

(* get_fd, get_rectangle, get_fraction *)
GetPair(t) ==
  /\ t \in {SPA_TYPE_Fd, SPA_TYPE_Rectangle, SPA_TYPE_Fraction}
  /\ Asks(t, SizeAt(pos) >= SIZE(t), [t |-> t, b |-> BytesAt(pos + 8, SIZE(t))])

GetString ==
  /\ SPA_TYPE_String \in Asked
  /\ Asks(SPA_TYPE_String, SizeAt(pos) > 0 /\ input[pos + 8 + SizeAt(pos)] = 0,
          [t |-> SPA_TYPE_String, b |-> BytesAt(pos + 8, StringLength)])

GetBytes ==
  /\ SPA_TYPE_Bytes \in Asked
  /\ Asks(SPA_TYPE_Bytes, TRUE, [t |-> SPA_TYPE_Bytes, b |-> BytesAt(pos + 8, SizeAt(pos))])

GetPointer ==
  /\ SPA_TYPE_Pointer \in Asked
  /\ Asks(SPA_TYPE_Pointer, SizeAt(pos) >= 16,
          [t |-> SPA_TYPE_Pointer, ptype |-> U32At(pos + 8), b |-> BytesAt(pos + 16, 8)])

(* get_pod: whatever lies there, unread. *)
GetPod ==
  /\ Usable
  /\ IF HasPod
     THEN Got(open, items, After(pos, SizeAt(pos)),
              [t |-> SPA_TYPE_None, raw |-> BytesAt(pos, 8 + SizeAt(pos))])
     ELSE Fails

Pushed(type, next) ==
  /\ open' = <<[t |-> TypeAt(pos), at |-> pos, size |-> SizeAt(pos), type |-> type, alive |-> TRUE]>> \o open
  /\ items' = <<<<>>>> \o items
  /\ pos' = next
  /\ UNCHANGED <<input, status, result>>

PushStruct ==
  /\ Usable
  /\ IF HasPod /\ TypeAt(pos) = SPA_TYPE_Struct THEN Pushed(NoKey, pos + 8) ELSE Fails

(* push_object: the id is returned, and the offset is where the slice ends, *)
(* so nothing more is got in an object but its id.                         *)
PushObject(type) ==
  /\ Usable
  /\ IF HasPod /\ TypeAt(pos) = SPA_TYPE_Object /\ SizeAt(pos) >= 8 /\ U32At(pos + 8) = type
     THEN Pushed(<<type, U32At(pos + 12)>>, Len(input))
     ELSE Fails

(* Mutant: the parser goes on where the last field ended. *)
PopWhereRead ==
  /\ Usable /\ open # <<>>
  /\ Got(Tail(open), Tail(items), pos,
         [t |-> open[1].t, type |-> open[1].type, items |-> items[1]])

(* pop: the last frame is unlinked, the offset is set behind its pod. *)
PopFrame ==
  /\ Usable /\ open # <<>>
  /\ Got(Tail(open), Tail(items), After(open[1].at, open[1].size),
         [t |-> open[1].t, type |-> open[1].type, items |-> items[1]])

(* The error was handled; the same parser is asked for something else. *)
AskAgain ==
  /\ status = "err"
  /\ status' = "ok"
  /\ UNCHANGED <<input, pos, open, items, result>>

(* It looks up in the innermost frame where the pod ends, which is memory  *)
(* that is something else by now if parser_get! has left a struct.         *)
AskAfterLeaving ==
  /\ status = "ok" /\ LinksGone
  /\ status' = "undefined"
  /\ UNCHANGED <<input, pos, open, items, result>>

Next ==
  \/ \E t \in Asked : GetScalar(t) \/ GetPair(t)
  \/ GetString \/ GetBytes \/ GetPointer \/ GetPod \/ PushStruct
  \/ \E type \in ObjectType : PushObject(type)
  \/ PopFrame \/ AskAgain \/ AskAfterLeaving

Spec == Init /\ [][Next]_vars

-----------------------------------------------------------------------------
(* Properties                                                              *)

(* Nothing is read behind the slice, or of a pod's siblings. *)
StaysInside == pos <= Len(input) + 7 /\ \A i \in DOMAIN open : open[i].at + 8 + open[i].size <= Len(input)

(* "The provided frame must not be moved or destroyed before it is popped  *)
(* again": no call finds a frame linked that is gone.                      *)
CallsFindFrames == status # "undefined"
=============================================================================
