---------------------------- MODULE PodRoundTrip ----------------------------
(***************************************************************************)
(* The four coders of libspa/src/pod over one layout: what PodSerializer   *)
(* or Builder has written is given to PodDeserializer or to Parser.  A     *)
(* writer or a reader may also be all there is.                            *)
(***************************************************************************)
EXTENDS PodSerializer, PodSlices

CONSTANTS
  BuiltLeaf, BuiltKey, BuiltDepth, BuiltItems, MaxLength, \* the builder's
  OldLength,           \* bytes in the Vec that the builder is given
  ParsedType,          \* types that a parser is asked for
  MaxHandedOver        \* bound on the bytes of a pod that is handed to a reader

VARIABLES
  phase,               \* who is at work: serialize, build, deserialize, parse
  written,             \* the value that was written, when its pod is handed over
  native,              \* the builder
  input, visitor, checks,
  at,                  \* the reader's position
  frames, parts,       \* what the builder or the reader has open, and its items
  state, value         \* how the builder or the reader fares, and its result

second == <<native, input, visitor, checks, at, frames, parts, state, value>>
roundTripVars == <<vars, phase, written, second>>

B == INSTANCE PodBuilder WITH
       Leaf <- BuiltLeaf, Key <- BuiltKey, Existing <- OldLength,
       MaxDepth <- BuiltDepth, MaxItems <- BuiltItems,
       open <- frames, items <- parts, status <- state, result <- value

D == INSTANCE PodDeserializer WITH
       pos <- at, open <- frames, items <- parts, status <- state, result <- value

P == INSTANCE PodParser WITH
       Asked <- ParsedType, ObjectType <- {k[1] : k \in BuiltKey},
       pos <- at, open <- frames, items <- parts, status <- state, result <- value

ASSUME RoundTripAssumption ==
  /\ B!BuilderAssumption /\ P!ParserAssumption
  /\ MaxHandedOver \in 0 .. Modulus - 1

NotWritten == <<>>

NoBuilder == native = B!New(0)
NoReader == input = <<>> /\ visitor = "value" /\ checks = TRUE /\ at = 0

RoundTripInit ==
  /\ Init
  /\ written = NotWritten
  /\ \/ /\ phase = "serialize" /\ NoBuilder /\ NoReader
        /\ frames = <<>> /\ parts = <<>> /\ state = "ok" /\ value = <<>>
     \/ phase = "build" /\ B!Init /\ NoReader
     \/ phase = "deserialize" /\ D!Init /\ NoBuilder

-----------------------------------------------------------------------------
Serialize == phase = "serialize" /\ Next /\ UNCHANGED <<phase, written, second>>
Build == phase = "build" /\ B!Next /\ UNCHANGED <<vars, phase, written, input, visitor, checks, at>>
Deserialize == phase = "deserialize" /\ D!Next /\ UNCHANGED <<vars, phase, written, native>>
Parse == phase = "parse" /\ P!Next /\ UNCHANGED <<vars, phase, written, native, visitor, checks>>

(* A complete pod is handed to a reader: the bytes it occupies, and what   *)
(* lies behind it in the buffer.                                           *)
Give(bytes, v) ==
  /\ Len(bytes) <= MaxHandedOver
  /\ input' = bytes
  /\ written' = v
  /\ at' = 0 /\ frames' = <<>> /\ parts' = <<>> /\ state' = "ok" /\ value' = <<>>
  /\ \/ phase' = "deserialize" /\ visitor' = "value" /\ checks' \in BOOLEAN
     \/ phase' = "parse" /\ UNCHANGED <<visitor, checks>>
  /\ native' = B!New(0)
  /\ UNCHANGED vars

HandOver ==
  \/ /\ phase = "serialize" /\ status = "done"
     /\ Give(SubSeq(out, Start + 1, Len(out)), result.value)
  \/ /\ phase = "build" /\ state = "done"
     /\ Give(native.data, value)

RoundTripNext == Serialize \/ Build \/ Deserialize \/ Parse \/ HandOver

RoundTripSpec == RoundTripInit /\ [][RoundTripNext]_roundTripVars

-----------------------------------------------------------------------------
(* Properties                                                              *)

(* Of any pod, a struct or object is only ever left where its header says  *)
(* it ends, whatever the visitor and in either build.                      *)
LeftAtItsEnd == [][Deserialize => (D!InFields /\ Len(frames') < Len(frames) /\ state' \in {"ok", "done"}
                                     => at = frames[1].end /\ at' = at)]_roundTripVars

(* A builder links the frames of the containers under construction and no  *)
(* others, until one of them is left early: then it links only frames that *)
(* are gone, whatever is called next (push_*, pop, builder_add!).          *)
FramesMatchContainers ==
  phase = "build" => B!FramesAreThoseOpen \/ B!FramesAreAllGone

(* "The provided frame must not be moved or destroyed before it is popped  *)
(* again" (builder.rs, parser.rs): whenever a builder or a parser is       *)
(* called, the frames it links exist, although a builder_add! or a         *)
(* parser_get! has left a container early and the error was handled.       *)
LinkedFramesAreAlive ==
  /\ phase = "build" => B!CallsFindFrames
  /\ phase = "parse" => P!CallsFindFrames

(* A container is left early while a builder or a parser links its frame.  *)
LeavesContainer ==
  /\ frames # <<>>
  /\ \/ phase = "build" /\ B!Leaves
     \/ phase = "parse" /\ P!Leaves

(* A discipline of the programs that call them, which no type asks for.    *)
NothingLeftEarly == [][~LeavesContainer]_roundTripVars

(* The builder's idea of its size is the Vec's length, so the assertion in *)
(* overflow holds and nothing is written beyond the Vec.                   *)
OverflowIsSound == phase = "build" => B!OverflowIsSound
=============================================================================
