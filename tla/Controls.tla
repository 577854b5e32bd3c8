------------------------------ MODULE Controls ------------------------------
(***************************************************************************)
(* Run and reset control of a node: requests and completions that travel   *)
(* as SPA_PARAM_Props (pipewire/src/run_control.rs and reset_control.rs).  *)
(* The two files are one protocol with other keys, and a state in one of   *)
(* them.  A message is the object that was sent: a struct of fields, keys  *)
(* and values in turn, or something that is no such struct.  A key is      *)
(* <<control, name>>, so that its prefix can be seen.                      *)
(***************************************************************************)
EXTENDS Integers, Sequences

CONSTANTS Tokens,     \* i64 tokens that are tried,
          Results     \* and results of a completion

ASSUME ControlAssumption == Tokens \subseteq Int /\ Results \subseteq Int

Control == {"run", "reset"}
RunState == {"unknown", "stopped", "running"}
Version == 1

VARIABLES message,    \* the parameter as it was last set
          sent        \* what was meant by it, if it is as it was built

controlVars == <<message, sent>>

KeyOf(control, name) == [type |-> "Key", value |-> <<control, name>>]
IntOf(v) == [type |-> "Int", value |-> v]
LongOf(v) == [type |-> "Long", value |-> v]
TextOf(v) == [type |-> "String", value |-> v]

NoMessage == [object |-> "none", fields |-> <<>>]
Props(fields) == [object |-> "struct", fields |-> fields]

Taken(v) == [taken |-> <<v>>, error |-> <<>>]
Refused(e) == [taken |-> <<>>, error |-> e]

-----------------------------------------------------------------------------
RequestFields(control, token, state) ==
    <<KeyOf(control, "version"), IntOf(Version),
      KeyOf(control, "request-token"), LongOf(token)>>
    \o IF control = "run" THEN <<KeyOf(control, "requested-state"), TextOf(state)>> ELSE <<>>

BuildRequest(control, token, state) ==
    IF token <= 0 THEN Refused(<<"InvalidToken", token>>)
    ELSE IF control = "run" /\ state = "unknown" THEN Refused(<<"InvalidState", state>>)
    ELSE Taken(Props(RequestFields(control, token, state)))

\* What an owner sends when a request is done; the crate only reads it.
StatusFields(control, version, token, result, state) ==
    <<KeyOf(control, "version"), IntOf(version),
      KeyOf(control, "completed-token"), LongOf(token),
      KeyOf(control, "result"), IntOf(result)>>
    \o IF control = "run" THEN <<KeyOf(control, "actual-state"), TextOf(state)>> ELSE <<>>

\* fields(): the object has one struct, in which some key is of this control.
Fields(control, m) ==
    IF m.object # "struct"
    THEN Refused(IF m.object = "params" THEN <<"InvalidFields">> ELSE <<"InvalidObject">>)
    ELSE IF \E i \in DOMAIN m.fields : /\ i % 2 = 1 /\ m.fields[i].type = "Key"
                                       /\ m.fields[i].value[1] = control
         THEN Taken(m.fields)
         ELSE Refused(<<"NotControl">>)

\* The bug to be ruled out: the value's type is looked at, the key is not.
IsPairUnnamed(fields, pair, control, name, type) ==
    LET i == 2 * pair - 1
    IN  /\ i + 1 <= Len(fields) /\ fields[i + 1].type = type

\* pair_int(), pair_long() and pair_string(): a key and a value of its type at
\* a pair's place.
IsPair(fields, pair, control, name, type) ==
    LET i == 2 * pair - 1
    IN  /\ i + 1 <= Len(fields)
        /\ fields[i] = KeyOf(control, name) /\ fields[i + 1].type = type

PairValue(fields, pair) == fields[2 * pair].value

ParseRequest(control, m) ==
    LET found == Fields(control, m)
        fs == m.fields
    IN  IF found.error # <<>> THEN Refused(found.error)
        ELSE IF \/ Len(fs) # (IF control = "run" THEN 6 ELSE 4)
                \/ ~IsPair(fs, 1, control, "version", "Int") THEN Refused(<<"InvalidFields">>)
        ELSE IF PairValue(fs, 1) # Version THEN Refused(<<"UnsupportedVersion", PairValue(fs, 1)>>)
        ELSE IF ~IsPair(fs, 2, control, "request-token", "Long") THEN Refused(<<"InvalidFields">>)
        ELSE IF PairValue(fs, 2) <= 0 THEN Refused(<<"InvalidToken", PairValue(fs, 2)>>)
        ELSE IF control = "reset" THEN Taken([token |-> PairValue(fs, 2)])
        ELSE IF ~IsPair(fs, 3, control, "requested-state", "String") THEN Refused(<<"InvalidFields">>)
        ELSE IF PairValue(fs, 3) \notin RunState \ {"unknown"}
        THEN Refused(<<"InvalidState", PairValue(fs, 3)>>)
        ELSE Taken([token |-> PairValue(fs, 2), state |-> PairValue(fs, 3)])

ParseStatus(control, m) ==
    LET found == Fields(control, m)
        fs == m.fields
    IN  IF found.error # <<>> THEN Refused(found.error)
        ELSE IF \/ Len(fs) # (IF control = "run" THEN 8 ELSE 6)
                \/ ~IsPair(fs, 1, control, "version", "Int") THEN Refused(<<"InvalidFields">>)
        ELSE IF PairValue(fs, 1) # Version THEN Refused(<<"UnsupportedVersion", PairValue(fs, 1)>>)
        ELSE IF ~IsPair(fs, 2, control, "completed-token", "Long") THEN Refused(<<"InvalidFields">>)
        ELSE IF PairValue(fs, 2) < 0 THEN Refused(<<"InvalidToken", PairValue(fs, 2)>>)
        ELSE IF ~IsPair(fs, 3, control, "result", "Int") THEN Refused(<<"InvalidFields">>)
        ELSE IF control = "reset"
        THEN Taken([token |-> PairValue(fs, 2), result |-> PairValue(fs, 3)])
        ELSE IF ~IsPair(fs, 4, control, "actual-state", "String") THEN Refused(<<"InvalidFields">>)
        ELSE IF PairValue(fs, 4) \notin RunState THEN Refused(<<"InvalidState", PairValue(fs, 4)>>)
        ELSE Taken([token |-> PairValue(fs, 2), result |-> PairValue(fs, 3),
                    state |-> PairValue(fs, 4)])

-----------------------------------------------------------------------------
ControlInit == message = NoMessage /\ sent = <<>>

\* A controller's request.
Request(control, token, state) ==
    LET built == BuildRequest(control, token, state)
    IN  /\ built.error = <<>>
        /\ message' = Head(built.taken)
        /\ sent' = <<[control |-> control, kind |-> "request", is |->
                        IF control = "run" THEN [token |-> token, state |-> state]
                        ELSE [token |-> token]]>>

\* An owner's completion.
Complete(control, version, token, result, state) ==
    /\ message' = Props(StatusFields(control, version, token, result, state))
    /\ sent' = IF version # Version \/ token < 0 \/ (control = "run" /\ state \notin RunState)
               THEN <<>>
               ELSE <<[control |-> control, kind |-> "status", is |->
                         IF control = "run"
                         THEN [token |-> token, result |-> result, state |-> state]
                         ELSE [token |-> token, result |-> result]]>>

\* Props that are not as they were built: other parameters of the node, a pair
\* lost, repeated or exchanged with the next, a key or a value replaced.
OtherProps(object) ==
    /\ message' = [object |-> object, fields |-> <<>>]
    /\ sent' = <<>>

Altered(fs, pair, how) ==
    LET i == 2 * pair - 1
    IN  CASE how = "lost" -> SubSeq(fs, 1, i - 1) \o SubSeq(fs, i + 2, Len(fs))
          [] how = "repeated" -> fs \o SubSeq(fs, i, i + 1)
          [] how = "first" -> SubSeq(fs, i, i + 1) \o SubSeq(fs, 1, i - 1)
                              \o SubSeq(fs, i + 2, Len(fs))
          [] how = "other control" ->
               [fs EXCEPT ![i].value[1] = IF @ = "run" THEN "reset" ELSE "run"]
          [] how = "other type" ->
               [fs EXCEPT ![i + 1].type = IF @ = "Int" THEN "Long" ELSE "Int"]
          [] how = "other key" -> [fs EXCEPT ![i] = KeyOf("volume", "left")]

Alter(pair, how) ==
    /\ sent # <<>> /\ 2 * pair <= Len(message.fields)
    /\ how = "first" => pair > 1
    /\ message' = Props(Altered(message.fields, pair, how))
    /\ sent' = <<>>

Alterations == {"lost", "repeated", "first", "other control", "other type", "other key"}

ControlNext ==
    \/ \E c \in Control, t \in Tokens, s \in RunState : Request(c, t, s)
    \/ \E c \in Control, v \in {Version, 2}, t \in Tokens, r \in Results,
          s \in RunState \cup {"paused"} : Complete(c, v, t, r, s)
    \/ \E o \in {"other", "params", "struct"} : OtherProps(o)
    \/ \E p \in 1 .. 4, how \in Alterations : Alter(p, how)

ControlSpec == ControlInit /\ [][ControlNext]_controlVars

\* A message that was sent as built is understood by its own reader, as what
\* it said; every other message, whatever became of it on the way, and every
\* other reader's view of it is refused, so that controller and owner of two
\* controls share the Props of a node without taking each other's messages
\* (parse_request and parse_status of both files against build_request).
ControlsReadByOne ==
    \A c \in Control :
        LET Understood(kind, result) ==
                IF sent # <<>> /\ Head(sent).control = c /\ Head(sent).kind = kind
                THEN result.error = <<>> /\ Head(result.taken) = Head(sent).is
                ELSE result.error # <<>>
        IN  /\ Understood("request", ParseRequest(c, message))
            /\ Understood("status", ParseStatus(c, message))

=============================================================================
