--------------------------- MODULE ProcessingProofs ---------------------------
(***************************************************************************)
(* Proofs about a node that processes arrays, for any widths, tokens,      *)
(* formats and sizes.  Controls: a message is read by its own reader only. *)
(***************************************************************************)
EXTENDS NdArrays, Controls, WellFoundedInduction, TLAPS

-----------------------------------------------------------------------------
(* What a reader of run or reset control takes.                            *)

Reader == {"request", "status"}

Name(kind, pair) ==
  IF kind = "request" THEN <<"version", "request-token", "requested-state">>[pair]
  ELSE <<"version", "completed-token", "result", "actual-state">>[pair]

Type(kind, pair) ==
  IF kind = "request" THEN <<"Int", "Long", "String">>[pair]
  ELSE <<"Int", "Long", "Int", "String">>[pair]

Pairs(control, kind) ==
  IF kind = "request" THEN (IF control = "run" THEN 3 ELSE 2)
  ELSE (IF control = "run" THEN 4 ELSE 3)

(* The pairs of a message of this control and kind, whatever their values. *)
Conforms(control, kind, fs) ==
  /\ Len(fs) = 2 * Pairs(control, kind)
  /\ \A p \in 1 .. Pairs(control, kind) :
       /\ fs[2 * p - 1] = KeyOf(control, Name(kind, p))
       /\ fs[2 * p].type = Type(kind, p)

(* What a reader of this control and kind makes of a message. *)
Reads(control, kind, m) ==
  IF kind = "request" THEN ParseRequest(control, m) ELSE ParseStatus(control, m)

(* Errors are told from results, whatever is in them. *)
LEMMA ErrorsAreSome ==
  \A a, b : <<a>> # <<>> /\ <<a, b>> # <<>>
OBVIOUS

(* The fields of the message a reader looks at are those of the struct. *)
LEMMA FoundFields ==
  ASSUME NEW c, NEW m, Fields(c, m).error = <<>>
  PROVE  m.object = "struct"
<1>1. ASSUME m.object # "struct" PROVE Fields(c, m).error # <<>>
  <2>1. CASE m.object = "params"
    BY <1>1, <2>1, ErrorsAreSome DEF Fields, Refused
  <2>2. CASE m.object # "params"
    BY <1>1, <2>2, ErrorsAreSome DEF Fields, Refused
  <2> QED
    BY <2>1, <2>2
<1> QED
  BY <1>1

LEMMA RefusedIsAnError ==
  \A e : Refused(e).error = e
BY DEF Refused

(* A reader takes nothing but a message of its control and kind. *)
LEMMA RequestTakenConforms ==
  ASSUME NEW c \in Control, NEW m, ParseRequest(c, m).error = <<>>
  PROVE  Conforms(c, "request", m.fields)
<1> DEFINE fs == m.fields
<1>1. Fields(c, m).error = <<>>
  BY RefusedIsAnError DEF ParseRequest
<1>2. /\ Len(fs) = (IF c = "run" THEN 6 ELSE 4)
      /\ IsPair(fs, 1, c, "version", "Int")
  <2> SUFFICES ASSUME ~(/\ Len(fs) = (IF c = "run" THEN 6 ELSE 4)
                        /\ IsPair(fs, 1, c, "version", "Int"))
               PROVE  FALSE
    OBVIOUS
  <2>1. ParseRequest(c, m) = Refused(<<"InvalidFields">>)
    BY <1>1 DEF ParseRequest
  <2> QED
    BY <2>1, RefusedIsAnError, ErrorsAreSome
<1>3. PairValue(fs, 1) = Version
  <2> SUFFICES ASSUME PairValue(fs, 1) # Version PROVE FALSE
    OBVIOUS
  <2>1. ParseRequest(c, m) = Refused(<<"UnsupportedVersion", PairValue(fs, 1)>>)
    BY <1>1, <1>2 DEF ParseRequest
  <2> QED
    BY <2>1, RefusedIsAnError, ErrorsAreSome
<1>4. IsPair(fs, 2, c, "request-token", "Long")
  <2> SUFFICES ASSUME ~IsPair(fs, 2, c, "request-token", "Long") PROVE FALSE
    OBVIOUS
  <2>1. ParseRequest(c, m) = Refused(<<"InvalidFields">>)
    BY <1>1, <1>2, <1>3 DEF ParseRequest
  <2> QED
    BY <2>1, RefusedIsAnError, ErrorsAreSome
<1>5. c = "reset" \/ IsPair(fs, 3, c, "requested-state", "String")
  <2> SUFFICES ASSUME c # "reset", ~IsPair(fs, 3, c, "requested-state", "String") PROVE FALSE
    OBVIOUS
  <2>1. \/ ParseRequest(c, m) = Refused(<<"InvalidFields">>)
        \/ ParseRequest(c, m) = Refused(<<"InvalidToken", PairValue(fs, 2)>>)
    BY <1>1, <1>2, <1>3, <1>4 DEF ParseRequest
  <2> QED
    BY <2>1, RefusedIsAnError, ErrorsAreSome
<1>6. c = "run" \/ c = "reset"
  BY DEF Control
<1>7. ASSUME NEW p \in 1 .. Pairs(c, "request")
      PROVE  fs[2 * p - 1] = KeyOf(c, Name("request", p)) /\ fs[2 * p].type = Type("request", p)
  <2>1. CASE p = 1
    BY <1>2, <2>1 DEF IsPair, Name, Type
  <2>2. CASE p = 2
    BY <1>4, <2>2 DEF IsPair, Name, Type
  <2>3. CASE p = 3
    <3>1. c # "reset"
      BY <1>7, <2>3 DEF Pairs
    <3> QED
      BY <1>5, <2>3, <3>1 DEF IsPair, Name, Type
  <2> QED
    BY <1>7, <2>1, <2>2, <2>3 DEF Pairs
<1>8. Len(fs) = 2 * Pairs(c, "request")
  BY <1>2, <1>6 DEF Pairs
<1> QED
  BY <1>7, <1>8 DEF Conforms

LEMMA StatusTakenConforms ==
  ASSUME NEW c \in Control, NEW m, ParseStatus(c, m).error = <<>>
  PROVE  Conforms(c, "status", m.fields)
<1> DEFINE fs == m.fields
<1>1. Fields(c, m).error = <<>>
  BY RefusedIsAnError DEF ParseStatus
<1>2. /\ Len(fs) = (IF c = "run" THEN 8 ELSE 6)
      /\ IsPair(fs, 1, c, "version", "Int")
  <2> SUFFICES ASSUME ~(/\ Len(fs) = (IF c = "run" THEN 8 ELSE 6)
                        /\ IsPair(fs, 1, c, "version", "Int"))
               PROVE  FALSE
    OBVIOUS
  <2>1. ParseStatus(c, m) = Refused(<<"InvalidFields">>)
    BY <1>1 DEF ParseStatus
  <2> QED
    BY <2>1, RefusedIsAnError, ErrorsAreSome
<1>3. PairValue(fs, 1) = Version
  <2> SUFFICES ASSUME PairValue(fs, 1) # Version PROVE FALSE
    OBVIOUS
  <2>1. ParseStatus(c, m) = Refused(<<"UnsupportedVersion", PairValue(fs, 1)>>)
    BY <1>1, <1>2 DEF ParseStatus
  <2> QED
    BY <2>1, RefusedIsAnError, ErrorsAreSome
<1>4. IsPair(fs, 2, c, "completed-token", "Long")
  <2> SUFFICES ASSUME ~IsPair(fs, 2, c, "completed-token", "Long") PROVE FALSE
    OBVIOUS
  <2>1. ParseStatus(c, m) = Refused(<<"InvalidFields">>)
    BY <1>1, <1>2, <1>3 DEF ParseStatus
  <2> QED
    BY <2>1, RefusedIsAnError, ErrorsAreSome
<1>5. IsPair(fs, 3, c, "result", "Int")
  <2> SUFFICES ASSUME ~IsPair(fs, 3, c, "result", "Int") PROVE FALSE
    OBVIOUS
  <2>1. \/ ParseStatus(c, m) = Refused(<<"InvalidFields">>)
        \/ ParseStatus(c, m) = Refused(<<"InvalidToken", PairValue(fs, 2)>>)
    BY <1>1, <1>2, <1>3, <1>4 DEF ParseStatus
  <2> QED
    BY <2>1, RefusedIsAnError, ErrorsAreSome
<1>6. c = "run" \/ c = "reset"
  BY DEF Control
<1>7. c = "reset" \/ IsPair(fs, 4, c, "actual-state", "String")
  <2> SUFFICES ASSUME c # "reset", ~IsPair(fs, 4, c, "actual-state", "String") PROVE FALSE
    OBVIOUS
  <2>1. \/ ParseStatus(c, m) = Refused(<<"InvalidFields">>)
        \/ ParseStatus(c, m) = Refused(<<"InvalidToken", PairValue(fs, 2)>>)
    BY <1>1, <1>2, <1>3, <1>4, <1>5 DEF ParseStatus
  <2> QED
    BY <2>1, RefusedIsAnError, ErrorsAreSome
<1>8. ASSUME NEW p \in 1 .. Pairs(c, "status")
      PROVE  fs[2 * p - 1] = KeyOf(c, Name("status", p)) /\ fs[2 * p].type = Type("status", p)
  <2>1. CASE p = 1
    BY <1>2, <2>1 DEF IsPair, Name, Type
  <2>2. CASE p = 2
    BY <1>4, <2>2 DEF IsPair, Name, Type
  <2>3. CASE p = 3
    BY <1>5, <2>3 DEF IsPair, Name, Type
  <2>4. CASE p = 4
    <3>1. c # "reset"
      BY <1>8, <2>4 DEF Pairs
    <3> QED
      BY <1>7, <2>4, <3>1 DEF IsPair, Name, Type
  <2> QED
    BY <1>8, <2>1, <2>2, <2>3, <2>4 DEF Pairs
<1>9. Len(fs) = 2 * Pairs(c, "status")
  BY <1>2, <1>6 DEF Pairs
<1> QED
  BY <1>8, <1>9 DEF Conforms

LEMMA TakenConforms ==
  ASSUME NEW c \in Control, NEW kind \in Reader, NEW m,
         Reads(c, kind, m).error = <<>>
  PROVE  Conforms(c, kind, m.fields)
BY RequestTakenConforms, StatusTakenConforms DEF Reads, Reader

-----------------------------------------------------------------------------
(* What the two builders build, and what their own readers make of it.     *)

(* The fields of a struct, whatever they hold. *)
IsSequence(fs) == \E S : fs \in Seq(S)

LEMMA ReaderFindsItsKey ==
  ASSUME NEW c \in Control, NEW fs, IsSequence(fs), NEW name,
         1 <= Len(fs), fs[1] = KeyOf(c, name)
  PROVE  Fields(c, Props(fs)).error = <<>>
<1>1. Props(fs).object = "struct" /\ Props(fs).fields = fs
  BY DEF Props
<1>2. 1 \in DOMAIN fs /\ (1 % 2) = 1
  BY DEF IsSequence
<1>3. fs[1].type = "Key" /\ fs[1].value[1] = c
  BY DEF KeyOf
<1>4. Fields(c, Props(fs)) = Taken(fs)
  BY <1>1, <1>2, <1>3 DEF Fields
<1> QED
  BY <1>4 DEF Taken

LEMMA Joined ==
  ASSUME NEW S, NEW es \in Seq(S), NEW gs \in Seq(S)
  PROVE  /\ es \o gs \in Seq(S) /\ Len(es \o gs) = Len(es) + Len(gs)
         /\ \A i \in 1 .. Len(es) + Len(gs) :
              (es \o gs)[i] = IF i <= Len(es) THEN es[i] ELSE gs[i - Len(es)]
OBVIOUS

LEMMA ResetRequestIsBuilt ==
  ASSUME NEW t \in Int, NEW s
  PROVE  LET fs == RequestFields("reset", t, s)
         IN  /\ IsSequence(fs) /\ Len(fs) = 4
             /\ fs[1] = KeyOf("reset", "version") /\ fs[2] = IntOf(Version)
             /\ fs[3] = KeyOf("reset", "request-token") /\ fs[4] = LongOf(t)
<1> DEFINE fs == RequestFields("reset", t, s)
           es == <<KeyOf("reset", "version"), IntOf(Version)>>
           gs == <<KeyOf("reset", "request-token"), LongOf(t)>>
           S == {es[i] : i \in 1 .. 2} \cup {gs[i] : i \in 1 .. 2}
<1>1. fs = es \o gs
  BY DEF RequestFields
<1>2. es \in Seq(S) /\ gs \in Seq(S) /\ Len(es) = 2 /\ Len(gs) = 2
  OBVIOUS
<1> HIDE DEF S, es, gs, fs
<1>3. /\ es \o gs \in Seq(S) /\ Len(es \o gs) = 4
      /\ \A i \in 1 .. 4 : (es \o gs)[i] = IF i <= 2 THEN es[i] ELSE gs[i - 2]
  <2>1. /\ es \o gs \in Seq(S) /\ Len(es \o gs) = Len(es) + Len(gs)
        /\ \A i \in 1 .. Len(es) + Len(gs) :
             (es \o gs)[i] = IF i <= Len(es) THEN es[i] ELSE gs[i - Len(es)]
    BY <1>2, Joined, Zenon
  <2>2. Len(es) + Len(gs) = 4
    BY <1>2
  <2> QED
    BY <1>2, <2>1, <2>2, Zenon
<1>4. fs \in Seq(S) /\ Len(fs) = 4
  BY <1>1, <1>3, Zenon
<1>5. \A i \in 1 .. 4 : fs[i] = IF i <= 2 THEN es[i] ELSE gs[i - 2]
  BY <1>1, <1>3, Zenon
<1>6. fs[1] = es[1] /\ fs[2] = es[2]
      /\ fs[3] = gs[1] /\ fs[4] = gs[2]
  BY <1>5
<1> QED
  BY <1>4, <1>6 DEF IsSequence, es, gs, fs

LEMMA RunRequestIsBuilt ==
  ASSUME NEW t \in Int, NEW s
  PROVE  LET fs == RequestFields("run", t, s)
         IN  /\ IsSequence(fs) /\ Len(fs) = 6
             /\ fs[1] = KeyOf("run", "version") /\ fs[2] = IntOf(Version)
             /\ fs[3] = KeyOf("run", "request-token") /\ fs[4] = LongOf(t)
             /\ fs[5] = KeyOf("run", "requested-state") /\ fs[6] = TextOf(s)
<1> DEFINE fs == RequestFields("run", t, s)
           es == <<KeyOf("run", "version"), IntOf(Version),
                   KeyOf("run", "request-token"), LongOf(t)>>
           gs == <<KeyOf("run", "requested-state"), TextOf(s)>>
           S == {es[i] : i \in 1 .. 4} \cup {gs[i] : i \in 1 .. 2}
<1>1. fs = es \o gs
  BY DEF RequestFields
<1>2. es \in Seq(S) /\ gs \in Seq(S) /\ Len(es) = 4 /\ Len(gs) = 2
  OBVIOUS
<1> HIDE DEF S, es, gs, fs
<1>3. /\ es \o gs \in Seq(S) /\ Len(es \o gs) = 6
      /\ \A i \in 1 .. 6 : (es \o gs)[i] = IF i <= 4 THEN es[i] ELSE gs[i - 4]
  <2>1. /\ es \o gs \in Seq(S) /\ Len(es \o gs) = Len(es) + Len(gs)
        /\ \A i \in 1 .. Len(es) + Len(gs) :
             (es \o gs)[i] = IF i <= Len(es) THEN es[i] ELSE gs[i - Len(es)]
    BY <1>2, Joined, Zenon
  <2>2. Len(es) + Len(gs) = 6
    BY <1>2
  <2> QED
    BY <1>2, <2>1, <2>2, Zenon
<1>4. fs \in Seq(S) /\ Len(fs) = 6
  BY <1>1, <1>3, Zenon
<1>5. \A i \in 1 .. 6 : fs[i] = IF i <= 4 THEN es[i] ELSE gs[i - 4]
  BY <1>1, <1>3, Zenon
<1>6. fs[1] = es[1] /\ fs[2] = es[2] /\ fs[3] = es[3] /\ fs[4] = es[4]
      /\ fs[5] = gs[1] /\ fs[6] = gs[2]
  BY <1>5
<1> QED
  BY <1>4, <1>6 DEF IsSequence, es, gs, fs

LEMMA ResetStatusIsBuilt ==
  ASSUME NEW v \in Int, NEW t \in Int, NEW r \in Int, NEW s
  PROVE  LET fs == StatusFields("reset", v, t, r, s)
         IN  /\ IsSequence(fs) /\ Len(fs) = 6
             /\ fs[1] = KeyOf("reset", "version") /\ fs[2] = IntOf(v)
             /\ fs[3] = KeyOf("reset", "completed-token") /\ fs[4] = LongOf(t)
             /\ fs[5] = KeyOf("reset", "result") /\ fs[6] = IntOf(r)
<1> DEFINE fs == StatusFields("reset", v, t, r, s)
           es == <<KeyOf("reset", "version"), IntOf(v),
                   KeyOf("reset", "completed-token"), LongOf(t)>>
           gs == <<KeyOf("reset", "result"), IntOf(r)>>
           S == {es[i] : i \in 1 .. 4} \cup {gs[i] : i \in 1 .. 2}
<1>1. fs = es \o gs
  BY DEF StatusFields
<1>2. es \in Seq(S) /\ gs \in Seq(S) /\ Len(es) = 4 /\ Len(gs) = 2
  OBVIOUS
<1> HIDE DEF S, es, gs, fs
<1>3. /\ es \o gs \in Seq(S) /\ Len(es \o gs) = 6
      /\ \A i \in 1 .. 6 : (es \o gs)[i] = IF i <= 4 THEN es[i] ELSE gs[i - 4]
  <2>1. /\ es \o gs \in Seq(S) /\ Len(es \o gs) = Len(es) + Len(gs)
        /\ \A i \in 1 .. Len(es) + Len(gs) :
             (es \o gs)[i] = IF i <= Len(es) THEN es[i] ELSE gs[i - Len(es)]
    BY <1>2, Joined, Zenon
  <2>2. Len(es) + Len(gs) = 6
    BY <1>2
  <2> QED
    BY <1>2, <2>1, <2>2, Zenon
<1>4. fs \in Seq(S) /\ Len(fs) = 6
  BY <1>1, <1>3, Zenon
<1>5. \A i \in 1 .. 6 : fs[i] = IF i <= 4 THEN es[i] ELSE gs[i - 4]
  BY <1>1, <1>3, Zenon
<1>6. fs[1] = es[1] /\ fs[2] = es[2] /\ fs[3] = es[3] /\ fs[4] = es[4]
      /\ fs[5] = gs[1] /\ fs[6] = gs[2]
  BY <1>5
<1> QED
  BY <1>4, <1>6 DEF IsSequence, es, gs, fs

LEMMA RunStatusIsBuilt ==
  ASSUME NEW v \in Int, NEW t \in Int, NEW r \in Int, NEW s
  PROVE  LET fs == StatusFields("run", v, t, r, s)
         IN  /\ IsSequence(fs) /\ Len(fs) = 8
             /\ fs[1] = KeyOf("run", "version") /\ fs[2] = IntOf(v)
             /\ fs[3] = KeyOf("run", "completed-token") /\ fs[4] = LongOf(t)
             /\ fs[5] = KeyOf("run", "result") /\ fs[6] = IntOf(r)
             /\ fs[7] = KeyOf("run", "actual-state") /\ fs[8] = TextOf(s)
<1> DEFINE fs == StatusFields("run", v, t, r, s)
           es == <<KeyOf("run", "version"), IntOf(v),
                   KeyOf("run", "completed-token"), LongOf(t),
                   KeyOf("run", "result"), IntOf(r)>>
           gs == <<KeyOf("run", "actual-state"), TextOf(s)>>
           S == {es[i] : i \in 1 .. 6} \cup {gs[i] : i \in 1 .. 2}
<1>1. fs = es \o gs
  BY DEF StatusFields
<1>2. es \in Seq(S) /\ gs \in Seq(S) /\ Len(es) = 6 /\ Len(gs) = 2
  OBVIOUS
<1> HIDE DEF S, es, gs, fs
<1>3. /\ es \o gs \in Seq(S) /\ Len(es \o gs) = 8
      /\ \A i \in 1 .. 8 : (es \o gs)[i] = IF i <= 6 THEN es[i] ELSE gs[i - 6]
  <2>1. /\ es \o gs \in Seq(S) /\ Len(es \o gs) = Len(es) + Len(gs)
        /\ \A i \in 1 .. Len(es) + Len(gs) :
             (es \o gs)[i] = IF i <= Len(es) THEN es[i] ELSE gs[i - Len(es)]
    BY <1>2, Joined, Zenon
  <2>2. Len(es) + Len(gs) = 8
    BY <1>2
  <2> QED
    BY <1>2, <2>1, <2>2, Zenon
<1>4. fs \in Seq(S) /\ Len(fs) = 8
  BY <1>1, <1>3, Zenon
<1>5. \A i \in 1 .. 8 : fs[i] = IF i <= 6 THEN es[i] ELSE gs[i - 6]
  BY <1>1, <1>3, Zenon
<1>6. fs[1] = es[1] /\ fs[2] = es[2] /\ fs[3] = es[3] /\ fs[4] = es[4] /\ fs[5] = es[5] /\ fs[6] = es[6]
      /\ fs[7] = gs[1] /\ fs[8] = gs[2]
  BY <1>5
<1> QED
  BY <1>4, <1>6 DEF IsSequence, es, gs, fs

(* What a reader makes of the values of a message that conforms. *)
LEMMA RequestIsRead ==
  ASSUME NEW c \in Control, NEW fs, IsSequence(fs), Conforms(c, "request", fs),
         fs[2].value = Version, fs[4].value > 0, fs[4].value \in Int,
         c = "run" => fs[6].value \in RunState \ {"unknown"}
  PROVE  ParseRequest(c, Props(fs)) =
           Taken(IF c = "run" THEN [token |-> fs[4].value, state |-> fs[6].value]
                 ELSE [token |-> fs[4].value])
<1> DEFINE m == Props(fs)
<1>1. m.fields = fs
  BY DEF Props
<1>2. c = "run" \/ c = "reset"
  BY DEF Control
<1>3. Len(fs) = (IF c = "run" THEN 6 ELSE 4)
  BY <1>2 DEF Conforms, Pairs
<1>4. fs[1] = KeyOf(c, "version") /\ fs[2].type = "Int"
  <2>1. 1 \in 1 .. Pairs(c, "request")
    BY DEF Pairs
  <2> QED
    BY <2>1 DEF Conforms, Name, Type
<1>5. fs[3] = KeyOf(c, "request-token") /\ fs[4].type = "Long"
  <2>1. 2 \in 1 .. Pairs(c, "request")
    BY DEF Pairs
  <2> QED
    BY <2>1 DEF Conforms, Name, Type
<1>6. c = "run" => fs[5] = KeyOf(c, "requested-state") /\ fs[6].type = "String"
  <2> SUFFICES ASSUME c = "run" PROVE fs[5] = KeyOf(c, "requested-state") /\ fs[6].type = "String"
    OBVIOUS
  <2>1. 3 \in 1 .. Pairs(c, "request")
    BY DEF Pairs
  <2> QED
    BY <2>1 DEF Conforms, Name, Type
<1>7. Fields(c, m).error = <<>>
  BY <1>3, <1>4, ReaderFindsItsKey
<1>8. /\ IsPair(fs, 1, c, "version", "Int") /\ IsPair(fs, 2, c, "request-token", "Long")
      /\ c = "run" => IsPair(fs, 3, c, "requested-state", "String")
  BY <1>3, <1>4, <1>5, <1>6 DEF IsPair
<1>9. PairValue(fs, 1) = fs[2].value /\ PairValue(fs, 2) = fs[4].value
      /\ PairValue(fs, 3) = fs[6].value
  BY DEF PairValue
<1>10. ~(fs[4].value <= 0)
  OBVIOUS
<1>11. fs[2].value = Version
  OBVIOUS
<1> HIDE DEF m
<1>12. CASE c = "run"
  <2>1. ParseRequest(c, m) = Taken([token |-> fs[4].value, state |-> fs[6].value])
    <3>1. ~(fs[6].value \notin RunState \ {"unknown"}) /\ c # "reset"
      BY <1>12
    <3> QED
      BY <1>1, <1>3, <1>7, <1>8, <1>9, <1>10, <1>11, <1>12, <3>1 DEF ParseRequest
  <2> QED
    BY <1>12, <2>1 DEF m
<1>13. CASE c = "reset"
  <2>1. ParseRequest(c, m) = Taken([token |-> fs[4].value])
    BY <1>1, <1>3, <1>7, <1>8, <1>9, <1>10, <1>11, <1>13 DEF ParseRequest
  <2> QED
    BY <1>13, <2>1 DEF m
<1> QED
  BY <1>2, <1>12, <1>13

LEMMA StatusIsRead ==
  ASSUME NEW c \in Control, NEW fs, IsSequence(fs), Conforms(c, "status", fs),
         fs[2].value \in Int, fs[4].value \in Int
  PROVE  LET valid == /\ fs[2].value = Version /\ fs[4].value >= 0
                      /\ c = "run" => fs[8].value \in RunState
             parsed == ParseStatus(c, Props(fs))
         IN  /\ valid => parsed =
                  Taken(IF c = "run"
                        THEN [token |-> fs[4].value, result |-> fs[6].value, state |-> fs[8].value]
                        ELSE [token |-> fs[4].value, result |-> fs[6].value])
             /\ ~valid => parsed.error # <<>>
<1> DEFINE m == Props(fs)
<1>1. m.fields = fs
  BY DEF Props
<1>2. c = "run" \/ c = "reset"
  BY DEF Control
<1>3. Len(fs) = (IF c = "run" THEN 8 ELSE 6)
  BY <1>2 DEF Conforms, Pairs
<1>4. fs[1] = KeyOf(c, "version") /\ fs[2].type = "Int"
  <2>1. 1 \in 1 .. Pairs(c, "status")
    BY DEF Pairs
  <2> QED
    BY <2>1 DEF Conforms, Name, Type
<1>5. fs[3] = KeyOf(c, "completed-token") /\ fs[4].type = "Long"
  <2>1. 2 \in 1 .. Pairs(c, "status")
    BY DEF Pairs
  <2> QED
    BY <2>1 DEF Conforms, Name, Type
<1>6. fs[5] = KeyOf(c, "result") /\ fs[6].type = "Int"
  <2>1. 3 \in 1 .. Pairs(c, "status")
    BY DEF Pairs
  <2> QED
    BY <2>1 DEF Conforms, Name, Type
<1>7. c = "run" => fs[7] = KeyOf(c, "actual-state") /\ fs[8].type = "String"
  <2> SUFFICES ASSUME c = "run" PROVE fs[7] = KeyOf(c, "actual-state") /\ fs[8].type = "String"
    OBVIOUS
  <2>1. 4 \in 1 .. Pairs(c, "status")
    BY DEF Pairs
  <2> QED
    BY <2>1 DEF Conforms, Name, Type
<1>8. Fields(c, m).error = <<>>
  BY <1>3, <1>4, ReaderFindsItsKey
<1>9. /\ IsPair(fs, 1, c, "version", "Int") /\ IsPair(fs, 2, c, "completed-token", "Long")
      /\ IsPair(fs, 3, c, "result", "Int")
      /\ c = "run" => IsPair(fs, 4, c, "actual-state", "String")
  BY <1>3, <1>4, <1>5, <1>6, <1>7 DEF IsPair
<1>10. PairValue(fs, 1) = fs[2].value /\ PairValue(fs, 2) = fs[4].value
       /\ PairValue(fs, 3) = fs[6].value /\ PairValue(fs, 4) = fs[8].value
  BY DEF PairValue
<1>11. fs[4].value >= 0 <=> ~(fs[4].value < 0)
  OBVIOUS
<1> HIDE DEF m
<1>12. CASE fs[2].value # Version
  <2>1. ParseStatus(c, m) = Refused(<<"UnsupportedVersion", PairValue(fs, 1)>>)
    BY <1>1, <1>3, <1>8, <1>9, <1>10, <1>12 DEF ParseStatus
  <2> QED
    BY <1>12, <2>1, RefusedIsAnError, ErrorsAreSome DEF m
<1>13. CASE fs[2].value = Version /\ fs[4].value < 0
  <2>1. ParseStatus(c, m) = Refused(<<"InvalidToken", PairValue(fs, 2)>>)
    BY <1>1, <1>3, <1>8, <1>9, <1>10, <1>13 DEF ParseStatus
  <2> QED
    BY <1>11, <1>13, <2>1, RefusedIsAnError, ErrorsAreSome DEF m
<1>14. CASE fs[2].value = Version /\ ~(fs[4].value < 0) /\ c = "reset"
  <2>1. ParseStatus(c, m) = Taken([token |-> fs[4].value, result |-> fs[6].value])
    BY <1>1, <1>3, <1>8, <1>9, <1>10, <1>14 DEF ParseStatus
  <2> QED
    BY <1>11, <1>14, <2>1 DEF m
<1>15. CASE fs[2].value = Version /\ ~(fs[4].value < 0) /\ c = "run" /\ fs[8].value \notin RunState
  <2>1. ParseStatus(c, m) = Refused(<<"InvalidState", PairValue(fs, 4)>>)
    BY <1>1, <1>3, <1>8, <1>9, <1>10, <1>15 DEF ParseStatus
  <2> QED
    BY <1>11, <1>15, <2>1, RefusedIsAnError, ErrorsAreSome DEF m
<1>16. CASE fs[2].value = Version /\ ~(fs[4].value < 0) /\ c = "run" /\ fs[8].value \in RunState
  <2>1. ParseStatus(c, m)
          = Taken([token |-> fs[4].value, result |-> fs[6].value, state |-> fs[8].value])
    BY <1>1, <1>3, <1>8, <1>9, <1>10, <1>16 DEF ParseStatus
  <2> QED
    BY <1>11, <1>16, <2>1 DEF m
<1> QED
  BY <1>2, <1>12, <1>13, <1>14, <1>15, <1>16

-----------------------------------------------------------------------------
(* The keys of a message tell its control and its kind, and at which pair  *)
(* each of them is: an altered message conforms to nothing.                *)

Token(kind) == IF kind = "request" THEN "request-token" ELSE "completed-token"

LEMMA KeyIsItsParts ==
  /\ \A c, d, n, l : KeyOf(c, n) = KeyOf(d, l) => c = d /\ n = l
  /\ \A c, n : KeyOf(c, n).value[1] = c
BY DEF KeyOf

LEMMA ConformingKeys ==
  ASSUME NEW c \in Control, NEW k \in Reader, NEW fs, Conforms(c, k, fs)
  PROVE  /\ Pairs(c, k) \in 2 .. 4 /\ Len(fs) = 2 * Pairs(c, k)
         /\ fs[1] = KeyOf(c, "version") /\ fs[3] = KeyOf(c, Token(k))
         /\ \A p \in 1 .. Pairs(c, k) : fs[2 * p - 1].value[1] = c
         /\ \A p \in 2 .. Pairs(c, k) : \A d : fs[2 * p - 1] # KeyOf(d, "version")
         /\ \A p \in 3 .. Pairs(c, k), j \in Reader : \A d : fs[2 * p - 1] # KeyOf(d, Token(j))
<1>1. Pairs(c, k) \in 2 .. 4 /\ Len(fs) = 2 * Pairs(c, k)
  BY DEF Conforms, Pairs, Control, Reader
<1>2. \A p \in 1 .. Pairs(c, k) : fs[2 * p - 1] = KeyOf(c, Name(k, p))
  BY DEF Conforms
<1>3. Name(k, 1) = "version" /\ Name(k, 2) = Token(k)
  BY DEF Name, Token, Reader
<1>4. Token(k) # "version"
  BY DEF Token, Reader
<1>5. k = "request" \/ k = "status"
  BY DEF Reader
<1>6. \A p \in 3 .. Pairs(c, k) :
        Name(k, p) # "version" /\ \A j \in Reader : Name(k, p) # Token(j)
  <2> SUFFICES ASSUME NEW p \in 3 .. Pairs(c, k)
               PROVE  Name(k, p) # "version" /\ \A j \in Reader : Name(k, p) # Token(j)
    OBVIOUS
  <2>1. CASE k = "request"
    <3>1. p = 3
      BY <2>1 DEF Pairs, Control
    <3>2. Name(k, p) = "requested-state"
      BY <2>1, <3>1 DEF Name
    <3> QED
      BY <3>2 DEF Token, Reader
  <2>2. CASE k = "status"
    <3>1. p = 3 \/ p = 4
      BY <2>2 DEF Pairs, Control
    <3>2. k # "request"
      BY <2>2
    <3>3. Name(k, p) = "result" \/ Name(k, p) = "actual-state"
      BY <3>1, <3>2 DEF Name
    <3> QED
      BY <3>3 DEF Token, Reader
  <2> QED
    BY <1>5, <2>1, <2>2
<1>7. fs[1] = KeyOf(c, "version") /\ fs[3] = KeyOf(c, Token(k))
  <2>1. fs[2 * 1 - 1] = KeyOf(c, Name(k, 1)) /\ fs[2 * 2 - 1] = KeyOf(c, Name(k, 2))
    BY <1>1, <1>2
  <2> QED
    BY <1>3, <2>1
<1>8. \A p \in 1 .. Pairs(c, k) : fs[2 * p - 1].value[1] = c
  BY <1>2, KeyIsItsParts, Zenon
<1>9. \A p \in 2 .. Pairs(c, k) : \A d : fs[2 * p - 1] # KeyOf(d, "version")
  <2> SUFFICES ASSUME NEW p \in 2 .. Pairs(c, k), NEW d,
                      fs[2 * p - 1] = KeyOf(d, "version")
               PROVE  FALSE
    OBVIOUS
  <2>1. fs[2 * p - 1] = KeyOf(c, Name(k, p))
    BY <1>2
  <2>2. p = 2 \/ p \in 3 .. Pairs(c, k)
    BY <1>1
  <2>3. Name(k, p) # "version"
    BY <1>3, <1>4, <1>6, <2>2
  <2>4. KeyOf(c, Name(k, p)) = KeyOf(d, "version")
    BY <2>1
  <2>5. Name(k, p) = "version"
    BY ONLY <2>4, KeyIsItsParts, Zenon
  <2> QED
    BY ONLY <2>3, <2>5, Zenon
<1>10. \A p \in 3 .. Pairs(c, k), j \in Reader : \A d : fs[2 * p - 1] # KeyOf(d, Token(j))
  <2> SUFFICES ASSUME NEW p \in 3 .. Pairs(c, k), NEW d, NEW j \in Reader,
                      fs[2 * p - 1] = KeyOf(d, Token(j))
               PROVE  FALSE
    OBVIOUS
  <2>1. fs[2 * p - 1] = KeyOf(c, Name(k, p))
    BY <1>2
  <2>2. KeyOf(c, Name(k, p)) = KeyOf(d, Token(j))
    BY <2>1
  <2>3. Name(k, p) = Token(j)
    BY ONLY <2>2, KeyIsItsParts, Zenon
  <2> QED
    BY <1>6, <2>3, Zenon
<1> QED
  BY <1>1, <1>7, <1>8, <1>9, <1>10

(* One message conforms to one control and one kind: its first two keys tell. *)
LEMMA ConformsToOne ==
  ASSUME NEW c \in Control, NEW k \in Reader, NEW fs, Conforms(c, k, fs),
         NEW d \in Control, NEW j \in Reader, NEW gs, Conforms(d, j, gs),
         fs[1] = gs[1], fs[3] = gs[3]
  PROVE  c = d /\ k = j
<1>1. KeyOf(c, Token(k)) = KeyOf(d, Token(j))
  <2>1. fs[3] = KeyOf(c, Token(k)) /\ gs[3] = KeyOf(d, Token(j))
    BY ConformingKeys
  <2> QED
    BY <2>1
<1>2. c = d /\ Token(k) = Token(j)
  BY <1>1, KeyIsItsParts
<1> QED
  BY <1>2 DEF Token, Reader

LEMMA LostPair ==
  ASSUME NEW fs, IsSequence(fs), NEW i \in Nat, 1 <= i, i + 1 <= Len(fs)
  PROVE  LET gs == SubSeq(fs, 1, i - 1) \o SubSeq(fs, i + 2, Len(fs))
         IN  /\ Len(gs) = Len(fs) - 2
             /\ \A l \in 1 .. Len(fs) - 2 : gs[l] = IF l < i THEN fs[l] ELSE fs[l + 2]
<1>1. PICK S : fs \in Seq(S)
  BY DEF IsSequence
<1>2. PICK a : a = SubSeq(fs, 1, i - 1)
  OBVIOUS
<1>3. PICK b : b = SubSeq(fs, i + 2, Len(fs))
  OBVIOUS
<1>4. a \in Seq(S) /\ Len(a) = i - 1 /\ \A l \in 1 .. i - 1 : a[l] = fs[l]
  BY <1>1, <1>2
<1>5. /\ b \in Seq(S) /\ Len(b) = Len(fs) - i - 1
      /\ \A l \in 1 .. Len(fs) - i - 1 : b[l] = fs[l + i + 1]
  BY <1>1, <1>3
<1>6. Len(a \o b) = Len(a) + Len(b)
      /\ \A l \in 1 .. Len(a) + Len(b) : (a \o b)[l] = IF l <= Len(a) THEN a[l] ELSE b[l - Len(a)]
  BY ONLY <1>4, <1>5, Joined
<1>7. Len(fs) \in Nat
  BY <1>1
<1>8. ASSUME NEW l \in 1 .. Len(fs) - 2
      PROVE  (a \o b)[l] = IF l < i THEN fs[l] ELSE fs[l + 2]
  <2>4. l \in 1 .. Len(a) + Len(b) /\ Len(a) = i - 1
    BY <1>4, <1>5, <1>7
  <2>5. (a \o b)[l] = IF l <= Len(a) THEN a[l] ELSE b[l - Len(a)]
    BY <1>6, <2>4, Zenon
  <2>1. (a \o b)[l] = IF l <= i - 1 THEN a[l] ELSE b[l - (i - 1)]
    BY <2>4, <2>5, Zenon
  <2>2. CASE l <= i - 1
    BY <1>4, <1>7, <2>1, <2>2
  <2>3. CASE l > i - 1
    <3>1. l - (i - 1) \in 1 .. Len(fs) - i - 1 /\ l - (i - 1) + i + 1 = l + 2
      BY <1>7, <1>8, <2>3
    <3> QED
      BY <1>5, <2>1, <2>3, <3>1
  <2>6. l <= i - 1 \/ l > i - 1
    BY <1>7
  <2> QED
    BY <2>2, <2>3, <2>6, Zenon
<1>9. Len(a \o b) = Len(fs) - 2
  BY <1>4, <1>5, <1>6, <1>7
<1> QED
  BY <1>2, <1>3, <1>8, <1>9

LEMMA RepeatedPair ==
  ASSUME NEW fs, IsSequence(fs), NEW i \in Nat, 1 <= i, i + 1 <= Len(fs)
  PROVE  LET gs == fs \o SubSeq(fs, i, i + 1)
         IN  Len(gs) = Len(fs) + 2 /\ \A l \in 1 .. Len(fs) : gs[l] = fs[l]
<1>1. PICK S : fs \in Seq(S)
  BY DEF IsSequence
<1>2. PICK b : b = SubSeq(fs, i, i + 1)
  OBVIOUS
<1>3. b \in Seq(S) /\ Len(b) = 2
  BY <1>1, <1>2
<1>4. Len(fs \o b) = Len(fs) + Len(b)
      /\ \A l \in 1 .. Len(fs) + Len(b) :
           (fs \o b)[l] = IF l <= Len(fs) THEN fs[l] ELSE b[l - Len(fs)]
  BY ONLY <1>1, <1>3, Joined
<1>5. Len(fs) \in Nat
  BY <1>1
<1>6. Len(fs \o b) = Len(fs) + 2 /\ \A l \in 1 .. Len(fs) : (fs \o b)[l] = fs[l]
  BY <1>3, <1>4, <1>5
<1> QED
  BY <1>2, <1>6

LEMMA FirstPair ==
  ASSUME NEW fs, IsSequence(fs), NEW i \in Nat, 1 <= i, i + 1 <= Len(fs)
  PROVE  (SubSeq(fs, i, i + 1) \o SubSeq(fs, 1, i - 1) \o SubSeq(fs, i + 2, Len(fs)))[1] = fs[i]
<1>1. PICK S : fs \in Seq(S)
  BY DEF IsSequence
<1>2. PICK a : a = SubSeq(fs, i, i + 1)
  OBVIOUS
<1>3. PICK b : b = SubSeq(fs, 1, i - 1)
  OBVIOUS
<1>4. PICK d : d = SubSeq(fs, i + 2, Len(fs))
  OBVIOUS
<1>5. a \in Seq(S) /\ Len(a) = 2 /\ a[1] = fs[i]
  BY <1>1, <1>2
<1>6. b \in Seq(S) /\ d \in Seq(S) /\ Len(b) \in Nat /\ Len(d) \in Nat
  BY <1>1, <1>3, <1>4
<1>7. /\ a \o b \in Seq(S) /\ Len(a \o b) = Len(a) + Len(b)
      /\ \A l \in 1 .. Len(a) + Len(b) : (a \o b)[l] = IF l <= Len(a) THEN a[l] ELSE b[l - Len(a)]
  BY ONLY <1>5, <1>6, Joined
<1>8. (a \o b)[1] = fs[i] /\ Len(a \o b) >= 2
  BY <1>5, <1>6, <1>7
<1>9. PICK ab : ab = a \o b
  OBVIOUS
<1>10. ab \in Seq(S)
  BY <1>7, <1>9, Zenon
<1>11. \A l \in 1 .. Len(ab) + Len(d) :
         (ab \o d)[l] = IF l <= Len(ab) THEN ab[l] ELSE d[l - Len(ab)]
  BY ONLY <1>6, <1>10, Joined
<1>12. Len(ab) >= 2 /\ ab[1] = fs[i] /\ Len(ab) \in Nat
  <2>1. Len(ab) >= 2 /\ ab[1] = fs[i]
    BY <1>8, <1>9, Zenon
  <2> QED
    BY <1>10, <2>1
<1>13. (ab \o d)[1] = fs[i]
  BY <1>6, <1>11, <1>12
<1> QED
  BY <1>2, <1>3, <1>4, <1>9, <1>13, Zenon

(* Whatever a peer does to a message that conforms, the outcome conforms to *)
(* no control and no kind.                                                  *)
LEMMA AlteredConformsToNothing ==
  ASSUME NEW c \in Control, NEW k \in Reader, NEW fs, IsSequence(fs), Conforms(c, k, fs),
         NEW p \in 1 .. 4, NEW how \in Alterations, 2 * p <= Len(fs), how = "first" => p > 1,
         NEW d \in Control, NEW j \in Reader
  PROVE  ~Conforms(d, j, Altered(fs, p, how))
<1> DEFINE i == 2 * p - 1
           gs == Altered(fs, p, how)
<1> SUFFICES ASSUME Conforms(d, j, gs) PROVE FALSE
  OBVIOUS
<1>1. /\ Pairs(c, k) \in 2 .. 4 /\ Len(fs) = 2 * Pairs(c, k)
      /\ fs[1] = KeyOf(c, "version") /\ fs[3] = KeyOf(c, Token(k))
      /\ \A q \in 1 .. Pairs(c, k) : fs[2 * q - 1].value[1] = c
      /\ \A q \in 2 .. Pairs(c, k) : \A e : fs[2 * q - 1] # KeyOf(e, "version")
      /\ \A q \in 3 .. Pairs(c, k), r \in Reader : \A e : fs[2 * q - 1] # KeyOf(e, Token(r))
  BY ConformingKeys
<1> HIDE DEF gs
<1>2. /\ Pairs(d, j) \in 2 .. 4 /\ Len(gs) = 2 * Pairs(d, j)
      /\ gs[1] = KeyOf(d, "version") /\ gs[3] = KeyOf(d, Token(j))
      /\ \A q \in 1 .. Pairs(d, j) : gs[2 * q - 1].value[1] = d
  BY ConformingKeys
<1>3. p \in 1 .. Pairs(c, k) /\ 1 <= i /\ i + 1 <= Len(fs) /\ i \in Nat
  BY <1>1
<1>4. fs[1] = gs[1] => c = d
  <2> SUFFICES ASSUME fs[1] = gs[1] PROVE c = d
    OBVIOUS
  <2>1. KeyOf(c, "version") = KeyOf(d, "version")
    BY <1>1, <1>2
  <2> QED
    BY <2>1, KeyIsItsParts, Zenon
<1>5. DOMAIN fs = 1 .. Len(fs)
  BY DEF IsSequence
<1>6. CASE how = "lost"
  <2>1. gs = SubSeq(fs, 1, i - 1) \o SubSeq(fs, i + 2, Len(fs))
    BY <1>6 DEF gs, Altered
  <2>2. /\ Len(gs) = Len(fs) - 2
        /\ \A l \in 1 .. Len(fs) - 2 : gs[l] = IF l < i THEN fs[l] ELSE fs[l + 2]
    BY <1>3, <2>1, LostPair, Zenon
  <2>3. CASE p = 1
    <3>1. gs[1] = fs[3]
      BY <1>1, <1>2, <2>2, <2>3
    <3>2. 2 \in 2 .. Pairs(c, k)
      BY <1>1
    <3> QED
      BY <1>1, <1>2, <3>1, <3>2
  <2>4. CASE p = 2
    <3>1. Pairs(c, k) >= 3 /\ gs[3] = fs[5]
      BY <1>1, <1>2, <2>2, <2>4
    <3>2. 3 \in 3 .. Pairs(c, k) /\ 2 * 3 - 1 = 5
      BY <1>1, <3>1
    <3> QED
      BY <1>1, <1>2, <3>1, <3>2
  <2>5. CASE p > 2
    <3>1. gs[1] = fs[1] /\ gs[3] = fs[3]
      BY <1>1, <1>2, <2>2, <2>5
    <3>2. c = d /\ k = j
      BY <3>1, ConformsToOne
    <3> QED
      BY <1>1, <1>2, <2>2, <3>2
  <2> QED
    BY <2>3, <2>4, <2>5
<1>7. CASE how = "repeated"
  <2>1. gs = fs \o SubSeq(fs, i, i + 1)
    BY <1>7 DEF gs, Altered
  <2>2. Len(gs) = Len(fs) + 2 /\ \A l \in 1 .. Len(fs) : gs[l] = fs[l]
    BY <1>3, <2>1, RepeatedPair, Zenon
  <2>3. gs[1] = fs[1] /\ gs[3] = fs[3]
    BY <1>1, <2>2
  <2>4. c = d /\ k = j
    BY <2>3, ConformsToOne
  <2> QED
    BY <1>1, <1>2, <2>2, <2>4
<1>8. CASE how = "first"
  <2>1. gs = SubSeq(fs, i, i + 1) \o SubSeq(fs, 1, i - 1) \o SubSeq(fs, i + 2, Len(fs))
    BY <1>8 DEF gs, Altered
  <2>2. gs[1] = fs[i]
    BY <1>3, <2>1, FirstPair, Zenon
  <2>3. p \in 2 .. Pairs(c, k)
    BY <1>1, <1>3, <1>8
  <2> QED
    BY <1>1, <1>2, <2>2, <2>3
<1>9. CASE how \in {"other control", "other key"}
  <2>1. PICK x : gs = [fs EXCEPT ![i] = x] /\ x.value[1] # c
    <3>1. CASE how = "other control"
      <4>1. gs = [fs EXCEPT ![i].value[1] = IF @ = "run" THEN "reset" ELSE "run"]
        BY <3>1 DEF gs, Altered
      <4>2. PICK x : x = [fs[i] EXCEPT !.value[1] = IF @ = "run" THEN "reset" ELSE "run"]
        OBVIOUS
      <4>3. gs = [fs EXCEPT ![i] = x]
        BY <4>1, <4>2
      <4>4. fs[i] = KeyOf(c, Name(k, p))
        BY <1>3 DEF Conforms
      <4>5. x.value[1] # c
        BY <4>2, <4>4 DEF KeyOf, Control
      <4> QED
        BY <4>3, <4>5
    <3>2. CASE how = "other key"
      <4>1. gs = [fs EXCEPT ![i] = KeyOf("volume", "left")]
        BY <3>2 DEF gs, Altered
      <4>2. KeyOf("volume", "left").value[1] # c
        BY KeyIsItsParts DEF Control
      <4> QED
        BY <4>1, <4>2
    <3> QED
      BY <1>9, <3>1, <3>2
  <2>2. Len(gs) = Len(fs) /\ gs[i] = x /\ \A l \in 1 .. Len(fs) : l # i => gs[l] = fs[l]
    BY <1>3, <1>5, <2>1 DEF IsSequence
  <2>3. gs[i].value[1] = d
    BY <1>1, <1>2, <1>3, <2>2
  <2>4. c # d
    BY <2>1, <2>2, <2>3
  <2>5. CASE p = 1
    <3>1. gs[3] = fs[3] /\ 2 \in 1 .. Pairs(c, k) /\ 2 \in 1 .. Pairs(d, j) /\ 2 * 2 - 1 = 3
      BY <1>1, <1>2, <2>2, <2>5
    <3>2. fs[3].value[1] = c /\ gs[3].value[1] = d
      BY <1>1, <1>2, <3>1
    <3> QED
      BY <2>4, <3>1, <3>2
  <2>6. CASE p # 1
    BY <1>1, <1>3, <1>4, <2>2, <2>4, <2>6
  <2> QED
    BY <2>5, <2>6
<1>10. CASE how = "other type"
  <2>1. gs = [fs EXCEPT ![i + 1].type = IF @ = "Int" THEN "Long" ELSE "Int"]
    BY <1>10 DEF gs, Altered
  <2>2. PICK x : x = [fs[i + 1] EXCEPT !.type = IF @ = "Int" THEN "Long" ELSE "Int"]
    OBVIOUS
  <2>3. gs = [fs EXCEPT ![i + 1] = x]
    BY <2>1, <2>2
  <2>4. /\ gs[i + 1] = x
        /\ \A l \in 1 .. Len(fs) : l # i + 1 => gs[l] = fs[l]
    BY <1>3, <1>5, <2>3
  <2>5. gs[1] = fs[1] /\ gs[3] = fs[3]
    BY <1>1, <2>4
  <2>6. c = d /\ k = j
    BY <2>5, ConformsToOne
  <2>7. fs[i + 1].type = Type(k, p) /\ gs[i + 1].type = Type(k, p)
    <3>1. i + 1 = 2 * p
      OBVIOUS
    <3> QED
      BY <1>3, <2>6, <3>1 DEF Conforms
  <2>8. x.type # Type(k, p)
    <3> QED
      BY <2>2, <2>7
  <2> QED
    BY <2>4, <2>7, <2>8
<1> QED
  BY <1>6, <1>7, <1>8, <1>9, <1>10 DEF Alterations

-----------------------------------------------------------------------------
(* The invariant, of a message m and what was meant by it.                 *)

(* What was sent as built conforms to its control and kind. *)
BuiltAsSent(m, meant) ==
  meant # <<>> =>
    \E c \in Control, k \in Reader :
       /\ \E is : meant = <<[control |-> c, kind |-> k, is |-> is]>>
       /\ IsSequence(m.fields) /\ Conforms(c, k, m.fields)

(* What the property asks of one reader. *)
UnderstoodBy(c, kind, m, meant) ==
  IF meant # <<>> /\ Head(meant).control = c /\ Head(meant).kind = kind
  THEN Reads(c, kind, m).error = <<>> /\ Head(Reads(c, kind, m).taken) = Head(meant).is
  ELSE Reads(c, kind, m).error # <<>>

ControlsAreSound(m, meant) ==
  /\ BuiltAsSent(m, meant)
  /\ \A c \in Control, k \in Reader : UnderstoodBy(c, k, m, meant)

LEMMA ReadersOneByOne ==
  ControlsAreSound(message, sent) => ControlsReadByOne
BY Zenon DEF ControlsAreSound, UnderstoodBy, ControlsReadByOne, Reader, Reads

(* Nothing was sent as built, and the message conforms to nothing. *)
LEMMA NobodyUnderstands ==
  ASSUME NEW m, \A c \in Control, k \in Reader : ~Conforms(c, k, m.fields)
  PROVE  ControlsAreSound(m, <<>>)
<1>1. \A c \in Control, k \in Reader : Reads(c, k, m).error # <<>>
  BY TakenConforms
<1>2. \A c \in Control, k \in Reader : UnderstoodBy(c, k, m, <<>>)
  BY <1>1 DEF UnderstoodBy
<1> QED
  BY <1>2 DEF BuiltAsSent, ControlsAreSound

(* A message that conforms to one control and kind is nobody else's; its own *)
(* reader is left to look at.                                                *)
LEMMA OnlyItsReader ==
  ASSUME NEW c \in Control, NEW k \in Reader, NEW m, NEW meant, Conforms(c, k, m.fields),
         IsSequence(m.fields),
         meant # <<>> => \E is : meant = <<[control |-> c, kind |-> k, is |-> is]>>,
         UnderstoodBy(c, k, m, meant)
  PROVE  ControlsAreSound(m, meant)
<1>1. ASSUME NEW d \in Control, NEW j \in Reader, d # c \/ j # k
      PROVE  UnderstoodBy(d, j, m, meant)
  <2>1. ~Conforms(d, j, m.fields)
    BY <1>1, ConformsToOne
  <2>2. Reads(d, j, m).error # <<>>
    BY <2>1, TakenConforms
  <2>3. meant # <<>> => Head(meant).control = c /\ Head(meant).kind = k
    OBVIOUS
  <2> QED
    BY <1>1, <2>2, <2>3 DEF UnderstoodBy
<1>2. \A d \in Control, j \in Reader : UnderstoodBy(d, j, m, meant)
  BY <1>1
<1>3. BuiltAsSent(m, meant)
  BY DEF BuiltAsSent
<1> QED
  BY <1>2, <1>3 DEF ControlsAreSound

LEMMA EmptyConformsToNothing ==
  ASSUME NEW c \in Control, NEW k \in Reader
  PROVE  ~Conforms(c, k, <<>>)
<1> SUFFICES ASSUME Conforms(c, k, <<>>) PROVE FALSE
  OBVIOUS
<1>1. Pairs(c, k) \in 2 .. 4 /\ Len(<<>>) = 2 * Pairs(c, k)
  BY ConformingKeys
<1> QED
  BY <1>1

(* The messages that are built conform. *)
LEMMA RequestConforms ==
  ASSUME NEW c \in Control, NEW t \in Int, NEW s
  PROVE  LET fs == RequestFields(c, t, s)
         IN  /\ IsSequence(fs) /\ Conforms(c, "request", fs)
             /\ fs[2].value = Version /\ fs[4].value = t
             /\ c = "run" => fs[6].value = s
<1> DEFINE fs == RequestFields(c, t, s)
<1>1. CASE c = "reset"
  <2>1. /\ IsSequence(fs) /\ Len(fs) = 4
        /\ fs[1] = KeyOf(c, "version") /\ fs[2] = IntOf(Version)
        /\ fs[3] = KeyOf(c, "request-token") /\ fs[4] = LongOf(t)
    BY <1>1, ResetRequestIsBuilt
  <2> HIDE DEF fs
  <2>2. fs[2].type = "Int" /\ fs[2].value = Version /\ fs[4].type = "Long" /\ fs[4].value = t
    BY <2>1 DEF IntOf, LongOf
  <2>3. Pairs(c, "request") = 2
    BY <1>1 DEF Pairs
  <2>4. ASSUME NEW p \in 1 .. 2
        PROVE  fs[2 * p - 1] = KeyOf(c, Name("request", p)) /\ fs[2 * p].type = Type("request", p)
    <3>1. CASE p = 1
      BY <2>1, <2>2, <3>1 DEF Name, Type
    <3>2. CASE p = 2
      BY <2>1, <2>2, <3>2 DEF Name, Type
    <3> QED
      BY <3>1, <3>2
  <2>5. Conforms(c, "request", fs)
    BY <2>1, <2>3, <2>4 DEF Conforms
  <2> QED
    BY <1>1, <2>1, <2>2, <2>5 DEF fs
<1>2. CASE c = "run"
  <2>1. /\ IsSequence(fs) /\ Len(fs) = 6
        /\ fs[1] = KeyOf(c, "version") /\ fs[2] = IntOf(Version)
        /\ fs[3] = KeyOf(c, "request-token") /\ fs[4] = LongOf(t)
        /\ fs[5] = KeyOf(c, "requested-state") /\ fs[6] = TextOf(s)
    BY <1>2, RunRequestIsBuilt
  <2> HIDE DEF fs
  <2>2. /\ fs[2].type = "Int" /\ fs[2].value = Version /\ fs[4].type = "Long" /\ fs[4].value = t
        /\ fs[6].type = "String" /\ fs[6].value = s
    BY <2>1 DEF IntOf, LongOf, TextOf
  <2>3. Pairs(c, "request") = 3
    BY <1>2 DEF Pairs
  <2>4. ASSUME NEW p \in 1 .. 3
        PROVE  fs[2 * p - 1] = KeyOf(c, Name("request", p)) /\ fs[2 * p].type = Type("request", p)
    <3>1. CASE p = 1
      BY <2>1, <2>2, <3>1 DEF Name, Type
    <3>2. CASE p = 2
      BY <2>1, <2>2, <3>2 DEF Name, Type
    <3>3. CASE p = 3
      BY <2>1, <2>2, <3>3 DEF Name, Type
    <3> QED
      BY <3>1, <3>2, <3>3
  <2>5. Conforms(c, "request", fs)
    BY <2>1, <2>3, <2>4 DEF Conforms
  <2> QED
    BY <1>2, <2>1, <2>2, <2>5 DEF fs
<1> QED
  BY <1>1, <1>2 DEF Control

LEMMA StatusConforms ==
  ASSUME NEW c \in Control, NEW v \in Int, NEW t \in Int, NEW r \in Int, NEW s
  PROVE  LET fs == StatusFields(c, v, t, r, s)
         IN  /\ IsSequence(fs) /\ Conforms(c, "status", fs)
             /\ fs[2].value = v /\ fs[4].value = t /\ fs[6].value = r
             /\ c = "run" => fs[8].value = s
<1> DEFINE fs == StatusFields(c, v, t, r, s)
<1>1. CASE c = "reset"
  <2>1. /\ IsSequence(fs) /\ Len(fs) = 6
        /\ fs[1] = KeyOf(c, "version") /\ fs[2] = IntOf(v)
        /\ fs[3] = KeyOf(c, "completed-token") /\ fs[4] = LongOf(t)
        /\ fs[5] = KeyOf(c, "result") /\ fs[6] = IntOf(r)
    BY <1>1, ResetStatusIsBuilt
  <2> HIDE DEF fs
  <2>2. /\ fs[2].type = "Int" /\ fs[2].value = v /\ fs[4].type = "Long" /\ fs[4].value = t
        /\ fs[6].type = "Int" /\ fs[6].value = r
    BY <2>1 DEF IntOf, LongOf
  <2>3. Pairs(c, "status") = 3
    BY <1>1 DEF Pairs
  <2>4. ASSUME NEW p \in 1 .. 3
        PROVE  fs[2 * p - 1] = KeyOf(c, Name("status", p)) /\ fs[2 * p].type = Type("status", p)
    <3>1. CASE p = 1
      BY <2>1, <2>2, <3>1 DEF Name, Type
    <3>2. CASE p = 2
      BY <2>1, <2>2, <3>2 DEF Name, Type
    <3>3. CASE p = 3
      BY <2>1, <2>2, <3>3 DEF Name, Type
    <3> QED
      BY <3>1, <3>2, <3>3
  <2>5. Conforms(c, "status", fs)
    BY <2>1, <2>3, <2>4 DEF Conforms
  <2> QED
    BY <1>1, <2>1, <2>2, <2>5 DEF fs
<1>2. CASE c = "run"
  <2>1. /\ IsSequence(fs) /\ Len(fs) = 8
        /\ fs[1] = KeyOf(c, "version") /\ fs[2] = IntOf(v)
        /\ fs[3] = KeyOf(c, "completed-token") /\ fs[4] = LongOf(t)
        /\ fs[5] = KeyOf(c, "result") /\ fs[6] = IntOf(r)
        /\ fs[7] = KeyOf(c, "actual-state") /\ fs[8] = TextOf(s)
    BY <1>2, RunStatusIsBuilt
  <2> HIDE DEF fs
  <2>2. /\ fs[2].type = "Int" /\ fs[2].value = v /\ fs[4].type = "Long" /\ fs[4].value = t
        /\ fs[6].type = "Int" /\ fs[6].value = r /\ fs[8].type = "String" /\ fs[8].value = s
    BY <2>1 DEF IntOf, LongOf, TextOf
  <2>3. Pairs(c, "status") = 4
    BY <1>2 DEF Pairs
  <2>4. ASSUME NEW p \in 1 .. 4
        PROVE  fs[2 * p - 1] = KeyOf(c, Name("status", p)) /\ fs[2 * p].type = Type("status", p)
    <3>1. CASE p = 1
      BY <2>1, <2>2, <3>1 DEF Name, Type
    <3>2. CASE p = 2
      BY <2>1, <2>2, <3>2 DEF Name, Type
    <3>3. CASE p = 3
      BY <2>1, <2>2, <3>3 DEF Name, Type
    <3>4. CASE p = 4
      BY <2>1, <2>2, <3>4 DEF Name, Type
    <3> QED
      BY <3>1, <3>2, <3>3, <3>4
  <2>5. Conforms(c, "status", fs)
    BY <2>1, <2>3, <2>4 DEF Conforms
  <2> QED
    BY <1>2, <2>1, <2>2, <2>5 DEF fs
<1> QED
  BY <1>1, <1>2 DEF Control

-----------------------------------------------------------------------------
(* Every step keeps the invariant.                                         *)

LEMMA ControlsStart ==
  ControlInit => ControlsAreSound(message, sent)
<1> SUFFICES ASSUME ControlInit PROVE ControlsAreSound(message, sent)
  OBVIOUS
<1>1. sent = <<>> /\ message.fields = <<>>
  BY DEF ControlInit, NoMessage
<1>2. \A c \in Control, k \in Reader : ~Conforms(c, k, message.fields)
  BY <1>1, EmptyConformsToNothing
<1>3. ControlsAreSound(message, <<>>)
  BY <1>2, NobodyUnderstands
<1> QED
  BY <1>1, <1>3

LEMMA RequestStep ==
  ASSUME NEW c \in Control, NEW t \in Tokens, NEW s \in RunState, Request(c, t, s)
  PROVE  ControlsAreSound(message', sent')
<1> DEFINE fs == RequestFields(c, t, s)
           is == IF c = "run" THEN [token |-> t, state |-> s] ELSE [token |-> t]
<1>1. t \in Int
  BY ControlAssumption
<1>2. BuildRequest(c, t, s).error = <<>>
  BY DEF Request
<1>3. ~(t <= 0) /\ ~(c = "run" /\ s = "unknown")
  BY <1>2, RefusedIsAnError, ErrorsAreSome DEF BuildRequest
<1>4. BuildRequest(c, t, s) = Taken(Props(fs))
  BY <1>3 DEF BuildRequest
<1>5. Head(BuildRequest(c, t, s).taken) = Props(fs)
  BY <1>4 DEF Taken
<1>6. message' = Props(fs) /\ sent' = <<[control |-> c, kind |-> "request", is |-> is]>>
  BY <1>5 DEF Request
<1>7. /\ IsSequence(fs) /\ Conforms(c, "request", fs)
      /\ fs[2].value = Version /\ fs[4].value = t
      /\ c = "run" => fs[6].value = s
  BY <1>1, RequestConforms
<1> HIDE DEF fs
<1>8. ParseRequest(c, Props(fs)) =
        Taken(IF c = "run" THEN [token |-> fs[4].value, state |-> fs[6].value]
              ELSE [token |-> fs[4].value])
  <2>1. fs[4].value > 0 /\ fs[4].value \in Int
    BY <1>1, <1>3, <1>7
  <2>2. c = "run" => fs[6].value \in RunState \ {"unknown"}
    BY <1>3, <1>7
  <2> QED
    BY <1>7, <2>1, <2>2, RequestIsRead
<1>9. ParseRequest(c, Props(fs)) = Taken(is)
  BY <1>7, <1>8
<1> HIDE DEF is
<1>10. Reads(c, "request", message').error = <<>> /\ Head(Reads(c, "request", message').taken) = is
  BY <1>6, <1>9 DEF Reads, Taken
<1>11. Head(sent').is = is /\ Head(sent').control = c /\ Head(sent').kind = "request" /\ sent' # <<>>
  BY <1>6
<1>12. UnderstoodBy(c, "request", message', sent')
  BY <1>10, <1>11 DEF UnderstoodBy
<1>13. message'.fields = fs
  BY <1>6 DEF Props
<1>14. "request" \in Reader
  BY DEF Reader
<1> QED
  BY <1>6, <1>7, <1>12, <1>13, <1>14, OnlyItsReader

LEMMA CompleteStep ==
  ASSUME NEW c \in Control, NEW v \in {Version, 2}, NEW t \in Tokens, NEW r \in Results, NEW s,
         Complete(c, v, t, r, s)
  PROVE  ControlsAreSound(message', sent')
<1> DEFINE fs == StatusFields(c, v, t, r, s)
           is == IF c = "run" THEN [token |-> t, result |-> r, state |-> s]
                 ELSE [token |-> t, result |-> r]
           bad == v # Version \/ t < 0 \/ (c = "run" /\ s \notin RunState)
<1>1. t \in Int /\ r \in Int /\ v \in Int
  BY ControlAssumption DEF Version
<1>2. /\ message' = Props(fs)
      /\ sent' = IF bad THEN <<>> ELSE <<[control |-> c, kind |-> "status", is |-> is]>>
  BY DEF Complete
<1>3. /\ IsSequence(fs) /\ Conforms(c, "status", fs)
      /\ fs[2].value = v /\ fs[4].value = t /\ fs[6].value = r
      /\ c = "run" => fs[8].value = s
  BY <1>1, StatusConforms
<1> HIDE DEF fs
<1>4. message'.fields = fs
  BY <1>2 DEF Props
<1>5. "status" \in Reader /\ "status" # "request"
  BY DEF Reader
<1>6. Reads(c, "status", message') = ParseStatus(c, Props(fs))
  BY <1>2 DEF Reads
<1>7. CASE bad
  <2>1. ParseStatus(c, Props(fs)).error # <<>>
    <3>1. ~(fs[2].value = Version /\ fs[4].value >= 0 /\ (c = "run" => fs[8].value \in RunState))
      BY <1>1, <1>3, <1>7
    <3> QED
      BY <1>1, <1>3, <3>1, StatusIsRead
  <2>2. sent' = <<>>
    BY <1>2, <1>7
  <2>3. UnderstoodBy(c, "status", message', sent')
    BY <1>6, <2>1, <2>2 DEF UnderstoodBy
  <2> QED
    BY <1>3, <1>4, <1>5, <2>2, <2>3, OnlyItsReader
<1>8. CASE ~bad
  <2>1. ParseStatus(c, Props(fs)) = Taken(is)
    <3>1. fs[2].value = Version /\ fs[4].value >= 0 /\ (c = "run" => fs[8].value \in RunState)
      BY <1>1, <1>3, <1>8
    <3>2. ParseStatus(c, Props(fs)) =
            Taken(IF c = "run"
                  THEN [token |-> fs[4].value, result |-> fs[6].value, state |-> fs[8].value]
                  ELSE [token |-> fs[4].value, result |-> fs[6].value])
      BY <1>1, <1>3, <3>1, StatusIsRead
    <3> QED
      BY <1>3, <3>2
  <2>2. sent' = <<[control |-> c, kind |-> "status", is |-> is]>>
    BY <1>2, <1>8
  <2> HIDE DEF is
  <2>3. Head(sent').is = is /\ Head(sent').control = c /\ Head(sent').kind = "status" /\ sent' # <<>>
    BY <2>2
  <2>4. Reads(c, "status", message').error = <<>> /\ Head(Reads(c, "status", message').taken) = is
    BY <1>6, <2>1 DEF Taken
  <2>5. UnderstoodBy(c, "status", message', sent')
    BY <2>3, <2>4 DEF UnderstoodBy
  <2> QED
    BY <1>3, <1>4, <1>5, <2>2, <2>5, OnlyItsReader
<1> QED
  BY <1>7, <1>8

LEMMA OtherPropsStep ==
  ASSUME NEW o, OtherProps(o)
  PROVE  ControlsAreSound(message', sent')
<1>1. message'.fields = <<>> /\ sent' = <<>>
  BY DEF OtherProps
<1>2. \A c \in Control, k \in Reader : ~Conforms(c, k, message'.fields)
  BY <1>1, EmptyConformsToNothing
<1>3. ControlsAreSound(message', <<>>)
  BY <1>2, NobodyUnderstands
<1> QED
  BY <1>1, <1>3

LEMMA AlterStep ==
  ASSUME BuiltAsSent(message, sent), NEW p \in 1 .. 4, NEW how \in Alterations, Alter(p, how)
  PROVE  ControlsAreSound(message', sent')
<1>1. PICK c \in Control, k \in Reader : IsSequence(message.fields) /\ Conforms(c, k, message.fields)
  BY DEF BuiltAsSent, Alter
<1>2. /\ message' = Props(Altered(message.fields, p, how)) /\ sent' = <<>>
      /\ 2 * p <= Len(message.fields) /\ (how = "first" => p > 1)
  BY DEF Alter
<1>3. message'.fields = Altered(message.fields, p, how)
  BY <1>2 DEF Props
<1>4. \A d \in Control, j \in Reader : ~Conforms(d, j, message'.fields)
  BY <1>1, <1>2, <1>3, AlteredConformsToNothing
<1>5. ControlsAreSound(message', <<>>)
  BY <1>4, NobodyUnderstands
<1> QED
  BY <1>2, <1>5

(* A request or a status that was sent as it was built is understood by its  *)
(* own reader, as what it said, and by no other; every message that a peer   *)
(* changed, and all other Props, every reader refuses, for any tokens and    *)
(* results (parse_request and parse_status against build_request).           *)
THEOREM ControlsAreTold == ControlSpec => []ControlsReadByOne
<1>1. ControlInit => ControlsAreSound(message, sent)
  BY ControlsStart
<1>2. ControlsAreSound(message, sent) /\ [ControlNext]_controlVars
        => ControlsAreSound(message, sent)'
  <2> SUFFICES ASSUME ControlsAreSound(message, sent), [ControlNext]_controlVars
               PROVE  ControlsAreSound(message', sent')
    BY DEF ControlsAreSound, BuiltAsSent, UnderstoodBy
  <2>1. CASE \E c \in Control, t \in Tokens, s \in RunState : Request(c, t, s)
    BY <2>1, RequestStep
  <2>2. CASE \E c \in Control, v \in {Version, 2}, t \in Tokens, r \in Results,
                s \in RunState \cup {"paused"} : Complete(c, v, t, r, s)
    BY <2>2, CompleteStep
  <2>3. CASE \E o \in {"other", "params", "struct"} : OtherProps(o)
    BY <2>3, OtherPropsStep
  <2>4. CASE \E p \in 1 .. 4, how \in Alterations : Alter(p, how)
    <3>1. BuiltAsSent(message, sent)
      BY DEF ControlsAreSound
    <3> QED
      BY <2>4, <3>1, AlterStep
  <2>5. CASE UNCHANGED controlVars
    <3>1. message' = message /\ sent' = sent
      BY <2>5 DEF controlVars
    <3> QED
      BY <3>1
  <2> QED
    BY <2>1, <2>2, <2>3, <2>4, <2>5, Zenon DEF ControlNext
<1>3. ControlsAreSound(message, sent) => ControlsReadByOne
  BY ReadersOneByOne
<1> QED
  BY <1>1, <1>2, <1>3, PTL DEF ControlSpec

-----------------------------------------------------------------------------
(* Smallest elements and induction over the naturals, stated of sets.      *)

LEMMA Least ==
  ASSUME NEW T, T \subseteq Nat, T # {}
  PROVE  \E m \in T : \A n \in T : m <= n
<1> DEFINE R == OpToRel(<, Nat)
<1>1. \A x, y \in Nat : <<x, y>> \in R <=> x < y
  BY DEF OpToRel
<1>2. IsWellFoundedOn(R, Nat)
  BY NatLessThanWellFounded
<1> HIDE DEF R
<1>3. PICK x \in T : \A y \in T : ~ (<<y, x>> \in R)
  BY <1>2, WFMin
<1>4. ASSUME NEW y \in T
      PROVE  x <= y
  <2>1. x \in Nat /\ y \in Nat
    OBVIOUS
  <2>2. ~ (y < x)
    BY <2>1, <1>1, <1>3, Zenon
  <2> QED
    BY <2>1, <2>2
<1> QED
  BY <1>4

LEMMA SetInduction ==
  ASSUME NEW T, 0 \in T, \A n \in T \cap Nat : n + 1 \in T
  PROVE  Nat \subseteq T
<1> DEFINE U == Nat \ T
<1> SUFFICES ASSUME U # {}
             PROVE  FALSE
  OBVIOUS
<1>1. PICK m \in U : \A n \in U : m <= n
  <2>1. U \subseteq Nat
    OBVIOUS
  <2> HIDE DEF U
  <2> QED
    BY <2>1, Least
<1>2. m \in Nat /\ m \notin T /\ m # 0 /\ m - 1 \in Nat
  OBVIOUS
<1>3. m - 1 \in T
  BY <1>1, <1>2
<1>4. (m - 1) + 1 = m
  BY <1>2
<1> QED
  BY <1>2, <1>3, <1>4

-----------------------------------------------------------------------------
(* The product of the dimensions of a shape.                               *)

(* The first n partial products. *)
PartialProducts(f, shape, n) ==
  f = [i \in 0 .. n |-> IF i = 0 THEN 1 ELSE f[i - 1] * shape[i]]

LEMMA PartialProductsExist ==
  ASSUME NEW shape, NEW N \in Nat
  PROVE  \E f : PartialProducts(f, shape, N)
<1> DEFINE T == {n \in Nat : \E f : PartialProducts(f, shape, n)}
<1>1. 0 \in T
  <2> PICK f : f = [i \in 0 .. 0 |-> 1]
    OBVIOUS
  <2>1. f = [i \in 0 .. 0 |-> IF i = 0 THEN 1 ELSE f[i - 1] * shape[i]]
    OBVIOUS
  <2> QED
    BY <2>1 DEF PartialProducts
<1>2. ASSUME NEW n \in T
      PROVE  n + 1 \in T
  <2>1. n \in Nat
    OBVIOUS
  <2>2. PICK f : PartialProducts(f, shape, n)
    OBVIOUS
  <2> PICK g : g = [i \in 0 .. n + 1 |-> IF i = n + 1 THEN f[n] * shape[n + 1] ELSE f[i]]
    OBVIOUS
  <2>3. ASSUME NEW i \in 0 .. n + 1
        PROVE  g[i] = IF i = 0 THEN 1 ELSE g[i - 1] * shape[i]
    <3>1. CASE i = n + 1
      BY <2>1, <3>1
    <3>2. CASE i # n + 1
      <4>1. i \in 0 .. n /\ g[i] = f[i] /\ (i # 0 => g[i - 1] = f[i - 1])
        BY <2>1, <3>2
      <4> QED
        BY <2>2, <4>1 DEF PartialProducts
    <3> QED
      BY <3>1, <3>2
  <2>4. g = [i \in 0 .. n + 1 |-> IF i = 0 THEN 1 ELSE g[i - 1] * shape[i]]
    BY <2>1, <2>3
  <2>5. PartialProducts(g, shape, n + 1)
    BY <2>4 DEF PartialProducts
  <2> QED
    BY <2>1, <2>5
<1> HIDE DEF T
<1>3. Nat \subseteq T
  BY <1>1, <1>2, SetInduction
<1> QED
  BY <1>3 DEF T

LEMMA ProductIsPartial ==
  ASSUME NEW shape, Len(shape) \in Nat
  PROVE  \E f : PartialProducts(f, shape, Len(shape)) /\ Product(shape) = f[Len(shape)]
<1>1. Product(shape) = (CHOOSE f : PartialProducts(f, shape, Len(shape)))[Len(shape)]
  BY DEF Product, PartialProducts
<1>2. PartialProducts(CHOOSE f : PartialProducts(f, shape, Len(shape)), shape, Len(shape))
  BY PartialProductsExist
<1> QED
  BY <1>1, <1>2

(* No element count is negative, and none is zero unless a dimension is. *)
LEMMA ProductIsNat ==
  ASSUME NEW shape \in Seq(Nat)
  PROVE  /\ Product(shape) \in Nat
         /\ (\A a \in DOMAIN shape : shape[a] # 0) => Product(shape) # 0
<1> DEFINE N == Len(shape)
<1>1. N \in Nat /\ DOMAIN shape = 1 .. N
  OBVIOUS
<1>2. PICK f : PartialProducts(f, shape, N) /\ Product(shape) = f[N]
  BY <1>1, ProductIsPartial
<1> DEFINE Good(x) == x \in Nat /\ ((\A a \in DOMAIN shape : shape[a] # 0) => x # 0)
           T == {n \in Nat : n <= N => Good(f[n])}
<1>3. f[0] = 1 /\ \A n \in 1 .. N : f[n] = f[n - 1] * shape[n]
  <2>1. N \in Nat /\ f = [i \in 0 .. N |-> IF i = 0 THEN 1 ELSE f[i - 1] * shape[i]]
    BY ONLY <1>1, <1>2 DEF PartialProducts
  <2> HIDE DEF N
  <2>2. f[0] = 1
    BY ONLY <2>1
  <2>3. ASSUME NEW n \in 1 .. N
        PROVE  f[n] = f[n - 1] * shape[n]
    BY ONLY <2>1, n \in 1 .. N
  <2> QED
    BY <2>2, <2>3, Zenon
<1>4. 0 \in T
  BY <1>3
<1>5. ASSUME NEW n \in T \cap Nat
      PROVE  n + 1 \in T
  <2>1. CASE n + 1 <= N
    <3>1. Good(f[n])
      BY <1>1, <2>1
    <3>2. f[n + 1] = f[n] * shape[n + 1]
      <4>1. n + 1 \in 1 .. N /\ (n + 1) - 1 = n
        BY <1>1, <2>1
      <4> QED
        BY <1>3, <4>1
    <3>3. shape[n + 1] \in Nat /\ n + 1 \in DOMAIN shape
      BY <1>1, <2>1
    <3>4. \A x, y \in Nat : x * y \in Nat /\ (x # 0 /\ y # 0 => x * y # 0)
      OBVIOUS
    <3>5. Good(f[n + 1])
      BY <3>1, <3>2, <3>3, <3>4
    <3> QED
      BY <3>5
  <2>2. CASE ~(n + 1 <= N)
    BY <2>2
  <2> QED
    BY <2>1, <2>2
<1> HIDE DEF T
<1>6. Nat \subseteq T
  BY <1>4, <1>5, SetInduction
<1>7. Good(f[N])
  BY <1>1, <1>6 DEF T
<1> QED
  BY <1>2, <1>7

-----------------------------------------------------------------------------
(* The first of several errors is one of them, if there is one.            *)

LEMMA FirstOfIsOne ==
  ASSUME NEW N \in Nat, NEW errors, DOMAIN errors = 1 .. N
  PROVE  /\ (\A i \in 1 .. N : errors[i] = <<>>) => FirstOf(errors) = <<>>
         /\ (\E i \in 1 .. N : errors[i] # <<>>) =>
              \E i \in 1 .. N : errors[i] # <<>> /\ FirstOf(errors) = errors[i]
<1> DEFINE bad == {i \in DOMAIN errors : errors[i] # <<>>}
<1>1. CASE \A i \in 1 .. N : errors[i] = <<>>
  <2>1. bad = {}
    BY <1>1
  <2> QED
    BY <1>1, <2>1 DEF FirstOf
<1>2. CASE \E i \in 1 .. N : errors[i] # <<>>
  <2>1. bad # {} /\ bad \subseteq Nat
    BY <1>2
  <2>2. FirstOf(errors) = errors[CHOOSE i \in bad : \A j \in bad : i <= j]
    BY <2>1 DEF FirstOf
  <2>3. \E i \in bad : \A j \in bad : i <= j
    <3> HIDE DEF bad
    <3> QED
      BY <2>1, Least
  <2>4. (CHOOSE i \in bad : \A j \in bad : i <= j) \in bad
    BY <2>3
  <2> QED
    BY <1>2, <2>2, <2>4
<1> QED
  BY <1>1, <1>2

-----------------------------------------------------------------------------
(* Formats that are made, and properties that are looked up.               *)

LEMMA OkIsNoError ==
  /\ \A v : IsOk(Ok(v)) /\ Ok(v).ok = <<v>> /\ Head(Ok(v).ok) = v /\ Ok(v).error = <<>>
  /\ \A e : Err(e).error = e /\ (e # <<>> => ~IsOk(Err(e)))
BY DEF Ok, Err, IsOk

(* What NdArrayFormat::new asks of everything but the bytes. *)
AxesFit(shape) ==
  shape # <<>> /\ FirstOf([a \in DOMAIN shape |-> AxisError(shape, a)]) = <<>>

Countable(element, shape, layout, rate) ==
  /\ HasSize(element) /\ layout \in Packed
  /\ rate # <<>> => FractionIsPositive(Head(rate))
  /\ AxesFit(shape)

FormatRecord(element, shape, layout, rate) ==
  [element |-> element, shape |-> shape, layout |-> layout, rate |-> rate]

LEMMA NewFormatIs ==
  ASSUME NEW element, NEW shape, NEW layout, NEW rate
  PROVE  LET new == NewFormat(element, shape, layout, rate)
             format == FormatRecord(element, shape, layout, rate)
         IN  /\ IsOk(new) => /\ new = Ok(format)
                             /\ Countable(element, shape, layout, rate)
                             /\ ~(ByteCount(format) > UsizeMax)
             /\ Countable(element, shape, layout, rate) =>
                  new = IF ByteCount(format) > UsizeMax THEN Err(<<"ByteCountOverflow">>)
                        ELSE Ok(format)
<1> DEFINE new == NewFormat(element, shape, layout, rate)
           format == FormatRecord(element, shape, layout, rate)
           axes == FirstOf([a \in DOMAIN shape |-> AxisError(shape, a)])
<1>1. new = IF ~HasSize(element) THEN Err(<<"UnsupportedElementType">>)
            ELSE IF layout \notin Packed THEN Err(<<"UnsupportedLayout">>)
            ELSE IF rate # <<>> /\ ~FractionIsPositive(Head(rate)) THEN Err(<<"InvalidRate">>)
            ELSE IF shape = <<>> THEN Err(<<"EmptyShape">>)
            ELSE IF axes # <<>> THEN Err(axes)
            ELSE IF ByteCount(format) > UsizeMax THEN Err(<<"ByteCountOverflow">>)
            ELSE Ok(format)
  BY Zenon DEF NewFormat, FormatRecord
<1>2. /\ ~IsOk(Err(<<"UnsupportedElementType">>)) /\ ~IsOk(Err(<<"UnsupportedLayout">>))
      /\ ~IsOk(Err(<<"InvalidRate">>)) /\ ~IsOk(Err(<<"EmptyShape">>))
      /\ ~IsOk(Err(<<"ByteCountOverflow">>)) /\ (axes # <<>> => ~IsOk(Err(axes)))
  BY OkIsNoError, ErrorsAreSome
<1> HIDE DEF new, format, axes
<1>3. AxesFit(shape) <=> shape # <<>> /\ axes = <<>>
  BY DEF AxesFit, axes
<1>4. ASSUME IsOk(new)
      PROVE  /\ new = Ok(format)
             /\ Countable(element, shape, layout, rate)
             /\ ~(ByteCount(format) > UsizeMax)
  BY <1>1, <1>2, <1>3, <1>4, Zenon DEF Countable
<1>5. ASSUME Countable(element, shape, layout, rate)
      PROVE  new = IF ByteCount(format) > UsizeMax THEN Err(<<"ByteCountOverflow">>)
                   ELSE Ok(format)
  BY <1>1, <1>3, <1>5, Zenon DEF Countable
<1> QED
  BY <1>4, <1>5 DEF new, format

(* The dimensions of a shape that fits are neither zero nor too large. *)
LEMMA AxesThatFit ==
  ASSUME NEW shape \in Seq(Nat), AxesFit(shape)
  PROVE  /\ Len(shape) \in Nat \ {0} /\ DOMAIN shape = 1 .. Len(shape)
         /\ \A a \in DOMAIN shape : shape[a] \in Nat \ {0} /\ shape[a] <= IntMax
<1> DEFINE errors == [a \in DOMAIN shape |-> AxisError(shape, a)]
<1>1. Len(shape) \in Nat \ {0} /\ DOMAIN shape = 1 .. Len(shape)
  BY DEF AxesFit
<1>2. DOMAIN errors = 1 .. Len(shape)
  BY <1>1
<1>3. FirstOf(errors) = <<>>
  BY DEF AxesFit
<1> HIDE DEF errors
<1>4. \A a \in 1 .. Len(shape) : errors[a] = <<>>
  BY <1>1, <1>2, <1>3, FirstOfIsOne
<1>5. ASSUME NEW a \in DOMAIN shape
      PROVE  shape[a] \in Nat \ {0} /\ shape[a] <= IntMax
  <2>1. AxisError(shape, a) = <<>>
    BY <1>1, <1>4 DEF errors
  <2>2. shape[a] # 0
    BY <2>1, ErrorsAreSome DEF AxisError
  <2>3. ~(shape[a] > IntMax)
    BY <2>1, <2>2, ErrorsAreSome DEF AxisError
  <2> QED
    BY <1>1, <2>2, <2>3, WidthAssumption
<1> QED
  BY <1>1, <1>5

LEMMA PropertyOnce ==
  ASSUME NEW properties, NEW key, NEW required, NEW i \in DOMAIN properties,
         properties[i].key = key,
         \A j \in DOMAIN properties : j # i => properties[j].key # key
  PROVE  PropertyValue(properties, key, required) = Ok(<<properties[i].value>>)
<1> DEFINE at == {j \in DOMAIN properties : properties[j].key = key}
<1>1. at = {i}
  OBVIOUS
<1>2. (CHOOSE j \in at : TRUE) = i
  BY <1>1
<1>3. ~ \E j, l \in at : j # l
  BY <1>1
<1>4. at # {}
  BY <1>1
<1> QED
  BY <1>2, <1>3, <1>4, Zenon DEF PropertyValue

LEMMA PropertyNever ==
  ASSUME NEW properties, NEW key, NEW required,
         \A j \in DOMAIN properties : properties[j].key # key
  PROVE  PropertyValue(properties, key, required) =
           IF required THEN Err(<<"MissingProperty", key>>) ELSE Ok(<<>>)
<1> DEFINE at == {j \in DOMAIN properties : properties[j].key = key}
<1>1. at = {}
  OBVIOUS
<1>2. ~ \E j, l \in at : j # l
  BY <1>1
<1> QED
  BY <1>1, <1>2, Zenon DEF PropertyValue

LEMMA PropertyTwice ==
  ASSUME NEW properties, NEW key, NEW required,
         NEW i \in DOMAIN properties, NEW j \in DOMAIN properties, i # j,
         properties[i].key = key, properties[j].key = key
  PROVE  ~IsOk(PropertyValue(properties, key, required))
<1> DEFINE at == {l \in DOMAIN properties : properties[l].key = key}
<1>1. \E l, m \in at : l # m
  OBVIOUS
<1>2. PropertyValue(properties, key, required) = Err(<<"DuplicateProperty", key>>)
  BY <1>1, Zenon DEF PropertyValue
<1> QED
  BY <1>2, OkIsNoError, ErrorsAreSome

-----------------------------------------------------------------------------
(* Settled properties: each of those of a format once and in its order,    *)
(* with the values that were chosen, and behind them an application's own. *)

Keys(i) == <<"MediaType", "MediaSubtype", "ElementType", "Shape", "Layout", "Rate">>[i]
ValueType(i) == <<"Id", "Id", "Id", "IntArray", "Id", "Fraction">>[i]

Chosen(i, element, shape, layout, rate) ==
  IF i = 1 THEN <<"Application">> ELSE IF i = 2 THEN <<"NdArray">>
  ELSE IF i = 3 THEN <<element>> ELSE IF i = 4 THEN shape
  ELSE IF i = 5 THEN <<layout>> ELSE rate

Count(rate) == IF rate = <<>> THEN 5 ELSE 6

IsSettled(ps, element, shape, layout, rate) ==
  /\ IsSequence(ps) /\ Count(rate) <= Len(ps)
  /\ \A i \in 1 .. Count(rate) : \E c \in {"Plain", "None"} :
       ps[i] = Property(Keys(i), Value(ValueType(i), c, Chosen(i, element, shape, layout, rate)))
  /\ \A i \in Count(rate) + 1 .. Len(ps) : ps[i].key \notin Required \cup {"Rate"}

LEMMA KeysDiffer ==
  /\ \A i, j \in 1 .. 6 : Keys(i) = Keys(j) => i = j
  /\ \A i \in 1 .. 6 : Keys(i) \in Required \cup {"Rate"}
  /\ \A i \in 1 .. 5 : Keys(i) # "Rate"
  /\ \A i \in 1 .. 6 : Keys(i) = "Shape" => i = 4
<1>1. /\ Keys(1) = "MediaType" /\ Keys(2) = "MediaSubtype" /\ Keys(3) = "ElementType"
      /\ Keys(4) = "Shape" /\ Keys(5) = "Layout" /\ Keys(6) = "Rate"
  BY DEF Keys
<1>2. \A i \in 1 .. 6 : i = 1 \/ i = 2 \/ i = 3 \/ i = 4 \/ i = 5 \/ i = 6
  OBVIOUS
<1>3. \A i, j \in 1 .. 6 : Keys(i) = Keys(j) => i = j
  BY <1>1, <1>2
<1>4. \A i \in 1 .. 6 : Keys(i) \in Required \cup {"Rate"}
  BY <1>1, <1>2 DEF Required
<1>5. \A i \in 1 .. 5 : Keys(i) # "Rate"
  BY <1>1, <1>3
<1>6. \A i \in 1 .. 6 : Keys(i) = "Shape" => i = 4
  BY <1>1, <1>2
<1> QED
  BY <1>3, <1>4, <1>5, <1>6

LEMMA SettledFacts ==
  ASSUME NEW ps, NEW element, NEW shape, NEW layout, NEW rate,
         IsSettled(ps, element, shape, layout, rate)
  PROVE  /\ Len(ps) \in Nat /\ DOMAIN ps = 1 .. Len(ps) /\ Count(rate) \in 5 .. 6
         /\ Count(rate) <= Len(ps)
         /\ \A i \in 1 .. Count(rate) :
              /\ ps[i].key = Keys(i) /\ ps[i].value.type = ValueType(i)
              /\ ps[i].value.choice \in {"Plain", "None"}
              /\ ps[i].value.values = Chosen(i, element, shape, layout, rate)
         /\ \A i \in DOMAIN ps : ps[i].key \in Required \cup {"Rate"} => i \in 1 .. Count(rate)
         /\ \A i \in 1 .. Count(rate) : \A j \in DOMAIN ps : j # i => ps[j].key # Keys(i)
<1>1. Len(ps) \in Nat /\ DOMAIN ps = 1 .. Len(ps) /\ Count(rate) \in 5 .. 6
      /\ Count(rate) <= Len(ps)
  BY DEF IsSettled, IsSequence, Count
<1>2. ASSUME NEW i \in 1 .. Count(rate)
      PROVE  /\ ps[i].key = Keys(i) /\ ps[i].value.type = ValueType(i)
             /\ ps[i].value.choice \in {"Plain", "None"}
             /\ ps[i].value.values = Chosen(i, element, shape, layout, rate)
  <2>1. PICK c \in {"Plain", "None"} :
          ps[i] = Property(Keys(i), Value(ValueType(i), c, Chosen(i, element, shape, layout, rate)))
    BY DEF IsSettled
  <2> QED
    BY <2>1 DEF Property, Value
<1>3. \A i \in DOMAIN ps : ps[i].key \in Required \cup {"Rate"} => i \in 1 .. Count(rate)
  <2> SUFFICES ASSUME NEW i \in DOMAIN ps, ~(i \in 1 .. Count(rate))
               PROVE  ps[i].key \notin Required \cup {"Rate"}
    OBVIOUS
  <2>1. i \in Count(rate) + 1 .. Len(ps)
    BY <1>1
  <2> QED
    BY <2>1 DEF IsSettled
<1>4. ASSUME NEW i \in 1 .. Count(rate), NEW j \in DOMAIN ps, j # i
      PROVE  ps[j].key # Keys(i)
  <2>1. i \in 1 .. 6
    BY <1>1
  <2>2. CASE j \in 1 .. Count(rate)
    <3>1. j \in 1 .. 6 /\ ps[j].key = Keys(j)
      BY <1>1, <1>2, <2>2
    <3> QED
      BY <1>4, <2>1, <3>1, KeysDiffer
  <2>3. CASE j \notin 1 .. Count(rate)
    <3>1. ps[j].key \notin Required \cup {"Rate"}
      BY <1>3, <2>3
    <3> QED
      BY <2>1, <3>1, KeysDiffer
  <2> QED
    BY <2>2, <2>3
<1> QED
  BY <1>1, <1>2, <1>3, <1>4

LEMMA SettledProperty ==
  ASSUME NEW ps, NEW element, NEW shape, NEW layout, NEW rate,
         IsSettled(ps, element, shape, layout, rate),
         NEW i \in 1 .. Count(rate), NEW required
  PROVE  PropertyValue(ps, Keys(i), required) = Ok(<<ps[i].value>>)
<1>1. i \in DOMAIN ps /\ ps[i].key = Keys(i) /\ \A j \in DOMAIN ps : j # i => ps[j].key # Keys(i)
  BY SettledFacts
<1> QED
  BY <1>1, PropertyOnce

(* An Id that was settled is read as it is. *)
LEMMA SettledId ==
  ASSUME NEW ps, NEW element, NEW shape, NEW layout, NEW rate,
         IsSettled(ps, element, shape, layout, rate),
         NEW i \in {1, 2, 3, 5}, NEW id, Chosen(i, element, shape, layout, rate) = <<id>>
  PROVE  ReadId(ps, Keys(i)) = Ok(id)
<1>1. i \in 1 .. Count(rate) /\ ValueType(i) = "Id"
  BY DEF Count, ValueType
<1>2. PICK v : v = ps[i].value
  OBVIOUS
<1>3. PropertyValue(ps, Keys(i), TRUE) = Ok(<<v>>)
  BY <1>1, <1>2, SettledProperty
<1>4. v.type = "Id" /\ v.choice \in {"Plain", "None"} /\ v.values = <<id>>
  BY <1>1, <1>2, SettledFacts
<1>5. FixedId(v) = <<id>>
  BY <1>4 DEF FixedId, FixedOf
<1>6. Head(Head(Ok(<<v>>).ok)) = v /\ IsOk(Ok(<<v>>))
  BY OkIsNoError
<1>7. ReadId(ps, Keys(i)) = IF FixedId(v) = <<>> THEN Err(<<"InvalidProperty", Keys(i)>>)
                           ELSE Ok(Head(FixedId(v)))
  BY <1>3, <1>6 DEF ReadId
<1> QED
  BY <1>5, <1>7

(* What settled properties are read as: the format of the chosen values. *)
LEMMA SettledIsRead ==
  ASSUME NEW ps, NEW element, NEW shape \in Seq(Nat), NEW layout, NEW rate,
         IsSettled(ps, element, shape, layout, rate)
  PROVE  FromProperties(ps) = NewFormat(element, shape, layout, rate)
<1>1. /\ Keys(1) = "MediaType" /\ Keys(2) = "MediaSubtype" /\ Keys(3) = "ElementType"
      /\ Keys(4) = "Shape" /\ Keys(5) = "Layout" /\ Keys(6) = "Rate"
  BY DEF Keys
<1>2. /\ ReadId(ps, "MediaType") = Ok("Application")
      /\ ReadId(ps, "MediaSubtype") = Ok("NdArray")
      /\ ReadId(ps, "ElementType") = Ok(element)
      /\ ReadId(ps, "Layout") = Ok(layout)
  <2>1. /\ Chosen(1, element, shape, layout, rate) = <<"Application">>
        /\ Chosen(2, element, shape, layout, rate) = <<"NdArray">>
        /\ Chosen(3, element, shape, layout, rate) = <<element>>
        /\ Chosen(5, element, shape, layout, rate) = <<layout>>
    BY DEF Chosen
  <2>2. ReadId(ps, Keys(1)) = Ok("Application")
    BY <2>1, SettledId
  <2>3. ReadId(ps, Keys(2)) = Ok("NdArray")
    BY <2>1, SettledId
  <2>4. ReadId(ps, Keys(3)) = Ok(element)
    BY <2>1, SettledId
  <2>5. ReadId(ps, Keys(5)) = Ok(layout)
    BY <2>1, SettledId
  <2> QED
    BY <1>1, <2>2, <2>3, <2>4, <2>5
<1>3. /\ ReadMedia(ps, "MediaType", "Application") = Ok("Application")
      /\ ReadMedia(ps, "MediaSubtype", "NdArray") = Ok("NdArray")
  BY <1>2, OkIsNoError DEF ReadMedia
<1>4. ReadShape(ps) = Ok(shape)
  <2>1. 4 \in 1 .. Count(rate)
    BY DEF Count
  <2>2. PICK v : v = ps[4].value
    OBVIOUS
  <2>3. PropertyValue(ps, "Shape", TRUE) = Ok(<<v>>)
    BY <1>1, <2>1, <2>2, SettledProperty
  <2>4. v.type = "IntArray" /\ v.values = shape
    <3>1. ps[4].value.type = ValueType(4)
          /\ ps[4].value.values = Chosen(4, element, shape, layout, rate)
      BY <2>1, SettledFacts
    <3> QED
      BY <2>2, <3>1 DEF ValueType, Chosen
  <2>5. ~ \E a \in DOMAIN v.values : v.values[a] < 0
    BY <2>4
  <2>6. Head(Head(Ok(<<v>>).ok)) = v /\ IsOk(Ok(<<v>>))
    BY OkIsNoError
  <2>7. ReadShape(ps) = Ok(v.values)
    BY <2>3, <2>4, <2>5, <2>6 DEF ReadShape
  <2> QED
    BY <2>4, <2>7
<1>5. ReadRate(ps) = Ok(rate)
  <2>1. CASE rate = <<>>
    <3>1. \A j \in DOMAIN ps : ps[j].key # "Rate"
      <4> SUFFICES ASSUME NEW j \in DOMAIN ps, ps[j].key = "Rate" PROVE FALSE
        OBVIOUS
      <4>1. j \in 1 .. Count(rate)
        BY SettledFacts
      <4>2. j \in 1 .. 5 /\ ps[j].key = Keys(j)
        BY <2>1, <4>1, SettledFacts DEF Count
      <4> QED
        BY <4>2, KeysDiffer
    <3>2. PropertyValue(ps, "Rate", FALSE) = Ok(<<>>)
      BY <3>1, PropertyNever
    <3> QED
      BY <2>1, <3>2, OkIsNoError DEF ReadRate
  <2>2. CASE rate # <<>>
    <3>1. 6 \in 1 .. Count(rate)
      BY <2>2 DEF Count
    <3>2. PICK v : v = ps[6].value
      OBVIOUS
    <3>3. PropertyValue(ps, "Rate", FALSE) = Ok(<<v>>)
      BY <1>1, <3>1, <3>2, SettledProperty
    <3>4. v.type = "Fraction" /\ v.choice \in {"Plain", "None"} /\ v.values = rate
      <4>1. /\ ps[6].value.type = ValueType(6) /\ ps[6].value.choice \in {"Plain", "None"}
            /\ ps[6].value.values = Chosen(6, element, shape, layout, rate)
        BY <3>1, SettledFacts
      <4> QED
        BY <3>2, <4>1 DEF ValueType, Chosen
    <3>5. FixedFraction(v) = rate
      BY <3>4 DEF FixedFraction, FixedOf
    <3>6. Head(Ok(<<v>>).ok) = <<v>> /\ Head(<<v>>) = v /\ <<v>> # <<>> /\ IsOk(Ok(<<v>>))
      BY OkIsNoError
    <3> QED
      BY <2>2, <3>3, <3>5, <3>6 DEF ReadRate
  <2> QED
    BY <2>1, <2>2
<1>6. FirstOf(<<ReadMedia(ps, "MediaType", "Application").error,
                ReadMedia(ps, "MediaSubtype", "NdArray").error,
                ReadId(ps, "ElementType").error, ReadShape(ps).error,
                ReadId(ps, "Layout").error, ReadRate(ps).error>>) = <<>>
  <2> DEFINE errors == <<ReadMedia(ps, "MediaType", "Application").error,
                         ReadMedia(ps, "MediaSubtype", "NdArray").error,
                         ReadId(ps, "ElementType").error, ReadShape(ps).error,
                         ReadId(ps, "Layout").error, ReadRate(ps).error>>
  <2>1. \A v : Ok(v).error = <<>>
    BY OkIsNoError
  <2>2. DOMAIN errors = 1 .. 6 /\ \A i \in 1 .. 6 : errors[i] = <<>>
    BY <1>2, <1>3, <1>4, <1>5, <2>1
  <2> HIDE DEF errors
  <2>3. FirstOf(errors) = <<>>
    BY <2>2, FirstOfIsOne
  <2> QED
    BY <2>3 DEF errors
<1>7. \A v : Head(Ok(v).ok) = v
  BY OkIsNoError
<1> QED
  BY <1>2, <1>4, <1>5, <1>6, <1>7, Zenon DEF FromProperties

-----------------------------------------------------------------------------
(* Spoiled properties: one of the six cannot be read, and nobody reads a   *)
(* format.                                                                 *)

(* What reading the property with the i-th key gives. *)
ReadAt(i, ps) ==
  IF i = 1 THEN ReadMedia(ps, "MediaType", "Application")
  ELSE IF i = 2 THEN ReadMedia(ps, "MediaSubtype", "NdArray")
  ELSE IF i = 3 THEN ReadId(ps, "ElementType") ELSE IF i = 4 THEN ReadShape(ps)
  ELSE IF i = 5 THEN ReadId(ps, "Layout") ELSE ReadRate(ps)

LEMMA OneIsEnough ==
  ASSUME NEW ps, NEW i \in 1 .. 6, ~IsOk(ReadAt(i, ps))
  PROVE  ~IsOk(FromProperties(ps))
<1> DEFINE errors == <<ReadMedia(ps, "MediaType", "Application").error,
                       ReadMedia(ps, "MediaSubtype", "NdArray").error,
                       ReadId(ps, "ElementType").error, ReadShape(ps).error,
                       ReadId(ps, "Layout").error, ReadRate(ps).error>>
<1>1. DOMAIN errors = 1 .. 6
  OBVIOUS
<1>2. errors[i] # <<>>
  <2>1. i = 1 \/ i = 2 \/ i = 3 \/ i = 4 \/ i = 5 \/ i = 6
    OBVIOUS
  <2>2. /\ errors[1] = ReadAt(1, ps).error /\ errors[2] = ReadAt(2, ps).error
        /\ errors[3] = ReadAt(3, ps).error /\ errors[4] = ReadAt(4, ps).error
        /\ errors[5] = ReadAt(5, ps).error /\ errors[6] = ReadAt(6, ps).error
    BY DEF ReadAt
  <2> HIDE DEF errors
  <2>3. errors[i] = ReadAt(i, ps).error
    BY <2>1, <2>2
  <2> QED
    BY <2>3 DEF IsOk
<1>3. FirstOf(errors) # <<>>
  <2> HIDE DEF errors
  <2> QED
    BY <1>1, <1>2, FirstOfIsOne
<1>4. FromProperties(ps) = Err(FirstOf(errors))
  BY <1>3, Zenon DEF FromProperties
<1> HIDE DEF errors
<1> QED
  BY <1>3, <1>4, OkIsNoError

Needed(i) == IF i = 6 THEN FALSE ELSE TRUE

LEMMA NeededIs ==
  ASSUME NEW ps, NEW key, NEW i
  PROVE  /\ i = 6 => PropertyValue(ps, key, Needed(i)) = PropertyValue(ps, key, FALSE)
         /\ i # 6 => PropertyValue(ps, key, Needed(i)) = PropertyValue(ps, key, TRUE)
BY Zenon DEF Needed

(* A property that is not found cannot be read, nor can an alternative. *)
LEMMA UnreadableAt ==
  ASSUME NEW ps, NEW i \in 1 .. 6, NEW found, found = PropertyValue(ps, Keys(i), Needed(i)),
         \/ ~IsOk(found)
         \/ i # 4 /\ \E v : found = Ok(<<v>>) /\ v.choice = "Enum"
         \/ i = 4 /\ \E v : found = Ok(<<v>>) /\ \E a \in DOMAIN v.values : v.values[a] < 0
  PROVE  ~IsOk(ReadAt(i, ps))
<1>1. /\ Keys(1) = "MediaType" /\ Keys(2) = "MediaSubtype" /\ Keys(3) = "ElementType"
      /\ Keys(4) = "Shape" /\ Keys(5) = "Layout" /\ Keys(6) = "Rate"
  BY DEF Keys
<1>2. /\ \A e : ~IsOk(Err(<<"InvalidProperty", e>>))
      /\ \A v : Head(Head(Ok(<<v>>).ok)) = v /\ Head(Ok(<<v>>).ok) # <<>> /\ IsOk(Ok(<<v>>))
  BY OkIsNoError, ErrorsAreSome
<1>3. \A v : v.choice = "Enum" => FixedId(v) = <<>> /\ FixedFraction(v) = <<>>
  BY DEF FixedId, FixedFraction, FixedOf
<1>4. ASSUME NEW key, key = Keys(i), i # 4, i # 6
      PROVE  ~IsOk(ReadId(ps, key))
  <2>1. found = PropertyValue(ps, key, TRUE)
    BY <1>4, NeededIs
  <2>2. CASE ~IsOk(found)
    BY <2>1, <2>2 DEF ReadId
  <2>3. CASE IsOk(found)
    <3>1. PICK v : found = Ok(<<v>>) /\ v.choice = "Enum"
      BY <1>4, <2>3
    <3>2. ReadId(ps, key) = Err(<<"InvalidProperty", key>>)
      BY <1>2, <1>3, <2>1, <2>3, <3>1 DEF ReadId
    <3> QED
      BY <1>2, <3>2
  <2> QED
    BY <2>2, <2>3
<1>5. CASE i \in {1, 2}
  <2>1. ~IsOk(ReadId(ps, Keys(i)))
    BY <1>4, <1>5
  <2>2. \A expected : ReadMedia(ps, Keys(i), expected) = ReadId(ps, Keys(i))
    BY <2>1 DEF ReadMedia
  <2> QED
    BY <1>1, <1>5, <2>1, <2>2 DEF ReadAt
<1>6. CASE i \in {3, 5}
  <2>1. ~IsOk(ReadId(ps, Keys(i)))
    BY <1>4, <1>6
  <2> QED
    BY <1>1, <1>6, <2>1 DEF ReadAt
<1>7. CASE i = 4
  <2>1. found = PropertyValue(ps, "Shape", TRUE)
    BY <1>1, <1>7, NeededIs
  <2>2. ~IsOk(ReadShape(ps))
    <3>1. CASE ~IsOk(found)
      BY <2>1, <3>1 DEF ReadShape
    <3>2. CASE IsOk(found)
      <4>1. PICK v : found = Ok(<<v>>) /\ \E a \in DOMAIN v.values : v.values[a] < 0
        BY <1>7, <3>2
      <4>2. ReadShape(ps) = Err(<<"InvalidProperty", "Shape">>)
        BY <1>2, <2>1, <3>2, <4>1 DEF ReadShape
      <4> QED
        BY <1>2, <4>2
    <3> QED
      BY <3>1, <3>2
  <2> QED
    BY <1>7, <2>2 DEF ReadAt
<1>8. CASE i = 6
  <2>1. found = PropertyValue(ps, "Rate", FALSE)
    BY <1>1, <1>8, NeededIs
  <2>2. ~IsOk(ReadRate(ps))
    <3>1. CASE ~IsOk(found)
      BY <2>1, <3>1 DEF ReadRate
    <3>2. CASE IsOk(found)
      <4>1. PICK v : found = Ok(<<v>>) /\ v.choice = "Enum"
        BY <1>8, <3>2
      <4>2. Head(found.ok) # <<>> /\ Head(Head(found.ok)) = v
        BY <1>2, <4>1
      <4>3. FixedFraction(v) = <<>>
        BY <1>3, <4>1
      <4>4. ReadRate(ps) = IF FixedFraction(Head(Head(found.ok))) = <<>>
                           THEN Err(<<"InvalidProperty", "Rate">>)
                           ELSE Ok(FixedFraction(Head(Head(found.ok))))
        BY <2>1, <3>2, <4>2, Zenon DEF ReadRate
      <4>5. ReadRate(ps) = Err(<<"InvalidProperty", "Rate">>)
        BY <4>2, <4>3, <4>4, Zenon
      <4> QED
        BY <1>2, <4>5
    <3> QED
      BY <3>1, <3>2
  <2> QED
    BY <1>8, <2>2 DEF ReadAt
<1> QED
  BY <1>5, <1>6, <1>7, <1>8

(* The outcome of a peer's carelessness with the i-th property. *)
Spoiled(ps, i, how) ==
  CASE how = "left out" -> SubSeq(ps, 1, i - 1) \o SubSeq(ps, i + 1, Len(ps))
    [] how = "twice" -> Append(ps, ps[i])
    [] how = "open" -> [ps EXCEPT ![i].value.choice = "Enum"]
    [] how = "negative" -> [ps EXCEPT ![i].value.values[1] = -1]

LEMMA LeftOutIsGone ==
  ASSUME NEW ps, IsSequence(ps), NEW i \in DOMAIN ps, NEW key,
         \A j \in DOMAIN ps : j # i => ps[j].key # key
  PROVE  LET qs == SubSeq(ps, 1, i - 1) \o SubSeq(ps, i + 1, Len(ps))
         IN  \A l \in DOMAIN qs : qs[l].key # key
<1>1. PICK S : ps \in Seq(S)
  BY DEF IsSequence
<1>2. Len(ps) \in Nat /\ DOMAIN ps = 1 .. Len(ps) /\ i \in 1 .. Len(ps)
  BY <1>1
<1>3. PICK a : a = SubSeq(ps, 1, i - 1)
  OBVIOUS
<1>4. PICK b : b = SubSeq(ps, i + 1, Len(ps))
  OBVIOUS
<1>5. a \in Seq(S) /\ Len(a) = i - 1 /\ \A l \in 1 .. i - 1 : a[l] = ps[l]
  BY <1>1, <1>2, <1>3
<1>6. b \in Seq(S) /\ Len(b) = Len(ps) - i /\ \A l \in 1 .. Len(ps) - i : b[l] = ps[l + i]
  BY <1>1, <1>2, <1>4
<1>7. /\ a \o b \in Seq(S) /\ Len(a \o b) = Len(a) + Len(b)
      /\ \A l \in 1 .. Len(a) + Len(b) : (a \o b)[l] = IF l <= Len(a) THEN a[l] ELSE b[l - Len(a)]
  BY ONLY <1>5, <1>6, Joined
<1>8. PICK ab : ab = a \o b
  OBVIOUS
<1>9. /\ ab \in Seq(S) /\ Len(ab) = Len(a) + Len(b)
      /\ \A l \in 1 .. Len(a) + Len(b) : ab[l] = IF l <= Len(a) THEN a[l] ELSE b[l - Len(a)]
  BY <1>7, <1>8, Zenon
<1>10. Len(a) + Len(b) = Len(ps) - 1
  BY ONLY <1>2, <1>5, <1>6
<1>11. DOMAIN ab = 1 .. Len(ps) - 1
  BY <1>9, <1>10
<1>12. ASSUME NEW l \in DOMAIN ab PROVE ab[l].key # key
  <2>1. l \in 1 .. Len(ps) - 1 /\ l \in 1 .. Len(a) + Len(b)
    BY <1>10, <1>11
  <2>2. ab[l] = IF l <= Len(a) THEN a[l] ELSE b[l - Len(a)]
    BY <1>9, <2>1, Zenon
  <2>3. CASE l <= i - 1
    <3>1. ab[l] = ps[l]
      BY ONLY <1>2, <1>5, <2>1, <2>2, <2>3
    <3>2. l \in DOMAIN ps /\ l # i
      BY <1>2, <2>1, <2>3
    <3> QED
      BY <3>1, <3>2
  <2>4. CASE l > i - 1
    <3>1. PICK m : m = l - (i - 1)
      OBVIOUS
    <3>2. m \in 1 .. Len(ps) - i /\ m + i = l + 1 /\ ~(l <= Len(a)) /\ m = l - Len(a)
      BY ONLY <1>2, <1>5, <2>1, <2>4, <3>1
    <3>3. ab[l] = ps[l + 1]
      BY ONLY <1>6, <2>2, <3>2
    <3>4. l + 1 \in DOMAIN ps /\ l + 1 # i
      BY <1>2, <2>1, <2>4
    <3> QED
      BY <3>3, <3>4
  <2>5. l <= i - 1 \/ l > i - 1
    BY <1>2, <2>1
  <2> QED
    BY <2>3, <2>4, <2>5, Zenon
<1> QED
  BY <1>3, <1>4, <1>8, <1>12, Zenon

LEMMA Appended ==
  ASSUME NEW S, NEW s \in Seq(S), NEW e \in S
  PROVE  /\ DOMAIN Append(s, e) = 1 .. Len(s) + 1 /\ Append(s, e)[Len(s) + 1] = e
         /\ \A l \in 1 .. Len(s) : Append(s, e)[l] = s[l]
OBVIOUS

(* An exchanged property that cannot be read. *)
LEMMA ExchangedIsRefused ==
  ASSUME NEW ps, NEW i \in 1 .. 6, i \in DOMAIN ps,
         \A j \in DOMAIN ps : j # i => ps[j].key # Keys(i),
         NEW x, x.key = Keys(i),
         \/ i # 4 /\ x.value.choice = "Enum"
         \/ i = 4 /\ \E a \in DOMAIN x.value.values : x.value.values[a] < 0
  PROVE  ~IsOk(FromProperties([ps EXCEPT ![i] = x]))
<1> PICK qs : qs = [ps EXCEPT ![i] = x]
  OBVIOUS
<1>1. DOMAIN qs = DOMAIN ps /\ qs[i] = x /\ \A j \in DOMAIN ps : j # i => qs[j] = ps[j]
  OBVIOUS
<1>2. \A j \in DOMAIN qs : j # i => qs[j].key # Keys(i)
  BY <1>1
<1>3. i \in DOMAIN qs /\ qs[i].key = Keys(i) /\ qs[i].value = x.value
  BY <1>1
<1> PICK v : v = x.value
  OBVIOUS
<1>4. PropertyValue(qs, Keys(i), Needed(i)) = Ok(<<v>>)
  <2>1. PropertyValue(qs, Keys(i), Needed(i)) = Ok(<<qs[i].value>>)
    BY ONLY <1>2, <1>3, PropertyOnce
  <2> QED
    BY ONLY <2>1, <1>3, v = x.value
<1>5. ~IsOk(ReadAt(i, qs))
  <2> PICK found : found = PropertyValue(qs, Keys(i), Needed(i))
    OBVIOUS
  <2>1. \/ i # 4 /\ \E w : found = Ok(<<w>>) /\ w.choice = "Enum"
        \/ i = 4 /\ \E w : found = Ok(<<w>>) /\ \E a \in DOMAIN w.values : w.values[a] < 0
    BY <1>4
  <2> QED
    BY <2>1, UnreadableAt
<1> QED
  BY <1>5, OneIsEnough

Ways == {"left out", "twice", "open", "negative"}

SpoilsOne(key, how) ==
  /\ key \in Required \cup {"Rate"}
  /\ how = "left out" => key \in Required
  /\ how = "open" => key # "Shape"
  /\ how = "negative" => key = "Shape"

LEMMA SpoiledIsRefused ==
  ASSUME NEW ps, NEW element, NEW shape, NEW layout, NEW rate,
         IsSettled(ps, element, shape, layout, rate), 1 \in DOMAIN shape,
         NEW i \in DOMAIN ps, NEW how \in Ways,
         SpoilsOne(ps[i].key, how)
  PROVE  ~IsOk(FromProperties(Spoiled(ps, i, how)))
<1>1. /\ Len(ps) \in Nat /\ DOMAIN ps = 1 .. Len(ps) /\ Count(rate) \in 5 .. 6
      /\ Count(rate) <= Len(ps) /\ i \in 1 .. Count(rate)
      /\ ps[i].key = Keys(i) /\ \A j \in DOMAIN ps : j # i => ps[j].key # Keys(i)
  <2>1. ps[i].key \in Required \cup {"Rate"}
    BY Zenon DEF SpoilsOne
  <2> QED
    BY <2>1, SettledFacts
<1>2. PICK c \in {"Plain", "None"} :
        ps[i] = Property(Keys(i), Value(ValueType(i), c, Chosen(i, element, shape, layout, rate)))
  BY <1>1 DEF IsSettled
<1>3. IsSequence(ps)
  BY DEF IsSettled
<1>4. i \in 1 .. 6
  BY ONLY <1>1
<1>5. CASE how = "left out"
  <2> PICK qs : qs = SubSeq(ps, 1, i - 1) \o SubSeq(ps, i + 1, Len(ps))
    OBVIOUS
  <2>1. Keys(i) \in Required
    BY <1>1, <1>5 DEF SpoilsOne
  <2>2. i # 6
    <3>1. Keys(6) = "Rate" /\ "Rate" \notin Required
      BY DEF Keys, Required
    <3> QED
      BY <2>1, <3>1, Zenon
  <2>3. \A l \in DOMAIN qs : qs[l].key # Keys(i)
    BY <1>1, <1>3, LeftOutIsGone
  <2>4. PropertyValue(qs, Keys(i), TRUE) = Err(<<"MissingProperty", Keys(i)>>)
    BY <2>3, PropertyNever
  <2>8. ~IsOk(Err(<<"MissingProperty", Keys(i)>>))
    BY OkIsNoError, ErrorsAreSome
  <2>5. ~IsOk(PropertyValue(qs, Keys(i), Needed(i)))
    BY <2>2, <2>4, <2>8, NeededIs, Zenon
  <2>6. ~IsOk(ReadAt(i, qs))
    BY <1>4, <2>5, UnreadableAt
  <2>7. Spoiled(ps, i, how) = qs
    BY <1>5 DEF Spoiled
  <2> QED
    BY <1>4, <2>6, <2>7, OneIsEnough
<1>6. CASE how = "twice"
  <2> PICK qs : qs = Append(ps, ps[i])
    OBVIOUS
  <2>1. DOMAIN qs = 1 .. Len(ps) + 1 /\ qs[Len(ps) + 1] = ps[i] /\ qs[i] = ps[i]
    <3>1. PICK S : ps \in Seq(S)
      BY <1>3 DEF IsSequence
    <3>2. i \in 1 .. Len(ps) /\ ps[i] \in S
      BY <3>1
    <3>3. /\ DOMAIN Append(ps, ps[i]) = 1 .. Len(ps) + 1
          /\ Append(ps, ps[i])[Len(ps) + 1] = ps[i]
          /\ \A l \in 1 .. Len(ps) : Append(ps, ps[i])[l] = ps[l]
      BY ONLY <3>1, <3>2, Appended
    <3> QED
      BY <3>2, <3>3, Zenon
  <2>2. i \in DOMAIN qs /\ Len(ps) + 1 \in DOMAIN qs /\ i # Len(ps) + 1
    BY ONLY <1>1, <1>4, <2>1
  <2>3. qs[i].key = Keys(i) /\ qs[Len(ps) + 1].key = Keys(i)
    BY <1>1, <2>1
  <2>4. ~IsOk(PropertyValue(qs, Keys(i), Needed(i)))
    BY <2>2, <2>3, PropertyTwice
  <2>5. ~IsOk(ReadAt(i, qs))
    BY <1>4, <2>4, UnreadableAt
  <2>6. Spoiled(ps, i, how) = qs
    BY <1>6 DEF Spoiled
  <2> QED
    BY <1>4, <2>5, <2>6, OneIsEnough
<1>7. CASE how = "open"
  <2>1. i # 4
    <3>1. Keys(4) = "Shape"
      BY DEF Keys
    <3>2. Keys(i) # "Shape"
      BY <1>1, <1>7 DEF SpoilsOne
    <3> QED
      BY <3>1, <3>2
  <2>2. PICK x : x = [ps[i] EXCEPT !.value.choice = "Enum"]
    OBVIOUS
  <2>3. Spoiled(ps, i, how) = [ps EXCEPT ![i] = x]
    BY <1>7, <2>2 DEF Spoiled
  <2>4. x.key = Keys(i) /\ x.value.choice = "Enum"
    BY ONLY <1>2, <2>2 DEF Property, Value
  <2>5. i \in DOMAIN ps /\ \A j \in DOMAIN ps : j # i => ps[j].key # Keys(i)
    BY ONLY <1>1
  <2>6. ~IsOk(FromProperties([ps EXCEPT ![i] = x]))
    BY ONLY <1>4, <2>1, <2>4, <2>5, ExchangedIsRefused
  <2> QED
    BY ONLY <2>3, <2>6, Zenon
<1>8. CASE how = "negative"
  <2>1. i = 4
    <3>1. Keys(i) = "Shape"
      BY <1>1, <1>8 DEF SpoilsOne
    <3> QED
      BY <1>4, <3>1, KeysDiffer
  <2>2. PICK x : x = [ps[i] EXCEPT !.value.values[1] = -1]
    OBVIOUS
  <2>3. Spoiled(ps, i, how) = [ps EXCEPT ![i] = x]
    BY <1>8, <2>2 DEF Spoiled
  <2>4. Chosen(i, element, shape, layout, rate) = shape
    BY ONLY <2>1 DEF Chosen
  <2>5. x.key = Keys(i) /\ x.value.values = [shape EXCEPT ![1] = -1]
    BY ONLY <1>2, <2>2, <2>4 DEF Property, Value
  <2>6. 1 \in DOMAIN x.value.values /\ x.value.values[1] < 0
    BY <2>5
  <2>7. \E a \in DOMAIN x.value.values : x.value.values[a] < 0
    BY <2>6
  <2>8. i \in DOMAIN ps
    OBVIOUS
  <2>9. ~IsOk(FromProperties([ps EXCEPT ![i] = x]))
    BY ONLY <1>1, <1>4, <2>1, <2>5, <2>7, <2>8, ExchangedIsRefused
  <2> QED
    BY <2>3, <2>9
<1> QED
  BY <1>5, <1>6, <1>7, <1>8 DEF Ways

-----------------------------------------------------------------------------
(* What may be offered, and what may be chosen of it.                      *)

Fraction == (0 .. U32Max) \X (0 .. U32Max)

LEMMA RangeIs == \A f : Range(f) = {f[x] : x \in DOMAIN f}
BY DEF Range

(* The rate r, as a sequence of one or none, is one of the offered. *)
RateOffered(default, choice, r) ==
  IF choice = <<>> THEN r = default
  ELSE /\ \E f \in Fraction : r = <<f>> /\ FractionIsPositive(f)
       /\ IF Head(choice).kind = "Enum"
          THEN Head(r) \in {Head(default)} \cup Range(Head(choice).values)
          ELSE /\ FractionLeq(Head(choice).values[1], Head(r))
               /\ FractionLeq(Head(r), Head(choice).values[2])

ValidOffer(enum) ==
  LET d == enum.default
  IN  /\ enum = [profile |-> enum.profile, default |-> d, elements |-> enum.elements,
                 layouts |-> enum.layouts, rateChoice |-> enum.rateChoice]
      /\ d = FormatRecord(d.element, d.shape, d.layout, d.rate)
      /\ enum.profile \in Profile
      /\ d.shape \in Seq(Nat) /\ d.rate \in {<<>>} \cup {<<f>> : f \in Fraction}
      /\ Countable(d.element, d.shape, d.layout, d.rate) /\ ByteCount(d) <= UsizeMax
      /\ IsSequence(enum.elements) /\ \A i \in DOMAIN enum.elements : HasSize(enum.elements[i])
      /\ IsSequence(enum.layouts) /\ \A i \in DOMAIN enum.layouts : enum.layouts[i] \in Packed
      /\ enum.rateChoice = <<>> \/ \E c \in RateChoices : /\ enum.rateChoice = <<c>>
                                                         /\ ValidRateChoice(d.rate, c)

SettledOffer(enum, ps) ==
  \E e \in {enum.default.element} \cup Range(enum.elements),
     l \in {enum.default.layout} \cup Range(enum.layouts) :
    \E r : /\ RateOffered(enum.default.rate, enum.rateChoice, r)
           /\ IsSettled(ps, e, enum.default.shape, l, r)

(* The order of fractions is transitive, when none of them is zero. *)
LEMMA FractionsAreOrdered ==
  ASSUME NEW f \in Fraction, NEW g \in Fraction, NEW h \in Fraction,
         FractionIsPositive(f), FractionIsPositive(g), FractionIsPositive(h)
  PROVE  /\ FractionLeq(f, f)
         /\ FractionLeq(f, g) /\ FractionLeq(g, h) => FractionLeq(f, h)
<1>1. U32Max \in Nat
  BY WidthAssumption DEF U32Max
<1>2. /\ f[1] \in Nat \ {0} /\ f[2] \in Nat \ {0} /\ g[1] \in Nat \ {0} /\ g[2] \in Nat \ {0}
      /\ h[1] \in Nat \ {0} /\ h[2] \in Nat \ {0}
  BY <1>1 DEF Fraction, FractionIsPositive
<1>3. FractionLeq(f, f)
  <2>1. f[1] * f[2] <= f[1] * f[2]
    BY ONLY <1>2
  <2> QED
    BY <2>1 DEF FractionLeq
<1>4. ASSUME FractionLeq(f, g), FractionLeq(g, h)
      PROVE  FractionLeq(f, h)
  <2>1. f[1] * g[2] <= g[1] * f[2] /\ g[1] * h[2] <= h[1] * g[2]
    BY <1>4 DEF FractionLeq
  <2>2. ASSUME NEW a \in Nat \ {0}, NEW b \in Nat \ {0}, NEW c \in Nat \ {0},
               NEW d \in Nat \ {0}, NEW x \in Nat \ {0}, NEW y \in Nat \ {0},
               a * d <= c * b, c * y <= x * d
        PROVE  a * y <= x * b
    <3>1. (a * y) * d <= (x * b) * d
      <4>1. (a * d) * y <= (c * b) * y
        BY ONLY <2>2
      <4>2. (c * y) * b <= (x * d) * b
        BY ONLY <2>2
      <4>3. (a * d) * y = (a * y) * d /\ (c * b) * y = (c * y) * b /\ (x * d) * b = (x * b) * d
        BY ONLY <2>2
      <4> QED
        BY ONLY <2>2, <4>1, <4>2, <4>3
    <3> QED
      BY ONLY <2>2, <3>1
  <2> QED
    BY ONLY <1>2, <2>1, <2>2 DEF FractionLeq
<1> QED
  BY <1>3, <1>4

LEMMA SizesAreKnown ==
  ASSUME NEW e, HasSize(e)
  PROVE  ElementSize(e) \in Sizes
BY Zenon DEF HasSize, ElementSize

(* The bytes of a shape grow with the element's size. *)
LEMMA BytesGrow ==
  ASSUME NEW f, NEW g, f.shape \in Seq(Nat), f.shape = g.shape,
         HasSize(f.element), HasSize(g.element)
  PROVE  /\ ByteCount(f) \in Nat /\ ByteCount(g) \in Nat
         /\ ElementSize(f.element) <= ElementSize(g.element) => ByteCount(f) <= ByteCount(g)
         /\ (\A a \in DOMAIN f.shape : f.shape[a] # 0) => ByteCount(f) # 0
<1>1. PICK p : p = Product(f.shape)
  OBVIOUS
<1>2. PICK a : a = ElementSize(f.element)
  OBVIOUS
<1>3. PICK b : b = ElementSize(g.element)
  OBVIOUS
<1>4. p \in Nat /\ ((\A x \in DOMAIN f.shape : f.shape[x] # 0) => p # 0)
  BY <1>1, ProductIsNat
<1>5. a \in Sizes /\ b \in Sizes
  BY <1>2, <1>3, SizesAreKnown
<1>6. ByteCount(f) = p * a /\ ByteCount(g) = p * b
  BY <1>1, <1>2, <1>3 DEF ByteCount, ElementCount
<1>7. /\ p * a \in Nat /\ p * b \in Nat /\ (a <= b => p * a <= p * b)
      /\ p # 0 => p * a # 0
  BY ONLY <1>4, <1>5 DEF Sizes
<1> QED
  BY <1>2, <1>3, <1>4, <1>6, <1>7

(* What is chosen of a valid offer is read as a format that was offered, or  *)
(* its bytes cannot be counted because an alternative element is wider.      *)
LEMMA SettledFormat ==
  ASSUME NEW enum, ValidOffer(enum), NEW ps, SettledOffer(enum, ps)
  PROVE  LET made == FromProperties(ps)
             f == Head(made.ok)
         IN  IF IsOk(made)
             THEN /\ made = Ok(f) /\ Offers(enum, f) /\ ByteCount(f) <= UsizeMax
                  /\ f = FormatRecord(f.element, f.shape, f.layout, f.rate)
                  /\ f.shape \in Seq(Nat) /\ Countable(f.element, f.shape, f.layout, f.rate)
             ELSE /\ made = Err(<<"ByteCountOverflow">>)
                  /\ \E i \in DOMAIN enum.elements :
                       ElementSize(enum.elements[i]) > ElementSize(enum.default.element)
<1> DEFINE d == enum.default
<1>1. PICK e \in {d.element} \cup Range(enum.elements), l \in {d.layout} \cup Range(enum.layouts) :
        \E r : RateOffered(d.rate, enum.rateChoice, r) /\ IsSettled(ps, e, d.shape, l, r)
  BY Zenon DEF SettledOffer
<1>2. PICK r : RateOffered(d.rate, enum.rateChoice, r) /\ IsSettled(ps, e, d.shape, l, r)
  BY <1>1
<1>3. PICK f : f = FormatRecord(e, d.shape, l, r)
  OBVIOUS
<1>4. d.shape \in Seq(Nat) /\ Countable(d.element, d.shape, d.layout, d.rate)
      /\ ByteCount(d) <= UsizeMax
  BY DEF ValidOffer
<1>5. HasSize(e)
  BY <1>4, RangeIs DEF ValidOffer, Countable
<1>6. l \in Packed
  BY <1>4, RangeIs DEF ValidOffer, Countable
<1>7. r # <<>> => FractionIsPositive(Head(r))
  <2>1. CASE enum.rateChoice = <<>>
    BY <1>2, <1>4, <2>1 DEF RateOffered, Countable
  <2>2. CASE enum.rateChoice # <<>>
    BY <1>2, <2>2 DEF RateOffered
  <2> QED
    BY <2>1, <2>2
<1>8. Countable(e, d.shape, l, r)
  BY <1>4, <1>5, <1>6, <1>7 DEF Countable
<1>9. FromProperties(ps) = NewFormat(e, d.shape, l, r)
  BY <1>2, <1>4, SettledIsRead
<1>10. FromProperties(ps) = IF ByteCount(f) > UsizeMax THEN Err(<<"ByteCountOverflow">>) ELSE Ok(f)
  BY <1>3, <1>8, <1>9, NewFormatIs, Zenon
<1>11. /\ f.element = e /\ f.shape = d.shape /\ f.layout = l /\ f.rate = r
  BY <1>3 DEF FormatRecord
<1>12. ByteCount(f) \in Nat /\ ByteCount(d) \in Nat
       /\ (ElementSize(e) <= ElementSize(d.element) => ByteCount(f) <= ByteCount(d))
  BY <1>4, <1>5, <1>11, BytesGrow DEF Countable
<1>13. CASE ByteCount(f) > UsizeMax
  <2>1. FromProperties(ps) = Err(<<"ByteCountOverflow">>)
    BY <1>10, <1>13
  <2>2. ~IsOk(FromProperties(ps))
    BY <2>1, OkIsNoError, ErrorsAreSome
  <2>3. ~(ElementSize(e) <= ElementSize(d.element))
    BY <1>4, <1>12, <1>13, WidthAssumption
  <2>4. ElementSize(e) \in Nat /\ ElementSize(d.element) \in Nat
    BY <1>4, <1>5, SizesAreKnown DEF Countable, Sizes
  <2>5. ElementSize(e) > ElementSize(d.element) /\ e # d.element
    BY <2>3, <2>4
  <2>6. PICK i \in DOMAIN enum.elements : e = enum.elements[i]
    BY <2>5, RangeIs
  <2>7. \E j \in DOMAIN enum.elements :
          ElementSize(enum.elements[j]) > ElementSize(enum.default.element)
    BY <2>5, <2>6
  <2> QED
    BY <2>1, <2>2, <2>7
<1>14. CASE ~(ByteCount(f) > UsizeMax)
  <2>1. FromProperties(ps) = Ok(f)
    BY <1>10, <1>14
  <2>2. IsOk(FromProperties(ps)) /\ Head(FromProperties(ps).ok) = f
    BY <2>1, OkIsNoError
  <2>3. ByteCount(f) <= UsizeMax
    BY <1>12, <1>14, WidthAssumption
  <2>4. Offers(enum, f)
    BY <1>1, <1>2, <1>11, Zenon DEF Offers, RateOffered
  <2> QED
    BY <1>3, <1>4, <1>8, <1>11, <2>1, <2>2, <2>3, <2>4
<1> QED
  BY <1>13, <1>14

-----------------------------------------------------------------------------
(* The properties of an offer, and how each of them may be settled.        *)

LEMMA IntsAsTheyAre ==
  ASSUME NEW shape \in Seq(Nat), \A a \in DOMAIN shape : shape[a] <= IntMax
  PROVE  [a \in DOMAIN shape |-> AsInt(shape[a])] = shape
<1>1. \A a \in DOMAIN shape : AsInt(shape[a]) = shape[a]
  BY WidthAssumption DEF AsInt
<1>2. shape = [a \in DOMAIN shape |-> shape[a]]
  OBVIOUS
<1> QED
  BY <1>1, <1>2

LEMMA PlainProperties ==
  ASSUME NEW d, d.rate \in {<<>>} \cup {<<f>> : f \in Fraction},
         d.shape \in Seq(Nat), \A a \in DOMAIN d.shape : d.shape[a] <= IntMax
  PROVE  LET plain == FormatProperties(d)
         IN  /\ DOMAIN plain = 1 .. Count(d.rate)
             /\ \A i \in 1 .. Count(d.rate) :
                  plain[i] = Property(Keys(i), Value(ValueType(i), "Plain",
                                        Chosen(i, d.element, d.shape, d.layout, d.rate)))
<1> DEFINE five == <<Property("MediaType", Value("Id", "Plain", <<"Application">>)),
                     Property("MediaSubtype", Value("Id", "Plain", <<"NdArray">>)),
                     Property("ElementType", Value("Id", "Plain", <<d.element>>)),
                     Property("Shape", Value("IntArray", "Plain", d.shape)),
                     Property("Layout", Value("Id", "Plain", <<d.layout>>))>>
           last == [i \in DOMAIN d.rate |-> Property("Rate", Value("Fraction", "Plain", d.rate))]
           want(i) == Property(Keys(i), Value(ValueType(i), "Plain",
                                 Chosen(i, d.element, d.shape, d.layout, d.rate)))
           S == {want(i) : i \in 1 .. 6}
<1>1. FormatProperties(d) = five \o last
  BY IntsAsTheyAre, Zenon DEF FormatProperties
<1>2. /\ five[1] = want(1) /\ five[2] = want(2) /\ five[3] = want(3)
      /\ five[4] = want(4) /\ five[5] = want(5)
  BY DEF Keys, ValueType, Chosen
<1>3. Len(five) = 5 /\ DOMAIN five = 1 .. 5
  OBVIOUS
<1>4. Property("Rate", Value("Fraction", "Plain", d.rate)) = want(6)
  BY DEF Keys, ValueType, Chosen
<1>5. d.rate = <<>> \/ DOMAIN d.rate = 1 .. 1
  OBVIOUS
<1>6. Count(d.rate) = 5 + Len(last) /\ Len(last) \in 0 .. 1 /\ last \in Seq(S)
      /\ \A i \in 1 .. Len(last) : last[i] = want(6)
  <2>1. CASE d.rate = <<>>
    <3>1. last = <<>>
      BY <2>1
    <3> HIDE DEF last, S
    <3> QED
      BY <2>1, <3>1 DEF Count
  <2>2. CASE d.rate # <<>>
    <3>1. last = [i \in 1 .. 1 |-> want(6)]
      BY <1>4, <1>5, <2>2
    <3>2. want(6) \in S
      OBVIOUS
    <3> PICK w : w = want(6)
      OBVIOUS
    <3> HIDE DEF last, S, want
    <3>4. last = [i \in 1 .. 1 |-> w] /\ w \in S
      BY <3>1, <3>2
    <3>3. last \in Seq(S) /\ Len(last) = 1 /\ last[1] = w
      BY ONLY <3>4
    <3> QED
      BY <2>2, <3>3 DEF Count
  <2> QED
    BY <2>1, <2>2
<1>7. five \in Seq(S)
  <2>1. want(1) \in S /\ want(2) \in S /\ want(3) \in S /\ want(4) \in S /\ want(5) \in S
    OBVIOUS
  <2>2. five[1] \in S /\ five[2] \in S /\ five[3] \in S /\ five[4] \in S /\ five[5] \in S
    BY <1>2, <2>1, Zenon
  <2> HIDE DEF S
  <2> QED
    BY <2>2
<1> HIDE DEF five, last, want, S
<1>8. /\ five \o last \in Seq(S) /\ Len(five \o last) = Len(five) + Len(last)
      /\ \A i \in 1 .. Len(five) + Len(last) :
           (five \o last)[i] = IF i <= Len(five) THEN five[i] ELSE last[i - Len(five)]
  BY ONLY <1>6, <1>7, Joined
<1>9. PICK plain : plain = five \o last
  OBVIOUS
<1>10. /\ plain \in Seq(S) /\ Len(plain) = Len(five) + Len(last)
       /\ \A i \in 1 .. Len(five) + Len(last) :
            plain[i] = IF i <= Len(five) THEN five[i] ELSE last[i - Len(five)]
  BY <1>8, <1>9, Zenon
<1>11. DOMAIN plain = 1 .. Count(d.rate) /\ Len(five) + Len(last) = Count(d.rate)
  BY <1>3, <1>6, <1>10
<1>12. ASSUME NEW i \in 1 .. Count(d.rate)
       PROVE  plain[i] = want(i)
  <2>1. plain[i] = IF i <= Len(five) THEN five[i] ELSE last[i - Len(five)]
    BY <1>10, <1>11, Zenon
  <2>2. CASE i \in 1 .. 5
    <3>1. i = 1 \/ i = 2 \/ i = 3 \/ i = 4 \/ i = 5
      BY <2>2
    <3>2. plain[i] = five[i]
      BY <1>3, <2>1, <2>2
    <3> QED
      BY <1>2, <3>1, <3>2
  <2>3. CASE i \notin 1 .. 5
    <3>1. i = 6 /\ i - Len(five) = 1 /\ 1 \in 1 .. Len(last) /\ ~(i <= Len(five))
      BY <1>3, <1>6, <2>3
    <3> QED
      BY <1>6, <2>1, <3>1
  <2> QED
    BY <2>2, <2>3
<1> QED
  BY <1>1, <1>9, <1>11, <1>12, Zenon DEF want

(* An enumeration holds its default twice; a range, its default first. *)
LEMMA EnumIsSettled ==
  ASSUME NEW type, NEW x, NEW alternatives, IsSequence(alternatives),
         NEW v \in Settlements(Value(type, "Enum", (<<x>> \o <<x>>) \o alternatives))
  PROVE  \E y \in {x} \cup Range(alternatives) : v = <<y>>
<1>1. PICK S : alternatives \in Seq(S)
  BY DEF IsSequence
<1>2. PICK xs : xs = <<x>> \o <<x>>
  OBVIOUS
<1>3. <<x>> \in Seq(S \cup {x}) /\ Len(<<x>>) = 1 /\ <<x>>[1] = x
  OBVIOUS
<1>4. xs \in Seq(S \cup {x}) /\ alternatives \in Seq(S \cup {x}) /\ Len(xs) = 2
      /\ xs[1] = x /\ xs[2] = x
  <2> PICK one : one = <<x>>
    OBVIOUS
  <2>1. one \in Seq(S \cup {x}) /\ Len(one) = 1 /\ one[1] = x
    BY <1>3
  <2>2. /\ one \o one \in Seq(S \cup {x}) /\ Len(one \o one) = Len(one) + Len(one)
        /\ \A l \in 1 .. Len(one) + Len(one) :
             (one \o one)[l] = IF l <= Len(one) THEN one[l] ELSE one[l - Len(one)]
    BY ONLY <2>1, Joined
  <2>3. Len(one \o one) = 2 /\ (one \o one)[1] = x /\ (one \o one)[2] = x
    BY ONLY <2>1, <2>2
  <2>4. xs = one \o one
    BY <1>2
  <2>5. alternatives \in Seq(S \cup {x})
    BY <1>1
  <2> QED
    BY <2>2, <2>3, <2>4, <2>5, Zenon
<1>5. /\ xs \o alternatives \in Seq(S \cup {x}) /\ Len(xs \o alternatives) = Len(xs) + Len(alternatives)
      /\ \A l \in 1 .. Len(xs) + Len(alternatives) :
           (xs \o alternatives)[l] = IF l <= Len(xs) THEN xs[l] ELSE alternatives[l - Len(xs)]
  BY ONLY <1>4, Joined
<1>6. PICK all : all = xs \o alternatives
  OBVIOUS
<1>7. /\ all \in Seq(S \cup {x}) /\ Len(all) = Len(xs) + Len(alternatives)
      /\ \A l \in 1 .. Len(xs) + Len(alternatives) :
           all[l] = IF l <= Len(xs) THEN xs[l] ELSE alternatives[l - Len(xs)]
  BY <1>5, <1>6, Zenon
<1>8. Settlements(Value(type, "Enum", all)) = {<<y>> : y \in Range(Tail(all))}
  BY DEF Settlements, Value
<1>9. PICK y \in Range(Tail(all)) : v = <<y>>
  BY <1>2, <1>6, <1>8
<1>10. Len(alternatives) \in Nat /\ DOMAIN alternatives = 1 .. Len(alternatives)
  BY <1>1
<1>11. /\ DOMAIN Tail(all) = 1 .. 1 + Len(alternatives)
       /\ \A l \in 1 .. 1 + Len(alternatives) : Tail(all)[l] = all[l + 1]
  BY <1>4, <1>7, <1>10
<1>12. PICK l \in 1 .. 1 + Len(alternatives) : y = all[l + 1]
  BY <1>9, <1>11, RangeIs
<1>13. CASE l = 1
  <2>1. all[2] = xs[2]
    BY <1>4, <1>7, <1>10
  <2> QED
    BY <1>4, <1>9, <1>12, <1>13, <2>1
<1>14. CASE l # 1
  <2>1. l - 1 \in 1 .. Len(alternatives) /\ l + 1 \in 1 .. Len(xs) + Len(alternatives)
        /\ ~(l + 1 <= Len(xs)) /\ (l + 1) - Len(xs) = l - 1
    BY <1>4, <1>10, <1>12, <1>14
  <2>2. all[l + 1] = alternatives[l - 1]
    BY <1>7, <2>1
  <2>3. alternatives[l - 1] \in Range(alternatives)
    BY <1>10, <2>1, RangeIs
  <2> QED
    BY <1>9, <1>12, <2>2, <2>3
<1> QED
  BY <1>13, <1>14

LEMMA RangeIsSettled ==
  ASSUME NEW type, NEW kind, kind \notin {"Plain", "None", "Enum"}, NEW x, NEW S,
         NEW values \in Seq(S), Len(values) >= 2,
         NEW v \in Settlements(Value(type, kind, (<<x>> \o <<>>) \o values))
  PROVE  v = <<x>> \/ v = <<values[1]>> \/ v = <<values[2]>>
<1>1. PICK xs : xs = <<x>> \o <<>>
  OBVIOUS
<1>2. xs = <<x>>
  BY <1>1
<1>3. xs \in Seq(S \cup {x}) /\ values \in Seq(S \cup {x}) /\ Len(xs) = 1 /\ xs[1] = x
  BY <1>2
<1>4. /\ xs \o values \in Seq(S \cup {x}) /\ Len(xs \o values) = Len(xs) + Len(values)
      /\ \A l \in 1 .. Len(xs) + Len(values) :
           (xs \o values)[l] = IF l <= Len(xs) THEN xs[l] ELSE values[l - Len(xs)]
  BY ONLY <1>3, Joined
<1>5. PICK all : all = xs \o values
  OBVIOUS
<1>6. /\ all \in Seq(S \cup {x}) /\ Len(all) = Len(xs) + Len(values)
      /\ \A l \in 1 .. Len(xs) + Len(values) :
           all[l] = IF l <= Len(xs) THEN xs[l] ELSE values[l - Len(xs)]
  BY <1>4, <1>5, Zenon
<1>7. Settlements(Value(type, kind, all)) = {<<y>> : y \in Range(SubSeq(all, 1, 3))}
  BY Zenon DEF Settlements, Value
<1>8. PICK y \in Range(SubSeq(all, 1, 3)) : v = <<y>>
  BY <1>1, <1>5, <1>7
<1>9. Len(values) \in Nat /\ 3 <= Len(all)
  BY <1>3, <1>6
<1>10. /\ DOMAIN SubSeq(all, 1, 3) = 1 .. 3
       /\ \A l \in 1 .. 3 : SubSeq(all, 1, 3)[l] = all[l]
  BY <1>6, <1>9
<1>11. PICK l \in 1 .. 3 : y = all[l]
  BY <1>8, <1>10, RangeIs
<1>12. all[1] = x /\ all[2] = values[1] /\ all[3] = values[2]
  BY <1>3, <1>6, <1>9
<1> QED
  BY <1>8, <1>11, <1>12

(* What EnumProperties makes of each property. *)
IdChoice(x, alternatives) ==
  IF alternatives = <<>> THEN Value("Id", "Plain", <<x>>)
  ELSE Value("Id", "Enum", (<<x>> \o <<x>>) \o alternatives)

Again(x, kind) == IF kind = "Enum" THEN <<x>> ELSE <<>>
WithDefault(x, kind, alternatives) == (<<x>> \o Again(x, kind)) \o alternatives

RateValue(rate, choice) ==
  IF choice = <<>> THEN Value("Fraction", "Plain", rate)
  ELSE Value("Fraction", Head(choice).kind,
             WithDefault(Head(rate), Head(choice).kind, Head(choice).values))

LEMMA WithChoiceIs ==
  ASSUME NEW key, NEW type, NEW choice, NEW values, NEW kind, NEW alternatives
  PROVE  WithChoice(Property(key, Value(type, choice, values)), kind, alternatives) =
           Property(key, Value(type, kind, WithDefault(Head(values), kind, alternatives)))
<1>1. PICK p : p = Property(key, Value(type, choice, values))
  OBVIOUS
<1>2. p = [key |-> key, value |-> Value(type, choice, values)]
  BY <1>1 DEF Property
<1>3. p.value = Value(type, choice, values)
  BY <1>2
<1>4. p.value.type = type /\ p.value.values = values
  BY <1>3 DEF Value
<1>5. ASSUME NEW w
      PROVE  [p EXCEPT !.value = w] = Property(key, w)
  BY <1>2 DEF Property
<1>6. WithChoice(p, kind, alternatives)
        = [p EXCEPT !.value = Value(type, kind, WithDefault(Head(values), kind, alternatives))]
  BY <1>4 DEF WithChoice, WithDefault, Again
<1> QED
  BY <1>1, <1>5, <1>6, Zenon

LEMMA EnumChoiceIs ==
  ASSUME NEW key, NEW type, NEW choice, NEW x, NEW alternatives
  PROVE  WithChoice(Property(key, Value(type, choice, <<x>>)), "Enum", alternatives) =
           Property(key, Value(type, "Enum", (<<x>> \o <<x>>) \o alternatives))
<1>1. WithChoice(Property(key, Value(type, choice, <<x>>)), "Enum", alternatives)
        = Property(key, Value(type, "Enum", WithDefault(Head(<<x>>), "Enum", alternatives)))
  BY WithChoiceIs
<1>2. Head(<<x>>) = x
  OBVIOUS
<1>3. WithDefault(x, "Enum", alternatives) = (<<x>> \o <<x>>) \o alternatives
  BY DEF WithDefault, Again
<1> QED
  BY <1>1, <1>2, <1>3

LEMMA EnumeratedProperties ==
  ASSUME NEW enum, ValidOffer(enum)
  PROVE  LET all == EnumProperties(enum)
             d == enum.default
         IN  /\ DOMAIN all = 1 .. Count(d.rate) /\ Len(all) = Count(d.rate)
             /\ \A i \in {1, 2, 4} : all[i] = Property(Keys(i), Value(ValueType(i), "Plain",
                                        Chosen(i, d.element, d.shape, d.layout, d.rate)))
             /\ all[3] = Property(Keys(3), IdChoice(d.element, enum.elements))
             /\ all[5] = Property(Keys(5), IdChoice(d.layout, enum.layouts))
             /\ d.rate # <<>> => all[6] = Property(Keys(6), RateValue(d.rate, enum.rateChoice))
<1> DEFINE d == enum.default
           all == EnumProperties(enum)
           plain == FormatProperties(d)
           WithIds(property, alternatives) ==
             IF alternatives = <<>> THEN property ELSE WithChoice(property, "Enum", alternatives)
           Alternated(property) ==
             CASE property.key = "ElementType" -> WithIds(property, enum.elements)
               [] property.key = "Layout" -> WithIds(property, enum.layouts)
               [] property.key = "Rate" /\ enum.rateChoice # <<>> ->
                     WithChoice(property, Head(enum.rateChoice).kind, Head(enum.rateChoice).values)
               [] OTHER -> property
<1>1. all = [i \in DOMAIN plain |-> Alternated(plain[i])]
  BY DEF EnumProperties
<1>2. d.shape \in Seq(Nat) /\ d.rate \in {<<>>} \cup {<<f>> : f \in Fraction}
      /\ AxesFit(d.shape)
  BY DEF ValidOffer, Countable
<1>3. \A a \in DOMAIN d.shape : d.shape[a] <= IntMax
  BY <1>2, AxesThatFit
<1> HIDE DEF plain
<1>4. /\ DOMAIN plain = 1 .. Count(d.rate)
      /\ \A i \in 1 .. Count(d.rate) :
           plain[i] = Property(Keys(i), Value(ValueType(i), "Plain",
                                 Chosen(i, d.element, d.shape, d.layout, d.rate)))
  BY <1>2, <1>3, PlainProperties DEF plain
<1> HIDE DEF all, Alternated
<1>5. DOMAIN all = 1 .. Count(d.rate) /\ \A i \in 1 .. Count(d.rate) : all[i] = Alternated(plain[i])
  BY <1>1, <1>4
<1>6. Len(all) = Count(d.rate)
  BY <1>5 DEF Count
<1>7. /\ Keys(1) = "MediaType" /\ Keys(2) = "MediaSubtype" /\ Keys(3) = "ElementType"
      /\ Keys(4) = "Shape" /\ Keys(5) = "Layout" /\ Keys(6) = "Rate"
  BY DEF Keys
<1>8. 1 \in 1 .. Count(d.rate) /\ 2 \in 1 .. Count(d.rate) /\ 3 \in 1 .. Count(d.rate)
      /\ 4 \in 1 .. Count(d.rate) /\ 5 \in 1 .. Count(d.rate)
  BY DEF Count
<1>9. \A i \in 1 .. Count(d.rate) : plain[i].key = Keys(i)
  BY <1>4 DEF Property
<1>10. ASSUME NEW i \in {1, 2, 4}
       PROVE  all[i] = Property(Keys(i), Value(ValueType(i), "Plain",
                          Chosen(i, d.element, d.shape, d.layout, d.rate)))
  <2>1. i \in 1 .. Count(d.rate)
    BY <1>8
  <2>2. plain[i].key \in {"MediaType", "MediaSubtype", "Shape"}
    BY <1>7, <1>9, <2>1
  <2>3. Alternated(plain[i]) = plain[i]
    BY <2>2 DEF Alternated
  <2> QED
    BY <1>4, <1>5, <2>1, <2>3
<1>11. ASSUME NEW i \in {3, 5}, NEW x, NEW alternatives,
              Chosen(i, d.element, d.shape, d.layout, d.rate) = <<x>>,
              Alternated(plain[i]) = WithIds(plain[i], alternatives)
       PROVE  all[i] = Property(Keys(i), IdChoice(x, alternatives))
  <2>1. i \in 1 .. Count(d.rate) /\ ValueType(i) = "Id"
    BY <1>8 DEF ValueType
  <2>2. plain[i] = Property(Keys(i), Value("Id", "Plain", <<x>>))
    BY <1>4, <1>11, <2>1
  <2>3. CASE alternatives = <<>>
    BY <1>5, <1>11, <2>1, <2>2, <2>3 DEF IdChoice
  <2>4. CASE alternatives # <<>>
    <3>1. all[i] = WithChoice(plain[i], "Enum", alternatives)
      BY <1>5, <1>11, <2>1, <2>4
    <3>2. all[i] = Property(Keys(i), Value("Id", "Enum", (<<x>> \o <<x>>) \o alternatives))
      BY <2>2, <3>1, EnumChoiceIs
    <3>3. IdChoice(x, alternatives) = Value("Id", "Enum", (<<x>> \o <<x>>) \o alternatives)
      BY <2>4, Zenon DEF IdChoice
    <3> QED
      BY <3>2, <3>3
  <2> QED
    BY <2>3, <2>4
<1>12. all[3] = Property(Keys(3), IdChoice(d.element, enum.elements))
  <2>1. Alternated(plain[3]) = WithIds(plain[3], enum.elements)
    BY <1>7, <1>8, <1>9 DEF Alternated
  <2>2. Chosen(3, d.element, d.shape, d.layout, d.rate) = <<d.element>>
    BY DEF Chosen
  <2> HIDE DEF WithIds
  <2> QED
    BY <1>11, <2>1, <2>2
<1>13. all[5] = Property(Keys(5), IdChoice(d.layout, enum.layouts))
  <2>1. Alternated(plain[5]) = WithIds(plain[5], enum.layouts)
    BY <1>7, <1>8, <1>9 DEF Alternated
  <2>2. Chosen(5, d.element, d.shape, d.layout, d.rate) = <<d.layout>>
    BY DEF Chosen
  <2> HIDE DEF WithIds
  <2> QED
    BY <1>11, <2>1, <2>2
<1>14. ASSUME d.rate # <<>>
       PROVE  all[6] = Property(Keys(6), RateValue(d.rate, enum.rateChoice))
  <2>1. 6 \in 1 .. Count(d.rate)
    BY <1>14 DEF Count
  <2>2. plain[6] = Property(Keys(6), Value("Fraction", "Plain", d.rate))
    BY <1>4, <2>1 DEF ValueType, Chosen
  <2>3. plain[6].key = "Rate" /\ all[6] = Alternated(plain[6])
    BY <1>5, <1>7, <1>9, <2>1
  <2>4. CASE enum.rateChoice = <<>>
    <3>1. Alternated(plain[6]) = plain[6]
      BY <2>3, <2>4 DEF Alternated
    <3> QED
      BY <2>2, <2>3, <2>4, <3>1 DEF RateValue
  <2>5. CASE enum.rateChoice # <<>>
    <3>1. Alternated(plain[6])
            = WithChoice(plain[6], Head(enum.rateChoice).kind, Head(enum.rateChoice).values)
      BY <2>3, <2>5 DEF Alternated
    <3> PICK choice : choice = enum.rateChoice
      OBVIOUS
    <3>2. all[6] = WithChoice(Property(Keys(6), Value("Fraction", "Plain", d.rate)),
                              Head(choice).kind, Head(choice).values)
      BY <2>2, <2>3, <3>1
    <3>3. all[6] = Property(Keys(6), Value("Fraction", Head(choice).kind,
            WithDefault(Head(d.rate), Head(choice).kind, Head(choice).values)))
      BY <3>2, WithChoiceIs
    <3>4. RateValue(d.rate, choice) = Value("Fraction", Head(choice).kind,
            WithDefault(Head(d.rate), Head(choice).kind, Head(choice).values))
      BY <2>5, Zenon DEF RateValue
    <3> QED
      BY <3>3, <3>4
  <2> QED
    BY <2>4, <2>5
<1> HIDE DEF d
<1> QED
  BY <1>5, <1>6, <1>10, <1>12, <1>13, <1>14, Zenon DEF all, d

(* An Id is settled as its default or one of its alternatives. *)
LEMMA IdIsSettled ==
  ASSUME NEW x, NEW alternatives, IsSequence(alternatives),
         NEW v \in Settlements(IdChoice(x, alternatives))
  PROVE  \E y \in {x} \cup Range(alternatives) : v = <<y>>
<1>1. CASE alternatives = <<>>
  <2>1. Settlements(IdChoice(x, alternatives)) = {<<x>>}
    BY <1>1 DEF IdChoice, Settlements, Value
  <2> QED
    BY <2>1
<1>2. CASE alternatives # <<>>
  <2>1. IdChoice(x, alternatives) = Value("Id", "Enum", (<<x>> \o <<x>>) \o alternatives)
    BY <1>2 DEF IdChoice
  <2>2. v \in Settlements(Value("Id", "Enum", (<<x>> \o <<x>>) \o alternatives))
    BY <2>1, Zenon
  <2> QED
    BY <2>2, EnumIsSettled
<1> QED
  BY <1>1, <1>2

(* A rate is settled as one of those that are offered. *)
LEMMA RateIsSettled ==
  ASSUME NEW rate, rate \in {<<>>} \cup {<<f>> : f \in Fraction},
         rate # <<>> => FractionIsPositive(Head(rate)),
         NEW choice, \/ choice = <<>>
                     \/ \E c \in RateChoices : choice = <<c>> /\ ValidRateChoice(rate, c),
         NEW v, v \in IF rate = <<>> THEN {<<>>} ELSE Settlements(RateValue(rate, choice))
  PROVE  RateOffered(rate, choice, v) /\ Count(v) = Count(rate)
<1>1. CASE choice = <<>>
  <2>1. v = rate
    <3>1. CASE rate = <<>>
      BY <3>1
    <3>2. CASE rate # <<>>
      <4>1. Settlements(RateValue(rate, choice)) = {rate}
        BY <1>1 DEF RateValue, Settlements, Value
      <4> QED
        BY <3>2, <4>1
    <3> QED
      BY <3>1, <3>2
  <2> QED
    BY <1>1, <2>1 DEF RateOffered
<1>2. CASE choice # <<>>
  <2>1. PICK c \in RateChoices : choice = <<c>> /\ ValidRateChoice(rate, c)
    BY <1>2
  <2>2. rate # <<>> /\ \A i \in DOMAIN c.values : FractionIsPositive(c.values[i])
    BY <2>1 DEF ValidRateChoice
  <2>3. PICK f \in Fraction : rate = <<f>>
    BY <2>2
  <2>4. Head(rate) = f /\ Head(choice) = c /\ FractionIsPositive(f)
    BY <2>1, <2>2, <2>3
  <2>5. /\ c.kind \in {"Enum", "Range", "Step"} /\ c.values \in Seq(Fraction)
        /\ c.kind = "Range" => Len(c.values) >= 2
        /\ c.kind = "Step" => Len(c.values) >= 3
    BY ValueAssumption DEF Fraction
  <2>6. RateValue(rate, choice) = Value("Fraction", c.kind,
          (<<f>> \o (IF c.kind = "Enum" THEN <<f>> ELSE <<>>)) \o c.values)
    BY <1>2, <2>4, Zenon DEF RateValue, WithDefault, Again
  <2>7. v \in Settlements(RateValue(rate, choice))
    BY <2>2
  <2>8. CASE c.kind = "Enum"
    <3>1. v \in Settlements(Value("Fraction", "Enum", (<<f>> \o <<f>>) \o c.values))
      BY <2>6, <2>7, <2>8, Zenon
    <3>2. IsSequence(c.values)
      BY <2>5 DEF IsSequence
    <3>3. PICK y \in {f} \cup Range(c.values) : v = <<y>>
      BY <3>1, <3>2, EnumIsSettled
    <3>4. y \in Fraction /\ FractionIsPositive(y)
      BY <2>2, <2>4, <2>5, <3>3, RangeIs
    <3>5. Head(v) = y /\ v # <<>>
      BY <3>3
    <3> QED
      BY <1>2, <2>2, <2>4, <2>8, <3>3, <3>4, <3>5 DEF RateOffered, Count
  <2>9. CASE c.kind # "Enum"
    <3>1. c.kind \notin {"Plain", "None", "Enum"} /\ Len(c.values) \in Nat /\ Len(c.values) >= 2
      BY <2>5, <2>9
    <3>2. v \in Settlements(Value("Fraction", c.kind, (<<f>> \o <<>>) \o c.values))
      BY <2>6, <2>7, <2>9, Zenon
    <3>3. v = <<f>> \/ v = <<c.values[1]>> \/ v = <<c.values[2]>>
      BY <2>5, <3>1, <3>2, RangeIsSettled
    <3> PICK g : g = c.values[1]
      OBVIOUS
    <3> PICK h : h = c.values[2]
      OBVIOUS
    <3>4. g \in Fraction /\ h \in Fraction /\ FractionIsPositive(g) /\ FractionIsPositive(h)
      BY <2>2, <2>5, <3>1
    <3>5. FractionLeq(g, f) /\ FractionLeq(f, h)
      BY <2>1, <2>4, <2>9 DEF ValidRateChoice
    <3>6. /\ FractionLeq(g, g) /\ FractionLeq(h, h) /\ FractionLeq(g, h)
      BY <2>4, <3>4, <3>5, FractionsAreOrdered
    <3>7. PICK y \in Fraction : v = <<y>> /\ FractionIsPositive(y) /\ FractionLeq(g, y) /\ FractionLeq(y, h)
      BY <2>4, <3>3, <3>4, <3>5, <3>6
    <3>8. Head(v) = y /\ v # <<>>
      BY <3>7
    <3> QED
      BY <1>2, <2>2, <2>4, <2>9, <3>7, <3>8 DEF RateOffered, Count
  <2> QED
    BY <2>8, <2>9
<1> QED
  BY <1>1, <1>2

(* What the native filter settles is a choice from what was offered. *)
LEMMA SettledChoices ==
  ASSUME NEW enum, ValidOffer(enum), NEW all, all = EnumProperties(enum),
         NEW e \in Settlements(all[3].value), NEW l \in Settlements(all[5].value),
         NEW r, r \in IF Len(all) = 6 THEN Settlements(all[6].value) ELSE {<<>>}
  PROVE  /\ \E x \in {enum.default.element} \cup Range(enum.elements) : e = <<x>>
         /\ \E y \in {enum.default.layout} \cup Range(enum.layouts) : l = <<y>>
         /\ RateOffered(enum.default.rate, enum.rateChoice, r)
         /\ Count(r) = Count(enum.default.rate)
<1>1. PICK d : d = enum.default
  OBVIOUS
<1>2. /\ Len(all) = Count(d.rate)
      /\ all[3] = Property(Keys(3), IdChoice(d.element, enum.elements))
      /\ all[5] = Property(Keys(5), IdChoice(d.layout, enum.layouts))
      /\ d.rate # <<>> => all[6] = Property(Keys(6), RateValue(d.rate, enum.rateChoice))
  BY <1>1, EnumeratedProperties, Zenon
<1>3. \A key, value : Property(key, value).value = value
  BY DEF Property
<1>4. /\ all[3].value = IdChoice(d.element, enum.elements)
      /\ all[5].value = IdChoice(d.layout, enum.layouts)
      /\ d.rate # <<>> => all[6].value = RateValue(d.rate, enum.rateChoice)
  BY <1>2, <1>3
<1>5. IsSequence(enum.elements) /\ IsSequence(enum.layouts)
  BY Zenon DEF ValidOffer
<1>6. \E x \in {d.element} \cup Range(enum.elements) : e = <<x>>
  BY <1>4, <1>5, IdIsSettled
<1>7. \E y \in {d.layout} \cup Range(enum.layouts) : l = <<y>>
  BY <1>4, <1>5, IdIsSettled
<1>8. d.rate \in {<<>>} \cup {<<f>> : f \in Fraction}
  BY <1>1 DEF ValidOffer
<1>9. d.rate # <<>> => FractionIsPositive(Head(d.rate))
  BY <1>1 DEF ValidOffer, Countable
<1>10. \/ enum.rateChoice = <<>>
       \/ \E c \in RateChoices : enum.rateChoice = <<c>> /\ ValidRateChoice(d.rate, c)
  BY <1>1, Zenon DEF ValidOffer
<1>11. r \in IF d.rate = <<>> THEN {<<>>} ELSE Settlements(RateValue(d.rate, enum.rateChoice))
  BY <1>2, <1>4 DEF Count
<1>12. RateOffered(d.rate, enum.rateChoice, r) /\ Count(r) = Count(d.rate)
  BY <1>8, <1>9, <1>10, <1>11, RateIsSettled
<1> QED
  BY <1>1, <1>6, <1>7, <1>12, Zenon

LEMMA SettledAsChosen ==
  ASSUME NEW enum, ValidOffer(enum), NEW all, all = EnumProperties(enum), NEW wrapped,
         NEW x, NEW y, NEW r, Count(r) = Count(enum.default.rate),
         NEW front, front = SettledAs(all, wrapped, <<x>>, <<y>>, r)
  PROVE  /\ DOMAIN front = 1 .. Count(r)
         /\ \A i \in 1 .. Count(r) : \E c \in {"Plain", "None"} :
              front[i] = Property(Keys(i), Value(ValueType(i), c,
                            Chosen(i, x, enum.default.shape, y, r)))
<1>1. PICK d : d = enum.default
  OBVIOUS
<1>2. /\ DOMAIN all = 1 .. Count(d.rate)
      /\ \A i \in {1, 2, 4} : all[i] = Property(Keys(i), Value(ValueType(i), "Plain",
                                 Chosen(i, d.element, d.shape, d.layout, d.rate)))
      /\ all[3] = Property(Keys(3), IdChoice(d.element, enum.elements))
      /\ all[5] = Property(Keys(5), IdChoice(d.layout, enum.layouts))
      /\ d.rate # <<>> => all[6] = Property(Keys(6), RateValue(d.rate, enum.rateChoice))
  BY <1>1, EnumeratedProperties, Zenon
<1>3. /\ \A key, value : Property(key, value).value = value /\ Property(key, value).key = key
      /\ \A t, c, v : Value(t, c, v).type = t /\ Value(t, c, v).values = v
  BY DEF Property, Value
<1>4. /\ all[3].key = Keys(3) /\ all[3].value = IdChoice(d.element, enum.elements)
      /\ all[5].key = Keys(5) /\ all[5].value = IdChoice(d.layout, enum.layouts)
      /\ d.rate # <<>> => all[6].key = Keys(6) /\ all[6].value = RateValue(d.rate, enum.rateChoice)
  BY <1>2, <1>3
<1>5. /\ \A t, a : IdChoice(t, a).type = "Id"
      /\ \A t, c : RateValue(t, c).type = "Fraction"
  BY <1>3 DEF IdChoice, RateValue
<1>6. all[3].value.type = "Id" /\ all[5].value.type = "Id"
      /\ (d.rate # <<>> => all[6].value.type = "Fraction")
  BY <1>4, <1>5
<1>7. \A i \in {1, 2, 4} : /\ all[i].key = Keys(i) /\ all[i].value.type = ValueType(i)
                           /\ all[i].value.values = Chosen(i, x, d.shape, y, r)
  <2>1. \A i \in {1, 2, 4} :
          Chosen(i, d.element, d.shape, d.layout, d.rate) = Chosen(i, x, d.shape, y, r)
    BY DEF Chosen
  <2> QED
    BY <1>2, <1>3, <2>1
<1> DEFINE Now(i) == CASE i = 3 -> <<x>> [] i = 5 -> <<y>> [] i = 6 -> r
                       [] OTHER -> all[i].value.values
           Kept(i) == IF wrapped /\ all[i].value.type # "IntArray" THEN "None" ELSE "Plain"
<1>8. front = [i \in DOMAIN all |-> Property(all[i].key, Value(all[i].value.type, Kept(i), Now(i)))]
  BY Zenon DEF SettledAs
<1>9. \A i : Kept(i) \in {"Plain", "None"}
  OBVIOUS
<1> HIDE DEF Kept
<1>10. DOMAIN front = 1 .. Count(r) /\ \A i \in 1 .. Count(r) :
         front[i] = Property(all[i].key, Value(all[i].value.type, Kept(i), Now(i)))
  BY <1>1, <1>2, <1>8
<1>11. Count(r) = IF d.rate = <<>> THEN 5 ELSE 6
  BY <1>1 DEF Count
<1>12. ASSUME NEW i \in 1 .. Count(r)
       PROVE  /\ all[i].key = Keys(i) /\ all[i].value.type = ValueType(i)
              /\ Now(i) = Chosen(i, x, d.shape, y, r)
  <2>1. i = 1 \/ i = 2 \/ i = 3 \/ i = 4 \/ i = 5 \/ (i = 6 /\ d.rate # <<>>)
    BY <1>11
  <2>2. CASE i = 1 \/ i = 2 \/ i = 4
    BY <1>7, <2>2
  <2>3. CASE i = 3
    BY <1>4, <1>6, <2>3 DEF Chosen, ValueType
  <2>4. CASE i = 5
    BY <1>4, <1>6, <2>4 DEF Chosen, ValueType
  <2>5. CASE i = 6 /\ d.rate # <<>>
    BY <1>4, <1>6, <2>5 DEF Chosen, ValueType
  <2> QED
    BY <2>1, <2>2, <2>3, <2>4, <2>5
<1> HIDE DEF Now
<1>13. \A i \in 1 .. Count(r) :
         front[i] = Property(Keys(i), Value(ValueType(i), Kept(i), Chosen(i, x, d.shape, y, r)))
  BY <1>10, <1>12
<1>14. \A i \in 1 .. Count(r) : \E c \in {"Plain", "None"} :
         front[i] = Property(Keys(i), Value(ValueType(i), c, Chosen(i, x, enum.default.shape, y, r)))
  BY <1>1, <1>9, <1>13
<1>15. DOMAIN front = 1 .. Count(r)
  BY <1>10
<1> QED
  BY <1>14, <1>15

(* Settled with care, and perhaps with an application's own properties. *)
LEMMA SettleIsSettled ==
  ASSUME NEW enum, ValidOffer(enum), NEW all, all = EnumProperties(enum), NEW wrapped,
         NEW e \in Settlements(all[3].value), NEW l \in Settlements(all[5].value),
         NEW r, r \in IF Len(all) = 6 THEN Settlements(all[6].value) ELSE {<<>>},
         NEW added, IsSequence(added),
         \A i \in DOMAIN added : added[i].key \notin Required \cup {"Rate"}
  PROVE  SettledOffer(enum, SettledAs(all, wrapped, e, l, r) \o added)
<1>1. /\ \E x \in {enum.default.element} \cup Range(enum.elements) : e = <<x>>
      /\ \E y \in {enum.default.layout} \cup Range(enum.layouts) : l = <<y>>
      /\ RateOffered(enum.default.rate, enum.rateChoice, r)
      /\ Count(r) = Count(enum.default.rate)
  BY SettledChoices
<1>2. PICK x \in {enum.default.element} \cup Range(enum.elements) : e = <<x>>
  BY <1>1
<1>3. PICK y \in {enum.default.layout} \cup Range(enum.layouts) : l = <<y>>
  BY <1>1
<1>4. PICK front : front = SettledAs(all, wrapped, e, l, r)
  OBVIOUS
<1>5. /\ DOMAIN front = 1 .. Count(r)
      /\ \A i \in 1 .. Count(r) : \E c \in {"Plain", "None"} :
           front[i] = Property(Keys(i), Value(ValueType(i), c,
                         Chosen(i, x, enum.default.shape, y, r)))
  <2>1. front = SettledAs(all, wrapped, <<x>>, <<y>>, r)
    BY <1>2, <1>3, <1>4
  <2>2. Count(r) = Count(enum.default.rate)
    BY <1>1
  <2> QED
    BY <2>1, <2>2, SettledAsChosen
<1>6. PICK A : added \in Seq(A)
  BY DEF IsSequence
<1>7. PICK B : B = A \cup {front[i] : i \in DOMAIN front}
  OBVIOUS
<1>8. added \in Seq(B)
  BY <1>6, <1>7
<1>9. Count(r) \in Nat
  BY DEF Count
<1>10. front \in Seq(B) /\ Len(front) = Count(r)
  <2>1. \A i \in DOMAIN front : front[i] \in B
    BY <1>7
  <2>2. front = [i \in 1 .. Count(r) |-> front[i]]
    BY <1>4, <1>5 DEF SettledAs
  <2>3. front \in Seq(B)
    BY <1>5, <1>9, <2>1, <2>2
  <2> QED
    BY <1>5, <1>9, <2>3
<1>11. /\ front \o added \in Seq(B) /\ Len(front \o added) = Len(front) + Len(added)
       /\ \A i \in 1 .. Len(front) + Len(added) :
            (front \o added)[i] = IF i <= Len(front) THEN front[i] ELSE added[i - Len(front)]
  BY ONLY <1>8, <1>10, Joined
<1>12. PICK ps : ps = front \o added
  OBVIOUS
<1>13. /\ ps \in Seq(B) /\ Len(ps) = Count(r) + Len(added)
       /\ \A i \in 1 .. Count(r) + Len(added) :
            ps[i] = IF i <= Count(r) THEN front[i] ELSE added[i - Count(r)]
  BY <1>10, <1>11, <1>12, Zenon
<1>14. Len(added) \in Nat /\ DOMAIN added = 1 .. Len(added)
  BY <1>8
<1>15. \A i \in 1 .. Count(r) : ps[i] = front[i]
  BY <1>9, <1>13, <1>14
<1>16. ASSUME NEW i \in Count(r) + 1 .. Len(ps)
       PROVE  ps[i].key \notin Required \cup {"Rate"}
  <2>1. i \in 1 .. Count(r) + Len(added) /\ ~(i <= Count(r)) /\ i - Count(r) \in 1 .. Len(added)
    BY <1>9, <1>13, <1>14
  <2> QED
    BY <1>13, <1>14, <2>1
<1>17. IsSettled(ps, x, enum.default.shape, y, r)
  <2>1. IsSequence(ps) /\ Count(r) <= Len(ps)
    BY <1>9, <1>13, <1>14 DEF IsSequence
  <2>2. \A i \in 1 .. Count(r) : \E c \in {"Plain", "None"} :
          ps[i] = Property(Keys(i), Value(ValueType(i), c, Chosen(i, x, enum.default.shape, y, r)))
    BY <1>5, <1>15
  <2> QED
    BY <1>16, <2>1, <2>2, Zenon DEF IsSettled
<1>18. SettledOffer(enum, ps)
  BY <1>1, <1>17, Zenon DEF SettledOffer
<1> QED
  BY <1>4, <1>12, <1>18, Zenon

-----------------------------------------------------------------------------
(* The invariant of the negotiation: what is offered is valid, what is     *)
(* settled is chosen from it or cannot be read, and each side has read     *)
(* what is settled, not something older.                                   *)

SettledFrom(enum, f) ==
  \E ps : \E bad \in BOOLEAN :
    /\ f = <<[properties |-> ps, spoiled |-> bad]>>
    /\ IF bad THEN ~IsOk(FromProperties(ps)) ELSE SettledOffer(enum, ps)

OfferPart(o, f) ==
  \/ o = <<>> /\ f = <<>>
  \/ \E enum : ValidOffer(enum) /\ o = <<enum>> /\ (f = <<>> \/ SettledFrom(enum, f))

ReadOf(f, r) ==
  r = <<>> \/ \E p \in Profile : r = <<[profile |-> p, result |-> FromProfile(p, f[1].properties)]>>

ReadPart(f, rd, b) ==
  /\ \E S : rd \in [Side -> S]
  /\ f = <<>> /\ b = <<>> => rd = [s \in Side |-> <<>>]
  /\ f # <<>> => \A s \in Side : ReadOf(f, rd[s])

(* The invariant of the buffers: both sides have the same format, what was *)
(* written is whole and described, and a view is as WrittenIsRead says.    *)
GoodFormat(F) ==
  /\ F.shape \in Seq(Nat) /\ Countable(F.element, F.shape, F.layout, F.rate)
  /\ ByteCount(F) <= UsizeMax

Whole(F) == [start |-> 0, length |-> ByteCount(F)]

Mapped(F, m) ==
  /\ m = [maxSize |-> m.maxSize, address |-> m.address, chunk |-> m.chunk, written |-> m.written]
  /\ m.maxSize \in MaxSizes /\ m.address \in [Side -> Addresses \cup {NoData}]
  /\ m.chunk = [offset |-> m.chunk.offset, size |-> m.chunk.size,
                stride |-> m.chunk.stride, flags |-> m.chunk.flags]
  /\ m.chunk.offset \in Nat
  /\ m.written # <<>> =>
       /\ m.written = <<Whole(F)>> /\ ByteCount(F) <= m.maxSize
       /\ m.chunk.offset = 0 /\ m.chunk.size = ByteCount(F) /\ m.chunk.flags = {}
       /\ Stride(F).error = <<>> /\ m.chunk.stride = Head(Stride(F).ok)

GoodView(F, m, h, v) ==
  IF IsOk(v)
  THEN LET extent == Head(v.ok)
       IN  /\ extent.start + extent.length <= m.maxSize
           /\ extent.length = ByteCount(F)
           /\ Aligned(F.element, m.address[h] + extent.start)
           /\ m.written # <<>> => extent = Head(m.written)
  ELSE m.written # <<>> /\ h = "consumer" =>
       \/ v.error = <<"ElementType">>
       \/ v.error = <<"Data">> /\ m.address[h] = NoData
       \/ v.error = <<"Alignment">> /\ ~Aligned(F.element, m.address[h])

Understood(rd, F) == \A s \in Side : rd[s][1].result = Ok(F)

BufferPart(o, f, rd, b, h, v) ==
  /\ h \in Side
  /\ b = <<>> => v = <<>>
  /\ b # <<>> =>
       /\ o = <<>> /\ f = <<>>
       /\ \E F, m : /\ Understood(rd, F) /\ GoodFormat(F) /\ b = <<m>> /\ Mapped(F, m)
                    /\ v = <<>> \/ \E r : v = <<r>> /\ GoodView(F, m, h, r)

ArraysAreSound ==
  /\ OfferPart(offer, fixed)
  /\ ReadPart(fixed, read, buffer)
  /\ BufferPart(offer, fixed, read, buffer, holder, view)

(* A profile only refuses what it cannot hold. *)
LEMMA ProfileReads ==
  ASSUME NEW p \in Profile, NEW ps, NEW made, made = FromProperties(ps),
         NEW r, r = FromProfile(p, ps)
  PROVE  /\ IsOk(r) => r = made
         /\ ~IsOk(made) => r = made
         /\ IsOk(made) /\ ~IsOk(r) =>
              \/ r.error[1] = "WrongRank" /\ Len(Head(made.ok).shape) # Rank(p)
              \/ /\ r.error[1] = "NonCanonicalVectorLayout" /\ p = "Vector"
                 /\ Head(made.ok).layout # "RowMajor"
<1>1. CASE p = "NdArray" \/ ~IsOk(made)
  <2>1. r = made
    BY <1>1, Zenon DEF FromProfile
  <2> QED
    BY <1>1, <2>1, Zenon
<1>2. CASE ~(p = "NdArray" \/ ~IsOk(made))
  <2> PICK n : n = Rank(p)
    OBVIOUS
  <2> PICK m : m = Len(Head(made.ok).shape)
    OBVIOUS
  <2>1. r = IF m # n THEN Err(<<"WrongRank", n, m>>)
            ELSE IF p = "Vector" /\ Head(made.ok).layout # "RowMajor"
            THEN Err(<<"NonCanonicalVectorLayout">>) ELSE made
    BY <1>2, Zenon DEF FromProfile
  <2>2. CASE m # n
    <3>1. r = Err(<<"WrongRank", n, m>>)
      BY <2>1, <2>2
    <3>2. ~IsOk(r) /\ r.error = <<"WrongRank", n, m>>
      BY <3>1 DEF Err, IsOk
    <3>3. r.error[1] = "WrongRank"
      BY <3>2
    <3> QED
      BY <1>2, <2>2, <3>2, <3>3
  <2>3. CASE m = n /\ p = "Vector" /\ Head(made.ok).layout # "RowMajor"
    <3>1. r = Err(<<"NonCanonicalVectorLayout">>)
      BY <2>1, <2>3
    <3>2. ~IsOk(r) /\ r.error = <<"NonCanonicalVectorLayout">>
      BY <3>1 DEF Err, IsOk
    <3>3. r.error[1] = "NonCanonicalVectorLayout"
      BY <3>2
    <3> QED
      BY <1>2, <2>3, <3>2, <3>3
  <2>4. CASE m = n /\ ~(p = "Vector" /\ Head(made.ok).layout # "RowMajor")
    <3>1. r = made
      BY <2>1, <2>4
    <3> QED
      BY <1>2, <3>1
  <2> QED
    BY <2>2, <2>3, <2>4
<1> QED
  BY <1>1, <1>2

(* What one side makes of what is settled. *)
LEMMA SideReads ==
  ASSUME NEW enum, ValidOffer(enum), NEW ps, NEW bad \in BOOLEAN,
         IF bad THEN ~IsOk(FromProperties(ps)) ELSE SettledOffer(enum, ps),
         NEW p \in Profile, NEW r, r = FromProfile(p, ps)
  PROVE  IF IsOk(r)
         THEN /\ ~bad /\ r = FromProperties(ps) /\ r = Ok(Head(r.ok))
              /\ Offers(enum, Head(r.ok)) /\ ByteCount(Head(r.ok)) <= UsizeMax
              /\ GoodFormat(Head(r.ok))
         ELSE bad \/ MayRefuse(enum, p, r.error)
<1>1. PICK made : made = FromProperties(ps)
  OBVIOUS
<1>2. /\ IsOk(r) => r = made
      /\ ~IsOk(made) => r = made
      /\ IsOk(made) /\ ~IsOk(r) =>
           \/ r.error[1] = "WrongRank" /\ Len(Head(made.ok).shape) # Rank(p)
           \/ /\ r.error[1] = "NonCanonicalVectorLayout" /\ p = "Vector"
              /\ Head(made.ok).layout # "RowMajor"
  BY <1>1, ProfileReads
<1>3. CASE bad
  <2>1. ~IsOk(made)
    BY <1>1, <1>3
  <2> QED
    BY <1>2, <1>3, <2>1
<1>4. CASE ~bad
  <2>1. SettledOffer(enum, ps)
    BY <1>4
  <2>2. PICK f : f = Head(made.ok)
    OBVIOUS
  <2>3. IF IsOk(made)
        THEN /\ made = Ok(f) /\ Offers(enum, f) /\ ByteCount(f) <= UsizeMax
             /\ f = FormatRecord(f.element, f.shape, f.layout, f.rate)
             /\ f.shape \in Seq(Nat) /\ Countable(f.element, f.shape, f.layout, f.rate)
        ELSE /\ made = Err(<<"ByteCountOverflow">>)
             /\ \E i \in DOMAIN enum.elements :
                  ElementSize(enum.elements[i]) > ElementSize(enum.default.element)
    BY <1>1, <2>1, <2>2, SettledFormat, Zenon
  <2>4. CASE ~IsOk(made)
    <3>1. r = Err(<<"ByteCountOverflow">>)
      BY <1>2, <2>3, <2>4
    <3>2. ~IsOk(r) /\ r.error[1] = "ByteCountOverflow"
      BY <3>1 DEF Err, IsOk
    <3> QED
      BY <2>3, <2>4, <3>2, Zenon DEF MayRefuse
  <2>5. CASE IsOk(r)
    <3>1. r = made /\ IsOk(made)
      BY <1>2, <2>5
    <3>2. GoodFormat(f)
      BY <2>3, <3>1 DEF GoodFormat
    <3> QED
      BY <1>1, <1>4, <2>2, <2>3, <2>5, <3>1, <3>2, Zenon
  <2>6. CASE IsOk(made) /\ ~IsOk(r)
    <3>1. f.shape = enum.default.shape /\ f.layout \in {enum.default.layout} \cup Range(enum.layouts)
      BY <2>3, <2>6 DEF Offers
    <3>2. f.layout \in Packed
      BY <2>3, <2>6 DEF Countable
    <3>3. f.layout # "RowMajor" => f.layout = "ColumnMajor"
      BY <3>2 DEF Packed
    <3>4. \/ r.error[1] = "WrongRank" /\ Len(enum.default.shape) # Rank(p)
          \/ /\ r.error[1] = "NonCanonicalVectorLayout" /\ p = "Vector"
             /\ "ColumnMajor" \in {enum.default.layout} \cup Range(enum.layouts)
      BY <1>2, <2>2, <2>6, <3>1, <3>3
    <3> QED
      BY <2>6, <3>4, Zenon DEF MayRefuse
  <2> QED
    BY <2>4, <2>5, <2>6
<1> QED
  BY <1>3, <1>4

LEMMA SidesAgree ==
  ASSUME ArraysAreSound
  PROVE  AgreedIsOffered
<1> SUFFICES ASSUME offer # <<>>, NEW s \in Side, read[s] # <<>>
             PROVE  LET r == read[s][1].result
                    IN  IF IsOk(r)
                        THEN /\ ~fixed[1].spoiled
                             /\ Offers(offer[1], Head(r.ok))
                             /\ ByteCount(Head(r.ok)) <= UsizeMax
                             /\ Agreed => FormatOf("producer") = FormatOf("consumer")
                        ELSE fixed[1].spoiled \/ MayRefuse(offer[1], read[s][1].profile, r.error)
  BY DEF AgreedIsOffered
<1>1. PICK enum : ValidOffer(enum) /\ offer = <<enum>> /\ (fixed = <<>> \/ SettledFrom(enum, fixed))
  BY DEF ArraysAreSound, OfferPart
<1>2. buffer = <<>>
  BY DEF ArraysAreSound, BufferPart
<1>3. fixed # <<>>
  <2>1. fixed = <<>> => read = [x \in Side |-> <<>>]
    BY <1>2 DEF ArraysAreSound, ReadPart
  <2> QED
    BY <2>1
<1>4. PICK ps : \E bad \in BOOLEAN :
        /\ fixed = <<[properties |-> ps, spoiled |-> bad]>>
        /\ IF bad THEN ~IsOk(FromProperties(ps)) ELSE SettledOffer(enum, ps)
  BY <1>1, <1>3, Zenon DEF SettledFrom
<1>5. PICK bad \in BOOLEAN :
        /\ fixed = <<[properties |-> ps, spoiled |-> bad]>>
        /\ IF bad THEN ~IsOk(FromProperties(ps)) ELSE SettledOffer(enum, ps)
  BY <1>4
<1>6. fixed[1].properties = ps /\ fixed[1].spoiled = bad
  BY <1>5
<1>7. ASSUME NEW t \in Side, read[t] # <<>>
      PROVE  \E p \in Profile : read[t] = <<[profile |-> p, result |-> FromProfile(p, ps)]>>
  BY <1>3, <1>6, <1>7 DEF ArraysAreSound, ReadPart, ReadOf
<1>8. PICK p \in Profile : read[s] = <<[profile |-> p, result |-> FromProfile(p, ps)]>>
  BY <1>7
<1>9. PICK r : r = FromProfile(p, ps)
  OBVIOUS
<1>10. read[s][1].profile = p /\ read[s][1].result = r /\ offer[1] = enum
  BY <1>1, <1>8, <1>9
<1>11. IF IsOk(r)
       THEN /\ ~bad /\ r = FromProperties(ps) /\ r = Ok(Head(r.ok))
            /\ Offers(enum, Head(r.ok)) /\ ByteCount(Head(r.ok)) <= UsizeMax
            /\ GoodFormat(Head(r.ok))
       ELSE bad \/ MayRefuse(enum, p, r.error)
  BY <1>1, <1>5, <1>9, SideReads
<1>12. ASSUME Agreed
       PROVE  FormatOf("producer") = FormatOf("consumer")
  <2>1. ASSUME NEW t \in Side
        PROVE  read[t][1].result = FromProperties(ps)
    <3>1. read[t] # <<>> /\ IsOk(read[t][1].result)
      BY <1>12 DEF Agreed
    <3>2. PICK q \in Profile : read[t] = <<[profile |-> q, result |-> FromProfile(q, ps)]>>
      BY <1>7, <3>1
    <3>3. read[t][1].result = FromProfile(q, ps)
      BY <3>2
    <3> QED
      BY <3>1, <3>3, ProfileReads
  <2> QED
    BY <2>1 DEF FormatOf, Side
<1> QED
  BY <1>6, <1>10, <1>11, <1>12, Zenon

LEMMA SlicesAreWhole ==
  ASSUME ArraysAreSound
  PROVE  WrittenIsRead
<1> SUFFICES ASSUME buffer # <<>>, view # <<>>
             PROVE  WrittenIsRead
  BY DEF WrittenIsRead
<1>1. PICK F, m : /\ Understood(read, F) /\ GoodFormat(F) /\ buffer = <<m>> /\ Mapped(F, m)
                  /\ view = <<>> \/ \E r : view = <<r>> /\ GoodView(F, m, holder, r)
  BY Zenon DEF ArraysAreSound, BufferPart
<1>2. PICK v : view = <<v>> /\ GoodView(F, m, holder, v)
  BY <1>1
<1>3. holder \in Side
  BY DEF ArraysAreSound, BufferPart
<1>4. FormatOf(holder) = F
  BY <1>1, <1>3, OkIsNoError DEF Understood, FormatOf
<1>5. buffer[1] = m /\ view[1] = v
  BY <1>1, <1>2
<1>6. WrittenIsRead <=>
        (buffer # <<>> /\ view # <<>> =>
          IF IsOk(v)
          THEN LET extent == Head(v.ok)
               IN  /\ extent.start + extent.length <= m.maxSize
                   /\ extent.length = ByteCount(F)
                   /\ Aligned(F.element, m.address[holder] + extent.start)
                   /\ m.written # <<>> => extent = Head(m.written)
          ELSE m.written # <<>> /\ holder = "consumer" =>
               \/ v.error = <<"ElementType">>
               \/ v.error = <<"Data">> /\ m.address[holder] = NoData
               \/ v.error = <<"Alignment">> /\ ~Aligned(F.element, m.address[holder]))
  BY <1>4, <1>5 DEF WrittenIsRead
<1> QED
  BY <1>2, <1>6, Zenon DEF GoodView

(* The negotiation. *)
LEMMA ArraysStart ==
  ASSUME Init
  PROVE  ArraysAreSound
<1>1. OfferPart(offer, fixed)
  BY DEF Init, OfferPart
<1>2. read \in [Side -> {<<>>}]
  BY DEF Init
<1>3. ReadPart(fixed, read, buffer)
  BY <1>2 DEF Init, ReadPart
<1>4. BufferPart(offer, fixed, read, buffer, holder, view)
  BY DEF Init, BufferPart, Side
<1> QED
  BY <1>1, <1>3, <1>4 DEF ArraysAreSound

LEMMA NoBufferYet ==
  ASSUME NEW o, NEW f, NEW rd, NEW h \in Side
  PROVE  BufferPart(o, f, rd, <<>>, h, <<>>)
BY DEF BufferPart

LEMMA OfferStep ==
  ASSUME ArraysAreSound, NEW p \in Profile, NEW e \in Elements, NEW s \in Shapes, NEW l \in Layouts,
         NEW r \in {<<>>} \cup {<<f>> : f \in Rates}, Offer(p, e, s, l, r)
  PROVE  ArraysAreSound'
<1>1. /\ offer = <<>> /\ buffer = <<>> /\ IsOk(NewProfile(p, e, s, l, r))
      /\ offer' = <<[profile |-> p, default |-> Head(NewProfile(p, e, s, l, r).ok),
                     elements |-> <<>>, layouts |-> <<>>, rateChoice |-> <<>>]>>
      /\ UNCHANGED <<fixed, read, buffer, holder, view>>
  BY DEF Offer
<1>2. PICK new : new = NewFormat(e, s, l, r)
  OBVIOUS
<1>3. NewProfile(p, e, s, l, r) = new
  <2>1. ~IsOk(Err(<<"NoSuchConstructor">>))
    BY DEF IsOk, Err
  <2> QED
    BY <1>1, <1>2, <2>1, Zenon DEF NewProfile
<1>4. PICK d : d = FormatRecord(e, s, l, r)
  OBVIOUS
<1>5. new = Ok(d) /\ Countable(e, s, l, r) /\ ~(ByteCount(d) > UsizeMax)
  BY <1>1, <1>2, <1>3, <1>4, NewFormatIs, Zenon
<1>6. Head(new.ok) = d
  BY <1>5, OkIsNoError
<1>7. s \in Seq(Nat) /\ r \in {<<>>} \cup {<<f>> : f \in Fraction}
  BY ValueAssumption DEF Fraction
<1>8. d.element = e /\ d.shape = s /\ d.layout = l /\ d.rate = r
  BY <1>4 DEF FormatRecord
<1>9. ByteCount(d) \in Nat /\ UsizeMax \in Nat
  BY <1>5, <1>7, <1>8, BytesGrow, WidthAssumption DEF Countable
<1>10. ByteCount(d) <= UsizeMax
  BY <1>5, <1>9
<1>11. PICK enum : enum = [profile |-> p, default |-> d, elements |-> <<>>, layouts |-> <<>>,
                           rateChoice |-> <<>>]
  OBVIOUS
<1>12. /\ enum.profile = p /\ enum.default = d /\ enum.elements = <<>> /\ enum.layouts = <<>>
       /\ enum.rateChoice = <<>>
  BY <1>11
<1>13. IsSequence(<<>>) /\ DOMAIN <<>> = {}
  <2>1. <<>> \in Seq({})
    OBVIOUS
  <2> QED
    BY <2>1 DEF IsSequence
<1>14. ValidOffer(enum)
  <2>1. Countable(d.element, d.shape, d.layout, d.rate)
    BY <1>5, <1>8
  <2>2. d = FormatRecord(d.element, d.shape, d.layout, d.rate)
    BY <1>4, <1>8
  <2>3. enum = [profile |-> enum.profile, default |-> enum.default, elements |-> enum.elements,
                layouts |-> enum.layouts, rateChoice |-> enum.rateChoice]
    BY <1>11
  <2>4. \A i \in DOMAIN <<>> : HasSize(<<>>[i]) /\ <<>>[i] \in Packed
    BY <1>13
  <2> HIDE DEF IsSequence
  <2>5. /\ IsSequence(enum.elements) /\ IsSequence(enum.layouts)
        /\ \A i \in DOMAIN enum.elements : HasSize(enum.elements[i])
        /\ \A i \in DOMAIN enum.layouts : enum.layouts[i] \in Packed
    BY <1>12, <1>13
  <2>6. d.shape \in Seq(Nat) /\ d.rate \in {<<>>} \cup {<<f>> : f \in Fraction}
    BY <1>7, <1>8
  <2> QED
    BY <1>10, <1>12, <2>1, <2>2, <2>3, <2>5, <2>6, Zenon DEF ValidOffer
<1>15. offer' = <<enum>>
  BY <1>1, <1>3, <1>6, <1>11
<1>16. fixed = <<>>
  BY <1>1 DEF ArraysAreSound, OfferPart
<1>17. OfferPart(offer', fixed')
  BY <1>1, <1>14, <1>15, <1>16, Zenon DEF OfferPart
<1>18. ReadPart(fixed', read', buffer')
  BY <1>1 DEF ArraysAreSound
<1>19. BufferPart(offer', fixed', read', buffer', holder', view')
  <2>1. buffer' = <<>> /\ view' = <<>> /\ holder' \in Side
    BY <1>1 DEF ArraysAreSound, BufferPart
  <2> QED
    BY <2>1, NoBufferYet
<1> QED
  BY <1>17, <1>18, <1>19 DEF ArraysAreSound

(* A setter keeps the offer valid, or the offer is gone. *)
LEMMA SetterStep ==
  ASSUME ArraysAreSound, offer # <<>>, fixed = <<>>, UNCHANGED <<fixed, read, buffer, holder, view>>,
         offer' = <<>> \/ \E enum : ValidOffer(enum) /\ offer' = <<enum>>
  PROVE  ArraysAreSound'
<1>1. OfferPart(offer', fixed')
  BY Zenon DEF OfferPart
<1>2. ReadPart(fixed', read', buffer')
  BY DEF ArraysAreSound
<1>3. buffer = <<>> /\ view = <<>> /\ holder \in Side
  BY DEF ArraysAreSound, BufferPart
<1>4. BufferPart(offer', fixed', read', buffer', holder', view')
  BY <1>3, NoBufferYet
<1> QED
  BY <1>1, <1>2, <1>4 DEF ArraysAreSound

LEMMA WithElementsStep ==
  ASSUME ArraysAreSound, NEW list \in Alternatives, WithElements(list)
  PROVE  ArraysAreSound'
<1>1. /\ offer # <<>> /\ fixed = <<>> /\ UNCHANGED <<fixed, read, buffer, holder, view>>
      /\ offer' = IF \A i \in DOMAIN list : HasSize(list[i])
                  THEN [offer EXCEPT ![1].elements = list] ELSE <<>>
  BY DEF WithElements
<1>2. PICK enum : ValidOffer(enum) /\ offer = <<enum>>
  BY <1>1 DEF ArraysAreSound, OfferPart
<1>3. CASE \A i \in DOMAIN list : HasSize(list[i])
  <2>1. PICK new : new = [enum EXCEPT !.elements = list]
    OBVIOUS
  <2>2. enum = [profile |-> enum.profile, default |-> enum.default, elements |-> enum.elements,
                layouts |-> enum.layouts, rateChoice |-> enum.rateChoice]
    BY <1>2, Zenon DEF ValidOffer
  <2>3. /\ new = [profile |-> new.profile, default |-> new.default, elements |-> new.elements,
                  layouts |-> new.layouts, rateChoice |-> new.rateChoice]
        /\ new.profile = enum.profile /\ new.default = enum.default /\ new.elements = list
        /\ new.layouts = enum.layouts /\ new.rateChoice = enum.rateChoice
    BY <2>1, <2>2
  <2>4. IsSequence(list)
    BY ValueAssumption DEF IsSequence
  <2>5. ValidOffer(new)
    BY <1>2, <1>3, <2>3, <2>4, Zenon DEF ValidOffer
  <2>6. offer' = <<new>>
    BY <1>1, <1>2, <1>3, <2>1
  <2> QED
    BY <1>1, <2>5, <2>6, SetterStep
<1>4. CASE ~(\A i \in DOMAIN list : HasSize(list[i]))
  <2>1. offer' = <<>>
    BY <1>1, <1>4
  <2> QED
    BY <1>1, <2>1, SetterStep
<1> QED
  BY <1>3, <1>4

LEMMA WithLayoutsStep ==
  ASSUME ArraysAreSound, NEW list \in LayoutLists, WithLayouts(list)
  PROVE  ArraysAreSound'
<1>1. /\ offer # <<>> /\ fixed = <<>> /\ UNCHANGED <<fixed, read, buffer, holder, view>>
      /\ offer' = IF Range(list) \subseteq Packed
                  THEN [offer EXCEPT ![1].layouts = list] ELSE <<>>
  BY DEF WithLayouts
<1>2. PICK enum : ValidOffer(enum) /\ offer = <<enum>>
  BY <1>1 DEF ArraysAreSound, OfferPart
<1>3. CASE Range(list) \subseteq Packed
  <2>1. PICK new : new = [enum EXCEPT !.layouts = list]
    OBVIOUS
  <2>2. enum = [profile |-> enum.profile, default |-> enum.default, elements |-> enum.elements,
                layouts |-> enum.layouts, rateChoice |-> enum.rateChoice]
    BY <1>2, Zenon DEF ValidOffer
  <2>3. /\ new = [profile |-> new.profile, default |-> new.default, elements |-> new.elements,
                  layouts |-> new.layouts, rateChoice |-> new.rateChoice]
        /\ new.profile = enum.profile /\ new.default = enum.default /\ new.layouts = list
        /\ new.elements = enum.elements /\ new.rateChoice = enum.rateChoice
    BY <2>1, <2>2
  <2>4. IsSequence(list)
    BY ValueAssumption DEF IsSequence
  <2>5. \A i \in DOMAIN list : list[i] \in Packed
    BY <1>3, RangeIs
  <2>6. ValidOffer(new)
    BY <1>2, <2>3, <2>4, <2>5, Zenon DEF ValidOffer
  <2>7. offer' = <<new>>
    BY <1>1, <1>2, <1>3, <2>1
  <2> QED
    BY <1>1, <2>6, <2>7, SetterStep
<1>4. CASE ~(Range(list) \subseteq Packed)
  <2>1. offer' = <<>>
    BY <1>1, <1>4
  <2> QED
    BY <1>1, <2>1, SetterStep
<1> QED
  BY <1>3, <1>4

LEMMA WithRateChoiceStep ==
  ASSUME ArraysAreSound, NEW choice \in RateChoices, WithRateChoice(choice)
  PROVE  ArraysAreSound'
<1>1. /\ offer # <<>> /\ fixed = <<>> /\ UNCHANGED <<fixed, read, buffer, holder, view>>
      /\ offer' = IF ValidRateChoice(offer[1].default.rate, choice)
                  THEN [offer EXCEPT ![1].rateChoice = <<choice>>] ELSE <<>>
  BY DEF WithRateChoice
<1>2. PICK enum : ValidOffer(enum) /\ offer = <<enum>>
  BY <1>1 DEF ArraysAreSound, OfferPart
<1>3. CASE ValidRateChoice(enum.default.rate, choice)
  <2>1. PICK new : new = [enum EXCEPT !.rateChoice = <<choice>>]
    OBVIOUS
  <2>2. enum = [profile |-> enum.profile, default |-> enum.default, elements |-> enum.elements,
                layouts |-> enum.layouts, rateChoice |-> enum.rateChoice]
    BY <1>2, Zenon DEF ValidOffer
  <2>3. /\ new = [profile |-> new.profile, default |-> new.default, elements |-> new.elements,
                  layouts |-> new.layouts, rateChoice |-> new.rateChoice]
        /\ new.profile = enum.profile /\ new.default = enum.default /\ new.layouts = enum.layouts
        /\ new.elements = enum.elements /\ new.rateChoice = <<choice>>
    BY <2>1, <2>2
  <2>4. ValidOffer(new)
    BY <1>2, <1>3, <2>3, Zenon DEF ValidOffer
  <2>5. offer' = <<new>>
    BY <1>1, <1>2, <1>3, <2>1
  <2> QED
    BY <1>1, <2>4, <2>5, SetterStep
<1>4. CASE ~ValidRateChoice(enum.default.rate, choice)
  <2>1. offer' = <<>>
    BY <1>1, <1>2, <1>4
  <2> QED
    BY <1>1, <2>1, SetterStep
<1> QED
  BY <1>3, <1>4

LEMMA AddedIsOther ==
  /\ IsSequence(<<>>) /\ \A i \in DOMAIN <<>> : <<>>[i].key \notin Required \cup {"Rate"}
  /\ IsSequence(Added) /\ \A i \in DOMAIN Added : Added[i].key \notin Required \cup {"Rate"}
<1>1. IsSequence(<<>>) /\ \A i \in DOMAIN <<>> : <<>>[i].key \notin Required \cup {"Rate"}
  <2>1. <<>> \in Seq({}) /\ DOMAIN <<>> = {}
    OBVIOUS
  <2> QED
    BY <2>1 DEF IsSequence
<1>2. PICK own : own = Property("Application", Value("Id", "Plain", <<"Mirror">>))
  OBVIOUS
<1>3. Added = <<own, own>>
  BY <1>2 DEF Added
<1>4. own.key \notin Required \cup {"Rate"}
  BY <1>2 DEF Property, Required
<1>5. Added \in Seq({own}) /\ DOMAIN Added = 1 .. 2 /\ \A i \in 1 .. 2 : Added[i] = own
  BY <1>3
<1>6. IsSequence(Added)
  BY <1>5 DEF IsSequence
<1> QED
  BY <1>1, <1>4, <1>5, <1>6

LEMMA SettleStep ==
  ASSUME ArraysAreSound, NEW wrapped, NEW added, IsSequence(added),
         \A i \in DOMAIN added : added[i].key \notin Required \cup {"Rate"}, Settle(wrapped, added)
  PROVE  ArraysAreSound'
<1>1. offer # <<>> /\ fixed = <<>> /\ UNCHANGED <<offer, read, buffer, holder, view>>
  BY Zenon DEF Settle
<1>2. PICK enum : ValidOffer(enum) /\ offer = <<enum>>
  BY <1>1 DEF ArraysAreSound, OfferPart
<1>3. PICK all : all = EnumProperties(enum)
  OBVIOUS
<1>4. offer[1] = enum
  BY <1>2
<1>5. \E e \in Settlements(all[3].value), l \in Settlements(all[5].value),
         r \in IF Len(all) = 6 THEN Settlements(all[6].value) ELSE {<<>>} :
        fixed' = <<[properties |-> SettledAs(all, wrapped, e, l, r) \o added, spoiled |-> FALSE]>>
  BY <1>3, <1>4 DEF Settle
<1>6. PICK e \in Settlements(all[3].value), l \in Settlements(all[5].value),
           r \in IF Len(all) = 6 THEN Settlements(all[6].value) ELSE {<<>>} :
        fixed' = <<[properties |-> SettledAs(all, wrapped, e, l, r) \o added, spoiled |-> FALSE]>>
  BY <1>5
<1>7. PICK ps : ps = SettledAs(all, wrapped, e, l, r) \o added
  OBVIOUS
<1>8. SettledOffer(enum, ps)
  BY <1>2, <1>3, <1>7, SettleIsSettled
<1>9. PICK bad \in BOOLEAN : bad = FALSE
  OBVIOUS
<1>10. fixed' = <<[properties |-> ps, spoiled |-> bad]>>
  BY <1>6, <1>7, <1>9
<1>11. SettledFrom(enum, fixed')
  BY <1>8, <1>9, <1>10, Zenon DEF SettledFrom
<1>12. OfferPart(offer', fixed')
  BY <1>1, <1>2, <1>11, Zenon DEF OfferPart
<1>13. buffer = <<>> /\ view = <<>> /\ holder \in Side
  BY <1>1 DEF ArraysAreSound, BufferPart
<1>14. ReadPart(fixed', read', buffer')
  <2>1. (\E S : read \in [Side -> S]) /\ read = [s \in Side |-> <<>>]
    BY <1>1, <1>13 DEF ArraysAreSound, ReadPart
  <2>2. \A s \in Side : ReadOf(fixed', read[s])
    BY <2>1 DEF ReadOf
  <2>3. fixed' # <<>>
    BY <1>10
  <2> QED
    BY <1>1, <2>1, <2>2, <2>3, Zenon DEF ReadPart
<1>15. BufferPart(offer', fixed', read', buffer', holder', view')
  BY <1>1, <1>13, NoBufferYet
<1> QED
  BY <1>12, <1>14, <1>15 DEF ArraysAreSound

LEMMA SpoilStep ==
  ASSUME ArraysAreSound, NEW i, NEW how \in Ways, Spoil(i, how)
  PROVE  ArraysAreSound'
<1>1. /\ fixed # <<>> /\ ~fixed[1].spoiled /\ read = [s \in Side |-> <<>>]
      /\ i \in DOMAIN fixed[1].properties
      /\ UNCHANGED <<offer, read, buffer, holder, view>>
  BY Zenon DEF Spoil
<1>2. PICK enum : ValidOffer(enum) /\ offer = <<enum>> /\ SettledFrom(enum, fixed)
  BY <1>1, Zenon DEF ArraysAreSound, OfferPart
<1>3. PICK ps : \E bad \in BOOLEAN :
        /\ fixed = <<[properties |-> ps, spoiled |-> bad]>>
        /\ IF bad THEN ~IsOk(FromProperties(ps)) ELSE SettledOffer(enum, ps)
  BY <1>2, Zenon DEF SettledFrom
<1>4. PICK bad \in BOOLEAN :
        /\ fixed = <<[properties |-> ps, spoiled |-> bad]>>
        /\ IF bad THEN ~IsOk(FromProperties(ps)) ELSE SettledOffer(enum, ps)
  BY <1>3
<1>5. fixed[1].properties = ps /\ fixed[1].spoiled = bad
  BY <1>4
<1>6. SettledOffer(enum, ps)
  BY <1>1, <1>4, <1>5
<1>7. PICK new : new = Spoiled(ps, i, how)
  OBVIOUS
<1>8. fixed' = <<[spoiled |-> TRUE, properties |-> new]>> /\ SpoilsOne(ps[i].key, how)
  BY <1>5, <1>7, Zenon DEF Spoil, Spoiled, SpoilsOne
<1>9. PICK e \in {enum.default.element} \cup Range(enum.elements),
           l \in {enum.default.layout} \cup Range(enum.layouts) :
        \E r : /\ RateOffered(enum.default.rate, enum.rateChoice, r)
               /\ IsSettled(ps, e, enum.default.shape, l, r)
  BY <1>6, Zenon DEF SettledOffer
<1>10. PICK r : IsSettled(ps, e, enum.default.shape, l, r)
  BY <1>9
<1>11. 1 \in DOMAIN enum.default.shape
  <2>1. enum.default.shape \in Seq(Nat) /\ AxesFit(enum.default.shape)
    BY <1>2, Zenon DEF ValidOffer, Countable
  <2> QED
    BY <2>1, AxesThatFit
<1>12. ~IsOk(FromProperties(new))
  BY <1>1, <1>5, <1>7, <1>8, <1>10, <1>11, SpoiledIsRefused
<1>13. PICK yes \in BOOLEAN : yes = TRUE
  OBVIOUS
<1>14. fixed' = <<[properties |-> new, spoiled |-> yes]>>
  BY <1>8, <1>13
<1>15. SettledFrom(enum, fixed')
  BY <1>12, <1>13, <1>14, Zenon DEF SettledFrom
<1>16. OfferPart(offer', fixed')
  BY <1>1, <1>2, <1>15, Zenon DEF OfferPart
<1>17. buffer = <<>> /\ view = <<>> /\ holder \in Side
  BY <1>1 DEF ArraysAreSound, BufferPart
<1>18. ReadPart(fixed', read', buffer')
  <2>1. \E S : read \in [Side -> S]
    BY DEF ArraysAreSound, ReadPart
  <2>2. \A s \in Side : ReadOf(fixed', read[s])
    BY <1>1 DEF ReadOf
  <2>3. fixed' # <<>>
    BY <1>8
  <2> QED
    BY <1>1, <2>1, <2>2, <2>3, Zenon DEF ReadPart
<1>19. BufferPart(offer', fixed', read', buffer', holder', view')
  BY <1>1, <1>17, NoBufferYet
<1> QED
  BY <1>16, <1>18, <1>19 DEF ArraysAreSound

LEMMA ReadStep ==
  ASSUME ArraysAreSound, NEW side \in Side, NEW p \in Profile, ReadFormat(side, p)
  PROVE  ArraysAreSound'
<1>1. PICK r : r = <<[profile |-> p, result |-> FromProfile(p, fixed[1].properties)]>>
  OBVIOUS
<1>2. /\ fixed # <<>> /\ read' = [read EXCEPT ![side] = r]
      /\ UNCHANGED <<offer, fixed, buffer, holder, view>>
  BY <1>1, Zenon DEF ReadFormat
<1>3. OfferPart(offer', fixed')
  BY <1>2 DEF ArraysAreSound
<1>4. ReadPart(fixed', read', buffer')
  <2>1. ReadOf(fixed, r)
    BY <1>1, Zenon DEF ReadOf
  <2>2. PICK S : read \in [Side -> S]
    BY DEF ArraysAreSound, ReadPart
  <2>3. read' \in [Side -> S \cup {r}]
    BY <1>2, <2>2
  <2>4. \A s \in Side : ReadOf(fixed, read[s])
    BY <1>2 DEF ArraysAreSound, ReadPart
  <2>5. \A s \in Side : read'[s] = r \/ read'[s] = read[s]
    BY <1>2, <2>2
  <2>6. \A s \in Side : ReadOf(fixed, read'[s])
    BY <2>1, <2>4, <2>5
  <2>7. fixed' = fixed /\ fixed' # <<>>
    BY <1>2
  <2> QED
    BY <2>3, <2>6, <2>7, Zenon DEF ReadPart
<1>5. BufferPart(offer', fixed', read', buffer', holder', view')
  <2>1. buffer = <<>> /\ view = <<>> /\ holder \in Side
    BY <1>2 DEF ArraysAreSound, BufferPart
  <2> QED
    BY <1>2, <2>1, NoBufferYet
<1> QED
  BY <1>3, <1>4, <1>5 DEF ArraysAreSound

-----------------------------------------------------------------------------
(* The buffers.                                                            *)

LEMMA AllocateStep ==
  ASSUME ArraysAreSound, NEW maxSize \in MaxSizes, NEW address \in [Side -> Addresses \cup {NoData}],
         Allocate(maxSize, address)
  PROVE  ArraysAreSound'
<1>1. /\ Agreed /\ buffer = <<>> /\ fixed # <<>> /\ offer' = <<>> /\ fixed' = <<>>
      /\ UNCHANGED <<read, holder, view>>
      /\ buffer' = <<[maxSize |-> maxSize, address |-> address, chunk |-> CleanChunk,
                      written |-> <<>>]>>
  BY Zenon DEF Allocate
<1>2. PICK enum : ValidOffer(enum) /\ offer = <<enum>> /\ SettledFrom(enum, fixed)
  BY <1>1, Zenon DEF ArraysAreSound, OfferPart
<1>3. PICK ps : \E bad \in BOOLEAN :
        /\ fixed = <<[properties |-> ps, spoiled |-> bad]>>
        /\ IF bad THEN ~IsOk(FromProperties(ps)) ELSE SettledOffer(enum, ps)
  BY <1>2, Zenon DEF SettledFrom
<1>4. PICK bad \in BOOLEAN :
        /\ fixed = <<[properties |-> ps, spoiled |-> bad]>>
        /\ IF bad THEN ~IsOk(FromProperties(ps)) ELSE SettledOffer(enum, ps)
  BY <1>3
<1>5. fixed[1].properties = ps
  BY <1>4
<1>6. ASSUME NEW s \in Side
      PROVE  /\ read[s][1].result = FromProperties(ps)
             /\ FromProperties(ps) = Ok(Head(FromProperties(ps).ok))
             /\ GoodFormat(Head(FromProperties(ps).ok))
  <2>1. read[s] # <<>> /\ IsOk(read[s][1].result)
    BY <1>1 DEF Agreed
  <2>2. PICK p \in Profile : read[s] = <<[profile |-> p, result |-> FromProfile(p, ps)]>>
    BY <1>1, <1>5, <2>1 DEF ArraysAreSound, ReadPart, ReadOf
  <2>3. PICK r : r = FromProfile(p, ps)
    OBVIOUS
  <2>4. read[s][1].result = r
    BY <2>2, <2>3
  <2>5. r = FromProperties(ps) /\ r = Ok(Head(r.ok)) /\ GoodFormat(Head(r.ok))
    BY <1>2, <1>4, <2>1, <2>3, <2>4, SideReads
  <2> QED
    BY <2>4, <2>5
<1>7. PICK F : F = Head(FromProperties(ps).ok)
  OBVIOUS
<1>8. Understood(read, F) /\ GoodFormat(F)
  BY <1>6, <1>7 DEF Understood, Side
<1>9. PICK m : m = [maxSize |-> maxSize, address |-> address, chunk |-> CleanChunk, written |-> <<>>]
  OBVIOUS
<1>10. Mapped(F, m)
  <2>1. m.maxSize = maxSize /\ m.address = address /\ m.chunk = CleanChunk /\ m.written = <<>>
    BY <1>9
  <2>2. m = [maxSize |-> m.maxSize, address |-> m.address, chunk |-> m.chunk, written |-> m.written]
    BY <1>9
  <2>3. CleanChunk = [offset |-> CleanChunk.offset, size |-> CleanChunk.size,
                      stride |-> CleanChunk.stride, flags |-> CleanChunk.flags]
        /\ CleanChunk.offset \in Nat
    BY DEF CleanChunk
  <2> QED
    BY <2>1, <2>2, <2>3, Zenon DEF Mapped
<1>11. OfferPart(offer', fixed')
  BY <1>1 DEF OfferPart
<1>12. buffer' = <<m>> /\ buffer' # <<>>
  BY <1>1, <1>9
<1>13. ReadPart(fixed', read', buffer')
  BY <1>1, <1>12 DEF ArraysAreSound, ReadPart
<1>14. holder \in Side /\ view = <<>>
  BY <1>1 DEF ArraysAreSound, BufferPart
<1>15. BufferPart(offer', fixed', read', buffer', holder', view')
  <2>1. view' = <<>> /\ holder' \in Side /\ read' = read
    BY <1>1, <1>14
  <2> QED
    BY <1>1, <1>8, <1>10, <1>12, <2>1, Zenon DEF BufferPart
<1> QED
  BY <1>11, <1>13, <1>15 DEF ArraysAreSound

(* A step of the holder keeps the format and the place of the data. *)
LEMMA HolderStep ==
  ASSUME ArraysAreSound, buffer # <<>>, UNCHANGED <<offer, fixed, read>>, holder' \in Side,
         NEW F, NEW m, Understood(read, F), GoodFormat(F), buffer' = <<m>>, Mapped(F, m),
         view' = <<>> \/ \E r : view' = <<r>> /\ GoodView(F, m, holder', r)
  PROVE  ArraysAreSound'
<1>1. offer = <<>> /\ fixed = <<>>
  BY DEF ArraysAreSound, BufferPart
<1>2. OfferPart(offer', fixed')
  BY <1>1 DEF OfferPart
<1>3. buffer' # <<>>
  OBVIOUS
<1>4. ReadPart(fixed', read', buffer')
  BY <1>1, <1>3 DEF ArraysAreSound, ReadPart
<1>5. BufferPart(offer', fixed', read', buffer', holder', view')
  BY <1>1, <1>3, Zenon DEF BufferPart
<1> QED
  BY <1>2, <1>4, <1>5 DEF ArraysAreSound

LEMMA QueueStep ==
  ASSUME ArraysAreSound, Queue
  PROVE  ArraysAreSound'
<1>1. /\ buffer # <<>> /\ view' = <<>> /\ UNCHANGED <<offer, fixed, read, buffer>>
      /\ holder' = IF holder = "producer" THEN "consumer" ELSE "producer"
  BY DEF Queue
<1>2. PICK F, m : Understood(read, F) /\ GoodFormat(F) /\ buffer = <<m>> /\ Mapped(F, m)
  BY <1>1, Zenon DEF ArraysAreSound, BufferPart
<1>3. holder' \in Side
  BY <1>1 DEF Side
<1> QED
  BY <1>1, <1>2, <1>3, HolderStep, Zenon

Refill(b, c, w) == [b EXCEPT ![1].chunk = c, ![1].written = w]

LEMMA Refilled ==
  ASSUME NEW m, NEW c, NEW w,
         m = [maxSize |-> m.maxSize, address |-> m.address, chunk |-> m.chunk, written |-> m.written]
  PROVE  Refill(<<m>>, c, w)
           = <<[maxSize |-> m.maxSize, address |-> m.address, chunk |-> c, written |-> w]>>
<1>1. PICK b : b = <<m>>
  OBVIOUS
<1>2. b \in Seq({m}) /\ DOMAIN b = {1} /\ b[1] = m
  BY <1>1
<1>3. PICK f : f = [b EXCEPT ![1].chunk = c]
  OBVIOUS
<1>4. PICK n : n = [m EXCEPT !.chunk = c]
  OBVIOUS
<1>5. n = [maxSize |-> m.maxSize, address |-> m.address, chunk |-> c, written |-> m.written]
  BY <1>4
<1>6. f = <<n>>
  BY <1>1, <1>2, <1>3, <1>4
<1>7. PICK o : o = [n EXCEPT !.written = w]
  OBVIOUS
<1>8. o = [maxSize |-> m.maxSize, address |-> m.address, chunk |-> c, written |-> w]
  BY <1>5, <1>7
<1>9. [f EXCEPT ![1].written = w] = <<o>>
  BY <1>6, <1>7
<1>10. [b EXCEPT ![1].chunk = c, ![1].written = w] = [f EXCEPT ![1].written = w]
  BY <1>3
<1> QED
  BY <1>1, <1>8, <1>9, <1>10 DEF Refill

LEMMA ForeignOutputStep ==
  ASSUME ArraysAreSound, NEW chunk \in Chunks, ForeignOutput(chunk)
  PROVE  ArraysAreSound'
<1>1. /\ buffer # <<>> /\ view = <<>> /\ UNCHANGED <<offer, fixed, read, holder, view>>
      /\ buffer' = [buffer EXCEPT ![1].chunk = chunk, ![1].written = <<>>]
  BY DEF ForeignOutput
<1>2. PICK F, m : Understood(read, F) /\ GoodFormat(F) /\ buffer = <<m>> /\ Mapped(F, m)
  BY <1>1, Zenon DEF ArraysAreSound, BufferPart
<1>3. PICK n : n = [maxSize |-> m.maxSize, address |-> m.address, chunk |-> chunk, written |-> <<>>]
  OBVIOUS
<1>4. m = [maxSize |-> m.maxSize, address |-> m.address, chunk |-> m.chunk, written |-> m.written]
      /\ m.maxSize \in MaxSizes /\ m.address \in [Side -> Addresses \cup {NoData}]
  BY <1>2, Zenon DEF Mapped
<1>5. buffer' = <<n>>
  <2>1. buffer' = Refill(<<m>>, chunk, <<>>)
    BY <1>1, <1>2, Zenon DEF Refill
  <2> QED
    BY <1>3, <1>4, <2>1, Refilled
<1>6. Mapped(F, n)
  <2>1. n.maxSize = m.maxSize /\ n.address = m.address /\ n.chunk = chunk /\ n.written = <<>>
    BY <1>3
  <2>2. n = [maxSize |-> n.maxSize, address |-> n.address, chunk |-> n.chunk, written |-> n.written]
    BY <1>3
  <2>3. chunk \in [offset : 0 .. U32Max, size : 0 .. U32Max,
                   stride : -IntMax - 1 .. IntMax, flags : SUBSET {"CORRUPTED", "EMPTY"}]
    BY ChunkAssumption
  <2>4. chunk = [offset |-> chunk.offset, size |-> chunk.size,
                 stride |-> chunk.stride, flags |-> chunk.flags] /\ chunk.offset \in 0 .. U32Max
    <3> PICK strides : strides = -IntMax - 1 .. IntMax
      OBVIOUS
    <3> PICK u32 : u32 = 0 .. U32Max
      OBVIOUS
    <3> PICK flags : flags = SUBSET {"CORRUPTED", "EMPTY"}
      OBVIOUS
    <3>1. chunk \in [offset : u32, size : u32, stride : strides, flags : flags]
      BY <2>3
    <3>2. chunk = [offset |-> chunk.offset, size |-> chunk.size,
                   stride |-> chunk.stride, flags |-> chunk.flags] /\ chunk.offset \in u32
      BY ONLY <3>1
    <3> QED
      BY <3>2
  <2>5. chunk.offset \in Nat
    BY <2>4, WidthAssumption DEF U32Max
  <2> QED
    BY <1>4, <2>1, <2>2, <2>4, <2>5, Zenon DEF Mapped
<1>7. holder' \in Side /\ view' = <<>>
  BY <1>1 DEF ArraysAreSound, BufferPart
<1> QED
  BY <1>1, <1>2, <1>5, <1>6, <1>7, HolderStep, Zenon

(* The facts of a format that the checks of a buffer use. *)
LEMMA FormatBytes ==
  ASSUME NEW F, GoodFormat(F)
  PROVE  ByteCount(F) \in Nat \ {0} /\ ElementSize(F.element) \in Sizes
<1>1. F.shape \in Seq(Nat) /\ HasSize(F.element) /\ AxesFit(F.shape)
  BY DEF GoodFormat, Countable
<1>2. \A a \in DOMAIN F.shape : F.shape[a] # 0
  BY <1>1, AxesThatFit
<1>3. ByteCount(F) \in Nat /\ ByteCount(F) # 0
  BY <1>1, <1>2, BytesGrow
<1> QED
  BY <1>1, <1>3, SizesAreKnown

LEMMA SizesAreNat == \A n \in MaxSizes : n \in Nat
<1>1. U32Max \in Nat /\ MaxSizes \subseteq 0 .. U32Max
  BY WidthAssumption DEF U32Max
<1> QED
  BY <1>1

LEMMA NoErrorOfFive ==
  ASSUME NEW a, NEW b, NEW c, NEW d, NEW e
  PROVE  LET first == FirstOf(<<a, b, c, d, e>>)
         IN  /\ first = <<>> => a = <<>> /\ b = <<>> /\ c = <<>> /\ d = <<>> /\ e = <<>>
             /\ first # <<>> => first = a \/ first = b \/ first = c \/ first = d \/ first = e
<1>1. PICK errors : errors = <<a, b, c, d, e>>
  OBVIOUS
<1>2. /\ DOMAIN errors = 1 .. 5 /\ errors[1] = a /\ errors[2] = b /\ errors[3] = c
      /\ errors[4] = d /\ errors[5] = e
  BY <1>1
<1>3. /\ (\A i \in 1 .. 5 : errors[i] = <<>>) => FirstOf(errors) = <<>>
      /\ (\E i \in 1 .. 5 : errors[i] # <<>>) =>
           \E i \in 1 .. 5 : errors[i] # <<>> /\ FirstOf(errors) = errors[i]
  BY <1>2, FirstOfIsOne
<1>4. \A i \in 1 .. 5 : i = 1 \/ i = 2 \/ i = 3 \/ i = 4 \/ i = 5
  OBVIOUS
<1>5. FirstOf(errors) = <<>> => \A i \in 1 .. 5 : errors[i] = <<>>
  BY <1>3
<1>6. FirstOf(errors) # <<>> => \E i \in 1 .. 5 : FirstOf(errors) = errors[i]
  BY <1>3
<1>7. FirstOf(errors) = <<>> => a = <<>> /\ b = <<>> /\ c = <<>> /\ d = <<>> /\ e = <<>>
  BY <1>2, <1>5
<1>8. FirstOf(errors) # <<>> =>
        \/ FirstOf(errors) = a \/ FirstOf(errors) = b \/ FirstOf(errors) = c
        \/ FirstOf(errors) = d \/ FirstOf(errors) = e
  BY <1>2, <1>4, <1>6
<1> QED
  BY <1>1, <1>7, <1>8, Zenon

LEMMA OutputStep ==
  ASSUME ArraysAreSound, NEW element, Output(element)
  PROVE  ArraysAreSound'
<1>1. /\ buffer # <<>> /\ holder = "producer" /\ view = <<>>
      /\ UNCHANGED <<offer, fixed, read, holder>>
  BY Zenon DEF Output
<1>2. PICK F, m : Understood(read, F) /\ GoodFormat(F) /\ buffer = <<m>> /\ Mapped(F, m)
  BY <1>1, Zenon DEF ArraysAreSound, BufferPart
<1>3. FormatOf("producer") = F /\ buffer[1] = m
  BY <1>2, OkIsNoError DEF Understood, FormatOf, Side
<1>4. PICK map : map = [maxSize |-> m.maxSize, address |-> m.address["producer"]]
  OBVIOUS
<1>5. MappedFor("producer") = map
  BY <1>3, <1>4 DEF MappedFor
<1>6. PICK error : error = OutputError(F, element, map)
  OBVIOUS
<1>7. IF error # <<>> THEN view' = <<Err(error)>> /\ UNCHANGED buffer
      ELSE /\ view' = <<Ok(Whole(F))>>
           /\ buffer' = [buffer EXCEPT ![1].chunk = PublishedChunk(@, F), ![1].written = <<Whole(F)>>]
  BY <1>3, <1>5, <1>6 DEF Output, Whole
<1>8. holder' \in Side /\ holder' = "producer"
  BY <1>1 DEF Side
<1>9. CASE error # <<>>
  <2>1. GoodView(F, m, "producer", Err(error))
    BY <1>9, OkIsNoError DEF GoodView
  <2>2. view' = <<Err(error)>> /\ buffer' = <<m>>
    BY <1>2, <1>7, <1>9
  <2> QED
    BY <1>1, <1>2, <1>8, <2>1, <2>2, HolderStep
<1>10. CASE error = <<>>
  <2>1. /\ (IF F.element # element THEN <<"ElementType">> ELSE <<>>) = <<>>
        /\ Stride(F).error = <<>>
        /\ (IF map.address = NoData THEN <<"Data">> ELSE <<>>) = <<>>
        /\ (IF ByteCount(F) > map.maxSize THEN <<"ChunkLayout">> ELSE <<>>) = <<>>
        /\ (IF ~Aligned(element, map.address) THEN <<"Alignment">> ELSE <<>>) = <<>>
    <3> PICK a : a = IF F.element # element THEN <<"ElementType">> ELSE <<>>
      OBVIOUS
    <3> PICK b : b = Stride(F).error
      OBVIOUS
    <3> PICK c : c = IF map.address = NoData THEN <<"Data">> ELSE <<>>
      OBVIOUS
    <3> PICK d : d = IF ByteCount(F) > map.maxSize THEN <<"ChunkLayout">> ELSE <<>>
      OBVIOUS
    <3> PICK e : e = IF ~Aligned(element, map.address) THEN <<"Alignment">> ELSE <<>>
      OBVIOUS
    <3>1. OutputError(F, element, map) = FirstOf(<<a, b, c, d, e>>)
      BY DEF OutputError
    <3>2. FirstOf(<<a, b, c, d, e>>) = <<>>
      BY <1>6, <1>10, <3>1
    <3>3. a = <<>> /\ b = <<>> /\ c = <<>> /\ d = <<>> /\ e = <<>>
      BY <3>2, NoErrorOfFive
    <3> QED
      BY <3>3
  <2>2. \A e : <<e>> # <<>>
    OBVIOUS
  <2>3. /\ F.element = element /\ Stride(F).error = <<>> /\ map.address # NoData
        /\ ~(ByteCount(F) > map.maxSize) /\ Aligned(element, map.address)
    BY <2>1, <2>2, Zenon
  <2>4. map.maxSize = m.maxSize /\ map.address = m.address["producer"]
    BY <1>4
  <2>5. /\ m = [maxSize |-> m.maxSize, address |-> m.address, chunk |-> m.chunk, written |-> m.written]
        /\ m.maxSize \in MaxSizes /\ m.address \in [Side -> Addresses \cup {NoData}]
        /\ m.chunk = [offset |-> m.chunk.offset, size |-> m.chunk.size,
                      stride |-> m.chunk.stride, flags |-> m.chunk.flags]
    BY <1>2, Zenon DEF Mapped
  <2>6. m.address["producer"] \in Nat
    BY <2>3, <2>4, <2>5, WidthAssumption DEF Side
  <2>7. ByteCount(F) \in Nat /\ m.maxSize \in Nat
    BY <1>2, <2>5, FormatBytes, WidthAssumption DEF U32Max
  <2>8. PICK bytes : bytes = ByteCount(F)
    OBVIOUS
  <2>9. PICK stride : stride = Head(Stride(F).ok)
    OBVIOUS
  <2>10. PICK chunk : chunk = [offset |-> 0, size |-> bytes, stride |-> stride, flags |-> {}]
    OBVIOUS
  <2>11. PublishedChunk(m.chunk, F) = chunk
    <3>1. ASSUME NEW o, NEW z, NEW d, NEW g
          PROVE  PublishedChunk([offset |-> o, size |-> z, stride |-> d, flags |-> g], F) = chunk
      <4> PICK c0 : c0 = [offset |-> o, size |-> z, stride |-> d, flags |-> g]
        OBVIOUS
      <4> PICK c1 : c1 = [c0 EXCEPT !.offset = 0]
        OBVIOUS
      <4> PICK c2 : c2 = [c1 EXCEPT !.size = bytes]
        OBVIOUS
      <4> PICK c3 : c3 = [c2 EXCEPT !.stride = stride]
        OBVIOUS
      <4> PICK c4 : c4 = [c3 EXCEPT !.flags = {}]
        OBVIOUS
      <4>1. c1 = [offset |-> 0, size |-> z, stride |-> d, flags |-> g]
        OBVIOUS
      <4>2. c2 = [offset |-> 0, size |-> bytes, stride |-> d, flags |-> g]
        BY <4>1
      <4>3. c3 = [offset |-> 0, size |-> bytes, stride |-> stride, flags |-> g]
        BY <4>2
      <4> PICK none : none = {}
        OBVIOUS
      <4>4. c4 = [offset |-> 0, size |-> bytes, stride |-> stride, flags |-> none]
        BY <4>3
      <4>6. c4 = chunk
        BY <2>10, <4>4
      <4>5. PublishedChunk(c0, F) = c4
        BY <2>8, <2>9 DEF PublishedChunk
      <4> QED
        BY <4>5, <4>6
    <3> QED
      BY <2>5, <3>1
  <2>12. PICK n : n = [maxSize |-> m.maxSize, address |-> m.address, chunk |-> chunk,
                       written |-> <<Whole(F)>>]
    OBVIOUS
  <2>13. buffer' = <<n>>
    <3>1. buffer' = Refill(<<m>>, PublishedChunk(m.chunk, F), <<Whole(F)>>)
      BY <1>2, <1>3, <1>7, <1>10 DEF Refill
    <3> QED
      BY <2>5, <2>11, <2>12, <3>1, Refilled
  <2>14. /\ n.maxSize = m.maxSize /\ n.address = m.address /\ n.chunk = chunk
         /\ n.written = <<Whole(F)>>
         /\ n = [maxSize |-> n.maxSize, address |-> n.address, chunk |-> n.chunk,
                 written |-> n.written]
    BY <2>12
  <2>15. /\ chunk.offset = 0 /\ chunk.size = bytes /\ chunk.stride = stride /\ chunk.flags = {}
         /\ chunk = [offset |-> chunk.offset, size |-> chunk.size,
                     stride |-> chunk.stride, flags |-> chunk.flags]
    BY <2>10
  <2>16. bytes <= m.maxSize /\ 0 \in Nat
    BY <2>3, <2>4, <2>7, <2>8
  <2>17. Mapped(F, n)
    BY <2>3, <2>5, <2>8, <2>9, <2>14, <2>15, <2>16, Zenon DEF Mapped
  <2>18. Whole(F).start = 0 /\ Whole(F).length = bytes
    BY <2>8 DEF Whole
  <2>19. m.address["producer"] + 0 = m.address["producer"] /\ 0 + bytes = bytes
    BY <2>6, <2>7, <2>8
  <2>20. IsOk(Ok(Whole(F))) /\ Head(Ok(Whole(F)).ok) = Whole(F) /\ Head(<<Whole(F)>>) = Whole(F)
    BY OkIsNoError
  <2>21. GoodView(F, n, "producer", Ok(Whole(F)))
    BY <2>3, <2>4, <2>8, <2>14, <2>16, <2>18, <2>19, <2>20 DEF GoodView
  <2>22. view' = <<Ok(Whole(F))>>
    BY <1>7, <1>10
  <2> QED
    BY <1>1, <1>2, <1>8, <2>13, <2>17, <2>21, <2>22, HolderStep
<1> QED
  BY <1>9, <1>10

(* What input() makes of a chunk, whoever wrote it. *)
LEMMA InputIsGood ==
  ASSUME NEW F, GoodFormat(F), NEW m, Mapped(F, m), NEW element, NEW h \in Side,
         NEW map, map = [maxSize |-> m.maxSize, address |-> m.address[h]],
         NEW r, r = InputResult(F, element, map, m.chunk)
  PROVE  GoodView(F, m, h, r)
<1>1. map.maxSize = m.maxSize /\ map.address = m.address[h]
  OBVIOUS
<1>2. /\ m.maxSize \in MaxSizes /\ m.address \in [Side -> Addresses \cup {NoData}]
      /\ m.chunk.offset \in Nat
      /\ m.written # <<>> =>
           /\ m.written = <<Whole(F)>> /\ ByteCount(F) <= m.maxSize
           /\ m.chunk.offset = 0 /\ m.chunk.size = ByteCount(F) /\ m.chunk.flags = {}
           /\ Stride(F).error = <<>> /\ m.chunk.stride = Head(Stride(F).ok)
  BY Zenon DEF Mapped
<1>3. ByteCount(F) \in Nat \ {0} /\ m.maxSize \in Nat
  <2>1. m.maxSize \in MaxSizes
    BY <1>2
  <2>2. m.maxSize \in Nat
    BY <2>1, SizesAreNat
  <2> QED
    BY <2>2, FormatBytes
<1>4. PICK bytes : bytes = ByteCount(F)
  OBVIOUS
<1>5. PICK error : error = InputError(F, element, map, m.chunk)
  OBVIOUS
<1>6. PICK start : start = m.chunk.offset % m.maxSize
  OBVIOUS
<1>7. r = IF error # <<>> THEN Err(error)
          ELSE IF start + bytes > m.maxSize THEN Err(<<"ChunkLayout">>)
          ELSE IF ~Aligned(element, m.address[h] + start) THEN Err(<<"Alignment">>)
          ELSE Ok([start |-> start, length |-> bytes])
  BY <1>1, <1>4, <1>5, <1>6, Zenon DEF InputResult
<1>8. PICK stride : stride = Stride(F)
  OBVIOUS
<1>9. PICK e1 : e1 = IF F.element # element THEN <<"ElementType">> ELSE <<>>
  OBVIOUS
<1>10. PICK e3 : e3 = IF m.chunk.flags \cap {"CORRUPTED", "EMPTY"} # {} THEN <<"ChunkFlags">> ELSE <<>>
  OBVIOUS
<1>11. PICK e4 : e4 = IF \/ m.chunk.size # bytes
                         \/ IsOk(stride) /\ m.chunk.stride \notin {0, Head(stride.ok)}
                      THEN <<"ChunkLayout">> ELSE <<>>
  OBVIOUS
<1>12. PICK e5 : e5 = IF m.address[h] = NoData \/ m.maxSize = 0 THEN <<"Data">> ELSE <<>>
  OBVIOUS
<1>13. error = FirstOf(<<e1, stride.error, e3, e4, e5>>)
  BY <1>1, <1>4, <1>5, <1>8, <1>9, <1>10, <1>11, <1>12, Zenon DEF InputError
<1>14. /\ error = <<>> => e1 = <<>> /\ stride.error = <<>> /\ e3 = <<>> /\ e4 = <<>> /\ e5 = <<>>
       /\ error # <<>> => error = e1 \/ error = stride.error \/ error = e3 \/ error = e4 \/ error = e5
  BY <1>13, NoErrorOfFive
<1>15. \A e : <<e>> # <<>>
  OBVIOUS
<1>16. m.written # <<>> => stride.error = <<>> /\ e3 = <<>> /\ e4 = <<>>
  BY <1>2, <1>4, <1>8, <1>10, <1>11
<1>17. m.written # <<>> => m.maxSize # 0 /\ start = 0
  <2>1. ASSUME m.written # <<>>
        PROVE  m.maxSize # 0 /\ start = 0
    <3>1. m.maxSize \in Nat \ {0}
      BY <1>2, <1>3, <2>1
    <3>2. 0 % m.maxSize = 0
      BY ONLY <3>1
    <3> QED
      BY <1>2, <1>6, <2>1, <3>1, <3>2
  <2> QED
    BY <2>1
<1>18. CASE error # <<>>
  <2>1. ~IsOk(r) /\ r.error = error
    BY <1>7, <1>18, OkIsNoError
  <2>2. ASSUME m.written # <<>>
        PROVE  \/ r.error = <<"ElementType">>
               \/ r.error = <<"Data">> /\ m.address[h] = NoData
    <3>1. error = e1 \/ error = e5
      BY <1>14, <1>16, <1>18, <2>2
    <3> QED
      BY <1>9, <1>12, <1>17, <1>18, <2>1, <2>2, <3>1
  <2> QED
    BY <2>1, <2>2, Zenon DEF GoodView
<1>19. CASE error = <<>>
  <2>1. e1 = <<>> /\ e5 = <<>>
    BY <1>14, <1>19
  <2>2. F.element = element
    BY <1>9, <1>15, <2>1
  <2>3. m.address[h] # NoData /\ m.maxSize # 0
    BY <1>12, <1>15, <2>1
  <2>4. m.address[h] \in Nat /\ m.maxSize \in Nat \ {0}
    BY <1>2, <1>3, <2>3, WidthAssumption
  <2>5. start \in Nat /\ bytes \in Nat
    <3>1. m.chunk.offset \in Nat /\ m.maxSize \in Nat \ {0}
      BY <1>2, <2>4
    <3>2. m.chunk.offset % m.maxSize \in Nat
      BY ONLY <3>1
    <3> QED
      BY <1>3, <1>4, <1>6, <3>2
  <2>6. CASE start + bytes > m.maxSize
    <3>1. r = Err(<<"ChunkLayout">>)
      BY <1>7, <1>19, <2>6
    <3>2. ~IsOk(r)
      BY <1>15, <3>1, OkIsNoError
    <3>3. m.written = <<>>
      BY <1>2, <1>3, <1>4, <1>17, <2>6
    <3> QED
      BY <3>2, <3>3, Zenon DEF GoodView
  <2>7. CASE ~(start + bytes > m.maxSize) /\ ~Aligned(element, m.address[h] + start)
    <3>1. r = Err(<<"Alignment">>)
      BY <1>7, <1>19, <2>7
    <3>2. ~IsOk(r) /\ r.error = <<"Alignment">>
      BY <1>15, <3>1, OkIsNoError
    <3>3. m.written # <<>> => m.address[h] + start = m.address[h]
      BY <1>17, <2>4
    <3>4. m.written # <<>> => ~Aligned(F.element, m.address[h])
      BY <2>2, <2>7, <3>3
    <3> QED
      BY <3>2, <3>4, Zenon DEF GoodView
  <2>8. CASE ~(start + bytes > m.maxSize) /\ Aligned(element, m.address[h] + start)
    <3>1. PICK extent : extent = [start |-> start, length |-> bytes]
      OBVIOUS
    <3>2. extent.start = start /\ extent.length = bytes
      BY <3>1
    <3>3. r = Ok(extent)
      BY <1>7, <1>19, <2>8, <3>1
    <3>4. IsOk(r) /\ Head(r.ok) = extent
      BY <3>3, OkIsNoError
    <3>5. start + bytes <= m.maxSize
      BY <2>4, <2>5, <2>8
    <3>6. m.written # <<>> => extent = Head(m.written)
      <4>1. ASSUME m.written # <<>>
            PROVE  extent = Whole(F)
        BY <1>4, <1>17, <3>1, <4>1 DEF Whole
      <4>2. Head(<<Whole(F)>>) = Whole(F)
        OBVIOUS
      <4> QED
        BY <1>2, <4>1, <4>2
    <3> QED
      BY <1>4, <2>2, <2>8, <3>2, <3>4, <3>5, <3>6 DEF GoodView
  <2> QED
    BY <2>6, <2>7, <2>8
<1> QED
  BY <1>18, <1>19

LEMMA InputStep ==
  ASSUME ArraysAreSound, NEW element, Input(element)
  PROVE  ArraysAreSound'
<1>1. /\ buffer # <<>> /\ holder = "consumer"
      /\ view' = <<InputResult(FormatOf("consumer"), element, MappedFor("consumer"), buffer[1].chunk)>>
      /\ UNCHANGED <<offer, fixed, read, buffer, holder>>
  BY Zenon DEF Input
<1>2. PICK F, m : Understood(read, F) /\ GoodFormat(F) /\ buffer = <<m>> /\ Mapped(F, m)
  BY <1>1, Zenon DEF ArraysAreSound, BufferPart
<1>3. FormatOf("consumer") = F /\ buffer[1] = m
  BY <1>2, OkIsNoError DEF Understood, FormatOf, Side
<1>4. PICK map : map = [maxSize |-> m.maxSize, address |-> m.address["consumer"]]
  OBVIOUS
<1>5. MappedFor("consumer") = map
  BY <1>3, <1>4 DEF MappedFor
<1>6. PICK r : r = InputResult(F, element, map, m.chunk)
  OBVIOUS
<1>7. view' = <<r>>
  BY <1>1, <1>3, <1>5, <1>6
<1>8. "consumer" \in Side
  BY DEF Side
<1>9. GoodView(F, m, "consumer", r)
  BY <1>2, <1>4, <1>6, <1>8, InputIsGood
<1>10. buffer' = <<m>> /\ holder' = "consumer"
  BY <1>1, <1>2
<1> QED
  BY <1>1, <1>2, <1>7, <1>8, <1>9, <1>10, HolderStep

LEMMA ArraysStaySound ==
  ASSUME ArraysAreSound, [Next]_vars
  PROVE  ArraysAreSound'
<1>1. CASE UNCHANGED vars
  BY <1>1 DEF vars, ArraysAreSound
<1>2. ASSUME NEW p \in Profile, NEW e \in Elements, NEW s \in Shapes, NEW l \in Layouts,
             NEW r \in {<<>>} \cup {<<f>> : f \in Rates}, Offer(p, e, s, l, r)
      PROVE  ArraysAreSound'
  BY <1>2, OfferStep
<1>3. ASSUME NEW list \in Alternatives, WithElements(list)
      PROVE  ArraysAreSound'
  BY <1>3, WithElementsStep
<1>4. ASSUME NEW list \in LayoutLists, WithLayouts(list)
      PROVE  ArraysAreSound'
  BY <1>4, WithLayoutsStep
<1>5. ASSUME NEW c \in RateChoices, WithRateChoice(c)
      PROVE  ArraysAreSound'
  BY <1>5, WithRateChoiceStep
<1>6. ASSUME Settle(FALSE, <<>>) \/ Settle(TRUE, Added)
      PROVE  ArraysAreSound'
  BY <1>6, AddedIsOther, SettleStep
<1>7. ASSUME NEW i \in 1 .. 6, NEW how \in Ways, Spoil(i, how)
      PROVE  ArraysAreSound'
  BY <1>7, SpoilStep
<1>8. ASSUME NEW s \in Side, NEW p \in Profile, ReadFormat(s, p)
      PROVE  ArraysAreSound'
  BY <1>8, ReadStep
<1>9. ASSUME NEW m \in MaxSizes, NEW a \in [Side -> Addresses \cup {NoData}], Allocate(m, a)
      PROVE  ArraysAreSound'
  BY <1>9, AllocateStep
<1>10. ASSUME NEW e, Output(e) \/ Input(e)
       PROVE  ArraysAreSound'
  BY <1>10, OutputStep, InputStep
<1>11. ASSUME NEW c \in Chunks, ForeignOutput(c)
       PROVE  ArraysAreSound'
  BY <1>11, ForeignOutputStep
<1>12. ASSUME Queue
       PROVE  ArraysAreSound'
  BY <1>12, QueueStep
<1> QED
  BY <1>1, <1>2, <1>3, <1>4, <1>5, <1>6, <1>7, <1>8, <1>9, <1>10, <1>11, <1>12, Zenon DEF Next, Ways

(* The negotiation and the buffers keep their invariant: each reader has   *)
(* what is settled, and what is settled was offered or is refused; a       *)
(* written buffer is whole and described (format.rs, ndarray.rs).          *)
THEOREM ArraysStayInOrder == Spec => []ArraysAreSound
<1>1. Init => ArraysAreSound
  BY ArraysStart
<1>2. ArraysAreSound /\ [Next]_vars => ArraysAreSound'
  BY ArraysStaySound
<1> QED
  BY <1>1, <1>2, PTL DEF Spec

(* Whatever of a valid offer is settled, both sides read the same format,  *)
(* which was offered and whose bytes can be counted, or refuse it for the  *)
(* profile they wanted or the width of an alternative element; what a peer *)
(* spoiled neither accepts (NdArrayFormat::from_properties).               *)
THEOREM WhatIsAgreedWasOffered == Spec => []AgreedIsOffered
<1>1. ArraysAreSound => AgreedIsOffered
  BY SidesAgree
<1> QED
  BY <1>1, ArraysStayInOrder, PTL

(* A slice of a buffer is a whole array inside the data at an aligned      *)
(* address, whoever wrote the chunk; and what output() published, input()  *)
(* finds (ndarray::output, ndarray::input).                                *)
THEOREM WhatIsWrittenIsRead == Spec => []WrittenIsRead
<1>1. ArraysAreSound => WrittenIsRead
  BY SlicesAreWhole
<1> QED
  BY <1>1, ArraysStayInOrder, PTL

=============================================================================
