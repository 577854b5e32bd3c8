------------------------- MODULE LoopSourcesProofs --------------------------
(***************************************************************************)
(* Theorems about LoopSources, for any sources, kinds and bounds.          *)
(***************************************************************************)
EXTENDS LoopSources, FiniteSetTheorems, TLAPS

USE LoopAssumption DEF LoopAssumption

LEMMA FrameOnTop ==
  ASSUME NEW F, NEW q \in Seq(F), NEW f \in F
  PROVE  <<f>> \o q \in Seq(F)
OBVIOUS

LEMMA FrameBelow ==
  ASSUME NEW F, NEW q \in Seq(F), q # <<>>
  PROVE  /\ Tail(q) \in Seq(F)
         /\ Head(q) \in F
OBVIOUS

LEMMA FrameReplaced ==
  ASSUME NEW F, NEW q \in Seq(F), q # <<>>, NEW f \in F
  PROVE  <<f>> \o Tail(q) \in Seq(F)
BY FrameBelow, FrameOnTop

LEMMA StackGrowsSafer ==
  ASSUME NEW F, NEW G, F \subseteq G, NEW q \in Seq(F)
  PROVE  q \in Seq(G)
OBVIOUS

LEMMA FrameIsFrame ==
  ASSUME NEW k \in {"call", "drop", "convert", "iterate"}, NEW s \in Source \cup {NoSource}
  PROVE  Frame(k, s) \in Frames
BY DEF Frame, Frames

LEMMA NoRequestIsIdle ==
  /\ NoRequest.op = "none" /\ NoRequest.state = "none" /\ NoRequest.src = NoSource
  /\ NoRequest \in [op : {"none", "add", "update", "destroy"}, src : Source \cup {NoSource},
                    arg : {"off", "once", "every"}, state : {"none", "sent", "done", "failed"}]
BY DEF NoRequest

(* A source goes from none to registered to destroyed, and never back. *)
SourcesAge ==
  \A s \in Local :
    /\ native[s] = "destroyed" => native'[s] = "destroyed"
    /\ native[s] # "none" => native'[s] # "none"

(* So a drop under way stays one, and so does a callback. *)
LEMMA CallsStay ==
  ASSUME IInv, SourcesAge
  PROVE  /\ Honest \subseteq Honest'
         /\ calls \in Seq(Honest')
<1>1. ASSUME NEW f \in Frames,
             f.kind = "drop" => f.src \in Local /\ native[f.src] = "destroyed",
             f.kind = "call" => f.src \in Local /\ native[f.src] # "none"
      PROVE  /\ f.kind = "drop" => f.src \in Local /\ native'[f.src] = "destroyed"
             /\ f.kind = "call" => f.src \in Local /\ native'[f.src] # "none"
  BY <1>1 DEF SourcesAge
<1>2. Honest \subseteq Honest'
  BY <1>1 DEF Honest
<1>3. calls \in Seq(Honest)
  BY DEF IInv, CallsAreHonest
<1>4. QED
  BY <1>2, <1>3, StackGrowsSafer

(* The steps that only move the control thread between its nested calls. *)
LEMMA CallsKeep ==
  ASSUME IInv, calls' \in Seq(Frames), calls' \in Seq(Honest), entered' \in Int,
         UNCHANGED <<native, closure, armed, ready, owed, lent, quiet, running, request>>
  PROVE  IInv'
BY DEF IInv, TypeOK, RequestIsHonest, OwnedIsRegistered, RunningIsRegistered, CallsAreHonest,
   Honest, RegisteredHasClosure, NeverBoxedIsNone, QuietIsDisarmed, LentIsRegistered, NoSignalLost

(* The steps that leave the calls alone. *)
LEMMA SourcesKeep ==
  ASSUME IInv, TypeOK', RequestIsHonest', OwnedIsRegistered', RunningIsRegistered',
         RegisteredHasClosure', NeverBoxedIsNone', QuietIsDisarmed', LentIsRegistered', NoSignalLost',
         calls' = calls, SourcesAge
  PROVE  IInv'
<1>1. CallsAreHonest'
  BY CallsStay, StackGrowsSafer DEF CallsAreHonest
<1>2. QED
  BY <1>1 DEF IInv

LEMMA AddKeeps ==
  ASSUME IInv, NEW s \in Source, NEW a \in {"off", "every"}, Add(s, a)
  PROVE  IInv'
<1> USE NoRequestIsIdle DEF IInv, TypeOK, Add, UserCode, Local, Remote
<1>1. TypeOK'
  OBVIOUS
<1>2. RequestIsHonest' /\ OwnedIsRegistered' /\ RunningIsRegistered'
  BY DEF RequestIsHonest, OwnedIsRegistered, RunningIsRegistered
<1>3. RegisteredHasClosure' /\ NeverBoxedIsNone' /\ LentIsRegistered' /\ NoSignalLost'
  BY DEF RequestIsHonest, RegisteredHasClosure, NeverBoxedIsNone, LentIsRegistered, NoSignalLost, Event
<1>4. QuietIsDisarmed'
  BY DEF RequestIsHonest, QuietIsDisarmed
<1>5. calls' = calls /\ SourcesAge
  BY DEF RequestIsHonest, SourcesAge
<1>6. QED
  BY <1>1, <1>2, <1>3, <1>4, <1>5, SourcesKeep

LEMMA UpdateKeeps ==
  ASSUME IInv, NEW s \in Source, NEW a \in {"off", "once", "every"}, Update(s, a)
  PROVE  IInv'
<1> USE NoRequestIsIdle DEF IInv, TypeOK, Update, UserCode, Local, Remote
<1>1. TypeOK'
  OBVIOUS
<1>2. RequestIsHonest' /\ OwnedIsRegistered' /\ RunningIsRegistered'
  BY DEF RequestIsHonest, OwnedIsRegistered, RunningIsRegistered
<1>3. RegisteredHasClosure' /\ NeverBoxedIsNone' /\ LentIsRegistered' /\ NoSignalLost'
  BY DEF RequestIsHonest, RegisteredHasClosure, NeverBoxedIsNone, LentIsRegistered, NoSignalLost, Event
<1>4. QuietIsDisarmed'
  BY DEF RequestIsHonest, QuietIsDisarmed
<1>5. calls' = calls /\ SourcesAge
  BY DEF RequestIsHonest, SourcesAge
<1>6. QED
  BY <1>1, <1>2, <1>3, <1>4, <1>5, SourcesKeep

LEMMA SignalKeeps ==
  ASSUME IInv, NEW s \in Source, Signal(s)
  PROVE  IInv'
<1> USE NoRequestIsIdle DEF IInv, TypeOK, Signal, Event, Local, Remote
<1>1. TypeOK'
  OBVIOUS
<1>2. RequestIsHonest' /\ OwnedIsRegistered' /\ RunningIsRegistered'
  BY DEF RequestIsHonest, OwnedIsRegistered, RunningIsRegistered
<1>3. RegisteredHasClosure' /\ NeverBoxedIsNone' /\ LentIsRegistered' /\ NoSignalLost'
  BY DEF RequestIsHonest, RegisteredHasClosure, NeverBoxedIsNone, LentIsRegistered, NoSignalLost, Event
<1>4. QuietIsDisarmed'
  BY DEF RequestIsHonest, QuietIsDisarmed
<1>5. calls' = calls /\ SourcesAge
  BY DEF RequestIsHonest, SourcesAge
<1>6. QED
  BY <1>1, <1>2, <1>3, <1>4, <1>5, SourcesKeep

LEMMA LendKeeps ==
  ASSUME IInv, NEW s \in Source, Lend(s) \/ GiveBack(s)
  PROVE  IInv'
<1> USE NoRequestIsIdle DEF IInv, TypeOK, Lend, GiveBack, Local, Remote
<1>1. TypeOK'
  OBVIOUS
<1>2. RequestIsHonest' /\ OwnedIsRegistered' /\ RunningIsRegistered'
  BY DEF RequestIsHonest, OwnedIsRegistered, RunningIsRegistered
<1>3. RegisteredHasClosure' /\ NeverBoxedIsNone' /\ LentIsRegistered' /\ NoSignalLost'
  BY DEF RequestIsHonest, RegisteredHasClosure, NeverBoxedIsNone, LentIsRegistered, NoSignalLost, Event
<1>4. QuietIsDisarmed'
  BY DEF RequestIsHonest, QuietIsDisarmed
<1>5. calls' = calls /\ SourcesAge
  BY DEF RequestIsHonest, SourcesAge
<1>6. QED
  BY <1>1, <1>2, <1>3, <1>4, <1>5, SourcesKeep

LEMMA HappensKeeps ==
  ASSUME IInv, NEW s \in Source, Happens(s)
  PROVE  IInv'
<1> USE NoRequestIsIdle DEF IInv, TypeOK, Happens, Local, Remote
<1>1. TypeOK'
  OBVIOUS
<1>2. RequestIsHonest' /\ OwnedIsRegistered' /\ RunningIsRegistered'
  BY DEF RequestIsHonest, OwnedIsRegistered, RunningIsRegistered
<1>3. RegisteredHasClosure' /\ NeverBoxedIsNone' /\ LentIsRegistered' /\ NoSignalLost'
  BY DEF RequestIsHonest, RegisteredHasClosure, NeverBoxedIsNone, LentIsRegistered, NoSignalLost, Event
<1>4. QuietIsDisarmed'
  BY DEF RequestIsHonest, QuietIsDisarmed
<1>5. calls' = calls /\ SourcesAge
  BY DEF RequestIsHonest, SourcesAge
<1>6. QED
  BY <1>1, <1>2, <1>3, <1>4, <1>5, SourcesKeep

LEMMA AskKeeps ==
  ASSUME IInv, NEW s \in Remote, NEW op \in {"add", "update", "destroy"},
         NEW a \in {"off", "once", "every"}, request = NoRequest, Ask(op, s, a),
         op # "update" => a = "off",
         closure' = [closure EXCEPT ![s] = "boxed"],
         closure[s] = IF op = "add" THEN "none" ELSE "boxed",
         quiet' \subseteq quiet, a # "off" => s \notin quiet',
         UNCHANGED <<native, armed, ready, owed, lent, calls, entered, running>>
  PROVE  IInv'
<1> USE NoRequestIsIdle DEF IInv, TypeOK
<1>1. /\ request'.op = op /\ request'.src = s /\ request'.arg = a /\ request'.state = "sent"
      /\ request' \in [op : {"none", "add", "update", "destroy"}, src : Source \cup {NoSource},
                       arg : {"off", "once", "every"}, state : {"none", "sent", "done", "failed"}]
  BY DEF Ask, Remote
<1>2. /\ closure'[s] = "boxed"
      /\ \A x \in Source \ {s} : closure'[x] = closure[x]
      /\ closure' \in [Source -> {"none", "boxed", "freed", "leaked"}]
      /\ s \in Source
  BY DEF Remote
<1>3. native[s] = IF op = "add" THEN "none" ELSE "registered"
  BY DEF OwnedIsRegistered, RegisteredHasClosure, NeverBoxedIsNone, Remote
<1>4. TypeOK'
  BY <1>1, <1>2
<1>5. RequestIsHonest'
  BY <1>1, <1>2, <1>3 DEF RequestIsHonest
<1>6. OwnedIsRegistered' /\ RunningIsRegistered' /\ RegisteredHasClosure' /\ NeverBoxedIsNone'
  BY <1>1, <1>2, <1>3
     DEF OwnedIsRegistered, RunningIsRegistered, RegisteredHasClosure, NeverBoxedIsNone, Remote
<1>7. QuietIsDisarmed' /\ LentIsRegistered' /\ NoSignalLost'
  BY <1>1 DEF QuietIsDisarmed, LentIsRegistered, NoSignalLost
<1>8. QED
  BY <1>4, <1>5, <1>6, <1>7, SourcesKeep DEF SourcesAge

LEMMA ControlThreadAsks ==
  ASSUME IInv, NEW s \in Source, NEW a \in {"off", "once", "every"},
         AddTimerFromThread(s) \/ UpdateRemote(s, a) \/ DropRemote(s)
  PROVE  IInv'
<1>1. CASE AddTimerFromThread(s)
  <2>1. quiet' = quiet
    BY <1>1 DEF AddTimerFromThread
  <2>2. QED
    BY <1>1, <2>1, AskKeeps DEF AddTimerFromThread, UserCode
<1>2. ASSUME UpdateRemote(s, a) \/ DropRemote(s)
      PROVE  closure' = [closure EXCEPT ![s] = "boxed"] /\ closure[s] = "boxed" /\ s \in Remote
  BY <1>2 DEF UpdateRemote, DropRemote, IInv, TypeOK
<1>3. CASE UpdateRemote(s, a)
  <2>1. quiet' \subseteq quiet /\ (a # "off" => s \notin quiet')
    BY <1>3 DEF UpdateRemote
  <2>2. QED
    BY <1>2, <1>3, <2>1, AskKeeps DEF UpdateRemote, UserCode
<1>4. CASE DropRemote(s)
  <2>1. quiet' = quiet
    BY <1>4 DEF DropRemote
  <2>2. QED
    BY <1>2, <1>4, <2>1, AskKeeps DEF DropRemote, UserCode
<1>5. QED
  BY <1>1, <1>3, <1>4

LEMMA InvokeFailsKeeps ==
  ASSUME IInv, InvokeFails
  PROVE  IInv'
<1> USE DEF IInv, TypeOK, InvokeFails
<1>1. /\ request'.op = request.op /\ request'.src = request.src /\ request'.arg = request.arg
      /\ request'.state = "failed" /\ request.state = "sent"
      /\ request' \in [op : {"none", "add", "update", "destroy"}, src : Source \cup {NoSource},
                       arg : {"off", "once", "every"}, state : {"none", "sent", "done", "failed"}]
  OBVIOUS
<1>2. TypeOK'
  BY <1>1
<1>3. RequestIsHonest'
  BY <1>1 DEF RequestIsHonest
<1>4. OwnedIsRegistered' /\ RunningIsRegistered' /\ RegisteredHasClosure' /\ NeverBoxedIsNone'
  BY <1>1 DEF OwnedIsRegistered, RunningIsRegistered, RegisteredHasClosure, NeverBoxedIsNone
<1>5. QuietIsDisarmed' /\ LentIsRegistered' /\ NoSignalLost'
  BY <1>1 DEF QuietIsDisarmed, LentIsRegistered, NoSignalLost
<1>6. QED
  BY <1>2, <1>3, <1>4, <1>5, SourcesKeep DEF SourcesAge

LEMMA ServeKeeps ==
  ASSUME IInv, Serve
  PROVE  IInv'
<1> DEFINE s == request.src
<1>1. /\ request.op \in {"add", "update", "destroy"} /\ request.state = "sent"
      /\ s \in Remote /\ s \in Source /\ closure[s] = "boxed"
      /\ request.op = "destroy" \/ request.op = "add" => request.arg = "off"
      /\ request.op = "update" => native[s] = "registered"
      /\ running = NoSource
      /\ request.arg \in {"off", "once", "every"}
  BY DEF IInv, TypeOK, RequestIsHonest, Remote, Serve
<1>2. /\ request'.op = request.op /\ request'.src = s /\ request'.arg = request.arg
      /\ request'.state = "done"
      /\ request' \in [op : {"none", "add", "update", "destroy"}, src : Source \cup {NoSource},
                       arg : {"off", "once", "every"}, state : {"none", "sent", "done", "failed"}]
  BY DEF IInv, TypeOK, Serve
<1>3. /\ native' \in [Source -> {"none", "registered", "destroyed"}]
      /\ native'[s] = IF request.op = "destroy" THEN "destroyed" ELSE "registered"
      /\ \A x \in Source \ {s} : native'[x] = native[x]
  <2>1. CASE request.op = "add"
    BY <1>1, <2>1 DEF IInv, TypeOK, Serve
  <2>2. CASE request.op = "update"
    BY <1>1, <2>2 DEF IInv, TypeOK, Serve
  <2>3. CASE request.op = "destroy"
    BY <1>1, <2>3 DEF IInv, TypeOK, Serve
  <2>4. QED
    BY <1>1, <2>1, <2>2, <2>3
<1>4. /\ armed' \in [Source -> {"off", "once", "every"}] /\ armed'[s] = request.arg
      /\ ready' \in [Source -> 0..MaxExpirations] /\ ready'[s] = 0
      /\ \A x \in Source \ {s} : armed'[x] = armed[x] /\ ready'[x] = ready[x]
  BY <1>1 DEF IInv, TypeOK, Serve
<1>5. UNCHANGED <<closure, owed, lent, quiet, calls, entered, running>>
  BY DEF Serve
<1> HIDE DEF s
<1> USE <1>1, <1>2, <1>3, <1>4, <1>5 DEF IInv
<1>6. TypeOK'
  BY DEF TypeOK
<1>7. RequestIsHonest' /\ OwnedIsRegistered' /\ RunningIsRegistered'
  BY DEF RequestIsHonest, OwnedIsRegistered, RunningIsRegistered, Remote, s, TypeOK
<1>8. RegisteredHasClosure' /\ NeverBoxedIsNone'
  BY DEF RegisteredHasClosure, NeverBoxedIsNone, TypeOK
<1>9. LentIsRegistered' /\ NoSignalLost'
  <2>1. s \notin Event /\ Event \subseteq Source
    BY DEF Event, Remote
  <2>2. LentIsRegistered'
    BY <2>1 DEF LentIsRegistered, TypeOK
  <2>3. NoSignalLost'
    BY ZenonT(30), <2>1 DEF NoSignalLost, TypeOK
  <2>4. QED
    BY <2>2, <2>3
<1>10. QuietIsDisarmed'
  <2>1. \A x \in quiet : armed'[x] = "off" /\ ready'[x] = 0 /\ running # x
    <3>1. request.op = "update" /\ request.arg # "off" => s \notin quiet
      BY DEF QuietIsDisarmed, s
    <3>2. QED
      BY <3>1 DEF QuietIsDisarmed, TypeOK, Remote
  <2>2. running # s
    BY DEF s
  <2>3. QED
    BY <2>1, <2>2 DEF QuietIsDisarmed, s
<1>11. SourcesAge
  BY DEF Local, SourcesAge
<1>12. QED
  BY <1>6, <1>7, <1>8, <1>9, <1>10, <1>11, SourcesKeep

LEMMA ReplyKeeps ==
  ASSUME IInv, Reply
  PROVE  IInv'
<1> DEFINE s == request.src
<1>1. /\ request.op \in {"add", "update", "destroy"} /\ request.state \in {"done", "failed"}
      /\ s \in Remote /\ s \in Source /\ closure[s] = "boxed"
  BY DEF IInv, TypeOK, RequestIsHonest, Remote, Reply
<1>2. /\ closure' \in [Source -> {"none", "boxed", "freed", "leaked"}]
      /\ \A x \in Source \ {s} : closure'[x] = closure[x]
      /\ closure'[s] = "boxed" => native[s] = "registered"
      /\ native[s] = "registered" => closure'[s] \in {"boxed", "leaked"}
      /\ closure'[s] # "none"
  <2>1. CASE request.op = "add"
    BY <1>1, <2>1 DEF IInv, TypeOK, Reply, RequestIsHonest
  <2>2. CASE request.op = "update"
    BY <1>1, <2>2 DEF IInv, TypeOK, Reply, RequestIsHonest
  <2>3. CASE request.op = "destroy"
    BY <1>1, <2>3 DEF IInv, TypeOK, Reply, RequestIsHonest
  <2>4. QED
    BY <1>1, <2>1, <2>2, <2>3
<1>3. request' = NoRequest /\ UNCHANGED <<native, armed, ready, owed, lent, calls, entered, running>>
  BY DEF Reply
<1>4. /\ quiet' \subseteq quiet \cup {s}
      /\ s \in quiet' => armed[s] = "off" /\ ready[s] = 0 /\ running # s
  BY DEF IInv, QuietIsDisarmed, Reply
<1> HIDE DEF s
<1> USE <1>1, <1>2, <1>3, <1>4, NoRequestIsIdle DEF IInv
<1>5. TypeOK'
  BY DEF TypeOK
<1>6. RequestIsHonest' /\ RunningIsRegistered'
  BY DEF RequestIsHonest, RunningIsRegistered
<1>7. OwnedIsRegistered' /\ RegisteredHasClosure' /\ NeverBoxedIsNone'
  <2>1. OwnedIsRegistered'
    <3>1. \A x \in Remote \ {s} : closure[x] = "boxed" => native[x] = "registered"
      BY DEF OwnedIsRegistered, s
    <3>2. QED
      BY <3>1 DEF OwnedIsRegistered, Remote
  <2>2. RegisteredHasClosure'
    BY DEF RegisteredHasClosure
  <2>3. NeverBoxedIsNone'
    BY DEF NeverBoxedIsNone
  <2>4. QED
    BY <2>1, <2>2, <2>3
<1>8. LentIsRegistered' /\ NoSignalLost'
  BY DEF LentIsRegistered, NoSignalLost
<1>9. QuietIsDisarmed'
  BY DEF QuietIsDisarmed
<1>10. QED
  BY <1>5, <1>6, <1>7, <1>8, <1>9, SourcesKeep DEF SourcesAge

LEMMA RemoteCallKeeps ==
  ASSUME IInv, NEW s \in Source, RemoteCall(s)
  PROVE  IInv'
<1> USE DEF IInv, TypeOK, RemoteCall, Local, Remote
<1>1. ready' \in [Source -> 0..MaxExpirations] /\ ready'[s] = 0
      /\ \A x \in Source \ {s} : ready'[x] = ready[x]
  OBVIOUS
<1>2. TypeOK'
  BY <1>1
<1>3. RequestIsHonest' /\ OwnedIsRegistered' /\ RunningIsRegistered' /\ RegisteredHasClosure'
  BY DEF RequestIsHonest, OwnedIsRegistered, RunningIsRegistered, RegisteredHasClosure
<1>4. NeverBoxedIsNone' /\ LentIsRegistered'
  BY DEF NeverBoxedIsNone, LentIsRegistered
<1>5. NoSignalLost'
  BY <1>1 DEF NoSignalLost, Event
<1>6. QuietIsDisarmed'
  BY <1>1 DEF QuietIsDisarmed, RequestIsHonest
<1>7. QED
  BY <1>2, <1>3, <1>4, <1>5, <1>6, SourcesKeep DEF SourcesAge

LEMMA RemoteReturnKeeps ==
  ASSUME IInv, RemoteReturn
  PROVE  IInv'
<1> USE DEF IInv, RemoteReturn
<1>1. TypeOK'
  BY DEF TypeOK
<1>2. RequestIsHonest' /\ OwnedIsRegistered' /\ RunningIsRegistered' /\ RegisteredHasClosure'
  BY DEF RequestIsHonest, OwnedIsRegistered, RunningIsRegistered, RegisteredHasClosure
<1>3. NeverBoxedIsNone' /\ LentIsRegistered' /\ NoSignalLost'
  BY DEF NeverBoxedIsNone, LentIsRegistered, NoSignalLost
<1>4. QuietIsDisarmed'
  BY DEF QuietIsDisarmed, RequestIsHonest, TypeOK, Remote
<1>5. QED
  BY <1>1, <1>2, <1>3, <1>4, SourcesKeep DEF SourcesAge

LEMMA DropSourceKeeps ==
  ASSUME IInv, NEW s \in Source, DropSource(s)
  PROVE  IInv'
<1> USE NoRequestIsIdle DEF IInv, TypeOK, DropSource, MayCall, UserCode, Local, Remote
<1>1. Frame("drop", s) \in Frames /\ Frame("drop", s) \in Honest'
  BY FrameIsFrame DEF Honest, Frame
<1>2. calls' \in Seq(Frames)
  BY <1>1, FrameOnTop
<1>3. calls \in Seq(Honest')
  BY CallsStay DEF SourcesAge
<1>4. CallsAreHonest'
  BY <1>1, <1>3, FrameOnTop DEF CallsAreHonest
<1>5. TypeOK'
  BY <1>2
<1>6. RequestIsHonest' /\ OwnedIsRegistered' /\ RunningIsRegistered' /\ RegisteredHasClosure' /\ NeverBoxedIsNone'
  BY DEF RequestIsHonest, OwnedIsRegistered, RunningIsRegistered, RegisteredHasClosure, NeverBoxedIsNone
<1>7. QuietIsDisarmed' /\ LentIsRegistered' /\ NoSignalLost'
  BY DEF RequestIsHonest, QuietIsDisarmed, LentIsRegistered, NoSignalLost
<1>8. QED
  BY <1>4, <1>5, <1>6, <1>7

LEMMA FreeClosureKeeps ==
  ASSUME IInv, FreeClosure
  PROVE  IInv'
<1> USE NoRequestIsIdle DEF IInv, TypeOK, FreeClosure, UserCode, Local, Remote
<1>1. calls' \in Seq(Frames) /\ calls' \in Seq(Honest)
  BY FrameBelow DEF CallsAreHonest
<1>2. Head(calls) \in Honest
  BY FrameBelow DEF CallsAreHonest
<1>3. Head(calls).src \in Local /\ native[Head(calls).src] = "destroyed"
  BY <1>2 DEF Honest
<1>4. CallsAreHonest'
  BY <1>1 DEF CallsAreHonest, Honest
<1>5. TypeOK'
  BY <1>1
<1>6. RequestIsHonest' /\ OwnedIsRegistered' /\ RunningIsRegistered' /\ RegisteredHasClosure' /\ NeverBoxedIsNone'
  BY <1>3 DEF RequestIsHonest, OwnedIsRegistered, RunningIsRegistered, RegisteredHasClosure, NeverBoxedIsNone
<1>7. QuietIsDisarmed' /\ LentIsRegistered' /\ NoSignalLost'
  BY DEF RequestIsHonest, QuietIsDisarmed, LentIsRegistered, NoSignalLost
<1>8. QED
  BY <1>4, <1>5, <1>6, <1>7

LEMMA NestingKeeps ==
  ASSUME IInv,
         Iterate \/ TimeoutFits \/ TimeoutOverflows \/ CallbackReturns \/ IterateReturns
  PROVE  IInv'
<1>1. calls \in Seq(Frames) /\ calls \in Seq(Honest)
  BY DEF IInv, TypeOK, CallsAreHonest
<1>2. \A k \in {"convert", "iterate"} :
        Frame(k, NoSource) \in Frames /\ Frame(k, NoSource) \in Honest
  BY FrameIsFrame DEF Honest, Frame
<1>3. CASE Iterate
  BY <1>1, <1>2, <1>3, FrameOnTop, CallsKeep DEF Iterate, IInv, TypeOK
<1>4. CASE TimeoutFits
  BY <1>1, <1>2, <1>4, FrameReplaced, CallsKeep DEF TimeoutFits, IInv, TypeOK
<1>5. ASSUME calls # <<>>, calls' = Tail(calls), entered' \in {entered, entered - 1},
             UNCHANGED <<native, closure, armed, ready, owed, lent, quiet, running, request>>
      PROVE  IInv'
  BY <1>1, <1>5, FrameBelow, CallsKeep DEF IInv, TypeOK
<1>6. CASE TimeoutOverflows
  <2>1. calls # <<>>
    BY <1>6 DEF TimeoutOverflows
  <2>2. QED
    BY <1>5, <1>6, <2>1 DEF TimeoutOverflows
<1>7. CASE CallbackReturns
  BY <1>5, <1>7 DEF CallbackReturns
<1>8. CASE IterateReturns
  BY <1>5, <1>8 DEF IterateReturns, InsideIterate
<1>9. QED
  BY <1>3, <1>4, <1>6, <1>7, <1>8

LEMMA DispatchKeeps ==
  ASSUME IInv, NEW s \in Source, Dispatch(s)
  PROVE  IInv'
<1> USE DEF IInv, TypeOK, Dispatch, Local, Remote
<1>1. Frame("call", s) \in Frames /\ Frame("call", s) \in Honest
  BY FrameIsFrame DEF Honest, Frame
<1>2. calls' \in Seq(Frames) /\ calls' \in Seq(Honest)
  BY <1>1, FrameOnTop DEF CallsAreHonest
<1>3. ready'[s] \in 0..MaxExpirations /\ \A x \in Source \ {s} : ready'[x] = ready[x]
  OBVIOUS
<1>4. TypeOK' /\ CallsAreHonest'
  BY <1>2, <1>3 DEF CallsAreHonest, Honest
<1>5. RequestIsHonest' /\ OwnedIsRegistered' /\ RunningIsRegistered' /\ RegisteredHasClosure' /\ NeverBoxedIsNone'
  BY DEF RequestIsHonest, OwnedIsRegistered, RunningIsRegistered, RegisteredHasClosure, NeverBoxedIsNone
<1>6. QuietIsDisarmed' /\ LentIsRegistered' /\ NoSignalLost'
  BY <1>3 DEF RequestIsHonest, QuietIsDisarmed, LentIsRegistered, NoSignalLost, Event
<1>7. QED
  BY <1>4, <1>5, <1>6

LEMMA NextKeeps ==
  ASSUME IInv, [Next]_vars
  PROVE  IInv'
<1>1. ASSUME NEW s \in Source, Program(s)
      PROVE  IInv'
  BY <1>1, AddKeeps, UpdateKeeps, SignalKeeps, LendKeeps, DropSourceKeeps, ControlThreadAsks
     DEF Program
<1>2. ASSUME NEW s \in Source, Dispatch(s) \/ Happens(s) \/ RemoteCall(s)
      PROVE  IInv'
  BY <1>2, DispatchKeeps, HappensKeeps, RemoteCallKeeps
<1>3. CASE Iterate \/ Unwind
  BY <1>3, NestingKeeps, FreeClosureKeeps, ReplyKeeps DEF Unwind
<1>4. CASE Serve \/ InvokeFails \/ RemoteReturn
  BY <1>4, ServeKeeps, InvokeFailsKeeps, RemoteReturnKeeps
<1>5. CASE UNCHANGED vars
  <2>1. calls \in Seq(Frames) /\ calls \in Seq(Honest) /\ entered \in Int
    BY DEF IInv, TypeOK, CallsAreHonest
  <2>2. QED
    BY <1>5, <2>1, CallsKeep DEF vars
<1>6. QED
  BY <1>1, <1>2, <1>3, <1>4, <1>5 DEF Next

(* IInv holds in every reachable state: what the control thread owns, what *)
(* a loop has registered and what an invocation will answer agree.         *)
THEOREM Invariant == Spec => []IInv
<1>1. Init => IInv
  <2> SUFFICES ASSUME Init PROVE IInv
    OBVIOUS
  <2> USE NoRequestIsIdle DEF Init
  <2>1. TypeOK
    BY DEF TypeOK
  <2>2. CallsAreHonest
    BY DEF CallsAreHonest
  <2>3. RequestIsHonest
    BY DEF RequestIsHonest
  <2>4. OwnedIsRegistered /\ RunningIsRegistered /\ RegisteredHasClosure /\ NeverBoxedIsNone
    BY DEF OwnedIsRegistered, RunningIsRegistered, RegisteredHasClosure, NeverBoxedIsNone, Remote
  <2>5. QuietIsDisarmed /\ LentIsRegistered /\ NoSignalLost
    BY DEF QuietIsDisarmed, LentIsRegistered, NoSignalLost
  <2>6. QED
    BY <2>1, <2>2, <2>3, <2>4, <2>5 DEF IInv
<1>2. IInv /\ [Next]_vars => IInv'
  BY NextKeeps
<1>3. QED
  BY <1>1, <1>2, PTL DEF Spec

(* Every variable keeps its type. *)
THEOREM TypeCorrect == Spec => []TypeOK
<1>1. IInv => TypeOK
  BY DEF IInv
<1>2. QED
  BY <1>1, Invariant, PTL

(* Whatever a loop can still call has its closure in memory, and so has    *)
(* whatever it is calling unless that callback drops its own source: by    *)
(* whichever calls of the program and whichever invocations fail.          *)
THEOREM ClosuresOutliveSources == Spec => [](RegisteredHasClosure /\ RunningClosureAlive)
<1>1. IInv => RegisteredHasClosure /\ RunningClosureAlive
  <2> SUFFICES ASSUME IInv PROVE RegisteredHasClosure /\ RunningClosureAlive
    OBVIOUS
  <2>1. RegisteredHasClosure
    BY DEF IInv
  <2>2. running # NoSource => InMemory(running)
    BY DEF IInv, TypeOK, Remote, RunningIsRegistered, RegisteredHasClosure, InMemory
  <2>3. ASSUME NEW s \in Local, Runs(s)
        PROVE  InMemory(s) \/ native[s] = "destroyed"
    <3>1. PICK i \in DOMAIN calls : calls[i] = Frame("call", s)
      BY <2>3 DEF Runs
    <3>2. calls[i] \in Honest
      BY DEF IInv, CallsAreHonest
    <3>3. native[s] \in {"registered", "destroyed"}
      BY <3>1, <3>2 DEF Frame, Honest, IInv, TypeOK, Local
    <3> QED
      BY <2>1, <3>3 DEF RegisteredHasClosure, InMemory, Local
  <2> QED
    BY <2>1, <2>2, <2>3 DEF RunningClosureAlive
<1>2. QED
  BY <1>1, Invariant, PTL

(* A remote timer whose disarming returned Ok stays silent until rearmed.  *)
THEOREM DisarmedStaysQuiet == Spec => []DisarmedIsQuiet
<1>1. IInv => DisarmedIsQuiet
  BY DEF IInv, QuietIsDisarmed, DisarmedIsQuiet
<1>2. QED
  BY <1>1, Invariant, PTL

(* Signals from any thread are combined, never lost. *)
THEOREM SignalsStay == Spec => []NoSignalLost
<1>1. IInv => NoSignalLost
  BY DEF IInv
<1>2. QED
  BY <1>1, Invariant, PTL

-----------------------------------------------------------------------------
(* Boxes and the calls that are dropping them. *)

LEMMA StillBelow ==
  ASSUME NEW q \in Seq(Frames), NEW f \in Frames, NEW i \in DOMAIN q
  PROVE  \E j \in DOMAIN (<<f>> \o q) : (<<f>> \o q)[j] = q[i]
<1>1. i + 1 \in DOMAIN (<<f>> \o q) /\ (<<f>> \o q)[i + 1] = q[i]
  OBVIOUS
<1> QED
  BY <1>1

LEMMA StillInTail ==
  ASSUME NEW q \in Seq(Frames), NEW i \in DOMAIN q, q[i] # Head(q)
  PROVE  \E j \in DOMAIN Tail(q) : Tail(q)[j] = q[i]
<1>1. i - 1 \in DOMAIN Tail(q) /\ Tail(q)[i - 1] = q[i]
  OBVIOUS
<1> QED
  BY <1>1

LEMMA NoLostClosureKept ==
  ASSUME IInv, NoLostClosure, [Next]_vars
  PROVE  NoLostClosure'
<1> SUFFICES ASSUME NEW s \in Source,
                    closure'[s] = "boxed", native'[s] # "registered", request'.src # s
             PROVE  \E i \in DOMAIN calls' : calls'[i] = Frame("drop", s)
  BY DEF NoLostClosure
<1>1. calls \in Seq(Frames) /\ TypeOK /\ NoSource # s
  BY DEF IInv, TypeOK
<1>2. ASSUME closure[s] = "boxed", native[s] # "registered", request.src # s
      PROVE  \E i \in DOMAIN calls : calls[i] = Frame("drop", s)
  BY <1>2 DEF NoLostClosure
<1>3. ASSUME UNCHANGED <<native, closure, request, calls>>
      PROVE  \E i \in DOMAIN calls' : calls'[i] = Frame("drop", s)
  BY <1>2, <1>3
<1>4. ASSUME NEW x \in Source, Program(x), ~DropSource(x)
      PROVE  \E i \in DOMAIN calls' : calls'[i] = Frame("drop", s)
  <2>1. CASE Signal(x) \/ Lend(x) \/ GiveBack(x) \/ \E a \in {"off", "once", "every"} : Update(x, a)
    BY <1>3, <2>1 DEF Signal, Lend, GiveBack, Update
  <2>2. CASE \E a \in {"off", "every"} : Add(x, a)
    <3>1. x # s /\ closure'[s] = closure[s] /\ native'[s] = native[s] /\ UNCHANGED <<request, calls>>
      BY <1>1, <2>2 DEF Add, TypeOK
    <3> QED
      BY <1>2, <3>1
  <2>3. CASE AddTimerFromThread(x) \/ DropRemote(x) \/ \E a \in {"off", "once", "every"} : UpdateRemote(x, a)
    <3>1. x # s /\ closure'[s] = closure[s] /\ native'[s] = native[s] /\ request.src # s /\ UNCHANGED calls
      BY <1>1, <2>3, NoRequestIsIdle
         DEF AddTimerFromThread, DropRemote, UpdateRemote, Ask, UserCode, TypeOK
    <3> QED
      BY <1>2, <3>1
  <2> QED
    BY <1>4, <2>1, <2>2, <2>3 DEF Program
<1>5. ASSUME NEW f \in Frames, calls' = <<f>> \o calls, UNCHANGED request,
             f = Frame("drop", s) \/ (closure'[s] = closure[s] /\ native'[s] = native[s])
      PROVE  \E i \in DOMAIN calls' : calls'[i] = Frame("drop", s)
  <2>1. CASE f = Frame("drop", s)
    <3>1. 1 \in DOMAIN calls' /\ calls'[1] = f
      BY <1>1, <1>5
    <3> QED
      BY <2>1, <3>1
  <2>2. CASE f # Frame("drop", s)
    <3>1. PICK i \in DOMAIN calls : calls[i] = Frame("drop", s)
      BY <1>2, <1>5, <2>2
    <3>2. \E j \in DOMAIN (<<f>> \o calls) : (<<f>> \o calls)[j] = calls[i]
      BY <1>1, <1>5, <3>1, StillBelow
    <3> QED
      BY <1>5, <3>1, <3>2
  <2> QED
    BY <2>1, <2>2
<1>6. ASSUME NEW x \in Source, DropSource(x)
      PROVE  \E i \in DOMAIN calls' : calls'[i] = Frame("drop", s)
  <2>1. x # s => closure'[s] = closure[s] /\ native'[s] = native[s]
    BY <1>1, <1>6 DEF DropSource, TypeOK
  <2> QED
    BY <1>5, <1>6, <2>1, FrameIsFrame DEF DropSource
<1>7. CASE Iterate \/ \E x \in Source : Dispatch(x)
  BY <1>5, <1>7, FrameIsFrame DEF Iterate, Dispatch
<1>8. CASE \E x \in Source : Happens(x) \/ RemoteCall(x)
  BY <1>3, <1>8 DEF Happens, RemoteCall
<1>9. ASSUME calls # <<>>, calls' = Tail(calls), UNCHANGED <<native, request>>,
             Head(calls) # Frame("drop", s), closure'[s] = closure[s]
      PROVE  \E i \in DOMAIN calls' : calls'[i] = Frame("drop", s)
  BY <1>1, <1>2, <1>9, StillInTail
<1>10. CASE TimeoutOverflows \/ CallbackReturns \/ IterateReturns
  <2>1. calls # <<>> /\ Head(calls).kind # "drop"
    BY <1>10 DEF TimeoutOverflows, CallbackReturns, IterateReturns, InsideIterate
  <2> QED
    BY <1>9, <1>10, <2>1 DEF TimeoutOverflows, CallbackReturns, IterateReturns, Frame
<1>11. CASE FreeClosure
  <2>1. calls # <<>> /\ Head(calls) \in Frames /\ Head(calls).kind = "drop"
    BY <1>1, <1>11, FrameBelow DEF FreeClosure
  <2>2. Head(calls).src # s /\ closure'[s] = closure[s]
    BY <1>1, <1>11 DEF FreeClosure, TypeOK
  <2> QED
    BY <1>9, <1>11, <2>1, <2>2 DEF FreeClosure, Frame
<1>12. CASE TimeoutFits
  <2>1. PICK i \in DOMAIN calls : calls[i] = Frame("drop", s)
    BY <1>2, <1>12 DEF TimeoutFits
  <2>2. calls # <<>> /\ Head(calls) # Frame("drop", s)
    BY <1>12 DEF TimeoutFits, Frame
  <2>3. PICK j \in DOMAIN Tail(calls) : Tail(calls)[j] = Frame("drop", s)
    BY <1>1, <2>1, <2>2, StillInTail
  <2>4. /\ calls' = <<Frame("iterate", NoSource)>> \o Tail(calls)
        /\ Tail(calls) \in Seq(Frames) /\ Frame("iterate", NoSource) \in Frames
    BY <1>1, <1>12, <2>2, FrameBelow, FrameIsFrame DEF TimeoutFits
  <2>5. \E k \in DOMAIN (<<Frame("iterate", NoSource)>> \o Tail(calls)) :
          (<<Frame("iterate", NoSource)>> \o Tail(calls))[k] = Tail(calls)[j]
    BY <2>3, <2>4, StillBelow
  <2> QED
    BY <2>3, <2>4, <2>5
<1>13. CASE Reply
  <2>1. request.src # s
    BY <1>1, <1>13 DEF Reply, IInv, TypeOK, RequestIsHonest
  <2> QED
    BY <1>1, <1>2, <1>13, <2>1 DEF Reply, TypeOK
<1>14. CASE Serve
  <2>1. request.src # s
    BY <1>1, <1>14 DEF Serve, TypeOK
  <2> QED
    BY <1>1, <1>2, <1>14, <2>1 DEF Serve, TypeOK
<1>15. CASE InvokeFails \/ RemoteReturn
  <2>1. request'.src = request.src
    BY <1>1, <1>15 DEF InvokeFails, RemoteReturn, TypeOK
  <2> QED
    BY <1>2, <1>15, <2>1 DEF InvokeFails, RemoteReturn
<1>16. CASE UNCHANGED vars
  BY <1>3, <1>16 DEF vars
<1> QED
  BY <1>4, <1>6, <1>7, <1>8, <1>10, <1>11, <1>12, <1>13, <1>14, <1>15, <1>16 DEF Next, Unwind

(* No box is forgotten: it has a source, is being registered or is being   *)
(* dropped, whatever fails (add_timer_from_thread, TimerSource::drop).     *)
THEOREM NoClosureIsLost == Spec => []NoLostClosure
<1>1. Init => NoLostClosure
  BY DEF Init, NoLostClosure
<1>2. IInv /\ NoLostClosure /\ [Next]_vars => NoLostClosure'
  BY NoLostClosureKept
<1>3. QED
  BY <1>1, <1>2, Invariant, PTL DEF Spec

-----------------------------------------------------------------------------
(* enter and leave. *)

Entries(q) == {i \in DOMAIN q : InLoop(q[i])}

LEMMA EntriesAreFinite ==
  ASSUME NEW F, NEW q \in Seq(F)
  PROVE  IsFiniteSet(Entries(q)) /\ Cardinality(Entries(q)) \in Nat
<1>1. Entries(q) \in SUBSET (1 .. Len(q)) /\ Len(q) \in Int
  BY DEF Entries
<1>2. IsFiniteSet(1 .. Len(q))
  BY <1>1, FS_Interval
<1>3. IsFiniteSet(Entries(q))
  BY <1>1, <1>2, FS_Subset
<1> QED
  BY <1>3, FS_CardinalityType

LEMMA EntriesPushed ==
  ASSUME NEW F, NEW q \in Seq(F), NEW f \in F
  PROVE  Cardinality(Entries(<<f>> \o q)) = Cardinality(Entries(q)) + (IF InLoop(f) THEN 1 ELSE 0)
<1> DEFINE T == {i \in 2 .. Len(q) + 1 : InLoop(q[i - 1])}
           h == [i \in Entries(q) |-> i + 1]
<1>1. Len(q) \in Nat /\ DOMAIN q = 1 .. Len(q)
  OBVIOUS
<1>2. h \in Bijection(Entries(q), T)
  <2>1. h \in [Entries(q) -> T]
    BY <1>1 DEF Entries
  <2>2. \A a, b \in Entries(q) : h[a] = h[b] => a = b
    BY <1>1 DEF Entries
  <2>3. \A x \in T : \E a \in Entries(q) : h[a] = x
    <3> SUFFICES ASSUME NEW x \in T
                 PROVE  x - 1 \in Entries(q) /\ h[x - 1] = x
      OBVIOUS
    <3> QED
      BY <1>1 DEF Entries
  <2> HIDE DEF T, h
  <2> QED
    BY <2>1, <2>2, <2>3 DEF Bijection, Injection, Surjection, IsInjective
<1>3. IsFiniteSet(T) /\ Cardinality(T) = Cardinality(Entries(q)) /\ Cardinality(T) \in Nat
  BY <1>2, EntriesAreFinite, FS_Bijection DEF ExistsBijection
<1>4. /\ Len(<<f>> \o q) = Len(q) + 1 /\ DOMAIN (<<f>> \o q) = 1 .. Len(q) + 1
      /\ (<<f>> \o q)[1] = f
      /\ \A i \in 2 .. Len(q) + 1 : (<<f>> \o q)[i] = q[i - 1]
  OBVIOUS
<1>5. Entries(<<f>> \o q) = IF InLoop(f) THEN T \cup {1} ELSE T
  BY <1>1, <1>4 DEF Entries
<1>6. 1 \notin T
  OBVIOUS
<1> HIDE DEF T
<1>7. Cardinality(T \cup {1}) = Cardinality(T) + 1
  BY <1>3, <1>6, FS_AddElement
<1> QED
  BY <1>3, <1>5, <1>7

LEMMA EntriesPopped ==
  ASSUME NEW F, NEW q \in Seq(F), q # <<>>
  PROVE  Cardinality(Entries(q))
           = Cardinality(Entries(Tail(q))) + (IF InLoop(Head(q)) THEN 1 ELSE 0)
<1>1. Tail(q) \in Seq(F) /\ Head(q) \in F /\ q = <<Head(q)>> \o Tail(q)
  OBVIOUS
<1> QED
  BY <1>1, EntriesPushed

LEMMA BalancedKept ==
  ASSUME IInv, Balanced, [Next]_vars
  PROVE  Balanced'
<1>1. calls \in Seq(Frames) /\ entered = Cardinality(Entries(calls))
  BY DEF IInv, TypeOK, Balanced, Entries
<1>2. SUFFICES entered' = Cardinality(Entries(calls'))
  BY DEF Balanced, Entries
<1>3. ASSUME NEW f \in Frames, calls' = <<f>> \o calls,
             entered' = IF InLoop(f) THEN entered + 1 ELSE entered
      PROVE  entered' = Cardinality(Entries(calls'))
  BY <1>1, <1>3, EntriesPushed, EntriesAreFinite
<1>4. ASSUME calls # <<>>, calls' = Tail(calls),
             entered' = IF InLoop(Head(calls)) THEN entered - 1 ELSE entered
      PROVE  entered' = Cardinality(Entries(calls'))
  <2>1. Tail(calls) \in Seq(Frames)
    BY <1>1, <1>4, FrameBelow
  <2>2. Cardinality(Entries(Tail(calls))) \in Nat
    BY <2>1, EntriesAreFinite
  <2> QED
    BY <1>1, <1>4, <2>2, EntriesPopped
<1>5. CASE \E s \in Source : Program(s) \/ Dispatch(s) \/ Happens(s) \/ RemoteCall(s)
  <2>1. PICK s \in Source : Program(s) \/ Dispatch(s) \/ Happens(s) \/ RemoteCall(s)
    BY <1>5
  <2>2. CASE DropSource(s)
    BY <1>3, <2>2, FrameIsFrame DEF DropSource, Frame, InLoop
  <2>3. CASE Dispatch(s)
    BY <1>3, <2>3, FrameIsFrame DEF Dispatch, Frame, InLoop
  <2>4. CASE UNCHANGED <<calls, entered>>
    BY <1>1, <2>4
  <2> QED
    BY <2>1, <2>2, <2>3, <2>4 DEF Program, Add, Update, UpdateRemote, Signal, Lend, GiveBack,
       AddTimerFromThread, DropRemote, Happens, RemoteCall
<1>6. CASE Iterate
  BY <1>3, <1>6, FrameIsFrame DEF Iterate, Frame, InLoop
<1>7. CASE TimeoutFits
  <2>1. /\ calls # <<>> /\ Tail(calls) \in Seq(Frames) /\ Frame("iterate", NoSource) \in Frames
        /\ calls' = <<Frame("iterate", NoSource)>> \o Tail(calls) /\ entered' = entered
        /\ InLoop(Head(calls)) /\ InLoop(Frame("iterate", NoSource))
    BY <1>1, <1>7, FrameBelow, FrameIsFrame DEF TimeoutFits, InLoop, Frame
  <2> QED
    BY <1>1, <2>1, EntriesPushed, EntriesPopped
<1>8. CASE TimeoutOverflows \/ CallbackReturns \/ IterateReturns \/ FreeClosure
  BY <1>4, <1>8 DEF TimeoutOverflows, CallbackReturns, IterateReturns, InsideIterate, FreeClosure, InLoop
<1>9. CASE Reply \/ Serve \/ InvokeFails \/ RemoteReturn \/ UNCHANGED vars
  BY <1>1, <1>9 DEF Reply, Serve, InvokeFails, RemoteReturn, vars
<1> QED
  BY <1>5, <1>6, <1>7, <1>8, <1>9 DEF Next, Unwind

(* enter and leave of the loop are paired, also when iterate panics and    *)
(* when callbacks iterate (Loop::iterate and its guard).                   *)
THEOREM EntersAreLeft == Spec => []Balanced
<1>1. Init => Balanced
  <2> SUFFICES ASSUME Init
               PROVE  Balanced
    OBVIOUS
  <2>1. {i \in DOMAIN calls : InLoop(calls[i])} = {} /\ entered = 0
    BY DEF Init
  <2> QED
    BY <2>1, FS_EmptySet DEF Balanced
<1>2. IInv /\ Balanced /\ [Next]_vars => Balanced'
  BY BalancedKept
<1>3. QED
  BY <1>1, <1>2, Invariant, PTL DEF Spec

=============================================================================
