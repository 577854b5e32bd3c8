-------------------------------- MODULE Session --------------------------------
(***************************************************************************)
(* A program's session with a server: the core, the registry and proxies   *)
(* on one side, the server's objects on the other, requests and events in  *)
(* order between them.  Objects come and go, and their global ids are used *)
(* again, whatever the program does; it learns of all that from events.    *)
(*                                                                         *)
(* The server and the wire are not part of the repository: they do what    *)
(* the crate's documentation and examples expect of them.  gen, ordinal,   *)
(* told, missed and synced are there for the properties only.              *)
(***************************************************************************)
EXTENDS Interfaces, FiniteSets, SequencesExt, TLC

CONSTANTS
  Id,              \* global ids
  Proxy,           \* the proxies the program makes, each used once
  Types,           \* the types of the objects on the server
  New,            \* the types of the objects made later
  MaxCalls,        \* bound on the requests of the program
  MaxChanges       \* bound on what the server does unasked

(* The types that have a proxy of their own. *)
Kind == {"Node", "Port", "Device", "Client", "Link", "Module", "Factory", "Metadata"}

ASSUME SessionAssumption ==
  /\ MaxCalls \in Nat /\ MaxChanges \in Nat
  /\ IsFiniteSet(Id) /\ IsFiniteSet(Proxy)
  /\ "core" \notin Proxy /\ "registry" \notin Proxy
  /\ Types \subseteq Kind /\ New \subseteq Kind

VARIABLES
  (* the server *)
  object,          \* by global id: type, fields, which one it is, or None
  gens,            \* how many objects there have been
  resource,        \* by proxy: what it stands for on the server
  listed,          \* the server sends registry events
  changes,         \* what the server may still do unasked
  (* the wire *)
  requests, events,
  (* the program *)
  calls,           \* how many requests it has made
  registry,        \* the closures of its registry listener
  globals,         \* the GlobalObjects it keeps
  told,            \* the objects it was told have gone
  proxy,           \* its proxies
  pending,         \* the sync it waits for
  synced           \* the last sync it saw done

serverVars  == <<object, gens, resource, listed, changes>>
programVars == <<registry, globals, told, proxy, pending, synced>>
vars == <<serverVars, requests, events, calls, programVars>>

CoreId == 0

(* A message, or what is known of an object, with more fields. *)
With(r, s) == [f \in DOMAIN r \cup DOMAIN s |-> IF f \in DOMAIN r THEN r[f] ELSE s[f]]

(* The fields of an object that the program can follow. *)
Fields(type) == IF type = "Metadata" THEN {"key"} ELSE ChangeMask(type)

Values(type, f) ==
  CASE f = "state" -> IF type = "Node" THEN {"suspended", "error"} ELSE {"init", "error"}
    [] f = "params" -> {{1}, {2}}
    [] f = "format" -> {11, 12}
    [] f = "key" -> {Null, 1}
    [] OTHER -> {1, 2}

Initially(type, f) ==
  CASE f = "state" -> IF type = "Node" THEN "suspended" ELSE "init"
    [] f = "params" -> {1} [] f = "format" -> 11 [] OTHER -> 1

NewObject(type, gen) ==
  [type |-> type, gen |-> gen, fields |-> [f \in Fields(type) |-> Initially(type, f)]]

State == {"suspended", "init", "error"}
FieldValue == State \cup Nat \cup {Null} \cup SUBSET Nat

Object(type) == [type : {type}, gen : Nat, fields : [Fields(type) -> FieldValue]]

(* What a proxy stands for: an object, and whether it made it. *)
Resource == [id : Id, subscribed : BOOLEAN, owner : BOOLEAN]

(* A param event, as it is sent and as a closure is given it. *)
ParamEvent(values) ==
  [to : Proxy, name : {"param"}, ordinal : Nat, of : Kind, gen : Nat, seq : Nat,
   id : {"Props"}, index : {0}, next : {1}, param : values]

(* A property event, likewise. *)
PropertyEvent(values) ==
  [to : Proxy, name : {"property"}, ordinal : Nat, of : {"Metadata"}, gen : Nat,
   subject : {0}, key : {None, "key"}, type : {None}, value : values]

(* What a closure for info is given, by the type of the object. *)
InfoArgs(type) ==
  LET state == {<<s>> : s \in State} \cup {<<"error", "text">>}
      props == FieldValue \cup {None}
  IN  CASE type = "Node" ->
             [change_mask : SUBSET NodeChangeMask, input_ports : FieldValue,
              output_ports : FieldValue, state : state, props : props, params : FieldValue]
        [] type = "Port" ->
             [change_mask : SUBSET PortChangeMask, direction : {"output"}, props : props,
              params : FieldValue]
        [] type = "Device" ->
             [change_mask : SUBSET DeviceChangeMask, props : props, params : FieldValue]
        [] type = "Client" -> [change_mask : SUBSET ClientChangeMask, props : props]
        [] type = "Link" ->
             [change_mask : SUBSET LinkChangeMask, state : state, format : props, props : props]
        [] type = "Module" ->
             [change_mask : SUBSET ModuleChangeMask, name : {"text"}, filename : {"text"},
              args : {None}, props : props]
        [] type = "Factory" ->
             [change_mask : SUBSET FactoryChangeMask, type_ : {"Node"}, version : {3}, props : props]

(* None is no object and no resource.  Untold is no global id and nothing  *)
(* that a closure of a proxy is given.  Null is no value.                  *)
ASSUME NoneAssumption ==
  /\ (\A t \in Kind : None \notin Object(t)) /\ None \notin Resource
  /\ Untold \notin Id /\ Untold \notin ParamEvent(FieldValue \cup {None})
  /\ Untold \notin PropertyEvent(FieldValue \cup {None})
  /\ \A t \in Kind \ {"Metadata"} : Untold \notin InfoArgs(t)
  /\ Null \notin Nat /\ \A n \in {1, 2} : Null # {n}

NoProxy == [state |-> "unused", type |-> None, from |-> None, shows |-> None, closures |-> {},
            mirror |-> << >>, missed |-> FALSE, asked |-> {}]

Init ==
  /\ \E t \in Types : object = [i \in Id |-> IF i = 1 THEN NewObject(t, 1) ELSE None]
  /\ gens = 1
  /\ resource = [p \in Proxy |-> None]
  /\ listed = FALSE
  /\ changes = MaxChanges
  /\ requests = << >>
  /\ events = <<[to |-> "core", name |-> "info", ordinal |-> 0,
                 info |-> [name |-> "text", mask |-> {"props"}, props |-> Null]]>>
  /\ calls = 0
  /\ registry = {}
  /\ globals = [i \in Id |-> None]
  /\ told = {}
  /\ proxy = [p \in Proxy |-> NoProxy]
  /\ pending = None
  /\ synced = 0

-----------------------------------------------------------------------------
(* Requests.  A request's sequence number is its place in the order of     *)
(* calls, as far as the numbers reach: they start over long after the      *)
(* requests that had them were answered.                                   *)

NumberOf(ordinal) == FromSeq(ordinal)

InFlight == {m.ordinal : m \in ToSet(requests) \cup ToSet(events)} \ {0}

Request(rs) ==
  /\ calls + Len(rs) <= MaxCalls
  /\ \A o \in InFlight : calls + Len(rs) - o < AsyncBit
  /\ calls' = calls + Len(rs)
  /\ requests' = requests \o [i \in DOMAIN rs |-> With(rs[i], [ordinal |-> calls + i])]
  /\ UNCHANGED <<serverVars, events>>

(* Core::get_registry, and a listener of the registry before the program   *)
(* returns to its loop.                                                    *)
GetRegistry(closures) ==
  /\ ~listed /\ registry = {}
  /\ Request(<<[kind |-> "get_registry"]>>)
  /\ registry' = closures
  /\ UNCHANGED <<globals, told, proxy, pending, synced>>

(* Core::sync: the number the call returned is what done will carry. *)
CoreSync ==
  /\ Request(<<[kind |-> "sync"]>>)
  /\ pending' = [seq |-> IntoAsyncResult(NumberOf(calls + 1)), ordinal |-> calls + 1]
  /\ UNCHANGED <<registry, globals, told, proxy, synced>>

NewProxy(type, from) ==
  [NoProxy EXCEPT !.state = "live", !.type = type, !.from = from,
     !.mirror = [f \in Fields(type) |-> IF type = "Metadata" THEN None ELSE Untold]]

(* Drop of a Proxy: pw_proxy_destroy, which tells the server. *)
Dropping(p) == [kind |-> "destroy", proxy |-> p]

(* Mutant: downcast does not compare the types. *)
BindUnchecked(p, id, type) ==
  /\ proxy[p].state = "unused" /\ globals[id] # None
  /\ globals[id].type[1] \in ObjectTypes
  /\ Request(<<[kind |-> "bind", proxy |-> p, id |-> id, type |-> ToStr(globals[id].type)]>>)
  /\ proxy' = [proxy EXCEPT ![p] = NewProxy(type, globals[id].gen)]
  /\ UNCHANGED <<registry, globals, told, pending, synced>>

(* Registry::bind of a GlobalObject to a proxy of some type.  The proxy    *)
(* that the library makes has the type of the GlobalObject; if that is not *)
(* the one wanted, downcast gives WrongProxyType and the proxy is dropped. *)
Bind(p, id, type) ==
  /\ proxy[p].state = "unused" /\ globals[id] # None
  /\ globals[id].type[1] \in ObjectTypes
  /\ LET bind == [kind |-> "bind", proxy |-> p, id |-> id, type |-> ToStr(globals[id].type)]
         fits == ObjectType(type) = globals[id].type
     IN  /\ Request(IF fits THEN <<bind>> ELSE <<bind, Dropping(p)>>)
         /\ proxy' = [proxy EXCEPT ![p] = IF fits THEN NewProxy(type, globals[id].gen)
                                          ELSE [NoProxy EXCEPT !.state = "gone"]]
  /\ UNCHANGED <<registry, globals, told, pending, synced>>

(* Core::create_object. *)
CreateObject(p, type) ==
  /\ proxy[p].state = "unused"
  /\ Request(<<[kind |-> "create", proxy |-> p, type |-> type]>>)
  /\ proxy' = [proxy EXCEPT ![p] = NewProxy(type, None)]
  /\ UNCHANGED <<registry, globals, told, pending, synced>>

(* Core::destroy_object: the native destroy, then the Drop of the proxy,   *)
(* which was moved into the call, destroys it again.                       *)
DestroyObject(p) ==
  /\ proxy[p].state = "live"
  /\ Request(<<[kind |-> "destroy", proxy |-> p], Dropping(p)>>)
  /\ proxy' = [proxy EXCEPT ![p] = [NoProxy EXCEPT !.state = "gone"]]
  /\ UNCHANGED <<registry, globals, told, pending, synced>>

DropProxy(p) ==
  /\ proxy[p].state = "live"
  /\ Request(<<Dropping(p)>>)
  /\ proxy' = [proxy EXCEPT ![p] = [NoProxy EXCEPT !.state = "gone"]]
  /\ UNCHANGED <<registry, globals, told, pending, synced>>

(* Registry::destroy_global. *)
DestroyGlobal(id) ==
  /\ globals[id] # None
  /\ Request(<<[kind |-> "destroy_global", id |-> id]>>)
  /\ UNCHANGED programVars

(* Listeners of a typed proxy and of its Proxy; no message. *)
Listen(p, closures) ==
  /\ proxy[p].state = "live" /\ proxy[p].closures = {}
  /\ proxy' = [proxy EXCEPT ![p].closures = closures]
  /\ UNCHANGED <<serverVars, requests, events, calls, registry, globals, told, pending, synced>>

(* Drop of the listeners: the program stops following the object. *)
Unlisten(p) ==
  /\ proxy[p].state = "live" /\ proxy[p].closures # {}
  /\ proxy' = [proxy EXCEPT ![p] = [NewProxy(@.type, @.from) EXCEPT !.missed = TRUE]]
  /\ UNCHANGED <<serverVars, requests, events, calls, registry, globals, told, pending, synced>>

(* The methods of the typed proxies.  A program enumerates with a number   *)
(* of its own and keeps it until the answer comes.                         *)
Method(p, name, arg) ==
  /\ proxy[p].state = "live" /\ name \in DOMAIN Interface(proxy[p].type).methods
  /\ LET call == [kind |-> "method", proxy |-> p, slot |-> Interface(proxy[p].type).methods[name]]
     IN  Request(<<With(call, IF name = "enum_params" THEN [seq |-> calls + 1, id |-> EnumId(arg)]
                                ELSE [value |-> arg])>>)
  /\ proxy' = IF name = "enum_params" /\ "param" \in proxy[p].closures
              THEN [proxy EXCEPT ![p].asked = @ \cup {calls + 1}] ELSE proxy
  /\ UNCHANGED <<registry, globals, told, pending, synced>>

-----------------------------------------------------------------------------
(* The server: events to those who are bound. *)

Bound(id) == {p \in Proxy : resource[p] # None /\ resource[p].id = id}

RawInfo(o, mask) ==
  LET F(f)       == IF f \in DOMAIN o.fields THEN o.fields[f] ELSE Null
      Pointer(f) == IF f \in mask THEN F(f) ELSE Null
  IN  [mask |-> mask, n_input_ports |-> F("input_ports"), n_output_ports |-> F("output_ports"),
       state |-> F("state"), error |-> IF F("state") = "error" THEN "text" ELSE Null,
       props |-> Pointer("props"), params |-> Pointer("params"), format |-> Pointer("format"),
       direction |-> "output", name |-> "text", args |-> Null, type |-> "Node", version |-> 3]

Event(to, name, ordinal) == [to |-> to, name |-> name, ordinal |-> ordinal]

ToProxy(p, o, name, ordinal) ==
  With(Event(p, name, ordinal), [of |-> o.type, gen |-> o.gen])

Property(p, o, key, ordinal) ==
  With(ToProxy(p, o, "property", ordinal),
       [subject |-> 0, key |-> key, type |-> Null, value |-> o.fields["key"]])

(* What the change of some fields says. *)
Change(p, o, mask, ordinal) ==
  IF o.type = "Metadata" THEN Property(p, o, "key", ordinal)
  ELSE With(ToProxy(p, o, "info", ordinal), [info |-> RawInfo(o, mask)])

(* A new proxy learns what there is. *)
First(p, o, ordinal) ==
  IF o.type = "Metadata" /\ o.fields["key"] = Null THEN << >>
  ELSE <<Change(p, o, Fields(o.type), ordinal)>>

Param(p, o, seq, ordinal) ==
  With(ToProxy(p, o, "param", ordinal),
       [seq |-> seq, id |-> "Props", index |-> 0, next |-> 1, param |-> o.fields["params"]])

Global(id, o, ordinal) ==
  With(Event("registry", "global", ordinal),
       [id |-> id, permissions |-> {"R", "W", "X"}, type |-> o.type, props |-> Null, gen |-> o.gen])

Error(on, ordinal) ==
  With(Event("core", "error", ordinal), [id |-> on, seq |-> 0, res |-> -2, message |-> "text"])

Emit(evs) == events' = events \o evs

Each(ps, Ev(_)) == [i \in 1 .. Cardinality(ps) |-> Ev(SetToSeq(ps)[i])]

Announce(id, o, ordinal) == IF listed THEN <<Global(id, o, ordinal)>> ELSE << >>

(* An object goes: whoever was bound is told, and the registry's listener. *)
Gone(id, ordinal) ==
  LET o == object[id]
      Removed(p) == Event(p, "removed", ordinal)
  IN  /\ object' = [object EXCEPT ![id] = None]
      /\ resource' = [p \in Proxy |-> IF p \in Bound(id) THEN None ELSE resource[p]]
      /\ Emit(Each(Bound(id), Removed)
               \o (IF listed THEN <<With(Event("registry", "global_remove", ordinal),
                                          [id |-> id, gen |-> o.gen])>> ELSE << >>))

(* A field of an object gets a value. *)
Set(id, f, v, ordinal) ==
  LET o == [object[id] EXCEPT !.fields[f] = v]
      Changed(p) == Change(p, o, {f}, ordinal)
      Params(p)  == Param(p, o, 0, ordinal)
      Subscribed == {p \in Bound(id) : f = "params" /\ resource[p].subscribed}
  IN  /\ object' = [object EXCEPT ![id] = o]
      /\ Emit(Each(Bound(id), Changed) \o Each(Subscribed, Params))

(* Handling of one request. *)
Handles(kind) ==
  /\ requests # << >> /\ Head(requests).kind = kind
  /\ requests' = Tail(requests)
  /\ UNCHANGED <<changes, calls, programVars>>

req == Head(requests)

HandleGetRegistry ==
  /\ Handles("get_registry")
  /\ listed' = TRUE
  /\ LET Listed(i) == Global(i, object[i], req.ordinal)
     IN  Emit(Each({i \in Id : object[i] # None}, Listed))
  /\ UNCHANGED <<object, gens, resource>>

HandleSync ==
  /\ Handles("sync")
  /\ Emit(<<With(Event("core", "done", req.ordinal), [id |-> CoreId, seq |-> NumberOf(req.ordinal)])>>)
  /\ UNCHANGED <<object, gens, resource, listed>>

(* A proxy that stands for nothing is removed, after an error. *)
Refuse(p) ==
  /\ Emit(<<Error(p, req.ordinal), Event(p, "removed", req.ordinal)>>)
  /\ UNCHANGED <<object, gens, resource>>

HandleBind ==
  /\ Handles("bind") /\ UNCHANGED listed
  /\ LET o == object[req.id] IN
     IF o # None /\ ToStr(ObjectType(o.type)) = req.type
     THEN /\ resource' = [resource EXCEPT ![req.proxy] =
                            [id |-> req.id, subscribed |-> FALSE, owner |-> FALSE]]
          /\ Emit(<<Event(req.proxy, "bound", req.ordinal)>> \o First(req.proxy, o, req.ordinal))
          /\ UNCHANGED <<object, gens>>
     ELSE Refuse(req.proxy)

HandleCreate ==
  /\ Handles("create") /\ UNCHANGED listed
  /\ IF \A i \in Id : object[i] # None THEN Refuse(req.proxy)
     ELSE LET i == CHOOSE j \in Id : object[j] = None
              o == NewObject(req.type, gens + 1)
          IN  /\ object' = [object EXCEPT ![i] = o]
              /\ gens' = gens + 1
              /\ resource' = [resource EXCEPT ![req.proxy] =
                                [id |-> i, subscribed |-> FALSE, owner |-> TRUE]]
              /\ Emit(Announce(i, o, req.ordinal) \o <<Event(req.proxy, "bound", req.ordinal)>>
                       \o First(req.proxy, o, req.ordinal))

(* An object made by create_object goes with the proxy that made it. *)
HandleDestroy ==
  /\ Handles("destroy") /\ UNCHANGED <<gens, listed>>
  /\ LET r == resource[req.proxy] IN
     IF r = None THEN UNCHANGED <<object, resource, events>>
     ELSE IF r.owner THEN Gone(r.id, req.ordinal)
     ELSE /\ resource' = [resource EXCEPT ![req.proxy] = None]
          /\ UNCHANGED <<object, events>>

HandleDestroyGlobal ==
  /\ Handles("destroy_global") /\ UNCHANGED <<gens, listed>>
  /\ IF object[req.id] # None THEN Gone(req.id, req.ordinal)
     ELSE /\ Emit(<<Error("registry", req.ordinal)>>)
          /\ UNCHANGED <<object, resource>>

(* A method: the server looks its slot up in the table of what the proxy   *)
(* stands for.                                                             *)
HandleMethod ==
  /\ Handles("method") /\ UNCHANGED <<gens, listed>>
  /\ LET r == resource[req.proxy] IN
     IF r = None THEN Emit(<<Error(req.proxy, req.ordinal)>>) /\ UNCHANGED <<object, resource>>
     ELSE LET o    == object[r.id]
              name == TableOf(o.type)[req.slot]
              Here == ToProxy(req.proxy, o, "permissions", req.ordinal)
          IN  CASE name = "subscribe_params" ->
                     /\ resource' = [resource EXCEPT ![req.proxy].subscribed = TRUE]
                     /\ Emit(<<Param(req.proxy, o, 0, req.ordinal)>>)
                     /\ UNCHANGED object
                [] name = "enum_params" ->
                     /\ Emit(IF req.id \in {IdAny, "Props"}
                             THEN <<Param(req.proxy, o, req.seq, req.ordinal)>> ELSE << >>)
                     /\ UNCHANGED <<object, resource>>
                [] name = "get_permissions" ->
                     /\ Emit(<<With(Here, [index |-> 0, permissions |-> << >>])>>)
                     /\ UNCHANGED <<object, resource>>
                [] name \in {"set_param", "send_command", "update_properties", "set_property"} ->
                     /\ Set(r.id, CASE name = "set_param" -> "params"
                                    [] name = "send_command" -> "state"
                                    [] name = "update_properties" -> "props"
                                    [] name = "set_property" -> "key", req.value, req.ordinal)
                     /\ UNCHANGED resource
                [] name = "clear" ->
                     LET c == [o EXCEPT !.fields["key"] = Null]
                         Cleared(p) == Property(p, c, Null, req.ordinal)
                     IN  /\ object' = [object EXCEPT ![r.id] = c]
                         /\ Emit(Each(Bound(r.id), Cleared))
                         /\ UNCHANGED resource
                [] OTHER -> UNCHANGED <<object, resource, events>>

(* What the server does unasked. *)
Unasked == changes > 0 /\ changes' = changes - 1 /\ UNCHANGED <<listed, requests, calls, programVars>>

Appears(id, type) ==
  /\ Unasked /\ object[id] = None
  /\ object' = [object EXCEPT ![id] = NewObject(type, gens + 1)]
  /\ gens' = gens + 1
  /\ Emit(Announce(id, NewObject(type, gens + 1), 0))
  /\ UNCHANGED resource

Vanishes(id) == Unasked /\ object[id] # None /\ Gone(id, 0) /\ UNCHANGED gens

Changes(id, f, v) ==
  /\ Unasked /\ object[id] # None /\ f \in Fields(object[id].type)
  /\ v \in Values(object[id].type, f) \ {object[id].fields[f]}
  /\ Set(id, f, v, 0)
  /\ UNCHANGED <<gens, resource>>

-----------------------------------------------------------------------------
(* The loop delivers the next event. *)

ev == Head(events)

Delivers(to) ==
  /\ events # << >> /\ to
  /\ events' = Tail(events)
  /\ UNCHANGED <<serverVars, requests, calls>>

(* The program takes its sync for done as the examples do: done of the     *)
(* core with the number that sync returned.  Its core listener has all     *)
(* closures.                                                               *)
DeliverCore ==
  /\ Delivers(ev.to = "core")
  /\ LET told_ == CoreListener(CoreCallbacks, ev) IN
     IF ev.name = "done" /\ pending # None /\ told_.id = CoreId /\ told_.seq = pending.seq
     THEN synced' = pending.ordinal /\ pending' = None
     ELSE UNCHANGED <<synced, pending>>
  /\ proxy' = IF ev.name = "error" /\ ev.id \in Proxy
              THEN [proxy EXCEPT ![ev.id].asked = {}] ELSE proxy
  /\ UNCHANGED <<registry, globals, told>>

DeliverRegistry ==
  /\ Delivers(ev.to = "registry")
  /\ LET args == RegistryListener(registry, ev) IN
     IF args = Untold THEN UNCHANGED <<globals, told>>
     ELSE IF ev.name = "global"
     THEN globals' = [globals EXCEPT ![ev.id] = With(args, [gen |-> ev.gen])] /\ UNCHANGED told
     ELSE globals' = [globals EXCEPT ![args] = None] /\ told' = told \cup {ev.gen}
  /\ UNCHANGED <<registry, proxy, pending, synced>>

(* What the program keeps of an object: of an info, the fields its change  *)
(* mask names; of metadata, what property says, a missing key being all of *)
(* them.                                                                   *)
Kept(q, args) ==
  CASE ev.name = "info" ->
         [q EXCEPT !.mirror = [f \in DOMAIN @ |-> IF f \in args.change_mask THEN args[f] ELSE @[f]],
                   !.shows = ev.gen]
    [] ev.name = "property" ->
         [q EXCEPT !.mirror = [f \in DOMAIN @ |-> IF args.key \in {None, f} THEN args.value ELSE @[f]],
                   !.shows = ev.gen]
    [] ev.name = "param" -> [q EXCEPT !.asked = @ \ {args.seq}, !.shows = ev.gen]
    [] OTHER -> q

(* An event for a proxy; the library drops those for one that is gone.     *)
DeliverProxy ==
  /\ Delivers(ev.to \in Proxy)
  /\ LET q    == proxy[ev.to]
         args == IF ev.name \in ProxyCallbacks THEN ProxyListener(q.closures, ev)
                 ELSE Listener(q.type, q.closures, ev)
     IN  proxy' = IF q.state = "gone" THEN proxy
                  ELSE [proxy EXCEPT ![ev.to] =
                          IF args = Untold THEN [q EXCEPT !.missed = @ \/ ev.name \in {"info", "property"}]
                          ELSE Kept(q, args)]
  /\ UNCHANGED <<registry, globals, told, pending, synced>>

-----------------------------------------------------------------------------
(* The type asked for is that of the object, or some other. *)
Wanted(id) ==
  LET t     == ToStr(globals[id].type)
      other == Types \ {t}
  IN  {t} \cup (IF other = {} THEN {} ELSE {CHOOSE v \in other : TRUE})

Handlers(type) == Interface(type).callbacks \cup ProxyCallbacks

(* What the program gives a method. *)
Arg(name) ==
  CASE name = "enum_params" -> {None, "Props"}
    [] name = "set_param" -> {{2}} [] name = "send_command" -> {"suspended", "error"}
    [] name = "set_property" -> {1, Null} [] OTHER -> {2}

Program ==
  \/ \E c \in (SUBSET RegistryCallbacks) \ {{}} : GetRegistry(c)
  \/ CoreSync
  \/ \E p \in Proxy :
       \/ \E id \in Id : globals[id] # None /\ \E t \in Wanted(id) : Bind(p, id, t)
       \/ \E t \in New : CreateObject(p, t)
       \/ DestroyObject(p) \/ DropProxy(p) \/ Unlisten(p)
       \/ /\ proxy[p].state = "live"
          /\ Listen(p, Handlers(proxy[p].type))
       \/ /\ proxy[p].state = "live"
          /\ \E m \in DOMAIN Interface(proxy[p].type).methods :
               \E a \in Arg(m) : Method(p, m, a)
  \/ \E id \in Id : DestroyGlobal(id)

Server ==
  \/ HandleGetRegistry \/ HandleSync \/ HandleBind \/ HandleCreate
  \/ HandleDestroy \/ HandleDestroyGlobal \/ HandleMethod
  \/ \E id \in Id :
       \/ \E t \in New : Appears(id, t)
       \/ Vanishes(id)
       \/ object[id] # None /\ \E f \in Fields(object[id].type) :
            \E v \in Values(object[id].type, f) : Changes(id, f, v)

Loop == DeliverCore \/ DeliverRegistry \/ DeliverProxy

Next == Program \/ Server \/ Loop
Spec == Init /\ [][Next]_vars


-----------------------------------------------------------------------------
(* sync is the barrier its documentation says it is: when the program sees *)
(* the done of a sync, every request it made before is handled and every   *)
(* event those caused is delivered, although numbers are used again and an *)
(* older done may be on its way.                                           *)
BarrierHolds == \A o \in InFlight : o > synced

(* A global id may be used again between the event a program knows it from *)
(* and the bind that names it.  A proxy may then show another object than  *)
(* was announced, but only after the registry's listener was told that the *)
(* announced one has gone.                                                 *)
StaleBindIsTold ==
  "global_remove" \in registry =>
    \A p \in Proxy :
      proxy[p].from # None /\ proxy[p].shows \notin {None, proxy[p].from}
        => proxy[p].from \in told

(* A typed proxy is only ever sent events of its own interface: what its   *)
(* listener makes of the raw arguments is what they are.                   *)
EventsFitTheProxy ==
  \A e \in ToSet(events) :
    e.to \in Proxy /\ e.name \notin ProxyCallbacks /\ proxy[e.to].state = "live"
      => e.of = proxy[e.to].type

Quiet == requests = << >> /\ events = << >>

(* A field as a program sees it. *)
Shown(o, f) ==
  LET v == o.fields[f]
  IN  CASE f = "state" -> IF v = "error" THEN <<v, "text">> ELSE <<v>>
        [] f = "key" -> OrNone(v)
        [] OTHER -> v

Follows(p) == proxy[p].state = "live" /\ proxy[p].closures \cap {"info", "property"} # {} /\ resource[p] # None

(* With nothing under way, what a program put together from the events of  *)
(* a proxy is the object: every field, if its listener was there in time,  *)
(* and in any case no field is out of date.                                *)
MirrorsAgree ==
  Quiet => \A p \in Proxy : Follows(p) =>
    LET q == proxy[p]
        o == object[resource[p].id]
    IN  \A f \in Fields(q.type) :
          \/ q.mirror[f] = Shown(o, f)
          \/ q.missed /\ (q.type = "Metadata" \/ q.mirror[f] = Untold)

(* With nothing under way, no sync is waited for, and every enumeration a  *)
(* program asked of an object that still is has been answered.             *)
CallsAreAnswered ==
  Quiet =>
    /\ pending = None
    /\ \A p \in Proxy : Follows(p) => proxy[p].asked = {}

=============================================================================
