------------------------------ MODULE Interfaces ------------------------------
(***************************************************************************)
(* The interfaces of the server's objects as the program sees them: which  *)
(* slot of which method table a call goes to, which closures a listener    *)
(* can have, what a closure is called with for a raw event, and what the   *)
(* accessors of an info make of the library's record.                      *)
(*                                                                         *)
(* A raw event has a name (the slot of the event table) and arguments.  A  *)
(* raw info has a change mask (the names of its bits) and fields, of which *)
(* pointers may be Null.  A text is "text", or "garbled" if it is not UTF-8. *)
(***************************************************************************)
EXTENDS SpaResults, Sequences

CONSTANTS Null, None, Untold, Crash

(* The library's method tables, from the C headers. *)
NodeTable     == <<"add_listener", "subscribe_params", "enum_params", "set_param", "send_command">>
PortTable     == <<"add_listener", "subscribe_params", "enum_params">>
DeviceTable   == <<"add_listener", "subscribe_params", "enum_params", "set_param">>
ClientTable   == <<"add_listener", "error", "update_properties", "get_permissions", "update_permissions">>
MetadataTable == <<"add_listener", "set_property", "clear">>
PlainTable    == <<"add_listener">>

TableOf(type) ==
  CASE type = "Node" -> NodeTable [] type = "Port" -> PortTable
    [] type = "Device" -> DeviceTable [] type = "Client" -> ClientTable
    [] type = "Metadata" -> MetadataTable [] OTHER -> PlainTable

(* spa_interface_call_method!: the slot a name has in the table of the     *)
(* type the macro was given.                                               *)
Slot(table, name) == CHOOSE i \in DOMAIN table : table[i] = name

OrNone(pointer) == IF pointer = Null THEN None ELSE pointer

(* to_str().unwrap(). *)
Text(s) == IF s = "garbled" THEN Crash ELSE s

(* from_bits(..).expect(..): a bit that is not declared panics. *)
Declared(mask, bits) == IF mask \subseteq bits THEN mask ELSE Crash

(* A closure is called when its slot of the event table was set, which it  *)
(* is when the builder was given that closure.                             *)
Told(closures, event, args) == IF event.name \in closures THEN args ELSE Untold

-----------------------------------------------------------------------------
(* param events, and the two methods that ask for them. *)

ParamArgs(event) == [event EXCEPT !.param = OrNone(@)]

IdAny == "any"

(* Mutant: no id is sent as the first one. *)
EnumIdFirst(id) == IF id = None THEN "Invalid" ELSE id

EnumId(id) == IF id = None THEN IdAny ELSE id

(* params: an empty slice for a null pointer. *)
ParamsOf(info) == IF info.params = Null THEN {} ELSE info.params

(* node.rs *)
Node == [type      |-> "Node",
         methods   |-> [m \in {"subscribe_params", "enum_params", "set_param", "send_command"}
                          |-> Slot(NodeTable, m)],
         callbacks |-> {"info", "param"}]

NodeChangeMask == {"input_ports", "output_ports", "state", "props", "params"}

(* The error text is read only in the error state; a state that is not     *)
(* known panics.                                                           *)
NodeState(info) ==
  CASE info.state = "error" -> <<"error", Text(info.error)>>
    [] info.state \in {"creating", "suspended", "idle", "running"} -> <<info.state>>
    [] OTHER -> Crash

NodeInfoRef(info) ==
  [change_mask |-> info.mask,
   input_ports |-> info.n_input_ports, output_ports |-> info.n_output_ports,
   state |-> NodeState(info), props |-> OrNone(info.props), params |-> ParamsOf(info)]

NodeListener(closures, event) ==
  IF event.name = "info" THEN Told(closures, event, NodeInfoRef(event.info))
  ELSE Told(closures, event, ParamArgs(event))

(* port.rs; enum_params goes through the node's table. *)
Port == [type      |-> "Port",
         methods   |-> [subscribe_params |-> Slot(PortTable, "subscribe_params"),
                        enum_params      |-> Slot(NodeTable, "enum_params")],
         callbacks |-> {"info", "param"}]

PortChangeMask == {"props", "params"}

PortInfoRef(info) ==
  [change_mask |-> info.mask, direction |-> info.direction,
   props |-> OrNone(info.props), params |-> ParamsOf(info)]

PortListener(closures, event) ==
  IF event.name = "info" THEN Told(closures, event, PortInfoRef(event.info))
  ELSE Told(closures, event, ParamArgs(event))

(* device.rs *)
Device == [type      |-> "Device",
           methods   |-> [m \in {"subscribe_params", "enum_params", "set_param"} |-> Slot(DeviceTable, m)],
           callbacks |-> {"info", "param"}]

DeviceChangeMask == {"props", "params"}

DeviceInfoRef(info) ==
  [change_mask |-> Declared(info.mask, DeviceChangeMask),
   props |-> OrNone(info.props), params |-> ParamsOf(info)]

DeviceListener(closures, event) ==
  IF event.name = "info" THEN Told(closures, event, DeviceInfoRef(event.info))
  ELSE Told(closures, event, ParamArgs(event))

-----------------------------------------------------------------------------
(* client.rs *)
Client == [type      |-> "Client",
           methods   |-> [m \in {"error", "update_properties", "get_permissions", "update_permissions"}
                            |-> Slot(ClientTable, m)],
           callbacks |-> {"info", "permissions"}]

ClientChangeMask == {"props"}

ClientInfoRef(info) ==
  [change_mask |-> Declared(info.mask, ClientChangeMask), props |-> OrNone(info.props)]

ClientListener(closures, event) ==
  IF event.name = "info" THEN Told(closures, event, ClientInfoRef(event.info))
  ELSE Told(closures, event, event)

(* link.rs *)
Link == [type |-> "Link", methods |-> << >>, callbacks |-> {"info"}]

LinkChangeMask == {"state", "format", "props"}

LinkState(info) ==
  CASE info.state = "error" -> <<"error", Text(info.error)>>
    [] info.state \in {"unlinked", "init", "negotiating", "allocating", "paused", "active"} -> <<info.state>>
    [] OTHER -> Crash

(* Mutant: the accessor reads the neighbouring pointer. *)
LinkInfoNeighbour(info) ==
  [change_mask |-> info.mask, state |-> LinkState(info),
   format |-> OrNone(info.props), props |-> OrNone(info.props)]

LinkInfoRef(info) ==
  [change_mask |-> info.mask, state |-> LinkState(info),
   format |-> OrNone(info.format), props |-> OrNone(info.props)]

LinkListener(closures, event) == Told(closures, event, LinkInfoRef(event.info))

(* module.rs; filename() reads the name. *)
Module == [type |-> "Module", methods |-> << >>, callbacks |-> {"info"}]

ModuleChangeMask == {"props"}

ModuleInfoRef(info) ==
  [change_mask |-> Declared(info.mask, ModuleChangeMask),
   name |-> Text(info.name), filename |-> Text(info.name),
   args |-> IF info.args = Null THEN None ELSE Text(info.args), props |-> OrNone(info.props)]

ModuleListener(closures, event) == Told(closures, event, ModuleInfoRef(event.info))

(* factory.rs *)
Factory == [type |-> "Factory", methods |-> << >>, callbacks |-> {"info"}]

FactoryChangeMask == {"props"}

FactoryInfoRef(info) ==
  [change_mask |-> Declared(info.mask, FactoryChangeMask),
   type_ |-> Text(info.type), version |-> info.version, props |-> OrNone(info.props)]

FactoryListener(closures, event) == Told(closures, event, FactoryInfoRef(event.info))

(* metadata.rs; a text that is not UTF-8 is mended, not refused. *)
Metadata == [type      |-> "Metadata",
             methods   |-> [m \in {"set_property", "clear"} |-> Slot(MetadataTable, m)],
             callbacks |-> {"property"}]

MetadataListener(closures, event) ==
  Told(closures, event,
       [event EXCEPT !.key = OrNone(@), !.type = OrNone(@), !.value = OrNone(@)])

-----------------------------------------------------------------------------
Interface(type) ==
  CASE type = "Node" -> Node [] type = "Port" -> Port [] type = "Device" -> Device
    [] type = "Client" -> Client [] type = "Link" -> Link [] type = "Module" -> Module
    [] type = "Factory" -> Factory [] type = "Metadata" -> Metadata

ChangeMask(type) ==
  CASE type = "Node" -> NodeChangeMask [] type = "Port" -> PortChangeMask
    [] type = "Device" -> DeviceChangeMask [] type = "Client" -> ClientChangeMask
    [] type = "Link" -> LinkChangeMask [] type = "Module" -> ModuleChangeMask
    [] type = "Factory" -> FactoryChangeMask [] type = "Metadata" -> {}

(* What a listener of a typed proxy makes of an event for that proxy.      *)
Listener(type, closures, event) ==
  CASE type = "Node" -> NodeListener(closures, event)
    [] type = "Port" -> PortListener(closures, event)
    [] type = "Device" -> DeviceListener(closures, event)
    [] type = "Client" -> ClientListener(closures, event)
    [] type = "Link" -> LinkListener(closures, event)
    [] type = "Module" -> ModuleListener(closures, event)
    [] type = "Factory" -> FactoryListener(closures, event)
    [] type = "Metadata" -> MetadataListener(closures, event)

(* proxy.rs: events of any proxy. *)
ProxyCallbacks == {"destroy", "bound", "removed", "done", "error"}

ProxyListener(closures, event) ==
  IF event.name = "error" THEN Told(closures, event, [event EXCEPT !.message = Text(@)])
  ELSE Told(closures, event, event)

(* types.rs: an interface that is not among these is kept by its name.     *)
ObjectTypes == {"Client", "ClientEndpoint", "ClientNode", "ClientSession", "Core", "Device",
                "Endpoint", "EndpointLink", "EndpointStream", "Factory", "Link", "Metadata",
                "Module", "Node", "Port", "Profiler", "Registry", "Session"}

ObjectType(name) == IF name \in ObjectTypes THEN <<name>> ELSE <<"Other", name>>
ToStr(type)      == type[Len(type)]

CoreCallbacks     == {"info", "done", "error"}
RegistryCallbacks == {"global", "global_remove"}

(* registry/mod.rs: GlobalObject::new. *)
GlobalObject(event) ==
  [id |-> event.id, permissions |-> event.permissions, type |-> ObjectType(event.type),
   props |-> OrNone(event.props)]

(* Mutant: global_remove is told only to listeners without global. *)
RegistryListenerElse(closures, event) ==
  IF event.name = "global" THEN Told(closures, event, GlobalObject(event))
  ELSE IF "global" \in closures THEN Untold ELSE Told(closures, event, event.id)

RegistryListener(closures, event) ==
  IF event.name = "global" THEN Told(closures, event, GlobalObject(event))
  ELSE Told(closures, event, event.id)

(* core/mod.rs: a message may be missing, and is mended. *)
CoreListener(closures, event) ==
  CASE event.name = "done"  -> Told(closures, event, [id |-> event.id, seq |-> FromRaw(event.seq)])
    [] event.name = "error" ->
         Told(closures, event, [event EXCEPT !.message = IF @ = Null THEN "" ELSE @])
    [] event.name = "info"  ->
         Told(closures, event,
              [name |-> Text(event.info.name), change_mask |-> event.info.mask,
               props |-> OrNone(event.info.props)])

=============================================================================
