--------------------------- MODULE DeviceRegistry ---------------------------
(***************************************************************************)
(* The devices the SeaBreeze API knows (api/seabreezeapi/                  *)
(* SeaBreezeAPI_Impl.cpp) on top of the native USB layer: probeDevices     *)
(* keeps one DeviceAdapter per device on the bus, openDevice and           *)
(* closeDevice pass through DeviceAdapter, Device, OOIUSBInterface and USB *)
(* to USBOpen and USBClose.                                                *)
(*                                                                         *)
(* Two threads, as SeaBreezeAPI.h advises: one for discovery, which probes *)
(* and shuts down, and a worker that uses the devices. A call gives way to *)
(* the other thread, and to a change of the bus, between two calls of the  *)
(* native layer and after it has looked its adapter up; what the code does *)
(* in between is one step. Once a thread has used an adapter that was      *)
(* deleted the program has no further behaviour here.                      *)
(*                                                                         *)
(* Devices given by a network or RS232 address are only counted: they get  *)
(* IDs from the same counter. A USB object is opened exactly when its      *)
(* descriptor is not NULL, so the descriptor stands for both.              *)
(***************************************************************************)
EXTENDS UsbNative

CONSTANTS Types,        \* the product each device type probes for, in the
                        \* order of the names in DeviceFactory
          Concurrent,   \* TRUE: the worker calls while a probe is going on
          MaxDeviceID   \* bound: no more locations are added, and the API is
                        \* not initialised again, once an ID is this large

ASSUME TypesAssumption ==
  /\ Types \in Seq(Products)
  /\ \A i, j \in 1 .. Len(Types) : i # j => Types[i] # Types[j]
ASSUME RegistryBoundsAssumption == MaxDeviceID \in Nat

VARIABLES
  probedDevices,     \* adapter ID -> adapter
  specifiedDevices,  \* the adapter IDs of the devices given by address
  lastDeviceID,      \* __deviceID
  discovery,         \* where the discovery thread is, and its validDevices
  worker,            \* the worker's call
  calm,              \* probes begun since the bus changed last, up to 2
  stale              \* an adapter was used after it was deleted

registryVars == <<probedDevices, specifiedDevices, lastDeviceID>>
vars == <<usbVars, registryVars, discovery, worker, calm, stale>>

Adapter == [location : Nat, product : Products, descriptor : Nat, openedBus : BOOLEAN]
IDs     == DOMAIN probedDevices
NoCall  == [op |-> "none", id |-> 0]

RegistryTypeOK ==
  /\ IDs \subseteq Nat /\ probedDevices \in [IDs -> Adapter]
  /\ specifiedDevices \subseteq Nat
  /\ lastDeviceID \in Nat
  /\ discovery \in [at : {"idle", "probing", "verifying", "deleting", "down"},
                    type : 1 .. Len(Types) + 1, valid : SUBSET Nat]
  /\ worker \in [op : {"none", "open", "located", "close", "transfer"}, id : Nat]
  /\ calm \in 0 .. 2
  /\ stale \in BOOLEAN

RegistryInit ==
  /\ UsbInit
  /\ probedDevices = << >>
  /\ specifiedDevices = {}
  /\ lastDeviceID = 1
  /\ discovery = [at |-> "idle", type |-> 1, valid |-> {}]
  /\ worker = NoCall
  /\ calm = 0
  /\ stale = FALSE

Without(f, x) == [y \in DOMAIN f \ {x} |-> f[y]]
First(S) == CHOOSE x \in S : \A y \in S : x <= y

-----------------------------------------------------------------------------
(* Discovery: probeDevices.                                                *)

ProbeStart ==
  /\ discovery.at = "idle"
  /\ Concurrent \/ worker = NoCall
  /\ discovery' = [at |-> IF Types = << >> THEN "verifying" ELSE "probing",
                   type |-> 1, valid |-> {}]
  /\ calm' = IF calm < 2 THEN calm + 1 ELSE 2
  /\ UNCHANGED <<usbVars, registryVars, worker, stale>>

\* The adapters whose location is among the USB IDs found.
Known(found) == {id \in IDs : probedDevices[id].location \in found}

\* Mutant: a location that is known gets another adapter.
Unknown_All(found) == found

Unknown(found) == found \ {probedDevices[id].location : id \in IDs}

\* USBProbeDevices lists the IDs in the order of the table.
SlotOf(f) == CHOOSE i \in Slots : /\ enumerated_devices'[i] # NoEntry
                                  /\ enumerated_devices'[i].deviceID = f
Position(S, f) == Rank({SlotOf(g) : g \in S}, SlotOf(f))

\* Mutant: IDs are counted from the number of adapters.
NextID_Size == Cardinality(IDs) + Cardinality(specifiedDevices) + 1

\* The last ID given out: ++__deviceID gives the next.
NextID == lastDeviceID

\* A new adapter, with the next ID, for every USB ID that is not known.
NewAdapters(S, p) ==
  [id \in NextID + 1 .. NextID + Cardinality(S) |->
     [location   |-> CHOOSE f \in S : NextID + Position(S, f) = id,
      product    |-> p,
      descriptor |-> NoHandle,
      openedBus  |-> FALSE]]

Join(f, g) == [x \in DOMAIN f \cup DOMAIN g |-> IF x \in DOMAIN f THEN f[x] ELSE g[x]]

\* Mutant: only the new adapters are noted as valid.
ValidNow_NewOnly(found, added) == discovery.valid \cup DOMAIN added

ValidNow(found, added) == discovery.valid \cup Known(found) \cup DOMAIN added

\* One turn of the loop over the device types. An error of USBProbeDevices is
\* masked: nothing is found.
ProbeType ==
  /\ discovery.at = "probing"
  /\ USBProbeDevices(Types[discovery.type])
  /\ LET found == probed'.ids
         added == NewAdapters(Unknown(found), Types[discovery.type])
     IN  /\ probedDevices' = Join(probedDevices, added)
         /\ lastDeviceID' = lastDeviceID + Cardinality(DOMAIN added)
         /\ discovery' = [at    |-> IF discovery.type = Len(Types) THEN "verifying"
                                    ELSE "probing",
                          type  |-> discovery.type + 1,
                          valid |-> ValidNow(found, added)]
  /\ UNCHANGED <<specifiedDevices, worker, calm, stale>>

\* Closing a USB object.
CloseDescriptor(h) == IF h # NoHandle THEN USBClose(h) ELSE UNCHANGED usbVars

\* ~DeviceAdapter deletes its Device, that its buses, and ~OOIUSBInterface
\* closes the USB object.
Delete(id) ==
  /\ CloseDescriptor(probedDevices[id].descriptor)
  /\ probedDevices' = Without(probedDevices, id)

\* Mutant: adapters are compared with those known rather than with those seen.
Unverified_None == {}

Unverified == IDs \ discovery.valid

\* Adapters that were not seen are deleted one by one.
Verify ==
  /\ discovery.at \in {"verifying", "deleting"}
  /\ Unverified # {}
  /\ Delete(First(Unverified))
  /\ UNCHANGED <<specifiedDevices, lastDeviceID, discovery, worker, calm, stale>>

ProbeEnds ==
  /\ discovery.at = "verifying"
  /\ Unverified = {}
  /\ discovery' = [discovery EXCEPT !.at = "idle"]
  /\ UNCHANGED <<usbVars, registryVars, worker, calm, stale>>

-----------------------------------------------------------------------------
(* Discovery: the other calls.                                             *)

\* addTCPIPv4DeviceLocation, addRS232DeviceLocation.
AddDeviceLocation ==
  /\ discovery.at = "idle"
  /\ lastDeviceID < MaxDeviceID
  /\ lastDeviceID' = lastDeviceID + 1
  /\ specifiedDevices' = specifiedDevices \cup {lastDeviceID + 1}
  /\ UNCHANGED <<usbVars, probedDevices, discovery, worker, calm, stale>>

\* sbapi_shutdown, while no other call is going on: every adapter is deleted.
Shutdown ==
  /\ discovery.at = "idle"
  /\ worker = NoCall
  /\ specifiedDevices' = {}
  /\ discovery' = [discovery EXCEPT !.at = "deleting", !.valid = {}]
  /\ calm' = 0
  /\ UNCHANGED <<usbVars, probedDevices, lastDeviceID, worker, stale>>

ShutdownEnds ==
  /\ discovery.at = "deleting"
  /\ Unverified = {}
  /\ discovery' = [discovery EXCEPT !.at = "down"]
  /\ UNCHANGED <<usbVars, registryVars, worker, calm, stale>>

\* sbapi_initialize after a shutdown. The native layer's table is static and
\* has survived it, and so has __deviceID.
Initialize ==
  /\ discovery.at = "down"
  /\ lastDeviceID < MaxDeviceID
  /\ discovery' = [discovery EXCEPT !.at = "idle"]
  /\ UNCHANGED <<usbVars, registryVars, worker, calm, stale>>

-----------------------------------------------------------------------------
(* The worker.                                                             *)

\* getDeviceByID: a call with an ID nobody has does nothing.
WorkerCalls(op, id) ==
  /\ worker = NoCall
  /\ discovery.at \in {"idle"} \cup IF Concurrent THEN {"probing", "verifying"} ELSE {}
  /\ worker' = [op |-> op, id |-> id]
  /\ UNCHANGED <<usbVars, registryVars, discovery, calm, stale>>

\* Mutant: the old USB object is forgotten without being deleted.
OpenSetLocation_KeepOld ==
  /\ worker.op = "open"
  /\ worker.id \in IDs
  /\ UNCHANGED usbVars
  /\ probedDevices' = [probedDevices EXCEPT ![worker.id].descriptor = NoHandle]
  /\ worker' = [worker EXCEPT !.op = "located"]
  /\ UNCHANGED stale

\* Device::open, first half: OOIUSBInterface::setLocation replaces the USB
\* object, and deleting the old one closes it.
OpenSetLocation ==
  /\ worker.op = "open"
  /\ worker.id \in IDs
  /\ CloseDescriptor(probedDevices[worker.id].descriptor)
  /\ probedDevices' = [probedDevices EXCEPT ![worker.id].descriptor = NoHandle]
  /\ worker' = [worker EXCEPT !.op = "located"]
  /\ UNCHANGED stale

\* The adapter once its device is open.
Opened(id, h) == [probedDevices EXCEPT ![id].descriptor = h, ![id].openedBus = TRUE]

\* Second half: USB::open. When that fails a bus opened before stays the
\* openedBus.
OpenBus ==
  /\ worker.op = "located"
  /\ worker.id \in IDs
  /\ \/ /\ USBOpen(probedDevices[worker.id].location)
        /\ probedDevices' = Opened(worker.id, Len(handles'))
     \/ USBOpenFails /\ UNCHANGED probedDevices
  /\ worker' = NoCall
  /\ UNCHANGED stale

\* Device::close.
CloseDevice ==
  /\ worker.op = "close"
  /\ worker.id \in IDs
  /\ IF probedDevices[worker.id].openedBus
       THEN /\ CloseDescriptor(probedDevices[worker.id].descriptor)
            /\ probedDevices' = [probedDevices EXCEPT ![worker.id].descriptor = NoHandle,
                                                      ![worker.id].openedBus = FALSE]
       ELSE UNCHANGED <<usbVars, probedDevices>>
  /\ worker' = NoCall
  /\ UNCHANGED stale

\* A feature reads or writes: USB::read and USB::write refuse a device that
\* is not open.
UseDevice ==
  /\ worker.op = "transfer"
  /\ worker.id \in IDs
  /\ LET h == probedDevices[worker.id].descriptor
     IN  IF h # NoHandle THEN Transfer(h) ELSE UNCHANGED usbVars
  /\ worker' = NoCall
  /\ UNCHANGED <<probedDevices, stale>>

\* The adapter the call found has been deleted since.
UseDeleted ==
  /\ worker # NoCall
  /\ worker.id \notin IDs
  /\ stale' = TRUE
  /\ worker' = NoCall
  /\ UNCHANGED <<usbVars, probedDevices>>

WorkerStep ==
  /\ OpenSetLocation \/ OpenBus \/ CloseDevice \/ UseDevice \/ UseDeleted
  /\ UNCHANGED <<specifiedDevices, lastDeviceID, discovery, calm>>

-----------------------------------------------------------------------------
BusChanges ==
  /\ Hotplug
  /\ calm' = 0
  /\ UNCHANGED <<registryVars, discovery, worker, stale>>

RegistryNext ==
  /\ ~fault /\ ~stale
  /\ \/ BusChanges
     \/ ProbeStart \/ ProbeType \/ Verify \/ ProbeEnds
     \/ AddDeviceLocation
     \/ Shutdown \/ ShutdownEnds \/ Initialize
     \/ \E op \in {"open", "close", "transfer"}, id \in IDs : WorkerCalls(op, id)
     \/ WorkerStep

RegistrySpec == RegistryInit /\ [][RegistryNext]_vars
-----------------------------------------------------------------------------
(* Properties.                                                             *)

\* closeDevice, which does nothing without an openedBus, never leaves a
\* handle behind.
OpenIsClosable ==
  \A id \in IDs : probedDevices[id].descriptor # NoHandle => probedDevices[id].openedBus

\* No handle leaks and none is shared: the handles held of the native layer
\* are exactly the descriptors of the adapters, each of one adapter only that
\* can close it, through failed and repeated opens, probes and shutdowns.
HandlesOwned ==
  /\ OpenIsClosable
  /\ held = {probedDevices[id].descriptor : id \in IDs} \ {NoHandle}
  /\ \A a, b \in IDs : probedDevices[a].descriptor = probedDevices[b].descriptor
                         => a = b \/ probedDevices[a].descriptor = NoHandle

\* "without allowing multiple Device instances to be created for a particular
\* Bus location" (the comment in probeDevices), whatever comes and goes while
\* the types are probed one after the other.
OneDevicePerLocation ==
  \A a, b \in IDs : probedDevices[a].location = probedDevices[b].location => a = b

\* An ID a caller holds never comes to mean another device: it is given out
\* once, and while its adapter lives it stays on one device of one product.
IDsKeepMeaning ==
  [][/\ \A id \in IDs \cap DOMAIN probedDevices' :
          /\ probedDevices'[id].location = probedDevices[id].location
          /\ probedDevices'[id].product = probedDevices[id].product
     /\ \A id \in DOMAIN probedDevices' \ IDs :
          id > lastDeviceID /\ id \notin specifiedDevices]_vars

\* A probe never takes away a device that is open, as long as devices are
\* not unplugged while they are.
OpenSurvivesProbe ==
  [][\A id \in IDs : probedDevices[id].descriptor # NoHandle /\ discovery.at # "deleting"
                       => id \in DOMAIN probedDevices']_vars

\* After two probes with no change of the bus since the first began, the
\* adapters are the devices on the bus, each at its place with its product.
\* One probe is not enough: a device that took the place of one of a type
\* later in the order is only seen once that one has been purged.
RegistryExact ==
  discovery.at = "idle" /\ calm = 2 =>
    /\ \A l \in Locations : attached[l] \in {Types[i] : i \in 1 .. Len(Types)} =>
         \E i \in Valid, id \in IDs :
           /\ enumerated_devices[i].location = l
           /\ probedDevices[id].location = enumerated_devices[i].deviceID
           /\ probedDevices[id].product = attached[l]
    /\ \A id \in IDs : \E i \in Valid :
         /\ enumerated_devices[i].deviceID = probedDevices[id].location
         /\ attached[enumerated_devices[i].location] = probedDevices[id].product

\* "If called repeatedly, this will always return the number of devices most
\* recently found, even if they have been found or opened previously."
\* (SeaBreezeAPI.h on sbapi_probe_devices): a probe never works on a handle
\* that was freed, also when a device that is open has been unplugged.
FreedHandleUnused == ~fault

\* "a single thread should be designated for all device discovery/get
\* actions, and separate worker threads can be used for each device
\* discovered" (SeaBreezeAPI.h): a worker's call never meets an adapter that
\* discovery has deleted under it.
DeletedAdapterUnused == ~stale
=============================================================================
