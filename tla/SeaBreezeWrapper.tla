-------------------------- MODULE SeaBreezeWrapper --------------------------
(***************************************************************************)
(* The older C API (api/SeaBreezeWrapper.cpp) on top of the native USB     *)
(* layer: an index names a device, openSpectrometer looks for the device   *)
(* of that index through a probe of each type, three probes in all for the *)
(* type it belongs to, and opens it twice; devices[] holds what is open.   *)
(*                                                                         *)
(* The wrapper takes no lock and has one caller. Between any two calls of  *)
(* the native layer the bus may change. A USB object is opened exactly     *)
(* when its descriptor is not NULL. Indexes outside of devices[] and the   *)
(* features, whose calls transfer over the descriptor of an index, are     *)
(* left out beyond that transfer, and so is initialize, which transfers    *)
(* over a handle just opened.                                              *)
(***************************************************************************)
EXTENDS UsbNative

CONSTANTS Types,                 \* the product of each device type, in the
                                 \* order of the names in DeviceFactory
          SEABREEZE_MAX_DEVICES  \* bound: the indexes called with

ASSUME WrapperTypesAssumption ==
  /\ Types \in Seq(Products)
  /\ \A i, j \in 1 .. Len(Types) : i # j => Types[i] # Types[j]
ASSUME IndexesAssumption == SEABREEZE_MAX_DEVICES \in Nat

VARIABLES
  devices,   \* index -> the device open there, or NULL
  call,      \* where openSpectrometer or shutdown is, and its locals
  dev,       \* the exemplar openSpectrometer made
  result,    \* how the last openSpectrometer ended, until the next call of
             \* it or change of the bus
  fresh,     \* the types probed since the bus changed, without an error and
             \* with no marks in the table of a probe that had failed
  steady     \* the indexes opened since all types were probed

wrapperVars == <<devices, call, dev, result, fresh, steady>>
vars == <<usbVars, wrapperVars>>

Indexes == 0 .. SEABREEZE_MAX_DEVICES - 1
Device  == [location : Nat, descriptor : Nat]
NULL    == [location |-> 0, descriptor |-> NoHandle]
Idle    == [at |-> "idle", index |-> 0, type |-> 1, found |-> 0, settled |-> FALSE]
NoResult == [index |-> 0, end |-> "none", settled |-> FALSE]
Settled == fresh = {Types[i] : i \in 1 .. Len(Types)}
Opened  == {k \in Indexes : devices[k].descriptor # NoHandle}

WrapperTypeOK ==
  /\ devices \in [Indexes -> Device]
  /\ call \in [at : {"idle", "counting", "recounting", "locating", "opening", "closing",
                     "reopening", "storing", "down"},
               index : Nat, type : 1 .. Len(Types) + 1, found : Nat, settled : BOOLEAN]
  /\ dev \in Device
  /\ result \in [index : Nat, end : {"none", "opened", "failed", "exhausted"}, settled : BOOLEAN]
  /\ fresh \subseteq Products
  /\ steady \subseteq Indexes

WrapperInit ==
  /\ UsbInit
  /\ devices = [k \in Indexes |-> NULL]
  /\ call = Idle
  /\ dev = NULL
  /\ result = NoResult
  /\ fresh = {}
  /\ steady = {}

-----------------------------------------------------------------------------
(* openSpectrometer.                                                       *)

\* Mutant: what is open under the index is closed first.
OpenSpectrometer_ClosesFirst(k) ==
  /\ call.at = "idle"
  /\ Types # << >>
  /\ IF k \in Opened THEN USBClose(devices[k].descriptor) ELSE UNCHANGED usbVars
  /\ devices' = [devices EXCEPT ![k] = NULL]
  /\ steady' = steady \ {k}
  /\ call' = [at |-> "counting", index |-> k, type |-> 1, found |-> 0, settled |-> Settled]
  /\ result' = NoResult
  /\ UNCHANGED <<dev, fresh>>

OpenSpectrometer(k) ==
  /\ call.at = "idle"
  /\ Types # << >>
  /\ call' = [at |-> "counting", index |-> k, type |-> 1, found |-> 0, settled |-> Settled]
  /\ result' = NoResult
  /\ UNCHANGED <<usbVars, devices, dev, fresh, steady>>

\* A probe that fails because the table is full leaves entries marked, and the
\* next one of their product keeps them, whether the device is there or not.
Marked == \E i \in Valid : enumerated_devices[i].mark

\* __seabreeze_deviceCount, and the probes of __seabreeze_openDevice. An error
\* of USBProbeDevices is masked: nothing is found.
Probe ==
  /\ USBProbeDevices(Types[call.type])
  /\ fresh' = IF probed'.error \/ Marked THEN fresh ELSE fresh \cup {Types[call.type]}

Found == Cardinality(probed'.ids)

Ends(how) ==
  /\ call' = Idle
  /\ dev' = NULL
  /\ result' = [index |-> call.index, end |-> how, settled |-> call.settled]

\* Mutant: the devices of the types skipped are not counted.
Skip_NotCounted == [call EXCEPT !.type = @ + 1]

\* The index does not refer to a device of this type.
Skip == [call EXCEPT !.type = @ + 1, !.found = @ + Found]

\* One turn of the loop over the device types.
Count ==
  /\ call.at = "counting"
  /\ Probe
  /\ \/ /\ Found + call.found > call.index
        /\ call' = [call EXCEPT !.at = "recounting"]
        /\ UNCHANGED <<dev, result>>
     \/ /\ Found + call.found <= call.index
        /\ IF call.type < Len(Types)
             THEN call' = Skip /\ UNCHANGED <<dev, result>>
             ELSE Ends("exhausted")
  /\ UNCHANGED <<devices, steady>>

instanceIndex == call.index - call.found

\* __seabreeze_openDevice counts again.
Recount ==
  /\ call.at = "recounting"
  /\ Probe
  /\ IF instanceIndex < Found
       THEN call' = [call EXCEPT !.at = "locating"] /\ UNCHANGED <<dev, result>>
       ELSE Ends("failed")
  /\ UNCHANGED <<devices, steady>>

\* Mutant: the first device found is taken.
Instance_First(ids) == CHOOSE f \in ids : \A g \in ids : f <= g

\* The instanceIndex-th ID found: they are listed in the order of the table.
Instance(ids) ==
  CHOOSE f \in ids :
    Rank({i \in Entries(enumerated_devices') : enumerated_devices'[i].deviceID \in ids},
         CHOOSE i \in Slots : /\ enumerated_devices'[i] # NoEntry
                              /\ enumerated_devices'[i].deviceID = f)
      = instanceIndex + 1

\* It lists the locations, and gives the one of the instance to the bus and
\* to the device.
Locate ==
  /\ call.at = "locating"
  /\ Probe
  /\ IF instanceIndex < Found
       THEN /\ call' = [call EXCEPT !.at = "opening"]
            /\ dev' = [NULL EXCEPT !.location = Instance(probed'.ids)]
            /\ UNCHANGED result
       ELSE Ends("failed")
  /\ UNCHANGED <<devices, steady>>

OpenDescriptor ==
  \/ USBOpen(dev.location) /\ dev' = [dev EXCEPT !.descriptor = Len(handles')]
  \/ USBOpenFails /\ UNCHANGED dev

\* dev->open(): the result is ignored.
DeviceOpen ==
  /\ call.at = "opening"
  /\ OpenDescriptor
  /\ call' = [call EXCEPT !.at = "closing"]
  /\ UNCHANGED <<devices, result, fresh, steady>>

CloseDescriptor(h) == IF h # NoHandle THEN USBClose(h) ELSE UNCHANGED usbVars

\* usb->open(): USB::open closes what it has open before it opens.
ReopenCloses ==
  /\ call.at = "closing"
  /\ CloseDescriptor(dev.descriptor)
  /\ dev' = [dev EXCEPT !.descriptor = NoHandle]
  /\ call' = [call EXCEPT !.at = "reopening"]
  /\ UNCHANGED <<devices, result, fresh, steady>>

\* When it fails the exemplar, which has nothing open, is deleted.
Reopen ==
  /\ call.at = "reopening"
  /\ \/ /\ USBOpen(dev.location)
        /\ dev' = [dev EXCEPT !.descriptor = Len(handles')]
        /\ call' = [call EXCEPT !.at = "storing"]
        /\ UNCHANGED result
     \/ USBOpenFails /\ Ends("failed")
  /\ UNCHANGED <<devices, fresh, steady>>

\* Mutant: what was open under the index is forgotten.
Store_KeepOld ==
  /\ call.at = "storing"
  /\ UNCHANGED usbVars
  /\ devices' = [devices EXCEPT ![call.index] = dev]
  /\ Ends("opened")
  /\ steady' = IF call.settled THEN steady \cup {call.index} ELSE steady \ {call.index}
  /\ UNCHANGED fresh

\* What was open under the index is closed once the new device is open.
Store ==
  /\ call.at = "storing"
  /\ CloseDescriptor(devices[call.index].descriptor)
  /\ devices' = [devices EXCEPT ![call.index] = dev]
  /\ Ends("opened")
  /\ steady' = IF call.settled THEN steady \cup {call.index} ELSE steady \ {call.index}
  /\ UNCHANGED fresh

-----------------------------------------------------------------------------
(* The other calls.                                                        *)

\* closeSpectrometer: an index with nothing open is refused.
CloseSpectrometer(k) ==
  /\ call.at = "idle"
  /\ k \in Opened
  /\ USBClose(devices[k].descriptor)
  /\ devices' = [devices EXCEPT ![k] = NULL]
  /\ steady' = steady \ {k}
  /\ UNCHANGED <<call, dev, result, fresh>>

\* A call of a feature.
UseSpectrometer(k) ==
  /\ call.at = "idle"
  /\ k \in Opened
  /\ Transfer(devices[k].descriptor)
  /\ UNCHANGED wrapperVars

Shutdown ==
  /\ call.at = "idle"
  /\ call' = [Idle EXCEPT !.at = "down"]
  /\ UNCHANGED <<usbVars, devices, dev, result, fresh, steady>>

\* ~SeaBreezeWrapper deletes the devices in order, and ~OOIUSBInterface
\* closes. The next call makes another instance, with nothing open.
ShutdownStep ==
  /\ call.at = "down"
  /\ IF Opened = {}
       THEN call' = Idle /\ UNCHANGED <<usbVars, devices, steady>>
       ELSE LET k == CHOOSE k \in Opened : \A j \in Opened : k <= j
            IN  /\ USBClose(devices[k].descriptor)
                /\ devices' = [devices EXCEPT ![k] = NULL]
                /\ steady' = steady \ {k}
                /\ UNCHANGED call
  /\ UNCHANGED <<dev, result, fresh>>

BusChanges ==
  /\ Hotplug
  /\ fresh' = {}
  /\ steady' = {}
  /\ call' = [call EXCEPT !.settled = FALSE]
  /\ result' = NoResult
  /\ UNCHANGED <<devices, dev>>

WrapperNext ==
  /\ ~fault
  /\ \/ BusChanges
     \/ \E k \in Indexes : OpenSpectrometer(k) \/ CloseSpectrometer(k) \/ UseSpectrometer(k)
     \/ Count \/ Recount \/ Locate \/ DeviceOpen \/ ReopenCloses \/ Reopen \/ Store
     \/ Shutdown \/ ShutdownStep

WrapperSpec == WrapperInit /\ [][WrapperNext]_vars
-----------------------------------------------------------------------------
(* Properties.                                                             *)

\* No handle leaks and none is shared: the handles held of the native layer
\* are those of devices[] and of the device being opened, each once and each
\* of the location its device was given, through the double open, failures,
\* an index opened again and shutdown.
DescriptorsOwned ==
  /\ held = ({devices[k].descriptor : k \in Indexes} \cup {dev.descriptor}) \ {NoHandle}
  /\ \A j, k \in Opened : devices[j].descriptor = devices[k].descriptor => j = k
  /\ \A k \in Opened : /\ devices[k].descriptor # dev.descriptor
                       /\ handles[devices[k].descriptor].deviceID = devices[k].location

\* The table can hold all that is attached. Devices that have gone may still
\* fill it: a probe that finds a new one then fails before it purges them, and
\* so does every later one. But once every type has been probed (Settled) it
\* holds nothing that has gone.
FitsTable == Cardinality({l \in Locations : attached[l] # NoProduct}) <= MAX_USB_DEVICES

\* The IDs of the table in the order openSpectrometer counts them.
TypeOf(i)  == CHOOSE t \in 1 .. Len(Types) : Types[t] = enumerated_devices[i].product
Before(i, j) == TypeOf(i) < TypeOf(j) \/ (TypeOf(i) = TypeOf(j) /\ i < j)
IndexOf(i) == Cardinality({j \in Valid : Before(j, i)})

\* "the index used to open a device with this function should also be used to
\* communicate with that same device" (SeaBreezeWrapper.h): on a bus that has
\* not changed since every type was probed, an index goes on naming one
\* device, also while others are closed, opened again and probed for.
IndexNamesDevice ==
  FitsTable =>
    \A k \in steady : \E i \in Valid :
      enumerated_devices[i].deviceID = devices[k].location /\ IndexOf(i) = k

\* "This can be called repeatedly with incrementing index values (until it
\* returns 1) to open all connected devices." (SeaBreezeWrapper.h): when the
\* types have run out for index k, on a bus that has not changed since every
\* type was probed, and every index below k is open, no device is left out.
SweepOpensAll ==
  /\ result.end = "exhausted" /\ result.settled /\ FitsTable
  /\ 0 .. result.index - 1 \subseteq Opened
  => \A l \in Locations :
       attached[l] \in {Types[t] : t \in 1 .. Len(Types)} =>
         \E i \in Valid : /\ enumerated_devices[i].location = l
                          /\ \E k \in Opened : enumerated_devices[i].handle = devices[k].descriptor

\* An index that is open stays on its device until it is closed or the call
\* that was to open it again has opened another one: no failed call, and no
\* call for another index, takes a device away.
OpenStays ==
  [][\A k \in Opened : devices'[k] # devices[k] =>
       \/ devices'[k] = NULL /\ call' = call
       \/ devices'[k] = dev /\ result'.end = "opened" /\ result'.index = k]_vars
=============================================================================
