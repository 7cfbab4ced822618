------------------------------ MODULE UsbNative ------------------------------
(***************************************************************************)
(* The native USB layer for Linux (native/usb/linux/NativeUSBLinux.c): the *)
(* table of enumerated devices that USBProbeDevices keeps in step with the *)
(* bus, and the handles that USBOpen allocates and USBClose frees.         *)
(*                                                                         *)
(* A device is known to the table by its location on the bus and gets an   *)
(* ID that callers open it by. Devices come and go between any two calls;  *)
(* libusb's tree of devices is a snapshot that usb_find_devices refreshes, *)
(* which only USBProbeDevices calls.                                       *)
(*                                                                         *)
(* A caller holds the pointers USBOpen gave it until it closes them. Once  *)
(* it has used one whose memory was freed the program has no further       *)
(* behaviour here.                                                         *)
(*                                                                         *)
(* Locations are numbers in the order libusb lists them. One vendor ID is  *)
(* used throughout. A probe lists at most as many devices as the table     *)
(* holds (both bounds are 127), so max_devices is left out. calloc is      *)
(* assumed to succeed, and freed memory is not given out again.            *)
(***************************************************************************)
EXTENDS Integers, Sequences, FiniteSets

CONSTANTS Locations,      \* where a device can be attached
          Products,       \* product IDs
          NoProduct,      \* nothing attached
          MAX_USB_DEVICES,
          SurpriseRemoval,\* TRUE: a device may go away while it is open, or be
                          \* exchanged for another before it is opened
          Hotplugs,       \* bound: devices attached or removed, in all
          Opens           \* bound: handles given out, in all

ASSUME LocationsAssumption == Locations \subseteq Nat /\ IsFiniteSet(Locations)
ASSUME ProductsAssumption == NoProduct \notin Products
ASSUME TableAssumption == MAX_USB_DEVICES \in Nat
ASSUME UsbBoundsAssumption == Hotplugs \in Nat /\ Opens \in Nat

VARIABLES
  attached,            \* what is on the bus
  tree,                \* libusb's snapshot of it: usb_busses
  enumerated_devices,  \* the table; NoEntry is an entry that is not valid
  device_count,
  last_ID,             \* __last_assigned_deviceID
  handles,             \* every handle allocated so far
  held,                \* the handles callers hold
  probed,              \* what the last USBProbeDevices returned
  hotplugs,
  fault                \* a handle was used after it was freed

tableVars == <<enumerated_devices, device_count, last_ID>>
busVars   == <<attached, tree, hotplugs>>
usbVars   == <<busVars, tableVars, handles, held, probed, fault>>

Slots    == 1 .. MAX_USB_DEVICES
NoHandle == 0
Entry    == [deviceID : Nat, handle : Nat, location : Locations, product : Products,
             mark : BOOLEAN]
NoEntry  == [deviceID |-> -1]
Handle   == [deviceID : Nat, freed : BOOLEAN]

UsbTypeOK ==
  /\ attached \in [Locations -> Products \cup {NoProduct}]
  /\ tree \in [Locations -> Products \cup {NoProduct}]
  /\ enumerated_devices \in [Slots -> Entry \cup {NoEntry}]
  /\ device_count \in Nat
  /\ last_ID \in Nat
  /\ handles \in Seq(Handle)
  /\ held \subseteq 1 .. Len(handles)
  /\ probed \in [product : Products \cup {NoProduct}, error : BOOLEAN, ids : SUBSET Nat]
  /\ hotplugs \in 0 .. Hotplugs
  /\ fault \in BOOLEAN

UsbInit ==
  /\ attached \in [Locations -> Products \cup {NoProduct}]
  /\ tree = [l \in Locations |-> NoProduct]
  /\ enumerated_devices = [i \in Slots |-> NoEntry]
  /\ device_count = 0
  /\ last_ID = 0
  /\ handles = << >>
  /\ held = {}
  /\ probed = [product |-> NoProduct, error |-> FALSE, ids |-> {}]
  /\ hotplugs = 0
  /\ fault = FALSE

\* How many members of S come no later than x.
Rank(S, x) == Cardinality({y \in S : y <= x})

Entries(t) == {i \in Slots : t[i] # NoEntry}
Valid == Entries(enumerated_devices)
Free  == Slots \ Valid

\* The searches stop when they have seen as many valid entries as the count
\* says there are.
Searched == {i \in Valid : Rank(Valid, i) <= device_count}

-----------------------------------------------------------------------------
(* The bus.                                                                *)

Plug(l, p) ==
  /\ hotplugs < Hotplugs
  /\ attached[l] = NoProduct
  /\ attached' = [attached EXCEPT ![l] = p]
  /\ hotplugs' = hotplugs + 1
  /\ UNCHANGED <<tree, tableVars, handles, held, probed, fault>>

InUse(l) == \E i \in Valid : /\ enumerated_devices[i].location = l
                             /\ enumerated_devices[i].handle # NoHandle

Unplug(l) ==
  /\ hotplugs < Hotplugs
  /\ attached[l] # NoProduct
  /\ SurpriseRemoval \/ ~InUse(l)
  /\ attached' = [attached EXCEPT ![l] = NoProduct]
  /\ hotplugs' = hotplugs + 1
  /\ UNCHANGED <<tree, tableVars, handles, held, probed, fault>>

-----------------------------------------------------------------------------
(* USBProbeDevices.                                                        *)

Matching(p) == {l \in Locations : attached[l] = p}

\* __lookup_device_instance_by_location compares locations only, so an entry
\* of another product counts too.
KnownLocations == {enumerated_devices[i].location : i \in Searched}

New(p) == Matching(p) \ KnownLocations

\* The matching devices reached before the table is full: the loop bails out
\* at the first new one that finds no empty slot.
Seen(p) == {l \in Matching(p) : Rank(New(p), l) <= Cardinality(Free)}

\* __add_device_instance: the k-th new device takes the k-th empty slot and
\* the k-th ID.
Added(p, i) == {l \in New(p) : Rank(New(p), l) = Rank(Free, i)}

NewEntry(p, l) ==
  [deviceID |-> last_ID + Rank(New(p), l) - 1, handle |-> NoHandle, location |-> l,
   product |-> p, mark |-> TRUE]

\* The table after the loop over the bus.
Scanned(p) ==
  LET seen == Seen(p)
  IN  [i \in Slots |->
         IF i \in Free
           THEN IF Added(p, i) = {} THEN NoEntry
                ELSE NewEntry(p, CHOOSE l \in Added(p, i) : TRUE)
           ELSE IF i \in Searched /\ enumerated_devices[i].location \in seen
                  THEN [enumerated_devices[i] EXCEPT !.mark = TRUE]
                  ELSE enumerated_devices[i]]

\* __purge_unmarked_device_instances wipes the entries of the product that
\* were not seen.
Gone(p) ==
  LET scanned == Scanned(p)
  IN  {i \in Entries(scanned) : ~scanned[i].mark /\ scanned[i].product = p}

\* The handles of wiped entries are closed and freed, whoever holds them.
FreeHandles(S) ==
  [h \in 1 .. Len(handles) |->
     IF \E i \in S : enumerated_devices[i] # NoEntry /\ enumerated_devices[i].handle = h
     THEN [handles[h] EXCEPT !.freed = TRUE] ELSE handles[h]]

\* Mutant: the marks of the survivors are not cleared.
Purged_MarksKept(p) ==
  LET scanned == Scanned(p)
      kept    == Entries(scanned) \ Gone(p)
  IN  [i \in Slots |-> IF i \in kept THEN scanned[i] ELSE NoEntry]

\* The marks of all other entries are cleared, whatever their product.
Purged(p) ==
  LET scanned == Scanned(p)
      kept    == Entries(scanned) \ Gone(p)
  IN  [i \in Slots |-> IF i \in kept THEN [scanned[i] EXCEPT !.mark = FALSE] ELSE NoEntry]

\* Mutant: only the entries of the product that was probed for are counted.
ProbeFits_CountsProduct(p) ==
  /\ Seen(p) = Matching(p)
  /\ LET purged == Purged(p)
         survivors == {i \in Entries(purged) : purged[i].product = p}
     IN  /\ enumerated_devices' = purged
         /\ device_count' = Cardinality(survivors)
         /\ probed' = [product |-> p, error |-> FALSE,
                       ids |-> {purged[i].deviceID : i \in survivors}]
  /\ last_ID' = last_ID + Cardinality(New(p))
  /\ handles' = FreeHandles(Gone(p))

\* Every matching device has an entry: the others of the product are purged,
\* and what is left of it is reported.
ProbeFits(p) ==
  /\ Seen(p) = Matching(p)
  /\ LET purged == Purged(p)
         survivors == Entries(purged)
     IN  /\ enumerated_devices' = purged
         /\ device_count' = Cardinality(survivors)
         /\ probed' = [product |-> p, error |-> FALSE,
                       ids |-> {purged[i].deviceID :
                                  i \in {j \in survivors : purged[j].product = p}}]
  /\ last_ID' = last_ID + Cardinality(New(p))
  /\ handles' = FreeHandles(Gone(p))

\* The table is full: -1, and what was marked stays marked.
ProbeFull(p) ==
  /\ Seen(p) # Matching(p)
  /\ enumerated_devices' = Scanned(p)
  /\ device_count' = device_count + Cardinality(Free)
  /\ last_ID' = last_ID + Cardinality(Free)
  /\ UNCHANGED handles
  /\ probed' = [product |-> p, error |-> TRUE, ids |-> {}]

USBProbeDevices(p) ==
  /\ tree' = attached
  /\ ProbeFits(p) \/ ProbeFull(p)
  /\ UNCHANGED <<attached, hotplugs, held, fault>>

-----------------------------------------------------------------------------
(* USBOpen, USBClose and the transfers.                                    *)

\* __lookup_device_instance_by_ID.
ByID(id) == {i \in Searched : enumerated_devices[i].deviceID = id}

\* usb_open and usb_claim_interface can only succeed on a device that is there.
Present(i) ==
  LET l == enumerated_devices[i].location
  IN  attached[l] \in IF SurpriseRemoval THEN Products ELSE {tree[l]}

\* The device is not open already, and the snapshot has it where the entry
\* says.
CanOpen(i) ==
  /\ enumerated_devices[i].handle = NoHandle
  /\ tree[enumerated_devices[i].location] = enumerated_devices[i].product
  /\ Present(i)

USBOpen(id) ==
  \E i \in ByID(id) :
    /\ CanOpen(i)
    /\ Len(handles) < Opens
    /\ handles' = Append(handles, [deviceID |-> id, freed |-> FALSE])
    /\ held' = held \cup {Len(handles) + 1}
    /\ enumerated_devices' = [enumerated_devices EXCEPT ![i].handle = Len(handles) + 1]
    /\ UNCHANGED <<busVars, device_count, last_ID, probed, fault>>

\* An unknown ID, a device that is open or gone, and any failure of usb_open
\* or usb_claim_interface return NULL.
USBOpenFails == UNCHANGED usbVars

\* The entry that refers to the handle, if there is one, is cleared.
ForgetHandle(h) ==
  [i \in Slots |-> IF i \in ByID(handles[h].deviceID)
                   THEN [enumerated_devices[i] EXCEPT !.handle = NoHandle]
                   ELSE enumerated_devices[i]]

USBClose(h) ==
  /\ h \in held
  /\ IF handles[h].freed
       THEN /\ fault' = TRUE
            /\ UNCHANGED <<handles, enumerated_devices>>
       ELSE /\ handles' = [handles EXCEPT ![h].freed = TRUE]
            /\ enumerated_devices' = ForgetHandle(h)
            /\ UNCHANGED fault
  /\ held' = held \ {h}
  /\ UNCHANGED <<busVars, device_count, last_ID, probed>>

\* USBRead, USBWrite, USBClearStall and the descriptor queries.
Transfer(h) ==
  /\ h \in held
  /\ fault' = handles[h].freed
  /\ UNCHANGED <<busVars, tableVars, handles, held, probed>>

-----------------------------------------------------------------------------
Hotplug == \E l \in Locations : Unplug(l) \/ \E p \in Products : Plug(l, p)

UsbNext ==
  /\ ~fault
  /\ \/ Hotplug
     \/ \E p \in Products : USBProbeDevices(p)
     \/ \E id \in 0 .. last_ID : USBOpen(id)
     \/ \E h \in held : USBClose(h) \/ Transfer(h)

UsbSpec == UsbInit /\ [][UsbNext]_usbVars
-----------------------------------------------------------------------------
(* Properties.                                                             *)

\* No two entries have the same ID or the same location, no ID is ahead of
\* the counter, and the count that ends the searches is exact.
EntriesDiffer ==
  /\ \A i, j \in Valid :
       i # j => /\ enumerated_devices[i].deviceID # enumerated_devices[j].deviceID
                /\ enumerated_devices[i].location # enumerated_devices[j].location
  /\ \A i \in Valid : enumerated_devices[i].deviceID < last_ID
  /\ device_count = Cardinality(Valid)

\* A handle that is allocated is the handle of the one entry whose ID it
\* carries, and an entry never refers to a handle that was freed.
HandlesTracked ==
  /\ \A i \in Valid : enumerated_devices[i].handle # NoHandle =>
       /\ enumerated_devices[i].handle \in 1 .. Len(handles)
       /\ ~handles[enumerated_devices[i].handle].freed
       /\ handles[enumerated_devices[i].handle].deviceID = enumerated_devices[i].deviceID
  /\ \A h \in 1 .. Len(handles) :
       ~handles[h].freed => /\ h \in held
                            /\ \E i \in Valid : enumerated_devices[i].handle = h

\* The table knows each device and each handle once, and no entry is hidden
\* from the searches, through probes that fail because it is full
\* (NativeUSBLinux.c 95-226).
TableConsistent == EntriesDiffer /\ HandlesTracked

\* The entries the last probe reported, and no more than is there.
Reported == {i \in Valid : /\ enumerated_devices[i].deviceID \in probed.ids
                           /\ enumerated_devices[i].product = probed.product}
ReportedPresent ==
  \A i \in Reported : tree[enumerated_devices[i].location] = probed.product

\* And no less, except what took the place of a device of another product the
\* table still knows.
PresentReported ==
  probed.product # NoProduct /\ ~probed.error =>
    \A l \in Locations :
      tree[l] = probed.product =>
        \E i \in Valid : /\ enumerated_devices[i].location = l
                         /\ i \in Reported \/ enumerated_devices[i].product # probed.product

\* A probe that succeeds reports the devices of its product that are there,
\* and none that has gone (NativeUSBLinux.c 253-350).
ReportIsExact == ReportedPresent /\ PresentReported

\* "This function attempts to discover all devices with the given product and
\* vendor IDs." (NativeUSB.h): what the comment promises, without the
\* exception.
DiscoversAll ==
  probed.product # NoProduct /\ ~probed.error =>
    \A l \in Locations :
      tree[l] = probed.product => \E i \in Reported : enumerated_devices[i].location = l
=============================================================================
