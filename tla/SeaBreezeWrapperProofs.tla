----------------------- MODULE SeaBreezeWrapperProofs -----------------------
(***************************************************************************)
(* Proofs about SeaBreezeWrapper, for any bus, any device types and any    *)
(* number of indexes: the wrapper uses the native layer as its             *)
(* specification allows, so the table stays consistent, no handle leaks    *)
(* through the double open, and an index stays on its device. On a bus     *)
(* that does not change an index names one device, and a sweep over the    *)
(* indexes leaves none out.                                                *)
(*                                                                         *)
(* The invariant adds to these properties where the exemplar of            *)
(* openSpectrometer has a handle: from the first open to the close before  *)
(* the second, and from the second until it is stored. For what an index   *)
(* means it adds what the call in progress has counted (CallPlaced) and    *)
(* that a device counted keeps its place (Names).                          *)
(***************************************************************************)
EXTENDS SeaBreezeWrapper, UsbNativeProofs, FunctionTheorems

Probing == {"counting", "recounting", "locating"}

\* The exemplar has a handle, that of its location, only where
\* openSpectrometer is about to close it or to store it; the counts do not
\* pass the index.
Control ==
  /\ call.at \notin {"closing", "storing"} => dev.descriptor = NoHandle
  /\ call.at = "storing" => dev.descriptor # NoHandle
  /\ dev.descriptor # NoHandle => handles[dev.descriptor].deviceID = dev.location
  /\ call.at \notin {"idle", "down"} => call.index \in Indexes
  /\ call.at \in Probing => call.type \in 1 .. Len(Types) /\ call.found <= call.index

IInv == UsbInv /\ WrapperTypeOK /\ Control /\ DescriptorsOwned

-----------------------------------------------------------------------------
(* Facts about the handles.                                                *)

\* DescriptorsOwned, handle by handle.
Owned(devs, new, open, hs) ==
  /\ \A h : h \in open <=> /\ h # NoHandle
                           /\ (\E k \in Indexes : devs[k].descriptor = h) \/ new.descriptor = h
  /\ \A j, k \in Indexes : /\ devs[j].descriptor # NoHandle
                           /\ devs[j].descriptor = devs[k].descriptor
                           => j = k
  /\ \A k \in Indexes : devs[k].descriptor # NoHandle =>
       /\ devs[k].descriptor # new.descriptor
       /\ hs[devs[k].descriptor].deviceID = devs[k].location

LEMMA OwnedNow == DescriptorsOwned <=> Owned(devices, dev, held, handles)
  BY DEF DescriptorsOwned, Owned, Opened

LEMMA OwnedNext == DescriptorsOwned' <=> Owned(devices', dev', held', handles')
  BY DEF DescriptorsOwned, Owned, Opened

LEMMA TypeFacts ==
  ASSUME IInv
  PROVE  /\ devices \in [Indexes -> Device] /\ dev \in Device /\ NULL \in Device
         /\ NULL.descriptor = NoHandle /\ dev.descriptor \in Nat /\ dev.location \in Nat
         /\ \A k \in Indexes : devices[k] \in Device /\ devices[k].descriptor \in Nat
         /\ held \subseteq 1 .. Len(handles) /\ Len(handles) \in Nat /\ NoHandle \notin held
         /\ Len(Types) \in Nat
         /\ Indexes \subseteq Nat
<1>1. devices \in [Indexes -> Device] /\ dev \in Device
  BY DEF IInv, WrapperTypeOK
<1>2. NULL \in Device /\ NULL.descriptor = NoHandle
  BY DEF Device, NULL, NoHandle
<1>3. \A d \in Device : d.descriptor \in Nat /\ d.location \in Nat
  BY DEF Device
<1>4. held \subseteq 1 .. Len(handles) /\ Len(handles) \in Nat
  BY HandleFacts DEF IInv
<1>5. NoHandle \notin held
  BY <1>4 DEF NoHandle
<1>6. Len(Types) \in Nat
  BY WrapperTypesAssumption
<1>7. Indexes \subseteq Nat
  BY IndexesAssumption DEF Indexes
<1>8. QED
  BY <1>1, <1>2, <1>3, <1>4, <1>5, <1>6, <1>7

\* A handle that is held keeps its ID.
LEMMA HeldIDs ==
  ASSUME IInv, [UsbNext]_usbVars
  PROVE  \A h \in held : handles'[h].deviceID = handles[h].deviceID
  BY HandleIDs, TypeFacts DEF IInv

\* The native layer does something that gives out no handle and takes none.
LEMMA OwnedKept ==
  ASSUME IInv, [UsbNext]_usbVars, held' = held, devices' = devices,
         dev'.descriptor = dev.descriptor
  PROVE  DescriptorsOwned'
<1>1. Owned(devices, dev, held, handles)
  BY OwnedNow DEF IInv
<1>2. \A k \in Indexes : devices[k].descriptor # NoHandle =>
        handles'[devices[k].descriptor].deviceID = handles[devices[k].descriptor].deviceID
  BY <1>1, HeldIDs DEF Owned
<1>3. Owned(devices', dev', held', handles')
  BY <1>1, <1>2 DEF Owned
<1>4. QED
  BY <1>3, OwnedNext

\* The exemplar gets a new handle.
LEMMA OwnedOpened ==
  ASSUME IInv, ~fault, USBOpen(dev.location), dev.descriptor = NoHandle, devices' = devices,
         dev' = [dev EXCEPT !.descriptor = Len(handles')]
  PROVE  /\ DescriptorsOwned' /\ UsbNext /\ dev' \in Device /\ dev'.descriptor # NoHandle
         /\ dev'.location = dev.location
         /\ handles'[dev'.descriptor].deviceID = dev'.location
<1> DEFINE n == Len(handles) + 1
<1>1. PICK i \in ByID(dev.location) :
        /\ held' = held \cup {n} /\ handles' = Append(handles, [deviceID |-> dev.location, freed |-> FALSE])
  BY DEF USBOpen
<1>2. Len(handles') = n /\ handles'[n].deviceID = dev.location
  <2>1. handles \in Seq(Handle)
    BY HandleFacts DEF IInv
  <2>2. QED
    BY <1>1, <2>1
<1>3. dev.location \in 0 .. last_ID
  <2>1. i \in Valid /\ enumerated_devices[i].deviceID = dev.location
    BY <1>1, TableFacts DEF ByID, IInv
  <2>2. dev.location < last_ID /\ last_ID \in Nat
    BY <2>1 DEF IInv, UsbInv, UsbTypeOK, TableConsistent, EntriesDiffer
  <2>3. QED
    BY <2>2, TypeFacts
<1>4. UsbNext
  BY <1>3, Zenon DEF UsbNext
<1>5. n \in Nat /\ n # NoHandle /\ n \notin held
  BY TypeFacts DEF NoHandle
<1>6. dev' \in Device /\ dev'.descriptor = n /\ dev'.location = dev.location
  BY <1>2, <1>5, TypeFacts DEF Device
<1> HIDE DEF n
<1>7. Owned(devices, dev, held, handles)
  BY OwnedNow DEF IInv
<1>8. \A h \in held : handles'[h].deviceID = handles[h].deviceID
  BY <1>4, HeldIDs
<1>9. \A k \in Indexes : devices[k].descriptor # NoHandle => devices[k].descriptor \in held
  BY <1>7 DEF Owned
<1>10. Owned(devices', dev', held', handles')
  BY <1>1, <1>5, <1>6, <1>7, <1>8, <1>9 DEF Owned
<1>11. QED
  BY <1>2, <1>4, <1>5, <1>6, <1>10, OwnedNext

\* The handle h of the exemplar is closed.
LEMMA OwnedReleased ==
  ASSUME IInv, ~fault, CloseDescriptor(dev.descriptor), devices' = devices,
         dev' = [dev EXCEPT !.descriptor = NoHandle]
  PROVE  /\ DescriptorsOwned' /\ [UsbNext]_usbVars /\ dev' \in Device
         /\ dev'.descriptor = NoHandle /\ dev'.location = dev.location
<1>1. Owned(devices, dev, held, handles)
  BY OwnedNow DEF IInv
<1>2. dev' \in Device /\ dev'.descriptor = NoHandle /\ dev'.location = dev.location
  BY TypeFacts DEF Device, NoHandle
<1>3. CASE dev.descriptor = NoHandle
  <2>1. UNCHANGED usbVars
    BY <1>3 DEF CloseDescriptor
  <2>2. held' = held
    BY <2>1 DEF usbVars
  <2>3. DescriptorsOwned'
    BY <1>2, <1>3, <2>1, <2>2, OwnedKept
  <2>4. QED
    BY <1>2, <2>1, <2>3
<1>4. CASE dev.descriptor # NoHandle
  <2>1. dev.descriptor \in held /\ USBClose(dev.descriptor)
    BY <1>1, <1>4 DEF CloseDescriptor, Owned
  <2>2. UsbNext
    BY <2>1, Zenon DEF UsbNext
  <2>3. held' = held \ {dev.descriptor}
    BY <2>1 DEF USBClose
  <2>4. \A h \in held : handles'[h].deviceID = handles[h].deviceID
    BY <2>2, HeldIDs
  <2>5. Owned(devices', dev', held', handles')
    BY <1>1, <1>2, <2>3, <2>4 DEF Owned
  <2>6. QED
    BY <1>2, <2>2, <2>5, OwnedNext
<1>5. QED
  BY <1>3, <1>4

\* The handle of an index is closed, and what has a handle besides takes the
\* index, or nothing does.
LEMMA OwnedReplaced ==
  ASSUME IInv, ~fault, NEW k \in Indexes, CloseDescriptor(devices[k].descriptor),
         NEW d \in {dev, NULL}, devices' = [devices EXCEPT ![k] = d],
         dev'.descriptor = IF d = NULL THEN dev.descriptor ELSE NoHandle
  PROVE  DescriptorsOwned' /\ [UsbNext]_usbVars /\ devices' \in [Indexes -> Device]
<1> DEFINE h == devices[k].descriptor
<1>1. Owned(devices, dev, held, handles)
  BY OwnedNow DEF IInv
<1>2. /\ devices' \in [Indexes -> Device] /\ devices'[k] = d
      /\ \A j \in Indexes \ {k} : devices'[j] = devices[j]
      /\ d \in Device
  BY TypeFacts
<1>3. [UsbNext]_usbVars /\ held' = held \ {h}
  <2>1. CASE h = NoHandle
    <3>1. UNCHANGED usbVars
      BY <2>1 DEF CloseDescriptor
    <3>2. held' = held /\ NoHandle \notin held
      BY <3>1, TypeFacts DEF usbVars
    <3>3. QED
      BY <2>1, <3>1, <3>2
  <2>2. CASE h # NoHandle
    <3>1. h \in held /\ USBClose(h)
      BY <1>1, <2>2 DEF CloseDescriptor, Owned
    <3>2. UsbNext
      BY <3>1, Zenon DEF UsbNext
    <3>3. QED
      BY <3>1, <3>2 DEF USBClose
  <2>3. QED
    BY <2>1, <2>2
<1>4. \A g \in held : handles'[g].deviceID = handles[g].deviceID
  BY <1>3, HeldIDs
<1>5. /\ NULL.descriptor = NoHandle
      /\ dev.descriptor # NoHandle => handles[dev.descriptor].deviceID = dev.location
      /\ NoHandle \notin held
  BY TypeFacts DEF IInv, Control
<1>6. h = NoHandle \/ (h # dev.descriptor /\ \A j \in Indexes \ {k} : devices[j].descriptor # h)
  BY <1>1 DEF Owned
<1> HIDE DEF h
<1>7. CASE d = NULL
  <2>1. Owned(devices', dev', held', handles')
    BY <1>1, <1>2, <1>3, <1>4, <1>5, <1>6, <1>7 DEF Owned, h
  <2>2. QED
    BY <1>2, <1>3, <2>1, OwnedNext
<1>8. CASE d = dev /\ d # NULL
  <2>1. Owned(devices', dev', held', handles')
    BY <1>1, <1>2, <1>3, <1>4, <1>5, <1>6, <1>8 DEF Owned, h
  <2>2. QED
    BY <1>2, <1>3, <2>1, OwnedNext
<1>9. QED
  BY <1>7, <1>8

-----------------------------------------------------------------------------
(* The steps. Each keeps the invariant, uses the native layer as UsbNext   *)
(* allows, and leaves an open index on its device as OpenStays says.       *)

Places  == {"idle", "counting", "recounting", "locating", "opening", "closing",
            "reopening", "storing", "down"}
Calls   == [at : Places, index : Nat, type : 1 .. Len(Types) + 1, found : Nat,
            settled : BOOLEAN]
Results == [index : Nat, end : {"none", "opened", "failed", "exhausted"}, settled : BOOLEAN]

\* A call in a place where Control allows it, with the index it began with.
WellPlaced(c, d) ==
  /\ c \in Calls
  /\ c.at \notin {"closing", "storing"} => d.descriptor = NoHandle
  /\ c.at = "storing" => d.descriptor # NoHandle
  /\ c.at \notin {"idle", "down"} => c.index \in Indexes
  /\ c.at \in Probing => c.type \in 1 .. Len(Types) /\ c.found <= c.index

Stays ==
  \A k \in Opened : devices'[k] # devices[k] =>
    \/ devices'[k] = NULL /\ call' = call
    \/ devices'[k] = dev /\ result'.end = "opened" /\ result'.index = k

Good == IInv' /\ [UsbNext]_usbVars /\ Stays

LEMMA CallFacts ==
  ASSUME IInv
  PROVE  /\ call \in Calls /\ result \in Results /\ fresh \subseteq Products
         /\ steady \subseteq Indexes /\ WellPlaced(call, dev)
         /\ call.at \in Places /\ call.index \in Nat /\ call.type \in 1 .. Len(Types) + 1
         /\ call.found \in Nat
<1>1. call \in Calls /\ result \in Results /\ fresh \subseteq Products /\ steady \subseteq Indexes
  BY DEF IInv, WrapperTypeOK, Calls, Places, Results
<1>2. /\ call.at \in Places /\ call.index \in Nat /\ call.type \in 1 .. Len(Types) + 1
      /\ call.found \in Nat
  BY <1>1 DEF Calls
<1>3. WellPlaced(call, dev)
  BY <1>1 DEF IInv, Control, WellPlaced
<1>4. QED
  BY <1>1, <1>2, <1>3

LEMMA CallUpdates ==
  /\ \A c \in Calls, a \in Places :
       LET d == [c EXCEPT !.at = a]
       IN  d \in Calls /\ d.at = a /\ d.index = c.index /\ d.type = c.type /\ d.found = c.found
  /\ \A c \in Calls : \A n \in Nat :
       c.type <= Len(Types) =>
         LET d == [c EXCEPT !.type = @ + 1, !.found = @ + n]
         IN  /\ d \in Calls /\ d.at = c.at /\ d.index = c.index
             /\ d.type = c.type + 1 /\ d.found = c.found + n
  /\ \A c \in Calls :
       LET d == [c EXCEPT !.settled = FALSE]
       IN  d \in Calls /\ d.at = c.at /\ d.index = c.index /\ d.type = c.type /\ d.found = c.found
  /\ Idle \in Calls /\ Idle.at = "idle"
<1>0. Len(Types) \in Nat
  BY WrapperTypesAssumption
<1>1. \A c \in Calls, a \in Places :
        LET d == [c EXCEPT !.at = a]
        IN  d \in Calls /\ d.at = a /\ d.index = c.index /\ d.type = c.type /\ d.found = c.found
  BY DEF Calls
<1>2. \A c \in Calls : \A n \in Nat :
        c.type <= Len(Types) =>
          LET d == [c EXCEPT !.type = @ + 1, !.found = @ + n]
          IN  /\ d \in Calls /\ d.at = c.at /\ d.index = c.index
              /\ d.type = c.type + 1 /\ d.found = c.found + n
  <2> SUFFICES ASSUME NEW c \in Calls, NEW n \in Nat, c.type <= Len(Types)
               PROVE  LET d == [c EXCEPT !.type = @ + 1, !.found = @ + n]
                      IN  /\ d \in Calls /\ d.at = c.at /\ d.index = c.index
                          /\ d.type = c.type + 1 /\ d.found = c.found + n
    OBVIOUS
  <2> DEFINE t == c.type + 1
  <2> DEFINE f == c.found + n
  <2>1. t \in 1 .. Len(Types) + 1 /\ f \in Nat
    BY <1>0 DEF Calls
  <2> HIDE DEF t, f
  <2>2. LET d == [c EXCEPT !.type = t, !.found = f]
        IN  /\ d \in Calls /\ d.at = c.at /\ d.index = c.index /\ d.type = t /\ d.found = f
    BY <2>1 DEF Calls
  <2>3. QED
    BY <2>2 DEF t, f
<1>3. \A c \in Calls :
        LET d == [c EXCEPT !.settled = FALSE]
        IN  d \in Calls /\ d.at = c.at /\ d.index = c.index /\ d.type = c.type /\ d.found = c.found
  BY DEF Calls
<1>4. Idle \in Calls /\ Idle.at = "idle"
  BY <1>0 DEF Calls, Idle, Places
<1>5. QED
  BY <1>1, <1>2, <1>3, <1>4

LEMMA Assemble ==
  ASSUME IInv, [UsbNext]_usbVars, DescriptorsOwned', Stays,
         devices' \in [Indexes -> Device], dev' \in Device, WellPlaced(call', dev'),
         result' \in Results, fresh' \subseteq Products, steady' \subseteq Indexes,
         dev'.descriptor # NoHandle => handles'[dev'.descriptor].deviceID = dev'.location
  PROVE  Good
<1>1. UsbInv'
  BY UsbNextInv DEF IInv
<1>2. WrapperTypeOK'
  BY DEF WrapperTypeOK, WellPlaced, Calls, Places, Results
<1>3. Control'
  BY DEF Control, WellPlaced
<1>4. QED
  BY <1>1, <1>2, <1>3 DEF Good, IInv

\* No handle is given out or taken, and the devices stay.
LEMMA MovesGood ==
  ASSUME IInv, [UsbNext]_usbVars, UNCHANGED <<held, devices>>, WellPlaced(call', dev'),
         dev' \in Device, dev' = dev \/ (dev'.descriptor = NoHandle /\ dev.descriptor = NoHandle),
         result' \in Results, fresh' \subseteq Products, steady' \subseteq Indexes
  PROVE  Good
<1>1. DescriptorsOwned'
  BY OwnedKept
<1>2. Owned(devices, dev, held, handles)
  BY OwnedNow DEF IInv
<1>3. dev.descriptor # NoHandle => dev.descriptor \in held
  BY <1>2 DEF Owned
<1>4. dev'.descriptor # NoHandle => handles'[dev'.descriptor].deviceID = dev'.location
  BY <1>3, HeldIDs DEF IInv, Control
<1>5. Stays
  BY DEF Stays
<1>6. devices' \in [Indexes -> Device]
  BY TypeFacts
<1>7. QED
  BY <1>1, <1>4, <1>5, <1>6, Assemble

LEMMA BusChangesGood ==
  ASSUME IInv, ~fault, BusChanges
  PROVE  Good
<1>1. UsbNext
  BY Zenon DEF BusChanges, UsbNext
<1>2. UNCHANGED held
  BY DEF BusChanges, Hotplug, Plug, Unplug
<1>3. /\ UNCHANGED <<devices, dev>> /\ call' = [call EXCEPT !.settled = FALSE]
      /\ result' = NoResult /\ fresh' = {} /\ steady' = {}
  BY DEF BusChanges
<1>4. WellPlaced(call', dev')
  BY <1>3, CallFacts, CallUpdates DEF WellPlaced
<1>5. result' \in Results
  BY <1>3 DEF NoResult, Results
<1>6. fresh' \subseteq Products /\ steady' \subseteq Indexes
  BY <1>3
<1>7. dev' \in Device /\ UNCHANGED <<held, devices>>
  BY <1>2, <1>3, TypeFacts
<1>8. dev' = dev \/ (dev'.descriptor = NoHandle /\ dev.descriptor = NoHandle)
  BY <1>3
<1>9. QED
  BY <1>1, <1>4, <1>5, <1>6, <1>7, <1>8, MovesGood

\* A call begins or ends, with nothing of the native layer touched.
LEMMA BoundaryGood ==
  ASSUME IInv, \/ \E k \in Indexes : OpenSpectrometer(k)
               \/ Shutdown
               \/ ShutdownStep /\ Opened = {}
               \/ UNCHANGED vars
  PROVE  Good
<1>1. UNCHANGED <<usbVars, devices, dev, fresh, steady>>
  BY DEF OpenSpectrometer, Shutdown, ShutdownStep, vars, wrapperVars
<1>2. UNCHANGED held
  BY <1>1 DEF usbVars
<1>3. result' \in Results
  <2>1. NoResult \in Results
    BY DEF NoResult, Results
  <2>2. result' = result \/ result' = NoResult
    BY DEF OpenSpectrometer, Shutdown, ShutdownStep, vars, wrapperVars
  <2>3. QED
    BY <2>1, <2>2, CallFacts
<1>4. WellPlaced(call', dev')
  <2>1. CASE \E k \in Indexes : OpenSpectrometer(k)
    <3>1. PICK k \in Indexes : OpenSpectrometer(k)
      BY <2>1
    <3>2. /\ call.at = "idle" /\ Types # << >>
          /\ call' = [at |-> "counting", index |-> k, type |-> 1, found |-> 0, settled |-> Settled]
      BY <3>1 DEF OpenSpectrometer
    <3>3. k \in Nat /\ 1 \in 1 .. Len(Types) /\ dev.descriptor = NoHandle
      BY <3>2, TypeFacts, CallFacts, WrapperTypesAssumption DEF WellPlaced
    <3>4. Settled \in BOOLEAN
      BY Zenon DEF Settled
    <3>5. call' \in Calls
      BY <3>2, <3>3, <3>4, TypeFacts DEF Calls, Places
    <3>6. /\ call'.at = "counting" /\ call'.index = k /\ call'.type = 1 /\ call'.found = 0
      BY <3>2
    <3>7. QED
      BY <1>1, <3>3, <3>5, <3>6 DEF WellPlaced
  <2>2. CASE Shutdown
    <3>1. call.at = "idle" /\ call' = [Idle EXCEPT !.at = "down"]
      BY <2>2 DEF Shutdown
    <3>2. call' \in Calls /\ call'.at = "down"
      BY <3>1, CallUpdates DEF Places
    <3>3. QED
      BY <1>1, <3>1, <3>2, CallFacts DEF WellPlaced, Probing
  <2>3. CASE ShutdownStep /\ Opened = {}
    <3>1. call.at = "down" /\ call' = Idle
      BY <2>3 DEF ShutdownStep
    <3>2. QED
      BY <1>1, <3>1, CallFacts, CallUpdates DEF WellPlaced, Probing
  <2>4. CASE UNCHANGED vars
    BY <2>4, CallFacts DEF vars, wrapperVars
  <2>5. QED
    BY <2>1, <2>2, <2>3, <2>4
<1>5. fresh' \subseteq Products /\ steady' \subseteq Indexes /\ [UsbNext]_usbVars
  BY <1>1, CallFacts
<1>6. dev' \in Device /\ UNCHANGED <<held, devices>>
  BY <1>1, <1>2, TypeFacts
<1>7. dev' = dev \/ (dev'.descriptor = NoHandle /\ dev.descriptor = NoHandle)
  BY <1>1
<1>8. QED
  BY <1>3, <1>4, <1>5, <1>6, <1>7, MovesGood

-----------------------------------------------------------------------------
(* The probes of openSpectrometer.                                         *)

LEMMA ProbeFacts ==
  ASSUME IInv, ~fault, call.at \in Probing, Probe
  PROVE  /\ [UsbNext]_usbVars /\ held' = held /\ fresh' \subseteq Products /\ UsbInv'
         /\ Types[call.type] \in Products /\ USBProbeDevices(Types[call.type])
         /\ Found \in Nat /\ dev.descriptor = NoHandle
         /\ call.type <= Len(Types) /\ call.found <= call.index /\ call.index \in Indexes
<1>1. /\ dev.descriptor = NoHandle /\ call.type \in 1 .. Len(Types) /\ call.found <= call.index
      /\ call.index \in Indexes
  BY CallFacts DEF WellPlaced, Probing
<1>2. Types[call.type] \in Products
  BY <1>1, WrapperTypesAssumption
<1>3. UsbNext
  BY <1>2, Zenon DEF UsbNext, Probe
<1>4. UsbInv'
  BY <1>3, UsbNextInv DEF IInv
<1>5. USBProbeDevices(Types[call.type]) /\ fresh' \subseteq Products
  BY <1>2, CallFacts DEF Probe
<1>6. held' = held
  BY <1>5 DEF USBProbeDevices
<1>7. IsFiniteSet(probed'.ids)
  BY <1>2, <1>4, <1>5, FoundFacts DEF IInv
<1>8. Found \in Nat
  BY <1>7, FS_CardinalityType DEF Found
<1>9. QED
  BY <1>1, <1>2, <1>3, <1>4, <1>5, <1>6, <1>8, TypeFacts

LEMMA EndFacts ==
  ASSUME IInv, NEW how \in {"opened", "failed", "exhausted"}, Ends(how)
  PROVE  /\ WellPlaced(call', dev') /\ dev' \in Device /\ dev' = NULL /\ dev'.descriptor = NoHandle
         /\ result' \in Results /\ result'.end = how /\ result'.index = call.index
<1>1. /\ call' = Idle /\ dev' = NULL
      /\ result' = [index |-> call.index, end |-> how, settled |-> call.settled]
  BY DEF Ends
<1>2. call.settled \in BOOLEAN
  BY CallFacts, Zenon DEF Calls
<1>3. result' \in Results
  BY <1>1, <1>2, CallFacts DEF Results
<1>4. result'.end = how /\ result'.index = call.index
  BY <1>1
<1>5. WellPlaced(call', dev')
  BY <1>1, TypeFacts, CallUpdates DEF WellPlaced, Probing
<1>6. QED
  BY <1>1, <1>3, <1>4, <1>5, TypeFacts

LEMMA CountGood ==
  ASSUME IInv, ~fault, Count
  PROVE  Good
<1>1. call.at = "counting" /\ Probe /\ UNCHANGED <<devices, steady>>
  BY DEF Count
<1>2. /\ [UsbNext]_usbVars /\ held' = held /\ fresh' \subseteq Products
      /\ Found \in Nat /\ dev.descriptor = NoHandle
      /\ call.type <= Len(Types) /\ call.found <= call.index /\ call.index \in Indexes
  BY <1>1, ProbeFacts DEF Probing
<1>3. CASE UNCHANGED <<dev, result>> /\ call' = [call EXCEPT !.at = "recounting"]
  <2>1. WellPlaced(call', dev')
    <3>0. call \in Calls
      BY CallFacts
    <3>1. /\ call' \in Calls /\ call'.at \in Probing /\ call'.index = call.index
          /\ call'.type = call.type /\ call'.found = call.found
      BY <1>3, <3>0 DEF Calls, Places, Probing
    <3>2. dev' = dev /\ call.type \in 1 .. Len(Types)
      BY <1>1, <1>3, CallFacts DEF WellPlaced, Probing
    <3>3. QED
      BY <1>2, <3>1, <3>2 DEF WellPlaced, Probing
  <2>2. QED
    BY <1>1, <1>2, <1>3, <2>1, CallFacts, TypeFacts, MovesGood
<1>4. CASE /\ UNCHANGED <<dev, result>> /\ call' = Skip
           /\ Found + call.found <= call.index /\ call.type < Len(Types)
  <2>1. /\ call' \in Calls /\ call'.at = call.at /\ call'.index = call.index
        /\ call'.type = call.type + 1 /\ call'.found = call.found + Found
    <3>1. call \in Calls /\ Found \in Nat /\ call.type <= Len(Types)
      BY <1>2, CallFacts
    <3>2. /\ Skip \in Calls /\ Skip.at = call.at /\ Skip.index = call.index
          /\ Skip.type = call.type + 1 /\ Skip.found = call.found + Found
      BY <3>1, CallUpdates DEF Skip
    <3>3. QED
      BY <1>4, <3>2
  <2>2. WellPlaced(call', dev')
    BY <1>1, <1>2, <1>4, <2>1, CallFacts, TypeFacts DEF WellPlaced, Probing
  <2>3. QED
    BY <1>1, <1>2, <1>4, <2>2, CallFacts, TypeFacts, MovesGood
<1>5. CASE Ends("exhausted")
  BY <1>1, <1>2, <1>5, EndFacts, CallFacts, MovesGood
<1>6. QED
  BY <1>3, <1>4, <1>5 DEF Count

LEMMA RecountGood ==
  ASSUME IInv, ~fault, Recount
  PROVE  Good
<1>1. call.at = "recounting" /\ Probe /\ UNCHANGED <<devices, steady>>
  BY DEF Recount
<1>2. /\ [UsbNext]_usbVars /\ held' = held /\ fresh' \subseteq Products /\ dev.descriptor = NoHandle
      /\ call.type <= Len(Types) /\ call.found <= call.index /\ call.index \in Indexes
  BY <1>1, ProbeFacts DEF Probing
<1>3. CASE UNCHANGED <<dev, result>> /\ call' = [call EXCEPT !.at = "locating"]
  <2>1. WellPlaced(call', dev')
    <3>0. call \in Calls
      BY CallFacts
    <3>1. /\ call' \in Calls /\ call'.at \in Probing /\ call'.index = call.index
          /\ call'.type = call.type /\ call'.found = call.found
      BY <1>3, <3>0 DEF Calls, Places, Probing
    <3>2. dev' = dev /\ call.type \in 1 .. Len(Types)
      BY <1>1, <1>3, CallFacts DEF WellPlaced, Probing
    <3>3. QED
      BY <1>2, <3>1, <3>2 DEF WellPlaced, Probing
  <2>2. QED
    BY <1>1, <1>2, <1>3, <2>1, CallFacts, TypeFacts, MovesGood
<1>4. CASE Ends("failed")
  BY <1>1, <1>2, <1>4, EndFacts, CallFacts, MovesGood
<1>5. QED
  BY <1>3, <1>4 DEF Recount

\* The IDs a probe found are ranked by the table, and one of them is the
\* instanceIndex-th.
LEMMA InstanceFound ==
  ASSUME IInv, ~fault, call.at \in Probing, Probe, instanceIndex < Found
  PROVE  Instance(probed'.ids) \in Nat
<1> DEFINE ids == probed'.ids
<1> DEFINE t == enumerated_devices'
<1> DEFINE S == {i \in Entries(t) : t[i].deviceID \in ids}
<1> DEFINE slot(f) == CHOOSE i \in Slots : t[i] # NoEntry /\ t[i].deviceID = f
<1>1. /\ UsbInv' /\ call.found <= call.index /\ USBProbeDevices(Types[call.type])
      /\ Types[call.type] \in Products
  BY ProbeFacts
<1>2. /\ ids \subseteq Nat /\ IsFiniteSet(ids)
      /\ \A f \in ids : \E i \in Slots : t[i] # NoEntry /\ t[i].deviceID = f
  BY <1>1, FoundFacts DEF IInv
<1>3. \A f \in ids : slot(f) \in Slots /\ t[slot(f)] # NoEntry /\ t[slot(f)].deviceID = f
  BY <1>2
<1>4. \A i, j \in Entries(t) : i # j => t[i].deviceID # t[j].deviceID
  BY <1>1 DEF UsbInv, TableConsistent, EntriesDiffer, Valid
<1>5. S \subseteq Nat /\ IsFiniteSet(S)
  <2>1. Slots \subseteq Nat /\ IsFiniteSet(Slots)
    BY FS_Interval, TableAssumption DEF Slots
  <2>2. S \in SUBSET Slots
    BY DEF Entries
  <2>3. QED
    BY <2>1, <2>2, FS_Subset
<1>6. Cardinality(S) = Cardinality(ids)
  <2> DEFINE g == [f \in ids |-> slot(f)]
  <2>1. g \in Bijection(ids, S)
    <3>1. \A f \in ids : g[f] \in S
      BY <1>3 DEF Entries
    <3>2. \A f, h \in ids : g[f] = g[h] => f = h
      BY <1>3
    <3>3. \A i \in S : g[t[i].deviceID] = i
      BY <1>3, <1>4 DEF Entries
    <3>4. QED
      BY <3>1, <3>2, <3>3, Fun_IsBij
  <2>2. ExistsBijection(ids, S)
    BY <2>1 DEF ExistsBijection
  <2>3. QED
    BY <1>2, <1>5, <2>2, FS_Bijection
<1>7. instanceIndex + 1 \in 1 .. Cardinality(S)
  BY <1>1, <1>6, ProbeFacts, CallFacts DEF instanceIndex, Found
<1>8. PICK i \in S : Rank(S, i) = instanceIndex + 1
  BY <1>5, <1>7, RankOnto
<1>9. t[i].deviceID \in ids /\ slot(t[i].deviceID) = i
  BY <1>3, <1>4 DEF Entries
<1>10. \E f \in ids : Rank(S, slot(f)) = instanceIndex + 1
  BY <1>8, <1>9
<1>11. Instance(ids) \in ids
  BY <1>10 DEF Instance
<1>12. QED
  BY <1>2, <1>11

LEMMA LocateGood ==
  ASSUME IInv, ~fault, Locate
  PROVE  Good
<1>1. call.at = "locating" /\ Probe /\ UNCHANGED <<devices, steady>>
  BY DEF Locate
<1>2. /\ [UsbNext]_usbVars /\ held' = held /\ fresh' \subseteq Products /\ dev.descriptor = NoHandle
      /\ call.index \in Indexes
  BY <1>1, ProbeFacts DEF Probing
<1>3. CASE instanceIndex < Found
  <2>1. /\ call' = [call EXCEPT !.at = "opening"] /\ result' = result
        /\ dev' = [NULL EXCEPT !.location = Instance(probed'.ids)]
    BY <1>3 DEF Locate
  <2>2. Instance(probed'.ids) \in Nat
    BY <1>1, <1>3, InstanceFound DEF Probing
  <2>3. dev' \in Device /\ dev'.descriptor = NoHandle
    BY <2>1, <2>2 DEF Device, NULL, NoHandle
  <2>4. call' \in Calls /\ call'.at = "opening" /\ call'.index = call.index
    BY <2>1, CallFacts, CallUpdates DEF Places
  <2>5. WellPlaced(call', dev')
    BY <1>2, <2>3, <2>4 DEF WellPlaced, Probing
  <2>6. result' \in Results /\ steady' \subseteq Indexes
    BY <1>1, <2>1, CallFacts
  <2>7. QED
    BY <1>1, <1>2, <2>3, <2>5, <2>6, MovesGood
<1>4. CASE Ends("failed")
  BY <1>1, <1>2, <1>4, EndFacts, CallFacts, MovesGood
<1>5. QED
  BY <1>3, <1>4 DEF Locate

-----------------------------------------------------------------------------
(* The double open.                                                        *)

LEMMA DevKeeps ==
  ASSUME IInv, [UsbNext]_usbVars, dev' = dev
  PROVE  dev'.descriptor # NoHandle => handles'[dev'.descriptor].deviceID = dev'.location
<1>1. Owned(devices, dev, held, handles)
  BY OwnedNow DEF IInv
<1>2. dev.descriptor # NoHandle => dev.descriptor \in held
  BY <1>1 DEF Owned
<1>3. QED
  BY <1>2, HeldIDs DEF IInv, Control

\* openSpectrometer goes on to another place with the same index.
LEMMA PlaceFacts ==
  ASSUME IInv, call.at \in {"opening", "closing", "reopening"},
         NEW a \in {"closing", "reopening", "storing"},
         call' = [call EXCEPT !.at = a],
         a = "reopening" => dev'.descriptor = NoHandle,
         a = "storing" => dev'.descriptor # NoHandle
  PROVE  WellPlaced(call', dev')
<1>1. call' \in Calls /\ call'.at = a /\ call'.index = call.index
  <2>1. call \in Calls /\ a \in Places
    BY CallFacts DEF Places
  <2>2. QED
    BY <2>1, CallUpdates
<1>2. call.index \in Indexes
  BY CallFacts DEF WellPlaced
<1>3. call'.at \notin Probing
  BY <1>1 DEF Probing
<1>4. call'.at \notin {"closing", "storing"} => dev'.descriptor = NoHandle
  BY <1>1
<1>5. call'.at = "storing" => dev'.descriptor # NoHandle
  BY <1>1
<1>6. QED
  BY <1>1, <1>2, <1>3, <1>4, <1>5 DEF WellPlaced

LEMMA DeviceOpenGood ==
  ASSUME IInv, ~fault, DeviceOpen
  PROVE  Good
<1>1. /\ call.at = "opening" /\ call' = [call EXCEPT !.at = "closing"]
      /\ UNCHANGED <<devices, result, fresh, steady>>
  BY DEF DeviceOpen
<1>2. dev.descriptor = NoHandle
  BY <1>1, CallFacts DEF WellPlaced
<1>3. WellPlaced(call', dev')
  BY <1>1, PlaceFacts
<1>4. Stays
  BY <1>1 DEF Stays
<1>5. /\ devices' \in [Indexes -> Device] /\ result' \in Results /\ fresh' \subseteq Products
      /\ steady' \subseteq Indexes
  BY <1>1, CallFacts, TypeFacts
<1>6. CASE USBOpen(dev.location) /\ dev' = [dev EXCEPT !.descriptor = Len(handles')]
  <2>1. /\ DescriptorsOwned' /\ UsbNext /\ dev' \in Device
        /\ handles'[dev'.descriptor].deviceID = dev'.location
    BY <1>1, <1>2, <1>6, OwnedOpened
  <2>2. QED
    BY <1>3, <1>4, <1>5, <2>1, Assemble
<1>7. CASE USBOpenFails /\ UNCHANGED dev
  <2>1. UNCHANGED usbVars /\ held' = held
    BY <1>7 DEF USBOpenFails, usbVars
  <2>2. dev' \in Device /\ UNCHANGED <<held, devices>>
    BY <1>1, <1>7, <2>1, TypeFacts
  <2>3. QED
    BY <1>3, <1>5, <1>7, <2>1, <2>2, MovesGood
<1>8. QED
  BY <1>6, <1>7 DEF DeviceOpen, OpenDescriptor

LEMMA ReopenClosesGood ==
  ASSUME IInv, ~fault, ReopenCloses
  PROVE  Good
<1>1. /\ call.at = "closing" /\ call' = [call EXCEPT !.at = "reopening"]
      /\ CloseDescriptor(dev.descriptor) /\ dev' = [dev EXCEPT !.descriptor = NoHandle]
      /\ UNCHANGED <<devices, result, fresh, steady>>
  BY DEF ReopenCloses
<1>2. /\ DescriptorsOwned' /\ [UsbNext]_usbVars /\ dev' \in Device
      /\ dev'.descriptor = NoHandle
  BY <1>1, OwnedReleased
<1>3. WellPlaced(call', dev')
  BY <1>1, <1>2, PlaceFacts
<1>4. Stays
  BY <1>1 DEF Stays
<1>5. /\ devices' \in [Indexes -> Device] /\ result' \in Results /\ fresh' \subseteq Products
      /\ steady' \subseteq Indexes
  BY <1>1, CallFacts, TypeFacts
<1>6. QED
  BY <1>2, <1>3, <1>4, <1>5, Assemble

LEMMA ReopenGood ==
  ASSUME IInv, ~fault, Reopen
  PROVE  Good
<1>1. call.at = "reopening" /\ UNCHANGED <<devices, fresh, steady>>
  BY DEF Reopen
<1>2. dev.descriptor = NoHandle
  BY <1>1, CallFacts DEF WellPlaced
<1>3. Stays
  BY <1>1 DEF Stays
<1>4. devices' \in [Indexes -> Device] /\ fresh' \subseteq Products /\ steady' \subseteq Indexes
  BY <1>1, CallFacts, TypeFacts
<1>5. CASE /\ USBOpen(dev.location) /\ dev' = [dev EXCEPT !.descriptor = Len(handles')]
           /\ call' = [call EXCEPT !.at = "storing"] /\ UNCHANGED result
  <2>1. /\ DescriptorsOwned' /\ UsbNext /\ dev' \in Device /\ dev'.descriptor # NoHandle
        /\ handles'[dev'.descriptor].deviceID = dev'.location
    BY <1>1, <1>2, <1>5, OwnedOpened
  <2>2. WellPlaced(call', dev') /\ result' \in Results
    <3>1. WellPlaced(call', dev')
      BY <1>1, <1>5, <2>1, PlaceFacts
    <3>2. result' \in Results
      BY <1>5, CallFacts
    <3>3. QED
      BY <3>1, <3>2
  <2>3. QED
    BY <1>3, <1>4, <2>1, <2>2, Assemble
<1>6. CASE USBOpenFails /\ Ends("failed")
  <2>1. UNCHANGED usbVars /\ held' = held
    BY <1>6 DEF USBOpenFails, usbVars
  <2>2. UNCHANGED <<held, devices>>
    BY <1>1, <2>1
  <2>3. QED
    BY <1>2, <1>4, <1>6, <2>1, <2>2, EndFacts, MovesGood
<1>7. QED
  BY <1>5, <1>6 DEF Reopen

-----------------------------------------------------------------------------
(* The table of open devices.                                              *)

LEMMA StoreGood ==
  ASSUME IInv, ~fault, Store
  PROVE  Good
<1> DEFINE k == call.index
<1>1. /\ call.at = "storing" /\ CloseDescriptor(devices[k].descriptor)
      /\ devices' = [devices EXCEPT ![k] = dev] /\ Ends("opened") /\ fresh' = fresh
      /\ steady' = steady \cup {k} \/ steady' = steady \ {k}
  BY DEF Store
<1>2. k \in Indexes /\ dev.descriptor # NoHandle
  BY <1>1, CallFacts DEF WellPlaced
<1>3. /\ WellPlaced(call', dev') /\ dev' \in Device /\ dev'.descriptor = NoHandle
      /\ result' \in Results /\ result'.end = "opened" /\ result'.index = k
  BY <1>1, EndFacts
<1>4. dev # NULL
  BY <1>2, TypeFacts
<1>5. DescriptorsOwned' /\ [UsbNext]_usbVars /\ devices' \in [Indexes -> Device]
  BY <1>1, <1>2, <1>3, <1>4, OwnedReplaced
<1>6. Stays
  <2>1. \A j \in Indexes : devices'[j] # devices[j] => j = k /\ devices'[j] = dev
    BY <1>1, <1>2, TypeFacts
  <2>2. QED
    BY <1>3, <2>1 DEF Stays, Opened
<1>7. fresh' \subseteq Products /\ steady' \subseteq Indexes
  BY <1>1, <1>2, CallFacts
<1>8. QED
  BY <1>3, <1>5, <1>6, <1>7, Assemble

\* The device of an index is closed.
LEMMA CloseGood ==
  ASSUME IInv, ~fault, NEW k \in Opened, USBClose(devices[k].descriptor),
         devices' = [devices EXCEPT ![k] = NULL], steady' = steady \ {k},
         UNCHANGED <<call, dev, result, fresh>>
  PROVE  Good
<1>1. k \in Indexes /\ CloseDescriptor(devices[k].descriptor)
  BY DEF Opened, CloseDescriptor
<1>2. DescriptorsOwned' /\ [UsbNext]_usbVars /\ devices' \in [Indexes -> Device]
  <2>1. dev'.descriptor = dev.descriptor /\ NULL \in {dev, NULL}
    OBVIOUS
  <2>2. QED
    BY <1>1, <2>1, OwnedReplaced
<1>3. dev'.descriptor # NoHandle => handles'[dev'.descriptor].deviceID = dev'.location
  BY <1>2, DevKeeps
<1>4. Stays
  <2>1. \A j \in Indexes : devices'[j] # devices[j] => devices'[j] = NULL
    BY <1>1, TypeFacts
  <2>2. QED
    BY <2>1 DEF Stays, Opened
<1>5. /\ WellPlaced(call', dev') /\ dev' \in Device /\ result' \in Results
      /\ fresh' \subseteq Products /\ steady' \subseteq Indexes
  BY CallFacts, TypeFacts
<1>6. QED
  BY <1>2, <1>3, <1>4, <1>5, Assemble

\* The destructor closes one of the open indexes, the lowest.
LEMMA ShutdownFacts ==
  ASSUME IInv, ShutdownStep, Opened # {}
  PROVE  \E k \in Opened :
           /\ USBClose(devices[k].descriptor) /\ devices' = [devices EXCEPT ![k] = NULL]
           /\ steady' = steady \ {k} /\ UNCHANGED <<call, dev, result, fresh>>
<1> DEFINE k == CHOOSE k \in Opened : \A j \in Opened : k <= j
<1>1. Opened \subseteq Nat
  BY TypeFacts DEF Opened
<1>2. k \in Opened
  <2>1. PICK x \in Opened : \A y \in Opened : ~(<<y, x>> \in OpToRel(<, Nat))
    BY <1>1, NatLessThanWellFounded, WFMin, Zenon
  <2>2. \A y \in Opened : ~(y < x)
    BY <1>1, <2>1, Zenon DEF OpToRel
  <2>3. \A y \in Opened : x <= y
    BY <1>1, <2>2
  <2>4. QED
    BY <2>3
<1>3. /\ USBClose(devices[k].descriptor) /\ devices' = [devices EXCEPT ![k] = NULL]
      /\ steady' = steady \ {k} /\ UNCHANGED <<call, dev, result, fresh>>
  BY DEF ShutdownStep
<1> HIDE DEF k
<1>4. QED
  BY <1>2, <1>3

LEMMA ShutdownStepGood ==
  ASSUME IInv, ~fault, ShutdownStep, Opened # {}
  PROVE  Good
<1>1. PICK k \in Opened :
        /\ USBClose(devices[k].descriptor) /\ devices' = [devices EXCEPT ![k] = NULL]
        /\ steady' = steady \ {k} /\ UNCHANGED <<call, dev, result, fresh>>
  BY ShutdownFacts
<1>2. QED
  BY <1>1, CloseGood

LEMMA UseGood ==
  ASSUME IInv, ~fault, NEW k \in Indexes, UseSpectrometer(k)
  PROVE  Good
<1>1. k \in Opened /\ Transfer(devices[k].descriptor) /\ UNCHANGED wrapperVars
  BY DEF UseSpectrometer
<1>2. devices[k].descriptor \in held
  BY <1>1 DEF Transfer
<1>3. UsbNext
  BY <1>1, <1>2, Zenon DEF UsbNext
<1>4. UNCHANGED <<held, devices, dev, call, result, fresh, steady>>
  BY <1>1 DEF Transfer, wrapperVars
<1>5. WellPlaced(call', dev') /\ dev' \in Device
  BY <1>4, CallFacts, TypeFacts
<1>6. result' \in Results /\ fresh' \subseteq Products /\ steady' \subseteq Indexes
  BY <1>4, CallFacts
<1>7. QED
  BY <1>3, <1>4, <1>5, <1>6, MovesGood

-----------------------------------------------------------------------------
(* The theorems.                                                           *)

LEMMA InitInv ==
  ASSUME WrapperInit
  PROVE  IInv
<1>1. UsbInv
  BY UsbInitInv DEF WrapperInit
<1>2. /\ devices = [k \in Indexes |-> NULL] /\ call = Idle /\ dev = NULL /\ result = NoResult
      /\ fresh = {} /\ steady = {} /\ held = {}
  BY DEF WrapperInit, UsbInit
<1>3. NULL \in Device /\ NULL.descriptor = NoHandle
  BY DEF Device, NULL, NoHandle
<1>4. WrapperTypeOK
  <2>1. call \in Calls
    BY <1>2, CallUpdates
  <2>2. result \in Results
    BY <1>2 DEF NoResult, Results
  <2>3. QED
    BY <1>2, <1>3, <2>1, <2>2 DEF WrapperTypeOK, Calls, Places, Results
<1>5. Control
  BY <1>2, <1>3 DEF Control, Idle, Probing
<1>6. Owned(devices, dev, held, handles)
  BY <1>2, <1>3 DEF Owned
<1>7. QED
  BY <1>1, <1>4, <1>5, <1>6, OwnedNow DEF IInv

LEMMA NextGood ==
  ASSUME IInv, [WrapperNext]_vars
  PROVE  Good
<1>1. CASE UNCHANGED vars
  BY <1>1, BoundaryGood
<1>2. CASE WrapperNext
  <2>1. ~fault
    BY <1>2, Zenon DEF WrapperNext
  <2>2. CASE BusChanges
    BY <2>1, <2>2, BusChangesGood
  <2>3. ASSUME NEW k \in Indexes, OpenSpectrometer(k) PROVE Good
    BY <2>3, BoundaryGood
  <2>4. ASSUME NEW k \in Indexes, CloseSpectrometer(k) PROVE Good
    <3>1. /\ k \in Opened /\ USBClose(devices[k].descriptor)
          /\ devices' = [devices EXCEPT ![k] = NULL] /\ steady' = steady \ {k}
          /\ UNCHANGED <<call, dev, result, fresh>>
      BY <2>4 DEF CloseSpectrometer
    <3>2. QED
      BY <2>1, <3>1, CloseGood
  <2>5. ASSUME NEW k \in Indexes, UseSpectrometer(k) PROVE Good
    BY <2>1, <2>5, UseGood
  <2>6. CASE Count
    BY <2>1, <2>6, CountGood
  <2>7. CASE Recount
    BY <2>1, <2>7, RecountGood
  <2>8. CASE Locate
    BY <2>1, <2>8, LocateGood
  <2>9. CASE DeviceOpen
    BY <2>1, <2>9, DeviceOpenGood
  <2>10. CASE ReopenCloses
    BY <2>1, <2>10, ReopenClosesGood
  <2>11. CASE Reopen
    BY <2>1, <2>11, ReopenGood
  <2>12. CASE Store
    BY <2>1, <2>12, StoreGood
  <2>13. CASE Shutdown
    BY <2>13, BoundaryGood
  <2>14. CASE ShutdownStep
    BY <2>1, <2>14, BoundaryGood, ShutdownStepGood
  <2>15. QED
    BY <1>2, <2>2, <2>3, <2>4, <2>5, <2>6, <2>7, <2>8, <2>9, <2>10, <2>11, <2>12, <2>13, <2>14,
       Zenon DEF WrapperNext
<1>3. QED
  BY <1>1, <1>2

LEMMA Inductive == WrapperSpec => []IInv
<1>1. WrapperInit => IInv
  BY InitInv
<1>2. IInv /\ [WrapperNext]_vars => IInv'
  BY NextGood DEF Good
<1>3. QED
  BY <1>1, <1>2, PTL DEF WrapperSpec

\* Every variable of the wrapper keeps its type.
THEOREM WrapperTypeCorrect == WrapperSpec => []WrapperTypeOK
<1>1. IInv => WrapperTypeOK
  BY DEF IInv
<1>2. QED
  BY <1>1, Inductive, PTL

\* The wrapper probes, opens, closes and reads only as the native layer
\* allows: every behaviour of the composition is one of UsbNative, whose
\* theorems then hold of the wrapper's calls.
THEOREM WrapperUsesNativeLayer == WrapperSpec => UsbSpec
<1>1. WrapperInit => UsbInit
  BY DEF WrapperInit
<1>2. IInv /\ [WrapperNext]_vars => [UsbNext]_usbVars
  BY NextGood DEF Good
<1>3. QED
  BY <1>1, <1>2, Inductive, PTL DEF WrapperSpec, UsbSpec

\* The table of the native layer stays consistent under the wrapper.
THEOREM WrapperKeepsTable == WrapperSpec => []TableConsistent
  BY WrapperUsesNativeLayer, TableStaysConsistent, PTL

\* No handle leaks and none is shared, for any number of devices, indexes and
\* types: through the double open of openSpectrometer, its failures, an index
\* opened again and shutdown, the handles held are those of devices[] and of
\* the device being opened.
THEOREM NoDescriptorLeaks == WrapperSpec => []DescriptorsOwned
<1>1. IInv => DescriptorsOwned
  BY DEF IInv
<1>2. QED
  BY <1>1, Inductive, PTL

\* An index that is open stays on its device until it is closed or another
\* device has been opened in its place.
THEOREM IndexKeepsDevice == WrapperSpec => OpenStays
<1>1. IInv /\ [WrapperNext]_vars =>
        [\A k \in Opened : devices'[k] # devices[k] =>
           \/ devices'[k] = NULL /\ call' = call
           \/ devices'[k] = dev /\ result'.end = "opened" /\ result'.index = k]_vars
  BY NextGood DEF Good, Stays
<1>2. QED
  BY <1>1, Inductive, PTL DEF WrapperSpec, OpenStays

-----------------------------------------------------------------------------
(* What an index means. A probe of a bus that has not changed since every  *)
(* type was probed wipes nothing and adds entries of the type it is for    *)
(* only, so what is counted up to a type stays once all devices up to that *)
(* type have their entries.                                                *)

TypeNamed(p) == CHOOSE t \in 1 .. Len(Types) : Types[t] = p

RightAt(i) == attached[enumerated_devices[i].location] = enumerated_devices[i].product

\* Every device of the t-th type has its entry.
Complete(t) ==
  \A l \in Locations : attached[l] = Types[t] => \E i \in Valid : enumerated_devices[i].location = l

UpTo(t) == {i \in Valid : TypeOf(i) < t}

\* The k-th device is the one of that ID, and stays so.
Names(k, id) ==
  \E i \in Valid : /\ enumerated_devices[i].deviceID = id
                   /\ IndexOf(i) = k
                   /\ \A t \in 1 .. TypeOf(i) : Complete(t)

\* The entries are of types that are probed for, those of a fresh type are of
\* devices that are there, and no probe fails once all types are fresh.
TableSound ==
  /\ \A i \in Valid : \E t \in 1 .. Len(Types) : Types[t] = enumerated_devices[i].product
  /\ \A i \in Valid : enumerated_devices[i].product \in fresh => RightAt(i)
  /\ Settled /\ FitsTable => Unmarked

\* The call in progress has counted all devices of the types before, or has
\* found the device of its index.
CallPlaced ==
  call.settled =>
    /\ call.at \in Probing => /\ \A t \in 1 .. call.type - 1 : Complete(t)
                              /\ call.found = Cardinality(UpTo(call.type))
    /\ call.at \in {"opening", "closing", "reopening", "storing"} => Names(call.index, dev.location)

Swept ==
  result.settled /\ result.end = "exhausted" =>
    /\ \A t \in 1 .. Len(Types) : Complete(t)
    /\ Cardinality(Valid) <= result.index

SteadyNamed == \A k \in steady : Names(k, devices[k].location)

IndexInv ==
  /\ IInv /\ TableSound
  /\ call.settled \/ result.settled \/ steady # {} => Settled
  /\ FitsTable => CallPlaced /\ Swept /\ SteadyNamed

LEMMA TypeUnique ==
  /\ \A t \in 1 .. Len(Types) : TypeNamed(Types[t]) = t
  /\ \A i : TypeOf(i) = TypeNamed(enumerated_devices[i].product)
<1>1. \A t \in 1 .. Len(Types) : TypeNamed(Types[t]) = t
  BY WrapperTypesAssumption DEF TypeNamed
<1>2. QED
  BY <1>1 DEF TypeOf, TypeNamed

LEMMA TypeOfFacts ==
  ASSUME IndexInv, NEW i \in Valid
  PROVE  /\ TypeOf(i) \in 1 .. Len(Types) /\ Types[TypeOf(i)] = enumerated_devices[i].product
         /\ i \in Nat
<1>1. PICK t \in 1 .. Len(Types) : Types[t] = enumerated_devices[i].product
  BY DEF IndexInv, TableSound
<1>2. TypeOf(i) = t
  BY <1>1, TypeUnique
<1>3. QED
  BY <1>1, <1>2, TableFacts DEF IndexInv, IInv

\* The table and the bus stay, but for handles.
LEMMA NamesKept ==
  ASSUME IndexInv, TableKept, UNCHANGED attached
  PROVE  /\ \A t : Complete(t)' <=> Complete(t)
         /\ \A t : UpTo(t)' = UpTo(t)
         /\ \A k, id : Names(k, id) => Names(k, id)'
         /\ \A i \in Valid : RightAt(i)' <=> RightAt(i)
         /\ Unmarked' <=> Unmarked
         /\ FitsTable' <=> FitsTable
<1>1. /\ Valid' = Valid
      /\ \A i \in Valid : /\ enumerated_devices'[i].deviceID = enumerated_devices[i].deviceID
                          /\ enumerated_devices'[i].location = enumerated_devices[i].location
                          /\ enumerated_devices'[i].product = enumerated_devices[i].product
                          /\ enumerated_devices'[i].mark = enumerated_devices[i].mark
  BY DEF TableKept
<1>2. \A i \in Valid : TypeOf(i)' = TypeOf(i)
  BY <1>1 DEF TypeOf
<1>3. \A t : Complete(t)' <=> Complete(t)
  BY <1>1 DEF Complete
<1>4. \A t : UpTo(t)' = UpTo(t)
  BY <1>1, <1>2 DEF UpTo
<1>5. \A i \in Valid : IndexOf(i)' = IndexOf(i)
  <2>1. TAKE i \in Valid
  <2>2. {j \in Valid : Before(j, i)}' = {j \in Valid : Before(j, i)}
    BY <1>1, <1>2 DEF Before
  <2>3. QED
    BY <2>2 DEF IndexOf
<1>6. \A k, id : Names(k, id) => Names(k, id)'
  BY <1>1, <1>2, <1>3, <1>5 DEF Names
<1>7. QED
  BY <1>1, <1>3, <1>4, <1>6 DEF RightAt, Unmarked, FitsTable

LEMMA SettledFits ==
  ASSUME IndexInv, Settled, FitsTable, NEW p \in Products
  PROVE  Seen(p) = Matching(p) /\ Unmarked /\ \A i \in Valid : RightAt(i)
<1> DEFINE P == {l \in Locations : attached[l] # NoProduct}
<1>1. \A i \in Valid : RightAt(i)
  <2>1. \A i \in Valid : enumerated_devices[i].product \in fresh
    BY DEF IndexInv, TableSound, Settled
  <2>2. QED
    BY <2>1 DEF IndexInv, TableSound
<1>2. \A i \in Valid : enumerated_devices[i].location \in P
  <2>1. \A i \in Valid : /\ enumerated_devices[i].location \in Locations
                         /\ enumerated_devices[i].product \in Products
    BY TableFacts, EntryFacts DEF IndexInv, IInv
  <2>2. QED
    BY <1>1, <2>1, ProductsAssumption DEF RightAt
<1>3. New(p) \subseteq P
  BY ProductsAssumption DEF New, Matching
<1>4. IsFiniteSet(P) /\ Cardinality(P) <= MAX_USB_DEVICES
  <2>1. P \in SUBSET Locations
    OBVIOUS
  <2>2. IsFiniteSet(P)
    BY <2>1, LocationsAssumption, FS_Subset
  <2>3. QED
    BY <2>2 DEF FitsTable
<1> HIDE DEF P
<1>5. UsbInv
  BY DEF IndexInv, IInv
<1>6. Cardinality(New(p)) <= Cardinality(Free)
  BY <1>2, <1>3, <1>4, <1>5, NewFit
<1>7. Seen(p) = Matching(p)
  BY <1>5, <1>6, FitSeen
<1>8. Unmarked
  BY DEF IndexInv, TableSound
<1>9. QED
  BY <1>1, <1>7, <1>8

\* A probe on such a bus.
Grows(p) ==
  /\ ProbeFinds(p)
  /\ Valid \subseteq Valid'
  /\ \A i \in Valid : Same(enumerated_devices'[i], enumerated_devices[i])
  /\ \A i \in Valid' \ Valid : /\ enumerated_devices'[i].product = p
                               /\ attached[enumerated_devices'[i].location] = p

LEMMA ProbeGrows ==
  ASSUME IndexInv, Settled, FitsTable, NEW p \in Products, USBProbeDevices(p)
  PROVE  Grows(p) /\ ~probed'.error
<1>1. Seen(p) = Matching(p) /\ Unmarked /\ \A i \in Valid : RightAt(i)
  BY SettledFits
<1>2. UsbInv
  BY DEF IndexInv, IInv
<1>3. ProbeKeeps(p) /\ ProbeFinds(p) /\ ~probed'.error
  BY <1>1, <1>2, ProbeOutcome
<1>4. Valid \subseteq Valid'
  BY <1>1, <1>3 DEF ProbeKeeps, RightAt
<1>5. QED
  BY <1>3, <1>4 DEF Grows, ProbeKeeps

\* The probe for the t-th type adds entries of that type, and none when it
\* has its entries.
LEMMA GrownTypes ==
  ASSUME IndexInv, UsbInv', NEW t \in 1 .. Len(Types), Grows(Types[t]), UNCHANGED attached
  PROVE  /\ Complete(t)'
         /\ \A s : Complete(s) => Complete(s)'
         /\ \A i \in Valid : TypeOf(i)' = TypeOf(i)
         /\ \A i \in Valid' \ Valid : TypeOf(i)' = t /\ ~Complete(t)
<1>1. /\ Valid \subseteq Valid'
      /\ \A i \in Valid : Same(enumerated_devices'[i], enumerated_devices[i])
      /\ \A i \in Valid' \ Valid : /\ enumerated_devices'[i].product = Types[t]
                                   /\ attached[enumerated_devices'[i].location] = Types[t]
      /\ \A l \in Locations : attached[l] = Types[t] => \E i \in Valid' : enumerated_devices'[i].location = l
  BY DEF Grows, ProbeFinds
<1>2. Complete(t)'
  BY <1>1 DEF Complete
<1>3. \A s : Complete(s) => Complete(s)'
  BY <1>1 DEF Complete, Same
<1>4. \A i \in Valid : TypeOf(i)' = TypeOf(i)
  BY <1>1 DEF TypeOf, Same
<1>5. ASSUME NEW i \in Valid' \ Valid PROVE TypeOf(i)' = t
  <2>1. TypeNamed(Types[t]) = t
    BY TypeUnique
  <2>2. QED
    BY <1>1, <2>1 DEF TypeOf, TypeNamed
<1>6. ASSUME NEW i \in Valid' \ Valid, Complete(t) PROVE FALSE
  <2>1. enumerated_devices'[i] \in Entry
    BY TableFacts DEF UsbInv, UsbTypeOK, Valid, Entries
  <2>2. enumerated_devices'[i].location \in Locations
    BY <2>1, EntryFacts
  <2>3. PICK j \in Valid : enumerated_devices[j].location = enumerated_devices'[i].location
    BY <1>1, <1>6, <2>2 DEF Complete
  <2>4. j \in Valid' /\ j # i /\ enumerated_devices'[j].location = enumerated_devices'[i].location
    BY <1>1, <2>3 DEF Same
  <2>5. QED
    BY <2>4 DEF UsbInv, TableConsistent, EntriesDiffer
<1>7. QED
  BY <1>2, <1>3, <1>4, <1>5, <1>6

\* What is named stays named, and so does what is counted of the types before.
LEMMA NamesGrow ==
  ASSUME IndexInv, UsbInv', NEW t \in 1 .. Len(Types), Grows(Types[t]), UNCHANGED attached
  PROVE  /\ \A k, id : Names(k, id) => Names(k, id)'
         /\ UpTo(t)' = UpTo(t)
<1>1. /\ \A s : Complete(s) => Complete(s)'
      /\ \A i \in Valid : TypeOf(i)' = TypeOf(i)
      /\ \A i \in Valid' \ Valid : TypeOf(i)' = t /\ ~Complete(t)
  BY GrownTypes
<1>2. /\ Valid \subseteq Valid'
      /\ \A i \in Valid : enumerated_devices'[i].deviceID = enumerated_devices[i].deviceID
  BY DEF Grows, Same
<1>3. ASSUME NEW i \in Valid, \A s \in 1 .. TypeOf(i) : Complete(s)
      PROVE  IndexOf(i)' = IndexOf(i)
  <2>1. TypeOf(i) \in 1 .. Len(Types) /\ Len(Types) \in Nat
    BY TypeOfFacts, TypeFacts DEF IndexInv
  <2>2. ASSUME NEW j \in Valid' \ Valid PROVE ~(TypeOf(j)' <= TypeOf(i))
    <3>1. TypeOf(j)' = t /\ ~Complete(t)
      BY <1>1
    <3>2. QED
      BY <1>3, <2>1, <3>1
  <2>3. \A j \in Valid' \ Valid : ~Before(j, i)'
    <3>1. TAKE j \in Valid' \ Valid
    <3>2. TypeOf(j)' = t /\ TypeOf(i)' = TypeOf(i)
      BY <1>1
    <3>3. ~(t < TypeOf(i)) /\ t # TypeOf(i)
      BY <2>1, <2>2, <3>2
    <3>4. QED
      BY <3>2, <3>3 DEF Before
  <2>4. \A j \in Valid : Before(j, i)' <=> Before(j, i)
    BY <1>1 DEF Before
  <2>5. {j \in Valid : Before(j, i)}' = {j \in Valid : Before(j, i)}
    BY <1>2, <2>3, <2>4
  <2>6. QED
    BY <2>5 DEF IndexOf
<1>4. ASSUME NEW k, NEW id, Names(k, id) PROVE Names(k, id)'
  <2>1. PICK i \in Valid : /\ enumerated_devices[i].deviceID = id
                           /\ IndexOf(i) = k
                           /\ \A s \in 1 .. TypeOf(i) : Complete(s)
    BY <1>4 DEF Names
  <2>2. IndexOf(i)' = IndexOf(i)
    BY <1>3, <2>1
  <2>3. QED
    BY <1>1, <1>2, <2>1, <2>2 DEF Names
<1>5. UpTo(t)' = UpTo(t)
  <2>1. \A j \in Valid' \ Valid : ~(TypeOf(j)' < t)
    BY <1>1
  <2>2. QED
    BY <1>1, <1>2, <2>1 DEF UpTo
<1>6. QED
  BY <1>4, <1>5

OfType(t) == {i \in Valid : TypeOf(i) = t}

\* The probes of openSpectrometer keep the table sound.
LEMMA ProbeSound ==
  ASSUME IndexInv, ~fault, call.at \in Probing, Probe
  PROVE  /\ TableSound' /\ (Settled => Settled') /\ UNCHANGED attached /\ (FitsTable' <=> FitsTable)
         /\ Settled /\ FitsTable => Grows(Types[call.type])
<1> DEFINE p == Types[call.type]
<1>1. /\ IInv /\ UsbInv /\ UsbInv' /\ USBProbeDevices(p) /\ p \in Products
      /\ call.type \in 1 .. Len(Types)
  BY ProbeFacts, CallFacts DEF IndexInv, IInv, WellPlaced
<1>2. /\ ProbeKeeps(p)
      /\ ~probed'.error => Unmarked' /\ (Unmarked => ProbeFinds(p))
  BY <1>1, ProbeOutcome
<1>3. UNCHANGED attached
  BY <1>1 DEF USBProbeDevices
<1>4. FitsTable' <=> FitsTable
  BY <1>3 DEF FitsTable
<1>5. /\ fresh' = fresh \/ fresh' = fresh \cup {p}
      /\ fresh' # fresh => ~probed'.error /\ Unmarked
      /\ ~probed'.error /\ Unmarked => fresh' = fresh \cup {p}
      /\ probed'.error => fresh' = fresh
  BY DEF Probe, Marked, Unmarked
<1>6. Settled => Settled'
  BY <1>1, <1>5 DEF Settled
<1>7. Settled /\ FitsTable => Grows(p) /\ ~probed'.error
  BY <1>1, ProbeGrows
<1> HIDE DEF p
<1>8. \A i \in Valid' : \E t \in 1 .. Len(Types) : Types[t] = enumerated_devices'[i].product
  BY <1>1, <1>2 DEF ProbeKeeps, IndexInv, TableSound, Same, p
<1>9. ASSUME NEW i \in Valid', enumerated_devices'[i].product \in fresh' PROVE RightAt(i)'
  <2>1. CASE fresh' = fresh \/ enumerated_devices'[i].product # p
    BY <1>2, <1>3, <1>5, <1>9, <2>1 DEF ProbeKeeps, IndexInv, TableSound, RightAt, Same
  <2>2. CASE fresh' # fresh /\ enumerated_devices'[i].product = p
    BY <1>2, <1>3, <1>5, <2>2 DEF ProbeFinds, RightAt
  <2>3. QED
    BY <2>1, <2>2
<1>10. ASSUME Settled', FitsTable' PROVE Unmarked'
  <2>1. CASE probed'.error
    BY <1>4, <1>5, <1>7, <1>10, <2>1 DEF Settled
  <2>2. QED
    BY <1>2, <2>1
<1>11. TableSound'
  BY <1>8, <1>9, <1>10 DEF TableSound
<1>12. QED
  BY <1>3, <1>4, <1>6, <1>7, <1>11 DEF p

LEMMA SlotFacts == IsFiniteSet(Slots) /\ Slots \subseteq Nat
  BY FS_Interval, TableAssumption DEF Slots

\* The probe finds the devices of the type, which are counted up to the next.
LEMMA FoundCount ==
  ASSUME IndexInv, UsbInv', TableSound', NEW t \in 1 .. Len(Types), Grows(Types[t]), UNCHANGED attached
  PROVE  /\ IsFiniteSet(UpTo(t)') /\ IsFiniteSet(OfType(t)') /\ OfType(t)' \subseteq Nat
         /\ Found = Cardinality(OfType(t)')
         /\ Cardinality(UpTo(t + 1)') = Cardinality(UpTo(t)) + Found
         /\ Cardinality(UpTo(t)) \in Nat /\ Found \in Nat
         /\ \A f : f \in probed'.ids <=> \E i \in OfType(t)' : enumerated_devices'[i].deviceID = f
         /\ t = Len(Types) => UpTo(t + 1)' = Valid'
<1> DEFINE S == OfType(t)'
<1> DEFINE U == UpTo(t)'
<1>1. IsFiniteSet(Valid') /\ Valid' \subseteq Nat
  <2>1. Valid' \in SUBSET Slots
    BY DEF Valid, Entries
  <2>2. QED
    BY <2>1, SlotFacts, FS_Subset
<1>2. IsFiniteSet(U) /\ IsFiniteSet(S) /\ S \subseteq Nat
  <2>1. U \in SUBSET Valid' /\ S \in SUBSET Valid'
    BY DEF UpTo, OfType
  <2>2. QED
    BY <1>1, <2>1, FS_Subset
<1>3. \A i \in Valid' : \E s \in 1 .. Len(Types) : Types[s] = enumerated_devices'[i].product /\ TypeOf(i)' = s
  <2>1. TAKE i \in Valid'
  <2>2. PICK s \in 1 .. Len(Types) : Types[s] = enumerated_devices'[i].product
    BY DEF TableSound
  <2>3. TypeOf(i)' = s
    BY <2>2, TypeUnique DEF TypeOf, TypeNamed
  <2>4. QED
    BY <2>2, <2>3
<1>4. S = {i \in Valid' : enumerated_devices'[i].product = Types[t]}
  <2>1. \A i \in Valid' : TypeOf(i)' = t <=> enumerated_devices'[i].product = Types[t]
    BY <1>3, WrapperTypesAssumption
  <2>2. QED
    BY <2>1 DEF OfType
<1>5. \A f : f \in probed'.ids <=> \E i \in S : enumerated_devices'[i].deviceID = f
  BY <1>4 DEF Grows, ProbeFinds
<1>6. Found = Cardinality(S)
  <2> DEFINE g == [i \in S |-> enumerated_devices'[i].deviceID]
  <2>1. /\ \A i \in S : g[i] \in probed'.ids
        /\ \A f \in probed'.ids : \E i \in S : g[i] = f
    BY <1>5
  <2>2. \A i, j \in S : g[i] = g[j] => i = j
    BY <1>4 DEF UsbInv, TableConsistent, EntriesDiffer
  <2>3. g \in Bijection(S, probed'.ids)
    BY <2>1, <2>2, Fun_IsBij
  <2> HIDE DEF g
  <2>4. ExistsBijection(S, probed'.ids)
    BY <2>3 DEF ExistsBijection
  <2>5. QED
    BY <1>2, <2>4, FS_Bijection DEF Found
<1>7. U = UpTo(t)
  BY NamesGrow
<1>8. UpTo(t + 1)' = U \cup S /\ U \cap S = {}
  <2>1. \A i \in Valid' : TypeOf(i)' \in Int
    BY <1>3
  <2>2. \A i \in Valid' : /\ TypeOf(i)' < t + 1 <=> TypeOf(i)' < t \/ TypeOf(i)' = t
                          /\ ~(TypeOf(i)' < t /\ TypeOf(i)' = t)
    BY <2>1
  <2>3. QED
    BY <2>2 DEF UpTo, OfType
<1>9. t = Len(Types) => UpTo(t + 1)' = Valid'
  BY <1>3 DEF UpTo
<1> HIDE DEF S, U
<1>10. Cardinality(U) \in Nat /\ Cardinality(S) \in Nat
  BY <1>2, FS_CardinalityType
<1>11. Cardinality(U \cup S) = Cardinality(U) + Cardinality(S)
  <2>1. Cardinality({}) = 0
    BY FS_EmptySet
  <2>2. Cardinality(U \cup S) = Cardinality(U) + Cardinality(S) - Cardinality({})
    BY <1>2, <1>8, FS_Union
  <2>3. QED
    BY <1>10, <2>1, <2>2
<1>12. QED
  BY <1>2, <1>5, <1>6, <1>7, <1>8, <1>9, <1>10, <1>11 DEF S, U

\* And the device taken is the one the index names.
LEMMA InstanceNamed ==
  ASSUME IndexInv, UsbInv', TableSound', NEW t \in 1 .. Len(Types), Grows(Types[t]), UNCHANGED attached,
         \A s \in 1 .. t - 1 : Complete(s), call.found = Cardinality(UpTo(t)),
         call.found <= call.index, instanceIndex < Found,
         NEW k, k = call.index, NEW id, id = Instance(probed'.ids)
  PROVE  Names(k, id)'
<1> DEFINE S == OfType(t)'
<1> DEFINE ids == probed'.ids
<1> DEFINE slot(f) == CHOOSE i \in Slots : enumerated_devices'[i] # NoEntry /\ enumerated_devices'[i].deviceID = f
<1>1. /\ IsFiniteSet(UpTo(t)') /\ IsFiniteSet(S) /\ S \subseteq Nat /\ Found = Cardinality(S)
      /\ Found \in Nat /\ call.found \in Nat
      /\ \A f : f \in ids <=> \E i \in S : enumerated_devices'[i].deviceID = f
      /\ UpTo(t)' = UpTo(t)
  BY FoundCount, NamesGrow
<1>2. /\ \A i \in S : i \in Slots /\ enumerated_devices'[i] # NoEntry /\ i \in Valid' /\ TypeOf(i)' = t
      /\ \A i \in Slots : enumerated_devices'[i] # NoEntry => i \in Valid'
  BY DEF OfType, Valid, Entries
<1>3. \A i, j \in Valid' : enumerated_devices'[i].deviceID = enumerated_devices'[j].deviceID => i = j
  BY DEF UsbInv, TableConsistent, EntriesDiffer
<1>4. \A i \in S : slot(enumerated_devices'[i].deviceID) = i
  BY <1>2, <1>3
<1>5. {i \in Entries(enumerated_devices') : enumerated_devices'[i].deviceID \in ids} = S
  <2>1. Entries(enumerated_devices') = Valid'
    BY DEF Valid
  <2>2. S \subseteq Valid'
    BY DEF OfType
  <2>3. QED
    BY <1>1, <1>3, <2>1, <2>2
<1>6. Instance(ids) = CHOOSE f \in ids : Rank(S, slot(f)) = instanceIndex + 1
  BY <1>5 DEF Instance
<1> HIDE DEF S, ids
<1>7. instanceIndex \in Nat /\ call.index = call.found + instanceIndex
  <2>1. call.index \in Nat
    BY CallFacts DEF IndexInv
  <2>2. QED
    BY <1>1, <2>1 DEF instanceIndex
<1>8. PICK x \in S : Rank(S, x) = instanceIndex + 1
  <2>1. instanceIndex + 1 \in 1 .. Cardinality(S)
    BY <1>1, <1>7
  <2>2. QED
    BY <1>1, <2>1, RankOnto
<1>9. \E f \in ids : Rank(S, slot(f)) = instanceIndex + 1
  <2>1. enumerated_devices'[x].deviceID \in ids /\ slot(enumerated_devices'[x].deviceID) = x
    BY <1>1, <1>4
  <2> HIDE DEF slot
  <2>2. QED
    BY <1>8, <2>1
<1>10. Instance(ids) \in ids /\ Rank(S, slot(Instance(ids))) = instanceIndex + 1
  BY <1>6, <1>9
<1> HIDE DEF slot
<1>11. PICK i \in S : enumerated_devices'[i].deviceID = Instance(ids)
  BY <1>1, <1>10
<1>12. Rank(S, i) = instanceIndex + 1
  BY <1>4, <1>10, <1>11
<1> DEFINE B == {j \in S : j < i}
<1>13. Cardinality(B) = instanceIndex /\ IsFiniteSet(B)
  <2>1. B \in SUBSET S /\ i \notin B /\ {j \in S : j <= i} = B \cup {i}
    <3>1. i \in Nat /\ \A j \in S : j \in Nat
      BY <1>1
    <3>2. ~(i < i) /\ \A j \in S : j <= i <=> j < i \/ j = i
      BY <3>1
    <3>3. QED
      BY <3>2
  <2> HIDE DEF B
  <2>2. IsFiniteSet(B)
    BY <1>1, <2>1, FS_Subset
  <2>3. Cardinality(B \cup {i}) = Cardinality(B) + 1 /\ Cardinality(B) \in Nat
    BY <2>1, <2>2, FS_AddElement, FS_CardinalityType
  <2>4. Rank(S, i) = Cardinality(B \cup {i})
    BY <2>1 DEF Rank
  <2>5. QED
    BY <1>7, <1>12, <2>2, <2>3, <2>4
<1>14. {j \in Valid : Before(j, i)}' = UpTo(t)' \cup B /\ UpTo(t)' \cap B = {}
  <2>1. TypeOf(i)' = t
    BY <1>2
  <2>2. \A j \in Valid' : Before(j, i)' <=> TypeOf(j)' < t \/ (TypeOf(j)' = t /\ j < i)
    BY <2>1 DEF Before
  <2>3. UpTo(t)' = {j \in Valid' : TypeOf(j)' < t} /\ S = {j \in Valid' : TypeOf(j)' = t}
    BY DEF UpTo, OfType, S
  <2>4. QED
    BY <2>2, <2>3
<1>15. IndexOf(i)' = k
  <2>1. IndexOf(i)' = Cardinality(UpTo(t)' \cup B)
    BY <1>14 DEF IndexOf
  <2>2. Cardinality({}) = 0 /\ Cardinality(UpTo(t)') = call.found
    BY <1>1, FS_EmptySet
  <2> HIDE DEF B
  <2>3. Cardinality(UpTo(t)' \cup B) = Cardinality(UpTo(t)') + Cardinality(B) - Cardinality({})
    BY <1>1, <1>13, <1>14, FS_Union
  <2>4. QED
    BY <1>1, <1>7, <1>13, <2>1, <2>2, <2>3
<1>16. \A s \in 1 .. TypeOf(i)' : Complete(s)'
  <2>1. \A s : (Complete(s) \/ s = t) => Complete(s)'
    BY GrownTypes
  <2>2. TypeOf(i)' = t /\ t \in Int
    BY <1>2
  <2>3. \A s \in 1 .. t : s \in 1 .. t - 1 \/ s = t
    BY <2>2
  <2>4. QED
    BY <2>1, <2>2, <2>3
<1>17. i \in Valid'
  BY <1>2
<1>18. QED
  BY <1>11, <1>15, <1>16, <1>17 DEF Names, ids

LEMMA SettledKept ==
  /\ \A c \in Calls : c.settled \in BOOLEAN
  /\ \A c \in Calls : \A a : [c EXCEPT !.at = a].settled = c.settled
  /\ \A c \in Calls : \A x, y : [c EXCEPT !.type = x, !.found = y].settled = c.settled
  /\ \A c \in Calls : ~[c EXCEPT !.settled = FALSE].settled
  /\ ~Idle.settled /\ ~[Idle EXCEPT !.at = "down"].settled /\ ~NoResult.settled
  BY DEF Calls, Idle, NoResult

\* A step that touches neither the bus nor more of the table than handles.
LEMMA QuietIndex ==
  ASSUME IndexInv, IInv', TableKept, UNCHANGED <<attached, fresh>>,
         call'.settled => call.settled,
         call'.settled /\ call'.at \in Probing => call' = call,
         call'.settled /\ call'.at \in {"opening", "closing", "reopening", "storing"} =>
           /\ call.at \in {"opening", "closing", "reopening", "storing"}
           /\ call'.index = call.index /\ dev'.location = dev.location,
         result'.settled => result.settled \/ call.settled,
         result'.settled /\ result'.end = "exhausted" => result' = result,
         \A k \in steady' : \/ k \in steady /\ devices'[k] = devices[k]
                            \/ /\ call.settled /\ call.at = "storing"
                               /\ k = call.index /\ devices'[k].location = dev.location
  PROVE  IndexInv'
<1>1. /\ \A t : Complete(t)' <=> Complete(t)
      /\ \A t : UpTo(t)' = UpTo(t)
      /\ \A k, id : Names(k, id) => Names(k, id)'
      /\ \A i \in Valid : RightAt(i)' <=> RightAt(i)
      /\ Unmarked' <=> Unmarked
      /\ FitsTable' <=> FitsTable
  BY NamesKept
<1>2. Settled' <=> Settled
  BY DEF Settled
<1>3. /\ Valid' = Valid
      /\ \A i \in Valid : enumerated_devices'[i].product = enumerated_devices[i].product
  BY DEF TableKept
<1>4. TableSound'
  BY <1>1, <1>2, <1>3 DEF IndexInv, TableSound
<1>5. call'.settled \/ result'.settled \/ steady' # {} => Settled'
  BY <1>2 DEF IndexInv
<1>6. ASSUME FitsTable PROVE CallPlaced' /\ Swept' /\ SteadyNamed'
  <2>1. CallPlaced /\ Swept /\ SteadyNamed
    BY <1>6 DEF IndexInv
  <2>2. ASSUME call'.settled, call'.at \in Probing, NEW s, s = call'.type
        PROVE  /\ \A t \in 1 .. s - 1 : Complete(t)'
               /\ call'.found = Cardinality(UpTo(s)')
    <3>1. s = call.type /\ call'.found = call.found /\ call.settled /\ call.at \in Probing
      BY <2>2
    <3>2. (\A t \in 1 .. s - 1 : Complete(t)) /\ call.found = Cardinality(UpTo(s))
      BY <2>1, <3>1 DEF CallPlaced
    <3>3. QED
      BY <1>1, <3>1, <3>2
  <2>3. ASSUME NEW k, NEW id, k = call'.index, id = dev'.location,
               call'.settled, call'.at \in {"opening", "closing", "reopening", "storing"}
        PROVE  Names(k, id)'
    <3>1. Names(k, id)
      BY <2>1, <2>3 DEF CallPlaced
    <3>2. QED
      BY <1>1, <3>1
  <2>4. CallPlaced'
    BY <2>2, <2>3 DEF CallPlaced
  <2>5. Swept'
    BY <1>1, <1>3, <2>1 DEF Swept
  <2>6. ASSUME NEW k \in steady', NEW id, id = devices'[k].location PROVE Names(k, id)'
    <3>1. Names(k, id)
      BY <2>1, <2>6 DEF SteadyNamed, CallPlaced
    <3>2. QED
      BY <1>1, <3>1
  <2>7. SteadyNamed'
    BY <2>6 DEF SteadyNamed
  <2>8. QED
    BY <2>4, <2>5, <2>7
<1>7. QED
  BY <1>1, <1>4, <1>5, <1>6 DEF IndexInv

LEMMA BusChangesIndex ==
  ASSUME IndexInv, IInv', BusChanges
  PROVE  IndexInv'
<1>1. /\ Hotplug /\ fresh' = {} /\ steady' = {} /\ call' = [call EXCEPT !.settled = FALSE]
      /\ result' = NoResult
  BY DEF BusChanges
<1>2. TableKept
  BY <1>1, OthersKeepTable DEF IndexInv, IInv
<1>3. ~call'.settled /\ ~result'.settled
  BY <1>1, CallFacts, SettledKept DEF IndexInv
<1>4. \A i \in Valid' : \E t \in 1 .. Len(Types) : Types[t] = enumerated_devices'[i].product
  BY <1>2 DEF TableKept, IndexInv, TableSound
<1>5. Settled' => Valid' = {}
  BY <1>1, <1>4 DEF Settled
<1>6. TableSound'
  BY <1>1, <1>4, <1>5 DEF TableSound, Unmarked
<1>7. CallPlaced' /\ Swept' /\ SteadyNamed'
  BY <1>1, <1>3 DEF CallPlaced, Swept, SteadyNamed
<1>8. QED
  BY <1>1, <1>3, <1>6, <1>7 DEF IndexInv

LEMMA OpenSpectrometerIndex ==
  ASSUME IndexInv, IInv', NEW k \in Indexes, OpenSpectrometer(k)
  PROVE  IndexInv'
<1>1. /\ call' = [at |-> "counting", index |-> k, type |-> 1, found |-> 0, settled |-> Settled]
      /\ result' = NoResult /\ UNCHANGED <<devices, fresh, steady>> /\ UNCHANGED usbVars
  BY DEF OpenSpectrometer
<1>2. TableKept /\ UNCHANGED attached
  BY <1>1, OthersKeepTable DEF IndexInv, IInv, usbVars, busVars
<1>3. /\ \A t : UpTo(t)' = UpTo(t)
      /\ \A j, id : Names(j, id) => Names(j, id)'
      /\ \A i \in Valid : RightAt(i)' <=> RightAt(i)
      /\ Unmarked' <=> Unmarked
      /\ FitsTable' <=> FitsTable
  BY <1>2, NamesKept
<1>4. Settled' <=> Settled
  BY <1>1 DEF Settled
<1>5. TableSound'
  BY <1>1, <1>2, <1>3, <1>4 DEF IndexInv, TableSound, TableKept
<1>6. UpTo(1)' = {}
  <2>1. \A i \in Valid : TypeOf(i) \in 1 .. Len(Types) /\ Len(Types) \in Nat
    BY TypeOfFacts, TypeFacts DEF IndexInv
  <2>2. \A i \in Valid : ~(TypeOf(i) < 1)
    BY <2>1
  <2>3. QED
    BY <1>3, <2>2 DEF UpTo
<1>7. CallPlaced'
  <2>1. call'.at = "counting" /\ call'.type = 1 /\ call'.found = 0
    BY <1>1
  <2>2. Cardinality(UpTo(1)') = 0
    BY <1>6, FS_EmptySet
  <2>3. QED
    BY <2>1, <2>2 DEF CallPlaced
<1>8. ~result'.settled
  BY <1>1, SettledKept
<1>9. FitsTable => SteadyNamed'
  BY <1>1, <1>3 DEF IndexInv, SteadyNamed
<1>10. call'.settled = Settled
  BY <1>1
<1>11. QED
  BY <1>1, <1>3, <1>4, <1>5, <1>7, <1>8, <1>9, <1>10 DEF IndexInv, Swept

\* A probe, when what the call makes of it is right.
LEMMA ProbeIndex ==
  ASSUME IndexInv, IInv', ~fault, call.at \in Probing, Probe, UNCHANGED <<devices, steady>>,
         call'.settled => call.settled,
         result'.settled => result.settled \/ call.settled,
         call.settled /\ FitsTable => CallPlaced' /\ (Swept' \/ result' = result),
         ~call.settled => result' = result \/ ~result'.settled
  PROVE  IndexInv'
<1>1. /\ TableSound' /\ (Settled => Settled') /\ UNCHANGED attached /\ (FitsTable' <=> FitsTable)
      /\ Settled /\ FitsTable => Grows(Types[call.type])
  BY ProbeSound
<1>2. call'.settled \/ result'.settled \/ steady' # {} => Settled'
  BY <1>1 DEF IndexInv
<1>3. call.type \in 1 .. Len(Types) /\ UsbInv'
  BY CallFacts DEF IndexInv, WellPlaced, IInv
<1>4. ASSUME FitsTable PROVE CallPlaced' /\ Swept' /\ SteadyNamed'
  <2>1. CallPlaced'
    <3>1. ~call'.settled => CallPlaced'
      BY DEF CallPlaced
    <3>2. QED
      BY <1>4, <3>1
  <2>2. Settled => /\ \A s : Complete(s) => Complete(s)'
                   /\ \A i \in Valid' \ Valid : ~Complete(call.type)
                   /\ Valid \subseteq Valid'
                   /\ \A k, id : Names(k, id) => Names(k, id)'
    BY <1>1, <1>3, <1>4, GrownTypes, NamesGrow DEF Grows
  <2>3. Swept'
    <3>1. CASE Swept' \/ ~result'.settled
      BY <3>1 DEF Swept
    <3>2. CASE result' = result /\ result.settled
      <4>1. Settled /\ Swept
        BY <1>4, <3>2 DEF IndexInv
      <4>2. result.end = "exhausted" => Valid' = Valid
        BY <1>3, <2>2, <3>2, <4>1 DEF Swept
      <4>3. QED
        BY <2>2, <3>2, <4>1, <4>2 DEF Swept
    <3>3. QED
      BY <1>4, <3>1, <3>2
  <2>4. SteadyNamed'
    <3>1. steady # {} => Settled
      BY DEF IndexInv
    <3>2. \A k \in steady : Names(k, devices[k].location)
      BY <1>4 DEF IndexInv, SteadyNamed
    <3>3. ASSUME NEW k \in steady', NEW id, id = devices'[k].location PROVE Names(k, id)'
      BY <2>2, <3>1, <3>2, <3>3
    <3>4. QED
      BY <3>3 DEF SteadyNamed
  <2>5. QED
    BY <2>1, <2>3, <2>4
<1>5. QED
  BY <1>1, <1>2, <1>4 DEF IndexInv

\* The three steps that probe.
LEMMA CountIndex ==
  ASSUME IndexInv, IInv', ~fault, Count
  PROVE  IndexInv'
<1>0. PICK t : t = call.type
  OBVIOUS
<1>1. /\ call.at = "counting" /\ Probe /\ UNCHANGED <<devices, steady>>
      /\ call \in Calls /\ result \in Results /\ UsbInv'
  BY CallFacts DEF Count, IndexInv, IInv
<1>2. t \in 1 .. Len(Types) /\ call.found <= call.index /\ Len(Types) \in Nat
  BY <1>0, <1>1, CallFacts, TypeFacts DEF IndexInv, WellPlaced, Probing
<1>3. TableSound' /\ UNCHANGED attached /\ (Settled /\ FitsTable => Grows(Types[t]))
  BY <1>0, <1>1, ProbeSound DEF Probing
<1>4. ASSUME call.settled, FitsTable
      PROVE  /\ \A s \in 1 .. t : Complete(s)'
             /\ call.found = Cardinality(UpTo(t)')
             /\ Cardinality(UpTo(t + 1)') = call.found + Found
             /\ t = Len(Types) => UpTo(t + 1)' = Valid'
  <2>1. Settled /\ CallPlaced
    BY <1>4 DEF IndexInv
  <2>2. Grows(Types[t])
    BY <1>3, <1>4, <2>1
  <2>3. (\A s \in 1 .. t - 1 : Complete(s)) /\ call.found = Cardinality(UpTo(t))
    BY <1>0, <1>1, <1>4, <2>1 DEF CallPlaced, Probing
  <2>4. \A s : Complete(s) \/ s = t => Complete(s)'
    BY <1>1, <1>2, <1>3, <2>2, GrownTypes
  <2>5. \A s \in 1 .. t : s \in 1 .. t - 1 \/ s = t
    BY <1>2
  <2>6. \A s \in 1 .. t : Complete(s)'
    BY <2>3, <2>4, <2>5
  <2>7. UpTo(t)' = UpTo(t)
    BY <1>1, <1>2, <1>3, <2>2, NamesGrow
  <2>8. /\ Cardinality(UpTo(t + 1)') = Cardinality(UpTo(t)) + Found
        /\ t = Len(Types) => UpTo(t + 1)' = Valid'
    BY <1>1, <1>2, <1>3, <2>2, FoundCount
  <2>9. QED
    BY <2>3, <2>6, <2>7, <2>8
<1>5. CASE UNCHANGED <<dev, result>> /\ call' = [call EXCEPT !.at = "recounting"]
  <2>1. call'.settled = call.settled /\ call'.at = "recounting" /\ call'.type = t /\ call'.found = call.found
    BY <1>0, <1>1, <1>5 DEF Calls
  <2>2. call.settled /\ FitsTable => CallPlaced'
    <3>1. ASSUME call.settled, FitsTable, NEW s, s = call'.type
          PROVE  (\A r \in 1 .. s - 1 : Complete(r)') /\ call'.found = Cardinality(UpTo(s)')
      BY <1>2, <1>4, <2>1, <3>1
    <3>2. QED
      BY <2>1, <3>1 DEF CallPlaced
  <2>3. QED
    BY <1>1, <1>5, <2>1, <2>2, ProbeIndex DEF Probing
<1>6. CASE UNCHANGED <<dev, result>> /\ call' = Skip
  <2>1. /\ call'.settled = call.settled /\ call'.at = "counting"
        /\ call'.type = t + 1 /\ call'.found = call.found + Found
    <3>1. Found \in Nat /\ t <= Len(Types)
      BY <1>0, <1>1, <1>2, ProbeFacts DEF IndexInv, Probing
    <3>2. QED
      BY <1>0, <1>1, <1>2, <1>6, <3>1 DEF Calls, Skip
  <2>2. call.settled /\ FitsTable => CallPlaced'
    <3>1. ASSUME call.settled, FitsTable, NEW s, s = call'.type
          PROVE  (\A r \in 1 .. s - 1 : Complete(r)') /\ call'.found = Cardinality(UpTo(s)')
      <4>1. s = t + 1 /\ s - 1 = t
        BY <1>2, <2>1, <3>1
      <4>2. QED
        BY <1>4, <2>1, <3>1, <4>1
    <3>2. QED
      BY <2>1, <3>1 DEF CallPlaced
  <2>3. QED
    BY <1>0, <1>1, <1>6, <2>1, <2>2, ProbeIndex DEF Probing
<1>7. CASE Ends("exhausted") /\ t = Len(Types) /\ Found + call.found <= call.index
  <2>1. /\ ~call'.settled /\ result'.index = call.index /\ result'.end = "exhausted"
        /\ result'.settled = call.settled
    BY <1>7, SettledKept DEF Ends
  <2>2. CallPlaced'
    BY <2>1 DEF CallPlaced
  <2>3. call.settled /\ FitsTable => Swept'
    <3>1. ASSUME call.settled, FitsTable
          PROVE  (\A s \in 1 .. Len(Types) : Complete(s)') /\ Cardinality(Valid') <= call.index
      <4>1. Found \in Nat /\ call.found \in Nat
        BY <1>1, ProbeFacts, CallFacts DEF IndexInv, Probing
      <4>2. QED
        BY <1>4, <1>7, <3>1, <4>1
    <3>2. QED
      BY <2>1, <3>1 DEF Swept
  <2>4. QED
    BY <1>1, <2>1, <2>2, <2>3, ProbeIndex DEF Probing
<1>8. t < Len(Types) \/ t = Len(Types)
  BY <1>2
<1>9. QED
  BY <1>0, <1>5, <1>6, <1>7, <1>8 DEF Count

LEMMA RecountIndex ==
  ASSUME IndexInv, IInv', ~fault, Recount \/ Locate
  PROVE  IndexInv'
<1>0. PICK t : t = call.type
  OBVIOUS
<1>1. /\ call.at \in {"recounting", "locating"} /\ Probe /\ UNCHANGED <<devices, steady>>
      /\ call \in Calls /\ result \in Results /\ UsbInv'
  BY CallFacts DEF Recount, Locate, IndexInv, IInv
<1>2. t \in 1 .. Len(Types) /\ call.found <= call.index /\ Len(Types) \in Nat
  BY <1>0, <1>1, CallFacts, TypeFacts DEF IndexInv, WellPlaced, Probing
<1>3. TableSound' /\ UNCHANGED attached /\ (Settled /\ FitsTable => Grows(Types[t]))
  BY <1>0, <1>1, ProbeSound DEF Probing
<1>4. ASSUME call.settled, FitsTable
      PROVE  /\ Grows(Types[t])
             /\ (\A s \in 1 .. t - 1 : Complete(s)) /\ call.found = Cardinality(UpTo(t))
  <2>1. Settled /\ CallPlaced
    BY <1>4 DEF IndexInv
  <2>2. QED
    BY <1>0, <1>1, <1>3, <1>4, <2>1 DEF CallPlaced, Probing
<1>5. CASE Recount /\ UNCHANGED <<dev, result>> /\ call' = [call EXCEPT !.at = "locating"]
  <2>1. call'.settled = call.settled /\ call'.at = "locating" /\ call'.type = t /\ call'.found = call.found
    BY <1>0, <1>1, <1>5 DEF Calls
  <2>2. call.settled /\ FitsTable => CallPlaced'
    <3>1. ASSUME call.settled, FitsTable, NEW s, s = call'.type
          PROVE  (\A r \in 1 .. s - 1 : Complete(r)') /\ call'.found = Cardinality(UpTo(s)')
      <4>1. s = t
        BY <2>1, <3>1
      <4>2. Grows(Types[t]) /\ (\A r \in 1 .. t - 1 : Complete(r)) /\ call.found = Cardinality(UpTo(t))
        BY <1>4, <3>1
      <4>3. UpTo(t)' = UpTo(t)
        BY <1>1, <1>2, <1>3, <4>2, NamesGrow
      <4>4. \A r : Complete(r) => Complete(r)'
        BY <1>1, <1>2, <1>3, <4>2, GrownTypes
      <4>5. QED
        BY <2>1, <4>1, <4>2, <4>3, <4>4
    <3>2. QED
      BY <2>1, <3>1 DEF CallPlaced
  <2>3. QED
    BY <1>1, <1>5, <2>1, <2>2, ProbeIndex DEF Probing
<1>6. CASE Locate /\ instanceIndex < Found /\ UNCHANGED result
           /\ call' = [call EXCEPT !.at = "opening"]
           /\ dev' = [NULL EXCEPT !.location = Instance(probed'.ids)]
  <2>1. /\ call'.settled = call.settled /\ call'.at = "opening" /\ call'.index = call.index
        /\ dev'.location = Instance(probed'.ids)
    <3>1. call'.settled = call.settled /\ call'.at = "opening" /\ call'.index = call.index
      BY <1>1, <1>6 DEF Calls
    <3>2. dev'.location = Instance(probed'.ids)
      BY <1>6 DEF NULL
    <3>3. QED
      BY <3>1, <3>2
  <2>2. call.settled /\ FitsTable => CallPlaced'
    <3>1. ASSUME call.settled, FitsTable, NEW k, k = call'.index, NEW id, id = dev'.location
          PROVE  Names(k, id)'
      <4>1. k = call.index /\ id = Instance(probed'.ids)
        BY <2>1, <3>1
      <4>2. Grows(Types[t]) /\ (\A r \in 1 .. t - 1 : Complete(r)) /\ call.found = Cardinality(UpTo(t))
        BY <1>4, <3>1
      <4>3. QED
        BY <1>0, <1>1, <1>2, <1>3, <1>6, <4>1, <4>2, InstanceNamed
    <3>2. QED
      BY <2>1, <3>1 DEF CallPlaced, Probing
  <2>3. QED
    BY <1>0, <1>1, <1>6, <2>1, <2>2, ProbeIndex DEF Probing
<1>7. CASE Ends("failed")
  <2>1. ~call'.settled /\ result'.end = "failed" /\ result'.settled = call.settled
    BY <1>7, SettledKept DEF Ends
  <2>2. CallPlaced' /\ Swept'
    BY <2>1 DEF CallPlaced, Swept
  <2>3. QED
    BY <1>1, <2>1, <2>2, ProbeIndex DEF Probing
<1>8. QED
  BY <1>5, <1>6, <1>7 DEF Recount, Locate

-----------------------------------------------------------------------------
(* The other steps leave the bus and what the table says of it alone.      *)

Quiet ==
  \/ UNCHANGED usbVars
  \/ \E id : USBOpen(id)
  \/ \E h : USBClose(h) \/ Transfer(h)

LEMMA QuietKeeps ==
  ASSUME IndexInv, Quiet
  PROVE  TableKept /\ UNCHANGED attached
<1>1. UsbInv
  BY DEF IndexInv, IInv
<1>2. TableKept
  BY <1>1, OthersKeepTable DEF Quiet
<1>3. UNCHANGED attached
  BY DEF Quiet, usbVars, busVars, USBOpen, USBClose, Transfer
<1>4. QED
  BY <1>2, <1>3

Underway == {"opening", "closing", "reopening", "storing"}

\* Nothing of the call moves, and what is not closed stays open.
LEMMA IdleIndex ==
  ASSUME IndexInv, IInv', Quiet, UNCHANGED <<dev, result, fresh>>,
         call' = call \/ ~call'.settled,
         \A k \in steady' : k \in steady /\ devices'[k] = devices[k]
  PROVE  IndexInv'
<1>1. TableKept /\ UNCHANGED attached
  BY QuietKeeps
<1>2. call'.settled => call' = call
  OBVIOUS
<1>3. QED
  BY <1>1, <1>2, QuietIndex

\* An index is closed: it is no longer one of those that name a device.
LEMMA ClosedIndex ==
  ASSUME IndexInv, IInv', NEW k \in Indexes, USBClose(devices[k].descriptor),
         devices' = [devices EXCEPT ![k] = NULL], steady' = steady \ {k},
         UNCHANGED <<call, dev, result, fresh>>
  PROVE  IndexInv'
<1>1. Quiet
  BY DEF Quiet
<1>2. devices \in [Indexes -> Device] /\ steady \subseteq Indexes
  BY TypeFacts, CallFacts DEF IndexInv
<1>3. \A j \in steady' : j \in steady /\ devices'[j] = devices[j]
  BY <1>2
<1>4. QED
  BY <1>1, <1>3, IdleIndex

\* The device is opened, closed and opened again: it stays the device that
\* the index names.
LEMMA OpeningIndex ==
  ASSUME IndexInv, IInv', call.at \in Underway, Quiet, UNCHANGED <<devices, fresh, steady>>,
         \/ /\ \E a \in Underway : call' = [call EXCEPT !.at = a]
            /\ result' = result
            /\ dev'.location = dev.location
         \/ Ends("failed")
  PROVE  IndexInv'
<1>1. TableKept /\ UNCHANGED attached
  BY QuietKeeps
<1>2. call \in Calls
  BY CallFacts DEF IndexInv
<1>3. CASE /\ \E a \in Underway : call' = [call EXCEPT !.at = a]
           /\ result' = result
           /\ dev'.location = dev.location
  <2>1. PICK a \in Underway : call' = [call EXCEPT !.at = a]
    BY <1>3
  <2>2. call'.at = a /\ call'.index = call.index /\ call'.settled = call.settled
    BY <1>2, <2>1 DEF Calls
  <2>3. call'.at \notin Probing
    BY <2>2 DEF Probing, Underway
  <2>4. QED
    BY <1>1, <1>3, <2>2, <2>3, QuietIndex DEF Underway
<1>4. CASE Ends("failed")
  <2>1. ~call'.settled /\ result'.settled = call.settled /\ result'.end = "failed"
    BY <1>4, SettledKept DEF Ends
  <2>2. QED
    BY <1>1, <2>1, QuietIndex
<1>5. QED
  BY <1>3, <1>4

\* The device opened takes its index.
LEMMA StoreIndex ==
  ASSUME IndexInv, IInv', Store
  PROVE  IndexInv'
<1>1. /\ call.at = "storing" /\ CloseDescriptor(devices[call.index].descriptor)
      /\ devices' = [devices EXCEPT ![call.index] = dev] /\ Ends("opened") /\ fresh' = fresh
      /\ steady' = IF call.settled THEN steady \cup {call.index} ELSE steady \ {call.index}
  BY DEF Store
<1>2. TableKept /\ UNCHANGED attached
  <2>1. Quiet
    BY <1>1 DEF CloseDescriptor, Quiet
  <2>2. QED
    BY <2>1, QuietKeeps
<1>3. /\ ~call'.settled /\ dev' = NULL /\ result'.settled = call.settled /\ result'.end = "opened"
  BY <1>1, SettledKept DEF Ends
<1>4. PICK c : c = call.index
  OBVIOUS
<1>5. ASSUME FitsTable PROVE SteadyNamed'
  <2>1. CallPlaced /\ SteadyNamed
    BY <1>5 DEF IndexInv
  <2>2. devices \in [Indexes -> Device] /\ steady \subseteq Indexes /\ c \in Indexes
    BY <1>1, <1>4, TypeFacts, CallFacts DEF IndexInv, WellPlaced
  <2>3. \A k, id : Names(k, id) => Names(k, id)'
    BY <1>2, NamesKept
  <2>4. ASSUME NEW k \in steady', NEW id, id = devices'[k].location PROVE Names(k, id)'
    <3>1. CASE k = c /\ call.settled
      <4>1. id = dev.location
        BY <1>1, <1>4, <2>2, <2>4, <3>1
      <4>2. Names(k, id)
        BY <1>1, <1>4, <2>1, <3>1, <4>1 DEF CallPlaced
      <4>3. QED
        BY <2>3, <4>2
    <3>2. CASE k # c
      <4>1. k \in steady /\ id = devices[k].location
        BY <1>1, <1>4, <2>2, <2>4, <3>2
      <4>2. QED
        BY <2>1, <2>3, <4>1 DEF SteadyNamed
    <3>3. k # c \/ call.settled
      BY <1>1, <1>4
    <3>4. QED
      BY <3>1, <3>2, <3>3
  <2>5. QED
    BY <2>4 DEF SteadyNamed
<1>6. /\ Settled' <=> Settled
      /\ call.settled \/ steady # {} => Settled
  BY <1>1 DEF IndexInv, Settled
<1>7. call'.settled \/ result'.settled \/ steady' # {} => Settled'
  <2>1. steady' # {} => call.settled \/ steady # {}
    BY <1>1
  <2>2. QED
    BY <1>3, <1>6, <2>1
<1>8. TableSound' /\ (FitsTable' <=> FitsTable)
  <2>1. /\ \A i \in Valid : RightAt(i)' <=> RightAt(i)
        /\ Unmarked' <=> Unmarked
        /\ FitsTable' <=> FitsTable
    BY <1>2, NamesKept
  <2>2. /\ Valid' = Valid
        /\ \A i \in Valid : enumerated_devices'[i].product = enumerated_devices[i].product
    BY <1>2 DEF TableKept
  <2>3. TableSound'
    BY <1>1, <1>6, <2>1, <2>2 DEF IndexInv, TableSound
  <2>4. QED
    BY <2>1, <2>3
<1>9. CallPlaced' /\ Swept'
  BY <1>3 DEF CallPlaced, Swept
<1>10. QED
  BY <1>5, <1>7, <1>8, <1>9 DEF IndexInv

LEMMA IndexInit == WrapperInit => IndexInv
<1> SUFFICES ASSUME WrapperInit PROVE IndexInv
  OBVIOUS
<1>1. IInv
  BY InitInv
<1>2. Valid = {} /\ steady = {} /\ call = Idle /\ result = NoResult
  BY DEF WrapperInit, UsbInit, Valid, Entries
<1>3. ~call.settled /\ ~result.settled
  BY <1>2, SettledKept
<1>4. QED
  BY <1>1, <1>2, <1>3 DEF IndexInv, TableSound, Unmarked, CallPlaced, Swept, SteadyNamed

LEMMA IndexStep ==
  ASSUME IndexInv, [WrapperNext]_vars
  PROVE  IndexInv'
<1>1. IInv'
  BY NextGood DEF IndexInv, Good
<1>2. CASE UNCHANGED vars
  <2>1. UNCHANGED usbVars /\ UNCHANGED <<devices, call, dev, result, fresh, steady>>
    BY <1>2 DEF vars, wrapperVars
  <2>2. Quiet
    BY <2>1 DEF Quiet
  <2>3. QED
    BY <1>1, <2>1, <2>2, IdleIndex
<1>3. CASE WrapperNext
  <2>1. ~fault
    BY <1>3, Zenon DEF WrapperNext
  <2>2. CASE BusChanges
    BY <1>1, <2>2, BusChangesIndex
  <2>3. ASSUME NEW k \in Indexes, OpenSpectrometer(k) PROVE IndexInv'
    BY <1>1, <2>3, OpenSpectrometerIndex
  <2>4. ASSUME NEW k \in Indexes, CloseSpectrometer(k) PROVE IndexInv'
    <3>1. /\ USBClose(devices[k].descriptor) /\ devices' = [devices EXCEPT ![k] = NULL]
          /\ steady' = steady \ {k} /\ UNCHANGED <<call, dev, result, fresh>>
      BY <2>4 DEF CloseSpectrometer
    <3>2. QED
      BY <1>1, <3>1, ClosedIndex
  <2>5. ASSUME NEW k \in Indexes, UseSpectrometer(k) PROVE IndexInv'
    <3>1. Quiet /\ UNCHANGED <<devices, call, dev, result, fresh, steady>>
      BY <2>5 DEF UseSpectrometer, Quiet, wrapperVars
    <3>2. QED
      BY <1>1, <3>1, IdleIndex
  <2>6. CASE Count
    BY <1>1, <2>1, <2>6, CountIndex
  <2>7. CASE Recount \/ Locate
    BY <1>1, <2>1, <2>7, RecountIndex
  <2>8. CASE DeviceOpen
    <3>1. /\ call.at \in Underway /\ "closing" \in Underway /\ call' = [call EXCEPT !.at = "closing"]
          /\ Quiet /\ UNCHANGED <<devices, result, fresh, steady>>
      BY <2>8 DEF DeviceOpen, OpenDescriptor, USBOpenFails, Quiet, Underway
    <3>2. dev'.location = dev.location
      BY <2>8, TypeFacts DEF DeviceOpen, OpenDescriptor, Device, IndexInv
    <3>3. QED
      BY <1>1, <3>1, <3>2, OpeningIndex
  <2>9. CASE ReopenCloses
    <3>1. /\ call.at \in Underway /\ "reopening" \in Underway
          /\ call' = [call EXCEPT !.at = "reopening"]
          /\ Quiet /\ UNCHANGED <<devices, result, fresh, steady>>
      BY <2>9 DEF ReopenCloses, CloseDescriptor, Quiet, Underway
    <3>2. dev'.location = dev.location
      BY <2>9, TypeFacts DEF ReopenCloses, Device, IndexInv
    <3>3. QED
      BY <1>1, <3>1, <3>2, OpeningIndex
  <2>10. CASE Reopen
    <3>1. /\ call.at \in Underway /\ Quiet /\ UNCHANGED <<devices, fresh, steady>>
      BY <2>10 DEF Reopen, USBOpenFails, Quiet, Underway
    <3>2. \/ /\ call' = [call EXCEPT !.at = "storing"] /\ result' = result
             /\ dev' = [dev EXCEPT !.descriptor = Len(handles')]
          \/ Ends("failed")
      BY <2>10 DEF Reopen
    <3>3. CASE /\ call' = [call EXCEPT !.at = "storing"] /\ result' = result
               /\ dev' = [dev EXCEPT !.descriptor = Len(handles')]
      <4>1. dev'.location = dev.location
        BY <3>3, TypeFacts DEF Device, IndexInv
      <4>2. \E a \in Underway : call' = [call EXCEPT !.at = a]
        BY <3>3 DEF Underway
      <4>3. QED
        BY <1>1, <3>1, <3>3, <4>1, <4>2, OpeningIndex
    <3>4. QED
      BY <1>1, <3>1, <3>2, <3>3, OpeningIndex
  <2>11. CASE Store
    BY <1>1, <2>11, StoreIndex
  <2>12. CASE Shutdown
    <3>1. Quiet /\ ~call'.settled /\ UNCHANGED <<devices, dev, result, fresh, steady>>
      BY <2>12, SettledKept DEF Shutdown, Quiet
    <3>2. QED
      BY <1>1, <3>1, IdleIndex
  <2>13. CASE ShutdownStep /\ Opened = {}
    <3>1. Quiet /\ ~call'.settled /\ UNCHANGED <<devices, dev, result, fresh, steady>>
      BY <2>13, SettledKept DEF ShutdownStep, Quiet
    <3>2. QED
      BY <1>1, <3>1, IdleIndex
  <2>14. CASE ShutdownStep /\ Opened # {}
    <3>1. PICK k \in Opened :
            /\ USBClose(devices[k].descriptor) /\ devices' = [devices EXCEPT ![k] = NULL]
            /\ steady' = steady \ {k} /\ UNCHANGED <<call, dev, result, fresh>>
      BY <2>14, ShutdownFacts DEF IndexInv
    <3>2. k \in Indexes
      BY DEF Opened
    <3>3. QED
      BY <1>1, <3>1, <3>2, ClosedIndex
  <2>15. QED
    BY <1>3, <2>2, <2>3, <2>4, <2>5, <2>6, <2>7, <2>8, <2>9, <2>10, <2>11, <2>12, <2>13, <2>14,
       Zenon DEF WrapperNext
<1>4. QED
  BY <1>2, <1>3

LEMMA IndexInductive == WrapperSpec => []IndexInv
  BY IndexInit, IndexStep, PTL DEF WrapperSpec

\* "the index used to open a device with this function should also be used to
\* communicate with that same device": on any bus that has not changed since
\* every type was probed, and that the table can hold, the index of an open
\* device is the place of that device in the order openSpectrometer counts in,
\* whatever is closed, opened or probed for in between.
THEOREM IndexesNameDevices == WrapperSpec => []IndexNamesDevice
<1>1. IndexInv => IndexNamesDevice
  BY DEF IndexInv, SteadyNamed, Names, IndexNamesDevice
<1>2. QED
  BY <1>1, IndexInductive, PTL

-----------------------------------------------------------------------------
(* A sweep. No more entries are left than indexes are open, and each open  *)
(* index has its own entry: so every entry is that of an open index.       *)

LEMMA SweptAll ==
  ASSUME IndexInv, HeldAlive, FitsTable, result.end = "exhausted", result.settled,
         0 .. result.index - 1 \subseteq Opened
  PROVE  \A i \in Valid : \E k \in Opened : enumerated_devices[i].handle = devices[k].descriptor
<1>0. PICK n : n = result.index
  OBVIOUS
<1> DEFINE D == 0 .. n - 1
<1> DEFINE entry == [k \in D |-> CHOOSE i \in Valid : enumerated_devices[i].handle = devices[k].descriptor]
<1> DEFINE R == {entry[k] : k \in D}
<1>1. n \in Nat /\ D \subseteq Opened
  <2>1. result \in Results
    BY CallFacts DEF IndexInv
  <2>2. QED
    BY <1>0, <2>1 DEF Results
<1>2. IsFiniteSet(Valid) /\ Cardinality(Valid) <= n
  <2>1. Valid \in SUBSET Slots
    BY DEF Valid, Entries
  <2>2. IsFiniteSet(Valid)
    BY <2>1, SlotFacts, FS_Subset
  <2>3. QED
    BY <1>0, <2>2 DEF IndexInv, Swept
<1>3. IsFiniteSet(D) /\ Cardinality(D) = n
  <2>1. 0 \in Int /\ n - 1 \in Int
    BY <1>1
  <2>2. IsFiniteSet(D) /\ Cardinality(D) = IF 0 > n - 1 THEN 0 ELSE n - 1 - 0 + 1
    BY <2>1, FS_Interval
  <2>3. QED
    BY <1>1, <2>2
<1> HIDE DEF D
<1>4. ASSUME NEW k \in Opened PROVE \E i \in Valid : enumerated_devices[i].handle = devices[k].descriptor
  <2>1. devices[k].descriptor \in held
    BY DEF IndexInv, IInv, DescriptorsOwned, Opened
  <2>2. devices[k].descriptor \in 1 .. Len(handles) /\ ~handles[devices[k].descriptor].freed
    BY <2>1, TypeFacts DEF IndexInv, HeldAlive
  <2>3. QED
    BY <2>2 DEF IndexInv, IInv, UsbInv, TableConsistent, HandlesTracked
<1>5. \A k \in D : entry[k] \in Valid /\ enumerated_devices[entry[k]].handle = devices[k].descriptor
  BY <1>1, <1>4
<1>6. \A j, k \in D : entry[j] = entry[k] => j = k
  <2> HIDE DEF entry
  <2>1. SUFFICES ASSUME NEW j \in D, NEW k \in D, entry[j] = entry[k] PROVE j = k
    OBVIOUS
  <2>2. devices[j].descriptor = devices[k].descriptor
    BY <1>5, <2>1
  <2>3. QED
    BY <1>1, <2>2 DEF IndexInv, IInv, DescriptorsOwned
<1>7. R \in SUBSET Valid
  BY <1>5
<1>8. entry \in Bijection(D, R)
  <2>1. /\ \A k \in D : entry[k] \in R
        /\ \A i \in R : \E k \in D : entry[k] = i
    OBVIOUS
  <2>2. QED
    BY <1>6, <2>1, Fun_IsBij
<1> HIDE DEF entry
<1>9. Cardinality(R) = n
  <2>1. ExistsBijection(D, R)
    BY <1>8 DEF ExistsBijection
  <2>2. QED
    BY <1>3, <2>1, FS_Bijection
<1> HIDE DEF R
<1>10. Cardinality(R) <= Cardinality(Valid) /\ (Cardinality(R) = Cardinality(Valid) => R = Valid)
  BY <1>2, <1>7, FS_Subset
<1>11. R = Valid
  <2>1. Cardinality(Valid) \in Nat
    BY <1>2, FS_CardinalityType
  <2>2. QED
    BY <1>1, <1>2, <1>9, <1>10, <2>1
<1>12. QED
  BY <1>1, <1>5, <1>11 DEF R

\* "repeatedly with incrementing index values (until it returns 1) to open all
\* connected devices": where no device leaves while it is open, a sweep of a
\* bus that has not changed since every type was probed leaves no device out,
\* for any bus, table and device types, whatever was open, closed or failed
\* to open before it.
THEOREM NoDeviceLeftOut == ~SurpriseRemoval => (WrapperSpec => []SweepOpensAll)
<1>1. IndexInv /\ HeldAlive => SweepOpensAll
  <2> SUFFICES ASSUME IndexInv, HeldAlive, FitsTable, result.end = "exhausted", result.settled,
                      0 .. result.index - 1 \subseteq Opened,
                      NEW l \in Locations, NEW t \in 1 .. Len(Types), attached[l] = Types[t]
               PROVE  \E i \in Valid :
                        /\ enumerated_devices[i].location = l
                        /\ \E k \in Opened : enumerated_devices[i].handle = devices[k].descriptor
    BY DEF SweepOpensAll
  <2>1. PICK i \in Valid : enumerated_devices[i].location = l
    BY DEF IndexInv, Swept, Complete
  <2>2. QED
    BY <2>1, SweptAll
<1>2. QED
  BY <1>1, IndexInductive, WrapperUsesNativeLayer, HeldHandlesLive, PTL
=============================================================================
