------------------------ MODULE DeviceRegistryProofs ------------------------
(***************************************************************************)
(* Proofs about DeviceRegistry, for any bus, any products and device types *)
(* and both ways of calling: the registry uses the native layer as its     *)
(* specification allows, the handles it holds are those of its adapters,   *)
(* no device gets two adapters, and an ID keeps its meaning.               *)
(*                                                                         *)
(* The invariant adds to these properties that no ID is ahead of the       *)
(* counter, so that an ID given out is new, also to a worker that still    *)
(* holds one of an adapter deleted since; and that the adapter a worker    *)
(* is about to open has let go of its old handle.                          *)
(*                                                                         *)
(* With a table that has room for every device of the bus the registry     *)
(* also comes to be what the bus is once that stays the same; and where no *)
(* device goes away while it is open, an open device outlives every probe. *)
(***************************************************************************)
EXTENDS DeviceRegistry, UsbNativeProofs, FunctionTheorems

\* No ID is ahead of the counter, whoever has it.
IDsGivenOut ==
  /\ \A id \in IDs : id <= lastDeviceID
  /\ \A id \in specifiedDevices : id <= lastDeviceID
  /\ worker.id <= lastDeviceID

\* Where discovery and the worker are.
Control ==
  /\ discovery.at = "probing" => discovery.type \in 1 .. Len(Types)
  /\ worker.op = "located" /\ worker.id \in IDs =>
       probedDevices[worker.id].descriptor = NoHandle

IInv == /\ UsbInv /\ RegistryTypeOK /\ IDsGivenOut /\ Control
        /\ HandlesOwned /\ OneDevicePerLocation

-----------------------------------------------------------------------------
(* Facts about the adapters.                                               *)

\* HandlesOwned, handle by handle.
Owned(devices, open) ==
  /\ \A id \in DOMAIN devices : devices[id].descriptor # NoHandle => devices[id].openedBus
  /\ \A h : h \in open <=> h # NoHandle /\ \E id \in DOMAIN devices : devices[id].descriptor = h
  /\ \A a, b \in DOMAIN devices :
       devices[a].descriptor = devices[b].descriptor => a = b \/ devices[a].descriptor = NoHandle

LEMMA OwnedNow == HandlesOwned <=> Owned(probedDevices, held)
  BY DEF HandlesOwned, OpenIsClosable, Owned, IDs

LEMMA OwnedNext == HandlesOwned' <=> Owned(probedDevices', held')
  BY DEF HandlesOwned, OpenIsClosable, Owned, IDs

LEMMA AdapterFacts ==
  ASSUME IInv
  PROVE  /\ IDs \subseteq Nat /\ probedDevices \in [IDs -> Adapter]
         /\ \A id \in IDs : /\ id \in Nat /\ probedDevices[id] \in Adapter
                            /\ probedDevices[id].descriptor \in Nat
                            /\ probedDevices[id].location \in Nat
         /\ lastDeviceID \in Nat
<1>1. IDs \subseteq Nat /\ probedDevices \in [IDs -> Adapter] /\ lastDeviceID \in Nat
  BY DEF IInv, RegistryTypeOK
<1>2. \A d \in Adapter : d.descriptor \in Nat /\ d.location \in Nat
  BY DEF Adapter
<1>3. QED
  BY <1>1, <1>2

\* A set of numbers has a least member.
LEMMA FirstFacts ==
  ASSUME NEW S, S \subseteq Nat, S # {}
  PROVE  First(S) \in S
<1>1. PICK x \in S : \A y \in S : ~(<<y, x>> \in OpToRel(<, Nat))
  BY NatLessThanWellFounded, WFMin, Zenon
<1>2. \A y \in S : ~(y < x)
  BY <1>1, Zenon DEF OpToRel
<1>3. \A y \in S : x <= y
  BY <1>2
<1>4. QED
  BY <1>3 DEF First
-----------------------------------------------------------------------------
(* What a probe adds.                                                      *)

\* One adapter with the next free ID for each of the locations S.
OneForEach(A, S, p) ==
  /\ Cardinality(S) \in Nat
  /\ DOMAIN A = lastDeviceID + 1 .. lastDeviceID + Cardinality(S)
  /\ Cardinality(DOMAIN A) = Cardinality(S)
  /\ \A id \in DOMAIN A : /\ A[id] \in Adapter /\ A[id].location \in S
                          /\ A[id].descriptor = NoHandle /\ A[id].product = p
  /\ \A a, b \in DOMAIN A : A[a].location = A[b].location => a = b
  /\ \A f \in S : \E id \in DOMAIN A : A[id].location = f

\* The new adapters get the next IDs, each for a location of its own.
LEMMA AddFacts ==
  ASSUME NEW S, S \subseteq Nat, IsFiniteSet(S), NEW p \in Products, lastDeviceID \in Nat,
         \A f \in S : \E i \in Slots : /\ enumerated_devices'[i] # NoEntry
                                   /\ enumerated_devices'[i].deviceID = f
  PROVE  OneForEach(NewAdapters(S, p), S, p)
<1> DEFINE n == Cardinality(S)
<1> DEFINE m == lastDeviceID
<1> DEFINE T == {SlotOf(g) : g \in S}
<1> DEFINE rank == [f \in S |-> Position(S, f)]
<1> DEFINE loc == [id \in m + 1 .. m + n |-> CHOOSE f \in S : m + Position(S, f) = id]
<1>1. n \in Nat /\ m \in Nat
  BY FS_CardinalityType
<1>2. \A f \in S : SlotOf(f) \in Slots /\ enumerated_devices'[SlotOf(f)].deviceID = f
  BY DEF SlotOf
<1>3. T \subseteq Nat /\ IsFiniteSet(T) /\ Cardinality(T) = n
  <2>1. T \subseteq Slots /\ Slots \subseteq Nat
    BY <1>2, TableAssumption DEF Slots
  <2> DEFINE slot == [f \in S |-> SlotOf(f)]
  <2>2. slot \in [S -> T] /\ \A a, b \in S : slot[a] = slot[b] => a = b
    BY <1>2
  <2>3. \A t \in T : \E f \in S : slot[f] = t
    OBVIOUS
  <2> HIDE DEF T, slot
  <2>4. slot \in Bijection(S, T)
    BY <2>2, <2>3, Fun_IsBij
  <2>5. ExistsBijection(S, T)
    BY <2>4 DEF ExistsBijection
  <2>6. QED
    BY <2>1, <2>5, FS_Bijection
<1>4. \A f \in S : Position(S, f) = Rank(T, SlotOf(f)) /\ SlotOf(f) \in T
  BY DEF Position
<1>3a. \A t \in T : \E f \in S : t = SlotOf(f)
  OBVIOUS
<1>3b. \A f \in S : rank[f] = Position(S, f)
  OBVIOUS
<1> HIDE DEF T, rank
<1>5. \A f \in S : rank[f] \in 1 .. n
  <2>1. \A t \in T : Rank(T, t) \in 1 .. Cardinality(T)
    BY <1>3, RankInjective
  <2>2. TAKE f \in S
  <2>3. SlotOf(f) \in T /\ rank[f] = Rank(T, SlotOf(f))
    BY <1>4, <1>3b
  <2>4. Rank(T, SlotOf(f)) \in 1 .. n
    BY <1>3, <2>1, <2>3
  <2>5. QED
    BY <2>3, <2>4
<1>6. \A k \in 1 .. n : \E f \in S : rank[f] = k
  <2>1. \A k \in 1 .. n : \E t \in T : Rank(T, t) = k
    BY <1>3, RankOnto
  <2>2. QED
    BY <1>4, <1>3b, <1>3a, <2>1
<1>8. \A id \in m + 1 .. m + n : loc[id] \in S /\ m + rank[loc[id]] = id
  <2>1. TAKE id \in m + 1 .. m + n
  <2>2. id - m \in 1 .. n /\ m + (id - m) = id
    BY <1>1
  <2>3. \E f \in S : m + rank[f] = id
    BY <1>6, <2>2
  <2>4. \E f \in S : m + Position(S, f) = id
    BY <1>3b, <2>3
  <2>5. loc[id] \in S /\ m + Position(S, loc[id]) = id
    BY <2>4
  <2> HIDE DEF loc
  <2>6. QED
    BY <1>3b, <2>5
<1>8a. \A f \in S : \E id \in m + 1 .. m + n : loc[id] = f
  <2>1. TAKE f \in S
  <2> HIDE DEF n, m
  <2>2. PICK id \in m + 1 .. m + n : id = m + rank[f]
    <3>1. \A r \in 1 .. n : m + r \in m + 1 .. m + n
      BY <1>1
    <3>2. QED
      BY <1>5, <3>1
  <2>3. loc[id] \in S /\ m + rank[loc[id]] = m + rank[f]
    BY <1>8, <2>2
  <2> HIDE DEF loc
  <2>4. rank[loc[id]] = rank[f]
    <3>1. rank[loc[id]] \in 1 .. n /\ rank[f] \in 1 .. n
      BY <1>5, <2>3
    <3>2. \A q, r \in 1 .. n : m + q = m + r => q = r
      BY <1>1
    <3>3. QED
      BY <2>3, <3>1, <3>2
  <2>5. Rank(T, SlotOf(loc[id])) = Rank(T, SlotOf(f))
    BY <1>3b, <1>4, <2>3, <2>4
  <2>6. SlotOf(loc[id]) = SlotOf(f)
    BY <1>3, <1>4, <2>3, <2>5, RankInjective
  <2>7. loc[id] = f
    BY <1>2, <2>3, <2>6
  <2>8. QED
    BY <2>7
<1> DEFINE A == NewAdapters(S, p)
<1>9. A = [id \in m + 1 .. m + n |->
            [location |-> loc[id], product |-> p, descriptor |-> NoHandle, openedBus |-> FALSE]]
  BY DEF NewAdapters, NextID
<1>10. \A id \in m + 1 .. m + n : loc[id] \in Nat
  BY <1>8
<1> HIDE DEF loc, A
<1>11. /\ DOMAIN A = m + 1 .. m + n
       /\ \A id \in m + 1 .. m + n : /\ A[id].location = loc[id] /\ A[id].descriptor = NoHandle
                                     /\ A[id].product = p /\ A[id] \in Adapter
  BY <1>9, <1>10 DEF Adapter, NoHandle
<1>12. \A a, b \in m + 1 .. m + n : loc[a] = loc[b] => a = b
  BY <1>8
<1>13. Cardinality(m + 1 .. m + n) = n
  <2>1. m + 1 \in Int /\ m + n \in Int /\ (m + 1 > m + n => n = 0) /\ (m + n) - (m + 1) + 1 = n
    BY <1>1
  <2>2. QED
    BY <2>1, FS_Interval
<1>14. QED
  BY <1>1, <1>8, <1>8a, <1>11, <1>12, <1>13 DEF A, OneForEach
-----------------------------------------------------------------------------
(* Letting go of a handle.                                                 *)

\* Same adapter but for its handle and openedBus.
Kept(d, e) == d.location = e.location /\ d.product = e.product

LEMMA AdapterUpdates ==
  /\ \A d \in Adapter : LET e == [d EXCEPT !.descriptor = NoHandle]
                       IN  /\ e \in Adapter /\ Kept(e, d) /\ e.descriptor = NoHandle
  /\ \A d \in Adapter : LET e == [d EXCEPT !.descriptor = NoHandle, !.openedBus = FALSE]
                       IN  /\ e \in Adapter /\ Kept(e, d) /\ e.descriptor = NoHandle
  /\ \A d \in Adapter, h \in Nat :
       LET e == [d EXCEPT !.descriptor = h, !.openedBus = TRUE]
       IN  e \in Adapter /\ Kept(e, d) /\ e.descriptor = h /\ e.openedBus
  BY DEF Adapter, Kept, NoHandle

\* The adapters after one of them has let go of its handle or has gone.
Released(id, devices, after) ==
  /\ DOMAIN after \in {DOMAIN devices, DOMAIN devices \ {id}}
  /\ after \in [DOMAIN after -> Adapter]
  /\ \A a \in DOMAIN after : /\ Kept(after[a], devices[a])
                             /\ a # id => after[a] = devices[a]
                             /\ a = id => after[a].descriptor = NoHandle

LEMMA ReleasedFacts ==
  ASSUME IInv, NEW id \in IDs,
         \/ probedDevices' = Without(probedDevices, id)
         \/ probedDevices' = [probedDevices EXCEPT ![id].descriptor = NoHandle]
         \/ probedDevices' = [probedDevices EXCEPT ![id].descriptor = NoHandle,
                                                   ![id].openedBus = FALSE]
  PROVE  Released(id, probedDevices, probedDevices')
<1>1. probedDevices \in [IDs -> Adapter] /\ probedDevices[id] \in Adapter
  BY AdapterFacts
<1>2. \A d \in Adapter : Kept(d, d)
  BY DEF Kept
<1>3. CASE probedDevices' = Without(probedDevices, id)
  BY <1>1, <1>2, <1>3 DEF Without, Released, IDs
<1>4. ASSUME NEW e \in Adapter, Kept(e, probedDevices[id]), e.descriptor = NoHandle,
             probedDevices' = [probedDevices EXCEPT ![id] = e]
      PROVE  Released(id, probedDevices, probedDevices')
  BY <1>1, <1>2, <1>4 DEF Released, IDs
<1>5. CASE probedDevices' = [probedDevices EXCEPT ![id].descriptor = NoHandle]
  <2> DEFINE e == [probedDevices[id] EXCEPT !.descriptor = NoHandle]
  <2>1. e \in Adapter /\ Kept(e, probedDevices[id]) /\ e.descriptor = NoHandle
    BY <1>1, AdapterUpdates
  <2>2. probedDevices' = [probedDevices EXCEPT ![id] = e]
    BY <1>5
  <2> HIDE DEF e
  <2>3. QED
    BY <1>4, <2>1, <2>2
<1>6. CASE probedDevices' = [probedDevices EXCEPT ![id].descriptor = NoHandle, ![id].openedBus = FALSE]
  <2> DEFINE e == [probedDevices[id] EXCEPT !.descriptor = NoHandle, !.openedBus = FALSE]
  <2>1. e \in Adapter /\ Kept(e, probedDevices[id]) /\ e.descriptor = NoHandle
    BY <1>1, AdapterUpdates
  <2>2. probedDevices' = [probedDevices EXCEPT ![id] = e]
    BY <1>1, <1>6 DEF IDs
  <2> HIDE DEF e
  <2>3. QED
    BY <1>4, <2>1, <2>2
<1>7. QED
  BY <1>3, <1>5, <1>6

\* Closing the descriptor of an adapter is closing a handle that is held.
LEMMA CloseFacts ==
  ASSUME IInv, NEW id \in IDs, CloseDescriptor(probedDevices[id].descriptor)
  PROVE  /\ UsbInv' /\ held' = held \ {probedDevices[id].descriptor}
         /\ ~fault => [UsbNext]_usbVars
<1> DEFINE h == probedDevices[id].descriptor
<1>1. held \subseteq 1 .. Len(handles)
  BY HandleFacts DEF IInv
<1>2. CASE h = NoHandle
  <2>1. UNCHANGED usbVars
    BY <1>2 DEF CloseDescriptor
  <2>2. held' = held /\ NoHandle \notin held
    BY <1>1, <2>1 DEF usbVars, NoHandle
  <2>3. UsbInv'
    BY <2>1, UsbStutterInv DEF IInv
  <2>4. QED
    BY <1>2, <2>1, <2>2, <2>3
<1>3. CASE h # NoHandle
  <2>1. USBClose(h) /\ h \in held
    BY <1>3 DEF CloseDescriptor, USBClose
  <2>2. UsbInv'
    BY <2>1, CloseInv DEF IInv
  <2>3. held' = held \ {h}
    BY <2>1 DEF USBClose
  <2>4. ~fault => UsbNext
    BY <2>1, Zenon DEF UsbNext
  <2>5. QED
    BY <2>2, <2>3, <2>4
<1>4. QED
  BY <1>2, <1>3

\* What closing the handle of an adapter, or deleting it, preserves.
LEMMA ReleaseKeeps ==
  ASSUME IInv, NEW id \in IDs, CloseDescriptor(probedDevices[id].descriptor),
         Released(id, probedDevices, probedDevices')
  PROVE  /\ UsbInv' /\ HandlesOwned' /\ OneDevicePerLocation'
         /\ IDs' \subseteq IDs /\ probedDevices' \in [IDs' -> Adapter]
<1> DEFINE h == probedDevices[id].descriptor
<1>1. UsbInv' /\ held' = held \ {h}
  BY CloseFacts
<1>2. /\ IDs' \subseteq IDs /\ probedDevices' \in [IDs' -> Adapter]
      /\ \A a \in IDs : a # id => a \in IDs'
      /\ \A a \in IDs' : /\ a # id => probedDevices'[a] = probedDevices[a]
                         /\ a = id => probedDevices'[a].descriptor = NoHandle
                         /\ probedDevices'[a].location = probedDevices[a].location
  BY DEF Released, IDs, Kept
<1>3. Owned(probedDevices, held)
  BY OwnedNow DEF IInv
<1>4. \A a \in IDs' : probedDevices'[a].descriptor # NoHandle => probedDevices'[a].openedBus
  BY <1>2, <1>3 DEF Owned, IDs
<1>5. ASSUME NEW k
      PROVE  k \in held' <=> k # NoHandle /\ \E a \in IDs' : probedDevices'[a].descriptor = k
  <2>1. ASSUME k \in held' PROVE k # NoHandle /\ \E a \in IDs' : probedDevices'[a].descriptor = k
    <3>1. k \in held /\ k # h
      BY <1>1, <2>1
    <3>2. PICK a \in IDs : probedDevices[a].descriptor = k
      BY <1>3, <3>1 DEF Owned, IDs
    <3>3. a # id
      BY <3>1, <3>2
    <3>4. k # NoHandle
      BY <1>3, <3>1 DEF Owned
    <3>5. QED
      BY <1>2, <3>2, <3>3, <3>4
  <2>2. ASSUME k # NoHandle, NEW a \in IDs', probedDevices'[a].descriptor = k PROVE k \in held'
    <3>1. a \in IDs /\ a # id /\ probedDevices[a].descriptor = k
      BY <1>2, <2>2
    <3>2. k \in held
      BY <1>3, <2>2, <3>1 DEF Owned, IDs
    <3>3. k # h
      BY <1>3, <2>2, <3>1 DEF Owned, IDs
    <3>4. QED
      BY <1>1, <3>2, <3>3
  <2>3. QED
    BY <2>1, <2>2
<1>6. \A a, b \in IDs' : probedDevices'[a].descriptor = probedDevices'[b].descriptor
                        => a = b \/ probedDevices'[a].descriptor = NoHandle
  BY <1>2, <1>3 DEF Owned, IDs
<1>7. HandlesOwned'
  BY <1>4, <1>5, <1>6, OwnedNext DEF Owned, IDs
<1>8. OneDevicePerLocation'
  BY <1>2 DEF IInv, OneDevicePerLocation
<1>9. QED
  BY <1>1, <1>2, <1>7, <1>8

-----------------------------------------------------------------------------
(* The steps, one by one.                                                  *)

\* An ID keeps its device, and a new one is ahead of the counter.
KeepsMeaning ==
  /\ \A id \in IDs \cap DOMAIN probedDevices' :
       /\ probedDevices'[id].location = probedDevices[id].location
       /\ probedDevices'[id].product = probedDevices[id].product
  /\ \A id \in DOMAIN probedDevices' \ IDs :
       id > lastDeviceID /\ id \notin specifiedDevices

\* What is proved of every step.
Good == IInv' /\ KeepsMeaning /\ [UsbNext]_usbVars

\* A step that leaves the native layer and the adapters alone.
LEMMA AsideGood ==
  ASSUME IInv, UNCHANGED <<usbVars, probedDevices>>,
         RegistryTypeOK', IDsGivenOut', Control'
  PROVE  Good
<1>1. UsbInv'
  BY UsbStutterInv DEF IInv
<1>2. UNCHANGED held
  BY DEF usbVars
<1>3. HandlesOwned' /\ OneDevicePerLocation'
  BY <1>2 DEF IInv, HandlesOwned, OpenIsClosable, OneDevicePerLocation, IDs
<1>4. KeepsMeaning
  BY DEF KeepsMeaning, IDs
<1>5. QED
  BY <1>1, <1>3, <1>4 DEF IInv, Good

\* The types of what changes least.
LEMMA FrameTypes ==
  IInv => /\ calm \in 0 .. 2 /\ specifiedDevices \subseteq Nat /\ stale \in BOOLEAN
          /\ discovery \in [at : {"idle", "probing", "verifying", "deleting", "down"},
                            type : 1 .. Len(Types) + 1, valid : SUBSET Nat]
          /\ worker \in [op : {"none", "open", "located", "close", "transfer"}, id : Nat]
          /\ Len(Types) \in Nat
<1>1. IInv => stale \in BOOLEAN
  BY Zenon DEF IInv, RegistryTypeOK
<1>2. Len(Types) \in Nat
  BY TypesAssumption
<1>3. QED
  BY <1>1, <1>2 DEF IInv, RegistryTypeOK

\* Discovery goes from one place to another, and changes no adapter.
LEMMA DiscoveryMoves ==
  ASSUME IInv, UNCHANGED <<usbVars, probedDevices, worker, stale>>, calm' \in 0 .. 2,
         lastDeviceID' \in Nat, lastDeviceID <= lastDeviceID',
         specifiedDevices' \subseteq Nat, \A id \in specifiedDevices' : id <= lastDeviceID',
         discovery' \in [at : {"idle", "probing", "verifying", "deleting", "down"},
                         type : 1 .. Len(Types) + 1, valid : SUBSET Nat],
         discovery'.at = "probing" => discovery'.type \in 1 .. Len(Types)
  PROVE  Good
<1>1. stale' \in BOOLEAN
  BY FrameTypes, Zenon
<1>2. RegistryTypeOK'
  BY <1>1, FrameTypes, AdapterFacts DEF RegistryTypeOK, IDs
<1>3. IDsGivenOut'
  <2>1. \A id \in IDs : id <= lastDeviceID'
    BY AdapterFacts DEF IInv, IDsGivenOut
  <2>2. worker'.id <= lastDeviceID'
    BY FrameTypes, AdapterFacts DEF IInv, IDsGivenOut
  <2>3. QED
    BY <2>1, <2>2 DEF IDsGivenOut, IDs
<1>4. Control'
  BY DEF IInv, Control, IDs
<1>5. QED
  BY <1>2, <1>3, <1>4, AsideGood

LEMMA ProbeStartGood ==
  ASSUME IInv, ProbeStart
  PROVE  Good
<1>1. /\ calm' \in 0 .. 2
      /\ discovery' = [at |-> IF Types = << >> THEN "verifying" ELSE "probing",
                       type |-> 1, valid |-> {}]
      /\ UNCHANGED <<usbVars, probedDevices, lastDeviceID, specifiedDevices, worker, stale>>
  BY FrameTypes DEF ProbeStart, registryVars
<1>2. Types # << >> => Len(Types) > 0
  BY TypesAssumption
<1>3. discovery' \in [at : {"idle", "probing", "verifying", "deleting", "down"},
                      type : 1 .. Len(Types) + 1, valid : SUBSET Nat]
      /\ (discovery'.at = "probing" => discovery'.type \in 1 .. Len(Types))
  BY <1>1, <1>2, FrameTypes
<1>4. \A id \in specifiedDevices : id <= lastDeviceID
  BY DEF IInv, IDsGivenOut
<1>5. QED
  BY <1>1, <1>3, <1>4, FrameTypes, AdapterFacts, DiscoveryMoves

LEMMA DiscoveryGood ==
  ASSUME IInv, ProbeEnds \/ Shutdown \/ ShutdownEnds \/ Initialize
  PROVE  Good
<1>1. /\ UNCHANGED <<usbVars, probedDevices, lastDeviceID, worker, stale>>
      /\ specifiedDevices' = specifiedDevices \/ specifiedDevices' = {}
      /\ calm' = calm \/ calm' = 0
      /\ \/ \E a \in {"idle", "down"} : discovery' = [discovery EXCEPT !.at = a]
         \/ discovery' = [discovery EXCEPT !.at = "deleting", !.valid = {}]
  BY DEF ProbeEnds, Shutdown, ShutdownEnds, Initialize, registryVars
<1>2. discovery' \in [at : {"idle", "probing", "verifying", "deleting", "down"},
                      type : 1 .. Len(Types) + 1, valid : SUBSET Nat]
      /\ discovery'.at # "probing"
  BY <1>1, FrameTypes
<1>3. \A id \in specifiedDevices : id <= lastDeviceID
  BY DEF IInv, IDsGivenOut
<1>4. QED
  BY <1>1, <1>2, <1>3, FrameTypes, AdapterFacts, DiscoveryMoves

LEMMA AddLocationGood ==
  ASSUME IInv, AddDeviceLocation
  PROVE  Good
<1>1. /\ UNCHANGED <<usbVars, probedDevices, discovery, worker, calm, stale>>
      /\ lastDeviceID' = lastDeviceID + 1
      /\ specifiedDevices' = specifiedDevices \cup {lastDeviceID + 1}
  BY DEF AddDeviceLocation
<1>2. \A id \in specifiedDevices' : id \in Nat /\ id <= lastDeviceID'
  BY <1>1, FrameTypes, AdapterFacts DEF IInv, IDsGivenOut
<1>3. discovery'.at = "probing" => discovery'.type \in 1 .. Len(Types)
  BY <1>1 DEF IInv, Control
<1>4. QED
  BY <1>1, <1>2, <1>3, FrameTypes, AdapterFacts, DiscoveryMoves

LEMMA WorkerCallsGood ==
  ASSUME IInv, NEW op \in {"open", "close", "transfer"}, NEW id \in IDs, WorkerCalls(op, id)
  PROVE  Good
<1>1. /\ UNCHANGED <<usbVars, probedDevices, lastDeviceID, specifiedDevices, discovery, calm>>
      /\ worker' = [op |-> op, id |-> id]
  BY DEF WorkerCalls, registryVars
<1>2. stale' \in BOOLEAN
  BY FrameTypes, Zenon DEF WorkerCalls
<1>3. RegistryTypeOK'
  BY <1>1, <1>2, FrameTypes, AdapterFacts DEF RegistryTypeOK, IDs
<1>4. IDsGivenOut'
  BY <1>1 DEF IInv, IDsGivenOut, IDs
<1>5. Control'
  BY <1>1 DEF IInv, Control, IDs
<1>6. QED
  BY <1>1, <1>3, <1>4, <1>5, AsideGood

LEMMA BusChangesGood ==
  ASSUME IInv, ~fault, BusChanges
  PROVE  Good
<1>1. Hotplug /\ calm' = 0
      /\ UNCHANGED <<probedDevices, lastDeviceID, specifiedDevices, discovery, worker>>
  BY DEF BusChanges, registryVars
<1>2. stale' \in BOOLEAN
  BY FrameTypes, Zenon DEF BusChanges
<1>3. UsbInv'
  BY <1>1, HotplugInv DEF IInv
<1>4. UNCHANGED held
  BY <1>1 DEF Hotplug, Plug, Unplug
<1>5. HandlesOwned' /\ OneDevicePerLocation'
  BY <1>1, <1>4 DEF IInv, HandlesOwned, OpenIsClosable, OneDevicePerLocation, IDs
<1>6. RegistryTypeOK'
  BY <1>1, <1>2, FrameTypes, AdapterFacts DEF RegistryTypeOK, IDs
<1>7. IDsGivenOut' /\ Control'
  BY <1>1 DEF IInv, IDsGivenOut, Control, IDs
<1>8. UsbNext
  BY <1>1 DEF UsbNext
<1>9. KeepsMeaning
  BY <1>1 DEF KeepsMeaning, IDs
<1>10. QED
  BY <1>3, <1>5, <1>6, <1>7, <1>8, <1>9 DEF IInv, Good

\* The adapters after a turn of the loop over the types.
LEMMA ProbeTypeGood ==
  ASSUME IInv, ~fault, ProbeType
  PROVE  Good
<1> DEFINE p == Types[discovery.type]
<1> DEFINE found == probed'.ids
<1> DEFINE S == Unknown(found)
<1> DEFINE A == NewAdapters(S, p)
<1>1. /\ discovery.at = "probing" /\ USBProbeDevices(p)
      /\ probedDevices' = Join(probedDevices, A)
      /\ lastDeviceID' = lastDeviceID + Cardinality(DOMAIN A)
      /\ discovery' = [at    |-> IF discovery.type = Len(Types) THEN "verifying" ELSE "probing",
                       type  |-> discovery.type + 1,
                       valid |-> ValidNow(found, A)]
      /\ UNCHANGED <<specifiedDevices, worker, calm>>
  BY DEF ProbeType
<1>2. discovery.type \in 1 .. Len(Types) /\ Len(Types) \in Nat /\ p \in Products
  BY <1>1, FrameTypes, TypesAssumption DEF IInv, Control
<1>3. UsbInv' /\ UsbNext /\ held' = held
  <2>1. UsbInv'
    BY <1>1, <1>2, ProbeInv DEF IInv
  <2>2. UsbNext
    BY <1>1, <1>2 DEF UsbNext
  <2>3. held' = held
    BY <1>1 DEF USBProbeDevices
  <2>4. QED
    BY <2>1, <2>2, <2>3
<1>4. /\ found \subseteq Nat /\ IsFiniteSet(found)
      /\ \A f \in found : \E i \in Slots : /\ enumerated_devices'[i] # NoEntry
                                           /\ enumerated_devices'[i].deviceID = f
  BY <1>1, <1>2, <1>3, FoundFacts DEF IInv
<1>5. S \in SUBSET found /\ \A id \in IDs : probedDevices[id].location \notin S
  BY DEF Unknown
<1>6. S \subseteq Nat /\ IsFiniteSet(S)
  BY <1>4, <1>5, FS_Subset
<1> HIDE DEF p, found, S
<1>7. /\ Cardinality(S) \in Nat
      /\ DOMAIN A = lastDeviceID + 1 .. lastDeviceID + Cardinality(S)
      /\ Cardinality(DOMAIN A) = Cardinality(S)
      /\ \A id \in DOMAIN A : /\ A[id] \in Adapter /\ A[id].location \in S
                              /\ A[id].descriptor = NoHandle
      /\ \A a, b \in DOMAIN A : A[a].location = A[b].location => a = b
  <2>1. \A f \in S : \E i \in Slots : enumerated_devices'[i] # NoEntry /\ enumerated_devices'[i].deviceID = f
    BY <1>4, <1>5
  <2>2. lastDeviceID \in Nat
    BY AdapterFacts
  <2>3. OneForEach(A, S, p)
    BY <1>2, <1>6, <2>1, <2>2, AddFacts
  <2>4. QED
    BY <2>3 DEF OneForEach
<1> HIDE DEF A
<1>8. lastDeviceID \in Nat /\ lastDeviceID' = lastDeviceID + Cardinality(S)
  BY <1>1, <1>7, AdapterFacts
<1>9. \A id \in IDs : id \in Nat /\ id <= lastDeviceID /\ id \notin DOMAIN A
  BY <1>7, <1>8, AdapterFacts DEF IInv, IDsGivenOut
<1>10. /\ IDs' = IDs \cup DOMAIN A
       /\ \A id \in IDs : probedDevices'[id] = probedDevices[id]
       /\ \A id \in DOMAIN A : probedDevices'[id] = A[id]
       /\ probedDevices' = [id \in IDs' |-> probedDevices'[id]]
  BY <1>1, <1>9 DEF Join, IDs
<1>11. \A id \in DOMAIN A : id \in Nat /\ id > lastDeviceID /\ id <= lastDeviceID'
  BY <1>7, <1>8
<1>12. probedDevices' \in [IDs' -> Adapter] /\ IDs' \subseteq Nat
  <2>1. \A id \in IDs' : probedDevices'[id] \in Adapter /\ id \in Nat
    BY <1>7, <1>9, <1>10, <1>11, AdapterFacts
  <2>2. QED
    BY <1>10, <2>1
<1>13. HandlesOwned'
  <2>1. Owned(probedDevices, held)
    BY OwnedNow DEF IInv
  <2>2. \A id \in IDs' : \/ id \in IDs /\ probedDevices'[id] = probedDevices[id]
                         \/ id \notin IDs /\ probedDevices'[id].descriptor = NoHandle
    BY <1>7, <1>9, <1>10
  <2>3. \A id \in IDs' : probedDevices'[id].descriptor # NoHandle => probedDevices'[id].openedBus
    BY <2>1, <2>2 DEF Owned, IDs
  <2>4. \A h : h \in held' <=> h # NoHandle /\ \E id \in IDs' : probedDevices'[id].descriptor = h
    BY <1>3, <1>10, <2>1, <2>2 DEF Owned, IDs
  <2>5. \A a, b \in IDs' : probedDevices'[a].descriptor = probedDevices'[b].descriptor
                             => a = b \/ probedDevices'[a].descriptor = NoHandle
    BY <2>1, <2>2 DEF Owned, IDs
  <2>6. QED
    BY <2>3, <2>4, <2>5, OwnedNext DEF Owned, IDs
<1>14. OneDevicePerLocation'
  <2>1. SUFFICES ASSUME NEW a \in IDs', NEW b \in IDs', probedDevices'[a].location = probedDevices'[b].location
                 PROVE  a = b
    BY DEF OneDevicePerLocation
  <2>2. CASE a \in IDs /\ b \in IDs
    BY <1>10, <2>1, <2>2 DEF IInv, OneDevicePerLocation
  <2>3. CASE a \in IDs /\ b \in DOMAIN A
    BY <1>5, <1>7, <1>10, <2>1, <2>3
  <2>4. CASE a \in DOMAIN A /\ b \in IDs
    BY <1>5, <1>7, <1>10, <2>1, <2>4
  <2>5. CASE a \in DOMAIN A /\ b \in DOMAIN A
    BY <1>7, <1>10, <2>1, <2>5
  <2>6. QED
    BY <1>10, <2>2, <2>3, <2>4, <2>5
<1>15. IDsGivenOut'
  <2>1. \A id \in IDs' : id <= lastDeviceID'
    BY <1>7, <1>8, <1>9, <1>10, <1>11
  <2>2. \A id \in specifiedDevices' : id <= lastDeviceID'
    BY <1>1, <1>7, <1>8, FrameTypes DEF IInv, IDsGivenOut
  <2>3. worker'.id <= lastDeviceID'
    BY <1>1, <1>7, <1>8, FrameTypes DEF IInv, IDsGivenOut
  <2>4. QED
    BY <2>1, <2>2, <2>3 DEF IDsGivenOut
<1>16. Control'
  <2>1. discovery'.at = "probing" => discovery'.type \in 1 .. Len(Types)
    BY <1>1, <1>2
  <2>2. worker'.op = "located" /\ worker'.id \in IDs' => probedDevices'[worker'.id].descriptor = NoHandle
    BY <1>1, <1>7, <1>10 DEF IInv, Control
  <2>3. QED
    BY <2>1, <2>2 DEF Control
<1>17. RegistryTypeOK'
  <2>1. stale' \in BOOLEAN
    BY FrameTypes, Zenon DEF ProbeType
  <2>2. ValidNow(found, A) \subseteq Nat
    BY <1>9, <1>11, FrameTypes DEF ValidNow, Known
  <2>3. discovery' \in [at : {"idle", "probing", "verifying", "deleting", "down"},
                        type : 1 .. Len(Types) + 1, valid : SUBSET Nat]
    BY <1>1, <1>2, <2>2
  <2>4. lastDeviceID' \in Nat
    BY <1>7, <1>8
  <2>5. QED
    BY <1>1, <1>12, <2>1, <2>3, <2>4, FrameTypes DEF RegistryTypeOK
<1>18. KeepsMeaning
  <2>1. \A id \in specifiedDevices : id \in Nat /\ id <= lastDeviceID
    BY FrameTypes DEF IInv, IDsGivenOut
  <2>2. \A id \in DOMAIN A : id \notin specifiedDevices
    BY <1>8, <1>11, <2>1
  <2>3. QED
    BY <1>10, <1>11, <2>2 DEF KeepsMeaning, IDs
<1>19. QED
  BY <1>3, <1>13, <1>14, <1>15, <1>16, <1>17, <1>18 DEF IInv, Good

\* An adapter lets go of its handle, or is deleted.
LEMMA ReleaseGood ==
  ASSUME IInv, ~fault, NEW id \in IDs, CloseDescriptor(probedDevices[id].descriptor),
         \/ probedDevices' = Without(probedDevices, id)
         \/ probedDevices' = [probedDevices EXCEPT ![id].descriptor = NoHandle]
         \/ probedDevices' = [probedDevices EXCEPT ![id].descriptor = NoHandle,
                                                   ![id].openedBus = FALSE],
         UNCHANGED <<specifiedDevices, lastDeviceID, discovery, calm, stale>>,
         \/ worker' = worker
         \/ worker' = NoCall
         \/ worker.id = id /\ worker' = [worker EXCEPT !.op = "located"]
  PROVE  Good
<1>1. Released(id, probedDevices, probedDevices')
  BY ReleasedFacts
<1>2. /\ UsbInv' /\ HandlesOwned' /\ OneDevicePerLocation'
      /\ IDs' \subseteq IDs /\ probedDevices' \in [IDs' -> Adapter]
  BY <1>1, ReleaseKeeps
<1>3. \A a \in IDs' : /\ Kept(probedDevices'[a], probedDevices[a])
                      /\ a # id => probedDevices'[a] = probedDevices[a]
                      /\ a = id => probedDevices'[a].descriptor = NoHandle
  BY <1>1 DEF Released, IDs
<1>4. [UsbNext]_usbVars
  BY CloseFacts
<1>5. /\ worker' \in [op : {"none", "open", "located", "close", "transfer"}, id : Nat]
      /\ worker'.id <= lastDeviceID
      /\ worker'.op = "located" => worker'.id = id \/ worker' = worker
  <2>1. worker.id <= lastDeviceID /\ 0 <= lastDeviceID
    BY AdapterFacts DEF IInv, IDsGivenOut
  <2>2. CASE worker' = worker
    BY <2>1, <2>2, FrameTypes
  <2>3. CASE worker' = NoCall
    BY <2>1, <2>3 DEF NoCall
  <2>4. CASE worker.id = id /\ worker' = [worker EXCEPT !.op = "located"]
    BY <2>1, <2>4, FrameTypes
  <2>5. QED
    BY <2>2, <2>3, <2>4
<1>6. RegistryTypeOK'
  <2>1. stale' \in BOOLEAN
    BY FrameTypes, Zenon
  <2>2. IDs' \subseteq Nat
    BY <1>2, AdapterFacts
  <2>3. QED
    BY <1>2, <1>5, <2>1, <2>2, FrameTypes, AdapterFacts DEF RegistryTypeOK
<1>7. IDsGivenOut'
  BY <1>2, <1>5 DEF IInv, IDsGivenOut
<1>8. Control'
  <2>1. worker'.op = "located" /\ worker'.id \in IDs' => probedDevices'[worker'.id].descriptor = NoHandle
    BY <1>2, <1>3, <1>5 DEF IInv, Control
  <2>2. QED
    BY <2>1 DEF IInv, Control
<1>9. KeepsMeaning
  BY <1>2, <1>3 DEF KeepsMeaning, IDs, Kept
<1>10. QED
  BY <1>2, <1>4, <1>6, <1>7, <1>8, <1>9 DEF IInv, Good

LEMMA VerifyGood ==
  ASSUME IInv, ~fault, Verify
  PROVE  Good
<1> DEFINE id == First(Unverified)
<1>1. Unverified \subseteq Nat /\ Unverified # {} /\ Unverified \subseteq IDs
  BY AdapterFacts DEF Verify, Unverified
<1>2. id \in IDs
  BY <1>1, FirstFacts
<1>3. /\ CloseDescriptor(probedDevices[id].descriptor)
      /\ probedDevices' = Without(probedDevices, id)
      /\ UNCHANGED <<specifiedDevices, lastDeviceID, discovery, worker, calm>>
  BY DEF Verify, Delete
<1>4. UNCHANGED stale
  BY DEF Verify
<1> HIDE DEF id
<1>5. QED
  BY <1>2, <1>3, <1>4, ReleaseGood

\* The device of an adapter without a handle is opened: the handle is new.
LEMMA OpenKeeps ==
  ASSUME IInv, ~fault, NEW id \in IDs, probedDevices[id].descriptor = NoHandle,
         USBOpen(probedDevices[id].location), probedDevices' = Opened(id, Len(handles'))
  PROVE  /\ UsbInv' /\ UsbNext /\ HandlesOwned' /\ OneDevicePerLocation'
         /\ IDs' = IDs /\ probedDevices' \in [IDs -> Adapter]
         /\ \A a \in IDs : Kept(probedDevices'[a], probedDevices[a])
<1> DEFINE loc == probedDevices[id].location
<1>1. loc \in Nat
  BY AdapterFacts
<1>2. UsbInv'
  BY <1>1, OpenInv DEF IInv
<1>3. PICK i \in ByID(loc) : held' = held \cup {Len(handles) + 1} /\ Len(handles') = Len(handles) + 1
  BY HandleFacts DEF USBOpen, IInv
<1>4. UsbNext
  <2>1. i \in Valid /\ enumerated_devices[i].deviceID = loc
    BY TableFacts DEF ByID, IInv
  <2>2. loc < last_ID /\ last_ID \in Nat
    BY <2>1 DEF IInv, UsbInv, UsbTypeOK, TableConsistent, EntriesDiffer
  <2>3. loc \in 0 .. last_ID
    BY <1>1, <2>2
  <2>4. QED
    BY <2>3, Zenon DEF UsbNext
<1>5. PICK h : h = Len(handles')
  OBVIOUS
<1>6. h \in Nat /\ h # NoHandle /\ h \notin held /\ held' = held \cup {h}
  <2>1. Len(handles) \in Nat /\ held \subseteq 1 .. Len(handles)
    BY HandleFacts DEF IInv
  <2>2. QED
    BY <1>3, <1>5, <2>1 DEF NoHandle
<1> DEFINE e == [probedDevices[id] EXCEPT !.descriptor = h, !.openedBus = TRUE]
<1>7. e \in Adapter /\ Kept(e, probedDevices[id]) /\ e.descriptor = h /\ e.openedBus
  BY <1>6, AdapterFacts, AdapterUpdates
<1>8. probedDevices' = [probedDevices EXCEPT ![id] = e]
  BY <1>5 DEF Opened, IDs
<1> HIDE DEF e
<1>9. /\ IDs' = IDs /\ probedDevices' \in [IDs -> Adapter]
      /\ \A a \in IDs : probedDevices'[a] = IF a = id THEN e ELSE probedDevices[a]
  BY <1>7, <1>8, AdapterFacts DEF IDs
<1>10. \A a \in IDs : Kept(probedDevices'[a], probedDevices[a])
  BY <1>7, <1>9 DEF Kept
<1>11. Owned(probedDevices, held)
  BY OwnedNow DEF IInv
<1>12. HandlesOwned'
  <2>1. \A a \in IDs : probedDevices'[a].descriptor # NoHandle => probedDevices'[a].openedBus
    BY <1>7, <1>9, <1>11 DEF Owned, IDs
  <2>2. \A k : k \in held' <=> k # NoHandle /\ \E a \in IDs : probedDevices'[a].descriptor = k
    <3>1. TAKE k
    <3>2. CASE k = h
      BY <1>6, <1>7, <1>9, <3>2
    <3>3. CASE k # h
      <4>1. k \in held' <=> k \in held
        BY <1>6, <3>3
      <4>2. k # NoHandle => ((\E a \in IDs : probedDevices'[a].descriptor = k)
                               <=> \E a \in IDs : probedDevices[a].descriptor = k)
        BY <1>7, <1>9, <3>3
      <4>3. QED
        BY <1>11, <4>1, <4>2 DEF Owned, IDs
    <3>4. QED
      BY <3>2, <3>3
  <2>3. \A a, b \in IDs : probedDevices'[a].descriptor = probedDevices'[b].descriptor
                            => a = b \/ probedDevices'[a].descriptor = NoHandle
    <3>1. \A a \in IDs : probedDevices[a].descriptor # h
      BY <1>6, <1>11 DEF Owned, IDs
    <3>2. QED
      BY <1>7, <1>9, <1>11, <3>1 DEF Owned, IDs
  <2>4. QED
    BY <1>9, <2>1, <2>2, <2>3, OwnedNext DEF Owned, IDs
<1>13. OneDevicePerLocation'
  BY <1>9, <1>10 DEF IInv, OneDevicePerLocation, Kept
<1>14. QED
  BY <1>2, <1>4, <1>9, <1>10, <1>12, <1>13

LEMMA NoCallFacts ==
  ASSUME IInv
  PROVE  /\ NoCall \in [op : {"none", "open", "located", "close", "transfer"}, id : Nat]
         /\ NoCall.id <= lastDeviceID /\ NoCall.op # "located"
  BY AdapterFacts DEF NoCall

\* The worker is done, and no adapter has changed.
LEMMA WorkerDoneGood ==
  ASSUME IInv, UNCHANGED <<probedDevices, specifiedDevices, lastDeviceID, discovery, calm>>,
         worker' = NoCall, stale' \in BOOLEAN, UsbInv', [UsbNext]_usbVars, held' = held
  PROVE  Good
<1>1. HandlesOwned' /\ OneDevicePerLocation'
  BY DEF IInv, HandlesOwned, OpenIsClosable, OneDevicePerLocation, IDs
<1>2. RegistryTypeOK'
  BY FrameTypes, AdapterFacts, NoCallFacts DEF RegistryTypeOK, IDs
<1>3. IDsGivenOut' /\ Control'
  BY NoCallFacts DEF IInv, IDsGivenOut, Control, IDs
<1>4. KeepsMeaning
  BY DEF KeepsMeaning, IDs
<1>5. QED
  BY <1>1, <1>2, <1>3, <1>4 DEF IInv, Good

LEMMA WorkerStepGood ==
  ASSUME IInv, ~fault, WorkerStep
  PROVE  Good
<1>1. UNCHANGED <<specifiedDevices, lastDeviceID, discovery, calm>>
  BY DEF WorkerStep
<1>2. stale \in BOOLEAN
  BY FrameTypes, Zenon
<1>3. UNCHANGED usbVars => UsbInv' /\ [UsbNext]_usbVars /\ held' = held
  <2>1. UNCHANGED usbVars => held' = held
    BY DEF usbVars
  <2>2. UNCHANGED usbVars => UsbInv'
    BY UsbStutterInv DEF IInv
  <2>3. QED
    BY <2>1, <2>2
<1>4. CASE OpenSetLocation
  <2>1. UNCHANGED stale
    BY <1>4 DEF OpenSetLocation
  <2>2. /\ worker.id \in IDs
        /\ CloseDescriptor(probedDevices[worker.id].descriptor)
        /\ probedDevices' = [probedDevices EXCEPT ![worker.id].descriptor = NoHandle]
        /\ worker' = [worker EXCEPT !.op = "located"]
    BY <1>4 DEF OpenSetLocation
  <2>3. QED
    BY <1>1, <2>1, <2>2, ReleaseGood
<1>5. CASE OpenBus
  <2>1. worker' = NoCall /\ worker.id \in IDs /\ worker.op = "located"
    BY <1>5 DEF OpenBus
  <2>2. stale' \in BOOLEAN
    BY <1>2, <1>5, Zenon DEF OpenBus
  <2>3. probedDevices[worker.id].descriptor = NoHandle
    BY <2>1 DEF IInv, Control
  <2>4. CASE USBOpenFails /\ UNCHANGED probedDevices
    BY <1>1, <1>3, <2>1, <2>2, <2>4, WorkerDoneGood DEF USBOpenFails
  <2>5. CASE USBOpen(probedDevices[worker.id].location)
             /\ probedDevices' = Opened(worker.id, Len(handles'))
    <3>1. /\ UsbInv' /\ UsbNext /\ HandlesOwned' /\ OneDevicePerLocation'
          /\ IDs' = IDs /\ probedDevices' \in [IDs -> Adapter]
          /\ \A a \in IDs : Kept(probedDevices'[a], probedDevices[a])
      BY <2>1, <2>3, <2>5, OpenKeeps
    <3>2. RegistryTypeOK'
      BY <1>1, <2>1, <2>2, <3>1, FrameTypes, AdapterFacts, NoCallFacts DEF RegistryTypeOK
    <3>3. IDsGivenOut' /\ Control'
      BY <1>1, <2>1, <3>1, NoCallFacts DEF IInv, IDsGivenOut, Control
    <3>4. KeepsMeaning
      BY <3>1 DEF KeepsMeaning, IDs, Kept
    <3>5. QED
      BY <3>1, <3>2, <3>3, <3>4 DEF IInv, Good
  <2>6. QED
    BY <1>5, <2>4, <2>5 DEF OpenBus
<1>6. CASE CloseDevice
  <2>1. worker' = NoCall /\ worker.id \in IDs
    BY <1>6 DEF CloseDevice
  <2>2. UNCHANGED stale
    BY <1>6 DEF CloseDevice
  <2>3. CASE probedDevices[worker.id].openedBus
    <3>1. /\ CloseDescriptor(probedDevices[worker.id].descriptor)
          /\ probedDevices' = [probedDevices EXCEPT ![worker.id].descriptor = NoHandle,
                                                    ![worker.id].openedBus = FALSE]
      BY <1>6, <2>3 DEF CloseDevice
    <3>2. QED
      BY <1>1, <2>1, <2>2, <3>1, ReleaseGood
  <2>4. CASE ~probedDevices[worker.id].openedBus
    <3>1. UNCHANGED <<usbVars, probedDevices>>
      BY <1>6, <2>4 DEF CloseDevice
    <3>2. stale' \in BOOLEAN
      BY <1>2, <2>2, Zenon
    <3>3. QED
      BY <1>1, <1>3, <2>1, <3>1, <3>2, WorkerDoneGood
  <2>5. QED
    BY <2>3, <2>4
<1>7. CASE UseDevice
  <2> DEFINE h == probedDevices[worker.id].descriptor
  <2>1. worker' = NoCall /\ UNCHANGED probedDevices
    BY <1>7 DEF UseDevice
  <2>2. stale' \in BOOLEAN
    BY <1>2, <1>7, Zenon DEF UseDevice
  <2>3. Transfer(h) \/ UNCHANGED usbVars
    BY <1>7 DEF UseDevice
  <2> HIDE DEF h
  <2>4. CASE Transfer(h)
    <3>1. h \in held /\ held' = held
      BY <2>4 DEF Transfer
    <3>2. UsbInv'
      BY <2>4, <3>1, TransferInv DEF IInv
    <3>3. UsbNext
      BY <2>4, <3>1, Zenon DEF UsbNext
    <3>4. QED
      BY <1>1, <2>1, <2>2, <3>1, <3>2, <3>3, WorkerDoneGood
  <2>5. CASE UNCHANGED usbVars
    BY <1>1, <1>3, <2>1, <2>2, <2>5, WorkerDoneGood
  <2>6. QED
    BY <2>3, <2>4, <2>5
<1>8. CASE UseDeleted
  <2>1. worker' = NoCall /\ UNCHANGED <<usbVars, probedDevices>>
    BY <1>8 DEF UseDeleted
  <2>2. stale' \in BOOLEAN
    BY <1>8, Zenon DEF UseDeleted
  <2>3. QED
    BY <1>1, <1>3, <2>1, <2>2, WorkerDoneGood
<1>9. QED
  BY <1>4, <1>5, <1>6, <1>7, <1>8 DEF WorkerStep

-----------------------------------------------------------------------------
(* The specification.                                                      *)

LEMMA NextGood ==
  ASSUME IInv, RegistryNext
  PROVE  Good
<1>1. ~fault /\ ~stale
  BY Zenon DEF RegistryNext
<1>2. CASE BusChanges
  BY <1>1, <1>2, BusChangesGood
<1>3. CASE ProbeStart
  BY <1>3, ProbeStartGood
<1>4. CASE ProbeType
  BY <1>1, <1>4, ProbeTypeGood
<1>5. CASE Verify
  BY <1>1, <1>5, VerifyGood
<1>6. CASE ProbeEnds \/ Shutdown \/ ShutdownEnds \/ Initialize
  BY <1>6, DiscoveryGood
<1>7. CASE AddDeviceLocation
  BY <1>7, AddLocationGood
<1>8. CASE \E op \in {"open", "close", "transfer"}, id \in IDs : WorkerCalls(op, id)
  BY <1>8, WorkerCallsGood
<1>9. CASE WorkerStep
  BY <1>1, <1>9, WorkerStepGood
<1>10. QED
  BY <1>2, <1>3, <1>4, <1>5, <1>6, <1>7, <1>8, <1>9 DEF RegistryNext

LEMMA StutterGood ==
  ASSUME IInv, UNCHANGED vars
  PROVE  Good
<1>1. UNCHANGED <<usbVars, probedDevices, specifiedDevices, lastDeviceID, discovery, worker, calm>>
  BY DEF vars, registryVars
<1>2. stale' \in BOOLEAN
  BY FrameTypes, Zenon DEF vars
<1>3. RegistryTypeOK'
  BY <1>1, <1>2, FrameTypes, AdapterFacts DEF RegistryTypeOK, IDs
<1>4. IDsGivenOut' /\ Control'
  BY <1>1 DEF IInv, IDsGivenOut, Control, IDs
<1>5. QED
  BY <1>1, <1>3, <1>4, AsideGood

LEMMA InitInv ==
  ASSUME RegistryInit
  PROVE  IInv
<1>1. UsbInv
  BY UsbInitInv DEF RegistryInit
<1>2. /\ probedDevices = << >> /\ specifiedDevices = {} /\ lastDeviceID = 1 /\ calm = 0
      /\ discovery = [at |-> "idle", type |-> 1, valid |-> {}] /\ worker = NoCall /\ held = {}
  BY DEF RegistryInit, UsbInit
<1>3. stale \in BOOLEAN
  BY Zenon DEF RegistryInit
<1>4. IDs = {} /\ probedDevices \in [{} -> Adapter]
  BY <1>2 DEF IDs
<1>5. Len(Types) \in Nat
  BY TypesAssumption
<1>6. RegistryTypeOK
  BY <1>2, <1>3, <1>4, <1>5 DEF RegistryTypeOK, NoCall
<1>7. IDsGivenOut /\ Control
  BY <1>2, <1>4 DEF IDsGivenOut, Control, NoCall
<1>8. HandlesOwned /\ OneDevicePerLocation
  BY <1>2, <1>4 DEF HandlesOwned, OpenIsClosable, OneDevicePerLocation
<1>9. QED
  BY <1>1, <1>6, <1>7, <1>8 DEF IInv

LEMMA Inductive == RegistrySpec => []IInv
<1>1. RegistryInit => IInv
  BY InitInv
<1>2. IInv /\ [RegistryNext]_vars => IInv'
  BY NextGood, StutterGood DEF Good
<1>3. QED
  BY <1>1, <1>2, PTL DEF RegistrySpec

\* Type correctness of the adapters, the counters and both threads.
THEOREM RegistryTypeCorrect == RegistrySpec => []RegistryTypeOK
<1>1. IInv => RegistryTypeOK
  BY DEF IInv
<1>2. QED
  BY <1>1, Inductive, PTL

\* The registry opens, closes and reads only as the native layer allows:
\* every behaviour of it is one of the native layer, so what is proved of
\* that holds here.
THEOREM UsesNativeLayer == RegistrySpec => UsbSpec
<1>1. RegistryInit => UsbInit
  BY DEF RegistryInit
<1>2. IInv /\ [RegistryNext]_vars => [UsbNext]_usbVars
  BY NextGood, StutterGood DEF Good
<1>3. QED
  BY <1>1, <1>2, Inductive, PTL DEF RegistrySpec, UsbSpec

\* No handle leaks and none is shared, through failed and repeated opens,
\* probes, removals and shutdowns, also with a worker that calls while a
\* probe deletes adapters (SeaBreezeAPI_Impl.cpp, DeviceAdapter.cpp,
\* Device.cpp, OOIUSBInterface.cpp).
THEOREM NoHandleLeaks == RegistrySpec => []HandlesOwned
<1>1. IInv => HandlesOwned
  BY DEF IInv
<1>2. QED
  BY <1>1, Inductive, PTL

\* No device gets two adapters, whatever comes and goes between the probes
\* for one type and the next (SeaBreezeAPI_Impl.cpp, probeDevices).
THEOREM OneAdapterEach == RegistrySpec => []OneDevicePerLocation
<1>1. IInv => OneDevicePerLocation
  BY DEF IInv
<1>2. QED
  BY <1>1, Inductive, PTL

\* An ID is given out once, and stays with its device while it lives
\* (SeaBreezeAPI_Impl.cpp, __deviceID).
THEOREM MeaningKept == RegistrySpec => IDsKeepMeaning
<1>1. IInv /\ [RegistryNext]_vars => [KeepsMeaning]_vars
  BY NextGood, StutterGood DEF Good
<1>2. [][KeepsMeaning]_vars => IDsKeepMeaning
  BY PTL DEF IDsKeepMeaning, KeepsMeaning
<1>3. QED
  BY <1>1, <1>2, Inductive, PTL DEF RegistrySpec

-----------------------------------------------------------------------------
(* The registry and the bus.                                               *)

\* A step that leaves the table's entries where they are, adds no adapter and
\* takes away only such as discovery has not seen; and what it may do to the
\* bus and to discovery.
Quiet ==
  /\ TableKept
  /\ IDs' \subseteq IDs
  /\ \A id \in IDs' : Kept(probedDevices'[id], probedDevices[id])
  /\ \/ /\ UNCHANGED <<discovery, calm, attached>>
        /\ \/ IDs' = IDs
           \/ /\ discovery.at \in {"verifying", "deleting"}
              /\ \A id \in IDs \ IDs' : id \notin discovery.valid
     \/ UNCHANGED discovery /\ calm' = 0 /\ IDs' = IDs
     \/ /\ ProbeStart \/ ProbeEnds \/ Shutdown \/ ShutdownEnds \/ Initialize
        /\ UNCHANGED attached /\ IDs' = IDs

LEMMA KeptFacts ==
  ASSUME IInv
  PROVE  /\ UNCHANGED usbVars => TableKept /\ UNCHANGED attached
         /\ UNCHANGED probedDevices => /\ IDs' = IDs
                                       /\ \A id \in IDs' : Kept(probedDevices'[id], probedDevices[id])
         /\ \A h : USBClose(h) \/ Transfer(h) => TableKept /\ UNCHANGED attached
         /\ \A h : CloseDescriptor(h) => TableKept /\ UNCHANGED attached
<1>1. UNCHANGED usbVars => TableKept /\ UNCHANGED attached
  BY OthersKeepTable DEF IInv, usbVars, busVars
<1>2. UNCHANGED probedDevices => /\ IDs' = IDs
                                 /\ \A id \in IDs' : Kept(probedDevices'[id], probedDevices[id])
  BY DEF IDs, Kept
<1>3. \A h : USBClose(h) \/ Transfer(h) => TableKept /\ UNCHANGED attached
  BY OthersKeepTable DEF IInv, USBClose, Transfer, busVars
<1>4. QED
  BY <1>1, <1>2, <1>3 DEF CloseDescriptor

LEMMA WorkerQuiet ==
  ASSUME IInv, WorkerStep
  PROVE  Quiet
<1>1. UNCHANGED <<discovery, calm>>
  BY DEF WorkerStep
<1>2. ASSUME UNCHANGED probedDevices, TableKept, UNCHANGED attached PROVE Quiet
  BY <1>1, <1>2, KeptFacts DEF Quiet
<1>3. ASSUME NEW id \in IDs, CloseDescriptor(probedDevices[id].descriptor),
             \/ probedDevices' = [probedDevices EXCEPT ![id].descriptor = NoHandle]
             \/ probedDevices' = [probedDevices EXCEPT ![id].descriptor = NoHandle,
                                                       ![id].openedBus = FALSE]
      PROVE  Quiet
  <2>1. Released(id, probedDevices, probedDevices')
    BY <1>3, ReleasedFacts
  <2>2. IDs' = IDs
    BY <1>3 DEF IDs
  <2>3. \A a \in IDs' : Kept(probedDevices'[a], probedDevices[a])
    BY <2>1 DEF Released, IDs
  <2>4. TableKept /\ UNCHANGED attached
    BY <1>3, KeptFacts
  <2>5. QED
    BY <1>1, <2>2, <2>3, <2>4 DEF Quiet
<1>4. CASE OpenSetLocation
  BY <1>3, <1>4 DEF OpenSetLocation
<1>5. CASE OpenBus
  <2>1. CASE USBOpenFails /\ UNCHANGED probedDevices
    BY <1>2, <2>1, KeptFacts DEF USBOpenFails
  <2>2. CASE USBOpen(probedDevices[worker.id].location)
             /\ probedDevices' = Opened(worker.id, Len(handles'))
    <3>1. TableKept /\ UNCHANGED attached
      BY <2>2, OthersKeepTable DEF IInv, USBOpen, busVars
    <3>2. IDs' = IDs /\ \A a \in IDs : Kept(probedDevices'[a], probedDevices[a])
      <4>1. PICK h : h = Len(handles')
        OBVIOUS
      <4> DEFINE e == [probedDevices[worker.id] EXCEPT !.descriptor = h, !.openedBus = TRUE]
      <4>2. worker.id \in IDs /\ probedDevices' = [probedDevices EXCEPT ![worker.id] = e]
        BY <1>5, <2>2, <4>1 DEF OpenBus, Opened, IDs
      <4>3. e.location = probedDevices[worker.id].location /\ e.product = probedDevices[worker.id].product
        BY <4>2, AdapterFacts DEF Adapter
      <4> HIDE DEF e
      <4>4. QED
        BY <4>2, <4>3, AdapterFacts DEF Kept, IDs
    <3>3. QED
      BY <1>1, <3>1, <3>2 DEF Quiet
  <2>3. QED
    BY <1>5, <2>1, <2>2 DEF OpenBus
<1>6. CASE CloseDevice
  BY <1>2, <1>3, <1>6, KeptFacts DEF CloseDevice
<1>7. CASE UseDevice
  <2>1. UNCHANGED probedDevices
    BY <1>7 DEF UseDevice
  <2>2. UNCHANGED usbVars \/ \E h : Transfer(h)
    BY <1>7 DEF UseDevice
  <2>3. QED
    BY <1>2, <2>1, <2>2, KeptFacts
<1>8. CASE UseDeleted
  BY <1>2, <1>8, KeptFacts DEF UseDeleted
<1>9. QED
  BY <1>4, <1>5, <1>6, <1>7, <1>8 DEF WorkerStep

LEMMA RegistrySteps ==
  ASSUME IInv, [RegistryNext]_vars
  PROVE  ProbeType \/ Quiet
<1>1. CASE BusChanges
  <2>1. Hotplug /\ calm' = 0 /\ UNCHANGED <<discovery, probedDevices>>
    BY <1>1 DEF BusChanges, registryVars
  <2>2. TableKept
    BY <2>1, OthersKeepTable DEF IInv
  <2>3. QED
    BY <2>1, <2>2, KeptFacts DEF Quiet
<1>2. CASE ProbeStart \/ ProbeEnds \/ Shutdown \/ ShutdownEnds \/ Initialize
  <2>1. UNCHANGED <<usbVars, probedDevices>>
    BY <1>2 DEF ProbeStart, ProbeEnds, Shutdown, ShutdownEnds, Initialize, registryVars
  <2>2. QED
    BY <1>2, <2>1, KeptFacts DEF Quiet
<1>3. CASE UNCHANGED vars \/ AddDeviceLocation
           \/ \E op \in {"open", "close", "transfer"}, id \in IDs : WorkerCalls(op, id)
  <2>1. UNCHANGED <<usbVars, probedDevices, discovery, calm>>
    BY <1>3 DEF vars, registryVars, AddDeviceLocation, WorkerCalls
  <2>2. QED
    BY <2>1, KeptFacts DEF Quiet
<1>4. CASE Verify
  <2>1. PICK id : id = First(Unverified)
    OBVIOUS
  <2>2. id \in IDs \ discovery.valid
    BY <1>4, <2>1, FirstFacts, AdapterFacts DEF Verify, Unverified
  <2>3. /\ CloseDescriptor(probedDevices[id].descriptor)
        /\ probedDevices' = Without(probedDevices, id)
        /\ UNCHANGED <<discovery, calm>>
        /\ discovery.at \in {"verifying", "deleting"}
    BY <1>4, <2>1 DEF Verify, Delete
  <2>4. TableKept /\ UNCHANGED attached
    BY <2>3, KeptFacts
  <2>5. IDs' = IDs \ {id} /\ \A a \in IDs' : Kept(probedDevices'[a], probedDevices[a])
    BY <2>3 DEF IDs, Without, Kept
  <2>6. QED
    BY <2>2, <2>3, <2>4, <2>5 DEF Quiet
<1>5. QED
  BY <1>1, <1>2, <1>3, <1>4, WorkerQuiet DEF RegistryNext

\* What a turn of the loop over the types does, with room for every device.
TypeProbed(p) ==
  /\ ProbeDoes(p) /\ UNCHANGED <<attached, calm>>
  /\ discovery.at = "probing" /\ discovery.type \in 1 .. Len(Types) /\ p = Types[discovery.type]
  /\ discovery' = [at    |-> IF discovery.type = Len(Types) THEN "verifying" ELSE "probing",
                   type  |-> discovery.type + 1,
                   valid |-> discovery'.valid]
  /\ IDs \subseteq IDs' /\ \A id \in IDs : probedDevices'[id] = probedDevices[id]
  /\ \A id \in IDs' \ IDs : /\ probedDevices'[id].product = p
                            /\ probedDevices'[id].descriptor = NoHandle
                            /\ probedDevices'[id].location \in probed'.ids
                            /\ id \in discovery'.valid
  /\ \A id \in IDs : id \in discovery'.valid <=>
                       id \in discovery.valid \/ probedDevices[id].location \in probed'.ids
  /\ \A f \in probed'.ids : \E id \in IDs' : probedDevices'[id].location = f

LEMMA ProbeTypeResult ==
  ASSUME IInv, TableFitsBus, Unmarked, ProbeType
  PROVE  TypeProbed(Types[discovery.type]) /\ Types[discovery.type] \in Products
<1> DEFINE p == Types[discovery.type]
<1> DEFINE found == probed'.ids
<1> DEFINE S == Unknown(found)
<1> DEFINE A == NewAdapters(S, p)
<1>1. /\ discovery.at = "probing" /\ USBProbeDevices(p)
      /\ probedDevices' = Join(probedDevices, A)
      /\ discovery' = [at    |-> IF discovery.type = Len(Types) THEN "verifying" ELSE "probing",
                       type  |-> discovery.type + 1,
                       valid |-> ValidNow(found, A)]
      /\ UNCHANGED calm
  BY DEF ProbeType
<1>2. discovery.type \in 1 .. Len(Types) /\ p \in Products
  BY <1>1, FrameTypes, TypesAssumption DEF IInv, Control
<1>3. ProbeDoes(p) /\ UNCHANGED attached
  BY <1>1, <1>2, ProbeResult DEF IInv, USBProbeDevices
<1>4. OneForEach(A, S, p) /\ S \in SUBSET found
  <2>1. UsbInv'
    BY <1>1, <1>2, ProbeInv DEF IInv
  <2>2. /\ found \subseteq Nat /\ IsFiniteSet(found)
        /\ \A f \in found : \E i \in Slots : /\ enumerated_devices'[i] # NoEntry
                                             /\ enumerated_devices'[i].deviceID = f
    BY <1>1, <1>2, <2>1, FoundFacts DEF IInv
  <2>3. S \in SUBSET found
    BY DEF Unknown
  <2> HIDE DEF p, found, S
  <2>4. S \subseteq Nat /\ IsFiniteSet(S) /\ lastDeviceID \in Nat
    BY <2>2, <2>3, FS_Subset, AdapterFacts
  <2>5. \A f \in S : \E i \in Slots : enumerated_devices'[i] # NoEntry /\ enumerated_devices'[i].deviceID = f
    BY <2>2, <2>3
  <2>6. QED
    BY <1>2, <2>3, <2>4, <2>5, AddFacts
<1>5. \A f \in found : f \in S \/ \E id \in IDs : probedDevices[id].location = f
  BY DEF Unknown
<1>6. ValidNow(found, A) = discovery.valid \cup {id \in IDs : probedDevices[id].location \in found} \cup DOMAIN A
  BY DEF ValidNow, Known
<1> HIDE DEF found, S, A
<1>7. IDs \cap DOMAIN A = {}
  <2>1. \A id \in IDs : id \in Nat /\ id <= lastDeviceID /\ lastDeviceID \in Nat
    BY AdapterFacts DEF IInv, IDsGivenOut
  <2>2. \A id \in DOMAIN A : id \in lastDeviceID + 1 .. lastDeviceID + Cardinality(S) /\ Cardinality(S) \in Nat
    BY <1>4 DEF OneForEach
  <2>3. QED
    BY <2>1, <2>2
<1>8. /\ IDs' = IDs \cup DOMAIN A
      /\ \A id \in IDs : probedDevices'[id] = probedDevices[id]
      /\ \A id \in DOMAIN A : probedDevices'[id] = A[id]
  BY <1>1, <1>7 DEF Join, IDs
<1>9. \A id \in DOMAIN A : A[id].product = p /\ A[id].location \in found /\ A[id].descriptor = NoHandle
  BY <1>4 DEF OneForEach
<1>10. discovery'.valid = ValidNow(found, A)
  BY <1>1
<1>11. \A id \in IDs : id \in discovery'.valid <=>
                         id \in discovery.valid \/ probedDevices[id].location \in found
  BY <1>6, <1>7, <1>10
<1>12. \A f \in found : \E id \in IDs' : probedDevices'[id].location = f
  <2>1. TAKE f \in found
  <2>2. CASE f \in S
    <3>1. PICK id \in DOMAIN A : A[id].location = f
      BY <1>4, <2>2 DEF OneForEach
    <3>2. QED
      BY <1>8, <3>1
  <2>3. CASE \E id \in IDs : probedDevices[id].location = f
    BY <1>8, <2>3
  <2>4. QED
    BY <1>5, <2>2, <2>3
<1>13. \A id \in IDs' \ IDs : /\ probedDevices'[id].product = p /\ probedDevices'[id].location \in found
                              /\ probedDevices'[id].descriptor = NoHandle /\ id \in discovery'.valid
  BY <1>6, <1>8, <1>9, <1>10
<1>14. discovery' = [at    |-> IF discovery.type = Len(Types) THEN "verifying" ELSE "probing",
                     type  |-> discovery.type + 1, valid |-> discovery'.valid]
  BY <1>1
<1>15. TypeProbed(p)
  BY <1>1, <1>2, <1>3, <1>8, <1>11, <1>12, <1>13, <1>14 DEF TypeProbed, found
<1>16. QED
  BY <1>2, <1>15

\* The products a probe has asked for before its t-th type.
Done(t, p) == \E j \in 1 .. Len(Types) : j < t /\ Types[j] = p
Probing == discovery.at \in {"probing", "verifying"}

\* The entries and the adapters are of products that are probed for, an
\* adapter's entry has its product, and no adapter is for an ID that the table
\* has yet to give out.
OfTypes ==
  /\ \A i \in Valid : \E j \in 1 .. Len(Types) : Types[j] = enumerated_devices[i].product
  /\ \A id \in IDs : \E j \in 1 .. Len(Types) : Types[j] = probedDevices[id].product
Agree ==
  \A id \in IDs :
    /\ probedDevices[id].location < last_ID
    /\ \A i \in Valid : enumerated_devices[i].deviceID = probedDevices[id].location =>
                          enumerated_devices[i].product = probedDevices[id].product
InStep ==
  /\ discovery.at \in {"deleting", "down"} => calm = 0
  /\ discovery.at = "verifying" => discovery.type = Len(Types) + 1

SoundInv == IInv /\ Unmarked /\ OfTypes /\ Agree /\ InStep

\* Once all types were asked for, every product of the table has been.
LEMMA AllDone ==
  ASSUME SoundInv, discovery.at = "verifying"
  PROVE  /\ \A j \in 1 .. Len(Types) : Done(discovery.type, Types[j])
         /\ \A i \in Valid : Done(discovery.type, enumerated_devices[i].product)
         /\ \A id \in IDs : Done(discovery.type, probedDevices[id].product)
<1>1. \A j \in 1 .. Len(Types) : Done(discovery.type, Types[j])
  BY FrameTypes DEF SoundInv, InStep, Done
<1>2. QED
  BY <1>1 DEF SoundInv, OfTypes

\* No two entries have the same ID.
LEMMA EntryOfID ==
  ASSUME UsbInv, NEW i \in Valid, NEW j \in Valid,
         enumerated_devices[i].deviceID = enumerated_devices[j].deviceID
  PROVE  i = j
  BY DEF UsbInv, TableConsistent, EntriesDiffer

\* An adapter's ID of the table is not that of an entry made later.
LEMMA OldEntry ==
  ASSUME SoundInv, UsbInv', NEW p, ProbeDoes(p), NEW id \in IDs, NEW i \in Valid',
         enumerated_devices'[i].deviceID = probedDevices[id].location
  PROVE  i \in Valid /\ Same(enumerated_devices'[i], enumerated_devices[i])
<1>1. probedDevices[id].location < last_ID /\ probedDevices[id].location \in Nat /\ last_ID \in Nat
  BY AdapterFacts DEF SoundInv, Agree, IInv, UsbInv, UsbTypeOK
<1>2. QED
  BY <1>1 DEF ProbeDoes, ProbeKeeps, ProbeFinds

LEMMA SoundInit == RegistryInit => SoundInv
<1> SUFFICES ASSUME RegistryInit PROVE SoundInv
  OBVIOUS
<1>1. Valid = {} /\ IDs = {} /\ discovery.at = "idle"
  BY DEF RegistryInit, UsbInit, Valid, Entries, IDs
<1>2. QED
  BY <1>1, InitInv DEF SoundInv, Unmarked, OfTypes, Agree, InStep

LEMMA SoundQuiet ==
  ASSUME SoundInv, Quiet
  PROVE  Unmarked' /\ OfTypes' /\ Agree' /\ InStep'
<1>1. Unmarked' /\ OfTypes' /\ Agree'
  <2>1. Unmarked'
    BY DEF SoundInv, Quiet, TableKept, Unmarked
  <2>2. OfTypes'
    BY DEF SoundInv, Quiet, TableKept, Kept, OfTypes
  <2>3. Agree'
    BY DEF SoundInv, Quiet, TableKept, Kept, Agree
  <2>4. QED
    BY <2>1, <2>2, <2>3
<1>2. CASE UNCHANGED <<discovery, calm>> \/ (UNCHANGED discovery /\ calm' = 0)
  BY <1>1, <1>2 DEF SoundInv, InStep
<1>3. CASE ProbeStart \/ ProbeEnds \/ Shutdown \/ ShutdownEnds \/ Initialize
  <2>1. Len(Types) = 0 <=> Types = << >>
    BY TypesAssumption
  <2>2. discovery'.at = "verifying" => discovery'.type = Len(Types) + 1
    <3>1. CASE ProbeStart
      <4>1. discovery'.at = IF Types = << >> THEN "verifying" ELSE "probing"
        BY <3>1 DEF ProbeStart
      <4>2. discovery'.type = 1
        BY <3>1 DEF ProbeStart
      <4>3. QED
        BY <2>1, <4>1, <4>2
    <3>2. CASE ProbeEnds \/ Shutdown \/ ShutdownEnds \/ Initialize
      BY <3>2, FrameTypes DEF ProbeEnds, Shutdown, ShutdownEnds, Initialize, SoundInv
    <3>3. QED
      BY <1>3, <3>1, <3>2
  <2>3. discovery'.at \in {"deleting", "down"} => calm' = 0
    BY <1>3, FrameTypes DEF ProbeStart, ProbeEnds, Shutdown, ShutdownEnds, Initialize, SoundInv, InStep
  <2>4. QED
    BY <1>1, <2>2, <2>3 DEF InStep
<1>4. QED
  BY <1>1, <1>2, <1>3 DEF Quiet

LEMMA SoundProbe ==
  ASSUME SoundInv, UsbInv', NEW p \in Products, TypeProbed(p)
  PROVE  Unmarked' /\ OfTypes' /\ Agree' /\ InStep'
<1>1. Unmarked'
  BY DEF TypeProbed, ProbeDoes, ProbeKeeps, ProbeFinds
<1>2. OfTypes'
  <2>1. \E j \in 1 .. Len(Types) : Types[j] = p
    BY DEF TypeProbed
  <2>2. \A i \in Valid' : \E j \in 1 .. Len(Types) : Types[j] = enumerated_devices'[i].product
    BY <2>1 DEF TypeProbed, ProbeDoes, ProbeKeeps, ProbeFinds, Same, SoundInv, OfTypes
  <2>3. \A id \in IDs' : \E j \in 1 .. Len(Types) : Types[j] = probedDevices'[id].product
    BY <2>1 DEF TypeProbed, SoundInv, OfTypes
  <2>4. QED
    BY <2>2, <2>3 DEF OfTypes
<1>3. Agree'
  <2>1. last_ID \in Nat /\ last_ID' \in Nat /\ last_ID <= last_ID'
    BY DEF SoundInv, IInv, UsbInv, UsbTypeOK, TypeProbed, ProbeDoes, ProbeKeeps
  <2>2. ASSUME NEW id \in IDs
        PROVE  /\ probedDevices'[id].location < last_ID'
               /\ \A i \in Valid' : enumerated_devices'[i].deviceID = probedDevices'[id].location =>
                                      enumerated_devices'[i].product = probedDevices'[id].product
    <3>1. probedDevices'[id] = probedDevices[id] /\ ProbeDoes(p)
      BY DEF TypeProbed
    <3>2. probedDevices[id].location < last_ID /\ probedDevices[id].location \in Nat
      BY AdapterFacts DEF SoundInv, Agree
    <3>3. ASSUME NEW i \in Valid', enumerated_devices'[i].deviceID = probedDevices[id].location
          PROVE  enumerated_devices'[i].product = probedDevices[id].product
      BY <3>1, <3>3, OldEntry DEF SoundInv, Agree, Same
    <3>4. QED
      BY <2>1, <3>1, <3>2, <3>3
  <2>3. ASSUME NEW id \in IDs' \ IDs
        PROVE  /\ probedDevices'[id].location < last_ID'
               /\ \A i \in Valid' : enumerated_devices'[i].deviceID = probedDevices'[id].location =>
                                      enumerated_devices'[i].product = probedDevices'[id].product
    <3>1. probedDevices'[id].product = p /\ probedDevices'[id].location \in probed'.ids
      BY DEF TypeProbed
    <3>2. PICK k \in Valid' : /\ enumerated_devices'[k].deviceID = probedDevices'[id].location
                              /\ enumerated_devices'[k].product = p
      BY <3>1 DEF TypeProbed, ProbeDoes, ProbeKeeps, ProbeFinds
    <3>3. \A i \in Valid' : enumerated_devices'[i].deviceID = enumerated_devices'[k].deviceID => i = k
      BY DEF UsbInv, TableConsistent, EntriesDiffer
    <3>4. enumerated_devices'[k].deviceID < last_ID'
      BY DEF UsbInv, TableConsistent, EntriesDiffer
    <3>5. QED
      BY <3>1, <3>2, <3>3, <3>4
  <2>4. QED
    BY <2>2, <2>3 DEF Agree
<1>4. InStep'
  BY FrameTypes DEF TypeProbed, InStep, SoundInv
<1>5. QED
  BY <1>1, <1>2, <1>3, <1>4

LEMMA SoundStep ==
  ASSUME SoundInv, TableFitsBus, [RegistryNext]_vars
  PROVE  SoundInv'
<1>1. IInv'
  BY NextGood, StutterGood DEF SoundInv, Good
<1>2. CASE Quiet
  BY <1>1, <1>2, SoundQuiet DEF SoundInv
<1>3. CASE ProbeType
  <2>1. UsbInv'
    BY <1>1 DEF IInv
  <2>2. QED
    BY <1>1, <1>3, <2>1, ProbeTypeResult, SoundProbe DEF SoundInv
<1>4. QED
  BY <1>2, <1>3, RegistrySteps DEF SoundInv

-----------------------------------------------------------------------------
(* Two probes of a calm bus.                                               *)

\* Of an entry whose device is there.
Right(i) == attached[enumerated_devices[i].location] = enumerated_devices[i].product

\* A first calm probe rights the entries type by type, and a second one finds
\* them so.
TableRight ==
  calm >= 1 => \A i \in Valid :
    calm = 2 \/ discovery.at # "probing" \/ Done(discovery.type, enumerated_devices[i].product) => Right(i)

\* Whereupon it finds an entry and an adapter for every device, and no
\* adapter it has seen is without its entry.
AllFound ==
  calm = 2 /\ Probing => \A l \in Locations : Done(discovery.type, attached[l]) =>
    \E i \in Valid, id \in IDs \cap discovery.valid :
      /\ enumerated_devices[i].location = l
      /\ probedDevices[id].location = enumerated_devices[i].deviceID
NoneLost ==
  calm = 2 /\ Probing => \A id \in IDs \cap discovery.valid :
    \E i \in Valid : enumerated_devices[i].deviceID = probedDevices[id].location

ExactInv == SoundInv /\ TableRight /\ AllFound /\ NoneLost /\ RegistryExact

LEMMA ExactInit == RegistryInit => ExactInv
<1>1. RegistryInit => calm = 0
  BY DEF RegistryInit
<1>2. QED
  BY <1>1, SoundInit DEF ExactInv, TableRight, AllFound, NoneLost, RegistryExact

LEMMA ExactProbe ==
  ASSUME ExactInv, SoundInv', NEW p \in Products, TypeProbed(p)
  PROVE  ExactInv'
<1>1. /\ ProbeDoes(p) /\ UNCHANGED <<attached, calm>> /\ calm \in 0 .. 2
      /\ discovery.at = "probing" /\ Probing
      /\ discovery'.at \in {"probing", "verifying"}
  BY FrameTypes DEF ExactInv, SoundInv, TypeProbed, Probing
<1>2. \A q : Done(discovery'.type, q) <=> Done(discovery.type, q) \/ q = p
  <2>1. discovery.type \in 1 .. Len(Types) /\ p = Types[discovery.type] /\ discovery'.type = discovery.type + 1
        /\ Len(Types) \in Nat
    BY FrameTypes DEF TypeProbed, ExactInv, SoundInv
  <2>2. \A j \in 1 .. Len(Types) : j < discovery'.type <=> j < discovery.type \/ j = discovery.type
    BY <2>1
  <2>3. QED
    BY <2>1, <2>2 DEF Done
<1>3. \A i \in Valid' : \/ enumerated_devices'[i].product = p /\ Right(i)'
                        \/ /\ i \in Valid /\ Same(enumerated_devices'[i], enumerated_devices[i])
                           /\ enumerated_devices'[i].product # p
  BY <1>1 DEF ProbeDoes, ProbeKeeps, ProbeFinds, Right
<1>4. TableRight'
  <2>1. SUFFICES ASSUME calm >= 1, NEW i \in Valid',
                        calm = 2 \/ discovery'.at # "probing" \/ Done(discovery'.type, enumerated_devices'[i].product)
                 PROVE  Right(i)'
    BY <1>1 DEF TableRight
  <2>2. CASE enumerated_devices'[i].product = p
    BY <1>3, <2>2
  <2>3. CASE enumerated_devices'[i].product # p
    <3>1. i \in Valid /\ Same(enumerated_devices'[i], enumerated_devices[i])
      BY <1>3, <2>3
    <3>2. discovery'.at # "probing" => Done(discovery'.type, enumerated_devices'[i].product)
      <4>1. discovery'.at # "probing" => discovery'.type = Len(Types) + 1 /\ Len(Types) \in Nat
        BY <1>1, FrameTypes DEF SoundInv, InStep, ExactInv
      <4>2. \E j \in 1 .. Len(Types) : Types[j] = enumerated_devices'[i].product
        BY DEF SoundInv, OfTypes
      <4>3. QED
        BY <4>1, <4>2 DEF Done
    <3>3. calm = 2 \/ Done(discovery.type, enumerated_devices[i].product)
      BY <1>2, <2>1, <2>3, <3>1, <3>2 DEF Same
    <3>4. Right(i)
      BY <2>1, <3>1, <3>3 DEF ExactInv, TableRight
    <3>5. QED
      BY <1>1, <3>1, <3>4 DEF Right, Same
  <2>4. QED
    BY <2>2, <2>3
<1>5. AllFound'
  <2>1. SUFFICES ASSUME calm = 2, NEW l \in Locations, Done(discovery'.type, attached[l])
                 PROVE  \E i \in Valid', id \in IDs' \cap discovery'.valid :
                          /\ enumerated_devices'[i].location = l
                          /\ probedDevices'[id].location = enumerated_devices'[i].deviceID
    BY <1>1 DEF AllFound
  <2>2. CASE attached[l] = p
    <3>1. PICK i \in Valid' : enumerated_devices'[i].location = l
      BY <1>1, <2>2 DEF ProbeDoes, ProbeKeeps, ProbeFinds
    <3>2. enumerated_devices'[i].product = p
      BY <1>1, <1>4, <2>1, <2>2, <3>1 DEF TableRight, Right
    <3>3. enumerated_devices'[i].deviceID \in probed'.ids
      BY <1>1, <3>1, <3>2 DEF ProbeDoes, ProbeKeeps, ProbeFinds
    <3>4. PICK id \in IDs' : probedDevices'[id].location = enumerated_devices'[i].deviceID
      BY <3>3 DEF TypeProbed
    <3>5. id \in discovery'.valid
      BY <3>3, <3>4 DEF TypeProbed
    <3>6. QED
      BY <3>1, <3>4, <3>5
  <2>3. CASE attached[l] # p
    <3>1. Done(discovery.type, attached[l])
      BY <1>1, <1>2, <2>1, <2>3
    <3>2. PICK i \in Valid, id \in IDs \cap discovery.valid :
            /\ enumerated_devices[i].location = l
            /\ probedDevices[id].location = enumerated_devices[i].deviceID
      BY <1>1, <2>1, <3>1 DEF ExactInv, AllFound
    <3>3. enumerated_devices[i].product # p
      BY <2>1, <2>3, <3>2 DEF ExactInv, TableRight, Right
    <3>4. i \in Valid' /\ Same(enumerated_devices'[i], enumerated_devices[i])
      BY <1>1, <3>3 DEF ProbeDoes, ProbeKeeps, ProbeFinds
    <3>5. id \in IDs' /\ id \in discovery'.valid /\ probedDevices'[id] = probedDevices[id]
      BY <3>2 DEF TypeProbed
    <3>6. QED
      BY <3>2, <3>4, <3>5 DEF Same
  <2>4. QED
    BY <2>2, <2>3
<1>6. NoneLost'
  <2>1. SUFFICES ASSUME calm = 2, NEW id \in IDs' \cap discovery'.valid
                 PROVE  \E i \in Valid' : enumerated_devices'[i].deviceID = probedDevices'[id].location
    BY <1>1 DEF NoneLost
  <2>2. CASE probedDevices'[id].location \in probed'.ids
    BY <1>1, <2>2 DEF ProbeDoes, ProbeKeeps, ProbeFinds
  <2>3. CASE probedDevices'[id].location \notin probed'.ids
    <3>1. id \in IDs /\ id \in discovery.valid /\ probedDevices'[id] = probedDevices[id]
      BY <2>3 DEF TypeProbed
    <3>2. PICK i \in Valid : enumerated_devices[i].deviceID = probedDevices[id].location
      BY <1>1, <2>1, <3>1 DEF ExactInv, NoneLost
    <3>3. Right(i)
      BY <2>1 DEF ExactInv, TableRight
    <3>4. i \in Valid' /\ Same(enumerated_devices'[i], enumerated_devices[i])
      BY <1>1, <3>3 DEF ProbeDoes, ProbeKeeps, ProbeFinds, Right
    <3>5. QED
      BY <3>1, <3>2, <3>4 DEF Same
  <2>4. QED
    BY <2>2, <2>3
<1>7. RegistryExact'
  BY <1>1 DEF RegistryExact
<1>8. QED
  BY <1>4, <1>5, <1>6, <1>7 DEF ExactInv

LEMMA ExactProbeEnds ==
  ASSUME ExactInv, ProbeEnds, TableKept, UNCHANGED <<attached, probedDevices>>
  PROVE  RegistryExact'
<1>1. /\ discovery.at = "verifying" /\ Probing /\ Unverified = {} /\ calm' = calm /\ IDs' = IDs
  BY DEF ProbeEnds, Probing, IDs
<1>2. SUFFICES ASSUME calm = 2
               PROVE  /\ \A l \in Locations : attached[l] \in {Types[i] : i \in 1 .. Len(Types)} =>
                           \E i \in Valid, id \in IDs :
                             /\ enumerated_devices[i].location = l
                             /\ probedDevices[id].location = enumerated_devices[i].deviceID
                             /\ probedDevices[id].product = attached[l]
                      /\ \A id \in IDs : \E i \in Valid :
                           /\ enumerated_devices[i].deviceID = probedDevices[id].location
                           /\ attached[enumerated_devices[i].location] = probedDevices[id].product
  BY <1>1 DEF RegistryExact, TableKept
<1>3. IDs \subseteq discovery.valid
  BY <1>1 DEF Unverified
<1>4. \A i \in Valid : attached[enumerated_devices[i].location] = enumerated_devices[i].product
  BY <1>1, <1>2 DEF ExactInv, TableRight, Right
<1>5. \A id \in IDs, i \in Valid : enumerated_devices[i].deviceID = probedDevices[id].location =>
        enumerated_devices[i].product = probedDevices[id].product
  BY DEF ExactInv, SoundInv, Agree
<1>6. ASSUME NEW l \in Locations, attached[l] \in {Types[i] : i \in 1 .. Len(Types)}
      PROVE  \E i \in Valid, id \in IDs :
               /\ enumerated_devices[i].location = l
               /\ probedDevices[id].location = enumerated_devices[i].deviceID
               /\ probedDevices[id].product = attached[l]
  <2>1. Done(discovery.type, attached[l])
    BY <1>1, <1>6, AllDone DEF ExactInv
  <2>2. PICK i \in Valid, id \in IDs \cap discovery.valid :
          /\ enumerated_devices[i].location = l
          /\ probedDevices[id].location = enumerated_devices[i].deviceID
    BY <1>1, <1>2, <2>1 DEF ExactInv, AllFound
  <2>3. probedDevices[id].product = attached[l]
    BY <1>4, <1>5, <2>2
  <2>4. QED
    BY <2>2, <2>3
<1>7. ASSUME NEW id \in IDs
      PROVE  \E i \in Valid : /\ enumerated_devices[i].deviceID = probedDevices[id].location
                              /\ attached[enumerated_devices[i].location] = probedDevices[id].product
  <2>1. PICK i \in Valid : enumerated_devices[i].deviceID = probedDevices[id].location
    BY <1>1, <1>2, <1>3 DEF ExactInv, NoneLost
  <2>2. QED
    BY <1>4, <1>5, <2>1
<1>8. QED
  BY <1>6, <1>7

LEMMA ExactQuiet ==
  ASSUME ExactInv, SoundInv', Quiet
  PROVE  ExactInv'
<1>1. /\ TableKept /\ IDs' \subseteq IDs
      /\ \A id \in IDs' : Kept(probedDevices'[id], probedDevices[id])
      /\ calm \in 0 .. 2
  BY FrameTypes DEF Quiet, ExactInv, SoundInv
<1>2. CASE calm' = 0
  BY <1>2 DEF TableRight, AllFound, NoneLost, RegistryExact, ExactInv
<1>3. CASE /\ UNCHANGED <<discovery, calm, attached>>
           /\ \/ IDs' = IDs
              \/ /\ discovery.at \in {"verifying", "deleting"}
                 /\ \A id \in IDs \ IDs' : id \notin discovery.valid
  <2>1. \A id \in IDs \cap discovery.valid : id \in IDs'
    BY <1>3
  <2>2. TableRight'
    BY <1>1, <1>3 DEF ExactInv, TableRight, Right, TableKept
  <2>3. AllFound'
    BY <1>1, <1>3, <2>1 DEF ExactInv, AllFound, Probing, TableKept, Kept
  <2>4. NoneLost'
    BY <1>1, <1>3, <2>1 DEF ExactInv, NoneLost, Probing, TableKept, Kept
  <2>5. RegistryExact'
    <3>1. discovery.at = "idle" => IDs' = IDs
      BY <1>3
    <3>2. QED
      BY <1>1, <1>3, <3>1 DEF ExactInv, RegistryExact, TableKept, Kept
  <2>6. QED
    BY <2>2, <2>3, <2>4, <2>5 DEF ExactInv
<1>4. CASE ProbeStart /\ UNCHANGED attached
  <2>1. /\ discovery.at = "idle" /\ discovery'.type = 1 /\ discovery'.valid = {}
        /\ discovery'.at = IF Types = << >> THEN "verifying" ELSE "probing"
        /\ calm' = IF calm < 2 THEN calm + 1 ELSE 2
    BY <1>4 DEF ProbeStart
  <2>2. \A q : ~Done(discovery'.type, q)
    BY <2>1 DEF Done
  <2>3. TableRight'
    <3>1. SUFFICES ASSUME NEW i \in Valid, calm' = 2 \/ discovery'.at # "probing" PROVE Right(i)
      BY <1>1, <1>4, <2>2 DEF TableRight, Right, TableKept
    <3>2. CASE calm >= 1
      BY <2>1, <3>2 DEF ExactInv, TableRight
    <3>3. CASE calm = 0
      <4>1. Types = << >>
        BY <2>1, <3>1, <3>3
      <4>2. Len(Types) = 0
        BY <4>1
      <4>3. QED
        BY <4>2 DEF ExactInv, SoundInv, OfTypes
    <3>4. QED
      BY <1>1, <3>2, <3>3
  <2>4. AllFound' /\ NoneLost' /\ RegistryExact'
    BY <2>1, <2>2 DEF AllFound, NoneLost, RegistryExact
  <2>5. QED
    BY <2>3, <2>4 DEF ExactInv
<1>5. CASE ProbeEnds /\ UNCHANGED attached
  <2>1. UNCHANGED <<probedDevices, calm>> /\ discovery.at = "verifying" /\ discovery'.at = "idle"
    BY <1>5, FrameTypes DEF ProbeEnds, registryVars, ExactInv, SoundInv
  <2>2. TableRight'
    BY <1>1, <1>5, <2>1 DEF ExactInv, TableRight, Right, TableKept
  <2>3. AllFound' /\ NoneLost'
    BY <2>1 DEF AllFound, NoneLost, Probing
  <2>4. RegistryExact'
    BY <1>1, <1>5, <2>1, ExactProbeEnds
  <2>5. QED
    BY <2>2, <2>3, <2>4 DEF ExactInv
<1>6. CASE Shutdown \/ ShutdownEnds \/ Initialize
  <2>1. calm' = 0
    BY <1>6 DEF Shutdown, ShutdownEnds, Initialize, ExactInv, SoundInv, InStep
  <2>2. QED
    BY <1>2, <2>1
<1>7. QED
  BY <1>2, <1>3, <1>4, <1>5, <1>6 DEF Quiet

LEMMA ExactStep ==
  ASSUME ExactInv, TableFitsBus, [RegistryNext]_vars
  PROVE  ExactInv'
<1>1. SoundInv'
  BY SoundStep DEF ExactInv
<1>2. CASE Quiet
  BY <1>1, <1>2, ExactQuiet
<1>3. CASE ProbeType
  BY <1>1, <1>3, ProbeTypeResult, ExactProbe DEF ExactInv, SoundInv
<1>4. QED
  BY <1>2, <1>3, RegistrySteps DEF ExactInv, SoundInv

\* Whatever has come and gone, and with a worker calling in between: after two
\* probes of a bus that has not changed since, the adapters are the devices on
\* it, each with its product (SeaBreezeAPI_Impl.cpp, probeDevices). The table
\* of the native layer has room for the bus.
THEOREM RegistryBecomesExact == TableFitsBus => (RegistrySpec => []RegistryExact)
<1> SUFFICES ASSUME TableFitsBus PROVE RegistrySpec => []RegistryExact
  OBVIOUS
<1>1. ExactInv /\ [RegistryNext]_vars => ExactInv'
  BY ExactStep
<1>2. ExactInv => RegistryExact
  BY DEF ExactInv
<1>3. QED
  BY <1>1, <1>2, ExactInit, PTL DEF RegistrySpec

-----------------------------------------------------------------------------
(* A bus on which no device goes away while it is open.                    *)

\* An adapter's handle is one that was opened for its ID of the table, and an
\* adapter that a probe has looked for and not seen has no entry left.
HandleIsOwn ==
  \A id \in IDs : LET h == probedDevices[id].descriptor
                  IN  h # NoHandle => h \in 1 .. Len(handles)
                                      /\ handles[h].deviceID = probedDevices[id].location
UnseenGone ==
  Probing => \A id \in IDs \ discovery.valid :
    Done(discovery.type, probedDevices[id].product) =>
      \A i \in Valid : enumerated_devices[i].deviceID # probedDevices[id].location

SafeInv == SoundInv /\ HandleIsOwn /\ UnseenGone

LEMMA SafeInit == RegistryInit => SafeInv
<1>1. RegistryInit => IDs = {}
  BY DEF RegistryInit, IDs
<1>2. QED
  BY <1>1, SoundInit DEF SafeInv, HandleIsOwn, UnseenGone

\* An adapter has the handle it had, or none, or the one just opened for it.
LEMMA DescriptorSteps ==
  ASSUME SoundInv, TableFitsBus, [RegistryNext]_vars, NEW id \in IDs', probedDevices'[id].descriptor # NoHandle
  PROVE  /\ id \in IDs /\ probedDevices'[id].location = probedDevices[id].location
         /\ \/ probedDevices'[id].descriptor = probedDevices[id].descriptor
            \/ /\ USBOpen(probedDevices[id].location)
               /\ probedDevices'[id].descriptor = Len(handles')
<1> DEFINE Same1 == /\ id \in IDs /\ probedDevices'[id].location = probedDevices[id].location
                    /\ probedDevices'[id].descriptor = probedDevices[id].descriptor
<1>1. UNCHANGED probedDevices => Same1
  BY DEF IDs
<1>2. ASSUME NEW k \in IDs,
             \/ probedDevices' = Without(probedDevices, k)
             \/ probedDevices' = [probedDevices EXCEPT ![k].descriptor = NoHandle]
             \/ probedDevices' = [probedDevices EXCEPT ![k].descriptor = NoHandle, ![k].openedBus = FALSE]
      PROVE  Same1
  <2>1. Released(k, probedDevices, probedDevices')
    BY <1>2, ReleasedFacts DEF SoundInv
  <2>2. QED
    BY <2>1 DEF Released, Kept, IDs
<1>3. CASE ProbeType
  BY <1>3, ProbeTypeResult DEF TypeProbed, SoundInv
<1>4. CASE Verify
  <2>1. First(Unverified) \in IDs /\ probedDevices' = Without(probedDevices, First(Unverified))
    BY <1>4, FirstFacts, AdapterFacts DEF Verify, Unverified, Delete, SoundInv
  <2>2. QED
    BY <1>2, <2>1
<1>5. CASE OpenBus
  <2>1. CASE USBOpen(probedDevices[worker.id].location)
             /\ probedDevices' = Opened(worker.id, Len(handles'))
    <3>1. PICK h : h = Len(handles')
      OBVIOUS
    <3> DEFINE e == [probedDevices[worker.id] EXCEPT !.descriptor = h, !.openedBus = TRUE]
    <3>2. worker.id \in IDs /\ probedDevices' = [probedDevices EXCEPT ![worker.id] = e]
      BY <1>5, <2>1, <3>1 DEF OpenBus, Opened, IDs
    <3>3. e.location = probedDevices[worker.id].location /\ e.descriptor = h
      BY <3>2, AdapterFacts DEF Adapter, SoundInv
    <3> HIDE DEF e
    <3>4. QED
      BY <2>1, <3>1, <3>2, <3>3, AdapterFacts DEF IDs, SoundInv
  <2>2. QED
    BY <1>1, <1>5, <2>1 DEF OpenBus
<1>6. CASE WorkerStep /\ ~OpenBus
  BY <1>1, <1>2, <1>6 DEF WorkerStep, OpenSetLocation, CloseDevice, UseDevice, UseDeleted
<1>7. CASE BusChanges \/ ProbeStart \/ ProbeEnds \/ AddDeviceLocation \/ Shutdown \/ ShutdownEnds
           \/ Initialize \/ UNCHANGED vars
           \/ \E op \in {"open", "close", "transfer"}, k \in IDs : WorkerCalls(op, k)
  <2>1. UNCHANGED probedDevices
    BY <1>7 DEF BusChanges, ProbeStart, ProbeEnds, AddDeviceLocation, Shutdown, ShutdownEnds,
                Initialize, WorkerCalls, vars, registryVars
  <2>2. QED
    BY <1>1, <2>1
<1>8. QED
  BY <1>3, <1>4, <1>5, <1>6, <1>7 DEF RegistryNext

LEMMA HandleIsOwnStep ==
  ASSUME SafeInv, SoundInv', TableFitsBus, [RegistryNext]_vars
  PROVE  HandleIsOwn'
<1>1. SUFFICES ASSUME NEW id \in IDs', probedDevices'[id].descriptor # NoHandle
               PROVE  /\ probedDevices'[id].descriptor \in 1 .. Len(handles')
                      /\ handles'[probedDevices'[id].descriptor].deviceID = probedDevices'[id].location
  BY DEF HandleIsOwn
<1>2. id \in IDs /\ probedDevices'[id].location = probedDevices[id].location
  BY <1>1, DescriptorSteps DEF SafeInv
<1>3. [UsbNext]_usbVars
  BY NextGood, StutterGood DEF SafeInv, SoundInv, Good
<1>4. CASE probedDevices'[id].descriptor = probedDevices[id].descriptor
  <2>1. /\ probedDevices[id].descriptor \in 1 .. Len(handles)
        /\ handles[probedDevices[id].descriptor].deviceID = probedDevices[id].location
    BY <1>1, <1>2, <1>4 DEF SafeInv, HandleIsOwn
  <2>2. QED
    BY <1>2, <1>3, <1>4, <2>1, HandleIDs DEF SafeInv, SoundInv, IInv
<1>5. CASE /\ USBOpen(probedDevices[id].location)
           /\ probedDevices'[id].descriptor = Len(handles')
  <2>1. handles' = Append(handles, [deviceID |-> probedDevices[id].location, freed |-> FALSE])
    BY <1>5 DEF USBOpen
  <2>2. handles \in Seq(Handle)
    BY DEF SafeInv, SoundInv, IInv, UsbInv, UsbTypeOK
  <2>3. QED
    BY <1>2, <1>5, <2>1, <2>2
<1>6. QED
  BY <1>1, <1>4, <1>5, DescriptorSteps DEF SafeInv

LEMMA UnseenQuiet ==
  ASSUME SafeInv, Quiet
  PROVE  UnseenGone'
<1>1. CASE UNCHANGED discovery
  BY <1>1 DEF Quiet, SafeInv, UnseenGone, Probing, TableKept, Kept
<1>2. CASE ProbeStart
  <2>1. \A q : ~Done(discovery'.type, q)
    BY <1>2 DEF ProbeStart, Done
  <2>2. QED
    BY <2>1 DEF UnseenGone
<1>3. CASE ProbeEnds \/ Shutdown \/ ShutdownEnds \/ Initialize
  <2>1. discovery'.at \in {"idle", "deleting", "down"}
    BY <1>3, FrameTypes DEF ProbeEnds, Shutdown, ShutdownEnds, Initialize, SafeInv, SoundInv
  <2>2. QED
    BY <2>1 DEF UnseenGone, Probing
<1>4. QED
  BY <1>1, <1>2, <1>3 DEF Quiet

LEMMA UnseenProbe ==
  ASSUME SafeInv, SoundInv', NEW p \in Products, TypeProbed(p)
  PROVE  UnseenGone'
<1>1. SUFFICES ASSUME NEW id \in IDs' \ discovery'.valid, Done(discovery'.type, probedDevices'[id].product),
                      NEW i \in Valid', enumerated_devices'[i].deviceID = probedDevices'[id].location
               PROVE  FALSE
  BY DEF UnseenGone
<1>2. /\ id \in IDs /\ id \notin discovery.valid /\ probedDevices'[id] = probedDevices[id]
      /\ probedDevices[id].location \notin probed'.ids
      /\ ProbeDoes(p) /\ Probing
  BY <1>1 DEF TypeProbed, Probing
<1>3. i \in Valid /\ Same(enumerated_devices'[i], enumerated_devices[i])
  BY <1>1, <1>2, OldEntry DEF SafeInv, SoundInv, IInv
<1>4. enumerated_devices[i].product = probedDevices[id].product
  BY <1>1, <1>2, <1>3 DEF SafeInv, SoundInv, Agree, Same
<1>5. probedDevices[id].product # p
  BY <1>1, <1>2, <1>3, <1>4 DEF ProbeDoes, ProbeKeeps, ProbeFinds, Same
<1>6. Done(discovery.type, probedDevices[id].product)
  <2>1. discovery.type \in 1 .. Len(Types) /\ p = Types[discovery.type] /\ discovery'.type = discovery.type + 1
        /\ Len(Types) \in Nat
    BY FrameTypes DEF TypeProbed, SafeInv, SoundInv
  <2>2. \A j \in 1 .. Len(Types) : j < discovery'.type <=> j < discovery.type \/ j = discovery.type
    BY <2>1
  <2>3. QED
    BY <1>1, <1>2, <1>5, <2>1, <2>2 DEF Done
<1>7. QED
  BY <1>1, <1>2, <1>3, <1>6 DEF SafeInv, UnseenGone, Same

LEMMA SafeStep ==
  ASSUME SafeInv, TableFitsBus, [RegistryNext]_vars
  PROVE  SafeInv'
<1>1. SoundInv' /\ HandleIsOwn'
  BY SoundStep, HandleIsOwnStep DEF SafeInv
<1>2. CASE Quiet
  BY <1>1, <1>2, UnseenQuiet DEF SafeInv
<1>3. CASE ProbeType
  BY <1>1, <1>3, ProbeTypeResult, UnseenProbe DEF SafeInv, SoundInv
<1>4. QED
  BY <1>2, <1>3, RegistrySteps DEF SafeInv, SoundInv

LEMMA SafeInductive == TableFitsBus => (RegistrySpec => []SafeInv)
<1> SUFFICES ASSUME TableFitsBus PROVE RegistrySpec => []SafeInv
  OBVIOUS
<1>1. SafeInv /\ [RegistryNext]_vars => SafeInv'
  BY SafeStep
<1>2. QED
  BY <1>1, SafeInit, PTL DEF RegistrySpec

\* An adapter that is open has its entry.
LEMMA OpenHasEntry ==
  ASSUME SafeInv, HeldAlive, NEW id \in IDs, probedDevices[id].descriptor # NoHandle
  PROVE  \E i \in Valid : enumerated_devices[i].deviceID = probedDevices[id].location
<1> DEFINE h == probedDevices[id].descriptor
<1>1. h \in 1 .. Len(handles) /\ handles[h].deviceID = probedDevices[id].location
  BY DEF SafeInv, HandleIsOwn
<1>2. h \in held
  BY DEF SafeInv, SoundInv, IInv, HandlesOwned
<1>3. ~handles[h].freed
  BY <1>2 DEF HeldAlive
<1>4. HandlesTracked
  BY DEF SafeInv, SoundInv, IInv, UsbInv, TableConsistent
<1> HIDE DEF h
<1>5. PICK i \in Valid : enumerated_devices[i].handle = h
  BY <1>1, <1>3, <1>4 DEF HandlesTracked
<1>6. h # NoHandle
  BY DEF h
<1>7. QED
  BY <1>1, <1>4, <1>5, <1>6 DEF HandlesTracked

OpenStays == \A id \in IDs : probedDevices[id].descriptor # NoHandle /\ discovery.at # "deleting"
                               => id \in DOMAIN probedDevices'

LEMMA OpenStaysStep ==
  ASSUME SafeInv, HeldAlive, TableFitsBus, [RegistryNext]_vars
  PROVE  OpenStays
<1>1. SUFFICES ASSUME NEW id \in IDs, probedDevices[id].descriptor # NoHandle, discovery.at # "deleting",
                      id \notin IDs'
               PROVE  FALSE
  BY DEF OpenStays, IDs
<1>2. CASE Quiet
  <2>1. discovery.at = "verifying" /\ id \notin discovery.valid
    BY <1>1, <1>2 DEF Quiet
  <2>2. Done(discovery.type, probedDevices[id].product)
    BY <2>1, AllDone DEF SafeInv
  <2>3. QED
    BY <1>1, <2>1, <2>2, OpenHasEntry DEF SafeInv, UnseenGone, Probing
<1>3. CASE ProbeType
  BY <1>1, <1>3, ProbeTypeResult DEF TypeProbed, SafeInv, SoundInv
<1>4. QED
  BY <1>2, <1>3, RegistrySteps DEF SafeInv, SoundInv

\* A probe never takes away a device that is open, as long as none is
\* unplugged while it is, also with a worker that opens and closes while the
\* probe goes on (SeaBreezeAPI_Impl.cpp, probeDevices). The table of the
\* native layer has room for the bus.
THEOREM OpenDevicesStay == TableFitsBus /\ ~SurpriseRemoval => (RegistrySpec => OpenSurvivesProbe)
<1> SUFFICES ASSUME TableFitsBus, ~SurpriseRemoval PROVE RegistrySpec => OpenSurvivesProbe
  OBVIOUS
<1>1. SafeInv /\ HeldAlive /\ [RegistryNext]_vars => [OpenStays]_vars
  BY OpenStaysStep
<1>2. UsbSpec => [](HeldAlive /\ ~fault)
  BY HeldHandlesLive
<1>3. [][OpenStays]_vars => OpenSurvivesProbe
  BY PTL DEF OpenSurvivesProbe, OpenStays
<1>4. QED
  BY <1>1, <1>2, <1>3, SafeInductive, UsesNativeLayer, PTL DEF RegistrySpec

\* And the registry never uses a handle that was freed, whatever the table
\* holds (NativeUSBLinux.c 183-213).
THEOREM NoFreedHandleUsed == ~SurpriseRemoval => (RegistrySpec => []FreedHandleUnused)
<1> SUFFICES ASSUME ~SurpriseRemoval PROVE RegistrySpec => []FreedHandleUnused
  OBVIOUS
<1>1. UsbSpec => [](HeldAlive /\ ~fault)
  BY HeldHandlesLive
<1>2. HeldAlive /\ ~fault => FreedHandleUnused
  BY DEF FreedHandleUnused
<1>3. QED
  BY <1>1, <1>2, UsesNativeLayer, PTL
=============================================================================
