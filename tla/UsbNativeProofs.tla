--------------------------- MODULE UsbNativeProofs ---------------------------
(***************************************************************************)
(* Proofs about UsbNative, for any bus, any products and any size of the   *)
(* table: it is well typed, knows each device and each handle once, and    *)
(* its searches see every entry.                                           *)
(*                                                                         *)
(* The invariant is the type invariant and TableConsistent together. A     *)
(* probe numbers the new devices and the empty slots by their ranks; the   *)
(* first lemmas say that ranks are a bijection, the next ones what the     *)
(* table is after the loop over the bus and after the purge, and from then *)
(* on no step looks into the ranks again.                                  *)
(*                                                                         *)
(* Two more things hold: where no device goes away while it is open, no    *)
(* handle that is held has been freed; and with a table that has room for  *)
(* every device of the bus (TableFitsBus) no probe fails, and what a probe *)
(* reports is what is there.                                               *)
(***************************************************************************)
EXTENDS UsbNative, FiniteSetTheorems, FunctionTheorems, TLAPS

-----------------------------------------------------------------------------
(* Ranks.                                                                  *)

\* The members of a finite set of numbers have different ranks, from 1 to
\* its cardinality.
LEMMA RankInjective ==
  ASSUME NEW S, S \subseteq Nat, IsFiniteSet(S)
  PROVE  /\ \A x \in S : Rank(S, x) \in 1 .. Cardinality(S)
         /\ \A x, y \in S : Rank(S, x) = Rank(S, y) => x = y
<1> DEFINE Below(x) == {z \in S : z <= x}
<1>1. Cardinality(S) \in Nat
  BY FS_CardinalityType
<1>2. \A x \in S : /\ Below(x) \in SUBSET S /\ IsFiniteSet(Below(x))
                   /\ Cardinality(Below(x)) \in Nat /\ Cardinality(Below(x)) <= Cardinality(S)
  <2>1. TAKE x \in S
  <2>2. Below(x) \in SUBSET S
    OBVIOUS
  <2> HIDE DEF Below
  <2>3. QED
    BY <2>2, FS_Subset, FS_CardinalityType
<1>3. \A x \in S : Cardinality(Below(x)) # 0
  <2>1. TAKE x \in S
  <2>2. x \in Below(x)
    OBVIOUS
  <2> HIDE DEF Below
  <2>3. QED
    BY <1>2, <2>2, FS_EmptySet
<1>4. \A x, y \in S : x < y => Cardinality(Below(x)) # Cardinality(Below(y))
  <2>1. SUFFICES ASSUME NEW x \in S, NEW y \in S, x < y,
                        Cardinality(Below(x)) = Cardinality(Below(y))
                 PROVE  FALSE
    <3> HIDE DEF Below
    <3>1. QED
      OBVIOUS
  <2>2. y \in Below(y) /\ y \notin Below(x) /\ Below(x) \in SUBSET Below(y)
    <3>1. x \in Nat /\ y \in Nat /\ \A z \in S : z \in Nat
      OBVIOUS
    <3>2. y \in Below(y) /\ y \notin Below(x)
      BY <2>1, <3>1
    <3>3. \A z \in S : z <= x => z <= y
      BY <2>1, <3>1
    <3>4. Below(x) \in SUBSET Below(y)
      BY <3>3
    <3>5. QED
      BY <3>2, <3>4
  <2> HIDE DEF Below
  <2>3. Below(y) = Below(x)
    BY <1>2, <2>1, <2>2, FS_Subset
  <2>4. QED
    BY <2>2, <2>3
<1>5. \A x : Rank(S, x) = Cardinality(Below(x))
  BY DEF Rank
<1> HIDE DEF Below
<1>6. \A x, y \in S : x = y \/ x < y \/ y < x
  OBVIOUS
<1>7. \A x \in S : Rank(S, x) \in 1 .. Cardinality(S)
  BY <1>1, <1>2, <1>3, <1>5
<1>8. \A x, y \in S : Rank(S, x) = Rank(S, y) => x = y
  BY <1>4, <1>5, <1>6
<1>9. QED
  BY <1>7, <1>8

\* And every number up to the cardinality is the rank of a member.
LEMMA RankOnto ==
  ASSUME NEW S, S \subseteq Nat, IsFiniteSet(S)
  PROVE  \A k \in 1 .. Cardinality(S) : \E x \in S : Rank(S, x) = k
<1> DEFINE n == Cardinality(S)
<1> DEFINE f == [x \in S |-> Rank(S, x)]
<1>1. n \in Nat /\ IsFiniteSet(1 .. n) /\ Cardinality(1 .. n) = n
  BY FS_CardinalityType, FS_Interval
<1>2. f \in Injection(S, 1 .. n)
  BY RankInjective DEF Injection, IsInjective
<1> HIDE DEF f
<1>3. f \in Surjection(S, 1 .. n)
  BY <1>1, <1>2, FS_Injection
<1>4. \A k \in 1 .. n : \E x \in S : f[x] = k
  BY <1>3 DEF Surjection
<1>5. QED
  BY <1>4 DEF f
-----------------------------------------------------------------------------
(* The table.                                                              *)

UsbInv == UsbTypeOK /\ TableConsistent

\* Entries that differ in their mark only.
Same(e, f) == /\ e.deviceID = f.deviceID /\ e.handle = f.handle
              /\ e.location = f.location /\ e.product = f.product

LEMMA EntryFacts ==
  /\ \A e \in Entry : /\ e # NoEntry /\ e.deviceID \in Nat /\ e.handle \in Nat
                      /\ e.location \in Locations /\ e.product \in Products
  /\ \A e \in Entry : \A b \in BOOLEAN : /\ [e EXCEPT !.mark = b] \in Entry
                                         /\ Same([e EXCEPT !.mark = b], e)
<1>1. \A e \in Entry : e.deviceID # -1
  BY DEF Entry
<1>2. \A e \in Entry : e # NoEntry
  BY <1>1 DEF NoEntry
<1>3. \A e \in Entry : /\ e.deviceID \in Nat /\ e.handle \in Nat
                       /\ e.location \in Locations /\ e.product \in Products
  BY DEF Entry
<1>4. \A e \in Entry : \A b \in BOOLEAN : [e EXCEPT !.mark = b] \in Entry
  BY DEF Entry
<1>5. \A e \in Entry : \A b \in BOOLEAN : Same([e EXCEPT !.mark = b], e)
  BY DEF Entry, Same
<1>6. QED
  BY <1>2, <1>3, <1>4, <1>5

\* What the invariant says of the searches: they see every entry.
LEMMA TableFacts ==
  ASSUME UsbInv
  PROVE  /\ Valid \subseteq Nat /\ IsFiniteSet(Valid) /\ Free \subseteq Nat /\ IsFiniteSet(Free)
         /\ \A i \in Slots : enumerated_devices[i] \in Entry \cup {NoEntry}
         /\ \A i \in Valid : i \in Slots /\ enumerated_devices[i] \in Entry
         /\ \A i \in Free : i \in Slots /\ enumerated_devices[i] = NoEntry
         /\ Searched = Valid
         /\ device_count = Cardinality(Valid)
         /\ Cardinality(Slots) = Cardinality(Valid) + Cardinality(Free)
<1>1. Slots \subseteq Nat /\ IsFiniteSet(Slots)
  BY TableAssumption, FS_Interval DEF Slots
<1>2. Valid \in SUBSET Slots /\ Free \in SUBSET Slots
  BY DEF Valid, Free, Entries
<1>3. IsFiniteSet(Valid) /\ IsFiniteSet(Free)
  BY <1>1, <1>2, FS_Subset
<1>4. \A i \in Slots : enumerated_devices[i] \in Entry \cup {NoEntry}
  BY DEF UsbInv, UsbTypeOK
<1>5. /\ \A i \in Valid : i \in Slots /\ enumerated_devices[i] \in Entry
      /\ \A i \in Free : i \in Slots /\ enumerated_devices[i] = NoEntry
  BY <1>4 DEF Valid, Free, Entries
<1>6. device_count = Cardinality(Valid)
  BY DEF UsbInv, TableConsistent, EntriesDiffer
<1>7. Searched = Valid
  <2>1. \A i \in Valid : Rank(Valid, i) <= Cardinality(Valid)
    <3>1. Valid \subseteq Nat
      BY <1>1, <1>2
    <3>2. \A i \in Valid : Rank(Valid, i) \in 1 .. Cardinality(Valid)
      BY <1>3, <3>1, RankInjective
    <3>3. QED
      BY <3>2
  <2>2. QED
    BY <1>6, <2>1 DEF Searched
<1>8. Cardinality(Slots) = Cardinality(Valid) + Cardinality(Free)
  <2>1. Valid \cup Free = Slots /\ Valid \cap Free = {}
    BY <1>2 DEF Free
  <2>2. Cardinality({}) = 0
    BY FS_EmptySet
  <2>3. Cardinality(Valid) \in Nat /\ Cardinality(Free) \in Nat
    BY <1>3, FS_CardinalityType
  <2>4. Cardinality(Slots) = Cardinality(Valid) + Cardinality(Free) - Cardinality({})
    BY <1>3, <2>1, FS_Union
  <2>5. QED
    BY <2>2, <2>3, <2>4
<1>9. QED
  BY <1>1, <1>2, <1>3, <1>4, <1>5, <1>6, <1>7, <1>8

\* The new devices of a product are at places no entry has.
LEMMA NewFacts ==
  ASSUME UsbInv, NEW p \in Products
  PROVE  /\ New(p) \subseteq Nat /\ New(p) \subseteq Locations /\ IsFiniteSet(New(p))
         /\ Cardinality(New(p)) \in Nat
         /\ \A l \in New(p) : \A i \in Valid : enumerated_devices[i].location # l
<1>1. New(p) \in SUBSET Locations
  BY DEF New, Matching
<1>2. IsFiniteSet(New(p)) /\ New(p) \subseteq Nat
  BY <1>1, LocationsAssumption, FS_Subset
<1>3. \A l \in New(p) : \A i \in Valid : enumerated_devices[i].location # l
  BY TableFacts DEF New, KnownLocations
<1>4. QED
  BY <1>1, <1>2, <1>3, FS_CardinalityType

\* The table after the loop over the bus: the entries are what they were but
\* for their marks, and an empty slot holds the new device of its own rank.
LEMMA ScanFacts ==
  ASSUME UsbInv, NEW p \in Products
  PROVE  /\ Scanned(p) \in [Slots -> Entry \cup {NoEntry}]
         /\ \A i \in Valid : Scanned(p)[i] \in Entry /\ Same(Scanned(p)[i], enumerated_devices[i])
         /\ \A i \in Free :
              \/ Scanned(p)[i] = NoEntry /\ \A l \in New(p) : Rank(New(p), l) # Rank(Free, i)
              \/ \E l \in New(p) : /\ Rank(New(p), l) = Rank(Free, i)
                                   /\ Scanned(p)[i] = NewEntry(p, l) /\ NewEntry(p, l) \in Entry
<1> DEFINE S == Scanned(p)
<1>1. \A i \in Valid : i \notin Free /\ i \in Slots
  BY DEF Valid, Free, Entries
<1>2. \A i \in Valid : S[i] = enumerated_devices[i] \/ S[i] = [enumerated_devices[i] EXCEPT !.mark = TRUE]
  BY <1>1 DEF Scanned
<1>3. \A i \in Valid : S[i] \in Entry /\ Same(S[i], enumerated_devices[i])
  <2>1. TAKE i \in Valid
  <2>2. enumerated_devices[i] \in Entry
    BY TableFacts
  <2>3. Same(enumerated_devices[i], enumerated_devices[i])
    BY DEF Same
  <2>4. QED
    BY <1>2, <2>2, <2>3, EntryFacts
<1>4. \A l \in New(p) : NewEntry(p, l) \in Entry
  <2>1. TAKE l \in New(p)
  <2>2. Rank(New(p), l) \in 1 .. Cardinality(New(p)) /\ Cardinality(New(p)) \in Nat
    BY NewFacts, RankInjective
  <2>3. last_ID + Rank(New(p), l) - 1 \in Nat
    BY <2>2 DEF UsbInv, UsbTypeOK
  <2>4. l \in Locations
    BY NewFacts
  <2>5. QED
    BY <2>3, <2>4 DEF NewEntry, Entry, NoHandle
<1>5. ASSUME NEW i \in Free
      PROVE  \/ S[i] = NoEntry /\ \A l \in New(p) : Rank(New(p), l) # Rank(Free, i)
             \/ \E l \in New(p) : /\ Rank(New(p), l) = Rank(Free, i)
                                  /\ S[i] = NewEntry(p, l) /\ NewEntry(p, l) \in Entry
  <2>1. i \in Slots
    BY TableFacts
  <2>2. CASE Added(p, i) = {}
    BY <2>1, <2>2 DEF Scanned, Added
  <2>3. CASE Added(p, i) # {}
    <3>1. PICK l : l = CHOOSE k \in Added(p, i) : TRUE
      OBVIOUS
    <3>2. l \in Added(p, i)
      BY <2>3, <3>1
    <3>3. S[i] = NewEntry(p, l)
      BY <2>1, <2>3, <3>1 DEF Scanned
    <3>4. l \in New(p) /\ Rank(New(p), l) = Rank(Free, i)
      BY <3>2 DEF Added
    <3>5. QED
      BY <1>4, <3>3, <3>4
  <2>4. QED
    BY <2>2, <2>3
<1>6. S \in [Slots -> Entry \cup {NoEntry}]
  <2>1. S = [i \in Slots |-> S[i]]
    BY DEF Scanned
  <2>2. \A i \in Slots : i \in Valid \/ i \in Free
    BY DEF Free
  <2> HIDE DEF S
  <2>3. \A i \in Slots : S[i] \in Entry \cup {NoEntry}
    BY <1>3, <1>5, <2>2
  <2>4. QED
    BY <2>1, <2>3
<1>7. QED
  BY <1>3, <1>5, <1>6

\* Every entry after the scan has an ID and a place of its own. The IDs of
\* the new ones start at last_ID, and there are as many as new devices or
\* empty slots, whichever are fewer.
LEMMA ScanDiffers ==
  ASSUME UsbInv, NEW p \in Products
  PROVE  LET S == Scanned(p)
         IN  /\ \A i, j \in Entries(S) : i # j => /\ S[i].deviceID # S[j].deviceID
                                                  /\ S[i].location # S[j].location
             /\ \A i \in Entries(S) \cap Valid : S[i].deviceID < last_ID
             /\ \A i \in Entries(S) \ Valid : /\ S[i].handle = NoHandle
                                              /\ S[i].deviceID < last_ID + Cardinality(New(p))
                                              /\ S[i].deviceID < last_ID + Cardinality(Free)
             /\ Valid \subseteq Entries(S)
<1> DEFINE S == Scanned(p)
<1>1. \A i \in Entries(S) : i \in Slots /\ S[i] # NoEntry /\ (i \in Valid \/ i \in Free)
  BY DEF Entries, Free
<1>2. \A i \in Valid : i \in Entries(S)
  BY ScanFacts, EntryFacts, TableFacts DEF Entries
<1>3. PICK place \in [Entries(S) \ Valid -> New(p)] :
        \A i \in Entries(S) \ Valid : /\ Rank(New(p), place[i]) = Rank(Free, i)
                                      /\ S[i] = NewEntry(p, place[i])
  <2>1. \A i \in Entries(S) \ Valid : \E l \in New(p) : /\ Rank(New(p), l) = Rank(Free, i)
                                                        /\ S[i] = NewEntry(p, l)
    BY <1>1, ScanFacts
  <2> DEFINE f == [i \in Entries(S) \ Valid |->
                     CHOOSE l \in New(p) : /\ Rank(New(p), l) = Rank(Free, i)
                                           /\ S[i] = NewEntry(p, l)]
  <2> HIDE DEF S
  <2>2. \A i \in Entries(S) \ Valid : f[i] \in New(p) /\ Rank(New(p), f[i]) = Rank(Free, i)
                                    /\ S[i] = NewEntry(p, f[i])
    BY <2>1
  <2>3. f \in [Entries(S) \ Valid -> New(p)]
    BY <2>2
  <2>4. QED
    BY <2>2, <2>3
<1> HIDE DEF S
<1>4. \A i \in Entries(S) \ Valid :
        /\ i \in Free
        /\ S[i].deviceID = last_ID + Rank(Free, i) - 1 /\ S[i].location = place[i]
        /\ S[i].handle = NoHandle /\ place[i] \in New(p)
  <2>1. TAKE i \in Entries(S) \ Valid
  <2>2. i \in Free /\ place[i] \in New(p) /\ Rank(New(p), place[i]) = Rank(Free, i)
    BY <1>1, <1>3
  <2>3. S[i] = NewEntry(p, place[i])
    BY <1>3
  <2>4. S[i] = [deviceID |-> last_ID + Rank(Free, i) - 1, handle |-> NoHandle,
                location |-> place[i], product |-> p, mark |-> TRUE]
    BY <2>2, <2>3 DEF NewEntry
  <2>5. QED
    BY <2>2, <2>4
<1>5. /\ \A i \in Free : Rank(Free, i) \in 1 .. Cardinality(Free)
      /\ \A i, j \in Free : Rank(Free, i) = Rank(Free, j) => i = j
  BY TableFacts, RankInjective
<1>6. \A l \in New(p) : Rank(New(p), l) \in 1 .. Cardinality(New(p))
  BY NewFacts, RankInjective
<1>7. last_ID \in Nat /\ Cardinality(Free) \in Nat /\ Cardinality(New(p)) \in Nat
  BY TableFacts, NewFacts, FS_CardinalityType DEF UsbInv, UsbTypeOK
<1>8. \A i \in Entries(S) \ Valid :
        /\ last_ID <= S[i].deviceID /\ S[i].deviceID < last_ID + Cardinality(Free)
        /\ S[i].deviceID < last_ID + Cardinality(New(p))
  BY <1>3, <1>4, <1>5, <1>6, <1>7
<1>9. \A i \in Valid : /\ S[i].deviceID = enumerated_devices[i].deviceID
                       /\ S[i].location = enumerated_devices[i].location
                       /\ S[i].deviceID < last_ID /\ S[i].deviceID \in Nat
  <2>1. \A i \in Valid : enumerated_devices[i].deviceID < last_ID
    BY DEF UsbInv, TableConsistent, EntriesDiffer
  <2>2. QED
    BY <2>1, ScanFacts, TableFacts, EntryFacts DEF S, Same
<1>10. ASSUME NEW i \in Entries(S), NEW j \in Entries(S), i # j
       PROVE  S[i].deviceID # S[j].deviceID /\ S[i].location # S[j].location
  <2>1. CASE i \in Valid /\ j \in Valid
    BY <1>9, <1>10, <2>1 DEF UsbInv, TableConsistent, EntriesDiffer
  <2>2. CASE i \in Valid /\ j \notin Valid
    BY <1>4, <1>7, <1>8, <1>9, <2>2, NewFacts
  <2>3. CASE i \notin Valid /\ j \in Valid
    BY <1>4, <1>7, <1>8, <1>9, <2>3, NewFacts
  <2>4. CASE i \notin Valid /\ j \notin Valid
    <3>1. Rank(Free, i) # Rank(Free, j)
      BY <1>4, <1>5, <1>10, <2>4
    <3>2. Rank(Free, i) \in Nat /\ Rank(Free, j) \in Nat
      BY <1>4, <1>5, <2>4
    <3>3. S[i].deviceID # S[j].deviceID
      BY <1>4, <1>7, <2>4, <3>1, <3>2
    <3>4. place[i] # place[j]
      BY <1>3, <2>4, <3>1
    <3>5. QED
      BY <1>4, <2>4, <3>3, <3>4
  <2>5. QED
    BY <2>1, <2>2, <2>3, <2>4
<1>11. \A i \in Entries(S) \cap Valid : S[i].deviceID < last_ID
  BY <1>9
<1>12. \A i \in Entries(S) \ Valid : /\ S[i].handle = NoHandle
                                     /\ S[i].deviceID < last_ID + Cardinality(New(p))
                                     /\ S[i].deviceID < last_ID + Cardinality(Free)
  BY <1>4, <1>8
<1>13. Valid \subseteq Entries(S)
  BY <1>2
<1>14. QED
  BY <1>10, <1>11, <1>12, <1>13, Zenon DEF S

\* The table after the purge: what is left of the scan, with its marks
\* cleared.
LEMMA PurgeFacts ==
  ASSUME UsbInv, NEW p \in Products
  PROVE  /\ Purged(p) \in [Slots -> Entry \cup {NoEntry}]
         /\ Entries(Purged(p)) = Entries(Scanned(p)) \ Gone(p)
         /\ \A i \in Entries(Purged(p)) : Purged(p)[i] \in Entry /\ Same(Purged(p)[i], Scanned(p)[i])
<1> DEFINE S == Scanned(p)
<1> DEFINE K == Entries(S) \ Gone(p)
<1> DEFINE T == Purged(p)
<1>1. /\ K \subseteq Slots
      /\ \A i \in K : S[i] \in Entry
  BY ScanFacts DEF Entries
<1>2. T = [i \in Slots |-> IF i \in K THEN [S[i] EXCEPT !.mark = FALSE] ELSE NoEntry]
  BY DEF Purged
<1> HIDE DEF S, K, T
<1>3. \A i \in K : T[i] \in Entry /\ Same(T[i], S[i])
  BY <1>1, <1>2, EntryFacts
<1>4. \A i \in Slots \ K : T[i] = NoEntry
  BY <1>2
<1>5. T \in [Slots -> Entry \cup {NoEntry}]
  <2>1. T = [i \in Slots |-> T[i]]
    BY <1>2
  <2>2. QED
    BY <1>3, <1>4, <2>1
<1>6. Entries(T) = K
  BY <1>1, <1>3, <1>4, EntryFacts DEF Entries
<1>7. QED
  BY <1>3, <1>5, <1>6 DEF S, K, T

\* A handle that is not freed belongs to one entry.
LEMMA HandleOfOne ==
  ASSUME UsbInv, NEW i \in Valid, NEW j \in Valid,
         enumerated_devices[i].handle # NoHandle,
         enumerated_devices[i].handle = enumerated_devices[j].handle
  PROVE  i = j
  BY DEF UsbInv, TableConsistent, HandlesTracked, EntriesDiffer

LEMMA HandleFacts ==
  ASSUME UsbInv
  PROVE  /\ handles \in Seq(Handle) /\ Len(handles) \in Nat
         /\ \A h \in 1 .. Len(handles) : /\ handles[h] \in Handle /\ handles[h].deviceID \in Nat
                                         /\ [handles[h] EXCEPT !.freed = TRUE] \in Handle
                                         /\ [handles[h] EXCEPT !.freed = TRUE].freed
                                         /\ [handles[h] EXCEPT !.freed = TRUE].deviceID = handles[h].deviceID
         /\ held \subseteq 1 .. Len(handles)
<1>1. handles \in Seq(Handle) /\ held \subseteq 1 .. Len(handles)
  BY DEF UsbInv, UsbTypeOK
<1>2. Len(handles) \in Nat /\ \A h \in 1 .. Len(handles) : handles[h] \in Handle
  BY <1>1
<1>3. \A x \in Handle : /\ x.deviceID \in Nat
                        /\ [x EXCEPT !.freed = TRUE] \in Handle
                        /\ [x EXCEPT !.freed = TRUE].freed
                        /\ [x EXCEPT !.freed = TRUE].deviceID = x.deviceID
  BY DEF Handle
<1>4. QED
  BY <1>1, <1>2, <1>3

\* What closing and freeing the handles of wiped entries does to handles.
LEMMA FreeFacts ==
  ASSUME UsbInv, NEW S, handles' = FreeHandles(S)
  PROVE  /\ handles' \in Seq(Handle) /\ Len(handles') = Len(handles)
         /\ \A h \in 1 .. Len(handles) :
              /\ handles'[h].deviceID = handles[h].deviceID
              /\ handles'[h].freed <=>
                   \/ handles[h].freed
                   \/ \E i \in S : enumerated_devices[i] # NoEntry /\ enumerated_devices[i].handle = h
<1> DEFINE n == Len(handles)
<1> DEFINE G(h) == \E i \in S : enumerated_devices[i] # NoEntry /\ enumerated_devices[i].handle = h
<1>1. handles' = [h \in 1 .. n |-> IF G(h) THEN [handles[h] EXCEPT !.freed = TRUE] ELSE handles[h]]
  BY DEF FreeHandles
<1>2. n \in Nat
  BY HandleFacts
<1> HIDE DEF n, G
<1>3. \A h \in 1 .. n : /\ handles[h] \in Handle
                        /\ [handles[h] EXCEPT !.freed = TRUE] \in Handle
                        /\ [handles[h] EXCEPT !.freed = TRUE].freed
                        /\ [handles[h] EXCEPT !.freed = TRUE].deviceID = handles[h].deviceID
  BY HandleFacts DEF n
<1>4. \A h \in 1 .. n : handles'[h] = IF G(h) THEN [handles[h] EXCEPT !.freed = TRUE] ELSE handles[h]
  BY <1>1
<1>5. handles' \in [1 .. n -> Handle]
  BY <1>1, <1>3
<1>6. handles' \in Seq(Handle) /\ Len(handles') = n
  BY <1>2, <1>5
<1>7. \A h \in 1 .. n : handles'[h].deviceID = handles[h].deviceID
  BY <1>3, <1>4
<1>8. \A h \in 1 .. n : handles'[h].freed <=> handles[h].freed \/ G(h)
  BY <1>3, <1>4
<1>9. QED
  BY <1>6, <1>7, <1>8 DEF n, G

\* A probe that finds room for every new device.
LEMMA FitsInv ==
  ASSUME UsbInv, NEW p \in Products, ProbeFits(p), tree' = attached,
         UNCHANGED <<attached, hotplugs, held, fault>>
  PROVE  UsbInv'
<1> DEFINE S == Scanned(p)
<1> DEFINE T == Purged(p)
<1>1. /\ enumerated_devices' = T /\ device_count' = Cardinality(Entries(T))
      /\ last_ID' = last_ID + Cardinality(New(p))
      /\ handles' = FreeHandles(Gone(p))
      /\ probed' = [product |-> p, error |-> FALSE,
                    ids |-> {T[i].deviceID : i \in {j \in Entries(T) : T[j].product = p}}]
  BY DEF ProbeFits
<1>2. /\ T \in [Slots -> Entry \cup {NoEntry}]
      /\ Entries(T) = Entries(S) \ Gone(p)
      /\ \A i \in Entries(T) : T[i] \in Entry /\ Same(T[i], S[i])
  BY PurgeFacts
<1>3. /\ \A i, j \in Entries(S) : i # j => /\ S[i].deviceID # S[j].deviceID
                                           /\ S[i].location # S[j].location
      /\ \A i \in Entries(S) \cap Valid : S[i].deviceID < last_ID
      /\ \A i \in Entries(S) \ Valid : /\ S[i].handle = NoHandle
                                       /\ S[i].deviceID < last_ID + Cardinality(New(p))
      /\ Valid \subseteq Entries(S)
  BY ScanDiffers
<1>4. \A i \in Valid : Same(S[i], enumerated_devices[i])
  BY ScanFacts
<1>5. last_ID \in Nat /\ Cardinality(New(p)) \in Nat
  BY NewFacts DEF UsbInv, UsbTypeOK
<1> HIDE DEF S, T
<1>6. Valid' = Entries(T)
  BY <1>1 DEF Valid
<1>7. /\ handles' \in Seq(Handle) /\ Len(handles') = Len(handles)
      /\ \A h \in 1 .. Len(handles) :
           /\ handles'[h].deviceID = handles[h].deviceID
           /\ handles'[h].freed <=>
                \/ handles[h].freed
                \/ \E i \in Gone(p) : enumerated_devices[i] # NoEntry /\ enumerated_devices[i].handle = h
  BY <1>1, FreeFacts
<1>8. UsbTypeOK'
  <2>1. probed' \in [product : Products \cup {NoProduct}, error : BOOLEAN, ids : SUBSET Nat]
    <3>1. {T[i].deviceID : i \in {j \in Entries(T) : T[j].product = p}} \subseteq Nat
      BY <1>2, EntryFacts
    <3>2. QED
      BY <1>1, <3>1
  <2>2. device_count' \in Nat
    <3>1. Entries(T) \in SUBSET Slots /\ IsFiniteSet(Slots)
      BY TableAssumption, FS_Interval DEF Entries, Slots
    <3>2. IsFiniteSet(Entries(T))
      BY <3>1, FS_Subset
    <3>3. QED
      BY <1>1, <3>2, FS_CardinalityType
  <2>3. fault' \in BOOLEAN
    BY Zenon DEF UsbInv, UsbTypeOK
  <2>4. held' \subseteq 1 .. Len(handles')
    BY <1>7, HandleFacts
  <2>5. last_ID' \in Nat
    BY <1>1, <1>5
  <2>6. attached' \in [Locations -> Products \cup {NoProduct}] /\ tree' \in [Locations -> Products \cup {NoProduct}]
        /\ hotplugs' \in 0 .. Hotplugs
    BY DEF UsbInv, UsbTypeOK
  <2>7. QED
    BY <1>1, <1>2, <1>7, <2>1, <2>2, <2>3, <2>4, <2>5, <2>6 DEF UsbTypeOK
<1>9. EntriesDiffer'
  <2>1. ASSUME NEW i \in Entries(T), NEW j \in Entries(T), i # j
        PROVE  T[i].deviceID # T[j].deviceID /\ T[i].location # T[j].location
    BY <1>2, <1>3, <2>1 DEF Same
  <2>2. ASSUME NEW i \in Entries(T)
        PROVE  T[i].deviceID < last_ID'
    <3>1. T[i].deviceID = S[i].deviceID /\ T[i].deviceID \in Nat /\ i \in Entries(S)
      BY <1>2, EntryFacts DEF Same
    <3>2. CASE i \in Valid
      BY <1>1, <1>3, <1>5, <3>1, <3>2
    <3>3. CASE i \notin Valid
      BY <1>1, <1>3, <1>5, <3>1, <3>3
    <3>4. QED
      BY <3>2, <3>3
  <2>3. QED
    BY <1>1, <1>6, <2>1, <2>2 DEF EntriesDiffer
<1>10. HandlesTracked'
  <2>1. ASSUME NEW i \in Entries(T), T[i].handle # NoHandle
        PROVE  /\ T[i].handle \in 1 .. Len(handles')
               /\ ~handles'[T[i].handle].freed
               /\ handles'[T[i].handle].deviceID = T[i].deviceID
    <3>1. i \in Valid /\ Same(T[i], enumerated_devices[i]) /\ i \notin Gone(p)
      BY <1>2, <1>3, <1>4, <2>1 DEF Same
    <3>2. PICK h : h = enumerated_devices[i].handle
      OBVIOUS
    <3>3. h = T[i].handle /\ h # NoHandle
      BY <2>1, <3>1, <3>2 DEF Same
    <3>4. h \in 1 .. Len(handles) /\ ~handles[h].freed /\ handles[h].deviceID = enumerated_devices[i].deviceID
      BY <3>1, <3>2, <3>3 DEF UsbInv, TableConsistent, HandlesTracked
    <3>5. ~\E j \in Gone(p) : enumerated_devices[j] # NoEntry /\ enumerated_devices[j].handle = h
      <4>1. SUFFICES ASSUME NEW j \in Gone(p), enumerated_devices[j] # NoEntry, enumerated_devices[j].handle = h
                     PROVE  FALSE
        OBVIOUS
      <4>2. j \in Valid
        BY <4>1 DEF Gone, Entries, Valid
      <4>3. i = j
        BY <3>1, <3>2, <3>3, <4>1, <4>2, HandleOfOne
      <4>4. QED
        BY <3>1, <4>3
    <3>6. QED
      BY <1>7, <3>1, <3>3, <3>4, <3>5 DEF Same
  <2>2. ASSUME NEW h \in 1 .. Len(handles'), ~handles'[h].freed
        PROVE  h \in held' /\ \E i \in Entries(T) : T[i].handle = h
    <3>1. h \in 1 .. Len(handles) /\ ~handles[h].freed
      BY <1>7, <2>2
    <3>2. PICK i \in Valid : enumerated_devices[i].handle = h
      BY <3>1 DEF UsbInv, TableConsistent, HandlesTracked
    <3>3. i \notin Gone(p)
      BY <1>7, <2>2, <3>1, <3>2 DEF Valid, Entries
    <3>4. i \in Entries(T) /\ T[i].handle = h
      BY <1>2, <1>3, <1>4, <3>2, <3>3 DEF Same
    <3>5. h \in held'
      BY <3>1 DEF UsbInv, TableConsistent, HandlesTracked
    <3>6. QED
      BY <3>4, <3>5
  <2>3. QED
    BY <1>1, <1>6, <2>1, <2>2 DEF HandlesTracked
<1>11. QED
  BY <1>8, <1>9, <1>10 DEF UsbInv, TableConsistent

\* A probe that finds more new devices than empty slots fills the table.
LEMMA FullFacts ==
  ASSUME UsbInv, NEW p \in Products, Seen(p) # Matching(p)
  PROVE  Entries(Scanned(p)) = Slots
<1>1. PICK l \in Matching(p) : ~(Rank(New(p), l) <= Cardinality(Free))
  BY DEF Seen
<1>2. Rank(New(p), l) \in Nat /\ Rank(New(p), l) <= Cardinality(New(p))
  <2> DEFINE B == {y \in New(p) : y <= l}
  <2>1. B \in SUBSET New(p)
    OBVIOUS
  <2>2. Rank(New(p), l) = Cardinality(B)
    BY DEF Rank
  <2> HIDE DEF B
  <2>3. QED
    BY <2>1, <2>2, NewFacts, FS_Subset, FS_CardinalityType
<1>3. Cardinality(Free) \in Nat /\ Cardinality(New(p)) \in Nat
  BY TableFacts, NewFacts, FS_CardinalityType
<1>4. \A i \in Free : Rank(Free, i) \in 1 .. Cardinality(New(p))
  <2>1. \A i \in Free : Rank(Free, i) \in 1 .. Cardinality(Free)
    BY TableFacts, RankInjective
  <2>2. QED
    BY <1>1, <1>2, <1>3, <2>1
<1>5. \A i \in Free : \E l2 \in New(p) : Rank(New(p), l2) = Rank(Free, i)
  BY <1>4, NewFacts, RankOnto
<1>6. \A i \in Free : Scanned(p)[i] # NoEntry
  BY <1>5, ScanFacts, EntryFacts
<1>7. \A i \in Valid : Scanned(p)[i] # NoEntry
  BY ScanFacts, EntryFacts
<1>8. QED
  BY <1>6, <1>7 DEF Entries, Free

LEMMA FullInv ==
  ASSUME UsbInv, NEW p \in Products, ProbeFull(p), tree' = attached,
         UNCHANGED <<attached, hotplugs, held, fault>>
  PROVE  UsbInv'
<1> DEFINE S == Scanned(p)
<1>1. /\ enumerated_devices' = S /\ device_count' = device_count + Cardinality(Free)
      /\ last_ID' = last_ID + Cardinality(Free) /\ handles' = handles
      /\ probed' = [product |-> p, error |-> TRUE, ids |-> {}]
      /\ Seen(p) # Matching(p)
  BY DEF ProbeFull
<1>2. /\ S \in [Slots -> Entry \cup {NoEntry}]
      /\ \A i \in Valid : Same(S[i], enumerated_devices[i])
  BY ScanFacts
<1>3. /\ \A i, j \in Entries(S) : i # j => /\ S[i].deviceID # S[j].deviceID
                                           /\ S[i].location # S[j].location
      /\ \A i \in Entries(S) \cap Valid : S[i].deviceID < last_ID
      /\ \A i \in Entries(S) \ Valid : /\ S[i].handle = NoHandle
                                       /\ S[i].deviceID < last_ID + Cardinality(Free)
      /\ Valid \subseteq Entries(S)
  BY ScanDiffers
<1>4. Entries(S) = Slots
  BY <1>1, FullFacts
<1>5. last_ID \in Nat /\ Cardinality(Free) \in Nat /\ device_count \in Nat
      /\ device_count + Cardinality(Free) = Cardinality(Slots)
  BY TableFacts, FS_CardinalityType DEF UsbInv, UsbTypeOK
<1> HIDE DEF S
<1>6. Valid' = Entries(S)
  BY <1>1 DEF Valid
<1>7. \A i \in Entries(S) : S[i] \in Entry /\ S[i].deviceID \in Nat
  BY <1>2, EntryFacts DEF Entries
<1>8. UsbTypeOK'
  <2>1. probed' \in [product : Products \cup {NoProduct}, error : BOOLEAN, ids : SUBSET Nat]
    BY <1>1
  <2>2. fault' \in BOOLEAN
    BY Zenon DEF UsbInv, UsbTypeOK
  <2>3. last_ID' \in Nat /\ device_count' \in Nat
    BY <1>1, <1>5
  <2>4. attached' \in [Locations -> Products \cup {NoProduct}] /\ tree' \in [Locations -> Products \cup {NoProduct}]
        /\ hotplugs' \in 0 .. Hotplugs /\ handles' \in Seq(Handle) /\ held' \subseteq 1 .. Len(handles')
    BY <1>1 DEF UsbInv, UsbTypeOK
  <2>5. QED
    BY <1>1, <1>2, <2>1, <2>2, <2>3, <2>4 DEF UsbTypeOK
<1>9. EntriesDiffer'
  <2>1. ASSUME NEW i \in Entries(S)
        PROVE  S[i].deviceID < last_ID'
    BY <1>1, <1>3, <1>5, <1>7
  <2>2. device_count' = Cardinality(Entries(S))
    BY <1>1, <1>4, <1>5
  <2>3. QED
    BY <1>1, <1>3, <1>6, <2>1, <2>2 DEF EntriesDiffer
<1>10. HandlesTracked'
  <2>1. ASSUME NEW i \in Entries(S), S[i].handle # NoHandle
        PROVE  i \in Valid /\ S[i].handle = enumerated_devices[i].handle
               /\ S[i].deviceID = enumerated_devices[i].deviceID
    BY <1>2, <1>3, <2>1 DEF Same
  <2>2. \A i \in Valid : i \in Entries(S) /\ S[i].handle = enumerated_devices[i].handle
    BY <1>2, <1>3 DEF Same
  <2>3. \A i \in Entries(S) : S[i].handle # NoHandle =>
          /\ S[i].handle \in 1 .. Len(handles)
          /\ ~handles[S[i].handle].freed
          /\ handles[S[i].handle].deviceID = S[i].deviceID
    BY <2>1 DEF UsbInv, TableConsistent, HandlesTracked
  <2>4. \A h \in 1 .. Len(handles) :
          ~handles[h].freed => h \in held /\ \E i \in Entries(S) : S[i].handle = h
    BY <2>2 DEF UsbInv, TableConsistent, HandlesTracked
  <2>5. QED
    BY <1>1, <1>6, <2>3, <2>4 DEF HandlesTracked
<1>11. QED
  BY <1>8, <1>9, <1>10 DEF UsbInv, TableConsistent

LEMMA ProbeInv ==
  ASSUME UsbInv, NEW p \in Products, USBProbeDevices(p)
  PROVE  UsbInv'
  BY FitsInv, FullInv DEF USBProbeDevices

\* The USB IDs a probe reports are those of entries of the table.
LEMMA FoundFacts ==
  ASSUME UsbInv, UsbInv', NEW p \in Products, USBProbeDevices(p)
  PROVE  /\ probed'.ids \subseteq Nat /\ IsFiniteSet(probed'.ids)
         /\ \A f \in probed'.ids : \E i \in Slots : /\ enumerated_devices'[i] # NoEntry
                                                    /\ enumerated_devices'[i].deviceID = f
<1>1. \A f \in probed'.ids : \E i \in Slots : /\ enumerated_devices'[i] # NoEntry
                                              /\ enumerated_devices'[i].deviceID = f
  <2>1. CASE ProbeFits(p)
    BY <2>1 DEF ProbeFits, Entries
  <2>2. CASE ProbeFull(p)
    BY <2>2 DEF ProbeFull
  <2>3. QED
    BY <2>1, <2>2 DEF USBProbeDevices
<1>2. probed'.ids \subseteq Nat /\ last_ID' \in Nat
  BY DEF UsbInv, UsbTypeOK
<1>3. \A f \in probed'.ids : f <= last_ID'
  <2>1. \A i \in Valid' : enumerated_devices'[i].deviceID < last_ID'
    BY DEF UsbInv, TableConsistent, EntriesDiffer
  <2>2. \A f \in probed'.ids : f < last_ID'
    BY <1>1, <2>1 DEF Valid, Entries
  <2>3. QED
    BY <1>2, <2>2
<1>4. IsFiniteSet(probed'.ids)
  BY <1>2, <1>3, FS_BoundedSetOfNaturals
<1>5. QED
  BY <1>1, <1>2, <1>4

-----------------------------------------------------------------------------
(* The other operations.                                                   *)

\* A step that leaves the table and the handles alone.
LEMMA AsideInv ==
  ASSUME UsbInv, UNCHANGED <<tree, tableVars, handles, held, probed>>,
         attached' \in [Locations -> Products \cup {NoProduct}],
         hotplugs' \in 0 .. Hotplugs, fault' \in BOOLEAN
  PROVE  UsbInv'
<1>1. UNCHANGED <<enumerated_devices, device_count, last_ID>>
  BY DEF tableVars
<1>2. UsbTypeOK'
  BY <1>1 DEF UsbInv, UsbTypeOK
<1>3. TableConsistent'
  BY <1>1 DEF UsbInv, TableConsistent, EntriesDiffer, HandlesTracked, Valid
<1>4. QED
  BY <1>2, <1>3 DEF UsbInv

LEMMA HotplugInv ==
  ASSUME UsbInv, Hotplug
  PROVE  UsbInv'
<1>1. /\ attached \in [Locations -> Products \cup {NoProduct}]
      /\ hotplugs \in 0 .. Hotplugs /\ Hotplugs \in Nat
  BY UsbBoundsAssumption DEF UsbInv, UsbTypeOK
<1>2. fault \in BOOLEAN
  BY Zenon DEF UsbInv, UsbTypeOK
<1>3. ASSUME NEW l \in Locations, NEW p \in Products, Plug(l, p) PROVE UsbInv'
  BY <1>1, <1>2, <1>3, AsideInv DEF Plug
<1>4. ASSUME NEW l \in Locations, Unplug(l) PROVE UsbInv'
  BY <1>1, <1>2, <1>4, AsideInv DEF Unplug
<1>5. QED
  BY <1>3, <1>4 DEF Hotplug

LEMMA OpenInv ==
  ASSUME UsbInv, NEW id \in Nat, USBOpen(id)
  PROVE  UsbInv'
<1>1. PICK i \in ByID(id) :
        /\ CanOpen(i)
        /\ handles' = Append(handles, [deviceID |-> id, freed |-> FALSE])
        /\ held' = held \cup {Len(handles) + 1}
        /\ enumerated_devices' = [enumerated_devices EXCEPT ![i].handle = Len(handles) + 1]
        /\ UNCHANGED <<attached, tree, hotplugs, device_count, last_ID, probed, fault>>
  BY DEF USBOpen, busVars
<1>2. PICK h : h = Len(handles) + 1
  OBVIOUS
<1>3. i \in Valid /\ i \in Slots /\ enumerated_devices[i] \in Entry /\ enumerated_devices[i].deviceID = id
      /\ enumerated_devices[i].handle = NoHandle
  BY <1>1, TableFacts DEF ByID, CanOpen
<1>4. /\ h \in Nat /\ h # NoHandle /\ Len(handles') = h /\ handles' \in Seq(Handle)
      /\ handles'[h] = [deviceID |-> id, freed |-> FALSE]
      /\ \A k \in 1 .. Len(handles) : handles'[k] = handles[k] /\ k # h
      /\ \A k \in 1 .. Len(handles') : k \in 1 .. Len(handles) \/ k = h
      /\ h \in 1 .. Len(handles') /\ 1 .. Len(handles) \subseteq 1 .. Len(handles')
  <2>1. handles \in Seq(Handle) /\ [deviceID |-> id, freed |-> FALSE] \in Handle
    BY HandleFacts DEF Handle
  <2>2. QED
    BY <1>1, <1>2, <2>1 DEF NoHandle
<1>5. /\ enumerated_devices' = [enumerated_devices EXCEPT ![i] = [enumerated_devices[i] EXCEPT !.handle = h]]
      /\ enumerated_devices \in [Slots -> Entry \cup {NoEntry}]
  BY <1>1, <1>2 DEF UsbInv, UsbTypeOK
<1>6. /\ [enumerated_devices[i] EXCEPT !.handle = h] \in Entry
      /\ [enumerated_devices[i] EXCEPT !.handle = h].handle = h
      /\ [enumerated_devices[i] EXCEPT !.handle = h].deviceID = id
      /\ [enumerated_devices[i] EXCEPT !.handle = h].location = enumerated_devices[i].location
  BY <1>3, <1>4 DEF Entry
<1>7. /\ enumerated_devices' \in [Slots -> Entry \cup {NoEntry}]
      /\ enumerated_devices'[i] \in Entry /\ enumerated_devices'[i].handle = h
      /\ enumerated_devices'[i].deviceID = id
      /\ enumerated_devices'[i].location = enumerated_devices[i].location
      /\ \A j \in Slots : j # i => enumerated_devices'[j] = enumerated_devices[j]
  BY <1>3, <1>5, <1>6
<1>8. Valid' = Valid
  BY <1>3, <1>7, EntryFacts DEF Valid, Entries
<1>9. UsbTypeOK'
  <2>1. fault' \in BOOLEAN
    BY <1>1, Zenon DEF UsbInv, UsbTypeOK
  <2>2. held' \subseteq 1 .. Len(handles')
    BY <1>1, <1>2, <1>4, HandleFacts
  <2>3. QED
    BY <1>1, <1>4, <1>7, <2>1, <2>2 DEF UsbInv, UsbTypeOK
<1>10. \A j \in Valid : /\ enumerated_devices'[j].deviceID = enumerated_devices[j].deviceID
                        /\ enumerated_devices'[j].location = enumerated_devices[j].location
  BY <1>3, <1>7, TableFacts
<1>11. EntriesDiffer'
  BY <1>1, <1>8, <1>10 DEF UsbInv, TableConsistent, EntriesDiffer
<1>12. HandlesTracked'
  <2>1. ASSUME NEW j \in Valid, enumerated_devices'[j].handle # NoHandle
        PROVE  /\ enumerated_devices'[j].handle \in 1 .. Len(handles')
               /\ ~handles'[enumerated_devices'[j].handle].freed
               /\ handles'[enumerated_devices'[j].handle].deviceID = enumerated_devices'[j].deviceID
    <3>1. CASE j = i
      BY <1>4, <1>7, <3>1
    <3>2. CASE j # i
      <4>1. enumerated_devices'[j] = enumerated_devices[j]
        BY <1>7, <3>2, TableFacts
      <4>2. QED
        BY <1>4, <2>1, <4>1 DEF UsbInv, TableConsistent, HandlesTracked
    <3>3. QED
      BY <3>1, <3>2
  <2>2. ASSUME NEW k \in 1 .. Len(handles'), ~handles'[k].freed
        PROVE  k \in held' /\ \E j \in Valid : enumerated_devices'[j].handle = k
    <3>1. CASE k = h
      BY <1>1, <1>2, <1>3, <1>7, <3>1
    <3>2. CASE k # h
      <4>1. k \in 1 .. Len(handles) /\ ~handles[k].freed
        BY <1>4, <2>2, <3>2
      <4>2. k \in held
        BY <4>1 DEF UsbInv, TableConsistent, HandlesTracked
      <4>3. PICK j \in Valid : enumerated_devices[j].handle = k
        BY <4>1 DEF UsbInv, TableConsistent, HandlesTracked
      <4>4. j # i
        BY <1>3, <4>1, <4>3 DEF NoHandle
      <4>5. enumerated_devices'[j] = enumerated_devices[j]
        BY <1>7, <4>4, TableFacts
      <4>6. QED
        BY <1>1, <4>2, <4>3, <4>5
    <3>3. QED
      BY <3>1, <3>2
  <2>3. QED
    BY <1>8, <2>1, <2>2 DEF HandlesTracked
<1>13. QED
  BY <1>9, <1>11, <1>12 DEF UsbInv, TableConsistent

LEMMA CloseInv ==
  ASSUME UsbInv, NEW h \in held, USBClose(h)
  PROVE  UsbInv'
<1>1. /\ held' = held \ {h}
      /\ UNCHANGED <<attached, tree, hotplugs, device_count, last_ID, probed>>
  BY DEF USBClose, busVars
<1>2. h \in 1 .. Len(handles)
  BY HandleFacts
<1>3. CASE handles[h].freed
  <2>1. fault' = TRUE /\ UNCHANGED <<handles, enumerated_devices>>
    BY <1>3 DEF USBClose
  <2>2. Valid' = Valid
    BY <2>1 DEF Valid
  <2>3. UsbTypeOK'
    BY <1>1, <2>1 DEF UsbInv, UsbTypeOK
  <2>4. EntriesDiffer'
    BY <1>1, <2>1, <2>2 DEF UsbInv, TableConsistent, EntriesDiffer
  <2>5. HandlesTracked'
    BY <1>1, <1>3, <2>1, <2>2 DEF UsbInv, TableConsistent, HandlesTracked
  <2>6. QED
    BY <2>3, <2>4, <2>5 DEF UsbInv, TableConsistent
<1>4. CASE ~handles[h].freed
  <2>1. /\ handles' = [handles EXCEPT ![h].freed = TRUE]
        /\ enumerated_devices' = ForgetHandle(h)
    BY <1>4 DEF USBClose
  <2>2. fault' = fault
    BY <1>4, Zenon DEF USBClose
  <2>3. PICK i \in Valid : enumerated_devices[i].handle = h
    BY <1>2, <1>4 DEF UsbInv, TableConsistent, HandlesTracked
  <2>4. i \in Slots /\ enumerated_devices[i] \in Entry /\ h # NoHandle
    BY <1>2, <2>3, TableFacts DEF NoHandle
  <2>5. handles[h].deviceID = enumerated_devices[i].deviceID
    BY <2>3, <2>4 DEF UsbInv, TableConsistent, HandlesTracked
  <2>6. ByID(handles[h].deviceID) = {i}
    <3>1. Searched = Valid
      BY TableFacts
    <3>2. QED
      BY <2>3, <2>5, <3>1 DEF ByID, UsbInv, TableConsistent, EntriesDiffer
  <2>7. enumerated_devices' = [j \in Slots |-> IF j = i THEN [enumerated_devices[i] EXCEPT !.handle = NoHandle]
                                               ELSE enumerated_devices[j]]
    BY <2>1, <2>6 DEF ForgetHandle
  <2>8. /\ [enumerated_devices[i] EXCEPT !.handle = NoHandle] \in Entry
        /\ [enumerated_devices[i] EXCEPT !.handle = NoHandle].handle = NoHandle
        /\ [enumerated_devices[i] EXCEPT !.handle = NoHandle].deviceID = enumerated_devices[i].deviceID
        /\ [enumerated_devices[i] EXCEPT !.handle = NoHandle].location = enumerated_devices[i].location
    BY <2>4 DEF Entry, NoHandle
  <2>9. /\ enumerated_devices' \in [Slots -> Entry \cup {NoEntry}]
        /\ enumerated_devices'[i] \in Entry /\ enumerated_devices'[i].handle = NoHandle
        /\ enumerated_devices'[i].deviceID = enumerated_devices[i].deviceID
        /\ enumerated_devices'[i].location = enumerated_devices[i].location
        /\ \A j \in Slots : j # i => enumerated_devices'[j] = enumerated_devices[j]
    BY <2>4, <2>7, <2>8, TableFacts
  <2>10. Valid' = Valid
    BY <2>4, <2>9, EntryFacts DEF Valid, Entries
  <2>11. /\ handles' \in Seq(Handle) /\ Len(handles') = Len(handles)
         /\ handles'[h].freed
         /\ \A k \in 1 .. Len(handles) : k # h => handles'[k] = handles[k]
    <3>1. handles' = [handles EXCEPT ![h] = [handles[h] EXCEPT !.freed = TRUE]]
      BY <2>1
    <3>2. [handles[h] EXCEPT !.freed = TRUE] \in Handle /\ [handles[h] EXCEPT !.freed = TRUE].freed
      BY <1>2, HandleFacts
    <3>3. handles \in Seq(Handle)
      BY HandleFacts
    <3>4. handles' \in Seq(Handle) /\ Len(handles') = Len(handles)
          /\ \A k \in 1 .. Len(handles) : handles'[k] = IF k = h THEN [handles[h] EXCEPT !.freed = TRUE] ELSE handles[k]
      BY <1>2, <3>1, <3>2, <3>3
    <3>5. QED
      BY <1>2, <3>2, <3>4
  <2>12. UsbTypeOK'
    <3>1. fault' \in BOOLEAN
      BY <2>2, Zenon DEF UsbInv, UsbTypeOK
    <3>2. held' \subseteq 1 .. Len(handles')
      BY <1>1, <2>11, HandleFacts
    <3>3. QED
      BY <1>1, <2>9, <2>11, <3>1, <3>2 DEF UsbInv, UsbTypeOK
  <2>13. EntriesDiffer'
    <3>1. \A j \in Valid : /\ enumerated_devices'[j].deviceID = enumerated_devices[j].deviceID
                           /\ enumerated_devices'[j].location = enumerated_devices[j].location
      BY <2>9, TableFacts
    <3>2. QED
      BY <1>1, <2>10, <3>1 DEF UsbInv, TableConsistent, EntriesDiffer
  <2>14. HandlesTracked'
    <3>1. ASSUME NEW j \in Valid, enumerated_devices'[j].handle # NoHandle
          PROVE  /\ enumerated_devices'[j].handle \in 1 .. Len(handles')
                 /\ ~handles'[enumerated_devices'[j].handle].freed
                 /\ handles'[enumerated_devices'[j].handle].deviceID = enumerated_devices'[j].deviceID
      <4>1. j # i
        BY <2>9, <3>1
      <4>2. enumerated_devices'[j] = enumerated_devices[j]
        BY <2>9, <4>1, TableFacts
      <4>3. enumerated_devices[j].handle # h
        BY <2>3, <2>4, <4>1, HandleOfOne
      <4>4. PICK k : k = enumerated_devices[j].handle
        OBVIOUS
      <4>5. k \in 1 .. Len(handles) /\ ~handles[k].freed /\ handles[k].deviceID = enumerated_devices[j].deviceID
        BY <3>1, <4>2, <4>4 DEF UsbInv, TableConsistent, HandlesTracked
      <4>6. handles'[k] = handles[k]
        BY <2>11, <4>3, <4>4, <4>5
      <4>7. QED
        BY <2>11, <4>2, <4>4, <4>5, <4>6
    <3>2. ASSUME NEW k \in 1 .. Len(handles'), ~handles'[k].freed
          PROVE  k \in held' /\ \E j \in Valid : enumerated_devices'[j].handle = k
      <4>1. k \in 1 .. Len(handles) /\ k # h
        BY <2>11, <3>2
      <4>2. ~handles[k].freed
        BY <2>11, <3>2, <4>1
      <4>3. PICK j \in Valid : enumerated_devices[j].handle = k
        BY <4>1, <4>2 DEF UsbInv, TableConsistent, HandlesTracked
      <4>4. k \in held
        BY <4>1, <4>2 DEF UsbInv, TableConsistent, HandlesTracked
      <4>5. enumerated_devices'[j] = enumerated_devices[j]
        BY <2>3, <2>9, <4>1, <4>3, TableFacts
      <4>6. QED
        BY <1>1, <4>1, <4>3, <4>4, <4>5
    <3>3. QED
      BY <2>10, <3>1, <3>2 DEF HandlesTracked
  <2>15. QED
    BY <2>12, <2>13, <2>14 DEF UsbInv, TableConsistent
<1>5. QED
  BY <1>3, <1>4

LEMMA TransferInv ==
  ASSUME UsbInv, NEW h \in held, Transfer(h)
  PROVE  UsbInv'
<1>1. handles[h] \in Handle
  BY HandleFacts
<1>2. handles[h].freed \in BOOLEAN
  BY <1>1 DEF Handle
<1>3. fault' \in BOOLEAN
  BY <1>2, Zenon DEF Transfer
<1>4. UNCHANGED <<tree, tableVars, handles, held, probed, attached, hotplugs>>
  BY DEF Transfer, busVars
<1>5. attached \in [Locations -> Products \cup {NoProduct}] /\ hotplugs \in 0 .. Hotplugs
  BY DEF UsbInv, UsbTypeOK
<1>6. QED
  BY <1>3, <1>4, <1>5, AsideInv

-----------------------------------------------------------------------------
(* The specification.                                                      *)

LEMMA UsbInitInv == UsbInit => UsbInv
<1> SUFFICES ASSUME UsbInit PROVE UsbInv
  OBVIOUS
<1>1. Valid = {}
  BY DEF UsbInit, Valid, Entries
<1>2. Len(handles) = 0 /\ handles \in Seq(Handle)
  BY DEF UsbInit
<1>3. probed \in [product : Products \cup {NoProduct}, error : BOOLEAN, ids : SUBSET Nat]
  BY DEF UsbInit
<1>4. enumerated_devices \in [Slots -> Entry \cup {NoEntry}] /\ tree \in [Locations -> Products \cup {NoProduct}]
  BY DEF UsbInit
<1>5. fault \in BOOLEAN
  BY Zenon DEF UsbInit
<1>6. UsbTypeOK
  BY <1>2, <1>3, <1>4, <1>5, UsbBoundsAssumption DEF UsbInit, UsbTypeOK
<1>7. TableConsistent
  BY <1>1, <1>2, FS_EmptySet DEF UsbInit, TableConsistent, EntriesDiffer, HandlesTracked
<1>8. QED
  BY <1>6, <1>7 DEF UsbInv

LEMMA UsbStutterInv ==
  ASSUME UsbInv, UNCHANGED usbVars
  PROVE  UsbInv'
<1>1. UNCHANGED <<attached, tree, hotplugs, enumerated_devices, device_count, last_ID, handles, held, probed>>
  BY DEF usbVars, busVars, tableVars
<1>2. fault' \in BOOLEAN
  BY Zenon DEF UsbInv, UsbTypeOK, usbVars
<1>3. UsbTypeOK'
  BY <1>1, <1>2 DEF UsbInv, UsbTypeOK
<1>4. TableConsistent'
  BY <1>1 DEF UsbInv, TableConsistent, EntriesDiffer, HandlesTracked, Valid
<1>5. QED
  BY <1>3, <1>4 DEF UsbInv

LEMMA UsbNextInv ==
  ASSUME UsbInv, [UsbNext]_usbVars
  PROVE  UsbInv'
<1>1. CASE Hotplug
  BY <1>1, HotplugInv
<1>2. ASSUME NEW p \in Products, USBProbeDevices(p) PROVE UsbInv'
  BY <1>2, ProbeInv
<1>3. ASSUME NEW id \in 0 .. last_ID, USBOpen(id) PROVE UsbInv'
  <2>1. id \in Nat
    BY DEF UsbInv, UsbTypeOK
  <2>2. QED
    BY <1>3, <2>1, OpenInv
<1>4. ASSUME NEW h \in held, USBClose(h) PROVE UsbInv'
  BY <1>4, CloseInv
<1>5. ASSUME NEW h \in held, Transfer(h) PROVE UsbInv'
  BY <1>5, TransferInv
<1>6. CASE UNCHANGED usbVars
  BY <1>6, UsbStutterInv
<1>7. QED
  BY <1>1, <1>2, <1>3, <1>4, <1>5, <1>6 DEF UsbNext

\* A handle keeps the ID it was opened with.
LEMMA HandleIDs ==
  ASSUME UsbInv, [UsbNext]_usbVars
  PROVE  \A h \in 1 .. Len(handles) : h \in 1 .. Len(handles') /\ handles'[h].deviceID = handles[h].deviceID
<1>1. CASE UNCHANGED handles
  BY <1>1
<1>2. ASSUME NEW p \in Products, USBProbeDevices(p), handles' # handles
      PROVE  \A h \in 1 .. Len(handles) : h \in 1 .. Len(handles') /\ handles'[h].deviceID = handles[h].deviceID
  <2>1. handles' = FreeHandles(Gone(p))
    BY <1>2 DEF USBProbeDevices, ProbeFits, ProbeFull
  <2>2. QED
    BY <2>1, FreeFacts
<1>3. ASSUME NEW id \in 0 .. last_ID, USBOpen(id)
      PROVE  \A h \in 1 .. Len(handles) : h \in 1 .. Len(handles') /\ handles'[h].deviceID = handles[h].deviceID
  BY <1>3, HandleFacts DEF USBOpen
<1>4. ASSUME NEW k \in held, USBClose(k), handles' # handles
      PROVE  \A h \in 1 .. Len(handles) : h \in 1 .. Len(handles') /\ handles'[h].deviceID = handles[h].deviceID
  <2>1. handles' = [handles EXCEPT ![k] = [handles[k] EXCEPT !.freed = TRUE]]
    BY <1>4 DEF USBClose
  <2>2. k \in 1 .. Len(handles) /\ [handles[k] EXCEPT !.freed = TRUE].deviceID = handles[k].deviceID
    BY HandleFacts
  <2>3. /\ Len(handles') = Len(handles)
        /\ \A h \in 1 .. Len(handles) : handles'[h] = IF h = k THEN [handles[k] EXCEPT !.freed = TRUE] ELSE handles[h]
    BY <2>1, <2>2, HandleFacts
  <2>4. QED
    BY <2>2, <2>3
<1>5. Hotplug \/ UNCHANGED usbVars \/ (\E k \in held : Transfer(k)) => UNCHANGED handles
  BY DEF Hotplug, Plug, Unplug, usbVars, Transfer
<1>6. QED
  BY <1>1, <1>2, <1>3, <1>4, <1>5 DEF UsbNext

LEMMA UsbInductive == UsbSpec => []UsbInv
<1>1. UsbInit => UsbInv
  BY UsbInitInv
<1>2. UsbInv /\ [UsbNext]_usbVars => UsbInv'
  BY UsbNextInv
<1>3. QED
  BY <1>1, <1>2, PTL DEF UsbSpec

\* Type correctness of the bus, the table and the handles.
THEOREM UsbTypeCorrect == UsbSpec => []UsbTypeOK
<1>1. UsbInv => UsbTypeOK
  BY DEF UsbInv
<1>2. QED
  BY <1>1, UsbInductive, PTL

\* Whatever comes and goes, is opened, closed and probed for, and also when a
\* probe fails in the middle because the table is full: no two entries have
\* the same ID or place, the count that ends the searches is exact, and a
\* handle that is allocated is that of exactly one entry
\* (NativeUSBLinux.c 95-226).
THEOREM TableStaysConsistent == UsbSpec => []TableConsistent
<1>1. UsbInv => TableConsistent
  BY DEF UsbInv
<1>2. QED
  BY <1>1, UsbInductive, PTL

-----------------------------------------------------------------------------
(* What a probe does to the table.                                         *)

\* The entries are at places of their own, so that there is an empty slot for
\* every device that is new when the table has room for all these places.
LEMMA NewFit ==
  ASSUME UsbInv, NEW p \in Products, NEW P, IsFiniteSet(P), Cardinality(P) <= MAX_USB_DEVICES,
         New(p) \subseteq P, \A i \in Valid : enumerated_devices[i].location \in P
  PROVE  Cardinality(New(p)) <= Cardinality(Free)
<1> DEFINE place == [i \in Valid |-> enumerated_devices[i].location]
<1> DEFINE L == {enumerated_devices[i].location : i \in Valid}
<1>1. IsFiniteSet(Valid) /\ IsFiniteSet(New(p)) /\ IsFiniteSet(Free)
  BY TableFacts, NewFacts
<1>2. place \in Bijection(Valid, L)
  <2>1. place \in [Valid -> L] /\ \A i, j \in Valid : place[i] = place[j] => i = j
    BY DEF UsbInv, TableConsistent, EntriesDiffer
  <2>2. \A l \in L : \E i \in Valid : place[i] = l
    OBVIOUS
  <2> HIDE DEF place, L
  <2>3. QED
    BY <2>1, <2>2, Fun_IsBij
<1>3. L \subseteq P
  OBVIOUS
<1>4. L \cap New(p) = {}
  BY NewFacts
<1> HIDE DEF place, L
<1>5. IsFiniteSet(L) /\ Cardinality(L) = Cardinality(Valid)
  <2>1. ExistsBijection(Valid, L)
    BY <1>2 DEF ExistsBijection
  <2>2. QED
    BY <1>1, <2>1, FS_Bijection
<1>6. Cardinality(L \cup New(p)) = Cardinality(Valid) + Cardinality(New(p))
  <2>1. Cardinality({}) = 0
    BY FS_EmptySet
  <2>2. Cardinality(L) \in Nat /\ Cardinality(New(p)) \in Nat
    BY <1>1, <1>5, FS_CardinalityType
  <2>3. Cardinality(L \cup New(p)) = Cardinality(L) + Cardinality(New(p)) - Cardinality({})
    BY <1>1, <1>4, <1>5, FS_Union
  <2>4. QED
    BY <1>5, <2>1, <2>2, <2>3
<1>7. Cardinality(L \cup New(p)) <= Cardinality(P)
  <2>1. L \cup New(p) \in SUBSET P
    BY <1>3
  <2>2. QED
    BY <2>1, FS_Subset
<1>8. Cardinality(Slots) = MAX_USB_DEVICES
  <2>1. Cardinality(1 .. MAX_USB_DEVICES) = IF 1 > MAX_USB_DEVICES THEN 0 ELSE MAX_USB_DEVICES - 1 + 1
    BY TableAssumption, FS_Interval
  <2>2. QED
    BY <2>1, TableAssumption DEF Slots
<1>9. /\ Cardinality(Valid) \in Nat /\ Cardinality(New(p)) \in Nat /\ Cardinality(Free) \in Nat
      /\ Cardinality(P) \in Nat /\ MAX_USB_DEVICES \in Nat
  BY <1>1, TableAssumption, FS_CardinalityType
<1>10. Cardinality(Slots) = Cardinality(Valid) + Cardinality(Free)
  BY TableFacts
<1>11. QED
  BY <1>6, <1>7, <1>8, <1>9, <1>10

LEMMA FitSeen ==
  ASSUME UsbInv, NEW p \in Products, Cardinality(New(p)) <= Cardinality(Free)
  PROVE  Seen(p) = Matching(p)
<1>1. Cardinality(New(p)) \in Nat /\ Cardinality(Free) \in Nat
  BY NewFacts, TableFacts, FS_CardinalityType
<1>2. ASSUME NEW l PROVE Rank(New(p), l) <= Cardinality(Free)
  <2> DEFINE B == {y \in New(p) : y <= l}
  <2>1. B \in SUBSET New(p)
    OBVIOUS
  <2>2. Rank(New(p), l) = Cardinality(B)
    BY DEF Rank
  <2> HIDE DEF B
  <2>3. Cardinality(B) \in Nat /\ Cardinality(B) <= Cardinality(New(p))
    BY <2>1, NewFacts, FS_Subset, FS_CardinalityType
  <2>4. QED
    BY <1>1, <2>2, <2>3
<1>3. QED
  BY <1>2 DEF Seen

\* A probe that does not fail has a slot for every device that is new.
LEMMA NewPlaced ==
  ASSUME UsbInv, NEW p \in Products, Seen(p) = Matching(p)
  PROVE  \A l \in New(p) : \E i \in Free : Rank(New(p), l) = Rank(Free, i)
<1>1. Cardinality(New(p)) \in Nat /\ Cardinality(Free) \in Nat
  BY NewFacts, TableFacts, FS_CardinalityType
<1>2. ASSUME NEW l \in New(p) PROVE Rank(New(p), l) \in 1 .. Cardinality(Free)
  <2>1. l \in Seen(p)
    BY DEF New
  <2>2. Rank(New(p), l) <= Cardinality(Free)
    BY <2>1 DEF Seen
  <2>3. Rank(New(p), l) \in 1 .. Cardinality(New(p))
    BY NewFacts, RankInjective
  <2>4. QED
    BY <1>1, <2>2, <2>3
<1>3. \A k \in 1 .. Cardinality(Free) : \E i \in Free : Rank(Free, i) = k
  BY TableFacts, RankOnto
<1>4. QED
  BY <1>2, <1>3

\* No probe that failed has left its marks.
Unmarked == \A i \in Valid : ~enumerated_devices[i].mark

\* After the loop over the bus every place where a device of the product is
\* has its entry, and those are marked, with what was marked before.
LEMMA ScanMarks ==
  ASSUME UsbInv, NEW p \in Products, Seen(p) = Matching(p)
  PROVE  LET S == Scanned(p)
         IN  /\ \A i \in Entries(S) : attached[S[i].location] = p => S[i].mark
             /\ Unmarked => \A i \in Entries(S) : S[i].mark => attached[S[i].location] = p
             /\ \A l \in Matching(p) : \E i \in Entries(S) : S[i].location = l
<1> DEFINE S == Scanned(p)
<1>1. Searched = Valid /\ \A i \in Valid : i \in Slots /\ i \notin Free /\ enumerated_devices[i] \in Entry
  BY TableFacts DEF Free
<1>2. \A i \in Entries(S) : i \in Valid \/ i \in Free
  BY DEF Entries, Free
<1>3. \A i \in Valid : S[i] = IF enumerated_devices[i].location \in Matching(p)
                              THEN [enumerated_devices[i] EXCEPT !.mark = TRUE] ELSE enumerated_devices[i]
  BY <1>1 DEF Scanned
<1>4. \A i \in Entries(S) \ Valid : \E l \in New(p) : S[i] = NewEntry(p, l)
  <2>1. \A i \in Entries(S) : S[i] # NoEntry
    BY DEF Entries
  <2>2. QED
    BY <1>2, <2>1, ScanFacts
<1>5. \A l \in New(p) : \E i \in Free : i \in Entries(S) /\ S[i] = NewEntry(p, l)
  <2>1. TAKE l \in New(p)
  <2>2. PICK i \in Free : Rank(New(p), l) = Rank(Free, i)
    BY NewPlaced
  <2>3. PICK k \in New(p) : Rank(New(p), k) = Rank(Free, i) /\ S[i] = NewEntry(p, k) /\ S[i] \in Entry
    BY <2>2, ScanFacts
  <2>4. k = l
    BY <2>2, <2>3, NewFacts, RankInjective
  <2>5. i \in Entries(S)
    BY <2>3, EntryFacts, TableFacts DEF Entries
  <2>6. QED
    BY <2>3, <2>4, <2>5
<1>6. \A l \in New(p) : /\ NewEntry(p, l).location = l /\ NewEntry(p, l).mark
                        /\ l \in Matching(p)
  BY DEF NewEntry, New
<1> HIDE DEF S
<1>7. ASSUME NEW i \in Valid
      PROVE  /\ S[i].location = enumerated_devices[i].location
             /\ attached[S[i].location] = p => S[i].mark
             /\ Unmarked /\ S[i].mark => attached[S[i].location] = p
  <2>1. enumerated_devices[i] \in Entry /\ (Unmarked => ~enumerated_devices[i].mark)
    BY <1>1 DEF Unmarked
  <2>2. /\ [enumerated_devices[i] EXCEPT !.mark = TRUE].mark
        /\ [enumerated_devices[i] EXCEPT !.mark = TRUE].location = enumerated_devices[i].location
        /\ enumerated_devices[i].location \in Locations
    BY <2>1 DEF Entry
  <2>3. enumerated_devices[i].location \in Matching(p) <=> attached[enumerated_devices[i].location] = p
    BY <2>2 DEF Matching
  <2>4. QED
    BY <1>3, <2>1, <2>2, <2>3
<1>8. \A i \in Entries(S) : attached[S[i].location] = p => S[i].mark
  BY <1>4, <1>6, <1>7
<1>9. Unmarked => \A i \in Entries(S) : S[i].mark => attached[S[i].location] = p
  BY <1>4, <1>6, <1>7 DEF Matching
<1>10. ASSUME NEW l \in Matching(p) PROVE \E i \in Entries(S) : S[i].location = l
  <2>1. CASE l \in New(p)
    BY <1>5, <1>6, <2>1
  <2>2. CASE l \notin New(p)
    <3>1. PICK i \in Valid : enumerated_devices[i].location = l
      BY <1>1, <2>2 DEF New, KnownLocations
    <3>2. i \in Entries(S)
      BY ScanDiffers DEF S
    <3>3. QED
      BY <1>7, <3>1, <3>2
  <2>3. QED
    BY <2>1, <2>2
<1>11. QED
  BY <1>8, <1>9, <1>10 DEF S

\* What is new after the loop over the bus is at a place where a device of the
\* product is.
LEMMA ScanNew ==
  ASSUME UsbInv, NEW p \in Products
  PROVE  \A i \in Entries(Scanned(p)) \ Valid :
           /\ Scanned(p)[i].product = p /\ attached[Scanned(p)[i].location] = p
           /\ last_ID <= Scanned(p)[i].deviceID
<1>1. \A i \in Entries(Scanned(p)) : Scanned(p)[i] # NoEntry /\ (i \in Valid \/ i \in Free)
  BY DEF Entries, Free
<1>2. \A i \in Entries(Scanned(p)) \ Valid : \E l \in New(p) : Scanned(p)[i] = NewEntry(p, l)
  BY <1>1, ScanFacts
<1>3. \A l \in New(p) : /\ NewEntry(p, l).location = l /\ NewEntry(p, l).product = p
                        /\ last_ID <= NewEntry(p, l).deviceID /\ attached[l] = p
  <2>1. TAKE l \in New(p)
  <2>2. Rank(New(p), l) \in 1 .. Cardinality(New(p)) /\ last_ID \in Nat
    BY NewFacts, RankInjective DEF UsbInv, UsbTypeOK
  <2>3. Rank(New(p), l) \in Nat /\ Rank(New(p), l) >= 1
    BY <2>2, NewFacts
  <2>4. QED
    BY <2>2, <2>3 DEF NewEntry, New, Matching
<1>4. QED
  BY <1>2, <1>3

\* The entries wiped by the purge that were in the table before are those of
\* devices of the product that have gone.
LEMMA GoneFacts ==
  ASSUME UsbInv, NEW p \in Products, Seen(p) = Matching(p)
  PROVE  /\ \A i \in Gone(p) : i \in Slots
         /\ \A i \in Gone(p) \cap Valid : /\ enumerated_devices[i].product = p
                                          /\ attached[enumerated_devices[i].location] # p
         /\ \A i \in Entries(Scanned(p)) \ Gone(p) :
              Unmarked /\ Scanned(p)[i].product = p => attached[Scanned(p)[i].location] = p
         /\ \A i \in Entries(Scanned(p)) :
              attached[Scanned(p)[i].location] = p => i \notin Gone(p)
<1>1. \A i \in Valid : Same(Scanned(p)[i], enumerated_devices[i])
  BY ScanFacts
<1>2. Gone(p) = {i \in Entries(Scanned(p)) : ~Scanned(p)[i].mark /\ Scanned(p)[i].product = p}
  BY DEF Gone
<1>3. /\ \A i \in Entries(Scanned(p)) : attached[Scanned(p)[i].location] = p => Scanned(p)[i].mark
      /\ Unmarked => \A i \in Entries(Scanned(p)) :
                       Scanned(p)[i].mark => attached[Scanned(p)[i].location] = p
  BY ScanMarks
<1>4. \A i \in Entries(Scanned(p)) : i \in Slots
  BY DEF Entries
<1>5. QED
  BY <1>1, <1>2, <1>3, <1>4 DEF Same

\* What any probe keeps, also one that fails or finds marks: an entry that is
\* new stands for a device that is there, and an entry is wiped, and its handle
\* freed, only when its device has gone.
ProbeKeeps(p) ==
  /\ \A i \in Valid' :
       \/ i \in Valid /\ Same(enumerated_devices'[i], enumerated_devices[i])
       \/ /\ i \notin Valid /\ enumerated_devices'[i].product = p
          /\ attached[enumerated_devices'[i].location] = p
          /\ last_ID <= enumerated_devices'[i].deviceID
  /\ \A i \in Valid : \/ i \in Valid'
                      \/ /\ enumerated_devices[i].product = p
                         /\ attached[enumerated_devices[i].location] # p
  /\ Len(handles') = Len(handles)
  /\ \A h \in 1 .. Len(handles) :
       handles'[h].freed =>
         \/ handles[h].freed
         \/ \E i \in Valid : /\ enumerated_devices[i].handle = h
                             /\ enumerated_devices[i].product = p
                             /\ attached[enumerated_devices[i].location] # p
  /\ last_ID <= last_ID'

\* What a probe that does not fail does besides, on a table without marks: it
\* reports the devices of the product that are there.
ProbeFinds(p) ==
  /\ probed'.product = p
  /\ \A i \in Valid' : enumerated_devices'[i].product = p =>
       attached[enumerated_devices'[i].location] = p
  /\ \A l \in Locations : attached[l] = p => \E i \in Valid' : enumerated_devices'[i].location = l
  /\ \A f : f \in probed'.ids <=> \E i \in Valid' : /\ enumerated_devices'[i].deviceID = f
                                                    /\ enumerated_devices'[i].product = p
  /\ Unmarked'

ProbeDoes(p) == ProbeKeeps(p) /\ ProbeFinds(p)

LEMMA FitsKeeps ==
  ASSUME UsbInv, NEW p \in Products, ProbeFits(p)
  PROVE  /\ ProbeKeeps(p) /\ Unmarked' /\ (Unmarked => ProbeFinds(p))
         /\ ~probed'.error /\ Seen(p) = Matching(p)
<1> DEFINE S == Scanned(p)
<1> DEFINE T == Purged(p)
<1>1. /\ enumerated_devices' = T /\ handles' = FreeHandles(Gone(p))
      /\ last_ID' = last_ID + Cardinality(New(p)) /\ Seen(p) = Matching(p)
      /\ probed' = [product |-> p, error |-> FALSE,
                    ids |-> {T[i].deviceID : i \in {j \in Entries(T) : T[j].product = p}}]
  BY DEF ProbeFits
<1>2. /\ Entries(T) = Entries(S) \ Gone(p)
      /\ \A i \in Entries(T) : T[i] \in Entry /\ Same(T[i], S[i])
  BY PurgeFacts
<1>3. /\ \A i \in Entries(S) \ Valid : /\ S[i].product = p /\ attached[S[i].location] = p
                                       /\ last_ID <= S[i].deviceID
      /\ \A i \in Gone(p) : i \in Slots
      /\ \A i \in Gone(p) \cap Valid : /\ enumerated_devices[i].product = p
                                       /\ attached[enumerated_devices[i].location] # p
      /\ \A i \in Entries(S) \ Gone(p) : Unmarked /\ S[i].product = p => attached[S[i].location] = p
      /\ \A i \in Entries(S) : attached[S[i].location] = p => i \notin Gone(p)
      /\ \A l \in Matching(p) : \E i \in Entries(S) : S[i].location = l
  BY <1>1, ScanNew, ScanMarks, GoneFacts
<1>4. /\ \A i \in Valid : i \in Entries(S) /\ Same(S[i], enumerated_devices[i])
      /\ \A i \in Valid : i \in Slots /\ enumerated_devices[i] # NoEntry
  BY ScanDiffers, ScanFacts, TableFacts, EntryFacts
<1>5. \A i \in Entries(T) : ~T[i].mark
  <2>1. \A i \in Entries(S) : i \in Slots /\ (i \in Valid \/ i \in Free)
    BY DEF Entries, Free
  <2>2. \A i \in Entries(S) : S[i] \in Entry
    BY <2>1, ScanFacts DEF Entries
  <2>3. \A i \in Entries(T) : T[i] = [S[i] EXCEPT !.mark = FALSE]
    BY <1>2, <2>1 DEF Purged
  <2> HIDE DEF S, T
  <2>4. \A e \in Entry : ~[e EXCEPT !.mark = FALSE].mark
    BY DEF Entry
  <2>5. QED
    BY <1>2, <2>2, <2>3, <2>4
<1> HIDE DEF S, T
<1>6. Valid' = Entries(T)
  BY <1>1 DEF Valid
<1>7. ProbeKeeps(p)
  <2>1. ASSUME NEW i \in Entries(T)
        PROVE  \/ i \in Valid /\ Same(T[i], enumerated_devices[i])
               \/ /\ i \notin Valid /\ T[i].product = p /\ attached[T[i].location] = p
                  /\ last_ID <= T[i].deviceID
    BY <1>2, <1>3, <1>4 DEF Same
  <2>2. \A i \in Valid : \/ i \in Entries(T)
                         \/ /\ enumerated_devices[i].product = p
                            /\ attached[enumerated_devices[i].location] # p
    BY <1>2, <1>3, <1>4
  <2>3. /\ Len(handles') = Len(handles)
        /\ \A h \in 1 .. Len(handles) :
             handles'[h].freed =>
               handles[h].freed \/ \E i \in Gone(p) : /\ enumerated_devices[i] # NoEntry
                                                      /\ enumerated_devices[i].handle = h
    BY <1>1, FreeFacts
  <2>4. \A i \in Slots : enumerated_devices[i] # NoEntry => i \in Valid
    BY DEF Valid, Entries
  <2>5. \A h \in 1 .. Len(handles) :
          handles'[h].freed =>
            \/ handles[h].freed
            \/ \E i \in Valid : /\ enumerated_devices[i].handle = h
                                /\ enumerated_devices[i].product = p
                                /\ attached[enumerated_devices[i].location] # p
    BY <1>3, <2>3, <2>4
  <2>6. last_ID <= last_ID'
    BY <1>1, NewFacts DEF UsbInv, UsbTypeOK
  <2>7. QED
    BY <1>1, <1>6, <2>1, <2>2, <2>3, <2>5, <2>6 DEF ProbeKeeps
<1>8. Unmarked'
  BY <1>1, <1>5, <1>6 DEF Unmarked
<1>9. ASSUME Unmarked PROVE ProbeFinds(p)
  <2>1. ASSUME NEW i \in Entries(T), T[i].product = p PROVE attached[T[i].location] = p
    BY <1>2, <1>3, <1>9, <2>1 DEF Same
  <2>2. ASSUME NEW l \in Locations, attached[l] = p PROVE \E i \in Entries(T) : T[i].location = l
    <3>1. PICK i \in Entries(S) : S[i].location = l
      BY <1>3, <2>2 DEF Matching
    <3>2. i \in Entries(T) /\ T[i].location = l
      BY <1>2, <1>3, <2>2, <3>1 DEF Same
    <3>3. QED
      BY <3>2
  <2>3. probed'.product = p /\ probed'.ids = {T[i].deviceID : i \in {j \in Entries(T) : T[j].product = p}}
    BY <1>1
  <2>4. \A f : f \in probed'.ids <=> \E i \in Entries(T) : T[i].deviceID = f /\ T[i].product = p
    BY <2>3
  <2>5. QED
    BY <1>1, <1>6, <1>8, <2>1, <2>2, <2>3, <2>4 DEF ProbeFinds
<1>10. ~probed'.error
  BY <1>1
<1>11. QED
  BY <1>1, <1>7, <1>8, <1>9, <1>10

\* A probe that fails wipes nothing.
LEMMA FullKeeps ==
  ASSUME UsbInv, NEW p \in Products, ProbeFull(p)
  PROVE  ProbeKeeps(p) /\ probed'.error
<1>1. /\ enumerated_devices' = Scanned(p) /\ handles' = handles
      /\ last_ID' = last_ID + Cardinality(Free)
      /\ probed' = [product |-> p, error |-> TRUE, ids |-> {}]
  BY DEF ProbeFull
<1>2. Valid' = Entries(Scanned(p))
  BY <1>1 DEF Valid
<1>3. \A i \in Valid : i \in Entries(Scanned(p)) /\ Same(Scanned(p)[i], enumerated_devices[i])
  BY ScanDiffers, ScanFacts
<1>4. \A i \in Entries(Scanned(p)) \ Valid :
        /\ Scanned(p)[i].product = p /\ attached[Scanned(p)[i].location] = p
        /\ last_ID <= Scanned(p)[i].deviceID
  BY ScanNew
<1>5. last_ID <= last_ID'
  BY <1>1, TableFacts, FS_CardinalityType DEF UsbInv, UsbTypeOK
<1>6. QED
  BY <1>1, <1>2, <1>3, <1>4, <1>5 DEF ProbeKeeps

LEMMA ProbeOutcome ==
  ASSUME UsbInv, NEW p \in Products, USBProbeDevices(p)
  PROVE  /\ ProbeKeeps(p)
         /\ ~probed'.error => Unmarked' /\ (Unmarked => ProbeFinds(p))
         /\ Seen(p) = Matching(p) => ~probed'.error
<1>1. ProbeFits(p) \/ ProbeFull(p)
  BY DEF USBProbeDevices
<1>2. ProbeFull(p) => Seen(p) # Matching(p)
  BY DEF ProbeFull
<1>3. QED
  BY <1>1, <1>2, FitsKeeps, FullKeeps

\* No other operation touches more of an entry than its handle.
TableKept ==
  /\ Valid' = Valid
  /\ \A i \in Valid : /\ enumerated_devices'[i].deviceID = enumerated_devices[i].deviceID
                      /\ enumerated_devices'[i].location = enumerated_devices[i].location
                      /\ enumerated_devices'[i].product = enumerated_devices[i].product
                      /\ enumerated_devices'[i].mark = enumerated_devices[i].mark
  /\ UNCHANGED <<tree, probed, last_ID>>

LEMMA OthersKeepTable ==
  ASSUME UsbInv,
         \/ Hotplug \/ UNCHANGED usbVars
         \/ \E id : USBOpen(id)
         \/ \E h : USBClose(h) \/ Transfer(h)
  PROVE  TableKept
<1> DEFINE HandleOnly(d) ==
      /\ d = [i \in Slots |-> d[i]]
      /\ \A i \in Slots : \/ d[i] = enumerated_devices[i]
                          \/ i \in Valid /\ \E k \in Nat : d[i] = [enumerated_devices[i] EXCEPT !.handle = k]
<1>1. /\ HandleOnly(enumerated_devices')
      /\ UNCHANGED <<tree, probed, last_ID>>
  <2>t. enumerated_devices = [i \in Slots |-> enumerated_devices[i]]
    BY DEF UsbInv, UsbTypeOK
  <2>1. CASE Hotplug \/ UNCHANGED usbVars \/ \E h : Transfer(h)
    <3>1. UNCHANGED <<tree, probed, last_ID, enumerated_devices>>
      BY <2>1 DEF Hotplug, Plug, Unplug, Transfer, usbVars, busVars, tableVars
    <3>2. QED
      BY <2>t, <3>1
  <2>2. ASSUME NEW id, USBOpen(id)
        PROVE  HandleOnly(enumerated_devices') /\ UNCHANGED <<tree, probed, last_ID>>
    <3>1. PICK i \in ByID(id) :
            /\ enumerated_devices' = [enumerated_devices EXCEPT ![i].handle = Len(handles) + 1]
            /\ UNCHANGED <<tree, probed, last_ID>>
      BY <2>2 DEF USBOpen, busVars
    <3>2. i \in Valid /\ Len(handles) + 1 \in Nat
      BY TableFacts, HandleFacts DEF ByID
    <3>3. QED
      BY <2>t, <3>1, <3>2
  <2>3. ASSUME NEW h, USBClose(h)
        PROVE  HandleOnly(enumerated_devices') /\ UNCHANGED <<tree, probed, last_ID>>
    <3>1. UNCHANGED <<tree, probed, last_ID>>
      BY <2>3 DEF USBClose, busVars
    <3>2. CASE enumerated_devices' = enumerated_devices
      BY <2>t, <3>1, <3>2
    <3>3. CASE enumerated_devices' = ForgetHandle(h)
      <4>1. \A i \in ByID(handles[h].deviceID) : i \in Valid
        BY TableFacts DEF ByID
      <4>2. NoHandle \in Nat
        BY DEF NoHandle
      <4>3. QED
        BY <3>1, <3>3, <4>1, <4>2 DEF ForgetHandle
    <3>4. QED
      BY <2>3, <3>2, <3>3 DEF USBClose
  <2>4. QED
    BY <2>1, <2>2, <2>3
<1>2. ASSUME NEW e \in Entry, NEW k \in Nat
      PROVE  /\ [e EXCEPT !.handle = k] \in Entry
             /\ [e EXCEPT !.handle = k].deviceID = e.deviceID
             /\ [e EXCEPT !.handle = k].location = e.location
             /\ [e EXCEPT !.handle = k].product = e.product
             /\ [e EXCEPT !.handle = k].mark = e.mark
  BY DEF Entry
<1>3. \A i \in Valid : i \in Slots /\ enumerated_devices[i] \in Entry
  BY TableFacts
<1>4. \A i \in Valid : /\ enumerated_devices'[i] \in Entry
                       /\ enumerated_devices'[i].deviceID = enumerated_devices[i].deviceID
                       /\ enumerated_devices'[i].location = enumerated_devices[i].location
                       /\ enumerated_devices'[i].product = enumerated_devices[i].product
                       /\ enumerated_devices'[i].mark = enumerated_devices[i].mark
  <2>1. TAKE i \in Valid
  <2>2. CASE enumerated_devices'[i] = enumerated_devices[i]
    BY <1>3, <2>2
  <2>3. ASSUME NEW k \in Nat, enumerated_devices'[i] = [enumerated_devices[i] EXCEPT !.handle = k]
        PROVE  /\ enumerated_devices'[i] \in Entry
               /\ enumerated_devices'[i].deviceID = enumerated_devices[i].deviceID
               /\ enumerated_devices'[i].location = enumerated_devices[i].location
               /\ enumerated_devices'[i].product = enumerated_devices[i].product
               /\ enumerated_devices'[i].mark = enumerated_devices[i].mark
    BY <1>2, <1>3, <2>3
  <2>4. QED
    BY <1>1, <1>3, <2>2, <2>3
<1>5. Valid' = Valid
  BY <1>1, <1>3, <1>4, EntryFacts DEF Valid, Entries
<1>6. QED
  BY <1>1, <1>4, <1>5 DEF TableKept

-----------------------------------------------------------------------------
(* A table with room for every device of the bus.                          *)

\* Without it the table overflows, a probe that fails leaves marks behind, and
\* a device that goes after that survives the next probe.
TableFitsBus == Cardinality(Locations) <= MAX_USB_DEVICES

LEMMA ProbeResult ==
  ASSUME UsbInv, TableFitsBus, Unmarked, NEW p \in Products, USBProbeDevices(p)
  PROVE  ProbeDoes(p)
<1>1. /\ New(p) \subseteq Locations /\ \A i \in Valid : enumerated_devices[i].location \in Locations
      /\ IsFiniteSet(Locations) /\ Cardinality(Locations) <= MAX_USB_DEVICES
  BY NewFacts, TableFacts, EntryFacts, LocationsAssumption DEF TableFitsBus
<1>2. Seen(p) = Matching(p)
  BY <1>1, NewFit, FitSeen
<1>3. QED
  BY <1>2, ProbeOutcome DEF ProbeDoes

\* What the bus and the table are after a step.
LEMMA UsbSteps ==
  ASSUME UsbInv, TableFitsBus, Unmarked, [UsbNext]_usbVars
  PROVE  \/ TableKept
         \/ \E p \in Products : ProbeDoes(p) /\ tree' = attached /\ UNCHANGED attached
<1>1. ASSUME NEW p \in Products, USBProbeDevices(p)
      PROVE  ProbeDoes(p) /\ tree' = attached /\ UNCHANGED attached
  BY <1>1, ProbeResult DEF USBProbeDevices
<1>2. QED
  BY <1>1, OthersKeepTable DEF UsbNext

\* What it takes for a report to be exact.
ReportInv == UsbInv /\ Unmarked /\ ReportIsExact

LEMMA ReportInit == UsbInit => ReportInv
<1> SUFFICES ASSUME UsbInit PROVE ReportInv
  OBVIOUS
<1>1. Valid = {} /\ probed.product = NoProduct
  BY DEF UsbInit, Valid, Entries
<1>2. Unmarked /\ ReportIsExact
  BY <1>1 DEF Unmarked, ReportIsExact, ReportedPresent, PresentReported, Reported
<1>3. QED
  BY <1>2, UsbInitInv DEF ReportInv

LEMMA ReportStep ==
  ASSUME ReportInv, TableFitsBus, [UsbNext]_usbVars
  PROVE  ReportInv'
<1>1. UsbInv'
  BY UsbNextInv DEF ReportInv
<1>2. CASE TableKept
  <2>1. Reported' = Reported
    BY <1>2 DEF TableKept, Reported
  <2>2. Reported \subseteq Valid
    BY DEF Reported
  <2>3. Unmarked'
    BY <1>2 DEF ReportInv, TableKept, Unmarked
  <2>4. ReportedPresent'
    BY <1>2, <2>1, <2>2 DEF ReportInv, TableKept, ReportIsExact, ReportedPresent
  <2>5. PresentReported'
    BY <1>2, <2>1 DEF ReportInv, TableKept, ReportIsExact, PresentReported
  <2>6. QED
    BY <1>1, <2>3, <2>4, <2>5 DEF ReportInv, ReportIsExact
<1>3. ASSUME NEW p \in Products, ProbeDoes(p), tree' = attached
      PROVE  ReportInv'
  <2>1. probed'.product = p
    BY <1>3 DEF ProbeDoes, ProbeFinds
  <2>2. Reported' = {i \in Valid' : enumerated_devices'[i].product = p}
    BY <1>3, <2>1 DEF ProbeDoes, ProbeFinds, Reported
  <2>3. ReportedPresent'
    BY <1>3, <2>1, <2>2 DEF ProbeDoes, ProbeFinds, ReportedPresent
  <2>4. PresentReported'
    BY <1>3, <2>1, <2>2 DEF ProbeDoes, ProbeFinds, PresentReported
  <2>5. Unmarked'
    BY <1>3 DEF ProbeDoes, ProbeFinds
  <2>6. QED
    BY <1>1, <2>3, <2>4, <2>5 DEF ReportInv, ReportIsExact
<1>4. QED
  BY <1>2, <1>3, UsbSteps DEF ReportInv

LEMMA ReportInductive == TableFitsBus => (UsbSpec => []ReportInv)
<1> SUFFICES ASSUME TableFitsBus PROVE UsbSpec => []ReportInv
  OBVIOUS
<1>1. ReportInv /\ [UsbNext]_usbVars => ReportInv'
  BY ReportStep
<1>2. QED
  BY <1>1, ReportInit, PTL DEF UsbSpec

\* Whatever is plugged in, taken away, opened and closed in between: a probe
\* reports the devices of its product that are there and none that has gone,
\* as long as the table has room for every place of the bus
\* (NativeUSBLinux.c 253-350).
THEOREM ReportsAreExact == TableFitsBus => (UsbSpec => []ReportIsExact)
<1>1. ReportInv => ReportIsExact
  BY DEF ReportInv
<1>2. QED
  BY <1>1, ReportInductive, PTL

-----------------------------------------------------------------------------
(* A bus on which no device goes away while it is open.                    *)

\* An entry with a handle stands for a device that is there, and a handle
\* somebody holds has not been freed.
InUsePresent == \A i \in Valid : enumerated_devices[i].handle # NoHandle =>
  attached[enumerated_devices[i].location] = enumerated_devices[i].product
HeldAlive == \A h \in held : ~handles[h].freed

UseInv == UsbInv /\ InUsePresent /\ HeldAlive /\ ~fault

LEMMA UseInit == UsbInit => UseInv
<1> SUFFICES ASSUME UsbInit PROVE UseInv
  OBVIOUS
<1>1. Valid = {} /\ held = {} /\ ~fault
  BY DEF UsbInit, Valid, Entries
<1>2. QED
  BY <1>1, UsbInitInv DEF UseInv, InUsePresent, HeldAlive

\* The bus changes where nothing is open.
LEMMA UseHotplug ==
  ASSUME UseInv, ~SurpriseRemoval, Hotplug
  PROVE  InUsePresent'
<1>1. UNCHANGED enumerated_devices /\ Valid' = Valid
  BY DEF Hotplug, Plug, Unplug, tableVars, Valid
<1>2. /\ attached \in [Locations -> Products \cup {NoProduct}]
      /\ \A i \in Valid : /\ enumerated_devices[i].location \in Locations
                          /\ enumerated_devices[i].product # NoProduct
  BY TableFacts, EntryFacts, ProductsAssumption DEF UseInv, UsbInv, UsbTypeOK
<1>3. ASSUME NEW i \in Valid, enumerated_devices[i].handle # NoHandle
      PROVE  attached'[enumerated_devices[i].location] = attached[enumerated_devices[i].location]
  <2> DEFINE here == enumerated_devices[i].location
  <2>1. attached[here] # NoProduct /\ InUse(here) /\ here \in Locations
    BY <1>2, <1>3 DEF UseInv, InUsePresent, InUse
  <2> HIDE DEF here
  <2>2. ASSUME NEW l \in Locations, NEW p \in Products, Plug(l, p)
        PROVE  attached'[here] = attached[here]
    BY <1>2, <2>1, <2>2 DEF Plug
  <2>3. ASSUME NEW l \in Locations, Unplug(l) PROVE attached'[here] = attached[here]
    BY <1>2, <2>1, <2>3 DEF Unplug
  <2>4. QED
    BY <2>2, <2>3 DEF Hotplug, here
<1>4. QED
  BY <1>1, <1>3 DEF UseInv, InUsePresent

LEMMA UseProbe ==
  ASSUME UseInv, NEW p \in Products, USBProbeDevices(p)
  PROVE  InUsePresent' /\ HeldAlive' /\ ~fault'
<1>1. ProbeKeeps(p)
  BY ProbeOutcome DEF UseInv
<1>2. UNCHANGED <<attached, held, fault>>
  BY DEF USBProbeDevices
<1>3. InUsePresent'
  BY <1>1, <1>2 DEF UseInv, InUsePresent, ProbeKeeps, Same
<1>4. HeldAlive'
  <2>1. \A h \in held : h \in 1 .. Len(handles)
    BY HandleFacts DEF UseInv
  <2>2. \A h \in 1 .. Len(handles) : h # NoHandle
    BY HandleFacts DEF NoHandle, UseInv
  <2>3. ASSUME NEW h \in held PROVE ~handles'[h].freed
    BY <1>1, <2>1, <2>2 DEF ProbeKeeps, UseInv, HeldAlive, InUsePresent
  <2>4. QED
    BY <1>2, <2>3 DEF HeldAlive
<1>5. QED
  BY <1>2, <1>3, <1>4 DEF UseInv

LEMMA UseOpen ==
  ASSUME UseInv, ~SurpriseRemoval, NEW id \in Nat, USBOpen(id)
  PROVE  InUsePresent' /\ HeldAlive' /\ ~fault'
<1>1. PICK i \in ByID(id) :
        /\ CanOpen(i)
        /\ handles' = Append(handles, [deviceID |-> id, freed |-> FALSE])
        /\ held' = held \cup {Len(handles) + 1}
        /\ enumerated_devices' = [enumerated_devices EXCEPT ![i].handle = Len(handles) + 1]
        /\ UNCHANGED <<attached, fault>>
  BY DEF USBOpen, busVars
<1>2. TableKept
  BY OthersKeepTable DEF UseInv
<1>3. attached[enumerated_devices[i].location] = enumerated_devices[i].product
  BY <1>1 DEF CanOpen, Present
<1>4. InUsePresent'
  <2>1. ASSUME NEW j \in Valid, j # i PROVE enumerated_devices'[j] = enumerated_devices[j]
    BY <1>1, <2>1, TableFacts DEF UseInv, UsbInv, UsbTypeOK
  <2>2. QED
    BY <1>1, <1>2, <1>3, <2>1 DEF UseInv, InUsePresent, TableKept
<1>5. HeldAlive'
  <2>1. handles \in Seq(Handle) /\ Len(handles) \in Nat /\ held \subseteq 1 .. Len(handles)
    BY HandleFacts DEF UseInv, UsbInv, UsbTypeOK
  <2>2. \A h \in 1 .. Len(handles) : handles'[h] = handles[h]
    BY <1>1, <2>1
  <2>3. handles'[Len(handles) + 1] = [deviceID |-> id, freed |-> FALSE]
    BY <1>1, <2>1
  <2>4. QED
    BY <1>1, <2>1, <2>2, <2>3 DEF UseInv, HeldAlive
<1>6. QED
  BY <1>1, <1>4, <1>5 DEF UseInv

LEMMA UseClose ==
  ASSUME UseInv, NEW h \in held, USBClose(h)
  PROVE  InUsePresent' /\ HeldAlive' /\ ~fault'
<1>1. ~handles[h].freed
  BY DEF UseInv, HeldAlive
<1>2. /\ handles' = [handles EXCEPT ![h].freed = TRUE]
      /\ enumerated_devices' = ForgetHandle(h)
      /\ held' = held \ {h}
      /\ UNCHANGED <<attached, fault>>
  BY <1>1 DEF USBClose, busVars
<1>3. TableKept
  BY OthersKeepTable DEF UseInv
<1>4. InUsePresent'
  <2>1. \A i \in Valid : i \in Slots /\ enumerated_devices[i] \in Entry
    BY TableFacts DEF UseInv
  <2>2. \A e \in Entry : [e EXCEPT !.handle = NoHandle].handle = NoHandle
    BY DEF Entry
  <2>3. \A i \in Valid : enumerated_devices'[i].handle # NoHandle =>
                           enumerated_devices'[i].handle = enumerated_devices[i].handle
    BY <1>2, <2>1, <2>2 DEF ForgetHandle
  <2>4. QED
    BY <1>2, <1>3, <2>3 DEF UseInv, InUsePresent, TableKept
<1>5. HeldAlive'
  <2>1. \A k \in held : k # h => handles'[k] = handles[k]
    BY <1>2, HandleFacts DEF UseInv
  <2>2. QED
    BY <1>2, <2>1 DEF UseInv, HeldAlive
<1>6. QED
  BY <1>2, <1>4, <1>5 DEF UseInv

LEMMA UseStep ==
  ASSUME UseInv, ~SurpriseRemoval, [UsbNext]_usbVars
  PROVE  UseInv'
<1>1. UsbInv'
  BY UsbNextInv DEF UseInv
<1>3. CASE Hotplug
  <2>1. UNCHANGED <<handles, held, fault>>
    BY <1>3 DEF Hotplug, Plug, Unplug
  <2>2. HeldAlive' /\ ~fault'
    BY <2>1 DEF UseInv, HeldAlive
  <2>3. QED
    BY <1>1, <1>3, <2>2, UseHotplug DEF UseInv
<1>4. ASSUME NEW p \in Products, USBProbeDevices(p) PROVE UseInv'
  BY <1>1, <1>4, UseProbe DEF UseInv
<1>5. ASSUME NEW id \in 0 .. last_ID, USBOpen(id) PROVE UseInv'
  <2>1. id \in Nat
    BY <1>5 DEF UseInv, UsbInv, UsbTypeOK
  <2>2. QED
    BY <1>1, <1>5, <2>1, UseOpen DEF UseInv
<1>6. ASSUME NEW h \in held, USBClose(h) PROVE UseInv'
  BY <1>1, <1>6, UseClose DEF UseInv
<1>7. CASE UNCHANGED usbVars \/ \E h \in held : Transfer(h)
  <2>1. UNCHANGED <<attached, enumerated_devices, handles, held>> /\ ~fault'
    BY <1>7 DEF usbVars, busVars, tableVars, Transfer, UseInv, HeldAlive
  <2>2. QED
    BY <1>1, <2>1 DEF UseInv, InUsePresent, HeldAlive, Valid
<1>8. QED
  BY <1>3, <1>4, <1>5, <1>6, <1>7 DEF UsbNext

LEMMA UseInductive == ~SurpriseRemoval => (UsbSpec => []UseInv)
<1> SUFFICES ASSUME ~SurpriseRemoval PROVE UsbSpec => []UseInv
  OBVIOUS
<1>1. UseInv /\ [UsbNext]_usbVars => UseInv'
  BY UseStep
<1>2. QED
  BY <1>1, UseInit, PTL DEF UsbSpec

\* As long as no device is taken away while it is open, no handle that
\* somebody holds is freed under him, whatever is probed for, and none is used
\* after it was freed (NativeUSBLinux.c 183-213, 253-350).
THEOREM HeldHandlesLive == ~SurpriseRemoval => (UsbSpec => [](HeldAlive /\ ~fault))
<1>1. UseInv => HeldAlive /\ ~fault
  BY DEF UseInv
<1>2. QED
  BY <1>1, UseInductive, PTL
=============================================================================
