----------------------- MODULE StsSpectrometerProofs -----------------------
(***************************************************************************)
(* Proofs about the commands of the daemon's Spectrometer, for every range *)
(* of integration times, every number of pixels and largest factor, and    *)
(* any number of exchanges that fail and of restarts; and about the        *)
(* spectra it returns and saves, for every width of the boxcar. What the   *)
(* loop of the boxcar computes is shown by induction on its turns, in the  *)
(* form that a set of numbers has a least member (LeastNumber).            *)
(***************************************************************************)
EXTENDS StsSpectrometer, FiniteSetTheorems, NaturalsInduction, WellFoundedInduction, TLAPS

-----------------------------------------------------------------------------
(* Types.                                                                  *)

\* The configured time is brought into the range of the spectrometer.
LEMMA ClampInRange == Clamp(ConfiguredTime) \in MinTime .. MaxTime
  BY TimeAssumption DEF Clamp

LEMMA InRangeNat == MinTime .. MaxTime \subseteq Nat
  BY TimeAssumption

LEMMA ZeroFactor == 0 \in Factors
  BY PixelAssumption DEF Factors

\* A factor up to the largest is one.
LEMMA SmallFactor == \A f \in 0 .. MaxFactor + 1 : f <= MaxFactor => f \in Factors
  BY PixelAssumption DEF Factors

\* A scan counts as a fault when its exchange does, and they stay bounded.
LEMMA FaultsBounded ==
  ASSUME faults \in 0 .. MaxFaults, NEW o, Ends(o)
  PROVE  faults' \in 0 .. MaxFaults
  BY SpectrometerBoundsAssumption DEF Ends, Fails

\* What a daemon starts with is of the right type.
LEMMA InitializedType ==
  ASSUME NEW r
  PROVE  Initialized(r) \in [time : MinTime .. MaxTime, binning : Factors,
                             waves : Factors \cup {Garbled}, boxcar : Nat, scans : Nat]
  BY ClampInRange, ZeroFactor DEF Initialized

LEMMA InitType == SpectrometerInit => SpectrometerTypeOK
<1> SUFFICES ASSUME SpectrometerInit PROVE SpectrometerTypeOK
  OBVIOUS
<1>1. device \in [time : Nat, binning : Factors, default : Factors]
  BY ClampInRange, InRangeNat, ZeroFactor DEF SpectrometerInit
<1>2. reply.code \in Codes /\ saved.factor \in Factors /\ saved.waves \in Factors \cup {Garbled}
  BY ZeroFactor DEF SpectrometerInit, Replied, NoEntry, Codes
<1>3. QED
  BY <1>1, <1>2, InitializedType, ZeroFactor, SpectrometerBoundsAssumption
  DEF SpectrometerInit, SpectrometerTypeOK, Codes

LEMMA NextType == SpectrometerTypeOK /\ [SpectrometerNext]_vars => SpectrometerTypeOK'
<1> SUFFICES ASSUME SpectrometerTypeOK, [SpectrometerNext]_vars PROVE SpectrometerTypeOK'
  OBVIOUS
<1> USE DEF SpectrometerTypeOK
<1>1. CASE UNCHANGED vars
  BY <1>1 DEF vars
<1>2. ASSUME NEW t \in Times, SetIntegrationTime(t) PROVE SpectrometerTypeOK'
  <2>1. CASE t \in MinTime .. MaxTime
    BY <1>2, <2>1, FaultsBounded, InRangeNat DEF SetIntegrationTime, Replied, Codes, Local
  <2>2. CASE t \notin MinTime .. MaxTime
    BY <1>2, <2>2 DEF SetIntegrationTime, Replied, Codes, Local
  <2>3. QED
    BY <2>1, <2>2
<1>3. CASE GetIntegrationTime
  BY <1>3 DEF GetIntegrationTime, Replied, Codes, Local
<1>4. ASSUME NEW f \in 0 .. MaxFactor + 1, SetPixelBinningFactor(f) PROVE SpectrometerTypeOK'
  <2>1. PICK o \in Writes, r \in Reads :
          /\ Ends(IF o = "ok" THEN r ELSE o)
          /\ device' = IF f <= MaxFactor /\ Applied(o) THEN [device EXCEPT !.binning = f]
                                                       ELSE device
          /\ factor' = IF FeatureSets(f, o) THEN f ELSE factor
          /\ sts' = IF FeatureSets(f, o) THEN DaemonBinning(f, r) ELSE sts
          /\ told' = BinningCode(FeatureSets(f, o), r)
          /\ reply' = Replied("binning", told')
    BY <1>4 DEF SetPixelBinningFactor
  <2>2. faults' \in 0 .. MaxFaults
    BY <2>1, FaultsBounded
  <2>3. device' \in [time : Nat, binning : Factors, default : Factors]
    BY <2>1, SmallFactor
  <2>4. factor' \in Factors
    BY <2>1, SmallFactor DEF FeatureSets
  <2>5. sts' \in [time : MinTime .. MaxTime, binning : Factors,
                  waves : Factors \cup {Garbled}, boxcar : Nat, scans : Nat]
    BY <2>1, SmallFactor DEF FeatureSets, DaemonBinning, Resized
  <2>6. told' \in Codes /\ reply'.code \in Codes
    BY <2>1 DEF BinningCode, Codes, Replied
  <2>7. QED
    BY <1>4, <2>2, <2>3, <2>4, <2>5, <2>6 DEF SetPixelBinningFactor
<1>5. ASSUME NEW f \in 0 .. MaxFactor + 1, SetDefaultPixelBinningFactor(f)
      PROVE  SpectrometerTypeOK'
  BY <1>5, FaultsBounded, SmallFactor DEF SetDefaultPixelBinningFactor, Replied, Codes
<1>6. CASE GetPixelBinningFactor
  BY <1>6, FaultsBounded DEF GetPixelBinningFactor, Replied, Codes
<1>7. CASE GetWavelengths
  BY <1>7, FaultsBounded DEF GetWavelengths, Replied, Codes
<1>8. CASE GetSpectrum
  BY <1>8, FaultsBounded DEF GetSpectrum, StaysInStep, Replied, Codes
<1>9. CASE SaveSequenceEntry
  BY <1>9, FaultsBounded DEF SaveSequenceEntry, StaysInStep, Entry
<1>10. ASSUME NEW w \in Widths, SetBoxcarWidth(w) PROVE SpectrometerTypeOK'
  BY <1>10, ProcessingAssumption DEF SetBoxcarWidth, Local, Replied, Codes
<1>11. ASSUME NEW n \in Scans, SetScansToAverage(n) PROVE SpectrometerTypeOK'
  BY <1>11, ProcessingAssumption DEF SetScansToAverage, Local, Replied, Codes
<1>12. ASSUME NEW to \in {"time", "binning"}, Unparsable(to) PROVE SpectrometerTypeOK'
  BY <1>12 DEF Unparsable, Local, Replied, Codes
<1>13. CASE GetCurrentStatus
  BY <1>13 DEF GetCurrentStatus, Local, Replied, Codes
<1>14. ASSUME NEW power \in BOOLEAN, Restart(power) PROVE SpectrometerTypeOK'
  <2>1. PICK o \in Writes, r \in Reads :
          /\ UNCHANGED faults \/ Fails
          /\ device' = IF Applied(o) THEN [PoweredOn(power) EXCEPT !.time = Clamp(ConfiguredTime)]
                                     ELSE PoweredOn(power)
          /\ sts' = Initialized(r)
    BY <1>14 DEF Restart
  <2>2. PoweredOn(power) \in [time : Nat, binning : Factors, default : Factors]
    BY TimeAssumption DEF PoweredOn
  <2>3. device' \in [time : Nat, binning : Factors, default : Factors]
    BY <2>1, <2>2, ClampInRange, InRangeNat
  <2>4. faults' \in 0 .. MaxFaults
    BY <2>1, SpectrometerBoundsAssumption DEF Fails
  <2>5. reply'.code \in Codes /\ saved'.factor \in Factors /\ saved'.waves \in Factors \cup {Garbled}
    BY <1>14, ZeroFactor DEF Restart, Replied, NoEntry, Codes
  <2>6. restarts' \in 0 .. MaxRestarts
    BY <1>14, SpectrometerBoundsAssumption DEF Restart
  <2>7. QED
    BY <1>14, <2>1, <2>3, <2>4, <2>5, <2>6, InitializedType, ZeroFactor DEF Restart, Codes
<1>15. QED
  BY <1>1, <1>2, <1>3, <1>4, <1>5, <1>6, <1>7, <1>8, <1>9, <1>10, <1>11, <1>12, <1>13, <1>14
  DEF SpectrometerNext

\* Every setting keeps its type: the integration time the daemon has is in
\* the range of the spectrometer, and its factor one the device has.
THEOREM SpectrometerTypeCorrect == SpectrometerSpec => []SpectrometerTypeOK
<1>1. SpectrometerInit => SpectrometerTypeOK
  BY InitType
<1>2. SpectrometerTypeOK /\ [SpectrometerNext]_vars => SpectrometerTypeOK'
  BY NextType
<1>3. QED
  BY <1>1, <1>2, PTL DEF SpectrometerSpec

-----------------------------------------------------------------------------
(* The copies of the settings. Both invariants are inductive together with *)
(* the types, and with the exchanges being in step until the first fault:  *)
(* a restart forgets what was answered before it.                          *)

\* Until the first fault the device never sends more than the library reads.
StepCalm == faults = 0 => inStep /\ device.binning >= factor

IInv == SpectrometerTypeOK /\ StepCalm /\ SuccessIsInForce /\ DeviceAgrees

\* No exchange that was a fault leaves the count of faults at 0.
LEMMA NoFault ==
  ASSUME faults \in 0 .. MaxFaults, StepCalm, NEW o, Ends(o), faults' = 0
  PROVE  o = "ok" /\ faults = 0 /\ inStep
  BY SpectrometerBoundsAssumption DEF Ends, Fails, StepCalm

LEMMA InitInv == SpectrometerInit => StepCalm /\ SuccessIsInForce /\ DeviceAgrees
  BY DEF SpectrometerInit, Initialized, StepCalm, SuccessIsInForce, CopiesAgree, DeviceAgrees

LEMMA NextCalm ==
  ASSUME IInv, [SpectrometerNext]_vars
  PROVE  StepCalm'
<1> SUFFICES ASSUME faults' = 0 PROVE inStep' /\ device'.binning >= factor'
  BY DEF StepCalm
<1> USE DEF IInv
<1>0. /\ faults \in 0 .. MaxFaults /\ factor \in Nat
      /\ device \in [time : Nat, binning : Factors, default : Factors]
      /\ \A f \in Factors : f \in Nat /\ f >= 0 /\ f >= f
  BY PixelAssumption DEF SpectrometerTypeOK, Factors
<1>1. CASE UNCHANGED <<device, factor, inStep, faults>>
  BY <1>1 DEF StepCalm
<1>2. ASSUME NEW t \in Times, SetIntegrationTime(t) PROVE inStep' /\ device'.binning >= factor'
  <2>1. CASE Local
    BY <1>1, <2>1 DEF Local
  <2>2. ASSUME NEW o \in Writes, Ends(o), UNCHANGED <<factor, inStep>>,
               device' = IF Applied(o) THEN [device EXCEPT !.time = t] ELSE device
        PROVE  inStep' /\ device'.binning >= factor'
    BY <1>0, <2>2, NoFault DEF StepCalm
  <2>3. QED
    BY <1>2, <2>1, <2>2 DEF SetIntegrationTime
<1>3. ASSUME NEW f \in 0 .. MaxFactor + 1, SetPixelBinningFactor(f)
      PROVE  inStep' /\ device'.binning >= factor'
  <2>1. PICK o \in Writes, r \in Reads :
          /\ Ends(IF o = "ok" THEN r ELSE o)
          /\ device' = IF f <= MaxFactor /\ Applied(o) THEN [device EXCEPT !.binning = f]
                                                       ELSE device
          /\ factor' = IF FeatureSets(f, o) THEN f ELSE factor
    BY <1>3 DEF SetPixelBinningFactor
  <2>2. o = "ok" /\ faults = 0 /\ inStep
    BY <1>0, <2>1, NoFault DEF Writes
  <2>3. UNCHANGED inStep
    BY <1>3 DEF SetPixelBinningFactor
  <2>4. CASE f <= MaxFactor
    BY <1>0, <2>1, <2>2, <2>3, <2>4 DEF FeatureSets, Applied
  <2>5. CASE ~(f <= MaxFactor)
    BY <1>0, <2>1, <2>2, <2>3, <2>5 DEF FeatureSets, StepCalm
  <2>6. QED
    BY <2>4, <2>5
<1>4. ASSUME NEW f \in 0 .. MaxFactor + 1, SetDefaultPixelBinningFactor(f)
      PROVE  inStep' /\ device'.binning >= factor'
  BY <1>0, <1>4, NoFault DEF SetDefaultPixelBinningFactor, StepCalm
<1>5. CASE GetPixelBinningFactor \/ GetWavelengths
  BY <1>0, <1>5, NoFault DEF GetPixelBinningFactor, GetWavelengths, StepCalm
<1>6. CASE GetSpectrum \/ SaveSequenceEntry
  BY <1>0, <1>6, NoFault DEF GetSpectrum, SaveSequenceEntry, StaysInStep, StepCalm
<1>7. ASSUME NEW power \in BOOLEAN, Restart(power) PROVE inStep' /\ device'.binning >= factor'
  <2>1. PICK o \in Writes :
          device' = IF Applied(o) THEN [PoweredOn(power) EXCEPT !.time = Clamp(ConfiguredTime)]
                                  ELSE PoweredOn(power)
    BY <1>7 DEF Restart
  <2>2. inStep' /\ factor' = 0
    BY <1>0, <1>7, SpectrometerBoundsAssumption DEF Restart, Fails, StepCalm
  <2>3. PoweredOn(power) \in [time : Nat, binning : Factors, default : Factors]
    BY <1>0, TimeAssumption DEF PoweredOn
  <2>4. QED
    BY <1>0, <2>1, <2>2, <2>3
<1>8. CASE UNCHANGED vars
  BY <1>1, <1>8 DEF vars
<1>9. QED
  BY <1>1, <1>2, <1>3, <1>4, <1>5, <1>6, <1>7, <1>8
  DEF SpectrometerNext, GetIntegrationTime, SetBoxcarWidth, SetScansToAverage, Unparsable,
      GetCurrentStatus, Local

LEMMA NextInv ==
  ASSUME IInv, [SpectrometerNext]_vars
  PROVE  SuccessIsInForce' /\ DeviceAgrees'
<1> USE DEF IInv, SuccessIsInForce, CopiesAgree, DeviceAgrees
<1>0. /\ faults \in 0 .. MaxFaults /\ restarts \in Nat
      /\ sts \in [time : MinTime .. MaxTime, binning : Factors,
                  waves : Factors \cup {Garbled}, boxcar : Nat, scans : Nat]
      /\ device \in [time : Nat, binning : Factors, default : Factors]
  BY DEF SpectrometerTypeOK
<1>1. CASE UNCHANGED vars
  BY <1>1 DEF vars
<1>2. ASSUME NEW t \in Times, SetIntegrationTime(t) PROVE SuccessIsInForce' /\ DeviceAgrees'
  <2>1. CASE reply' = Replied("time", "INVALID_INTEGRATION_TIME") /\ Local /\ UNCHANGED <<sts, status>>
    BY <2>1 DEF Local
  <2>2. ASSUME NEW o \in Writes, Ends(o), sts' = [sts EXCEPT !.time = t],
               device' = IF Applied(o) THEN [device EXCEPT !.time = t] ELSE device,
               UNCHANGED <<factor, told, restarts>>
        PROVE  SuccessIsInForce' /\ DeviceAgrees'
    <3>1. SuccessIsInForce'
      BY <1>0, <2>2
    <3>2. ASSUME faults' = 0 PROVE Applied(o) /\ faults = 0
      BY <1>0, <2>2, <3>2, NoFault DEF Applied
    <3>3. DeviceAgrees'
      BY <1>0, <2>2, <3>2
    <3>4. QED
      BY <3>1, <3>3
  <2>3. QED
    BY <1>2, <2>1, <2>2 DEF SetIntegrationTime
<1>3. CASE GetIntegrationTime
  BY <1>3 DEF GetIntegrationTime, Local
<1>4. ASSUME NEW f \in 0 .. MaxFactor + 1, SetPixelBinningFactor(f)
      PROVE  SuccessIsInForce' /\ DeviceAgrees'
  <2>1. PICK o \in Writes, r \in Reads :
          /\ f > MaxFactor => o \in {"ok", "undelivered"} /\ r = "ok"
          /\ Ends(IF o = "ok" THEN r ELSE o)
          /\ device' = IF f <= MaxFactor /\ Applied(o) THEN [device EXCEPT !.binning = f]
                                                       ELSE device
          /\ factor' = IF FeatureSets(f, o) THEN f ELSE factor
          /\ sts' = IF FeatureSets(f, o) THEN DaemonBinning(f, r) ELSE sts
          /\ told' = BinningCode(FeatureSets(f, o), r)
    BY <1>4 DEF SetPixelBinningFactor
  <2>2. SuccessIsInForce'
    BY <1>0, <2>1 DEF FeatureSets, DaemonBinning, BinningCode, Applied
  <2>3. ASSUME faults' = 0 PROVE o = "ok" /\ faults = 0
    BY <1>0, <2>1, <2>3, NoFault DEF Writes
  <2>4. f > MaxFactor \/ f <= MaxFactor
    BY PixelAssumption
  <2>5. DeviceAgrees'
    BY <1>0, <1>4, <2>1, <2>3, <2>4 DEF FeatureSets, DaemonBinning, Applied, SetPixelBinningFactor
  <2>6. QED
    BY <2>2, <2>5
<1>5. ASSUME NEW f \in 0 .. MaxFactor + 1, SetDefaultPixelBinningFactor(f)
      PROVE  SuccessIsInForce' /\ DeviceAgrees'
  BY <1>0, <1>5, NoFault DEF SetDefaultPixelBinningFactor
<1>6. CASE GetPixelBinningFactor
  BY <1>0, <1>6, NoFault DEF GetPixelBinningFactor
<1>7. CASE GetWavelengths
  BY <1>0, <1>7, NoFault DEF GetWavelengths
<1>8. CASE GetSpectrum
  BY <1>0, <1>8, NoFault DEF GetSpectrum
<1>9. CASE SaveSequenceEntry
  BY <1>0, <1>9, NoFault DEF SaveSequenceEntry
<1>10. ASSUME NEW w \in Widths, SetBoxcarWidth(w) PROVE SuccessIsInForce' /\ DeviceAgrees'
  BY <1>0, <1>10 DEF SetBoxcarWidth, Local
<1>11. ASSUME NEW n \in Scans, SetScansToAverage(n) PROVE SuccessIsInForce' /\ DeviceAgrees'
  BY <1>0, <1>11 DEF SetScansToAverage, Local
<1>12. ASSUME NEW to \in {"time", "binning"}, Unparsable(to)
       PROVE  SuccessIsInForce' /\ DeviceAgrees'
  BY <1>12 DEF Unparsable, Local
<1>13. CASE GetCurrentStatus
  BY <1>13 DEF GetCurrentStatus, Local
<1>14. ASSUME NEW power \in BOOLEAN, Restart(power) PROVE SuccessIsInForce' /\ DeviceAgrees'
  <2>1. PICK o \in Writes, r \in Reads :
          /\ \/ inStep' /\ o = "ok" /\ UNCHANGED faults
             \/ Fails
             \/ ~inStep' /\ UNCHANGED faults
          /\ device' = IF Applied(o) THEN [PoweredOn(power) EXCEPT !.time = Clamp(ConfiguredTime)]
                                     ELSE PoweredOn(power)
          /\ sts' = Initialized(r)
    BY <1>14 DEF Restart
  <2>2. SuccessIsInForce'
    BY <1>14, <2>1 DEF Restart, Initialized
  <2>3. ASSUME faults' = 0 PROVE Applied(o)
    <3>1. inStep'
      BY <2>3, NextCalm DEF StepCalm
    <3>2. QED
      BY <1>0, <2>1, <2>3, <3>1, SpectrometerBoundsAssumption DEF Fails, Applied
  <2>4. DOMAIN PoweredOn(power) = {"time", "binning", "default"}
    BY <1>0 DEF PoweredOn
  <2>5. DeviceAgrees'
    BY <1>0, <1>14, <2>1, <2>3, <2>4 DEF Restart, Initialized
  <2>6. QED
    BY <2>2, <2>5
<1>15. QED
  BY <1>1, <1>2, <1>3, <1>4, <1>5, <1>6, <1>7, <1>8, <1>9, <1>10, <1>11, <1>12, <1>13, <1>14
  DEF SpectrometerNext

LEMMA Inductive == SpectrometerSpec => []IInv
<1>1. SpectrometerInit => IInv
  BY InitType, InitInv DEF IInv
<1>2. IInv /\ [SpectrometerNext]_vars => IInv'
  BY NextType, NextCalm, NextInv DEF IInv
<1>3. QED
  BY <1>1, <1>2, PTL DEF SpectrometerSpec

\* A change of the binning answered with success is in force in the device,
\* the library and the daemon, and the library and the daemon agree however a
\* change fails (Spectrometer.cpp 589-629).
THEOREM SuccessInForce == SpectrometerSpec => []SuccessIsInForce
<1>1. IInv => SuccessIsInForce
  BY DEF IInv
<1>2. QED
  BY <1>1, Inductive, PTL

\* While every exchange has gone well the device has the settings the daemon
\* answers with (Spectrometer.cpp 191-226, 589-629, 1034-1060).
THEOREM DeviceAgreed == SpectrometerSpec => []DeviceAgrees
<1>1. IInv => DeviceAgrees
  BY DEF IInv
<1>2. QED
  BY <1>1, Inductive, PTL

-----------------------------------------------------------------------------
(* Numbers. Halving a count, and positions modulo the size of a window.    *)

LEMMA PowerPositive == \A f \in Nat : 2 ^ f \in Nat \ {0}
<1>1. TAKE f \in Nat
<1>2. IsFiniteSet(1 .. f) /\ Cardinality(1 .. f) = f
  <2>1. IsFiniteSet(1 .. f) /\ Cardinality(1 .. f) = IF 1 > f THEN 0 ELSE f - 1 + 1
    BY FS_Interval
  <2>2. QED
    BY <2>1
<1>3. IsFiniteSet(SUBSET (1 .. f)) /\ Cardinality(SUBSET (1 .. f)) = 2 ^ f
  BY <1>2, FS_SUBSET
<1>4. {} \in SUBSET (1 .. f)
  OBVIOUS
<1>5. 2 ^ f \in Nat
  BY <1>3, FS_CardinalityType
<1>6. 2 ^ f # 0
  BY <1>3, <1>4, FS_EmptySet
<1>7. QED
  BY <1>5, <1>6

LEMMA Division ==
  ASSUME NEW x \in Nat, NEW s \in Nat \ {0}
  PROVE  \E q \in Nat, r \in 0 .. s - 1 : x = s * q + r /\ x \div s = q /\ x % s = r
<1>1. x = s * (x \div s) + (x % s) /\ x \div s \in Nat /\ x % s \in 0 .. s - 1
  OBVIOUS
<1>2. QED
  BY <1>1, Zenon

LEMMA CountFacts == Count(0) = Pixels /\ \A f \in Factors : Count(f) \in Nat
<1>1. Pixels \in Nat
  BY PixelAssumption
<1>2. Count(0) = Pixels
  <2>1. 2 ^ 0 = 1
    OBVIOUS
  <2>2. Pixels \div 1 = Pixels
    BY <1>1
  <2>3. QED
    BY <2>1, <2>2 DEF Count
<1>3. ASSUME NEW f \in Factors PROVE Count(f) \in Nat
  <2>1. f \in Nat
    BY PixelAssumption DEF Factors
  <2>2. 2 ^ f \in Nat \ {0}
    BY <2>1, PowerPositive
  <2>3. QED
    BY <1>1, <2>2, Division DEF Count
<1>4. QED
  BY <1>2, <1>3

\* A remainder is determined by its number.
LEMMA OneRemainder ==
  ASSUME NEW s \in Nat \ {0}, NEW p \in Int, NEW q \in Int,
         NEW a \in 0 .. s - 1, NEW b \in 0 .. s - 1, s * p + a = s * q + b
  PROVE  a = b /\ p = q
  OBVIOUS

LEMMA Remainder ==
  ASSUME NEW s \in Nat \ {0}, NEW q \in Nat, NEW r \in 0 .. s - 1, NEW x, x = s * q + r
  PROVE  x \in Nat /\ x % s = r
<1>1. x \in Nat
  OBVIOUS
<1>2. PICK p \in Nat, a \in 0 .. s - 1 : x = s * p + a /\ x % s = a
  BY <1>1, Division
<1>3. s * p + a = s * q + r
  BY <1>2
<1>4. a = r
  BY <1>3, OneRemainder
<1>5. QED
  BY <1>1, <1>2, <1>4

\* Any s numbers in a row fill s places, each its own.
LEMMA PlacesDiffer ==
  ASSUME NEW s \in Nat \ {0}, NEW x \in Nat, NEW y \in Nat, x < y, y < x + s
  PROVE  x % s # y % s
<1>1. SUFFICES ASSUME x % s = y % s PROVE FALSE
  OBVIOUS
<1>2. PICK p \in Nat, r \in 0 .. s - 1 : x = s * p + r /\ x % s = r
  BY Division
<1>3. PICK q \in Nat, b \in 0 .. s - 1 : y = s * q + b /\ y % s = b
  BY Division
<1>4. s * q + 0 = s * p + (y - x) /\ y - x \in 0 .. s - 1 /\ 0 \in 0 .. s - 1
  BY <1>1, <1>2, <1>3
<1>5. y - x = 0
  BY <1>4, OneRemainder
<1>6. QED
  BY <1>5

LEMMA PlacesFilled ==
  ASSUME NEW s \in Nat \ {0}, NEW k \in Nat, NEW j \in 0 .. s - 1
  PROVE  \E x \in k .. k + s - 1 : x % s = j
<1>1. PICK q \in Nat, r \in 0 .. s - 1 : k = s * q + r
  BY Division
<1>2. CASE r <= j
  <2>1. PICK x : x = s * q + j
    OBVIOUS
  <2>2. x \in k .. k + s - 1
    BY <1>1, <1>2, <2>1
  <2>3. x % s = j
    BY <2>1, Remainder
  <2>4. QED
    BY <2>2, <2>3
<1>3. CASE j < r
  <2>1. PICK x : x = s * (q + 1) + j
    OBVIOUS
  <2>2. s * (q + 1) = s * q + s /\ q + 1 \in Nat
    OBVIOUS
  <2>3. x \in k .. k + s - 1
    BY <1>1, <1>3, <2>1, <2>2
  <2>4. x % s = j
    BY <2>1, <2>2, Remainder
  <2>5. QED
    BY <2>3, <2>4
<1>4. QED
  BY <1>1, <1>2, <1>3

\* Induction over a set of numbers.
LEMMA LeastNumber ==
  ASSUME NEW S \in SUBSET Nat, S # {}
  PROVE  \E x \in S : \A y \in S : x <= y
<1>1. PICK x \in S : \A y \in S : ~(<<y, x>> \in OpToRel(<, Nat))
  BY NatLessThanWellFounded, WFMin, Zenon
<1>2. \A y \in S : ~(y < x)
  BY <1>1, Zenon DEF OpToRel
<1>3. \A y \in S : x <= y
  BY <1>2
<1>4. QED
  BY <1>3

-----------------------------------------------------------------------------
(* The boxcar. After k turns of the loop the window has the newest pixels, *)
(* 2 * width of which the next turn keeps, and the first k pixels that     *)
(* have width neighbours on both sides are done.                           *)

First(spectrum, width) ==
  [window |-> [j \in 0 .. 2 * width |-> spectrum[j]], last |-> 2 * width, spectrum |-> spectrum]

\* What the loop computes in m turns.
Loop(turn, m, spectrum, width) ==
  turn = [k \in 0 .. m |-> IF k = 0 THEN First(spectrum, width)
                           ELSE Slide(2 * width + 1, turn[k - 1], width + k - 1)]

\* There is such a sequence of turns, of any length.
LEMMA LoopExists ==
  ASSUME NEW spectrum, NEW width \in Nat, NEW m \in Nat
  PROVE  \E turn : Loop(turn, m, spectrum, width)
<1> DEFINE S == {l \in Nat : ~\E turn : Loop(turn, l, spectrum, width)}
<1>1. SUFFICES ASSUME S # {} PROVE FALSE
  OBVIOUS
<1>2. PICK l \in S : \A y \in S : l <= y
  BY <1>1, LeastNumber
<1>3. CASE l = 0
  <2> DEFINE turn == [k \in 0 .. 0 |-> First(spectrum, width)]
  <2>1. \A k \in 0 .. 0 : k = 0
    OBVIOUS
  <2>2. Loop(turn, 0, spectrum, width)
    BY <2>1 DEF Loop
  <2>3. QED
    BY <1>2, <1>3, <2>2
<1>4. CASE l # 0
  <2>1. l - 1 \in Nat /\ l - 1 \notin S
    BY <1>2, <1>4
  <2>2. PICK old : Loop(old, l - 1, spectrum, width)
    BY <2>1
  <2> DEFINE turn == [k \in 0 .. l |-> IF k < l THEN old[k]
                                       ELSE Slide(2 * width + 1, old[l - 1], width + l - 1)]
  <2>3. \A k \in 0 .. l - 1 : old[k] = IF k = 0 THEN First(spectrum, width)
                                       ELSE Slide(2 * width + 1, old[k - 1], width + k - 1)
    BY <2>2 DEF Loop
  <2>4. \A k \in 0 .. l : turn[k] = IF k = 0 THEN First(spectrum, width)
                                    ELSE Slide(2 * width + 1, turn[k - 1], width + k - 1)
    <3>1. TAKE k \in 0 .. l
    <3>2. CASE k < l
      <4>1. k \in 0 .. l - 1 /\ turn[k] = old[k] /\ (k # 0 => turn[k - 1] = old[k - 1])
        BY <2>1, <3>2
      <4>2. QED
        BY <2>3, <4>1
    <3>3. CASE k = l
      <4>1. turn[k - 1] = old[l - 1] /\ turn[k] = Slide(2 * width + 1, old[l - 1], width + l - 1)
        BY <1>4, <2>1, <3>3
      <4>2. QED
        BY <1>4, <3>3, <4>1
    <3>4. QED
      BY <2>1, <3>2, <3>3
  <2>5. Loop(turn, l, spectrum, width)
    BY <2>4, Zenon DEF Loop
  <2>6. QED
    BY <1>2, <2>5
<1>5. QED
  BY <1>3, <1>4

LEMMA TurnsLoop ==
  ASSUME NEW spectrum, NEW width \in Nat, NEW n \in Nat, 2 * width <= n
  PROVE  Loop(Turns(spectrum, n, width), n - 2 * width, spectrum, width)
<1>1. n - 2 * width \in Nat
  OBVIOUS
<1>2. \E turn : Loop(turn, n - 2 * width, spectrum, width)
  BY <1>1, LoopExists
<1>3. Turns(spectrum, n, width) = CHOOSE turn : Loop(turn, n - 2 * width, spectrum, width)
  BY Zenon DEF Turns, Loop, First
<1>4. QED
  BY <1>2, <1>3, Zenon

Unit(n) == [i \in 0 .. n - 1 |-> {i}]

\* The pixels after k turns.
Partly(n, width, k) ==
  [i \in 0 .. n - 1 |-> IF i \in width .. width + k - 1 THEN i - width .. i + width ELSE {i}]

Sliding(n, width, k, s) ==
  /\ s.window = [j \in 0 .. 2 * width |-> s.window[j]]
  /\ \A x \in k .. k + 2 * width - 1 : s.window[x % (2 * width + 1)] = {x}
  /\ s.last = 2 * width + k
  /\ s.spectrum = Partly(n, width, k)

LEMMA FirstSliding ==
  ASSUME NEW n \in Nat, NEW width \in Nat, n > 2 * width
  PROVE  Sliding(n, width, 0, First(Unit(n), width))
<1> DEFINE s == First(Unit(n), width)
<1>1. s.window = [j \in 0 .. 2 * width |-> {j}] /\ s.last = 2 * width /\ s.spectrum = Unit(n)
  BY DEF First, Unit
<1> HIDE DEF s
<1>2. ASSUME NEW x \in 0 .. 2 * width - 1 PROVE s.window[x % (2 * width + 1)] = {x}
  <2>1. x % (2 * width + 1) = x
    <3>1. x = (2 * width + 1) * 0 + x /\ x \in 0 .. (2 * width + 1) - 1 /\ 2 * width + 1 \in Nat \ {0}
      OBVIOUS
    <3>2. QED
      BY <3>1, Remainder
  <2>2. QED
    BY <1>1, <2>1
<1>3. s.spectrum = Partly(n, width, 0)
  <2>1. \A i \in 0 .. n - 1 : i \notin width .. width + 0 - 1
    OBVIOUS
  <2>2. QED
    BY <1>1, <2>1 DEF Unit, Partly
<1>4. QED
  BY <1>1, <1>2, <1>3 DEF Sliding, s

\* One turn.
LEMMA TurnSlides ==
  ASSUME NEW n \in Nat, NEW width \in Nat, NEW k \in Nat, k < n - 2 * width,
         NEW s, Sliding(n, width, k, s)
  PROVE  Sliding(n, width, k + 1, Slide(2 * width + 1, s, width + k))
<1>0. PICK size : size = 2 * width + 1
  OBVIOUS
<1>1. size \in Nat \ {0} /\ s.last \in Nat /\ s.last = 2 * width + k /\ s.last % size \in 0 .. 2 * width
  <2>1. size \in Nat \ {0} /\ s.last \in Nat /\ s.last = 2 * width + k
    BY <1>0 DEF Sliding
  <2>2. QED
    BY <1>0, <2>1, Division
<1> DEFINE window == [s.window EXCEPT ![s.last % size] = s.spectrum[s.last]]
<1>2. s.spectrum[s.last] = {s.last}
  <2>1. s.last \in 0 .. n - 1 /\ s.last \notin width .. width + k - 1
    BY <1>1
  <2>2. QED
    BY <2>1 DEF Sliding, Partly
<1>3. /\ window = [j \in 0 .. 2 * width |-> window[j]]
      /\ window[s.last % size] = {s.last}
      /\ \A j \in 0 .. 2 * width : j # s.last % size => window[j] = s.window[j]
  BY <1>1, <1>2 DEF Sliding
<1> HIDE DEF window
<1>4. ASSUME NEW x \in k .. k + 2 * width PROVE window[x % size] = {x}
  <2>1. CASE x = s.last
    BY <1>3, <2>1
  <2>2. CASE x # s.last
    <3>1. x \in Nat /\ x < s.last /\ s.last < x + size /\ x \in k .. k + 2 * width - 1
      BY <1>0, <1>1, <2>2
    <3>2. x % size # s.last % size
      BY <1>1, <3>1, PlacesDiffer
    <3>3. x % size \in 0 .. 2 * width
      BY <1>0, <1>1, <3>1, Division
    <3>4. s.window[x % size] = {x}
      BY <1>0, <3>1 DEF Sliding
    <3>5. QED
      BY <1>3, <3>2, <3>3, <3>4
  <2>3. QED
    BY <2>1, <2>2
<1>5. UNION {window[j] : j \in 0 .. size - 1} = k .. k + 2 * width
  <2>1. \A j \in 0 .. size - 1 : \E x \in k .. k + 2 * width : window[j] = {x}
    <3>1. TAKE j \in 0 .. size - 1
    <3>2. PICK x \in k .. k + size - 1 : x % size = j
      BY <1>1, PlacesFilled
    <3>3. x \in k .. k + 2 * width
      BY <1>0
    <3>4. QED
      BY <1>4, <3>2, <3>3
  <2>2. \A x \in k .. k + 2 * width : \E j \in 0 .. size - 1 : window[j] = {x}
    <3>1. TAKE x \in k .. k + 2 * width
    <3>2. x % size \in 0 .. size - 1
      BY <1>1, Division
    <3>3. QED
      BY <1>4, <3>2
  <2>3. QED
    BY <2>1, <2>2
<1> DEFINE i == width + k
<1>6. [s.spectrum EXCEPT ![i] = UNION {window[j] : j \in 0 .. size - 1}] = Partly(n, width, k + 1)
  <2>1. i \in 0 .. n - 1 /\ k .. k + 2 * width = i - width .. i + width
    OBVIOUS
  <2>2. \A j \in 0 .. n - 1 : j \in width .. width + (k + 1) - 1 <=> j \in width .. width + k - 1 \/ j = i
    OBVIOUS
  <2> HIDE DEF i
  <2>3. QED
    BY <1>5, <2>1, <2>2 DEF Sliding, Partly
<1>7. Slide(size, s, i) = [window   |-> window,
                           last     |-> s.last + 1,
                           spectrum |-> Partly(n, width, k + 1)]
  BY <1>6, Zenon DEF Slide, window
<1>8. /\ s.last + 1 = 2 * width + (k + 1)
      /\ \A x \in k + 1 .. (k + 1) + 2 * width - 1 : x \in k .. k + 2 * width
  BY <1>1
<1>9. PICK t : t = Slide(size, s, i)
  OBVIOUS
<1>10. t.window = window /\ t.last = s.last + 1 /\ t.spectrum = Partly(n, width, k + 1)
  BY <1>7, <1>9
<1>11. t.window = [j \in 0 .. 2 * width |-> t.window[j]]
  BY <1>3, <1>10
<1>12. \A x \in k + 1 .. (k + 1) + 2 * width - 1 : t.window[x % (2 * width + 1)] = {x}
  BY <1>0, <1>4, <1>8, <1>10
<1>13. Sliding(n, width, k + 1, t)
  BY <1>8, <1>10, <1>11, <1>12 DEF Sliding
<1>14. QED
  BY <1>0, <1>9, <1>13

LEMMA BoxcarSmooths ==
  ASSUME NEW n \in Nat, NEW width \in Nat
  PROVE  ApplyBoxcar(Unit(n), n, width) = Smoothed(n, width)
<1>1. CASE width > 0 /\ n > 2 * width + 1
  <2> DEFINE m == n - 2 * width
  <2> DEFINE turn == Turns(Unit(n), n, width)
  <2>1. Loop(turn, m, Unit(n), width) /\ m \in Nat
    BY <1>1, TurnsLoop
  <2>2. \A k \in 0 .. m : turn[k] = IF k = 0 THEN First(Unit(n), width)
                                    ELSE Slide(2 * width + 1, turn[k - 1], width + k - 1)
    <3> HIDE DEF m, turn
    <3>1. QED
      BY <2>1 DEF Loop
  <2>3. Sliding(n, width, m, turn[m])
    <3> HIDE DEF turn
    <3> DEFINE S == {l \in 0 .. m : ~Sliding(n, width, l, turn[l])}
    <3>1. SUFFICES ASSUME S # {} PROVE FALSE
      BY <2>1
    <3>2. PICK l \in S : \A y \in S : l <= y
      <4>1. S \in SUBSET Nat
        OBVIOUS
      <4>2. QED
        BY <3>1, <4>1, LeastNumber
    <3>3. CASE l = 0
      <4>1. turn[0] = First(Unit(n), width)
        BY <2>1, <2>2
      <4>2. QED
        BY <1>1, <3>2, <3>3, <4>1, FirstSliding
    <3>4. CASE l # 0
      <4>1. l - 1 \in 0 .. m /\ l - 1 \notin S /\ l - 1 < n - 2 * width /\ l - 1 \in Nat
        BY <2>1, <3>2, <3>4
      <4>2. Sliding(n, width, l - 1, turn[l - 1])
        BY <4>1
      <4>3. turn[l] = Slide(2 * width + 1, turn[l - 1], width + (l - 1)) /\ (l - 1) + 1 = l
        <5>1. l \in 0 .. m /\ width + l - 1 = width + (l - 1)
          BY <3>2
        <5>2. QED
          BY <2>2, <3>4, <5>1
      <4>4. Sliding(n, width, l, turn[l])
        BY <4>1, <4>2, <4>3, TurnSlides
      <4>5. QED
        BY <3>2, <4>4
    <3>5. QED
      BY <3>3, <3>4
  <2>4. ApplyBoxcar(Unit(n), n, width) = Partly(n, width, m)
    BY <1>1, <2>3 DEF ApplyBoxcar, Sliding
  <2>5. \A i \in 0 .. n - 1 : i \in width .. width + m - 1 <=> i \in width .. n - width - 1
    OBVIOUS
  <2> HIDE DEF m, turn
  <2>6. Partly(n, width, m) = Smoothed(n, width)
    BY <1>1, <2>5 DEF Partly, Smoothed
  <2>7. QED
    BY <2>4, <2>6
<1>2. CASE width = 0
  <2>1. \A i \in 0 .. n - 1 : i - 0 .. i + 0 = {i}
    OBVIOUS
  <2>2. QED
    BY <1>2, <2>1 DEF ApplyBoxcar, Smoothed, Unit
<1>3. CASE ~(n > 2 * width + 1)
  BY <1>3 DEF ApplyBoxcar, Smoothed, Unit
<1>4. QED
  BY <1>1, <1>2, <1>3

\* Every pixel of as many as the feature reads comes from the acquisition.
LEMMA AcquiredSmoothed ==
  ASSUME SpectrometerTypeOK, NEW n \in Nat, n = Count(factor)
  PROVE  Acquired(n) = Smoothed(n, sts.boxcar)
<1>1. OneScan(n) = Unit(n)
  BY DEF OneScan, Unit
<1>2. sts.boxcar \in Nat
  BY DEF SpectrometerTypeOK
<1>3. QED
  BY <1>1, <1>2, BoxcarSmooths DEF Acquired, Averaged

-----------------------------------------------------------------------------
(* Spectra.                                                                *)

SpectraRight == SpectrumIsWhole /\ SmoothedRight

\* A response that has no spectrum.
LEMMA NoneReplied ==
  /\ \A to, code : Replied(to, code).spectrum = NoSpectrum
  /\ \A to, code, v : [Replied(to, code) EXCEPT !.value = v].spectrum = NoSpectrum
  BY DEF Replied

LEMMA SpectraKept ==
  ASSUME SpectraRight,
         UNCHANGED saved \/ saved'.failed,
         UNCHANGED reply \/ reply'.spectrum = NoSpectrum
  PROVE  SpectraRight'
  BY DEF SpectraRight, SpectrumIsWhole, SmoothedRight

LEMMA SpectrumReturned ==
  ASSUME IInv, SpectraRight, GetSpectrum
  PROVE  SpectraRight'
<1>1. UNCHANGED saved
  BY DEF GetSpectrum
<1>2. CASE reply' = Replied("spectrum", "UNABLE_TO_GET_SPECTRUM")
  BY <1>1, <1>2, NoneReplied, SpectraKept
<1>3. CASE /\ Readable
           /\ reply' = [Replied("spectrum", "SUCCESS") EXCEPT
                          !.factor = device.binning, !.boxcar = sts.boxcar,
                          !.spectrum = LET s == Acquired(Pixels)
                                       IN  [i \in 0 .. Count(sts.binning) - 1 |-> s[i]]]
  <2>1. /\ reply'.factor = device.binning /\ reply'.boxcar = sts.boxcar
        /\ reply'.spectrum = [i \in 0 .. Count(sts.binning) - 1 |-> Acquired(Pixels)[i]]
    BY <1>3 DEF Replied
  <2>2. device.binning = factor /\ sts.binning = factor
    BY <1>3 DEF Readable, IInv, SuccessIsInForce, CopiesAgree
  <2>3. DOMAIN reply'.spectrum = 0 .. Count(reply'.factor) - 1
    BY <2>1, <2>2
  <2>4. ASSUME factor = 0 PROVE reply'.spectrum = Smoothed(Pixels, reply'.boxcar)
    <3>1. Count(factor) = Pixels /\ Pixels \in Nat
      BY <2>4, CountFacts, PixelAssumption
    <3>2. Acquired(Pixels) = Smoothed(Pixels, sts.boxcar)
      BY <3>1, AcquiredSmoothed DEF IInv
    <3>3. QED
      BY <2>1, <2>2, <3>1, <3>2 DEF Smoothed
  <2>5. QED
    BY <1>1, <2>1, <2>2, <2>3, <2>4 DEF SpectraRight, SpectrumIsWhole, SmoothedRight
<1>4. QED
  BY <1>2, <1>3 DEF GetSpectrum

LEMMA SpectrumSaved ==
  ASSUME IInv, SpectraRight, SaveSequenceEntry
  PROVE  SpectraRight'
<1>1. UNCHANGED reply
  BY DEF SaveSequenceEntry
<1>2. CASE saved'.failed
  BY <1>1, <1>2, SpectraKept
<1>3. CASE Readable /\ saved' = Entry(FALSE, Acquired(Count(sts.binning)))
  <2>1. /\ saved'.factor = device.binning /\ saved'.boxcar = sts.boxcar
        /\ saved'.spectrum = Acquired(Count(sts.binning))
    BY <1>3 DEF Entry
  <2>2. device.binning = factor /\ sts.binning = factor /\ Count(factor) \in Nat
    BY <1>3, CountFacts DEF Readable, IInv, SuccessIsInForce, CopiesAgree, SpectrometerTypeOK
  <2>3. saved'.spectrum = Smoothed(Count(saved'.factor), saved'.boxcar)
    BY <2>1, <2>2, AcquiredSmoothed DEF IInv
  <2>4. DOMAIN saved'.spectrum = 0 .. Count(saved'.factor) - 1
    BY <2>3 DEF Smoothed
  <2>5. QED
    BY <1>1, <2>3, <2>4 DEF SpectraRight, SpectrumIsWhole, SmoothedRight
<1>4. QED
  BY <1>2, <1>3 DEF SaveSequenceEntry, Entry

LEMMA NextSpectra ==
  ASSUME IInv, SpectraRight, [SpectrometerNext]_vars
  PROVE  SpectraRight'
<1>1. CASE UNCHANGED vars
  BY <1>1, SpectraKept DEF vars
<1>2. ASSUME NEW t \in Times, SetIntegrationTime(t) PROVE SpectraRight'
  BY <1>2, NoneReplied, SpectraKept DEF SetIntegrationTime, Local
<1>3. CASE GetIntegrationTime
  BY <1>3, NoneReplied, SpectraKept DEF GetIntegrationTime, Local
<1>4. ASSUME NEW f \in 0 .. MaxFactor + 1, SetPixelBinningFactor(f) PROVE SpectraRight'
  BY <1>4, NoneReplied, SpectraKept DEF SetPixelBinningFactor
<1>5. ASSUME NEW f \in 0 .. MaxFactor + 1, SetDefaultPixelBinningFactor(f) PROVE SpectraRight'
  BY <1>5, NoneReplied, SpectraKept DEF SetDefaultPixelBinningFactor
<1>6. CASE GetPixelBinningFactor
  BY <1>6, NoneReplied, SpectraKept DEF GetPixelBinningFactor
<1>7. CASE GetWavelengths
  BY <1>7, NoneReplied, SpectraKept DEF GetWavelengths
<1>8. CASE GetSpectrum
  BY <1>8, SpectrumReturned
<1>9. CASE SaveSequenceEntry
  BY <1>9, SpectrumSaved
<1>10. ASSUME NEW w \in Widths, SetBoxcarWidth(w) PROVE SpectraRight'
  BY <1>10, NoneReplied, SpectraKept DEF SetBoxcarWidth, Local
<1>11. ASSUME NEW n \in Scans, SetScansToAverage(n) PROVE SpectraRight'
  BY <1>11, NoneReplied, SpectraKept DEF SetScansToAverage, Local
<1>12. ASSUME NEW to \in {"time", "binning"}, Unparsable(to) PROVE SpectraRight'
  BY <1>12, NoneReplied, SpectraKept DEF Unparsable, Local
<1>13. CASE GetCurrentStatus
  BY <1>13, NoneReplied, SpectraKept DEF GetCurrentStatus, Local
<1>14. ASSUME NEW power \in BOOLEAN, Restart(power) PROVE SpectraRight'
  BY <1>14, NoneReplied, SpectraKept DEF Restart, NoEntry
<1>15. QED
  BY <1>1, <1>2, <1>3, <1>4, <1>5, <1>6, <1>7, <1>8, <1>9, <1>10, <1>11, <1>12, <1>13, <1>14
  DEF SpectrometerNext

LEMMA SpectraInductive == SpectrometerSpec => []SpectraRight
<1>1. SpectrometerInit => SpectraRight
  BY NoneReplied DEF SpectrometerInit, NoEntry, SpectraRight, SpectrumIsWhole, SmoothedRight
<1>2. IInv /\ SpectraRight /\ [SpectrometerNext]_vars => SpectraRight'
  BY NextSpectra
<1>3. QED
  BY <1>1, <1>2, Inductive, PTL DEF SpectrometerSpec

\* A spectrum returned, or saved as acquired, has as many pixels as the device
\* sent, whatever exchanges failed and however often the daemon was started
\* since the binning was changed.
THEOREM SpectraWhole == SpectrometerSpec => []SpectrumIsWhole
<1>1. SpectraRight => SpectrumIsWhole
  BY DEF SpectraRight
<1>2. QED
  BY <1>1, SpectraInductive, PTL

\* The window that slides over a spectrum, and is refreshed from one that is
\* overwritten behind it, computes the mean of each pixel and its neighbours,
\* for any width and number of pixels (Spectrometer.cpp 338-357).
THEOREM BoxcarRight == SpectrometerSpec => []SmoothedRight
<1>1. SpectraRight => SmoothedRight
  BY DEF SpectraRight
<1>2. QED
  BY <1>1, SpectraInductive, PTL
=============================================================================
