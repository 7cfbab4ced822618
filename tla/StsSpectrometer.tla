-------------------------- MODULE StsSpectrometer --------------------------
(***************************************************************************)
(* The commands of the daemon's Spectrometer, and the save of an entry of  *)
(* a sequence: one after the other on its active object's thread.  Each    *)
(* setting has up to three copies: the device's, the one of the library's  *)
(* STSSpectrometerFeature, which sizes the readout, and the daemon's.      *)
(*                                                                         *)
(* An exchange with the device can be refused (NACK), fail before it got   *)
(* there, or fail after the device has acted on it; ObpTransaction has the *)
(* exchanges themselves.  Once a reply was not read to its end, the calls  *)
(* go on and read what is left: until a power cycle none ends well here.   *)
(* (That one takes an older reply for its own is ObpTransaction's.)        *)
(* The daemon can be started again, with or without a power cycle.         *)
(*                                                                         *)
(* A pixel's value is the set of device pixels it was computed from in the *)
(* acquisition at hand; Old stands for whatever else is in the memory it   *)
(* came from.  Arrays start at 0, as in the code.                          *)
(***************************************************************************)
EXTENDS Integers, Sequences, FiniteSets

CONSTANTS Times,           \* integration times that are asked for
          MinTime, MaxTime,
          ConfiguredTime,  \* integration time of the configuration
          PowerOnTime,     \* integration time of a device just powered on
          Pixels,          \* unbinned pixels
          MaxFactor,       \* largest pixel binning factor
          Widths,          \* boxcar widths that are asked for
          Scans,           \* scans to average that are asked for
          MaxFaults,       \* bound: exchanges that do not go well
          MaxRestarts      \* bound: starts of the daemon after the first

ASSUME TimeAssumption ==
  /\ MinTime \in Nat /\ MaxTime \in Nat /\ MinTime <= MaxTime
  /\ Times \subseteq Int /\ ConfiguredTime \in Int /\ PowerOnTime \in Nat
ASSUME PixelAssumption ==
  Pixels \in Nat /\ MaxFactor \in Nat /\ Pixels % 2 ^ MaxFactor = 0
ASSUME ProcessingAssumption == Widths \subseteq Nat /\ Scans \subseteq Nat
ASSUME SpectrometerBoundsAssumption == MaxFaults \in Nat /\ MaxRestarts \in Nat

VARIABLES
  device,    \* the device: integration time, binning factor, default factor
  factor,    \* binningFactor of the feature
  sts,       \* the daemon's members
  status,    \* m_resultCode
  reply,     \* the last response
  saved,     \* the last entry saved
  told,      \* the code the last SET_PIXEL_BINNING_FACTOR was answered with
  inStep,    \* the device's replies are read from their start
  faults,
  restarts

vars == <<device, factor, sts, status, reply, saved, told, inStep, faults, restarts>>

Factors == 0 .. MaxFactor
Old     == -1
Garbled == -1
NotANumber == -1
Codes   == {"SUCCESS", "SPECTROMETER_ERROR", "INVALID_INTEGRATION_TIME",
            "INVALID_PIXEL_BINNING_FACTOR", "UNABLE_TO_GET_SPECTRUM",
            "UNABLE_TO_GET_WAVELENGTHS", "UNABLE_TO_PARSE_PARAMETER"}

\* m_pixelCount >> factor.
Count(f) == Pixels \div 2 ^ f

NoSpectrum == << >>
NoEntry == [failed |-> TRUE, spectrum |-> NoSpectrum, factor |-> 0, waves |-> Garbled,
            boxcar |-> 0, time |-> 0]

SpectrometerTypeOK ==
  /\ device \in [time : Nat, binning : Factors, default : Factors]
  /\ factor \in Factors
  /\ sts \in [time : MinTime .. MaxTime, binning : Factors,
              waves : Factors \cup {Garbled}, boxcar : Nat, scans : Nat]
  /\ status \in Codes
  /\ reply.code \in Codes
  /\ saved.factor \in Factors /\ saved.waves \in Factors \cup {Garbled}
  /\ told \in Codes \cup {"none"}
  /\ inStep \in BOOLEAN
  /\ faults \in 0 .. MaxFaults /\ restarts \in 0 .. MaxRestarts

-----------------------------------------------------------------------------
(* Exchanges with the device.                                              *)

Writes == {"ok", "refused", "undelivered", "unconfirmed"}
Reads  == {"ok", "failed"}

Fails == faults < MaxFaults /\ faults' = faults + 1

\* How an exchange ended, and whether that counts as a fault: what fails for
\* want of step does not.
Ends(o) ==
  IF o = "ok" THEN inStep /\ UNCHANGED faults
  ELSE IF inStep THEN Fails ELSE UNCHANGED faults

Applied(o) == o \in {"ok", "unconfirmed"}

Replied(to, code) ==
  [to |-> to, code |-> code, value |-> 0, factor |-> 0, boxcar |-> 0, spectrum |-> NoSpectrum]

\* What a command that talks to nobody leaves alone.
Local == UNCHANGED <<device, factor, inStep, faults, restarts, saved, told>>

-----------------------------------------------------------------------------
(* Integration time.                                                       *)

\* The configured time, brought into the range.
Clamp(t) == IF t < MinTime THEN MinTime ELSE IF t > MaxTime THEN MaxTime ELSE t

SetIntegrationTime(t) ==
  \/ /\ t < MinTime \/ t > MaxTime
     /\ reply' = Replied("time", "INVALID_INTEGRATION_TIME")
     /\ Local
     /\ UNCHANGED <<sts, status>>
  \/ \E o \in Writes :
       /\ t \in MinTime .. MaxTime
       /\ Ends(o)
       /\ sts' = [sts EXCEPT !.time = t]
       /\ device' = IF Applied(o) THEN [device EXCEPT !.time = t] ELSE device
       \* OBPSpectrometerProtocol does not look at whether it was acknowledged.
       /\ reply' = Replied("time", IF o \in {"ok", "refused"} THEN "SUCCESS"
                                                             ELSE "SPECTROMETER_ERROR")
       /\ UNCHANGED <<factor, status, saved, told, inStep, restarts>>

GetIntegrationTime ==
  /\ reply' = [Replied("time", "SUCCESS") EXCEPT !.value = sts.time]
  /\ Local
  /\ UNCHANGED <<sts, status>>

-----------------------------------------------------------------------------
(* Pixel binning.                                                          *)

\* Mutant: the factor is not compared with the maximum.
FeatureSets_Unchecked(f, o) == o = "ok"

\* STSPixelBinningFeature::setPixelBinningFactor: the maximum is read, the
\* factor written, then the readout sized.  TRUE when it does not throw.
FeatureSets(f, o) == f <= MaxFactor /\ o = "ok"

\* The wavelengths in the vector after it was resized for factor f.
Resized(f) == IF f = sts.binning THEN sts.waves ELSE Garbled

\* The daemon's members once the factor was set: the wavelengths are read.
DaemonBinning(f, r) ==
  [sts EXCEPT !.binning = f, !.waves = IF r = "ok" THEN f ELSE Resized(f)]

\* Mutant: that the wavelengths could not be read is not reported.
BinningCode_Silent(done, r) ==
  IF done THEN "SUCCESS" ELSE "INVALID_PIXEL_BINNING_FACTOR"

BinningCode(done, r) ==
  IF ~done THEN "INVALID_PIXEL_BINNING_FACTOR"
  ELSE IF r = "ok" THEN "SUCCESS" ELSE "SPECTROMETER_ERROR"

SetPixelBinningFactor(f) ==
  /\ \E o \in Writes, r \in Reads :
       /\ o = "ok" \/ r = "ok"    \* the wavelengths are only read if all went well
       /\ o = "ok" => inStep
       /\ f > MaxFactor => o \in {"ok", "undelivered"} /\ r = "ok"
       /\ Ends(IF o = "ok" THEN r ELSE o)
       /\ device' = IF f <= MaxFactor /\ Applied(o) THEN [device EXCEPT !.binning = f]
                                                    ELSE device
       /\ factor' = IF FeatureSets(f, o) THEN f ELSE factor
       /\ sts' = IF FeatureSets(f, o) THEN DaemonBinning(f, r) ELSE sts
       /\ told' = BinningCode(FeatureSets(f, o), r)
       /\ reply' = Replied("binning", told')
  /\ UNCHANGED <<status, saved, inStep, restarts>>

\* A method of the class that the map of commands does not lead to: it stands
\* for whatever program has set the default of the device.
SetDefaultPixelBinningFactor(f) ==
  /\ \E o \in Writes :
       /\ f > MaxFactor => o \in {"ok", "undelivered"}
       /\ Ends(o)
       /\ device' = IF f <= MaxFactor /\ Applied(o) THEN [device EXCEPT !.default = f]
                                                    ELSE device
       /\ reply' = Replied("default", IF FeatureSets(f, o) THEN "SUCCESS"
                                      ELSE "INVALID_PIXEL_BINNING_FACTOR")
  /\ UNCHANGED <<factor, sts, status, saved, told, inStep, restarts>>

\* GetPixelBinningFactor asks the device.  lexical_cast makes the character
\* with that code of an unsigned char, which for no factor is a digit.
GetPixelBinningFactor ==
  /\ \E r \in Reads :
       /\ Ends(r)
       /\ reply' = IF r = "ok" THEN [Replied("binning", "SUCCESS") EXCEPT !.value = NotANumber]
                   ELSE Replied("binning", "INVALID_PIXEL_BINNING_FACTOR")
  /\ UNCHANGED <<device, factor, sts, status, saved, told, inStep, restarts>>

GetWavelengths ==
  /\ \E r \in Reads :
       /\ Ends(r)
       /\ sts' = IF r = "ok" THEN [sts EXCEPT !.waves = sts.binning] ELSE sts
       /\ reply' = Replied("wavelengths", IF r = "ok" THEN "SUCCESS"
                                          ELSE "UNABLE_TO_GET_WAVELENGTHS")
  /\ UNCHANGED <<device, factor, status, saved, told, inStep, restarts>>

-----------------------------------------------------------------------------
(* A spectrum.                                                             *)

\* The vector after one scan was read into it: the feature's pixels, and as
\* many of the daemon's as there are.
OneScan(n) == [i \in 0 .. n - 1 |-> IF i < Count(factor) THEN {i} ELSE {Old}]

Zeros(n) == [i \in 0 .. n - 1 |-> {Old}]

\* The sum of the scans, divided: what a scan did not reach was never summed.
Averaged(n) == OneScan(n)

\* Mutant: the window is refreshed from pixels that were smoothed already.
Slide_InPlace(size, s, i) ==
  LET half   == (size - 1) \div 2
      window == [j \in 0 .. size - 1 |-> s.spectrum[i - half + j]]
  IN  [window   |-> window,
       last     |-> s.last + 1,
       spectrum |-> [s.spectrum EXCEPT ![i] = UNION {window[j] : j \in 0 .. size - 1}]]

\* One turn of the loop: the newest pixel replaces the oldest of the window,
\* and pixel i becomes the mean of the window.
Slide(size, s, i) ==
  LET window == [s.window EXCEPT ![s.last % size] = s.spectrum[s.last]]
  IN  [window   |-> window,
       last     |-> s.last + 1,
       spectrum |-> [s.spectrum EXCEPT ![i] = UNION {window[j] : j \in 0 .. size - 1}]]

\* The window, the end of it and the spectrum after each turn.
Turns(spectrum, n, width) ==
  LET first == [window |-> [j \in 0 .. 2 * width |-> spectrum[j]], last |-> 2 * width,
                spectrum |-> spectrum]
      turn[k \in 0 .. n - 2 * width] ==
        IF k = 0 THEN first ELSE Slide(2 * width + 1, turn[k - 1], width + k - 1)
  IN  turn

ApplyBoxcar(spectrum, n, width) ==
  IF width > 0 /\ n > 2 * width + 1 THEN Turns(spectrum, n, width)[n - 2 * width].spectrum
                                    ELSE spectrum

\* Mutant: a reply with fewer pixels than were asked for is taken.
Readable_Short == device.binning >= factor

\* A reply with fewer pixels than the feature expects is refused, and one
\* with more than fit the readout does not parse.
Readable == device.binning = factor

\* GetSpectrum(vector, error) on a vector of n pixels.
Acquired(n) ==
  ApplyBoxcar(IF sts.scans < 2 THEN OneScan(n) ELSE Averaged(n), n, sts.boxcar)

\* After a reply that was not read to its end nothing is in step any more.
StaysInStep == inStep' = (inStep /\ device.binning >= factor)

\* The command: m_spectrum always has the unbinned number of pixels, of which
\* the binned number is returned.
GetSpectrum ==
  /\ \E r \in Reads :
       /\ Ends(r)
       /\ reply' = IF r = "ok" /\ Readable
                   THEN [Replied("spectrum", "SUCCESS") EXCEPT
                           !.factor = device.binning, !.boxcar = sts.boxcar,
                           !.spectrum = LET s == Acquired(Pixels)
                                        IN  [i \in 0 .. Count(sts.binning) - 1 |-> s[i]]]
                   ELSE Replied("spectrum", "UNABLE_TO_GET_SPECTRUM")
  /\ StaysInStep
  /\ UNCHANGED <<device, factor, sts, status, saved, told, restarts>>

\* The file gets the settings the daemon has, and the wavelengths it read last.
Entry(failed, spectrum) ==
  [failed |-> failed, spectrum |-> spectrum, factor |-> device.binning,
   waves |-> sts.waves, boxcar |-> sts.boxcar, time |-> sts.time]

\* SaveSequenceEntry and SaveSpectrum: a vector of the binned number of
\* pixels.  Whether the acquisition failed is not looked at; what is saved
\* then is the zeros the vector was made with, or the last scan that went well.
SaveSequenceEntry ==
  /\ \E r \in Reads, zeros \in BOOLEAN :
       /\ Ends(r)
       /\ sts.scans < 2 \/ ~Readable \/ ~inStep => zeros
       /\ saved' = IF r = "ok" /\ Readable
                   THEN Entry(FALSE, Acquired(Count(sts.binning)))
                   ELSE Entry(TRUE, IF zeros THEN Zeros(Count(sts.binning))
                                             ELSE OneScan(Count(sts.binning)))
  /\ StaysInStep
  /\ UNCHANGED <<device, factor, sts, status, reply, told, restarts>>

-----------------------------------------------------------------------------
(* The other commands.                                                     *)

\* Smoothing and averaging are done here, not by the device.
SetBoxcarWidth(w) ==
  /\ sts' = [sts EXCEPT !.boxcar = w]
  /\ reply' = Replied("other", "SUCCESS")
  /\ Local
  /\ UNCHANGED status

SetScansToAverage(n) ==
  /\ sts' = [sts EXCEPT !.scans = n]
  /\ reply' = Replied("other", "SUCCESS")
  /\ Local
  /\ UNCHANGED status

\* Arguments that are not a number.
Unparsable(to) ==
  /\ reply' = Replied(to, IF to = "binning" THEN "INVALID_PIXEL_BINNING_FACTOR"
                          ELSE "UNABLE_TO_PARSE_PARAMETER")
  /\ Local
  /\ UNCHANGED <<sts, status>>

GetCurrentStatus ==
  /\ reply' = Replied("other", status)
  /\ status' = "SUCCESS"
  /\ Local
  /\ UNCHANGED sts

-----------------------------------------------------------------------------
(* Starting.                                                               *)

\* InitializeParameters: the pixel count is the feature's, which has never
\* asked the device for its factor; errors are not looked at.
Initialized(r) ==
  [time |-> Clamp(ConfiguredTime), binning |-> 0, waves |-> IF r = "ok" THEN 0 ELSE Garbled,
   boxcar |-> 0, scans |-> 1]

SpectrometerInit ==
  /\ device = [time |-> Clamp(ConfiguredTime), binning |-> 0, default |-> 0]
  /\ factor = 0
  /\ sts = Initialized("ok")
  /\ status \in {"SUCCESS", "SPECTROMETER_ERROR"}    \* never initialised
  /\ reply = Replied("none", "SUCCESS")
  /\ saved = NoEntry
  /\ told = "none"
  /\ inStep = TRUE
  /\ faults = 0
  /\ restarts = 0

PoweredOn(power) ==
  IF power THEN [device EXCEPT !.time = PowerOnTime, !.binning = device.default] ELSE device

\* The daemon is started again.
Restart(power) ==
  /\ restarts < MaxRestarts
  /\ restarts' = restarts + 1
  /\ inStep' = (inStep \/ power)
  /\ \E o \in Writes, r \in Reads :
       /\ \/ inStep' /\ o = "ok" /\ r = "ok" /\ UNCHANGED faults
          \/ inStep' /\ (o = "ok" <=> r # "ok") /\ Fails
          \/ ~inStep' /\ o # "ok" /\ r # "ok" /\ UNCHANGED faults
       /\ device' = IF Applied(o) THEN [PoweredOn(power) EXCEPT !.time = Clamp(ConfiguredTime)]
                                  ELSE PoweredOn(power)
       /\ sts' = Initialized(r)
  /\ factor' = 0
  /\ status' \in {"SUCCESS", "SPECTROMETER_ERROR"}
  /\ reply' = Replied("none", "SUCCESS")
  /\ saved' = NoEntry
  /\ told' = "none"

-----------------------------------------------------------------------------
SpectrometerNext ==
  \/ \E t \in Times : SetIntegrationTime(t)
  \/ GetIntegrationTime
  \/ \E f \in 0 .. MaxFactor + 1 : SetPixelBinningFactor(f) \/ SetDefaultPixelBinningFactor(f)
  \/ GetPixelBinningFactor \/ GetWavelengths
  \/ GetSpectrum \/ SaveSequenceEntry
  \/ \E w \in Widths : SetBoxcarWidth(w)
  \/ \E n \in Scans : SetScansToAverage(n)
  \/ \E to \in {"time", "binning"} : Unparsable(to)
  \/ GetCurrentStatus
  \/ \E power \in BOOLEAN : Restart(power)

SpectrometerSpec == SpectrometerInit /\ [][SpectrometerNext]_vars
-----------------------------------------------------------------------------
(* Properties.                                                             *)

\* While every exchange has gone well the device has the settings the daemon
\* answers with; the binning only until the daemon is started again, which
\* does not ask the device for its factor.
DeviceAgrees ==
  faults = 0 => /\ device.time = sts.time
                /\ restarts = 0 => device.binning = factor

\* An integration time that was answered with success is the device's.  The
\* code does not keep this when the device refuses it (OBPSpectrometerProtocol
\* ignores the result of the command), so no run checks it.
AnsweredTimeIsSet ==
  reply.to = "time" /\ reply.code = "SUCCESS" => device.time = sts.time

\* The daemon and the library never differ on the binning, whatever part of a
\* change fails: the vectors and the readout are sized alike.
CopiesAgree == sts.binning = factor

\* A change of the binning that was answered with success is in force in the
\* device, the library and the daemon, the wavelengths included, until the
\* next one is asked for; and one that failed part way leaves the library and
\* the daemon agreed (Spectrometer.cpp 589-629, STSPixelBinningFeature.cpp 54-90).
SuccessIsInForce ==
  /\ CopiesAgree
  /\ told = "SUCCESS" => device.binning = factor /\ sts.waves = factor

\* A spectrum that is returned, or saved as acquired, has as many pixels as
\* the device sent, however the copies of the binning have come to differ.
SpectrumIsWhole ==
  /\ reply.spectrum # NoSpectrum =>
       DOMAIN reply.spectrum = 0 .. Count(reply.factor) - 1
  /\ ~saved.failed => DOMAIN saved.spectrum = 0 .. Count(saved.factor) - 1

\* Each pixel of n is the mean of itself and width pixels on either side;
\* pixels without as many neighbours are left alone.
Smoothed(n, width) ==
  [i \in 0 .. n - 1 |->
     IF n > 2 * width + 1 /\ i \in width .. n - width - 1 THEN i - width .. i + width ELSE {i}]

\* The sliding window computes the boxcar of the acquisition at hand, in what
\* is saved and in what is returned without binning.
SmoothedRight ==
  /\ ~saved.failed =>
       saved.spectrum = Smoothed(Count(saved.factor), saved.boxcar)
  /\ reply.spectrum # NoSpectrum /\ reply.factor = 0 =>
       reply.spectrum = Smoothed(Pixels, reply.boxcar)

\* A spectrum that is returned is that of the acquisition at hand
\* (Spectrometer.h 194: "Get the currently acquired spectrum").
SpectrumIsCurrent ==
  \A i \in DOMAIN reply.spectrum : Old \notin reply.spectrum[i]
=============================================================================
