------------------------- MODULE StsSequenceProofs -------------------------
(***************************************************************************)
(* Proofs about the sequence of acquisitions, for every set of clients,    *)
(* every set of maxima, every capacity of the worker's queue and every     *)
(* bound on the requests.                                                  *)
(***************************************************************************)
EXTENDS StsSequence, SequenceTheorems, TLAPS

USE DEF seqVars, fileVars, ioVars, workVars, history

-----------------------------------------------------------------------------
(* Types.                                                                  *)

\* A queue of handlers stays one when its head is taken.
LEMMA TailType ==
  ASSUME NEW S, NEW q \in Seq(S), q # << >>
  PROVE  Head(q) \in S /\ Tail(q) \in Seq(S)
  OBVIOUS

\* A completion that is posted is a handler, and those already posted stay
\* handlers when their timer is destroyed.
LEMMA PostType ==
  ASSUME NEW q \in Seq(Handler)
  PROVE  PostAborted(q) \in Seq(Handler) /\ PostDestroyed(q) \in Seq(Handler)
<1>1. Tick("aborted") \in Handler /\ Tick("dangling") \in Handler
  BY DEF Tick, Handler, Ticks
<1>2. PostAborted(q) \in Seq(Handler)
  BY <1>1 DEF PostAborted
<1>3. QED
  BY <1>1, <1>2 DEF PostDestroyed

\* What Submit puts in the worker's queue is a job.
LEMMA JobType ==
  ASSUME ioh \in Handler \cup {NoHandler}
  PROVE  (IF ioh.op = "save" THEN ioh ELSE EntryJob) \in Job
  BY DEF Handler, NoHandler, EntryJob, Job, Commands, Ticks

LEMMA MaximumNat == \A m \in MaxValues : m \in Nat
  BY MaxValuesAssumption

LEMMA RequestsNat == Requests \in Nat
  BY BoundsAssumption

LEMMA CapacityNat == Capacity \in Nat
  BY BoundsAssumption

LEMMA InitType == Init => TypeOK
<1> SUFFICES ASSUME Init PROVE TypeOK
  OBVIOUS
<1>1. ioq \in Seq(Handler) /\ jobs \in Seq(Job) /\ Len(jobs) <= Capacity
  BY CapacityNat DEF Init
<1>2. m_running \in BOOLEAN
  BY Zenon DEF Init
<1>3. m_maxAcquisitions \in MaxValues /\ limit \in Nat
  BY MaximumNat DEF Init
<1>4. budget \in 0 .. Requests
  BY RequestsNat DEF Init
<1>5. sent \in [Clients -> Commands \cup {"none"}]
  BY DEF Init
<1>6. QED
  BY <1>1, <1>2, <1>3, <1>4, <1>5 DEF Init, TypeOK, States

LEMMA NextType == TypeOK /\ [Next]_vars => TypeOK'
<1> SUFFICES ASSUME TypeOK, [Next]_vars PROVE TypeOK'
  OBVIOUS
<1> USE DEF TypeOK
<1>1. CASE UNCHANGED vars
  BY <1>1 DEF vars
<1>2. CASE Next
  <2>1. ASSUME NEW c \in Clients, NEW op \in Commands, Request(c, op) PROVE TypeOK'
    BY <2>1, RequestsNat DEF Request, Handler
  <2>2. CASE Expire
    BY <2>2 DEF Expire, Handler, Tick, Ticks
  <2>3. ASSUME NEW m \in MaxValues, SetMaximumAcquisitions(m) PROVE TypeOK'
    BY <2>3, TailType, MaximumNat DEF SetMaximumAcquisitions, Dispatch, DispatchDone, Respond, Looser
  <2>4. ASSUME NEW b \in BOOLEAN, SetFileSaveMode(b) PROVE TypeOK'
    BY <2>4, TailType DEF SetFileSaveMode, Dispatch, DispatchDone, Respond, Saving
  <2>5. CASE StartRefused
    BY <2>5, TailType DEF StartRefused, Dispatch, DispatchDone, Respond
  <2>6. CASE StartSequence
    <3>1. Head(ioq) \in Handler /\ PostDestroyed(Tail(ioq)) \in Seq(Handler)
      BY <2>6, TailType, PostType DEF StartSequence, Dispatch
    <3>2. QED
      BY <2>6, <3>1 DEF StartSequence, Enter
  <2>7. CASE StartState
    BY <2>7 DEF States, StartState
  <2>8. CASE StartCount
    BY <2>8, MaximumNat DEF StartCount
  <2>9. CASE StartRunning
    BY <2>9 DEF StartRunning
  <2>10. CASE StartOpen
    BY <2>10 DEF StartOpen, Opened
  <2>11. CASE StartWait
    BY <2>11 DEF StartWait, Leave, Respond
  <2>12. CASE PauseSequence
    BY <2>12, TailType DEF States, PauseSequence, Dispatch, Enter
  <2>13. CASE PauseCancel
    BY <2>13, PostType DEF PauseCancel, Leave, Respond
  <2>14. CASE ResumeSequence
    BY <2>14, TailType DEF States, ResumeSequence, Dispatch, Enter
  <2>15. CASE ResumeWait
    BY <2>15, PostType DEF ResumeWait, Leave, Respond
  <2>16. CASE StopSequence
    <3>1. Head(ioq) \in Handler /\ PostAborted(Tail(ioq)) \in Seq(Handler)
      BY <2>16, TailType, PostType DEF StopSequence, Dispatch
    <3>2. QED
      BY <2>16, <3>1 DEF StopSequence, Enter
  <2>17. CASE StopClose
    BY <2>17 DEF StopClose
  <2>18. CASE StopRunning
    <3>1. m_running' \in BOOLEAN
      BY <2>18, Zenon DEF StopRunning
    <3>2. QED
      BY <2>18, <3>1 DEF StopRunning
  <2>19. CASE StopState
    BY <2>19 DEF States, StopState, Leave, Respond
  <2>20. CASE AcceptSave
    BY <2>20, TailType DEF AcceptSave, Dispatch, Enter
  <2>21. CASE Submit
    <3>1. jobs' \in Seq(Job) /\ Len(jobs') <= Capacity
      BY <2>21, JobType, CapacityNat DEF Submit
    <3>2. QED
      BY <2>21, <3>1 DEF Submit
  <2>22. CASE TickIgnored
    BY <2>22, TailType DEF TickIgnored, Dispatch, DispatchDone, Respond
  <2>23. CASE GetSpectrum
    <3>1. Head(ioq) \in Handler /\ Tail(ioq) \in Seq(Handler)
      BY <2>23, TailType DEF GetSpectrum, Dispatch
    <3>2. QED
      BY <2>23, <3>1 DEF GetSpectrum, Enter
  <2>24. CASE GetSpectrumDangling
    BY <2>24 DEF GetSpectrumDangling
  <2>25. CASE Take
    <3>1. jobs' \in Seq(Job) /\ Len(jobs') <= Capacity
      BY <2>25, CapacityNat DEF Take
    <3>2. Head(jobs) \in Job
      BY <2>25, TailType DEF Take
    <3>3. Head(jobs).op \in {"entry", "save"}
      BY <3>2 DEF Job
    <3>4. QED
      BY <2>25, <3>1, <3>2, <3>3 DEF Take
  <2>26. CASE SaveSpectrum
    BY <2>26 DEF SaveSpectrum, Respond
  <2>27. CASE SaveSequenceEntry
    BY <2>27 DEF SaveSequenceEntry
  <2>28. CASE OnAcquisition
    BY <2>28 DEF OnAcquisition
  <2>29. CASE CountLoad
    BY <2>29 DEF CountLoad
  <2>30. CASE CountStore
    BY <2>30 DEF CountStore
  <2>31. CASE Check
    BY <2>31 DEF Check
  <2>32. CASE WorkerTimer
    BY <2>32 DEF WorkerTimer
  <2>33. CASE WorkerCancel
    BY <2>33, PostType DEF WorkerCancel
  <2>34. CASE WorkerClose
    BY <2>34 DEF WorkerClose
  <2>35. CASE WorkerRunning
    <3>1. m_running' \in BOOLEAN
      BY <2>35, Zenon DEF WorkerRunning
    <3>2. QED
      BY <2>35, <3>1 DEF WorkerRunning
  <2>36. CASE WorkerState
    BY <2>36 DEF States, WorkerState
  <2>37. CASE Rearm
    BY <2>37, PostType DEF Rearm
  <2>38. CASE TestMode \/ TestModeAgain
    BY <2>38 DEF TestMode, TestModeAgain, Saves
  <2>39. CASE OpenSequenceNumber \/ CloseSequenceNumber
    BY <2>39 DEF OpenSequenceNumber, CloseSequenceNumber, Saves, Opened
  <2>40. CASE SaveToFile
    BY <2>40 DEF SaveToFile, Saves
  <2>41. CASE WorkerMode
    BY <2>41 DEF WorkerMode
  <2>42. QED
    BY <1>2, <2>1, <2>2, <2>3, <2>4, <2>5, <2>6, <2>7, <2>8, <2>9, <2>10,
       <2>11, <2>12, <2>13, <2>14, <2>15, <2>16, <2>17, <2>18, <2>19,
       <2>20, <2>21, <2>22, <2>23, <2>24, <2>25, <2>26, <2>27, <2>28,
       <2>29, <2>30, <2>31, <2>32, <2>33, <2>34, <2>35, <2>36, <2>37,
       <2>38, <2>39, <2>40, <2>41
    DEF Next, IoStep, WorkerStep
<1>3. QED
  BY <1>1, <1>2

\* Every variable keeps its type, and the worker's queue its capacity,
\* whatever the clients send.
THEOREM TypeCorrect == Spec => []TypeOK
<1>1. Init => TypeOK
  BY InitType
<1>2. TypeOK /\ [Next]_vars => TypeOK'
  BY NextType
<1>3. QED
  BY <1>1, <1>2, PTL DEF Spec

-----------------------------------------------------------------------------
(* The acquisitions of one sequence: how many are saved, and under which   *)
(* numbers. Between the test against the maximum and the store of the new  *)
(* count the io thread may reset both the count and the two histories, so  *)
(* what relates them depends on where the worker is.                       *)

\* The maximum in force is never looser than the loosest one since the reset.
LimitCovers == limit # 0 => m_maxAcquisitions # 0 /\ m_maxAcquisitions <= limit

\* The count the next test or increment starts from.
Numbered == {"mode", "open", "write"}
Counted == CASE wpc = "store" -> wcount + 1
             [] wpc \in Numbered \cup {"retest", "close", "load"} -> m_acquisitionCount + 1
             [] OTHER -> m_acquisitionCount

\* No acquisition is saved, or has its number and waits to be saved, that is
\* not or will not be counted: so the number of the next one is new.
CountCovers == /\ saved <= Counted
               /\ wpc \in Numbered => saved + 1 <= Counted
               /\ last < Counted

\* An acquisition that passed the test fits, even if a reset or a new maximum
\* came after it.
TestedFits == wpc \in Numbered \cup {"save_entry"} /\ limit # 0 => saved + 1 <= limit

IInv == TypeOK /\ LimitCovers /\ CountCovers /\ TestedFits /\ SavedWithinMaximum

LEMMA InitIInv == Init => IInv
<1> SUFFICES ASSUME Init PROVE IInv
  OBVIOUS
<1>1. TypeOK
  BY InitType
<1>2. LimitCovers /\ CountCovers /\ TestedFits /\ SavedWithinMaximum
  BY MaximumNat
  DEF Init, LimitCovers, CountCovers, Counted, Numbered, TestedFits, SavedWithinMaximum
<1>3. QED
  BY <1>1, <1>2 DEF IInv

\* The steps that change neither the counts nor the maximum, nor take the
\* worker to or from a place where Counted or TestedFits differ.
Ordinary == wpc \notin Numbered \cup {"save_entry", "retest", "close", "load", "store"}
Elsewhere == /\ UNCHANGED <<m_maxAcquisitions, m_acquisitionCount, history>>
             /\ UNCHANGED <<wpc, wcount>> \/ (Ordinary /\ Ordinary')

LEMMA ElsewhereSteps ==
  ASSUME TypeOK
  PROVE  /\ UNCHANGED vars => Elsewhere
         /\ \A c \in Clients, op \in Commands : Request(c, op) => Elsewhere
         /\ \A b \in BOOLEAN : SetFileSaveMode(b) => Elsewhere
         /\ Expire \/ StartRefused \/ StartSequence \/ StartState \/ StartRunning
              \/ StartOpen \/ StartWait \/ PauseSequence \/ PauseCancel
              \/ ResumeSequence \/ ResumeWait \/ StopSequence \/ StopClose
              \/ StopRunning \/ StopState \/ AcceptSave \/ Submit \/ TickIgnored
              \/ GetSpectrum \/ Rearm \/ GetSpectrumDangling => Elsewhere
         /\ Take \/ SaveSpectrum \/ Check \/ WorkerTimer \/ WorkerCancel \/ WorkerMode
              \/ WorkerClose \/ WorkerRunning \/ WorkerState => Elsewhere
<1> USE DEF Elsewhere, Ordinary, Numbered
<1>1. /\ UNCHANGED vars => Elsewhere
      /\ \A c \in Clients, op \in Commands : Request(c, op) => Elsewhere
      /\ \A b \in BOOLEAN : SetFileSaveMode(b) => Elsewhere
  BY DEF vars, Request, SetFileSaveMode
<1>2. Expire \/ StartRefused \/ StartSequence \/ StartState \/ StartRunning
        \/ StartOpen \/ StartWait \/ PauseSequence \/ PauseCancel => Elsewhere
  BY DEF Expire, StartRefused, StartSequence, StartState, StartRunning, StartOpen,
         StartWait, PauseSequence, PauseCancel
<1>3. ResumeSequence \/ ResumeWait \/ StopSequence \/ StopClose \/ StopRunning
        \/ StopState => Elsewhere
  BY DEF ResumeSequence, ResumeWait, StopSequence, StopClose, StopRunning, StopState
<1>4. AcceptSave \/ Submit \/ TickIgnored \/ GetSpectrum \/ Rearm
        \/ GetSpectrumDangling => Elsewhere
  BY DEF AcceptSave, Submit, TickIgnored, GetSpectrum, Rearm, GetSpectrumDangling
<1>5. ASSUME Take PROVE Elsewhere
  <2>1. Head(jobs) \in Job
    BY <1>5, TailType DEF Take, TypeOK
  <2>2. Head(jobs).op \in {"entry", "save"}
    BY <2>1 DEF Job
  <2>3. QED
    BY <1>5, <2>2 DEF Take
<1>6. SaveSpectrum \/ Check \/ WorkerTimer \/ WorkerCancel \/ WorkerMode
        \/ WorkerClose \/ WorkerRunning \/ WorkerState => Elsewhere
  BY DEF SaveSpectrum, Check, WorkerTimer, WorkerCancel, WorkerMode, WorkerClose,
         WorkerRunning, WorkerState
<1>7. QED
  BY <1>1, <1>2, <1>3, <1>4, <1>5, <1>6

LEMMA NextIInv == IInv /\ [Next]_vars => IInv'
<1> SUFFICES ASSUME IInv, [Next]_vars PROVE IInv'
  OBVIOUS
<1>0. TypeOK'
  BY NextType DEF IInv
<1> DEFINE Rest == LimitCovers /\ CountCovers /\ TestedFits /\ SavedWithinMaximum
<1>a. /\ m_maxAcquisitions \in Nat /\ m_acquisitionCount \in Nat /\ wcount \in Nat
      /\ saved \in Nat /\ last \in Int /\ limit \in Nat
      /\ Rest
  BY MaximumNat DEF IInv, TypeOK
<1> USE DEF LimitCovers, CountCovers, Counted, Numbered, TestedFits, SavedWithinMaximum
<1>1. ASSUME Elsewhere PROVE Rest'
  BY <1>a, <1>1 DEF Elsewhere, Ordinary
<1>2. ASSUME StartCount PROVE Rest'
  <2>1. m_maxAcquisitions' = m_maxAcquisitions /\ m_acquisitionCount' = 0
        /\ saved' = 0 /\ last' = -1 /\ limit' = m_maxAcquisitions
        /\ wpc' = wpc /\ wcount' = wcount
    BY <1>2 DEF StartCount
  <2>2. QED
    BY <1>a, <2>1
<1>3. ASSUME NEW m \in MaxValues, SetMaximumAcquisitions(m) PROVE Rest'
  BY <1>a, <1>3, MaximumNat DEF SetMaximumAcquisitions, DispatchDone, Looser
<1>4. ASSUME SaveSequenceEntry PROVE Rest'
  BY <1>a, <1>4 DEF SaveSequenceEntry
<1>5. ASSUME OnAcquisition PROVE Rest'
  BY <1>a, <1>5 DEF OnAcquisition
<1>6. ASSUME CountLoad PROVE Rest'
  BY <1>a, <1>6 DEF CountLoad
<1>7. ASSUME CountStore PROVE Rest'
  BY <1>a, <1>7 DEF CountStore
<1>8. ASSUME TestMode \/ OpenSequenceNumber \/ SaveToFile \/ TestModeAgain
                \/ CloseSequenceNumber
       PROVE  Rest'
  BY <1>a, <1>8 DEF TestMode, OpenSequenceNumber, SaveToFile, TestModeAgain,
                     CloseSequenceNumber, Saves
<1>9. Rest'
  <2>1. TypeOK
    BY DEF IInv
  <2>2. ASSUME UNCHANGED vars PROVE Rest'
    BY <1>1, <2>1, <2>2, ElsewhereSteps
  <2>3. ASSUME Next PROVE Rest'
    BY <1>1, <1>2, <1>3, <1>4, <1>5, <1>6, <1>7, <1>8, <2>1, <2>3, ElsewhereSteps
    DEF Next, IoStep, WorkerStep
  <2>4. QED
    BY <2>2, <2>3
<1>10. QED
  BY <1>0, <1>9 DEF IInv

LEMMA Invariance == Spec => []IInv
<1>1. Init => IInv
  BY InitIInv
<1>2. IInv /\ [Next]_vars => IInv'
  BY NextIInv
<1>3. QED
  BY <1>1, <1>2, PTL DEF Spec

\* A maximum is never exceeded, however the threads and the clients interleave.
THEOREM MaximumNeverExceeded == Spec => []SavedWithinMaximum
<1>1. IInv => SavedWithinMaximum
  BY DEF IInv
<1>2. QED
  BY <1>1, Invariance, PTL

\* No two acquisitions between two resets of the count are given one number.
THEOREM NumbersAreNew == Spec => NumbersIncrease
<1> DEFINE Newer == last' # -1 => /\ last' >= last
                                  /\ wpc = "save_entry" /\ wpc' # "save_entry" => last' > last
<1>1. IInv /\ [Next]_vars => [Newer]_vars
  <2> SUFFICES ASSUME IInv, [Next]_vars PROVE [Newer]_vars
    OBVIOUS
  <2>1. TypeOK /\ CountCovers /\ last \in Int
    BY DEF IInv, TypeOK
  <2>2. CASE Elsewhere
    BY <2>1, <2>2 DEF Elsewhere, Ordinary
  <2>3. CASE StartCount
    BY <2>3 DEF StartCount
  <2>4. ASSUME NEW m \in MaxValues, SetMaximumAcquisitions(m) PROVE Newer
    BY <2>1, <2>4 DEF SetMaximumAcquisitions, TypeOK
  <2>5. CASE OnAcquisition
    <3>1. last < m_acquisitionCount /\ last' = m_acquisitionCount
      BY <2>1, <2>5 DEF OnAcquisition, CountCovers, Counted, Numbered
    <3>2. QED
      BY <2>1, <3>1 DEF TypeOK
  <2>6. CASE SaveSequenceEntry \/ TestMode \/ OpenSequenceNumber \/ SaveToFile
               \/ TestModeAgain \/ CloseSequenceNumber \/ CountLoad \/ CountStore
    BY <2>1, <2>6 DEF SaveSequenceEntry, TestMode, OpenSequenceNumber, SaveToFile,
                      TestModeAgain, CloseSequenceNumber, Saves, CountLoad, CountStore
  <2>7. CASE UNCHANGED vars
    BY <2>7
  <2>8. CASE Next
    BY <2>1, <2>2, <2>3, <2>4, <2>5, <2>6, <2>8, ElsewhereSteps
    DEF Next, IoStep, WorkerStep
  <2>9. QED
    BY <2>7, <2>8
<1>2. QED
  BY <1>1, Invariance, PTL DEF Spec, NumbersIncrease

-----------------------------------------------------------------------------
(* An active sequence has a wait.                                          *)

\* A completion in the queue stays there while others are posted behind it,
\* and while the handlers before it are taken.
LEMMA CompletingStays ==
  ASSUME NEW q \in Seq(Handler), Completing(q)
  PROVE  /\ \A h \in Handler : Completing(Append(q, h))
         /\ Completing(PostAborted(q))
         /\ q # << >> /\ Head(q).op \notin {"expired", "aborted"} => Completing(Tail(q))
<1>1. PICK i \in 1 .. Len(q) : q[i].op \in {"expired", "aborted"}
  BY DEF Completing
<1>2. \A h \in Handler : Completing(Append(q, h))
  <2> TAKE h \in Handler
  <2>1. i \in 1 .. Len(Append(q, h)) /\ Append(q, h)[i] = q[i]
    OBVIOUS
  <2>2. QED
    BY <1>1, <2>1 DEF Completing
<1>3. Completing(PostAborted(q))
  BY <1>2 DEF PostAborted, Tick, Handler, Ticks
<1>4. ASSUME q # << >>, Head(q).op \notin {"expired", "aborted"}
      PROVE  Completing(Tail(q))
  <2>1. i # 1
    BY <1>1, <1>4
  <2>2. i - 1 \in 1 .. Len(Tail(q)) /\ Tail(q)[i - 1] = q[i]
    BY <2>1
  <2>3. QED
    BY <1>1, <2>2 DEF Completing
<1>5. QED
  BY <1>2, <1>3, <1>4

\* A pending wait that is cancelled becomes a completion.
LEMMA CompletingPosted ==
  ASSUME NEW q \in Seq(Handler)
  PROVE  /\ m_timer = "waiting" => Completing(PostAborted(q))
         /\ Completing(Append(q, Tick("expired")))
<1> DEFINE Added(op) == Append(q, Tick(op))
<1>1. ASSUME NEW op \in {"expired", "aborted"} PROVE Completing(Added(op))
  <2>1. Len(q) + 1 \in 1 .. Len(Added(op)) /\ Added(op)[Len(q) + 1] = Tick(op)
    OBVIOUS
  <2>2. QED
    BY <2>1 DEF Completing, Tick
<1>2. QED
  BY <1>1 DEF PostAborted

\* While the io thread is about to cancel for a pause the state is not ACTIVE:
\* only the io thread makes it so.
PausedMeanwhile == iopc = "pause_cancel" => m_sequenceState # "ACTIVE"

HInv == TypeOK /\ PausedMeanwhile /\ ActiveHasWait

LEMMA NextHInv == HInv /\ [Next]_vars => HInv'
<1> SUFFICES ASSUME HInv, [Next]_vars PROVE HInv'
  OBVIOUS
<1>0. TypeOK'
  BY NextType DEF HInv
<1> DEFINE Rest == PausedMeanwhile /\ ActiveHasWait
<1>a. TypeOK /\ Rest /\ ioq \in Seq(Handler)
  BY DEF HInv, TypeOK
<1> USE DEF PausedMeanwhile, ActiveHasWait
<1>1. ASSUME NEW c \in Clients, NEW op \in Commands, Request(c, op) PROVE Rest'
  <2>1. [op |-> op, by |-> c] \in Handler
    BY DEF Handler
  <2>2. Completing(ioq) => Completing(ioq')
    BY <1>a, <1>1, <2>1, CompletingStays DEF Request
  <2>3. QED
    BY <1>a, <1>1, <2>2 DEF Request
<1>2. ASSUME Expire PROVE Rest'
  BY <1>a, <1>2, CompletingPosted DEF Expire
<1>3. ASSUME \/ \E m \in MaxValues : SetMaximumAcquisitions(m)
             \/ \E b \in BOOLEAN : SetFileSaveMode(b)
             \/ StartRefused \/ AcceptSave
      PROVE  Rest'
  <2>1. Completing(ioq) => Completing(ioq')
    BY <1>a, <1>3, CompletingStays
    DEF SetMaximumAcquisitions, SetFileSaveMode, StartRefused, AcceptSave, Dispatch,
        DispatchDone
  <2>2. UNCHANGED <<m_sequenceState, m_timer, fault>>
    BY <1>3 DEF SetMaximumAcquisitions, SetFileSaveMode, StartRefused, AcceptSave
  <2>3. iopc = "idle" /\ iopc' \in {"idle", "submit"}
    BY <1>3 DEF SetMaximumAcquisitions, SetFileSaveMode, StartRefused, AcceptSave,
                Dispatch, DispatchDone, Enter
  <2>4. QED
    BY <1>a, <2>1, <2>2, <2>3
<1>4. ASSUME StartSequence \/ StartState \/ StartCount \/ StartRunning \/ StartOpen
      PROVE  Rest'
  BY <1>4 DEF StartSequence, StartState, StartCount, StartRunning, StartOpen, Enter
<1>5. ASSUME StartWait PROVE Rest'
  BY <1>5 DEF StartWait, Leave
<1>6. ASSUME PauseSequence \/ PauseCancel PROVE Rest'
  BY <1>a, <1>6 DEF PauseSequence, PauseCancel, Enter, Leave
<1>7. ASSUME ResumeSequence \/ ResumeWait PROVE Rest'
  BY <1>7 DEF ResumeSequence, ResumeWait, Enter, Leave
<1>8. ASSUME StopSequence \/ StopClose \/ StopRunning PROVE Rest'
  BY <1>8 DEF StopSequence, StopClose, StopRunning, Enter
<1>9. ASSUME StopState PROVE Rest'
  BY <1>9 DEF StopState, Leave
<1>10. ASSUME TickIgnored \/ GetSpectrum \/ Rearm \/ GetSpectrumDangling PROVE Rest'
  BY <1>a, <1>10
  DEF TickIgnored, GetSpectrum, Rearm, GetSpectrumDangling, Dispatch, DispatchDone, Enter
<1>11. ASSUME Submit PROVE Rest'
  BY <1>a, <1>11 DEF Submit
<1>12. ASSUME WorkerCancel PROVE Rest'
  <2>1. /\ Completing(ioq) => Completing(ioq')
        /\ m_timer = "waiting" /\ wtimer # "dangling" => Completing(ioq')
    BY <1>a, <1>12, CompletingStays, CompletingPosted DEF WorkerCancel
  <2>2. QED
    BY <1>a, <1>12, <2>1 DEF WorkerCancel
<1>13. ASSUME Take \/ SaveSpectrum \/ SaveSequenceEntry \/ OnAcquisition \/ CountLoad
                \/ CountStore \/ Check \/ WorkerTimer
       PROVE  Rest'
  BY <1>a, <1>13 DEF Take, SaveSpectrum, SaveSequenceEntry, OnAcquisition, CountLoad,
                     CountStore, Check, WorkerTimer
<1>14. ASSUME WorkerMode \/ WorkerClose \/ WorkerRunning \/ WorkerState PROVE Rest'
  BY <1>a, <1>14 DEF WorkerMode, WorkerClose, WorkerRunning, WorkerState
<1>15. ASSUME TestMode \/ OpenSequenceNumber \/ SaveToFile \/ TestModeAgain
                \/ CloseSequenceNumber
       PROVE  Rest'
  BY <1>a, <1>15 DEF TestMode, OpenSequenceNumber, SaveToFile, TestModeAgain,
                     CloseSequenceNumber, Saves
<1>16. ASSUME UNCHANGED vars PROVE Rest'
  BY <1>a, <1>16 DEF vars
<1>17. Rest'
  BY <1>1, <1>2, <1>3, <1>4, <1>5, <1>6, <1>7, <1>8, <1>9, <1>10, <1>11, <1>12, <1>13,
     <1>14, <1>15, <1>16
  DEF Next, IoStep, WorkerStep
<1>18. QED
  BY <1>0, <1>17 DEF HInv

\* An active sequence cannot fall silent.
THEOREM ActiveNeverSilent == Spec => []ActiveHasWait
<1>1. Init => HInv
  BY InitType DEF Init, HInv, PausedMeanwhile, ActiveHasWait
<1>2. HInv /\ [Next]_vars => HInv'
  BY NextHInv
<1>3. HInv => ActiveHasWait
  BY DEF HInv
<1>4. QED
  BY <1>1, <1>2, <1>3, PTL DEF Spec

-----------------------------------------------------------------------------
(* Careful clients.                                                        *)
(*                                                                         *)
(* What a client that looks before it sends, and waits for each answer,    *)
(* can rely on while there is no maximum: the timer is never used when it  *)
(* is not there, the file follows the sequence, and only an elapsed        *)
(* interval submits an acquisition.                                        *)

OneAtATime == Careful /\ MaxValues = {0} /\ (\A c, d \in Clients : c = d)

\* Where a queue has handlers or jobs of the kinds P.
NoneOf(q, P) == \A i \in 1 .. Len(q) : q[i].op \notin P
OneOf(q, P)  == \A i, j \in 1 .. Len(q) : q[i].op \in P /\ q[j].op \in P => i = j
AtEnd(q, P)  == \A i \in 1 .. Len(q) : q[i].op \in P => i = Len(q)

LEMMA Appended ==
  ASSUME NEW S, NEW q \in Seq(S), NEW h \in S, NEW P
  PROVE  /\ NoneOf(q, P) /\ h.op \notin P => NoneOf(Append(q, h), P)
         /\ OneOf(q, P) /\ h.op \notin P => OneOf(Append(q, h), P)
         /\ NoneOf(q, P) => OneOf(Append(q, h), P) /\ AtEnd(Append(q, h), P)
<1>1. /\ Len(q) \in Nat /\ Len(Append(q, h)) = Len(q) + 1
      /\ \A i \in 1 .. Len(q) : Append(q, h)[i] = q[i]
      /\ Append(q, h)[Len(q) + 1] = h
  OBVIOUS
<1>2. \A i \in 1 .. Len(q) + 1 : i \in 1 .. Len(q) \/ i = Len(q) + 1
  BY <1>1
<1> QED
  BY <1>1, <1>2 DEF NoneOf, OneOf, AtEnd

LEMMA Taken ==
  ASSUME NEW S, NEW q \in Seq(S), q # << >>, NEW P
  PROVE  /\ NoneOf(q, P) => NoneOf(Tail(q), P) /\ Head(q).op \notin P
         /\ OneOf(q, P) => OneOf(Tail(q), P)
         /\ OneOf(q, P) /\ Head(q).op \in P => NoneOf(Tail(q), P)
         /\ AtEnd(q, P) => AtEnd(Tail(q), P)
         /\ AtEnd(q, P) /\ Head(q).op \in P => Tail(q) = << >>
<1>1. /\ Len(q) \in Nat \ {0} /\ Head(q) = q[1] /\ Tail(q) \in Seq(S) /\ Len(Tail(q)) = Len(q) - 1
      /\ \A i \in 1 .. Len(q) - 1 : Tail(q)[i] = q[i + 1]
  OBVIOUS
<1>2. \A i \in 1 .. Len(q) - 1 : i + 1 \in 1 .. Len(q) /\ i + 1 # 1
  BY <1>1
<1>3. 1 \in 1 .. Len(q)
  BY <1>1
<1>4. AtEnd(q, P) /\ Head(q).op \in P => Tail(q) = << >>
  <2>1. HAVE AtEnd(q, P) /\ Head(q).op \in P
  <2>2. Len(q) = 1
    <3>1. q[1].op \in P
      BY <1>1, <2>1
    <3>2. \A i \in 1 .. Len(q) : q[i].op \in P => i = Len(q)
      BY <2>1 DEF AtEnd
    <3> QED
      BY <1>3, <3>1, <3>2
  <2>3. Tail(q) \in Seq(S) /\ Len(Tail(q)) = 0
    BY <1>1, <2>2
  <2> QED
    BY <2>3, EmptySeq
<1>5. NoneOf(q, P) => NoneOf(Tail(q), P) /\ Head(q).op \notin P
  BY <1>1, <1>2, <1>3 DEF NoneOf
<1>6. OneOf(q, P) => OneOf(Tail(q), P)
  <2>1. SUFFICES ASSUME OneOf(q, P), NEW i \in 1 .. Len(q) - 1, NEW j \in 1 .. Len(q) - 1,
                        q[i + 1].op \in P, q[j + 1].op \in P
                 PROVE  i = j
    BY <1>1 DEF OneOf
  <2>2. i + 1 = j + 1
    BY <1>2, <2>1 DEF OneOf
  <2> QED
    BY <2>2
<1>7. OneOf(q, P) /\ Head(q).op \in P => NoneOf(Tail(q), P)
  BY <1>1, <1>2, <1>3 DEF OneOf, NoneOf
<1>8. AtEnd(q, P) => AtEnd(Tail(q), P)
  <2>1. SUFFICES ASSUME AtEnd(q, P), NEW i \in 1 .. Len(q) - 1, q[i + 1].op \in P
                 PROVE  i = Len(q) - 1
    BY <1>1 DEF AtEnd
  <2>2. i + 1 = Len(q)
    <3>1. \A k \in 1 .. Len(q) : q[k].op \in P => k = Len(q)
      BY <2>1 DEF AtEnd
    <3> QED
      BY <1>2, <2>1, <3>1
  <2>3. i \in Int /\ Len(q) \in Int
    BY <1>1, <2>1
  <2> QED
    BY <2>2, <2>3
<1> QED
  BY <1>4, <1>5, <1>6, <1>7, <1>8

LEMMA NoneOfPart ==
  ASSUME NEW q, NEW P, NEW R, R \subseteq P, NoneOf(q, P)
  PROVE  NoneOf(q, R) /\ OneOf(q, R) /\ AtEnd(q, R)
BY DEF NoneOf, OneOf, AtEnd

\* The careful clients' invariant. What the queue may hold, and what the io
\* thread works on at each place.
Posted    == [op : Commands, by : Clients] \cup {Tick("expired"), Tick("aborted")}
Starting  == {"start_state", "start_count", "start_running", "start_open", "start_wait"}
Stopping  == {"stop_close", "stop_running", "stop_state"}

Handling ==
  /\ ioq \in Seq(Posted)
  /\ ioh \in Posted \cup {NoHandler}
  /\ iopc = "idle" => ioh = NoHandler
  /\ iopc \in Starting => ioh.op = "start"
  /\ iopc = "pause_cancel" => ioh.op = "pause"
  /\ iopc = "resume_wait" => ioh.op = "resume"
  /\ iopc \in Stopping => ioh.op = "stop"
  /\ iopc = "rearm" => ioh.op = "expired"
  /\ iopc = "submit" => ioh.op \in {"expired", "save"}

\* A request is in one place at a time, and while it is anywhere its client
\* waits.
Queued    == ~NoneOf(ioq, Commands)
Handled   == ioh.op \in Commands
Submitted == ~NoneOf(jobs, {"save"})
Worked    == wjob.op = "save"

Sole ==
  /\ OneOf(ioq, Commands)
  /\ OneOf(jobs, {"save"})
  /\ Queued => ~Handled /\ ~Submitted /\ ~Worked
  /\ Handled => ~Submitted /\ ~Worked
  /\ Submitted => ~Worked
  /\ Queued \/ Handled \/ Submitted \/ Worked => \A c \in Clients : sent[c] # "none"

\* The request in the queue still suits the state, and nothing is behind one
\* that starts or resumes: no wait is pending that could end meanwhile.
Unwanted == {op \in Commands : ~Sensible(op)}
AsksRight == NoneOf(ioq, Unwanted) /\ AtEnd(ioq, {"start", "resume"})

\* Without a maximum the worker never stops the sequence.
WorkerCalm ==
  /\ fault = "none" /\ m_maxAcquisitions = 0
  /\ wpc \in {"idle", "entry", "save_entry", "mode", "open", "write", "retest", "close",
              "load", "store", "check", "save"}
  /\ wpc = "save" => wjob.op = "save"

\* The timer is there when it is used, waits only for an active sequence, and
\* an active sequence has one wait or one completion that is due, no other.
TimerCalm ==
  /\ m_sequenceState \in {"ACTIVE", "PAUSED"} => m_timer # "null"
  /\ m_sequenceState # "ACTIVE" /\ iopc # "pause_cancel" => m_timer # "waiting"
  /\ iopc \in {"start_count", "start_running", "start_open", "start_wait", "resume_wait",
              "rearm"} =>
       m_sequenceState = "ACTIVE"
  /\ iopc = "pause_cancel" => m_sequenceState = "PAUSED"
  /\ iopc \in Starting \cup {"resume_wait", "rearm"} => m_timer = "idle" /\ NoneOf(ioq, Ticks)
  /\ iopc \in Stopping => m_timer # "waiting"
  /\ m_sequenceState = "ACTIVE" /\ iopc \notin Stopping =>
       /\ NoneOf(ioq, {"aborted"}) /\ OneOf(ioq, Ticks)
       /\ m_timer = "waiting" => NoneOf(ioq, Ticks)

\* The stream at each place of the two halves of OnStart and OnStop, and of
\* OnAcquisition.
StreamCalm ==
  /\ m_multiple => m_output = IF wpc \in {"write", "retest", "close"} THEN "open" ELSE "closed"
  /\ ~m_multiple =>
       /\ wpc \notin {"open", "close"}
       /\ m_output = IF m_running /\ iopc \notin {"start_open", "stop_running"}
                     THEN "open" ELSE "closed"

FileCalm ==
  /\ iopc \in {"start_state", "start_count", "start_running", "stop_state"} => ~m_running
  /\ iopc \in {"start_open", "start_wait"} => m_running
  /\ m_sequenceState \in {"NOT_YET_CONFIGURED", "NOT_YET_STARTED"} /\ iopc \notin Starting =>
       ~m_running
  /\ ~crossed => StreamCalm

Calm == TypeOK /\ Handling /\ Sole /\ AsksRight /\ WorkerCalm /\ TimerCalm /\ FileCalm

LEMMA InitCalm == ASSUME OneAtATime, Init PROVE Calm
<1>1. TypeOK
  BY InitType
<1>2. /\ ioq = << >> /\ jobs = << >> /\ iopc = "idle" /\ ioh = NoHandler /\ wjob = NoHandler
      /\ \A P : NoneOf(<< >>, P) /\ OneOf(<< >>, P) /\ AtEnd(<< >>, P)
  BY DEF Init, NoneOf, OneOf, AtEnd
<1>3. NoHandler.op = "none" /\ "none" \notin Commands \cup {"save"}
  BY DEF NoHandler, Commands
<1>4. Handling
  BY <1>2 DEF Handling, Starting, Stopping
<1>5. Sole /\ AsksRight
  BY <1>2, <1>3 DEF Sole, Queued, Handled, Submitted, Worked, AsksRight
<1>6. WorkerCalm
  BY DEF Init, WorkerCalm, OneAtATime
<1>7. TimerCalm
  BY <1>2 DEF Init, TimerCalm, Starting, Stopping
<1>8. FileCalm
  BY DEF Init, FileCalm, StreamCalm
<1> QED
  BY <1>1, <1>4, <1>5, <1>6, <1>7, <1>8 DEF Calm

LEMMA PostedHandlers ==
  /\ \A h \in Posted : h \in Handler /\ h.op \in Commands \cup {"expired", "aborted"}
  /\ \A h \in Posted : h.op \in Ticks => h.by \notin Clients /\ h.op \notin Commands
  /\ \A h \in Posted : h.op \in Commands => h.by \in Clients /\ h.op \notin Ticks
  /\ Tick("expired") \in Posted /\ Tick("aborted") \in Posted
  /\ \A op \in Commands, c \in Clients : [op |-> op, by |-> c] \in Posted
BY ClientsAssumption DEF Posted, Handler, Tick, Ticks, Commands

\* What the io thread finds when it takes a handler.
LEMMA Dispatched ==
  ASSUME Calm, NEW op, Dispatch(op)
  PROVE  /\ iopc = "idle" /\ ioh = NoHandler /\ ~Handled
         /\ ioq # << >> /\ Head(ioq) \in Posted /\ Head(ioq).op = op
         /\ Tail(ioq) \in Seq(Posted)
         /\ \A P : NoneOf(ioq, P) => NoneOf(Tail(ioq), P) /\ op \notin P
         /\ \A P : OneOf(ioq, P) => OneOf(Tail(ioq), P)
         /\ \A P : OneOf(ioq, P) /\ op \in P => NoneOf(Tail(ioq), P)
         /\ \A P : AtEnd(ioq, P) => AtEnd(Tail(ioq), P)
         /\ op \in {"start", "resume"} => Tail(ioq) = << >>
         /\ op \in Commands => /\ Sensible(op) /\ ~Submitted /\ ~Worked
                               /\ NoneOf(Tail(ioq), Commands)
                               /\ \A c \in Clients : sent[c] # "none"
         /\ op \notin Commands => NoneOf(Tail(ioq), Commands) <=> NoneOf(ioq, Commands)
<1>1. iopc = "idle" /\ ioh = NoHandler /\ ioq # << >> /\ Head(ioq).op = op /\ ioq \in Seq(Posted)
  BY DEF Dispatch, Calm, Handling
<1>2. ~Handled
  BY <1>1 DEF Handled, NoHandler, Commands
<1>3. Head(ioq) \in Posted /\ Tail(ioq) \in Seq(Posted)
  BY <1>1, TailType
<1>4. \A P : /\ NoneOf(ioq, P) => NoneOf(Tail(ioq), P) /\ op \notin P
             /\ OneOf(ioq, P) => OneOf(Tail(ioq), P)
             /\ OneOf(ioq, P) /\ op \in P => NoneOf(Tail(ioq), P)
             /\ AtEnd(ioq, P) => AtEnd(Tail(ioq), P)
             /\ AtEnd(ioq, P) /\ op \in P => Tail(ioq) = << >>
  <2> TAKE P
  <2> QED
    BY <1>1, Taken, Zenon
<1>5. op \in {"start", "resume"} => Tail(ioq) = << >>
  BY <1>4 DEF Calm, AsksRight
<1>6. ASSUME op \in Commands
      PROVE  /\ Sensible(op) /\ ~Submitted /\ ~Worked
             /\ NoneOf(Tail(ioq), Commands)
             /\ \A c \in Clients : sent[c] # "none"
  <2>1. Queued
    BY <1>4, <1>6 DEF Queued
  <2>2. op \notin Unwanted
    BY <1>4 DEF Calm, AsksRight
  <2> QED
    BY <1>4, <1>6, <2>1, <2>2 DEF Calm, Sole, Unwanted
<1>7. ASSUME op \notin Commands
      PROVE  NoneOf(Tail(ioq), Commands) => NoneOf(ioq, Commands)
  <2>1. SUFFICES ASSUME NoneOf(Tail(ioq), Commands), NEW i \in 1 .. Len(ioq)
                 PROVE  ioq[i].op \notin Commands
    BY DEF NoneOf
  <2>2. CASE i = 1
    BY <1>1, <1>7, <2>2
  <2>3. CASE i # 1
    <3>1. i - 1 \in 1 .. Len(Tail(ioq)) /\ Tail(ioq)[i - 1] = ioq[i]
      BY <1>1, <2>3
    <3> QED
      BY <2>1, <3>1 DEF NoneOf
  <2> QED
    BY <2>2, <2>3
<1> QED
  BY <1>1, <1>2, <1>3, <1>4, <1>5, <1>6, <1>7

\* Steps of the worker. Those that stop the sequence never come.
LEMMA WorkerKeepsCalm == ASSUME Calm, TypeOK', WorkerStep PROVE Calm'
<1> USE DEF Calm
<1>1. /\ jobs \in Seq(Job) /\ ioh \in Posted \cup {NoHandler}
      /\ \A j \in Job : j.op \in {"entry", "save"}
  BY DEF TypeOK, Handling, Job
<1>2. UNCHANGED <<ioVars, m_sequenceState, m_timer, m_maxAcquisitions, m_multiple, m_running>>
      => Handling' /\ AsksRight' /\ TimerCalm'
  BY DEF Handling, AsksRight, Unwanted, Sensible, TimerCalm
<1>3. CASE Take
  <2>1. /\ Head(jobs) \in Job /\ wjob' = Head(jobs) /\ jobs' = Tail(jobs)
        /\ wpc' = Head(jobs).op
    BY <1>1, <1>3, TailType DEF Take
  <2>2. /\ NoneOf(jobs, {"save"}) => NoneOf(jobs', {"save"}) /\ wjob'.op # "save"
        /\ OneOf(jobs', {"save"})
        /\ wjob'.op = "save" => NoneOf(jobs', {"save"})
    <3>1. /\ NoneOf(jobs, {"save"}) => NoneOf(Tail(jobs), {"save"}) /\ Head(jobs).op \notin {"save"}
          /\ OneOf(jobs, {"save"}) => OneOf(Tail(jobs), {"save"})
          /\ OneOf(jobs, {"save"}) /\ Head(jobs).op \in {"save"} => NoneOf(Tail(jobs), {"save"})
      BY <1>1, <1>3, Taken, Zenon DEF Take
    <3> QED
      BY <2>1, <3>1 DEF Sole
  <2>3. Sole'
    BY <1>3, <2>2 DEF Sole, Queued, Handled, Submitted, Worked, Take
  <2>4. WorkerCalm'
    BY <1>1, <1>3, <2>1 DEF WorkerCalm, Take
  <2>5. FileCalm'
    BY <1>1, <1>3, <2>1 DEF FileCalm, StreamCalm, Take
  <2> QED
    BY <1>2, <1>3, <2>3, <2>4, <2>5 DEF Take
<1>4. CASE SaveSpectrum
  <2>1. Worked /\ wjob' = NoHandler
    BY <1>4 DEF SaveSpectrum, WorkerCalm, Worked
  <2>2. ~Queued' /\ ~Handled' /\ ~Submitted' /\ ~Worked'
    BY <1>4, <2>1 DEF SaveSpectrum, Sole, Queued, Handled, Submitted, Worked, NoHandler
  <2>3. Sole'
    BY <1>4, <2>2 DEF SaveSpectrum, Sole
  <2>4. WorkerCalm'
    BY <1>4 DEF WorkerCalm, SaveSpectrum
  <2>5. FileCalm'
    BY <1>4 DEF FileCalm, StreamCalm, SaveSpectrum
  <2> QED
    BY <1>2, <1>4, <2>3, <2>4, <2>5 DEF SaveSpectrum
<1>5. CASE SaveSequenceEntry \/ OnAcquisition \/ CountLoad \/ CountStore \/ Check
  <2>1. Sole'
    BY <1>5 DEF SaveSequenceEntry, OnAcquisition, CountLoad, CountStore, Check, MaximumReached,
                WorkerCalm, Sole, Queued, Handled, Submitted, Worked, NoHandler
  <2>2. WorkerCalm'
    BY <1>5 DEF SaveSequenceEntry, OnAcquisition, CountLoad, CountStore, Check, MaximumReached,
                WorkerCalm
  <2>3. FileCalm'
    BY <1>5 DEF SaveSequenceEntry, OnAcquisition, CountLoad, CountStore, Check, FileCalm,
                StreamCalm, WorkerCalm, MaximumReached
  <2>4. UNCHANGED <<ioVars, m_sequenceState, m_timer, m_maxAcquisitions, m_multiple, m_running>>
    BY <1>5 DEF SaveSequenceEntry, OnAcquisition, CountLoad, CountStore, Check
  <2> QED
    BY <1>2, <2>1, <2>2, <2>3, <2>4
<1>6. CASE TestMode \/ OpenSequenceNumber \/ SaveToFile \/ TestModeAgain \/ CloseSequenceNumber
  <2>1. UNCHANGED <<seqVars, m_multiple, m_running, crossed, ioVars, jobs, wjob, sent, fault>>
    BY <1>6 DEF TestMode, OpenSequenceNumber, SaveToFile, TestModeAgain, CloseSequenceNumber,
                Saves
  <2>2. Sole'
    BY <2>1 DEF Sole, Queued, Handled, Submitted, Worked
  <2>3. WorkerCalm'
    BY <1>6, <2>1 DEF TestMode, OpenSequenceNumber, SaveToFile, TestModeAgain,
                      CloseSequenceNumber, Saves, WorkerCalm
  <2>4. ~crossed => StreamCalm'
    BY <1>6, <2>1 DEF TestMode, OpenSequenceNumber, SaveToFile, TestModeAgain,
                      CloseSequenceNumber, Saves, Opened, FileCalm, StreamCalm
  <2>5. FileCalm'
    BY <2>1, <2>4 DEF FileCalm
  <2> QED
    BY <1>2, <2>1, <2>2, <2>3, <2>5
<1>7. ~(WorkerTimer \/ WorkerCancel \/ WorkerMode \/ WorkerClose \/ WorkerRunning \/ WorkerState)
  BY DEF WorkerCalm, WorkerTimer, WorkerCancel, WorkerMode, WorkerClose, WorkerRunning, WorkerState
<1> QED
  BY <1>3, <1>4, <1>5, <1>6, <1>7 DEF WorkerStep

\* A request, the end of a wait, and the hand-over to the worker.
LEMMA RequestKeepsCalm ==
  ASSUME OneAtATime, Calm, TypeOK', NEW c \in Clients, NEW op \in Commands, Request(c, op)
  PROVE  Calm'
<1> USE DEF Calm
<1> DEFINE h == [op |-> op, by |-> c]
<1>1. h \in Posted /\ ioq \in Seq(Posted) /\ ioq' = Append(ioq, h) /\ h.op = op /\ op \notin Ticks
      /\ Sensible(op)
  BY PostedHandlers DEF Request, Handling, OneAtATime, Commands, Ticks
<1>2. ~Queued /\ ~Handled /\ ~Submitted /\ ~Worked
  BY DEF Request, Sole
<1>3. NoneOf(ioq, Commands)
  BY <1>2 DEF Queued
<1>4. \A P : /\ NoneOf(ioq, P) /\ op \notin P => NoneOf(ioq', P)
             /\ OneOf(ioq, P) /\ op \notin P => OneOf(ioq', P)
             /\ NoneOf(ioq, P) => OneOf(ioq', P) /\ AtEnd(ioq', P)
  <2> TAKE P
  <2> HIDE DEF h
  <2> QED
    BY <1>1, Appended, Zenon
<1>5. Handling'
  BY <1>1 DEF Handling, Request
<1>6. Sole'
  <2>1. \A d \in Clients : sent'[d] # "none"
    BY DEF Request, OneAtATime, TypeOK, Commands
  <2> QED
    BY <1>2, <1>3, <1>4, <2>1 DEF Request, Sole, Queued, Handled, Submitted, Worked
<1>7. AsksRight'
  <2>1. Unwanted' = Unwanted /\ op \notin Unwanted
    BY <1>1 DEF Request, Unwanted, Sensible
  <2>2. AtEnd(ioq', {"start", "resume"})
    BY <1>3, <1>4, NoneOfPart DEF Commands
  <2> QED
    BY <1>4, <2>1, <2>2 DEF AsksRight
<1>8. TimerCalm'
  <2>1. op \notin {"aborted"}
    BY <1>1 DEF Ticks
  <2> QED
    BY <1>1, <1>4, <2>1 DEF Request, TimerCalm
<1>9. WorkerCalm' /\ FileCalm'
  BY DEF Request, WorkerCalm, FileCalm, StreamCalm
<1> QED
  BY <1>5, <1>6, <1>7, <1>8, <1>9

LEMMA ExpireKeepsCalm == ASSUME Calm, TypeOK', Expire PROVE Calm'
<1> USE DEF Calm
<1> DEFINE h == Tick("expired")
<1>1. /\ h \in Posted /\ ioq \in Seq(Posted) /\ ioq' = Append(ioq, h)
      /\ h.op = "expired" /\ "expired" \notin Commands \cup {"aborted"}
  BY PostedHandlers DEF Expire, Handling, Tick, Commands
<1>2. \A P : /\ NoneOf(ioq, P) /\ "expired" \notin P => NoneOf(ioq', P)
             /\ OneOf(ioq, P) /\ "expired" \notin P => OneOf(ioq', P)
             /\ NoneOf(ioq, P) => OneOf(ioq', P) /\ AtEnd(ioq', P)
  <2> TAKE P
  <2> HIDE DEF h
  <2> QED
    BY <1>1, Appended, Zenon
<1>3. Handling'
  BY <1>1 DEF Handling, Expire
<1>4. Sole'
  BY <1>1, <1>2 DEF Expire, Sole, Queued, Handled, Submitted, Worked
<1>5. AsksRight'
  <2>1. Unwanted' = Unwanted /\ "expired" \notin Unwanted
    BY <1>1 DEF Expire, Unwanted, Sensible
  <2>2. NoneOf(ioq, {"start", "resume"})
    <3>1. CASE m_sequenceState = "ACTIVE"
      <4>1. {"start", "resume"} \subseteq Unwanted
        BY <3>1 DEF Unwanted, Sensible, Commands
      <4> QED
        BY <4>1, NoneOfPart DEF AsksRight
    <3>2. CASE iopc = "pause_cancel"
      <4>1. NoneOf(ioq, Commands)
        BY <3>2 DEF Handling, Sole, Handled, Queued, Commands
      <4> QED
        BY <4>1, NoneOfPart DEF Commands
    <3> QED
      BY <3>1, <3>2 DEF Expire, TimerCalm
  <2> QED
    BY <1>2, <2>1, <2>2 DEF AsksRight
<1>6. TimerCalm'
  BY <1>1, <1>2 DEF Expire, TimerCalm
<1>7. WorkerCalm' /\ FileCalm'
  BY DEF Expire, WorkerCalm, FileCalm, StreamCalm
<1> QED
  BY <1>3, <1>4, <1>5, <1>6, <1>7

LEMMA SubmitKeepsCalm == ASSUME Calm, TypeOK', Submit PROVE Calm'
<1> USE DEF Calm
<1> DEFINE j == IF ioh.op = "save" THEN ioh ELSE EntryJob
<1>1. /\ j \in Job /\ jobs \in Seq(Job) /\ jobs' = Append(jobs, j)
      /\ j.op = "save" => ioh.op = "save"
  BY JobType DEF Submit, TypeOK, EntryJob
<1>2. /\ NoneOf(jobs, {"save"}) /\ j.op # "save" => NoneOf(jobs', {"save"})
      /\ OneOf(jobs, {"save"}) /\ j.op # "save" => OneOf(jobs', {"save"})
      /\ NoneOf(jobs, {"save"}) => OneOf(jobs', {"save"})
  <2>1. /\ NoneOf(jobs, {"save"}) /\ j.op \notin {"save"} => NoneOf(Append(jobs, j), {"save"})
        /\ OneOf(jobs, {"save"}) /\ j.op \notin {"save"} => OneOf(Append(jobs, j), {"save"})
        /\ NoneOf(jobs, {"save"}) => OneOf(Append(jobs, j), {"save"})
    <3> HIDE DEF j
    <3> QED
      BY <1>1, Appended, Zenon
  <2> QED
    BY <1>1, <2>1
<1>3. ioh' = NoHandler /\ ~Handled'
  BY DEF Submit, Handled, NoHandler, Commands
<1>4. Sole'
  <2> HIDE DEF j
  <2>1. ioh.op = "save" => Handled
    BY DEF Handled, Commands
  <2>2. UNCHANGED <<ioq, wjob, sent>>
    BY DEF Submit
  <2> QED
    BY <1>1, <1>2, <1>3, <2>1, <2>2 DEF Sole, Queued, Submitted, Worked
<1>5. Handling'
  BY <1>3 DEF Submit, Handling, Starting, Stopping
<1>6. AsksRight' /\ TimerCalm' /\ WorkerCalm' /\ FileCalm'
  BY DEF Submit, AsksRight, Unwanted, Sensible, TimerCalm, WorkerCalm, FileCalm,
         StreamCalm, Starting, Stopping
<1> QED
  BY <1>4, <1>5, <1>6

\* The places inside OnStart, OnStop and StartSequence: no queue changes, and
\* the state becomes ACTIVE while no request is queued.
LEMMA InsideKeepsCalm ==
  ASSUME Calm, TypeOK',
         StartState \/ StartCount \/ StartRunning \/ StartOpen \/ StopClose \/ StopRunning
  PROVE  Calm'
<1> USE DEF Calm
<1>1. UNCHANGED <<ioq, ioh, jobs, wjob, sent>>
  BY DEF StartState, StartCount, StartRunning, StartOpen, StopClose, StopRunning
<1>2. Handling'
  BY DEF Handling, Starting, Stopping, StartState, StartCount, StartRunning, StartOpen,
         StopClose, StopRunning
<1>3. Sole'
  BY <1>1 DEF Sole, Queued, Handled, Submitted, Worked
<1>4. NoneOf(ioq, Commands)
  BY DEF Handling, Sole, Queued, Handled, Commands, Starting, Stopping, StartState, StartCount,
         StartRunning, StartOpen, StopClose, StopRunning
<1>5. AsksRight'
  <2>1. Unwanted' \subseteq Commands /\ {"start", "resume"} \subseteq Commands
    BY DEF Unwanted, Commands
  <2> QED
    BY <1>1, <1>4, <2>1, NoneOfPart DEF AsksRight
<1>6. TimerCalm'
  <2>1. iopc \in Starting =>
          OneOf(ioq, Ticks) /\ NoneOf(ioq, {"aborted"}) /\ NoneOf(ioq, Ticks)
    BY NoneOfPart DEF TimerCalm, Ticks
  <2> QED
    BY <1>1, <2>1 DEF TimerCalm, Starting, Stopping, StartState, StartCount, StartRunning,
                      StartOpen, StopClose, StopRunning
<1>7. WorkerCalm'
  BY DEF WorkerCalm, StartState, StartCount, StartRunning, StartOpen, StopClose, StopRunning
<1>8. FileCalm'
  BY DEF TypeOK, FileCalm, StreamCalm, TimerCalm, Opened, Starting, StartState, StartCount,
         StartRunning, StartOpen, StopClose, StopRunning
<1> QED
  BY <1>2, <1>3, <1>5, <1>6, <1>7, <1>8

\* The end of a request on the io thread: no other request is anywhere.
LEMMA LeavingKeepsSole ==
  ASSUME Calm, Leave, UNCHANGED <<jobs, wjob>>, Handled,
         NoneOf(ioq, Commands) => NoneOf(ioq', Commands)
  PROVE  Sole'
<1>1. ioh' = NoHandler /\ ~Handled'
  BY DEF Leave, Handled, NoHandler, Commands
<1>2. ~Queued' /\ ~Submitted' /\ ~Worked'
  BY DEF Calm, Sole, Queued, Submitted, Worked
<1>3. OneOf(ioq', Commands) /\ OneOf(jobs', {"save"})
  BY <1>2, NoneOfPart DEF Queued, Submitted
<1> QED
  BY <1>1, <1>2, <1>3 DEF Sole

LEMMA LeaveKeepsCalm ==
  ASSUME Calm, TypeOK', StartWait \/ StopState \/ PauseCancel \/ ResumeWait
  PROVE  Calm'
<1> USE DEF Calm
<1>1. Leave /\ UNCHANGED <<workVars, m_maxAcquisitions, fileVars>>
  BY DEF StartWait, StopState, PauseCancel, ResumeWait
<1>2. Handled
  BY DEF Handling, Handled, Commands, Starting, Stopping, StartWait, StopState, PauseCancel,
         ResumeWait
<1>3. NoneOf(ioq, Commands)
  BY <1>2 DEF Sole, Queued
<1>4. iopc' = "idle" /\ ioh' = NoHandler
  BY <1>1 DEF Leave
<1>5. /\ ioq' \in Seq(Posted) /\ NoneOf(ioq', Commands)
      /\ m_timer # "waiting" \/ StartWait \/ StopState => ioq' = ioq
  <2>1. ioq \in Seq(Posted)
    BY DEF Handling
  <2>2. CASE ioq' = ioq
    BY <1>3, <2>1, <2>2
  <2>3. CASE ioq' = Append(ioq, Tick("aborted")) /\ m_timer = "waiting" /\ ~StartWait /\ ~StopState
    <3>1. Tick("aborted").op \notin Commands /\ Tick("aborted") \in Posted
      BY PostedHandlers DEF Tick, Commands
    <3>2. NoneOf(Append(ioq, Tick("aborted")), Commands)
      BY <1>3, <2>1, <3>1, Appended, Zenon
    <3> QED
      BY <2>1, <2>3, <3>1, <3>2
  <2>4. StartWait \/ StopState => ioq' = ioq
    BY DEF StartWait, StopState
  <2>5. PauseCancel \/ ResumeWait => ioq' = ioq \/ ioq' = PostAborted(ioq)
    BY DEF PauseCancel, ResumeWait
  <2> QED
    BY <2>2, <2>3, <2>4, <2>5 DEF PostAborted
<1>6. Handling'
  BY <1>4, <1>5 DEF Handling, Starting, Stopping
<1>7. Sole'
  BY <1>1, <1>2, <1>5, LeavingKeepsSole
<1>8. AsksRight'
  <2>1. Unwanted' \subseteq Commands /\ {"start", "resume"} \subseteq Commands
    BY DEF Unwanted, Commands
  <2> QED
    BY <1>5, <2>1, NoneOfPart DEF AsksRight
<1>9. fault' = "none"
  BY DEF WorkerCalm, TimerCalm, Starting, StartWait, StopState, PauseCancel, ResumeWait
<1>10. WorkerCalm'
  BY <1>1, <1>9 DEF WorkerCalm
<1>11. TimerCalm'
  <2>1. CASE StartWait \/ ResumeWait
    <3>1. /\ m_timer' = "waiting" /\ m_sequenceState' = "ACTIVE" /\ m_timer = "idle"
          /\ NoneOf(ioq, Ticks)
      BY <2>1 DEF StartWait, ResumeWait, TimerCalm, Starting
    <3>2. ioq' = ioq /\ NoneOf(ioq', {"aborted"}) /\ OneOf(ioq', Ticks)
      BY <1>5, <3>1, NoneOfPart DEF Ticks
    <3> QED
      BY <1>4, <3>1, <3>2 DEF TimerCalm, Starting, Stopping
  <2>2. CASE StopState
    BY <1>4, <2>2 DEF StopState, TimerCalm, Starting, Stopping
  <2>3. CASE PauseCancel
    BY <1>4, <2>3 DEF PauseCancel, TimerCalm, Starting, Stopping
  <2> QED
    BY <2>1, <2>2, <2>3
<1>12. FileCalm'
  BY <1>1, <1>4 DEF FileCalm, StreamCalm, TimerCalm, Starting, StartWait, StopState, PauseCancel, ResumeWait
<1> QED
  BY <1>6, <1>7, <1>8, <1>10, <1>11, <1>12

\* A handler that ends in the step that takes it.
LEMMA DoneKeepsCalm ==
  ASSUME OneAtATime, Calm, TypeOK',
         \/ StartRefused \/ TickIgnored
         \/ \E m \in MaxValues : SetMaximumAcquisitions(m)
         \/ \E b \in BOOLEAN : SetFileSaveMode(b)
  PROVE  Calm'
<1> USE DEF Calm
<1>1. /\ DispatchDone
      /\ UNCHANGED <<workVars, m_sequenceState, m_timer, m_running, m_output, fault>>
      /\ m_maxAcquisitions' = 0
  BY DEF StartRefused, TickIgnored, SetMaximumAcquisitions, SetFileSaveMode, WorkerCalm, OneAtATime
<1>2. PICK op : Dispatch(op)
  BY DEF StartRefused, TickIgnored, SetMaximumAcquisitions, SetFileSaveMode
<1>3. /\ ioq' = Tail(ioq) /\ UNCHANGED <<iopc, ioh>> /\ iopc = "idle"
      /\ Head(ioq) \in Posted /\ Head(ioq).op = op /\ Tail(ioq) \in Seq(Posted)
      /\ ~Handled
      /\ \A P : NoneOf(ioq, P) => NoneOf(Tail(ioq), P)
      /\ \A P : OneOf(ioq, P) => OneOf(Tail(ioq), P)
      /\ \A P : AtEnd(ioq, P) => AtEnd(Tail(ioq), P)
  BY <1>1, <1>2, Dispatched DEF DispatchDone
<1>4. Handling'
  BY <1>3 DEF Handling
<1>5. Sole'
  <2>1. OneOf(ioq', Commands) /\ ~Handled' /\ UNCHANGED <<jobs, wjob>>
    BY <1>1, <1>3 DEF Sole, Handled
  <2>2. CASE op \in Commands
    <3>1. ~Queued' /\ ~Submitted' /\ ~Worked'
      BY <1>2, <1>3, <2>1, <2>2, Dispatched DEF Queued, Submitted, Worked
    <3> QED
      BY <2>1, <3>1 DEF Sole
  <2>3. CASE op \notin Commands
    <3>1. Queued' => Queued
      BY <1>3 DEF Queued
    <3>2. Head(ioq).by \notin Clients
      BY <1>3, <2>3, ClientsAssumption DEF Posted, Tick
    <3>3. sent' = sent
      BY <1>1, <3>2 DEF DispatchDone, Respond
    <3> QED
      BY <2>1, <3>1, <3>3 DEF Sole, Submitted, Worked
  <2> QED
    BY <2>2, <2>3
<1>6. AsksRight'
  <2>1. Unwanted' = Unwanted
    BY <1>1 DEF Unwanted, Sensible
  <2> QED
    BY <1>3, <2>1 DEF AsksRight
<1>7. TimerCalm'
  BY <1>1, <1>3 DEF TimerCalm
<1>8. WorkerCalm'
  BY <1>1 DEF WorkerCalm
<1>9. FileCalm'
  <2>1. /\ m_multiple' = m_multiple \/ ~m_running
        /\ \/ UNCHANGED <<crossed, m_multiple>>
           \/ crossed' = (crossed \/ (Saving /\ m_multiple' # m_multiple))
    BY DEF StartRefused, TickIgnored, SetMaximumAcquisitions, SetFileSaveMode
  <2>2. ~crossed' => ~crossed /\ (m_multiple' = m_multiple \/ ~Saving)
    BY <2>1, Zenon
  <2>3. ~crossed' => StreamCalm'
    BY <1>1, <1>3, <2>1, <2>2 DEF FileCalm, StreamCalm, Saving, TypeOK
  <2> QED
    BY <1>1, <1>3, <2>2, <2>3 DEF FileCalm
<1> QED
  BY <1>4, <1>5, <1>6, <1>7, <1>8, <1>9

\* A completion is taken while the sequence is active only if its wait elapsed.
LEMMA OnlyElapsed ==
  ASSUME Calm, GetSpectrum
  PROVE  /\ Dispatch("expired") /\ m_timer # "waiting"
         /\ NoneOf(Tail(ioq), Ticks)
<1> USE DEF Calm
<1>1. iopc = "idle" /\ m_sequenceState = "ACTIVE" /\ "idle" \notin Stopping
  BY DEF GetSpectrum, Dispatch, Stopping
<1>2. NoneOf(ioq, {"aborted"}) /\ OneOf(ioq, Ticks)
  BY <1>1 DEF TimerCalm
<1>3. ~Dispatch("aborted")
  BY <1>2, Dispatched
<1>4. Dispatch("expired")
  BY <1>3 DEF GetSpectrum
<1>5. NoneOf(Tail(ioq), Ticks) /\ ~NoneOf(ioq, Ticks)
  BY <1>2, <1>4, Dispatched DEF Ticks
<1> QED
  BY <1>1, <1>4, <1>5 DEF TimerCalm

\* Entering a request, the io thread leaves no other one behind; its effect on
\* the queue keeps that so.
LEMMA EnteringKeepsSole ==
  ASSUME Calm, NEW op, Dispatch(op), ioh' = Head(ioq), UNCHANGED <<jobs, wjob, sent>>,
         NoneOf(Tail(ioq), Commands) => NoneOf(ioq', Commands),
         op \notin Commands => OneOf(ioq', Commands)
  PROVE  Sole'
<1> USE DEF Calm
<1>1. ioh'.op = op /\ ~Handled
  BY Dispatched
<1>2. CASE op \in Commands
  <2>1. ~Queued' /\ ~Submitted' /\ ~Worked' /\ \A c \in Clients : sent'[c] # "none"
    BY <1>2, Dispatched DEF Queued, Submitted, Worked
  <2>2. OneOf(ioq', Commands)
    BY <2>1, NoneOfPart DEF Queued
  <2> QED
    BY <2>1, <2>2 DEF Sole
<1>3. CASE op \notin Commands
  <2>1. ~Handled' /\ (Queued' => Queued)
    BY <1>1, <1>3, Dispatched DEF Handled, Queued
  <2> QED
    BY <1>3, <2>1 DEF Sole, Submitted, Worked
<1> QED
  BY <1>2, <1>3

\* The requests that change the state, each alone in the program.
LEMMA EnterKeepsCalm ==
  ASSUME Calm, TypeOK', PauseSequence \/ ResumeSequence \/ AcceptSave \/ StopSequence \/ StartSequence
  PROVE  Calm'
<1> USE DEF Calm
<1>1. PICK op \in Commands :
        /\ Dispatch(op)
        /\ \/ op = "pause" /\ PauseSequence
           \/ op = "resume" /\ ResumeSequence
           \/ op = "save" /\ AcceptSave
           \/ op = "stop" /\ StopSequence
           \/ op = "start" /\ StartSequence
  BY DEF PauseSequence, ResumeSequence, AcceptSave, StopSequence, StartSequence, Commands
<1>2. /\ Head(ioq) \in Posted /\ Head(ioq).op = op /\ Tail(ioq) \in Seq(Posted)
      /\ iopc = "idle"
      /\ NoneOf(Tail(ioq), Commands) /\ Sensible(op)
      /\ op \in {"start", "resume"} => Tail(ioq) = << >>
      /\ \A P : NoneOf(ioq, P) => NoneOf(Tail(ioq), P)
      /\ \A P : OneOf(ioq, P) => OneOf(Tail(ioq), P)
  BY <1>1, Dispatched
<1>3. /\ UNCHANGED <<jobs, wjob, wpc, sent, fault, m_maxAcquisitions, fileVars>>
      /\ ioh' = Head(ioq)
  BY <1>1 DEF Enter, PauseSequence, ResumeSequence, AcceptSave, StopSequence, StartSequence
<1>4. /\ ioq' \in Seq(Posted) /\ NoneOf(ioq', Commands)
      /\ op # "stop" => ioq' = Tail(ioq)
  <2>1. CASE op \in {"pause", "resume", "save"}
    BY <1>1, <1>2, <2>1 DEF PauseSequence, ResumeSequence, AcceptSave
  <2>2. CASE op = "start"
    <3>1. m_timer # "waiting"
      BY <1>2, <2>2 DEF Sensible, TimerCalm
    <3>2. PostDestroyed(<< >>) = << >>
      BY <3>1 DEF PostDestroyed, PostAborted
    <3>3. ioq' = Tail(ioq)
      BY <1>1, <1>2, <2>2, <3>2 DEF StartSequence
    <3> QED
      BY <1>2, <3>3
  <2>3. CASE op = "stop"
    <3>1. ioq' = PostAborted(Tail(ioq))
      BY <1>1, <2>3 DEF StopSequence
    <3>2. Tick("aborted").op \notin Commands /\ Tick("aborted") \in Posted
      BY PostedHandlers DEF Tick, Commands
    <3>3. NoneOf(Append(Tail(ioq), Tick("aborted")), Commands)
      BY <1>2, <3>2, Appended, Zenon
    <3>4. CASE m_timer = "waiting"
      BY <1>2, <2>3, <3>1, <3>2, <3>3, <3>4 DEF PostAborted
    <3>5. CASE m_timer # "waiting"
      BY <1>2, <2>3, <3>1, <3>5 DEF PostAborted
    <3> QED
      BY <3>4, <3>5
  <2> QED
    BY <1>1, <2>1, <2>2, <2>3
<1>5. Handling'
  BY <1>1, <1>2, <1>3, <1>4
  DEF Handling, Starting, Stopping, Enter, PauseSequence, ResumeSequence, AcceptSave,
      StopSequence, StartSequence
<1>6. Sole'
  BY <1>1, <1>3, <1>4, EnteringKeepsSole
<1>7. AsksRight'
  <2>1. Unwanted' \subseteq Commands /\ {"start", "resume"} \subseteq Commands
    BY DEF Unwanted, Commands
  <2> QED
    BY <1>4, <2>1, NoneOfPart DEF AsksRight
<1>8. WorkerCalm'
  BY <1>3 DEF WorkerCalm
<1>9. NoneOf(<< >>, Ticks) /\ NoneOf(<< >>, {"aborted"}) /\ OneOf(<< >>, Ticks)
  BY DEF NoneOf, OneOf
<1>10. TimerCalm'
  <2>1. CASE op = "pause"
    BY <1>1, <1>2, <2>1 DEF TimerCalm, Sensible, Starting, Stopping, Enter, PauseSequence
  <2>2. CASE op = "resume"
    <3>1. m_timer' = "idle" /\ m_sequenceState' = "ACTIVE" /\ iopc' = "resume_wait" /\ ioq' = << >>
      BY <1>1, <1>2, <1>4, <2>2 DEF TypeOK, TimerCalm, Sensible, Enter, ResumeSequence
    <3> QED
      BY <1>9, <3>1 DEF TimerCalm, Starting, Stopping
  <2>3. CASE op = "save"
    BY <1>1, <1>2, <1>4, <2>3 DEF TimerCalm, Starting, Stopping, Enter, AcceptSave
  <2>4. CASE op = "stop"
    BY <1>1, <1>2, <2>4 DEF TimerCalm, Sensible, Starting, Stopping, Enter, StopSequence
  <2>5. CASE op = "start"
    <3>1. /\ m_timer' = "idle" /\ iopc' = "start_state" /\ ioq' = << >>
          /\ m_sequenceState' \in {"NOT_YET_CONFIGURED", "NOT_YET_STARTED"}
      BY <1>1, <1>2, <1>4, <2>5 DEF Sensible, Enter, StartSequence
    <3> QED
      BY <1>9, <3>1 DEF TimerCalm, Starting, Stopping
  <2> QED
    BY <1>1, <2>1, <2>2, <2>3, <2>4, <2>5
<1>11. FileCalm'
  BY <1>1, <1>2, <1>3
  DEF FileCalm, StreamCalm, Sensible, Starting, Enter, PauseSequence, ResumeSequence, AcceptSave,
      StopSequence, StartSequence
<1> QED
  BY <1>5, <1>6, <1>7, <1>8, <1>10, <1>11

LEMMA AcquisitionKeepsCalm == ASSUME Calm, TypeOK', GetSpectrum PROVE Calm'
<1> USE DEF Calm
<1>1. /\ Dispatch("expired") /\ m_timer # "waiting" /\ NoneOf(Tail(ioq), Ticks)
      /\ iopc' = "rearm" /\ ioh' = Head(ioq) /\ ioq' = Tail(ioq)
      /\ m_sequenceState = "ACTIVE"
      /\ UNCHANGED <<seqVars, fileVars, workVars, sent, fault>>
  BY OnlyElapsed DEF GetSpectrum, Enter
<1>2. /\ Head(ioq) \in Posted /\ Head(ioq).op = "expired" /\ Tail(ioq) \in Seq(Posted)
      /\ \A P : NoneOf(ioq, P) => NoneOf(Tail(ioq), P)
      /\ \A P : OneOf(ioq, P) => OneOf(Tail(ioq), P)
      /\ \A P : AtEnd(ioq, P) => AtEnd(Tail(ioq), P)
      /\ iopc = "idle"
  BY <1>1, Dispatched
<1>3. Handling'
  BY <1>1, <1>2 DEF Handling, Starting, Stopping
<1>4. Sole'
  BY <1>1, <1>2, EnteringKeepsSole DEF Sole
<1>5. AsksRight'
  <2>1. Unwanted' = Unwanted
    BY <1>1 DEF Unwanted, Sensible
  <2> QED
    BY <1>1, <1>2, <2>1 DEF AsksRight
<1>6. TimerCalm'
  <2>1. NoneOf(ioq', {"aborted"}) /\ OneOf(ioq', Ticks)
    BY <1>1, NoneOfPart DEF Ticks
  <2>2. m_timer = "idle"
    BY <1>1 DEF TimerCalm, TypeOK
  <2> QED
    BY <1>1, <2>1, <2>2 DEF TimerCalm, Starting, Stopping
<1>7. WorkerCalm' /\ FileCalm'
  BY <1>1, <1>2 DEF WorkerCalm, FileCalm, StreamCalm, Starting
<1> QED
  BY <1>3, <1>4, <1>5, <1>6, <1>7

\* The timer that is armed again has no wait and no completion on its way.
LEMMA RearmKeepsCalm == ASSUME Calm, TypeOK', Rearm PROVE Calm'
<1> USE DEF Calm
<1>1. /\ iopc = "rearm" /\ m_timer = "idle" /\ NoneOf(ioq, Ticks)
      /\ m_sequenceState = "ACTIVE" /\ ioh.op = "expired"
  BY DEF Rearm, TimerCalm, Handling
<1>2. /\ ioq' = ioq /\ iopc' = "submit" /\ m_timer' = "waiting"
      /\ UNCHANGED <<m_sequenceState, m_maxAcquisitions, fileVars, ioh, workVars, sent, fault>>
  BY <1>1 DEF Rearm, PostAborted
<1>3. Handling' /\ Sole'
  BY <1>1, <1>2 DEF Handling, Starting, Stopping, Sole, Queued, Handled, Submitted, Worked
<1>4. AsksRight'
  BY <1>2 DEF AsksRight, Unwanted, Sensible
<1>5. TimerCalm'
  <2>1. NoneOf(ioq', {"aborted"}) /\ OneOf(ioq', Ticks)
    BY <1>1, <1>2, NoneOfPart DEF Ticks
  <2> QED
    BY <1>1, <1>2, <2>1 DEF TimerCalm, Starting, Stopping
<1>6. WorkerCalm' /\ FileCalm'
  BY <1>1, <1>2 DEF WorkerCalm, FileCalm, StreamCalm, Starting
<1> QED
  BY <1>3, <1>4, <1>5, <1>6

LEMMA NextCalm == ASSUME OneAtATime, Calm, [Next]_vars PROVE Calm'
<1>1. TypeOK'
  BY NextType DEF Calm
<1>2. ~GetSpectrumDangling
  <2>1. ASSUME Dispatch("dangling") PROVE FALSE
    BY <2>1, Dispatched, PostedHandlers DEF Commands
  <2> QED
    BY <2>1 DEF GetSpectrumDangling
<1>3. CASE UNCHANGED vars
  BY <1>1, <1>3
  DEF vars, Calm, Handling, Sole, Queued, Handled, Submitted, Worked, AsksRight, Unwanted,
      Sensible, WorkerCalm, TimerCalm, FileCalm, StreamCalm
<1>4. CASE Next
  BY <1>1, <1>2, <1>4, WorkerKeepsCalm, RequestKeepsCalm, ExpireKeepsCalm, SubmitKeepsCalm,
     InsideKeepsCalm, LeaveKeepsCalm, DoneKeepsCalm, EnterKeepsCalm, AcquisitionKeepsCalm,
     RearmKeepsCalm
  DEF Next, IoStep
<1> QED
  BY <1>3, <1>4

LEMMA AlwaysCalm == ASSUME OneAtATime PROVE Spec => []Calm
<1>1. Init => Calm
  BY InitCalm
<1>2. Calm /\ [Next]_vars => Calm'
  BY NextCalm
<1> QED
  BY <1>1, <1>2, PTL DEF Spec

\* The timer is never used when it is not there.
THEOREM CarefulNeverFault == ASSUME OneAtATime PROVE Spec => []NoTimerFault
<1>1. Calm => NoTimerFault
  BY DEF Calm, WorkerCalm, NoTimerFault
<1> QED
  BY <1>1, AlwaysCalm, PTL

\* The file follows the sequence, late acquisitions and their own files included,
\* as long as no mode is set in the middle of one.
THEOREM FileKept == ASSUME OneAtATime PROVE Spec => []FileFollowsSequence
<1>1. Calm => FileFollowsSequence
  BY DEF Calm, FileCalm, StreamCalm, FileFollowsSequence
<1> QED
  BY <1>1, AlwaysCalm, PTL

\* Only an elapsed interval submits an acquisition.
THEOREM IntervalPaces == ASSUME OneAtATime PROVE Spec => PacedByTimer
<1> DEFINE Paced == iopc' = "submit" => ioh'.op \in {"expired", "save"}
<1>1. Calm /\ Calm' => Paced
  BY DEF Calm, Handling
<1> QED
  BY <1>1, AlwaysCalm, PTL DEF PacedByTimer
=============================================================================
