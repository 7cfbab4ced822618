----------------------------- MODULE StsSequence -----------------------------
(***************************************************************************)
(* A sequence of acquisitions of the STS daemon: Sequence.cpp, with the    *)
(* FileManager it owns (FileManager.cpp), between the two threads that     *)
(* touch it.                                                               *)
(*                                                                         *)
(* The io thread runs io_service::run: it takes the posted handlers in     *)
(* order, each a request of a client or the completion of a timer wait.    *)
(* The worker thread of the spectrometer's active object executes the      *)
(* queued jobs; the job that reaches the maximum number of acquisitions    *)
(* stops the sequence from the worker. No lock covers m_sequenceState,     *)
(* m_acquisitionCount, m_timer or the file manager, so each access to one  *)
(* of them that the other thread can see is a step of its own.             *)
(*                                                                         *)
(* The active object is the abstract queue of JobQueue: a bounded FIFO and *)
(* a worker that runs one job at a time. What the module ActiveObject      *)
(* proves is what justifies that.                                          *)
(*                                                                         *)
(* A completion handler holds the pointer m_timer.get() of the time it was *)
(* registered, and the code gives it no look at the error code. Once the   *)
(* program has used a null pointer or a destroyed timer it has no further  *)
(* behaviour here.                                                         *)
(*                                                                         *)
(* The stream is not locked either. Two threads inside it at once is       *)
(* undefined; here the operations on it take effect one at a time, in any  *)
(* order.                                                                  *)
(*                                                                         *)
(* Left out: the result code and the responses, the cached spectrum (under *)
(* m_mutex), and the settings that no step below reads (prefix, directory, *)
(* interval, type, scope mode). Files are assumed to open when the stream  *)
(* is closed.                                                              *)
(***************************************************************************)
EXTENDS Integers, Sequences

CONSTANTS Clients,      \* connections with a request in progress, at most
          Careful,      \* TRUE: clients send only what the state calls for
          MaxValues,    \* the maxima a client may set; 0 is no maximum
          Capacity,     \* of the worker's queue of jobs; 128 in the daemon
          Requests,     \* bound: requests sent in all
          Acquisitions, \* bound on the count while there is no maximum
          NoClient

ASSUME ClientsAssumption == NoClient \notin Clients
ASSUME MaxValuesAssumption == MaxValues \subseteq Nat /\ MaxValues # {}
ASSUME BoundsAssumption == /\ Capacity \in Nat \ {0}
                           /\ Requests \in Nat
                           /\ Acquisitions \in Nat

VARIABLES
  m_sequenceState,     \* Sequence
  m_maxAcquisitions,
  m_acquisitionCount,
  m_timer,             \* "null", or whether a wait is pending on the timer
  m_multiple,          \* FileManager
  m_running,
  m_output,            \* the stream: "failed" is open with failbit set
  ioq,                 \* handlers posted to the io_service, oldest first
  iopc,                \* where the io thread is inside a handler
  ioh,                 \* the handler it runs
  jobs,                \* the worker's queue
  wpc,                 \* where the worker is inside a job
  wjob,                \* the job it runs
  wcount,              \* the worker's copy of the count inside ++
  wtimer,              \* the worker's copy of the timer pointer
  sent,                \* the request each client waits for
  budget,              \* requests left to send
  fault,               \* the undefined behaviour that ended the program
  saved,               \* history: acquisitions saved since the count's reset
  last,                \* history: the last number given to one, or -1
  limit,               \* history: the loosest maximum since the reset
  crossed              \* history: the mode has changed inside OnAcquisition

seqVars  == <<m_sequenceState, m_maxAcquisitions, m_acquisitionCount, m_timer>>
fileVars == <<m_multiple, m_running, m_output, crossed>>
ioVars   == <<ioq, iopc, ioh>>
workVars == <<jobs, wpc, wjob, wcount, wtimer>>
history  == <<saved, last, limit>>
vars == <<seqVars, fileVars, ioVars, workVars, sent, budget, fault, history>>

Commands == {"start", "pause", "resume", "stop", "setmax", "setmode", "save"}
States   == {"NOT_YET_CONFIGURED", "NOT_YET_STARTED", "PAUSED", "ACTIVE"}
Ticks    == {"expired", "aborted", "dangling"}

Handler == [op : Commands \cup Ticks, by : Clients \cup {NoClient}]
Job     == [op : {"entry", "save"}, by : Clients \cup {NoClient}]
NoHandler == [op |-> "none", by |-> NoClient]
Tick(op)  == [op |-> op, by |-> NoClient]
EntryJob  == [op |-> "entry", by |-> NoClient]

TypeOK ==
  /\ m_sequenceState \in States
  /\ m_maxAcquisitions \in MaxValues
  /\ m_acquisitionCount \in Nat
  /\ m_timer \in {"null", "idle", "waiting"}
  /\ m_multiple \in BOOLEAN
  /\ m_running \in BOOLEAN
  /\ m_output \in {"closed", "open", "failed"}
  /\ ioq \in Seq(Handler)
  /\ iopc \in {"idle", "start_state", "start_count", "start_running",
               "start_open", "start_wait", "pause_cancel", "resume_wait",
               "stop_close", "stop_running", "stop_state", "rearm", "submit"}
  /\ ioh \in Handler \cup {NoHandler}
  /\ jobs \in Seq(Job) /\ Len(jobs) <= Capacity
  /\ wpc \in {"idle", "entry", "save_entry", "mode", "open", "write", "retest",
              "close", "load", "store", "check", "cancel", "cancel_call",
              "stop_mode", "stop_close", "stop_running", "stop_state", "save"}
  /\ wjob \in Job \cup {NoHandler}
  /\ wcount \in Nat
  /\ wtimer \in {"null", "live", "dangling"}
  /\ sent \in [Clients -> Commands \cup {"none"}]
  /\ budget \in 0 .. Requests
  /\ fault \in {"none", "null_timer", "destroyed_timer"}
  /\ saved \in Nat /\ last \in Nat \cup {-1} /\ limit \in Nat
  /\ crossed \in BOOLEAN

\* The constructors: the maximum and the save mode come from the
\* configuration file. m_acquisitionCount has no initial value and StartSequence
\* sets it before any job is queued; 0 stands for whatever it holds.
Init ==
  /\ m_sequenceState = "NOT_YET_CONFIGURED"
  /\ m_maxAcquisitions \in MaxValues
  /\ m_acquisitionCount = 0
  /\ m_timer = "null"
  /\ m_multiple \in BOOLEAN
  /\ m_running = FALSE
  /\ m_output = "closed"
  /\ ioq = << >> /\ iopc = "idle" /\ ioh = NoHandler
  /\ jobs = << >> /\ wpc = "idle" /\ wjob = NoHandler
  /\ wcount = 0 /\ wtimer = "null"
  /\ sent = [c \in Clients |-> "none"]
  /\ budget = Requests
  /\ fault = "none"
  /\ saved = 0 /\ last = -1 /\ limit = m_maxAcquisitions
  /\ crossed = FALSE

-----------------------------------------------------------------------------
(* The clients.                                                            *)

\* What a client asks for when it looks at the state first.
Sensible(op) ==
  CASE op = "start"  -> m_sequenceState \in {"NOT_YET_CONFIGURED", "NOT_YET_STARTED"}
    [] op = "pause"  -> m_sequenceState = "ACTIVE"
    [] op = "resume" -> m_sequenceState = "PAUSED"
    [] op = "stop"   -> m_sequenceState \in {"ACTIVE", "PAUSED"}
    [] OTHER         -> TRUE

Request(c, op) ==
  /\ sent[c] = "none"
  /\ budget > 0
  /\ Careful => Sensible(op)
  /\ sent' = [sent EXCEPT ![c] = op]
  /\ budget' = budget - 1
  /\ ioq' = Append(ioq, [op |-> op, by |-> c])
  /\ UNCHANGED <<seqVars, fileVars, iopc, ioh, workVars, fault, history>>

-----------------------------------------------------------------------------
(* boost::asio::deadline_timer and std::ofstream, as the code uses them.   *)

\* cancel, expires_at and expires_from_now complete the pending wait with
\* operation_aborted: its handler is posted behind those already there.
PostAborted(q) ==
  IF m_timer = "waiting" THEN Append(q, Tick("aborted")) ELSE q

\* Destroying the timer does the same, and no handler registered on it may
\* use its pointer any more.
PostDestroyed(q) ==
  [i \in 1 .. Len(PostAborted(q)) |->
     IF PostAborted(q)[i].op \in Ticks THEN Tick("dangling")
     ELSE PostAborted(q)[i]]

\* The bound on the acquisitions of a sequence without a maximum.
Bounded == m_maxAcquisitions # 0 \/ m_acquisitionCount + Len(jobs) < Acquisitions

\* The wait ends when its time has come.
Expire ==
  /\ m_timer = "waiting"
  /\ Bounded
  /\ m_timer' = "idle"
  /\ ioq' = Append(ioq, Tick("expired"))
  /\ UNCHANGED <<m_sequenceState, m_maxAcquisitions, m_acquisitionCount, fileVars,
                 iopc, ioh, workVars, sent, budget, fault, history>>

\* ofstream::open on a stream that is open sets failbit and changes nothing
\* else; on a closed one it succeeds and clears the state.
Opened == IF m_output = "closed" THEN "open" ELSE "failed"

-----------------------------------------------------------------------------
(* The io thread: one handler at a time, taken from the head of ioq.       *)

Dispatch(op) ==
  /\ iopc = "idle"
  /\ ioq # << >>
  /\ Head(ioq).op = op

\* HandleResponse: the client has its answer and may send again.
Respond(h) ==
  sent' = IF h.by \in Clients THEN [sent EXCEPT ![h.by] = "none"] ELSE sent

Enter(pc) == /\ iopc' = pc
             /\ ioh' = Head(ioq)

Leave == /\ iopc' = "idle"
         /\ ioh' = NoHandler
         /\ Respond(ioh)

\* A handler that ends in the step that takes it.
DispatchDone == /\ ioq' = Tail(ioq)
                /\ Respond(Head(ioq))
                /\ UNCHANGED <<iopc, ioh>>

\* StartSequence when the interval is shorter than an acquisition takes:
\* SEQUENCE_ACQUISITION_CONFLICT, and nothing changes.
StartRefused ==
  /\ Dispatch("start")
  /\ DispatchDone
  /\ UNCHANGED <<seqVars, fileVars, workVars, budget, fault, history>>

\* m_timer.reset(new deadline_timer): whether or not a wait was pending.
StartSequence ==
  /\ Dispatch("start")
  /\ ioq' = PostDestroyed(Tail(ioq))
  /\ m_timer' = "idle"
  /\ wtimer' = IF wtimer = "live" THEN "dangling" ELSE wtimer
  /\ Enter("start_state")
  /\ UNCHANGED <<m_sequenceState, m_maxAcquisitions, m_acquisitionCount, fileVars,
                 jobs, wpc, wjob, wcount, sent, budget, fault, history>>

StartState ==
  /\ iopc = "start_state"
  /\ m_sequenceState' = "ACTIVE"
  /\ iopc' = "start_count"
  /\ UNCHANGED <<m_maxAcquisitions, m_acquisitionCount, m_timer, fileVars, ioq, ioh,
                 workVars, sent, budget, fault, history>>

StartCount ==
  /\ iopc = "start_count"
  /\ m_acquisitionCount' = 0
  /\ saved' = 0 /\ last' = -1 /\ limit' = m_maxAcquisitions
  /\ iopc' = "start_running"
  /\ UNCHANGED <<m_sequenceState, m_maxAcquisitions, m_timer, fileVars, ioq, ioh,
                 workVars, sent, budget, fault>>

\* FileManager::OnStart, its two halves.
StartRunning ==
  /\ iopc = "start_running"
  /\ m_running' = TRUE
  /\ iopc' = "start_open"
  /\ UNCHANGED <<seqVars, m_multiple, m_output, crossed, ioq, ioh, workVars, sent, budget,
                 fault, history>>

StartOpen ==
  /\ iopc = "start_open"
  /\ m_output' = IF m_multiple THEN m_output ELSE Opened
  /\ iopc' = "start_wait"
  /\ UNCHANGED <<seqVars, m_multiple, m_running, crossed, ioq, ioh, workVars, sent, budget,
                 fault, history>>

StartWait ==
  /\ iopc = "start_wait"
  /\ m_timer' = "waiting"
  /\ Leave
  /\ UNCHANGED <<m_sequenceState, m_maxAcquisitions, m_acquisitionCount, fileVars,
                 ioq, workVars, budget, fault, history>>

PauseSequence ==
  /\ Dispatch("pause")
  /\ m_sequenceState' = "PAUSED"
  /\ ioq' = Tail(ioq)
  /\ Enter("pause_cancel")
  /\ UNCHANGED <<m_maxAcquisitions, m_acquisitionCount, m_timer, fileVars, workVars,
                 sent, budget, fault, history>>

\* Mutant: the wait that is pending stays pending.
PauseCancel_Nothing ==
  /\ iopc = "pause_cancel"
  /\ Leave
  /\ UNCHANGED <<seqVars, fileVars, ioq, workVars, budget, fault, history>>

PauseCancel ==
  /\ iopc = "pause_cancel"
  /\ ioq' = PostAborted(ioq)
  /\ m_timer' = IF m_timer = "null" THEN "null" ELSE "idle"
  /\ Leave
  /\ UNCHANGED <<m_sequenceState, m_maxAcquisitions, m_acquisitionCount, fileVars,
                 workVars, budget, fault, history>>

ResumeSequence ==
  /\ Dispatch("resume")
  /\ m_sequenceState' = "ACTIVE"
  /\ ioq' = Tail(ioq)
  /\ Enter("resume_wait")
  /\ UNCHANGED <<m_maxAcquisitions, m_acquisitionCount, m_timer, fileVars, workVars,
                 sent, budget, fault, history>>

\* Mutant: the timer gets a new time and nobody waits for it.
ResumeWait_NotWaiting ==
  /\ iopc = "resume_wait"
  /\ m_timer # "null"
  /\ ioq' = PostAborted(ioq)
  /\ m_timer' = "idle"
  /\ Leave
  /\ UNCHANGED <<m_sequenceState, m_maxAcquisitions, m_acquisitionCount, fileVars,
                 workVars, budget, fault, history>>

\* m_timer is dereferenced without the test that PauseSequence has.
ResumeWait ==
  /\ iopc = "resume_wait"
  /\ IF m_timer = "null"
       THEN /\ fault' = "null_timer"
            /\ UNCHANGED <<ioq, m_timer>>
       ELSE /\ ioq' = PostAborted(ioq)
            /\ m_timer' = "waiting"
            /\ UNCHANGED fault
  /\ Leave
  /\ UNCHANGED <<m_sequenceState, m_maxAcquisitions, m_acquisitionCount, fileVars,
                 workVars, budget, history>>

\* Mutant: the timer is not cancelled.
StopSequence_NoCancel ==
  /\ Dispatch("stop")
  /\ ioq' = Tail(ioq)
  /\ Enter("stop_close")
  /\ UNCHANGED <<seqVars, fileVars, workVars, sent, budget, fault, history>>

\* StopSequence(arguments) calls StopSequence(): cancel, then OnStop, then
\* the state.
StopSequence ==
  /\ Dispatch("stop")
  /\ ioq' = PostAborted(Tail(ioq))
  /\ m_timer' = IF m_timer = "null" THEN "null" ELSE "idle"
  /\ Enter("stop_close")
  /\ UNCHANGED <<m_sequenceState, m_maxAcquisitions, m_acquisitionCount, fileVars,
                 workVars, sent, budget, fault, history>>

\* FileManager::OnStop, its two halves. The mode is tested and the file closed
\* in one step: only this thread changes the mode.
StopClose ==
  /\ iopc = "stop_close"
  /\ m_output' = IF m_multiple THEN m_output ELSE "closed"
  /\ iopc' = "stop_running"
  /\ UNCHANGED <<seqVars, m_multiple, m_running, crossed, ioq, ioh, workVars, sent, budget,
                 fault, history>>

StopRunning ==
  /\ iopc = "stop_running"
  /\ m_running' = FALSE
  /\ iopc' = "stop_state"
  /\ UNCHANGED <<seqVars, m_multiple, m_output, crossed, ioq, ioh, workVars, sent, budget,
                 fault, history>>

StopState ==
  /\ iopc = "stop_state"
  /\ m_sequenceState' = "NOT_YET_STARTED"
  /\ Leave
  /\ UNCHANGED <<m_maxAcquisitions, m_acquisitionCount, m_timer, fileVars, ioq,
                 workVars, budget, fault, history>>

\* The looser of two maxima.
Looser(a, b) == IF a = 0 \/ b = 0 THEN 0 ELSE IF a > b THEN a ELSE b

SetMaximumAcquisitions(m) ==
  /\ Dispatch("setmax")
  /\ m_maxAcquisitions' = m
  /\ limit' = Looser(limit, m)
  /\ DispatchDone
  /\ UNCHANGED <<m_sequenceState, m_acquisitionCount, m_timer, fileVars, workVars,
                 budget, fault, saved, last>>

\* The worker is between the first test of the mode in OnAcquisition and the
\* end of it.
Saving == wpc \in {"open", "write", "retest", "close"}

\* Mutant: the mode also changes while a sequence is running.
SetFileSaveMode_Anytime(multiple) ==
  /\ Dispatch("setmode")
  /\ m_multiple' = multiple
  /\ crossed' = (crossed \/ (Saving /\ m_multiple' # m_multiple))
  /\ DispatchDone
  /\ UNCHANGED <<seqVars, m_running, m_output, workVars, budget, fault, history>>

\* FileManager::SetSaveMode keeps the mode while a sequence is running.
SetFileSaveMode(multiple) ==
  /\ Dispatch("setmode")
  /\ m_multiple' = IF m_running THEN m_multiple ELSE multiple
  /\ crossed' = (crossed \/ (Saving /\ m_multiple' # m_multiple))
  /\ DispatchDone
  /\ UNCHANGED <<seqVars, m_running, m_output, workVars, budget, fault, history>>

\* Accept submits SAVE_SPECTRUM to the worker instead of running it here.
AcceptSave ==
  /\ Dispatch("save")
  /\ ioq' = Tail(ioq)
  /\ Enter("submit")
  /\ UNCHANGED <<seqVars, fileVars, workVars, sent, budget, fault, history>>

\* The completion handler GetSpectrum(code, t) outside an active sequence.
TickIgnored ==
  /\ \E op \in Ticks : Dispatch(op)
  /\ m_sequenceState # "ACTIVE"
  /\ DispatchDone
  /\ UNCHANGED <<seqVars, fileVars, workVars, budget, fault, history>>

\* GetSpectrum in an active sequence, whatever code says.
GetSpectrum ==
  /\ \E op \in {"expired", "aborted"} : Dispatch(op)
  /\ m_sequenceState = "ACTIVE"
  /\ Bounded
  /\ ioq' = Tail(ioq)
  /\ Enter("rearm")
  /\ UNCHANGED <<seqVars, fileVars, workVars, sent, budget, fault, history>>

\* Mutant: the timer gets its new time and nobody waits for it.
Rearm_OneShot ==
  /\ iopc = "rearm"
  /\ ioq' = PostAborted(ioq)
  /\ m_timer' = "idle"
  /\ iopc' = "submit"
  /\ UNCHANGED <<m_sequenceState, m_maxAcquisitions, m_acquisitionCount, fileVars,
                 ioh, workVars, sent, budget, fault, history>>

\* t->expires_at aborts a wait that is pending on t, async_wait adds one. The
\* worker may have stopped the sequence since the test of the state.
Rearm ==
  /\ iopc = "rearm"
  /\ ioq' = PostAborted(ioq)
  /\ m_timer' = "waiting"
  /\ iopc' = "submit"
  /\ UNCHANGED <<m_sequenceState, m_maxAcquisitions, m_acquisitionCount, fileVars,
                 ioh, workVars, sent, budget, fault, history>>

GetSpectrumDangling ==
  /\ Dispatch("dangling")
  /\ m_sequenceState = "ACTIVE"
  /\ fault' = "destroyed_timer"
  /\ UNCHANGED <<seqVars, fileVars, ioVars, workVars, sent, budget, history>>

\* Spectrometer::Submit: blocks the io thread while the queue is full. The
\* client of a SAVE_SPECTRUM is answered by the worker.
Submit ==
  /\ iopc = "submit"
  /\ Len(jobs) < Capacity
  /\ jobs' = Append(jobs, IF ioh.op = "save" THEN ioh ELSE EntryJob)
  /\ iopc' = "idle"
  /\ ioh' = NoHandler
  /\ UNCHANGED <<seqVars, fileVars, ioq, wpc, wjob, wcount, wtimer, sent, budget,
                 fault, history>>

-----------------------------------------------------------------------------
(* The worker thread.                                                      *)

Take ==
  /\ wpc = "idle"
  /\ jobs # << >>
  /\ wjob' = Head(jobs)
  /\ jobs' = Tail(jobs)
  /\ wpc' = Head(jobs).op
  /\ UNCHANGED <<seqVars, fileVars, ioVars, wcount, wtimer, sent, budget, fault, history>>

\* Mutant: the client is not answered.
SaveSpectrum_Silent ==
  /\ wpc = "save"
  /\ wpc' = "idle"
  /\ wjob' = NoHandler
  /\ UNCHANGED <<seqVars, fileVars, ioVars, jobs, wcount, wtimer, sent, budget, fault,
                 history>>

\* SaveSpectrumMessage::Execute: a file of its own, whatever the sequence does.
SaveSpectrum ==
  /\ wpc = "save"
  /\ Respond(wjob)
  /\ wpc' = "idle"
  /\ wjob' = NoHandler
  /\ UNCHANGED <<seqVars, fileVars, ioVars, jobs, wcount, wtimer, budget, fault, history>>

\* Mutant: the test lets one more through.
SaveSequenceEntry_OneMore ==
  /\ wpc = "entry"
  /\ wpc' = IF m_maxAcquisitions = 0 \/ m_acquisitionCount <= m_maxAcquisitions
            THEN "save_entry" ELSE "load"
  /\ UNCHANGED <<seqVars, fileVars, ioVars, jobs, wjob, wcount, wtimer, sent, budget,
                 fault, history>>

\* SaveSequenceEntry: the acquisition, which lasts from Take to this step, and
\* the test against the maximum.
SaveSequenceEntry ==
  /\ wpc = "entry"
  /\ wpc' = IF m_maxAcquisitions = 0 \/ m_acquisitionCount < m_maxAcquisitions
            THEN "save_entry" ELSE "load"
  /\ UNCHANGED <<seqVars, fileVars, ioVars, jobs, wjob, wcount, wtimer, sent, budget,
                 fault, history>>

\* FileManager::OnAcquisition is called with the count as the number: the
\* acquisition has it from here on, whatever the io thread does before the write.
OnAcquisition ==
  /\ wpc = "save_entry"
  /\ last' = m_acquisitionCount
  /\ wpc' = "mode"
  /\ UNCHANGED <<seqVars, fileVars, ioVars, jobs, wjob, wcount, wtimer, sent, budget,
                 fault, saved, limit>>

\* A step of OnAcquisition from one place to the next.
Saves(from, to) ==
  /\ wpc = from
  /\ wpc' = to
  /\ UNCHANGED <<seqVars, m_multiple, m_running, crossed, ioVars, jobs, wjob, wcount,
                 wtimer, sent, budget, fault, last, limit>>

\* The mode is read before the write and again after it.
TestMode ==
  /\ Saves("mode", IF m_multiple THEN "open" ELSE "write")
  /\ UNCHANGED <<m_output, saved>>

OpenSequenceNumber ==
  /\ Saves("open", "write")
  /\ m_output' = Opened
  /\ UNCHANGED saved

SaveToFile ==
  /\ Saves("write", "retest")
  /\ saved' = saved + 1
  /\ UNCHANGED m_output

TestModeAgain ==
  /\ Saves("retest", IF m_multiple THEN "close" ELSE "load")
  /\ UNCHANGED <<m_output, saved>>

CloseSequenceNumber ==
  /\ Saves("close", "load")
  /\ m_output' = "closed"
  /\ UNCHANGED saved

\* ++m_acquisitionCount is not atomic: a load and a store.
CountLoad ==
  /\ wpc = "load"
  /\ wcount' = m_acquisitionCount
  /\ wpc' = "store"
  /\ UNCHANGED <<seqVars, fileVars, ioVars, jobs, wjob, wtimer, sent, budget, fault, history>>

\* Mutant: only acquisitions with a file of their own are counted.
CountStore_MultipleOnly ==
  /\ wpc = "store"
  /\ m_acquisitionCount' = IF m_multiple THEN wcount + 1 ELSE wcount
  /\ wcount' = 0
  /\ wpc' = "check"
  /\ UNCHANGED <<m_sequenceState, m_maxAcquisitions, m_timer, fileVars, ioVars, jobs,
                 wjob, wtimer, sent, budget, fault, history>>

CountStore ==
  /\ wpc = "store"
  /\ m_acquisitionCount' = wcount + 1
  /\ wcount' = 0
  /\ wpc' = "check"
  /\ UNCHANGED <<m_sequenceState, m_maxAcquisitions, m_timer, fileVars, ioVars, jobs,
                 wjob, wtimer, sent, budget, fault, history>>

MaximumReached == /\ m_maxAcquisitions # 0
                  /\ m_acquisitionCount >= m_maxAcquisitions

Check ==
  /\ wpc = "check"
  /\ wpc' = IF MaximumReached THEN "cancel" ELSE "idle"
  /\ wjob' = IF MaximumReached THEN wjob ELSE NoHandler
  /\ UNCHANGED <<seqVars, fileVars, ioVars, jobs, wcount, wtimer, sent, budget, fault, history>>

\* StopSequence() on the worker: the pointer is read, then used.
WorkerTimer ==
  /\ wpc = "cancel"
  /\ wtimer' = IF m_timer = "null" THEN "null" ELSE "live"
  /\ wpc' = IF m_timer = "null" THEN "stop_mode" ELSE "cancel_call"
  /\ UNCHANGED <<seqVars, fileVars, ioVars, jobs, wjob, wcount, sent, budget, fault, history>>

WorkerCancel ==
  /\ wpc = "cancel_call"
  /\ IF wtimer = "dangling"
       THEN /\ fault' = "destroyed_timer"
            /\ UNCHANGED <<ioq, m_timer>>
       ELSE /\ ioq' = PostAborted(ioq)
            /\ m_timer' = "idle"
            /\ UNCHANGED fault
  /\ wtimer' = "null"
  /\ wpc' = "stop_mode"
  /\ UNCHANGED <<m_sequenceState, m_maxAcquisitions, m_acquisitionCount, fileVars, iopc,
                 ioh, jobs, wjob, wcount, sent, budget, history>>

WorkerMode ==
  /\ wpc = "stop_mode"
  /\ wpc' = IF m_multiple THEN "stop_running" ELSE "stop_close"
  /\ UNCHANGED <<seqVars, fileVars, ioVars, jobs, wjob, wcount, wtimer, sent, budget,
                 fault, history>>

WorkerClose ==
  /\ wpc = "stop_close"
  /\ m_output' = "closed"
  /\ wpc' = "stop_running"
  /\ UNCHANGED <<seqVars, m_multiple, m_running, crossed, ioVars, jobs, wjob, wcount,
                 wtimer, sent, budget, fault, history>>

WorkerRunning ==
  /\ wpc = "stop_running"
  /\ m_running' = FALSE
  /\ wpc' = "stop_state"
  /\ UNCHANGED <<seqVars, m_multiple, m_output, crossed, ioVars, jobs, wjob, wcount,
                 wtimer, sent, budget, fault, history>>

WorkerState ==
  /\ wpc = "stop_state"
  /\ m_sequenceState' = "NOT_YET_STARTED"
  /\ wpc' = "idle"
  /\ wjob' = NoHandler
  /\ UNCHANGED <<m_maxAcquisitions, m_acquisitionCount, m_timer, fileVars, ioVars, jobs,
                 wcount, wtimer, sent, budget, fault, history>>

-----------------------------------------------------------------------------
IoStep == \/ StartRefused \/ StartSequence \/ StartState \/ StartCount
          \/ StartRunning \/ StartOpen \/ StartWait
          \/ PauseSequence \/ PauseCancel
          \/ ResumeSequence \/ ResumeWait
          \/ StopSequence \/ StopClose \/ StopRunning \/ StopState
          \/ \E m \in MaxValues : SetMaximumAcquisitions(m)
          \/ \E b \in BOOLEAN : SetFileSaveMode(b)
          \/ AcceptSave \/ Submit
          \/ TickIgnored \/ GetSpectrum \/ Rearm \/ GetSpectrumDangling

WorkerStep == \/ Take \/ SaveSpectrum
              \/ SaveSequenceEntry \/ OnAcquisition \/ TestMode \/ OpenSequenceNumber
              \/ SaveToFile \/ TestModeAgain \/ CloseSequenceNumber
              \/ CountLoad \/ CountStore \/ Check
              \/ WorkerTimer \/ WorkerCancel \/ WorkerMode \/ WorkerClose
              \/ WorkerRunning \/ WorkerState

Next == /\ fault = "none"
        /\ \/ \E c \in Clients, op \in Commands : Request(c, op)
           \/ Expire
           \/ IoStep
           \/ WorkerStep

\* Both threads run, and a timer that is not cancelled expires. Clients need
\* not send anything.
Fairness == /\ WF_vars(fault = "none" /\ IoStep)
            /\ WF_vars(fault = "none" /\ WorkerStep)
            /\ WF_vars(fault = "none" /\ Expire)

Spec == Init /\ [][Next]_vars
FairSpec == Spec /\ Fairness
-----------------------------------------------------------------------------
(* Properties.                                                             *)

\* A maximum is never exceeded, whatever the clients send and however the
\* threads interleave: between two resets of the count no more acquisitions
\* are saved than the loosest maximum that was in force allows. The test and
\* the increment are separate, the reset can fall between them, and jobs of
\* an earlier sequence may still be queued.
SavedWithinMaximum == limit # 0 => saved <= limit

\* Between two resets of the count no two acquisitions are given one number, and
\* later ones get higher numbers: no file of a sequence is appended to twice.
\* The number is the one OnAcquisition is called with.
NumbersIncrease ==
  [][last' # -1 => /\ last' >= last
                   /\ wpc = "save_entry" /\ wpc' # "save_entry" => last' > last]_vars

Completing(q) == \E i \in 1 .. Len(q) : q[i].op \in {"expired", "aborted"}

\* An active sequence cannot fall silent: there is always a wait pending on
\* its timer, a completion on its way, or a handler about to wait.
ActiveHasWait ==
  m_sequenceState = "ACTIVE" =>
    \/ m_timer = "waiting"
    \/ Completing(ioq)
    \/ iopc \in {"start_state", "start_count", "start_running", "start_open",
                 "start_wait", "resume_wait", "rearm", "stop_close", "stop_running",
                 "stop_state"}
    \/ fault # "none"

\* Clients that look at the state before they send never make the program
\* use a null or destroyed timer.
NoTimerFault == fault = "none"

\* Acquisitions are paced by the interval, "the time between acquisitions"
\* (Sequence.h:313): one is submitted only when the interval has elapsed,
\* never because a wait was cancelled.
PacedByTimer == [][iopc' = "submit" => ioh'.op \in {"expired", "save"}]_ioVars

\* A sequence that runs in single-file mode has its file open and usable, so
\* every acquisition of it reaches the file. One that does not run holds no file,
\* so that a new mode or directory takes effect, but for the file of its own that
\* a late acquisition is being written to; that file is open when it is written.
\* All this while no mode was ever set in the middle of a late acquisition.
FileFollowsSequence ==
  ~crossed =>
    /\ m_running /\ ~m_multiple /\ iopc \notin {"start_open", "stop_running"} =>
         m_output = "open"
    /\ ~m_running /\ m_output # "closed" =>
         m_multiple /\ wpc \in {"write", "retest", "close"}
    /\ m_multiple /\ wpc = "write" => m_output = "open"

\* Left alone, a sequence with a maximum comes to its end.
SequenceEnds ==
  (m_sequenceState = "ACTIVE" /\ m_maxAcquisitions # 0)
    ~> (m_sequenceState # "ACTIVE" \/ m_maxAcquisitions = 0 \/ fault # "none")

\* Every request is answered: the io thread never blocks for good on the
\* worker's queue, and the worker answers the requests it was handed.
RequestsAnswered ==
  \A c \in Clients : sent[c] # "none" ~> (sent[c] = "none" \/ fault # "none")

-----------------------------------------------------------------------------
(* What comments in Sequence.cpp and FileManager.cpp say and the code does *)
(* not do.                                                                 *)

\* "Stop this sequence of acquisitions." (Sequence.cpp:397): after the stop
\* no acquisition is due until a sequence is started or resumed.
StoppedHasNoWait ==
  m_sequenceState = "NOT_YET_STARTED" /\ iopc = "idle" => m_timer # "waiting"

\* "a single file (append each acquisition)" (FileManager.cpp:60): in single-file
\* mode a running sequence writes to a file that is open.
SingleFileAppends ==
  m_running /\ ~m_multiple /\ wpc = "write" /\ iopc \notin {"start_open", "stop_running"} =>
    m_output = "open"
=============================================================================
