---------------------------- MODULE ActiveObject ----------------------------
(***************************************************************************)
(* The active object that runs the jobs of one spectrometer of the STS     *)
(* daemon (daemons/STS-Dev-Kit/ActiveObject.h and ActiveObject.cpp): a     *)
(* bounded buffer with one mutex and two condition variables, the threads  *)
(* that send jobs into it, and the worker thread that takes and executes   *)
(* them.                                                                   *)
(*                                                                         *)
(* The buffer is a circular buffer that keeps the jobs already taken until *)
(* new ones overwrite them: only the m_unread newest entries are waiting,  *)
(* and the oldest of these is at index m_unread - 1 (m_unread here, since  *)
(* sequences count from 1).                                                *)
(*                                                                         *)
(* What happens between a lock and the unlock or wait that ends it is one  *)
(* step. The notification that follows the unlock is a step of its own, so *)
(* another thread can run in between.                                      *)
(***************************************************************************)
EXTENDS Naturals, Sequences, FiniteSets

CONSTANTS Senders,   \* the threads that call Send
          Owner,     \* the sender that runs the destructor
          Jobs,      \* the jobs sent, each at most once
          Done,      \* m_done, sent by the destructor only
          NoJob,     \* no message held
          Capacity   \* of the circular buffer; 128 in the daemon

ASSUME OwnerAssumption == Owner \in Senders
ASSUME CapacityAssumption == Capacity \in Nat \ {0}
ASSUME JobsAssumption == Done \notin Jobs /\ NoJob \notin Jobs /\ NoJob # Done

Messages == Jobs \cup {Done}

VARIABLES m_container,  \* the circular buffer, newest entry first
          m_unread,     \* how many of its entries have not been taken
          notFull,      \* the threads waiting on m_not_full
          spc,          \* where each sender is
          arg,          \* the message each sender is sending
          wpc,          \* where the worker thread is
          msg,          \* the worker's msg
          accepted,     \* history: every message pushed, in order
          executed      \* history: every message executed, in order

vars == <<m_container, m_unread, notFull, spc, arg, wpc, msg, accepted, executed>>

buffer == <<m_container, m_unread>>

SenderPC == {"idle", "push", "wait", "notify", "join", "gone"}
WorkerPC == {"pop", "wait", "notify", "execute", "finished"}

TypeOK ==
  /\ m_container \in Seq(Messages)
  /\ Len(m_container) <= Capacity
  /\ m_unread \in 0 .. Len(m_container)
  /\ notFull \subseteq Senders
  /\ spc \in [Senders -> SenderPC]
  /\ arg \in [Senders -> Messages \cup {NoJob}]
  /\ wpc \in WorkerPC
  /\ msg \in Messages \cup {NoJob}
  /\ accepted \in Seq(Messages)
  /\ executed \in Seq(Messages)

Init ==
  /\ m_container = << >>
  /\ m_unread = 0
  /\ notFull = {}
  /\ spc = [s \in Senders |-> "idle"]
  /\ arg = [s \in Senders |-> NoJob]
  /\ wpc = "pop"
  /\ msg = NoJob
  /\ accepted = << >>
  /\ executed = << >>

is_not_empty == m_unread > 0
is_not_full  == m_unread < Capacity

\* boost::circular_buffer::push_front: the newest entry comes first and the
\* oldest one is dropped when the buffer is at its capacity.
PushFront(c, m) ==
  [i \in 1 .. (IF Len(c) < Capacity THEN Len(c) + 1 ELSE Capacity) |->
     IF i = 1 THEN m ELSE c[i - 1]]

-----------------------------------------------------------------------------
(* The senders: ActiveObject::Send and bounded_buffer::push_front.         *)

\* Once the owner is in the destructor no other thread may use the object.
Destroying == spc[Owner] \in {"join", "gone"} \/ arg[Owner] = Done

\* A job that no sender has sent yet.
Fresh(j) == /\ \A i \in 1 .. Len(accepted) : accepted[i] # j
            /\ \A s \in Senders : arg[s] # j

Send(s, j) ==
  /\ spc[s] = "idle"
  /\ ~Destroying
  /\ Fresh(j)
  /\ spc' = [spc EXCEPT ![s] = "push"]
  /\ arg' = [arg EXCEPT ![s] = j]
  /\ UNCHANGED <<m_container, m_unread, notFull, wpc, msg, accepted, executed>>

\* The destructor starts when no thread is inside Send: the daemon destroys
\* its spectrometers after io_service::run has returned.
Destroy ==
  /\ \A s \in Senders : spc[s] = "idle"
  /\ spc' = [spc EXCEPT ![Owner] = "push"]
  /\ arg' = [arg EXCEPT ![Owner] = Done]
  /\ UNCHANGED <<m_container, m_unread, notFull, wpc, msg, accepted, executed>>

PushWait(s) ==
  /\ spc[s] = "push"
  /\ ~is_not_full
  /\ spc' = [spc EXCEPT ![s] = "wait"]
  /\ notFull' = notFull \cup {s}
  /\ UNCHANGED <<m_container, m_unread, arg, wpc, msg, accepted, executed>>

\* Mutant: the new entry is not counted.
Push_NotCounted(s) ==
  /\ spc[s] = "push"
  /\ is_not_full
  /\ m_container' = PushFront(m_container, arg[s])
  /\ accepted' = Append(accepted, arg[s])
  /\ spc' = [spc EXCEPT ![s] = "notify"]
  /\ UNCHANGED <<m_unread, notFull, arg, wpc, msg, executed>>

Push(s) ==
  /\ spc[s] = "push"
  /\ is_not_full
  /\ m_container' = PushFront(m_container, arg[s])
  /\ m_unread' = m_unread + 1
  /\ accepted' = Append(accepted, arg[s])
  /\ spc' = [spc EXCEPT ![s] = "notify"]
  /\ UNCHANGED <<notFull, arg, wpc, msg, executed>>

\* Mutant: the worker is not notified.
NotifyNotEmpty_Silent(s) ==
  /\ spc[s] = "notify"
  /\ spc' = [spc EXCEPT ![s] = IF arg[s] = Done THEN "join" ELSE "idle"]
  /\ arg' = [arg EXCEPT ![s] = NoJob]
  /\ UNCHANGED <<m_container, m_unread, notFull, wpc, msg, accepted, executed>>

\* m_not_empty.notify_one: only the worker ever waits on m_not_empty.
NotifyNotEmpty(s) ==
  /\ spc[s] = "notify"
  /\ wpc' = IF wpc = "wait" THEN "pop" ELSE wpc
  /\ spc' = [spc EXCEPT ![s] = IF arg[s] = Done THEN "join" ELSE "idle"]
  /\ arg' = [arg EXCEPT ![s] = NoJob]
  /\ UNCHANGED <<m_container, m_unread, notFull, msg, accepted, executed>>

\* Mutant: the destructor does not join the thread.
Join_Detached ==
  /\ spc[Owner] = "join"
  /\ spc' = [spc EXCEPT ![Owner] = "gone"]
  /\ UNCHANGED <<m_container, m_unread, notFull, arg, wpc, msg, accepted, executed>>

\* m_thread->join returns when Run has returned.
Join ==
  /\ spc[Owner] = "join"
  /\ wpc = "finished"
  /\ spc' = [spc EXCEPT ![Owner] = "gone"]
  /\ UNCHANGED <<m_container, m_unread, notFull, arg, wpc, msg, accepted, executed>>

-----------------------------------------------------------------------------
(* The worker: bounded_buffer::pop_back and ActiveObject::Run.             *)

PopWait ==
  /\ wpc = "pop"
  /\ ~is_not_empty
  /\ wpc' = "wait"
  /\ UNCHANGED <<m_container, m_unread, notFull, spc, arg, msg, accepted, executed>>

\* Mutant: the newest entry is taken.
Pop_Newest ==
  /\ wpc = "pop"
  /\ is_not_empty
  /\ msg' = m_container[1]
  /\ m_unread' = m_unread - 1
  /\ wpc' = "notify"
  /\ UNCHANGED <<m_container, notFull, spc, arg, accepted, executed>>

Pop ==
  /\ wpc = "pop"
  /\ is_not_empty
  /\ msg' = m_container[m_unread]
  /\ m_unread' = m_unread - 1
  /\ wpc' = "notify"
  /\ UNCHANGED <<m_container, notFull, spc, arg, accepted, executed>>

\* Mutant: nobody is notified that there is room.
NotifyNotFull_Silent ==
  /\ wpc = "notify"
  /\ wpc' = "execute"
  /\ UNCHANGED <<m_container, m_unread, notFull, spc, arg, msg, accepted, executed>>

\* m_not_full.notify_one wakes any one of the threads that wait.
NotifyNotFull ==
  /\ wpc = "notify"
  /\ \/ /\ notFull = {}
        /\ UNCHANGED <<notFull, spc>>
     \/ \E s \in notFull : /\ notFull' = notFull \ {s}
                           /\ spc' = [spc EXCEPT ![s] = "push"]
  /\ wpc' = "execute"
  /\ UNCHANGED <<m_container, m_unread, arg, msg, accepted, executed>>

\* Mutant: the loop does not end on the message m_done.
Execute_Forever ==
  /\ wpc = "execute"
  /\ executed' = Append(executed, msg)
  /\ wpc' = "pop"
  /\ msg' = NoJob
  /\ UNCHANGED <<m_container, m_unread, notFull, spc, arg, accepted>>

Execute ==
  /\ wpc = "execute"
  /\ executed' = Append(executed, msg)
  /\ wpc' = IF msg = Done THEN "finished" ELSE "pop"
  /\ msg' = NoJob
  /\ UNCHANGED <<m_container, m_unread, notFull, spc, arg, accepted>>

-----------------------------------------------------------------------------
Sender(s) == PushWait(s) \/ Push(s) \/ NotifyNotEmpty(s)
Worker    == PopWait \/ Pop \/ NotifyNotFull \/ Execute

Next == \/ \E s \in Senders : \/ \E j \in Jobs : Send(s, j)
                              \/ Sender(s)
        \/ Destroy
        \/ Join
        \/ Worker

\* A thread inside Send, the destructor or Run is never stopped for good by
\* the scheduler. Nobody has to send a job or to destroy the object.
Fairness == /\ \A s \in Senders : WF_vars(Sender(s))
            /\ WF_vars(Join)
            /\ WF_vars(Worker)

Spec == Init /\ [][Next]_vars
FairSpec == Spec /\ Fairness

-----------------------------------------------------------------------------
(* Properties.                                                             *)

\* The jobs that wait, oldest first: the refinement mapping of the queue.
Waiting == [i \in 1 .. m_unread |-> m_container[m_unread + 1 - i]]

\* What the worker holds, as a sequence.
Held == IF msg = NoJob THEN << >> ELSE <<msg>>

\* No message is lost, repeated or overtaken: at any moment the messages
\* pushed are those executed, then the one the worker holds, then those that
\* wait in the circular buffer, in this order.
InOrderOnce == accepted = executed \o Held \o Waiting

\* No wake-up is lost. A worker asleep while jobs wait has a notification on
\* its way, and so has a sender asleep while the buffer has room, unless
\* another sender that was woken is about to use that room.
NoLostWakeup ==
  /\ wpc = "wait" /\ is_not_empty => \E s \in Senders : spc[s] = "notify"
  /\ notFull # {} /\ is_not_full =>
       wpc = "notify" \/ \E s \in Senders : spc[s] = "push"

\* The destructor's comment (ActiveObject.cpp:72): any remaining jobs in the
\* queue are completed before it returns.
DestroyedDrained ==
  spc[Owner] = "gone" => /\ executed = accepted
                         /\ \A s \in Senders \ {Owner} : spc[s] = "idle"

\* Every job pushed is executed, and a sender blocked on a full buffer gets
\* its job in.
AcceptedRuns ==
  \A j \in Jobs : (\E s \in Senders : arg[s] = j)
                    ~> (\E i \in 1 .. Len(executed) : executed[i] = j)

\* The destructor returns.
DestructorReturns == (arg[Owner] = Done) ~> (spc[Owner] = "gone")

\* The code implements the abstract queue.
Queue == INSTANCE JobQueue WITH
  pending <- Waiting,
  current <- msg,
  log     <- executed,
  open    <- \A i \in 1 .. Len(accepted) : accepted[i] # Done
ImplementsQueue == Queue!QSpec
=============================================================================
