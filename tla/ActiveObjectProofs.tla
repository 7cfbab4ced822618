------------------------- MODULE ActiveObjectProofs -------------------------
(***************************************************************************)
(* Proofs about ActiveObject, for any set of senders, any jobs and any     *)
(* capacity: its types, the order of the jobs, what the destructor         *)
(* promises, and that the circular buffer implements the queue of          *)
(* JobQueue.                                                               *)
(***************************************************************************)
EXTENDS ActiveObject, SequenceTheorems, FiniteSetTheorems, TLAPS

USE OwnerAssumption, CapacityAssumption, JobsAssumption

\* TRUE when Done has not been pushed.
Open == \A i \in 1 .. Len(accepted) : accepted[i] # Done

\* A thread holds a message exactly where the code has one in hand.
Hands ==
  /\ msg = NoJob <=> wpc \in {"pop", "wait", "finished"}
  /\ \A s \in Senders : /\ arg[s] = NoJob <=> spc[s] \in {"idle", "join", "gone"}
                        /\ spc[s] = "wait" <=> s \in notFull

\* Only the owner sends Done, and then it is alone.
Alone ==
  /\ \A s \in Senders \ {Owner} : arg[s] # Done /\ spc[s] \notin {"join", "gone"}
  /\ Destroying => \A s \in Senders \ {Owner} : spc[s] = "idle"

\* Done is the last message to be pushed.
DoneLast ==
  /\ ~Open => \/ spc[Owner] \in {"join", "gone"}
              \/ spc[Owner] = "notify" /\ arg[Owner] = Done
  /\ \A i \in 1 .. Len(accepted) : accepted[i] = Done => i = Len(accepted)

\* The worker ends after it has executed Done, the destructor after that.
Ended ==
  /\ wpc = "finished" => /\ executed # << >>
                         /\ executed[Len(executed)] = Done
  /\ spc[Owner] = "gone" => wpc = "finished"

\* Types and control alone make the inductive base; the order of the jobs
\* rests on it.
Control == TypeOK /\ Hands /\ Alone
IInv == Control /\ DoneLast /\ Ended /\ InOrderOnce

-----------------------------------------------------------------------------
(* The circular buffer.                                                    *)

\* push_front leaves a buffer of messages within the capacity, with the new
\* one in front and every waiting one moved by one place.
LEMMA PushFrontProperties ==
  ASSUME NEW c \in Seq(Messages), Len(c) <= Capacity, NEW m \in Messages,
         NEW n \in 0 .. Len(c), n < Capacity
  PROVE  /\ PushFront(c, m) \in Seq(Messages)
         /\ Len(PushFront(c, m)) <= Capacity
         /\ n + 1 \in 1 .. Len(PushFront(c, m))
         /\ PushFront(c, m)[1] = m
         /\ \A i \in 2 .. n + 1 : PushFront(c, m)[i] = c[i - 1]
<1> DEFINE k == IF Len(c) < Capacity THEN Len(c) + 1 ELSE Capacity
<1>1. k \in Nat \ {0} /\ k <= Capacity /\ n + 1 <= k /\ k <= Len(c) + 1
  OBVIOUS
<1>2. PushFront(c, m) \in [1 .. k -> Messages]
  BY <1>1 DEF PushFront
<1>3. PushFront(c, m) \in Seq(Messages) /\ Len(PushFront(c, m)) = k
  BY <1>1, <1>2
<1>4. PushFront(c, m)[1] = m
  BY <1>1 DEF PushFront
<1>5. ASSUME NEW i \in 2 .. n + 1
      PROVE  PushFront(c, m)[i] = c[i - 1]
  BY <1>1 DEF PushFront
<1> QED
  BY <1>1, <1>3, <1>4, <1>5

\* The n newest entries, oldest first, are a sequence of messages.
LEMMA NewestReversed ==
  ASSUME NEW c \in Seq(Messages), NEW n \in 0 .. Len(c)
  PROVE  /\ [i \in 1 .. n |-> c[n + 1 - i]] \in Seq(Messages)
         /\ Len([i \in 1 .. n |-> c[n + 1 - i]]) = n
<1>1. \A i \in 1 .. n : c[n + 1 - i] \in Messages
  OBVIOUS
<1>2. [i \in 1 .. n |-> c[n + 1 - i]] \in [1 .. n -> Messages]
  BY <1>1
<1> QED
  BY <1>2

LEMMA WaitingType ==
  ASSUME TypeOK
  PROVE  Waiting \in Seq(Messages) /\ Len(Waiting) = m_unread
BY NewestReversed DEF TypeOK, Waiting

-----------------------------------------------------------------------------
(* Types and control.                                                      *)

LEMMA InitControl == Init => Control
BY DEF Init, Control, TypeOK, Hands, Alone, Destroying, SenderPC, WorkerPC

LEMMA NextControl == Control /\ [Next]_vars => Control'
<1> SUFFICES ASSUME Control, [Next]_vars
             PROVE  Control'
  OBVIOUS
<1> USE DEF Control, Hands, Alone, Destroying
<1>0. TypeOK
  OBVIOUS
<1>1. ASSUME NEW s \in Senders, NEW j \in Jobs, Send(s, j)
      PROVE  Control'
  BY <1>1 DEF Send, TypeOK, SenderPC, Messages
<1>2. CASE Destroy
  BY <1>2 DEF Destroy, TypeOK, SenderPC, Messages
<1>3. ASSUME NEW s \in Senders, PushWait(s)
      PROVE  Control'
  BY <1>3 DEF PushWait, TypeOK, SenderPC, Messages
<1>4. ASSUME NEW s \in Senders, Push(s)
      PROVE  Control'
  <2>1. arg[s] \in Messages /\ m_unread < Capacity
    BY <1>4 DEF Push, is_not_full, TypeOK
  <2>2. /\ m_container' \in Seq(Messages)
        /\ Len(m_container') <= Capacity
        /\ m_unread' \in 0 .. Len(m_container')
    BY <1>4, <2>1, PushFrontProperties DEF Push, TypeOK
  <2>3. accepted' \in Seq(Messages)
    BY <1>4, <2>1 DEF Push, TypeOK
  <2>4. TypeOK'
    BY <1>4, <2>2, <2>3 DEF Push, TypeOK, SenderPC
  <2> QED
    BY <1>4, <2>4 DEF Push, TypeOK
<1>5. ASSUME NEW s \in Senders, NotifyNotEmpty(s)
      PROVE  Control'
  BY <1>5 DEF NotifyNotEmpty, TypeOK, SenderPC, WorkerPC, Messages
<1>6. CASE Join
  BY <1>6 DEF Join, TypeOK, SenderPC
<1>7. CASE PopWait
  BY <1>7 DEF PopWait, TypeOK, WorkerPC
<1>8. CASE Pop
  BY <1>8 DEF Pop, is_not_empty, TypeOK, WorkerPC, Messages
<1>9. CASE NotifyNotFull
  BY <1>9 DEF NotifyNotFull, TypeOK, SenderPC, WorkerPC
<1>10. CASE Execute
  <2>1. msg \in Messages
    BY <1>10 DEF Execute, TypeOK
  <2>2. executed' \in Seq(Messages)
    BY <1>10, <2>1 DEF Execute, TypeOK
  <2> QED
    BY <1>10, <2>2 DEF Execute, TypeOK, WorkerPC
<1>11. CASE UNCHANGED vars
  BY <1>11 DEF vars, TypeOK
<1> QED
  BY <1>1, <1>2, <1>3, <1>4, <1>5, <1>6, <1>7, <1>8, <1>9, <1>10, <1>11
  DEF Next, Sender, Worker

\* In every reachable state the variables have their types: in particular the
\* circular buffer never holds more than its capacity and m_unread never runs
\* past its entries.
THEOREM TypeCorrect == Spec => []TypeOK
<1>1. Control => TypeOK
  BY DEF Control
<1> QED
  BY InitControl, NextControl, <1>1, PTL DEF Spec
-----------------------------------------------------------------------------
(* The order of the jobs.                                                  *)

\* Pushing appends to the waiting jobs.
LEMMA PushWaiting ==
  ASSUME Control, NEW s \in Senders, Push(s)
  PROVE  Waiting' = Append(Waiting, arg[s])
<1>1. arg[s] \in Messages /\ m_unread \in 0 .. Len(m_container) /\ m_unread < Capacity
  BY DEF Control, Hands, TypeOK, Push, is_not_full
<1>2. /\ m_container'[1] = arg[s]
      /\ \A i \in 2 .. m_unread + 1 : m_container'[i] = m_container[i - 1]
  <2>1. m_container \in Seq(Messages) /\ Len(m_container) <= Capacity
    BY DEF Control, TypeOK
  <2>2. m_container' = PushFront(m_container, arg[s])
    BY DEF Push
  <2>3. /\ PushFront(m_container, arg[s])[1] = arg[s]
        /\ \A i \in 2 .. m_unread + 1 :
             PushFront(m_container, arg[s])[i] = m_container[i - 1]
    BY <1>1, <2>1, PushFrontProperties
  <2> QED
    BY <2>2, <2>3, Zenon
<1>3. Waiting \in Seq(Messages) /\ Len(Waiting) = m_unread
  BY WaitingType DEF Control
<1>4. /\ Append(Waiting, arg[s]) \in Seq(Messages)
      /\ Len(Append(Waiting, arg[s])) = m_unread + 1
      /\ \A i \in 1 .. m_unread : Append(Waiting, arg[s])[i] = Waiting[i]
      /\ Append(Waiting, arg[s])[m_unread + 1] = arg[s]
  BY <1>1, <1>3, AppendProperties
<1>5. Waiting' \in Seq(Messages) /\ Len(Waiting') = m_unread + 1
  <2>1. TypeOK'
    BY NextControl DEF Control, Next, Sender
  <2> QED
    BY <2>1, NewestReversed DEF TypeOK, Waiting, Push
<1>6. \A i \in 1 .. m_unread + 1 : Waiting'[i] = m_container'[m_unread + 2 - i]
  BY <1>1 DEF Waiting, Push
<1>7. ASSUME NEW i \in 1 .. m_unread + 1
      PROVE  Waiting'[i] = Append(Waiting, arg[s])[i]
  <2>1. CASE i = m_unread + 1
    BY <2>1, <1>1, <1>2, <1>4, <1>6
  <2>2. CASE i # m_unread + 1
    <3>1. m_unread + 2 - i \in 2 .. m_unread + 1 /\ i \in 1 .. m_unread
      BY <2>2, <1>1
    <3>2. m_container'[m_unread + 2 - i] = m_container[m_unread + 1 - i]
      BY <3>1, <1>1, <1>2
    <3>3. Waiting[i] = m_container[m_unread + 1 - i]
      BY <3>1 DEF Waiting
    <3> QED
      BY <3>1, <3>2, <3>3, <1>4, <1>6
  <2> QED
    BY <2>1, <2>2
<1> QED
  BY <1>4, <1>5, <1>7, SeqEqual, Zenon

\* Taking a job removes the oldest of the waiting ones.
LEMMA PopWaiting ==
  ASSUME Control, Pop
  PROVE  /\ Waiting # << >>
         /\ msg' = Head(Waiting)
         /\ Waiting' = Tail(Waiting)
<1>1. m_unread \in 1 .. Len(m_container) /\ m_unread' = m_unread - 1
  BY DEF Control, TypeOK, Pop, is_not_empty
<1>2. Waiting \in Seq(Messages) /\ Len(Waiting) = m_unread
  BY WaitingType DEF Control
<1>3. Waiting[1] = m_container[m_unread]
  BY <1>1 DEF Waiting
<1>4. /\ Tail(Waiting) \in Seq(Messages)
      /\ Len(Tail(Waiting)) = m_unread - 1
      /\ \A i \in 1 .. m_unread - 1 : Tail(Waiting)[i] = Waiting[i + 1]
  BY <1>1, <1>2, HeadTailProperties
<1>5. Waiting' \in Seq(Messages) /\ Len(Waiting') = m_unread - 1
  <2>1. TypeOK'
    BY NextControl DEF Control, Next, Worker
  <2> QED
    BY <1>1, <2>1, NewestReversed DEF TypeOK, Waiting
<1>6. ASSUME NEW i \in 1 .. m_unread - 1
      PROVE  Waiting'[i] = Tail(Waiting)[i]
  <2>1. Waiting'[i] = m_container[m_unread - i]
    BY <1>1 DEF Waiting, Pop
  <2>2. Waiting[i + 1] = m_container[m_unread - i]
    BY <1>1 DEF Waiting
  <2> QED
    BY <2>1, <2>2, <1>4
<1>7. Waiting' = Tail(Waiting)
  BY <1>4, <1>5, <1>6, SeqEqual, Zenon
<1> QED
  BY <1>1, <1>2, <1>3, <1>7 DEF Pop

\* A step that touches neither the buffer nor the histories keeps the order.
LEMMA SameOrder ==
  ASSUME InOrderOnce, UNCHANGED <<m_container, m_unread, msg, accepted, executed>>
  PROVE  InOrderOnce'
BY DEF InOrderOnce, Held, Waiting

LEMMA InitIInv == Init => IInv
<1> SUFFICES ASSUME Init
             PROVE  IInv
  OBVIOUS
<1>1. Control
  BY InitControl
<1>2. DoneLast /\ Ended
  BY DEF Init, DoneLast, Ended, Open
<1>3. Waiting = << >> /\ Held = << >>
  BY DEF Init, Waiting, Held
<1>4. InOrderOnce
  BY <1>3 DEF Init, InOrderOnce
<1> QED
  BY <1>1, <1>2, <1>4 DEF IInv

LEMMA NextInOrder ==
  ASSUME Control, InOrderOnce, [Next]_vars
  PROVE  InOrderOnce'
<1>0. /\ Waiting \in Seq(Messages)
      /\ executed \in Seq(Messages)
      /\ Held \in Seq(Messages)
  BY WaitingType DEF Control, TypeOK, Held
<1>1. ASSUME NEW s \in Senders, NEW j \in Jobs, Send(s, j)
      PROVE  InOrderOnce'
  BY <1>1, SameOrder DEF Send
<1>2. CASE Destroy
  BY <1>2, SameOrder DEF Destroy
<1>3. ASSUME NEW s \in Senders, PushWait(s)
      PROVE  InOrderOnce'
  BY <1>3, SameOrder DEF PushWait
<1>4. ASSUME NEW s \in Senders, Push(s)
      PROVE  InOrderOnce'
  <2>1. arg[s] \in Messages
    BY <1>4 DEF Control, Hands, TypeOK, Push
  <2>2. accepted' = Append(executed \o Held \o Waiting, arg[s])
    BY <1>4 DEF Push, InOrderOnce
  <2>3. Append(executed \o Held \o Waiting, arg[s])
          = executed \o Held \o Append(Waiting, arg[s])
    <3>1. /\ executed \o Held \in Seq(Messages)
          /\ executed \o Held \o Waiting \in Seq(Messages)
          /\ <<arg[s]>> \in Seq(Messages)
      BY <1>0, <2>1
    <3>2. Append(executed \o Held \o Waiting, arg[s])
            = (executed \o Held \o Waiting) \o <<arg[s]>>
      BY <2>1, <3>1, AppendIsConcat
    <3>3. Append(Waiting, arg[s]) = Waiting \o <<arg[s]>>
      BY <1>0, <2>1, AppendIsConcat
    <3> QED
      BY <1>0, <3>1, <3>2, <3>3, ConcatAssociative
  <2>4. Waiting' = Append(Waiting, arg[s])
    BY <1>4, PushWaiting
  <2> QED
    BY <1>4, <2>2, <2>3, <2>4 DEF InOrderOnce, Held, Push
<1>5. ASSUME NEW s \in Senders, NotifyNotEmpty(s)
      PROVE  InOrderOnce'
  BY <1>5, SameOrder DEF NotifyNotEmpty
<1>6. CASE Join
  BY <1>6, SameOrder DEF Join
<1>7. CASE PopWait
  BY <1>7, SameOrder DEF PopWait
<1>8. CASE Pop
  <2>1. Held = << >>
    BY <1>8 DEF Control, Hands, Pop, Held
  <2>2. Waiting # << >> /\ Held' = <<Head(Waiting)>> /\ Waiting' = Tail(Waiting)
    <3>1. m_unread \in 1 .. Len(m_container) /\ m_container \in Seq(Messages)
      BY <1>8 DEF Control, TypeOK, Pop, is_not_empty
    <3>2. msg' # NoJob
      BY <1>8, <3>1 DEF Pop, Messages
    <3> QED
      BY <1>8, <3>2, PopWaiting DEF Held
  <2>3. executed \o <<Head(Waiting)>> \o Tail(Waiting) = executed \o << >> \o Waiting
    BY <1>0, <2>2
  <2> QED
    BY <1>8, <2>1, <2>2, <2>3 DEF InOrderOnce, Pop
<1>9. CASE NotifyNotFull
  BY <1>9, SameOrder DEF NotifyNotFull
<1>10. CASE Execute
  <2>1. msg \in Messages /\ Held = <<msg>> /\ Held' = << >>
    BY <1>10 DEF Control, Hands, TypeOK, Execute, Held
  <2>2. executed' = Append(executed, msg)
    BY <1>10 DEF Execute
  <2>3. Append(executed, msg) \o << >> \o Waiting = executed \o <<msg>> \o Waiting
    BY <1>0, <2>1
  <2>4. Waiting' = Waiting /\ accepted' = accepted
    BY <1>10 DEF Waiting, Execute
  <2> QED
    BY <2>1, <2>2, <2>3, <2>4 DEF InOrderOnce
<1>11. CASE UNCHANGED vars
  BY <1>11, SameOrder DEF vars
<1> QED
  BY <1>1, <1>2, <1>3, <1>4, <1>5, <1>6, <1>7, <1>8, <1>9, <1>10, <1>11
  DEF Next, Sender, Worker
-----------------------------------------------------------------------------
(* The end of the object.                                                  *)

LEMMA NextDoneLast ==
  ASSUME Control, DoneLast, [Next]_vars
  PROVE  DoneLast'
<1> USE DEF DoneLast, Open
<1>1. ASSUME NEW s \in Senders, NEW j \in Jobs, Send(s, j)
      PROVE  DoneLast'
  BY <1>1 DEF Send, Destroying, Control, TypeOK
<1>2. CASE Destroy
  BY <1>2 DEF Destroy, Control, TypeOK
<1>3. ASSUME NEW s \in Senders, PushWait(s)
      PROVE  DoneLast'
  BY <1>3 DEF PushWait, Control, TypeOK
<1>4. ASSUME NEW s \in Senders, Push(s)
      PROVE  DoneLast'
  <2>1. arg[s] \in Messages /\ accepted \in Seq(Messages)
    BY <1>4 DEF Control, Hands, TypeOK, Push
  <2>2. /\ Len(accepted') = Len(accepted) + 1
        /\ \A i \in 1 .. Len(accepted) : accepted'[i] = accepted[i]
        /\ accepted'[Len(accepted) + 1] = arg[s]
    BY <1>4, <2>1, AppendProperties DEF Push
  <2>3. Open
    BY <1>4 DEF Push, Control, Alone, Destroying
  <2>4. spc'[s] = "notify" /\ arg' = arg
    BY <1>4 DEF Push, Control, TypeOK
  <2>5. CASE arg[s] = Done
    <3>1. s = Owner
      BY <2>5 DEF Control, Alone
    <3> QED
      BY <2>1, <2>2, <2>3, <2>4, <2>5, <3>1
  <2>6. CASE arg[s] # Done
    BY <2>1, <2>2, <2>3, <2>6
  <2> QED
    BY <2>5, <2>6
<1>5. ASSUME NEW s \in Senders, NotifyNotEmpty(s)
      PROVE  DoneLast'
  BY <1>5 DEF NotifyNotEmpty, Control, TypeOK
<1>6. CASE Join
  BY <1>6 DEF Join, Control, TypeOK
<1>7. CASE PopWait
  BY <1>7 DEF PopWait
<1>8. CASE Pop
  BY <1>8 DEF Pop
<1>9. CASE NotifyNotFull
  BY <1>9 DEF NotifyNotFull, Control, Hands, TypeOK
<1>10. CASE Execute
  BY <1>10 DEF Execute
<1>11. CASE UNCHANGED vars
  BY <1>11 DEF vars
<1> QED
  BY <1>1, <1>2, <1>3, <1>4, <1>5, <1>6, <1>7, <1>8, <1>9, <1>10, <1>11
  DEF Next, Sender, Worker

LEMMA NextEnded ==
  ASSUME Control, Ended, [Next]_vars
  PROVE  Ended'
<1> USE DEF Ended
<1>1. ASSUME NEW s \in Senders, NEW j \in Jobs, Send(s, j)
      PROVE  Ended'
  BY <1>1 DEF Send, Control, TypeOK
<1>2. CASE Destroy
  BY <1>2 DEF Destroy, Control, TypeOK
<1>3. ASSUME NEW s \in Senders, PushWait(s)
      PROVE  Ended'
  BY <1>3 DEF PushWait, Control, TypeOK
<1>4. ASSUME NEW s \in Senders, Push(s)
      PROVE  Ended'
  BY <1>4 DEF Push, Control, TypeOK
<1>5. ASSUME NEW s \in Senders, NotifyNotEmpty(s)
      PROVE  Ended'
  BY <1>5 DEF NotifyNotEmpty, Control, TypeOK
<1>6. CASE Join
  BY <1>6 DEF Join, Control, TypeOK
<1>7. CASE PopWait
  BY <1>7 DEF PopWait
<1>8. CASE Pop
  BY <1>8 DEF Pop
<1>9. CASE NotifyNotFull
  BY <1>9 DEF NotifyNotFull, Control, TypeOK
<1>10. CASE Execute
  <2>1. msg \in Messages /\ executed \in Seq(Messages)
    BY <1>10 DEF Control, Hands, TypeOK, Execute
  <2>2. /\ executed' # << >>
        /\ executed'[Len(executed')] = msg
    BY <1>10, <2>1, AppendProperties DEF Execute
  <2> QED
    BY <1>10, <2>2 DEF Execute
<1>11. CASE UNCHANGED vars
  BY <1>11 DEF vars
<1> QED
  BY <1>1, <1>2, <1>3, <1>4, <1>5, <1>6, <1>7, <1>8, <1>9, <1>10, <1>11
  DEF Next, Sender, Worker

LEMMA NextIInv == IInv /\ [Next]_vars => IInv'
BY NextControl, NextInOrder, NextDoneLast, NextEnded DEF IInv

\* When the destructor has returned the last message executed is Done, which
\* was the last one pushed: nothing is left behind it.
LEMMA IInvDrained == IInv => DestroyedDrained
<1> SUFFICES ASSUME IInv, spc[Owner] = "gone"
             PROVE  /\ executed = accepted
                    /\ \A s \in Senders \ {Owner} : spc[s] = "idle"
  BY DEF DestroyedDrained
<1>1. /\ Waiting \in Seq(Messages)
      /\ executed \in Seq(Messages)
      /\ accepted \in Seq(Messages)
  BY WaitingType DEF IInv, Control, TypeOK
<1>2. wpc = "finished"
  BY DEF IInv, Ended
<1>3. Held = << >>
  BY <1>2 DEF IInv, Control, Hands, Held
<1>4. accepted = executed \o Waiting
  BY <1>1, <1>3, ConcatEmptySeq DEF IInv, InOrderOnce
<1>5. Len(executed) \in 1 .. Len(accepted) /\ executed[Len(executed)] = Done
  <2>1. executed # << >> /\ executed[Len(executed)] = Done
    BY <1>2 DEF IInv, Ended
  <2>2. Len(accepted) = Len(executed) + Len(Waiting)
    BY <1>1, <1>4, ConcatProperties
  <2> QED
    BY <1>1, <2>1, <2>2, EmptySeq, LenProperties
<1>6. accepted[Len(executed)] = Done
  <2>1. accepted[Len(executed)] = executed[Len(executed)]
    BY <1>1, <1>4, <1>5, ConcatProperties, LenProperties
  <2> QED
    BY <1>5, <2>1
<1>7. Len(executed) = Len(accepted)
  BY <1>5, <1>6 DEF IInv, DoneLast
<1>8. \A i \in 1 .. Len(executed) : executed[i] = accepted[i]
  BY <1>1, <1>4, ConcatProperties, LenProperties
<1>9. executed = accepted
  BY <1>1, <1>7, <1>8, SeqEqual, Zenon
<1> QED
  BY <1>9 DEF IInv, Control, Alone, Destroying

-----------------------------------------------------------------------------
(* Wake-ups.                                                               *)

\* The senders that are about to look for room, of their own or woken.
Pushers == {s \in Senders : spc[s] = "push"}
Coming  == Cardinality(Pushers) + (IF wpc = "notify" THEN 1 ELSE 0)

\* While senders sleep every free place has a sender that is about to use it
\* or is about to be announced; a worker asleep while jobs wait is about to
\* be notified. The first counts: one awake sender is not enough, since it
\* fills one place only.
Announced ==
  /\ IsFiniteSet(Pushers)
  /\ notFull # {} => Capacity - m_unread <= Coming
  /\ wpc = "wait" /\ is_not_empty => \E s \in Senders : spc[s] = "notify"

\* What the places of one sender and of the worker change about the count.
LEMMA PusherComes ==
  ASSUME Announced, NEW s \in Senders, spc[s] # "push", Pushers' = Pushers \cup {s}
  PROVE  IsFiniteSet(Pushers)' /\ Cardinality(Pushers)' = Cardinality(Pushers) + 1
         /\ Cardinality(Pushers) \in Nat
<1>1. s \notin Pushers /\ IsFiniteSet(Pushers)
  BY DEF Pushers, Announced
<1> HIDE DEF Pushers
<1>2. IsFiniteSet(Pushers \cup {s}) /\ Cardinality(Pushers \cup {s}) = Cardinality(Pushers) + 1
  BY <1>1, FS_AddElement
<1> QED
  BY <1>1, <1>2, FS_CardinalityType

LEMMA PusherGoes ==
  ASSUME Announced, NEW s \in Senders, spc[s] = "push", Pushers' = Pushers \ {s}
  PROVE  IsFiniteSet(Pushers)' /\ Cardinality(Pushers)' = Cardinality(Pushers) - 1
         /\ Cardinality(Pushers) \in Nat
<1>1. s \in Pushers /\ IsFiniteSet(Pushers)
  BY DEF Pushers, Announced
<1> HIDE DEF Pushers
<1>2. IsFiniteSet(Pushers \ {s}) /\ Cardinality(Pushers \ {s}) = Cardinality(Pushers) - 1
  BY <1>1, FS_RemoveElement
<1> QED
  BY <1>1, <1>2, FS_CardinalityType

LEMMA InitAnnounced == Init => Announced
<1>1. SUFFICES ASSUME Init
               PROVE  Announced
  OBVIOUS
<1>2. Pushers = {}
  BY <1>1 DEF Init, Pushers
<1>3. IsFiniteSet(Pushers)
  BY <1>2, FS_EmptySet
<1> QED
  BY <1>1, <1>3 DEF Init, Announced

LEMMA NextAnnounced ==
  ASSUME Control, Announced, [Next]_vars
  PROVE  Announced'
<1>0. /\ spc \in [Senders -> SenderPC] /\ m_unread \in Nat /\ m_unread <= Capacity
      /\ notFull \in SUBSET Senders /\ Cardinality(Pushers) \in Nat
      /\ \A s \in notFull : spc[s] = "wait"
  BY FS_CardinalityType DEF Control, TypeOK, Hands, Announced
<1>1. ASSUME NEW s \in Senders, NEW j \in Jobs, Send(s, j)
      PROVE  Announced'
  <2>1. Pushers' = Pushers \cup {s} /\ spc[s] # "push"
    BY <1>0, <1>1 DEF Send, Pushers
  <2>2. UNCHANGED <<notFull, wpc, m_unread>>
        /\ \A q \in Senders : spc[q] = "notify" => spc'[q] = "notify"
    BY <1>0, <1>1 DEF Send
  <2>3. IsFiniteSet(Pushers)' /\ Cardinality(Pushers)' = Cardinality(Pushers) + 1
    BY <2>1, PusherComes
  <2> QED
    BY <1>0, <2>2, <2>3 DEF Announced, Coming, is_not_empty
<1>2. CASE Destroy
  <2>1. Pushers' = Pushers \cup {Owner} /\ spc[Owner] # "push"
    BY <1>0, <1>2 DEF Destroy, Pushers
  <2>2. UNCHANGED <<notFull, wpc, m_unread>>
        /\ \A q \in Senders : spc[q] = "notify" => spc'[q] = "notify"
    BY <1>0, <1>2 DEF Destroy
  <2>3. IsFiniteSet(Pushers)' /\ Cardinality(Pushers)' = Cardinality(Pushers) + 1
    BY <2>1, PusherComes
  <2> QED
    BY <1>0, <2>2, <2>3 DEF Announced, Coming, is_not_empty
<1>3. ASSUME NEW s \in Senders, PushWait(s)
      PROVE  Announced'
  <2>1. Pushers' = Pushers \ {s} /\ spc[s] = "push" /\ Capacity - m_unread <= 0
    BY <1>0, <1>3 DEF PushWait, Pushers, is_not_full
  <2>2. UNCHANGED <<wpc, m_unread>>
        /\ \A q \in Senders : spc[q] = "notify" => spc'[q] = "notify"
    BY <1>0, <1>3 DEF PushWait
  <2>3. IsFiniteSet(Pushers)' /\ Cardinality(Pushers)' \in Nat
    BY <2>1, PusherGoes, FS_CardinalityType
  <2> QED
    BY <1>0, <2>1, <2>2, <2>3 DEF Announced, Coming, is_not_empty
<1>4. ASSUME NEW s \in Senders, Push(s)
      PROVE  Announced'
  <2>1. Pushers' = Pushers \ {s} /\ spc[s] = "push"
    BY <1>0, <1>4 DEF Push, Pushers
  <2>2. UNCHANGED <<wpc, notFull>> /\ m_unread' = m_unread + 1 /\ spc'[s] = "notify"
    BY <1>0, <1>4 DEF Push
  <2>3. IsFiniteSet(Pushers)' /\ Cardinality(Pushers)' = Cardinality(Pushers) - 1
    BY <2>1, PusherGoes
  <2> QED
    BY <1>0, <2>2, <2>3 DEF Announced, Coming
<1>5. ASSUME NEW s \in Senders, NotifyNotEmpty(s)
      PROVE  Announced'
  <2>1. Pushers' = Pushers /\ UNCHANGED <<notFull, m_unread>>
    BY <1>0, <1>5 DEF NotifyNotEmpty, Pushers
  <2>2. wpc' # "wait" /\ (wpc' = "notify" <=> wpc = "notify")
    BY <1>5 DEF NotifyNotEmpty
  <2> QED
    BY <2>1, <2>2 DEF Announced, Coming
<1>6. CASE Join
  <2>1. Pushers' = Pushers /\ UNCHANGED <<notFull, m_unread, wpc>>
        /\ \A q \in Senders : spc[q] = "notify" => spc'[q] = "notify"
    BY <1>0, <1>6 DEF Join, Pushers
  <2> QED
    BY <2>1 DEF Announced, Coming, is_not_empty
<1>7. CASE PopWait
  BY <1>7 DEF PopWait, Announced, Coming, Pushers, is_not_empty
<1>8. CASE Pop
  <2>1. /\ Pushers' = Pushers /\ UNCHANGED notFull /\ m_unread' = m_unread - 1
        /\ wpc = "pop" /\ wpc' = "notify"
    BY <1>8 DEF Pop, Pushers
  <2> QED
    BY <1>0, <2>1 DEF Announced, Coming
<1>9. CASE NotifyNotFull
  <2>0. wpc = "notify" /\ wpc' = "execute" /\ UNCHANGED m_unread
    BY <1>9 DEF NotifyNotFull
  <2>1. CASE notFull = {} /\ UNCHANGED <<notFull, spc>>
    BY <2>0, <2>1 DEF Announced, Pushers
  <2>2. ASSUME NEW s \in notFull, notFull' = notFull \ {s}, spc' = [spc EXCEPT ![s] = "push"]
        PROVE  Announced'
    <3>1. Pushers' = Pushers \cup {s} /\ spc[s] # "push" /\ s \in Senders /\ notFull # {}
      BY <1>0, <2>2 DEF Pushers
    <3>2. IsFiniteSet(Pushers)' /\ Cardinality(Pushers)' = Cardinality(Pushers) + 1
      BY <3>1, PusherComes
    <3> QED
      BY <1>0, <2>0, <3>1, <3>2 DEF Announced, Coming
  <2> QED
    BY <1>9, <2>1, <2>2 DEF NotifyNotFull
<1>10. CASE Execute
  BY <1>10 DEF Execute, Announced, Coming, Pushers
<1>11. CASE UNCHANGED vars
  BY <1>11 DEF vars, Announced, Coming, Pushers, is_not_empty
<1> QED
  BY <1>1, <1>2, <1>3, <1>4, <1>5, <1>6, <1>7, <1>8, <1>9, <1>10, <1>11
  DEF Next, Sender, Worker

LEMMA AnnouncedWakes == Control /\ Announced => NoLostWakeup
<1>1. SUFFICES ASSUME Control, Announced, notFull # {}, is_not_full, wpc # "notify"
               PROVE  \E s \in Senders : spc[s] = "push"
  BY DEF NoLostWakeup, Announced
<1>2. m_unread \in Nat /\ IsFiniteSet(Pushers) /\ Cardinality(Pushers) \in Nat
  BY <1>1, FS_CardinalityType DEF Control, TypeOK, Announced
<1>3. Cardinality(Pushers) > 0
  BY <1>1, <1>2 DEF Announced, Coming, is_not_full
<1>4. Pushers # {}
  BY <1>3, FS_EmptySet
<1> QED
  BY <1>4 DEF Pushers

-----------------------------------------------------------------------------
(* The results.                                                            *)

LEMMA Invariance == Spec => []IInv
BY InitIInv, NextIInv, PTL DEF Spec

\* No job is lost, run twice or overtaken on its way through the circular
\* buffer, whatever the capacity and however many threads send.
THEOREM JobsInOrderOnce == Spec => []InOrderOnce
<1>1. IInv => InOrderOnce
  BY DEF IInv
<1> QED
  BY Invariance, <1>1, PTL

\* The destructor returns only after every job pushed has been executed, as
\* its comment says (ActiveObject.cpp:72).
THEOREM DestructorDrains == Spec => []DestroyedDrained
BY Invariance, IInvDrained, PTL

\* No wake-up is lost, though each condition variable is notified after the
\* mutex is released and wakes one thread only.
THEOREM WakeupsKept == Spec => []NoLostWakeup
<1>1. Init => IInv /\ Announced
  BY InitIInv, InitAnnounced
<1>2. IInv /\ Announced /\ [Next]_vars => (IInv /\ Announced)'
  BY NextIInv, NextAnnounced DEF IInv
<1>3. IInv /\ Announced => NoLostWakeup
  BY AnnouncedWakes DEF IInv
<1> QED
  BY <1>1, <1>2, <1>3, PTL DEF Spec

LEMMA InitRefines == Init => Queue!QInit
BY DEF Init, Queue!QInit, Waiting

LEMMA NextRefines ==
  ASSUME IInv, [Next]_vars
  PROVE  [Queue!QNext]_(Queue!qvars)
<1> USE DEF Queue!qvars
<1>0. Control
  BY DEF IInv
<1>1. ASSUME UNCHANGED <<m_container, m_unread, msg, accepted, executed>>
      PROVE  UNCHANGED Queue!qvars
  BY <1>1 DEF Waiting
<1>2. ASSUME NEW s \in Senders, NEW j \in Jobs, Send(s, j)
      PROVE  UNCHANGED Queue!qvars
  BY <1>1, <1>2 DEF Send
<1>3. CASE Destroy
  BY <1>1, <1>3 DEF Destroy
<1>4. ASSUME NEW s \in Senders, PushWait(s)
      PROVE  UNCHANGED Queue!qvars
  BY <1>1, <1>4 DEF PushWait
<1>5. ASSUME NEW s \in Senders, Push(s)
      PROVE  Queue!QNext
  <2>1. arg[s] \in Jobs \cup {Done} /\ accepted \in Seq(Messages)
    BY <1>0, <1>5 DEF Control, Hands, TypeOK, Push, Messages
  <2>2. Open
    BY <1>0, <1>5 DEF Push, IInv, DoneLast, Control, Alone, Destroying
  <2>3. Waiting' = Append(Waiting, arg[s]) /\ Len(Waiting) < Capacity
    BY <1>0, <1>5, PushWaiting, WaitingType DEF Control, Push, is_not_full
  <2>4. Open' <=> arg[s] # Done
    <3>1. /\ Len(accepted') = Len(accepted) + 1
          /\ \A i \in 1 .. Len(accepted) : accepted'[i] = accepted[i]
          /\ accepted'[Len(accepted) + 1] = arg[s]
      BY <1>5, <2>1, AppendProperties DEF Push
    <3> QED
      BY <2>1, <2>2, <3>1 DEF Open
  <2>5. \E j \in Jobs \cup {Done} : Queue!Accept(j)
    BY <1>5, <2>1, <2>2, <2>3, <2>4 DEF Queue!Accept, Open, Push
  <2> QED
    BY <2>5 DEF Queue!QNext
<1>6. ASSUME NEW s \in Senders, NotifyNotEmpty(s)
      PROVE  UNCHANGED Queue!qvars
  BY <1>1, <1>6 DEF NotifyNotEmpty
<1>7. CASE Join
  BY <1>1, <1>7 DEF Join
<1>8. CASE PopWait
  BY <1>1, <1>8 DEF PopWait
<1>9. CASE Pop
  <2>1. msg = NoJob
    BY <1>0, <1>9 DEF Control, Hands, Pop
  <2>2. Queue!Take
    BY <1>0, <1>9, <2>1, PopWaiting DEF Queue!Take, Pop
  <2> QED
    BY <2>2 DEF Queue!QNext
<1>10. CASE NotifyNotFull
  BY <1>1, <1>10 DEF NotifyNotFull
<1>11. CASE Execute
  <2>1. msg # NoJob
    BY <1>0, <1>11 DEF Control, Hands, Execute
  <2>2. Queue!Finish
    BY <1>11, <2>1 DEF Queue!Finish, Execute, Waiting
  <2> QED
    BY <2>2 DEF Queue!QNext
<1>12. CASE UNCHANGED vars
  BY <1>1, <1>12 DEF vars
<1> QED
  BY <1>2, <1>3, <1>4, <1>5, <1>6, <1>7, <1>8, <1>9, <1>10, <1>11, <1>12
  DEF Next, Sender, Worker

\* The circular buffer, its lock and its two condition variables implement
\* the first-in first-out queue with one worker of JobQueue.
THEOREM RefinesQueue == Spec => ImplementsQueue
<1>1. IInv /\ [Next]_vars => [Queue!QNext]_(Queue!qvars)
  BY NextRefines
<1> QED
  BY Invariance, InitRefines, <1>1, PTL DEF Spec, ImplementsQueue, Queue!QSpec
=============================================================================
