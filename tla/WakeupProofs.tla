---------------------------- MODULE WakeupProofs ----------------------------
(***************************************************************************)
(* Nothing is left behind while a task sleeps for it: no message of a      *)
(* static or a linked queue, no unit of a semaphore, no event of an event  *)
(* group and no free reader/writer lock, for every number of tasks,        *)
(* messages, places, semaphores and events.  And the ring buffer of the    *)
(* static message queue implements a bounded FIFO.                         *)
(*                                                                         *)
(* The refinement has two halves.  Every step of the queue leaves the ring *)
(* alone, puts one message into a ring with room, or takes one out of a    *)
(* ring that is not empty (StepKinds): that is read off the code.  And     *)
(* putting and taking act on the messages in the ring, seen as a sequence, *)
(* as Append and Tail (PutAppends, TakeTails): that is arithmetic.         *)
(*                                                                         *)
(* Wake-ups are counted (Attended): whenever tasks sleep, each message or  *)
(* unit has a woken task of its own that has yet to look.  A set of events *)
(* wakes everybody, so there it is enough that those who go to sleep have  *)
(* looked.                                                                 *)
(*                                                                         *)
(* The code of reader/writer locks keeps a number and a task for what are  *)
(* two sets of tasks.  The invariant says that the count of readers is the *)
(* number of tasks that read (CountRight), who writes is the writer        *)
(* (WriterRight), and a task inside a call holds nothing yet               *)
(* (CallersHoldNone): without that, it might be counted twice.  SleepInv   *)
(* says of each task in which list it may sleep, who may have a timeout,   *)
(* and that a task in a call for writing sleeps, has timed out or has been *)
(* made the writer.                                                        *)
(***************************************************************************)
EXTENDS SmqProperties, Semaphore, MessagingProperties, RwProperties, ServicesProofs,
        SequenceTheorems

Calling == {"task", "rest", "smq_send", "smq_receive", "smq_receive_until"}
Content == Message \cup {NoMessage}

\* The positions are used places apart and every blocked sender has a message.
RingInv ==
    /\ memory \in [0..total - 1 -> Content]
    /\ used \in 0..total
    /\ read_pos \in 0..total - 1
    /\ write_pos = IF read_pos + used < total
                   THEN read_pos + used
                   ELSE read_pos + used - total

SendingInv ==
    /\ pc \in [Tasks -> Calling]
    /\ sending \in [Tasks -> Content]
    /\ \A t \in Tasks : pc[t] = "smq_send" => sending[t] \in Message

PutStep == \E msg \in Message : used < total /\ Put(msg)
TakeStep == used > 0 /\ Take
IdleStep == UNCHANGED <<ringVars, delivered>>

-----------------------------------------------------------------------------
(* The ring as a sequence.                                                 *)

RingIsRight ==
    /\ Ring \in Seq(Content)
    /\ Len(Ring) = used
    /\ \A i \in 1..used : Ring[i] = memory[Slot(i)]

LEMMA RingIsSeq == RingInv => RingIsRight
<1> SUFFICES ASSUME RingInv PROVE RingIsRight
    OBVIOUS
<1>1. \A i \in 1..used : Slot(i) \in 0..total - 1
    BY SmqAssumption DEF RingInv, Slot
<1>2. \A i \in 1..used : memory[Slot(i)] \in Content
    BY <1>1 DEF RingInv
<1>3. Ring \in [1..used -> Content]
    BY <1>2 DEF Ring
<1>4. used \in Nat
    BY SmqAssumption DEF RingInv
<1> QED
    BY <1>3, <1>4 DEF Ring, RingIsRight

LEMMA PutKeepsRing ==
    ASSUME RingInv, PutStep
    PROVE  RingInv'
<1>1. PICK msg \in Message : used < total /\ Put(msg)
    BY DEF PutStep
<1>2. write_pos \in 0..total - 1
    BY SmqAssumption DEF RingInv
<1>3. memory' \in [0..total - 1 -> Content]
    BY <1>1 DEF RingInv, Put, Content
<1>4. used' = used + 1 /\ read_pos' = read_pos /\ write_pos' = NextPos(write_pos)
    BY <1>1 DEF Put
<1> QED
    BY <1>1, <1>2, <1>3, <1>4, SmqAssumption DEF RingInv, NextPos

LEMMA TakeKeepsRing ==
    ASSUME RingInv, TakeStep
    PROVE  RingInv'
    BY SmqAssumption DEF RingInv, TakeStep, Take, NextPos

\* A message that is put in goes to the place after the last one.
LEMMA PutAppends ==
    ASSUME RingInv, NEW msg \in Message, used < total, Put(msg)
    PROVE  Ring' = Append(Ring, msg)
<1>1. RingInv'
    BY PutKeepsRing DEF PutStep
<1>2. /\ Ring \in Seq(Content) /\ Len(Ring) = used
      /\ \A i \in 1..used : Ring[i] = memory[Slot(i)]
    BY RingIsSeq DEF RingIsRight
<1>3. /\ Ring' \in Seq(Content) /\ Len(Ring') = used'
      /\ \A i \in 1..used' : Ring'[i] = memory'[Slot(i)']
  <2>1. RingIsRight'
      BY <1>1, RingIsSeq, PTL
  <2> QED
      BY <2>1 DEF RingIsRight
<1>4. /\ Append(Ring, msg) \in Seq(Content)
      /\ Len(Append(Ring, msg)) = used + 1
      /\ \A i \in 1..used : Append(Ring, msg)[i] = Ring[i]
      /\ Append(Ring, msg)[used + 1] = msg
    BY <1>2, AppendProperties DEF Content
<1>5. /\ used' = used + 1 /\ read_pos' = read_pos
      /\ memory' = [memory EXCEPT ![write_pos] = msg]
    BY DEF Put
<1>6. /\ memory \in [0..total - 1 -> Content] /\ write_pos \in 0..total - 1
      /\ used \in 0..total /\ read_pos \in 0..total - 1 /\ total \in Nat
    BY SmqAssumption DEF RingInv
<1>7. ASSUME NEW i \in 1..used
      PROVE  Ring'[i] = Append(Ring, msg)[i]
  <2>1. Slot(i)' = Slot(i) /\ Slot(i) \in 0..total - 1 /\ Slot(i) # write_pos
      BY <1>5, <1>6 DEF Slot, RingInv
  <2>2. memory'[Slot(i)] = memory[Slot(i)]
      BY <1>5, <1>6, <2>1
  <2>3. i \in 1..used'
      BY <1>5, <1>6
  <2> QED
      BY <1>2, <1>3, <1>4, <2>1, <2>2, <2>3
<1>8. ASSUME NEW i, i = used + 1
      PROVE  Ring'[i] = msg
  <2>1. Slot(i)' = write_pos
      BY <1>5, <1>6, <1>8 DEF Slot, RingInv
  <2>2. i \in 1..used'
      BY <1>5, <1>6, <1>8
  <2> QED
      BY <1>3, <1>5, <1>6, <2>1, <2>2
<1>9. \A i \in 1..Len(Ring') : Ring'[i] = Append(Ring, msg)[i]
    BY <1>3, <1>4, <1>5, <1>6, <1>7, <1>8
<1> QED
    BY <1>3, <1>4, <1>5, <1>9, SeqEqual

\* The message that is taken out is the oldest one.
LEMMA TakeTails ==
    ASSUME RingInv, TakeStep
    PROVE  /\ Ring # <<>>
           /\ delivered' = Head(Ring)
           /\ Ring' = Tail(Ring)
<1>1. RingInv'
    BY TakeKeepsRing
<1>2. /\ Ring \in Seq(Content) /\ Len(Ring) = used
      /\ \A i \in 1..used : Ring[i] = memory[Slot(i)]
    BY RingIsSeq DEF RingIsRight
<1>3. /\ Ring' \in Seq(Content) /\ Len(Ring') = used'
      /\ \A i \in 1..used' : Ring'[i] = memory'[Slot(i)']
  <2>1. RingIsRight'
      BY <1>1, RingIsSeq, PTL
  <2> QED
      BY <2>1 DEF RingIsRight
<1>4. /\ used' = used - 1 /\ read_pos' = NextPos(read_pos) /\ memory' = memory
      /\ delivered' = memory[read_pos] /\ used > 0
    BY DEF Take, TakeStep
<1>5. used \in 0..total /\ read_pos \in 0..total - 1 /\ total \in Nat
    BY SmqAssumption DEF RingInv
<1>6. Ring # <<>>
    BY <1>2, <1>4, <1>5
<1>7. Head(Ring) = memory[read_pos]
  <2>1. Head(Ring) = Ring[1]
      BY <1>2, <1>6
  <2>2. Slot(1) = read_pos /\ 1 \in 1..used
      BY <1>4, <1>5 DEF Slot
  <2> QED
      BY <1>2, <2>1, <2>2
<1>8. /\ Tail(Ring) \in Seq(Content) /\ Len(Tail(Ring)) = used - 1
      /\ \A i \in 1..used - 1 : Tail(Ring)[i] = Ring[i + 1]
    BY <1>2, <1>6, HeadTailProperties
<1>9. ASSUME NEW i \in 1..used - 1
      PROVE  Ring'[i] = Tail(Ring)[i]
  <2>1. Slot(i)' = Slot(i + 1)
      BY <1>4, <1>5 DEF Slot, NextPos
  <2>2. i + 1 \in 1..used
      BY <1>5
  <2> QED
      BY <1>2, <1>3, <1>4, <1>8, <2>1, <2>2
<1>10. Ring' = Tail(Ring)
    BY <1>3, <1>4, <1>8, <1>9, SeqEqual
<1> QED
    BY <1>4, <1>6, <1>7, <1>10
-----------------------------------------------------------------------------
(* The steps of the queue.                                                 *)

\* What the calls of a task do to the calling states and messages.
LEMMA GotoKeepsSending ==
    ASSUME SendingInv, NEW t \in Tasks, NEW where \in Calling, Goto(t, where),
           NEW msg \in Content, where = "smq_send" => msg \in Message,
           sending' = [sending EXCEPT ![t] = msg]
    PROVE  SendingInv'
    BY DEF SendingInv, Goto

LEMMA LoopKinds ==
    ASSUME RingInv, SendingInv, NEW t \in Tasks
    PROVE  /\ \A msg \in Message : SendLoop(t, msg) =>
                  SendingInv' /\ (PutStep \/ IdleStep)
           /\ ReceiveLoop(t) => SendingInv' /\ (TakeStep \/ IdleStep)
<1>0. used \in Nat /\ total \in Nat
    BY SmqAssumption DEF RingInv
<1>1. ASSUME NEW msg \in Message, SendLoop(t, msg)
      PROVE  SendingInv' /\ (PutStep \/ IdleStep)
  <2>1. CASE used >= total
      BY <1>1, <2>1, GotoKeepsSending
         DEF SendLoop, BlockIn, Calling, Content, IdleStep
  <2>2. CASE ~(used >= total)
    <3>1. Put(msg) /\ Return(WakeFirst(gyros, smq), t)
        BY <1>1, <2>2 DEF SendLoop
    <3>2. SendingInv'
        BY <3>1, GotoKeepsSending DEF Return, Calling, Content
    <3> QED
        BY <1>0, <2>2, <3>1, <3>2 DEF PutStep
  <2> QED
      BY <2>1, <2>2
<1>2. ASSUME ReceiveLoop(t)
      PROVE  SendingInv' /\ (TakeStep \/ IdleStep)
  <2>1. CASE used = 0
      BY <1>2, <2>1, GotoKeepsSending
         DEF ReceiveLoop, BlockIn, Calling, Content, IdleStep
  <2>2. CASE used # 0
      BY <1>0, <1>2, <2>2, GotoKeepsSending
         DEF ReceiveLoop, Return, Calling, Content, TakeStep
  <2> QED
      BY <2>1, <2>2
<1> QED
    BY <1>1, <1>2

LEMMA StepKinds ==
    ASSUME RingInv, SendingInv, [Next]_vars
    PROVE  SendingInv' /\ (PutStep \/ TakeStep \/ IdleStep)
<1>0. used \in Nat /\ total \in Nat
    BY SmqAssumption DEF RingInv
<1>1. CASE SmqTick
    BY <1>1 DEF SmqTick, Tick, SendingInv, IdleStep, smqVars
<1>2. CASE SmqSwitch
    BY <1>2 DEF SmqSwitch, ContextSwitch, SendingInv, IdleStep, smqVars
<1>3. CASE ReceiveInInterrupt
    BY <1>3 DEF ReceiveInInterrupt, SendingInv, TakeStep
<1>4. ASSUME NEW msg \in Message, gyros_smq_send(msg)
      PROVE  SendingInv' /\ (PutStep \/ TakeStep \/ IdleStep)
    BY <1>4 DEF gyros_smq_send, SendingInv, PutStep
<1>5. ASSUME NEW t \in AppTasks, NEW msg \in Message, SendBlocking(t, msg)
      PROVE  SendingInv' /\ (PutStep \/ TakeStep \/ IdleStep)
    BY <1>5, LoopKinds DEF SendBlocking, AppTasks
<1>6. ASSUME NEW t \in AppTasks, gyros_smq_receive(t)
      PROVE  SendingInv' /\ (PutStep \/ TakeStep \/ IdleStep)
    BY <1>6, LoopKinds DEF gyros_smq_receive, AppTasks
<1>7. ASSUME NEW t \in AppTasks, NEW timeout, gyros_smq_receive_until(t, timeout)
      PROVE  SendingInv' /\ (PutStep \/ TakeStep \/ IdleStep)
  <2>1. CASE used > 0
      BY <1>7, <2>1, GotoKeepsSending
         DEF gyros_smq_receive_until, Return, TakeStep, AppTasks, Calling, Content
  <2>2. CASE ~(used > 0) /\ TimeoutReached(gyros, timeout)
      BY <1>7, <2>2 DEF gyros_smq_receive_until, SendingInv, IdleStep, smqVars
  <2>3. CASE ~(used > 0) /\ ~TimeoutReached(gyros, timeout)
      BY <1>7, <2>3, GotoKeepsSending
         DEF gyros_smq_receive_until, BlockIn, IdleStep, AppTasks, Calling, Content
  <2> QED
      BY <2>1, <2>2, <2>3
<1>8. ASSUME NEW t \in AppTasks, SmqStep(t)
      PROVE  SendingInv' /\ (PutStep \/ TakeStep \/ IdleStep)
  <2>1. CASE SendWoken(t)
    <3>1. sending[t] \in Message
        BY <2>1 DEF SendWoken, Continues, SendingInv, AppTasks
    <3> QED
        BY <2>1, <3>1, LoopKinds DEF SendWoken, AppTasks
  <2>2. CASE ReceiveWoken(t)
      BY <2>2, LoopKinds DEF ReceiveWoken, AppTasks
  <2>3. CASE ReceiveUntilWoken(t)
    <3>1. SendingInv'
        BY <2>3, GotoKeepsSending
           DEF ReceiveUntilWoken, Return, AppTasks, Calling, Content
    <3>2. TakeStep \/ IdleStep
        BY <1>0, <2>3 DEF ReceiveUntilWoken, TakeStep, IdleStep
    <3> QED
        BY <3>1, <3>2
  <2> QED
      BY <1>8, <2>1, <2>2, <2>3 DEF SmqStep
<1>9. ASSUME NEW t \in AppTasks, SmqRest(t)
      PROVE  SendingInv' /\ (PutStep \/ TakeStep \/ IdleStep)
    BY <1>9 DEF SmqRest, Rest, Goto, SendingInv, IdleStep, smqVars, Calling, AppTasks
<1>10. ASSUME NEW t \in AppTasks, SmqResume(t)
      PROVE  SendingInv' /\ (PutStep \/ TakeStep \/ IdleStep)
    BY <1>10 DEF SmqResume, Resume, Goto, SendingInv, IdleStep, smqVars, Calling, AppTasks
<1>11. CASE UNCHANGED vars
    BY <1>11 DEF vars, smqVars, SendingInv, IdleStep
<1> QED
    BY <1>1, <1>2, <1>3, <1>4, <1>5, <1>6, <1>7, <1>8, <1>9, <1>10, <1>11, Zenon
       DEF SmqNext, Next

LEMMA IdleKeepsRing ==
    ASSUME RingInv, IdleStep
    PROVE  RingInv' /\ Ring' = Ring /\ delivered' = delivered
    BY DEF RingInv, IdleStep, ringVars, Ring, Slot

-----------------------------------------------------------------------------
(* The theorems.                                                           *)

LEMMA RingInvInit == Init => RingInv /\ SendingInv
    BY SmqAssumption DEF Init, SmqInit, RingInv, SendingInv, Content, Calling

LEMMA RingInvNext == RingInv /\ SendingInv /\ [Next]_vars => (RingInv /\ SendingInv)'
<1> SUFFICES ASSUME RingInv, SendingInv, [Next]_vars
             PROVE  RingInv' /\ SendingInv'
    OBVIOUS
<1> QED
    BY StepKinds, PutKeepsRing, TakeKeepsRing, IdleKeepsRing

\* The positions always fit the number of messages in the ring, and every
\* sender that sleeps has a message to send.
THEOREM RingAlwaysRight == Spec => [](RingInv /\ SendingInv)
    BY RingInvInit, RingInvNext, PTL DEF Spec

LEMMA InitRefines == Init => Fifo!Init
<1> SUFFICES ASSUME Init PROVE Fifo!Init
    OBVIOUS
<1>1. RingIsRight
    BY RingInvInit, RingIsSeq
<1>2. Ring = <<>>
    BY <1>1 DEF RingIsRight, Init, SmqInit
<1> QED
    BY <1>2, SmqAssumption DEF Fifo!Init, Init, SmqInit

LEMMA StepRefines ==
    RingInv /\ SendingInv /\ [Next]_vars => [Fifo!Next]_<<Ring, delivered>>
<1> SUFFICES ASSUME RingInv, SendingInv, [Next]_vars
             PROVE  [Fifo!Next]_<<Ring, delivered>>
    OBVIOUS
<1>1. CASE PutStep
  <2>1. PICK msg \in Message : used < total /\ Put(msg)
      BY <1>1 DEF PutStep
  <2>2. Ring' = Append(Ring, msg)
      BY <2>1, PutAppends
  <2>3. Len(Ring) < total /\ delivered' = delivered
      BY <2>1, RingIsSeq DEF RingIsRight, Put
  <2> QED
      BY <2>2, <2>3 DEF Fifo!Next, Fifo!Put
<1>2. CASE TakeStep
    BY <1>2, TakeTails DEF Fifo!Next, Fifo!Get
<1>3. CASE IdleStep
    BY <1>3, IdleKeepsRing
<1> QED
    BY <1>1, <1>2, <1>3, StepKinds

\* The static message queue implements a bounded FIFO.
THEOREM QueueImplementsFifo == Spec => ImplementsFifo
    BY RingAlwaysRight, InitRefines, StepRefines, PTL DEF Spec, ImplementsFifo, Fifo!Spec

-----------------------------------------------------------------------------
(* Who sleeps at the queue.                                                *)

SmqCalls == {"smq_send", "smq_receive", "smq_receive_until"}
ReceiveCalls == {"smq_receive", "smq_receive_until"}

\* A task sleeps in a call of the queue, only one kind of call has a timeout,
\* and a sender is inside its call only because it has slept.
AtQueue(t) ==
    /\ gyros.main_list[t] = smq => pc[t] \in SmqCalls
    /\ t \in Elements(gyros.timeouts) => pc[t] = "smq_receive_until"
    /\ pc[t] = "smq_send" => sender_slept

\* Every message has a receiver, if any receiver sleeps.
Attended(n, awake, asleep) == asleep # {} => EnoughFor(n, awake)

AttendInv ==
    /\ ScheduleOK(gyros)
    /\ \A t \in AppTasks : AtQueue(t)
    /\ sender_slept \in BOOLEAN
    /\ ~sender_slept => Attended(used, WokenReceivers, Waiters(smq))

\* What a step does to the tasks other than t, and where t is after it: the
\* tasks in W are woken from the queue's list.
Leaves(t, W) ==
    /\ ScheduleOK(gyros')
    /\ \A u \in AppTasks \ {t} :
           /\ gyros'.main_list[u] = IF u \in W THEN Running ELSE gyros.main_list[u]
           /\ u \in Elements(gyros'.timeouts) => u \in Elements(gyros.timeouts)
           /\ pc'[u] = pc[u]
    /\ gyros'.main_list[t] = smq => pc'[t] \in SmqCalls
    /\ t \in Elements(gyros'.timeouts) => pc'[t] = "smq_receive_until"
    /\ sender_slept' = (sender_slept \/ \E u \in AppTasks : pc'[u] = "smq_send")

LEMMA SmqNames ==
    /\ smq \in Objects /\ smq \in ListIds /\ Running # smq /\ NoList # smq
    /\ AppTasks \subseteq Tasks /\ Idle \notin AppTasks /\ Idle \in Tasks
    BY SmqAssumption, ListNames DEF ListIds

\* Who is in the list, and who has been woken.
LEMMA QueueSets ==
    ASSUME AttendInv
    PROVE  /\ WokenReceivers = {u \in AppTasks : pc[u] \in ReceiveCalls
                                                 /\ gyros.main_list[u] = Running}
           /\ Waiters(smq) = {u \in AppTasks : gyros.main_list[u] = smq}
           /\ WokenReceivers \in SUBSET Tasks
<1>1. KernelOK(gyros) /\ gyros.main_list[Idle] = Running
    BY DEF AttendInv, ScheduleOK, Sound
<1>2. Waiters(smq) = {u \in Tasks : gyros.main_list[u] = smq}
    BY <1>1, WaitersAre, SmqNames DEF Waiters
<1>3. \A u : u \in Tasks /\ gyros.main_list[u] = smq => u \in AppTasks
    BY <1>1, SmqNames DEF AppTasks
<1> QED
    BY <1>2, <1>3, SmqNames DEF WokenReceivers, ReceiveCalls, Runs

LEMMA AtQueueNext ==
    ASSUME AttendInv, NEW t \in Tasks, NEW W, Leaves(t, W)
    PROVE  /\ ScheduleOK(gyros') /\ sender_slept' \in BOOLEAN
           /\ \A u \in AppTasks : AtQueue(u)'
<1>1. ASSUME NEW u \in AppTasks PROVE AtQueue(u)'
  <2>1. pc'[u] = "smq_send" => sender_slept'
      BY DEF Leaves
  <2>2. CASE u = t
      BY <2>1, <2>2 DEF Leaves, AtQueue
  <2>3. CASE u # t
    <3>1. /\ gyros'.main_list[u] = IF u \in W THEN Running ELSE gyros.main_list[u]
          /\ u \in Elements(gyros'.timeouts) => u \in Elements(gyros.timeouts)
          /\ pc'[u] = pc[u]
        BY <2>3 DEF Leaves
    <3>2. AtQueue(u)
        BY DEF AttendInv
    <3> QED
        BY <2>1, <3>1, <3>2, SmqNames DEF AtQueue
  <2> QED
      BY <2>2, <2>3
<1>2. sender_slept' \in BOOLEAN
    BY DEF Leaves
<1> QED
    BY <1>1, <1>2 DEF Leaves

\* The same sets after the step.
LEMMA QueueSetsNext ==
    ASSUME AttendInv, NEW t \in Tasks, NEW W, Leaves(t, W)
    PROVE  /\ WokenReceivers' = {u \in AppTasks : pc'[u] \in ReceiveCalls
                                                  /\ gyros'.main_list[u] = Running}
           /\ Waiters(smq)' = {u \in AppTasks : gyros'.main_list[u] = smq}
           /\ WokenReceivers' \in SUBSET Tasks
<1>1. KernelOK(gyros') /\ gyros'.main_list[Idle] = Running
    BY DEF Leaves, ScheduleOK, Sound
<1>2. Elements(gyros'.lists[smq]) = {u \in Tasks : gyros'.main_list[u] = smq}
    BY <1>1, WaitersAre, SmqNames
<1>3. \A u : u \in Tasks /\ gyros'.main_list[u] = smq => u \in AppTasks
    BY <1>1, SmqNames DEF AppTasks
<1> QED
    BY <1>2, <1>3, SmqNames DEF WokenReceivers, ReceiveCalls, Runs, Waiters

\* Until a sender has slept no task sends inside a call.
LEMMA NoSenders ==
    ASSUME AttendInv, NEW t \in Tasks, NEW W, Leaves(t, W), ~sender_slept'
    PROVE  /\ ~sender_slept
           /\ \A u \in AppTasks : pc[u] # "smq_send" /\ pc'[u] # "smq_send"
    BY DEF Leaves, AttendInv, AtQueue

\* A step that adds no message and wakes no receiver leaves them attended: if
\* t was a receiver that had been woken, a message is gone or none is left.
LEMMA AttendedStill ==
    ASSUME AttendInv, NEW t \in Tasks, NEW W, Leaves(t, W), used \in Nat, used' \in Nat,
           \/ used' = 0
           \/ used' = used - 1
           \/ used' <= used /\ t \notin WokenReceivers,
           gyros'.main_list[t] = smq => used' = 0
    PROVE  AttendInv'
<1>1. ASSUME ~sender_slept', Waiters(smq)' # {}
      PROVE  EnoughFor(used', WokenReceivers')
  <2>1. /\ WokenReceivers \ {t} \subseteq WokenReceivers'
        /\ WokenReceivers' \in SUBSET Tasks
      BY QueueSets, QueueSetsNext DEF Leaves
  <2>2. CASE used' = 0
    <3>1. Cardinality(WokenReceivers') \in Nat
        BY <2>1, FiniteTasks
    <3> QED
        BY <2>1, <2>2, <3>1 DEF EnoughFor
  <2>3. CASE used' # 0
    <3>1. Waiters(smq) # {}
        BY <1>1, <2>3, QueueSets, QueueSetsNext, SmqNames DEF Leaves
    <3>2. EnoughFor(used, WokenReceivers)
        BY <1>1, <3>1, NoSenders DEF AttendInv, Attended
    <3>3. CASE used' = used - 1
        BY <2>1, <2>3, <3>2, <3>3, OneLess
    <3>4. CASE used' <= used /\ t \notin WokenReceivers
        BY <2>1, <3>2, <3>4, EnoughIsMore
    <3> QED
        BY <2>3, <3>3, <3>4
  <2> QED
      BY <2>2, <2>3
<1> QED
    BY <1>1, AtQueueNext DEF AttendInv, Attended

\* A message is added, and the first receiver is woken if any sleeps.
LEMMA AttendedWoken ==
    ASSUME AttendInv, NEW t \in Tasks, NEW W, Leaves(t, W), used \in Nat, used' = used + 1,
           t \notin WokenReceivers, gyros'.main_list[t] # smq,
           \/ W = {} /\ Waiters(smq) = {}
           \/ \E w \in Waiters(smq) : w # t /\ W = {w}
    PROVE  AttendInv'
<1>1. ASSUME ~sender_slept', Waiters(smq)' # {}
      PROVE  EnoughFor(used', WokenReceivers')
  <2>1. CASE \E w \in Waiters(smq) : w # t /\ W = {w}
    <3>1. PICK w \in Waiters(smq) : w # t /\ W = {w}
        BY <2>1
    <3>2. EnoughFor(used, WokenReceivers)
        BY <1>1, <3>1, NoSenders DEF AttendInv, Attended
    <3>3. /\ WokenReceivers \subseteq WokenReceivers'
          /\ WokenReceivers' \in SUBSET Tasks
        BY <3>1, QueueSets, QueueSetsNext, SmqNames DEF Leaves
    <3>4. w \in AppTasks /\ gyros.main_list[w] = smq
        BY QueueSets
    <3>5. pc[w] \in ReceiveCalls
        BY <1>1, <3>4, NoSenders DEF AttendInv, AtQueue, ReceiveCalls, SmqCalls
    <3>6. w \in WokenReceivers' /\ w \notin WokenReceivers
        BY <3>1, <3>4, <3>5, QueueSets, QueueSetsNext, SmqNames DEF Leaves
    <3> QED
        BY <3>2, <3>3, <3>6, OneMore
  <2>2. CASE W = {} /\ Waiters(smq) = {}
      BY <1>1, <2>2, QueueSets, QueueSetsNext DEF Leaves
  <2> QED
      BY <2>1, <2>2
<1> QED
    BY <1>1, AtQueueNext DEF AttendInv, Attended

\* A task that executes is awake, and its call decides whether it is counted.
LEMMA ExecutingHere ==
    ASSUME AttendInv, NEW t \in AppTasks, Executing(t)
    PROVE  /\ Sound(gyros) /\ ScheduleOK(gyros) /\ gyros.current = t
           /\ gyros.main_list[t] = Running /\ t \notin Elements(gyros.timeouts)
           /\ t \in Tasks /\ t # Idle
    BY CurrentIsHighest, SmqNames DEF AttendInv, ScheduleOK, Executing

\* The latch of the properties.
Latched == sender_slept' = (sender_slept \/ \E u \in AppTasks : pc'[u] = "smq_send")

LEMMA TypesHere ==
    ASSUME AttendInv, SendingInv
    PROVE  /\ DOMAIN pc = Tasks /\ Sound(gyros) /\ KernelOK(gyros)
           /\ DOMAIN gyros.main_list = Tasks /\ DOMAIN gyros.timed_out = Tasks
           /\ \A t \in Tasks : gyros.timeout[t] \in Time
    BY DEF SendingInv, AttendInv, ScheduleOK, Sound, KernelOK, KernelStates

\* t blocks, without or with a timeout.
LEMMA BlockLeaves ==
    ASSUME AttendInv, SendingInv, Latched, NEW t \in AppTasks, Executing(t), NEW msg,
           NEW where \in SmqCalls,
           \/ BlockIn(gyros, t, where, msg)
           \/ /\ where = "smq_receive_until"
              /\ \E timeout \in Time :
                     BlockIn(gyros__task_set_timeout(gyros, timeout), t, where, msg)
    PROVE  Leaves(t, {})
<1>1. /\ Sound(gyros) /\ gyros.current = t /\ gyros.main_list[t] = Running
      /\ t \notin Elements(gyros.timeouts) /\ t # Idle /\ t \in Tasks /\ smq \in Objects
    BY ExecutingHere, SmqNames
<1>2. /\ ScheduleOK(gyros')
      /\ gyros'.main_list = [gyros.main_list EXCEPT ![t] = smq]
      /\ Elements(gyros'.timeouts) \subseteq Elements(gyros.timeouts) \cup {t}
      /\ t \in Elements(gyros'.timeouts) => where = "smq_receive_until"
  <2>1. CASE BlockIn(gyros, t, where, msg)
    <3>1. /\ Moved(gyros, gyros', t, smq) /\ ScheduleOK(gyros')
          /\ gyros'.timeouts = gyros.timeouts
        BY <1>1, <2>1, WaitSound DEF BlockIn
    <3> QED
        BY <1>1, <3>1 DEF Moved
  <2>2. ASSUME where = "smq_receive_until", NEW timeout \in Time,
               BlockIn(gyros__task_set_timeout(gyros, timeout), t, where, msg)
        PROVE  /\ ScheduleOK(gyros')
               /\ gyros'.main_list = [gyros.main_list EXCEPT ![t] = smq]
               /\ Elements(gyros'.timeouts) \subseteq Elements(gyros.timeouts) \cup {t}
               /\ t \in Elements(gyros'.timeouts) => where = "smq_receive_until"
    <3>1. TimedWait(gyros, gyros', smq, timeout)
        BY <1>1, <2>2, WaitUntilSound DEF BlockIn
    <3> QED
        BY <1>1, <2>2, <3>1 DEF TimedWait
  <2> QED
      BY <2>1, <2>2
<1>3. pc' = [pc EXCEPT ![t] = where]
    BY DEF BlockIn, Goto
<1> QED
    BY <1>1, <1>2, <1>3, TypesHere, SmqNames DEF Leaves, Latched

LEMMA BlockAttended ==
    ASSUME AttendInv, SendingInv, Latched, NEW t \in AppTasks, Executing(t), NEW msg,
           NEW where \in SmqCalls, used \in Nat, where = "smq_send" \/ used = 0,
           \/ BlockIn(gyros, t, where, msg)
           \/ /\ where = "smq_receive_until"
              /\ \E timeout \in Time :
                     BlockIn(gyros__task_set_timeout(gyros, timeout), t, where, msg)
    PROVE  AttendInv'
<1>1. Leaves(t, {})
    BY BlockLeaves
<1>2. used' = used /\ t \in Tasks /\ pc' = [pc EXCEPT ![t] = where]
    BY SmqNames DEF BlockIn, Goto, ringVars
<1>3. CASE used = 0
    BY <1>1, <1>2, <1>3, AttendedStill
<1>4. CASE where = "smq_send"
  <2>1. sender_slept'
      BY <1>2, <1>4, TypesHere DEF Latched
  <2> QED
      BY <1>1, <1>2, <2>1, AtQueueNext DEF AttendInv
<1> QED
    BY <1>3, <1>4

\* The call of t returns: with a message that lay in the queue, or with none.
LEMMA ReturnAttended ==
    ASSUME AttendInv, SendingInv, Latched, NEW t \in AppTasks, Executing(t),
           Return(gyros, t), used \in Nat, used' \in Nat,
           used' = used - 1 \/ (used' = used /\ used = 0)
    PROVE  AttendInv'
<1>1. /\ Sound(gyros) /\ ScheduleOK(gyros) /\ gyros.main_list[t] = Running
      /\ t \notin Elements(gyros.timeouts) /\ t \in Tasks
    BY ExecutingHere
<1>2. Forgotten(gyros, gyros', t)
    BY <1>1, ForgetSound DEF Return
<1>3. pc' = [pc EXCEPT ![t] = "task"]
    BY DEF Return, Goto
<1>4. Leaves(t, {}) /\ gyros'.main_list[t] # smq
    BY <1>1, <1>2, <1>3, TypesHere, SmqNames DEF Leaves, Latched, Forgotten
<1> QED
    BY <1>1, <1>4, AttendedStill

\* A message is put in, by a task in its own code or by somebody else (t).
LEMMA SendAttended ==
    ASSUME AttendInv, SendingInv, Latched, NEW t \in Tasks, NEW k,
           k = WakeFirst(gyros, smq), used \in Nat, used' = used + 1,
           \/ /\ t = Idle /\ gyros' = k /\ pc' = pc
           \/ /\ t \in AppTasks /\ Executing(t) /\ pc[t] \in {"task", "smq_send"}
              /\ gyros' = ForgetTimeout(k, t)
              /\ pc' = [pc EXCEPT ![t] = "task"]
    PROVE  AttendInv'
<1>1. /\ Sound(gyros) /\ ScheduleOK(gyros) /\ gyros.main_list[t] = Running
      /\ t \notin Elements(gyros.timeouts)
  <2>1. CASE t = Idle
      BY <2>1, ListNames DEF AttendInv, ScheduleOK, Sound
  <2>2. CASE t \in AppTasks /\ Executing(t)
      BY <2>2, ExecutingHere
  <2> QED
      BY <2>1, <2>2
<1>2. FirstWoken(gyros, k, smq)
    BY <1>1, WakeFirstSound, SmqNames
<1>3. /\ ScheduleOK(gyros') /\ gyros'.main_list = k.main_list
      /\ gyros'.timeouts = k.timeouts
  <2>1. Sound(k) /\ ScheduleOK(k)
      BY <1>1, <1>2 DEF FirstWoken
  <2>2. Forgotten(k, ForgetTimeout(k, t), t)
      BY <2>1, ForgetSound
  <2> QED
      BY <2>1, <2>2 DEF Forgotten
<1>4. t \notin WokenReceivers
    BY SmqNames, QueueSets DEF ReceiveCalls
<1>5. /\ \A u \in AppTasks \ {t} : pc'[u] = pc[u]
    BY TypesHere, SmqNames
<1>6. ASSUME NEW w \in Tasks, gyros.main_list[w] = smq,
             k.main_list = [gyros.main_list EXCEPT ![w] = Running],
             Elements(k.timeouts) = Elements(gyros.timeouts) \ {w}
      PROVE  AttendInv'
  <2>1. w # t /\ w \in AppTasks
      BY <1>1, <1>6, SmqNames DEF Sound, AppTasks
  <2>2. Leaves(t, {w}) /\ gyros'.main_list[t] # smq
      BY <1>1, <1>3, <1>5, <1>6, <2>1, TypesHere, SmqNames DEF Leaves, Latched
  <2>3. w \in Waiters(smq)
      BY <1>6, <2>1, QueueSets
  <2> QED
      BY <1>4, <2>1, <2>2, <2>3, AttendedWoken
<1>7. ASSUME k = gyros, \A x \in Tasks : gyros.main_list[x] # smq
      PROVE  AttendInv'
  <2>1. Leaves(t, {}) /\ gyros'.main_list[t] # smq
      BY <1>1, <1>3, <1>5, <1>7, SmqNames DEF Leaves, Latched
  <2>2. Waiters(smq) = {}
      BY <1>7, QueueSets, SmqNames
  <2> QED
      BY <1>4, <2>1, <2>2, AttendedWoken
<1> QED
    BY <1>2, <1>6, <1>7 DEF FirstWoken

\* The surroundings.
LEMMA OthersAttended ==
    ASSUME AttendInv, SendingInv, Latched, used \in Nat, used' \in Nat, used' <= used,
           \/ SmqTick
           \/ SmqSwitch
           \/ UNCHANGED <<gyros, pc>>
           \/ \E t \in AppTasks : SmqRest(t) \/ SmqResume(t)
    PROVE  AttendInv'
<1>0. /\ Sound(gyros) /\ ScheduleOK(gyros) /\ gyros.main_list[Idle] = Running
      /\ Idle \notin Elements(gyros.timeouts) /\ Idle \in Tasks
    BY ListNames DEF AttendInv, ScheduleOK, Sound
<1>1. CASE UNCHANGED <<gyros, pc>>
  <2>1. Leaves(Idle, {})
      BY <1>0, <1>1, SmqNames DEF Leaves, Latched
  <2> QED
      BY <1>0, <1>1, <2>1, AttendedStill, SmqNames, QueueSets
<1>2. CASE SmqSwitch
  <2>1. /\ ScheduleOK(gyros') /\ pc' = pc
        /\ gyros'.main_list = gyros.main_list /\ gyros'.timeouts = gyros.timeouts
      BY <1>0, <1>2, SwitchSound DEF SmqSwitch, ContextSwitch
  <2>2. Leaves(Idle, {})
      BY <1>0, <2>1, SmqNames DEF Leaves, Latched
  <2> QED
      BY <1>0, <2>1, <2>2, AttendedStill, SmqNames, QueueSets
<1>3. CASE SmqTick
  <2>1. gyros' = gyros__tick(gyros, (gyros.now + 1) % TimeRange) /\ pc' = pc
      BY <1>3 DEF SmqTick, Tick
  <2>2. (gyros.now + 1) % TimeRange \in Time
      BY <1>0, LaterIsTime DEF Sound
  <2>3. /\ ScheduleOK(gyros')
        /\ Elements(gyros'.timeouts) \subseteq Elements(gyros.timeouts)
        /\ \A u \in Tasks : \/ gyros'.main_list[u] = gyros.main_list[u]
                            \/ gyros'.main_list[u] = Running
      BY <1>0, <2>1, <2>2, TickSound
  <2> DEFINE W == {u \in Tasks : gyros'.main_list[u] = Running}
  <2>4. Leaves(Idle, W) /\ gyros'.main_list[Idle] # smq
      BY <1>0, <2>1, <2>3, SmqNames DEF Leaves, Latched, ScheduleOK, Sound
  <2> HIDE DEF W
  <2> QED
      BY <1>0, <2>4, AttendedStill, SmqNames, QueueSets
<1>4. ASSUME NEW t \in AppTasks, SmqRest(t) PROVE AttendInv'
  <2> DEFINE n == RemoveTimeout(gyros__task_suspend(gyros, t), t)
  <2>1. /\ Executing(t) /\ pc[t] = "task" /\ gyros' = gyros__reschedule(n)
        /\ pc' = [pc EXCEPT ![t] = "rest"]
      BY <1>4 DEF SmqRest, Rest, Calls, Goto
  <2>2. Moved(gyros, n, t, NoList) /\ Elements(n.timeouts) = Elements(gyros.timeouts) \ {t}
      BY <1>0, SuspendSound
  <2> HIDE DEF n
  <2>3. Scheduled(n, gyros')
      BY <2>1, <2>2, RescheduleSound DEF Moved
  <2>4. Leaves(t, {}) /\ gyros'.main_list[t] # smq
      BY <2>1, <2>2, <2>3, TypesHere, SmqNames DEF Leaves, Latched, Moved, Scheduled
  <2>5. t \notin WokenReceivers
      BY <2>1, QueueSets DEF ReceiveCalls
  <2> QED
      BY <2>4, <2>5, AttendedStill, SmqNames
<1>5. ASSUME NEW t \in AppTasks, SmqResume(t) PROVE AttendInv'
  <2> DEFINE n == gyros__task_move(gyros, t, Running)
  <2>1. /\ pc[t] = "rest" /\ gyros' = gyros__cond_reschedule(n)
        /\ pc' = [pc EXCEPT ![t] = "task"]
      BY <1>5 DEF SmqResume, Resume, Goto
  <2>2. t \notin Elements(gyros.timeouts) /\ t \in Tasks
      BY <2>1, SmqNames DEF AttendInv, AtQueue
  <2>3. Moved(gyros, n, t, Running) /\ n.timeouts = gyros.timeouts
      BY <1>0, <2>2, MoveSound
  <2> HIDE DEF n
  <2>4. Scheduled(n, gyros')
      BY <2>1, <2>3, RescheduleSound DEF Moved
  <2>5. Leaves(t, {}) /\ gyros'.main_list[t] # smq
      BY <2>1, <2>2, <2>3, <2>4, TypesHere, SmqNames DEF Leaves, Latched, Moved, Scheduled
  <2>6. t \notin WokenReceivers
      BY <2>1, QueueSets DEF ReceiveCalls
  <2> QED
      BY <2>5, <2>6, AttendedStill, SmqNames
<1> QED
    BY <1>1, <1>2, <1>3, <1>4, <1>5

LEMMA AttendInit == Init => AttendInv
<1> SUFFICES ASSUME Init PROVE AttendInv
    OBVIOUS
<1>1. /\ ScheduleOK(gyros) /\ gyros.main_list = [t \in Tasks |-> Running]
      /\ gyros.timeouts = <<>>
    BY StartedSound DEF Init, SmqInit
<1>2. Elements(gyros.timeouts) = {}
    BY <1>1 DEF Elements, ToSet
<1>3. \A t \in AppTasks : AtQueue(t)
    BY <1>1, <1>2, SmqNames DEF AtQueue, Init, SmqInit
<1>4. Waiters(smq) = {}
  <2>1. Waiters(smq) = {u \in Tasks : gyros.main_list[u] = smq}
      BY <1>1, WaitersAre, SmqNames DEF Waiters, ScheduleOK, Sound
  <2> QED
      BY <1>1, <2>1, SmqNames
<1> QED
    BY <1>1, <1>3, <1>4 DEF AttendInv, Attended, Init

LEMMA AttendNext ==
    RingInv /\ SendingInv /\ AttendInv /\ [Next]_vars => AttendInv'
<1> SUFFICES ASSUME RingInv, SendingInv, AttendInv, [Next]_vars PROVE AttendInv'
    OBVIOUS
<1>0. used \in Nat /\ total \in Nat
    BY SmqAssumption DEF RingInv
<1>1. CASE UNCHANGED vars
  <2>1. gyros' = gyros /\ pc' = pc /\ used' = used /\ sender_slept' = sender_slept
      BY <1>1 DEF vars, smqVars, ringVars
  <2> QED
      BY <2>1 DEF AttendInv, AtQueue, Attended, WokenReceivers, Waiters, Runs
<1> SUFFICES ASSUME SmqNext, Latched PROVE AttendInv'
    BY <1>1 DEF Next, Latched
<1>2. ASSUME SmqTick \/ SmqSwitch \/ \E t \in AppTasks : SmqRest(t) \/ SmqResume(t)
      PROVE  AttendInv'
  <2>1. used' = used
      BY <1>2 DEF SmqTick, SmqSwitch, SmqRest, SmqResume, smqVars, ringVars
  <2> QED
      BY <1>0, <1>2, <2>1, OthersAttended
<1>3. CASE ReceiveInInterrupt
  <2>1. used' = used - 1 /\ used > 0 /\ UNCHANGED <<gyros, pc>>
      BY <1>3 DEF ReceiveInInterrupt, Take
  <2> QED
      BY <1>0, <2>1, OthersAttended
<1>4. ASSUME NEW msg \in Message, gyros_smq_send(msg) PROVE AttendInv'
  <2>1. used' = used + 1 /\ gyros' = WakeFirst(gyros, smq) /\ pc' = pc
      BY <1>4 DEF gyros_smq_send, Put
  <2> QED
      BY <1>0, <2>1, SendAttended, SmqNames
<1>5. ASSUME NEW t \in AppTasks, NEW msg, SendLoop(t, msg), Executing(t),
             pc[t] \in {"task", "smq_send"}
      PROVE  AttendInv'
  <2>1. CASE used >= total
      BY <1>0, <1>5, <2>1, BlockAttended DEF SendLoop, SmqCalls
  <2>2. CASE ~(used >= total)
    <3>1. /\ used' = used + 1 /\ gyros' = ForgetTimeout(WakeFirst(gyros, smq), t)
          /\ pc' = [pc EXCEPT ![t] = "task"]
        BY <1>5, <2>2 DEF SendLoop, Put, Return, Goto
    <3> QED
        BY <1>0, <1>5, <3>1, SendAttended, SmqNames
  <2> QED
      BY <2>1, <2>2
<1>6. ASSUME NEW t \in AppTasks, ReceiveLoop(t), Executing(t)
      PROVE  AttendInv'
  <2>1. CASE used = 0
      BY <1>0, <1>6, <2>1, BlockAttended DEF ReceiveLoop, SmqCalls
  <2>2. CASE used # 0
    <3>1. used' = used - 1 /\ Return(gyros, t)
        BY <1>6, <2>2 DEF ReceiveLoop, Take
    <3> QED
        BY <1>0, <1>6, <2>2, <3>1, ReturnAttended
  <2> QED
      BY <2>1, <2>2
<1>7. ASSUME NEW t \in AppTasks, NEW delay \in 0..MaxDelay,
             gyros_smq_receive_until(t, Deadline(delay))
      PROVE  AttendInv'
  <2> DEFINE timeout == Deadline(delay)
  <2>1. timeout \in Time
      BY LaterIsTime, ServicesAssumption DEF AttendInv, ScheduleOK, Sound, Deadline
  <2> HIDE DEF timeout
  <2>2. gyros_smq_receive_until(t, timeout) /\ Executing(t)
      BY <1>7 DEF timeout, gyros_smq_receive_until, Calls
  <2>3. CASE used > 0
    <3>1. used' = used - 1 /\ Return(gyros, t)
        BY <2>2, <2>3 DEF gyros_smq_receive_until, Take
    <3> QED
        BY <1>0, <2>2, <2>3, <3>1, ReturnAttended
  <2>4. CASE ~(used > 0) /\ TimeoutReached(gyros, timeout)
    <3>1. used' = used /\ UNCHANGED <<gyros, pc>>
        BY <2>2, <2>4 DEF gyros_smq_receive_until, smqVars, ringVars
    <3> QED
        BY <1>0, <3>1, OthersAttended
  <2>5. CASE ~(used > 0) /\ ~TimeoutReached(gyros, timeout)
    <3>1. BlockIn(gyros__task_set_timeout(gyros, timeout), t, "smq_receive_until", NoMessage)
        BY <2>2, <2>5 DEF gyros_smq_receive_until
    <3>2. used = 0
        BY <1>0, <2>5
    <3> QED
        BY <1>0, <2>1, <2>2, <3>1, <3>2, BlockAttended DEF SmqCalls
  <2> QED
      BY <2>3, <2>4, <2>5
<1>8. ASSUME NEW t \in AppTasks, ReceiveUntilWoken(t)
      PROVE  AttendInv'
  <2>1. CASE used = 0
    <3>1. used' = used /\ Return(gyros, t) /\ Executing(t)
        BY <1>8, <2>1 DEF ReceiveUntilWoken, Continues, ringVars
    <3> QED
        BY <1>0, <2>1, <3>1, ReturnAttended
  <2>2. CASE used # 0
    <3>1. used' = used - 1 /\ Return(gyros, t) /\ Executing(t)
        BY <1>8, <2>2 DEF ReceiveUntilWoken, Continues, Take
    <3> QED
        BY <1>0, <2>2, <3>1, ReturnAttended
  <2> QED
      BY <2>1, <2>2
<1>9. ASSUME NEW t \in AppTasks, SmqStep(t) PROVE AttendInv'
    BY <1>5, <1>6, <1>8, <1>9 DEF SmqStep, SendWoken, ReceiveWoken, Continues
<1>10. ASSUME NEW t \in AppTasks,
             \/ \E msg \in Message : SendBlocking(t, msg)
             \/ gyros_smq_receive(t)
      PROVE  AttendInv'
    BY <1>5, <1>6, <1>10 DEF SendBlocking, gyros_smq_receive, Calls
<1> QED
    BY <1>2, <1>3, <1>4, <1>7, <1>9, <1>10, Zenon DEF SmqNext

\* Every task in the queue's list is in a call of the queue, and as long as no
\* sender has slept there the messages are attended.
THEOREM MessagesAttended == Spec => [](RingInv /\ SendingInv /\ AttendInv)
<1>1. Init => RingInv /\ SendingInv /\ AttendInv
    BY RingInvInit, AttendInit
<1>2. RingInv /\ SendingInv /\ AttendInv /\ [Next]_vars
          => (RingInv /\ SendingInv /\ AttendInv)'
    BY RingInvNext, AttendNext
<1> QED
    BY <1>1, <1>2, PTL DEF Spec

\* No message lies in the queue while a receiver sleeps, until a sender has
\* slept in the same list.
THEOREM NoMessageStranded == Spec => []MessagesNotStranded
<1>1. AttendInv => MessagesNotStranded
    BY DEF AttendInv, Attended, MessagesNotStranded, EnoughFor
<1> QED
    BY <1>1, MessagesAttended, PTL

\* If nobody sends with block set, none ever does.
THEOREM NeverStrandedUnlessBlocking ==
    ASSUME ~Blocking
    PROVE  Spec => [](Waiters(smq) # {} => used <= Cardinality(WokenReceivers))
<1> DEFINE NoSender == ~sender_slept /\ \A t \in AppTasks : pc[t] # "smq_send"
<1>1. Init => NoSender
    BY DEF Init, SmqInit, AppTasks
<1>2. SendingInv /\ NoSender /\ [Next]_vars => NoSender'
  <2> SUFFICES ASSUME SendingInv, NoSender, [Next]_vars PROVE NoSender'
      OBVIOUS
  <2>1. CASE UNCHANGED vars
      BY <2>1 DEF vars, smqVars
  <2>2. ASSUME SmqNext, NEW t \in AppTasks PROVE pc'[t] # "smq_send"
    <3>1. pc[t] # "smq_send" /\ DOMAIN pc = Tasks
        BY DEF SendingInv
    <3>2. ASSUME NEW u \in AppTasks, NEW where, where # "smq_send", Goto(u, where)
          PROVE  pc'[t] # "smq_send"
        BY <3>1, <3>2 DEF Goto, AppTasks
    <3>3. ASSUME SmqTick \/ SmqSwitch \/ ReceiveInInterrupt
                 \/ \E msg \in Message : gyros_smq_send(msg)
          PROVE  pc'[t] # "smq_send"
        BY <3>1, <3>3 DEF SmqTick, Tick, SmqSwitch, ContextSwitch, ReceiveInInterrupt,
           gyros_smq_send
    <3>4. ASSUME NEW u \in AppTasks, SmqRest(u) \/ SmqResume(u)
          PROVE  pc'[t] # "smq_send"
        BY <3>2, <3>4 DEF SmqRest, Rest, SmqResume, Resume
    <3>5. ASSUME NEW u \in AppTasks,
                 \/ \E msg \in Message : SendBlocking(u, msg)
                 \/ gyros_smq_receive(u)
                 \/ SmqStep(u)
          PROVE  pc'[t] # "smq_send"
        BY <3>2, <3>5 DEF SendBlocking, SmqStep, SendWoken, Continues, ReceiveWoken,
           ReceiveUntilWoken, gyros_smq_receive, ReceiveLoop, BlockIn, Return
    <3>6. ASSUME NEW u \in AppTasks, NEW timeout, gyros_smq_receive_until(u, timeout)
          PROVE  pc'[t] # "smq_send"
        BY <3>1, <3>2, <3>6 DEF gyros_smq_receive_until, BlockIn, Return
    <3> QED
        BY <2>2, <3>3, <3>4, <3>5, <3>6, Zenon DEF SmqNext
  <2> QED
      BY <2>1, <2>2 DEF Next
<1>3. AttendInv /\ NoSender => (Waiters(smq) # {} => used <= Cardinality(WokenReceivers))
    BY DEF AttendInv, Attended, EnoughFor
<1> HIDE DEF NoSender
<1> QED
    BY <1>1, <1>2, <1>3, MessagesAttended, PTL DEF Spec

-----------------------------------------------------------------------------
(* Semaphores.  A signal wakes one task, and the unit goes to whoever      *)
(* takes it first.  The invariant says of every task where it sleeps and   *)
(* for how long it may (AtSem), and of every semaphore that its units are  *)
(* attended: if any task waits there, each unit has a woken task that has  *)
(* yet to look.  A signal adds a unit and such a task; a task that leaves  *)
(* the woken ones takes a unit with it or has found none.                  *)

USE SemAssumption

SemCalls == {"sem_wait", "sem_wait_until"}

\* A semaphore never has more units than it may.
SemTypes ==
    /\ pc \in [Tasks -> {"task", "rest"} \cup SemCalls]
    /\ value \in [Sems -> Nat]
    /\ \A s \in Sems : value[s] <= MaxValue[s]
    /\ waits \in [Tasks -> Sems \cup {NoList}]

\* A task sleeps at the semaphore of its call, and has a timeout only in the
\* call that takes one.
AtSem(t) ==
    /\ gyros.main_list[t] \in Sems => waits[t] = gyros.main_list[t]
    /\ waits[t] \in Sems <=> pc[t] \in SemCalls
    /\ t \in Elements(gyros.timeouts) => pc[t] = "sem_wait_until"

UnitsAttended(s) == Attended(value[s], Woken(s), Waiters(s))

SemAttendInv ==
    /\ ScheduleOK(gyros)
    /\ SemTypes
    /\ \A t \in AppTasks : AtSem(t)
    /\ \A s \in Sems : UnitsAttended(s)

\* What a step does to the tasks other than t, and where t is after it: the
\* tasks in W are woken from whichever list they are in.
SemLeaves(t, W) ==
    /\ ScheduleOK(gyros')
    /\ SemTypes'
    /\ \A u \in AppTasks \ {t} :
           /\ gyros'.main_list[u] = IF u \in W THEN Running ELSE gyros.main_list[u]
           /\ u \in Elements(gyros'.timeouts) => u \in Elements(gyros.timeouts)
           /\ pc'[u] = pc[u] /\ waits'[u] = waits[u]
    /\ t \in AppTasks => AtSem(t)'

LEMMA SemNames ==
    /\ Sems \subseteq Objects /\ Sems \subseteq ListIds
    /\ Running \notin Sems /\ NoList \notin Sems
    /\ AppTasks \subseteq Tasks /\ Idle \notin AppTasks /\ Idle \in Tasks
    BY ListNames

\* Who waits for s, and who has been woken to look at it.
LEMMA SemSets ==
    ASSUME SemAttendInv, NEW s \in Sems
    PROVE  /\ Woken(s) = {u \in AppTasks : waits[u] = s /\ gyros.main_list[u] = Running}
           /\ Waiters(s) = {u \in AppTasks : gyros.main_list[u] = s}
           /\ Woken(s) \in SUBSET Tasks
<1>1. KernelOK(gyros) /\ gyros.main_list[Idle] = Running
    BY DEF SemAttendInv, ScheduleOK, Sound
<1>2. Waiters(s) = {u \in Tasks : gyros.main_list[u] = s}
    BY <1>1, WaitersAre, SemNames DEF Waiters
<1>3. \A u : u \in Tasks /\ gyros.main_list[u] = s => u \in AppTasks
    BY <1>1, SemNames DEF AppTasks
<1> QED
    BY <1>2, <1>3, SemNames DEF Woken, Runs

\* The same sets after the step.
LEMMA SemSetsNext ==
    ASSUME SemAttendInv, NEW t \in Tasks, NEW W, SemLeaves(t, W), NEW s \in Sems
    PROVE  /\ Woken(s)' = {u \in AppTasks : waits'[u] = s /\ gyros'.main_list[u] = Running}
           /\ Waiters(s)' = {u \in AppTasks : gyros'.main_list[u] = s}
           /\ Woken(s)' \in SUBSET Tasks
<1>1. KernelOK(gyros') /\ gyros'.main_list[Idle] = Running
    BY DEF SemLeaves, ScheduleOK, Sound
<1>2. Elements(gyros'.lists[s]) = {u \in Tasks : gyros'.main_list[u] = s}
    BY <1>1, WaitersAre, SemNames
<1>3. \A u : u \in Tasks /\ gyros'.main_list[u] = s => u \in AppTasks
    BY <1>1, SemNames DEF AppTasks
<1> QED
    BY <1>2, <1>3, SemNames DEF Woken, Runs, Waiters

LEMMA AtSemNext ==
    ASSUME SemAttendInv, NEW t \in Tasks, NEW W, SemLeaves(t, W)
    PROVE  \A u \in AppTasks : AtSem(u)'
<1> SUFFICES ASSUME NEW u \in AppTasks PROVE AtSem(u)'
    OBVIOUS
<1>1. CASE u = t
    BY <1>1 DEF SemLeaves
<1>2. CASE u # t
  <2>1. /\ gyros'.main_list[u] = IF u \in W THEN Running ELSE gyros.main_list[u]
        /\ u \in Elements(gyros'.timeouts) => u \in Elements(gyros.timeouts)
        /\ pc'[u] = pc[u] /\ waits'[u] = waits[u]
      BY <1>2 DEF SemLeaves
  <2>2. AtSem(u)
      BY DEF SemAttendInv
  <2> QED
      BY <2>1, <2>2, SemNames DEF AtSem
<1> QED
    BY <1>1, <1>2

\* A step that adds no unit to s and makes t wait there only if there is none
\* leaves the units attended: if t was woken to look at s, a unit is gone or
\* none is left.
LEMMA SemAttendedStill ==
    ASSUME SemAttendInv, NEW t \in Tasks, NEW W, SemLeaves(t, W), NEW s \in Sems,
           \/ value'[s] = 0
           \/ value'[s] = value[s] - 1
           \/ value'[s] <= value[s] /\ t \notin Woken(s),
           t \in AppTasks /\ gyros'.main_list[t] = s => value'[s] = 0
    PROVE  UnitsAttended(s)'
<1>9. /\ Woken(s) = {u \in AppTasks : waits[u] = s /\ gyros.main_list[u] = Running}
      /\ Waiters(s) = {u \in AppTasks : gyros.main_list[u] = s}
      /\ Woken(s) \in SUBSET Tasks
    BY SemSets
<1>10. /\ Woken(s)' = {u \in AppTasks : waits'[u] = s /\ gyros'.main_list[u] = Running}
       /\ Waiters(s)' = {u \in AppTasks : gyros'.main_list[u] = s}
       /\ Woken(s)' \in SUBSET Tasks
    BY SemSetsNext
<1>0. value[s] \in Nat /\ value'[s] \in Nat
    BY DEF SemAttendInv, SemLeaves, SemTypes
<1>1. ASSUME Waiters(s)' # {}
      PROVE  EnoughFor(value'[s], Woken(s)')
  <2>1. /\ Woken(s) \ {t} \subseteq Woken(s)'
        /\ Woken(s)' \in SUBSET Tasks
      BY <1>9, <1>10 DEF SemLeaves
  <2>2. CASE value'[s] = 0
    <3>1. Cardinality(Woken(s)') \in Nat
        BY <2>1, FiniteTasks
    <3> QED
        BY <2>1, <2>2, <3>1 DEF EnoughFor
  <2>3. CASE value'[s] # 0
    <3>1. Waiters(s) # {}
        BY <1>1, <2>3, <1>9, <1>10, SemNames DEF SemLeaves
    <3>2. EnoughFor(value[s], Woken(s))
        BY <3>1 DEF SemAttendInv, UnitsAttended, Attended
    <3>3. CASE value'[s] = value[s] - 1
      <4>1. value[s] # 0 /\ Woken(s)' \in SUBSET Tasks /\ Woken(s) \ {t} \subseteq Woken(s)'
          BY <1>0, <2>1, <2>3, <3>3
      <4>2. EnoughFor(value[s] - 1, Woken(s)')
          BY <3>2, <4>1, OneLess
      <4> QED
          BY <3>3, <4>2
    <3>4. CASE value'[s] <= value[s] /\ t \notin Woken(s)
        BY <1>0, <2>1, <3>2, <3>4, EnoughIsMore
    <3> QED
        BY <2>3, <3>3, <3>4
  <2> QED
      BY <2>2, <2>3
<1> QED
    BY <1>1 DEF UnitsAttended, Attended

\* A unit is added by nobody who waits, and the first task is woken if any
\* waits.
LEMMA SemAttendedWoken ==
    ASSUME SemAttendInv, NEW W, SemLeaves(Idle, W), NEW s \in Sems, value'[s] = value[s] + 1,
           \/ W = {} /\ Waiters(s) = {}
           \/ \E w \in Waiters(s) : W = {w}
    PROVE  UnitsAttended(s)'
<1>9. /\ Woken(s) = {u \in AppTasks : waits[u] = s /\ gyros.main_list[u] = Running}
      /\ Waiters(s) = {u \in AppTasks : gyros.main_list[u] = s}
      /\ Woken(s) \in SUBSET Tasks
    BY SemSets
<1>10. /\ Woken(s)' = {u \in AppTasks : waits'[u] = s /\ gyros'.main_list[u] = Running}
       /\ Waiters(s)' = {u \in AppTasks : gyros'.main_list[u] = s}
       /\ Woken(s)' \in SUBSET Tasks
    BY SemSetsNext, SemNames
<1>1. ASSUME Waiters(s)' # {}
      PROVE  EnoughFor(value'[s], Woken(s)')
  <2>1. CASE \E w \in Waiters(s) : W = {w}
    <3>1. PICK w \in Waiters(s) : W = {w}
        BY <2>1
    <3>2. EnoughFor(value[s], Woken(s))
        BY <3>1 DEF SemAttendInv, UnitsAttended, Attended
    <3>3. /\ Woken(s) \subseteq Woken(s)'
          /\ Woken(s)' \in SUBSET Tasks
        BY <3>1, <1>9, <1>10, SemNames DEF SemLeaves
    <3>4. w \in AppTasks /\ gyros.main_list[w] = s
        BY <3>1, <1>9
    <3>5. waits[w] = s
        BY <3>4 DEF SemAttendInv, AtSem
    <3>6. w \in Woken(s)' /\ w \notin Woken(s)
        BY <3>1, <3>4, <3>5, <1>9, <1>10, SemNames DEF SemLeaves
    <3> QED
        BY <3>2, <3>3, <3>6, OneMore
  <2>2. CASE W = {} /\ Waiters(s) = {}
      BY <1>1, <2>2, <1>9, <1>10, SemNames DEF SemLeaves
  <2> QED
      BY <2>1, <2>2
<1> QED
    BY <1>1 DEF UnitsAttended, Attended

-----------------------------------------------------------------------------
(* The steps.                                                              *)

LEMMA SemTypesHere ==
    ASSUME SemAttendInv
    PROVE  /\ SemTypes /\ DOMAIN pc = Tasks /\ DOMAIN waits = Tasks /\ DOMAIN value = Sems
           /\ Sound(gyros) /\ ScheduleOK(gyros) /\ KernelOK(gyros)
           /\ DOMAIN gyros.main_list = Tasks
           /\ gyros.main_list[Idle] = Running
    BY DEF SemAttendInv, SemTypes, ScheduleOK, Sound, KernelOK, KernelStates

LEMMA SemExecutingHere ==
    ASSUME SemAttendInv, NEW t \in AppTasks, Executing(t)
    PROVE  /\ gyros.current = t /\ gyros.main_list[t] = Running
           /\ t \notin Elements(gyros.timeouts) /\ t \in Tasks /\ t # Idle
    BY CurrentIsHighest, SemNames DEF SemAttendInv, ScheduleOK, Executing

\* t, which is in its own code or in a call for c, takes a unit of c without
\* waiting or waits for one because there is none.
LEMMA CallAttended ==
    ASSUME SemAttendInv, NEW t \in AppTasks, NEW c \in Sems, SemLeaves(t, {}),
           waits[t] = c \/ waits[t] \notin Sems,
           \A s \in Sems \ {c} : value'[s] = value[s] /\ gyros'.main_list[t] # s,
           \/ value'[c] = value[c] - 1 /\ gyros'.main_list[t] # c
           \/ value'[c] = value[c] /\ value[c] = 0
    PROVE  SemAttendInv'
<1>0. t \in Tasks
    BY SemNames
<1>1. ASSUME NEW s \in Sems, s # c PROVE UnitsAttended(s)'
  <2>1. t \notin Woken(s)
      BY <1>1, SemSets
  <2>2. value'[s] <= value[s]
      BY <1>1 DEF SemAttendInv, SemTypes
  <2> QED
      BY <1>0, <1>1, <2>1, <2>2, SemAttendedStill
<1>2. UnitsAttended(c)'
    BY <1>0, SemAttendedStill
<1> QED
    BY <1>0, <1>1, <1>2, AtSemNext DEF SemAttendInv, SemLeaves

\* t returns from its call, with a unit or because there is none.
LEMMA SemReturnAttended ==
    ASSUME SemAttendInv, NEW t \in AppTasks, Executing(t), NEW c \in Sems,
           waits[t] = c \/ waits[t] \notin Sems, SemReturn(t),
           \/ value[c] > 0 /\ TakeUnit(c)
           \/ value[c] = 0 /\ value' = value
    PROVE  SemAttendInv'
<1>1. Forgotten(gyros, gyros', t)
  <2>1. Sound(gyros) /\ t \in Tasks
      BY SemTypesHere, SemNames
  <2> QED
      BY <2>1, ForgetSound DEF SemReturn
<1>2. /\ ScheduleOK(gyros') /\ gyros'.main_list = gyros.main_list
      /\ gyros'.timeouts = gyros.timeouts
    BY <1>1, SemTypesHere DEF Forgotten
<1>3. pc' = [pc EXCEPT ![t] = "task"] /\ waits' = [waits EXCEPT ![t] = NoList]
    BY DEF SemReturn, Goto
<1>4. SemTypes'
  <2>1. /\ value' \in [Sems -> Nat]
        /\ \A s \in Sems : value'[s] <= MaxValue[s]
    <3>1. CASE value[c] > 0 /\ TakeUnit(c)
      <4>1. value' = [value EXCEPT ![c] = value[c] - 1] /\ value[c] > 0
          BY <3>1 DEF TakeUnit
      <4>2. value \in [Sems -> Nat] /\ \A s \in Sems : value[s] <= MaxValue[s]
          BY SemTypesHere DEF SemTypes
      <4> QED
          BY <4>1, <4>2
    <3>2. CASE value[c] = 0 /\ value' = value
        BY <3>2, SemTypesHere DEF SemTypes
    <3> QED
        BY <3>1, <3>2
  <2>2. /\ pc' \in [Tasks -> {"task", "rest"} \cup SemCalls]
        /\ waits' \in [Tasks -> Sems \cup {NoList}]
      BY <1>3, SemTypesHere DEF SemTypes
  <2> QED
      BY <2>1, <2>2 DEF SemTypes
<1>5. AtSem(t)'
    BY <1>2, <1>3, SemTypesHere, SemExecutingHere, SemNames DEF AtSem, SemCalls
<1>6. SemLeaves(t, {})
    BY <1>2, <1>3, <1>4, <1>5, SemTypesHere, SemNames DEF SemLeaves
<1>7. /\ \A s \in Sems \ {c} : value'[s] = value[s] /\ gyros'.main_list[t] # s
      /\ \/ value'[c] = value[c] - 1 /\ gyros'.main_list[t] # c
         \/ value'[c] = value[c] /\ value[c] = 0
    BY <1>2, SemTypesHere, SemExecutingHere, SemNames DEF TakeUnit
<1> QED
    BY <1>6, <1>7, CallAttended

\* t blocks at c, without or with a timeout.
LEMMA SemBlockAttended ==
    ASSUME SemAttendInv, NEW t \in AppTasks, Executing(t), NEW c \in Sems, value[c] = 0,
           waits[t] = c \/ waits[t] \notin Sems, NEW call \in SemCalls,
           \/ BlockOn(gyros, t, c, call)
           \/ /\ call = "sem_wait_until"
              /\ \E timeout \in Time :
                     BlockOn(gyros__task_set_timeout(gyros, timeout), t, c, call)
    PROVE  SemAttendInv'
<1>1. /\ Sound(gyros) /\ gyros.current = t /\ gyros.main_list[t] = Running
      /\ t \notin Elements(gyros.timeouts) /\ t # Idle /\ t \in Tasks /\ c \in Objects
    BY SemExecutingHere, SemTypesHere, SemNames
<1>2. /\ ScheduleOK(gyros')
      /\ gyros'.main_list = [gyros.main_list EXCEPT ![t] = c]
      /\ Elements(gyros'.timeouts) \subseteq Elements(gyros.timeouts) \cup {t}
      /\ t \in Elements(gyros'.timeouts) => call = "sem_wait_until"
  <2>1. CASE BlockOn(gyros, t, c, call)
    <3>1. /\ Moved(gyros, gyros', t, c) /\ ScheduleOK(gyros')
          /\ gyros'.timeouts = gyros.timeouts
        BY <1>1, <2>1, WaitSound DEF BlockOn
    <3> QED
        BY <1>1, <3>1 DEF Moved
  <2>2. ASSUME call = "sem_wait_until", NEW timeout \in Time,
               BlockOn(gyros__task_set_timeout(gyros, timeout), t, c, call)
        PROVE  /\ ScheduleOK(gyros')
               /\ gyros'.main_list = [gyros.main_list EXCEPT ![t] = c]
               /\ Elements(gyros'.timeouts) \subseteq Elements(gyros.timeouts) \cup {t}
               /\ t \in Elements(gyros'.timeouts) => call = "sem_wait_until"
    <3>1. TimedWait(gyros, gyros', c, timeout)
        BY <1>1, <2>2, WaitUntilSound DEF BlockOn
    <3> QED
        BY <1>1, <2>2, <3>1 DEF TimedWait
  <2> QED
      BY <2>1, <2>2
<1>3. /\ pc' = [pc EXCEPT ![t] = call] /\ waits' = [waits EXCEPT ![t] = c]
      /\ value' = value
    BY DEF BlockOn, Goto
<1>4. SemTypes'
    BY <1>3, SemTypesHere DEF SemTypes
<1>5. AtSem(t)'
    BY <1>1, <1>2, <1>3, SemTypesHere DEF AtSem
<1>6. SemLeaves(t, {})
    BY <1>1, <1>2, <1>3, <1>4, <1>5, SemTypesHere, SemNames DEF SemLeaves
<1>7. /\ \A s \in Sems \ {c} : value'[s] = value[s] /\ gyros'.main_list[t] # s
      /\ value'[c] = value[c]
    BY <1>1, <1>2, <1>3, SemTypesHere
<1> QED
    BY <1>6, <1>7, CallAttended

\* A step that changes no value, after which t is not in a call.
LEMMA SemOthersAttended ==
    ASSUME SemAttendInv, NEW t \in Tasks, NEW W, SemLeaves(t, W), value' = value,
           t \in AppTasks => waits[t] \notin Sems /\ gyros'.main_list[t] \notin Sems
    PROVE  SemAttendInv'
<1>1. ASSUME NEW s \in Sems PROVE UnitsAttended(s)'
  <2>1. t \notin Woken(s)
      BY SemSets, SemNames
  <2>2. value'[s] <= value[s]
      BY DEF SemAttendInv, SemTypes
  <2> QED
      BY <2>1, <2>2, SemAttendedStill
<1> QED
    BY <1>1, AtSemNext DEF SemAttendInv, SemLeaves
LEMMA SignalAttended ==
    ASSUME SemAttendInv, NEW c \in Sems, gyros_sem_signal(c)
    PROVE  SemAttendInv'
<1>1. /\ Sound(gyros) /\ ScheduleOK(gyros) /\ gyros.main_list[Idle] = Running
      /\ c \in Objects /\ Idle \in Tasks /\ pc' = pc /\ waits' = waits
    BY SemTypesHere, SemNames DEF gyros_sem_signal
<1>2. CASE ~(value[c] < MaxValue[c])
  <2>1. gyros' = gyros /\ value' = value
      BY <1>2 DEF gyros_sem_signal
  <2>2. SemLeaves(Idle, {})
      BY <1>1, <2>1, SemTypesHere, SemNames DEF SemLeaves, SemTypes
  <2> QED
      BY <1>1, <2>1, <2>2, SemOthersAttended, SemNames
<1>3. CASE value[c] < MaxValue[c]
  <2>1. value' = [value EXCEPT ![c] = value[c] + 1] /\ gyros' = WakeFirst(gyros, c)
      BY <1>3 DEF gyros_sem_signal
  <2>2. SemTypes'
    <3>1. value \in [Sems -> Nat] /\ \A s \in Sems : value[s] <= MaxValue[s]
        BY SemTypesHere DEF SemTypes
    <3>2. MaxValue[c] \in Nat
        OBVIOUS
    <3>3. value' \in [Sems -> Nat] /\ \A s \in Sems : value'[s] <= MaxValue[s]
        BY <1>3, <2>1, <3>1, <3>2
    <3> QED
        BY <1>1, <3>3, SemTypesHere DEF SemTypes
  <2>3. FirstWoken(gyros, gyros', c)
      BY <1>1, <2>1, WakeFirstSound
  <2>4. ScheduleOK(gyros')
      BY <1>1, <2>3 DEF FirstWoken
  <2>5. \A s \in Sems : value'[s] = IF s = c THEN value[s] + 1 ELSE value[s]
      BY <2>1, SemTypesHere
  <2>6. ASSUME NEW W, SemLeaves(Idle, W),
               \/ W = {} /\ Waiters(c) = {}
               \/ \E w \in Waiters(c) : W = {w}
        PROVE  SemAttendInv'
    <3>1. UnitsAttended(c)'
        BY <2>5, <2>6, SemAttendedWoken
    <3>2. ASSUME NEW s \in Sems, s # c PROVE UnitsAttended(s)'
      <4>1. Idle \notin Woken(s) /\ Idle \notin AppTasks
          BY SemSets, SemNames
      <4>2. value'[s] <= value[s]
          BY <2>5, <3>2, SemTypesHere DEF SemTypes
      <4> QED
          BY <1>1, <2>6, <4>1, <4>2, SemAttendedStill
    <3> QED
        BY <1>1, <2>6, <3>1, <3>2, AtSemNext DEF SemAttendInv, SemLeaves
  <2>7. ASSUME NEW w \in Tasks, gyros.main_list[w] = c,
               gyros'.main_list = [gyros.main_list EXCEPT ![w] = Running],
               Elements(gyros'.timeouts) = Elements(gyros.timeouts) \ {w}
        PROVE  SemAttendInv'
    <3>1. w \in AppTasks
        BY <1>1, <2>7, SemNames DEF AppTasks
    <3>2. SemLeaves(Idle, {w})
        BY <1>1, <2>2, <2>4, <2>7, <3>1, SemTypesHere, SemNames DEF SemLeaves
    <3>3. w \in Waiters(c)
        BY <2>7, <3>1, SemSets
    <3> QED
        BY <2>6, <3>2, <3>3
  <2>8. ASSUME gyros' = gyros, \A x \in Tasks : gyros.main_list[x] # c
        PROVE  SemAttendInv'
    <3>1. SemLeaves(Idle, {})
        BY <1>1, <2>2, <2>8, SemNames DEF SemLeaves
    <3>2. Waiters(c) = {}
        BY <2>8, SemSets, SemNames
    <3> QED
        BY <2>6, <3>1, <3>2
  <2> QED
      BY <2>3, <2>7, <2>8 DEF FirstWoken
<1> QED
    BY <1>2, <1>3

\* The surroundings.
LEMMA SurroundingsAttended ==
    ASSUME SemAttendInv,
           \/ SemTick
           \/ SemSwitch
           \/ \E t \in AppTasks : SemRest(t) \/ SemResume(t)
    PROVE  SemAttendInv'
<1>0. /\ Sound(gyros) /\ ScheduleOK(gyros) /\ gyros.main_list[Idle] = Running
      /\ Idle \in Tasks /\ Idle \notin AppTasks
    BY SemTypesHere, SemNames
<1>1. value' = value /\ waits' = waits
    BY DEF SemTick, SemSwitch, SemRest, SemResume, semVars
<1>2. CASE SemSwitch
  <2>1. /\ ScheduleOK(gyros') /\ pc' = pc
        /\ gyros'.main_list = gyros.main_list /\ gyros'.timeouts = gyros.timeouts
      BY <1>0, <1>2, SwitchSound DEF SemSwitch, ContextSwitch
  <2>2. SemLeaves(Idle, {})
      BY <1>0, <1>1, <2>1, SemTypesHere, SemNames DEF SemLeaves, SemTypes
  <2> QED
      BY <1>0, <1>1, <2>2, SemOthersAttended
<1>3. CASE SemTick
  <2> DEFINE now == (gyros.now + 1) % TimeRange
  <2>1. gyros' = gyros__tick(gyros, now) /\ pc' = pc
      BY <1>3 DEF SemTick, Tick
  <2>2. now \in Time
      BY SemTypesHere, LaterIsTime
  <2> HIDE DEF now
  <2>3. /\ ScheduleOK(gyros')
        /\ Elements(gyros'.timeouts) \subseteq Elements(gyros.timeouts)
        /\ \A u \in Tasks : \/ gyros'.main_list[u] = gyros.main_list[u]
                            \/ gyros'.main_list[u] = Running
      BY <1>0, <2>1, <2>2, TickSound
  <2> DEFINE W == {u \in Tasks : gyros'.main_list[u] = Running}
  <2>4. SemLeaves(Idle, W)
      BY <1>0, <1>1, <2>1, <2>3, SemTypesHere, SemNames DEF SemLeaves, SemTypes
  <2> HIDE DEF W
  <2> QED
      BY <1>0, <1>1, <2>4, SemOthersAttended
<1>4. ASSUME NEW t \in AppTasks, SemRest(t) PROVE SemAttendInv'
  <2> DEFINE n == RemoveTimeout(gyros__task_suspend(gyros, t), t)
  <2>1. /\ Executing(t) /\ pc[t] = "task" /\ gyros' = gyros__reschedule(n)
        /\ pc' = [pc EXCEPT ![t] = "rest"]
      BY <1>4 DEF SemRest, Rest, Calls, Goto
  <2>2. Moved(gyros, n, t, NoList) /\ Elements(n.timeouts) = Elements(gyros.timeouts) \ {t}
      BY <1>0, SuspendSound
  <2> HIDE DEF n
  <2>3. Scheduled(n, gyros')
      BY <2>1, <2>2, RescheduleSound DEF Moved
  <2>4. waits[t] \notin Sems
      BY <2>1 DEF SemAttendInv, AtSem, SemCalls
  <2>5. /\ ScheduleOK(gyros') /\ gyros'.main_list = [gyros.main_list EXCEPT ![t] = NoList]
        /\ Elements(gyros'.timeouts) = Elements(gyros.timeouts) \ {t}
    <3>1. ScheduleOK(gyros') /\ gyros'.main_list = n.main_list /\ gyros'.timeouts = n.timeouts
        BY <2>3 DEF Scheduled
    <3> QED
        BY <2>2, <3>1 DEF Moved
  <2>6. AtSem(t)' /\ gyros'.main_list[t] \notin Sems
      BY <1>1, <2>1, <2>4, <2>5, SemTypesHere, SemNames DEF AtSem, SemCalls
  <2>7. SemTypes'
      BY <1>1, <2>1, SemTypesHere DEF SemTypes
  <2>8. SemLeaves(t, {})
      BY <1>1, <2>1, <2>5, <2>6, <2>7, SemTypesHere, SemNames DEF SemLeaves
  <2> QED
      BY <1>1, <2>4, <2>6, <2>8, SemOthersAttended, SemNames
<1>5. ASSUME NEW t \in AppTasks, SemResume(t) PROVE SemAttendInv'
  <2> DEFINE n == gyros__task_move(gyros, t, Running)
  <2>1. /\ pc[t] = "rest" /\ gyros' = gyros__cond_reschedule(n)
        /\ pc' = [pc EXCEPT ![t] = "task"]
      BY <1>5 DEF SemResume, Resume, Goto
  <2>2. t \notin Elements(gyros.timeouts) /\ t \in Tasks /\ waits[t] \notin Sems
      BY <2>1, SemNames DEF SemAttendInv, AtSem, SemCalls
  <2>3. Moved(gyros, n, t, Running) /\ n.timeouts = gyros.timeouts
      BY <1>0, <2>2, MoveSound
  <2> HIDE DEF n
  <2>4. Scheduled(n, gyros')
      BY <2>1, <2>3, RescheduleSound DEF Moved
  <2>5. /\ ScheduleOK(gyros') /\ gyros'.main_list = [gyros.main_list EXCEPT ![t] = Running]
        /\ gyros'.timeouts = gyros.timeouts
      BY <2>3, <2>4 DEF Moved, Scheduled
  <2>6. AtSem(t)' /\ gyros'.main_list[t] \notin Sems
      BY <1>1, <2>1, <2>2, <2>5, SemTypesHere, SemNames DEF AtSem, SemCalls
  <2>7. SemTypes'
      BY <1>1, <2>1, SemTypesHere DEF SemTypes
  <2>8. SemLeaves(t, {})
      BY <1>1, <2>1, <2>2, <2>5, <2>6, <2>7, SemTypesHere, SemNames DEF SemLeaves
  <2> QED
      BY <1>1, <2>2, <2>6, <2>8, SemOthersAttended
<1> QED
    BY <1>2, <1>3, <1>4, <1>5

-----------------------------------------------------------------------------
LEMMA SemAttendInit == SemInit => SemAttendInv
<1> SUFFICES ASSUME SemInit PROVE SemAttendInv
    OBVIOUS
<1>1. /\ ScheduleOK(gyros) /\ gyros.main_list = [t \in Tasks |-> Running]
      /\ gyros.timeouts = <<>>
    BY StartedSound DEF SemInit
<1>2. Elements(gyros.timeouts) = {}
    BY <1>1 DEF Elements, ToSet
<1>3. SemTypes
    BY DEF SemInit, SemTypes
<1>4. \A t \in AppTasks : AtSem(t)
    BY <1>1, <1>2, SemNames DEF AtSem, SemInit, SemCalls
<1>5. ASSUME NEW s \in Sems PROVE Waiters(s) = {}
  <2>1. Waiters(s) = {u \in Tasks : gyros.main_list[u] = s}
      BY <1>1, WaitersAre, SemNames DEF Waiters, ScheduleOK, Sound
  <2> QED
      BY <1>1, <2>1, SemNames
<1> QED
    BY <1>1, <1>3, <1>4, <1>5 DEF SemAttendInv, UnitsAttended, Attended

LEMMA SemAttendNext == SemAttendInv /\ [SemNext]_semAll => SemAttendInv'
<1> SUFFICES ASSUME SemAttendInv, [SemNext]_semAll PROVE SemAttendInv'
    OBVIOUS
<1>1. CASE UNCHANGED semAll
  <2>1. gyros' = gyros /\ pc' = pc /\ value' = value /\ waits' = waits
      BY <1>1 DEF semAll, semVars
  <2> QED
      BY <2>1 DEF SemAttendInv, SemTypes, AtSem, UnitsAttended, Attended, Woken, Waiters, Runs
<1>2. ASSUME SemTick \/ SemSwitch \/ \E t \in AppTasks : SemRest(t) \/ SemResume(t)
      PROVE  SemAttendInv'
    BY <1>2, SurroundingsAttended
<1>3. ASSUME NEW c \in Sems, gyros_sem_signal(c) PROVE SemAttendInv'
    BY <1>3, SignalAttended
<1>4. ASSUME NEW t \in AppTasks, NEW c \in Sems, Calls(t), value[c] > 0, TakeUnit(c),
             UNCHANGED <<gyros, pc, waits>>
      PROVE  SemAttendInv'
  <2>1. waits[t] \notin Sems /\ Executing(t)
      BY <1>4 DEF Calls, SemAttendInv, AtSem, SemCalls
  <2>2. \A s \in Sems : value'[s] = IF s = c THEN value[s] - 1 ELSE value[s]
      BY <1>4, SemTypesHere DEF TakeUnit
  <2>3. SemTypes'
    <3>1. value' = [value EXCEPT ![c] = value[c] - 1] /\ value[c] > 0
        BY <1>4 DEF TakeUnit
    <3>2. value \in [Sems -> Nat] /\ \A s \in Sems : value[s] <= MaxValue[s]
        BY SemTypesHere DEF SemTypes
    <3>3. value' \in [Sems -> Nat] /\ \A s \in Sems : value'[s] <= MaxValue[s]
        BY <3>1, <3>2
    <3> QED
        BY <1>4, <3>3, SemTypesHere DEF SemTypes
  <2>4. SemLeaves(t, {})
      BY <1>4, <2>3, SemTypesHere, SemNames DEF SemLeaves, SemAttendInv, AtSem
  <2>5. /\ \A s \in Sems \ {c} : value'[s] = value[s] /\ gyros'.main_list[t] # s
        /\ value'[c] = value[c] - 1 /\ gyros'.main_list[t] # c
      BY <1>4, <2>1, <2>2, SemExecutingHere, SemNames
  <2> QED
      BY <2>1, <2>4, <2>5, CallAttended
<1>5. ASSUME NEW t \in AppTasks, NEW c \in Sems, WaitLoop(t, c), Executing(t),
             waits[t] = c \/ waits[t] \notin Sems
      PROVE  SemAttendInv'
  <2>1. CASE value[c] = 0
      BY <1>5, <2>1, SemBlockAttended DEF WaitLoop, SemCalls
  <2>2. CASE value[c] # 0
    <3>1. value[c] > 0 /\ SemReturn(t) /\ TakeUnit(c)
        BY <1>5, <2>2, SemTypesHere DEF WaitLoop, SemTypes
    <3> QED
        BY <1>5, <3>1, SemReturnAttended
  <2> QED
      BY <2>1, <2>2
<1>6. ASSUME NEW t \in AppTasks, NEW c \in Sems, gyros_sem_wait(t, c) PROVE SemAttendInv'
  <2>1. waits[t] \notin Sems /\ Executing(t) /\ WaitLoop(t, c)
      BY <1>6 DEF gyros_sem_wait, Calls, SemAttendInv, AtSem, SemCalls
  <2> QED
      BY <1>5, <2>1
<1>7. ASSUME NEW t \in AppTasks, NEW c \in Sems, NEW delay \in 0..MaxDelay,
             gyros_sem_wait_until(t, c, Deadline(delay))
      PROVE  SemAttendInv'
  <2> DEFINE timeout == Deadline(delay)
  <2>1. timeout \in Time
      BY LaterIsTime, SemTypesHere, ServicesAssumption DEF Deadline
  <2> HIDE DEF timeout
  <2>2. gyros_sem_wait_until(t, c, timeout) /\ Calls(t) /\ Executing(t)
      BY <1>7 DEF timeout, gyros_sem_wait_until, Calls
  <2>3. CASE value[c] > 0
    <3>1. TakeUnit(c) /\ UNCHANGED <<gyros, pc, waits>>
        BY <2>2, <2>3 DEF gyros_sem_wait_until
    <3> QED
        BY <1>4, <2>2, <2>3, <3>1
  <2>4. CASE ~(value[c] > 0) /\ TimeoutReached(gyros, timeout)
    <3>1. UNCHANGED semAll
        BY <2>2, <2>4 DEF gyros_sem_wait_until, semAll, semVars
    <3> QED
        BY <1>1, <3>1
  <2>5. CASE ~(value[c] > 0) /\ ~TimeoutReached(gyros, timeout)
    <3>1. BlockOn(gyros__task_set_timeout(gyros, timeout), t, c, "sem_wait_until")
        BY <2>2, <2>5 DEF gyros_sem_wait_until
    <3>2. value[c] = 0
        BY <2>5, SemTypesHere DEF SemTypes
    <3>3. waits[t] \notin Sems
        BY <2>2 DEF Calls, SemAttendInv, AtSem, SemCalls
    <3> QED
        BY <2>1, <2>2, <3>1, <3>2, <3>3, SemBlockAttended DEF SemCalls
  <2> QED
      BY <2>3, <2>4, <2>5
<1>8. ASSUME NEW t \in AppTasks, SemStep(t) PROVE SemAttendInv'
  <2>1. PICK call \in SemCalls : Continues(t, call)
      BY <1>8 DEF SemStep, SemWoken, WaitUntilGets, WaitUntilFails, SemCalls
  <2>2. Executing(t) /\ waits[t] \in Sems
      BY <2>1 DEF Continues, SemAttendInv, AtSem
  <2>3. CASE SemWoken(t)
      BY <1>5, <2>2, <2>3 DEF SemWoken
  <2>4. CASE WaitUntilGets(t)
      BY <2>2, <2>4, SemReturnAttended DEF WaitUntilGets
  <2>5. CASE WaitUntilFails(t)
      BY <2>2, <2>5, SemReturnAttended DEF WaitUntilFails
  <2> QED
      BY <1>8, <2>3, <2>4, <2>5 DEF SemStep
<1>9. ASSUME NEW t \in AppTasks, NEW c \in Sems, gyros_sem_try_wait(t, c) PROVE SemAttendInv'
    BY <1>4, <1>9 DEF gyros_sem_try_wait
<1> QED
    BY <1>1, <1>2, <1>3, <1>6, <1>7, <1>8, <1>9, Zenon DEF SemNext

\* Every task that waits sleeps at the semaphore of its call, and the units of
\* every semaphore are attended and never more than it may have.
THEOREM UnitsAlwaysAttended == SemSpec => []SemAttendInv
<1> QED
    BY SemAttendInit, SemAttendNext, PTL DEF SemSpec

\* Whenever tasks wait, every unit of the semaphore has a woken task that is
\* going to look at it, whatever signals, timeouts and other takers came since.
THEOREM NoUnitStranded == SemSpec => []UnitsNotStranded
<1>1. SemAttendInv => UnitsNotStranded
    BY DEF SemAttendInv, UnitsAttended, Attended, UnitsNotStranded, EnoughFor
<1> QED
    BY <1>1, UnitsAlwaysAttended, PTL

-----------------------------------------------------------------------------
(* Event groups and message queues, used side by side.  A set wakes        *)
(* everybody, so those who sleep at an event group have looked at all that *)
(* is set (AtMessaging): taking and clearing only remove events.  A        *)
(* message wakes one task, and messages are counted as units are.          *)

USE EventAssumption, MqAssumption, MessagingAssumption

EventCalls == {"event_group_get", "event_group_get_until"}
MqCalls == {"mq_receive", "mq_receive_until"}
TimedCalls == {"event_group_get_until", "mq_receive_until"}

MessagingTypes ==
    /\ pc \in [Tasks -> {"task", "rest"} \cup EventCalls \cup MqCalls]
    /\ events \in [Groups -> SUBSET Events]
    /\ group \in [Tasks -> Groups \cup {NoList}]
    /\ request \in [Tasks -> Requests \cup {NoRequest}]
    /\ msg_list \in Seq(Messages)

\* A task sleeps in the list of the call it is in, at an event group only for
\* events that are not set, and with a timeout only in a call that takes one.
AtMessaging(t) ==
    /\ group[t] \in Groups <=> pc[t] \in EventCalls
    /\ gyros.main_list[t] \in Groups =>
           /\ group[t] = gyros.main_list[t]
           /\ ~event_match(request[t], events[group[t]])
    /\ gyros.main_list[t] = mq => pc[t] \in MqCalls
    /\ t \in Elements(gyros.timeouts) => pc[t] \in TimedCalls

MailAttended == Attended(Len(msg_list), MqWokenReceivers, Waiters(mq))

MessagingInv ==
    /\ ScheduleOK(gyros)
    /\ MessagingTypes
    /\ \A t \in AppTasks : AtMessaging(t)
    /\ MailAttended

\* A step does nothing to the calls of tasks other than t.
OthersStay(t) ==
    \A u \in AppTasks \ {t} : pc'[u] = pc[u] /\ group'[u] = group[u] /\ request'[u] = request[u]

\* An event is set only in a group where nobody sleeps after the step.
EventsShrink ==
    \A e \in Groups :
        \/ events'[e] \subseteq events[e]
        \/ \A u \in AppTasks : gyros'.main_list[u] # e

\* What a step does to the tasks other than t, and where t is after it: the
\* tasks in W are woken from whichever list they are in.
MessagingLeaves(t, W) ==
    /\ ScheduleOK(gyros')
    /\ MessagingTypes'
    /\ OthersStay(t)
    /\ EventsShrink
    /\ \A u \in AppTasks \ {t} :
           /\ gyros'.main_list[u] = IF u \in W THEN Running ELSE gyros.main_list[u]
           /\ u \in Elements(gyros'.timeouts) => u \in Elements(gyros.timeouts)
    /\ t \in AppTasks => AtMessaging(t)'

LEMMA MessagingNames ==
    /\ Groups \subseteq Objects /\ Groups \subseteq ListIds /\ mq \in Objects /\ mq \in ListIds
    /\ Running \notin Groups /\ NoList \notin Groups /\ Running # mq /\ NoList # mq
    /\ AppTasks \subseteq Tasks /\ Idle \notin AppTasks /\ Idle \in Tasks
    BY ListNames

\* Fewer events match no more than all of them did.
LEMMA FewerMatch ==
    ASSUME NEW r, NEW A, NEW B, A \subseteq B, ~event_match(r, B)
    PROVE  ~event_match(r, A)
    BY DEF event_match

\* Who waits for a message, and who has been woken to look for one.
LEMMA MessagingSets ==
    ASSUME MessagingInv
    PROVE  /\ MqWokenReceivers = {u \in AppTasks : pc[u] \in MqCalls
                                                   /\ gyros.main_list[u] = Running}
           /\ Waiters(mq) = {u \in AppTasks : gyros.main_list[u] = mq}
           /\ MqWokenReceivers \in SUBSET Tasks
<1>1. KernelOK(gyros) /\ gyros.main_list[Idle] = Running
    BY DEF MessagingInv, ScheduleOK, Sound
<1>2. Waiters(mq) = {u \in Tasks : gyros.main_list[u] = mq}
    BY <1>1, WaitersAre, MessagingNames DEF Waiters
<1>3. \A u : u \in Tasks /\ gyros.main_list[u] = mq => u \in AppTasks
    BY <1>1, MessagingNames DEF AppTasks
<1> QED
    BY <1>2, <1>3, MessagingNames DEF MqWokenReceivers, MqCalls, Runs

\* The same sets after the step.
LEMMA MessagingSetsNext ==
    ASSUME NEW t \in Tasks, NEW W, MessagingLeaves(t, W)
    PROVE  /\ MqWokenReceivers' = {u \in AppTasks : pc'[u] \in MqCalls
                                                    /\ gyros'.main_list[u] = Running}
           /\ Waiters(mq)' = {u \in AppTasks : gyros'.main_list[u] = mq}
           /\ MqWokenReceivers' \in SUBSET Tasks
<1>1. KernelOK(gyros') /\ gyros'.main_list[Idle] = Running
    BY DEF MessagingLeaves, ScheduleOK, Sound
<1>2. Elements(gyros'.lists[mq]) = {u \in Tasks : gyros'.main_list[u] = mq}
    BY <1>1, WaitersAre, MessagingNames
<1>3. \A u : u \in Tasks /\ gyros'.main_list[u] = mq => u \in AppTasks
    BY <1>1, MessagingNames DEF AppTasks
<1> QED
    BY <1>2, <1>3, MessagingNames DEF MqWokenReceivers, MqCalls, Runs, Waiters

LEMMA AtMessagingNext ==
    ASSUME MessagingInv, NEW t \in Tasks, NEW W, MessagingLeaves(t, W)
    PROVE  \A u \in AppTasks : AtMessaging(u)'
<1> SUFFICES ASSUME NEW u \in AppTasks PROVE AtMessaging(u)'
    OBVIOUS
<1>1. CASE u = t
    BY <1>1 DEF MessagingLeaves
<1>2. CASE u # t
  <2>1. /\ gyros'.main_list[u] = IF u \in W THEN Running ELSE gyros.main_list[u]
        /\ u \in Elements(gyros'.timeouts) => u \in Elements(gyros.timeouts)
        /\ pc'[u] = pc[u] /\ group'[u] = group[u] /\ request'[u] = request[u]
      BY <1>2 DEF MessagingLeaves, OthersStay
  <2>2. AtMessaging(u)
      BY DEF MessagingInv
  <2>3. ASSUME gyros'.main_list[u] \in Groups
        PROVE  group'[u] = gyros'.main_list[u] /\ ~event_match(request'[u], events'[group'[u]])
    <3>1. gyros'.main_list[u] = gyros.main_list[u]
        BY <2>1, <2>3, MessagingNames
    <3>2. group[u] = gyros.main_list[u] /\ ~event_match(request[u], events[group[u]])
        BY <2>2, <2>3, <3>1 DEF AtMessaging
    <3>3. events'[group[u]] \subseteq events[group[u]]
        BY <2>3, <3>1, <3>2 DEF MessagingLeaves, EventsShrink
    <3>4. ~event_match(request[u], events'[group[u]])
        BY <3>2, <3>3, FewerMatch
    <3> QED
        BY <2>1, <3>1, <3>2, <3>4
  <2>4. /\ group'[u] \in Groups <=> pc'[u] \in EventCalls
        /\ gyros'.main_list[u] = mq => pc'[u] \in MqCalls
        /\ u \in Elements(gyros'.timeouts) => pc'[u] \in TimedCalls
      BY <2>1, <2>2, MessagingNames DEF AtMessaging
  <2> QED
      BY <2>3, <2>4 DEF AtMessaging
<1> QED
    BY <1>1, <1>2

\* A step that adds no message and makes t wait for one only if there is none
\* leaves the messages attended.
LEMMA MessagesAttendedStill ==
    ASSUME MessagingInv, NEW t \in Tasks, NEW W, MessagingLeaves(t, W),
           \/ Len(msg_list') = 0
           \/ Len(msg_list') = Len(msg_list) - 1
           \/ msg_list' = msg_list /\ t \notin MqWokenReceivers,
           t \in AppTasks /\ gyros'.main_list[t] = mq => Len(msg_list') = 0
    PROVE  MessagingInv'
<1> DEFINE S == MqWokenReceivers
           T == MqWokenReceivers'
           n == Len(msg_list)
           m == Len(msg_list')
<1>1. /\ S = {u \in AppTasks : pc[u] \in MqCalls /\ gyros.main_list[u] = Running}
      /\ Waiters(mq) = {u \in AppTasks : gyros.main_list[u] = mq}
      /\ S \in SUBSET Tasks
    BY MessagingSets
<1>2. /\ T = {u \in AppTasks : pc'[u] \in MqCalls /\ gyros'.main_list[u] = Running}
      /\ Waiters(mq)' = {u \in AppTasks : gyros'.main_list[u] = mq}
      /\ T \in SUBSET Tasks
    BY MessagingSetsNext
<1>3. n \in Nat /\ m \in Nat
    BY LenProperties DEF MessagingInv, MessagingLeaves, MessagingTypes
<1>4. S \ {t} \subseteq T
    BY <1>1, <1>2, MessagingNames DEF MessagingLeaves, OthersStay
<1>5. ASSUME Waiters(mq)' # {}, m # 0 PROVE Waiters(mq) # {}
    BY <1>5, <1>1, <1>2, MessagingNames DEF MessagingLeaves
<1>6. \/ m = 0
      \/ m = n - 1
      \/ m = n /\ t \notin S
    OBVIOUS
<1>7. Waiters(mq) # {} => EnoughFor(n, S)
    BY DEF MessagingInv, MailAttended, Attended
<1> HIDE DEF S, T, n, m
<1>8. ASSUME Waiters(mq)' # {} PROVE EnoughFor(m, T)
  <2>1. CASE m = 0
    <3>1. Cardinality(T) \in Nat
        BY <1>2, FiniteTasks
    <3> QED
        BY <1>2, <2>1, <3>1 DEF EnoughFor
  <2>2. CASE m # 0
    <3>1. EnoughFor(n, S)
        BY <1>5, <1>7, <1>8, <2>2
    <3>2. CASE m = n - 1
      <4>1. n # 0 /\ T \in SUBSET Tasks
          BY <1>2, <1>3, <2>2, <3>2
      <4>2. EnoughFor(n - 1, T)
          BY <1>4, <3>1, <4>1, OneLess
      <4> QED
          BY <3>2, <4>2
    <3>3. CASE m = n /\ t \notin S
      <4>1. S \subseteq T /\ T \in SUBSET Tasks /\ m <= n
          BY <1>2, <1>3, <1>4, <3>3
      <4> QED
          BY <1>3, <3>1, <4>1, EnoughIsMore
    <3> QED
        BY <1>6, <2>2, <3>2, <3>3
  <2> QED
      BY <2>1, <2>2
<1>9. MailAttended'
    BY <1>8 DEF MailAttended, Attended, T, m
<1> QED
    BY <1>9, AtMessagingNext DEF MessagingInv, MessagingLeaves

\* A message is added by nobody who waits, and the first task is woken if any
\* waits.
LEMMA MessagesAttendedWoken ==
    ASSUME MessagingInv, NEW W, MessagingLeaves(Idle, W), Len(msg_list') = Len(msg_list) + 1,
           \/ W = {} /\ Waiters(mq) = {}
           \/ \E w \in Waiters(mq) : W = {w}
    PROVE  MessagingInv'
<1>1. /\ MqWokenReceivers = {u \in AppTasks : pc[u] \in MqCalls /\ gyros.main_list[u] = Running}
      /\ Waiters(mq) = {u \in AppTasks : gyros.main_list[u] = mq}
      /\ MqWokenReceivers \in SUBSET Tasks
    BY MessagingSets
<1>2. /\ MqWokenReceivers' = {u \in AppTasks : pc'[u] \in MqCalls /\ gyros'.main_list[u] = Running}
      /\ Waiters(mq)' = {u \in AppTasks : gyros'.main_list[u] = mq}
      /\ MqWokenReceivers' \in SUBSET Tasks
    BY MessagingSetsNext, MessagingNames
<1>3. ASSUME Waiters(mq)' # {}
      PROVE  EnoughFor(Len(msg_list'), MqWokenReceivers')
  <2>1. CASE \E w \in Waiters(mq) : W = {w}
    <3>1. PICK w \in Waiters(mq) : W = {w}
        BY <2>1
    <3>2. EnoughFor(Len(msg_list), MqWokenReceivers)
        BY <3>1 DEF MessagingInv, MailAttended, Attended
    <3>3. MqWokenReceivers \subseteq MqWokenReceivers'
        BY <3>1, <1>1, <1>2, MessagingNames DEF MessagingLeaves, OthersStay
    <3>4. w \in AppTasks /\ gyros.main_list[w] = mq
        BY <3>1, <1>1
    <3>5. pc[w] \in MqCalls
        BY <3>4 DEF MessagingInv, AtMessaging
    <3>6. w \in MqWokenReceivers' /\ w \notin MqWokenReceivers
        BY <3>1, <3>4, <3>5, <1>1, <1>2, MessagingNames DEF MessagingLeaves, OthersStay
    <3>7. MqWokenReceivers' \in SUBSET Tasks
        BY <1>2
    <3>8. EnoughFor(Len(msg_list) + 1, MqWokenReceivers')
        BY <3>2, <3>3, <3>6, <3>7, OneMore
    <3> QED
        BY <3>8
  <2>2. CASE W = {} /\ Waiters(mq) = {}
      BY <1>3, <2>2, <1>1, <1>2, MessagingNames DEF MessagingLeaves
  <2> QED
      BY <2>1, <2>2
<1>4. MailAttended'
    BY <1>3 DEF MailAttended, Attended
<1> QED
    BY <1>4, AtMessagingNext, MessagingNames DEF MessagingInv, MessagingLeaves

-----------------------------------------------------------------------------
(* Their steps.                                                            *)

LEMMA MessagingHere ==
    ASSUME MessagingInv
    PROVE  /\ MessagingTypes /\ DOMAIN pc = Tasks /\ DOMAIN group = Tasks
           /\ DOMAIN request = Tasks /\ DOMAIN events = Groups
           /\ Sound(gyros) /\ ScheduleOK(gyros) /\ KernelOK(gyros)
           /\ DOMAIN gyros.main_list = Tasks
           /\ gyros.main_list[Idle] = Running
           /\ Len(msg_list) \in Nat
    BY LenProperties DEF MessagingInv, MessagingTypes, ScheduleOK, Sound, KernelOK, KernelStates

LEMMA MessagingExecuting ==
    ASSUME MessagingInv, NEW t \in AppTasks, Executing(t)
    PROVE  /\ gyros.current = t /\ gyros.main_list[t] = Running
           /\ t \notin Elements(gyros.timeouts) /\ t \in Tasks /\ t # Idle
    BY CurrentIsHighest, MessagingNames DEF MessagingInv, ScheduleOK, Executing

LEMMA MessageTaken ==
    ASSUME MessagingInv, TakeMessage
    PROVE  msg_list' \in Seq(Messages) /\ Len(msg_list') = Len(msg_list) - 1
    BY HeadTailProperties DEF MessagingInv, MessagingTypes, TakeMessage

\* t returns, with a message, with events or with nothing.
LEMMA MessagingReturn ==
    ASSUME MessagingInv, NEW t \in AppTasks, Executing(t), MessagingTypes',
           gyros' = gyros \/ gyros' = ForgetTimeout(gyros, t),
           pc'[t] = "task", group'[t] = NoList, OthersStay(t),
           \A e \in Groups : events'[e] \subseteq events[e],
           \/ Len(msg_list') = 0
           \/ Len(msg_list') = Len(msg_list) - 1
           \/ msg_list' = msg_list /\ pc[t] \notin MqCalls
    PROVE  MessagingInv'
<1>1. Sound(gyros) /\ ScheduleOK(gyros) /\ t \in Tasks
    BY MessagingHere, MessagingNames
<1>2. /\ ScheduleOK(gyros') /\ gyros'.main_list = gyros.main_list
      /\ gyros'.timeouts = gyros.timeouts
  <2>1. CASE gyros' = gyros
      BY <1>1, <2>1
  <2>2. CASE gyros' = ForgetTimeout(gyros, t)
    <3>1. Forgotten(gyros, gyros', t)
        BY <1>1, <2>2, ForgetSound
    <3> QED
        BY <1>1, <3>1 DEF Forgotten
  <2> QED
      BY <2>1, <2>2
<1>3. gyros.main_list[t] = Running /\ t \notin Elements(gyros.timeouts)
    BY MessagingExecuting
<1>4. AtMessaging(t)'
    BY <1>2, <1>3, MessagingNames DEF AtMessaging, EventCalls
<1>5. MessagingLeaves(t, {})
    BY <1>2, <1>4 DEF MessagingLeaves, EventsShrink
<1>6. pc[t] \notin MqCalls => t \notin MqWokenReceivers
    BY MessagingSets
<1>7. gyros'.main_list[t] # mq
    BY <1>2, <1>3, MessagingNames
<1> QED
    BY <1>1, <1>5, <1>6, <1>7, MessagesAttendedStill

\* t waits in l for events that are not set, or for a message of an empty queue.
LEMMA MessagingBlock ==
    ASSUME MessagingInv, NEW t \in AppTasks, Executing(t), MessagingTypes',
           NEW l \in Groups \cup {mq},
           \/ gyros' = Wait(gyros, l)
           \/ /\ pc'[t] \in TimedCalls
              /\ \E timeout \in Time :
                     gyros' = Wait(gyros__task_set_timeout(gyros, timeout), l),
           events' = events, msg_list' = msg_list, OthersStay(t),
           l = mq => pc'[t] \in MqCalls /\ group'[t] = NoList /\ msg_list = <<>>,
           l # mq => /\ pc'[t] \in EventCalls /\ pc[t] \notin MqCalls /\ group'[t] = l
                     /\ ~event_match(request'[t], events[l])
    PROVE  MessagingInv'
<1>1. /\ Sound(gyros) /\ gyros.current = t /\ gyros.main_list[t] = Running
      /\ t \notin Elements(gyros.timeouts) /\ t # Idle /\ t \in Tasks /\ l \in Objects
    BY MessagingExecuting, MessagingHere, MessagingNames
<1>2. /\ ScheduleOK(gyros')
      /\ gyros'.main_list = [gyros.main_list EXCEPT ![t] = l]
      /\ Elements(gyros'.timeouts) \subseteq Elements(gyros.timeouts) \cup {t}
      /\ t \in Elements(gyros'.timeouts) => pc'[t] \in TimedCalls
  <2>1. CASE gyros' = Wait(gyros, l)
    <3>1. /\ Moved(gyros, gyros', t, l) /\ ScheduleOK(gyros')
          /\ gyros'.timeouts = gyros.timeouts
        BY <1>1, <2>1, WaitSound
    <3> QED
        BY <1>1, <3>1 DEF Moved
  <2>2. ASSUME pc'[t] \in TimedCalls, NEW timeout \in Time,
               gyros' = Wait(gyros__task_set_timeout(gyros, timeout), l)
        PROVE  /\ ScheduleOK(gyros')
               /\ gyros'.main_list = [gyros.main_list EXCEPT ![t] = l]
               /\ Elements(gyros'.timeouts) \subseteq Elements(gyros.timeouts) \cup {t}
               /\ t \in Elements(gyros'.timeouts) => pc'[t] \in TimedCalls
    <3>1. TimedWait(gyros, gyros', l, timeout)
        BY <1>1, <2>2, WaitUntilSound
    <3> QED
        BY <1>1, <2>2, <3>1 DEF TimedWait
  <2> QED
      BY <2>1, <2>2
<1>3. gyros'.main_list[t] = l /\ \A u \in AppTasks \ {t} : gyros'.main_list[u] = gyros.main_list[u]
    BY <1>1, <1>2, MessagingHere, MessagingNames
<1>4. AtMessaging(t)'
    BY <1>2, <1>3, MessagingNames DEF AtMessaging, EventCalls, MqCalls
<1>5. MessagingLeaves(t, {})
    BY <1>2, <1>3, <1>4 DEF MessagingLeaves, EventsShrink
<1>6. CASE l = mq
  <2>1. Len(msg_list') = 0
      BY <1>6
  <2> QED
      BY <1>1, <1>5, <2>1, MessagesAttendedStill
<1>7. CASE l # mq
  <2>1. t \notin MqWokenReceivers
      BY <1>7, MessagingSets
  <2>2. gyros'.main_list[t] # mq
      BY <1>3, <1>7
  <2> QED
      BY <1>1, <1>5, <2>1, <2>2, MessagesAttendedStill
<1> QED
    BY <1>6, <1>7

\* Neither a call nor a message nor an event.
LEMMA MessagingQuiet ==
    ASSUME MessagingInv, NEW t \in Tasks, NEW W, MessagingLeaves(t, W), msg_list' = msg_list,
           t \in AppTasks => pc[t] \notin MqCalls /\ gyros'.main_list[t] # mq
    PROVE  MessagingInv'
<1>1. t \notin MqWokenReceivers
    BY MessagingSets, MessagingNames
<1> QED
    BY <1>1, MessagesAttendedStill

LEMMA EventsSet ==
    ASSUME MessagingInv, NEW e \in Groups, NEW set \in SUBSET Events,
           gyros_event_group_set(e, set), msg_list' = msg_list
    PROVE  MessagingInv'
<1>1. /\ pc' = pc /\ group' = group /\ request' = request
      /\ events' = [events EXCEPT ![e] = events[e] \cup set]
    BY DEF gyros_event_group_set
<1>2. /\ Sound(gyros) /\ ScheduleOK(gyros) /\ gyros.main_list[Idle] = Running /\ e \in Objects
      /\ Idle \in Tasks /\ Idle \notin AppTasks
    BY MessagingHere, MessagingNames
<1>3. MessagingTypes'
    BY <1>1, MessagingHere DEF MessagingTypes
<1>4. /\ events'[e] = events[e] \cup set
      /\ \A f \in Groups \ {e} : events'[f] = events[f]
    BY <1>1, MessagingHere
<1>5. CASE set \subseteq events[e]
  <2>1. gyros' = gyros
      BY <1>5 DEF gyros_event_group_set
  <2>2. EventsShrink
      BY <1>4, <1>5 DEF EventsShrink
  <2>3. MessagingLeaves(Idle, {})
      BY <1>1, <1>2, <1>3, <2>1, <2>2 DEF MessagingLeaves, OthersStay
  <2> QED
      BY <1>2, <2>3, MessagingQuiet
<1>6. CASE ~(set \subseteq events[e])
  <2> DEFINE n == WakeAllFromTail(gyros, e)
             W == {u \in AppTasks : gyros.main_list[u] = e}
  <2>1. gyros' = gyros__cond_reschedule(n)
      BY <1>6 DEF gyros_event_group_set
  <2>2. AllWoken(gyros, n, e)
      BY <1>2, WakeAllSound
  <2> HIDE DEF n
  <2>3. Scheduled(n, gyros')
      BY <2>1, <2>2, RescheduleSound DEF AllWoken
  <2>4. /\ ScheduleOK(gyros')
        /\ \A u \in Tasks : gyros'.main_list[u] =
               IF gyros.main_list[u] = e THEN Running ELSE gyros.main_list[u]
        /\ Elements(gyros'.timeouts) \subseteq Elements(gyros.timeouts)
      BY <2>2, <2>3 DEF AllWoken, Scheduled
  <2>5. EventsShrink
      BY <1>4, <2>4, MessagingNames DEF EventsShrink
  <2>6. MessagingLeaves(Idle, W)
      BY <1>1, <1>2, <1>3, <2>4, <2>5, MessagingNames DEF MessagingLeaves, OthersStay
  <2> HIDE DEF W
  <2> QED
      BY <1>2, <2>6, MessagingQuiet
<1> QED
    BY <1>5, <1>6

LEMMA MessageSent ==
    ASSUME MessagingInv, NEW msg \in Messages, gyros_mq_send(msg), UNCHANGED eventVars
    PROVE  MessagingInv'
<1>1. /\ pc' = pc /\ group' = group /\ request' = request /\ events' = events
      /\ gyros' = WakeFirst(gyros, mq) /\ msg_list' = Append(msg_list, msg)
    BY DEF gyros_mq_send, eventVars
<1>2. /\ Sound(gyros) /\ ScheduleOK(gyros) /\ gyros.main_list[Idle] = Running /\ mq \in Objects
      /\ Idle \in Tasks /\ Idle \notin AppTasks
    BY MessagingHere, MessagingNames
<1>3. msg_list' \in Seq(Messages) /\ Len(msg_list') = Len(msg_list) + 1
    BY <1>1, AppendProperties DEF MessagingInv, MessagingTypes
<1>4. MessagingTypes'
    BY <1>1, <1>3, MessagingHere DEF MessagingTypes
<1>5. FirstWoken(gyros, gyros', mq)
    BY <1>1, <1>2, WakeFirstSound
<1>6. ScheduleOK(gyros') /\ EventsShrink
    BY <1>1, <1>2, <1>5 DEF FirstWoken, EventsShrink
<1>7. ASSUME NEW w \in Tasks, gyros.main_list[w] = mq,
             gyros'.main_list = [gyros.main_list EXCEPT ![w] = Running],
             Elements(gyros'.timeouts) = Elements(gyros.timeouts) \ {w}
      PROVE  MessagingInv'
  <2>1. w \in AppTasks
      BY <1>2, <1>7, MessagingNames DEF AppTasks
  <2>2. MessagingLeaves(Idle, {w})
      BY <1>1, <1>2, <1>4, <1>6, <1>7, <2>1, MessagingHere, MessagingNames
         DEF MessagingLeaves, OthersStay
  <2>3. w \in Waiters(mq)
      BY <1>7, <2>1, MessagingSets
  <2> QED
      BY <1>3, <2>2, <2>3, MessagesAttendedWoken
<1>8. ASSUME gyros' = gyros, \A x \in Tasks : gyros.main_list[x] # mq
      PROVE  MessagingInv'
  <2>1. MessagingLeaves(Idle, {})
      BY <1>1, <1>2, <1>4, <1>6, <1>8, MessagingNames DEF MessagingLeaves, OthersStay
  <2>2. Waiters(mq) = {}
      BY <1>8, MessagingSets, MessagingNames
  <2> QED
      BY <1>3, <2>1, <2>2, MessagesAttendedWoken
<1> QED
    BY <1>5, <1>7, <1>8 DEF FirstWoken

LEMMA MessagingSurroundingsSafe ==
    ASSUME MessagingInv, MessagingSurroundings
    PROVE  MessagingInv'
<1>0. /\ Sound(gyros) /\ ScheduleOK(gyros) /\ gyros.main_list[Idle] = Running
      /\ Idle \in Tasks /\ Idle \notin AppTasks
    BY MessagingHere, MessagingNames
<1>1. /\ events' = events /\ group' = group /\ request' = request /\ msg_list' = msg_list
      /\ EventsShrink
    BY DEF MessagingSurroundings, eventVars, EventsShrink
<1>2. CASE ContextSwitch
  <2>1. /\ ScheduleOK(gyros') /\ pc' = pc
        /\ gyros'.main_list = gyros.main_list /\ gyros'.timeouts = gyros.timeouts
      BY <1>0, <1>2, SwitchSound DEF ContextSwitch
  <2>2. MessagingLeaves(Idle, {})
      BY <1>0, <1>1, <2>1, MessagingHere DEF MessagingLeaves, OthersStay, MessagingTypes
  <2> QED
      BY <1>0, <1>1, <2>2, MessagingQuiet
<1>3. CASE Tick
  <2> DEFINE now == (gyros.now + 1) % TimeRange
  <2>1. gyros' = gyros__tick(gyros, now) /\ pc' = pc
      BY <1>3 DEF Tick
  <2>2. now \in Time
      BY MessagingHere, LaterIsTime
  <2> HIDE DEF now
  <2>3. /\ ScheduleOK(gyros')
        /\ Elements(gyros'.timeouts) \subseteq Elements(gyros.timeouts)
        /\ \A u \in Tasks : \/ gyros'.main_list[u] = gyros.main_list[u]
                            \/ gyros'.main_list[u] = Running
      BY <1>0, <2>1, <2>2, TickSound
  <2> DEFINE W == {u \in Tasks : gyros'.main_list[u] = Running}
  <2>4. MessagingLeaves(Idle, W)
      BY <1>0, <1>1, <2>1, <2>3, MessagingHere, MessagingNames
         DEF MessagingLeaves, OthersStay, MessagingTypes
  <2> HIDE DEF W
  <2> QED
      BY <1>0, <1>1, <2>4, MessagingQuiet
<1>4. ASSUME NEW t \in AppTasks, Rest(t) PROVE MessagingInv'
  <2> DEFINE n == RemoveTimeout(gyros__task_suspend(gyros, t), t)
  <2>1. /\ Executing(t) /\ pc[t] = "task" /\ gyros' = gyros__reschedule(n)
        /\ pc' = [pc EXCEPT ![t] = "rest"]
      BY <1>4 DEF Rest, Calls, Goto
  <2>2. Moved(gyros, n, t, NoList) /\ Elements(n.timeouts) = Elements(gyros.timeouts) \ {t}
      BY <1>0, SuspendSound
  <2> HIDE DEF n
  <2>3. Scheduled(n, gyros')
      BY <2>1, <2>2, RescheduleSound DEF Moved
  <2>4. /\ ScheduleOK(gyros') /\ gyros'.main_list = [gyros.main_list EXCEPT ![t] = NoList]
        /\ Elements(gyros'.timeouts) = Elements(gyros.timeouts) \ {t}
    <3>1. ScheduleOK(gyros') /\ gyros'.main_list = n.main_list /\ gyros'.timeouts = n.timeouts
        BY <2>3 DEF Scheduled
    <3> QED
        BY <2>2, <3>1 DEF Moved
  <2>5. MessagingTypes' /\ OthersStay(t)
      BY <1>1, <2>1, MessagingHere, MessagingNames DEF MessagingTypes, OthersStay
  <2>6. group[t] \notin Groups /\ pc[t] \notin MqCalls
      BY <2>1 DEF MessagingInv, AtMessaging, EventCalls, MqCalls
  <2>7. AtMessaging(t)' /\ gyros'.main_list[t] # mq
      BY <1>1, <2>1, <2>4, <2>6, MessagingHere, MessagingNames DEF AtMessaging, EventCalls
  <2>8. MessagingLeaves(t, {})
      BY <1>1, <2>4, <2>5, <2>7, MessagingHere, MessagingNames DEF MessagingLeaves
  <2> QED
      BY <1>1, <2>6, <2>7, <2>8, MessagingQuiet, MessagingNames
<1>5. ASSUME NEW t \in AppTasks, Resume(t) PROVE MessagingInv'
  <2> DEFINE n == gyros__task_move(gyros, t, Running)
  <2>1. /\ pc[t] = "rest" /\ gyros' = gyros__cond_reschedule(n)
        /\ pc' = [pc EXCEPT ![t] = "task"]
      BY <1>5 DEF Resume, Goto
  <2>2. /\ t \notin Elements(gyros.timeouts) /\ t \in Tasks
        /\ group[t] \notin Groups /\ pc[t] \notin MqCalls
      BY <2>1, MessagingNames DEF MessagingInv, AtMessaging, EventCalls, MqCalls, TimedCalls
  <2>3. Moved(gyros, n, t, Running) /\ n.timeouts = gyros.timeouts
      BY <1>0, <2>2, MoveSound
  <2> HIDE DEF n
  <2>4. Scheduled(n, gyros')
      BY <2>1, <2>3, RescheduleSound DEF Moved
  <2>5. /\ ScheduleOK(gyros') /\ gyros'.main_list = [gyros.main_list EXCEPT ![t] = Running]
        /\ gyros'.timeouts = gyros.timeouts
      BY <2>3, <2>4 DEF Moved, Scheduled
  <2>6. MessagingTypes' /\ OthersStay(t)
      BY <1>1, <2>1, MessagingHere, MessagingNames DEF MessagingTypes, OthersStay
  <2>7. AtMessaging(t)' /\ gyros'.main_list[t] # mq
      BY <1>1, <2>1, <2>2, <2>5, MessagingHere, MessagingNames DEF AtMessaging, EventCalls
  <2>8. MessagingLeaves(t, {})
      BY <1>1, <2>2, <2>5, <2>6, <2>7, MessagingHere, MessagingNames DEF MessagingLeaves
  <2> QED
      BY <1>1, <2>2, <2>7, <2>8, MessagingQuiet
<1> QED
    BY <1>2, <1>3, <1>4, <1>5 DEF MessagingSurroundings

\* What t does at an event group, on the call or after a wake-up.
LEMMA GetSafe ==
    ASSUME MessagingInv, NEW t \in AppTasks, Executing(t), pc[t] \notin MqCalls,
           NEW e \in Groups, NEW r \in Requests \cup {NoRequest}, msg_list' = msg_list
    PROVE  /\ event_match(r, events[e]) /\ EventTake(t, e, r) => MessagingInv'
           /\ EventReturn(t) /\ events' = events => MessagingInv'
           /\ ~event_match(r, events[e]) /\ EventBlock(gyros, t, e, r, "event_group_get")
                  => MessagingInv'
           /\ \A timeout \in Time :
                  /\ ~event_match(r, events[e])
                  /\ EventBlock(gyros__task_set_timeout(gyros, timeout), t, e, r,
                                "event_group_get_until")
                  => MessagingInv'
<1>0. t \in Tasks
    BY MessagingNames
<1>1. ASSUME EventReturn(t), events' \in [Groups -> SUBSET Events],
             \A f \in Groups : events'[f] \subseteq events[f]
      PROVE  MessagingInv'
  <2>1. /\ gyros' = ForgetTimeout(gyros, t) /\ pc' = [pc EXCEPT ![t] = "task"]
        /\ group' = [group EXCEPT ![t] = NoList]
        /\ request' = [request EXCEPT ![t] = NoRequest]
      BY <1>1 DEF EventReturn, Goto
  <2>2. MessagingTypes'
      BY <1>1, <2>1, MessagingHere DEF MessagingTypes
  <2>3. OthersStay(t) /\ pc'[t] = "task" /\ group'[t] = NoList
      BY <1>0, <2>1, MessagingHere, MessagingNames DEF OthersStay
  <2> QED
      BY <1>1, <2>1, <2>2, <2>3, MessagingReturn
<1>2. ASSUME EventTake(t, e, r) PROVE MessagingInv'
  <2>1. EventReturn(t) /\ events' = [events EXCEPT ![e] = events[e] \ r.wait_events]
      BY <1>2 DEF EventTake
  <2>2. /\ events' \in [Groups -> SUBSET Events]
        /\ \A f \in Groups : events'[f] \subseteq events[f]
      BY <2>1, MessagingHere DEF MessagingTypes
  <2> QED
      BY <1>1, <2>1, <2>2
<1>3. ASSUME EventReturn(t), events' = events PROVE MessagingInv'
  <2>1. /\ events' \in [Groups -> SUBSET Events]
        /\ \A f \in Groups : events'[f] \subseteq events[f]
      BY <1>3, MessagingHere DEF MessagingTypes
  <2> QED
      BY <1>1, <1>3, <2>1
<1>4. ASSUME NEW k, NEW call \in EventCalls, EventBlock(k, t, e, r, call)
      PROVE  /\ gyros' = Wait(k, e) /\ events' = events /\ MessagingTypes' /\ OthersStay(t)
             /\ pc'[t] = call /\ group'[t] = e /\ request'[t] = r
  <2>1. /\ gyros' = Wait(k, e) /\ pc' = [pc EXCEPT ![t] = call] /\ events' = events
        /\ group' = [group EXCEPT ![t] = e] /\ request' = [request EXCEPT ![t] = r]
      BY <1>4 DEF EventBlock, Goto
  <2>2. MessagingTypes'
      BY <2>1, MessagingHere DEF MessagingTypes
  <2> QED
      BY <1>0, <2>1, <2>2, MessagingHere, MessagingNames DEF OthersStay
<1>5. e # mq /\ e \in Groups \cup {mq}
    OBVIOUS
<1>6. ASSUME ~event_match(r, events[e]), EventBlock(gyros, t, e, r, "event_group_get")
      PROVE  MessagingInv'
  <2>1. /\ gyros' = Wait(gyros, e) /\ events' = events /\ MessagingTypes' /\ OthersStay(t)
        /\ pc'[t] \in EventCalls /\ group'[t] = e /\ request'[t] = r
      BY <1>4, <1>6 DEF EventCalls
  <2> QED
      BY <1>5, <1>6, <2>1, MessagingBlock
<1>7. ASSUME NEW timeout \in Time, ~event_match(r, events[e]),
             EventBlock(gyros__task_set_timeout(gyros, timeout), t, e, r, "event_group_get_until")
      PROVE  MessagingInv'
  <2>1. /\ gyros' = Wait(gyros__task_set_timeout(gyros, timeout), e)
        /\ events' = events /\ MessagingTypes' /\ OthersStay(t)
        /\ pc'[t] \in EventCalls /\ pc'[t] \in TimedCalls /\ group'[t] = e /\ request'[t] = r
      BY <1>4, <1>7 DEF EventCalls, TimedCalls
  <2> QED
      BY <1>5, <1>7, <2>1, MessagingBlock
<1> QED
    BY <1>2, <1>3, <1>6, <1>7

LEMMA EventsCleared ==
    ASSUME MessagingInv, NEW e \in Groups, NEW set \in SUBSET Events,
           gyros_event_group_clear(e, set), msg_list' = msg_list
    PROVE  MessagingInv'
<1>1. /\ gyros' = gyros /\ pc' = pc /\ group' = group /\ request' = request
      /\ events' = [events EXCEPT ![e] = events[e] \ set]
    BY DEF gyros_event_group_clear
<1>2. ScheduleOK(gyros) /\ Idle \in Tasks /\ Idle \notin AppTasks
    BY MessagingHere, MessagingNames
<1>3. MessagingTypes' /\ \A f \in Groups : events'[f] \subseteq events[f]
    BY <1>1, MessagingHere DEF MessagingTypes
<1>4. EventsShrink
    BY <1>3 DEF EventsShrink
<1>5. MessagingLeaves(Idle, {})
    BY <1>1, <1>2, <1>3, <1>4 DEF MessagingLeaves, OthersStay
<1> QED
    BY <1>2, <1>5, MessagingQuiet

LEMMA EventStepSafe ==
    ASSUME MessagingInv, EventNext, msg_list' = msg_list
    PROVE  MessagingInv'
<1>1. ASSUME NEW t \in AppTasks, Executing(t), pc[t] \notin MqCalls,
             NEW e \in Groups, NEW r \in Requests \cup {NoRequest}, GetLoop(t, e, r)
      PROVE  MessagingInv'
  <2>1. CASE event_match(r, events[e])
    <3>1. EventTake(t, e, r)
        BY <1>1, <2>1 DEF GetLoop
    <3> QED
        BY <1>1, <2>1, <3>1, GetSafe
  <2>2. CASE ~event_match(r, events[e])
    <3>1. EventBlock(gyros, t, e, r, "event_group_get")
        BY <1>1, <2>2 DEF GetLoop
    <3> QED
        BY <1>1, <2>2, <3>1, GetSafe
  <2> QED
      BY <2>1, <2>2
<1>2. ASSUME NEW t \in AppTasks, NEW e \in Groups, NEW r \in Requests,
             gyros_event_group_get(t, e, r)
      PROVE  MessagingInv'
  <2>1. Executing(t) /\ pc[t] \notin MqCalls /\ GetLoop(t, e, r)
      BY <1>2 DEF gyros_event_group_get, Calls, MqCalls
  <2> QED
      BY <1>1, <1>2, <2>1
<1>3. ASSUME NEW t \in AppTasks, NEW e \in Groups, NEW r \in Requests, NEW delay \in 0..MaxDelay,
             gyros_event_group_get_until(t, e, r, Deadline(delay))
      PROVE  MessagingInv'
  <2> DEFINE timeout == Deadline(delay)
  <2>1. timeout \in Time
    <3>1. KernelOK(gyros) /\ delay \in Nat
        BY MessagingHere, ServicesAssumption
    <3> QED
        BY <3>1, LaterIsTime DEF Deadline
  <2> HIDE DEF timeout
  <2>2. gyros_event_group_get_until(t, e, r, timeout)
      BY <1>3 DEF timeout
  <2>3. Executing(t) /\ pc[t] \notin MqCalls /\ pc[t] = "task"
      BY <2>2 DEF gyros_event_group_get_until, Calls, MqCalls
  <2>4. CASE event_match(r, events[e])
    <3>1. EventTake(t, e, r)
        BY <2>2, <2>4 DEF gyros_event_group_get_until
    <3> QED
        BY <1>3, <2>3, <2>4, <3>1, GetSafe
  <2>5. CASE ~event_match(r, events[e]) /\ TimeoutReached(gyros, timeout)
    <3>1. /\ gyros' = gyros /\ pc' = pc
          /\ events' = events /\ group' = group /\ request' = request
        BY <2>2, <2>5 DEF gyros_event_group_get_until, eventVars
    <3>2. MessagingTypes' /\ OthersStay(t)
        BY <3>1, MessagingHere DEF MessagingTypes, OthersStay
    <3>3. pc'[t] = "task" /\ group'[t] = NoList
      <4>1. group[t] \notin Groups
          BY <1>3, <2>3 DEF MessagingInv, AtMessaging, EventCalls
      <4>2. group[t] \in Groups \cup {NoList}
          BY <1>3, MessagingHere, MessagingNames DEF MessagingTypes
      <4> QED
          BY <2>3, <3>1, <4>1, <4>2
    <3>4. \A f \in Groups : events'[f] \subseteq events[f]
        BY <3>1
    <3> QED
        BY <2>3, <3>1, <3>2, <3>3, <3>4, MessagingReturn
  <2>6. CASE ~event_match(r, events[e]) /\ ~TimeoutReached(gyros, timeout)
    <3>1. EventBlock(gyros__task_set_timeout(gyros, timeout), t, e, r, "event_group_get_until")
        BY <2>2, <2>6 DEF gyros_event_group_get_until
    <3> QED
        BY <1>3, <2>1, <2>3, <2>6, <3>1, GetSafe
  <2> QED
      BY <2>4, <2>5, <2>6
<1>4. ASSUME NEW t \in AppTasks, EventStep(t) PROVE MessagingInv'
  <2>1. Executing(t) /\ pc[t] \in EventCalls
      BY <1>4 DEF EventStep, GetWoken, GetUntilTakes, GetUntilFails, Continues, EventCalls
  <2>2. /\ pc[t] \notin MqCalls
        /\ group[t] \in Groups /\ request[t] \in Requests \cup {NoRequest}
      BY <2>1, MessagingHere, MessagingNames
         DEF MessagingInv, AtMessaging, MessagingTypes, EventCalls, MqCalls
  <2>3. CASE GetWoken(t)
    <3>1. GetLoop(t, group[t], request[t])
        BY <2>3 DEF GetWoken
    <3> QED
        BY <1>1, <2>1, <2>2, <3>1
  <2>4. CASE GetUntilTakes(t)
    <3>1. event_match(request[t], events[group[t]]) /\ EventTake(t, group[t], request[t])
        BY <2>4 DEF GetUntilTakes
    <3> QED
        BY <2>1, <2>2, <3>1, GetSafe
  <2>5. CASE GetUntilFails(t)
    <3>1. EventReturn(t) /\ events' = events
        BY <2>5 DEF GetUntilFails
    <3> QED
        BY <2>1, <2>2, <3>1, GetSafe
  <2> QED
      BY <1>4, <2>3, <2>4, <2>5 DEF EventStep
<1> QED
    BY <1>2, <1>3, <1>4, EventsSet, EventsCleared DEF EventNext

LEMMA MqStepSafe ==
    ASSUME MessagingInv, MqNext, UNCHANGED eventVars
    PROVE  MessagingInv'
<1>0. /\ events' = events /\ group' = group /\ request' = request
      /\ \A f \in Groups : events'[f] \subseteq events[f]
      /\ EventsShrink
    BY DEF eventVars, EventsShrink
\* The types, and that a task in no call of an event group has no group.
<1>1. ASSUME NEW t \in AppTasks, NEW where \in {"task"} \cup MqCalls, Goto(t, where),
             pc[t] = "task" \/ pc[t] \in MqCalls, msg_list' \in Seq(Messages)
      PROVE  MessagingTypes' /\ OthersStay(t) /\ pc'[t] = where /\ group'[t] = NoList
  <2>1. pc' = [pc EXCEPT ![t] = where] /\ t \in Tasks
      BY <1>1, MessagingNames DEF Goto
  <2>2. MessagingTypes' /\ OthersStay(t) /\ pc'[t] = where
      BY <1>0, <1>1, <2>1, MessagingHere, MessagingNames DEF MessagingTypes, OthersStay
  <2>3. group[t] \notin Groups
      BY <1>1 DEF MessagingInv, AtMessaging, EventCalls, MqCalls
  <2>4. group[t] \in Groups \cup {NoList}
      BY <2>1, MessagingHere DEF MessagingTypes
  <2> QED
      BY <1>0, <2>2, <2>3, <2>4
<1>2. ASSUME NEW t \in AppTasks, Executing(t), pc[t] = "task" \/ pc[t] \in MqCalls, MqReturn(t),
             TakeMessage \/ (msg_list = <<>> /\ msg_list' = msg_list)
      PROVE  MessagingInv'
  <2>1. gyros' = ForgetTimeout(gyros, t) /\ Goto(t, "task")
      BY <1>2 DEF MqReturn
  <2>2. /\ msg_list' \in Seq(Messages)
        /\ Len(msg_list') = 0 \/ Len(msg_list') = Len(msg_list) - 1
      BY <1>2, MessageTaken, MessagingHere DEF MessagingTypes
  <2>3. MessagingTypes' /\ OthersStay(t) /\ pc'[t] = "task" /\ group'[t] = NoList
      BY <1>1, <1>2, <2>1, <2>2
  <2> QED
      BY <1>0, <1>2, <2>1, <2>2, <2>3, MessagingReturn
<1>3. ASSUME NEW t \in AppTasks, Executing(t), pc[t] = "task" \/ pc[t] \in MqCalls,
             NEW call \in MqCalls, msg_list = <<>>,
             \/ MqBlock(gyros, t, call)
             \/ /\ call \in TimedCalls
                /\ \E timeout \in Time :
                       MqBlock(gyros__task_set_timeout(gyros, timeout), t, call)
      PROVE  MessagingInv'
  <2>1. msg_list' = msg_list /\ Goto(t, call)
      BY <1>3 DEF MqBlock
  <2>2. MessagingTypes' /\ OthersStay(t) /\ pc'[t] = call /\ group'[t] = NoList
      BY <1>1, <1>3, <2>1, MessagingHere DEF MessagingTypes
  <2>3. \/ gyros' = Wait(gyros, mq)
        \/ /\ pc'[t] \in TimedCalls
           /\ \E timeout \in Time : gyros' = Wait(gyros__task_set_timeout(gyros, timeout), mq)
      BY <1>3, <2>2 DEF MqBlock
  <2>4. pc'[t] \in MqCalls /\ mq \in Groups \cup {mq}
      BY <1>3, <2>2
  <2> HIDE DEF MqCalls
  <2> QED
      BY <1>0, <1>3, <2>1, <2>2, <2>3, <2>4, MessagingBlock
<1>4. ASSUME NEW t \in AppTasks, Executing(t), pc[t] = "task" \/ pc[t] \in MqCalls, MqReceiveLoop(t)
      PROVE  MessagingInv'
  <2>1. CASE msg_list = <<>>
    <3>1. MqBlock(gyros, t, "mq_receive") /\ "mq_receive" \in MqCalls
        BY <1>4, <2>1 DEF MqReceiveLoop, MqCalls
    <3> QED
        BY <1>3, <1>4, <2>1, <3>1
  <2>2. CASE msg_list # <<>>
      BY <1>2, <1>4, <2>2 DEF MqReceiveLoop
  <2> QED
      BY <2>1, <2>2
<1>5. ASSUME NEW t \in AppTasks, gyros_mq_receive(t) PROVE MessagingInv'
  <2>1. Executing(t) /\ pc[t] = "task" /\ MqReceiveLoop(t)
      BY <1>5 DEF gyros_mq_receive, Calls
  <2> QED
      BY <1>4, <2>1
<1>6. ASSUME NEW t \in AppTasks, MqStep(t) PROVE MessagingInv'
  <2>1. Executing(t) /\ pc[t] \in MqCalls
      BY <1>6 DEF MqStep, MqReceiveWoken, MqReceiveUntilWoken, Continues, MqCalls
  <2>2. CASE MqReceiveWoken(t)
      BY <1>4, <2>1, <2>2 DEF MqReceiveWoken
  <2>3. CASE MqReceiveUntilWoken(t)
    <3>1. MqReturn(t) /\ (TakeMessage \/ (msg_list = <<>> /\ msg_list' = msg_list))
        BY <2>3 DEF MqReceiveUntilWoken
    <3> QED
        BY <1>2, <2>1, <3>1
  <2> QED
      BY <1>6, <2>2, <2>3 DEF MqStep
<1>7. ASSUME MqReceiveInInterrupt PROVE MessagingInv'
  <2>1. gyros' = gyros /\ pc' = pc /\ TakeMessage
      BY <1>7 DEF MqReceiveInInterrupt
  <2>2. msg_list' \in Seq(Messages) /\ Len(msg_list') = Len(msg_list) - 1
      BY <2>1, MessageTaken
  <2>3. MessagingTypes' /\ OthersStay(Idle) /\ ScheduleOK(gyros)
      BY <1>0, <2>1, <2>2, MessagingHere DEF MessagingTypes, OthersStay
  <2>4. MessagingLeaves(Idle, {})
      BY <1>0, <2>1, <2>3, MessagingNames DEF MessagingLeaves
  <2> QED
      BY <2>2, <2>4, MessagesAttendedStill, MessagingNames
<1>8. ASSUME NEW t \in AppTasks, NEW delay \in 0..MaxDelay,
             gyros_mq_receive_until(t, Deadline(delay))
      PROVE  MessagingInv'
  <2> DEFINE timeout == Deadline(delay)
  <2>1. timeout \in Time
    <3>1. KernelOK(gyros) /\ delay \in Nat
        BY MessagingHere, ServicesAssumption
    <3> QED
        BY <3>1, LaterIsTime DEF Deadline
  <2> HIDE DEF timeout
  <2>2. gyros_mq_receive_until(t, timeout)
      BY <1>8 DEF timeout
  <2>3. Executing(t) /\ pc[t] = "task" /\ t \in Tasks
      BY <2>2, MessagingNames DEF gyros_mq_receive_until, Calls
  <2>4. ASSUME gyros' = gyros, pc' = pc, TakeMessage \/ (msg_list = <<>> /\ msg_list' = msg_list)
        PROVE  MessagingInv'
    <3>1. Goto(t, "task")
      <4>1. pc \in [Tasks -> {"task", "rest"} \cup EventCalls \cup MqCalls]
          BY MessagingHere DEF MessagingTypes
      <4>2. pc = [pc EXCEPT ![t] = "task"]
          BY <2>3, <4>1
      <4> QED
          BY <2>4, <4>2 DEF Goto
    <3>2. /\ msg_list' \in Seq(Messages)
          /\ Len(msg_list') = 0 \/ Len(msg_list') = Len(msg_list) - 1
        BY <2>4, MessageTaken, MessagingHere DEF MessagingTypes
    <3>3. MessagingTypes' /\ OthersStay(t) /\ pc'[t] = "task" /\ group'[t] = NoList
        BY <1>1, <2>3, <3>1, <3>2
    <3> QED
        BY <1>0, <2>3, <2>4, <3>2, <3>3, MessagingReturn
  <2>5. CASE msg_list # <<>>
      BY <2>2, <2>4, <2>5 DEF gyros_mq_receive_until
  <2>6. CASE msg_list = <<>> /\ TimeoutReached(gyros, timeout)
      BY <2>2, <2>4, <2>6 DEF gyros_mq_receive_until
  <2>7. CASE msg_list = <<>> /\ ~TimeoutReached(gyros, timeout)
    <3>1. /\ MqBlock(gyros__task_set_timeout(gyros, timeout), t, "mq_receive_until")
          /\ "mq_receive_until" \in MqCalls /\ "mq_receive_until" \in TimedCalls
        BY <2>2, <2>7 DEF gyros_mq_receive_until, MqCalls, TimedCalls
    <3> QED
        BY <1>3, <2>1, <2>3, <2>7, <3>1
  <2> QED
      BY <2>5, <2>6, <2>7
<1>9. ASSUME NEW msg \in Messages, gyros_mq_send(msg) PROVE MessagingInv'
    BY <1>9, MessageSent
<1> QED
    BY <1>5, <1>6, <1>7, <1>8, <1>9 DEF MqNext

LEMMA MessagingInvInit == MessagingInit => MessagingInv
<1> SUFFICES ASSUME MessagingInit PROVE MessagingInv
    OBVIOUS
<1>1. /\ ScheduleOK(gyros) /\ gyros.main_list = [t \in Tasks |-> Running]
      /\ gyros.timeouts = <<>>
    BY StartedSound DEF MessagingInit, EventInit
<1>2. Elements(gyros.timeouts) = {}
    BY <1>1 DEF Elements, ToSet
<1>3. MessagingTypes
    BY EmptySeq DEF MessagingInit, EventInit, MqInit, MessagingTypes
<1>4. \A t \in AppTasks : AtMessaging(t)
    BY <1>1, <1>2, MessagingNames DEF AtMessaging, MessagingInit, EventInit, EventCalls
<1>5. Waiters(mq) = {}
  <2>1. Waiters(mq) = {u \in Tasks : gyros.main_list[u] = mq}
      BY <1>1, WaitersAre, MessagingNames DEF Waiters, ScheduleOK, Sound
  <2> QED
      BY <1>1, <2>1, MessagingNames
<1> QED
    BY <1>1, <1>3, <1>4, <1>5 DEF MessagingInv, MailAttended, Attended

LEMMA MessagingInvNext == MessagingInv /\ [MessagingNext]_messagingAll => MessagingInv'
<1> SUFFICES ASSUME MessagingInv, [MessagingNext]_messagingAll PROVE MessagingInv'
    OBVIOUS
<1>1. CASE UNCHANGED messagingAll
  <2>1. /\ gyros' = gyros /\ pc' = pc /\ msg_list' = msg_list
        /\ events' = events /\ group' = group /\ request' = request
      BY <1>1 DEF messagingAll, eventVars
  <2> QED
      BY <2>1 DEF MessagingInv, MessagingTypes, AtMessaging, MailAttended, Attended,
         MqWokenReceivers, Waiters, Runs
<1> QED
    BY <1>1, MessagingSurroundingsSafe, EventStepSafe, MqStepSafe DEF MessagingNext

\* Every task that waits sleeps in the list of its call, at an event group only
\* for events that are not set, and the messages are attended.
THEOREM MessagingInvHolds == MessagingSpec => []MessagingInv
    BY MessagingInvInit, MessagingInvNext, PTL DEF MessagingSpec

\* No task sleeps in gyros_event_group_get for events that are set.
THEOREM NobodyMissesEvents == MessagingSpec => []NoMatchingSleeper
<1>1. MessagingInv => NoMatchingSleeper
  <2> SUFFICES ASSUME MessagingInv, NEW e \in Groups, NEW t \in Waiters(e)
               PROVE  ~event_match(request[t], events[e])
      BY DEF NoMatchingSleeper
  <2>1. t \in Tasks /\ gyros.main_list[t] = e
      BY WaitersAre, MessagingHere, MessagingNames DEF Waiters
  <2>2. t \in AppTasks
      BY <2>1, MessagingHere, MessagingNames DEF AppTasks
  <2> QED
      BY <2>1, <2>2 DEF MessagingInv, AtMessaging
<1> QED
    BY <1>1, MessagingInvHolds, PTL

\* While tasks sleep in gyros_mq_receive, every message of the queue has a woken
\* task of its own that is going to look for it.
THEOREM EveryMessageHasReceiver == MessagingSpec => []MessagesHaveReceivers
<1>1. MessagingInv => MessagesHaveReceivers
    BY DEF MessagingInv, MailAttended, Attended, MessagesHaveReceivers, EnoughFor
<1> QED
    BY <1>1, MessagingInvHolds, PTL
-----------------------------------------------------------------------------
(* Reader/writer locks.                                                    *)

Modes == {"none", "read", "write"}
LockingCalls == {"rdlock", "wrlock", "rdlock_until", "wrlock_until"}

ReadersOf(m) == {t \in AppTasks : m[t] = "read"}

\* n is the number of tasks that read.
Counts(m, n) == IsFiniteSet(ReadersOf(m)) /\ n = Cardinality(ReadersOf(m))

CountRight == Counts(mode, readers)

WriterRight ==
    /\ \A t \in AppTasks : mode[t] = "write" => writer = t
    /\ writer # NoTask => readers = 0

CallersHoldNone == \A t \in AppTasks : pc[t] \in LockingCalls => mode[t] = "none"

FieldTypes == mode \in [Tasks -> Modes] /\ DOMAIN pc = Tasks

RwInv == FieldTypes /\ CountRight /\ WriterRight /\ CallersHoldNone

-----------------------------------------------------------------------------
(* What the count of readers does.                                         *)

LEMMA CountIsNat == ASSUME NEW m, NEW n, Counts(m, n) PROVE n \in Nat
    BY FS_CardinalityType DEF Counts

LEMMA CountZero ==
    ASSUME NEW m, Counts(m, 0), NEW t \in AppTasks
    PROVE  m[t] # "read"
<1>1. ReadersOf(m) = {}
    BY FS_EmptySet DEF Counts
<1> QED
    BY <1>1 DEF ReadersOf

LEMMA CountGrows ==
    ASSUME NEW m \in [Tasks -> Modes], NEW n, Counts(m, n),
           NEW t \in AppTasks, m[t] # "read"
    PROVE  Counts([m EXCEPT ![t] = "read"], n + 1)
<1>1. ReadersOf([m EXCEPT ![t] = "read"]) = ReadersOf(m) \cup {t}
    BY DEF ReadersOf, AppTasks
<1>2. t \notin ReadersOf(m)
    BY DEF ReadersOf
<1> DEFINE before == ReadersOf(m)
           after == ReadersOf([m EXCEPT ![t] = "read"])
<1>3. IsFiniteSet(before) /\ n = Cardinality(before)
    BY DEF Counts
<1>4. after = before \cup {t} /\ t \notin before
    BY <1>1, <1>2
<1> HIDE DEF before, after
<1>5. IsFiniteSet(after) /\ Cardinality(after) = n + 1
    BY <1>3, <1>4, FS_AddElement
<1> QED
    BY <1>5 DEF Counts, after

LEMMA CountFalls ==
    ASSUME NEW m \in [Tasks -> Modes], NEW n, Counts(m, n),
           NEW t \in AppTasks, m[t] = "read", NEW other \in Modes, other # "read"
    PROVE  Counts([m EXCEPT ![t] = other], n - 1)
<1>1. ReadersOf([m EXCEPT ![t] = other]) = ReadersOf(m) \ {t}
    BY DEF ReadersOf, AppTasks
<1>2. t \in ReadersOf(m)
    BY DEF ReadersOf
<1> DEFINE before == ReadersOf(m)
           after == ReadersOf([m EXCEPT ![t] = other])
<1>3. IsFiniteSet(before) /\ n = Cardinality(before)
    BY DEF Counts
<1>4. after = before \ {t} /\ t \in before
    BY <1>1, <1>2
<1> HIDE DEF before, after
<1>5. IsFiniteSet(after) /\ Cardinality(after) = n - 1
    BY <1>3, <1>4, FS_RemoveElement
<1> QED
    BY <1>5 DEF Counts, after

LEMMA CountStays ==
    ASSUME NEW m \in [Tasks -> Modes], NEW n, Counts(m, n),
           NEW t \in AppTasks, m[t] # "read", NEW other \in Modes, other # "read"
    PROVE  Counts([m EXCEPT ![t] = other], n)
<1>1. ReadersOf([m EXCEPT ![t] = other]) = ReadersOf(m)
    BY DEF ReadersOf, AppTasks
<1> QED
    BY <1>1 DEF Counts

LEMMA NotATask == ASSUME NEW t \in AppTasks PROVE t # NoTask /\ t \in Tasks
    BY KernelAssumption DEF AppTasks

-----------------------------------------------------------------------------
(* The four things a step can do to the lock.                              *)

\* Nothing: the task waits, gives up, rests or is resumed.
LEMMA LeaveAlone ==
    ASSUME RwInv, UNCHANGED rwVars, NEW t \in AppTasks, NEW where,
           pc' = [pc EXCEPT ![t] = where],
           where \in LockingCalls => mode[t] = "none"
    PROVE  RwInv'
<1>1. FieldTypes' /\ CountRight' /\ WriterRight'
    BY DEF RwInv, FieldTypes, CountRight, WriterRight, rwVars
<1>2. CallersHoldNone'
    BY DEF RwInv, FieldTypes, CallersHoldNone, rwVars
<1> QED
    BY <1>1, <1>2 DEF RwInv

\* The task becomes a reader.
LEMMA ReadLockedInv ==
    ASSUME RwInv, NEW t \in AppTasks, mode[t] = "none", ~ReadBlocked, ReadLocked(t)
    PROVE  RwInv'
<1>1. /\ readers' = readers + 1 /\ mode' = [mode EXCEPT ![t] = "read"]
      /\ writer' = writer /\ writer = NoTask /\ pc' = [pc EXCEPT ![t] = "task"]
    BY DEF ReadLocked, ReadBlocked, RwReturn, Goto
<1>2. mode \in [Tasks -> Modes] /\ DOMAIN pc = Tasks /\ t \in Tasks
    BY NotATask DEF RwInv, FieldTypes
<1>3. FieldTypes'
    BY <1>1, <1>2 DEF FieldTypes, Modes
<1>4. CountRight'
    BY <1>1, <1>2, CountGrows DEF RwInv, CountRight
<1>5. WriterRight'
  <2>1. \A u \in AppTasks : mode[u] # "write"
      BY <1>1, NotATask DEF RwInv, WriterRight
  <2> QED
      BY <1>1, <1>2, <2>1 DEF WriterRight, AppTasks
<1>6. CallersHoldNone'
    BY <1>1, <1>2 DEF RwInv, CallersHoldNone, AppTasks, LockingCalls
<1> QED
    BY <1>3, <1>4, <1>5, <1>6 DEF RwInv

\* The task becomes the writer.
LEMMA WriteLockedInv ==
    ASSUME RwInv, NEW t \in AppTasks, mode[t] = "none", ~WriteBlocked(t), WriteLocked(t)
    PROVE  RwInv'
<1>1. /\ writer' = t /\ mode' = [mode EXCEPT ![t] = "write"]
      /\ readers' = readers /\ writer \in {NoTask, t} /\ ~(readers > 0)
      /\ pc' = [pc EXCEPT ![t] = "task"]
    BY DEF WriteLocked, WriteBlocked, RwReturn, Goto
<1>2. mode \in [Tasks -> Modes] /\ DOMAIN pc = Tasks /\ t \in Tasks
    BY NotATask DEF RwInv, FieldTypes
<1>3. FieldTypes'
    BY <1>1, <1>2 DEF FieldTypes, Modes
<1>4. CountRight'
    BY <1>1, <1>2, CountStays DEF RwInv, CountRight, Modes
<1>5. WriterRight'
  <2>1. readers = 0
      BY <1>1, CountIsNat DEF RwInv, CountRight
  <2>2. \A u \in AppTasks : mode[u] # "write"
      BY <1>1, NotATask DEF RwInv, WriterRight
  <2> QED
      BY <1>1, <1>2, <2>1, <2>2 DEF WriterRight, AppTasks
<1>6. CallersHoldNone'
    BY <1>1, <1>2 DEF RwInv, CallersHoldNone, AppTasks, LockingCalls
<1> QED
    BY <1>3, <1>4, <1>5, <1>6 DEF RwInv

\* The task lets go, and the lock may go on to a writer: only when the last
\* reader has left.
LEMMA UnlockInv ==
    ASSUME RwInv, NEW t \in AppTasks, gyros_rwlock_unlock(t)
    PROVE  RwInv'
<1>1. /\ mode[t] # "none" /\ mode' = [mode EXCEPT ![t] = "none"]
      /\ readers' = LeftReaders /\ writer' = NextWriter /\ pc' = pc
    BY DEF gyros_rwlock_unlock
<1>2. mode \in [Tasks -> Modes] /\ DOMAIN pc = Tasks /\ t \in Tasks /\ t # NoTask
    BY NotATask DEF RwInv, FieldTypes
<1>3. FieldTypes'
    BY <1>1, <1>2 DEF FieldTypes, Modes
<1>4. CallersHoldNone'
    BY <1>1, <1>2 DEF RwInv, CallersHoldNone
<1>5. writer' # NoTask => readers' = 0
    BY <1>1 DEF NextWriter, HandsOver
<1>6. CASE mode[t] = "read"
  <2>1. readers # 0
      BY <1>6, CountZero DEF RwInv, CountRight
  <2>2. writer = NoTask
      BY <2>1 DEF RwInv, WriterRight
  <2>3. readers' = readers - 1
      BY <1>1, <2>2 DEF LeftReaders
  <2>4. CountRight'
    <3>1. Counts(mode, readers) /\ "none" \in Modes /\ t \in AppTasks
        BY DEF RwInv, CountRight, Modes
    <3>2. Counts([mode EXCEPT ![t] = "none"], readers - 1)
        BY <1>2, <1>6, <3>1, CountFalls
    <3> QED
        BY <1>1, <2>3, <3>2 DEF CountRight
  <2>5. \A u \in AppTasks : mode[u] # "write"
      BY <2>2, NotATask DEF RwInv, WriterRight
  <2>6. WriterRight'
      BY <1>1, <1>2, <1>5, <2>5 DEF WriterRight, AppTasks
  <2> QED
      BY <1>3, <1>4, <2>4, <2>6 DEF RwInv
<1>7. CASE mode[t] = "write"
  <2>1. writer = t
      BY <1>7 DEF RwInv, WriterRight
  <2>2. readers' = readers
      BY <1>1, <1>2, <2>1 DEF LeftReaders
  <2>3. CountRight'
      BY <1>1, <1>2, <1>7, <2>2, CountStays DEF RwInv, CountRight, Modes
  <2>4. \A u \in AppTasks : mode[u] = "write" => u = t
      BY <2>1 DEF RwInv, WriterRight
  <2>5. WriterRight'
      BY <1>1, <1>2, <1>5, <2>4 DEF WriterRight, AppTasks
  <2> QED
      BY <1>3, <1>4, <2>3, <2>5 DEF RwInv
<1> QED
    BY <1>1, <1>2, <1>6, <1>7 DEF Modes

-----------------------------------------------------------------------------
(* Each turn of a lock loop does one of them.                              *)

LEMMA FailsInv ==
    ASSUME RwInv, NEW t \in AppTasks, Fails(t)
    PROVE  RwInv'
    BY LeaveAlone DEF Fails, RwReturn, Goto, LockingCalls

LEMMA BlockInv ==
    ASSUME RwInv, NEW t \in AppTasks, mode[t] = "none", NEW k, NEW l, NEW where,
           RwBlockIn(k, t, l, where)
    PROVE  RwInv'
    BY LeaveAlone DEF RwBlockIn, Goto

LEMMA ReadLoopsInv ==
    ASSUME RwInv, NEW t \in AppTasks, mode[t] = "none",
           ReadLoop(t) \/ \E timeout : ReadLoopUntil(t, timeout)
    PROVE  RwInv'
    BY ReadLockedInv, BlockInv, FailsInv DEF ReadLoop, ReadLoopUntil

LEMMA WriteLoopsInv ==
    ASSUME RwInv, NEW t \in AppTasks, mode[t] = "none",
           WriteLoop(t) \/ \E timeout : WriteLoopUntil(t, timeout)
    PROVE  RwInv'
    BY WriteLockedInv, BlockInv, FailsInv DEF WriteLoop, WriteLoopUntil

\* What a task does in a call after a wake-up.
LEMMA StepInv ==
    ASSUME RwInv, NEW t \in AppTasks, RwStep(t)
    PROVE  RwInv'
<1>1. mode[t] = "none"
    BY DEF RwInv, CallersHoldNone, RwStep, ReadWoken, WriteWoken, ReadUntilWoken,
           WriteUntilWoken, Continues, LockingCalls
<1>2. \/ Fails(t)
      \/ ReadLoop(t)
      \/ WriteLoop(t)
      \/ ReadLoopUntil(t, gyros.timeout[t])
      \/ WriteLoopUntil(t, gyros.timeout[t])
    BY DEF RwStep, ReadWoken, WriteWoken, ReadUntilWoken, WriteUntilWoken
<1> QED
    BY <1>1, <1>2, FailsInv, ReadLoopsInv, WriteLoopsInv

\* The calls of a task that holds nothing.
LEMMA CallInv ==
    ASSUME RwInv, NEW t \in AppTasks,
           \/ gyros_rwlock_try_rdlock(t)
           \/ gyros_rwlock_try_wrlock(t)
           \/ gyros_rwlock_rdlock(t)
           \/ gyros_rwlock_wrlock(t)
           \/ \E timeout :
                \/ gyros_rwlock_rdlock_until(t, timeout)
                \/ gyros_rwlock_wrlock_until(t, timeout)
    PROVE  RwInv'
<1>1. mode[t] = "none"
    BY DEF gyros_rwlock_try_rdlock, gyros_rwlock_try_wrlock, gyros_rwlock_rdlock,
           gyros_rwlock_wrlock, gyros_rwlock_rdlock_until, gyros_rwlock_wrlock_until, LockCalls
<1>2. CASE gyros_rwlock_try_rdlock(t)
    BY <1>1, <1>2, ReadLockedInv DEF gyros_rwlock_try_rdlock
<1>3. CASE gyros_rwlock_try_wrlock(t)
    BY <1>1, <1>3, WriteLockedInv DEF gyros_rwlock_try_wrlock
<1>4. CASE gyros_rwlock_rdlock(t) \/ \E timeout : gyros_rwlock_rdlock_until(t, timeout)
    BY <1>1, <1>4, ReadLoopsInv DEF gyros_rwlock_rdlock, gyros_rwlock_rdlock_until
<1>5. CASE gyros_rwlock_wrlock(t) \/ \E timeout : gyros_rwlock_wrlock_until(t, timeout)
    BY <1>1, <1>5, WriteLoopsInv DEF gyros_rwlock_wrlock, gyros_rwlock_wrlock_until
<1> QED
    BY <1>2, <1>3, <1>4, <1>5

LEMMA SurroundingsInv ==
    ASSUME RwInv,
           \/ RwTick
           \/ RwSwitch
           \/ UNCHANGED rwAll
           \/ \E t \in AppTasks : RwRest(t) \/ RwResume(t)
    PROVE  RwInv'
<1>1. CASE RwTick \/ RwSwitch \/ UNCHANGED rwAll
  <2>1. UNCHANGED <<pc, writer, readers, mode>>
      BY <1>1 DEF RwTick, RwSwitch, Tick, ContextSwitch, rwAll, rwVars
  <2> QED
      BY <2>1 DEF RwInv, FieldTypes, CountRight, WriterRight, CallersHoldNone
<1>2. ASSUME NEW t \in AppTasks, RwRest(t) \/ RwResume(t)
      PROVE  RwInv'
    BY <1>2, LeaveAlone DEF RwRest, RwResume, Rest, Resume, Goto, LockingCalls
<1> QED
    BY <1>1, <1>2

LEMMA RwInvInit == RwInit => RwInv
<1> SUFFICES ASSUME RwInit PROVE RwInv
    OBVIOUS
<1>1. ReadersOf(mode) = {}
    BY DEF RwInit, ReadersOf, AppTasks
<1>2. CountRight
    BY <1>1, FS_EmptySet DEF RwInit, CountRight, Counts
<1> QED
    BY <1>2 DEF RwInit, RwInv, FieldTypes, WriterRight, CallersHoldNone, Modes, AppTasks

LEMMA RwInvNext == RwInv /\ [RwNext]_rwAll => RwInv'
<1> SUFFICES ASSUME RwInv, [RwNext]_rwAll PROVE RwInv'
    OBVIOUS
<1>1. CASE \/ RwTick
           \/ RwSwitch
           \/ UNCHANGED rwAll
           \/ \E t \in AppTasks : RwRest(t) \/ RwResume(t)
    BY <1>1, SurroundingsInv
<1>2. ASSUME NEW t \in AppTasks,
             \/ gyros_rwlock_try_rdlock(t)
             \/ gyros_rwlock_try_wrlock(t)
             \/ gyros_rwlock_rdlock(t)
             \/ gyros_rwlock_wrlock(t)
             \/ \E delay \in 0..MaxDelay :
                  \/ gyros_rwlock_rdlock_until(t, Deadline(delay))
                  \/ gyros_rwlock_wrlock_until(t, Deadline(delay))
      PROVE  RwInv'
    BY <1>2, CallInv
<1>3. ASSUME NEW t \in AppTasks, gyros_rwlock_unlock(t)
      PROVE  RwInv'
    BY <1>3, UnlockInv
<1>4. ASSUME NEW t \in AppTasks, RwStep(t)
      PROVE  RwInv'
    BY <1>4, StepInv
<1> QED
    BY <1>1, <1>2, <1>3, <1>4, Zenon DEF RwNext

\* The count of readers is the number of tasks that read, a task that writes is
\* the writer, and then there are no readers.
THEOREM RwInvHolds == RwSpec => []RwInv
    BY RwInvInit, RwInvNext, PTL DEF RwSpec

\* A task that has locked for writing is the only one that has locked.
THEOREM WritersExclude == RwSpec => []RwExclusion
<1>1. RwInv => RwExclusion
  <2> SUFFICES ASSUME RwInv, NEW t \in AppTasks, NEW u \in AppTasks, t # u,
                      mode[t] = "write"
               PROVE  mode[u] = "none"
      BY DEF RwExclusion
  <2>1. writer = t /\ t # NoTask /\ readers = 0
      BY NotATask DEF RwInv, WriterRight
  <2>2. mode[u] # "read"
      BY <2>1, CountZero DEF RwInv, CountRight
  <2>3. mode[u] # "write"
      BY <2>1 DEF RwInv, WriterRight
  <2> QED
      BY <2>2, <2>3, NotATask DEF RwInv, FieldTypes, Modes
<1> QED
    BY <1>1, RwInvHolds, PTL
-----------------------------------------------------------------------------
(* Who sleeps, and who has been handed the lock.                           *)

ReadCalls == {"rdlock", "rdlock_until"}
WriteCalls == {"wrlock", "wrlock_until"}
UntilCalls == {"rdlock_until", "wrlock_until"}

\* A task sleeps in the list of the call it is in.
SleepsInCall(t) ==
    /\ gyros.main_list[t] = rd_task_list => pc[t] \in ReadCalls
    /\ gyros.main_list[t] = wr_task_list => pc[t] \in WriteCalls

\* Only a call with a timeout has one, and it has passed only once the task has
\* been woken.
TimeoutRight(t) ==
    /\ gyros.timed_out[t] => pc[t] \in UntilCalls /\ Runs(t)
    /\ t \in Elements(gyros.timeouts) => pc[t] \in UntilCalls

\* A task in a call for writing is woken by an unlock that makes it the writer,
\* or by its timeout.
WriterWaits(t) ==
    pc[t] \in WriteCalls /\ ~gyros.timed_out[t] =>
        gyros.main_list[t] = wr_task_list \/ (writer = t /\ Runs(t))

\* What HandedOver says of t.
WillTake(t) ==
    writer = t =>
        \/ mode[t] = "write"
        \/ pc[t] \in WriteCalls /\ Runs(t) /\ ~gyros.timed_out[t]

\* What NoSleeperAtFreeLock says of t.
NotForgotten(t) ==
    writer = NoTask /\ readers = 0 =>
        gyros.main_list[t] # rd_task_list /\ gyros.main_list[t] # wr_task_list

InPlace(t) ==
    SleepsInCall(t) /\ TimeoutRight(t) /\ WriterWaits(t) /\ WillTake(t) /\ NotForgotten(t)

SleepInv == ScheduleOK(gyros) /\ \A t \in AppTasks : InPlace(t)

LEMMA RwNames ==
    /\ rd_task_list \in Objects /\ wr_task_list \in Objects
    /\ rd_task_list # wr_task_list
    /\ Running # rd_task_list /\ Running # wr_task_list
    /\ NoList # rd_task_list /\ NoList # wr_task_list
    /\ \A t \in AppTasks : t \in Tasks /\ t # Idle /\ t # NoTask
    BY RwAssumption, ListNames, NotATask DEF ListIds, AppTasks

\* The state of a task that executes.
LEMMA ExecutingOne ==
    ASSUME SleepInv, NEW t \in AppTasks, Executing(t)
    PROVE  /\ Sound(gyros) /\ gyros.current = t /\ Runs(t)
           /\ t \in Tasks /\ t # Idle /\ t # NoTask
           /\ t \notin Elements(gyros.timeouts)
    BY CurrentIsHighest, RwNames DEF SleepInv, ScheduleOK, Executing, Runs

\* A writer that executes and is not to take the lock is not the writer.
LEMMA NotHanded ==
    ASSUME RwInv, SleepInv, NEW t \in AppTasks, mode[t] = "none",
           pc[t] \notin WriteCalls \/ gyros.timed_out[t] \/ WriteBlocked(t)
    PROVE  writer # t
<1> SUFFICES ASSUME writer = t PROVE FALSE
    OBVIOUS
<1>1. pc[t] \in WriteCalls /\ ~gyros.timed_out[t]
    BY DEF SleepInv, InPlace, WillTake
<1>2. readers = 0
    BY RwNames DEF RwInv, WriterRight
<1> QED
    BY <1>1, <1>2 DEF WriteBlocked

\* A step that leaves a task alone leaves it in place.
LEMMA StaysInPlace ==
    ASSUME NEW u \in AppTasks, InPlace(u),
           gyros'.main_list[u] = gyros.main_list[u],
           gyros'.timed_out[u] = gyros.timed_out[u],
           u \in Elements(gyros'.timeouts) => u \in Elements(gyros.timeouts),
           pc'[u] = pc[u], mode'[u] = mode[u],
           writer' = u <=> writer = u,
           writer' = NoTask /\ readers' = 0 => writer = NoTask /\ readers = 0
    PROVE  InPlace(u)'
    BY DEF InPlace, SleepsInCall, TimeoutRight, WriterWaits, WillTake, NotForgotten, Runs

-----------------------------------------------------------------------------
(* The steps.                                                              *)

\* The call of t returns.
LEMMA ReturnInPlace ==
    ASSUME RwInv, SleepInv, NEW t \in AppTasks, Executing(t), RwReturn(gyros, t),
           \A u \in AppTasks \ {t} : mode'[u] = mode[u] /\ (writer' = u <=> writer = u),
           writer' = t => mode'[t] = "write",
           writer' = NoTask /\ readers' = 0 => writer = NoTask /\ readers = 0
    PROVE  SleepInv'
<1>1. Forgotten(gyros, gyros', t)
    BY ExecutingOne, ForgetSound DEF RwReturn
<1>2. /\ gyros'.main_list = gyros.main_list /\ gyros'.timeouts = gyros.timeouts
      /\ gyros'.timed_out = [gyros.timed_out EXCEPT ![t] = FALSE]
      /\ ScheduleOK(gyros')
    BY <1>1 DEF Forgotten, SleepInv
<1>3. pc' = [pc EXCEPT ![t] = "task"] /\ DOMAIN pc = Tasks
    BY DEF RwReturn, Goto, RwInv, FieldTypes
<1>4. DOMAIN gyros.timed_out = Tasks
    BY DEF SleepInv, ScheduleOK, Sound, KernelOK, KernelStates
<1>5. ASSUME NEW u \in AppTasks, u # t
      PROVE  InPlace(u)'
  <2>1. pc'[u] = pc[u] /\ gyros'.timed_out[u] = gyros.timed_out[u]
      BY <1>2, <1>3, <1>4, <1>5, RwNames
  <2>2. InPlace(u)
      BY DEF SleepInv
  <2>3. mode'[u] = mode[u] /\ (writer' = u <=> writer = u)
      BY <1>5
  <2> QED
      BY <1>2, <2>1, <2>2, <2>3, StaysInPlace
<1>6. InPlace(t)'
  <2>1. pc'[t] = "task" /\ ~gyros'.timed_out[t]
      BY <1>2, <1>3, <1>4, RwNames
  <2>2. gyros'.main_list[t] = Running /\ t \notin Elements(gyros'.timeouts)
      BY <1>2, ExecutingOne DEF Runs
  <2> QED
      BY <2>1, <2>2, RwNames DEF InPlace, SleepsInCall, TimeoutRight, WriterWaits,
         WillTake, NotForgotten, Runs, WriteCalls
<1> QED
    BY <1>2, <1>5, <1>6 DEF SleepInv

LEMMA FailsInPlace ==
    ASSUME RwInv, SleepInv, NEW t \in AppTasks, Executing(t), Fails(t), writer # t
    PROVE  SleepInv'
    BY ReturnInPlace DEF Fails, rwVars

LEMMA ReadLockedInPlace ==
    ASSUME RwInv, SleepInv, NEW t \in AppTasks, Executing(t), ~ReadBlocked, ReadLocked(t)
    PROVE  SleepInv'
<1>1. /\ writer = NoTask /\ writer' = writer /\ readers' = readers + 1
      /\ mode' = [mode EXCEPT ![t] = "read"] /\ RwReturn(gyros, t)
    BY DEF ReadBlocked, ReadLocked
<1>2. readers \in Nat /\ mode \in [Tasks -> Modes]
    BY CountIsNat DEF RwInv, CountRight, FieldTypes
<1>3. \A u \in AppTasks \ {t} : mode'[u] = mode[u] /\ (writer' = u <=> writer = u)
    BY <1>1, <1>2, RwNames
<1>4. writer' # t /\ readers' # 0
    BY <1>1, <1>2, RwNames
<1> QED
    BY <1>1, <1>3, <1>4, ReturnInPlace

LEMMA WriteLockedInPlace ==
    ASSUME RwInv, SleepInv, NEW t \in AppTasks, Executing(t), ~WriteBlocked(t), WriteLocked(t)
    PROVE  SleepInv'
<1>1. /\ writer \in {NoTask, t} /\ writer' = t
      /\ mode' = [mode EXCEPT ![t] = "write"] /\ RwReturn(gyros, t)
    BY DEF WriteBlocked, WriteLocked
<1>2. mode \in [Tasks -> Modes] /\ t \in Tasks
    BY RwNames DEF RwInv, FieldTypes
<1>3. \A u \in AppTasks \ {t} : mode'[u] = mode[u] /\ (writer' = u <=> writer = u)
    BY <1>1, <1>2, RwNames
<1>4. writer' # NoTask /\ mode'[t] = "write"
    BY <1>1, <1>2, RwNames
<1> QED
    BY <1>1, <1>3, <1>4, ReturnInPlace

\* Whoever has to wait finds the lock taken.
LEMMA BlockedNotFree ==
    ASSUME RwInv, SleepInv, NEW t \in AppTasks, ReadBlocked \/ WriteBlocked(t)
    PROVE  writer # NoTask \/ readers # 0
<1>1. CASE writer # NoTask \/ readers > 0
    BY <1>1
<1>2. CASE Waiters(wr_task_list) # {}
  <2>1. PICK u \in Tasks : gyros.main_list[u] = wr_task_list
      BY <1>2, WaitersAre, RwNames, ListNames DEF Waiters, SleepInv, ScheduleOK, Sound
  <2>2. u \in AppTasks
      BY <2>1, RwNames DEF SleepInv, ScheduleOK, Sound, AppTasks
  <2> QED
      BY <2>1, <2>2 DEF SleepInv, InPlace, NotForgotten
<1> QED
    BY <1>1, <1>2 DEF ReadBlocked, WriteBlocked

\* t goes to sleep in l.
Sleeps(t, l, where) ==
    /\ UNCHANGED rwVars /\ Goto(t, where)
    /\ ScheduleOK(gyros')
    /\ gyros'.main_list = [gyros.main_list EXCEPT ![t] = l]
    /\ \A u \in AppTasks \ {t} : gyros'.timed_out[u] = gyros.timed_out[u]
    /\ ~gyros'.timed_out[t]
    /\ Elements(gyros'.timeouts) \subseteq Elements(gyros.timeouts) \cup {t}
    /\ t \in Elements(gyros'.timeouts) => where \in UntilCalls

LEMMA SleepsInPlace ==
    ASSUME RwInv, SleepInv, NEW t \in AppTasks,
           writer # NoTask \/ readers # 0, writer # t,
           NEW l, NEW where, Sleeps(t, l, where),
           \/ l = rd_task_list /\ where \in ReadCalls
           \/ l = wr_task_list /\ where \in WriteCalls
    PROVE  SleepInv'
<1>1. /\ writer' = writer /\ readers' = readers /\ mode' = mode
      /\ pc' = [pc EXCEPT ![t] = where] /\ DOMAIN pc = Tasks /\ t \in Tasks
      /\ DOMAIN gyros.main_list = Tasks
    BY RwNames DEF Sleeps, rwVars, Goto, RwInv, FieldTypes, SleepInv, ScheduleOK, Sound,
       KernelOK, KernelStates
<1>2. ASSUME NEW u \in AppTasks, u # t
      PROVE  InPlace(u)'
  <2>1. /\ pc'[u] = pc[u] /\ gyros'.main_list[u] = gyros.main_list[u]
        /\ gyros'.timed_out[u] = gyros.timed_out[u]
        /\ u \in Elements(gyros'.timeouts) => u \in Elements(gyros.timeouts)
      BY <1>1, <1>2, RwNames DEF Sleeps
  <2>2. InPlace(u)
      BY DEF SleepInv
  <2> QED
      BY <1>1, <2>1, <2>2, StaysInPlace
<1>3. InPlace(t)'
  <2>1. /\ pc'[t] = where /\ gyros'.main_list[t] = l /\ ~gyros'.timed_out[t]
        /\ t \in Elements(gyros'.timeouts) => where \in UntilCalls
      BY <1>1 DEF Sleeps
  <2> QED
      BY <1>1, <2>1, RwNames DEF InPlace, SleepsInCall, TimeoutRight, WriterWaits,
         WillTake, NotForgotten, Runs, ReadCalls, WriteCalls, UntilCalls
<1> QED
    BY <1>2, <1>3 DEF SleepInv, Sleeps

\* A wait without a timeout,
LEMMA BlockInPlace ==
    ASSUME RwInv, SleepInv, NEW t \in AppTasks, Executing(t), pc[t] \notin UntilCalls,
           NEW l \in {rd_task_list, wr_task_list}, NEW where, RwBlockIn(gyros, t, l, where)
    PROVE  Sleeps(t, l, where)
<1>1. /\ Sound(gyros) /\ gyros.current = t /\ t \in Tasks /\ t # Idle
      /\ t \notin Elements(gyros.timeouts) /\ l \in Objects
    BY ExecutingOne, RwNames
<1>2. Moved(gyros, gyros', t, l) /\ ScheduleOK(gyros') /\ gyros'.timeouts = gyros.timeouts
    BY <1>1, WaitSound DEF RwBlockIn
<1>3. ~gyros.timed_out[t]
    BY DEF SleepInv, InPlace, TimeoutRight
<1> QED
    BY <1>1, <1>2, <1>3 DEF Sleeps, RwBlockIn, Moved, SameTasks

\* and one with.
LEMMA BlockUntilInPlace ==
    ASSUME RwInv, SleepInv, NEW t \in AppTasks, Executing(t),
           NEW l \in {rd_task_list, wr_task_list}, NEW where \in UntilCalls,
           NEW timeout \in Time,
           RwBlockIn(gyros__task_set_timeout(gyros, timeout), t, l, where)
    PROVE  Sleeps(t, l, where)
<1>1. /\ Sound(gyros) /\ gyros.current = t /\ gyros.main_list[t] = Running
      /\ t \in Tasks /\ t # Idle /\ l \in Objects
    BY ExecutingOne, RwNames DEF Runs
<1>2. TimedWait(gyros, gyros', l, timeout)
    BY <1>1, WaitUntilSound DEF RwBlockIn
<1>3. DOMAIN gyros.timed_out = Tasks
    BY <1>1 DEF Sound, KernelOK, KernelStates
<1> QED
    BY <1>1, <1>2, <1>3, RwNames DEF Sleeps, RwBlockIn, TimedWait

\* One turn of each loop.
LEMMA ReadLoopInPlace ==
    ASSUME RwInv, SleepInv, NEW t \in AppTasks, Executing(t), mode[t] = "none",
           pc[t] \in {"task", "rdlock"}, ReadLoop(t)
    PROVE  SleepInv'
<1>1. CASE ReadBlocked
  <2>1. RwBlockIn(gyros, t, rd_task_list, "rdlock")
      BY <1>1 DEF ReadLoop
  <2>2. Sleeps(t, rd_task_list, "rdlock")
      BY <2>1, BlockInPlace DEF UntilCalls
  <2>3. writer # t
      BY NotHanded DEF WriteCalls
  <2> QED
      BY <1>1, <2>2, <2>3, BlockedNotFree, SleepsInPlace DEF ReadCalls
<1>2. CASE ~ReadBlocked
    BY <1>2, ReadLockedInPlace DEF ReadLoop
<1> QED
    BY <1>1, <1>2

LEMMA WriteLoopInPlace ==
    ASSUME RwInv, SleepInv, NEW t \in AppTasks, Executing(t), mode[t] = "none",
           pc[t] \in {"task", "wrlock"}, WriteLoop(t)
    PROVE  SleepInv'
<1>1. CASE WriteBlocked(t)
  <2>1. RwBlockIn(gyros, t, wr_task_list, "wrlock")
      BY <1>1 DEF WriteLoop
  <2>2. Sleeps(t, wr_task_list, "wrlock")
      BY <2>1, BlockInPlace DEF UntilCalls
  <2>3. writer # t
      BY <1>1, NotHanded
  <2> QED
      BY <1>1, <2>2, <2>3, BlockedNotFree, SleepsInPlace DEF WriteCalls
<1>2. CASE ~WriteBlocked(t)
    BY <1>2, WriteLockedInPlace DEF WriteLoop
<1> QED
    BY <1>1, <1>2

LEMMA ReadLoopUntilInPlace ==
    ASSUME RwInv, SleepInv, NEW t \in AppTasks, Executing(t), mode[t] = "none",
           pc[t] \in {"task", "rdlock_until"}, NEW timeout \in Time, ReadLoopUntil(t, timeout)
    PROVE  SleepInv'
<1>1. writer # t
    BY NotHanded DEF WriteCalls
<1>2. CASE ~ReadBlocked
    BY <1>2, ReadLockedInPlace DEF ReadLoopUntil
<1>3. CASE ReadBlocked /\ TimeoutReached(gyros, timeout)
    BY <1>1, <1>3, FailsInPlace DEF ReadLoopUntil
<1>4. CASE ReadBlocked /\ ~TimeoutReached(gyros, timeout)
  <2>1. RwBlockIn(gyros__task_set_timeout(gyros, timeout), t, rd_task_list, "rdlock_until")
      BY <1>4 DEF ReadLoopUntil
  <2>2. Sleeps(t, rd_task_list, "rdlock_until")
      BY <2>1, BlockUntilInPlace DEF UntilCalls
  <2> QED
      BY <1>1, <1>4, <2>2, BlockedNotFree, SleepsInPlace DEF ReadCalls
<1> QED
    BY <1>2, <1>3, <1>4

LEMMA WriteLoopUntilInPlace ==
    ASSUME RwInv, SleepInv, NEW t \in AppTasks, Executing(t), mode[t] = "none",
           NEW timeout \in Time, WriteLoopUntil(t, timeout)
    PROVE  SleepInv'
<1>1. CASE ~WriteBlocked(t)
    BY <1>1, WriteLockedInPlace DEF WriteLoopUntil
<1>2. WriteBlocked(t) => writer # t
    BY NotHanded
<1>3. CASE WriteBlocked(t) /\ TimeoutReached(gyros, timeout)
    BY <1>2, <1>3, FailsInPlace DEF WriteLoopUntil
<1>4. CASE WriteBlocked(t) /\ ~TimeoutReached(gyros, timeout)
  <2>1. RwBlockIn(gyros__task_set_timeout(gyros, timeout), t, wr_task_list, "wrlock_until")
      BY <1>4 DEF WriteLoopUntil
  <2>2. Sleeps(t, wr_task_list, "wrlock_until")
      BY <2>1, BlockUntilInPlace DEF UntilCalls
  <2> QED
      BY <1>2, <1>4, <2>2, BlockedNotFree, SleepsInPlace DEF WriteCalls
<1> QED
    BY <1>1, <1>3, <1>4

\* What t does in a call after a wake-up.
LEMMA StepInPlace ==
    ASSUME RwInv, SleepInv, NEW t \in AppTasks, RwStep(t)
    PROVE  SleepInv'
<1>1. mode[t] = "none" /\ Executing(t)
    BY DEF RwInv, CallersHoldNone, RwStep, ReadWoken, WriteWoken, ReadUntilWoken,
           WriteUntilWoken, Continues, LockingCalls
<1>2. gyros.timeout[t] \in Time
    BY RwNames DEF SleepInv, ScheduleOK, Sound, KernelOK, KernelStates
<1>3. CASE ReadWoken(t)
    BY <1>1, <1>3, ReadLoopInPlace DEF ReadWoken, Continues
<1>4. CASE WriteWoken(t)
    BY <1>1, <1>4, WriteLoopInPlace DEF WriteWoken, Continues
<1>5. gyros.timed_out[t] => writer # t
    BY <1>1, NotHanded
<1>6. CASE ReadUntilWoken(t)
    BY <1>1, <1>2, <1>5, <1>6, FailsInPlace, ReadLoopUntilInPlace DEF ReadUntilWoken, Continues
<1>7. CASE WriteUntilWoken(t)
    BY <1>1, <1>2, <1>5, <1>7, FailsInPlace, WriteLoopUntilInPlace DEF WriteUntilWoken
<1> QED
    BY <1>3, <1>4, <1>6, <1>7 DEF RwStep

LEMMA CallInPlace ==
    ASSUME RwInv, SleepInv, NEW t \in AppTasks,
           \/ gyros_rwlock_try_rdlock(t)
           \/ gyros_rwlock_try_wrlock(t)
           \/ gyros_rwlock_rdlock(t)
           \/ gyros_rwlock_wrlock(t)
           \/ \E timeout \in Time :
                \/ gyros_rwlock_rdlock_until(t, timeout)
                \/ gyros_rwlock_wrlock_until(t, timeout)
    PROVE  SleepInv'
<1>1. mode[t] = "none" /\ Executing(t) /\ pc[t] = "task"
    BY DEF gyros_rwlock_try_rdlock, gyros_rwlock_try_wrlock, gyros_rwlock_rdlock,
           gyros_rwlock_wrlock, gyros_rwlock_rdlock_until, gyros_rwlock_wrlock_until,
           LockCalls, Calls
<1>2. CASE gyros_rwlock_try_rdlock(t)
    BY <1>1, <1>2, ReadLockedInPlace DEF gyros_rwlock_try_rdlock
<1>3. CASE gyros_rwlock_try_wrlock(t)
    BY <1>1, <1>3, WriteLockedInPlace DEF gyros_rwlock_try_wrlock
<1>4. CASE gyros_rwlock_rdlock(t)
    BY <1>1, <1>4, ReadLoopInPlace DEF gyros_rwlock_rdlock
<1>5. CASE gyros_rwlock_wrlock(t)
    BY <1>1, <1>5, WriteLoopInPlace DEF gyros_rwlock_wrlock
<1>6. ASSUME NEW timeout \in Time,
             \/ gyros_rwlock_rdlock_until(t, timeout)
             \/ gyros_rwlock_wrlock_until(t, timeout)
      PROVE  SleepInv'
    BY <1>1, <1>6, ReadLoopUntilInPlace, WriteLoopUntilInPlace
       DEF gyros_rwlock_rdlock_until, gyros_rwlock_wrlock_until
<1> QED
    BY <1>2, <1>3, <1>4, <1>5, <1>6

\* A holder that unlocks is the only task the lock may stand for, and it is not
\* in a call.
LEMMA HolderAlone ==
    ASSUME RwInv, NEW t \in AppTasks, mode[t] # "none"
    PROVE  \A u \in AppTasks : u # t => writer # u
<1> SUFFICES ASSUME NEW u \in AppTasks, u # t, writer = u PROVE FALSE
    OBVIOUS
<1>1. readers = 0
    BY RwNames DEF RwInv, WriterRight
<1>2. mode[t] # "read"
    BY <1>1, CountZero DEF RwInv, CountRight
<1>3. mode[t] # "write"
    BY DEF RwInv, WriterRight
<1> QED
    BY <1>2, <1>3, RwNames DEF RwInv, FieldTypes, Modes

\* What an unlock does to the tasks: it wakes the first writer, all readers or
\* nobody.
WakesFirstWriter(w) ==
    /\ gyros.main_list[w] = wr_task_list
    /\ gyros'.main_list = [gyros.main_list EXCEPT ![w] = Running]
    /\ writer' = w

WakesReaders ==
    /\ \A u \in Tasks : gyros.main_list[u] # wr_task_list
    /\ \A u \in Tasks : gyros'.main_list[u] = IF gyros.main_list[u] = rd_task_list
                                              THEN Running ELSE gyros.main_list[u]
    /\ writer' = NoTask

WakesNobody ==
    /\ gyros'.main_list = gyros.main_list
    /\ writer' = NoTask /\ readers' # 0

UnlockKinds ==
    /\ ScheduleOK(gyros')
    /\ gyros'.timed_out = gyros.timed_out
    /\ Elements(gyros'.timeouts) \subseteq Elements(gyros.timeouts)
    /\ (\E w \in AppTasks : WakesFirstWriter(w)) \/ WakesReaders \/ WakesNobody

LEMMA UnlockWakes ==
    ASSUME SleepInv, NEW t \in AppTasks, gyros_rwlock_unlock(t)
    PROVE  UnlockKinds
<1>1. /\ Sound(gyros) /\ KernelOK(gyros) /\ wr_task_list \in ListIds
      /\ writer' = NextWriter /\ readers' = LeftReaders /\ gyros' = WakeNext
    BY RwNames, ListNames DEF SleepInv, ScheduleOK, Sound, gyros_rwlock_unlock
<1>2. Waiters(wr_task_list) = {u \in Tasks : gyros.main_list[u] = wr_task_list}
    BY <1>1, WaitersAre DEF Waiters
<1>3. CASE HandsOver
  <2> DEFINE w == FirstWriter
             m == gyros__task_wake(gyros, w)
  <2>1. w \in Tasks /\ gyros.main_list[w] = wr_task_list
    <3>1. gyros.lists[wr_task_list] # <<>>
        BY <1>3 DEF HandsOver, Waiters, Elements, ToSet
    <3> QED
        BY <1>1, <3>1, FirstIsHighest DEF FirstWriter
  <2>2. writer' = w /\ gyros' = gyros__cond_reschedule(m)
      BY <1>1, <1>3 DEF NextWriter, WakeNext
  <2> HIDE DEF w
  <2>3. w \in AppTasks
      BY <1>1, <2>1, RwNames DEF Sound, AppTasks
  <2>4. /\ Moved(gyros, m, w, Running)
        /\ Elements(m.timeouts) = Elements(gyros.timeouts) \ {w}
      BY <1>1, <2>1, WakeSound
  <2> HIDE DEF m
  <2>5. Scheduled(m, gyros')
      BY <2>2, <2>4, RescheduleSound DEF Moved
  <2>6. WakesFirstWriter(w)
      BY <2>1, <2>2, <2>4, <2>5 DEF WakesFirstWriter, Moved, Scheduled
  <2> QED
      BY <2>3, <2>4, <2>5, <2>6 DEF UnlockKinds, Moved, Scheduled, SameTasks
<1>4. CASE ~HandsOver /\ Waiters(wr_task_list) = {}
  <2> DEFINE m == WakeAllFromTail(gyros, rd_task_list)
  <2>1. writer' = NoTask /\ gyros' = gyros__cond_reschedule(m)
      BY <1>1, <1>4 DEF NextWriter, WakeNext
  <2>2. AllWoken(gyros, m, rd_task_list)
      BY <1>1, RwNames, WakeAllSound
  <2> HIDE DEF m
  <2>3. Scheduled(m, gyros')
      BY <2>1, <2>2, RescheduleSound DEF AllWoken
  <2>4. WakesReaders
      BY <1>2, <1>4, <2>1, <2>2, <2>3 DEF WakesReaders, AllWoken, Scheduled
  <2> QED
      BY <2>2, <2>3, <2>4 DEF UnlockKinds, AllWoken, Scheduled, SameTasks
<1>5. CASE ~HandsOver /\ Waiters(wr_task_list) # {}
  <2>1. writer' = NoTask /\ readers' # 0 /\ gyros' = gyros__cond_reschedule(gyros)
      BY <1>1, <1>5 DEF NextWriter, WakeNext, HandsOver
  <2>2. Scheduled(gyros, gyros')
      BY <1>1, <2>1, RescheduleSound
  <2> QED
      BY <2>1, <2>2 DEF UnlockKinds, WakesNobody, Scheduled, SameTasks
<1> QED
    BY <1>3, <1>4, <1>5

LEMMA UnlockInPlace ==
    ASSUME RwInv, SleepInv, NEW t \in AppTasks, gyros_rwlock_unlock(t)
    PROVE  SleepInv'
<1>1. /\ Executing(t) /\ pc[t] = "task" /\ mode[t] # "none" /\ pc' = pc
      /\ mode' = [mode EXCEPT ![t] = "none"] /\ mode \in [Tasks -> Modes]
    BY DEF gyros_rwlock_unlock, Calls, RwInv, FieldTypes
<1>2. UnlockKinds
    BY UnlockWakes
<1>3. /\ gyros.main_list[t] = Running /\ t \notin Elements(gyros.timeouts)
      /\ gyros.main_list \in [Tasks -> ListIds \cup {NoList}]
    BY <1>1, ExecutingOne DEF Runs, Sound, KernelOK, KernelStates
<1>4. ~gyros.timed_out[t]
    BY <1>1 DEF SleepInv, InPlace, TimeoutRight, UntilCalls
<1>5. \A u \in AppTasks : u # t => writer # u /\ mode'[u] = mode[u]
    BY <1>1, HolderAlone, RwNames
<1>6. ASSUME NEW w \in AppTasks, WakesFirstWriter(w), NEW u \in AppTasks
      PROVE  InPlace(u)'
  <2>1. writer' = w /\ w # NoTask /\ w # t
      BY <1>3, <1>6, RwNames DEF WakesFirstWriter
  <2>2. CASE u = t
    <3>1. gyros'.main_list[t] = Running
        BY <1>3, <1>6, <2>1, RwNames DEF WakesFirstWriter
    <3> QED
        BY <1>1, <1>2, <1>3, <1>4, <2>1, <2>2, <3>1, RwNames
           DEF UnlockKinds, InPlace, SleepsInCall, TimeoutRight, WriterWaits, WillTake,
               NotForgotten, WriteCalls
  <2>3. CASE u = w
    <3>1. InPlace(w) /\ gyros.main_list[w] = wr_task_list
        BY <1>6 DEF SleepInv, WakesFirstWriter
    <3>2. pc[w] \in WriteCalls /\ ~gyros.timed_out[w]
        BY <3>1, RwNames DEF InPlace, SleepsInCall, TimeoutRight, Runs
    <3>3. gyros'.main_list[w] = Running
        BY <1>3, <1>6, RwNames DEF WakesFirstWriter
    <3> QED
        BY <1>1, <1>2, <2>1, <2>3, <3>1, <3>2, <3>3, RwNames
           DEF UnlockKinds, InPlace, SleepsInCall, TimeoutRight, WriterWaits, WillTake,
               NotForgotten, Runs
  <2>4. CASE u # t /\ u # w
    <3>1. gyros'.main_list[u] = gyros.main_list[u]
        BY <1>3, <1>6, <2>4, RwNames DEF WakesFirstWriter
    <3>2. InPlace(u)
        BY DEF SleepInv
    <3> QED
        BY <1>1, <1>2, <1>5, <2>1, <2>4, <3>1, <3>2, StaysInPlace DEF UnlockKinds
  <2> QED
      BY <2>2, <2>3, <2>4
<1>7. ASSUME WakesReaders, NEW u \in AppTasks
      PROVE  InPlace(u)'
  <2>1. ~(pc[u] \in WriteCalls /\ ~gyros.timed_out[u])
    <3>1. InPlace(u) /\ u \in Tasks
        BY RwNames DEF SleepInv
    <3> QED
        BY <1>1, <1>5, <1>7, <3>1 DEF InPlace, WriterWaits, WakesReaders, WriteCalls
  <2>2. InPlace(u) /\ u \in Tasks /\ writer' # u
      BY <1>7, RwNames DEF SleepInv, WakesReaders
  <2> QED
      BY <1>1, <1>2, <1>7, <2>1, <2>2, RwNames
         DEF UnlockKinds, InPlace, SleepsInCall, TimeoutRight, WriterWaits, WillTake,
             NotForgotten, WakesReaders, Runs
<1>8. ASSUME WakesNobody, NEW u \in AppTasks
      PROVE  InPlace(u)'
  <2>1. writer' # u
      BY <1>8, RwNames DEF WakesNobody
  <2>2. InPlace(u)
      BY DEF SleepInv
  <2>3. CASE u = t
      BY <1>1, <1>2, <1>3, <1>4, <1>8, <2>1, <2>3, RwNames
         DEF UnlockKinds, InPlace, SleepsInCall, TimeoutRight, WriterWaits, WillTake,
             NotForgotten, WriteCalls, WakesNobody
  <2>4. CASE u # t
      BY <1>1, <1>2, <1>5, <1>8, <2>1, <2>2, <2>4, StaysInPlace DEF UnlockKinds, WakesNobody
  <2> QED
      BY <2>3, <2>4
<1> QED
    BY <1>2, <1>6, <1>7, <1>8 DEF UnlockKinds, SleepInv

-----------------------------------------------------------------------------
(* The surroundings.                                                       *)

LEMMA RestInPlace ==
    ASSUME RwInv, SleepInv, NEW t \in AppTasks, RwRest(t)
    PROVE  SleepInv'
<1> DEFINE n == RemoveTimeout(gyros__task_suspend(gyros, t), t)
<1>1. /\ Executing(t) /\ pc[t] = "task" /\ gyros' = gyros__reschedule(n)
      /\ pc' = [pc EXCEPT ![t] = "rest"] /\ DOMAIN pc = Tasks
      /\ writer' = writer /\ readers' = readers /\ mode' = mode
    BY DEF RwRest, Rest, Calls, Goto, rwVars, RwInv, FieldTypes
<1>2. Sound(gyros) /\ t \in Tasks /\ DOMAIN gyros.main_list = Tasks
    BY <1>1, ExecutingOne DEF Sound, KernelOK, KernelStates
<1>3. Moved(gyros, n, t, NoList) /\ Elements(n.timeouts) = Elements(gyros.timeouts) \ {t}
    BY <1>2, SuspendSound
<1> HIDE DEF n
<1>4. Scheduled(n, gyros')
    BY <1>1, <1>3, RescheduleSound DEF Moved
<1>5. /\ ScheduleOK(gyros')
      /\ gyros'.main_list = [gyros.main_list EXCEPT ![t] = NoList]
      /\ gyros'.timed_out = gyros.timed_out
      /\ Elements(gyros'.timeouts) = Elements(gyros.timeouts) \ {t}
    BY <1>3, <1>4 DEF Moved, Scheduled, SameTasks
<1>6. ASSUME NEW u \in AppTasks
      PROVE  InPlace(u)'
  <2>1. InPlace(u)
      BY DEF SleepInv
  <2>2. CASE u = t
      BY <1>1, <1>2, <1>5, <2>1, <2>2, RwNames
         DEF InPlace, SleepsInCall, TimeoutRight, WriterWaits, WillTake, NotForgotten,
             WriteCalls, UntilCalls
  <2>3. CASE u # t
    <3>1. gyros'.main_list[u] = gyros.main_list[u] /\ pc'[u] = pc[u]
        BY <1>1, <1>2, <1>5, <2>3, RwNames
    <3> QED
        BY <1>1, <1>5, <2>1, <3>1, StaysInPlace
  <2> QED
      BY <2>2, <2>3
<1> QED
    BY <1>5, <1>6 DEF SleepInv

LEMMA ResumeInPlace ==
    ASSUME RwInv, SleepInv, NEW t \in AppTasks, RwResume(t)
    PROVE  SleepInv'
<1> DEFINE n == gyros__task_move(gyros, t, Running)
<1>1. /\ pc[t] = "rest" /\ gyros' = gyros__cond_reschedule(n)
      /\ pc' = [pc EXCEPT ![t] = "task"] /\ DOMAIN pc = Tasks
      /\ writer' = writer /\ readers' = readers /\ mode' = mode
    BY DEF RwResume, Resume, Goto, rwVars, RwInv, FieldTypes
<1>2. /\ Sound(gyros) /\ t \in Tasks /\ DOMAIN gyros.main_list = Tasks
      /\ t \notin Elements(gyros.timeouts)
    BY <1>1, RwNames DEF SleepInv, ScheduleOK, Sound, KernelOK, KernelStates, InPlace,
       TimeoutRight, UntilCalls
<1>3. Moved(gyros, n, t, Running) /\ n.timeouts = gyros.timeouts
    BY <1>2, MoveSound
<1> HIDE DEF n
<1>4. Scheduled(n, gyros')
    BY <1>1, <1>3, RescheduleSound DEF Moved
<1>5. /\ ScheduleOK(gyros')
      /\ gyros'.main_list = [gyros.main_list EXCEPT ![t] = Running]
      /\ gyros'.timed_out = gyros.timed_out
      /\ gyros'.timeouts = gyros.timeouts
    BY <1>3, <1>4 DEF Moved, Scheduled, SameTasks
<1>6. ASSUME NEW u \in AppTasks
      PROVE  InPlace(u)'
  <2>1. InPlace(u)
      BY DEF SleepInv
  <2>2. CASE u = t
      BY <1>1, <1>2, <1>5, <2>1, <2>2, RwNames
         DEF InPlace, SleepsInCall, TimeoutRight, WriterWaits, WillTake, NotForgotten,
             WriteCalls, UntilCalls
  <2>3. CASE u # t
    <3>1. gyros'.main_list[u] = gyros.main_list[u] /\ pc'[u] = pc[u]
        BY <1>1, <1>2, <1>5, <2>3, RwNames
    <3> QED
        BY <1>1, <1>5, <2>1, <3>1, StaysInPlace
  <2> QED
      BY <2>2, <2>3
<1> QED
    BY <1>5, <1>6 DEF SleepInv

\* A tick takes a task that waits with a timeout from its list, and says so.
LEMMA TickInPlace ==
    ASSUME RwInv, SleepInv, RwTick
    PROVE  SleepInv'
<1>1. /\ gyros' = gyros__tick(gyros, (gyros.now + 1) % TimeRange) /\ pc' = pc
      /\ writer' = writer /\ readers' = readers /\ mode' = mode
    BY DEF RwTick, Tick, rwVars
<1>2. (gyros.now + 1) % TimeRange \in Time /\ ScheduleOK(gyros)
    BY LaterIsTime DEF SleepInv, ScheduleOK, Sound
<1>3. /\ ScheduleOK(gyros')
      /\ Elements(gyros'.timeouts) \subseteq Elements(gyros.timeouts)
      /\ \A u \in Tasks :
             \/ /\ gyros'.main_list[u] = gyros.main_list[u]
                /\ gyros'.timed_out[u] = gyros.timed_out[u]
             \/ /\ gyros'.main_list[u] = Running /\ gyros'.timed_out[u]
                /\ gyros.main_list[u] \in Objects
                /\ u \in Elements(gyros.timeouts) /\ u \notin Elements(gyros'.timeouts)
    BY <1>1, <1>2, TickSound
<1>4. ASSUME NEW u \in AppTasks
      PROVE  InPlace(u)'
  <2>1. InPlace(u) /\ u \in Tasks
      BY RwNames DEF SleepInv
  <2>2. CASE /\ gyros'.main_list[u] = gyros.main_list[u]
             /\ gyros'.timed_out[u] = gyros.timed_out[u]
      BY <1>1, <1>3, <2>1, <2>2, StaysInPlace
  <2>3. CASE /\ gyros'.main_list[u] = Running /\ gyros'.timed_out[u]
             /\ gyros.main_list[u] \in Objects
             /\ u \in Elements(gyros.timeouts) /\ u \notin Elements(gyros'.timeouts)
    <3>1. gyros.main_list[u] # Running
        BY <2>3, ListNames
    <3> QED
        BY <1>1, <2>1, <2>3, <3>1, RwNames
           DEF InPlace, SleepsInCall, TimeoutRight, WriterWaits, WillTake, NotForgotten, Runs
  <2> QED
      BY <1>3, <2>1, <2>2, <2>3
<1> QED
    BY <1>3, <1>4 DEF SleepInv

LEMMA SwitchInPlace ==
    ASSUME RwInv, SleepInv, RwSwitch
    PROVE  SleepInv'
<1>1. /\ gyros' = PendSV_Handler(gyros) /\ pc' = pc /\ Sound(gyros)
      /\ writer' = writer /\ readers' = readers /\ mode' = mode
    BY DEF RwSwitch, ContextSwitch, rwVars, SleepInv, ScheduleOK
<1>2. /\ ScheduleOK(gyros')
      /\ gyros' = [gyros EXCEPT !.current = Head(gyros.lists[Running]), !.pendsv = FALSE]
    BY <1>1, SwitchSound
<1>3. /\ gyros'.main_list = gyros.main_list /\ gyros'.timeouts = gyros.timeouts
      /\ gyros'.timed_out = gyros.timed_out
    BY <1>1, <1>2 DEF Sound, KernelOK, KernelStates
<1>4. ASSUME NEW u \in AppTasks
      PROVE  InPlace(u)'
    BY <1>1, <1>3, StaysInPlace DEF SleepInv
<1> QED
    BY <1>2, <1>4 DEF SleepInv

-----------------------------------------------------------------------------
(* The theorems about sleepers.                                            *)

LEMMA SleepInvInit == RwInit => SleepInv
<1> SUFFICES ASSUME RwInit PROVE SleepInv
    OBVIOUS
<1>1. /\ ScheduleOK(gyros) /\ gyros.main_list = [t \in Tasks |-> Running]
      /\ gyros.timeouts = <<>>
    BY StartedSound DEF RwInit
<1>2. gyros.timed_out = [t \in Tasks |-> FALSE]
    BY DEF RwInit, Started, KernelInit
<1>3. Elements(gyros.timeouts) = {}
    BY <1>1 DEF Elements, ToSet
<1> QED
    BY <1>1, <1>2, <1>3, RwNames
       DEF RwInit, SleepInv, InPlace, SleepsInCall, TimeoutRight, WriterWaits, WillTake,
           NotForgotten, WriteCalls

LEMMA DeadlineIsTime ==
    ASSUME SleepInv, NEW delay \in 0..MaxDelay
    PROVE  Deadline(delay) \in Time
    BY LaterIsTime, ServicesAssumption DEF SleepInv, ScheduleOK, Sound, Deadline

LEMMA SleepInvNext == RwInv /\ SleepInv /\ [RwNext]_rwAll => SleepInv'
<1> SUFFICES ASSUME RwInv, SleepInv, [RwNext]_rwAll PROVE SleepInv'
    OBVIOUS
<1>1. CASE RwTick
    BY <1>1, TickInPlace
<1>2. CASE RwSwitch
    BY <1>2, SwitchInPlace
<1>3. CASE UNCHANGED rwAll
  <2>1. gyros' = gyros /\ pc' = pc /\ writer' = writer /\ readers' = readers /\ mode' = mode
      BY <1>3 DEF rwAll, rwVars
  <2> QED
      BY <2>1 DEF SleepInv, InPlace, SleepsInCall, TimeoutRight, WriterWaits, WillTake,
         NotForgotten, Runs
<1>4. ASSUME NEW t \in AppTasks,
             \/ gyros_rwlock_try_rdlock(t)
             \/ gyros_rwlock_try_wrlock(t)
             \/ gyros_rwlock_rdlock(t)
             \/ gyros_rwlock_wrlock(t)
             \/ \E delay \in 0..MaxDelay :
                  \/ gyros_rwlock_rdlock_until(t, Deadline(delay))
                  \/ gyros_rwlock_wrlock_until(t, Deadline(delay))
      PROVE  SleepInv'
    BY <1>4, CallInPlace, DeadlineIsTime
<1>5. ASSUME NEW t \in AppTasks, gyros_rwlock_unlock(t) PROVE SleepInv'
    BY <1>5, UnlockInPlace
<1>6. ASSUME NEW t \in AppTasks, RwStep(t) PROVE SleepInv'
    BY <1>6, StepInPlace
<1>7. ASSUME NEW t \in AppTasks, RwRest(t) \/ RwResume(t) PROVE SleepInv'
    BY <1>7, RestInPlace, ResumeInPlace
<1> QED
    BY <1>1, <1>2, <1>3, <1>4, <1>5, <1>6, <1>7, Zenon DEF RwNext

\* Every task that sleeps is in the list of its call, every writer that sleeps
\* is woken as the writer or by its timeout, and the kernel state is right.
THEOREM SleepInvHolds == RwSpec => [](RwInv /\ SleepInv)
<1>1. RwInit => RwInv /\ SleepInv
    BY RwInvInit, SleepInvInit
<1>2. RwInv /\ SleepInv /\ [RwNext]_rwAll => (RwInv /\ SleepInv)'
    BY RwInvNext, SleepInvNext
<1> QED
    BY <1>1, <1>2, PTL DEF RwSpec

\* The lock is never handed to a task that will not take it.
THEOREM LockHandedOver == RwSpec => []HandedOver
<1>1. SleepInv => HandedOver
    BY DEF SleepInv, InPlace, WillTake, HandedOver, WriteCalls
<1> QED
    BY <1>1, SleepInvHolds, PTL

\* Nobody sleeps at a lock that is free.
THEOREM NobodySleepsAtFreeLock == RwSpec => []NoSleeperAtFreeLock
<1>1. SleepInv => NoSleeperAtFreeLock
  <2> SUFFICES ASSUME SleepInv, writer = NoTask, readers = 0, NEW u,
                      u \in Waiters(rd_task_list) \cup Waiters(wr_task_list)
               PROVE  FALSE
      BY DEF NoSleeperAtFreeLock
  <2>1. KernelOK(gyros) /\ gyros.main_list[Idle] = Running
      BY DEF SleepInv, ScheduleOK, Sound
  <2>2. /\ u \in Tasks
        /\ gyros.main_list[u] = rd_task_list \/ gyros.main_list[u] = wr_task_list
      BY <2>1, WaitersAre, RwNames, ListNames DEF Waiters
  <2>3. u \in AppTasks
      BY <2>1, <2>2, RwNames DEF AppTasks
  <2> QED
      BY <2>2, <2>3 DEF SleepInv, InPlace, NotForgotten
<1> QED
    BY <1>1, SleepInvHolds, PTL

\* While a writer waits, no task becomes a reader.
THEOREM WritersKeepReadersOut == RwSpec => ReadersKeepOut
<1> DEFINE Waits == \E t \in AppTasks : pc[t] \in {"wrlock", "wrlock_until"}
                                        /\ ~gyros.timed_out[t]
<1>1. RwInv /\ SleepInv /\ [RwNext]_rwAll => [Waits => readers' <= readers]_rwAll
  <2> SUFFICES ASSUME RwInv, SleepInv, RwNext, Waits PROVE readers' <= readers
      BY DEF rwAll
  <2>1. readers \in Nat
      BY CountIsNat DEF RwInv, CountRight
  <2>2. PICK w \in AppTasks : pc[w] \in WriteCalls /\ ~gyros.timed_out[w]
      BY DEF WriteCalls
  <2>3. ReadBlocked
    <3>1. InPlace(w) /\ w \in Tasks /\ w # NoTask
        BY RwNames DEF SleepInv
    <3>2. gyros.main_list[w] = wr_task_list => w \in Waiters(wr_task_list)
        BY <3>1, WaitersAre, RwNames, ListNames DEF Waiters, SleepInv, ScheduleOK, Sound
    <3> QED
        BY <2>2, <3>1, <3>2 DEF InPlace, WriterWaits, ReadBlocked
  <2>4. \A t : UNCHANGED rwVars \/ WriteLocked(t) => readers' = readers
      BY DEF rwVars, WriteLocked
  <2>5. \A t : readers' = LeftReaders => readers' <= readers
      BY <2>1 DEF LeftReaders
  <2>6. ASSUME NEW t \in AppTasks,
               \/ gyros_rwlock_try_rdlock(t)
               \/ gyros_rwlock_rdlock(t)
               \/ ReadWoken(t)
               \/ \E timeout : gyros_rwlock_rdlock_until(t, timeout)
               \/ ReadUntilWoken(t)
        PROVE  readers' = readers
      BY <2>3, <2>6 DEF gyros_rwlock_try_rdlock, gyros_rwlock_rdlock, ReadWoken,
         gyros_rwlock_rdlock_until, ReadUntilWoken, ReadLoop, ReadLoopUntil, RwBlockIn, Fails, rwVars
  <2>7. ASSUME NEW t \in AppTasks,
               \/ gyros_rwlock_try_wrlock(t)
               \/ gyros_rwlock_wrlock(t)
               \/ WriteWoken(t)
               \/ \E timeout : gyros_rwlock_wrlock_until(t, timeout)
               \/ WriteUntilWoken(t)
        PROVE  readers' = readers
      BY <2>4, <2>7 DEF gyros_rwlock_try_wrlock, gyros_rwlock_wrlock, WriteWoken,
         gyros_rwlock_wrlock_until, WriteUntilWoken, WriteLoop, WriteLoopUntil, RwBlockIn, Fails
  <2>8. ASSUME RwTick \/ RwSwitch \/ \E t \in AppTasks : RwRest(t) \/ RwResume(t)
        PROVE  readers' = readers
      BY <2>8 DEF RwTick, RwSwitch, RwRest, RwResume, rwVars
  <2>9. ASSUME NEW t \in AppTasks, gyros_rwlock_unlock(t)
        PROVE  readers' <= readers
      BY <2>5, <2>9 DEF gyros_rwlock_unlock
  <2>10. readers' = readers => readers' <= readers
      BY <2>1
  <2> QED
      BY <2>6, <2>7, <2>8, <2>9, <2>10, Zenon DEF RwNext, RwStep
<1> QED
    BY <1>1, SleepInvHolds, PTL DEF RwSpec, ReadersKeepOut

=============================================================================
