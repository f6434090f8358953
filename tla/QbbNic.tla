-------------------------------- MODULE QbbNic --------------------------------
(***************************************************************************)
(* The transmitter of a NIC with QCN enabled (QbbNetDevice on a node of    *)
(* type 0, BEgressQueue with one queue per flow): which flow sends next,   *)
(* how long a throttled flow has to wait, and who wakes the transmitter.   *)
(*                                                                         *)
(* Time is discrete and every time is kept relative to Now: an event is    *)
(* the time left until it runs, NoEvent if it is not scheduled; the code   *)
(* only compares m_nextAvail with Now, so times in the past are 0.  Due    *)
(* events run before time passes, in any order.  The link carries one byte *)
(* per unit of time.                                                       *)
(*                                                                         *)
(* The packets of a flow are numbered; its queue is next..produced-1 and   *)
(* its sending buffer base..produced-1.  The rate of a flow is m_bps       *)
(* divided by slow, which the DCQCN machine (module DcqcnRP) changes at    *)
(* any time.  The receiver, the switch and the application are open.       *)
(* L2BackToZero is off (module GoBackN has it) and the buffer holds all.   *)
(***************************************************************************)
EXTENDS Integers, FiniteSetsExt

CONSTANTS
    N,               \* flows 1..N; queue 0 holds ACKs, NACKs and CNPs
    Class,           \* m_findex_qindex_map
    Size, CtlSize,   \* bytes of a data packet and of a control packet
    Slowdowns,       \* values of m_bps / m_rate
    m_waitAck, m_chunk, m_waitAckTimer,
    m_pausetime,
    Far,             \* the literal 32767 s of the source: never reached
    MaxSeq,          \* bound: packets per flow
    MaxInputs        \* bound: control packets, PFC, ACKs, NACKs, rate changes

Flows  == 1..N
Queues == 0..N
Classes == {Class[f] : f \in Flows}

NoEvent == -1

ASSUME NicAssumption ==
    /\ N \in Nat \ {0} /\ Size \in Nat \ {0} /\ CtlSize \in Nat \ {0}
    /\ Class \in [Flows -> Nat]
    /\ Slowdowns \subseteq Nat \ {0}
    /\ m_waitAck \in BOOLEAN /\ m_chunk \in Nat /\ m_waitAckTimer \in Nat
    /\ m_pausetime \in Nat \ {0} /\ Far \in Nat
    /\ MaxSeq \in Nat /\ MaxInputs \in Nat

VARIABLES
    dev,     \* the device
    inputs,  \* inputs so far
    bypass,  \* history: data packets that overtook a flow that was ready
    idled    \* history: a NACK refilled a queue and left the transmitter READY

vars == <<dev, inputs, bypass, idled>>

Init ==
    /\ dev = [fcount |-> 1,
              produced |-> [i \in Queues |-> 0], base |-> [i \in Queues |-> 0],
              next |-> [i \in Queues |-> 0], seen |-> [i \in Queues |-> 0],
              bytes |-> [i \in Queues |-> 0],
              avail |-> [i \in Queues |-> 0], credits |-> [i \in Queues |-> 0],
              slow |-> [i \in Queues |-> 0],
              milestone |-> [i \in Queues |-> m_chunk],
              waiting |-> [i \in Queues |-> FALSE],
              retransmit |-> [i \in Queues |-> NoEvent],
              paused |-> [c \in Classes |-> FALSE],
              resumeEvt |-> [c \in Classes |-> NoEvent],
              rrlast |-> 0, cur |-> <<0, 0>>, tx |-> NoEvent, nextSend |-> NoEvent]
    /\ inputs = 0
    /\ bypass = [f \in Flows |-> 0]
    /\ idled = FALSE

-----------------------------------------------------------------------------
(* BEgressQueue::DoDequeueQCN *)

Backlogged(s) == {f \in 1..(s.fcount - 1) : s.next[f] < s.produced[f]}

\* Flows that may send now.
Ready(s) == {f \in Backlogged(s) : ~s.paused[Class[f]] /\ s.avail[f] = 0}

\* Mutant: the search starts from the first flow.
Turn_First(s, f) == f

\* How far the round robin is from flow f.
Turn(s, f) == (f - s.rrlast - 1) % s.fcount

\* The queue to serve, if any: control first, then the ready flows in turn.
DoDequeueQCN(s) ==
    IF \A i \in Queues : s.bytes[i] = 0 THEN {}
    ELSE IF s.next[0] < s.produced[0] THEN {0}
    ELSE LET ready == Ready(s) IN
         {f \in ready : \A g \in ready : Turn(s, f) <= Turn(s, g)}

-----------------------------------------------------------------------------
(* QbbNetDevice::DequeueAndTransmit on a NIC with QCN *)

\* Mutant: a packet that credits already paid for makes the due time negative.
CreditsDue_Negative(size, slow, credits) == slow * (size - credits)

\* Time the flow has to wait after this packet, less what its credits pay for.
CreditsDue(size, slow, credits) == Max({0, slow * (size - credits)})

\* Flows that may send share the credits of the packet, at their own rates
\* (nothing while the rate is not initialised); the sender's are reset.
\* Credits are kept in whole bytes, and beyond a packet they change nothing:
\* CreditsDue is 0 from there on.
DistributeCredits(s, c, due) ==
    [i \in Queues |->
        IF i = c THEN 0
        ELSE IF i < s.fcount /\ s.avail[i] = 0 /\ s.slow[i] > 0
             THEN Min({Size, s.credits[i] + due \div s.slow[i]})
             ELSE s.credits[i]]

\* The last packet of a message parks the flow until the ACK, or the timer.
StopsForAck(s, c) == m_waitAck /\ c # 0 /\ s.next[c] >= s.milestone[c] - 1

Transmit(s, c) ==
    LET size  == IF c = 0 THEN CtlSize ELSE Size
        slow  == Max({1, s.slow[c]})              \* late initialization
        due   == CreditsDue(size, slow, s.credits[c])
        stops == StopsForAck(s, c)
    IN  [s EXCEPT !.bytes[c] = @ - size,
                  !.next[c] = @ + 1,
                  !.rrlast = IF c = 0 THEN @ ELSE c,
                  !.slow[c] = slow,
                  !.credits = DistributeCredits(s, c, due),
                  !.avail[c] = IF stops THEN Far ELSE due,
                  !.retransmit[c] = IF stops /\ ~s.waiting[c] THEN m_waitAckTimer ELSE @,
                  !.waiting[c] = @ \/ stops,
                  !.cur = <<c, s.next[c]>>,
                  !.tx = size]

\* Mutant: a transmitter with nothing to send schedules nothing.
Reschedule_Never(s) == s

\* Nothing to send, perhaps because of the rates: wake up when the first queue
\* with bytes becomes available, unless a wake-up is already scheduled.
Reschedule(s) ==
    LET times == {s.avail[i] : i \in {j \in 0..(s.fcount - 1) : s.bytes[j] > 0}}
    IN  IF s.nextSend = NoEvent /\ times # {} /\ Min(times) > 0
        THEN [s EXCEPT !.nextSend = Min(times)]
        ELSE s

\* What a handler that leaves the device as s ends with; the histories follow.
DequeueAndTransmit(s) ==
    /\ \/ s.tx # NoEvent                          \* BUSY
          /\ dev' = s
       \/ s.tx = NoEvent
          /\ DoDequeueQCN(s) = {}
          /\ dev' = Reschedule(s)
       \/ s.tx = NoEvent
          /\ \E c \in DoDequeueQCN(s) : dev' = Transmit(s, c)
    /\ bypass' = [f \in Flows |->
                    IF s.tx # NoEvent \/ dev'.cur[1] = 0 THEN bypass[f]
                    ELSE IF f # dev'.cur[1] /\ f \in Ready(s) THEN bypass[f] + 1
                    ELSE 0]
    /\ idled' = FALSE

-----------------------------------------------------------------------------
(* The handlers *)

Input ==
    /\ inputs < MaxInputs
    /\ inputs' = inputs + 1

\* QbbNetDevice::Send: a data packet of flow f; the first one creates the flow.
Send(f) ==
    /\ f <= dev.fcount
    /\ dev.produced[f] < MaxSeq
    /\ DequeueAndTransmit([dev EXCEPT !.fcount = Max({@, f + 1}),
                                  !.produced[f] = @ + 1,
                                  !.bytes[f] = @ + Size])
    /\ UNCHANGED inputs

\* The receiving side of the NIC answers with an ACK, a NACK or a CNP.
SendControl ==
    /\ Input
    /\ DequeueAndTransmit([dev EXCEPT !.produced[0] = @ + 1, !.bytes[0] = @ + CtlSize])

\* The packet has left: the network may answer it from now on.
TransmitComplete ==
    /\ dev.tx = 0
    /\ DequeueAndTransmit([dev EXCEPT !.tx = NoEvent,
                                      !.cur = <<0, 0>>,
                                      !.seen[dev.cur[1]] = Max({@, dev.cur[2] + 1})])
    /\ UNCHANGED inputs

\* m_nextSend
NextSend ==
    /\ dev.nextSend = 0
    /\ DequeueAndTransmit([dev EXCEPT !.nextSend = NoEvent])
    /\ UNCHANGED inputs

\* Mutant: the bytes that were still queued stay counted.
RecoverQueue_KeepsBytes(s, f) ==
    [s EXCEPT !.next[f] = s.base[f],
              !.bytes[f] = @ + Size * (s.produced[f] - s.base[f])]

\* BEgressQueue::RecoverQueue: the queue is cleared, then refilled from the
\* sending buffer.
RecoverQueue(s, f) ==
    LET cleared == [s EXCEPT !.bytes[f] = @ - Size * (s.produced[f] - s.next[f])]
    IN  [cleared EXCEPT !.next[f] = s.base[f],
                        !.bytes[f] = @ + Size * (s.produced[f] - s.base[f])]

\* The flow may send again at once, and its timer is off.
Release(s, f) ==
    [s EXCEPT !.avail[f] = 0, !.retransmit[f] = NoEvent, !.waiting[f] = FALSE]

\* The ACK has not come in time: the flow sends its buffer again.
Retransmit(f) ==
    /\ dev.retransmit[f] = 0
    /\ DequeueAndTransmit(Release(RecoverQueue(dev, f), f))
    /\ UNCHANGED inputs

\* A PFC frame with a time pauses the class and restarts its timer.
ReceivePause(c) ==
    /\ Input
    /\ dev' = [dev EXCEPT !.paused[c] = TRUE, !.resumeEvt[c] = m_pausetime]
    /\ UNCHANGED <<bypass, idled>>

\* Mutant: resuming a class does not restart the transmitter.
Resume_Quiet(s, c) ==
    /\ dev' = [s EXCEPT !.paused[c] = FALSE, !.resumeEvt[c] = NoEvent]
    /\ UNCHANGED <<bypass, idled>>

Resume(s, c) ==
    DequeueAndTransmit([s EXCEPT !.paused[c] = FALSE, !.resumeEvt[c] = NoEvent])

\* A PFC frame of time 0 resumes, paused or not.
ReceiveResume(c) ==
    /\ Input
    /\ Resume(dev, c)

PauseFinish(c) ==
    /\ dev.resumeEvt[c] = 0
    /\ Resume(dev, c)
    /\ UNCHANGED inputs

Trim(s, f, seq) == [s EXCEPT !.base[f] = Max({@, seq})]

\* An ACK of the packets below seq releases a message that is complete.
\* A packet of an earlier transmission may still be queued: the ACK trims the
\* sending buffer, never the queue.
ReceiveACK(f, seq) ==
    /\ seq \in (dev.base[f] + 1)..dev.seen[f]
    /\ Input
    /\ LET s == Trim(dev, f, seq)
       IN  IF m_waitAck /\ seq >= s.milestone[f]
           THEN DequeueAndTransmit([Release(s, f) EXCEPT !.milestone[f] = @ + m_chunk])
           ELSE dev' = s /\ UNCHANGED <<bypass, idled>>

\* A NACK asks for seq: the queue is refilled, but only a flow that waits for
\* an ACK restarts the transmitter.
ReceiveNACK(f, seq) ==
    /\ seq \in dev.base[f]..(dev.seen[f] - 2)
    /\ Input
    /\ LET s == RecoverQueue(Trim(dev, f, seq), f)
       IN  IF m_waitAck /\ s.waiting[f]
           THEN DequeueAndTransmit(Release(s, f))
           ELSE /\ dev' = s
                /\ idled' = (s.tx = NoEvent)
                /\ UNCHANGED bypass

\* The reaction point changes the rate of a flow that has sent.
SetRate(f, v) ==
    /\ dev.slow[f] \notin {0, v}
    /\ Input
    /\ dev' = [dev EXCEPT !.slow[f] = v]
    /\ UNCHANGED <<bypass, idled>>

Events == {dev.tx, dev.nextSend} \cup {dev.retransmit[i] : i \in Queues}
            \cup {dev.resumeEvt[c] : c \in Classes}

\* Time passes once every event that is due has run.
Tick ==
    LET Before(t) == IF t \in {NoEvent, 0, Far} THEN t ELSE t - 1
    IN  /\ 0 \notin Events
        /\ dev' = [dev EXCEPT !.tx = Before(@), !.nextSend = Before(@),
                              !.retransmit = [i \in Queues |-> Before(@[i])],
                              !.resumeEvt = [c \in Classes |-> Before(@[c])],
                              !.avail = [i \in Queues |-> Before(@[i])]]
        /\ UNCHANGED <<inputs, bypass, idled>>

\* What the simulator runs by itself.
Internal ==
    \/ TransmitComplete
    \/ NextSend
    \/ \E f \in Flows : Retransmit(f)
    \/ \E c \in Classes : PauseFinish(c)
    \/ Tick

Next ==
    \/ Internal
    \/ SendControl
    \/ \E f \in Flows : Send(f)
    \/ \E c \in Classes : ReceivePause(c) \/ ReceiveResume(c)
    \/ \E f \in Flows, seq \in 0..MaxSeq : ReceiveACK(f, seq) \/ ReceiveNACK(f, seq)
    \/ \E f \in Flows, v \in Slowdowns : SetRate(f, v)

Spec == Init /\ [][Next]_vars

\* The simulator runs every event it has scheduled, when its time comes.
FairSpec == Spec /\ WF_vars(Internal)

-----------------------------------------------------------------------------
(* Properties *)

Timer(max) == -1..max

Device ==
    [fcount : 1..(N + 1),
     produced : [Queues -> Nat], base : [Queues -> Nat],
     next : [Queues -> Nat], seen : [Queues -> Nat], bytes : [Queues -> Nat],
     avail : [Queues -> Nat], credits : [Queues -> 0..Size], slow : [Queues -> Nat],
     milestone : [Queues -> Nat],
     waiting : [Queues -> BOOLEAN], retransmit : [Queues -> Timer(m_waitAckTimer)],
     paused : [Classes -> BOOLEAN], resumeEvt : [Classes -> Timer(m_pausetime)],
     rrlast : 0..N, cur : Queues \X Nat,
     tx : Timer(Max({Size, CtlSize})), nextSend : Nat \cup {NoEvent}]

TypeOK ==
    /\ dev \in Device
    /\ inputs \in 0..MaxInputs /\ bypass \in [Flows -> Nat] /\ idled \in BOOLEAN

\* m_bytesInQueue[f] is the size of what the queue holds, through every
\* combination of Send, dequeue and RecoverQueue.  DoDequeueQCN and the wake-up
\* of DequeueAndTransmit both trust it: a wrong count stops the flow for ever or
\* keeps waking an empty queue.
QueueBytesExact ==
    /\ dev.bytes[0] = CtlSize * (dev.produced[0] - dev.next[0])
    /\ \A f \in Flows : dev.bytes[f] = Size * (dev.produced[f] - dev.next[f])

\* An idle transmitter with packets to send has an event pending that calls
\* DequeueAndTransmit again: m_nextSend, a retransmission timer or the end of a
\* pause.  The exception is a NACK for a flow that does not wait for an ACK.
WakeupExists ==
    dev.tx = NoEvent /\ Backlogged(dev) # {} /\ ~idled =>
        Events # {NoEvent}

\* The round robin of DoDequeueQCN: while a flow may send, every other flow
\* overtakes it at most once.
BoundedBypass == \A f \in Flows : bypass[f] <= Max({0, dev.fcount - 2})

\* A flow with packets to send puts one on the wire.  The exceptions are the
\* NACK that restarts nothing, and m_nextSend still parked at the 32767 s
\* at which some flow stopped for an ACK (see StoppedUntilAcked).
Served ==
    \A f \in Flows :
        f \in Backlogged(dev) ~> \/ dev.cur[1] = f
                                 \/ idled
                                 \/ dev.nextSend = Far /\ dev.avail[f] < Far

\* "stop sending this flow until acked" (DequeueAndTransmit): the stop ends
\* with the ACK, and a flow that does not wait for an ACK is never stopped.
StoppedUntilAcked ==
    \A f \in Flows :
        f \in Backlogged(dev) /\ ~dev.waiting[f] ~> dev.cur[1] = f \/ idled
=============================================================================
