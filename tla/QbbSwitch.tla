------------------------------ MODULE QbbSwitch ------------------------------
(***************************************************************************)
(* One switch of the simulated network: the QbbNetDevices of a node of     *)
(* type 1, the BEgressQueue of each device and the BroadcomNode they       *)
(* share (qbb-net-device.cc, broadcom-egress-queue.cc, broadcom-node.cc).  *)
(*                                                                         *)
(* The simulator runs one event handler at a time, so every handler is one *)
(* action.  A handler that calls other handlers is the composition of      *)
(* their operators: Send of a data packet admits it, charges the counters, *)
(* queues it, lets an idle transmitter dequeue, and then checks whether    *)
(* PAUSE or RESUME frames must go back to the ingress device.              *)
(*                                                                         *)
(* Time is abstracted to the order of events: a scheduled event may fire   *)
(* whenever it is pending.  The CheckQueueFull events of a device are      *)
(* Booleans, TRUE while pending; its PauseFinish events are counted, since *)
(* nothing but the Cancel before each Schedule keeps them apart.  The      *)
(* neighbours are an open environment: data packets, transit control       *)
(* frames and PAUSE frames arrive at any time.                             *)
(*                                                                         *)
(* Queue qCnt-1 of a device (PFC, CNP and NACK frames) is the variable     *)
(* control; m_queues holds the queues of the data classes.  A device is    *)
(* BUSY exactly while it has a m_currentPkt.                               *)
(***************************************************************************)
EXTENDS BroadcomNode, Sequences, FiniteSetsExt

CONSTANTS
    Sizes,        \* the packet sizes that occur, in bytes
    MaxSize,      \* the largest of them
    Routes,       \* the <<ingress, egress>> pairs the routing produces
    Pausers,      \* the devices whose neighbour sends PAUSE frames
    Transits,     \* the devices through which CNP and NACK frames are routed
    m_qcnEnabled, \* ENABLE_QCN: mark packets
    MaxQueue,     \* bound: packets per data queue
    MaxControl    \* bound: frames in a control queue when a handler runs

VARIABLES
    ingress, egress,  \* the counters of the BroadcomNode
    m_pause_remote,   \* [Ports -> [PGs -> BOOLEAN]], a field of BroadcomNode
    m_queues,         \* [Ports -> [PGs -> Seq([inDev, size])]]
    m_bytesInQueue,   \* [Ports -> [PGs -> Word]]
    control,          \* [Ports -> Seq(Frame)], queue qCnt-1
    m_rrlast,         \* last class served by the round robin
    m_currentPkt,     \* frame being transmitted, or NoPacket
    m_paused,         \* [Ports -> [PGs -> BOOLEAN]]
    m_resumeEvt,      \* [Ports -> [PGs -> Nat]], pending PauseFinish events
    m_recheckEvt      \* pending CheckQueueFull events: device, inDev, class

ASSUME SizeAssumption == MaxSize \in Nat \ {0} /\ Sizes \subseteq 1..MaxSize

(***************************************************************************)
(* Each limit, a guarantee and one more packet fit in a uint32_t.  The     *)
(* constructor's limits are 9000000 and 1030 and a packet is about 1100    *)
(* bytes, against 2^32.                                                    *)
(***************************************************************************)
ASSUME RoomAssumption ==
    /\ m_op_uc_port_config1_cell + m_q_min_cell + MaxSize < W
    /\ m_op_uc_port_config1_cell + Cell + MaxSize < W
    /\ m_maxBufferBytes + MaxSize < W
    /\ m_op_uc_port_config_cell + MaxSize < W
    /\ m_op_buffer_shared_limit_cell + MaxSize < W

ASSUME RouteAssumption ==
    Routes \subseteq Ports \X Ports /\ Pausers \subseteq Ports /\ Transits \subseteq Ports

mmuVars   == <<ingress, egress, m_pause_remote>>
queueVars == <<m_queues, m_bytesInQueue, control, m_rrlast, m_currentPkt>>
pfcVars   == <<m_paused, m_resumeEvt, m_recheckEvt>>
vars      == <<mmuVars, queueVars, pfcVars>>

-----------------------------------------------------------------------------
Packet == [inDev : Ports, size : Sizes]

Classes == 0..(qCnt - 1)

\* What goes on the wire: a class, what kind of frame it is and its CE mark.
Frame == [kind : {"DATA", "PAUSE", "RESUME", "TRANSIT"}, class : Classes, ce : BOOLEAN]

NoPacket == [kind |-> "NONE"]

ControlFrame(kind, class) == [kind |-> kind, class |-> class, ce |-> FALSE]

\* "No queue can be served": the 0 that DequeueRR returns.
None == qCnt

TypeOK ==
    /\ ingress \in IngressCounters
    /\ egress \in EgressCounters
    /\ m_pause_remote \in [Ports -> [PGs -> BOOLEAN]]
    /\ m_queues \in [Ports -> [PGs -> Seq(Packet)]]
    /\ m_bytesInQueue \in [Ports -> [PGs -> Word]]
    /\ control \in [Ports -> Seq(Frame)]
    /\ m_rrlast \in [Ports -> Classes]
    /\ m_currentPkt \in [Ports -> Frame \union {NoPacket}]
    /\ m_paused \in [Ports -> [PGs -> BOOLEAN]]
    /\ m_resumeEvt \in [Ports -> [PGs -> Nat]]
    /\ m_recheckEvt \in [Ports -> [Ports -> [PGs -> BOOLEAN]]]

Init ==
    /\ ingress = EmptyIngress
    /\ egress = EmptyEgress
    /\ m_pause_remote = [p \in Ports |-> [q \in PGs |-> FALSE]]
    /\ m_queues = [p \in Ports |-> [q \in PGs |-> <<>>]]
    /\ m_bytesInQueue = [p \in Ports |-> [q \in PGs |-> 0]]
    /\ control = [p \in Ports |-> <<>>]
    /\ m_rrlast = [p \in Ports |-> 0]
    /\ m_currentPkt = [p \in Ports |-> NoPacket]
    /\ m_paused = [p \in Ports |-> [q \in PGs |-> FALSE]]
    /\ m_resumeEvt = [p \in Ports |-> [q \in PGs |-> 0]]
    /\ m_recheckEvt = [p \in Ports |-> [i \in Ports |-> [q \in PGs |-> FALSE]]]

-----------------------------------------------------------------------------
(* The switch scheduler, BEgressQueue::DoDequeueRR.  lag is the set of     *)
(* classes whose guaranteed bandwidth is behind, m_bwsatisfied[q] < Now(); *)
(* which ones are is a matter of time, so lag is chosen by the caller.     *)
(* The strict loop over the lagging classes does not look at paused.       *)

RoundRobin(queues, paused, last) ==
    LET ready == {q \in PGs : ~paused[q] /\ queues[q] # <<>>}
        dist(q) == IF q > last THEN q - last ELSE q - last + qCnt
    IN  IF ready = {} THEN None
        ELSE CHOOSE q \in ready : \A r \in ready : dist(q) <= dist(r)

DoDequeueRR(queues, ctl, paused, last, lag) ==
    LET behind == {q \in lag : queues[q] # <<>>}
    IN  IF ctl # <<>> THEN qCnt - 1
        ELSE IF behind # {} THEN Max(behind)
        ELSE RoundRobin(queues, paused, last)

(***************************************************************************)
(* What a handler works on: the counters, the queues and the transmitters. *)
(* The operators below take such a record to the next one.                 *)
(***************************************************************************)
Current ==
    [in |-> ingress, out |-> egress, qs |-> m_queues, bytes |-> m_bytesInQueue,
     ctl |-> control, cur |-> m_currentPkt]

Become(s) ==
    /\ ingress' = s.in
    /\ egress' = s.out
    /\ m_queues' = s.qs
    /\ m_bytesInQueue' = s.bytes
    /\ control' = s.ctl
    /\ m_currentPkt' = s.cur

\* The class DequeueAndTransmit serves at device p: none while p is BUSY.
Served(s, p, paused, lag) ==
    IF s.cur[p] # NoPacket THEN None
    ELSE DoDequeueRR(s.qs[p], s.ctl[p], paused[p], m_rrlast[p], lag)

(***************************************************************************)
(* The rest of DequeueAndTransmit, for the class c the scheduler chose.    *)
(* The head of a data queue is released from the counters as it goes on    *)
(* the wire; a control frame was never charged.                            *)
(***************************************************************************)
TransmitControl(s, p) ==
    [in |-> s.in, out |-> s.out, qs |-> s.qs, bytes |-> s.bytes,
     ctl |-> [s.ctl EXCEPT ![p] = Tail(@)],
     cur |-> [s.cur EXCEPT ![p] = Head(s.ctl[p])]]

\* Mutant: the ingress counters of the egress device are released.
TransmitData_WrongDevice(s, p, c, ce) ==
    LET pkt == Head(s.qs[p][c])
    IN  [in    |-> RemoveFromIngressAdmission(s.in, p, c, pkt.size),
         out   |-> RemoveFromEgressAdmission(s.out, p, c, pkt.size),
         qs    |-> [s.qs EXCEPT ![p][c] = Tail(@)],
         bytes |-> [s.bytes EXCEPT ![p][c] = Sub(@, pkt.size)],
         ctl   |-> s.ctl,
         cur   |-> [s.cur EXCEPT ![p] = [kind |-> "DATA", class |-> c, ce |-> ce]]]

TransmitData(s, p, c, ce) ==
    LET pkt == Head(s.qs[p][c])
    IN  [in    |-> RemoveFromIngressAdmission(s.in, pkt.inDev, c, pkt.size),
         out   |-> RemoveFromEgressAdmission(s.out, p, c, pkt.size),
         qs    |-> [s.qs EXCEPT ![p][c] = Tail(@)],
         bytes |-> [s.bytes EXCEPT ![p][c] = Sub(@, pkt.size)],
         ctl   |-> s.ctl,
         cur   |-> [s.cur EXCEPT ![p] = [kind |-> "DATA", class |-> c, ce |-> ce]]]

Transmit(s, p, c, ce) ==
    IF c = None THEN s
    ELSE IF c = qCnt - 1 THEN TransmitControl(s, p)
    ELSE TransmitData(s, p, c, ce)

\* The ECN decision is taken after the counters are released.
Marks(s, p, c) ==
    IF m_qcnEnabled /\ c \in PGs
      THEN ShouldSendCN(TransmitData(s, p, c, FALSE).out, p, c)
      ELSE {FALSE}

\* Queue qCnt-1 leaves m_rrlast alone.
Last(p, c) == IF c \in PGs THEN [m_rrlast EXCEPT ![p] = c] ELSE m_rrlast

\* A handler that ends by calling DequeueAndTransmit of device p in state s.
DequeueAndTransmit(s, p, paused) ==
    \E lag \in SUBSET PGs :
      LET c == Served(s, p, paused, lag)
      IN  \E ce \in Marks(s, p, c) :
            /\ Become(Transmit(s, p, c, ce))
            /\ m_rrlast' = Last(p, c)

-----------------------------------------------------------------------------
(***************************************************************************)
(* CheckQueueFull of device p for ingress device i and class q: a PAUSE    *)
(* frame to i for every class GetPauseClasses returns, then the ON-OFF     *)
(* loop.  That loop tests m_pause_remote of class q for every j and clears *)
(* it with the first RESUME it sends, so exactly one RESUME leaves, for    *)
(* class 0.  Each frame is Sent by device i, whose transmitter takes the   *)
(* first one if it is idle.  m_recheckEvt is pending afterwards if it was  *)
(* or if a PAUSE was sent, unless a RESUME cancels it.                     *)
(***************************************************************************)
ResumeClass(q) == 0

PauseFrames(pauses) ==
    LET f(j) == IF j \in pauses THEN <<ControlFrame("PAUSE", j)>> ELSE <<>>
    IN  f(0) \o f(1) \o f(2) \o f(3) \o f(4) \o f(5) \o f(6) \o f(7)

SendFrames(s, i, frames) ==
    LET queue  == s.ctl[i] \o frames
        starts == frames # <<>> /\ s.cur[i] = NoPacket
    IN  [in |-> s.in, out |-> s.out, qs |-> s.qs, bytes |-> s.bytes,
         ctl |-> [s.ctl EXCEPT ![i] = IF starts THEN Tail(queue) ELSE queue],
         cur |-> [s.cur EXCEPT ![i] = IF starts THEN Head(queue) ELSE @]]

\* Mutant: a neighbour that is believed paused is not paused again.
CheckQueueFull_PauseOnce(s, p, i, q, pending) ==
    LET pauses  == IF m_pause_remote[i][q] THEN {} ELSE GetPauseClasses(s.in, i, q)
        paused  == m_pause_remote[i][q] \/ pauses # {}
        resumes == paused /\ GetResumeClasses(s.in, i, q)
        resume  == IF resumes THEN <<ControlFrame("RESUME", ResumeClass(q))>> ELSE <<>>
    IN  /\ Become(SendFrames(s, i, PauseFrames(pauses) \o resume))
        /\ m_pause_remote' = [m_pause_remote EXCEPT ![i][q] = paused /\ ~resumes]
        /\ m_recheckEvt' = [m_recheckEvt EXCEPT ![p][i][q] =
                                (pending \/ pauses # {}) /\ ~resumes]

CheckQueueFull(s, p, i, q, pending) ==
    LET pauses  == GetPauseClasses(s.in, i, q)
        paused  == m_pause_remote[i][q] \/ pauses # {}
        resumes == paused /\ GetResumeClasses(s.in, i, q)
        resume  == IF resumes THEN <<ControlFrame("RESUME", ResumeClass(q))>> ELSE <<>>
    IN  /\ Become(SendFrames(s, i, PauseFrames(pauses) \o resume))
        /\ m_pause_remote' = [m_pause_remote EXCEPT ![i][q] = paused /\ ~resumes]
        /\ m_recheckEvt' = [m_recheckEvt EXCEPT ![p][i][q] =
                                (pending \/ pauses # {}) /\ ~resumes]

-----------------------------------------------------------------------------
(* The event handlers *)

\* The Check* and Update* calls of Send and the Enqueue of an admitted packet.
Admit(s, p, i, q, z) ==
    IF /\ CheckIngressAdmission(s.in, i, q, z)
       /\ CheckEgressAdmission(s.out, p, q, z)
      THEN [in    |-> UpdateIngressAdmission(s.in, i, q, z),
            out   |-> UpdateEgressAdmission(s.out, p, q, z),
            qs    |-> [s.qs EXCEPT ![p][q] = Append(@, [inDev |-> i, size |-> z])],
            bytes |-> [s.bytes EXCEPT ![p][q] = Add(@, z)],
            ctl   |-> s.ctl,
            cur   |-> s.cur]
      ELSE s

\* Send of a data packet of class q and size z that came in at device i and
\* leaves through device p: admitted or dropped, DequeueAndTransmit and
\* CheckQueueFull follow in both cases.
Send(p, i, q, z) ==
    /\ Len(m_queues[p][q]) < MaxQueue
    /\ Len(control[i]) <= MaxControl
    /\ \E lag \in SUBSET PGs :
         LET s == Admit(Current, p, i, q, z)
             c == Served(s, p, m_paused, lag)
         IN  \E ce \in Marks(s, p, c) :
               /\ CheckQueueFull(Transmit(s, p, c, ce), p, i, q, m_recheckEvt[p][i][q])
               /\ m_rrlast' = Last(p, c)
    /\ UNCHANGED <<m_paused, m_resumeEvt>>

\* Send of a CNP or NACK in transit: no admission control.
SendControl(p) ==
    /\ Len(control[p]) <= MaxControl
    /\ DequeueAndTransmit([Current EXCEPT !.ctl[p] =
                             Append(@, ControlFrame("TRANSIT", qCnt - 1))], p, m_paused)
    /\ UNCHANGED <<m_pause_remote, pfcVars>>

\* The transmitter of p becomes READY and looks for the next packet.
TransmitComplete(p) ==
    /\ m_currentPkt[p] # NoPacket
    /\ DequeueAndTransmit([Current EXCEPT !.cur[p] = NoPacket], p, m_paused)
    /\ UNCHANGED <<m_pause_remote, pfcVars>>

\* Mutant: the class is unpaused and nothing is transmitted.
PauseFinish_NoDequeue(p, q) ==
    /\ m_paused' = [m_paused EXCEPT ![p][q] = FALSE]
    /\ UNCHANGED <<mmuVars, queueVars, m_recheckEvt>>

\* PauseFinish calls Resume, which unpauses the class and dequeues.
PauseFinish(p, q) ==
    /\ m_paused' = [m_paused EXCEPT ![p][q] = FALSE]
    /\ DequeueAndTransmit(Current, p, m_paused')
    /\ UNCHANGED <<m_pause_remote, m_recheckEvt>>

\* A pause expires.
ResumeTimer(p, q) ==
    /\ m_resumeEvt[p][q] > 0
    /\ m_resumeEvt' = [m_resumeEvt EXCEPT ![p][q] = @ - 1]
    /\ PauseFinish(p, q)

\* Simulator::Cancel of m_resumeEvt, which names the event scheduled last, when
\* n are pending.
Cancel(n) == IF n > 0 THEN n - 1 ELSE 0

\* Mutant: the timer of an earlier PAUSE goes on.
ReceivePause_NoCancel(p, q) ==
    /\ m_paused' = [m_paused EXCEPT ![p][q] = TRUE]
    /\ m_resumeEvt' = [m_resumeEvt EXCEPT ![p][q] = @ + 1]
    /\ UNCHANGED <<mmuVars, queueVars, m_recheckEvt>>

\* Receive of a PAUSE frame with a time: pause the class, restart its timer.
ReceivePause(p, q) ==
    /\ m_paused' = [m_paused EXCEPT ![p][q] = TRUE]
    /\ m_resumeEvt' = [m_resumeEvt EXCEPT ![p][q] = Cancel(@) + 1]
    /\ UNCHANGED <<mmuVars, queueVars, m_recheckEvt>>

\* Receive of a PAUSE frame with time 0: cancel the timer, resume at once.
ReceiveResume(p, q) ==
    /\ m_resumeEvt' = [m_resumeEvt EXCEPT ![p][q] = Cancel(@)]
    /\ PauseFinish(p, q)

\* The recheck event of device p for ingress device i and class q.
Recheck(p, i, q) ==
    /\ m_recheckEvt[p][i][q]
    /\ Len(control[i]) <= MaxControl
    /\ CheckQueueFull(Current, p, i, q, FALSE)
    /\ UNCHANGED <<m_rrlast, m_paused, m_resumeEvt>>

Next ==
    \/ \E r \in Routes, q \in PGs, z \in Sizes : Send(r[2], r[1], q, z)
    \/ \E p \in Transits : SendControl(p)
    \/ \E p \in Ports : TransmitComplete(p)
    \/ \E p \in Pausers, q \in PGs : ReceivePause(p, q) \/ ReceiveResume(p, q)
    \/ \E p \in Ports, q \in PGs : ResumeTimer(p, q)
    \/ \E p, i \in Ports, q \in PGs : Recheck(p, i, q)

Spec == Init /\ [][Next]_vars

-----------------------------------------------------------------------------
(* Properties *)

PoolClasses(k) == {q \in PGs : GetIngressSP(0, q) = k}

\* The packets in the buffer whose ingress device and class are a pair of L:
\* egress device, class and place in the queue.
Places(queues, L) ==
    UNION {{<<p, q, n>> : n \in {m \in DOMAIN queues[p][q] :
                                   <<queues[p][q][m].inDev, q>> \in L}} :
           p \in Ports, q \in PGs}

\* Their bytes.
Bytes(queues, L) ==
    UNION {{x} \X (1..queues[x[1]][x[2]][x[3]].size) : x \in Places(queues, L)}

Held(L) == Cardinality(Bytes(m_queues, L))

(***************************************************************************)
(* The ingress counters are exact: whatever was admitted, dropped and      *)
(* transmitted so far, each counter is the number of bytes now in the      *)
(* buffer that it stands for, so no uint32_t counter ever wrapped    *)
(* and no admission, PAUSE or RESUME decision is taken on a stale number   *)
(* (UpdateIngressAdmission and RemoveFromIngressAdmission are called by    *)
(* different devices, with the ingress device carried in a packet tag).    *)
(***************************************************************************)
IngressExact ==
    /\ \A i \in Ports, q \in PGs : ingress.PG[i][q] = Held({<<i, q>>})
    /\ \A i \in Ports : ingress.Port[i] = Held({i} \X PGs)
    /\ \A k \in Pools : ingress.SP[k] = Held(Ports \X PoolClasses(k))
    /\ ingress.Total = Held(Ports \X PGs)

\* The bytes that the counters n of the pairs of L stand for.
Shares(n, L) == UNION {{r} \X (1..n[r[1]][r[2]]) : r \in L}

(***************************************************************************)
(* The headroom is wrong in neither direction, although                    *)
(* RemoveFromIngressAdmission releases it for any packet of the group,     *)
(* charged to it or not, and clamps at zero.  A group never holds more     *)
(* headroom than bytes, so an empty one holds none; and what a pool holds  *)
(* above its limit is charged to the headroom of its groups.               *)
(***************************************************************************)
HeadroomCovered ==
    /\ \A i \in Ports, q \in PGs : ingress.Headroom[i][q] <= ingress.PG[i][q]
    /\ \A k \in Pools :
         ingress.SP[k] <= m_buffer_cell_limit_sp
                            + Cardinality(Shares(ingress.Headroom, Ports \X PoolClasses(k)))

(***************************************************************************)
(* How far the headroom of a group can exceed m_pg_hdrm_limit, which is    *)
(* consulted only for a packet that finds the pool above its limit and no  *)
(* guarantee left, while every packet that leaves the pool above the limit *)
(* is charged: up to the guarantees, or up to the limit of the pool and    *)
(* one packet, when the group alone has filled the pool.                   *)
(***************************************************************************)
HeadroomLimited ==
    \A i \in Ports, q \in PGs :
      \E limit \in {m_pg_hdrm_limit, m_pg_min_cell, m_port_min_cell,
                    m_buffer_cell_limit_sp + MaxSize} :
        ingress.Headroom[i][q] <= limit

\* The buffer is never overcommitted: CheckIngressAdmission against
\* m_maxBufferBytes stays meaningful over any sequence of events.
BufferRespected == ingress.Total <= m_maxBufferBytes

\* QMin read as a signed number: RemoveFromEgressAdmission may take it below 0.
Signed(m) == IF m + MaxSize > W THEN m - W ELSE m

(***************************************************************************)
(* The egress counters of a queue drift from its length by a bounded       *)
(* amount only.  The two size "patches" and the choice between the shared  *)
(* and the guaranteed counter do not pair up between enqueue and dequeue,  *)
(* and QMin can wrap below zero; yet the two counters always add up to the *)
(* bytes in the queue, with QMin between -(MaxSize-1) and the guarantee.   *)
(***************************************************************************)
EgressDriftBounded ==
    \A p \in Ports, q \in PGs :
      LET min == Signed(egress.QMin[p][q])
      IN  /\ min + egress.QShared[p][q] = m_bytesInQueue[p][q]
          /\ min > -MaxSize
          /\ min <= m_q_min_cell \/ min <= Cell

\* The shared counters of a port and of a pool are the sums of those of their
\* queues, through all the patches of Update/RemoveFromEgressAdmission.
EgressSumsExact ==
    /\ \A p \in Ports :
         egress.Port[p] = Cardinality(Shares(egress.QShared, {p} \X PGs))
    /\ \A k \in Pools :
         egress.SP[k] = Cardinality(Shares(egress.QShared, Ports \X PoolClasses(k)))

(***************************************************************************)
(* No lost wake-up: a device is READY only when its control queue is empty *)
(* and every backlogged class is paused.  Nothing polls a switch device,   *)
(* so each handler that queues a packet or resumes a class must try to     *)
(* transmit.                                                               *)
(***************************************************************************)
WorkConserving ==
    \A p \in Ports :
      m_currentPkt[p] = NoPacket =>
        /\ control[p] = <<>>
        /\ \A q \in PGs : m_queues[p][q] # <<>> => m_paused[p][q]

(***************************************************************************)
(* A paused class has one PauseFinish event pending and any other class    *)
(* has none: no PAUSE is for ever, a repeated PAUSE is not cut short by    *)
(* the expiry of the one before it, and the NS_ASSERT "Must be PAUSEd" of  *)
(* Resume holds whenever an event fires, however PAUSE frames, RESUME      *)
(* frames and expiries interleave.                                         *)
(***************************************************************************)
PausedHasTimer ==
    \A p \in Ports, q \in PGs : m_resumeEvt[p][q] = IF m_paused[p][q] THEN 1 ELSE 0

(***************************************************************************)
(* While a priority group is above its static PAUSE threshold, the switch  *)
(* believes the neighbour paused and some device has a CheckQueueFull      *)
(* pending that will repeat the PAUSE before it expires; the same for a    *)
(* port above the whole-port threshold.  m_pause_remote is shared by all   *)
(* devices while m_recheckEvt is per egress device, and the chain of       *)
(* rechecks stops whenever one finds the group between the thresholds.     *)
(***************************************************************************)
CongestionKeepsPausing ==
    ~m_dynamicth =>
      \A i \in Ports :
        /\ \A q \in PGs :
             ingress.PG[i][q] > m_pg_shared_limit_cell =>
               m_pause_remote[i][q] /\ \E p \in Ports : m_recheckEvt[p][i][q]
        /\ ingress.Port[i] > m_port_max_shared_cell =>
             \E q \in PGs : m_pause_remote[i][q] /\ \E p \in Ports : m_recheckEvt[p][i][q]

\* The step puts a packet of class q on the wire of device p.
Departs(p, q) ==
    /\ m_currentPkt'[p].kind = "DATA"
    /\ m_currentPkt'[p].class = q
    /\ m_currentPkt[p] = NoPacket \/ Len(m_queues'[p][q]) < Len(m_queues[p][q])

(***************************************************************************)
(* An ECN mark tells the truth about the real length of the queue up to    *)
(* the drift of the counters: a marked packet leaves more than Kmin bytes  *)
(* behind it, give or take one packet, and an unmarked one at most Kmax    *)
(* plus the guarantee.                                                     *)
(***************************************************************************)
MarkingHonest ==
    [][m_qcnEnabled =>
        \A p \in Ports, q \in PGs :
          LET kmin == IF q = 1 THEN m_dctcp_threshold ELSE m_pg_qcn_threshold
              kmax == IF q = 1 THEN m_dctcp_threshold_max ELSE m_pg_qcn_threshold_max
          IN  Departs(p, q) =>
                IF m_currentPkt'[p].ce
                  THEN m_bytesInQueue'[p][q] + MaxSize > kmin + 1
                  ELSE m_bytesInQueue'[p][q] <= kmax + Max({m_q_min_cell, Cell})]_vars

-----------------------------------------------------------------------------
(* What comments of the code say, and the code does not do *)

\* "If this is a Pause, stop the corresponding queue" (Receive): no packet of
\* a paused class leaves.  The strict loop of DoDequeueRR ignores paused.
PausedClassStops ==
    [][\A p \in Ports, q \in PGs : Departs(p, q) => ~m_paused'[p][q]]_vars

\* "resume" (CheckQueueFull): when the switch forgets that it paused class q
\* of neighbour i, it sends that neighbour a RESUME for class q.
ResumeReachesPausedClass ==
    [][\A i \in Ports, q \in PGs :
         m_pause_remote[i][q] /\ ~m_pause_remote'[i][q] =>
           \/ m_currentPkt'[i] = ControlFrame("RESUME", q)
           \/ \E n \in DOMAIN control'[i] : control'[i][n] = ControlFrame("RESUME", q)]_vars
=============================================================================
