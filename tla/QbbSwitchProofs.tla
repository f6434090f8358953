--------------------------- MODULE QbbSwitchProofs ---------------------------
(***************************************************************************)
(* Proofs about QbbSwitch, for every set of ports, classes and sizes, all  *)
(* thresholds and every word width that satisfy the assumptions.           *)
(***************************************************************************)
EXTENDS QbbSwitch, TLAPS

-----------------------------------------------------------------------------
(* uint32_t arithmetic stays in the word *)

LEMMA AddType == ASSUME NEW a \in Word, NEW b \in Word PROVE Add(a, b) \in Word
  BY ThresholdAssumption DEF Add, Word

LEMMA SubType == ASSUME NEW a \in Word, NEW b \in Word PROVE Sub(a, b) \in Word
  BY ThresholdAssumption DEF Sub, Word

LEMMA SizeType == ASSUME NEW z \in Sizes PROVE z \in Word /\ z \in 1..MaxSize
  BY SizeAssumption, RoomAssumption, ThresholdAssumption DEF Word

LEMMA CellType == Cell \in Word
  BY SizeAssumption, RoomAssumption, ThresholdAssumption DEF Word

LEMMA PoolType == ASSUME NEW p, NEW q
                  PROVE GetIngressSP(p, q) \in Pools /\ GetEgressSP(p, q) \in Pools
  BY DEF GetIngressSP, GetEgressSP, Pools

-----------------------------------------------------------------------------
(* The scheduler returns None, the control queue, or a backlogged class *)

LEMMA LeastExists ==
  ASSUME NEW S \in SUBSET (1..qCnt), S # {}
  PROVE  \E x \in S : \A y \in S : x <= y
<1> USE DEF qCnt
<1>1. PICK y \in S : TRUE OBVIOUS
<1>2. CASE 1 \in S BY <1>2
<1>3. CASE 1 \notin S /\ 2 \in S BY <1>3
<1>4. CASE 1 \notin S /\ 2 \notin S /\ 3 \in S BY <1>4
<1>5. CASE 1 \notin S /\ 2 \notin S /\ 3 \notin S /\ 4 \in S BY <1>5
<1>6. CASE 1 \notin S /\ 2 \notin S /\ 3 \notin S /\ 4 \notin S /\ 5 \in S BY <1>6
<1>7. CASE 1 \notin S /\ 2 \notin S /\ 3 \notin S /\ 4 \notin S /\ 5 \notin S /\ 6 \in S
  BY <1>7
<1>8. CASE 1 \notin S /\ 2 \notin S /\ 3 \notin S /\ 4 \notin S /\ 5 \notin S /\ 6 \notin S
  BY <1>8
<1> QED BY <1>2, <1>3, <1>4, <1>5, <1>6, <1>7, <1>8

\* The class DoDequeueRR returns has something to send.
Servable(s, p, c) ==
    \/ c = None
    \/ c = qCnt - 1 /\ s.ctl[p] # <<>>
    \/ c \in PGs /\ s.qs[p][c] # <<>>

LEMMA RoundRobinServable ==
  ASSUME NEW queues, NEW paused, NEW last \in Classes
  PROVE  LET c == RoundRobin(queues, paused, last)
         IN  \/ c = None /\ \A q \in PGs : queues[q] # <<>> => paused[q]
             \/ c \in PGs /\ ~paused[c] /\ queues[c] # <<>>
<1> DEFINE ready == {q \in PGs : ~paused[q] /\ queues[q] # <<>>}
           dist(q) == IF q > last THEN q - last ELSE q - last + qCnt
<1>1. CASE ready = {} BY <1>1 DEF RoundRobin
<1>2. CASE ready # {}
  <2>1. \A q \in ready : q \in 0..6 /\ dist(q) \in 1..qCnt
    BY ClassAssumption DEF qCnt, Classes
  <2>2. PICK x \in {dist(q) : q \in ready} : \A y \in {dist(q) : q \in ready} : x <= y
    <3>1. {dist(q) : q \in ready} \in SUBSET (1..qCnt) BY <2>1
    <3>2. {dist(q) : q \in ready} # {} BY <1>2
    <3> QED BY <3>1, <3>2, LeastExists
  <2>3. \E q \in ready : \A r \in ready : dist(q) <= dist(r)
    BY <2>2
  <2>4. (CHOOSE q \in ready : \A r \in ready : dist(q) <= dist(r)) \in ready
    BY <2>3
  <2> QED BY <1>2, <2>4 DEF RoundRobin
<1> QED BY <1>1, <1>2

LEMMA DequeueServable ==
  ASSUME NEW queues, NEW ctl, NEW paused, NEW last \in Classes, NEW lag \in SUBSET PGs
  PROVE  LET c == DoDequeueRR(queues, ctl, paused, last, lag)
         IN  \/ c = None /\ ctl = <<>> /\ \A q \in PGs : queues[q] # <<>> => paused[q]
             \/ c = qCnt - 1 /\ ctl # <<>>
             \/ c \in PGs /\ queues[c] # <<>>
<1> DEFINE behind == {q \in lag : queues[q] # <<>>}
<1>1. CASE ctl # <<>> BY <1>1 DEF DoDequeueRR
<1>2. CASE ctl = <<>> /\ behind # {}
  <2>1. DoDequeueRR(queues, ctl, paused, last, lag) = Max(behind)
    BY <1>2 DEF DoDequeueRR
  <2>2. \A q \in behind : q \in 0..6
    BY ClassAssumption DEF qCnt
  <2>3. \E x \in behind : \A y \in behind : x >= y
    <3> DEFINE up == {7 - q : q \in behind}
    <3>1. up \in SUBSET (1..qCnt) /\ up # {} BY <1>2, <2>2 DEF qCnt
    <3>2. PICK x \in up : \A y \in up : x <= y BY <3>1, LeastExists
    <3>3. PICK b \in behind : x = 7 - b BY <3>2
    <3>4. \A y \in behind : x <= 7 - y BY <3>2
    <3>5. \A y \in behind : b >= y BY <3>3, <3>4, <2>2
    <3> QED BY <3>5
  <2>4. Max(behind) \in behind BY <2>3 DEF Max
  <2> QED BY <2>1, <2>4
<1>3. CASE ctl = <<>> /\ behind = {}
  <2>1. DoDequeueRR(queues, ctl, paused, last, lag) = RoundRobin(queues, paused, last)
    BY <1>3 DEF DoDequeueRR
  <2>2. \/ RoundRobin(queues, paused, last) = None
           /\ \A q \in PGs : queues[q] # <<>> => paused[q]
        \/ RoundRobin(queues, paused, last) \in PGs
           /\ queues[RoundRobin(queues, paused, last)] # <<>>
    BY RoundRobinServable
  <2> QED BY <1>3, <2>1, <2>2
<1> QED BY <1>1, <1>2, <1>3

-----------------------------------------------------------------------------
(* Types: every operator of the model takes a well-typed state to one *)

States ==
    [in : IngressCounters, out : EgressCounters,
     qs : [Ports -> [PGs -> Seq(Packet)]], bytes : [Ports -> [PGs -> Word]],
     ctl : [Ports -> Seq(Frame)], cur : [Ports -> Frame \union {NoPacket}]]

LEMMA ServedServable ==
  ASSUME NEW s, NEW p \in Ports, NEW paused, NEW lag \in SUBSET PGs,
         m_rrlast \in [Ports -> Classes]
  PROVE  Servable(s, p, Served(s, p, paused, lag))
<1>1. m_rrlast[p] \in Classes OBVIOUS
<1> QED BY <1>1, DequeueServable DEF Servable, Served

LEMMA UpdateIngressType ==
  ASSUME NEW in \in IngressCounters, NEW i \in Ports, NEW q \in PGs, NEW z \in Sizes
  PROVE  UpdateIngressAdmission(in, i, q, z) \in IngressCounters
<1>1. GetIngressSP(i, q) \in Pools BY PoolType
<1>2. z \in Word BY SizeType
<1>3. \A a \in Word : Add(a, z) \in Word BY <1>2, AddType
<1> QED BY <1>1, <1>3 DEF UpdateIngressAdmission, IngressCounters

LEMMA RemoveIngressType ==
  ASSUME NEW in \in IngressCounters, NEW i \in Ports, NEW q \in PGs, NEW z \in Sizes
  PROVE  RemoveFromIngressAdmission(in, i, q, z) \in IngressCounters
<1>1. GetIngressSP(i, q) \in Pools BY PoolType
<1>2. z \in Word /\ z \in Nat BY SizeType, ThresholdAssumption DEF Word
<1>3. \A a \in Word : Sub(a, z) \in Word BY <1>2, SubType
<1>4. \A a \in Word : (IF a > z THEN a - z ELSE 0) \in Word
  BY <1>2, ThresholdAssumption DEF Word
<1> QED BY <1>1, <1>3, <1>4 DEF RemoveFromIngressAdmission, IngressCounters

LEMMA PatchType ==
  ASSUME NEW out \in EgressCounters, NEW p \in Ports, NEW q \in PGs
  PROVE  PatchSizes(out, p, q) \in EgressCounters
<1>1. GetEgressSP(p, q) \in Pools BY PoolType
<1>2. out.QMin[p][q] \in Word BY DEF EgressCounters
<1>3. \A a \in Word : Add(Sub(a, Cell), out.QMin[p][q]) \in Word
  BY <1>2, CellType, AddType, SubType
<1> QED BY <1>1, <1>2, <1>3, CellType DEF PatchSizes, EgressCounters

LEMMA SetQMinType ==
  ASSUME NEW out \in EgressCounters, NEW p \in Ports, NEW q \in PGs, NEW m \in Word
  PROVE  SetQMin(out, p, q, m) \in EgressCounters
BY DEF SetQMin, EgressCounters

LEMMA UpdateEgressType ==
  ASSUME NEW out \in EgressCounters, NEW p \in Ports, NEW q \in PGs, NEW z \in Sizes
  PROVE  UpdateEgressAdmission(out, p, q, z) \in EgressCounters
<1>1. GetEgressSP(p, q) \in Pools BY PoolType
<1>2. z \in Word BY SizeType
<1>3. \A a \in Word : Add(a, z) \in Word BY <1>2, AddType
<1>4. Add(out.QMin[p][q], z) \in Word BY <1>3 DEF EgressCounters
<1>5. ChargeShared(out, p, q, z) \in EgressCounters
  BY <1>1, <1>3 DEF ChargeShared, EgressCounters
<1> QED BY <1>4, <1>5, PatchType, SetQMinType DEF UpdateEgressAdmission

LEMMA RemoveEgressType ==
  ASSUME NEW out \in EgressCounters, NEW p \in Ports, NEW q \in PGs, NEW z \in Sizes
  PROVE  RemoveFromEgressAdmission(out, p, q, z) \in EgressCounters
<1>1. GetIngressSP(p, q) \in Pools BY PoolType
<1>2. z \in Word BY SizeType
<1>3. \A a \in Word : Sub(a, z) \in Word BY <1>2, SubType
<1>4. Sub(out.QMin[p][q], z) \in Word BY <1>3 DEF EgressCounters
<1>5. ReleaseShared(out, p, q, z) \in EgressCounters
  BY <1>1, <1>3 DEF ReleaseShared, EgressCounters
<1> QED BY <1>4, <1>5, PatchType, SetQMinType DEF RemoveFromEgressAdmission

LEMMA AdmitType ==
  ASSUME NEW s \in States, NEW p \in Ports, NEW i \in Ports, NEW q \in PGs, NEW z \in Sizes
  PROVE  Admit(s, p, i, q, z) \in States
<1>1. s.in \in IngressCounters /\ s.out \in EgressCounters BY DEF States
<1>2. UpdateIngressAdmission(s.in, i, q, z) \in IngressCounters BY <1>1, UpdateIngressType
<1>3. UpdateEgressAdmission(s.out, p, q, z) \in EgressCounters BY <1>1, UpdateEgressType
<1>4. [s.qs EXCEPT ![p][q] = Append(@, [inDev |-> i, size |-> z])]
        \in [Ports -> [PGs -> Seq(Packet)]]
  <2>1. [inDev |-> i, size |-> z] \in Packet BY DEF Packet
  <2>2. s.qs \in [Ports -> [PGs -> Seq(Packet)]] BY DEF States
  <2>3. Append(s.qs[p][q], [inDev |-> i, size |-> z]) \in Seq(Packet) BY <2>1, <2>2
  <2> QED BY <2>2, <2>3
<1>5. [s.bytes EXCEPT ![p][q] = Add(@, z)] \in [Ports -> [PGs -> Word]]
  BY AddType, SizeType DEF States
<1>6. s.ctl \in [Ports -> Seq(Frame)] /\ s.cur \in [Ports -> Frame \union {NoPacket}]
  BY DEF States
<1> DEFINE qs    == [s.qs EXCEPT ![p][q] = Append(@, [inDev |-> i, size |-> z])]
           bytes == [s.bytes EXCEPT ![p][q] = Add(@, z)]
           t == [in    |-> UpdateIngressAdmission(s.in, i, q, z),
                 out   |-> UpdateEgressAdmission(s.out, p, q, z),
                 qs    |-> qs, bytes |-> bytes, ctl |-> s.ctl, cur |-> s.cur]
<1>7. Admit(s, p, i, q, z) = s \/ Admit(s, p, i, q, z) = t BY DEF Admit
<1> HIDE DEF qs, bytes
<1>8. qs \in [Ports -> [PGs -> Seq(Packet)]] /\ bytes \in [Ports -> [PGs -> Word]]
  BY <1>4, <1>5 DEF qs, bytes
<1>9. t \in States BY <1>2, <1>3, <1>6, <1>8 DEF States
<1> QED BY <1>7, <1>9

LEMMA HeadTailType ==
  ASSUME NEW T, NEW s \in Seq(T), s # <<>>
  PROVE  Head(s) \in T /\ Tail(s) \in Seq(T)
OBVIOUS

LEMMA TransmitDataType ==
  ASSUME NEW s \in States, NEW p \in Ports, NEW c \in PGs, s.qs[p][c] # <<>>,
         NEW ce \in BOOLEAN
  PROVE  TransmitData(s, p, c, ce) \in States
<1> DEFINE pkt == Head(s.qs[p][c])
<1>1. s.in \in IngressCounters /\ s.out \in EgressCounters BY DEF States
<1>2. s.qs[p][c] \in Seq(Packet) BY DEF States
<1>3. pkt \in Packet /\ Tail(s.qs[p][c]) \in Seq(Packet) BY <1>2, HeadTailType
<1>4. pkt.inDev \in Ports /\ pkt.size \in Sizes BY <1>3 DEF Packet
<1>5. RemoveFromIngressAdmission(s.in, pkt.inDev, c, pkt.size) \in IngressCounters
  BY <1>1, <1>4, RemoveIngressType
<1>6. RemoveFromEgressAdmission(s.out, p, c, pkt.size) \in EgressCounters
  BY <1>1, <1>4, RemoveEgressType
<1>7. [s.qs EXCEPT ![p][c] = Tail(@)] \in [Ports -> [PGs -> Seq(Packet)]]
  BY <1>3 DEF States
<1>8. [s.bytes EXCEPT ![p][c] = Sub(@, pkt.size)] \in [Ports -> [PGs -> Word]]
  BY <1>4, SubType, SizeType DEF States
<1>9. [kind |-> "DATA", class |-> c, ce |-> ce] \in Frame
  BY ClassAssumption DEF Frame, Classes, qCnt
<1>10. [s.cur EXCEPT ![p] = [kind |-> "DATA", class |-> c, ce |-> ce]]
         \in [Ports -> Frame \union {NoPacket}]
  BY <1>9 DEF States
<1> HIDE DEF pkt
<1>11. s.ctl \in [Ports -> Seq(Frame)] BY DEF States
<1>12. TransmitData(s, p, c, ce) =
         [in    |-> RemoveFromIngressAdmission(s.in, pkt.inDev, c, pkt.size),
          out   |-> RemoveFromEgressAdmission(s.out, p, c, pkt.size),
          qs    |-> [s.qs EXCEPT ![p][c] = Tail(@)],
          bytes |-> [s.bytes EXCEPT ![p][c] = Sub(@, pkt.size)],
          ctl   |-> s.ctl,
          cur   |-> [s.cur EXCEPT ![p] = [kind |-> "DATA", class |-> c, ce |-> ce]]]
  BY DEF TransmitData, pkt
<1> QED BY <1>5, <1>6, <1>7, <1>8, <1>10, <1>11, <1>12 DEF States

LEMMA TransmitType ==
  ASSUME NEW s \in States, NEW p \in Ports, NEW c, Servable(s, p, c), NEW ce \in BOOLEAN
  PROVE  Transmit(s, p, c, ce) \in States
<1>1. CASE c = None BY <1>1 DEF Transmit
<1>2. CASE c = qCnt - 1
  <2>1. s.ctl[p] # <<>> /\ s.ctl[p] \in Seq(Frame)
    BY <1>2, ClassAssumption DEF Servable, States, None, qCnt
  <2>2. Head(s.ctl[p]) \in Frame /\ Tail(s.ctl[p]) \in Seq(Frame) BY <2>1, HeadTailType
  <2>3. TransmitControl(s, p) \in States BY <2>2 DEF TransmitControl, States
  <2> QED BY <1>2, <2>3 DEF Transmit, None, qCnt
<1>3. CASE c \in PGs
  <2>1. c # None /\ c # qCnt - 1 BY <1>3, ClassAssumption DEF None, qCnt
  <2>2. s.qs[p][c] # <<>> BY <1>3, <2>1 DEF Servable
  <2> QED BY <1>3, <2>1, <2>2, TransmitDataType DEF Transmit
<1> QED BY <1>1, <1>2, <1>3 DEF Servable

LEMMA PauseFramesType == ASSUME NEW S PROVE PauseFrames(S) \in Seq(Frame)
<1> DEFINE f(j) == IF j \in S THEN <<ControlFrame("PAUSE", j)>> ELSE <<>>
<1>1. \A j \in 0..7 : f(j) \in Seq(Frame)
  <2> TAKE j \in 0..7
  <2>1. ControlFrame("PAUSE", j) \in Frame BY DEF ControlFrame, Frame, Classes, qCnt
  <2>2. <<ControlFrame("PAUSE", j)>> \in Seq(Frame) BY <2>1
  <2> QED BY <2>2
<1>2. \A a, b \in Seq(Frame) : a \o b \in Seq(Frame) OBVIOUS
<1> HIDE DEF f
<1>3. f(0) \o f(1) \o f(2) \o f(3) \o f(4) \o f(5) \o f(6) \o f(7) \in Seq(Frame)
  BY <1>1, <1>2
<1> QED BY <1>3 DEF PauseFrames, f

LEMMA SendFramesType ==
  ASSUME NEW s \in States, NEW i \in Ports, NEW frames \in Seq(Frame)
  PROVE  SendFrames(s, i, frames) \in States
<1> DEFINE queue  == s.ctl[i] \o frames
           starts == frames # <<>> /\ s.cur[i] = NoPacket
<1>1. queue \in Seq(Frame) BY DEF States
<1>2. starts => queue # <<>>
  <2>1. s.ctl[i] \in Seq(Frame) BY DEF States
  <2>2. frames # <<>> => Len(frames) > 0 OBVIOUS
  <2>3. Len(queue) = Len(s.ctl[i]) + Len(frames) BY <2>1
  <2> QED BY <2>1, <2>2, <2>3
<1>3. starts => Head(queue) \in Frame /\ Tail(queue) \in Seq(Frame)
  BY <1>1, <1>2, HeadTailType
<1> HIDE DEF queue, starts
<1>4. [s.ctl EXCEPT ![i] = IF starts THEN Tail(queue) ELSE queue] \in [Ports -> Seq(Frame)]
  BY <1>1, <1>3 DEF States
<1>5. [s.cur EXCEPT ![i] = IF starts THEN Head(queue) ELSE @]
        \in [Ports -> Frame \union {NoPacket}]
  BY <1>3 DEF States
<1>6. SendFrames(s, i, frames) =
        [in |-> s.in, out |-> s.out, qs |-> s.qs, bytes |-> s.bytes,
         ctl |-> [s.ctl EXCEPT ![i] = IF starts THEN Tail(queue) ELSE queue],
         cur |-> [s.cur EXCEPT ![i] = IF starts THEN Head(queue) ELSE @]]
  BY DEF SendFrames, starts, queue
<1> QED BY <1>4, <1>5, <1>6 DEF States

-----------------------------------------------------------------------------
(* Type correctness *)

BufferTypeOK ==
    /\ ingress \in IngressCounters
    /\ egress \in EgressCounters
    /\ m_queues \in [Ports -> [PGs -> Seq(Packet)]]
    /\ m_bytesInQueue \in [Ports -> [PGs -> Word]]
    /\ control \in [Ports -> Seq(Frame)]
    /\ m_currentPkt \in [Ports -> Frame \union {NoPacket}]

LEMMA CurrentType == ASSUME TypeOK PROVE Current \in States
BY DEF TypeOK, Current, States

LEMMA BecomeType ==
  ASSUME NEW s \in States, Become(s)
  PROVE  BufferTypeOK'
BY DEF Become, States, BufferTypeOK

LEMMA MarksType == ASSUME NEW s, NEW p, NEW c PROVE Marks(s, p, c) \subseteq BOOLEAN
BY DEF Marks, ShouldSendCN

LEMMA LastType ==
  ASSUME NEW p \in Ports, NEW c, m_rrlast \in [Ports -> Classes]
  PROVE  Last(p, c) \in [Ports -> Classes]
<1>1. c \in PGs => c \in Classes BY ClassAssumption DEF Classes, qCnt
<1> QED BY <1>1 DEF Last

LEMMA DequeueType ==
  ASSUME TypeOK, NEW s \in States, NEW p \in Ports, NEW paused,
         DequeueAndTransmit(s, p, paused)
  PROVE  BufferTypeOK' /\ m_rrlast' \in [Ports -> Classes]
<1>1. m_rrlast \in [Ports -> Classes] BY DEF TypeOK
<1>2. PICK lag \in SUBSET PGs : \E ce \in Marks(s, p, Served(s, p, paused, lag)) :
        /\ Become(Transmit(s, p, Served(s, p, paused, lag), ce))
        /\ m_rrlast' = Last(p, Served(s, p, paused, lag))
  BY DEF DequeueAndTransmit
<1>6. PICK ce \in Marks(s, p, Served(s, p, paused, lag)) :
        /\ Become(Transmit(s, p, Served(s, p, paused, lag), ce))
        /\ m_rrlast' = Last(p, Served(s, p, paused, lag))
  BY <1>2
<1>3. ce \in BOOLEAN BY MarksType
<1>4. Servable(s, p, Served(s, p, paused, lag)) BY <1>1, ServedServable
<1>5. Transmit(s, p, Served(s, p, paused, lag), ce) \in States
  BY <1>3, <1>4, TransmitType
<1> QED BY <1>1, <1>5, <1>6, BecomeType, LastType

LEMMA CheckQueueFullType ==
  ASSUME TypeOK, NEW s \in States, NEW p \in Ports, NEW i \in Ports, NEW q \in PGs,
         NEW pending, CheckQueueFull(s, p, i, q, pending)
  PROVE  /\ BufferTypeOK'
         /\ m_pause_remote' \in [Ports -> [PGs -> BOOLEAN]]
         /\ m_recheckEvt' \in [Ports -> [Ports -> [PGs -> BOOLEAN]]]
<1> DEFINE pauses  == GetPauseClasses(s.in, i, q)
           paused  == m_pause_remote[i][q] \/ pauses # {}
           resumes == paused /\ GetResumeClasses(s.in, i, q)
           resume  == IF resumes THEN <<ControlFrame("RESUME", ResumeClass(q))>> ELSE <<>>
<1>1. /\ Become(SendFrames(s, i, PauseFrames(pauses) \o resume))
      /\ m_pause_remote' = [m_pause_remote EXCEPT ![i][q] = paused /\ ~resumes]
      /\ m_recheckEvt' = [m_recheckEvt EXCEPT ![p][i][q] =
                              (pending \/ pauses # {}) /\ ~resumes]
  BY DEF CheckQueueFull
<1>2. resume \in Seq(Frame)
  <2>1. ControlFrame("RESUME", ResumeClass(q)) \in Frame
    BY DEF ControlFrame, ResumeClass, Frame, Classes, qCnt
  <2>2. <<ControlFrame("RESUME", ResumeClass(q))>> \in Seq(Frame) BY <2>1
  <2> QED BY <2>2
<1>3. (paused /\ ~resumes) \in BOOLEAN /\ ((pending \/ pauses # {}) /\ ~resumes) \in BOOLEAN
  OBVIOUS
<1> HIDE DEF pauses, paused, resumes, resume
<1>4. PauseFrames(pauses) \o resume \in Seq(Frame) BY <1>2, PauseFramesType
<1>5. BufferTypeOK' BY <1>1, <1>4, SendFramesType, BecomeType
<1>6. m_pause_remote' \in [Ports -> [PGs -> BOOLEAN]] BY <1>1, <1>3 DEF TypeOK
<1>7. m_recheckEvt' \in [Ports -> [Ports -> [PGs -> BOOLEAN]]] BY <1>1, <1>3 DEF TypeOK
<1> QED BY <1>5, <1>6, <1>7

LEMMA PauseFinishType ==
  ASSUME TypeOK, NEW p \in Ports, NEW q \in PGs, PauseFinish(p, q),
         m_resumeEvt' \in [Ports -> [PGs -> Nat]]
  PROVE  TypeOK'
<1>1. BufferTypeOK' /\ m_rrlast' \in [Ports -> Classes]
  BY CurrentType, DequeueType DEF PauseFinish
<1>2. m_paused' \in [Ports -> [PGs -> BOOLEAN]] BY DEF PauseFinish, TypeOK
<1>3. UNCHANGED <<m_pause_remote, m_recheckEvt>> BY DEF PauseFinish
<1> QED BY <1>1, <1>2, <1>3 DEF TypeOK, BufferTypeOK

LEMMA InitType == Init => TypeOK
<1> SUFFICES ASSUME Init PROVE TypeOK OBVIOUS
<1>1. 0 \in Word BY ThresholdAssumption, SizeAssumption, RoomAssumption DEF Word
<1>2. EmptyIngress \in IngressCounters BY <1>1 DEF EmptyIngress, IngressCounters
<1>3. EmptyEgress \in EgressCounters BY <1>1 DEF EmptyEgress, EgressCounters
<1>4. 0 \in Classes BY DEF Classes, qCnt
<1>5. m_queues \in [Ports -> [PGs -> Seq(Packet)]] /\ control \in [Ports -> Seq(Frame)]
  BY DEF Init
<1> QED BY <1>1, <1>2, <1>3, <1>4, <1>5 DEF Init, TypeOK

LEMMA NextType == TypeOK /\ [Next]_vars => TypeOK'
<1> SUFFICES ASSUME TypeOK, [Next]_vars PROVE TypeOK' OBVIOUS
<1>1. ASSUME NEW r \in Routes, NEW q \in PGs, NEW z \in Sizes, Send(r[2], r[1], q, z)
      PROVE  TypeOK'
  <2> DEFINE p == r[2]
             i == r[1]
             s == Admit(Current, p, i, q, z)
  <2>1. p \in Ports /\ i \in Ports BY RouteAssumption
  <2> HIDE DEF p, i
  <2>2. s \in States BY <2>1, CurrentType, AdmitType
  <2> HIDE DEF s
  <2>3. PICK lag \in SUBSET PGs : \E ce \in Marks(s, p, Served(s, p, m_paused, lag)) :
          /\ CheckQueueFull(Transmit(s, p, Served(s, p, m_paused, lag), ce), p, i, q,
                            m_recheckEvt[p][i][q])
          /\ m_rrlast' = Last(p, Served(s, p, m_paused, lag))
    BY <1>1 DEF Send, s, p, i
  <2>9. PICK ce \in Marks(s, p, Served(s, p, m_paused, lag)) :
          /\ CheckQueueFull(Transmit(s, p, Served(s, p, m_paused, lag), ce), p, i, q,
                            m_recheckEvt[p][i][q])
          /\ m_rrlast' = Last(p, Served(s, p, m_paused, lag))
    BY <2>3
  <2>4. m_rrlast \in [Ports -> Classes] BY DEF TypeOK
  <2>5. Transmit(s, p, Served(s, p, m_paused, lag), ce) \in States
    BY <2>1, <2>2, <2>4, MarksType, ServedServable, TransmitType
  <2>6. /\ BufferTypeOK'
        /\ m_pause_remote' \in [Ports -> [PGs -> BOOLEAN]]
        /\ m_recheckEvt' \in [Ports -> [Ports -> [PGs -> BOOLEAN]]]
    BY <2>1, <2>9, <2>5, CheckQueueFullType
  <2>7. m_rrlast' \in [Ports -> Classes] BY <2>1, <2>9, <2>4, LastType
  <2>8. UNCHANGED <<m_paused, m_resumeEvt>> BY <1>1 DEF Send
  <2> QED BY <2>6, <2>7, <2>8 DEF TypeOK, BufferTypeOK
<1>2. ASSUME NEW p \in Transits, SendControl(p) PROVE TypeOK'
  <2>1. p \in Ports BY RouteAssumption
  <2> DEFINE f == ControlFrame("TRANSIT", qCnt - 1)
             s == [Current EXCEPT !.ctl[p] = Append(@, f)]
  <2>2. f \in Frame BY DEF ControlFrame, Frame, Classes, qCnt
  <2> HIDE DEF f
  <2>3. s \in States
    <3>1. Current.ctl \in [Ports -> Seq(Frame)] BY CurrentType DEF States
    <3>2. Append(Current.ctl[p], f) \in Seq(Frame) BY <2>1, <2>2, <3>1
    <3> QED BY <2>1, <3>1, <3>2, CurrentType DEF States
  <2>4. DequeueAndTransmit(s, p, m_paused) /\ UNCHANGED <<m_pause_remote, pfcVars>>
    BY <1>2 DEF SendControl, f
  <2>5. BufferTypeOK' /\ m_rrlast' \in [Ports -> Classes]
    BY <2>1, <2>3, <2>4, DequeueType
  <2> QED BY <2>4, <2>5 DEF TypeOK, BufferTypeOK, pfcVars
<1>3. ASSUME NEW p \in Ports, TransmitComplete(p) PROVE TypeOK'
  <2>1. [Current EXCEPT !.cur[p] = NoPacket] \in States
    BY CurrentType DEF States
  <2>2. /\ DequeueAndTransmit([Current EXCEPT !.cur[p] = NoPacket], p, m_paused)
        /\ UNCHANGED <<m_pause_remote, pfcVars>>
    BY <1>3 DEF TransmitComplete
  <2>3. BufferTypeOK' /\ m_rrlast' \in [Ports -> Classes]
    BY <2>1, <2>2, DequeueType
  <2> QED BY <2>2, <2>3 DEF TypeOK, BufferTypeOK, pfcVars
<1>4. ASSUME NEW p \in Pausers, NEW q \in PGs, ReceivePause(p, q) PROVE TypeOK'
  <2>1. m_paused' \in [Ports -> [PGs -> BOOLEAN]] BY <1>4 DEF ReceivePause, TypeOK
  <2>2. m_resumeEvt' \in [Ports -> [PGs -> Nat]]
    BY <1>4, RouteAssumption DEF ReceivePause, TypeOK, Cancel
  <2> QED BY <1>4, <2>1, <2>2 DEF ReceivePause, TypeOK, mmuVars, queueVars
<1>5. ASSUME NEW p \in Pausers, NEW q \in PGs, ReceiveResume(p, q) PROVE TypeOK'
  <2>1. p \in Ports /\ PauseFinish(p, q) BY <1>5, RouteAssumption DEF ReceiveResume
  <2>2. m_resumeEvt' \in [Ports -> [PGs -> Nat]]
    BY <1>5, <2>1 DEF ReceiveResume, TypeOK, Cancel
  <2> QED BY <2>1, <2>2, PauseFinishType
<1>6. ASSUME NEW p \in Ports, NEW q \in PGs, ResumeTimer(p, q) PROVE TypeOK'
  <2>1. PauseFinish(p, q) BY <1>6 DEF ResumeTimer
  <2>2. m_resumeEvt' \in [Ports -> [PGs -> Nat]]
    BY <1>6 DEF ResumeTimer, TypeOK
  <2> QED BY <2>1, <2>2, PauseFinishType
<1>7. ASSUME NEW p \in Ports, NEW i \in Ports, NEW q \in PGs, Recheck(p, i, q) PROVE TypeOK'
  <2>1. CheckQueueFull(Current, p, i, q, FALSE) /\ UNCHANGED <<m_rrlast, m_paused, m_resumeEvt>>
    BY <1>7 DEF Recheck
  <2>2. /\ BufferTypeOK'
        /\ m_pause_remote' \in [Ports -> [PGs -> BOOLEAN]]
        /\ m_recheckEvt' \in [Ports -> [Ports -> [PGs -> BOOLEAN]]]
    BY <2>1, CurrentType, CheckQueueFullType
  <2> QED BY <2>1, <2>2 DEF TypeOK, BufferTypeOK
<1>8. CASE UNCHANGED vars
  BY <1>8 DEF vars, mmuVars, queueVars, pfcVars, TypeOK
<1> QED BY <1>1, <1>2, <1>3, <1>4, <1>5, <1>6, <1>7, <1>8 DEF Next

(***************************************************************************)
(* Every reachable state of the switch is well typed: in particular the    *)
(* scheduler never pops an empty queue, whatever combination of handlers   *)
(* led to the call of DequeueAndTransmit.                                  *)
(***************************************************************************)
THEOREM TypeCorrect == Spec => []TypeOK
BY InitType, NextType, PTL DEF Spec

-----------------------------------------------------------------------------
(* No lost wake-up *)

\* The transmitter of device p of s sleeps only with nothing to send.
Working(s, p, paused) ==
    s.cur[p] = NoPacket =>
      /\ s.ctl[p] = <<>>
      /\ \A q \in PGs : s.qs[p][q] # <<>> => paused[p][q]

LEMMA FrameIsPacket == ASSUME NEW f \in Frame PROVE f # NoPacket
<1>1. f.kind # "NONE" BY DEF Frame
<1>2. NoPacket.kind = "NONE" BY DEF NoPacket
<1> QED BY <1>1, <1>2

\* DequeueAndTransmit leaves its own device working, whatever state it finds.
LEMMA TransmitWorking ==
  ASSUME NEW s \in States, NEW p \in Ports, NEW paused, NEW lag \in SUBSET PGs,
         m_rrlast \in [Ports -> Classes], NEW ce \in BOOLEAN,
         \A r \in Ports \ {p} : Working(s, r, paused)
  PROVE  \A r \in Ports : Working(Transmit(s, p, Served(s, p, paused, lag), ce), r, paused)
<1> DEFINE c == Served(s, p, paused, lag)
           t == Transmit(s, p, c, ce)
<1>1. Servable(s, p, c) BY ServedServable
<1>2. s.cur[p] = NoPacket /\ c = None => Working(s, p, paused)
  <2> SUFFICES ASSUME s.cur[p] = NoPacket, c = None PROVE Working(s, p, paused) OBVIOUS
  <2>1. c = DoDequeueRR(s.qs[p], s.ctl[p], paused[p], m_rrlast[p], lag) BY DEF Served
  <2>2. m_rrlast[p] \in Classes OBVIOUS
  <2>3. None # qCnt - 1 /\ None \notin PGs BY ClassAssumption DEF None, qCnt
  <2> HIDE DEF c
  <2> DEFINE qs == s.qs[p]
             ctl == s.ctl[p]
             off == paused[p]
             last == m_rrlast[p]
  <2> HIDE DEF qs, ctl, off, last
  <2>4. c = DoDequeueRR(qs, ctl, off, last, lag) /\ last \in Classes
    BY <2>1, <2>2 DEF qs, ctl, off, last
  <2>5. LET d == DoDequeueRR(qs, ctl, off, last, lag)
        IN  \/ d = None /\ ctl = <<>> /\ \A q \in PGs : qs[q] # <<>> => off[q]
            \/ d = qCnt - 1 /\ ctl # <<>>
            \/ d \in PGs /\ qs[d] # <<>>
    BY <2>4, DequeueServable, Zenon
  <2>6. ctl = <<>> /\ \A q \in PGs : qs[q] # <<>> => off[q]
    BY <2>3, <2>4, <2>5, Zenon
  <2> QED BY <2>6 DEF Working, qs, ctl, off
<1>3. s.cur[p] # NoPacket => c = None BY DEF Served
<1> HIDE DEF c
<1>4. CASE c = None
  <2>1. t = s BY <1>4 DEF Transmit
  <2>2. Working(s, p, paused) BY <1>2, <1>4 DEF Working
  <2> QED BY <2>1, <2>2 DEF c
<1>5. CASE c = qCnt - 1
  <2>1. s.ctl[p] # <<>> /\ s.ctl[p] \in Seq(Frame)
    BY <1>1, <1>5, ClassAssumption DEF Servable, States, None, qCnt
  <2>2. Head(s.ctl[p]) # NoPacket BY <2>1, HeadTailType, FrameIsPacket
  <2>3. t = TransmitControl(s, p) BY <1>5 DEF Transmit, None, qCnt
  <2>4. t.cur[p] = Head(s.ctl[p]) BY <2>3 DEF TransmitControl, States
  <2>5. \A r \in Ports \ {p} :
          t.cur[r] = s.cur[r] /\ t.ctl[r] = s.ctl[r] /\ t.qs[r] = s.qs[r]
    BY <2>3 DEF TransmitControl, States
  <2> QED BY <2>2, <2>4, <2>5 DEF Working, c
<1>6. CASE c \in PGs
  <2>1. c # None /\ c # qCnt - 1 BY <1>6, ClassAssumption DEF None, qCnt
  <2>2. t = TransmitData(s, p, c, ce) BY <2>1 DEF Transmit
  <2>3. [kind |-> "DATA", class |-> c, ce |-> ce] \in Frame
    BY <1>6, ClassAssumption DEF Frame, Classes, qCnt
  <2>4. t.cur[p] = [kind |-> "DATA", class |-> c, ce |-> ce]
    BY <2>2 DEF TransmitData, States
  <2>5. \A r \in Ports \ {p} :
          t.cur[r] = s.cur[r] /\ t.ctl[r] = s.ctl[r] /\ t.qs[r] = s.qs[r]
    BY <1>6, <2>2 DEF TransmitData, States
  <2> QED BY <2>3, <2>4, <2>5, FrameIsPacket DEF Working, c
<1> QED BY <1>1, <1>4, <1>5, <1>6 DEF Servable

LEMMA SendFramesWorking ==
  ASSUME NEW s \in States, NEW i \in Ports, NEW frames \in Seq(Frame), NEW paused,
         \A r \in Ports : Working(s, r, paused)
  PROVE  \A r \in Ports : Working(SendFrames(s, i, frames), r, paused)
<1> DEFINE t      == SendFrames(s, i, frames)
           queue  == s.ctl[i] \o frames
           starts == frames # <<>> /\ s.cur[i] = NoPacket
<1>1. s.ctl[i] \in Seq(Frame) BY DEF States
<1>2. /\ t.qs = s.qs
      /\ t.ctl = [s.ctl EXCEPT ![i] = IF starts THEN Tail(queue) ELSE queue]
      /\ t.cur = [s.cur EXCEPT ![i] = IF starts THEN Head(queue) ELSE @]
  BY DEF SendFrames
<1>3. \A r \in Ports \ {i} : t.cur[r] = s.cur[r] /\ t.ctl[r] = s.ctl[r] BY <1>2 DEF States
<1>4. t.cur[i] = (IF starts THEN Head(queue) ELSE s.cur[i]) BY <1>2 DEF States
<1>5. t.ctl[i] = (IF starts THEN Tail(queue) ELSE queue) BY <1>2 DEF States
<1>6. starts => Head(queue) # NoPacket
  <2> SUFFICES ASSUME starts PROVE Head(queue) # NoPacket OBVIOUS
  <2>1. queue \in Seq(Frame) BY <1>1
  <2>2. Len(frames) > 0 /\ Len(queue) = Len(s.ctl[i]) + Len(frames) BY <1>1
  <2>3. queue # <<>> BY <1>1, <2>2
  <2> QED BY <2>1, <2>3, HeadTailType, FrameIsPacket
<1>7. frames = <<>> => queue = s.ctl[i] BY <1>1
<1> HIDE DEF t, queue
<1>8. Working(t, i, paused) BY <1>2, <1>4, <1>5, <1>6, <1>7 DEF Working
<1>9. \A r \in Ports \ {i} : Working(t, r, paused) BY <1>2, <1>3 DEF Working
<1> QED BY <1>8, <1>9 DEF t

\* A data packet is queued at p only, and DequeueAndTransmit of p follows.
LEMMA AdmitWorking ==
  ASSUME NEW s \in States, NEW p \in Ports, NEW i, NEW q \in PGs, NEW z, NEW paused,
         \A r \in Ports : Working(s, r, paused)
  PROVE  \A r \in Ports \ {p} : Working(Admit(s, p, i, q, z), r, paused)
<1> DEFINE t == Admit(s, p, i, q, z)
<1>1. t.cur = s.cur /\ t.ctl = s.ctl /\ \A r \in Ports \ {p} : t.qs[r] = s.qs[r]
  BY DEF Admit, States
<1> HIDE DEF t
<1> QED BY <1>1 DEF Working, t

AllWorking == \A p \in Ports : Working(Current, p, m_paused)

LEMMA BecomeWorking ==
  ASSUME NEW s, \A r \in Ports : Working(s, r, m_paused'), Become(s)
  PROVE  AllWorking'
BY DEF Become, Current, AllWorking, Working

LEMMA DequeueWorking ==
  ASSUME TypeOK, NEW s \in States, NEW p \in Ports, DequeueAndTransmit(s, p, m_paused'),
         \A r \in Ports \ {p} : Working(s, r, m_paused')
  PROVE  AllWorking'
<1> DEFINE c(lag) == Served(s, p, m_paused', lag)
<1>1. PICK lag \in SUBSET PGs : \E ce \in Marks(s, p, c(lag)) :
        Become(Transmit(s, p, c(lag), ce))
  BY DEF DequeueAndTransmit
<1>2. PICK ce \in Marks(s, p, c(lag)) : Become(Transmit(s, p, c(lag), ce)) BY <1>1
<1>3. ce \in BOOLEAN BY MarksType
<1>4. \A r \in Ports : Working(Transmit(s, p, c(lag), ce), r, m_paused')
  BY <1>3, TransmitWorking DEF TypeOK
<1> QED BY <1>2, <1>4, BecomeWorking

LEMMA CheckQueueFullWorking ==
  ASSUME NEW s \in States, NEW p, NEW i \in Ports, NEW q, NEW pending,
         CheckQueueFull(s, p, i, q, pending),
         \A r \in Ports : Working(s, r, m_paused')
  PROVE  AllWorking'
<1> DEFINE pauses  == GetPauseClasses(s.in, i, q)
           paused  == m_pause_remote[i][q] \/ pauses # {}
           resumes == paused /\ GetResumeClasses(s.in, i, q)
           resume  == IF resumes THEN <<ControlFrame("RESUME", ResumeClass(q))>> ELSE <<>>
<1>1. Become(SendFrames(s, i, PauseFrames(pauses) \o resume)) BY DEF CheckQueueFull
<1>2. resume \in Seq(Frame)
  <2>1. ControlFrame("RESUME", ResumeClass(q)) \in Frame
    BY DEF ControlFrame, ResumeClass, Frame, Classes, qCnt
  <2>2. <<ControlFrame("RESUME", ResumeClass(q))>> \in Seq(Frame) BY <2>1
  <2> QED BY <2>2
<1> HIDE DEF pauses, resume
<1>3. PauseFrames(pauses) \o resume \in Seq(Frame) BY <1>2, PauseFramesType
<1> QED BY <1>1, <1>3, SendFramesWorking, BecomeWorking

LEMMA NextWorking == TypeOK /\ AllWorking /\ [Next]_vars => AllWorking'
<1> SUFFICES ASSUME TypeOK, AllWorking, [Next]_vars PROVE AllWorking' OBVIOUS
<1>0. Current \in States /\ \A r \in Ports : Working(Current, r, m_paused)
  BY CurrentType DEF AllWorking
<1>1. ASSUME NEW r \in Routes, NEW q \in PGs, NEW z \in Sizes, Send(r[2], r[1], q, z)
      PROVE  AllWorking'
  <2> DEFINE p == r[2]
             i == r[1]
             s == Admit(Current, p, i, q, z)
  <2>1. p \in Ports /\ i \in Ports BY RouteAssumption
  <2> HIDE DEF p, i
  <2>2. s \in States /\ \A d \in Ports \ {p} : Working(s, d, m_paused)
    BY <1>0, <2>1, AdmitType, AdmitWorking
  <2> HIDE DEF s
  <2>3. PICK lag \in SUBSET PGs : \E ce \in Marks(s, p, Served(s, p, m_paused, lag)) :
          CheckQueueFull(Transmit(s, p, Served(s, p, m_paused, lag), ce), p, i, q,
                         m_recheckEvt[p][i][q])
    BY <1>1 DEF Send, s, p, i
  <2>4. PICK ce \in Marks(s, p, Served(s, p, m_paused, lag)) :
          CheckQueueFull(Transmit(s, p, Served(s, p, m_paused, lag), ce), p, i, q,
                         m_recheckEvt[p][i][q])
    BY <2>3
  <2> DEFINE t == Transmit(s, p, Served(s, p, m_paused, lag), ce)
  <2>5. m_rrlast \in [Ports -> Classes] /\ ce \in BOOLEAN BY MarksType DEF TypeOK
  <2>6. t \in States BY <2>1, <2>2, <2>5, ServedServable, TransmitType
  <2>7. \A d \in Ports : Working(t, d, m_paused) BY <2>1, <2>2, <2>5, TransmitWorking
  <2>8. m_paused' = m_paused BY <1>1 DEF Send
  <2> HIDE DEF t
  <2> QED BY <2>1, <2>4, <2>6, <2>7, <2>8, CheckQueueFullWorking DEF t
<1>2. ASSUME NEW p \in Transits, SendControl(p) PROVE AllWorking'
  <2>1. p \in Ports BY RouteAssumption
  <2> DEFINE f == ControlFrame("TRANSIT", qCnt - 1)
             s == [Current EXCEPT !.ctl[p] = Append(@, f)]
  <2>2. f \in Frame BY DEF ControlFrame, Frame, Classes, qCnt
  <2> HIDE DEF f
  <2>3. s \in States
    <3>1. Current.ctl \in [Ports -> Seq(Frame)] BY <1>0 DEF States
    <3>2. Append(Current.ctl[p], f) \in Seq(Frame) BY <2>1, <2>2, <3>1
    <3> QED BY <1>0, <2>1, <3>1, <3>2 DEF States
  <2>4. /\ s.cur = Current.cur /\ s.qs = Current.qs
        /\ \A r \in Ports \ {p} : s.ctl[r] = Current.ctl[r]
    BY <1>0 DEF States
  <2>5. DequeueAndTransmit(s, p, m_paused) /\ m_paused' = m_paused
    BY <1>2 DEF SendControl, f, pfcVars
  <2> HIDE DEF s
  <2>6. \A r \in Ports \ {p} : Working(s, r, m_paused) BY <1>0, <2>4 DEF Working
  <2> QED BY <2>1, <2>3, <2>5, <2>6, DequeueWorking
<1>3. ASSUME NEW p \in Ports, TransmitComplete(p) PROVE AllWorking'
  <2> DEFINE s == [Current EXCEPT !.cur[p] = NoPacket]
  <2>1. s \in States BY <1>0 DEF States
  <2>2. /\ s.ctl = Current.ctl /\ s.qs = Current.qs
        /\ \A r \in Ports \ {p} : s.cur[r] = Current.cur[r]
    BY <1>0 DEF States
  <2>3. DequeueAndTransmit(s, p, m_paused) /\ m_paused' = m_paused
    BY <1>3 DEF TransmitComplete, pfcVars
  <2> HIDE DEF s
  <2>4. \A r \in Ports \ {p} : Working(s, r, m_paused) BY <1>0, <2>2 DEF Working
  <2> QED BY <2>1, <2>3, <2>4, DequeueWorking
<1>4. ASSUME NEW p \in Ports, NEW q \in PGs, PauseFinish(p, q) PROVE AllWorking'
  <2>1. DequeueAndTransmit(Current, p, m_paused') BY <1>4 DEF PauseFinish
  <2>2. \A r \in Ports \ {p} : m_paused'[r] = m_paused[r] BY <1>4 DEF PauseFinish, TypeOK
  <2>3. \A r \in Ports \ {p} : Working(Current, r, m_paused') BY <1>0, <2>2 DEF Working
  <2> QED BY <1>0, <2>1, <2>3, DequeueWorking
<1>5. ASSUME NEW p \in Pausers, NEW q \in PGs, ReceivePause(p, q) PROVE AllWorking'
  <2>1. \A r \in Ports, c \in PGs : m_paused[r][c] => m_paused'[r][c]
    BY <1>5 DEF ReceivePause, TypeOK
  <2>2. Current' = Current BY <1>5 DEF ReceivePause, Current, mmuVars, queueVars
  <2> QED BY <2>1, <2>2 DEF AllWorking, Working
<1>6. ASSUME NEW p \in Ports, NEW i \in Ports, NEW q \in PGs, Recheck(p, i, q)
      PROVE  AllWorking'
  <2>1. CheckQueueFull(Current, p, i, q, FALSE) /\ m_paused' = m_paused BY <1>6 DEF Recheck
  <2> QED BY <1>0, <2>1, CheckQueueFullWorking
<1>7. CASE UNCHANGED vars
  BY <1>7 DEF vars, mmuVars, queueVars, pfcVars, AllWorking, Working, Current
<1> QED BY <1>1, <1>2, <1>3, <1>4, <1>5, <1>6, <1>7, RouteAssumption
        DEF Next, ReceiveResume, ResumeTimer

(***************************************************************************)
(* No lost wake-up, for every set of devices and classes: a switch device  *)
(* is READY only with an empty control queue and every backlogged class    *)
(* paused.  Each handler that queues a packet or resumes a class calls     *)
(* DequeueAndTransmit of that very device, and the frames CheckQueueFull   *)
(* sends start the ingress device's transmitter if it is idle.             *)
(***************************************************************************)
THEOREM NoLostWakeup == Spec => []WorkConserving
<1>1. Init => AllWorking BY DEF Init, AllWorking, Working, Current
<1>2. AllWorking => WorkConserving BY DEF AllWorking, Working, Current, WorkConserving
<1> QED BY <1>1, <1>2, NextWorking, TypeCorrect, PTL DEF Spec

(***************************************************************************)
(* A paused class has exactly one PauseFinish event pending and any other  *)
(* class none, for every interleaving of PAUSE frames, RESUME frames and   *)
(* expiring timers: no pause lasts for ever, and no second expiry reaches  *)
(* the assertion of Resume.                                                *)
(***************************************************************************)
THEOREM PausesEnd == Spec => []PausedHasTimer
<1>1. Init => PausedHasTimer BY DEF Init, PausedHasTimer
<1>2. TypeOK /\ PausedHasTimer /\ [Next]_vars => PausedHasTimer'
  <2> SUFFICES ASSUME TypeOK, PausedHasTimer, [Next]_vars PROVE PausedHasTimer' OBVIOUS
  <2>1. ASSUME UNCHANGED <<m_paused, m_resumeEvt>> PROVE PausedHasTimer'
    BY <2>1 DEF PausedHasTimer
  <2>2. ASSUME NEW p \in Ports, NEW q \in PGs, NEW e \in 0..1, NEW b \in BOOLEAN,
               m_resumeEvt' = [m_resumeEvt EXCEPT ![p][q] = e],
               m_paused' = [m_paused EXCEPT ![p][q] = b],
               e = IF b THEN 1 ELSE 0
        PROVE  PausedHasTimer'
    <3> SUFFICES ASSUME NEW i \in Ports, NEW c \in PGs
                 PROVE  m_resumeEvt'[i][c] = IF m_paused'[i][c] THEN 1 ELSE 0
      BY DEF PausedHasTimer
    <3>1. CASE i = p /\ c = q
      <4>1. m_resumeEvt'[i][c] = e BY <2>2, <3>1 DEF TypeOK
      <4>2. m_paused'[i][c] = b BY <2>2, <3>1 DEF TypeOK
      <4> QED BY <2>2, <4>1, <4>2
    <3>2. CASE ~(i = p /\ c = q)
      <4>1. m_resumeEvt'[i][c] = m_resumeEvt[i][c] BY <2>2, <3>2 DEF TypeOK
      <4>2. m_paused'[i][c] = m_paused[i][c] BY <2>2, <3>2 DEF TypeOK
      <4> QED BY <4>1, <4>2 DEF PausedHasTimer
    <3> QED BY <3>1, <3>2
  <2>3. \A p \in Ports, q \in PGs : m_resumeEvt[p][q] \in 0..1 /\ Cancel(m_resumeEvt[p][q]) = 0
    BY DEF PausedHasTimer, Cancel
  <2>8. ASSUME NEW p \in Ports, NEW q \in PGs,
               m_resumeEvt' = [m_resumeEvt EXCEPT ![p][q] = 0],
               m_paused' = [m_paused EXCEPT ![p][q] = FALSE]
        PROVE  PausedHasTimer'
    <3>1. 0 \in 0..1 /\ FALSE \in BOOLEAN /\ 0 = IF FALSE THEN 1 ELSE 0 OBVIOUS
    <3> QED BY <2>2, <2>8, <3>1
  <2>4. ASSUME NEW p \in Pausers, NEW q \in PGs, ReceivePause(p, q) PROVE PausedHasTimer'
    <3>1. p \in Ports BY RouteAssumption
    <3>2. PICK e \in 0..1 : e = Cancel(m_resumeEvt[p][q]) + 1 /\ e = 1 BY <2>3, <3>1
    <3>3. /\ m_resumeEvt' = [m_resumeEvt EXCEPT ![p][q] = e]
          /\ m_paused' = [m_paused EXCEPT ![p][q] = TRUE]
      BY <2>4, <3>2 DEF ReceivePause
    <3>4. TRUE \in BOOLEAN /\ e = IF TRUE THEN 1 ELSE 0 BY <3>2
    <3> QED BY <2>2, <3>1, <3>3, <3>4
  <2>5. ASSUME NEW p \in Pausers, NEW q \in PGs, ReceiveResume(p, q) PROVE PausedHasTimer'
    <3>1. p \in Ports BY RouteAssumption
    <3>2. /\ m_resumeEvt' = [m_resumeEvt EXCEPT ![p][q] = 0]
          /\ m_paused' = [m_paused EXCEPT ![p][q] = FALSE]
      BY <2>3, <2>5, <3>1 DEF ReceiveResume, PauseFinish
    <3> QED BY <2>8, <3>1, <3>2
  <2>6. ASSUME NEW p \in Ports, NEW q \in PGs, ResumeTimer(p, q) PROVE PausedHasTimer'
    <3>1. m_resumeEvt[p][q] - 1 = 0 BY <2>3, <2>6 DEF ResumeTimer
    <3>2. /\ m_resumeEvt' = [m_resumeEvt EXCEPT ![p][q] = 0]
          /\ m_paused' = [m_paused EXCEPT ![p][q] = FALSE]
      BY <2>6, <3>1 DEF ResumeTimer, PauseFinish
    <3> QED BY <2>8, <3>2
  <2>7. CASE UNCHANGED vars BY <2>1, <2>7 DEF vars, pfcVars
  <2> QED BY <2>1, <2>4, <2>5, <2>6, <2>7, RouteAssumption
          DEF Next, Send, SendControl, TransmitComplete, Recheck, pfcVars
<1> QED BY <1>1, <1>2, TypeCorrect, PTL DEF Spec
=============================================================================
