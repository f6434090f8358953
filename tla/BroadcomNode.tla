---------------------------- MODULE BroadcomNode ----------------------------
(***************************************************************************)
(* The shared-buffer admission control of the switch, class BroadcomNode   *)
(* (src/src/network/model/broadcom-node.cc).                               *)
(*                                                                         *)
(* The object only counts: every packet the switch buffers is charged to   *)
(* its ingress device and priority group and to its egress device and      *)
(* queue.  The two groups of counters are two records,                     *)
(*                                                                         *)
(*   ingress = [Total, SP, Port, PG, Headroom]   m_usedTotalBytes and      *)
(*                                               m_usedIngress*Bytes       *)
(*   egress  = [QMin, QShared, Port, SP]         m_usedEgress*Bytes        *)
(*                                                                         *)
(* and each method is an operator from counters to counters, so that       *)
(* QbbSwitch can compose several of them in one event handler.             *)
(*                                                                         *)
(* Every counter is a uint32_t.  W stands for 2^32; the sums of the code   *)
(* are Add and Sub, which wrap.                                            *)
(***************************************************************************)
EXTENDS Integers, FiniteSets

CONSTANTS
    Ports,                          \* interface indices of the switch
    PGs,                            \* priority classes of data packets
    W,                              \* 2^32
    Cell,                           \* the literal 1030 of the source
    m_maxBufferBytes,
    m_buffer_cell_limit_sp,         \* ingress service pool threshold
    m_pg_min_cell,                  \* ingress pg guarantee
    m_port_min_cell,                \* ingress port guarantee
    m_pg_shared_limit_cell,         \* PAUSE threshold of an ingress pg
    m_port_max_shared_cell,         \* PAUSE threshold of an ingress port
    m_pg_hdrm_limit,                \* ingress pg headroom
    m_port_min_cell_off,            \* resume threshold of an ingress port
    m_pg_shared_limit_cell_off,     \* resume threshold of an ingress pg
    m_q_min_cell,                   \* egress queue guarantee
    m_op_uc_port_config1_cell,      \* egress queue limit
    m_op_uc_port_config_cell,       \* egress port limit
    m_op_buffer_shared_limit_cell,  \* egress service pool limit
    m_dynamicth,                    \* USE_DYNAMIC_PFC_THRESHOLD
    m_pg_shared_alpha_cell,
    m_pg_shared_alpha_cell_off_diff,
    m_pg_qcn_threshold, m_pg_qcn_threshold_max,
    m_dctcp_threshold, m_dctcp_threshold_max

\* The highest class carries PFC, CNP and NACK frames and bypasses admission.
qCnt == 8

ASSUME ClassAssumption == PGs \subseteq 0..(qCnt - 2)

ASSUME ThresholdAssumption ==
    /\ W \in Nat /\ Cell \in Nat /\ m_maxBufferBytes \in Nat
    /\ m_buffer_cell_limit_sp \in Nat /\ m_pg_hdrm_limit \in Nat
    /\ m_pg_min_cell \in Nat /\ m_port_min_cell \in Nat /\ m_q_min_cell \in Nat
    /\ m_op_uc_port_config1_cell \in Nat
    /\ m_op_uc_port_config_cell \in Nat
    /\ m_op_buffer_shared_limit_cell \in Nat

\* A class or a port is resumed below the threshold that pauses it: 18 and 20
\* cells for a class, 4700 and 4800 for a port.
ASSUME PfcAssumption ==
    /\ m_pg_shared_limit_cell \in Nat /\ m_pg_shared_limit_cell_off \in Nat
    /\ m_port_max_shared_cell \in Nat /\ m_port_min_cell_off \in Nat
    /\ m_pg_shared_limit_cell_off <= m_pg_shared_limit_cell
    /\ m_port_min_cell_off <= m_port_max_shared_cell

\* The lower threshold of ECN marking is not above the upper one: 60 and 60
\* cells, 40 and 400 for the dctcp class, and KMIN <= KMAX in config.txt.
ASSUME MarkingAssumption ==
    /\ m_pg_qcn_threshold \in Nat /\ m_pg_qcn_threshold_max \in Nat
    /\ m_dctcp_threshold \in Nat /\ m_dctcp_threshold_max \in Nat
    /\ m_pg_qcn_threshold <= m_pg_qcn_threshold_max
    /\ m_dctcp_threshold <= m_dctcp_threshold_max

-----------------------------------------------------------------------------
(* uint32_t arithmetic *)

Word == 0..(W - 1)

Add(a, b) == IF a + b < W THEN a + b ELSE a + b - W

\* Mutant: signed counters.
Sub_Signed(a, b) == a - b

Sub(a, b) == IF a >= b THEN a - b ELSE a - b + W

-----------------------------------------------------------------------------
(* Service pools and the empty buffer *)

Pools == {0, 1}

GetIngressSP(port, pgIndex) == IF pgIndex = 1 THEN 1 ELSE 0

GetEgressSP(port, qIndex) == IF qIndex = 1 THEN 1 ELSE 0

IngressCounters ==
    [Total : Word, SP : [Pools -> Word], Port : [Ports -> Word],
     PG : [Ports -> [PGs -> Word]], Headroom : [Ports -> [PGs -> Word]]]

EgressCounters ==
    [QMin : [Ports -> [PGs -> Word]], QShared : [Ports -> [PGs -> Word]],
     Port : [Ports -> Word], SP : [Pools -> Word]]

EmptyIngress ==
    [Total |-> 0, SP |-> [k \in Pools |-> 0], Port |-> [p \in Ports |-> 0],
     PG |-> [p \in Ports |-> [q \in PGs |-> 0]],
     Headroom |-> [p \in Ports |-> [q \in PGs |-> 0]]]

EmptyEgress ==
    [QMin |-> [p \in Ports |-> [q \in PGs |-> 0]],
     QShared |-> [p \in Ports |-> [q \in PGs |-> 0]],
     Port |-> [p \in Ports |-> 0], SP |-> [k \in Pools |-> 0]]

-----------------------------------------------------------------------------
(* Admission *)

\* Mutant: the whole buffer is not checked.
CheckIngressAdmission_NoTotal(in, port, qIndex, psize) ==
    \/ Add(in.PG[port][qIndex], psize) <= m_pg_min_cell
    \/ Add(in.Port[port], psize) <= m_port_min_cell
    \/ in.SP[GetIngressSP(port, qIndex)] <= m_buffer_cell_limit_sp
    \/ Add(in.Headroom[port][qIndex], psize) <= m_pg_hdrm_limit

\* Mutant: the headroom is not checked.
CheckIngressAdmission_NoHeadroom(in, port, qIndex, psize) ==
    Add(in.Total, psize) <= m_maxBufferBytes

\* The headroom is consulted only when the pool is already over its limit and
\* neither guarantee covers the packet.
CheckIngressAdmission(in, port, qIndex, psize) ==
    /\ Add(in.Total, psize) <= m_maxBufferBytes
    /\ \/ Add(in.PG[port][qIndex], psize) <= m_pg_min_cell
       \/ Add(in.Port[port], psize) <= m_port_min_cell
       \/ in.SP[GetIngressSP(port, qIndex)] <= m_buffer_cell_limit_sp
       \/ Add(in.Headroom[port][qIndex], psize) <= m_pg_hdrm_limit

CheckEgressAdmission(out, port, qIndex, psize) ==
    /\ Add(out.SP[GetEgressSP(port, qIndex)], psize) <= m_op_buffer_shared_limit_cell
    /\ Add(out.Port[port], psize) <= m_op_uc_port_config_cell
    /\ Add(out.QShared[port][qIndex], psize) <= m_op_uc_port_config1_cell

-----------------------------------------------------------------------------
(* Charging and releasing the ingress counters *)

\* Mutant: the packet that takes the pool over its limit is not charged, as
\* CheckIngressAdmission does not look at the headroom for it.
UpdateIngressAdmission_Before(in, port, qIndex, psize) ==
    LET sp   == GetIngressSP(port, qIndex)
        pool == Add(in.SP[sp], psize)
    IN  [Total    |-> Add(in.Total, psize),
         SP       |-> [in.SP EXCEPT ![sp] = pool],
         Port     |-> [in.Port EXCEPT ![port] = Add(@, psize)],
         PG       |-> [in.PG EXCEPT ![port][qIndex] = Add(@, psize)],
         Headroom |-> IF in.SP[sp] > m_buffer_cell_limit_sp
                        THEN [in.Headroom EXCEPT ![port][qIndex] = Add(@, psize)]
                        ELSE in.Headroom]

UpdateIngressAdmission(in, port, qIndex, psize) ==
    LET sp   == GetIngressSP(port, qIndex)
        pool == Add(in.SP[sp], psize)
    IN  [Total    |-> Add(in.Total, psize),
         SP       |-> [in.SP EXCEPT ![sp] = pool],
         Port     |-> [in.Port EXCEPT ![port] = Add(@, psize)],
         PG       |-> [in.PG EXCEPT ![port][qIndex] = Add(@, psize)],
         Headroom |-> IF pool > m_buffer_cell_limit_sp
                        THEN [in.Headroom EXCEPT ![port][qIndex] = Add(@, psize)]
                        ELSE in.Headroom]

\* Mutant: the headroom is never given back.
RemoveFromIngressAdmission_KeepsHeadroom(in, port, qIndex, psize) ==
    LET sp == GetIngressSP(port, qIndex)
    IN  [Total    |-> Sub(in.Total, psize),
         SP       |-> [in.SP EXCEPT ![sp] = Sub(@, psize)],
         Port     |-> [in.Port EXCEPT ![port] = Sub(@, psize)],
         PG       |-> [in.PG EXCEPT ![port][qIndex] = Sub(@, psize)],
         Headroom |-> in.Headroom]

RemoveFromIngressAdmission(in, port, qIndex, psize) ==
    LET sp == GetIngressSP(port, qIndex)
    IN  [Total    |-> Sub(in.Total, psize),
         SP       |-> [in.SP EXCEPT ![sp] = Sub(@, psize)],
         Port     |-> [in.Port EXCEPT ![port] = Sub(@, psize)],
         PG       |-> [in.PG EXCEPT ![port][qIndex] = Sub(@, psize)],
         Headroom |-> [in.Headroom EXCEPT ![port][qIndex] =
                           IF @ > psize THEN @ - psize ELSE 0]]

-----------------------------------------------------------------------------
(* Charging and releasing the egress counters.  The queue's guaranteed     *)
(* counter QMin is topped up to Cell from its shared counter whenever it   *)
(* is below Cell and the shared counter is above Cell: the "patch for      *)
(* different size of packets".                                             *)

ChargeShared(out, port, qIndex, psize) ==
    LET sp == GetEgressSP(port, qIndex)
    IN  [QMin    |-> out.QMin,
         QShared |-> [out.QShared EXCEPT ![port][qIndex] = Add(@, psize)],
         Port    |-> [out.Port EXCEPT ![port] = Add(@, psize)],
         SP      |-> [out.SP EXCEPT ![sp] = Add(@, psize)]]

ReleaseShared(out, port, qIndex, psize) ==
    LET sp == GetIngressSP(port, qIndex)
    IN  [QMin    |-> out.QMin,
         QShared |-> [out.QShared EXCEPT ![port][qIndex] = Sub(@, psize)],
         Port    |-> [out.Port EXCEPT ![port] = Sub(@, psize)],
         SP      |-> [out.SP EXCEPT ![sp] = Sub(@, psize)]]

\* Mutant: what the guaranteed counter held is not returned to the shared ones.
PatchSizes_NoCredit(out, port, qIndex) ==
    LET sp == GetEgressSP(port, qIndex)
    IN  IF out.QMin[port][qIndex] < Cell /\ out.QShared[port][qIndex] > Cell
          THEN [QMin    |-> [out.QMin EXCEPT ![port][qIndex] = Cell],
                QShared |-> [out.QShared EXCEPT ![port][qIndex] = Sub(@, Cell)],
                Port    |-> [out.Port EXCEPT ![port] = Sub(@, Cell)],
                SP      |-> [out.SP EXCEPT ![sp] = Sub(@, Cell)]]
          ELSE out

\* Mutant: the counter of the port is not patched.
PatchSizes_NoPort(out, port, qIndex) ==
    LET sp  == GetEgressSP(port, qIndex)
        min == out.QMin[port][qIndex]
    IN  IF min < Cell /\ out.QShared[port][qIndex] > Cell
          THEN [QMin    |-> [out.QMin EXCEPT ![port][qIndex] = Cell],
                QShared |-> [out.QShared EXCEPT ![port][qIndex] = Add(Sub(@, Cell), min)],
                Port    |-> out.Port,
                SP      |-> [out.SP EXCEPT ![sp] = Add(Sub(@, Cell), min)]]
          ELSE out

PatchSizes(out, port, qIndex) ==
    LET sp  == GetEgressSP(port, qIndex)
        min == out.QMin[port][qIndex]
    IN  IF min < Cell /\ out.QShared[port][qIndex] > Cell
          THEN [QMin    |-> [out.QMin EXCEPT ![port][qIndex] = Cell],
                QShared |-> [out.QShared EXCEPT ![port][qIndex] = Add(Sub(@, Cell), min)],
                Port    |-> [out.Port EXCEPT ![port] = Add(Sub(@, Cell), min)],
                SP      |-> [out.SP EXCEPT ![sp] = Add(Sub(@, Cell), min)]]
          ELSE out

SetQMin(out, port, qIndex, min) ==
    [QMin |-> [out.QMin EXCEPT ![port][qIndex] = min],
     QShared |-> out.QShared, Port |-> out.Port, SP |-> out.SP]

UpdateEgressAdmission(out, port, qIndex, psize) ==
    LET min == Add(out.QMin[port][qIndex], psize)
    IN  IF min < m_q_min_cell
          THEN SetQMin(out, port, qIndex, min)
          ELSE PatchSizes(ChargeShared(out, port, qIndex, psize), port, qIndex)

RemoveFromEgressAdmission(out, port, qIndex, psize) ==
    IF out.QShared[port][qIndex] >= psize
      THEN ReleaseShared(out, port, qIndex, psize)
      ELSE PatchSizes(SetQMin(out, port, qIndex, Sub(out.QMin[port][qIndex], psize)),
                      port, qIndex)

-----------------------------------------------------------------------------
(* Which classes to PAUSE, and whether a class may be resumed *)

\* The static rule pauses every class of a port above its limit, otherwise
\* only the class of the packet at hand; the dynamic rule examines every
\* class against the free space of the pool of the packet at hand.  PFC is
\* enabled on the dctcp class (m_enable_pfc_on_dctcp = 1, never changed).
GetPauseClasses(in, port, qIndex) ==
    IF m_dynamicth
      THEN {i \in PGs :
              LET used   == in.PG[port][i] - m_pg_min_cell - m_port_min_cell
                  unused == m_buffer_cell_limit_sp - in.SP[GetIngressSP(port, qIndex)]
              IN  used > 0 /\ used > m_pg_shared_alpha_cell * unused}
      ELSE IF in.Port[port] > m_port_max_shared_cell
             THEN 0..(qCnt - 1)
             ELSE {i \in {qIndex} : in.PG[port][qIndex] > m_pg_shared_limit_cell}

GetResumeClasses(in, port, qIndex) ==
    IF m_dynamicth
      THEN in.PG[port][qIndex] - m_pg_min_cell - m_port_min_cell
             < m_pg_shared_alpha_cell
                 * (m_buffer_cell_limit_sp - in.SP[GetIngressSP(port, qIndex)]
                      - m_pg_shared_alpha_cell_off_diff)
      ELSE /\ in.PG[port][qIndex] < m_pg_shared_limit_cell_off
           /\ in.Port[port] < m_port_min_cell_off

\* Mutant: the thresholds of the dctcp class and of the others swapped.
ShouldSendCN_Swapped(out, port, qIndex) ==
    LET used == out.QShared[port][qIndex]
        kmin == IF qIndex # 1 THEN m_dctcp_threshold ELSE m_pg_qcn_threshold
        kmax == IF qIndex # 1 THEN m_dctcp_threshold_max ELSE m_pg_qcn_threshold_max
    IN  IF used > kmax THEN {TRUE}
        ELSE IF used > kmin /\ kmin # kmax THEN {TRUE, FALSE}
        ELSE {FALSE}

(***************************************************************************)
(* Whether the packet leaving queue qIndex of port gets an ECN mark: never *)
(* at or below the lower threshold, always above the upper one, and with a *)
(* probability strictly between 0 and 1 in between.  The value is the set  *)
(* of possible answers.                                                    *)
(***************************************************************************)
ShouldSendCN(out, port, qIndex) ==
    LET used == out.QShared[port][qIndex]
        kmin == IF qIndex = 1 THEN m_dctcp_threshold ELSE m_pg_qcn_threshold
        kmax == IF qIndex = 1 THEN m_dctcp_threshold_max ELSE m_pg_qcn_threshold_max
    IN  IF used > kmax THEN {TRUE}
        ELSE IF used > kmin /\ kmin # kmax THEN {TRUE, FALSE}
        ELSE {FALSE}
=============================================================================
