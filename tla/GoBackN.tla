------------------------------- MODULE GoBackN -------------------------------
(***************************************************************************)
(* The layer-2 go-back-N of the NICs (QbbNetDevice on nodes of type 0):    *)
(* one flow from a sending to a receiving NIC.                             *)
(*                                                                         *)
(* The sender keeps a copy of every packet in m_sendingBuffer until it is  *)
(* acknowledged and refills its transmit queue from there after a NACK or  *)
(* a timeout.  The receiver counts what arrives in order and answers with  *)
(* ACKs and NACKs.  With L2WaitForAck the sender stops after each message  *)
(* of m_chunk packets until the ACK.  With L2BackToZero both sides go back *)
(* to the start of the message.                                            *)
(*                                                                         *)
(* The flow is not throttled: a transmitter that becomes READY may send    *)
(* the next packet.  Packets are their sequence numbers.  The network is   *)
(* external: data packets arrive in order or are lost; replies arrive in   *)
(* order, except that a NACK, which a switch queues in its highest class,  *)
(* overtakes ACKs, which it queues in class 1.                             *)
(***************************************************************************)
EXTENDS Integers, Sequences, SequencesExt

CONSTANTS
    Modes,           \* the attribute settings to consider
    BufferCap,       \* the literal 8000 of the source
    MaxSeq,          \* bound: packets the application sends
    MaxData,         \* bound: packets in flight when one more is sent
    MaxLoss,         \* bound: lost data packets
    MaxAckLoss,      \* bound: lost ACKs
    MaxNackLoss      \* bound: lost NACKs

ASSUME ModeAssumption ==
    /\ Modes \subseteq [L2ChunkSize : Nat, L2AckInterval : Nat, L2WaitForAck : BOOLEAN,
                        L2BackToZero : BOOLEAN, L2TestRead : BOOLEAN]
    /\ \A m \in Modes : m.L2WaitForAck \/ m.L2BackToZero => m.L2ChunkSize > 0

ASSUME BoundAssumption ==
    /\ BufferCap \in Nat \ {0}
    /\ {MaxSeq, MaxData, MaxLoss, MaxAckLoss, MaxNackLoss} \subseteq Nat

VARIABLES
    attr,             \* the attributes, set before the simulation starts
    produced,         \* packets the application has sent
    m_sendingBuffer,  \* copies kept for retransmission
    m_queue,          \* the flow's transmit queue
    busy,             \* m_txMachineState is BUSY
    stopped,          \* m_nextAvail is 32767 s away
    m_waitingAck,
    m_retransmit,     \* Retransmit is scheduled
    m_milestone_tx,
    data,             \* packets on the way
    replies,          \* ACKs and NACKs on the way back
    expected,         \* ReceiverNextExpectedSeq
    m_milestone_rx,
    m_lastNACK,
    fault,            \* the receiver divided by zero
    losses,           \* data packets lost so far
    replyLosses       \* replies lost so far, by kind

senderVars   == <<produced, m_sendingBuffer>>
txVars       == <<m_queue, busy, stopped, m_waitingAck, m_retransmit, m_milestone_tx, data>>
receiverVars == <<expected, m_milestone_rx, m_lastNACK, fault>>
lossVars     == <<losses, replyLosses>>
vars         == <<attr, senderVars, txVars, receiverVars, replies, lossVars>>

m_chunk        == attr.L2ChunkSize
m_ack_interval == attr.L2AckInterval
m_waitAck      == attr.L2WaitForAck
m_backto0      == attr.L2BackToZero
m_testRead     == attr.L2TestRead

TypeOK ==
    /\ attr \in Modes
    /\ produced \in 0..MaxSeq
    /\ m_sendingBuffer \in Seq(0..(MaxSeq - 1)) /\ Len(m_sendingBuffer) <= BufferCap
    /\ m_queue \in Seq(0..(MaxSeq - 1))
    /\ {busy, stopped, m_waitingAck, m_retransmit, fault} \subseteq BOOLEAN
    /\ m_milestone_tx \in Nat
    /\ data \in Seq(0..(MaxSeq - 1))
    /\ replies \in Seq([kind : {"ACK", "NACK"}, seq : 0..MaxSeq])
    /\ expected \in 0..MaxSeq
    /\ m_milestone_rx \in Nat
    /\ m_lastNACK \in -1..MaxSeq
    /\ losses \in 0..MaxLoss
    /\ replyLosses \in [{"ACK", "NACK"} -> Nat]

Init ==
    /\ attr \in Modes
    /\ produced = 0
    /\ m_sendingBuffer = <<>>
    /\ m_queue = <<>>
    /\ busy = FALSE
    /\ stopped = FALSE
    /\ m_waitingAck = FALSE
    /\ m_retransmit = FALSE
    /\ m_milestone_tx = m_chunk
    /\ data = <<>>
    /\ replies = <<>>
    /\ expected = 0
    /\ m_milestone_rx = m_ack_interval
    /\ m_lastNACK = -1
    /\ fault = FALSE
    /\ losses = 0
    /\ replyLosses = [kind \in {"ACK", "NACK"} |-> 0]

-----------------------------------------------------------------------------
(* The sender's transmitter *)

Tx == [q |-> m_queue, busy |-> busy, stopped |-> stopped, waiting |-> m_waitingAck,
       timer |-> m_retransmit, milestone |-> m_milestone_tx]

(***************************************************************************)
(* DequeueAndTransmit of the NIC in state s: the head of the queue goes on *)
(* the wire unless the transmitter is BUSY or the flow is stopped.  The    *)
(* last packet of a message stops the flow and starts the timer.           *)
(***************************************************************************)
LastOfMessage(s, seq) == m_waitAck /\ seq >= s.milestone - 1

DequeueAndTransmit(s) ==
    /\ IF s.busy \/ s.stopped \/ s.q = <<>>
         THEN /\ m_queue' = s.q /\ busy' = s.busy /\ stopped' = s.stopped
              /\ m_waitingAck' = s.waiting /\ m_retransmit' = s.timer
              /\ data' = data
         ELSE LET last == LastOfMessage(s, Head(s.q))
              IN  /\ m_queue' = Tail(s.q) /\ busy' = TRUE /\ stopped' = last
                  /\ m_waitingAck' = (s.waiting \/ last)
                  /\ m_retransmit' = (s.timer \/ (last /\ ~s.waiting))
                  /\ data' = Append(data, Head(s.q))
    /\ m_milestone_tx' = s.milestone

MayTransmit == Len(data) <= MaxData

\* Send of the application's next packet; a full sending buffer drops its head.
Send ==
    /\ produced < MaxSeq
    /\ MayTransmit
    /\ produced' = produced + 1
    /\ m_sendingBuffer' = Append(IF Len(m_sendingBuffer) = BufferCap
                                   THEN Tail(m_sendingBuffer)
                                   ELSE m_sendingBuffer, produced)
    /\ DequeueAndTransmit([Tx EXCEPT !.q = Append(@, produced)])
    /\ UNCHANGED <<attr, receiverVars, replies, lossVars>>

TransmitComplete ==
    /\ busy
    /\ MayTransmit
    /\ DequeueAndTransmit([Tx EXCEPT !.busy = FALSE])
    /\ UNCHANGED <<attr, senderVars, receiverVars, replies, lossVars>>

\* RecoverQueue replaces the transmit queue by a copy of the buffer.
RecoverQueue(s, buffer) == [s EXCEPT !.q = buffer]

\* Mutant: the timer keeps running.
Release_KeepsTimer(s) == [s EXCEPT !.stopped = FALSE, !.waiting = FALSE]

\* The flow may send again: m_nextAvail = Now, the timer is cancelled.
Release(s) == [s EXCEPT !.stopped = FALSE, !.waiting = FALSE, !.timer = FALSE]

\* Mutant: the flow goes on without its unacknowledged packets.
Retransmit_NoRecover ==
    /\ m_retransmit
    /\ MayTransmit
    /\ DequeueAndTransmit(Release(Tx))
    /\ UNCHANGED <<attr, senderVars, receiverVars, replies, lossVars>>

Retransmit ==
    /\ m_retransmit
    /\ MayTransmit
    /\ DequeueAndTransmit(Release(RecoverQueue(Tx, m_sendingBuffer)))
    /\ UNCHANGED <<attr, senderVars, receiverVars, replies, lossVars>>

-----------------------------------------------------------------------------
(* The receiver *)

GoBack(seq) == IF m_backto0 THEN (seq \div m_chunk) * m_chunk ELSE seq

\* Mutant: the ACK carries a number one too high.
InOrder_AckAhead ==
    /\ expected' = expected + 1
    /\ replies' = IF expected + 1 > m_milestone_rx \/ (m_chunk > 0 /\ (expected + 1) % m_chunk = 0)
                    THEN Append(replies, [kind |-> "ACK", seq |-> expected + 2])
                    ELSE replies
    /\ m_milestone_rx' = IF expected + 1 > m_milestone_rx
                           THEN m_milestone_rx + m_ack_interval
                           ELSE m_milestone_rx
    /\ UNCHANGED <<m_lastNACK, fault>>

(***************************************************************************)
(* ReceiverCheckSeq of a packet with the expected number: an ACK each time *)
(* the count passes m_milestone_rx or is a multiple of m_chunk, tested in  *)
(* this order.                                                             *)
(***************************************************************************)
InOrder ==
    /\ expected' = expected + 1
    /\ \/ /\ expected + 1 > m_milestone_rx
          /\ m_milestone_rx' = m_milestone_rx + m_ack_interval
          /\ replies' = Append(replies, [kind |-> "ACK", seq |-> expected + 1])
          /\ fault' = FALSE
       \/ /\ expected + 1 <= m_milestone_rx
          /\ fault' = (m_chunk = 0)
          /\ replies' = IF m_chunk > 0 /\ (expected + 1) % m_chunk = 0
                          THEN Append(replies, [kind |-> "ACK", seq |-> expected + 1])
                          ELSE replies
          /\ UNCHANGED m_milestone_rx
    /\ UNCHANGED m_lastNACK

\* A packet from the future: at most one NACK per expected number and
\* m_nack_interval; elapsed says that the interval is over.
OutOfOrder(elapsed) ==
    /\ IF elapsed \/ m_lastNACK # expected
         THEN /\ m_lastNACK' = expected
              /\ expected' = IF m_testRead THEN expected ELSE GoBack(expected)
              /\ replies' = Append(replies, [kind |-> "NACK", seq |-> expected'])
         ELSE UNCHANGED <<m_lastNACK, expected, replies>>
    /\ UNCHANGED <<m_milestone_rx, fault>>

Receive ==
    /\ data # <<>>
    /\ \/ Head(data) = expected /\ InOrder
       \/ Head(data) > expected /\ \E elapsed \in BOOLEAN : OutOfOrder(elapsed)
       \/ Head(data) < expected /\ UNCHANGED <<receiverVars, replies>>
    /\ data' = Tail(data)
    /\ UNCHANGED <<attr, senderVars, m_queue, busy, stopped, m_waitingAck, m_retransmit,
                   m_milestone_tx, lossVars>>

\* A packet is lost: a switch has no room for it, or Receive finds it corrupt.
Lose ==
    /\ data # <<>>
    /\ losses < MaxLoss
    /\ losses' = losses + 1
    /\ data' = Tail(data)
    /\ UNCHANGED <<attr, senderVars, m_queue, busy, stopped, m_waitingAck, m_retransmit,
                   m_milestone_tx, receiverVars, replies, replyLosses>>

-----------------------------------------------------------------------------
(* The sender's replies *)

Arrivable ==
    {n \in DOMAIN replies :
       \/ n = 1
       \/ replies[n].kind = "NACK" /\ \A k \in 1..(n - 1) : replies[k].kind = "ACK"}

\* The sending buffer after the packets before seq are taken off its head.
DropBefore(seq) ==
    LET first == CHOOSE n \in 1..(Len(m_sendingBuffer) + 1) :
                   /\ \A k \in 1..(n - 1) : m_sendingBuffer[k] < seq
                   /\ n <= Len(m_sendingBuffer) => m_sendingBuffer[n] >= seq
    IN  SubSeq(m_sendingBuffer, first, Len(m_sendingBuffer))

\* Mutants: the message start is forgotten; the packet asked for is dropped too.
Trim_NoGoBack(seq) == DropBefore(seq)
Trim_OneMore(seq)  == DropBefore(GoBack(seq) + 1)

Trim(seq) == DropBefore(GoBack(seq))

ReceiveNACK(n) ==
    /\ replies[n].kind = "NACK"
    /\ m_sendingBuffer' = Trim(replies[n].seq)
    /\ LET s == RecoverQueue(Tx, m_sendingBuffer')
       IN  IF m_waitAck /\ m_waitingAck
             THEN DequeueAndTransmit(Release(s))
             ELSE /\ m_queue' = s.q
                  /\ UNCHANGED <<busy, stopped, m_waitingAck, m_retransmit, m_milestone_tx, data>>

\* Mutant: any ACK releases the next message.
ReceiveACK_AnySeq(n) ==
    /\ replies[n].kind = "ACK"
    /\ m_sendingBuffer' = IF m_ack_interval = 0 THEN m_sendingBuffer ELSE Trim(replies[n].seq)
    /\ IF m_waitAck
         THEN DequeueAndTransmit([Release(Tx) EXCEPT !.milestone = @ + m_chunk])
         ELSE UNCHANGED txVars

\* With m_ack_interval = 0 an ACK is reported as an error and trims nothing.
ReceiveACK(n) ==
    /\ replies[n].kind = "ACK"
    /\ m_sendingBuffer' = IF m_ack_interval = 0 THEN m_sendingBuffer ELSE Trim(replies[n].seq)
    /\ IF m_waitAck /\ replies[n].seq >= m_milestone_tx
         THEN DequeueAndTransmit([Release(Tx) EXCEPT !.milestone = @ + m_chunk])
         ELSE UNCHANGED txVars

ReceiveReply(n) ==
    /\ ReceiveNACK(n) \/ ReceiveACK(n)
    /\ replies' = RemoveAt(replies, n)
    /\ UNCHANGED <<attr, produced, receiverVars, lossVars>>

\* A reply is lost: Receive of a device drops a corrupted packet, and a switch
\* without room drops ACKs, which are subject to admission control.
LoseReply(n) ==
    LET kind == replies[n].kind
    IN  /\ replyLosses[kind] < (IF kind = "ACK" THEN MaxAckLoss ELSE MaxNackLoss)
        /\ replyLosses' = [replyLosses EXCEPT ![kind] = @ + 1]
        /\ replies' = RemoveAt(replies, n)
        /\ UNCHANGED <<attr, senderVars, txVars, receiverVars, losses>>

Next ==
    /\ ~fault
    /\ \/ Send
       \/ TransmitComplete
       \/ Retransmit
       \/ Receive
       \/ Lose
       \/ \E n \in Arrivable : ReceiveReply(n) \/ LoseReply(n)

Spec == Init /\ [][Next]_vars

(***************************************************************************)
(* The simulator runs every scheduled event: the end of a transmission,    *)
(* the arrival of a packet that is not lost, the timer, the application's  *)
(* next packet.                                                            *)
(***************************************************************************)
FairSpec ==
    /\ Spec
    /\ WF_vars(Send) /\ WF_vars(TransmitComplete) /\ WF_vars(Retransmit)
    /\ WF_vars(Receive) /\ WF_vars(\E n \in Arrivable : ReceiveReply(n))

-----------------------------------------------------------------------------
(* Properties *)

(***************************************************************************)
(* The sending buffer covers every reply that may arrive next: it is not   *)
(* empty, so the unchecked Peek of Receive finds a packet; for a NACK it   *)
(* starts at or before the packet to go back to (else the code prints      *)
(* "ERROR: Sendingbuffer miss!") and reaches it before it runs dry.        *)
(***************************************************************************)
BufferCovers ==
    \A n \in Arrivable :
      /\ m_sendingBuffer # <<>>
      /\ replies[n].kind = "NACK" =>
           GoBack(replies[n].seq) \in Head(m_sendingBuffer)..Last(m_sendingBuffer)

(***************************************************************************)
(* The sender discards a packet only when the receiver will never ask for  *)
(* it again: what is not in the buffer is before the point the receiver    *)
(* can still go back to, even when a NACK overtakes ACKs or the receiver   *)
(* has returned to the start of a message.                                 *)
(***************************************************************************)
NoEarlyDiscard ==
    \A k \in 0..(produced - 1) :
      k \in Range(m_sendingBuffer) \/ k < GoBack(expected)

(***************************************************************************)
(* "Wait for Ack before sending out next message." (L2WaitForAck): no      *)
(* packet beyond the current message is on the wire, and the message       *)
(* before it has been received completely, whatever retransmissions,       *)
(* duplicates and late replies are around.                                 *)
(***************************************************************************)
WaitHonoured ==
    m_waitAck =>
      /\ \A n \in DOMAIN data : data[n] < m_milestone_tx
      /\ m_milestone_tx - m_chunk <= GoBack(expected)

\* A flow that waits for an ACK has its Retransmit event pending, and only it.
WaitingHasTimer == m_retransmit = m_waitingAck /\ m_waitingAck = stopped

(***************************************************************************)
(* With L2WaitForAck the receiver gets every message in spite of lost data *)
(* packets and lost NACKs: the NACK or the Retransmit timer repairs every  *)
(* loss, unless it is an ACK that is lost.                                 *)
(***************************************************************************)
LossRepaired == <>(expected = MaxSeq \/ replyLosses["ACK"] > 0 \/ ~m_waitAck)

(***************************************************************************)
(* Sender and receiver together implement ReliableDelivery, in every mode: *)
(* the packets accepted for good are those the receiver can no longer go   *)
(* back before, and the packets released those that have left the sending  *)
(* buffer.  Acceptance is never revoked and nothing unaccepted is          *)
(* released, although NACKs overtake ACKs and both sides compute the start *)
(* of a message on their own.                                              *)
(***************************************************************************)
Abstract == INSTANCE ReliableDelivery WITH
    sent      <- produced,
    delivered <- GoBack(expected),
    released  <- IF m_sendingBuffer = <<>> THEN produced ELSE Head(m_sendingBuffer)

ImplementsDelivery == Abstract!Spec

-----------------------------------------------------------------------------
(* What comments and messages of the code say, and the code does not do *)

\* "go-back-to-N and go-back-to-0 that handle packet drop due to corruption"
\* (README): the receiver gets every packet.
AllReceived == <>(expected = MaxSeq)
=============================================================================
