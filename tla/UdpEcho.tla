------------------------------- MODULE UdpEcho -------------------------------
(***************************************************************************)
(* The applications of an RDMA flow: UdpEchoClient sends a chunk and waits *)
(* for the ack of UdpEchoServer before it sends the next one; it sends     *)
(* from a self-scheduled event, and holds back while the NIC has a queue.  *)
(*                                                                         *)
(* The network is external: QbbNetDevice passes every packet it receives   *)
(* up, retransmissions too (PointToPointReceive is called whatever         *)
(* ReceiverCheckSeq says), and its second draw of the error model loses a  *)
(* packet that the NIC has already accepted.  Packets carry only their     *)
(* size for these applications, so those in flight are counted.            *)
(***************************************************************************)
EXTENDS Naturals

CONSTANTS
    m_chunk,     \* ChunkSize, of the client and of the server
    m_size,      \* PacketSize
    m_count,     \* MaxPackets
    MaxExtra,    \* bound: duplicates
    MaxLost      \* bound: losses

ASSUME EchoAssumption ==
    /\ m_chunk \in Nat \ {0} /\ m_size \in Nat \ {0} /\ m_count \in Nat
    /\ MaxExtra \in Nat /\ MaxLost \in Nat

VARIABLES
    client,   \* the client: state, sent, allowed and pending Sends
    server,   \* the server: listening, received
    data,     \* data packets in flight
    acks,     \* acks in flight
    debug,    \* NS_ASSERT is compiled in
    fault,    \* how the program has failed
    counted,  \* history: bytes the server has counted
    extra,    \* history: duplicates of data and of acks
    lost      \* history: packets lost

vars == <<client, server, data, acks, debug, fault, counted, extra, lost>>

Init ==
    /\ client = [state |-> "new",    \* m_socket is null unless "running"
                 sent |-> 0, allowed |-> 0,
                 event |-> FALSE,    \* m_sendEvent is pending
                 orphans |-> 0]      \* pending Sends m_sendEvent no longer names
    /\ server = [up |-> TRUE, received |-> 0]
    /\ data = 0 /\ acks = 0
    /\ debug \in BOOLEAN
    /\ fault = "none"
    /\ counted = 0 /\ lost = 0
    /\ extra = [data |-> 0, ack |-> 0]

\* A program that has failed takes no further step.
Alive == fault = "none" /\ UNCHANGED debug

-----------------------------------------------------------------------------
(* UdpEchoClient *)

\* m_sendEvent names the new event; one that was pending stays scheduled.
Schedule(c) ==
    [c EXCEPT !.event = TRUE, !.orphans = IF c.event THEN @ + 1 ELSE @]

MaySend(c) == c.sent * m_size < c.allowed /\ c.sent < m_count

\* Mutant: the client goes on until it has sent its packets.
Rearm_UntilDone(c) == IF c.sent < m_count THEN Schedule(c) ELSE c

\* Mutant: one Send per ack.
Rearm_Never(c) == c

\* The next Send, unless the allowance is used up.
Rearm(c) == IF MaySend(c) THEN Schedule(c) ELSE c

\* Mutant: an ack does not start a client that has stopped sending.
Allow_Quiet(c) == [c EXCEPT !.allowed = @ + m_chunk]

\* Every ack allows a chunk and schedules a Send.
Allow(c) == Schedule([c EXCEPT !.allowed = @ + m_chunk])

StartApplication ==
    /\ Alive
    /\ client.state = "new"
    /\ client' = Schedule([client EXCEPT !.state = "running", !.allowed = m_chunk])
    /\ UNCHANGED <<server, data, acks, fault, counted, extra, lost>>

\* Closes the socket and cancels m_sendEvent.
StopApplication ==
    /\ Alive
    /\ client.state = "running"
    /\ client' = [client EXCEPT !.state = "stopped", !.event = FALSE]
    /\ UNCHANGED <<server, data, acks, fault, counted, extra, lost>>

\* The pending Sends: m_sendEvent and the others.
Taken(c, mine) ==
    IF mine THEN [c EXCEPT !.event = FALSE] ELSE [c EXCEPT !.orphans = @ - 1]

Pending(c, mine) == IF mine THEN c.event ELSE c.orphans > 0

\* A Send that trips over its assertion or over the null socket.
SendFails(mine) ==
    /\ Alive
    /\ Pending(client, mine)
    /\ LET c == Taken(client, mine)
       IN  \/ debug /\ c.event /\ fault' = "assert"
           \/ ~(debug /\ c.event) /\ c.state = "stopped" /\ fault' = "null"
    /\ client' = Taken(client, mine)
    /\ UNCHANGED <<server, data, acks, counted, extra, lost>>

\* One packet if the NIC has no queue for this flow (next_avail below 5 us)
\* and the allowance is not used up; then the next Send.
Send(mine, pushedBack) ==
    /\ Alive
    /\ Pending(client, mine)
    /\ LET c == Taken(client, mine)
           sends == ~pushedBack /\ MaySend(c)
           after == IF sends THEN [c EXCEPT !.sent = @ + 1] ELSE c
       IN  /\ ~(debug /\ c.event) /\ c.state = "running"
           /\ data' = IF sends THEN data + 1 ELSE data
           /\ client' = Rearm(after)
    /\ UNCHANGED <<server, acks, fault, counted, extra, lost>>

\* UdpEchoClient::HandleRead; a stopped client has no callback.
ClientRead ==
    /\ Alive
    /\ acks > 0
    /\ acks' = acks - 1
    /\ client' = IF client.state = "running" THEN Allow(client) ELSE client
    /\ UNCHANGED <<server, data, fault, counted, extra, lost>>

-----------------------------------------------------------------------------
(* UdpEchoServer *)

\* Mutant: an ack only for more than a chunk.
Full_Beyond(received) == received > m_chunk

Full(received) == received >= m_chunk

\* Mutant: the count goes on after an ack.
Count_NoReset(received) == received

Count(received) == IF Full(received) THEN 0 ELSE received

\* UdpEchoServer::HandleRead: bytes are counted up to a chunk; then an ack,
\* and the count starts from 0, whatever was beyond the chunk.
ServerRead ==
    /\ Alive
    /\ data > 0
    /\ data' = data - 1
    /\ IF server.up
       THEN LET received == server.received + m_size
            IN  /\ server' = [server EXCEPT !.received = Count(received)]
                /\ acks' = IF Full(received) THEN acks + 1 ELSE acks
                /\ counted' = counted + m_size
                /\ UNCHANGED lost
       ELSE /\ lost' = lost + 1
            /\ UNCHANGED <<server, acks, counted>>
    /\ UNCHANGED <<client, fault, extra>>

ServerStop ==
    /\ Alive
    /\ server.up
    /\ server' = [server EXCEPT !.up = FALSE]
    /\ UNCHANGED <<client, data, acks, fault, counted, extra, lost>>

-----------------------------------------------------------------------------
(* The network (external) *)

DuplicateData ==
    /\ Alive
    /\ data > 0 /\ extra.data + extra.ack < MaxExtra
    /\ data' = data + 1
    /\ extra' = [extra EXCEPT !.data = @ + 1]
    /\ UNCHANGED <<client, server, acks, fault, counted, lost>>

DuplicateAck ==
    /\ Alive
    /\ acks > 0 /\ extra.data + extra.ack < MaxExtra
    /\ acks' = acks + 1
    /\ extra' = [extra EXCEPT !.ack = @ + 1]
    /\ UNCHANGED <<client, server, data, fault, counted, lost>>

LosePacket ==
    /\ Alive
    /\ lost < MaxLost
    /\ \/ data > 0 /\ data' = data - 1 /\ UNCHANGED acks
       \/ acks > 0 /\ acks' = acks - 1 /\ UNCHANGED data
    /\ lost' = lost + 1
    /\ UNCHANGED <<client, server, fault, counted, extra>>

-----------------------------------------------------------------------------
Next ==
    \/ StartApplication
    \/ StopApplication
    \/ \E mine, pushedBack \in BOOLEAN : Send(mine, pushedBack)
    \/ \E mine \in BOOLEAN : SendFails(mine)
    \/ ClientRead
    \/ ServerRead
    \/ ServerStop
    \/ DuplicateData
    \/ DuplicateAck
    \/ LosePacket

Spec == Init /\ [][Next]_vars

\* The simulator starts the client and runs its events, the network delivers
\* what it does not lose, and the NIC drains its queue, so that a client that
\* keeps trying is not pushed back for ever.
FairSpec ==
    /\ Spec
    /\ WF_vars(StartApplication)
    /\ WF_vars(ClientRead)
    /\ WF_vars(ServerRead)
    /\ \A mine \in BOOLEAN :
          /\ WF_vars(\E pushedBack \in BOOLEAN : Send(mine, pushedBack))
          /\ SF_vars(Send(mine, FALSE))

-----------------------------------------------------------------------------
(* Properties *)

TypeOK ==
    /\ client.state \in {"new", "running", "stopped"}
    /\ client.sent \in 0..m_count
    /\ client.allowed \in Nat /\ client.orphans \in Nat /\ client.event \in BOOLEAN
    /\ server.received \in 0..(m_chunk - 1) /\ server.up \in BOOLEAN
    /\ data \in Nat /\ acks \in Nat
    /\ fault \in {"none", "assert", "null"}

\* HandleRead overwrites m_sendEvent without looking at it.  As long as nothing
\* is duplicated, no Send is pending then: the chunk that the server acknowledges
\* is the one that made the client stop.  So the assertion of Send holds, and no
\* Send is left behind to use the socket after StopApplication.
OrphanNeedsDuplicate ==
    client.orphans > 0 \/ fault # "none" => extra.data + extra.ack > 0

\* A client that may send has a Send pending, whatever the order of acks, pushed
\* back Sends and orphans.
ClientArmed ==
    client.state = "running" /\ MaySend(client) => client.event \/ client.orphans > 0

\* The window between client and server: the client is never more than a chunk
\* and a packet ahead of what the server has counted, unless an ack was
\* duplicated.
WindowHonoured ==
    extra.ack = 0 => client.sent * m_size < counted + m_chunk + m_size

\* A transfer stalls, with packets left to send, both applications up and nothing
\* pending or under way, only if a packet was lost on its way to an application:
\* the NIC draws from the error model once more in PointToPointReceive, after the
\* packet was acknowledged.  Whatever was duplicated, each chunk that arrives
\* completely opens the next one, if packets divide it.
StallNeedsLoss ==
    /\ m_chunk % m_size = 0
    /\ client.state = "running" /\ server.up /\ fault = "none"
    /\ client.sent < m_count
    /\ ~client.event /\ client.orphans = 0 /\ data = 0 /\ acks = 0
    => lost > 0

\* What such a loss does: unless a duplicate makes up for it, no ack is under way
\* any more, now or later, so that the client stops at the end of its chunk.  The
\* NIC has accepted the lost packet and neither application sends one again.
LossIsFinal == lost > 0 /\ extra.data + extra.ack = 0 => acks = 0

\* Every packet is sent, if nothing is lost and nobody stops or fails.
Finishes ==
    <>(client.sent = m_count \/ lost > 0 \/ client.state = "stopped" \/ ~server.up
         \/ fault # "none")

\* "The chunk size can be sent before getting an ack" (attribute ChunkSize): a
\* client that has sent its chunk gets the ack, if nothing is lost and nobody
\* stops or fails.
ChunkAcknowledged ==
    client.state = "running" /\ client.sent * m_size >= client.allowed
        ~> \/ client.sent * m_size < client.allowed
           \/ lost > 0 \/ client.state = "stopped" \/ ~server.up \/ fault # "none"
=============================================================================
