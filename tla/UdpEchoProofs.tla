---------------------------- MODULE UdpEchoProofs ----------------------------
(***************************************************************************)
(* UdpEcho: the type invariant, ClientArmed, OrphanNeedsDuplicate,         *)
(* WindowHonoured, StallNeedsLoss and LossIsFinal for every chunk, packet  *)
(* size and number of packets.                                             *)
(*                                                                         *)
(* The server acknowledges whole packets, so a chunk of the server is      *)
(* PacketsPerChunk packets, at least m_chunk bytes.  The argument counts   *)
(* in packets: k acks were read, q packets were counted, r of them after   *)
(* the last ack; w acks and g packets were wasted on the way.              *)
(***************************************************************************)
EXTENDS UdpEcho, Integers, TLAPS

PacketsPerChunk == (m_chunk + m_size - 1) \div m_size

\* Everything in flight or read was paid for: an ack by a chunk of packets that
\* were counted or by the duplication of another ack, a counted packet by one
\* that was sent or duplicated.
Balance(k, q, r) ==
    /\ client.allowed = IF client.state = "new" THEN 0 ELSE m_chunk * (1 + k)
    /\ server.received = r * m_size /\ r < PacketsPerChunk
    /\ counted = q * m_size
    /\ PacketsPerChunk * (k + acks) + r <= q + PacketsPerChunk * extra.ack
    /\ q + data <= client.sent + extra.data

\* What the client has sent, in packets of the chunks it was allowed; while
\* nothing was duplicated, a pending Send means that the last one is not full.
WithinChunks(k) ==
    /\ client.sent <= PacketsPerChunk * (1 + k)
    /\ extra.data + extra.ack = 0 =>
          /\ client.orphans = 0 /\ fault = "none"
          /\ client.event => client.sent < PacketsPerChunk * (1 + k)

\* Nothing vanishes but by a loss, or by an ack that comes after StopApplication.
Ledger(k, q, r, w, g) ==
    /\ PacketsPerChunk * (k + w + acks) + r = q + PacketsPerChunk * extra.ack
    /\ q + g + data = client.sent + extra.data
    /\ lost > 0 => w + g > 0
    /\ lost = 0 => g = 0 /\ (client.state # "stopped" => w = 0)

Paid(k, q, r) == \E w, g \in Nat : Ledger(k, q, r, w, g)

Accounted == \E k, q, r \in Nat : Balance(k, q, r) /\ WithinChunks(k) /\ Paid(k, q, r)

\* The last packet was sent below the allowance.
SentBelow == client.sent > 0 => client.sent * m_size < client.allowed + m_size

\* Before StartApplication nothing has happened; a stopped client has cancelled
\* its event.
Phase ==
    /\ client.state = "new" =>
          /\ client.sent = 0 /\ data = 0 /\ acks = 0 /\ counted = 0 /\ server.received = 0
          /\ extra.data = 0 /\ extra.ack = 0 /\ lost = 0
    /\ client.event => client.state = "running"
    /\ client.orphans > 0 => client.state # "new"

Client ==
    [state : {"new", "running", "stopped"}, sent : 0..m_count, allowed : Nat,
     event : BOOLEAN, orphans : Nat]

Types ==
    /\ client \in Client
    /\ server \in [up : BOOLEAN, received : 0..(m_chunk - 1)]
    /\ data \in Nat /\ acks \in Nat /\ counted \in Nat /\ lost \in Nat
    /\ fault \in {"none", "assert", "null"}
    /\ extra \in [data : Nat, ack : Nat]

IInv == Types /\ ClientArmed /\ SentBelow /\ Phase /\ Accounted

-----------------------------------------------------------------------------
(* Arithmetic of packets and chunks *)

\* Multiplication by a packet size is monotonic.
LEMMA TimesMonotonic ==
  ASSUME NEW a \in Nat, NEW b \in Nat, NEW c \in Nat, a <= b
  PROVE  a * c <= b * c
OBVIOUS

LEMMA TimesZero ==
  ASSUME NEW a \in Nat, NEW b \in Nat \ {0}, a * b = 0
  PROVE  a = 0
<1>1. ASSUME a >= 1 PROVE FALSE
  <2>1. 1 * b <= a * b BY <1>1, TimesMonotonic
  <2> QED BY <2>1
<1> QED BY <1>1

\* Division rounds down.
LEMMA Quotient ==
  ASSUME NEW a \in Nat, NEW b \in Nat \ {0}
  PROVE  a \div b \in Nat /\ (a \div b) * b <= a /\ a < (a \div b) * b + b
OBVIOUS

\* PacketsPerChunk is the least number of packets that holds a chunk.
LEMMA ChunkOfPackets ==
  /\ PacketsPerChunk \in Nat \ {0}
  /\ PacketsPerChunk * m_size >= m_chunk
  /\ (PacketsPerChunk - 1) * m_size < m_chunk
<1>1. PacketsPerChunk \in Nat /\ PacketsPerChunk * m_size >= m_chunk
      /\ (PacketsPerChunk - 1) * m_size < m_chunk
  BY EchoAssumption, Quotient DEF PacketsPerChunk
<1>2. PacketsPerChunk # 0 BY <1>1, EchoAssumption
<1> QED BY <1>1, <1>2

\* A chunk that packets divide holds exactly PacketsPerChunk of them.
LEMMA WholeChunk ==
  ASSUME m_chunk % m_size = 0
  PROVE  m_chunk = PacketsPerChunk * m_size
<1> DEFINE n == m_chunk \div m_size
<1>1. n \in Nat /\ m_chunk = n * m_size BY EchoAssumption
<1> HIDE DEF n
<1>2. CASE PacketsPerChunk <= n
  <2>1. PacketsPerChunk * m_size <= n * m_size
    BY <1>1, <1>2, TimesMonotonic, ChunkOfPackets, EchoAssumption
  <2> QED BY <1>1, <2>1, ChunkOfPackets, EchoAssumption
<1>3. CASE ~(PacketsPerChunk <= n)
  <2>1. n <= PacketsPerChunk - 1 /\ PacketsPerChunk - 1 \in Nat
    BY <1>1, <1>3, ChunkOfPackets
  <2>2. n * m_size <= (PacketsPerChunk - 1) * m_size
    BY <1>1, <2>1, TimesMonotonic, EchoAssumption
  <2>3. n * m_size \in Nat /\ (PacketsPerChunk - 1) * m_size \in Nat
    BY <1>1, <2>1, EchoAssumption
  <2> QED BY <1>1, <2>2, <2>3, ChunkOfPackets, EchoAssumption
<1> QED BY <1>2, <1>3

\* The server acknowledges exactly the last packet of a chunk.
LEMMA ChunkComplete ==
  ASSUME NEW r \in Nat, r < PacketsPerChunk
  PROVE  (r + 1) * m_size >= m_chunk <=> r + 1 = PacketsPerChunk
<1>1. CASE r + 1 = PacketsPerChunk BY <1>1, ChunkOfPackets
<1>2. CASE r + 1 # PacketsPerChunk
  <2>1. r + 1 <= PacketsPerChunk - 1 /\ PacketsPerChunk - 1 \in Nat
    BY <1>2, ChunkOfPackets
  <2>2. (r + 1) * m_size <= (PacketsPerChunk - 1) * m_size
    BY <2>1, TimesMonotonic, EchoAssumption
  <2>3. (r + 1) * m_size \in Nat /\ (PacketsPerChunk - 1) * m_size \in Nat
    BY <2>1, EchoAssumption
  <2> QED BY <1>2, <2>2, <2>3, ChunkOfPackets, EchoAssumption
<1> QED BY <1>1, <1>2

\* A client below its allowance has room for a packet in its chunks.
LEMMA RoomInChunks ==
  ASSUME NEW n \in Nat, NEW k \in Nat, n * m_size < m_chunk * (1 + k)
  PROVE  n < PacketsPerChunk * (1 + k)
<1> DEFINE full == PacketsPerChunk * (1 + k)
<1>1. full \in Nat BY ChunkOfPackets
<1>2. m_chunk * (1 + k) <= (PacketsPerChunk * m_size) * (1 + k)
  BY ChunkOfPackets, TimesMonotonic, EchoAssumption
<1>3. (PacketsPerChunk * m_size) * (1 + k) = full * m_size
  BY ChunkOfPackets, EchoAssumption
<1>4. ASSUME full <= n PROVE FALSE
  <2>1. full * m_size <= n * m_size BY <1>1, <1>4, TimesMonotonic, EchoAssumption
  <2> QED BY <2>1, <1>1, <1>2, <1>3, EchoAssumption, ChunkOfPackets
<1> QED BY <1>1, <1>4

\* Fewer acks stand for fewer packets.
LEMMA ChunksMonotonic ==
  ASSUME NEW k \in Nat, NEW a \in Nat, NEW b \in Nat, NEW e \in Nat, a <= b
  PROVE  /\ PacketsPerChunk * (k + a) <= PacketsPerChunk * (k + b)
         /\ PacketsPerChunk * (k + a) \in Nat
         /\ PacketsPerChunk * (k + b) \in Nat
         /\ PacketsPerChunk * e \in Nat
BY TimesMonotonic, ChunkOfPackets

-----------------------------------------------------------------------------
(* The fields of the client after each of its operators *)

LEMMA ScheduleFields ==
  ASSUME NEW c \in Client
  PROVE  /\ Schedule(c) \in Client
         /\ Schedule(c).state = c.state /\ Schedule(c).sent = c.sent
         /\ Schedule(c).allowed = c.allowed /\ Schedule(c).event = TRUE
         /\ Schedule(c).orphans = IF c.event THEN c.orphans + 1 ELSE c.orphans
<1>1. CASE c.event
  <2>1. Schedule(c) = [c EXCEPT !.event = TRUE, !.orphans = c.orphans + 1]
    BY <1>1 DEF Schedule
  <2>2. c.orphans + 1 \in Nat BY DEF Client
  <2>3. Schedule(c) \in Client BY <2>1, <2>2 DEF Client
  <2>4. Schedule(c).orphans = c.orphans + 1 BY <2>1 DEF Client
  <2>5. /\ Schedule(c).state = c.state /\ Schedule(c).sent = c.sent
        /\ Schedule(c).allowed = c.allowed /\ Schedule(c).event = TRUE
    BY <2>1 DEF Client
  <2> QED BY <1>1, <2>3, <2>4, <2>5
<1>2. CASE ~c.event
  <2>1. Schedule(c) = [c EXCEPT !.event = TRUE, !.orphans = c.orphans]
    BY <1>2 DEF Schedule
  <2> QED BY <1>2, <2>1 DEF Client
<1> QED BY <1>1, <1>2

LEMMA RearmFields ==
  ASSUME NEW c \in Client
  PROVE  /\ Rearm(c) \in Client
         /\ Rearm(c).state = c.state /\ Rearm(c).sent = c.sent
         /\ Rearm(c).allowed = c.allowed
         /\ Rearm(c).event = (c.event \/ MaySend(c))
         /\ ~c.event => Rearm(c).orphans = c.orphans
<1>1. CASE MaySend(c) BY <1>1, ScheduleFields DEF Rearm
<1>2. CASE ~MaySend(c)
  <2>1. c.event \in BOOLEAN BY DEF Client
  <2> QED BY <1>2, <2>1 DEF Rearm
<1> QED BY <1>1, <1>2

LEMMA TakenFields ==
  ASSUME NEW c \in Client, NEW mine \in BOOLEAN, Pending(c, mine)
  PROVE  /\ Taken(c, mine) \in Client
         /\ Taken(c, mine).state = c.state /\ Taken(c, mine).sent = c.sent
         /\ Taken(c, mine).allowed = c.allowed
         /\ Taken(c, mine).event = (~mine /\ c.event)
         /\ Taken(c, mine).orphans = IF mine THEN c.orphans ELSE c.orphans - 1
<1>1. CASE mine BY <1>1 DEF Taken, Client, Pending
<1>2. CASE ~mine
  <2>1. c.orphans \in Nat /\ c.orphans > 0 BY <1>2 DEF Client, Pending
  <2>2. Taken(c, mine) = [c EXCEPT !.orphans = c.orphans - 1] BY <1>2 DEF Taken
  <2>3. c.event \in BOOLEAN BY DEF Client
  <2> QED BY <1>2, <2>1, <2>2, <2>3 DEF Client
<1> QED BY <1>1, <1>2

LEMMA AllowFields ==
  ASSUME NEW c \in Client
  PROVE  /\ Allow(c) \in Client
         /\ Allow(c).state = c.state /\ Allow(c).sent = c.sent
         /\ Allow(c).allowed = c.allowed + m_chunk /\ Allow(c).event = TRUE
         /\ Allow(c).orphans = IF c.event THEN c.orphans + 1 ELSE c.orphans
<1> DEFINE d == [c EXCEPT !.allowed = c.allowed + m_chunk]
<1>1. /\ d \in Client /\ d.state = c.state /\ d.sent = c.sent /\ d.event = c.event
      /\ d.orphans = c.orphans /\ d.allowed = c.allowed + m_chunk
  BY EchoAssumption DEF Client
<1>2. Allow(c) = Schedule(d) BY DEF Allow
<1> HIDE DEF d
<1>3. /\ Schedule(d) \in Client
      /\ Schedule(d).state = d.state /\ Schedule(d).sent = d.sent
      /\ Schedule(d).allowed = d.allowed /\ Schedule(d).event = TRUE
      /\ Schedule(d).orphans = IF d.event THEN d.orphans + 1 ELSE d.orphans
  BY <1>1, ScheduleFields
<1> QED BY <1>1, <1>2, <1>3

-----------------------------------------------------------------------------
(* The inductive invariant *)

LEMMA InitInv == Init => IInv
<1> SUFFICES ASSUME Init PROVE IInv OBVIOUS
<1>1. Types BY EchoAssumption DEF Init, Types, Client
<1>2. ClientArmed /\ SentBelow /\ Phase
  BY DEF Init, ClientArmed, SentBelow, Phase
<1>3. Balance(0, 0, 0) /\ WithinChunks(0)
  BY EchoAssumption, ChunkOfPackets DEF Init, Balance, WithinChunks
<1>5. Ledger(0, 0, 0, 0, 0) BY ChunkOfPackets DEF Init, Ledger
<1>4. Accounted BY <1>3, <1>5 DEF Accounted, Paid
<1> QED BY <1>1, <1>2, <1>4 DEF IInv

\* The first chunk.
LEMMA StartInv == IInv /\ StartApplication => IInv'
<1> SUFFICES ASSUME IInv, StartApplication PROVE IInv' OBVIOUS
<1> USE DEF IInv, StartApplication, Alive
<1>1. /\ client' \in Client /\ client'.state = "running" /\ client'.sent = client.sent
      /\ client'.allowed = m_chunk /\ client'.event = TRUE
      /\ client'.orphans = client.orphans /\ client.state = "new" /\ ~client.event
  <2> DEFINE d == [client EXCEPT !.state = "running", !.allowed = m_chunk]
  <2>1. /\ d \in Client /\ d.state = "running" /\ d.sent = client.sent
        /\ d.allowed = m_chunk /\ d.event = client.event /\ d.orphans = client.orphans
    BY EchoAssumption DEF Client, Types
  <2>2. client' = Schedule(d) /\ client.state = "new" /\ ~client.event
    BY DEF Phase
  <2> HIDE DEF d
  <2>3. /\ Schedule(d) \in Client
        /\ Schedule(d).state = d.state /\ Schedule(d).sent = d.sent
        /\ Schedule(d).allowed = d.allowed /\ Schedule(d).event = TRUE
        /\ Schedule(d).orphans = IF d.event THEN d.orphans + 1 ELSE d.orphans
    BY <2>1, ScheduleFields
  <2> QED BY <2>1, <2>2, <2>3
<1>2. Types' BY <1>1, EchoAssumption DEF Types
<1>3. (ClientArmed /\ SentBelow /\ Phase)'
  BY <1>1 DEF ClientArmed, SentBelow, Phase, Types
<1>4. PICK k, q, r \in Nat : Balance(k, q, r) /\ WithinChunks(k) /\ Paid(k, q, r) BY DEF Accounted
<1>5. q = 0 /\ r = 0
  <2>1. q * m_size = 0 /\ r * m_size = 0 BY <1>1, <1>4 DEF Balance, Phase
  <2> QED BY <2>1, TimesZero, EchoAssumption
<1>6. Balance(0, 0, 0)'
  <2>1. /\ UNCHANGED <<server, data, acks, counted, extra>>
        /\ client.sent = 0 /\ data = 0 /\ acks = 0 /\ counted = 0 /\ server.received = 0
        /\ extra.data = 0 /\ extra.ack = 0
    BY <1>1 DEF Phase
  <2>2. m_chunk = m_chunk * (1 + 0) /\ 0 * m_size = 0 BY EchoAssumption
  <2>3. 0 < PacketsPerChunk /\ PacketsPerChunk * (0 + 0) + 0 <= 0 + PacketsPerChunk * 0
    BY ChunkOfPackets
  <2> QED BY <1>1, <2>1, <2>2, <2>3 DEF Balance
<1>7. WithinChunks(0)'
  BY <1>1, <1>4, ChunkOfPackets DEF WithinChunks, Phase, Types
<1>8. Ledger(0, 0, 0, 0, 0)'
  <2>1. UNCHANGED <<acks, data, extra, lost>> /\ acks = 0 /\ data = 0 /\ client.sent = 0
    BY <1>1 DEF Phase
  <2>2. extra.data = 0 /\ extra.ack = 0 /\ lost = 0 BY <1>1 DEF Phase
  <2> QED BY <1>1, <2>1, <2>2, ChunkOfPackets DEF Ledger
<1> QED BY <1>2, <1>3, <1>6, <1>7, <1>8 DEF Accounted, Paid

\* Cancelling the event.
LEMMA StopInv == IInv /\ StopApplication => IInv'
<1> SUFFICES ASSUME IInv, StopApplication PROVE IInv' OBVIOUS
<1> USE DEF IInv, StopApplication, Alive
<1>1. /\ client' \in Client /\ client'.state = "stopped" /\ client'.sent = client.sent
      /\ client'.allowed = client.allowed /\ client'.event = FALSE
      /\ client'.orphans = client.orphans /\ client.state = "running"
  BY DEF Client, Types
<1>2. Types' BY <1>1 DEF Types
<1>3. (ClientArmed /\ SentBelow /\ Phase)'
  BY <1>1 DEF ClientArmed, SentBelow, Phase, Types
<1>4. PICK k, q, r \in Nat : Balance(k, q, r) /\ WithinChunks(k) /\ Paid(k, q, r) BY DEF Accounted
<1>5. Balance(k, q, r)' /\ WithinChunks(k)'
  BY <1>1, <1>4 DEF Balance, WithinChunks, Types
<1>6. PICK w, g \in Nat : Ledger(k, q, r, w, g) BY <1>4 DEF Paid
<1>7. Ledger(k, q, r, w, g)' BY <1>1, <1>6 DEF Ledger
<1> QED BY <1>2, <1>3, <1>5, <1>7 DEF Accounted, Paid

\* The effect of a Send, in the two cases that matter: whether it sends, and
\* whether the next Send is scheduled.
LEMMA SendInv ==
  ASSUME IInv, NEW mine \in BOOLEAN, NEW pushedBack \in BOOLEAN, Send(mine, pushedBack)
  PROVE  IInv'
<1> DEFINE c == Taken(client, mine)
           sends == ~pushedBack /\ MaySend(c)
           after == IF sends THEN [c EXCEPT !.sent = @ + 1] ELSE c
<1> USE DEF IInv, Alive
<1>1. /\ Pending(client, mine) /\ c.state = "running"
      /\ data' = IF sends THEN data + 1 ELSE data
      /\ client' = Rearm(after)
      /\ UNCHANGED <<server, acks, debug, fault, counted, extra, lost>>
  BY DEF Send
<1>2. /\ c \in Client
      /\ c.sent = client.sent /\ c.allowed = client.allowed /\ client.state = "running"
      /\ c.state = "running" /\ c.orphans <= client.orphans
      /\ mine => ~c.event
      /\ ~mine => client.orphans > 0
  BY <1>1, TakenFields DEF Pending, Types, Client
<1> HIDE DEF c
<1>3. /\ after \in Client
      /\ after.sent = IF sends THEN client.sent + 1 ELSE client.sent
      /\ after.allowed = client.allowed /\ after.state = "running"
      /\ after.event = c.event /\ after.orphans = c.orphans
  BY <1>2, EchoAssumption DEF MaySend, Client
<1>4. sends => client.sent * m_size < client.allowed
  BY <1>2 DEF MaySend
<1> HIDE DEF after, sends
<1>5. /\ client' \in Client
      /\ client'.sent = after.sent /\ client'.allowed = after.allowed
      /\ client'.state = "running"
      /\ MaySend(client') => client'.event
      /\ ~c.event => client'.orphans = c.orphans /\ (client'.event => MaySend(client'))
  BY <1>1, <1>3, RearmFields DEF MaySend
<1>6. Types' BY <1>1, <1>5 DEF Types
<1>7. ClientArmed' /\ Phase'
  BY <1>1, <1>5 DEF ClientArmed, Phase, MaySend
<1>8. SentBelow'
  <2>1. CASE sends
    <3>1. (client.sent + 1) * m_size = client.sent * m_size + m_size
      BY EchoAssumption DEF Types, Client
    <3> QED BY <2>1, <3>1, <1>3, <1>4, <1>5, EchoAssumption DEF SentBelow, Types, Client
  <2>2. CASE ~sends BY <2>2, <1>3, <1>5 DEF SentBelow
  <2> QED BY <2>1, <2>2
<1>9. PICK k, q, r \in Nat : Balance(k, q, r) /\ WithinChunks(k) /\ Paid(k, q, r) BY DEF Accounted
<1>10. Balance(k, q, r)'
  BY <1>1, <1>2, <1>3, <1>5, <1>9 DEF Balance, Types, Client
<1>11. client.allowed = m_chunk * (1 + k) BY <1>9, <1>2 DEF Balance
<1>12. WithinChunks(k)'
  <2>1. client'.sent <= PacketsPerChunk * (1 + k)
    <3>1. sends => client.sent < PacketsPerChunk * (1 + k)
      BY <1>4, <1>11, RoomInChunks DEF Types, Client
    <3> QED BY <3>1, <1>3, <1>5, <1>9, ChunkOfPackets DEF WithinChunks, Types, Client
  <2>2. ASSUME extra.data + extra.ack = 0
        PROVE  /\ client'.orphans = 0
               /\ client'.event => client'.sent < PacketsPerChunk * (1 + k)
    <3>1. client.orphans = 0 BY <2>2, <1>9 DEF WithinChunks
    <3>2. ~c.event /\ c.orphans = 0 BY <3>1, <1>2 DEF Client
    <3>3. client'.event => client'.sent * m_size < m_chunk * (1 + k)
      BY <3>2, <1>3, <1>5, <1>11 DEF MaySend
    <3>4. client'.event => client'.sent < PacketsPerChunk * (1 + k)
      BY <3>3, <1>5, RoomInChunks DEF Client
    <3> QED BY <3>2, <3>4, <1>5
  <2> QED BY <2>1, <2>2, <1>1, <1>9 DEF WithinChunks
<1>13. PICK w, g \in Nat : Ledger(k, q, r, w, g) BY <1>9 DEF Paid
<1>14. Ledger(k, q, r, w, g)'
  BY <1>1, <1>2, <1>3, <1>5, <1>13 DEF Ledger, Types, Client
<1> QED BY <1>6, <1>7, <1>8, <1>10, <1>12, <1>14 DEF Accounted, Paid

\* A Send that fails has lost its event; without duplicates there is no such Send.
LEMMA SendFailsInv ==
  ASSUME IInv, NEW mine \in BOOLEAN, SendFails(mine)
  PROVE  IInv'
<1> DEFINE c == Taken(client, mine)
<1> USE DEF IInv, Alive
<1>1. /\ Pending(client, mine) /\ client' = c
      /\ \/ debug /\ c.event /\ fault' = "assert"
         \/ ~(debug /\ c.event) /\ c.state = "stopped" /\ fault' = "null"
      /\ UNCHANGED <<server, data, acks, debug, counted, extra, lost>>
  BY DEF SendFails
<1>2. /\ client' \in Client /\ client'.state = client.state /\ client'.sent = client.sent
      /\ client'.allowed = client.allowed
      /\ client'.event = (~mine /\ client.event)
      /\ client'.orphans = IF mine THEN client.orphans ELSE client.orphans - 1
      /\ mine => client.event
      /\ ~mine => client.orphans > 0
  BY <1>1, TakenFields DEF Pending, Types
<1>3. client'.event \/ client.state = "stopped" BY <1>1, <1>2
<1>4. Types' BY <1>1, <1>2 DEF Types
<1>5. (ClientArmed /\ SentBelow)'
  BY <1>2, <1>3 DEF ClientArmed, SentBelow
<1>6. Phase'
  <2>1. client'.orphans > 0 => client'.state # "new"
    BY <1>2 DEF Phase, Types, Client
  <2> QED BY <1>1, <1>2, <2>1 DEF Phase
<1>7. PICK k, q, r \in Nat : Balance(k, q, r) /\ WithinChunks(k) /\ Paid(k, q, r) BY DEF Accounted
<1>8. Balance(k, q, r)' BY <1>1, <1>2, <1>7 DEF Balance
<1>9. extra.data + extra.ack # 0
  <2>1. ASSUME extra.data + extra.ack = 0 PROVE FALSE
    <3>1. client.orphans = 0 BY <2>1, <1>7 DEF WithinChunks
    <3>2. mine BY <3>1, <1>2
    <3> QED BY <3>2, <1>2, <1>3 DEF Phase
  <2> QED BY <2>1
<1>10. WithinChunks(k)' BY <1>1, <1>2, <1>7, <1>9 DEF WithinChunks
<1>11. PICK w, g \in Nat : Ledger(k, q, r, w, g) BY <1>7 DEF Paid
<1>12. Ledger(k, q, r, w, g)' BY <1>1, <1>2, <1>11 DEF Ledger
<1> QED BY <1>4, <1>5, <1>6, <1>8, <1>10, <1>12 DEF Accounted, Paid

\* An ack opens the next chunk.  Without duplicates the chunks of the client are
\* full when it arrives, so that no Send is pending.
LEMMA ClientReadInv == IInv /\ ClientRead => IInv'
<1> SUFFICES ASSUME IInv, ClientRead PROVE IInv' OBVIOUS
<1> USE DEF IInv, Alive
<1>1. /\ acks > 0 /\ acks' = acks - 1 /\ fault = "none"
      /\ client' = IF client.state = "running" THEN Allow(client) ELSE client
      /\ UNCHANGED <<server, data, debug, fault, counted, extra, lost>>
  BY DEF ClientRead
<1>2. acks' \in Nat BY <1>1 DEF Types
<1>3. PICK k, q, r \in Nat : Balance(k, q, r) /\ WithinChunks(k) /\ Paid(k, q, r) BY DEF Accounted
<1>4. client.state # "new" BY <1>1 DEF Phase
<1>7. PICK w, g \in Nat : Ledger(k, q, r, w, g) BY <1>3 DEF Paid
<1>5. CASE client.state = "running"
  <2>1. /\ client' \in Client /\ client'.state = "running" /\ client'.sent = client.sent
        /\ client'.allowed = client.allowed + m_chunk /\ client'.event
        /\ client'.orphans = IF client.event THEN client.orphans + 1 ELSE client.orphans
    BY <1>1, <1>5, AllowFields DEF Types
  <2>2. Types' BY <1>1, <1>2, <2>1 DEF Types
  <2>3. (ClientArmed /\ SentBelow)'
    BY <2>1, EchoAssumption DEF ClientArmed, SentBelow, Types, Client
  <2>4. Phase' BY <1>1, <2>1 DEF Phase
  <2>5. Balance(k + 1, q, r)'
    <3>1. m_chunk * (1 + k) + m_chunk = m_chunk * (1 + (k + 1)) BY EchoAssumption
    <3>2. k + acks = (k + 1) + acks' BY <1>1, <1>2 DEF Types
    <3> QED BY <1>1, <1>3, <1>5, <2>1, <3>1, <3>2 DEF Balance
  <2>6. PacketsPerChunk * (1 + k) < PacketsPerChunk * (1 + (k + 1))
    BY ChunkOfPackets
  <2>7. client'.sent < PacketsPerChunk * (1 + (k + 1))
    BY <1>3, <2>1, <2>6, ChunkOfPackets DEF WithinChunks, Types, Client
  <2>8. ASSUME extra.data + extra.ack = 0 PROVE ~client.event
    <3>1. extra.data = 0 /\ extra.ack = 0 BY <2>8 DEF Types
    <3>2. PacketsPerChunk * (k + acks) <= client.sent
      <4>1. PacketsPerChunk * extra.ack = 0 BY <3>1, ChunkOfPackets
      <4>2. PacketsPerChunk * (k + acks) \in Nat BY ChunkOfPackets DEF Types
      <4> QED BY <1>3, <3>1, <4>1, <4>2 DEF Balance, Types, Client
    <3>3. PacketsPerChunk * (1 + k) <= PacketsPerChunk * (k + acks)
      BY <1>1, TimesMonotonic, ChunkOfPackets DEF Types
    <3>4. ~(client.sent < PacketsPerChunk * (1 + k))
      BY <3>2, <3>3, ChunkOfPackets DEF Types, Client
    <3> QED BY <2>8, <3>4, <1>3 DEF WithinChunks
  <2>9. WithinChunks(k + 1)'
    BY <1>1, <1>3, <2>1, <2>7, <2>8, ChunkOfPackets DEF WithinChunks, Types, Client
  <2>10. Ledger(k + 1, q, r, w, g)'
    <3>1. k + w + acks = (k + 1) + w + acks' BY <1>1, <1>2 DEF Types
    <3> QED BY <1>1, <1>5, <1>7, <2>1, <3>1 DEF Ledger
  <2> QED BY <2>2, <2>3, <2>4, <2>5, <2>9, <2>10 DEF Accounted, Paid
<1>6. CASE client.state # "running"
  <2>1. client' = client BY <1>1, <1>6
  <2>2. Types' BY <1>1, <1>2, <2>1 DEF Types
  <2>3. (ClientArmed /\ SentBelow /\ Phase)'
    BY <1>1, <1>4, <2>1 DEF ClientArmed, SentBelow, Phase
  <2>4. PacketsPerChunk * (k + acks') <= PacketsPerChunk * (k + acks)
    BY <1>1, <1>2, TimesMonotonic, ChunkOfPackets DEF Types
  <2>5. Balance(k, q, r)'
    BY <1>1, <1>2, <1>3, <2>1, <2>4, ChunkOfPackets DEF Balance, Types
  <2>6. WithinChunks(k)' BY <1>1, <1>3, <2>1 DEF WithinChunks
  <2>7. Ledger(k, q, r, w + 1, g)'
    <3>1. k + w + acks = k + (w + 1) + acks' BY <1>1, <1>2 DEF Types
    <3>2. client.state = "stopped" BY <1>4, <1>6 DEF Types, Client
    <3> QED BY <1>1, <1>7, <2>1, <3>1, <3>2 DEF Ledger
  <2> QED BY <2>2, <2>3, <2>5, <2>6, <2>7 DEF Accounted, Paid
<1> QED BY <1>5, <1>6

\* The server pays an ack with a chunk of packets.
LEMMA ServerReadInv == IInv /\ ServerRead => IInv'
<1> SUFFICES ASSUME IInv, ServerRead PROVE IInv' OBVIOUS
<1> USE DEF IInv, Alive
<1>1. data > 0 /\ data' = data - 1 /\ UNCHANGED <<client, fault, extra>>
  BY DEF ServerRead
<1>2. data' \in Nat BY <1>1 DEF Types
<1>3. PICK k, q, r \in Nat : Balance(k, q, r) /\ WithinChunks(k) /\ Paid(k, q, r) BY DEF Accounted
<1>4. client.state # "new" BY <1>1 DEF Phase
<1>5. (ClientArmed /\ SentBelow /\ Phase)'
  BY <1>1, <1>4 DEF ClientArmed, SentBelow, Phase
<1>6. WithinChunks(k)' BY <1>1, <1>3 DEF WithinChunks
<1>9. PICK w, g \in Nat : Ledger(k, q, r, w, g) BY <1>3 DEF Paid
<1>7. CASE server.up
  <2> DEFINE received == server.received + m_size
  <2>1. /\ server' = [server EXCEPT !.received = Count(received)]
        /\ acks' = IF received >= m_chunk THEN acks + 1 ELSE acks
        /\ lost' = lost
        /\ counted' = counted + m_size
    BY <1>7 DEF ServerRead, Full
  <2>2. received \in Nat /\ received = (r + 1) * m_size
    BY <1>3, EchoAssumption DEF Balance, Types
  <2> HIDE DEF received
  <2>3. Count(received) \in 0..(m_chunk - 1)
    BY <2>2, EchoAssumption DEF Count, Full
  <2>4. server' \in [up : BOOLEAN, received : 0..(m_chunk - 1)]
        /\ server'.received = Count(received)
    BY <2>1, <2>3 DEF Types
  <2>5. Types' BY <1>1, <1>2, <2>1, <2>4, EchoAssumption DEF Types
  <2>6. counted' = (q + 1) * m_size
    BY <1>3, <2>1, EchoAssumption DEF Balance
  <2>7. (q + 1) + data' <= client.sent + extra.data
    BY <1>1, <1>2, <1>3 DEF Balance, Types, Client
  <2>8. received >= m_chunk <=> r + 1 = PacketsPerChunk
    BY <1>3, <2>2, ChunkComplete DEF Balance
  <2>11. (q + 1) + g + data' = client.sent + extra.data
    BY <1>1, <1>9 DEF Ledger, Types, Client
  <2>9. CASE received >= m_chunk
    <3>1. server'.received = 0 * m_size /\ acks' = acks + 1
      BY <2>1, <2>4, <2>9, EchoAssumption DEF Count, Full
    <3>2. PacketsPerChunk * (k + acks') = PacketsPerChunk * (k + acks) + (r + 1)
      BY <2>8, <2>9, <3>1, ChunkOfPackets DEF Types
    <3>3. PacketsPerChunk * (k + acks') + 0 <= (q + 1) + PacketsPerChunk * extra.ack
      BY <3>2, <1>3, ChunkOfPackets DEF Balance, Types
    <3>4. Balance(k, q + 1, 0)'
      BY <1>1, <1>3, <2>6, <2>7, <3>1, <3>3, ChunkOfPackets DEF Balance
    <3>5. PacketsPerChunk * (k + w + acks') + 0 = (q + 1) + PacketsPerChunk * extra.ack
      <4>1. PacketsPerChunk * (k + w + acks') = PacketsPerChunk * (k + w + acks) + (r + 1)
        BY <2>8, <2>9, <3>1, ChunkOfPackets DEF Types
      <4> QED BY <4>1, <1>9, ChunkOfPackets DEF Ledger, Types
    <3>6. Ledger(k, q + 1, 0, w, g)'
      BY <1>1, <1>9, <2>1, <2>11, <3>5 DEF Ledger
    <3> QED BY <1>5, <1>6, <2>5, <3>4, <3>6 DEF Accounted, Paid
  <2>10. CASE ~(received >= m_chunk)
    <3>1. server'.received = (r + 1) * m_size /\ acks' = acks
      BY <2>1, <2>2, <2>4, <2>10 DEF Count, Full
    <3>2. r + 1 < PacketsPerChunk
      BY <2>8, <2>10, <1>3, ChunkOfPackets DEF Balance
    <3>3. PacketsPerChunk * (k + acks') + (r + 1) <= (q + 1) + PacketsPerChunk * extra.ack
      BY <3>1, <1>3, ChunkOfPackets DEF Balance, Types
    <3>4. Balance(k, q + 1, r + 1)'
      BY <1>1, <1>3, <2>6, <2>7, <3>1, <3>2, <3>3 DEF Balance
    <3>5. PacketsPerChunk * (k + w + acks') + (r + 1) = (q + 1) + PacketsPerChunk * extra.ack
      <4>1. PacketsPerChunk * (k + w + acks) \in Nat /\ PacketsPerChunk * extra.ack \in Nat
        BY ChunkOfPackets DEF Types
      <4>2. PacketsPerChunk * (k + w + acks) + r = q + PacketsPerChunk * extra.ack
        BY <1>9 DEF Ledger
      <4> QED BY <3>1, <4>1, <4>2
    <3>6. Ledger(k, q + 1, r + 1, w, g)'
      BY <1>1, <1>9, <2>1, <2>11, <3>5 DEF Ledger
    <3> QED BY <1>5, <1>6, <2>5, <3>4, <3>6 DEF Accounted, Paid
  <2> QED BY <2>9, <2>10
<1>8. CASE ~server.up
  <2>1. UNCHANGED <<server, acks, counted>> /\ lost' = lost + 1 BY <1>8 DEF ServerRead
  <2>2. Types' BY <1>1, <1>2, <2>1 DEF Types
  <2>3. Balance(k, q, r)'
    BY <1>1, <1>3, <2>1 DEF Balance, Types, Client
  <2>4. Ledger(k, q, r, w, g + 1)'
    BY <1>1, <1>9, <2>1 DEF Ledger, Types, Client
  <2> QED BY <1>5, <1>6, <2>2, <2>3, <2>4 DEF Accounted, Paid
<1> QED BY <1>7, <1>8

LEMMA ServerStopInv == IInv /\ ServerStop => IInv'
<1> SUFFICES ASSUME IInv, ServerStop PROVE IInv' OBVIOUS
<1> USE DEF IInv, Alive
<1>1. /\ server' \in [up : BOOLEAN, received : 0..(m_chunk - 1)]
      /\ server'.received = server.received
      /\ UNCHANGED <<client, data, acks, fault, counted, extra, lost>>
  BY DEF ServerStop, Types
<1>2. (Types /\ ClientArmed /\ SentBelow /\ Phase)'
  BY <1>1 DEF Types, ClientArmed, SentBelow, Phase
<1>3. PICK k, q, r \in Nat : Balance(k, q, r) /\ WithinChunks(k) /\ Paid(k, q, r) BY DEF Accounted
<1>4. Balance(k, q, r)' /\ WithinChunks(k)'
  BY <1>1, <1>3 DEF Balance, WithinChunks
<1>5. PICK w, g \in Nat : Ledger(k, q, r, w, g) BY <1>3 DEF Paid
<1>6. Ledger(k, q, r, w, g)' BY <1>1, <1>5 DEF Ledger
<1> QED BY <1>2, <1>4, <1>6 DEF Accounted, Paid

\* What the network does: a duplicate is counted in extra, a loss only takes away.
LEMMA NetworkInv ==
  IInv /\ (DuplicateData \/ DuplicateAck \/ LosePacket) => IInv'
<1> SUFFICES ASSUME IInv, DuplicateData \/ DuplicateAck \/ LosePacket PROVE IInv' OBVIOUS
<1> USE DEF IInv, Alive
<1>1. PICK k, q, r \in Nat : Balance(k, q, r) /\ WithinChunks(k) /\ Paid(k, q, r) BY DEF Accounted
<1>5. PICK w, g \in Nat : Ledger(k, q, r, w, g) BY <1>1 DEF Paid
<1>2. CASE DuplicateData
  <2>1. /\ extra' \in [data : Nat, ack : Nat] /\ extra'.data = extra.data + 1
        /\ extra'.ack = extra.ack /\ data > 0 /\ data' = data + 1
        /\ UNCHANGED <<client, server, acks, fault, counted, lost>>
    BY <1>2 DEF DuplicateData, Types
  <2>2. (Types /\ ClientArmed /\ SentBelow /\ Phase)'
    BY <2>1 DEF Types, ClientArmed, SentBelow, Phase
  <2>3. Balance(k, q, r)' BY <1>1, <2>1 DEF Balance, Types, Client
  <2>4. WithinChunks(k)' BY <1>1, <2>1 DEF WithinChunks, Types
  <2>5. Ledger(k, q, r, w, g)' BY <1>5, <2>1 DEF Ledger, Types, Client
  <2> QED BY <2>2, <2>3, <2>4, <2>5 DEF Accounted, Paid
<1>3. CASE DuplicateAck
  <2>1. /\ extra' \in [data : Nat, ack : Nat] /\ extra'.data = extra.data
        /\ extra'.ack = extra.ack + 1 /\ acks > 0 /\ acks' = acks + 1
        /\ UNCHANGED <<client, server, data, fault, counted, lost>>
    BY <1>3 DEF DuplicateAck, Types
  <2>2. (Types /\ ClientArmed /\ SentBelow /\ Phase)'
    BY <2>1 DEF Types, ClientArmed, SentBelow, Phase
  <2>3. /\ PacketsPerChunk * (k + acks') = PacketsPerChunk * (k + acks) + PacketsPerChunk
        /\ PacketsPerChunk * extra'.ack = PacketsPerChunk * extra.ack + PacketsPerChunk
    BY <2>1, ChunkOfPackets DEF Types
  <2>4. /\ PacketsPerChunk * (k + acks) \in Nat /\ PacketsPerChunk * extra.ack \in Nat
        /\ PacketsPerChunk * (k + acks) + r <= q + PacketsPerChunk * extra.ack
    BY <1>1, ChunkOfPackets DEF Balance, Types
  <2>5. PacketsPerChunk * (k + acks') + r <= q + PacketsPerChunk * extra'.ack
    BY <2>3, <2>4, ChunkOfPackets
  <2>6. Balance(k, q, r)'
    BY <1>1, <2>1, <2>5 DEF Balance
  <2>7. WithinChunks(k)' BY <1>1, <2>1 DEF WithinChunks, Types
  <2>8. Ledger(k, q, r, w, g)'
    <3>1. PacketsPerChunk * (k + w + acks') = PacketsPerChunk * (k + w + acks) + PacketsPerChunk
      BY <2>1, ChunkOfPackets DEF Types
    <3>2. PacketsPerChunk * (k + w + acks') + r = q + PacketsPerChunk * extra'.ack
      <4>1. PacketsPerChunk * (k + w + acks) \in Nat /\ PacketsPerChunk * extra.ack \in Nat
        BY ChunkOfPackets DEF Types
      <4>2. PacketsPerChunk * (k + w + acks) + r = q + PacketsPerChunk * extra.ack
        BY <1>5 DEF Ledger
      <4> QED BY <2>3, <3>1, <4>1, <4>2, ChunkOfPackets
    <3> QED BY <1>5, <2>1, <3>2 DEF Ledger
  <2> QED BY <2>2, <2>6, <2>7, <2>8 DEF Accounted, Paid
<1>4. CASE LosePacket
  <2>1. /\ data' \in Nat /\ acks' \in Nat /\ data' <= data /\ acks' <= acks
        /\ lost' \in Nat
    BY <1>4 DEF LosePacket, Types
  <2>2. (data > 0 \/ acks > 0) /\ UNCHANGED <<client, server, fault, counted, extra>>
    BY <1>4 DEF LosePacket
  <2>3. (Types /\ ClientArmed /\ SentBelow /\ Phase)'
    BY <2>1, <2>2 DEF Types, ClientArmed, SentBelow, Phase
  <2>4. /\ PacketsPerChunk * (k + acks') <= PacketsPerChunk * (k + acks)
        /\ PacketsPerChunk * (k + acks') \in Nat
        /\ PacketsPerChunk * (k + acks) \in Nat
        /\ PacketsPerChunk * extra.ack \in Nat
    <3>1. acks \in Nat /\ extra.ack \in Nat BY DEF Types
    <3>2. acks' \in Nat /\ acks' <= acks BY <2>1
    <3> QED BY <3>1, <3>2, ChunksMonotonic, Zenon
  <2>5. PacketsPerChunk * (k + acks') + r <= q + PacketsPerChunk * extra.ack
    <3>1. PacketsPerChunk * (k + acks) + r <= q + PacketsPerChunk * extra.ack
      BY <1>1 DEF Balance
    <3> QED BY <2>4, <3>1
  <2>6. q + data' <= client.sent + extra.data
    BY <1>1, <2>1 DEF Balance, Types, Client
  <2>7. Balance(k, q, r)' BY <1>1, <2>2, <2>5, <2>6 DEF Balance
  <2>8. WithinChunks(k)' BY <1>1, <2>2 DEF WithinChunks
  <2>9. Paid(k, q, r)'
    <3>1. lost' = lost + 1 BY <1>4 DEF LosePacket
    <3>2. CASE data > 0 /\ data' = data - 1 /\ acks' = acks
      <4>1. Ledger(k, q, r, w, g + 1)'
        BY <1>5, <2>2, <3>1, <3>2 DEF Ledger, Types, Client
      <4> QED BY <4>1 DEF Paid
    <3>3. CASE acks > 0 /\ acks' = acks - 1 /\ data' = data
      <4>1. k + (w + 1) + acks' = k + w + acks BY <3>3 DEF Types
      <4>2. Ledger(k, q, r, w + 1, g)'
        BY <1>5, <2>2, <3>1, <3>3, <4>1 DEF Ledger, Types
      <4> QED BY <4>2 DEF Paid
    <3> QED BY <1>4, <3>2, <3>3 DEF LosePacket
  <2> QED BY <2>3, <2>7, <2>8, <2>9 DEF Accounted
<1> QED BY <1>2, <1>3, <1>4

LEMMA NextInv == IInv /\ [Next]_vars => IInv'
<1> SUFFICES ASSUME IInv, [Next]_vars PROVE IInv' OBVIOUS
<1>1. CASE UNCHANGED vars
  <2>1. (Types /\ ClientArmed /\ SentBelow /\ Phase)'
    BY <1>1 DEF vars, IInv, Types, ClientArmed, SentBelow, Phase
  <2>2. PICK k, q, r \in Nat : Balance(k, q, r) /\ WithinChunks(k) /\ Paid(k, q, r)
    BY DEF IInv, Accounted
  <2>3. Balance(k, q, r)' /\ WithinChunks(k)'
    BY <1>1, <2>2 DEF vars, Balance, WithinChunks
  <2>4. PICK w, g \in Nat : Ledger(k, q, r, w, g) BY <2>2 DEF Paid
  <2>5. Ledger(k, q, r, w, g)' BY <1>1, <2>4 DEF vars, Ledger
  <2> QED BY <2>1, <2>3, <2>5 DEF IInv, Accounted, Paid
<1> QED
  BY <1>1, StartInv, StopInv, SendInv, SendFailsInv, ClientReadInv, ServerReadInv,
     ServerStopInv, NetworkInv DEF Next

\* The inductive invariant holds in every reachable state.
LEMMA SpecInv == Spec => []IInv
BY InitInv, NextInv, PTL DEF Spec

-----------------------------------------------------------------------------
(* Theorems *)

\* The state of the two applications keeps its types: the client never counts
\* more packets than it has (Send) and the server never keeps a whole chunk
\* unacknowledged (HandleRead).
THEOREM TypeCorrect == Spec => []TypeOK
<1>1. IInv => TypeOK BY DEF IInv, Types, Client, TypeOK
<1> QED BY <1>1, SpecInv, PTL

\* A client that may send has a Send pending, in every order of acks, pushed
\* back Sends and orphans.
THEOREM Armed == Spec => []ClientArmed
<1>1. IInv => ClientArmed BY DEF IInv
<1> QED BY <1>1, SpecInv, PTL

\* Only a duplicate leaves a Send behind when HandleRead overwrites m_sendEvent,
\* or makes Send trip over its assertion or over a null socket.
THEOREM OrphansNeedDuplicates == Spec => []OrphanNeedsDuplicate
<1>1. IInv => OrphanNeedsDuplicate
  <2> SUFFICES ASSUME IInv, extra.data + extra.ack = 0
               PROVE  client.orphans = 0 /\ fault = "none"
    BY DEF IInv, Types, Client, OrphanNeedsDuplicate
  <2> QED BY DEF IInv, Accounted, WithinChunks
<1> QED BY <1>1, SpecInv, PTL

\* The client is never more than a chunk and a packet ahead of what the server
\* has counted, unless an ack was duplicated.
THEOREM Window == Spec => []WindowHonoured
<1>1. IInv => WindowHonoured
  <2> SUFFICES ASSUME IInv, extra.ack = 0
               PROVE  client.sent * m_size < counted + m_chunk + m_size
    BY DEF WindowHonoured
  <2>1. PICK k, q, r \in Nat : Balance(k, q, r) /\ WithinChunks(k) /\ Paid(k, q, r)
    BY DEF IInv, Accounted
  <2>2. client.sent \in Nat /\ counted \in Nat /\ acks \in Nat
    BY EchoAssumption DEF IInv, Types, Client
  <2>3. CASE client.sent = 0 BY <2>2, <2>3, EchoAssumption
  <2>4. CASE client.sent > 0
    <3>1. client.sent * m_size < m_chunk * (1 + k) + m_size
      BY <2>1, <2>4 DEF IInv, SentBelow, Phase, Balance
    <3>2. PacketsPerChunk * k <= q
      <4>1. PacketsPerChunk * extra.ack = 0 BY ChunkOfPackets
      <4>2. PacketsPerChunk * k <= PacketsPerChunk * (k + acks)
        BY <2>2, TimesMonotonic, ChunkOfPackets
      <4> QED BY <2>1, <2>2, <4>1, <4>2, ChunkOfPackets DEF Balance
    <3>3. m_chunk * k <= (PacketsPerChunk * m_size) * k
      BY TimesMonotonic, ChunkOfPackets, EchoAssumption
    <3>4. (PacketsPerChunk * m_size) * k = (PacketsPerChunk * k) * m_size
      BY ChunkOfPackets, EchoAssumption
    <3>5. (PacketsPerChunk * k) * m_size <= counted
      BY <2>1, <3>2, TimesMonotonic, ChunkOfPackets, EchoAssumption DEF Balance
    <3>6. m_chunk * (1 + k) = m_chunk + m_chunk * k BY EchoAssumption
    <3>7. client.sent * m_size \in Nat /\ m_chunk * k \in Nat
          /\ (PacketsPerChunk * k) * m_size \in Nat
      BY <2>2, ChunkOfPackets, EchoAssumption
    <3> QED BY <2>2, <3>1, <3>3, <3>4, <3>5, <3>6, <3>7, EchoAssumption
  <2> QED BY <2>2, <2>3, <2>4
<1> QED BY <1>1, SpecInv, PTL

\* Only a loss stalls a transfer: while every packet arrives, each chunk that the
\* client has used up is acknowledged, for every chunk that packets divide.
THEOREM StallsNeedLoss == Spec => []StallNeedsLoss
<1>1. IInv => StallNeedsLoss
  <2> SUFFICES ASSUME IInv, m_chunk % m_size = 0, client.state = "running", server.up,
                      client.sent < m_count, ~client.event, client.orphans = 0,
                      data = 0, acks = 0, lost = 0
               PROVE  FALSE
    BY DEF StallNeedsLoss, IInv, Types
  <2>1. PICK k, q, r \in Nat : Balance(k, q, r) /\ WithinChunks(k) /\ Paid(k, q, r)
    BY DEF IInv, Accounted
  <2>2. PICK w, g \in Nat : Ledger(k, q, r, w, g) BY <2>1 DEF Paid
  <2>3. client.sent \in Nat /\ extra.data \in Nat /\ extra.ack \in Nat
    BY EchoAssumption DEF IInv, Types, Client
  <2>4. w = 0 /\ g = 0 /\ PacketsPerChunk * k + r = q + PacketsPerChunk * extra.ack
        /\ q = client.sent + extra.data
    BY <2>2, <2>3 DEF Ledger
  <2>5. client.sent < PacketsPerChunk * (1 + k)
    <3>1. PacketsPerChunk * (1 + k) = PacketsPerChunk * k + PacketsPerChunk
          /\ PacketsPerChunk * k \in Nat /\ PacketsPerChunk * extra.ack \in Nat
      BY <2>3, ChunkOfPackets
    <3> QED BY <2>1, <2>3, <2>4, <3>1, ChunkOfPackets DEF Balance
  <2>6. client.sent * m_size >= m_chunk * (1 + k)
    <3>1. ~MaySend(client) BY DEF IInv, ClientArmed
    <3>2. client.allowed = m_chunk * (1 + k) BY <2>1 DEF Balance
    <3>3. client.sent * m_size \in Nat /\ m_chunk * (1 + k) \in Nat BY <2>3, EchoAssumption
    <3> QED BY <3>1, <3>2, <3>3 DEF MaySend
  <2>7. m_chunk * (1 + k) = (PacketsPerChunk * (1 + k)) * m_size
    <3>1. m_chunk = PacketsPerChunk * m_size BY WholeChunk
    <3> QED BY <3>1, ChunkOfPackets, EchoAssumption
  <2> DEFINE full == PacketsPerChunk * (1 + k)
  <2>8. full \in Nat /\ full > client.sent /\ client.sent * m_size >= full * m_size
    BY <2>5, <2>6, <2>7, ChunkOfPackets
  <2> HIDE DEF full
  <2>9. (client.sent + 1) * m_size <= full * m_size
    <3>1. client.sent + 1 \in Nat /\ client.sent + 1 <= full /\ full \in Nat BY <2>3, <2>8
    <3>2. m_size \in Nat BY EchoAssumption
    <3> QED BY <3>1, <3>2, TimesMonotonic
  <2>10. (client.sent + 1) * m_size = client.sent * m_size + m_size
    BY <2>3, EchoAssumption
  <2>11. client.sent * m_size \in Nat /\ full * m_size \in Nat
    BY <2>3, <2>8, EchoAssumption
  <2> QED BY <2>8, <2>9, <2>10, <2>11, EchoAssumption
<1> QED BY <1>1, SpecInv, PTL

\* A lost packet or ack ends the flow of acks for good, unless something was
\* duplicated: the chunk of the client in which it was lost stays incomplete.
THEOREM LossesAreFinal == Spec => []LossIsFinal
<1>1. IInv => LossIsFinal
  <2> SUFFICES ASSUME IInv, lost > 0, extra.data + extra.ack = 0, acks # 0 PROVE FALSE
    BY DEF LossIsFinal
  <2>1. PICK k, q, r \in Nat : Balance(k, q, r) /\ WithinChunks(k) /\ Paid(k, q, r)
    BY DEF IInv, Accounted
  <2>2. PICK w, g \in Nat : Ledger(k, q, r, w, g) BY <2>1 DEF Paid
  <2>3. client.sent \in Nat /\ extra.data = 0 /\ extra.ack = 0 /\ data \in Nat
        /\ acks \in Nat /\ acks >= 1
    BY EchoAssumption DEF IInv, Types, Client
  <2>4. /\ PacketsPerChunk * (k + w + acks) + r = q /\ q + g + data = client.sent
        /\ w + g > 0 /\ client.sent <= PacketsPerChunk * (1 + k)
    <3>1. PacketsPerChunk * extra.ack = 0 BY <2>3, ChunkOfPackets
    <3>2. PacketsPerChunk * (k + w + acks) \in Nat BY <2>3, ChunkOfPackets
    <3> QED BY <2>1, <2>2, <2>3, <3>1, <3>2 DEF Ledger, WithinChunks
  <2>5. PacketsPerChunk * (k + w + acks) >= PacketsPerChunk * (1 + k) + PacketsPerChunk * w
    <3>1. (1 + k) + w <= k + w + acks BY <2>3
    <3>2. PacketsPerChunk * ((1 + k) + w) <= PacketsPerChunk * (k + w + acks)
      BY <2>3, <3>1, TimesMonotonic, ChunkOfPackets
    <3>3. PacketsPerChunk * ((1 + k) + w) = PacketsPerChunk * (1 + k) + PacketsPerChunk * w
      BY ChunkOfPackets
    <3> QED BY <3>2, <3>3
  <2>6. /\ PacketsPerChunk * w \in Nat /\ PacketsPerChunk * (1 + k) \in Nat
        /\ PacketsPerChunk * (k + w + acks) \in Nat
    BY <2>3, ChunkOfPackets
  <2>7. PacketsPerChunk * w = 0 /\ g = 0 BY <2>3, <2>4, <2>5, <2>6
  <2>8. w = 0 BY <2>7, TimesZero, ChunkOfPackets
  <2> QED BY <2>4, <2>7, <2>8
<1> QED BY <1>1, SpecInv, PTL
=============================================================================
