-------------------------- MODULE SharedBufferProofs --------------------------
(***************************************************************************)
(* The counters of the BroadcomNode against the contents of the buffer,    *)
(* for every instance: the ingress counters are exact, the headroom is     *)
(* covered, limited, and covers what the pools hold above their limit, the *)
(* buffer is not overcommitted, the egress counters of ports and pools are *)
(* the sums of those of their queues, and a congested priority group keeps *)
(* its neighbour paused.                                                   *)
(*                                                                         *)
(* A sum is the cardinality of a set of bytes.  Charging and releasing a   *)
(* packet adds or takes away the bytes of one packet, so the argument is   *)
(* about finite sets; that they are finite is part of the invariant.       *)
(***************************************************************************)
EXTENDS EgressDriftProofs, FiniteSetTheorems

-----------------------------------------------------------------------------
(* Cardinalities *)

\* A block of n bytes of one packet or one queue.
LEMMA BlockCardinality ==
  ASSUME NEW x, NEW n \in Nat
  PROVE  IsFiniteSet({x} \X (1..n)) /\ Cardinality({x} \X (1..n)) = n
<1>1. IsFiniteSet({x}) /\ Cardinality({x}) = 1 BY FS_Singleton
<1>2. IsFiniteSet(1..n) /\ Cardinality(1..n) = n
  <2>1. 1 \in Int /\ n \in Int OBVIOUS
  <2>2. IsFiniteSet(1..n) /\ Cardinality(1..n) = IF 1 > n THEN 0 ELSE n - 1 + 1
    BY <2>1, FS_Interval
  <2> QED BY <2>2
<1> DEFINE S == {x}
           T == 1..n
<1>3. IsFiniteSet(S) /\ Cardinality(S) = 1 /\ IsFiniteSet(T) /\ Cardinality(T) = n
  BY <1>1, <1>2
<1> HIDE DEF S, T
<1>4. IsFiniteSet(S \X T) /\ Cardinality(S \X T) = Cardinality(S) * Cardinality(T)
  BY <1>3, FS_Product, Zenon
<1>5. Cardinality(S) * Cardinality(T) = n BY <1>3
<1>6. IsFiniteSet(S \X T) /\ Cardinality(S \X T) = n BY <1>4, <1>5
<1> QED BY <1>6 DEF S, T

LEMMA DisjointCardinality ==
  ASSUME NEW S, NEW T, IsFiniteSet(S), IsFiniteSet(T), S \cap T = {}
  PROVE  /\ IsFiniteSet(S \cup T)
         /\ Cardinality(S \cup T) = Cardinality(S) + Cardinality(T)
<1>1. Cardinality(S) \in Nat /\ Cardinality(T) \in Nat BY FS_CardinalityType
<1>2. Cardinality(S \cap T) = 0 BY FS_EmptySet, Zenon
<1>3. /\ IsFiniteSet(S \cup T)
      /\ Cardinality(S \cup T) = Cardinality(S) + Cardinality(T) - Cardinality(S \cap T)
  BY FS_Union
<1> QED BY <1>1, <1>2, <1>3

LEMMA RemovedCardinality ==
  ASSUME NEW S, NEW T, IsFiniteSet(S), T \subseteq S
  PROVE  /\ IsFiniteSet(S \ T)
         /\ Cardinality(S \ T) = Cardinality(S) - Cardinality(T)
<1>1. S \cap T = T OBVIOUS
<1> QED BY <1>1, FS_Difference

-----------------------------------------------------------------------------
(* The bytes in the buffer *)

\* x is the byte b of packet n of queue q of device p, and it counts for L.
IsByte(queues, L, x, p, q, n, b) ==
    /\ x = <<<<p, q, n>>, b>>
    /\ n \in DOMAIN queues[p][q]
    /\ <<queues[p][q][n].inDev, q>> \in L
    /\ b \in 1..queues[p][q][n].size

LEMMA InBytes ==
  ASSUME NEW queues, NEW L, NEW x
  PROVE  x \in Bytes(queues, L) <=>
           \E p \in Ports, q \in PGs : \E n, b : IsByte(queues, L, x, p, q, n, b)
<1>1. ASSUME NEW p \in Ports, NEW q \in PGs, NEW n, NEW b, IsByte(queues, L, x, p, q, n, b)
      PROVE  x \in Bytes(queues, L)
  <2>1. <<p, q, n>> \in Places(queues, L)
    <3> DEFINE at(r, c) == {<<r, c, k>> : k \in {m \in DOMAIN queues[r][c] :
                                               <<queues[r][c][m].inDev, c>> \in L}}
    <3>1. <<p, q, n>> \in at(p, q) BY <1>1 DEF IsByte
    <3>2. Places(queues, L) = UNION {at(r, c) : r \in Ports, c \in PGs} BY DEF Places
    <3> HIDE DEF at
    <3> QED BY <3>1, <3>2
  <2>2. x \in {<<p, q, n>>} \X (1..queues[p][q][n].size) BY <1>1 DEF IsByte
  <2> DEFINE y == <<p, q, n>>
  <2>3. y[1] = p /\ y[2] = q /\ y[3] = n OBVIOUS
  <2>4. y \in Places(queues, L) /\ x \in {y} \X (1..queues[y[1]][y[2]][y[3]].size)
    BY <2>1, <2>2
  <2> HIDE DEF y
  <2> QED BY <2>4 DEF Bytes
<1>2. ASSUME x \in Bytes(queues, L)
      PROVE  \E p \in Ports, q \in PGs : \E n, b : IsByte(queues, L, x, p, q, n, b)
  <2>1. PICK y \in Places(queues, L) : x \in {y} \X (1..queues[y[1]][y[2]][y[3]].size)
    BY <1>2 DEF Bytes
  <2>2. PICK p \in Ports, q \in PGs : \E n \in DOMAIN queues[p][q] :
          y = <<p, q, n>> /\ <<queues[p][q][n].inDev, q>> \in L
    BY DEF Places
  <2>3. PICK n \in DOMAIN queues[p][q] :
          y = <<p, q, n>> /\ <<queues[p][q][n].inDev, q>> \in L
    BY <2>2
  <2>4. y[1] = p /\ y[2] = q /\ y[3] = n BY <2>3
  <2>5. PICK b \in 1..queues[p][q][n].size : x = <<y, b>> BY <2>1, <2>4
  <2>6. IsByte(queues, L, x, p, q, n, b) BY <2>3, <2>5 DEF IsByte
  <2> QED BY <2>6
<1> QED BY <1>1, <1>2

\* The bytes of packet n of queue q of device p, if they count for L.
Block(p, q, n, z, counts) == IF counts THEN {<<p, q, n>>} \X (1..z) ELSE {}

LEMMA BlockSize ==
  ASSUME NEW p, NEW q, NEW n, NEW z \in Nat, NEW counts \in BOOLEAN
  PROVE  /\ IsFiniteSet(Block(p, q, n, z, counts))
         /\ Cardinality(Block(p, q, n, z, counts)) = IF counts THEN z ELSE 0
BY BlockCardinality, FS_EmptySet DEF Block

LEMMA InBlock ==
  ASSUME NEW p, NEW q, NEW n, NEW z \in Nat, NEW counts \in BOOLEAN, NEW x
  PROVE  x \in Block(p, q, n, z, counts) <=>
           counts /\ \E b \in 1..z : x = <<<<p, q, n>>, b>>
BY DEF Block

\* What a packet of size z that came in at device i with class q counts for L.
Gain(L, i, q, z) == IF <<i, q>> \in L THEN z ELSE 0

Queues == [Ports -> [PGs -> Seq(Packet)]]

\* The two ways a handler changes the data queues.
Appends(new, queues, p, q, pkt) == new = [queues EXCEPT ![p][q] = Append(@, pkt)]

Drops(new, queues, p, q) == new = [queues EXCEPT ![p][q] = Tail(@)]

\* Append adds the bytes of the packet.
LEMMA BytesAppend ==
  ASSUME NEW queues \in Queues, NEW L,
         NEW p \in Ports, NEW q \in PGs, NEW pkt \in Packet,
         IsFiniteSet(Bytes(queues, L)),
         NEW new, Appends(new, queues, p, q, pkt)
  PROVE  /\ IsFiniteSet(Bytes(new, L))
         /\ Cardinality(Bytes(new, L)) =
              Cardinality(Bytes(queues, L)) + Gain(L, pkt.inDev, q, pkt.size)
<1> DEFINE top    == Len(queues[p][q]) + 1
           counts == <<pkt.inDev, q>> \in L
           block  == Block(p, q, top, pkt.size, counts)
<1>1. queues[p][q] \in Seq(Packet) /\ top \in Nat BY DEF Queues
<1>2. pkt.size \in Nat BY PacketSize
<1>3. new[p][q] = Append(queues[p][q], pkt)
      /\ \A r \in Ports, c \in PGs : r # p \/ c # q => new[r][c] = queues[r][c]
  BY DEF Appends, Queues
<1>4. /\ DOMAIN new[p][q] = DOMAIN queues[p][q] \cup {top}
      /\ top \notin DOMAIN queues[p][q]
      /\ new[p][q][top] = pkt
      /\ \A n \in DOMAIN queues[p][q] : new[p][q][n] = queues[p][q][n]
  BY <1>1, <1>3
<1>5. counts \in BOOLEAN OBVIOUS
<1> HIDE DEF top, counts
<1>6. ASSUME NEW x PROVE x \in Bytes(new, L) <=> x \in Bytes(queues, L) \/ x \in block
  <2>1. ASSUME NEW r \in Ports, NEW c \in PGs, NEW n, NEW b, IsByte(new, L, x, r, c, n, b)
        PROVE  x \in Bytes(queues, L) \/ x \in block
    <3>1. CASE r = p /\ c = q /\ n = top
      <4>1. counts /\ b \in 1..pkt.size /\ x = <<<<p, q, top>>, b>>
        BY <2>1, <3>1, <1>4 DEF IsByte, counts
      <4> QED BY <4>1, <1>2, <1>5, InBlock
    <3>2. CASE r # p \/ c # q \/ n # top
      <4>1. CASE r = p /\ c = q /\ n # top
        <5>1. n \in DOMAIN queues[p][q] BY <2>1, <4>1, <1>4 DEF IsByte
        <5>2. new[p][q][n] = queues[p][q][n] BY <5>1, <1>4
        <5>3. IsByte(queues, L, x, r, c, n, b) BY <2>1, <4>1, <5>1, <5>2 DEF IsByte
        <5> QED BY <5>3, InBytes
      <4>2. CASE r # p \/ c # q
        <5>1. IsByte(queues, L, x, r, c, n, b) BY <2>1, <4>2, <1>3 DEF IsByte
        <5> QED BY <5>1, InBytes
      <4> QED BY <3>2, <4>1, <4>2
    <3> QED BY <3>1, <3>2
  <2>2. ASSUME NEW r \in Ports, NEW c \in PGs, NEW n, NEW b, IsByte(queues, L, x, r, c, n, b)
        PROVE  x \in Bytes(new, L)
    <3>1. IsByte(new, L, x, r, c, n, b) BY <2>2, <1>3, <1>4 DEF IsByte
    <3> QED BY <3>1, InBytes
  <2>3. ASSUME x \in block PROVE x \in Bytes(new, L)
    <3>1. PICK b \in 1..pkt.size : x = <<<<p, q, top>>, b>> BY <2>3, <1>2, <1>5, InBlock
    <3>2. counts BY <2>3, <1>2, <1>5, InBlock
    <3>3. IsByte(new, L, x, p, q, top, b) BY <3>1, <3>2, <1>4 DEF IsByte, counts
    <3> QED BY <3>3, InBytes
  <2> QED BY <2>1, <2>2, <2>3, InBytes
<1>7. Bytes(queues, L) \cap block = {}
  <2> SUFFICES ASSUME NEW x \in Bytes(queues, L), x \in block PROVE FALSE OBVIOUS
  <2>1. PICK b \in 1..pkt.size : x = <<<<p, q, top>>, b>> BY <1>2, <1>5, InBlock
  <2>2. PICK r \in Ports, c \in PGs : \E n, d : IsByte(queues, L, x, r, c, n, d) BY InBytes
  <2>3. PICK n, d : IsByte(queues, L, x, r, c, n, d) BY <2>2
  <2>4. r = p /\ c = q /\ n = top BY <2>1, <2>3 DEF IsByte
  <2> QED BY <2>3, <2>4, <1>4 DEF IsByte
<1>8. Bytes(new, L) = Bytes(queues, L) \cup block BY <1>6
<1>9. IsFiniteSet(block) /\ Cardinality(block) = IF counts THEN pkt.size ELSE 0
  BY <1>2, <1>5, BlockSize
<1> HIDE DEF block
<1>10. /\ IsFiniteSet(Bytes(new, L))
       /\ Cardinality(Bytes(new, L)) = Cardinality(Bytes(queues, L)) + Cardinality(block)
  <2> DEFINE S == Bytes(queues, L)
  <2> HIDE DEF S
  <2>1. S \cap block = {} /\ IsFiniteSet(S) /\ IsFiniteSet(block) BY <1>7, <1>9 DEF S
  <2>2. /\ IsFiniteSet(S \cup block)
        /\ Cardinality(S \cup block) = Cardinality(S) + Cardinality(block)
    BY <2>1, DisjointCardinality, Zenon
  <2> QED BY <1>8, <2>2 DEF S
<1> QED BY <1>9, <1>10 DEF counts, Gain

\* Tail takes away the bytes of the first packet and renumbers the others.
LEMMA BytesTail ==
  ASSUME NEW queues \in Queues, NEW L,
         NEW p \in Ports, NEW q \in PGs, queues[p][q] # <<>>,
         IsFiniteSet(Bytes(queues, L)),
         NEW new, Drops(new, queues, p, q),
         NEW pkt, pkt = Head(queues[p][q])
  PROVE  /\ IsFiniteSet(Bytes(new, L))
         /\ Cardinality(Bytes(new, L)) =
              Cardinality(Bytes(queues, L)) - Gain(L, pkt.inDev, q, pkt.size)
<1> DEFINE len    == Len(queues[p][q])
           counts == <<pkt.inDev, q>> \in L
           block  == Block(p, q, 1, pkt.size, counts)
           S      == Bytes(queues, L) \ block
           T      == Bytes(new, L)
           move(x) == IF x[1][1] = p /\ x[1][2] = q THEN <<<<p, q, x[1][3] - 1>>, x[2]>> ELSE x
           f      == [x \in S |-> move(x)]
<1>1. /\ queues[p][q] \in Seq(Packet) /\ len \in Nat /\ len >= 1
      /\ pkt = queues[p][q][1] /\ pkt \in Packet
  BY DEF Queues
<1>2. pkt.size \in Nat BY <1>1, PacketSize
<1>3. new[p][q] = Tail(queues[p][q])
      /\ \A r \in Ports, c \in PGs : r # p \/ c # q => new[r][c] = queues[r][c]
  BY DEF Drops, Queues
<1>4. /\ DOMAIN new[p][q] = 1..(len - 1) /\ DOMAIN queues[p][q] = 1..len
      /\ \A n \in 1..(len - 1) : new[p][q][n] = queues[p][q][n + 1]
  BY <1>1, <1>3
<1>5. counts \in BOOLEAN OBVIOUS
<1> HIDE DEF len, counts
<1>6. block \subseteq Bytes(queues, L)
  <2> SUFFICES ASSUME NEW x \in block PROVE x \in Bytes(queues, L) OBVIOUS
  <2>1. PICK b \in 1..pkt.size : x = <<<<p, q, 1>>, b>> BY <1>2, <1>5, InBlock
  <2>2. counts BY <1>2, <1>5, InBlock
  <2>3. 1 \in DOMAIN queues[p][q] BY <1>1, <1>4
  <2>4. IsByte(queues, L, x, p, q, 1, b) BY <1>1, <2>1, <2>2, <2>3 DEF IsByte, counts
  <2> QED BY <2>4, InBytes
<1>7. IsFiniteSet(block) /\ Cardinality(block) = IF counts THEN pkt.size ELSE 0
  BY <1>2, <1>5, BlockSize
<1>8. IsFiniteSet(S) /\ Cardinality(S) = Cardinality(Bytes(queues, L)) - Cardinality(block)
  BY <1>6, RemovedCardinality
\* The elements of S: bytes of other queues, and of the packets after the first.
<1>9. ASSUME NEW x \in S
      PROVE  \E r \in Ports, c \in PGs : \E n, b :
               IsByte(queues, L, x, r, c, n, b) /\ ~(r = p /\ c = q /\ n = 1)
  <2>1. PICK r \in Ports, c \in PGs : \E n, b : IsByte(queues, L, x, r, c, n, b) BY InBytes
  <2>2. PICK n, b : IsByte(queues, L, x, r, c, n, b) BY <2>1
  <2>3. ASSUME r = p, c = q, n = 1 PROVE FALSE
    <3>1. counts /\ b \in 1..pkt.size /\ x = <<<<p, q, 1>>, b>>
      BY <1>1, <2>2, <2>3 DEF IsByte, counts
    <3>2. x \in block BY <3>1, <1>2, <1>5, InBlock
    <3> QED BY <3>2
  <2> QED BY <2>2, <2>3
<1>10. ASSUME NEW x, NEW r \in Ports, NEW c \in PGs, NEW n, NEW b,
              IsByte(queues, L, x, r, c, n, b), ~(r = p /\ c = q /\ n = 1)
       PROVE  /\ x \in S
              /\ r = p /\ c = q => /\ n \in 2..len
                                   /\ move(x) = <<<<p, q, n - 1>>, b>>
                                   /\ IsByte(new, L, move(x), p, q, n - 1, b)
              /\ r # p \/ c # q => move(x) = x /\ IsByte(new, L, x, r, c, n, b)
  <2>1. x \in Bytes(queues, L) BY <1>10, InBytes
  <2>2. x \notin block
    <3> SUFFICES ASSUME x \in block PROVE FALSE OBVIOUS
    <3>1. PICK d \in 1..pkt.size : x = <<<<p, q, 1>>, d>> BY <1>2, <1>5, InBlock
    <3> QED BY <1>10, <3>1 DEF IsByte
  <2>3. x[1][1] = r /\ x[1][2] = c /\ x[1][3] = n /\ x[2] = b /\ x = <<<<r, c, n>>, b>>
    BY <1>10 DEF IsByte
  <2>4. ASSUME r = p, c = q
        PROVE  /\ n \in 2..len
               /\ move(x) = <<<<p, q, n - 1>>, b>>
               /\ IsByte(new, L, move(x), p, q, n - 1, b)
    <3>1. n \in 1..len /\ n # 1 BY <1>10, <2>4, <1>4 DEF IsByte
    <3>2. n \in 2..len /\ n - 1 \in 1..(len - 1) /\ (n - 1) + 1 = n BY <3>1, <1>1
    <3>3. new[p][q][n - 1] = queues[p][q][n] BY <3>2, <1>4
    <3>4. move(x) = <<<<p, q, n - 1>>, b>> BY <2>3, <2>4
    <3>5. IsByte(new, L, move(x), p, q, n - 1, b)
      BY <1>10, <2>4, <3>2, <3>3, <3>4, <1>4 DEF IsByte
    <3> QED BY <3>2, <3>4, <3>5
  <2>5. ASSUME r # p \/ c # q PROVE move(x) = x /\ IsByte(new, L, x, r, c, n, b)
    BY <1>10, <2>3, <2>5, <1>3 DEF IsByte
  <2> QED BY <2>1, <2>2, <2>4, <2>5
<1> HIDE DEF S, T, move
<1>11. \A x \in S : move(x) \in T
  <2> TAKE x \in S
  <2>1. PICK r \in Ports, c \in PGs : \E n, b :
          IsByte(queues, L, x, r, c, n, b) /\ ~(r = p /\ c = q /\ n = 1)
    BY <1>9
  <2>2. PICK n, b : IsByte(queues, L, x, r, c, n, b) /\ ~(r = p /\ c = q /\ n = 1) BY <2>1
  <2>3. CASE r = p /\ c = q
    <3>1. IsByte(new, L, move(x), p, q, n - 1, b) BY <1>10, <2>2, <2>3
    <3> QED BY <3>1, InBytes DEF T
  <2>4. CASE r # p \/ c # q
    <3>1. IsByte(new, L, move(x), r, c, n, b) BY <1>10, <2>2, <2>4
    <3> QED BY <3>1, InBytes DEF T
  <2> QED BY <2>3, <2>4
<1>12. ASSUME NEW x \in S, NEW y \in S, move(x) = move(y) PROVE x = y
  <2>1. PICK r \in Ports, c \in PGs : \E n, b :
          IsByte(queues, L, x, r, c, n, b) /\ ~(r = p /\ c = q /\ n = 1)
    BY <1>9
  <2>2. PICK n, b : IsByte(queues, L, x, r, c, n, b) /\ ~(r = p /\ c = q /\ n = 1) BY <2>1
  <2>3. PICK u \in Ports, v \in PGs : \E m, d :
          IsByte(queues, L, y, u, v, m, d) /\ ~(u = p /\ v = q /\ m = 1)
    BY <1>9
  <2>4. PICK m, d : IsByte(queues, L, y, u, v, m, d) /\ ~(u = p /\ v = q /\ m = 1) BY <2>3
  <2>5. x = <<<<r, c, n>>, b>> /\ y = <<<<u, v, m>>, d>> BY <2>2, <2>4 DEF IsByte
  <2>6. /\ r = p /\ c = q => n \in 2..len /\ move(x) = <<<<p, q, n - 1>>, b>>
        /\ r # p \/ c # q => move(x) = x
    <3>1. CASE r = p /\ c = q BY <1>10, <2>2, <3>1
    <3>2. CASE r # p \/ c # q BY <1>10, <2>2, <3>2
    <3> QED BY <3>1, <3>2
  <2>7. /\ u = p /\ v = q => m \in 2..len /\ move(y) = <<<<p, q, m - 1>>, d>>
        /\ u # p \/ v # q => move(y) = y
    <3>1. CASE u = p /\ v = q BY <1>10, <2>4, <3>1
    <3>2. CASE u # p \/ v # q BY <1>10, <2>4, <3>2
    <3> QED BY <3>1, <3>2
  <2>8. CASE r = p /\ c = q /\ u = p /\ v = q
    <3>1. n - 1 = m - 1 /\ b = d /\ n \in 2..len /\ m \in 2..len
      BY <1>12, <2>6, <2>7, <2>8
    <3>2. n = m BY <3>1, <1>1
    <3> QED BY <2>5, <2>8, <3>1, <3>2
  <2>9. CASE ~(r = p /\ c = q) /\ ~(u = p /\ v = q) BY <1>12, <2>6, <2>7, <2>9
  <2>10. CASE r = p /\ c = q /\ ~(u = p /\ v = q) BY <1>12, <2>5, <2>6, <2>7, <2>10
  <2>11. CASE ~(r = p /\ c = q) /\ u = p /\ v = q BY <1>12, <2>5, <2>6, <2>7, <2>11
  <2> QED BY <2>8, <2>9, <2>10, <2>11
<1>13. \A y \in T : \E x \in S : move(x) = y
  <2> TAKE y \in T
  <2>1. PICK r \in Ports, c \in PGs : \E n, b : IsByte(new, L, y, r, c, n, b)
    BY InBytes DEF T
  <2>2. PICK n, b : IsByte(new, L, y, r, c, n, b) BY <2>1
  <2>3. CASE r = p /\ c = q
    <3>1. n \in 1..(len - 1) BY <2>2, <2>3, <1>4 DEF IsByte
    <3>2. n + 1 \in 1..len /\ n + 1 # 1 /\ (n + 1) - 1 = n BY <3>1, <1>1
    <3> DEFINE x == <<<<p, q, n + 1>>, b>>
    <3>3. new[p][q][n] = queues[p][q][n + 1] BY <3>1, <1>4
    <3>4. IsByte(queues, L, x, p, q, n + 1, b) BY <2>2, <2>3, <3>2, <3>3, <1>4 DEF IsByte
    <3> HIDE DEF x
    <3>5. x \in S /\ move(x) = <<<<p, q, (n + 1) - 1>>, b>> BY <3>2, <3>4, <1>10
    <3>6. move(x) = y BY <2>2, <2>3, <3>2, <3>5 DEF IsByte
    <3> QED BY <3>5, <3>6
  <2>4. CASE r # p \/ c # q
    <3>1. IsByte(queues, L, y, r, c, n, b) BY <2>2, <2>4, <1>3 DEF IsByte
    <3>2. y \in S /\ move(y) = y BY <2>4, <3>1, <1>10
    <3> QED BY <3>2
  <2> QED BY <2>3, <2>4
<1>14. f \in [S -> T] BY <1>11
<1>15. f \in Bijection(S, T)
  <2>1. DOMAIN f = S /\ \A x \in S : f[x] = move(x) OBVIOUS
  <2> HIDE DEF f
  <2>2. IsInjective(f) BY <1>12, <2>1 DEF IsInjective
  <2>3. \A y \in T : \E x \in S : f[x] = y BY <1>13, <2>1
  <2> QED BY <1>14, <2>2, <2>3 DEF Bijection, Injection, Surjection
<1>16. ExistsBijection(S, T) BY <1>15 DEF ExistsBijection
<1>17. IsFiniteSet(T) /\ Cardinality(T) = Cardinality(S) BY <1>8, <1>16, FS_Bijection
<1> QED BY <1>7, <1>8, <1>17 DEF T, counts, Gain

LEMMA BytesMonotone ==
  ASSUME NEW queues, NEW M, NEW L \in SUBSET M, IsFiniteSet(Bytes(queues, M))
  PROVE  /\ IsFiniteSet(Bytes(queues, L))
         /\ Cardinality(Bytes(queues, L)) \in Nat
         /\ Cardinality(Bytes(queues, L)) <= Cardinality(Bytes(queues, M))
<1>1. Bytes(queues, L) \in SUBSET Bytes(queues, M)
  <2> SUFFICES ASSUME NEW x \in Bytes(queues, L) PROVE x \in Bytes(queues, M) OBVIOUS
  <2>1. PICK p \in Ports, q \in PGs : \E n, b : IsByte(queues, L, x, p, q, n, b) BY InBytes
  <2>2. PICK n, b : IsByte(queues, L, x, p, q, n, b) BY <2>1
  <2>3. IsByte(queues, M, x, p, q, n, b) BY <2>2 DEF IsByte
  <2> QED BY <2>3, InBytes
<1> DEFINE S == Bytes(queues, L)
           T == Bytes(queues, M)
<1> HIDE DEF S, T
<1>2. S \in SUBSET T /\ IsFiniteSet(T) BY <1>1 DEF S, T
<1>3. IsFiniteSet(S) /\ Cardinality(S) <= Cardinality(T) BY <1>2, FS_Subset
<1>4. Cardinality(S) \in Nat BY <1>3, FS_CardinalityType
<1> QED BY <1>3, <1>4 DEF S, T

-----------------------------------------------------------------------------
(* The ingress counters *)

All == Ports \X PGs

Size(s, L) == Cardinality(Bytes(s.qs, L))

\* The inductive invariant: IngressExact, HeadroomCovered for groups, BufferRespected
\* of a state, with the finiteness of the buffer.
Exact(s) ==
    /\ IsFiniteSet(Bytes(s.qs, All))
    /\ \A i \in Ports, q \in PGs : s.in.PG[i][q] = Size(s, {<<i, q>>})
    /\ \A i \in Ports : s.in.Port[i] = Size(s, {i} \X PGs)
    /\ \A k \in Pools : s.in.SP[k] = Size(s, Ports \X PoolClasses(k))
    /\ s.in.Total = Size(s, All)
    /\ \A i \in Ports, q \in PGs : s.in.Headroom[i][q] <= s.in.PG[i][q]
    /\ s.in.Total <= m_maxBufferBytes

\* What each counter stands for.
LEMMA Charges ==
  ASSUME NEW i \in Ports, NEW q \in PGs
  PROVE  /\ \A j \in Ports, c \in PGs :
              {<<j, c>>} \in SUBSET All /\ (<<i, q>> \in {<<j, c>>} <=> i = j /\ q = c)
         /\ \A j \in Ports : {j} \X PGs \in SUBSET All /\ (<<i, q>> \in {j} \X PGs <=> i = j)
         /\ \A k \in Pools : /\ Ports \X PoolClasses(k) \in SUBSET All
                             /\ (<<i, q>> \in Ports \X PoolClasses(k) <=> GetIngressSP(i, q) = k)
         /\ All \in SUBSET All /\ <<i, q>> \in All
BY DEF All, PoolClasses, GetIngressSP

LEMMA ExactBounds ==
  ASSUME NEW s, Exact(s), NEW L \in SUBSET All
  PROVE  Size(s, L) \in Nat /\ Size(s, L) <= s.in.Total /\ s.in.Total \in Nat
<1>1. IsFiniteSet(Bytes(s.qs, All)) /\ s.in.Total = Size(s, All) BY DEF Exact
<1>2. Size(s, L) \in Nat /\ Size(s, L) <= Size(s, All) BY <1>1, BytesMonotone DEF Size
<1>3. Size(s, All) \in Nat BY <1>1, FS_CardinalityType DEF Size
<1> QED BY <1>1, <1>2, <1>3

LEMMA UpdateIngressAt ==
  ASSUME NEW in \in IngressCounters, NEW i \in Ports, NEW q \in PGs, NEW z
  PROVE  LET new == UpdateIngressAdmission(in, i, q, z)
             sp  == GetIngressSP(i, q)
         IN  /\ new.Total = Add(in.Total, z)
             /\ \A k \in Pools : new.SP[k] = IF k = sp THEN Add(in.SP[k], z) ELSE in.SP[k]
             /\ \A j \in Ports : new.Port[j] = IF j = i THEN Add(in.Port[j], z) ELSE in.Port[j]
             /\ \A j \in Ports, c \in PGs :
                  /\ new.PG[j][c] = IF j = i /\ c = q THEN Add(in.PG[j][c], z) ELSE in.PG[j][c]
                  /\ \/ new.Headroom[j][c] = in.Headroom[j][c]
                     \/ /\ j = i /\ c = q
                        /\ new.Headroom[j][c] = Add(in.Headroom[j][c], z)
<1>1. GetIngressSP(i, q) \in Pools BY PoolType
<1> QED BY <1>1 DEF UpdateIngressAdmission, IngressCounters

LEMMA RemoveIngressAt ==
  ASSUME NEW in \in IngressCounters, NEW i \in Ports, NEW q \in PGs, NEW z
  PROVE  LET new == RemoveFromIngressAdmission(in, i, q, z)
             sp  == GetIngressSP(i, q)
         IN  /\ new.Total = Sub(in.Total, z)
             /\ \A k \in Pools : new.SP[k] = IF k = sp THEN Sub(in.SP[k], z) ELSE in.SP[k]
             /\ \A j \in Ports : new.Port[j] = IF j = i THEN Sub(in.Port[j], z) ELSE in.Port[j]
             /\ \A j \in Ports, c \in PGs :
                  /\ new.PG[j][c] = IF j = i /\ c = q THEN Sub(in.PG[j][c], z) ELSE in.PG[j][c]
                  /\ new.Headroom[j][c] =
                       IF j = i /\ c = q
                         THEN IF in.Headroom[j][c] > z THEN in.Headroom[j][c] - z ELSE 0
                         ELSE in.Headroom[j][c]
<1>1. GetIngressSP(i, q) \in Pools BY PoolType
<1> QED BY <1>1 DEF RemoveFromIngressAdmission, IngressCounters

\* A packet of size z is charged to every counter that stands for it.
LEMMA AdmitExact ==
  ASSUME NEW s \in States, Exact(s), NEW p \in Ports, NEW i \in Ports,
         NEW q \in PGs, NEW z \in Sizes
  PROVE  Exact(Admit(s, p, i, q, z))
<1> DEFINE pkt == [inDev |-> i, size |-> z]
           t   == Admit(s, p, i, q, z)
<1>1. CASE ~(/\ CheckIngressAdmission(s.in, i, q, z)
             /\ CheckEgressAdmission(s.out, p, q, z))
  BY <1>1 DEF Admit
<1>2. CASE /\ CheckIngressAdmission(s.in, i, q, z)
           /\ CheckEgressAdmission(s.out, p, q, z)
  <2>1. /\ t.in = UpdateIngressAdmission(s.in, i, q, z)
        /\ t.qs = [s.qs EXCEPT ![p][q] = Append(@, pkt)]
    BY <1>2 DEF Admit
  <2>2. s.in \in IngressCounters /\ s.qs \in Queues BY DEF States, Queues
  <2>3. pkt \in Packet /\ pkt.size = z /\ pkt.inDev = i BY DEF Packet
  <2>4. z \in 1..MaxSize BY SizeType
  <2>5. Add(s.in.Total, z) <= m_maxBufferBytes BY <1>2 DEF CheckIngressAdmission
  <2>6. /\ m_maxBufferBytes + MaxSize < W /\ W \in Nat /\ m_maxBufferBytes \in Nat
        /\ MaxSize \in Nat
    BY RoomAssumption, ThresholdAssumption, SizeAssumption
  <2>7. s.in.Total \in Nat /\ s.in.Total <= m_maxBufferBytes
    BY ExactBounds DEF Exact
  <2>8. s.in.Total + z <= m_maxBufferBytes /\ Add(s.in.Total, z) = s.in.Total + z
    BY <2>4, <2>5, <2>6, <2>7 DEF Add
  <2> HIDE DEF t, pkt
  <2>9. ASSUME NEW L \in SUBSET All
        PROVE  /\ IsFiniteSet(Bytes(t.qs, L))
               /\ Size(t, L) = Size(s, L) + Gain(L, i, q, z)
    <3>1. IsFiniteSet(Bytes(s.qs, L)) BY BytesMonotone DEF Exact
    <3>2. Appends(t.qs, s.qs, p, q, pkt) BY <2>1 DEF Appends
    <3>3. /\ IsFiniteSet(Bytes(t.qs, L))
          /\ Cardinality(Bytes(t.qs, L)) =
               Cardinality(Bytes(s.qs, L)) + Gain(L, pkt.inDev, q, pkt.size)
      BY <2>2, <2>3, <3>1, <3>2, BytesAppend
    <3> QED BY <2>3, <3>3 DEF Size
  <2>10. \A L \in SUBSET All :
           Size(s, L) \in Nat /\ Size(s, L) + z < W /\ Add(Size(s, L), z) = Size(s, L) + z
    <3> SUFFICES ASSUME NEW L \in SUBSET All
                 PROVE  /\ Size(s, L) \in Nat /\ Size(s, L) + z < W
                        /\ Add(Size(s, L), z) = Size(s, L) + z
      OBVIOUS
    <3>1. Size(s, L) \in Nat /\ Size(s, L) <= s.in.Total BY ExactBounds
    <3>2. Size(s, L) + z < W BY <2>4, <2>6, <2>7, <2>8, <3>1
    <3> QED BY <3>1, <3>2 DEF Add
  <2>11. /\ t.in.Total = Add(s.in.Total, z)
         /\ \A k \in Pools : t.in.SP[k] = IF k = GetIngressSP(i, q) THEN Add(s.in.SP[k], z)
                                                                  ELSE s.in.SP[k]
         /\ \A j \in Ports : t.in.Port[j] = IF j = i THEN Add(s.in.Port[j], z)
                                                   ELSE s.in.Port[j]
         /\ \A j \in Ports, c \in PGs :
              /\ t.in.PG[j][c] = IF j = i /\ c = q THEN Add(s.in.PG[j][c], z)
                                                  ELSE s.in.PG[j][c]
              /\ \/ t.in.Headroom[j][c] = s.in.Headroom[j][c]
                 \/ /\ j = i /\ c = q
                    /\ t.in.Headroom[j][c] = Add(s.in.Headroom[j][c], z)
    BY <2>1, <2>2, UpdateIngressAt
  <2>12. IsFiniteSet(Bytes(t.qs, All)) BY <2>9
  <2>13. \A j \in Ports, c \in PGs : t.in.PG[j][c] = Size(t, {<<j, c>>})
    <3> SUFFICES ASSUME NEW j \in Ports, NEW c \in PGs
                 PROVE  t.in.PG[j][c] = Size(t, {<<j, c>>})
      OBVIOUS
    <3> DEFINE L == {<<j, c>>}
    <3>1. L \in SUBSET All /\ (<<i, q>> \in L <=> i = j /\ q = c) BY Charges
    <3>2. s.in.PG[j][c] = Size(s, L) BY DEF Exact
    <3> HIDE DEF L
    <3>3. Size(t, L) = Size(s, L) + Gain(L, i, q, z) BY <2>9, <3>1
    <3>4. Size(s, L) \in Nat /\ Add(Size(s, L), z) = Size(s, L) + z BY <2>10, <3>1
    <3>5. t.in.PG[j][c] = Size(t, L) BY <2>11, <3>1, <3>2, <3>3, <3>4 DEF Gain
    <3> QED BY <3>5 DEF L
  <2>14. \A j \in Ports : t.in.Port[j] = Size(t, {j} \X PGs)
    <3> SUFFICES ASSUME NEW j \in Ports PROVE t.in.Port[j] = Size(t, {j} \X PGs) OBVIOUS
    <3> DEFINE L == {j} \X PGs
    <3>1. L \in SUBSET All /\ (<<i, q>> \in L <=> i = j) BY Charges
    <3>2. s.in.Port[j] = Size(s, L) BY DEF Exact
    <3> HIDE DEF L
    <3>3. Size(t, L) = Size(s, L) + Gain(L, i, q, z) BY <2>9, <3>1
    <3>4. Size(s, L) \in Nat /\ Add(Size(s, L), z) = Size(s, L) + z BY <2>10, <3>1
    <3>5. t.in.Port[j] = Size(t, L) BY <2>11, <3>1, <3>2, <3>3, <3>4 DEF Gain
    <3> QED BY <3>5 DEF L
  <2>15. \A k \in Pools : t.in.SP[k] = Size(t, Ports \X PoolClasses(k))
    <3> SUFFICES ASSUME NEW k \in Pools
                 PROVE  t.in.SP[k] = Size(t, Ports \X PoolClasses(k))
      OBVIOUS
    <3> DEFINE L == Ports \X PoolClasses(k)
    <3>1. L \in SUBSET All /\ (<<i, q>> \in L <=> GetIngressSP(i, q) = k) BY Charges
    <3>2. s.in.SP[k] = Size(s, L) BY DEF Exact
    <3> HIDE DEF L
    <3>3. Size(t, L) = Size(s, L) + Gain(L, i, q, z) BY <2>9, <3>1
    <3>4. Size(s, L) \in Nat /\ Add(Size(s, L), z) = Size(s, L) + z BY <2>10, <3>1
    <3>5. t.in.SP[k] = Size(t, L) BY <2>11, <3>1, <3>2, <3>3, <3>4 DEF Gain
    <3> QED BY <3>5 DEF L
  <2>16. t.in.Total = Size(t, All)
    <3>1. Size(t, All) = Size(s, All) + z BY <2>9, Charges DEF Gain
    <3> QED BY <2>8, <2>11, <3>1 DEF Exact
  <2>17. \A j \in Ports, c \in PGs : t.in.Headroom[j][c] <= t.in.PG[j][c]
    <3> SUFFICES ASSUME NEW j \in Ports, NEW c \in PGs
                 PROVE  t.in.Headroom[j][c] <= t.in.PG[j][c]
      OBVIOUS
    <3>1. s.in.Headroom[j][c] <= s.in.PG[j][c] /\ s.in.Headroom[j][c] \in Nat
      BY <2>2, <2>6 DEF Exact, IngressCounters, Word
    <3>2. s.in.PG[j][c] \in Nat /\ s.in.PG[j][c] + z < W
      <4>1. {<<j, c>>} \in SUBSET All BY DEF All
      <4>2. s.in.PG[j][c] = Size(s, {<<j, c>>}) BY DEF Exact
      <4>3. Size(s, {<<j, c>>}) \in Nat /\ Size(s, {<<j, c>>}) + z < W BY <2>10, <4>1, Zenon
      <4> QED BY <4>2, <4>3
    <3>3. Add(s.in.PG[j][c], z) = s.in.PG[j][c] + z
          /\ Add(s.in.Headroom[j][c], z) = s.in.Headroom[j][c] + z
      BY <2>4, <2>6, <3>1, <3>2 DEF Add
    <3>4. CASE j = i /\ c = q
      <4>1. t.in.PG[j][c] = s.in.PG[j][c] + z BY <2>11, <3>3, <3>4
      <4>2. \/ t.in.Headroom[j][c] = s.in.Headroom[j][c]
            \/ t.in.Headroom[j][c] = s.in.Headroom[j][c] + z
        BY <2>11, <3>3, Zenon
      <4> QED BY <2>4, <3>1, <3>2, <4>1, <4>2
    <3>5. CASE ~(j = i /\ c = q)
      <4>1. t.in.PG[j][c] = s.in.PG[j][c] /\ t.in.Headroom[j][c] = s.in.Headroom[j][c]
        BY <2>11, <3>5
      <4> QED BY <3>1, <4>1
    <3> QED BY <3>4, <3>5
  <2>18. t.in.Total <= m_maxBufferBytes BY <2>8, <2>11
  <2>19. Exact(t) BY <2>12, <2>13, <2>14, <2>15, <2>16, <2>17, <2>18 DEF Exact
  <2> QED BY <2>19 DEF t
<1> QED BY <1>1, <1>2

\* A packet that leaves is released from the counters it was charged to, and
\* no counter grows.
LEMMA TransmitDataExact ==
  ASSUME NEW s \in States, Exact(s), NEW p \in Ports, NEW q \in PGs,
         s.qs[p][q] # <<>>, NEW ce
  PROVE  LET t == TransmitData(s, p, q, ce)
         IN  /\ Exact(t)
             /\ \A j \in Ports, c \in PGs : t.in.PG[j][c] <= s.in.PG[j][c]
             /\ \A j \in Ports : t.in.Port[j] <= s.in.Port[j]
<1> DEFINE pkt == Head(s.qs[p][q])
           i   == pkt.inDev
           z   == pkt.size
           t   == TransmitData(s, p, q, ce)
<1>1. /\ t.in = RemoveFromIngressAdmission(s.in, i, q, z)
      /\ t.qs = [s.qs EXCEPT ![p][q] = Tail(@)]
  BY DEF TransmitData
<1>2. s.in \in IngressCounters /\ s.qs \in Queues BY DEF States, Queues
<1>3. pkt \in Packet BY HeadTailType DEF States
<1>4. i \in Ports /\ z \in Sizes BY <1>3 DEF Packet
<1>5. z \in 1..MaxSize /\ z \in Nat BY <1>4, SizeType
<1> DEFINE head == pkt
<1> HIDE DEF t, head, pkt, i, z
<1>6. ASSUME NEW L \in SUBSET All
      PROVE  /\ IsFiniteSet(Bytes(t.qs, L))
             /\ Size(t, L) = Size(s, L) - Gain(L, i, q, z)
             /\ Size(s, L) \in Nat /\ Size(t, L) \in Nat
  <2>1. IsFiniteSet(Bytes(s.qs, L)) /\ Size(s, L) \in Nat BY BytesMonotone DEF Exact, Size
  <2>2. Drops(t.qs, s.qs, p, q) BY <1>1 DEF Drops
  <2>3. /\ IsFiniteSet(Bytes(t.qs, L))
        /\ Cardinality(Bytes(t.qs, L)) =
             Cardinality(Bytes(s.qs, L)) - Gain(L, pkt.inDev, q, pkt.size)
    BY <1>2, <2>1, <2>2, BytesTail DEF pkt
  <2>4. Size(t, L) \in Nat BY <2>3, FS_CardinalityType DEF Size
  <2> QED BY <2>1, <2>3, <2>4 DEF Size, i, z
<1>7. ASSUME NEW L \in SUBSET All
      PROVE  /\ <<i, q>> \in L => Sub(Size(s, L), z) = Size(t, L) /\ z <= Size(s, L)
             /\ <<i, q>> \notin L => Size(s, L) = Size(t, L)
             /\ Size(t, L) <= Size(s, L)
  <2>1. /\ Size(t, L) = Size(s, L) - Gain(L, i, q, z)
        /\ Size(s, L) \in Nat /\ Size(t, L) \in Nat
    BY <1>6
  <2>2. CASE <<i, q>> \in L
    <3>1. Size(t, L) = Size(s, L) - z BY <2>1, <2>2 DEF Gain
    <3> QED BY <1>5, <2>1, <2>2, <3>1 DEF Sub
  <2>3. CASE <<i, q>> \notin L
    <3>1. Size(t, L) = Size(s, L) - 0 BY <2>1, <2>3 DEF Gain
    <3> QED BY <2>1, <2>3, <3>1
  <2> QED BY <2>2, <2>3
<1>8. /\ t.in.Total = Sub(s.in.Total, z)
      /\ \A k \in Pools : t.in.SP[k] = IF k = GetIngressSP(i, q) THEN Sub(s.in.SP[k], z)
                                                               ELSE s.in.SP[k]
      /\ \A j \in Ports : t.in.Port[j] = IF j = i THEN Sub(s.in.Port[j], z)
                                                ELSE s.in.Port[j]
      /\ \A j \in Ports, c \in PGs :
           /\ t.in.PG[j][c] = IF j = i /\ c = q THEN Sub(s.in.PG[j][c], z)
                                               ELSE s.in.PG[j][c]
           /\ t.in.Headroom[j][c] =
                IF j = i /\ c = q
                  THEN IF s.in.Headroom[j][c] > z THEN s.in.Headroom[j][c] - z ELSE 0
                  ELSE s.in.Headroom[j][c]
  BY <1>1, <1>2, <1>4, RemoveIngressAt
<1>9. ASSUME NEW j \in Ports, NEW c \in PGs
      PROVE  /\ t.in.PG[j][c] = Size(t, {<<j, c>>})
             /\ t.in.PG[j][c] <= s.in.PG[j][c]
             /\ t.in.Headroom[j][c] <= t.in.PG[j][c]
  <2> DEFINE L == {<<j, c>>}
  <2>1. L \in SUBSET All /\ (<<i, q>> \in L <=> i = j /\ q = c) BY <1>4, Charges
  <2>2. s.in.PG[j][c] = Size(s, L) BY DEF Exact
  <2> HIDE DEF L
  <2>3. /\ <<i, q>> \in L => Sub(Size(s, L), z) = Size(t, L) /\ z <= Size(s, L)
        /\ <<i, q>> \notin L => Size(s, L) = Size(t, L)
        /\ Size(t, L) <= Size(s, L)
    BY <1>7, <2>1
  <2>4. t.in.PG[j][c] = Size(t, L) BY <1>8, <2>1, <2>2, <2>3
  <2>5. s.in.Headroom[j][c] <= Size(s, L) /\ s.in.Headroom[j][c] \in Nat
    BY <1>2, <2>2, ThresholdAssumption DEF Exact, IngressCounters, Word
  <2>6. Size(s, L) \in Nat /\ Size(t, L) \in Nat
        /\ Size(t, L) = Size(s, L) - Gain(L, i, q, z)
    BY <1>6, <2>1
  <2>7. t.in.Headroom[j][c] <= Size(t, L)
    <3>1. CASE j = i /\ c = q
      <4>1. Size(t, L) = Size(s, L) - z BY <2>1, <2>6, <3>1 DEF Gain
      <4>2. t.in.Headroom[j][c] =
              IF s.in.Headroom[j][c] > z THEN s.in.Headroom[j][c] - z ELSE 0
        BY <1>8, <3>1
      <4> QED BY <1>5, <2>5, <2>6, <4>1, <4>2
    <3>2. CASE ~(j = i /\ c = q)
      <4>1. t.in.Headroom[j][c] = s.in.Headroom[j][c] BY <1>8, <3>2
      <4> QED BY <2>1, <2>3, <2>5, <3>2, <4>1
    <3> QED BY <3>1, <3>2
  <2> QED BY <2>2, <2>3, <2>4, <2>7 DEF L
<1>10. ASSUME NEW j \in Ports
       PROVE  t.in.Port[j] = Size(t, {j} \X PGs) /\ t.in.Port[j] <= s.in.Port[j]
  <2> DEFINE L == {j} \X PGs
  <2>1. L \in SUBSET All /\ (<<i, q>> \in L <=> i = j) BY <1>4, Charges
  <2>2. s.in.Port[j] = Size(s, L) BY DEF Exact
  <2> HIDE DEF L
  <2>3. /\ <<i, q>> \in L => Sub(Size(s, L), z) = Size(t, L)
        /\ <<i, q>> \notin L => Size(s, L) = Size(t, L)
        /\ Size(t, L) <= Size(s, L)
    BY <1>7, <2>1
  <2>4. t.in.Port[j] = Size(t, L) BY <1>8, <2>1, <2>2, <2>3
  <2> QED BY <2>2, <2>3, <2>4 DEF L
<1>11. \A k \in Pools : t.in.SP[k] = Size(t, Ports \X PoolClasses(k))
  <2> SUFFICES ASSUME NEW k \in Pools
               PROVE  t.in.SP[k] = Size(t, Ports \X PoolClasses(k))
    OBVIOUS
  <2> DEFINE L == Ports \X PoolClasses(k)
  <2>1. L \in SUBSET All /\ (<<i, q>> \in L <=> GetIngressSP(i, q) = k) BY <1>4, Charges
  <2>2. s.in.SP[k] = Size(s, L) BY DEF Exact
  <2> HIDE DEF L
  <2>3. /\ <<i, q>> \in L => Sub(Size(s, L), z) = Size(t, L)
        /\ <<i, q>> \notin L => Size(s, L) = Size(t, L)
    BY <1>7, <2>1
  <2>4. t.in.SP[k] = Size(t, L) BY <1>8, <2>1, <2>2, <2>3
  <2> QED BY <2>4 DEF L
<1>12. t.in.Total = Size(t, All) /\ t.in.Total <= m_maxBufferBytes
  <2>1. All \in SUBSET All /\ <<i, q>> \in All BY <1>4, Charges
  <2>2. s.in.Total = Size(s, All) /\ s.in.Total <= m_maxBufferBytes BY DEF Exact
  <2>3. Sub(Size(s, All), z) = Size(t, All) /\ Size(t, All) <= Size(s, All) BY <1>7, <2>1
  <2>4. Size(s, All) \in Nat /\ Size(t, All) \in Nat BY <1>6, <2>1
  <2>5. t.in.Total = Size(t, All) BY <1>8, <2>2, <2>3
  <2> QED BY <2>2, <2>3, <2>4, <2>5, ThresholdAssumption
<1>13. IsFiniteSet(Bytes(t.qs, All)) BY <1>6
<1>14. Exact(t) BY <1>9, <1>10, <1>11, <1>12, <1>13 DEF Exact
<1> QED BY <1>9, <1>10, <1>14 DEF t

-----------------------------------------------------------------------------
(* The egress counters *)

Tables == [Ports -> [PGs -> Word]]

Sets(new, old, p, q, v) == new = [old EXCEPT ![p][q] = v]

LEMMA InShares ==
  ASSUME NEW shared, NEW L, NEW x
  PROVE  x \in Shares(shared, L) <=>
           \E r \in L : \E b \in 1..shared[r[1]][r[2]] : x = <<r, b>>
BY DEF Shares

LEMMA SharesMonotone ==
  ASSUME NEW shared, NEW L, NEW M, L \subseteq M, IsFiniteSet(Shares(shared, M))
  PROVE  IsFiniteSet(Shares(shared, L)) /\ Cardinality(Shares(shared, L)) \in Nat
<1>1. Shares(shared, L) \subseteq Shares(shared, M) BY DEF Shares
<1> QED BY <1>1, FS_Subset, FS_CardinalityType

\* The share of one queue is set to v; the sums that count it follow.
LEMMA SharesSet ==
  ASSUME NEW old \in Tables, NEW L \in SUBSET All, NEW p \in Ports, NEW q \in PGs,
         NEW v \in Nat, NEW new, Sets(new, old, p, q, v), IsFiniteSet(Shares(old, L))
  PROVE  /\ IsFiniteSet(Shares(new, L))
         /\ <<p, q>> \notin L => Shares(new, L) = Shares(old, L)
         /\ <<p, q>> \in L =>
              /\ old[p][q] <= Cardinality(Shares(old, L))
              /\ Cardinality(Shares(new, L)) = Cardinality(Shares(old, L)) - old[p][q] + v
<1> DEFINE u == old[p][q]
           B(n) == {<<p, q>>} \X (1..n)
           rest == Shares(old, L) \ B(u)
<1>1. u \in Nat BY ThresholdAssumption DEF Tables, Word
<1>2. /\ new[p][q] = v
      /\ \A r \in All : r # <<p, q>> => new[r[1]][r[2]] = old[r[1]][r[2]]
  <2>1. new[p][q] = v BY DEF Sets, Tables
  <2>2. ASSUME NEW r \in All, r # <<p, q>> PROVE new[r[1]][r[2]] = old[r[1]][r[2]]
    <3>1. PICK d \in Ports, c \in PGs : r = <<d, c>> BY DEF All
    <3>2. d # p \/ c # q BY <2>2, <3>1
    <3>3. new[d][c] = old[d][c] BY <3>2 DEF Sets, Tables
    <3> QED BY <3>1, <3>3
  <2> QED BY <2>1, <2>2
<1>3. CASE <<p, q>> \notin L
  <2>1. \A r \in L : new[r[1]][r[2]] = old[r[1]][r[2]] BY <1>2, <1>3
  <2>2. Shares(new, L) = Shares(old, L)
    <3>1. ASSUME NEW x PROVE x \in Shares(new, L) <=> x \in Shares(old, L)
      BY <2>1, InShares
    <3> QED BY <3>1
  <2> QED BY <1>3, <2>2
<1>4. CASE <<p, q>> \in L
  <2>1. \A n, x : x \in B(n) <=> \E b \in 1..n : x = <<<<p, q>>, b>> OBVIOUS
  <2>2. \A n \in Nat : IsFiniteSet(B(n)) /\ Cardinality(B(n)) = n BY BlockCardinality
  <2> DEFINE pq == <<p, q>>
  <2>3. pq[1] = p /\ pq[2] = q /\ pq \in L BY <1>4
  <2> HIDE DEF B, pq
  <2>4. B(u) \subseteq Shares(old, L)
    <3> SUFFICES ASSUME NEW x \in B(u) PROVE x \in Shares(old, L) OBVIOUS
    <3>1. PICK b \in 1..u : x = <<pq, b>> BY <2>1 DEF pq
    <3> QED BY <2>3, <3>1, InShares
  <2>5. /\ IsFiniteSet(rest)
        /\ Cardinality(rest) = Cardinality(Shares(old, L)) - u
    <3>1. Cardinality(B(u)) = u BY <1>1, <2>2
    <3>2. /\ IsFiniteSet(rest)
          /\ Cardinality(rest) = Cardinality(Shares(old, L)) - Cardinality(B(u))
      BY <2>4, RemovedCardinality
    <3> QED BY <3>1, <3>2
  <2>6. ASSUME NEW x PROVE x \in Shares(new, L) <=> x \in rest \/ x \in B(v)
    <3>1. ASSUME x \in Shares(new, L) PROVE x \in rest \/ x \in B(v)
      <4>1. PICK r \in L : \E b \in 1..new[r[1]][r[2]] : x = <<r, b>> BY <3>1, InShares
      <4>2. PICK b \in 1..new[r[1]][r[2]] : x = <<r, b>> BY <4>1
      <4>3. CASE r = pq BY <1>2, <2>1, <2>3, <4>2, <4>3 DEF pq
      <4>4. CASE r # pq
        <5>1. b \in 1..old[r[1]][r[2]] BY <1>2, <4>2, <4>4 DEF pq
        <5>2. x \in Shares(old, L) BY <4>2, <5>1, InShares
        <5>3. x \notin B(u) BY <2>1, <4>2, <4>4 DEF pq
        <5> QED BY <5>2, <5>3
      <4> QED BY <4>3, <4>4
    <3>2. ASSUME x \in rest PROVE x \in Shares(new, L)
      <4>1. PICK r \in L : \E b \in 1..old[r[1]][r[2]] : x = <<r, b>> BY <3>2, InShares
      <4>2. PICK b \in 1..old[r[1]][r[2]] : x = <<r, b>> BY <4>1
      <4>3. r # pq BY <2>1, <2>3, <3>2, <4>2 DEF pq
      <4>4. b \in 1..new[r[1]][r[2]] BY <1>2, <4>2, <4>3 DEF pq
      <4> QED BY <4>2, <4>4, InShares
    <3>3. ASSUME x \in B(v) PROVE x \in Shares(new, L)
      <4>1. PICK b \in 1..v : x = <<pq, b>> BY <2>1, <3>3 DEF pq
      <4> QED BY <1>2, <2>3, <4>1, InShares
    <3> QED BY <3>1, <3>2, <3>3
  <2>7. rest \cap B(v) = {}
    <3> SUFFICES ASSUME NEW x \in rest, x \in B(v) PROVE FALSE OBVIOUS
    <3>1. PICK r \in L : \E b \in 1..old[r[1]][r[2]] : x = <<r, b>> BY InShares
    <3>2. PICK b \in 1..old[r[1]][r[2]] : x = <<r, b>> BY <3>1
    <3>3. r = pq BY <2>1, <3>2 DEF pq
    <3>4. x \in B(u) BY <2>1, <2>3, <3>2, <3>3 DEF pq
    <3> QED BY <3>4
  <2>8. Shares(new, L) = rest \cup B(v) BY <2>6
  <2>9. IsFiniteSet(B(v)) /\ Cardinality(B(v)) = v BY <2>2
  <2>10. u <= Cardinality(Shares(old, L)) /\ Cardinality(Shares(old, L)) \in Nat
    <3>1. Cardinality(rest) \in Nat /\ Cardinality(Shares(old, L)) \in Nat
      BY <2>5, FS_CardinalityType
    <3> QED BY <1>1, <2>5, <3>1
  <2> HIDE DEF rest
  <2>11. /\ IsFiniteSet(rest \cup B(v))
         /\ Cardinality(rest \cup B(v)) = Cardinality(rest) + Cardinality(B(v))
    BY <2>5, <2>7, <2>9, DisjointCardinality, Zenon
  <2> QED BY <1>4, <2>5, <2>8, <2>9, <2>10, <2>11
<1> QED BY <1>3, <1>4

Share(out, L) == Cardinality(Shares(out.QShared, L))

\* The inductive invariant: EgressSumsExact and the limits CheckEgressAdmission
\* keeps, which are why no sum wraps.
SumsExact(out) ==
    /\ IsFiniteSet(Shares(out.QShared, All))
    /\ \A p \in Ports : out.Port[p] = Share(out, {p} \X PGs)
    /\ \A k \in Pools : out.SP[k] = Share(out, Ports \X PoolClasses(k))
    /\ \A p \in Ports : out.Port[p] <= m_op_uc_port_config_cell
    /\ \A k \in Pools : out.SP[k] <= m_op_buffer_shared_limit_cell

\* The share of queue q of port p moves by d, in all three counters.
Moves(new, out, p, q, d) ==
    /\ Sets(new.QShared, out.QShared, p, q, out.QShared[p][q] + d)
    /\ \A r \in Ports : new.Port[r] = IF r = p THEN out.Port[r] + d ELSE out.Port[r]
    /\ \A k \in Pools : new.SP[k] = IF k = GetIngressSP(p, q) THEN out.SP[k] + d ELSE out.SP[k]

LEMMA ShareBounds ==
  ASSUME NEW out \in EgressCounters, SumsExact(out), NEW p \in Ports, NEW q \in PGs
  PROVE  /\ out.QShared[p][q] \in Nat
         /\ out.Port[p] \in Nat /\ out.QShared[p][q] <= out.Port[p]
         /\ out.SP[GetIngressSP(p, q)] \in Nat
         /\ out.QShared[p][q] <= out.SP[GetIngressSP(p, q)]
<1> DEFINE u == out.QShared[p][q]
           k == GetIngressSP(p, q)
<1>1. out.QShared \in Tables BY DEF EgressCounters, Tables
<1>2. u \in Nat BY <1>1, ThresholdAssumption DEF Tables, Word
<1>3. k \in Pools BY PoolType
<1>4. Sets(out.QShared, out.QShared, p, q, u) BY <1>1 DEF Sets, Tables
<1> HIDE DEF u
<1>5. ASSUME NEW L \in SUBSET All, <<p, q>> \in L
      PROVE  u <= Share(out, L) /\ Share(out, L) \in Nat
  <2>1. IsFiniteSet(Shares(out.QShared, L)) /\ Share(out, L) \in Nat
    BY SharesMonotone DEF SumsExact, Share
  <2> QED BY <1>1, <1>2, <1>4, <1>5, <2>1, SharesSet DEF Share, u
<1>6. u <= Share(out, {p} \X PGs) /\ Share(out, {p} \X PGs) \in Nat
  BY <1>5, Charges
<1>7. u <= Share(out, Ports \X PoolClasses(k)) /\ Share(out, Ports \X PoolClasses(k)) \in Nat
  <2>1. Ports \X PoolClasses(k) \in SUBSET All /\ <<p, q>> \in Ports \X PoolClasses(k)
    BY <1>3, Charges
  <2> QED BY <1>5, <2>1
<1>8. out.Port[p] = Share(out, {p} \X PGs) /\ out.SP[k] = Share(out, Ports \X PoolClasses(k))
  BY <1>3 DEF SumsExact
<1> QED BY <1>2, <1>6, <1>7, <1>8 DEF u

LEMMA MovesExact ==
  ASSUME NEW out \in EgressCounters, SumsExact(out), NEW p \in Ports, NEW q \in PGs,
         NEW d \in Int, out.QShared[p][q] + d \in Nat, NEW new, Moves(new, out, p, q, d),
         new.Port[p] <= m_op_uc_port_config_cell,
         new.SP[GetIngressSP(p, q)] <= m_op_buffer_shared_limit_cell
  PROVE  SumsExact(new)
<1> DEFINE u == out.QShared[p][q]
           v == u + d
<1>1. out.QShared \in Tables BY DEF EgressCounters, Tables
<1>2. u \in Nat BY <1>1, ThresholdAssumption DEF Tables, Word
<1>3. Sets(new.QShared, out.QShared, p, q, v) /\ v \in Nat BY DEF Moves
<1> HIDE DEF v
<1>4. ASSUME NEW L \in SUBSET All
      PROVE  /\ IsFiniteSet(Shares(new.QShared, L))
             /\ <<p, q>> \notin L => Share(new, L) = Share(out, L)
             /\ <<p, q>> \in L => Share(new, L) = Share(out, L) + d
  <2>1. IsFiniteSet(Shares(out.QShared, L)) /\ Share(out, L) \in Nat
    BY SharesMonotone DEF SumsExact, Share
  <2>2. /\ IsFiniteSet(Shares(new.QShared, L))
        /\ <<p, q>> \notin L => Shares(new.QShared, L) = Shares(out.QShared, L)
        /\ <<p, q>> \in L => Share(new, L) = Share(out, L) - u + v
    BY <1>1, <1>3, <2>1, SharesSet DEF Share
  <2>3. Share(out, L) - u + v = Share(out, L) + d BY <1>2, <2>1 DEF v
  <2> QED BY <2>2, <2>3 DEF Share
<1>5. \A r \in Ports : new.Port[r] = Share(new, {r} \X PGs)
  <2> SUFFICES ASSUME NEW r \in Ports PROVE new.Port[r] = Share(new, {r} \X PGs) OBVIOUS
  <2> DEFINE L == {r} \X PGs
  <2>1. L \in SUBSET All /\ (<<p, q>> \in L <=> p = r) BY Charges
  <2>2. out.Port[r] = Share(out, L) BY DEF SumsExact
  <2> HIDE DEF L
  <2>3. /\ <<p, q>> \notin L => Share(new, L) = Share(out, L)
        /\ <<p, q>> \in L => Share(new, L) = Share(out, L) + d
    BY <1>4, <2>1
  <2>4. new.Port[r] = Share(new, L) BY <2>1, <2>2, <2>3 DEF Moves
  <2> QED BY <2>4 DEF L
<1>6. \A k \in Pools : new.SP[k] = Share(new, Ports \X PoolClasses(k))
  <2> SUFFICES ASSUME NEW k \in Pools
               PROVE  new.SP[k] = Share(new, Ports \X PoolClasses(k))
    OBVIOUS
  <2> DEFINE L == Ports \X PoolClasses(k)
  <2>1. L \in SUBSET All /\ (<<p, q>> \in L <=> GetIngressSP(p, q) = k) BY Charges
  <2>2. out.SP[k] = Share(out, L) BY DEF SumsExact
  <2> HIDE DEF L
  <2>3. /\ <<p, q>> \notin L => Share(new, L) = Share(out, L)
        /\ <<p, q>> \in L => Share(new, L) = Share(out, L) + d
    BY <1>4, <2>1
  <2>4. new.SP[k] = Share(new, L) BY <2>1, <2>2, <2>3 DEF Moves
  <2> QED BY <2>4 DEF L
<1>7. IsFiniteSet(Shares(new.QShared, All)) BY <1>4, Charges
<1>8. \A r \in Ports : new.Port[r] <= m_op_uc_port_config_cell
  BY DEF Moves, SumsExact
<1>9. \A k \in Pools : new.SP[k] <= m_op_buffer_shared_limit_cell
  BY DEF Moves, SumsExact
<1> QED BY <1>5, <1>6, <1>7, <1>8, <1>9 DEF SumsExact

LEMMA SamePools == ASSUME NEW p, NEW q PROVE GetEgressSP(p, q) = GetIngressSP(p, q)
BY DEF GetEgressSP, GetIngressSP

LEMMA SetQMinExact ==
  ASSUME NEW out, SumsExact(out), NEW p, NEW q, NEW m
  PROVE  SumsExact(SetQMin(out, p, q, m))
BY DEF SumsExact, Share, SetQMin

LEMMA PatchExact ==
  ASSUME NEW out \in EgressCounters, SumsExact(out), NEW p \in Ports, NEW q \in PGs
  PROVE  SumsExact(PatchSizes(out, p, q))
<1> DEFINE m   == out.QMin[p][q]
           u   == out.QShared[p][q]
           sp  == GetIngressSP(p, q)
           new == PatchSizes(out, p, q)
           d   == m - Cell
<1>1. CASE ~(m < Cell /\ u > Cell) BY <1>1 DEF PatchSizes
<1>2. CASE m < Cell /\ u > Cell
  <2>1. sp \in Pools /\ GetEgressSP(p, q) = sp BY PoolType, SamePools
  <2>2. new = [QMin    |-> [out.QMin EXCEPT ![p][q] = Cell],
               QShared |-> [out.QShared EXCEPT ![p][q] = Add(Sub(@, Cell), m)],
               Port    |-> [out.Port EXCEPT ![p] = Add(Sub(@, Cell), m)],
               SP      |-> [out.SP EXCEPT ![sp] = Add(Sub(@, Cell), m)]]
    BY <1>2, <2>1 DEF PatchSizes
  <2>3. /\ m \in Nat /\ u < W /\ out.Port[p] < W /\ out.SP[sp] < W
        /\ Cell \in Nat /\ W \in Nat
    BY <2>1, ThresholdAssumption DEF EgressCounters, Word
  <2>4. /\ u \in Nat /\ out.Port[p] \in Nat /\ u <= out.Port[p]
        /\ out.SP[sp] \in Nat /\ u <= out.SP[sp]
    BY ShareBounds
  <2>5. \A a \in Nat : a > Cell /\ a < W => Add(Sub(a, Cell), m) = a + d
    BY <1>2, <2>3 DEF Add, Sub
  <2>6. /\ Add(Sub(u, Cell), m) = u + d
        /\ Add(Sub(out.Port[p], Cell), m) = out.Port[p] + d
        /\ Add(Sub(out.SP[sp], Cell), m) = out.SP[sp] + d
    <3> HIDE DEF u, d
    <3>1. u > Cell /\ out.Port[p] > Cell /\ out.SP[sp] > Cell BY <1>2, <2>3, <2>4
    <3> QED BY <2>3, <2>4, <2>5, <3>1
  <2>7. d \in Int /\ d < 0 /\ u + d \in Nat BY <1>2, <2>3, <2>4
  <2> HIDE DEF d
  <2>8. Sets(new.QShared, out.QShared, p, q, out.QShared[p][q] + d)
    BY <2>2, <2>6 DEF Sets, EgressCounters
  <2>9. \A r \in Ports : new.Port[r] = IF r = p THEN out.Port[r] + d ELSE out.Port[r]
    BY <2>2, <2>6 DEF EgressCounters
  <2>10. \A k \in Pools : new.SP[k] = IF k = sp THEN out.SP[k] + d ELSE out.SP[k]
    BY <2>2, <2>6 DEF EgressCounters
  <2> HIDE DEF new
  <2>11. Moves(new, out, p, q, d) BY <2>8, <2>9, <2>10 DEF Moves
  <2>12. /\ new.Port[p] <= m_op_uc_port_config_cell
         /\ new.SP[sp] <= m_op_buffer_shared_limit_cell
    <3>1. /\ out.Port[p] <= m_op_uc_port_config_cell
          /\ out.SP[sp] <= m_op_buffer_shared_limit_cell
      BY <2>1 DEF SumsExact
    <3>2. new.Port[p] = out.Port[p] + d /\ new.SP[sp] = out.SP[sp] + d BY <2>1, <2>9, <2>10
    <3> QED BY <2>4, <2>7, <3>1, <3>2, ThresholdAssumption
  <2>13. SumsExact(new) BY <2>7, <2>11, <2>12, MovesExact
  <2> QED BY <2>13 DEF new
<1> QED BY <1>1, <1>2

LEMMA ReleaseExact ==
  ASSUME NEW out \in EgressCounters, SumsExact(out), NEW p \in Ports, NEW q \in PGs,
         NEW z \in Nat, out.QShared[p][q] >= z
  PROVE  SumsExact(ReleaseShared(out, p, q, z))
<1> DEFINE u   == out.QShared[p][q]
           sp  == GetIngressSP(p, q)
           new == ReleaseShared(out, p, q, z)
           d   == -z
<1>1. sp \in Pools BY PoolType
<1>2. /\ u \in Nat /\ out.Port[p] \in Nat /\ u <= out.Port[p]
      /\ out.SP[sp] \in Nat /\ u <= out.SP[sp]
  BY ShareBounds
<1>3. Sub(u, z) = u + d /\ Sub(out.Port[p], z) = out.Port[p] + d /\ Sub(out.SP[sp], z) = out.SP[sp] + d
  BY <1>2 DEF Sub
<1>4. d \in Int /\ d <= 0 /\ u + d \in Nat BY <1>2
<1> HIDE DEF d
<1>5. Sets(new.QShared, out.QShared, p, q, out.QShared[p][q] + d)
  BY <1>3 DEF Sets, EgressCounters, ReleaseShared
<1>6. \A r \in Ports : new.Port[r] = IF r = p THEN out.Port[r] + d ELSE out.Port[r]
  BY <1>3 DEF EgressCounters, ReleaseShared
<1>7. \A k \in Pools : new.SP[k] = IF k = sp THEN out.SP[k] + d ELSE out.SP[k]
  BY <1>3 DEF EgressCounters, ReleaseShared
<1> HIDE DEF new
<1>8. Moves(new, out, p, q, d) BY <1>5, <1>6, <1>7 DEF Moves
<1>9. /\ new.Port[p] <= m_op_uc_port_config_cell
      /\ new.SP[sp] <= m_op_buffer_shared_limit_cell
  <2>1. /\ out.Port[p] <= m_op_uc_port_config_cell
        /\ out.SP[sp] <= m_op_buffer_shared_limit_cell
    BY <1>1 DEF SumsExact
  <2>2. new.Port[p] = out.Port[p] + d /\ new.SP[sp] = out.SP[sp] + d BY <1>1, <1>6, <1>7
  <2> QED BY <1>2, <1>4, <2>1, <2>2, ThresholdAssumption
<1>10. SumsExact(new) BY <1>4, <1>8, <1>9, MovesExact
<1> QED BY <1>10 DEF new

LEMMA ChargeExact ==
  ASSUME NEW out \in EgressCounters, SumsExact(out), NEW p \in Ports, NEW q \in PGs,
         NEW z \in Sizes, CheckEgressAdmission(out, p, q, z)
  PROVE  SumsExact(ChargeShared(out, p, q, z)) /\ ChargeShared(out, p, q, z) \in EgressCounters
<1> DEFINE u   == out.QShared[p][q]
           sp  == GetIngressSP(p, q)
           new == ChargeShared(out, p, q, z)
<1>1. sp \in Pools /\ GetEgressSP(p, q) = sp BY PoolType, SamePools
<1>2. /\ u \in Nat /\ out.Port[p] \in Nat /\ u <= out.Port[p]
      /\ out.SP[sp] \in Nat /\ u <= out.SP[sp]
  BY ShareBounds
<1>3. z \in 1..MaxSize /\ z \in Nat /\ z \in Word BY SizeType
<1>4. /\ out.Port[p] <= m_op_uc_port_config_cell
      /\ out.SP[sp] <= m_op_buffer_shared_limit_cell
  BY <1>1 DEF SumsExact
<1>5. /\ m_op_uc_port_config_cell + MaxSize < W /\ m_op_buffer_shared_limit_cell + MaxSize < W
      /\ W \in Nat /\ MaxSize \in Nat
      /\ m_op_uc_port_config_cell \in Nat /\ m_op_buffer_shared_limit_cell \in Nat
  BY RoomAssumption, ThresholdAssumption, SizeAssumption
<1>6. /\ Add(u, z) = u + z /\ Add(out.Port[p], z) = out.Port[p] + z
      /\ Add(out.SP[sp], z) = out.SP[sp] + z
  BY <1>2, <1>3, <1>4, <1>5 DEF Add
<1>7. /\ out.Port[p] + z <= m_op_uc_port_config_cell
      /\ out.SP[sp] + z <= m_op_buffer_shared_limit_cell
  BY <1>1, <1>6 DEF CheckEgressAdmission
<1>8. new = [QMin    |-> out.QMin,
             QShared |-> [out.QShared EXCEPT ![p][q] = Add(@, z)],
             Port    |-> [out.Port EXCEPT ![p] = Add(@, z)],
             SP      |-> [out.SP EXCEPT ![sp] = Add(@, z)]]
  BY <1>1 DEF ChargeShared
<1>9. new \in EgressCounters
  <2>1. \A a \in Word : Add(a, z) \in Word BY <1>3, AddType
  <2> QED BY <1>1, <1>8, <2>1 DEF EgressCounters
<1>10. Sets(new.QShared, out.QShared, p, q, out.QShared[p][q] + z)
  BY <1>6, <1>8 DEF Sets, EgressCounters
<1>11. \A r \in Ports : new.Port[r] = IF r = p THEN out.Port[r] + z ELSE out.Port[r]
  BY <1>6, <1>8 DEF EgressCounters
<1>12. \A k \in Pools : new.SP[k] = IF k = sp THEN out.SP[k] + z ELSE out.SP[k]
  BY <1>6, <1>8 DEF EgressCounters
<1> HIDE DEF new
<1>13. Moves(new, out, p, q, z) BY <1>10, <1>11, <1>12 DEF Moves
<1>14. /\ new.Port[p] <= m_op_uc_port_config_cell
       /\ new.SP[sp] <= m_op_buffer_shared_limit_cell
  BY <1>1, <1>7, <1>11, <1>12
<1>15. SumsExact(new)
  <2>1. z \in Int /\ out.QShared[p][q] + z \in Nat BY <1>2, <1>3
  <2> QED BY <2>1, <1>13, <1>14, MovesExact
<1> QED BY <1>9, <1>15 DEF new

LEMMA UpdateEgressExact ==
  ASSUME NEW out \in EgressCounters, SumsExact(out), NEW p \in Ports, NEW q \in PGs,
         NEW z \in Sizes, CheckEgressAdmission(out, p, q, z)
  PROVE  SumsExact(UpdateEgressAdmission(out, p, q, z))
<1> DEFINE mid == ChargeShared(out, p, q, z)
<1>1. mid \in EgressCounters /\ SumsExact(mid) BY ChargeExact
<1> HIDE DEF mid
<1>2. SumsExact(PatchSizes(mid, p, q)) BY <1>1, PatchExact
<1> QED BY <1>2, SetQMinExact DEF UpdateEgressAdmission, mid

LEMMA RemoveEgressExact ==
  ASSUME NEW out \in EgressCounters, SumsExact(out), NEW p \in Ports, NEW q \in PGs,
         NEW z \in Sizes
  PROVE  SumsExact(RemoveFromEgressAdmission(out, p, q, z))
<1> DEFINE n   == Sub(out.QMin[p][q], z)
           mid == SetQMin(out, p, q, n)
<1>1. z \in Word /\ z \in Nat BY SizeType
<1>2. n \in Word BY <1>1, SubType DEF EgressCounters
<1> HIDE DEF n
<1>3. mid \in EgressCounters /\ SumsExact(mid) BY <1>2, SetQMinType, SetQMinExact
<1> HIDE DEF mid
<1>4. SumsExact(PatchSizes(mid, p, q)) BY <1>3, PatchExact
<1>5. CASE out.QShared[p][q] >= z
  BY <1>1, <1>5, ReleaseExact DEF RemoveFromEgressAdmission
<1>6. CASE ~(out.QShared[p][q] >= z)
  BY <1>4, <1>6 DEF RemoveFromEgressAdmission, mid, n
<1> QED BY <1>5, <1>6

-----------------------------------------------------------------------------
(* The headroom *)

Reserve(in, k) == Cardinality(Shares(in.Headroom, Ports \X PoolClasses(k)))

Within(h) == \E limit \in {m_pg_hdrm_limit, m_pg_min_cell, m_port_min_cell,
                           m_buffer_cell_limit_sp + MaxSize} : h <= limit

\* The inductive invariant: HeadroomCovered for pools, HeadroomLimited.
Reserved(in) ==
    /\ IsFiniteSet(Shares(in.Headroom, All))
    /\ \A k \in Pools : in.SP[k] <= m_buffer_cell_limit_sp + Reserve(in, k)
    /\ \A i \in Ports, q \in PGs : Within(in.Headroom[i][q])

\* The headroom of one group is set to v, and the pool of the group has grown
\* by no more than its headroom, or is within its limit.
LEMMA HeadroomSet ==
  ASSUME NEW in \in IngressCounters, Reserved(in), NEW i \in Ports, NEW q \in PGs,
         NEW v \in Nat, Within(v), NEW new, Sets(new.Headroom, in.Headroom, i, q, v),
         NEW sp, sp = GetIngressSP(i, q),
         \A k \in Pools : k # sp => new.SP[k] = in.SP[k],
         \/ new.SP[sp] <= m_buffer_cell_limit_sp
         \/ new.SP[sp] - in.SP[sp] <= v - in.Headroom[i][q],
         new.SP[sp] \in Nat
  PROVE  Reserved(new)
<1>1. in.Headroom \in Tables BY DEF IngressCounters, Tables
<1>2. in.Headroom[i][q] \in Nat BY <1>1, ThresholdAssumption DEF Tables, Word
<1>3. sp \in Pools BY PoolType
<1>4. in.SP[sp] \in Nat BY <1>3, ThresholdAssumption DEF IngressCounters, Word
<1>5. ASSUME NEW L \in SUBSET All
      PROVE  LET old == Shares(in.Headroom, L)
                 set == Shares(new.Headroom, L)
             IN  /\ IsFiniteSet(set) /\ Cardinality(old) \in Nat /\ Cardinality(set) \in Nat
                 /\ <<i, q>> \notin L => set = old
                 /\ <<i, q>> \in L =>
                      Cardinality(set) = Cardinality(old) - in.Headroom[i][q] + v
  <2>1. IsFiniteSet(Shares(in.Headroom, L)) /\ Cardinality(Shares(in.Headroom, L)) \in Nat
    BY SharesMonotone DEF Reserved
  <2>2. /\ IsFiniteSet(Shares(new.Headroom, L))
        /\ <<i, q>> \notin L => Shares(new.Headroom, L) = Shares(in.Headroom, L)
        /\ <<i, q>> \in L =>
             Cardinality(Shares(new.Headroom, L)) =
               Cardinality(Shares(in.Headroom, L)) - in.Headroom[i][q] + v
    BY <1>1, <2>1, SharesSet
  <2>3. Cardinality(Shares(new.Headroom, L)) \in Nat BY <2>2, FS_CardinalityType
  <2> QED BY <2>1, <2>2, <2>3
<1>6. IsFiniteSet(Shares(new.Headroom, All)) BY <1>5, Charges
<1>7. ASSUME NEW k \in Pools
      PROVE  new.SP[k] <= m_buffer_cell_limit_sp + Reserve(new, k)
  <2> DEFINE L == Ports \X PoolClasses(k)
  <2>1. L \in SUBSET All /\ (<<i, q>> \in L <=> sp = k) BY Charges
  <2>2. in.SP[k] <= m_buffer_cell_limit_sp + Reserve(in, k) BY DEF Reserved
  <2>3. /\ Reserve(in, k) \in Nat /\ Reserve(new, k) \in Nat
        /\ sp # k => Reserve(new, k) = Reserve(in, k)
        /\ sp = k => Reserve(new, k) = Reserve(in, k) - in.Headroom[i][q] + v
    BY <1>5, <2>1 DEF Reserve
  <2>4. CASE sp # k BY <2>2, <2>3, <2>4
  <2>5. CASE sp = k
    <3>1. in.SP[sp] <= m_buffer_cell_limit_sp + Reserve(in, k) BY <2>2, <2>5
    <3>2. new.SP[sp] <= m_buffer_cell_limit_sp + Reserve(new, k)
      BY <1>2, <1>4, <2>3, <2>5, <3>1, ThresholdAssumption
    <3> QED BY <2>5, <3>2
  <2> QED BY <2>4, <2>5
<1>8. \A j \in Ports, c \in PGs : Within(new.Headroom[j][c])
  <2> SUFFICES ASSUME NEW j \in Ports, NEW c \in PGs PROVE Within(new.Headroom[j][c])
    OBVIOUS
  <2>1. new.Headroom[j][c] = v \/ new.Headroom[j][c] = in.Headroom[j][c]
    BY <1>1 DEF Sets, Tables
  <2> QED BY <2>1 DEF Reserved
<1> QED BY <1>6, <1>7, <1>8 DEF Reserved

\* A group holds no more than its port and than its pool.
LEMMA GroupBounds ==
  ASSUME NEW s \in States, Exact(s), NEW i \in Ports, NEW q \in PGs,
         NEW sp, sp = GetIngressSP(i, q)
  PROVE  /\ s.in.PG[i][q] \in Nat /\ s.in.Headroom[i][q] \in Nat
         /\ s.in.Headroom[i][q] <= s.in.PG[i][q]
         /\ s.in.Port[i] \in Nat /\ s.in.PG[i][q] <= s.in.Port[i]
         /\ s.in.SP[sp] \in Nat /\ s.in.PG[i][q] <= s.in.SP[sp]
         /\ s.in.Total \in Nat
         /\ s.in.Port[i] <= s.in.Total /\ s.in.SP[sp] <= s.in.Total
<1> DEFINE G == {<<i, q>>}
           P == {i} \X PGs
           K == Ports \X PoolClasses(sp)
<1>1. sp \in Pools BY PoolType
<1>2. G \in SUBSET P /\ G \in SUBSET K /\ P \in SUBSET All /\ K \in SUBSET All
  BY <1>1, Charges
<1>3. /\ s.in.PG[i][q] = Size(s, G) /\ s.in.Port[i] = Size(s, P) /\ s.in.SP[sp] = Size(s, K)
      /\ s.in.Headroom[i][q] <= s.in.PG[i][q]
  BY <1>1 DEF Exact
<1>4. s.in.Headroom[i][q] \in Nat BY ThresholdAssumption DEF States, IngressCounters, Word
<1> HIDE DEF G, P, K
<1>5. /\ Size(s, P) \in Nat /\ Size(s, P) <= s.in.Total
      /\ Size(s, K) \in Nat /\ Size(s, K) <= s.in.Total /\ s.in.Total \in Nat
  BY <1>2, ExactBounds
<1>6. IsFiniteSet(Bytes(s.qs, P)) /\ IsFiniteSet(Bytes(s.qs, K))
  BY <1>2, BytesMonotone DEF Exact
<1>7. Size(s, G) \in Nat /\ Size(s, G) <= Size(s, P) /\ Size(s, G) <= Size(s, K)
  BY <1>2, <1>6, BytesMonotone DEF Size
<1> QED BY <1>3, <1>4, <1>5, <1>7

\* CheckIngressAdmission consults the headroom or finds a bound on the bytes of
\* the group, and so on its headroom.
LEMMA AdmitReserved ==
  ASSUME NEW s \in States, Exact(s), Reserved(s.in), NEW p \in Ports, NEW i \in Ports,
         NEW q \in PGs, NEW z \in Sizes
  PROVE  Reserved(Admit(s, p, i, q, z).in)
<1> DEFINE new == Admit(s, p, i, q, z).in
           sp  == GetIngressSP(i, q)
           h   == s.in.Headroom[i][q]
<1>1. CASE ~(/\ CheckIngressAdmission(s.in, i, q, z)
             /\ CheckEgressAdmission(s.out, p, q, z))
  BY <1>1 DEF Admit
<1>2. CASE /\ CheckIngressAdmission(s.in, i, q, z)
           /\ CheckEgressAdmission(s.out, p, q, z)
  <2>1. new = UpdateIngressAdmission(s.in, i, q, z) BY <1>2 DEF Admit
  <2>2. s.in \in IngressCounters /\ sp \in Pools BY PoolType DEF States
  <2>3. /\ s.in.PG[i][q] \in Nat /\ h \in Nat /\ h <= s.in.PG[i][q]
        /\ s.in.Port[i] \in Nat /\ s.in.PG[i][q] <= s.in.Port[i]
        /\ s.in.SP[sp] \in Nat /\ s.in.PG[i][q] <= s.in.SP[sp]
        /\ s.in.Total \in Nat /\ s.in.Port[i] <= s.in.Total /\ s.in.SP[sp] <= s.in.Total
    BY GroupBounds
  <2>4. z \in 1..MaxSize BY SizeType
  <2>5. /\ m_maxBufferBytes + MaxSize < W /\ W \in Nat /\ m_maxBufferBytes \in Nat
        /\ MaxSize \in Nat /\ m_buffer_cell_limit_sp \in Nat
    BY RoomAssumption, ThresholdAssumption, SizeAssumption
  <2>6. s.in.Total <= m_maxBufferBytes BY DEF Exact
  <2>7. s.in.Total + z < W BY <2>3, <2>4, <2>5, <2>6
  <2>8. /\ Add(s.in.PG[i][q], z) = s.in.PG[i][q] + z /\ Add(h, z) = h + z
        /\ Add(s.in.Port[i], z) = s.in.Port[i] + z
        /\ Add(s.in.SP[sp], z) = s.in.SP[sp] + z
    BY <2>3, <2>4, <2>5, <2>7 DEF Add
  <2>9. /\ \A k \in Pools : k # sp => new.SP[k] = s.in.SP[k]
        /\ new.SP[sp] = s.in.SP[sp] + z /\ new.SP[sp] \in Nat
    BY <2>1, <2>2, <2>3, <2>4, <2>8, UpdateIngressAt
  <2>10. CASE s.in.SP[sp] + z > m_buffer_cell_limit_sp
    <3>1. Sets(new.Headroom, s.in.Headroom, i, q, h + z)
      BY <2>1, <2>8, <2>10 DEF UpdateIngressAdmission, Sets
    <3>2. Within(h + z)
      <4>1. \/ s.in.PG[i][q] + z <= m_pg_min_cell
            \/ s.in.Port[i] + z <= m_port_min_cell
            \/ s.in.SP[sp] <= m_buffer_cell_limit_sp
            \/ h + z <= m_pg_hdrm_limit
        BY <1>2, <2>8 DEF CheckIngressAdmission
      <4>2. \/ h + z <= m_pg_min_cell \/ h + z <= m_port_min_cell
            \/ h + z <= m_buffer_cell_limit_sp + MaxSize \/ h + z <= m_pg_hdrm_limit
        BY <2>3, <2>4, <2>5, <4>1, ThresholdAssumption
      <4> QED BY <4>2 DEF Within
    <3>3. h + z \in Nat /\ new.SP[sp] - s.in.SP[sp] <= (h + z) - h
      BY <2>3, <2>4, <2>5, <2>9
    <3> HIDE DEF new, sp, h
    <3> QED BY <2>2, <2>9, <3>1, <3>2, <3>3, HeadroomSet DEF new, sp, h
  <2>11. CASE ~(s.in.SP[sp] + z > m_buffer_cell_limit_sp)
    <3>1. new.Headroom = s.in.Headroom BY <2>1, <2>8, <2>11 DEF UpdateIngressAdmission
    <3>2. Sets(new.Headroom, s.in.Headroom, i, q, h)
      BY <2>2, <3>1 DEF Sets, IngressCounters
    <3>3. Within(h) BY DEF Reserved
    <3>4. new.SP[sp] <= m_buffer_cell_limit_sp BY <2>3, <2>4, <2>5, <2>9, <2>11
    <3> HIDE DEF new, sp, h
    <3> QED BY <2>2, <2>3, <2>9, <3>2, <3>3, <3>4, HeadroomSet DEF new, sp, h
  <2> QED BY <2>10, <2>11
<1> QED BY <1>1, <1>2

\* The packet at the head of a queue is counted in its group.
LEMMA HeadCounted ==
  ASSUME NEW s \in States, Exact(s), NEW p \in Ports, NEW q \in PGs, s.qs[p][q] # <<>>,
         NEW pkt, pkt = Head(s.qs[p][q])
  PROVE  pkt.size <= s.in.PG[pkt.inDev][q]
<1> DEFINE i == pkt.inDev
           z == pkt.size
           L == {<<i, q>>}
           new == [s.qs EXCEPT ![p][q] = Tail(@)]
<1>1. pkt \in Packet BY HeadTailType DEF States
<1>2. i \in Ports /\ z \in Nat BY <1>1, PacketSize DEF Packet
<1> HIDE DEF i, z
<1>3. L \in SUBSET All /\ <<i, q>> \in L BY <1>2, Charges
<1>4. s.in.PG[i][q] = Size(s, L) BY <1>2 DEF Exact
<1> HIDE DEF L
<1>5. s.qs \in Queues /\ Drops(new, s.qs, p, q) BY DEF States, Queues, Drops
<1> HIDE DEF new
<1>6. IsFiniteSet(Bytes(s.qs, L)) /\ Size(s, L) \in Nat
  BY <1>3, BytesMonotone DEF Exact, Size
<1>7. /\ IsFiniteSet(Bytes(new, L))
      /\ Cardinality(Bytes(new, L)) = Size(s, L) - Gain(L, i, q, z)
  BY <1>5, <1>6, BytesTail DEF Size, i, z
<1>8. Cardinality(Bytes(new, L)) \in Nat BY <1>7, FS_CardinalityType
<1>9. Gain(L, i, q, z) = z BY <1>3 DEF Gain
<1>10. z <= s.in.PG[i][q] BY <1>2, <1>4, <1>6, <1>7, <1>8, <1>9
<1> QED BY <1>10 DEF i, z

\* A release takes no more headroom than the packet gives back to the pool.
LEMMA TransmitDataReserved ==
  ASSUME NEW s \in States, Exact(s), Reserved(s.in), NEW p \in Ports, NEW q \in PGs,
         s.qs[p][q] # <<>>, NEW ce
  PROVE  Reserved(TransmitData(s, p, q, ce).in)
<1> DEFINE t   == TransmitData(s, p, q, ce)
           pkt == Head(s.qs[p][q])
           i   == pkt.inDev
           z   == pkt.size
           sp  == GetIngressSP(i, q)
           h   == s.in.Headroom[i][q]
           v   == IF h > z THEN h - z ELSE 0
<1>1. t.in = RemoveFromIngressAdmission(s.in, i, q, z) BY DEF TransmitData
<1>2. s.in \in IngressCounters /\ sp \in Pools BY PoolType DEF States
<1>3. i \in Ports /\ z \in Sizes
  <2>1. pkt \in Packet BY HeadTailType DEF States
  <2> QED BY <2>1 DEF Packet
<1>4. z \in 1..MaxSize /\ z \in Nat BY <1>3, SizeType
<1> HIDE DEF t, pkt, i, z
<1>5. h \in Nat /\ s.in.SP[sp] \in Nat BY <1>3, GroupBounds
<1>6. Sets(t.in.Headroom, s.in.Headroom, i, q, v)
  BY <1>1 DEF RemoveFromIngressAdmission, Sets
<1>7. /\ \A k \in Pools : k # sp => t.in.SP[k] = s.in.SP[k]
      /\ t.in.SP[sp] = Sub(s.in.SP[sp], z)
  BY <1>1, <1>2, <1>3, RemoveIngressAt
<1>8. z <= s.in.SP[sp]
  <2>1. z <= s.in.PG[i][q] BY <1>3, HeadCounted DEF pkt, i, z
  <2>2. s.in.PG[i][q] <= s.in.SP[sp] /\ s.in.PG[i][q] \in Nat BY <1>3, GroupBounds
  <2> QED BY <1>4, <1>5, <2>1, <2>2
<1>9. t.in.SP[sp] = s.in.SP[sp] - z /\ t.in.SP[sp] \in Nat BY <1>4, <1>5, <1>7, <1>8 DEF Sub
<1>10. v \in Nat /\ v <= h /\ h - z <= v
  <2> HIDE DEF h
  <2> QED BY <1>4, <1>5
<1> HIDE DEF v, h
<1>11. t.in.SP[sp] - s.in.SP[sp] <= v - h BY <1>4, <1>5, <1>9, <1>10
<1>12. Within(v)
  <2>1. PICK limit \in {m_pg_hdrm_limit, m_pg_min_cell, m_port_min_cell,
                        m_buffer_cell_limit_sp + MaxSize} : h <= limit
    BY <1>3 DEF Reserved, Within, h
  <2>2. limit \in Nat BY ThresholdAssumption, SizeAssumption
  <2>3. v <= limit BY <1>5, <1>10, <2>1, <2>2
  <2> QED BY <2>1, <2>3 DEF Within
<1> HIDE DEF sp
<1>13. Reserved(t.in)
  BY <1>2, <1>3, <1>6, <1>7, <1>9, <1>10, <1>11, <1>12, HeadroomSet DEF sp, h
<1> QED BY <1>13 DEF t

-----------------------------------------------------------------------------
(* The handlers keep the counters exact and the excess reserved *)

Sound(s) == Exact(s) /\ SumsExact(s.out) /\ Reserved(s.in)

\* No ingress counter PAUSE looks at has grown.
Shrinks(t, s) ==
    /\ \A j \in Ports, c \in PGs : t.in.PG[j][c] <= s.in.PG[j][c]
    /\ \A j \in Ports : t.in.Port[j] <= s.in.Port[j]

LEMMA CountersAreNumbers ==
  ASSUME NEW s \in States
  PROVE  /\ \A j \in Ports, c \in PGs : s.in.PG[j][c] \in Nat
         /\ \A j \in Ports : s.in.Port[j] \in Nat
BY ThresholdAssumption DEF States, IngressCounters, Word

LEMMA SameSound ==
  ASSUME NEW s \in States, Sound(s), NEW t, t.in = s.in, t.out = s.out, t.qs = s.qs
  PROVE  Sound(t) /\ Shrinks(t, s)
<1>1. Sound(t) BY DEF Sound, Exact, Size
<1>2. Shrinks(t, s) BY CountersAreNumbers DEF Shrinks
<1> QED BY <1>1, <1>2

LEMMA AdmitSound ==
  ASSUME NEW s \in States, Sound(s), NEW p \in Ports, NEW i \in Ports,
         NEW q \in PGs, NEW z \in Sizes
  PROVE  Sound(Admit(s, p, i, q, z))
<1> DEFINE t == Admit(s, p, i, q, z)
<1>1. Exact(t) BY AdmitExact DEF Sound
<1>2. s.out \in EgressCounters /\ SumsExact(s.out) BY DEF States, Sound
<1>3. SumsExact(t.out)
  <2>1. CASE ~(/\ CheckIngressAdmission(s.in, i, q, z)
               /\ CheckEgressAdmission(s.out, p, q, z))
    BY <1>2, <2>1 DEF Admit
  <2>2. CASE /\ CheckIngressAdmission(s.in, i, q, z)
             /\ CheckEgressAdmission(s.out, p, q, z)
    <3>1. t.out = UpdateEgressAdmission(s.out, p, q, z) BY <2>2 DEF Admit
    <3> QED BY <1>2, <2>2, <3>1, UpdateEgressExact
  <2> QED BY <2>1, <2>2
<1>4. Reserved(t.in) BY AdmitReserved DEF Sound
<1> QED BY <1>1, <1>3, <1>4 DEF Sound

LEMMA TransmitSound ==
  ASSUME NEW s \in States, Sound(s), NEW p \in Ports, NEW c, Servable(s, p, c), NEW ce
  PROVE  Sound(Transmit(s, p, c, ce)) /\ Shrinks(Transmit(s, p, c, ce), s)
<1>1. CASE c = None
  <2>1. Transmit(s, p, c, ce) = s BY <1>1 DEF Transmit
  <2> QED BY <2>1, SameSound
<1>2. CASE c = qCnt - 1
  <2> DEFINE t == TransmitControl(s, p)
  <2>1. Transmit(s, p, c, ce) = t BY <1>2 DEF Transmit, None, qCnt
  <2>2. t.in = s.in /\ t.out = s.out /\ t.qs = s.qs BY DEF TransmitControl
  <2> HIDE DEF t
  <2>3. Sound(t) /\ Shrinks(t, s) BY <2>2, SameSound
  <2> QED BY <2>1, <2>3
<1>3. CASE c \in PGs
  <2> DEFINE t == TransmitData(s, p, c, ce)
             z == Head(s.qs[p][c]).size
  <2>1. c # None /\ c # qCnt - 1 BY <1>3, ClassAssumption DEF None, qCnt
  <2>2. s.qs[p][c] # <<>> BY <1>3, <2>1 DEF Servable
  <2>3. Transmit(s, p, c, ce) = t BY <2>1 DEF Transmit
  <2>4. Exact(t) /\ Shrinks(t, s) BY <1>3, <2>2, TransmitDataExact DEF Sound, Shrinks
  <2>5. t.out = RemoveFromEgressAdmission(s.out, p, c, z) BY DEF TransmitData
  <2>6. z \in Sizes
    <3>1. Head(s.qs[p][c]) \in Packet BY <1>3, <2>2, HeadTailType DEF States
    <3> QED BY <3>1 DEF Packet
  <2>7. s.out \in EgressCounters /\ SumsExact(s.out) BY DEF States, Sound
  <2>8. Reserved(t.in) BY <1>3, <2>2, TransmitDataReserved DEF Sound
  <2> HIDE DEF t, z
  <2>9. SumsExact(t.out) BY <1>3, <2>5, <2>6, <2>7, RemoveEgressExact
  <2> QED BY <2>3, <2>4, <2>8, <2>9 DEF Sound
<1> QED BY <1>1, <1>2, <1>3 DEF Servable

-----------------------------------------------------------------------------
(* A congested group keeps pausing *)

\* Only class q of device i may hold more than before.
Others(s, i, q) ==
    /\ \A j \in Ports, c \in PGs : j # i \/ c # q => s.in.PG[j][c] <= ingress.PG[j][c]
    /\ \A j \in Ports : j # i => s.in.Port[j] <= ingress.Port[j]

LEMMA AdmitOthers ==
  ASSUME TypeOK, NEW p \in Ports, NEW i \in Ports, NEW q \in PGs, NEW z \in Sizes
  PROVE  Others(Admit(Current, p, i, q, z), i, q)
<1> DEFINE t == Admit(Current, p, i, q, z)
<1>1. /\ \A j \in Ports, c \in PGs : ingress.PG[j][c] \in Nat
      /\ \A j \in Ports : ingress.Port[j] \in Nat
  BY ThresholdAssumption DEF TypeOK, IngressCounters, Word
<1>2. CASE t = Current BY <1>1, <1>2 DEF Others, Current
<1>3. CASE t.in = UpdateIngressAdmission(ingress, i, q, z)
  <2>1. /\ \A j \in Ports : j # i => t.in.Port[j] = ingress.Port[j]
        /\ \A j \in Ports, c \in PGs : j # i \/ c # q => t.in.PG[j][c] = ingress.PG[j][c]
    BY <1>3, UpdateIngressAt DEF TypeOK
  <2> HIDE DEF t
  <2>2. Others(t, i, q) BY <1>1, <2>1 DEF Others
  <2> QED BY <2>2 DEF t
<1>4. t = Current \/ t.in = UpdateIngressAdmission(ingress, i, q, z) BY DEF Admit, Current
<1> QED BY <1>2, <1>3, <1>4

LEMMA ShrinksOthers ==
  ASSUME TypeOK, NEW s \in States, NEW t \in States, Shrinks(t, s),
         NEW i, NEW q, Others(s, i, q)
  PROVE  Others(t, i, q)
<1>1. /\ \A j \in Ports, c \in PGs : ingress.PG[j][c] \in Nat
      /\ \A j \in Ports : ingress.Port[j] \in Nat
  BY ThresholdAssumption DEF TypeOK, IngressCounters, Word
<1> QED BY <1>1, CountersAreNumbers DEF Shrinks, Others

\* Nothing grew and no belief or timer changed.
LEMMA ShrinksPausing ==
  ASSUME TypeOK, CongestionKeepsPausing, NEW s \in States, Shrinks(s, Current),
         Become(s), UNCHANGED <<m_pause_remote, m_recheckEvt>>
  PROVE  CongestionKeepsPausing'
<1> SUFFICES ASSUME ~m_dynamicth, NEW i \in Ports
             PROVE  /\ \A q \in PGs :
                         ingress'.PG[i][q] > m_pg_shared_limit_cell =>
                           m_pause_remote[i][q] /\ \E p \in Ports : m_recheckEvt[p][i][q]
                    /\ ingress'.Port[i] > m_port_max_shared_cell =>
                         \E q \in PGs :
                           m_pause_remote[i][q] /\ \E p \in Ports : m_recheckEvt[p][i][q]
  BY DEF CongestionKeepsPausing
<1>1. /\ \A q \in PGs : ingress'.PG[i][q] <= ingress.PG[i][q]
      /\ ingress'.Port[i] <= ingress.Port[i]
  BY DEF Shrinks, Become, Current
<1>2. /\ \A q \in PGs : ingress.PG[i][q] \in Nat /\ ingress'.PG[i][q] \in Nat
      /\ ingress.Port[i] \in Nat /\ ingress'.Port[i] \in Nat
  BY CurrentType, CountersAreNumbers DEF Become, Current
<1>3. m_pg_shared_limit_cell \in Nat /\ m_port_max_shared_cell \in Nat BY PfcAssumption
<1>4. \A q \in PGs : ingress'.PG[i][q] > m_pg_shared_limit_cell =>
                       ingress.PG[i][q] > m_pg_shared_limit_cell
  BY <1>1, <1>2, <1>3
<1>5. ingress'.Port[i] > m_port_max_shared_cell => ingress.Port[i] > m_port_max_shared_cell
  BY <1>1, <1>2, <1>3
<1> QED BY <1>4, <1>5 DEF CongestionKeepsPausing

\* CheckQueueFull answers for the one group that may have grown.
LEMMA CheckQueueFullPausing ==
  ASSUME TypeOK, CongestionKeepsPausing, NEW s \in States,
         NEW p \in Ports, NEW i \in Ports, NEW q \in PGs, Others(s, i, q),
         NEW pending \in BOOLEAN, CheckQueueFull(s, p, i, q, pending)
  PROVE  CongestionKeepsPausing'
<1> DEFINE pauses  == GetPauseClasses(s.in, i, q)
           paused  == m_pause_remote[i][q] \/ pauses # {}
           resumes == paused /\ GetResumeClasses(s.in, i, q)
           over    == \/ s.in.PG[i][q] > m_pg_shared_limit_cell
                      \/ s.in.Port[i] > m_port_max_shared_cell
<1> SUFFICES ASSUME ~m_dynamicth PROVE CongestionKeepsPausing'
  BY DEF CongestionKeepsPausing
<1>1. ingress' = s.in BY DEF CheckQueueFull, Become, SendFrames
<1>2. /\ m_pause_remote' = [m_pause_remote EXCEPT ![i][q] = paused /\ ~resumes]
      /\ m_recheckEvt' = [m_recheckEvt EXCEPT ![p][i][q] =
                              (pending \/ pauses # {}) /\ ~resumes]
  BY DEF CheckQueueFull
<1>3. over => pauses # {} /\ ~GetResumeClasses(s.in, i, q)
  <2> SUFFICES ASSUME over PROVE pauses # {} /\ ~GetResumeClasses(s.in, i, q) OBVIOUS
  <2>1. s.in.PG[i][q] \in Nat /\ s.in.Port[i] \in Nat BY CountersAreNumbers
  <2>2. ~GetResumeClasses(s.in, i, q) BY <2>1, PfcAssumption DEF GetResumeClasses
  <2>3. pauses # {}
    <3>1. CASE s.in.Port[i] > m_port_max_shared_cell
      <4>1. pauses = 0..(qCnt - 1) BY <3>1 DEF GetPauseClasses
      <4>2. 0 \in 0..(qCnt - 1) BY DEF qCnt
      <4> QED BY <4>1, <4>2
    <3>2. CASE ~(s.in.Port[i] > m_port_max_shared_cell)
      <4>1. q \in pauses BY <3>2 DEF GetPauseClasses
      <4> QED BY <4>1
    <3> QED BY <3>1, <3>2
  <2> QED BY <2>2, <2>3
<1> HIDE DEF pauses, over
<1>4. over => m_pause_remote'[i][q] = TRUE /\ m_recheckEvt'[p][i][q] = TRUE
  <2> SUFFICES ASSUME over
               PROVE  m_pause_remote'[i][q] = TRUE /\ m_recheckEvt'[p][i][q] = TRUE
    OBVIOUS
  <2>1. (paused /\ ~resumes) = TRUE /\ ((pending \/ pauses # {}) /\ ~resumes) = TRUE
    BY <1>3
  <2> HIDE DEF paused, resumes
  <2>2. /\ m_pause_remote' = [m_pause_remote EXCEPT ![i][q] = TRUE]
        /\ m_recheckEvt' = [m_recheckEvt EXCEPT ![p][i][q] = TRUE]
    BY <1>2, <2>1
  <2> QED BY <2>2 DEF TypeOK
<1>5. \A j \in Ports, c \in PGs : j # i \/ c # q =>
        /\ m_pause_remote'[j][c] = m_pause_remote[j][c]
        /\ \A d \in Ports : m_recheckEvt'[d][j][c] = m_recheckEvt[d][j][c]
  <2> HIDE DEF paused, resumes
  <2> QED BY <1>2 DEF TypeOK
<1>6. ASSUME NEW j \in Ports, NEW c \in PGs, ingress'.PG[j][c] > m_pg_shared_limit_cell
      PROVE  m_pause_remote'[j][c] /\ \E d \in Ports : m_recheckEvt'[d][j][c]
  <2>1. CASE j = i /\ c = q BY <1>1, <1>4, <1>6, <2>1 DEF over
  <2>2. CASE j # i \/ c # q
    <3>1. s.in.PG[j][c] <= ingress.PG[j][c] BY <2>2 DEF Others
    <3>2. s.in.PG[j][c] \in Nat /\ ingress.PG[j][c] \in Nat
      BY CurrentType, CountersAreNumbers DEF Current
    <3>3. ingress.PG[j][c] > m_pg_shared_limit_cell
      BY <1>1, <1>6, <3>1, <3>2, PfcAssumption
    <3>4. m_pause_remote[j][c] /\ \E d \in Ports : m_recheckEvt[d][j][c]
      BY <3>3 DEF CongestionKeepsPausing
    <3> QED BY <1>5, <2>2, <3>4
  <2> QED BY <2>1, <2>2
<1>7. ASSUME NEW j \in Ports, ingress'.Port[j] > m_port_max_shared_cell
      PROVE  \E c \in PGs :
               m_pause_remote'[j][c] /\ \E d \in Ports : m_recheckEvt'[d][j][c]
  <2>1. CASE j = i BY <1>1, <1>4, <1>7, <2>1 DEF over
  <2>2. CASE j # i
    <3>1. s.in.Port[j] <= ingress.Port[j] BY <2>2 DEF Others
    <3>2. s.in.Port[j] \in Nat /\ ingress.Port[j] \in Nat
      BY CurrentType, CountersAreNumbers DEF Current
    <3>3. ingress.Port[j] > m_port_max_shared_cell
      BY <1>1, <1>7, <3>1, <3>2, PfcAssumption
    <3>4. \E c \in PGs : m_pause_remote[j][c] /\ \E d \in Ports : m_recheckEvt[d][j][c]
      BY <3>3 DEF CongestionKeepsPausing
    <3> QED BY <1>5, <2>2, <3>4
  <2> QED BY <2>1, <2>2
<1> QED BY <1>6, <1>7 DEF CongestionKeepsPausing

-----------------------------------------------------------------------------
(* The inductive invariant *)

BufferInv == Sound(Current) /\ CongestionKeepsPausing

LEMMA BecomeSound ==
  ASSUME NEW s, Sound(s), Become(s)
  PROVE  Sound(Current)'
BY DEF Sound, Exact, Size, SumsExact, Share, Reserved, Reserve, Within, Become, Current

LEMMA DequeueBuffer ==
  ASSUME TypeOK, CongestionKeepsPausing, NEW s \in States, Sound(s), s.in = ingress,
         NEW p \in Ports, NEW paused, DequeueAndTransmit(s, p, paused),
         UNCHANGED <<m_pause_remote, m_recheckEvt>>
  PROVE  BufferInv'
<1> DEFINE c(lag) == Served(s, p, paused, lag)
<1>1. PICK lag \in SUBSET PGs : \E ce \in Marks(s, p, c(lag)) :
        Become(Transmit(s, p, c(lag), ce))
  BY DEF DequeueAndTransmit
<1>2. PICK ce \in Marks(s, p, c(lag)) : Become(Transmit(s, p, c(lag), ce)) BY <1>1
<1>3. Servable(s, p, c(lag)) BY ServedServable DEF TypeOK
<1> DEFINE t == Transmit(s, p, c(lag), ce)
<1> HIDE DEF c
<1>4. ce \in BOOLEAN BY MarksType
<1>5. t \in States BY <1>3, <1>4, TransmitType
<1>6. Sound(t) /\ Shrinks(t, s) BY <1>3, TransmitSound
<1> HIDE DEF t
<1>7. Shrinks(t, Current) BY <1>6 DEF Shrinks, Current
<1>8. Become(t) BY <1>2 DEF t
<1> QED BY <1>5, <1>6, <1>7, <1>8, BecomeSound, ShrinksPausing DEF BufferInv

LEMMA CheckQueueFullBuffer ==
  ASSUME TypeOK, CongestionKeepsPausing, NEW s \in States, Sound(s),
         NEW p \in Ports, NEW i \in Ports, NEW q \in PGs, Others(s, i, q),
         NEW pending \in BOOLEAN, CheckQueueFull(s, p, i, q, pending)
  PROVE  BufferInv'
<1>1. CongestionKeepsPausing' BY CheckQueueFullPausing
<1>2. \E frames : Become(SendFrames(s, i, frames)) BY DEF CheckQueueFull
<1>3. PICK frames : Become(SendFrames(s, i, frames)) BY <1>2
<1> DEFINE t == SendFrames(s, i, frames)
<1>4. t.in = s.in /\ t.out = s.out /\ t.qs = s.qs BY DEF SendFrames
<1> HIDE DEF t
<1>5. Sound(t) BY <1>4, SameSound
<1> QED BY <1>1, <1>3, <1>5, BecomeSound DEF BufferInv, t

LEMMA InitBuffer == Init => BufferInv
<1> SUFFICES ASSUME Init PROVE BufferInv OBVIOUS
<1>1. /\ Current.in = EmptyIngress /\ Current.out = EmptyEgress
      /\ Current.qs = [p \in Ports |-> [q \in PGs |-> <<>>]]
  BY DEF Init, Current
<1>2. \A L : Bytes(Current.qs, L) = {}
  <2> SUFFICES ASSUME NEW L, NEW x, x \in Bytes(Current.qs, L) PROVE FALSE OBVIOUS
  <2>1. PICK p \in Ports, q \in PGs : \E n, b : IsByte(Current.qs, L, x, p, q, n, b)
    BY InBytes
  <2>2. PICK n, b : IsByte(Current.qs, L, x, p, q, n, b) BY <2>1
  <2>3. Current.qs[p][q] = <<>> BY <1>1
  <2>4. DOMAIN Current.qs[p][q] = {} BY <2>3
  <2> QED BY <2>2, <2>4 DEF IsByte
<1>3. \A L : L \subseteq All => Shares(Current.out.QShared, L) = {}
  <2> SUFFICES ASSUME NEW L, L \subseteq All, NEW x, x \in Shares(Current.out.QShared, L)
               PROVE  FALSE
    OBVIOUS
  <2>1. PICK r \in L : \E b \in 1..Current.out.QShared[r[1]][r[2]] : x = <<r, b>>
    BY InShares
  <2>2. r[1] \in Ports /\ r[2] \in PGs BY DEF All
  <2>3. Current.out.QShared[r[1]][r[2]] = 0 BY <1>1, <2>2 DEF EmptyEgress
  <2> QED BY <2>1, <2>3
<1>4. IsFiniteSet({}) /\ Cardinality({}) = 0 BY FS_EmptySet
<1>5. \A L : Size(Current, L) = 0 BY <1>2, <1>4 DEF Size
<1>6. /\ \A p \in Ports : {p} \X PGs \subseteq All
      /\ \A k \in Pools : Ports \X PoolClasses(k) \subseteq All
      /\ All \subseteq All
  BY DEF All, PoolClasses
<1>7. \A L : L \subseteq All => Share(Current.out, L) = 0 BY <1>3, <1>4 DEF Share
<1>8. Exact(Current)
  <2>1. /\ \A i \in Ports, q \in PGs : Current.in.PG[i][q] = 0 /\ Current.in.Headroom[i][q] = 0
        /\ \A i \in Ports : Current.in.Port[i] = 0
        /\ \A k \in Pools : Current.in.SP[k] = 0
        /\ Current.in.Total = 0
    BY <1>1 DEF EmptyIngress
  <2>2. IsFiniteSet(Bytes(Current.qs, All)) BY <1>2, <1>4
  <2> DEFINE s == Current
  <2>3. /\ \A i \in Ports, q \in PGs : s.in.PG[i][q] = 0 /\ s.in.Headroom[i][q] = 0
        /\ \A i \in Ports : s.in.Port[i] = 0
        /\ \A k \in Pools : s.in.SP[k] = 0
        /\ s.in.Total = 0
        /\ IsFiniteSet(Bytes(s.qs, All)) /\ \A L : Size(s, L) = 0
    BY <2>1, <2>2, <1>5
  <2> HIDE DEF s
  <2>4. Exact(s) BY <2>3, ThresholdAssumption DEF Exact
  <2> QED BY <2>4 DEF s
<1>9. SumsExact(Current.out)
  <2> DEFINE out == Current.out
  <2>1. /\ \A p \in Ports : out.Port[p] = 0
        /\ \A k \in Pools : out.SP[k] = 0
    BY <1>1 DEF EmptyEgress
  <2>2. IsFiniteSet(Shares(out.QShared, All)) BY <1>3, <1>4, <1>6
  <2>3. \A L : L \subseteq All => Share(out, L) = 0 BY <1>7
  <2> HIDE DEF out
  <2>4. \A p \in Ports : out.Port[p] = Share(out, {p} \X PGs) BY <2>1, <2>3, <1>6
  <2>5. \A k \in Pools : out.SP[k] = Share(out, Ports \X PoolClasses(k))
    BY <2>1, <2>3, <1>6
  <2>6. SumsExact(out) BY <2>1, <2>2, <2>4, <2>5, ThresholdAssumption DEF SumsExact
  <2> QED BY <2>6 DEF out
<1>10. Reserved(Current.in)
  <2> DEFINE in == Current.in
  <2>1. /\ \A i \in Ports, q \in PGs : in.Headroom[i][q] = 0
        /\ \A k \in Pools : in.SP[k] = 0
    BY <1>1 DEF EmptyIngress
  <2> HIDE DEF in
  <2>2. \A L : L \subseteq All => Shares(in.Headroom, L) = {}
    <3> SUFFICES ASSUME NEW L, L \subseteq All, NEW x, x \in Shares(in.Headroom, L)
                 PROVE  FALSE
      OBVIOUS
    <3>1. PICK r \in L : \E b \in 1..in.Headroom[r[1]][r[2]] : x = <<r, b>> BY InShares
    <3>2. r[1] \in Ports /\ r[2] \in PGs BY DEF All
    <3> QED BY <2>1, <3>1, <3>2
  <2>3. IsFiniteSet(Shares(in.Headroom, All)) BY <1>4, <1>6, <2>2
  <2>4. \A k \in Pools : Reserve(in, k) = 0 BY <1>4, <1>6, <2>2 DEF Reserve
  <2>5. \A i \in Ports, q \in PGs : Within(in.Headroom[i][q])
    BY <2>1, ThresholdAssumption DEF Within
  <2>6. Reserved(in) BY <2>1, <2>3, <2>4, <2>5, ThresholdAssumption DEF Reserved
  <2> QED BY <2>6 DEF in
<1>11. CongestionKeepsPausing
  BY PfcAssumption DEF Init, CongestionKeepsPausing, EmptyIngress
<1> QED BY <1>8, <1>9, <1>10, <1>11 DEF BufferInv, Sound

LEMMA NextBuffer == TypeOK /\ BufferInv /\ [Next]_vars => BufferInv'
<1> SUFFICES ASSUME TypeOK, BufferInv, [Next]_vars PROVE BufferInv' OBVIOUS
<1>0. Current \in States /\ Sound(Current) /\ CongestionKeepsPausing
      /\ Current.in = ingress /\ Shrinks(Current, Current)
  BY CurrentType, SameSound DEF BufferInv, Current
<1>1. ASSUME NEW r \in Routes, NEW q \in PGs, NEW z \in Sizes, Send(r[2], r[1], q, z)
      PROVE  BufferInv'
  <2> DEFINE p == r[2]
             i == r[1]
             s == Admit(Current, p, i, q, z)
  <2>1. p \in Ports /\ i \in Ports BY RouteAssumption
  <2> HIDE DEF p, i
  <2>2. s \in States /\ Sound(s) BY <1>0, <2>1, AdmitType, AdmitSound
  <2>3. Others(s, i, q) BY <2>1, AdmitOthers
  <2> HIDE DEF s
  <2>4. PICK lag \in SUBSET PGs : \E ce \in Marks(s, p, Served(s, p, m_paused, lag)) :
          CheckQueueFull(Transmit(s, p, Served(s, p, m_paused, lag), ce), p, i, q,
                         m_recheckEvt[p][i][q])
    BY <1>1 DEF Send, s, p, i
  <2>5. PICK ce \in Marks(s, p, Served(s, p, m_paused, lag)) :
          CheckQueueFull(Transmit(s, p, Served(s, p, m_paused, lag), ce), p, i, q,
                         m_recheckEvt[p][i][q])
    BY <2>4
  <2> DEFINE c == Served(s, p, m_paused, lag)
             t == Transmit(s, p, c, ce)
  <2>6. Servable(s, p, c) BY <2>1, ServedServable DEF TypeOK
  <2> HIDE DEF c
  <2>7. t \in States BY <2>1, <2>2, <2>6, MarksType, TransmitType DEF c
  <2>8. Sound(t) /\ Shrinks(t, s) BY <2>1, <2>2, <2>6, TransmitSound
  <2>9. CheckQueueFull(t, p, i, q, m_recheckEvt[p][i][q]) BY <2>5 DEF c
  <2> HIDE DEF t
  <2>10. Others(t, i, q) BY <2>2, <2>3, <2>7, <2>8, ShrinksOthers
  <2>11. m_recheckEvt[p][i][q] \in BOOLEAN BY <2>1 DEF TypeOK
  <2> QED BY <1>0, <2>1, <2>7, <2>8, <2>9, <2>10, <2>11, CheckQueueFullBuffer
<1>2. ASSUME NEW p \in Transits, SendControl(p) PROVE BufferInv'
  <2>1. p \in Ports BY RouteAssumption
  <2> DEFINE f == ControlFrame("TRANSIT", qCnt - 1)
             s == [Current EXCEPT !.ctl[p] = Append(@, f)]
  <2>2. f \in Frame BY DEF ControlFrame, Frame, Classes, qCnt
  <2> HIDE DEF f
  <2>3. s \in States
    <3>1. Current.ctl \in [Ports -> Seq(Frame)] BY <1>0 DEF States
    <3>2. Append(Current.ctl[p], f) \in Seq(Frame) BY <2>1, <2>2, <3>1
    <3> QED BY <1>0, <2>1, <3>1, <3>2 DEF States
  <2>4. s.in = Current.in /\ s.out = Current.out /\ s.qs = Current.qs BY DEF Current
  <2>5. DequeueAndTransmit(s, p, m_paused) BY <1>2 DEF SendControl, f
  <2>6. UNCHANGED <<m_pause_remote, m_recheckEvt>> BY <1>2 DEF SendControl, pfcVars
  <2> HIDE DEF s
  <2>7. Sound(s) BY <1>0, <2>4, SameSound
  <2> QED BY <1>0, <2>1, <2>3, <2>4, <2>5, <2>6, <2>7, DequeueBuffer
<1>3. ASSUME NEW p \in Ports, TransmitComplete(p) PROVE BufferInv'
  <2> DEFINE s == [Current EXCEPT !.cur[p] = NoPacket]
  <2>1. s \in States BY <1>0 DEF States
  <2>2. s.in = Current.in /\ s.out = Current.out /\ s.qs = Current.qs BY DEF Current
  <2>3. DequeueAndTransmit(s, p, m_paused) BY <1>3 DEF TransmitComplete
  <2>4. UNCHANGED <<m_pause_remote, m_recheckEvt>> BY <1>3 DEF TransmitComplete, pfcVars
  <2> HIDE DEF s
  <2>5. Sound(s) BY <1>0, <2>2, SameSound
  <2> QED BY <1>0, <2>1, <2>2, <2>3, <2>4, <2>5, DequeueBuffer
<1>4. ASSUME NEW p \in Ports, NEW q \in PGs, PauseFinish(p, q) PROVE BufferInv'
  <2>1. /\ DequeueAndTransmit(Current, p, m_paused')
        /\ UNCHANGED <<m_pause_remote, m_recheckEvt>>
    BY <1>4 DEF PauseFinish
  <2> QED BY <1>0, <2>1, DequeueBuffer
<1>5. ASSUME NEW p \in Pausers, NEW q \in PGs, ReceivePause(p, q) PROVE BufferInv'
  <2>1. /\ Become(Current) /\ UNCHANGED <<m_pause_remote, m_recheckEvt>>
    BY <1>5 DEF ReceivePause, Become, Current, mmuVars, queueVars
  <2> QED BY <1>0, <2>1, BecomeSound, ShrinksPausing DEF BufferInv
<1>6. ASSUME NEW p \in Ports, NEW i \in Ports, NEW q \in PGs, Recheck(p, i, q)
      PROVE  BufferInv'
  <2>1. CheckQueueFull(Current, p, i, q, FALSE) BY <1>6 DEF Recheck
  <2>2. Others(Current, i, q) BY <1>0 DEF Shrinks, Others, Current
  <2> QED BY <1>0, <2>1, <2>2, CheckQueueFullBuffer
<1>7. CASE UNCHANGED vars
  <2>1. Become(Current) /\ UNCHANGED <<m_pause_remote, m_recheckEvt>>
    BY <1>7 DEF vars, mmuVars, queueVars, pfcVars, Become, Current
  <2> QED BY <1>0, <2>1, BecomeSound, ShrinksPausing DEF BufferInv
<1> QED BY <1>1, <1>2, <1>3, <1>4, <1>5, <1>6, <1>7, RouteAssumption
        DEF Next, ReceiveResume, ResumeTimer

LEMMA BufferInvariant == Spec => []BufferInv
BY InitBuffer, NextBuffer, TypeCorrect, PTL DEF Spec

(***************************************************************************)
(* The ingress counters are exact, for every instance: every counter that  *)
(* UpdateIngressAdmission and RemoveFromIngressAdmission keep is at all    *)
(* times the number of bytes in the buffer that it stands for.             *)
(***************************************************************************)
THEOREM IngressCountersExact == Spec => []IngressExact
<1>1. BufferInv => IngressExact
  BY DEF BufferInv, Sound, Exact, Size, Current, IngressExact, Held, All
<1> QED BY <1>1, BufferInvariant, PTL

(***************************************************************************)
(* A priority group never holds more headroom than bytes, and what a pool  *)
(* holds above m_buffer_cell_limit_sp is charged to the headroom of its    *)
(* groups: RemoveFromIngressAdmission may take it from another group than  *)
(* UpdateIngressAdmission charged, but never more than leaves the pool.    *)
(***************************************************************************)
THEOREM HeadroomIsCovered == Spec => []HeadroomCovered
<1>1. ASSUME BufferInv
      PROVE  \A i \in Ports, q \in PGs : ingress.Headroom[i][q] <= ingress.PG[i][q]
  BY <1>1 DEF BufferInv, Sound, Exact, Current
<1>2. ASSUME BufferInv
      PROVE  \A k \in Pools :
               ingress.SP[k] <= m_buffer_cell_limit_sp
                 + Cardinality(Shares(ingress.Headroom, Ports \X PoolClasses(k)))
  BY <1>2 DEF BufferInv, Sound, Reserved, Reserve, Current
<1>3. BufferInv => HeadroomCovered
  BY <1>1, <1>2 DEF HeadroomCovered
<1> QED BY <1>3, BufferInvariant, PTL

(***************************************************************************)
(* The headroom of a group exceeds m_pg_hdrm_limit at most up to the       *)
(* guarantees and to the limit of the pool and one packet: the three cases *)
(* in which CheckIngressAdmission admits a packet without asking for the   *)
(* headroom that UpdateIngressAdmission then charges.                      *)
(***************************************************************************)
THEOREM HeadroomIsLimited == Spec => []HeadroomLimited
<1>1. BufferInv => HeadroomLimited
  BY DEF BufferInv, Sound, Reserved, Within, Current, HeadroomLimited
<1> QED BY <1>1, BufferInvariant, PTL

\* The bytes admitted by CheckIngressAdmission never exceed m_maxBufferBytes.
THEOREM BufferIsRespected == Spec => []BufferRespected
<1>1. BufferInv => BufferRespected
  BY DEF BufferInv, Sound, Exact, Current, BufferRespected
<1> QED BY <1>1, BufferInvariant, PTL

\* The egress counters of ports and pools stay the sums of those of their
\* queues through every patch of Update/RemoveFromEgressAdmission.
THEOREM EgressCountersAddUp == Spec => []EgressSumsExact
<1>1. BufferInv => EgressSumsExact
  BY DEF BufferInv, Sound, SumsExact, Share, Current, EgressSumsExact
<1> QED BY <1>1, BufferInvariant, PTL

(***************************************************************************)
(* With static thresholds, a group or a port above its PAUSE threshold is  *)
(* believed paused by CheckQueueFull and some device has a recheck pending *)
(* that repeats the PAUSE, for every number of devices that share          *)
(* m_pause_remote.  It needs PfcAssumption: a RESUME threshold above the   *)
(* PAUSE threshold would cancel the recheck of a congested group.          *)
(***************************************************************************)
THEOREM CongestedGroupsStayPaused == Spec => []CongestionKeepsPausing
<1>1. BufferInv => CongestionKeepsPausing BY DEF BufferInv
<1> QED BY <1>1, BufferInvariant, PTL
=============================================================================
