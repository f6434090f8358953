---------------------------- MODULE GoBackNProofs ----------------------------
(***************************************************************************)
(* The go-back-N of the NICs, for every message size, every set of modes   *)
(* and every number of packets and losses: the type invariant, the pairing *)
(* of m_waitingAck with the Retransmit timer, what the sending buffer      *)
(* covers, what L2WaitForAck promises, and the refinement of               *)
(* ReliableDelivery.                                                       *)
(*                                                                         *)
(* The sending buffer and the transmit queue are runs of consecutive       *)
(* numbers that end with the last packet produced (Shape).  Kept relates   *)
(* the buffer, the replies under way and the receiver; Message relates     *)
(* m_milestone_tx to everything that is under way.  Both need that Send    *)
(* never finds the sending buffer full (BufferHasRoom): the packet it      *)
(* would evict may still be asked for.                                     *)
(***************************************************************************)
EXTENDS GoBackN, SequenceTheorems, TLAPS

-----------------------------------------------------------------------------
(* Message boundaries *)

\* GoBack as a function of the attributes.
Round(a, seq) ==
    IF a.L2BackToZero THEN (seq \div a.L2ChunkSize) * a.L2ChunkSize ELSE seq

LEMMA GoBackRounds == ASSUME NEW seq PROVE GoBack(seq) = Round(attr, seq)
BY DEF GoBack, Round, m_backto0, m_chunk

LEMMA Division ==
  ASSUME NEW x \in Nat, NEW c \in Nat \ {0}
  PROVE  x \div c \in Nat /\ (x \div c) * c \in Nat
         /\ (x \div c) * c <= x /\ x < (x \div c) * c + c
OBVIOUS

\* The quotient is determined by its bounds.
LEMMA Quotient ==
  ASSUME NEW p \in Nat, NEW q \in Nat, NEW c \in Nat \ {0}, p * c < q * c + c
  PROVE  p <= q
<1> SUFFICES ASSUME p >= q + 1 PROVE FALSE OBVIOUS
<1>1. PICK d \in Nat : p = q + 1 + d OBVIOUS
<1>2. p * c = q * c + c + d * c BY <1>1
<1>3. d * c \in Nat /\ q * c \in Nat OBVIOUS
<1> QED BY <1>2, <1>3

LEMMA Multiples ==
  ASSUME NEW p \in Nat, NEW q \in Nat, NEW c \in Nat, p <= q
  PROVE  p * c <= q * c
<1>1. PICK d \in Nat : q = p + d OBVIOUS
<1>2. q * c = p * c + d * c BY <1>1
<1>3. d * c \in Nat /\ p * c \in Nat OBVIOUS
<1> QED BY <1>2, <1>3

LEMMA RoundType ==
  ASSUME NEW a \in Modes, NEW x \in Nat
  PROVE  Round(a, x) \in Nat /\ Round(a, x) <= x
BY Division, ModeAssumption DEF Round

LEMMA RoundMonotone ==
  ASSUME NEW a \in Modes, NEW x \in Nat, NEW y \in Nat, x <= y
  PROVE  Round(a, x) <= Round(a, y)
<1>1. CASE ~a.L2BackToZero BY <1>1 DEF Round
<1>2. CASE a.L2BackToZero
  <2> DEFINE c == a.L2ChunkSize
             p == x \div c
             q == y \div c
  <2>1. c \in Nat \ {0} BY <1>2, ModeAssumption
  <2> HIDE DEF c
  <2>2. /\ p \in Nat /\ p * c \in Nat /\ p * c <= x
        /\ q \in Nat /\ q * c \in Nat /\ y < q * c + c
    BY <2>1, Division
  <2> HIDE DEF p, q
  <2>3. p * c < q * c + c BY <2>1, <2>2
  <2>4. p <= q BY <2>1, <2>2, <2>3, Quotient
  <2>5. p * c <= q * c BY <2>1, <2>2, <2>4, Multiples
  <2> QED BY <1>2, <2>5 DEF Round, p, q, c
<1> QED BY <1>1, <1>2

LEMMA RoundMultiple ==
  ASSUME NEW q \in Nat, NEW c \in Nat \ {0}
  PROVE  (q * c) \div c = q
<1> DEFINE x == q * c
           p == x \div c
<1>1. x \in Nat OBVIOUS
<1>2. p \in Nat /\ p * c <= x /\ x < p * c + c BY <1>1, Division
<1> HIDE DEF p
<1>3. p * c < q * c + c BY <1>1, <1>2
<1>4. q * c < p * c + c BY <1>2
<1>5. p <= q /\ q <= p BY <1>2, <1>3, <1>4, Quotient
<1> QED BY <1>2, <1>5 DEF p

LEMMA RoundTwice ==
  ASSUME NEW a \in Modes, NEW x \in Nat
  PROVE  Round(a, Round(a, x)) = Round(a, x)
<1>1. CASE ~a.L2BackToZero BY <1>1 DEF Round
<1>2. CASE a.L2BackToZero
  <2> DEFINE c == a.L2ChunkSize
             q == x \div c
  <2>1. c \in Nat \ {0} BY <1>2, ModeAssumption
  <2> HIDE DEF c
  <2>2. q \in Nat BY <2>1, Division
  <2> HIDE DEF q
  <2>3. (q * c) \div c = q BY <2>1, <2>2, RoundMultiple
  <2> QED BY <1>2, <2>3 DEF Round, q, c
<1> QED BY <1>1, <1>2

\* The end of a message is the start of the next one.
LEMMA RoundNext ==
  ASSUME NEW a \in Modes, NEW x \in Nat, Round(a, x) = x
  PROVE  Round(a, x + a.L2ChunkSize) = x + a.L2ChunkSize
<1>1. CASE ~a.L2BackToZero BY <1>1 DEF Round
<1>2. CASE a.L2BackToZero
  <2> DEFINE c == a.L2ChunkSize
             q == x \div c
  <2>1. c \in Nat \ {0} BY <1>2, ModeAssumption
  <2>2. x = q * c BY <1>2 DEF Round
  <2> HIDE DEF c
  <2>3. q \in Nat BY <2>1, Division
  <2> HIDE DEF q
  <2>4. x + c = (q + 1) * c BY <2>1, <2>2, <2>3
  <2>5. ((q + 1) * c) \div c = q + 1 BY <2>1, <2>3, RoundMultiple
  <2>6. ((x + c) \div c) * c = x + c BY <2>4, <2>5
  <2> QED BY <1>2, <2>6 DEF Round, c
<1> QED BY <1>1, <1>2

LEMMA RoundZero == ASSUME NEW a \in Modes PROVE Round(a, 0) = 0
BY RoundType

\* The first message ends at the chunk size.
LEMMA RoundChunk ==
  ASSUME NEW a \in Modes PROVE Round(a, a.L2ChunkSize) = a.L2ChunkSize
<1>1. a.L2ChunkSize \in Nat /\ 0 + a.L2ChunkSize = a.L2ChunkSize BY ModeAssumption
<1> QED BY <1>1, RoundZero, RoundNext

-----------------------------------------------------------------------------
(* Runs of consecutive numbers *)

\* s is lo, lo + 1, ..., hi - 1.
Run(s, lo, hi) == Len(s) = hi - lo /\ \A k \in 1..Len(s) : s[k] = lo + k - 1

Numbers == 0..(MaxSeq - 1)

LEMMA RunAppend ==
  ASSUME NEW s \in Seq(Numbers), NEW lo \in Nat, NEW hi \in Nat, Run(s, lo, hi),
         hi < MaxSeq
  PROVE  Append(s, hi) \in Seq(Numbers) /\ Run(Append(s, hi), lo, hi + 1)
<1>1. hi \in Numbers BY BoundAssumption DEF Numbers
<1> DEFINE t == Append(s, hi)
<1>2. /\ t \in Seq(Numbers) /\ Len(t) = Len(s) + 1 /\ t[Len(s) + 1] = hi
      /\ \A k \in 1..Len(s) : t[k] = s[k]
  BY <1>1
<1> HIDE DEF t
<1>3. Len(s) \in Nat /\ Len(s) = hi - lo BY DEF Run
<1>4. ASSUME NEW k \in 1..Len(t) PROVE t[k] = lo + k - 1
  <2>1. CASE k \in 1..Len(s) BY <1>2, <2>1 DEF Run
  <2>2. CASE k = Len(s) + 1 BY <1>2, <1>3, <2>2
  <2> QED BY <1>2, <1>3, <2>1, <2>2
<1> QED BY <1>2, <1>3, <1>4 DEF Run, t

LEMMA RunHead ==
  ASSUME NEW s \in Seq(Numbers), NEW lo \in Nat, NEW hi \in Nat, Run(s, lo, hi), s # <<>>
  PROVE  Head(s) = lo /\ lo < hi /\ lo \in Numbers /\ s[Len(s)] = hi - 1
<1>1. Len(s) \in Nat /\ Len(s) >= 1 /\ Head(s) = s[1] /\ s[1] \in Numbers OBVIOUS
<1>2. s[1] = lo + 1 - 1 /\ s[Len(s)] = lo + Len(s) - 1 BY <1>1 DEF Run
<1> QED BY <1>1, <1>2 DEF Run

LEMMA RunTail ==
  ASSUME NEW s \in Seq(Numbers), NEW lo \in Nat, NEW hi \in Nat, Run(s, lo, hi), s # <<>>
  PROVE  Tail(s) \in Seq(Numbers) /\ Run(Tail(s), lo + 1, hi)
<1> DEFINE t == Tail(s)
<1>1. Len(s) \in Nat /\ Len(s) >= 1 OBVIOUS
<1>2. t \in Seq(Numbers) /\ Len(t) = Len(s) - 1 /\ \A k \in 1..Len(t) : t[k] = s[k + 1]
  OBVIOUS
<1> HIDE DEF t
<1>3. ASSUME NEW k \in 1..Len(t) PROVE t[k] = (lo + 1) + k - 1
  <2>1. k + 1 \in 1..Len(s) BY <1>1, <1>2
  <2>2. s[k + 1] = lo + (k + 1) - 1 BY <2>1 DEF Run
  <2> QED BY <1>2, <2>2
<1> QED BY <1>1, <1>2, <1>3 DEF Run, t

\* Where a run that ends with the last packet starts, empty or not.
First(s, hi) == IF s = <<>> THEN hi ELSE Head(s)

LEMMA RunFirst ==
  ASSUME NEW s \in Seq(Numbers), NEW lo \in Nat, NEW hi \in Nat, Run(s, lo, hi)
  PROVE  First(s, hi) = lo /\ lo <= hi
<1>1. CASE s = <<>>
  <2>1. Len(s) = 0 BY <1>1
  <2> QED BY <1>1, <2>1 DEF Run, First
<1>2. CASE s # <<>> BY <1>2, RunHead DEF First
<1> QED BY <1>1, <1>2

LEMMA SuffixProperties ==
  ASSUME NEW s \in Seq(Numbers), NEW m \in 1..(Len(s) + 1)
  PROVE  LET t == SubSeq(s, m, Len(s))
         IN  /\ t \in Seq(Numbers) /\ Len(t) = Len(s) - m + 1
             /\ \A k \in 1..Len(t) : t[k] = s[m + k - 1]
<1>1. Len(s) \in Nat /\ Len(s) \in Int /\ m \in Int OBVIOUS
<1>2. \A j \in m..Len(s) : s[j] \in Numbers BY <1>1
<1>3. /\ SubSeq(s, m, Len(s)) \in Seq(Numbers)
      /\ Len(SubSeq(s, m, Len(s))) = IF m <= Len(s) THEN Len(s) - m + 1 ELSE 0
      /\ \A j \in 1..(Len(s) - m + 1) : SubSeq(s, m, Len(s))[j] = s[m + j - 1]
  BY <1>1, <1>2, SubSeqProperties
<1> QED BY <1>1, <1>3

LEMMA RunSuffix ==
  ASSUME NEW s \in Seq(Numbers), NEW lo \in Nat, NEW hi \in Nat, Run(s, lo, hi),
         NEW m \in 1..(Len(s) + 1)
  PROVE  /\ SubSeq(s, m, Len(s)) \in Seq(Numbers)
         /\ Run(SubSeq(s, m, Len(s)), lo + m - 1, hi)
<1> DEFINE t == SubSeq(s, m, Len(s))
<1>1. /\ t \in Seq(Numbers) /\ Len(t) = Len(s) - m + 1
      /\ \A k \in 1..Len(t) : t[k] = s[m + k - 1]
  BY SuffixProperties
<1> HIDE DEF t
<1>2. Len(s) \in Nat /\ Len(s) = hi - lo BY DEF Run
<1>3. ASSUME NEW k \in 1..Len(t) PROVE t[k] = (lo + m - 1) + k - 1
  <2>1. m + k - 1 \in 1..Len(s) BY <1>1, <1>2
  <2>2. s[m + k - 1] = lo + (m + k - 1) - 1 BY <2>1 DEF Run
  <2> QED BY <1>1, <2>2
<1> QED BY <1>1, <1>2, <1>3 DEF Run, t

\* The later of two starts.
Later(a, b) == IF a >= b THEN a ELSE b

\* The loop of Receive that takes the packets before seq off the buffer.
LEMMA DropBeforeRun ==
  ASSUME NEW lo \in Nat, NEW hi \in Nat, m_sendingBuffer \in Seq(Numbers),
         Run(m_sendingBuffer, lo, hi), NEW seq \in Nat, seq <= hi
  PROVE  /\ DropBefore(seq) \in Seq(Numbers) /\ Run(DropBefore(seq), Later(lo, seq), hi)
         /\ Len(DropBefore(seq)) <= Len(m_sendingBuffer)
<1> DEFINE s == m_sendingBuffer
           m == Later(lo, seq) - lo + 1
           P(n) == /\ \A k \in 1..(n - 1) : s[k] < seq
                   /\ n <= Len(s) => s[n] >= seq
           first == CHOOSE n \in 1..(Len(s) + 1) : P(n)
<1>1. Len(s) \in Nat /\ Len(s) = hi - lo /\ lo <= hi BY RunFirst DEF Run
<1>2. m \in 1..(Len(s) + 1) /\ Later(lo, seq) \in Nat /\ lo + m - 1 = Later(lo, seq)
  BY <1>1 DEF Later
<1>3. \A k \in 1..Len(s) : s[k] = lo + k - 1 BY DEF Run
<1>4. P(m) BY <1>1, <1>2, <1>3 DEF Later
<1>5. \A n \in 1..(Len(s) + 1) : P(n) => n = m
  <2> SUFFICES ASSUME NEW n \in 1..(Len(s) + 1), P(n) PROVE n = m OBVIOUS
  <2>1. CASE n < m
    <3>1. n \in 1..(m - 1) /\ n <= Len(s) BY <1>1, <1>2, <2>1
    <3>2. s[n] < seq BY <1>4, <3>1
    <3>3. s[n] >= seq /\ s[n] = lo + n - 1 BY <1>1, <1>3, <3>1
    <3> QED BY <1>1, <3>2, <3>3
  <2>2. CASE n > m
    <3>1. m \in 1..(n - 1) /\ m <= Len(s) BY <1>1, <1>2, <2>2
    <3>2. s[m] < seq BY <3>1
    <3>3. s[m] >= seq /\ s[m] = lo + m - 1 BY <1>1, <1>2, <1>3, <1>4, <3>1
    <3> QED BY <1>1, <1>2, <3>2, <3>3
  <2> QED BY <1>1, <1>2, <2>1, <2>2
<1>6. first = m
  <2>1. \E n \in 1..(Len(s) + 1) : P(n) BY <1>2, <1>4
  <2> HIDE DEF P
  <2>2. first \in 1..(Len(s) + 1) /\ P(first) BY <2>1
  <2> QED BY <1>5, <2>2
<1>7. DropBefore(seq) = SubSeq(s, m, Len(s))
  <2>1. DropBefore(seq) = SubSeq(s, first, Len(s)) BY DEF DropBefore
  <2> QED BY <1>6, <2>1
<1> HIDE DEF m, s
<1>8. SubSeq(s, m, Len(s)) \in Seq(Numbers) /\ Run(SubSeq(s, m, Len(s)), lo + m - 1, hi)
  BY <1>2, RunSuffix DEF s
<1>9. Run(DropBefore(seq), Later(lo, seq), hi) /\ DropBefore(seq) \in Seq(Numbers)
  BY <1>2, <1>7, <1>8
<1>10. Len(DropBefore(seq)) = hi - Later(lo, seq) BY <1>9 DEF Run
<1>11. Len(DropBefore(seq)) <= Len(s) BY <1>1, <1>10 DEF Later
<1> QED BY <1>9, <1>11 DEF s

-----------------------------------------------------------------------------
(* Packets on the way *)

\* Every packet of s has a number below x.
Below(s, x) == \A n \in DOMAIN s : s[n] < x

LEMMA BelowAppend ==
  ASSUME NEW s \in Seq(Numbers), NEW x \in Nat, Below(s, x), NEW e \in Numbers, e < x
  PROVE  Append(s, e) \in Seq(Numbers) /\ Below(Append(s, e), x)
BY DEF Below

LEMMA BelowTail ==
  ASSUME NEW s \in Seq(Numbers), NEW x \in Nat, Below(s, x), s # <<>>
  PROVE  Tail(s) \in Seq(Numbers) /\ Below(Tail(s), x) /\ Head(s) \in Numbers /\ Head(s) < x
<1>1. Len(s) \in Nat /\ Len(s) >= 1 /\ Head(s) = s[1] /\ 1 \in DOMAIN s OBVIOUS
<1>2. /\ Tail(s) \in Seq(Numbers)
      /\ \A k \in DOMAIN Tail(s) : k + 1 \in DOMAIN s /\ Tail(s)[k] = s[k + 1]
  OBVIOUS
<1> QED BY <1>1, <1>2 DEF Below

LEMMA BelowMore ==
  ASSUME NEW s \in Seq(Numbers), NEW x \in Nat, NEW y \in Nat, Below(s, x), x <= y
  PROVE  Below(s, y)
<1>1. Numbers \subseteq Nat BY BoundAssumption DEF Numbers
<1>2. ASSUME NEW n \in DOMAIN s PROVE s[n] < y
  <2>1. s[n] \in Numbers OBVIOUS
  <2>2. s[n] < x BY DEF Below
  <2>3. s[n] \in Nat BY <1>1, <2>1, Zenon
  <2> QED BY <2>2, <2>3
<1> QED BY <1>2 DEF Below

-----------------------------------------------------------------------------
(* Replies on the way *)

Reply == [kind : {"ACK", "NACK"}, seq : 0..MaxSeq]

\* Where the reply at place k was before the reply at place n left.
Shift(n, k) == IF k < n THEN k ELSE k + 1

\* r is s without its n-th element.
Removes(r, s, n) ==
    /\ r \in Seq(Reply) /\ Len(r) = Len(s) - 1
    /\ \A k \in 1..Len(r) : r[k] = s[Shift(n, k)]

LEMMA ShiftProperties ==
  ASSUME NEW s \in Seq(Reply), NEW n \in DOMAIN s, NEW r, Removes(r, s, n)
  PROVE  /\ \A k \in DOMAIN r : Shift(n, k) \in DOMAIN s /\ Shift(n, k) # n
                                /\ r[k] = s[Shift(n, k)]
         /\ \A k \in DOMAIN r : k < Len(r) => Shift(n, k) < Len(s)
         /\ \A j \in DOMAIN r : \A k \in DOMAIN r : j <= k => Shift(n, j) <= Shift(n, k)
<1>1. DOMAIN r = 1..Len(r) /\ Len(r) = Len(s) - 1 /\ Len(s) \in Nat /\ DOMAIN s = 1..Len(s)
  BY DEF Removes
<1> QED BY <1>1 DEF Removes, Shift

LEMMA RemoveAtRemoves ==
  ASSUME NEW s \in Seq(Reply), NEW i \in DOMAIN s
  PROVE  Removes(RemoveAt(s, i), s, i)
<1> DEFINE a == SubSeq(s, 1, i - 1)
           b == SubSeq(s, i + 1, Len(s))
<1>1. i \in 1..Len(s) /\ Len(s) \in Nat OBVIOUS
<1>2. a \in Seq(Reply) /\ Len(a) = i - 1 /\ \A j \in 1..(i - 1) : a[j] = s[j]
  <2>1. \A j \in 1..(i - 1) : s[j] \in Reply BY <1>1
  <2> QED BY <1>1, <2>1, SubSeqProperties
<1>3. b \in Seq(Reply) /\ Len(b) = Len(s) - i /\ \A j \in 1..(Len(s) - i) : b[j] = s[i + j]
  <2>1. PICK m \in Int : m = i + 1 BY <1>1
  <2>2. \A j \in m..Len(s) : s[j] \in Reply BY <1>1, <2>1
  <2>3. /\ SubSeq(s, m, Len(s)) \in Seq(Reply)
        /\ Len(SubSeq(s, m, Len(s))) = IF m <= Len(s) THEN Len(s) - m + 1 ELSE 0
        /\ \A j \in 1..(Len(s) - m + 1) : SubSeq(s, m, Len(s))[j] = s[m + j - 1]
    <3>1. Len(s) \in Int BY <1>1
    <3> QED BY <3>1, <2>2, SubSeqProperties
  <2>4. b = SubSeq(s, m, Len(s)) /\ Len(s) - m + 1 = Len(s) - i
    BY <1>1, <2>1
  <2>5. \A j \in 1..(Len(s) - i) : m + j - 1 = i + j BY <1>1, <2>1
  <2>6. Len(b) = Len(s) - i BY <1>1, <2>1, <2>3, <2>4
  <2> HIDE DEF b
  <2>7. ASSUME NEW j \in 1..(Len(s) - i) PROVE b[j] = s[i + j]
    <3>1. b[j] = s[m + j - 1] BY <2>3, <2>4
    <3> QED BY <3>1, <2>5
  <2> QED BY <2>3, <2>4, <2>6, <2>7
<1>4. RemoveAt(s, i) = a \o b BY DEF RemoveAt
<1> HIDE DEF a, b
<1>5. /\ a \o b \in Seq(Reply) /\ Len(a \o b) = Len(s) - 1
      /\ \A j \in 1..(Len(s) - 1) : (a \o b)[j] = IF j <= i - 1 THEN a[j] ELSE b[j - (i - 1)]
  <2>1. /\ a \o b \in Seq(Reply) /\ Len(a \o b) = Len(a) + Len(b)
        /\ \A j \in 1..(Len(a) + Len(b)) :
              (a \o b)[j] = IF j <= Len(a) THEN a[j] ELSE b[j - Len(a)]
    BY <1>2, <1>3, ConcatProperties
  <2>2. Len(a) + Len(b) = Len(s) - 1 BY <1>1, <1>2, <1>3
  <2> QED BY <1>2, <2>1, <2>2
<1>6. ASSUME NEW j \in 1..(Len(s) - 1) PROVE (a \o b)[j] = s[Shift(i, j)]
  <2>1. CASE j <= i - 1
    <3>1. (a \o b)[j] = s[j] BY <1>1, <1>2, <1>5, <2>1
    <3> QED BY <3>1, <1>1, <2>1 DEF Shift
  <2>2. CASE ~(j <= i - 1)
    <3>1. (a \o b)[j] = b[j - (i - 1)] BY <1>5, <2>2
    <3>2. j - (i - 1) \in 1..(Len(s) - i) /\ i + (j - (i - 1)) = j + 1
      BY <1>1, <2>2
    <3>3. b[j - (i - 1)] = s[j + 1] BY <1>3, <3>2
    <3> QED BY <1>1, <2>2, <3>1, <3>3 DEF Shift
  <2> QED BY <2>1, <2>2
<1> QED BY <1>4, <1>5, <1>6 DEF Removes

-----------------------------------------------------------------------------
(* Types, runs and the timer *)

\* The oldest packet kept for retransmission and the next one to transmit.
Base  == First(m_sendingBuffer, produced)
Ahead == First(m_queue, produced)

\* The buffer and the queue end with the last packet produced, and nothing
\* under way is about a packet that does not exist.
Shape ==
    /\ Base \in 0..produced /\ Run(m_sendingBuffer, Base, produced)
    /\ Ahead \in 0..produced /\ Run(m_queue, Ahead, produced)
    /\ Below(data, produced)
    /\ expected <= produced
    /\ \A n \in DOMAIN replies : replies[n].seq <= produced

FlowInv == TypeOK /\ Shape /\ WaitingHasTimer

\* DequeueAndTransmit on a queue lo..hi-1 of a flow that is stopped or not.
Transmits(lo, hi, halted, milestone) ==
    /\ m_queue' \in Seq(Numbers) /\ data' \in Seq(Numbers)
    /\ {busy', stopped', m_waitingAck', m_retransmit'} \subseteq BOOLEAN
    /\ WaitingHasTimer'
    /\ m_milestone_tx' = milestone
    /\ \/ data' = data /\ Run(m_queue', lo, hi) /\ stopped' = halted
       \/ /\ lo < hi /\ lo \in Numbers /\ ~halted
          /\ data' = Append(data, lo) /\ Run(m_queue', lo + 1, hi)
          /\ stopped' = (m_waitAck /\ lo >= milestone - 1)

\* The transmitter's state s, of a flow whose timer runs just when it is stopped.
Tells(s, q, b, halted, milestone) ==
    /\ s.q = q /\ s.busy = b /\ s.stopped = halted /\ s.waiting = halted
    /\ s.timer = halted /\ s.milestone = milestone

LEMMA TellsSend ==
  ASSUME NEW q, WaitingHasTimer
  PROVE  Tells([Tx EXCEPT !.q = q], q, busy, stopped, m_milestone_tx)
BY DEF Tells, Tx, WaitingHasTimer

LEMMA TellsComplete ==
  ASSUME WaitingHasTimer
  PROVE  Tells([Tx EXCEPT !.busy = FALSE], m_queue, FALSE, stopped, m_milestone_tx)
BY DEF Tells, Tx, WaitingHasTimer

LEMMA TellsRecover ==
  ASSUME NEW b PROVE Tells(Release(RecoverQueue(Tx, b)), b, busy, FALSE, m_milestone_tx)
BY DEF Tells, Tx, Release, RecoverQueue

LEMMA TellsNextMessage ==
  Tells([Release(Tx) EXCEPT !.milestone = @ + m_chunk],
        m_queue, busy, FALSE, m_milestone_tx + m_chunk)
BY DEF Tells, Tx, Release

LEMMA Transmission ==
  ASSUME attr \in Modes, data \in Seq(Numbers),
         NEW q \in Seq(Numbers), NEW lo \in Nat, NEW hi \in Nat, Run(q, lo, hi),
         NEW b \in BOOLEAN, NEW halted \in BOOLEAN, NEW milestone \in Nat,
         NEW s, Tells(s, q, b, halted, milestone), DequeueAndTransmit(s)
  PROVE  Transmits(lo, hi, halted, milestone)
<1>1. /\ s.q = q /\ s.busy = b /\ s.stopped = halted /\ s.waiting = halted
      /\ s.timer = halted /\ s.milestone = milestone
  BY DEF Tells
<1>2. m_waitAck \in BOOLEAN BY ModeAssumption DEF m_waitAck
<1>3. DequeueAndTransmit(s) OBVIOUS
<1>4. CASE b \/ halted \/ q = <<>>
  <2>1. /\ m_queue' = q /\ busy' = b /\ stopped' = halted /\ m_waitingAck' = halted
        /\ m_retransmit' = halted /\ data' = data /\ m_milestone_tx' = milestone
    BY <1>1, <1>3, <1>4 DEF DequeueAndTransmit
  <2> QED BY <2>1 DEF Transmits, WaitingHasTimer
<1>5. CASE ~(b \/ halted \/ q = <<>>)
  <2> DEFINE last == m_waitAck /\ lo >= milestone - 1
  <2>1. Head(q) = lo /\ lo < hi /\ lo \in Numbers BY <1>5, RunHead
  <2>2. LastOfMessage(s, Head(q)) = last BY <1>1, <2>1 DEF LastOfMessage
  <2>3. last \in BOOLEAN BY <1>2
  <2> HIDE DEF last
  <2>4. /\ m_queue' = Tail(q) /\ busy' = TRUE /\ stopped' = last
        /\ m_waitingAck' = (halted \/ last) /\ m_retransmit' = (halted \/ (last /\ ~halted))
        /\ data' = Append(data, lo) /\ m_milestone_tx' = milestone
    BY <1>1, <1>3, <1>5, <2>1, <2>2 DEF DequeueAndTransmit
  <2>5. m_waitingAck' = last /\ m_retransmit' = last BY <1>5, <2>3, <2>4
  <2>6. m_queue' \in Seq(Numbers) /\ Run(m_queue', lo + 1, hi) BY <1>5, <2>4, RunTail
  <2>7. data' \in Seq(Numbers) BY <2>1, <2>4
  <2>8. WaitingHasTimer' BY <2>4, <2>5 DEF WaitingHasTimer
  <2>9. {busy', stopped', m_waitingAck', m_retransmit'} \subseteq BOOLEAN
    BY <2>3, <2>4, <2>5
  <2> QED BY <1>5, <2>1, <2>4, <2>6, <2>7, <2>8, <2>9 DEF Transmits, last
<1> QED BY <1>4, <1>5

LEMMA TransmissionShape ==
  ASSUME data \in Seq(Numbers), NEW lo \in Nat, NEW hi \in Nat, NEW halted, NEW milestone,
         Transmits(lo, hi, halted, milestone), produced' = hi, Below(data, hi)
  PROVE  /\ Ahead' \in 0..produced' /\ Run(m_queue', Ahead', produced')
         /\ Below(data', produced')
         /\ \/ data' = data /\ Ahead' = lo /\ stopped' = halted
            \/ /\ ~halted /\ data' = Append(data, lo) /\ lo \in Numbers /\ Ahead' = lo + 1
               /\ stopped' = (m_waitAck /\ lo >= milestone - 1)
<1>1. Ahead' = First(m_queue', hi) BY DEF Ahead
<1>2. m_queue' \in Seq(Numbers) BY DEF Transmits
<1>3. CASE data' = data /\ Run(m_queue', lo, hi) /\ stopped' = halted
  <2>1. First(m_queue', hi) = lo /\ lo <= hi BY <1>2, <1>3, RunFirst
  <2> QED BY <1>1, <1>3, <2>1
<1>4. CASE /\ lo < hi /\ lo \in Numbers /\ ~halted
           /\ data' = Append(data, lo) /\ Run(m_queue', lo + 1, hi)
           /\ stopped' = (m_waitAck /\ lo >= milestone - 1)
  <2>1. lo + 1 \in Nat OBVIOUS
  <2>2. First(m_queue', hi) = lo + 1 /\ lo + 1 <= hi BY <1>2, <1>4, <2>1, RunFirst
  <2>3. Below(data', hi) BY <1>4, BelowAppend
  <2> QED BY <1>1, <1>4, <2>1, <2>2, <2>3
<1> QED BY <1>3, <1>4 DEF Transmits

LEMMA BufferStart ==
  ASSUME NEW base \in Nat, NEW hi \in Nat, produced' = hi, m_sendingBuffer' \in Seq(Numbers),
         Run(m_sendingBuffer', base, hi)
  PROVE  /\ Base' = base /\ Base' \in 0..produced'
         /\ Run(m_sendingBuffer', Base', produced')
<1>1. Base' = First(m_sendingBuffer', hi) BY DEF Base
<1>2. First(m_sendingBuffer', hi) = base /\ base <= hi BY RunFirst
<1> QED BY <1>1, <1>2

\* The parts of the invariant about the runs, in the form the lemmas use.
LEMMA FlowFacts ==
  ASSUME FlowInv
  PROVE  /\ attr \in Modes /\ produced \in Nat /\ produced <= MaxSeq /\ MaxSeq \in Nat
         /\ m_sendingBuffer \in Seq(Numbers) /\ Len(m_sendingBuffer) <= BufferCap
         /\ m_queue \in Seq(Numbers) /\ data \in Seq(Numbers) /\ replies \in Seq(Reply)
         /\ busy \in BOOLEAN /\ stopped \in BOOLEAN /\ m_milestone_tx \in Nat
         /\ Base \in Nat /\ Base <= produced /\ Run(m_sendingBuffer, Base, produced)
         /\ Ahead \in Nat /\ Ahead <= produced /\ Run(m_queue, Ahead, produced)
         /\ Below(data, produced)
         /\ expected \in Nat /\ expected <= produced
         /\ m_chunk \in Nat /\ m_waitAck \in BOOLEAN
<1>1. MaxSeq \in Nat BY BoundAssumption
<1>2. attr \in Modes /\ m_chunk \in Nat /\ m_waitAck \in BOOLEAN
  BY ModeAssumption DEF FlowInv, TypeOK, m_chunk, m_waitAck
<1>3. /\ m_sendingBuffer \in Seq(Numbers) /\ Len(m_sendingBuffer) <= BufferCap
      /\ m_queue \in Seq(Numbers) /\ data \in Seq(Numbers) /\ replies \in Seq(Reply)
      /\ busy \in BOOLEAN /\ stopped \in BOOLEAN /\ m_milestone_tx \in Nat
      /\ produced \in 0..MaxSeq /\ expected \in 0..MaxSeq
  BY DEF FlowInv, TypeOK, Numbers, Reply
<1>4. Shape BY DEF FlowInv
<1> QED BY <1>1, <1>2, <1>3, <1>4 DEF Shape

\* A step of the transmitter, with what it may do to the buffer and the replies.
LEMMA TransmitterFlow ==
  ASSUME FlowInv, attr' = attr, UNCHANGED <<receiverVars, lossVars>>,
         NEW hi \in 0..MaxSeq, produced' = hi, produced <= hi,
         NEW base \in Nat, m_sendingBuffer' \in Seq(Numbers),
         Len(m_sendingBuffer') <= BufferCap, Run(m_sendingBuffer', base, hi),
         NEW lo \in Nat, NEW halted \in BOOLEAN, NEW milestone \in Nat,
         Transmits(lo, hi, halted, milestone),
         replies' \in Seq(Reply), \A n \in DOMAIN replies' : replies'[n].seq <= hi
  PROVE  FlowInv' /\ Base' = base
<1>1. hi \in Nat BY BoundAssumption
<1>2. /\ Base' = base /\ Base' \in 0..produced' /\ Run(m_sendingBuffer', Base', produced')
  BY <1>1, BufferStart
<1>3. Below(data, hi) /\ data \in Seq(Numbers) BY <1>1, FlowFacts, BelowMore
<1>4. /\ Ahead' \in 0..produced' /\ Run(m_queue', Ahead', produced') /\ Below(data', produced')
  BY <1>1, <1>3, TransmissionShape
<1>5. expected' <= produced' BY <1>1, FlowFacts DEF receiverVars
<1>6. Shape' BY <1>2, <1>4, <1>5 DEF Shape
<1>7. /\ m_queue' \in Seq(Numbers) /\ data' \in Seq(Numbers) /\ WaitingHasTimer'
      /\ {busy', stopped', m_waitingAck', m_retransmit'} \subseteq BOOLEAN
      /\ m_milestone_tx' = milestone
  BY DEF Transmits
<1>8. TypeOK
  BY DEF FlowInv
<1>9. TypeOK'
  BY <1>7, <1>8 DEF TypeOK, Numbers, Reply, receiverVars, lossVars
<1> QED BY <1>2, <1>6, <1>7, <1>9 DEF FlowInv

LEMMA SendFlow ==
  ASSUME FlowInv, Send
  PROVE  /\ FlowInv' /\ produced' = produced + 1
         /\ Transmits(Ahead, produced + 1, stopped, m_milestone_tx)
         /\ Len(m_sendingBuffer) < BufferCap => Base' = Base
<1> DEFINE b == m_sendingBuffer
           kept == IF Len(b) = BufferCap THEN Tail(b) ELSE b
           start == IF Len(b) = BufferCap THEN Base + 1 ELSE Base
           q == Append(m_queue, produced)
<1>1. /\ produced < MaxSeq /\ produced' = produced + 1 /\ m_sendingBuffer' = Append(kept, produced)
      /\ DequeueAndTransmit([Tx EXCEPT !.q = q])
      /\ UNCHANGED <<receiverVars, lossVars>> /\ attr' = attr /\ replies' = replies
  BY DEF Send, Tx
<1>2. kept \in Seq(Numbers) /\ Run(kept, start, produced) /\ start \in Nat
      /\ Len(kept) < BufferCap
  <2>1. Len(b) \in Nat /\ BufferCap \in Nat \ {0} /\ Len(b) <= BufferCap
    BY FlowFacts, BoundAssumption
  <2>2. CASE Len(b) = BufferCap
    <3>1. b # <<>> /\ b \in Seq(Numbers) BY <2>1, <2>2, FlowFacts
    <3>2. Tail(b) \in Seq(Numbers) /\ Run(Tail(b), Base + 1, produced)
      BY <3>1, FlowFacts, RunTail
    <3>3. Len(Tail(b)) < BufferCap BY <2>1, <2>2, <3>1
    <3> QED BY <2>2, <3>2, <3>3, FlowFacts
  <2>3. CASE Len(b) # BufferCap BY <2>1, <2>3, FlowFacts
  <2> QED BY <2>2, <2>3
<1> HIDE DEF kept, start
<1>3. /\ m_sendingBuffer' \in Seq(Numbers) /\ Run(m_sendingBuffer', start, produced + 1)
  BY <1>1, <1>2, FlowFacts, RunAppend
<1>4. Len(m_sendingBuffer') <= BufferCap
  <2>1. produced \in Numbers BY <1>1, FlowFacts DEF Numbers
  <2>2. Len(m_sendingBuffer') = Len(kept) + 1 /\ Len(kept) \in Nat BY <1>1, <1>2, <2>1
  <2> QED BY <1>2, <2>2, BoundAssumption
<1>5. q \in Seq(Numbers) /\ Run(q, Ahead, produced + 1) BY <1>1, FlowFacts, RunAppend
<1>6. PICK s : s = [Tx EXCEPT !.q = q] /\ Tells(s, q, busy, stopped, m_milestone_tx)
  BY TellsSend DEF FlowInv
<1> HIDE DEF q
<1>7. produced + 1 \in Nat /\ produced + 1 \in 0..MaxSeq /\ produced <= produced + 1
  BY <1>1, FlowFacts
<1>8. Transmits(Ahead, produced + 1, stopped, m_milestone_tx)
  <2>1. /\ attr \in Modes /\ data \in Seq(Numbers) /\ Ahead \in Nat /\ busy \in BOOLEAN
        /\ stopped \in BOOLEAN /\ m_milestone_tx \in Nat
    BY FlowFacts
  <2>2. DequeueAndTransmit(s) BY <1>1, <1>6
  <2> QED BY <1>5, <1>6, <1>7, <2>1, <2>2, Transmission
<1>9. replies' \in Seq(Reply) /\ \A n \in DOMAIN replies' : replies'[n].seq <= produced + 1
  <2>1. replies \in Seq(Reply) /\ produced \in Nat BY FlowFacts
  <2>2. ASSUME NEW n \in DOMAIN replies PROVE replies[n].seq <= produced + 1
    <3>1. replies[n] \in Reply BY <2>1
    <3>2. replies[n].seq \in 0..MaxSeq BY <3>1 DEF Reply
    <3>3. replies[n].seq <= produced BY DEF FlowInv, Shape
    <3> QED BY <2>1, <3>2, <3>3, FlowFacts
  <2> QED BY <1>1, <2>1, <2>2
<1>10. FlowInv' /\ Base' = start
  <2>1. Ahead \in Nat /\ stopped \in BOOLEAN /\ m_milestone_tx \in Nat BY FlowFacts
  <2> QED BY <1>1, <1>2, <1>3, <1>4, <1>7, <1>8, <1>9, <2>1, TransmitterFlow
<1>11. Len(m_sendingBuffer) < BufferCap => start = Base
  BY BoundAssumption, FlowFacts DEF start
<1> QED BY <1>1, <1>8, <1>10, <1>11

LEMMA CompleteFlow ==
  ASSUME FlowInv, TransmitComplete
  PROVE  /\ FlowInv' /\ Base' = Base
         /\ Transmits(Ahead, produced, stopped, m_milestone_tx)
<1>1. /\ DequeueAndTransmit([Tx EXCEPT !.busy = FALSE]) /\ attr' = attr
      /\ UNCHANGED <<receiverVars, lossVars>> /\ replies' = replies
      /\ produced' = produced /\ m_sendingBuffer' = m_sendingBuffer
  BY DEF TransmitComplete, senderVars
<1>2. PICK s : /\ s = [Tx EXCEPT !.busy = FALSE]
               /\ Tells(s, m_queue, FALSE, stopped, m_milestone_tx)
  BY TellsComplete DEF FlowInv
<1>3. Transmits(Ahead, produced, stopped, m_milestone_tx)
  <2>1. /\ attr \in Modes /\ data \in Seq(Numbers) /\ m_queue \in Seq(Numbers)
        /\ Ahead \in Nat /\ produced \in Nat /\ Run(m_queue, Ahead, produced)
        /\ FALSE \in BOOLEAN /\ stopped \in BOOLEAN /\ m_milestone_tx \in Nat
    BY FlowFacts
  <2>2. DequeueAndTransmit(s) BY <1>1, <1>2
  <2> QED BY <1>2, <2>1, <2>2, Transmission
<1>4. \A n \in DOMAIN replies : replies[n].seq <= produced BY DEF FlowInv, Shape
<1>5. produced \in 0..MaxSeq /\ produced <= produced BY FlowFacts
<1> QED BY <1>1, <1>3, <1>4, <1>5, FlowFacts, TransmitterFlow

LEMMA RetransmitFlow ==
  ASSUME FlowInv, Retransmit
  PROVE  /\ FlowInv' /\ Base' = Base
         /\ Transmits(Base, produced, FALSE, m_milestone_tx)
<1>1. /\ DequeueAndTransmit(Release(RecoverQueue(Tx, m_sendingBuffer))) /\ attr' = attr
      /\ UNCHANGED <<receiverVars, lossVars>> /\ replies' = replies
      /\ produced' = produced /\ m_sendingBuffer' = m_sendingBuffer
  BY DEF Retransmit, senderVars
<1>2. PICK s : /\ s = Release(RecoverQueue(Tx, m_sendingBuffer))
               /\ Tells(s, m_sendingBuffer, busy, FALSE, m_milestone_tx)
  BY TellsRecover
<1>3. Transmits(Base, produced, FALSE, m_milestone_tx)
  <2>1. /\ attr \in Modes /\ data \in Seq(Numbers) /\ m_sendingBuffer \in Seq(Numbers)
        /\ Base \in Nat /\ produced \in Nat /\ Run(m_sendingBuffer, Base, produced)
        /\ FALSE \in BOOLEAN /\ busy \in BOOLEAN /\ m_milestone_tx \in Nat
    BY FlowFacts
  <2>2. DequeueAndTransmit(s) BY <1>1, <1>2
  <2> QED BY <1>2, <2>1, <2>2, Transmission
<1>4. \A n \in DOMAIN replies : replies[n].seq <= produced BY DEF FlowInv, Shape
<1>5. produced \in 0..MaxSeq /\ produced <= produced BY FlowFacts
<1> QED BY <1>1, <1>3, <1>4, <1>5, FlowFacts, TransmitterFlow

\* The sender does not move.
SenderQuiet ==
    /\ attr' = attr /\ produced' = produced /\ m_sendingBuffer' = m_sendingBuffer
    /\ m_queue' = m_queue /\ busy' = busy /\ stopped' = stopped
    /\ m_waitingAck' = m_waitingAck /\ m_retransmit' = m_retransmit
    /\ m_milestone_tx' = m_milestone_tx

LEMMA QuietFlow ==
  ASSUME FlowInv, SenderQuiet, data' \in Seq(Numbers), Below(data', produced),
         replies' \in Seq(Reply), \A n \in DOMAIN replies' : replies'[n].seq <= produced,
         expected' \in Nat, expected' <= produced, m_milestone_rx' \in Nat,
         m_lastNACK' \in -1..MaxSeq, fault' \in BOOLEAN, losses' \in 0..MaxLoss,
         replyLosses' \in [{"ACK", "NACK"} -> Nat]
  PROVE  FlowInv' /\ Base' = Base /\ Ahead' = Ahead
<1>1. Base' = Base /\ Ahead' = Ahead BY DEF SenderQuiet, Base, Ahead
<1>2. TypeOK /\ Shape /\ WaitingHasTimer BY DEF FlowInv
<1>3. WaitingHasTimer' BY <1>2 DEF WaitingHasTimer, SenderQuiet
<1>4. Shape' BY <1>1, <1>2 DEF Shape, SenderQuiet
<1>5. expected' \in 0..MaxSeq
  <2>1. produced \in Nat /\ produced <= MaxSeq /\ MaxSeq \in Nat BY FlowFacts
  <2>2. expected' \in Nat /\ expected' <= produced OBVIOUS
  <2> QED BY <2>1, <2>2
<1>6. TypeOK' BY <1>2, <1>5 DEF TypeOK, SenderQuiet, Numbers, Reply
<1> QED BY <1>1, <1>3, <1>4, <1>6 DEF FlowInv

\* ReceiverCheckSeq of a packet with the expected number, of a later one that
\* is answered, and of any other.
Accepts ==
    /\ Head(data) = expected /\ expected' = expected + 1
    /\ replies' = replies \/ replies' = Append(replies, [kind |-> "ACK", seq |-> expected + 1])

Refuses ==
    /\ Head(data) > expected
    /\ expected' = expected \/ expected' = Round(attr, expected)
    /\ replies' = Append(replies, [kind |-> "NACK", seq |-> expected'])

Ignores == expected' = expected /\ replies' = replies

LEMMA ReceiverAnswers ==
  ASSUME FlowInv, Receive
  PROVE  /\ SenderQuiet /\ data # <<>> /\ data' = Tail(data)
         /\ Accepts \/ Refuses \/ Ignores
         /\ m_milestone_rx' \in Nat /\ m_lastNACK' \in -1..MaxSeq /\ fault' \in BOOLEAN
         /\ UNCHANGED lossVars
<1>1. /\ SenderQuiet /\ data # <<>> /\ data' = Tail(data) /\ UNCHANGED lossVars
  BY DEF Receive, SenderQuiet, senderVars
<1>2. /\ m_milestone_rx \in Nat /\ m_lastNACK \in -1..MaxSeq /\ fault \in BOOLEAN
      /\ m_ack_interval \in Nat /\ expected \in 0..MaxSeq
  BY ModeAssumption DEF FlowInv, TypeOK, m_ack_interval
<1>3. CASE Head(data) = expected /\ InOrder
  <2>1. expected' = expected + 1 /\ m_lastNACK' = m_lastNACK BY <1>3 DEF InOrder
  <2>2. /\ m_milestone_rx' \in Nat /\ fault' \in BOOLEAN
        /\ replies' = replies \/ replies' = Append(replies, [kind |-> "ACK", seq |-> expected + 1])
    <3>1. CASE /\ m_milestone_rx' = m_milestone_rx + m_ack_interval
               /\ replies' = Append(replies, [kind |-> "ACK", seq |-> expected + 1])
               /\ fault' = FALSE
      <4>1. fault' \in BOOLEAN BY <3>1
      <4>2. m_milestone_rx' \in Nat BY <1>2, <3>1
      <4> QED BY <3>1, <4>1, <4>2, Zenon
    <3>2. CASE /\ fault' = (m_chunk = 0)
               /\ replies' = IF m_chunk > 0 /\ (expected + 1) % m_chunk = 0
                               THEN Append(replies, [kind |-> "ACK", seq |-> expected + 1])
                               ELSE replies
               /\ m_milestone_rx' = m_milestone_rx
      <4>1. replies' = replies \/ replies' = Append(replies, [kind |-> "ACK", seq |-> expected + 1])
        BY <3>2, Zenon
      <4> QED BY <1>2, <3>2, <4>1
    <3> QED BY <1>3, <3>1, <3>2, Zenon DEF InOrder
  <2> QED BY <1>1, <1>2, <1>3, <2>1, <2>2 DEF Accepts
<1>4. CASE Head(data) > expected /\ \E elapsed \in BOOLEAN : OutOfOrder(elapsed)
  <2>1. PICK elapsed \in BOOLEAN : OutOfOrder(elapsed) BY <1>4
  <2>2. m_milestone_rx' \in Nat /\ fault' \in BOOLEAN BY <1>2, <2>1 DEF OutOfOrder
  <2>3. CASE elapsed \/ m_lastNACK # expected
    <3>1. /\ m_lastNACK' = expected /\ replies' = Append(replies, [kind |-> "NACK", seq |-> expected'])
          /\ expected' = expected \/ expected' = GoBack(expected)
      BY <2>1, <2>3 DEF OutOfOrder
    <3>2. m_lastNACK' \in -1..MaxSeq BY <1>2, <3>1, BoundAssumption
    <3> QED BY <1>1, <1>4, <2>2, <3>1, <3>2, GoBackRounds DEF Refuses
  <2>4. CASE ~(elapsed \/ m_lastNACK # expected)
    BY <1>1, <1>2, <2>1, <2>2, <2>4 DEF OutOfOrder, Ignores
  <2> QED BY <2>3, <2>4
<1>5. CASE Head(data) < expected /\ UNCHANGED <<receiverVars, replies>>
  BY <1>1, <1>2, <1>5 DEF receiverVars, Ignores
<1> QED BY <1>3, <1>4, <1>5 DEF Receive

\* Where the receiver stands, before and after.
LEMMA ReceiverMoves ==
  ASSUME FlowInv, data # <<>>, Accepts \/ Refuses
  PROVE  /\ expected < produced /\ expected' \in Nat /\ expected' <= produced
         /\ Head(data) \in Nat /\ expected <= Head(data) /\ Head(data) < produced
         /\ Accepts => expected' = expected + 1
         /\ Refuses => expected' <= expected /\ Round(attr, expected') = Round(attr, expected)
<1>1. /\ Head(data) \in Nat /\ Head(data) < produced
  <2>1. Head(data) \in Numbers /\ Head(data) < produced BY FlowFacts, BelowTail
  <2> QED BY <2>1, BoundAssumption DEF Numbers
<1>2. expected \in Nat /\ attr \in Modes /\ produced \in Nat BY FlowFacts
<1>3. /\ Round(attr, expected) \in Nat /\ Round(attr, expected) <= expected
      /\ Round(attr, Round(attr, expected)) = Round(attr, expected)
  BY <1>2, RoundType, RoundTwice
<1>4. CASE Accepts BY <1>1, <1>2, <1>4 DEF Accepts, Refuses
<1>5. CASE Refuses BY <1>1, <1>2, <1>3, <1>5 DEF Accepts, Refuses
<1> QED BY <1>4, <1>5

\* Appending a reply.
LEMMA ReplyAppend ==
  ASSUME NEW s \in Seq(Reply), NEW r \in Reply, NEW t, t = Append(s, r)
  PROVE  /\ t \in Seq(Reply) /\ Len(t) = Len(s) + 1
         /\ \A n \in DOMAIN t : (n \in DOMAIN s /\ t[n] = s[n]) \/ (n = Len(t) /\ t[n] = r)
OBVIOUS

LEMMA ReceiveFlow ==
  ASSUME FlowInv, Receive
  PROVE  FlowInv' /\ Base' = Base /\ Ahead' = Ahead
<1>1. /\ SenderQuiet /\ data # <<>> /\ data' = Tail(data) /\ (Accepts \/ Refuses \/ Ignores)
      /\ m_milestone_rx' \in Nat /\ m_lastNACK' \in -1..MaxSeq /\ fault' \in BOOLEAN
      /\ UNCHANGED lossVars
  BY ReceiverAnswers
<1>2. data' \in Seq(Numbers) /\ Below(data', produced) BY <1>1, FlowFacts, BelowTail
<1>3. losses' \in 0..MaxLoss /\ replyLosses' \in [{"ACK", "NACK"} -> Nat]
  BY <1>1 DEF FlowInv, TypeOK, lossVars
<1>4. replies \in Seq(Reply) /\ \A n \in DOMAIN replies : replies[n].seq <= produced
  BY FlowFacts DEF FlowInv, Shape
<1>5. CASE Ignores
  <2>1. expected' \in Nat /\ expected' <= produced BY <1>5, FlowFacts DEF Ignores
  <2>2. replies' \in Seq(Reply) /\ \A n \in DOMAIN replies' : replies'[n].seq <= produced
    BY <1>4, <1>5 DEF Ignores
  <2> QED BY <1>1, <1>2, <1>3, <2>1, <2>2, QuietFlow
<1>6. CASE Accepts \/ Refuses
  <2>1. expected' \in Nat /\ expected' <= produced /\ produced \in Nat /\ produced <= MaxSeq
        /\ MaxSeq \in Nat
    BY <1>1, <1>6, ReceiverMoves, FlowFacts
  <2>2. \/ replies' = replies
        \/ \E r \in Reply : replies' = Append(replies, r) /\ r.seq = expected'
    <3>1. expected' \in 0..MaxSeq BY <2>1
    <3>2. /\ [kind |-> "ACK", seq |-> expected'] \in Reply
          /\ [kind |-> "NACK", seq |-> expected'] \in Reply
      BY <3>1 DEF Reply
    <3> QED BY <1>6, <3>2 DEF Accepts, Refuses
  <2>3. replies' \in Seq(Reply) /\ \A n \in DOMAIN replies' : replies'[n].seq <= produced
    <3>1. CASE replies' = replies BY <1>4, <3>1
    <3>2. CASE \E r \in Reply : replies' = Append(replies, r) /\ r.seq = expected'
      <4>1. PICK r \in Reply : replies' = Append(replies, r) /\ r.seq = expected' BY <3>2
      <4> QED BY <1>4, <2>1, <4>1, ReplyAppend
    <3> QED BY <2>2, <3>1, <3>2
  <2> QED BY <1>1, <1>2, <1>3, <2>1, <2>3, QuietFlow
<1> QED BY <1>1, <1>5, <1>6

LEMMA LoseFlow ==
  ASSUME FlowInv, Lose
  PROVE  /\ FlowInv' /\ Base' = Base /\ Ahead' = Ahead /\ SenderQuiet
         /\ data # <<>> /\ data' = Tail(data) /\ expected' = expected /\ replies' = replies
<1>1. /\ SenderQuiet /\ data # <<>> /\ data' = Tail(data) /\ expected' = expected
      /\ replies' = replies /\ losses < MaxLoss /\ losses' = losses + 1
      /\ UNCHANGED <<m_milestone_rx, m_lastNACK, fault, replyLosses>>
  BY DEF Lose, SenderQuiet, senderVars, receiverVars
<1>2. data' \in Seq(Numbers) /\ Below(data', produced) BY <1>1, FlowFacts, BelowTail
<1>3. /\ m_milestone_rx' \in Nat /\ m_lastNACK' \in -1..MaxSeq /\ fault' \in BOOLEAN
      /\ losses' \in 0..MaxLoss /\ replyLosses' \in [{"ACK", "NACK"} -> Nat]
  BY <1>1, BoundAssumption DEF FlowInv, TypeOK
<1>4. replies' \in Seq(Reply) /\ \A n \in DOMAIN replies' : replies'[n].seq <= produced
  BY <1>1, FlowFacts DEF FlowInv, Shape
<1>5. expected' \in Nat /\ expected' <= produced BY <1>1, FlowFacts
<1> QED BY <1>1, <1>2, <1>3, <1>4, <1>5, QuietFlow

\* A reply leaves: what is left is about packets that exist.
LEMMA ReplyLeaves ==
  ASSUME FlowInv, NEW n \in DOMAIN replies, replies' = RemoveAt(replies, n)
  PROVE  /\ Removes(replies', replies, n) /\ replies' \in Seq(Reply)
         /\ \A k \in DOMAIN replies' : replies'[k].seq <= produced
<1>1. replies \in Seq(Reply) BY FlowFacts
<1>2. Removes(replies', replies, n) BY <1>1, RemoveAtRemoves
<1>3. \A k \in DOMAIN replies' : Shift(n, k) \in DOMAIN replies /\ replies'[k] = replies[Shift(n, k)]
  BY <1>1, <1>2, ShiftProperties
<1>4. \A k \in DOMAIN replies : replies[k].seq <= produced BY DEF FlowInv, Shape
<1>5. replies' \in Seq(Reply) BY <1>2 DEF Removes
<1> QED BY <1>2, <1>3, <1>4, <1>5

LEMMA LoseReplyFlow ==
  ASSUME FlowInv, NEW n \in DOMAIN replies, LoseReply(n)
  PROVE  /\ FlowInv' /\ Base' = Base /\ Ahead' = Ahead /\ SenderQuiet
         /\ data' = data /\ expected' = expected /\ Removes(replies', replies, n)
<1>1. /\ SenderQuiet /\ data' = data /\ expected' = expected
      /\ replies' = RemoveAt(replies, n) /\ losses' = losses
      /\ replyLosses' = [replyLosses EXCEPT ![replies[n].kind] = @ + 1]
      /\ UNCHANGED <<m_milestone_rx, m_lastNACK, fault>>
  BY DEF LoseReply, SenderQuiet, senderVars, txVars, receiverVars
<1>2. data' \in Seq(Numbers) /\ Below(data', produced) BY <1>1, FlowFacts
<1>3. /\ m_milestone_rx' \in Nat /\ m_lastNACK' \in -1..MaxSeq /\ fault' \in BOOLEAN
      /\ losses' \in 0..MaxLoss
  BY <1>1 DEF FlowInv, TypeOK
<1>4. replyLosses' \in [{"ACK", "NACK"} -> Nat]
  <2>1. replies[n] \in Reply BY FlowFacts
  <2>2. replies[n].kind \in {"ACK", "NACK"} BY <2>1 DEF Reply
  <2>3. replyLosses \in [{"ACK", "NACK"} -> Nat] BY DEF FlowInv, TypeOK
  <2> QED BY <1>1, <2>2, <2>3
<1>5. /\ Removes(replies', replies, n) /\ replies' \in Seq(Reply)
      /\ \A k \in DOMAIN replies' : replies'[k].seq <= produced
  BY <1>1, ReplyLeaves
<1>6. expected' \in Nat /\ expected' <= produced BY <1>1, FlowFacts
<1> QED BY <1>1, <1>2, <1>3, <1>4, <1>5, <1>6, QuietFlow

\* A transmitter left alone, possibly with another queue, counts as a step of it.
LEMMA Untransmitted ==
  ASSUME FlowInv, NEW q \in Seq(Numbers), NEW lo, NEW hi, Run(q, lo, hi), m_queue' = q,
         UNCHANGED <<busy, stopped, m_waitingAck, m_retransmit, m_milestone_tx, data>>
  PROVE  Transmits(lo, hi, stopped, m_milestone_tx)
<1>1. {busy', stopped', m_waitingAck', m_retransmit'} \subseteq BOOLEAN
  BY DEF FlowInv, TypeOK
<1>2. WaitingHasTimer' BY DEF FlowInv, WaitingHasTimer
<1>3. data' \in Seq(Numbers) BY FlowFacts
<1> QED BY <1>1, <1>2, <1>3 DEF Transmits

\* The buffer after the packets before the start of seq's message are dropped.
LEMMA TrimRun ==
  ASSUME FlowInv, NEW seq \in Nat, seq <= produced
  PROVE  /\ Trim(seq) \in Seq(Numbers) /\ Len(Trim(seq)) <= BufferCap
         /\ Later(Base, Round(attr, seq)) \in Nat
         /\ Run(Trim(seq), Later(Base, Round(attr, seq)), produced)
<1>1. attr \in Modes /\ produced \in Nat /\ Base \in Nat BY FlowFacts
<1>2. Round(attr, seq) \in Nat /\ Round(attr, seq) <= seq BY <1>1, RoundType
<1>3. Round(attr, seq) <= produced BY <1>1, <1>2
<1>4. Trim(seq) = DropBefore(Round(attr, seq)) BY GoBackRounds DEF Trim
<1>5. /\ m_sendingBuffer \in Seq(Numbers) /\ Run(m_sendingBuffer, Base, produced)
      /\ Len(m_sendingBuffer) <= BufferCap
  BY FlowFacts
<1>6. /\ DropBefore(Round(attr, seq)) \in Seq(Numbers)
      /\ Run(DropBefore(Round(attr, seq)), Later(Base, Round(attr, seq)), produced)
      /\ Len(DropBefore(Round(attr, seq))) <= Len(m_sendingBuffer)
  BY <1>1, <1>2, <1>3, <1>5, DropBeforeRun
<1>7. Later(Base, Round(attr, seq)) \in Nat BY <1>1, <1>2 DEF Later
<1>8. Len(Trim(seq)) <= BufferCap
  <2>1. /\ Len(DropBefore(Round(attr, seq))) \in Nat /\ Len(m_sendingBuffer) \in Nat
        /\ BufferCap \in Nat
    BY <1>5, <1>6, BoundAssumption
  <2> QED BY <1>4, <1>5, <1>6, <2>1
<1> QED BY <1>4, <1>6, <1>7, <1>8

LEMMA ReplySeq ==
  ASSUME FlowInv, NEW n \in DOMAIN replies
  PROVE  /\ replies[n].seq \in Nat /\ replies[n].seq <= produced
         /\ replies[n].kind \in {"ACK", "NACK"}
<1>1. replies[n] \in Reply BY FlowFacts
<1>2. replies[n].seq <= produced BY DEF FlowInv, Shape
<1> QED BY <1>1, <1>2, BoundAssumption DEF Reply

LEMMA NackFlow ==
  ASSUME FlowInv, NEW n \in DOMAIN replies, ReceiveNACK(n), ReceiveReply(n)
  PROVE  /\ FlowInv' /\ Base' = Later(Base, Round(attr, replies[n].seq))
         /\ \/ Transmits(Base', produced, FALSE, m_milestone_tx)
            \/ Transmits(Base', produced, stopped, m_milestone_tx)
<1> DEFINE base == Later(Base, Round(attr, replies[n].seq))
           b == m_sendingBuffer'
<1>1. /\ attr' = attr /\ UNCHANGED <<receiverVars, lossVars>> /\ produced' = produced
      /\ replies' = RemoveAt(replies, n)
  BY DEF ReceiveReply
<1>2. b = Trim(replies[n].seq) BY DEF ReceiveNACK
<1>3. b \in Seq(Numbers) /\ Len(b) <= BufferCap /\ base \in Nat /\ Run(b, base, produced)
  BY <1>2, ReplySeq, TrimRun
<1> HIDE DEF base
<1>4. /\ attr \in Modes /\ data \in Seq(Numbers) /\ produced \in Nat /\ FALSE \in BOOLEAN
      /\ busy \in BOOLEAN /\ stopped \in BOOLEAN /\ m_milestone_tx \in Nat
      /\ produced \in 0..MaxSeq /\ produced <= produced
  BY FlowFacts
<1>5. /\ replies' \in Seq(Reply) /\ \A k \in DOMAIN replies' : replies'[k].seq <= produced
  BY <1>1, ReplyLeaves
<1>6. CASE m_waitAck /\ m_waitingAck
  <2>1. PICK s : s = Release(RecoverQueue(Tx, b)) /\ Tells(s, b, busy, FALSE, m_milestone_tx)
    BY TellsRecover
  <2>2. DequeueAndTransmit(s) BY <1>6, <2>1 DEF ReceiveNACK
  <2>3. Transmits(base, produced, FALSE, m_milestone_tx)
    BY <1>3, <1>4, <2>1, <2>2, Transmission
  <2>4. FlowInv' /\ Base' = base
    BY <1>1, <1>3, <1>4, <1>5, <2>3, TransmitterFlow
  <2> QED BY <2>3, <2>4 DEF base
<1>7. CASE ~(m_waitAck /\ m_waitingAck)
  <2>1. /\ m_queue' = RecoverQueue(Tx, b).q
        /\ UNCHANGED <<busy, stopped, m_waitingAck, m_retransmit, m_milestone_tx, data>>
    BY <1>7 DEF ReceiveNACK
  <2>2. m_queue' = b BY <2>1 DEF RecoverQueue, Tx
  <2>3. Transmits(base, produced, stopped, m_milestone_tx)
    BY <1>3, <2>1, <2>2, Untransmitted
  <2>4. FlowInv' /\ Base' = base
    BY <1>1, <1>3, <1>4, <1>5, <2>3, TransmitterFlow
  <2> QED BY <2>3, <2>4 DEF base
<1> QED BY <1>6, <1>7

LEMMA AckFlow ==
  ASSUME FlowInv, NEW n \in DOMAIN replies, ReceiveACK(n), ReceiveReply(n)
  PROVE  /\ FlowInv' /\ (Base' = Base \/ Base' = Later(Base, Round(attr, replies[n].seq)))
         /\ \/ /\ m_waitAck /\ replies[n].seq >= m_milestone_tx
               /\ Transmits(Ahead, produced, FALSE, m_milestone_tx + m_chunk)
            \/ /\ ~(m_waitAck /\ replies[n].seq >= m_milestone_tx)
               /\ Transmits(Ahead, produced, stopped, m_milestone_tx)
<1> DEFINE base == IF m_ack_interval = 0 THEN Base ELSE Later(Base, Round(attr, replies[n].seq))
           b == m_sendingBuffer'
<1>1. /\ attr' = attr /\ UNCHANGED <<receiverVars, lossVars>> /\ produced' = produced
      /\ replies' = RemoveAt(replies, n)
  BY DEF ReceiveReply
<1>2. b = IF m_ack_interval = 0 THEN m_sendingBuffer ELSE Trim(replies[n].seq)
  BY DEF ReceiveACK
<1>3. b \in Seq(Numbers) /\ Len(b) <= BufferCap /\ base \in Nat /\ Run(b, base, produced)
  <2>1. CASE m_ack_interval = 0 BY <1>2, <2>1, FlowFacts
  <2>2. CASE m_ack_interval # 0 BY <1>2, <2>2, ReplySeq, TrimRun
  <2> QED BY <2>1, <2>2
<1>0. base = Base \/ base = Later(Base, Round(attr, replies[n].seq)) OBVIOUS
<1> HIDE DEF base
<1>4. /\ attr \in Modes /\ data \in Seq(Numbers) /\ produced \in Nat /\ FALSE \in BOOLEAN
      /\ busy \in BOOLEAN /\ stopped \in BOOLEAN /\ m_milestone_tx \in Nat
      /\ produced \in 0..MaxSeq /\ produced <= produced
      /\ m_queue \in Seq(Numbers) /\ Ahead \in Nat /\ Run(m_queue, Ahead, produced)
      /\ m_milestone_tx + m_chunk \in Nat
  BY FlowFacts
<1>5. /\ replies' \in Seq(Reply) /\ \A k \in DOMAIN replies' : replies'[k].seq <= produced
  BY <1>1, ReplyLeaves
<1>6. CASE m_waitAck /\ replies[n].seq >= m_milestone_tx
  <2>1. PICK s : /\ s = [Release(Tx) EXCEPT !.milestone = @ + m_chunk]
                 /\ Tells(s, m_queue, busy, FALSE, m_milestone_tx + m_chunk)
    BY TellsNextMessage
  <2>2. DequeueAndTransmit(s) BY <1>6, <2>1 DEF ReceiveACK
  <2>3. Transmits(Ahead, produced, FALSE, m_milestone_tx + m_chunk)
    BY <1>4, <2>1, <2>2, Transmission
  <2>4. FlowInv' /\ Base' = base
    BY <1>1, <1>3, <1>4, <1>5, <2>3, TransmitterFlow
  <2> QED BY <1>6, <1>0, <2>3, <2>4
<1>7. CASE ~(m_waitAck /\ replies[n].seq >= m_milestone_tx)
  <2>1. /\ m_queue' = m_queue
        /\ UNCHANGED <<busy, stopped, m_waitingAck, m_retransmit, m_milestone_tx, data>>
    BY <1>7 DEF ReceiveACK, txVars
  <2>2. Transmits(Ahead, produced, stopped, m_milestone_tx)
    BY <1>4, <2>1, Untransmitted
  <2>3. FlowInv' /\ Base' = base
    BY <1>1, <1>3, <1>4, <1>5, <2>2, TransmitterFlow
  <2> QED BY <1>7, <1>0, <2>2, <2>3
<1> QED BY <1>6, <1>7

LEMMA FlowInit == Init => FlowInv
<1> SUFFICES ASSUME Init PROVE FlowInv OBVIOUS
<1>1. /\ attr \in Modes /\ m_chunk \in Nat /\ m_ack_interval \in Nat
  BY ModeAssumption DEF Init, m_chunk, m_ack_interval
<1>2. TypeOK
  <2>1. /\ m_sendingBuffer = <<>> /\ m_queue = <<>> /\ data = <<>> /\ replies = <<>>
        /\ produced = 0 /\ expected = 0 /\ losses = 0 /\ m_lastNACK = -1
        /\ m_milestone_tx = m_chunk /\ m_milestone_rx = m_ack_interval
    BY DEF Init
  <2>2. {busy, stopped, m_waitingAck, m_retransmit, fault} \subseteq BOOLEAN BY DEF Init
  <2>3. replyLosses \in [{"ACK", "NACK"} -> Nat] BY DEF Init
  <2>4. /\ 0 \in 0..MaxSeq /\ 0 \in 0..MaxLoss /\ -1 \in -1..MaxSeq /\ 0 <= BufferCap
    BY BoundAssumption
  <2>5. Len(m_sendingBuffer) = 0 BY <2>1
  <2> QED BY <1>1, <2>1, <2>2, <2>3, <2>4, <2>5 DEF TypeOK
<1>3. <<>> \in Seq(Numbers) /\ Run(<<>>, 0, 0) /\ Below(<<>>, 0) BY DEF Run, Below
<1>4. /\ m_sendingBuffer = <<>> /\ m_queue = <<>> /\ data = <<>> /\ replies = <<>>
      /\ produced = 0 /\ expected = 0 /\ WaitingHasTimer
  BY DEF Init, WaitingHasTimer
<1>5. Base = 0 /\ Ahead = 0 BY <1>4 DEF Base, Ahead, First
<1>6. Shape BY <1>3, <1>4, <1>5 DEF Shape
<1> QED BY <1>2, <1>4, <1>6 DEF FlowInv

LEMMA FlowNext == FlowInv /\ [Next]_vars => FlowInv'
<1> SUFFICES ASSUME FlowInv, [Next]_vars PROVE FlowInv' OBVIOUS
<1>1. CASE Send BY <1>1, SendFlow
<1>2. CASE TransmitComplete BY <1>2, CompleteFlow
<1>3. CASE Retransmit BY <1>3, RetransmitFlow
<1>4. CASE Receive BY <1>4, ReceiveFlow
<1>5. CASE Lose BY <1>5, LoseFlow
<1>6. CASE \E n \in Arrivable : ReceiveReply(n) \/ LoseReply(n)
  <2>1. PICK n \in DOMAIN replies : ReceiveReply(n) \/ LoseReply(n) BY <1>6 DEF Arrivable
  <2>2. CASE ReceiveReply(n)
    <3>1. ReceiveNACK(n) \/ ReceiveACK(n) BY <2>2 DEF ReceiveReply
    <3> QED BY <2>2, <3>1, NackFlow, AckFlow
  <2> QED BY <2>1, <2>2, LoseReplyFlow
<1>7. CASE UNCHANGED vars
  <2>1. /\ SenderQuiet /\ data' = data /\ replies' = replies
        /\ UNCHANGED <<expected, m_milestone_rx, m_lastNACK, fault, losses, replyLosses>>
    BY <1>7 DEF vars, SenderQuiet, senderVars, txVars, receiverVars, lossVars
  <2>2. /\ m_milestone_rx' \in Nat /\ m_lastNACK' \in -1..MaxSeq /\ fault' \in BOOLEAN
        /\ losses' \in 0..MaxLoss /\ replyLosses' \in [{"ACK", "NACK"} -> Nat]
    BY <2>1 DEF FlowInv, TypeOK
  <2>3. /\ data' \in Seq(Numbers) /\ Below(data', produced)
        /\ expected' \in Nat /\ expected' <= produced
    BY <2>1, FlowFacts
  <2>4. replies' \in Seq(Reply) /\ \A n \in DOMAIN replies' : replies'[n].seq <= produced
    BY <2>1, FlowFacts DEF FlowInv, Shape
  <2> QED BY <2>1, <2>2, <2>3, <2>4, QuietFlow
<1> QED BY <1>1, <1>2, <1>3, <1>4, <1>5, <1>6, <1>7 DEF Next

LEMMA FlowInductive == Spec => []FlowInv
BY FlowInit, FlowNext, PTL DEF Spec

-----------------------------------------------------------------------------
(* What the sending buffer covers *)

\* Send never finds the sending buffer full.
BufferHasRoom == produced < MaxSeq => Len(m_sendingBuffer) < BufferCap

(***************************************************************************)
(* The buffer starts no later than the point the receiver goes back to,    *)
(* the replies under way ask for later and later points, and a NACK that   *)
(* may overtake ACKs still finds its packet in the buffer.                 *)
(***************************************************************************)
Kept ==
    /\ Base <= Round(attr, expected)
    /\ \A n \in DOMAIN replies : Round(attr, replies[n].seq) <= Round(attr, expected)
    /\ \A j \in DOMAIN replies : \A k \in DOMAIN replies :
         j <= k => Round(attr, replies[j].seq) <= Round(attr, replies[k].seq)
    /\ \A n \in DOMAIN replies : replies[n].kind = "NACK" =>
         Base <= Round(attr, replies[n].seq) /\ replies[n].seq < produced
    /\ replies # <<>> => Base < produced
    /\ \A n \in DOMAIN replies : n < Len(replies) => Round(attr, replies[n].seq) < produced

LEMMA ReplyPoints ==
  ASSUME FlowInv, NEW n \in DOMAIN replies
  PROVE  /\ Round(attr, replies[n].seq) \in Nat
         /\ Round(attr, replies[n].seq) <= replies[n].seq
BY FlowFacts, ReplySeq, RoundType

\* Steps of the transmitter.
LEMMA KeptSame ==
  ASSUME FlowInv, Kept, Base' = Base, attr' = attr, expected' = expected, replies' = replies,
         produced' \in Nat, produced <= produced'
  PROVE  Kept'
<1>1. produced \in Nat /\ Base \in Nat BY FlowFacts
<1>2. \A n \in DOMAIN replies : /\ replies[n].seq \in Nat
                                /\ Round(attr, replies[n].seq) \in Nat
  BY ReplySeq, ReplyPoints
<1> QED BY <1>1, <1>2 DEF Kept

LEMMA KeptReceive ==
  ASSUME FlowInv, Kept, SenderQuiet, Base' = Base, data # <<>>, Accepts \/ Refuses \/ Ignores
  PROVE  Kept'
<1>1. attr' = attr /\ produced' = produced BY DEF SenderQuiet
<1>2. /\ produced \in Nat /\ Base \in Nat /\ expected \in Nat /\ replies \in Seq(Reply)
      /\ attr \in Modes /\ MaxSeq \in Nat /\ produced <= MaxSeq
  BY FlowFacts
<1>3. CASE Ignores
  <2>1. produced <= produced' /\ produced' \in Nat BY <1>1, <1>2
  <2> QED BY <1>1, <1>3, <2>1, KeptSame DEF Ignores
<1>4. CASE Accepts \/ Refuses
  <2>1. /\ expected < produced /\ expected' \in Nat /\ expected' <= produced
        /\ Accepts => expected' = expected + 1
        /\ Refuses => expected' <= expected /\ Round(attr, expected') = Round(attr, expected)
    BY <1>4, ReceiverMoves
  <2>2. /\ Round(attr, expected) \in Nat /\ Round(attr, expected) <= expected
        /\ Round(attr, expected') \in Nat /\ Round(attr, expected') <= expected'
    BY <1>2, <2>1, RoundType
  <2>3. Round(attr, expected) <= Round(attr, expected')
    <3>1. CASE Accepts BY <1>2, <2>1, <3>1, RoundMonotone
    <3>2. CASE Refuses BY <2>1, <2>2, <3>2
    <3> QED BY <1>4, <3>1, <3>2
  <2>4. Base <= Round(attr, expected) /\ Base < produced BY <1>2, <2>1, <2>2 DEF Kept
  <2>5. Base <= Round(attr, expected') BY <1>2, <2>2, <2>3, <2>4
  <2>6. ASSUME NEW n \in DOMAIN replies
        PROVE  /\ Round(attr, replies[n].seq) \in Nat
               /\ Round(attr, replies[n].seq) <= Round(attr, expected')
               /\ Round(attr, replies[n].seq) < produced
    <3>1. Round(attr, replies[n].seq) \in Nat BY ReplyPoints
    <3>2. Round(attr, replies[n].seq) <= Round(attr, expected) BY DEF Kept
    <3> QED BY <1>2, <2>1, <2>2, <2>3, <3>1, <3>2
  <2>7. CASE replies' = replies
    <3>1. /\ \A n \in DOMAIN replies' : Round(attr, replies'[n].seq) <= Round(attr, expected')
          /\ \A n \in DOMAIN replies' : Round(attr, replies'[n].seq) < produced
      BY <2>6, <2>7
    <3> QED BY <1>1, <2>4, <2>5, <2>7, <3>1 DEF Kept
  <2>8. CASE \E r \in Reply : /\ replies' = Append(replies, r) /\ r.seq = expected'
                              /\ r.kind = "NACK" => Refuses
    <3>1. PICK r \in Reply : /\ replies' = Append(replies, r) /\ r.seq = expected'
                             /\ r.kind = "NACK" => Refuses
      BY <2>8
    <3>2. /\ replies' \in Seq(Reply) /\ Len(replies') = Len(replies) + 1
          /\ \A n \in DOMAIN replies' : \/ n \in DOMAIN replies /\ replies'[n] = replies[n]
                                        \/ n = Len(replies') /\ replies'[n] = r
      BY <1>2, <3>1, ReplyAppend
    <3>3. /\ DOMAIN replies = 1..Len(replies) /\ DOMAIN replies' = 1..Len(replies')
          /\ Len(replies) \in Nat
      BY <1>2, <3>2
    <3>4. \A n \in DOMAIN replies' : Round(attr, replies'[n].seq) <= Round(attr, expected')
      <4> SUFFICES ASSUME NEW n \in DOMAIN replies'
                   PROVE  Round(attr, replies'[n].seq) <= Round(attr, expected')
        OBVIOUS
      <4>1. CASE n \in DOMAIN replies /\ replies'[n] = replies[n] BY <2>6, <4>1
      <4>2. CASE n = Len(replies') /\ replies'[n] = r BY <2>2, <3>1, <4>2
      <4> QED BY <3>2, <4>1, <4>2
    <3>5. \A j \in DOMAIN replies' : \A k \in DOMAIN replies' :
            j <= k => Round(attr, replies'[j].seq) <= Round(attr, replies'[k].seq)
      <4> SUFFICES ASSUME NEW j \in DOMAIN replies', NEW k \in DOMAIN replies', j <= k
                   PROVE  Round(attr, replies'[j].seq) <= Round(attr, replies'[k].seq)
        OBVIOUS
      <4>1. CASE k \in DOMAIN replies /\ replies'[k] = replies[k]
        <5>1. j \in DOMAIN replies /\ j # Len(replies') BY <3>2, <3>3, <4>1
        <5>2. replies'[j] = replies[j] BY <3>2, <5>1
        <5> QED BY <4>1, <5>1, <5>2 DEF Kept
      <4>2. CASE k = Len(replies') /\ replies'[k] = r BY <3>1, <3>4, <4>2
      <4> QED BY <3>2, <4>1, <4>2
    <3>6. \A n \in DOMAIN replies' : replies'[n].kind = "NACK" =>
            Base <= Round(attr, replies'[n].seq) /\ replies'[n].seq < produced
      <4> SUFFICES ASSUME NEW n \in DOMAIN replies', replies'[n].kind = "NACK"
                   PROVE  Base <= Round(attr, replies'[n].seq) /\ replies'[n].seq < produced
        OBVIOUS
      <4>1. CASE n \in DOMAIN replies /\ replies'[n] = replies[n] BY <4>1 DEF Kept
      <4>2. CASE n = Len(replies') /\ replies'[n] = r
        <5>1. Refuses BY <3>1, <4>2
        <5> QED BY <1>2, <2>1, <2>5, <3>1, <4>2, <5>1
      <4> QED BY <3>2, <4>1, <4>2
    <3>7. \A n \in DOMAIN replies' : n < Len(replies') => Round(attr, replies'[n].seq) < produced
      BY <2>6, <3>2, <3>3
    <3> QED BY <1>1, <2>4, <2>5, <3>4, <3>5, <3>6, <3>7 DEF Kept
  <2>9. expected' \in 0..MaxSeq BY <1>2, <2>1
  <2>10. CASE Accepts
    <3>1. CASE replies' = replies BY <2>7, <3>1
    <3>2. CASE replies' = Append(replies, [kind |-> "ACK", seq |-> expected + 1])
      <4> DEFINE r == [kind |-> "ACK", seq |-> expected']
      <4>1. r \in Reply /\ r.seq = expected' /\ r.kind # "NACK" BY <2>9 DEF Reply
      <4>2. replies' = Append(replies, r) BY <2>1, <2>10, <3>2
      <4> QED BY <2>8, <4>1, <4>2
    <3> QED BY <2>10, <3>1, <3>2 DEF Accepts
  <2>11. CASE Refuses
    <3> DEFINE r == [kind |-> "NACK", seq |-> expected']
    <3>1. r \in Reply /\ r.seq = expected' BY <2>9 DEF Reply
    <3>2. replies' = Append(replies, r) BY <2>11 DEF Refuses
    <3> QED BY <2>8, <2>11, <3>1, <3>2
  <2> QED BY <1>4, <2>10, <2>11
<1> QED BY <1>3, <1>4

\* A reply is lost, or applied to the buffer.
LEMMA KeptRemoves ==
  ASSUME FlowInv, Kept, NEW n \in Arrivable, Removes(replies', replies, n), attr' = attr,
         produced' = produced, expected' = expected,
         Base' = Base \/ Base' = Later(Base, Round(attr, replies[n].seq))
  PROVE  Kept'
<1>1. n \in DOMAIN replies /\ replies \in Seq(Reply) BY FlowFacts DEF Arrivable
<1>2. /\ \A k \in DOMAIN replies' : /\ Shift(n, k) \in DOMAIN replies /\ Shift(n, k) # n
                                    /\ replies'[k] = replies[Shift(n, k)]
      /\ \A k \in DOMAIN replies' : k < Len(replies') => Shift(n, k) < Len(replies)
      /\ \A j \in DOMAIN replies' : \A k \in DOMAIN replies' :
           j <= k => Shift(n, j) <= Shift(n, k)
  BY <1>1, ShiftProperties
<1>3. Len(replies') = Len(replies) - 1 /\ replies' \in Seq(Reply) BY DEF Removes
<1>4. /\ produced \in Nat /\ Base \in Nat /\ expected \in Nat BY FlowFacts
<1>5. /\ Round(attr, replies[n].seq) \in Nat /\ Round(attr, replies[n].seq) <= replies[n].seq
      /\ replies[n].seq \in Nat /\ replies[n].kind \in {"ACK", "NACK"}
  BY <1>1, ReplyPoints, ReplySeq
<1>6. Base' <= Round(attr, expected)
  <2>1. /\ Base <= Round(attr, expected) /\ Round(attr, replies[n].seq) <= Round(attr, expected)
    BY <1>1 DEF Kept
  <2> QED BY <2>1 DEF Later
<1>7. ASSUME NEW k \in DOMAIN replies, k # n, replies[k].kind = "NACK"
      PROVE  Base' <= Round(attr, replies[k].seq)
  <2>1. n <= k
    <3>1. k \in 1..Len(replies) /\ n \in 1..Len(replies) /\ Len(replies) \in Nat BY <1>1
    <3>2. CASE n = 1 BY <3>1, <3>2
    <3>3. CASE \A m \in 1..(n - 1) : replies[m].kind = "ACK" BY <1>7, <3>1, <3>3
    <3> QED BY <3>2, <3>3 DEF Arrivable
  <2>2. /\ Round(attr, replies[n].seq) <= Round(attr, replies[k].seq)
        /\ Base <= Round(attr, replies[k].seq)
    BY <1>1, <1>7, <2>1 DEF Kept
  <2> QED BY <2>2 DEF Later
<1>8. replies' # <<>> => Base' < produced
  <2> SUFFICES ASSUME replies' # <<>> PROVE Base' < produced OBVIOUS
  <2>1. Len(replies) \in Nat /\ Len(replies) >= 2 /\ replies # <<>> BY <1>1, <1>3
  <2>2. Base < produced BY <2>1 DEF Kept
  <2>3. Round(attr, replies[n].seq) < produced
    <3>1. CASE replies[n].kind = "NACK" BY <1>1, <1>4, <1>5, <3>1 DEF Kept
    <3>2. CASE n = 1 BY <1>1, <2>1, <3>2 DEF Kept
    <3> QED BY <3>1, <3>2 DEF Arrivable
  <2> QED BY <2>2, <2>3 DEF Later
<1>9. \A k \in DOMAIN replies' : Round(attr, replies'[k].seq) <= Round(attr, expected)
  BY <1>2 DEF Kept
<1>10. \A j \in DOMAIN replies' : \A k \in DOMAIN replies' :
         j <= k => Round(attr, replies'[j].seq) <= Round(attr, replies'[k].seq)
  <2> SUFFICES ASSUME NEW j \in DOMAIN replies', NEW k \in DOMAIN replies', j <= k
               PROVE  Round(attr, replies'[j].seq) <= Round(attr, replies'[k].seq)
    OBVIOUS
  <2>1. /\ Shift(n, j) \in DOMAIN replies /\ Shift(n, k) \in DOMAIN replies
        /\ Shift(n, j) <= Shift(n, k)
        /\ replies'[j] = replies[Shift(n, j)] /\ replies'[k] = replies[Shift(n, k)]
    BY <1>2
  <2> QED BY <2>1 DEF Kept
<1>11. \A k \in DOMAIN replies' : replies'[k].kind = "NACK" =>
         Base' <= Round(attr, replies'[k].seq) /\ replies'[k].seq < produced
  <2> SUFFICES ASSUME NEW k \in DOMAIN replies', replies'[k].kind = "NACK"
               PROVE  Base' <= Round(attr, replies'[k].seq) /\ replies'[k].seq < produced
    OBVIOUS
  <2>1. /\ Shift(n, k) \in DOMAIN replies /\ Shift(n, k) # n
        /\ replies'[k] = replies[Shift(n, k)]
    BY <1>2
  <2>2. replies[Shift(n, k)].kind = "NACK" BY <2>1
  <2>3. Base' <= Round(attr, replies[Shift(n, k)].seq) BY <1>7, <2>1, <2>2
  <2>4. replies[Shift(n, k)].seq < produced BY <2>1, <2>2 DEF Kept
  <2> QED BY <2>1, <2>3, <2>4
<1>12. \A k \in DOMAIN replies' : k < Len(replies') => Round(attr, replies'[k].seq) < produced
  BY <1>2 DEF Kept
<1> QED BY <1>6, <1>8, <1>9, <1>10, <1>11, <1>12 DEF Kept

LEMMA KeptInit == Init => Kept
<1> SUFFICES ASSUME Init PROVE Kept OBVIOUS
<1>1. m_sendingBuffer = <<>> /\ replies = <<>> /\ produced = 0 /\ expected = 0 /\ attr \in Modes
  BY DEF Init
<1>2. Base = 0 BY <1>1 DEF Base, First
<1>3. Round(attr, expected) = 0 BY <1>1, RoundZero
<1> QED BY <1>1, <1>2, <1>3 DEF Kept

LEMMA KeptNext == FlowInv /\ Kept /\ BufferHasRoom /\ [Next]_vars => Kept'
<1> SUFFICES ASSUME FlowInv, Kept, BufferHasRoom, [Next]_vars PROVE Kept' OBVIOUS
<1>0. produced \in Nat BY FlowFacts
<1>1. CASE Send
  <2>1. /\ attr' = attr /\ expected' = expected /\ replies' = replies /\ produced < MaxSeq
        /\ produced' = produced + 1
    BY <1>1 DEF Send, receiverVars
  <2>2. Base' = Base BY <1>1, <2>1, SendFlow DEF BufferHasRoom
  <2>3. produced' \in Nat /\ produced <= produced' BY <1>0, <2>1
  <2> QED BY <2>1, <2>2, <2>3, KeptSame
<1>2. CASE TransmitComplete \/ Retransmit
  <2>1. /\ attr' = attr /\ expected' = expected /\ replies' = replies /\ produced' = produced
    BY <1>2 DEF TransmitComplete, Retransmit, receiverVars, senderVars
  <2>2. Base' = Base BY <1>2, CompleteFlow, RetransmitFlow
  <2>3. produced' \in Nat /\ produced <= produced' BY <1>0, <2>1
  <2> QED BY <2>1, <2>2, <2>3, KeptSame
<1>3. CASE Receive BY <1>3, ReceiverAnswers, ReceiveFlow, KeptReceive
<1>4. CASE Lose
  <2>1. SenderQuiet /\ Base' = Base /\ expected' = expected /\ replies' = replies
    BY <1>4, LoseFlow
  <2>2. produced' \in Nat /\ produced <= produced' /\ attr' = attr
    BY <1>0, <2>1 DEF SenderQuiet
  <2> QED BY <2>1, <2>2, KeptSame
<1>5. CASE \E n \in Arrivable : ReceiveReply(n) \/ LoseReply(n)
  <2>1. PICK n \in Arrivable : ReceiveReply(n) \/ LoseReply(n) BY <1>5
  <2>2. n \in DOMAIN replies BY DEF Arrivable
  <2>3. CASE ReceiveReply(n)
    <3>1. /\ attr' = attr /\ produced' = produced /\ expected' = expected
          /\ replies' = RemoveAt(replies, n) /\ (ReceiveNACK(n) \/ ReceiveACK(n))
      BY <2>3 DEF ReceiveReply, receiverVars
    <3>2. Base' = Base \/ Base' = Later(Base, Round(attr, replies[n].seq))
      BY <2>2, <2>3, <3>1, NackFlow, AckFlow
    <3>3. Removes(replies', replies, n) BY <2>2, <3>1, ReplyLeaves
    <3> QED BY <3>1, <3>2, <3>3, KeptRemoves
  <2>4. CASE LoseReply(n)
    <3>1. SenderQuiet /\ Base' = Base /\ expected' = expected /\ Removes(replies', replies, n)
      BY <2>2, <2>4, LoseReplyFlow
    <3> QED BY <3>1, KeptRemoves DEF SenderQuiet
  <2> QED BY <2>1, <2>3, <2>4
<1>6. CASE UNCHANGED vars
  <2>1. /\ Base' = Base /\ attr' = attr /\ expected' = expected /\ replies' = replies
        /\ produced' = produced
    BY <1>6 DEF vars, senderVars, receiverVars, Base
  <2>2. produced' \in Nat /\ produced <= produced' BY <1>0, <2>1
  <2> QED BY <2>1, <2>2, KeptSame
<1> QED BY <1>1, <1>2, <1>3, <1>4, <1>5, <1>6 DEF Next

LEMMA KeptInductive == Spec /\ []BufferHasRoom => [](FlowInv /\ Kept)
BY FlowInit, FlowNext, KeptInit, KeptNext, PTL DEF Spec

-----------------------------------------------------------------------------
(* Waiting for each message *)

\* m_milestone_tx is the end of the message under way: everything before it has
\* been received, and nothing at or beyond it has been transmitted.
Message ==
    m_waitAck =>
      /\ Round(attr, m_milestone_tx) = m_milestone_tx
      /\ m_milestone_tx - m_chunk <= Round(attr, expected)
      /\ Base < m_milestone_tx /\ Ahead <= m_milestone_tx
      /\ stopped \/ Ahead < m_milestone_tx
      /\ expected <= m_milestone_tx
      /\ Below(data, m_milestone_tx)
      /\ \A n \in DOMAIN replies :
           /\ replies[n].seq <= m_milestone_tx
           /\ replies[n].kind = "NACK" => replies[n].seq < m_milestone_tx

\* What a transmission does within a message that ends at milestone.
LEMMA MessageTransmission ==
  ASSUME FlowInv, m_waitAck, NEW hi \in Nat, produced' = hi, produced <= hi,
         NEW lo \in Nat, NEW halted \in BOOLEAN, NEW milestone \in Nat,
         Transmits(lo, hi, halted, milestone),
         lo <= milestone, halted \/ lo < milestone, Below(data, milestone)
  PROVE  /\ m_milestone_tx' = milestone /\ Ahead' <= milestone
         /\ stopped' \/ Ahead' < milestone
         /\ Below(data', milestone)
<1>1. data \in Seq(Numbers) /\ Below(data, produced) /\ produced \in Nat BY FlowFacts
<1>2. Below(data, hi) BY <1>1, BelowMore
<1>3. \/ data' = data /\ Ahead' = lo /\ stopped' = halted
      \/ /\ ~halted /\ data' = Append(data, lo) /\ lo \in Numbers /\ Ahead' = lo + 1
         /\ stopped' = (m_waitAck /\ lo >= milestone - 1)
  BY <1>1, <1>2, TransmissionShape
<1>4. m_milestone_tx' = milestone BY DEF Transmits
<1>5. CASE data' = data /\ Ahead' = lo /\ stopped' = halted BY <1>4, <1>5
<1>6. CASE /\ ~halted /\ data' = Append(data, lo) /\ lo \in Numbers /\ Ahead' = lo + 1
           /\ stopped' = (m_waitAck /\ lo >= milestone - 1)
  <2>1. lo < milestone BY <1>6
  <2>2. Below(data', milestone) BY <1>1, <1>6, <2>1, BelowAppend
  <2>3. stopped' \/ lo + 1 < milestone
    <3>1. CASE lo >= milestone - 1 BY <1>6, <3>1, Zenon
    <3>2. CASE ~(lo >= milestone - 1) BY <3>2
    <3> QED BY <3>1, <3>2
  <2> QED BY <1>4, <1>6, <2>1, <2>2, <2>3
<1> QED BY <1>3, <1>5, <1>6

\* A step that stays within the message.
LEMMA MessageSame ==
  ASSUME FlowInv, Message, m_waitAck, attr' = attr, expected' = expected,
         NEW hi \in Nat, produced' = hi, produced <= hi,
         NEW lo \in Nat, NEW halted \in BOOLEAN, Transmits(lo, hi, halted, m_milestone_tx),
         lo <= m_milestone_tx, halted \/ lo < m_milestone_tx, Base' < m_milestone_tx,
         \A n \in DOMAIN replies' :
            /\ replies'[n].seq <= m_milestone_tx
            /\ replies'[n].kind = "NACK" => replies'[n].seq < m_milestone_tx
  PROVE  Message'
<1>1. /\ Below(data, m_milestone_tx) /\ Round(attr, m_milestone_tx) = m_milestone_tx
      /\ m_milestone_tx - m_chunk <= Round(attr, expected) /\ expected <= m_milestone_tx
  BY DEF Message
<1>2. m_milestone_tx \in Nat BY FlowFacts
<1>3. /\ m_milestone_tx' = m_milestone_tx /\ Ahead' <= m_milestone_tx
      /\ (stopped' \/ Ahead' < m_milestone_tx) /\ Below(data', m_milestone_tx)
  BY <1>1, <1>2, MessageTransmission
<1>4. m_chunk' = m_chunk BY DEF m_chunk
<1> QED BY <1>1, <1>3, <1>4 DEF Message

LEMMA MessageReceive ==
  ASSUME FlowInv, Message, m_waitAck, SenderQuiet, Base' = Base, Ahead' = Ahead,
         data # <<>>, data' = Tail(data), Accepts \/ Refuses \/ Ignores
  PROVE  Message'
<1>1. /\ Below(data, m_milestone_tx) /\ Round(attr, m_milestone_tx) = m_milestone_tx
      /\ m_milestone_tx - m_chunk <= Round(attr, expected) /\ expected <= m_milestone_tx
      /\ Base < m_milestone_tx /\ Ahead <= m_milestone_tx
      /\ (stopped \/ Ahead < m_milestone_tx)
      /\ \A n \in DOMAIN replies :
           /\ replies[n].seq <= m_milestone_tx
           /\ replies[n].kind = "NACK" => replies[n].seq < m_milestone_tx
  BY DEF Message
<1>2. /\ data \in Seq(Numbers) /\ m_milestone_tx \in Nat /\ expected \in Nat
      /\ attr \in Modes /\ m_chunk \in Nat /\ replies \in Seq(Reply)
      /\ produced \in Nat /\ produced <= MaxSeq /\ MaxSeq \in Nat
  BY FlowFacts
<1>3. Below(data', m_milestone_tx) /\ Head(data) < m_milestone_tx BY <1>1, <1>2, BelowTail
<1>4. /\ attr' = attr /\ m_milestone_tx' = m_milestone_tx /\ stopped' = stopped
      /\ m_chunk' = m_chunk
  BY DEF SenderQuiet, m_chunk
<1>5. CASE Ignores BY <1>1, <1>3, <1>4, <1>5 DEF Message, Ignores
<1>6. CASE Accepts \/ Refuses
  <2>1. /\ expected' \in Nat /\ expected' <= produced
        /\ Head(data) \in Nat /\ expected <= Head(data)
        /\ Accepts => expected' = expected + 1
        /\ Refuses => expected' <= expected /\ Round(attr, expected') = Round(attr, expected)
    BY <1>6, ReceiverMoves
  <2>2. Round(attr, expected) \in Nat /\ Round(attr, expected') \in Nat
    BY <1>2, <2>1, RoundType
  <2>3. Round(attr, expected) <= Round(attr, expected')
    <3>1. CASE Accepts BY <1>2, <2>1, <3>1, RoundMonotone
    <3>2. CASE Refuses BY <2>1, <2>2, <3>2
    <3> QED BY <1>6, <3>1, <3>2
  <2>4. m_milestone_tx - m_chunk <= Round(attr, expected') BY <1>1, <1>2, <2>2, <2>3
  <2>5. expected' <= m_milestone_tx /\ (Refuses => expected' < m_milestone_tx)
    BY <1>2, <1>3, <1>6, <2>1
  <2>6. expected' \in 0..MaxSeq BY <1>2, <2>1
  <2>7. \/ replies' = replies
        \/ \E r \in Reply : /\ replies' = Append(replies, r) /\ r.seq = expected'
                            /\ r.kind = "NACK" => Refuses
    <3>1. CASE Accepts
      <4> DEFINE r == [kind |-> "ACK", seq |-> expected']
      <4>1. r \in Reply /\ r.seq = expected' /\ r.kind # "NACK" BY <2>6 DEF Reply
      <4>2. replies' = replies \/ replies' = Append(replies, r) BY <2>1, <3>1 DEF Accepts
      <4> QED BY <4>1, <4>2
    <3>2. CASE Refuses
      <4> DEFINE r == [kind |-> "NACK", seq |-> expected']
      <4>1. r \in Reply /\ r.seq = expected' BY <2>6 DEF Reply
      <4>2. replies' = Append(replies, r) BY <3>2 DEF Refuses
      <4> QED BY <3>2, <4>1, <4>2
    <3> QED BY <1>6, <3>1, <3>2
  <2>8. \A n \in DOMAIN replies' :
          /\ replies'[n].seq <= m_milestone_tx
          /\ replies'[n].kind = "NACK" => replies'[n].seq < m_milestone_tx
    <3>1. CASE replies' = replies BY <1>1, <3>1
    <3>2. CASE \E r \in Reply : /\ replies' = Append(replies, r) /\ r.seq = expected'
                                /\ r.kind = "NACK" => Refuses
      <4>1. PICK r \in Reply : /\ replies' = Append(replies, r) /\ r.seq = expected'
                               /\ r.kind = "NACK" => Refuses
        BY <3>2
      <4>2. \A n \in DOMAIN replies' : \/ n \in DOMAIN replies /\ replies'[n] = replies[n]
                                       \/ n = Len(replies') /\ replies'[n] = r
        BY <1>2, <4>1, ReplyAppend
      <4> QED BY <1>1, <2>5, <4>1, <4>2
    <3> QED BY <2>7, <3>1, <3>2
  <2> QED BY <1>1, <1>3, <1>4, <2>4, <2>5, <2>8 DEF Message
<1> QED BY <1>5, <1>6

\* What is left of the replies is still about the message.
LEMMA MessageRemoves ==
  ASSUME FlowInv, Message, m_waitAck, NEW n \in DOMAIN replies, Removes(replies', replies, n)
  PROVE  \A k \in DOMAIN replies' :
           /\ replies'[k].seq \in Nat /\ replies'[k].seq <= m_milestone_tx
           /\ replies'[k].kind = "NACK" => replies'[k].seq < m_milestone_tx
<1>1. \A k \in DOMAIN replies' : Shift(n, k) \in DOMAIN replies /\ replies'[k] = replies[Shift(n, k)]
  BY FlowFacts, ShiftProperties
<1>2. \A k \in DOMAIN replies :
        /\ replies[k].seq \in Nat /\ replies[k].seq <= m_milestone_tx
        /\ replies[k].kind = "NACK" => replies[k].seq < m_milestone_tx
  BY ReplySeq DEF Message
<1> QED BY <1>1, <1>2

LEMMA MessageNack ==
  ASSUME FlowInv, Message, m_waitAck, NEW n \in DOMAIN replies, ReceiveNACK(n), ReceiveReply(n)
  PROVE  Message'
<1>1. /\ attr' = attr /\ produced' = produced /\ expected' = expected
      /\ replies' = RemoveAt(replies, n)
  BY DEF ReceiveReply, receiverVars
<1>2. \A k \in DOMAIN replies' :
        /\ replies'[k].seq <= m_milestone_tx
        /\ replies'[k].kind = "NACK" => replies'[k].seq < m_milestone_tx
  BY <1>1, ReplyLeaves, MessageRemoves
<1>3. /\ produced \in Nat /\ Base \in Nat /\ m_milestone_tx \in Nat /\ stopped \in BOOLEAN
  BY FlowFacts
<1>4. /\ Round(attr, replies[n].seq) \in Nat /\ Round(attr, replies[n].seq) <= replies[n].seq
      /\ replies[n].seq \in Nat
  BY ReplyPoints, ReplySeq
<1>5. Base < m_milestone_tx /\ replies[n].seq < m_milestone_tx BY DEF Message, ReceiveNACK
<1>6. /\ Base' = Later(Base, Round(attr, replies[n].seq))
      /\ \/ Transmits(Base', produced, FALSE, m_milestone_tx)
         \/ Transmits(Base', produced, stopped, m_milestone_tx)
  BY NackFlow
<1>7. Base' \in Nat /\ Base' < m_milestone_tx /\ Base' <= m_milestone_tx
  BY <1>3, <1>4, <1>5, <1>6 DEF Later
<1>8. PICK halted \in BOOLEAN : Transmits(Base', produced, halted, m_milestone_tx)
  BY <1>3, <1>6
<1>9. produced <= produced BY <1>3
<1> QED BY <1>1, <1>2, <1>3, <1>7, <1>8, <1>9, MessageSame

LEMMA MessageAck ==
  ASSUME FlowInv, Kept, Message, m_waitAck, NEW n \in DOMAIN replies,
         ReceiveACK(n), ReceiveReply(n)
  PROVE  Message'
<1>1. /\ attr' = attr /\ produced' = produced /\ expected' = expected
      /\ replies' = RemoveAt(replies, n)
  BY DEF ReceiveReply, receiverVars
<1>2. \A k \in DOMAIN replies' :
        /\ replies'[k].seq \in Nat /\ replies'[k].seq <= m_milestone_tx
        /\ replies'[k].kind = "NACK" => replies'[k].seq < m_milestone_tx
  BY <1>1, ReplyLeaves, MessageRemoves
<1>3. /\ produced \in Nat /\ Base \in Nat /\ m_milestone_tx \in Nat /\ stopped \in BOOLEAN
      /\ Ahead \in Nat /\ data \in Seq(Numbers) /\ attr \in Modes /\ expected \in Nat
      /\ produced <= produced /\ FALSE \in BOOLEAN
  BY FlowFacts
<1>4. /\ Round(attr, replies[n].seq) \in Nat /\ Round(attr, replies[n].seq) <= replies[n].seq
      /\ replies[n].seq \in Nat
  BY ReplyPoints, ReplySeq
<1>5. /\ Base < m_milestone_tx /\ Ahead <= m_milestone_tx
      /\ (stopped \/ Ahead < m_milestone_tx) /\ replies[n].seq <= m_milestone_tx
      /\ Below(data, m_milestone_tx) /\ expected <= m_milestone_tx
      /\ Round(attr, m_milestone_tx) = m_milestone_tx
  BY DEF Message
<1>6. Base' = Base \/ Base' = Later(Base, Round(attr, replies[n].seq)) BY AckFlow
<1>7. CASE replies[n].seq >= m_milestone_tx
  <2> DEFINE milestone == m_milestone_tx + m_chunk
  <2>1. Transmits(Ahead, produced, FALSE, milestone) BY <1>7, AckFlow
  <2>2. m_chunk \in Nat \ {0} BY <1>3, ModeAssumption DEF m_chunk, m_waitAck
  <2>3. replies[n].seq = m_milestone_tx BY <1>3, <1>4, <1>5, <1>7
  <2>4. Round(attr, milestone) = milestone
    <3>1. Round(attr, m_milestone_tx + attr.L2ChunkSize) = m_milestone_tx + attr.L2ChunkSize
      BY <1>3, <1>5, RoundNext
    <3> QED BY <3>1 DEF m_chunk
  <2>5. milestone - m_chunk <= Round(attr, expected)
    <3>1. Round(attr, replies[n].seq) <= Round(attr, expected) BY DEF Kept
    <3>2. m_milestone_tx <= Round(attr, expected) BY <1>5, <2>3, <3>1
    <3>3. milestone - m_chunk = m_milestone_tx BY <1>3, <2>2
    <3> QED BY <3>2, <3>3
  <2>6. /\ milestone \in Nat /\ m_milestone_tx < milestone /\ m_milestone_tx <= milestone
    BY <1>3, <2>2
  <2> HIDE DEF milestone
  <2>7. Base' < milestone BY <1>3, <1>4, <1>5, <1>6, <2>3, <2>6 DEF Later
  <2>8. Below(data, milestone) /\ Ahead < milestone /\ Ahead <= milestone
    BY <1>3, <1>5, <2>6, BelowMore
  <2>9. /\ m_milestone_tx' = milestone /\ Ahead' <= milestone
        /\ (stopped' \/ Ahead' < milestone) /\ Below(data', milestone)
    BY <1>1, <1>3, <2>1, <2>6, <2>8, MessageTransmission
  <2>10. expected' <= milestone BY <1>1, <1>3, <1>5, <2>6
  <2>11. \A k \in DOMAIN replies' :
           /\ replies'[k].seq <= milestone
           /\ replies'[k].kind = "NACK" => replies'[k].seq < milestone
    BY <1>2, <1>3, <2>6
  <2>12. m_chunk' = m_chunk BY <1>1 DEF m_chunk
  <2> QED BY <1>1, <2>4, <2>5, <2>7, <2>9, <2>10, <2>11, <2>12 DEF Message
<1>8. CASE ~(replies[n].seq >= m_milestone_tx)
  <2>1. Transmits(Ahead, produced, stopped, m_milestone_tx) BY <1>8, AckFlow
  <2>2. Base' < m_milestone_tx BY <1>3, <1>4, <1>5, <1>6, <1>8 DEF Later
  <2> QED BY <1>1, <1>2, <1>3, <1>5, <2>1, <2>2, MessageSame
<1> QED BY <1>7, <1>8

LEMMA MessageInit == Init => Message
<1> SUFFICES ASSUME Init, m_waitAck PROVE Message BY DEF Message
<1>1. /\ m_sendingBuffer = <<>> /\ m_queue = <<>> /\ data = <<>> /\ replies = <<>>
      /\ produced = 0 /\ expected = 0 /\ attr \in Modes /\ m_milestone_tx = m_chunk
  BY DEF Init
<1>2. Base = 0 /\ Ahead = 0 BY <1>1 DEF Base, Ahead, First
<1>3. m_chunk \in Nat \ {0} BY <1>1, ModeAssumption DEF m_chunk, m_waitAck
<1>4. Round(attr, expected) = 0 /\ Round(attr, m_chunk) = m_chunk
  BY <1>1, RoundZero, RoundChunk DEF m_chunk
<1>5. Below(data, m_milestone_tx) BY <1>1 DEF Below
<1> QED BY <1>1, <1>2, <1>3, <1>4, <1>5 DEF Message

LEMMA MessageNext == FlowInv /\ Kept /\ Message /\ BufferHasRoom /\ [Next]_vars => Message'
<1> SUFFICES ASSUME FlowInv, Kept, Message, BufferHasRoom, [Next]_vars, m_waitAck'
             PROVE  Message'
  BY DEF Message
<1>0. /\ produced \in Nat /\ Base \in Nat /\ Ahead \in Nat /\ stopped \in BOOLEAN
      /\ FALSE \in BOOLEAN /\ produced <= produced /\ m_milestone_tx \in Nat
  BY FlowFacts
<1>1. attr' = attr
  BY DEF Next, Send, TransmitComplete, Retransmit, Receive, Lose, ReceiveReply, LoseReply, vars
<1>2. m_waitAck BY <1>1 DEF m_waitAck
<1>3. /\ Base < m_milestone_tx /\ Ahead <= m_milestone_tx /\ Base <= m_milestone_tx
      /\ (stopped \/ Ahead < m_milestone_tx)
      /\ \A n \in DOMAIN replies :
           /\ replies[n].seq <= m_milestone_tx
           /\ replies[n].kind = "NACK" => replies[n].seq < m_milestone_tx
  BY <1>0, <1>2 DEF Message
<1>4. CASE Send
  <2>1. expected' = expected /\ replies' = replies /\ produced < MaxSeq
    BY <1>4 DEF Send, receiverVars
  <2>2. /\ Base' = Base /\ produced' = produced + 1
        /\ Transmits(Ahead, produced + 1, stopped, m_milestone_tx)
    BY <1>4, <2>1, SendFlow DEF BufferHasRoom
  <2>3. produced + 1 \in Nat /\ produced <= produced + 1 BY <1>0
  <2> QED BY <1>0, <1>1, <1>2, <1>3, <2>1, <2>2, <2>3, MessageSame
<1>5. CASE TransmitComplete
  <2>1. expected' = expected /\ replies' = replies /\ produced' = produced
    BY <1>5 DEF TransmitComplete, receiverVars, senderVars
  <2>2. Base' = Base /\ Transmits(Ahead, produced, stopped, m_milestone_tx)
    BY <1>5, CompleteFlow
  <2> QED BY <1>0, <1>1, <1>2, <1>3, <2>1, <2>2, MessageSame
<1>6. CASE Retransmit
  <2>1. expected' = expected /\ replies' = replies /\ produced' = produced
    BY <1>6 DEF Retransmit, receiverVars, senderVars
  <2>2. Base' = Base /\ Transmits(Base, produced, FALSE, m_milestone_tx)
    BY <1>6, RetransmitFlow
  <2> QED BY <1>0, <1>1, <1>2, <1>3, <2>1, <2>2, MessageSame
<1>7. CASE Receive BY <1>2, <1>7, ReceiverAnswers, ReceiveFlow, MessageReceive
<1>8. CASE Lose
  <2>1. /\ SenderQuiet /\ Base' = Base /\ Ahead' = Ahead /\ data # <<>> /\ data' = Tail(data)
        /\ Ignores
    BY <1>8, LoseFlow DEF Ignores
  <2> QED BY <1>2, <2>1, MessageReceive
<1>9. CASE \E n \in Arrivable : ReceiveReply(n) \/ LoseReply(n)
  <2>1. PICK n \in DOMAIN replies : ReceiveReply(n) \/ LoseReply(n) BY <1>9 DEF Arrivable
  <2>2. CASE ReceiveReply(n)
    <3>1. ReceiveNACK(n) \/ ReceiveACK(n) BY <2>2 DEF ReceiveReply
    <3> QED BY <1>2, <2>2, <3>1, MessageNack, MessageAck
  <2>3. CASE LoseReply(n)
    <3>1. /\ SenderQuiet /\ Base' = Base /\ Ahead' = Ahead /\ data' = data
          /\ expected' = expected /\ Removes(replies', replies, n)
      BY <2>3, LoseReplyFlow
    <3>2. \A k \in DOMAIN replies' :
            /\ replies'[k].seq <= m_milestone_tx
            /\ replies'[k].kind = "NACK" => replies'[k].seq < m_milestone_tx
      BY <1>2, <3>1, MessageRemoves
    <3> QED BY <1>2, <3>1, <3>2 DEF Message, SenderQuiet, m_chunk
  <2> QED BY <2>1, <2>2, <2>3
<1>10. CASE UNCHANGED vars
  BY <1>10 DEF vars, senderVars, txVars, receiverVars, Message, Base, Ahead, m_chunk, m_waitAck
<1> QED BY <1>4, <1>5, <1>6, <1>7, <1>8, <1>9, <1>10 DEF Next

LEMMA MessageInductive == Spec /\ []BufferHasRoom => []Message
BY FlowInit, FlowNext, KeptInit, KeptNext, MessageInit, MessageNext, PTL DEF Spec

-----------------------------------------------------------------------------
(* Theorems *)

\* Buffers, queues, replies and counters keep their types, and the sending
\* buffer its capacity.
THEOREM TypeCorrect == Spec => []TypeOK
<1>1. FlowInv => TypeOK BY DEF FlowInv
<1> QED BY <1>1, FlowInductive, PTL

\* A flow that waits for an ACK always has its Retransmit event pending, and a
\* flow that does not wait has none.
THEOREM WaitersHaveTimers == Spec => []WaitingHasTimer
<1>1. FlowInv => WaitingHasTimer BY DEF FlowInv
<1> QED BY <1>1, FlowInductive, PTL

\* While the application sends no more packets than the buffer holds, Send never
\* finds it full, whether or not anything is acknowledged.
THEOREM RoomForAll ==
  ASSUME MaxSeq <= BufferCap PROVE Spec => []BufferHasRoom
<1>1. FlowInv => BufferHasRoom
  <2> SUFFICES ASSUME FlowInv, produced < MaxSeq PROVE Len(m_sendingBuffer) < BufferCap
    BY DEF BufferHasRoom
  <2>1. Len(m_sendingBuffer) = produced - Base BY FlowFacts DEF Run
  <2> QED BY <2>1, FlowFacts, BoundAssumption
<1> QED BY <1>1, FlowInductive, PTL

\* The sender discards a packet only when the receiver will never ask for it
\* again, in every mode and whatever is lost or overtaken.
THEOREM NothingDiscardedEarly == Spec /\ []BufferHasRoom => []NoEarlyDiscard
<1>1. FlowInv /\ Kept => NoEarlyDiscard
  <2> SUFFICES ASSUME FlowInv, Kept, NEW k \in 0..(produced - 1)
               PROVE  k \in Range(m_sendingBuffer) \/ k < GoBack(expected)
    BY DEF NoEarlyDiscard
  <2>1. /\ produced \in Nat /\ Base \in Nat /\ expected \in Nat /\ attr \in Modes
        /\ m_sendingBuffer \in Seq(Numbers) /\ Run(m_sendingBuffer, Base, produced)
    BY FlowFacts
  <2>2. GoBack(expected) \in Nat /\ Base <= GoBack(expected)
    BY <2>1, GoBackRounds, RoundType DEF Kept
  <2>3. CASE k < Base BY <2>1, <2>2, <2>3
  <2>4. CASE k >= Base
    <3>1. k - Base + 1 \in 1..Len(m_sendingBuffer) BY <2>1, <2>4 DEF Run
    <3>2. m_sendingBuffer[k - Base + 1] = Base + (k - Base + 1) - 1 BY <2>1, <3>1 DEF Run
    <3>3. m_sendingBuffer[k - Base + 1] = k BY <2>1, <3>2
    <3>4. k - Base + 1 \in DOMAIN m_sendingBuffer BY <2>1, <3>1
    <3> QED BY <3>3, <3>4 DEF Range
  <2> QED BY <2>1, <2>3, <2>4
<1> QED BY <1>1, KeptInductive, PTL

\* Every reply that may arrive next finds a packet in the sending buffer, and
\* every NACK the packet it asks for.
THEOREM RepliesAreCovered == Spec /\ []BufferHasRoom => []BufferCovers
<1>1. FlowInv /\ Kept => BufferCovers
  <2> SUFFICES ASSUME FlowInv, Kept, NEW n \in Arrivable
               PROVE  /\ m_sendingBuffer # <<>>
                      /\ replies[n].kind = "NACK" =>
                           GoBack(replies[n].seq) \in Head(m_sendingBuffer)..Last(m_sendingBuffer)
    BY DEF BufferCovers
  <2>1. /\ produced \in Nat /\ Base \in Nat /\ replies \in Seq(Reply)
        /\ m_sendingBuffer \in Seq(Numbers) /\ Run(m_sendingBuffer, Base, produced)
    BY FlowFacts
  <2>2. n \in DOMAIN replies BY DEF Arrivable
  <2>3. replies # <<>> BY <2>1, <2>2
  <2>4. Base < produced BY <2>3 DEF Kept
  <2>5. m_sendingBuffer # <<>> BY <2>1, <2>4 DEF Run
  <2>6. Head(m_sendingBuffer) = Base /\ Last(m_sendingBuffer) = produced - 1
    BY <2>1, <2>5, RunHead DEF Last
  <2>7. ASSUME replies[n].kind = "NACK"
        PROVE  GoBack(replies[n].seq) \in Head(m_sendingBuffer)..Last(m_sendingBuffer)
    <3>1. /\ Base <= Round(attr, replies[n].seq) /\ replies[n].seq < produced
      BY <2>2, <2>7 DEF Kept
    <3>2. /\ Round(attr, replies[n].seq) \in Nat /\ Round(attr, replies[n].seq) <= replies[n].seq
          /\ replies[n].seq \in Nat
      BY <2>2, ReplyPoints, ReplySeq
    <3> QED BY <2>1, <2>6, <3>1, <3>2, GoBackRounds
  <2> QED BY <2>5, <2>7
<1> QED BY <1>1, KeptInductive, PTL

\* L2WaitForAck is honoured: no packet of the next message is on the wire before
\* the message before it has been received completely.
THEOREM MessagesWait == Spec /\ []BufferHasRoom => []WaitHonoured
<1>1. Message => WaitHonoured BY GoBackRounds DEF Message, WaitHonoured, Below
<1> QED BY <1>1, MessageInductive, PTL

-----------------------------------------------------------------------------
(* The refinement *)

\* Packets accepted, released or added, in the terms of the abstract variables.
LEMMA DeliveryStep ==
  ASSUME FlowInv, Kept, FlowInv', Kept', attr' = attr,
         \/ produced' = produced + 1 /\ Base' = Base /\ expected' = expected
         \/ produced' = produced /\ Base' = Base
            /\ Round(attr, expected) <= Round(attr, expected')
         \/ produced' = produced /\ Base <= Base' /\ expected' = expected
  PROVE  [Abstract!Next]_(Abstract!vars)
<1> DEFINE d == GoBack(expected)
           b == IF m_sendingBuffer = <<>> THEN produced ELSE Head(m_sendingBuffer)
<1>1. d = Round(attr, expected) /\ d' = Round(attr, expected') /\ b = Base /\ b' = Base'
  <2>1. d = Round(attr, expected) BY GoBackRounds
  <2>2. d' = Round(attr, expected') BY DEF GoBack, Round, m_backto0, m_chunk
  <2>3. b = Base /\ b' = Base' BY DEF Base, First
  <2> QED BY <2>1, <2>2, <2>3
<1>2. /\ produced \in Nat /\ Base \in Nat /\ attr \in Modes /\ expected \in Nat
      /\ expected <= produced
  BY FlowFacts
<1>3. /\ produced' \in Nat /\ Base' \in Nat /\ expected' \in Nat /\ expected' <= produced'
  BY BoundAssumption DEF FlowInv, TypeOK, Shape
<1>4. /\ d \in Nat /\ d' \in Nat /\ d <= produced /\ d' <= produced' /\ b \in Nat /\ b' \in Nat
  <2>1. Round(attr, expected) \in Nat /\ Round(attr, expected) <= expected
    BY <1>2, RoundType
  <2>2. Round(attr, expected') \in Nat /\ Round(attr, expected') <= expected'
    BY <1>2, <1>3, RoundType
  <2> HIDE DEF d, b
  <2> QED BY <1>1, <1>2, <1>3, <2>1, <2>2
<1>5. b' <= d'
  BY <1>1 DEF Kept
<1>6. CASE produced' = produced + 1 /\ Base' = Base /\ expected' = expected
  BY <1>1, <1>6 DEF Abstract!Next, Abstract!Produce
<1>7. CASE produced' = produced /\ Base' = Base /\ Round(attr, expected) <= Round(attr, expected')
  <2>1. d <= d' /\ b' = b BY <1>1, <1>7
  <2> HIDE DEF d, b
  <2>2. CASE d' = d BY <1>7, <2>1, <2>2 DEF Abstract!vars, d, b
  <2>3. CASE d' # d
    <3>1. d' \in (d + 1)..produced BY <1>4, <1>7, <2>1, <2>3
    <3> QED BY <1>7, <2>1, <3>1 DEF Abstract!Next, Abstract!Deliver, d, b
  <2> QED BY <2>2, <2>3
<1>8. CASE produced' = produced /\ Base <= Base' /\ expected' = expected
  <2>1. b <= b' /\ d' = d BY <1>1, <1>8
  <2> HIDE DEF d, b
  <2>2. CASE b' = b BY <1>8, <2>1, <2>2 DEF Abstract!vars, d, b
  <2>3. CASE b' # b
    <3>1. b' \in (b + 1)..d BY <1>4, <1>5, <2>1, <2>3
    <3> QED BY <1>8, <2>1, <3>1 DEF Abstract!Next, Abstract!Release, d, b
  <2> QED BY <2>2, <2>3
<1> QED BY <1>6, <1>7, <1>8

LEMMA DeliveryInit == Init => Abstract!Init
<1> SUFFICES ASSUME Init PROVE Abstract!Init OBVIOUS
<1>1. m_sendingBuffer = <<>> /\ produced = 0 /\ expected = 0 /\ attr \in Modes BY DEF Init
<1>2. GoBack(expected) = 0 BY <1>1, GoBackRounds, RoundZero
<1> QED BY <1>1, <1>2 DEF Abstract!Init

LEMMA DeliveryNext ==
  FlowInv /\ Kept /\ FlowInv' /\ Kept' /\ BufferHasRoom /\ [Next]_vars
    => [Abstract!Next]_(Abstract!vars)
<1> SUFFICES ASSUME FlowInv, Kept, FlowInv', Kept', BufferHasRoom, [Next]_vars
             PROVE  [Abstract!Next]_(Abstract!vars)
  OBVIOUS
<1>0. /\ produced \in Nat /\ Base \in Nat /\ attr \in Modes /\ expected \in Nat
      /\ Round(attr, expected) \in Nat /\ Round(attr, expected) <= Round(attr, expected)
      /\ Base <= Base
  <2>1. produced \in Nat /\ Base \in Nat /\ attr \in Modes /\ expected \in Nat BY FlowFacts
  <2>2. Round(attr, expected) \in Nat BY <2>1, RoundType
  <2> QED BY <2>1, <2>2
<1>1. attr' = attr
  BY DEF Next, Send, TransmitComplete, Retransmit, Receive, Lose, ReceiveReply, LoseReply, vars
<1>2. CASE Send
  <2>1. expected' = expected /\ produced < MaxSeq BY <1>2 DEF Send, receiverVars
  <2>2. produced' = produced + 1 /\ Base' = Base BY <1>2, <2>1, SendFlow DEF BufferHasRoom
  <2> QED BY <1>1, <2>1, <2>2, DeliveryStep
<1>3. CASE TransmitComplete \/ Retransmit
  <2>1. expected' = expected /\ produced' = produced
    BY <1>3 DEF TransmitComplete, Retransmit, receiverVars, senderVars
  <2>2. Base' = Base BY <1>3, CompleteFlow, RetransmitFlow
  <2> QED BY <1>0, <1>1, <2>1, <2>2, DeliveryStep
<1>4. CASE Receive
  <2>1. /\ SenderQuiet /\ data # <<>> /\ (Accepts \/ Refuses \/ Ignores) /\ Base' = Base
    BY <1>4, ReceiverAnswers, ReceiveFlow
  <2>2. Round(attr, expected) <= Round(attr, expected')
    <3>1. CASE Ignores BY <1>0, <3>1 DEF Ignores
    <3>2. CASE Accepts \/ Refuses
      <4>1. /\ expected' \in Nat /\ (Accepts => expected' = expected + 1)
            /\ Refuses => Round(attr, expected') = Round(attr, expected)
        BY <2>1, <3>2, ReceiverMoves
      <4>2. CASE Accepts BY <1>0, <4>1, <4>2, RoundMonotone
      <4>3. CASE Refuses BY <1>0, <4>1, <4>3
      <4> QED BY <3>2, <4>2, <4>3
    <3> QED BY <2>1, <3>1, <3>2
  <2>3. produced' = produced BY <2>1 DEF SenderQuiet
  <2> QED BY <1>1, <2>1, <2>2, <2>3, DeliveryStep
<1>5. CASE Lose
  <2>1. SenderQuiet /\ Base' = Base /\ expected' = expected BY <1>5, LoseFlow
  <2>2. produced' = produced BY <2>1 DEF SenderQuiet
  <2> QED BY <1>0, <1>1, <2>1, <2>2, DeliveryStep
<1>6. CASE \E n \in Arrivable : ReceiveReply(n) \/ LoseReply(n)
  <2>1. PICK n \in DOMAIN replies : ReceiveReply(n) \/ LoseReply(n) BY <1>6 DEF Arrivable
  <2>2. CASE ReceiveReply(n)
    <3>1. /\ produced' = produced /\ expected' = expected
          /\ (ReceiveNACK(n) \/ ReceiveACK(n))
      BY <2>2 DEF ReceiveReply, receiverVars
    <3>2. Base' = Base \/ Base' = Later(Base, Round(attr, replies[n].seq))
      BY <2>2, <3>1, NackFlow, AckFlow
    <3>3. Round(attr, replies[n].seq) \in Nat BY ReplyPoints
    <3>4. Base <= Base' BY <1>0, <3>2, <3>3 DEF Later
    <3> QED BY <1>1, <3>1, <3>4, DeliveryStep
  <2>3. CASE LoseReply(n)
    <3>1. SenderQuiet /\ Base' = Base /\ expected' = expected BY <2>3, LoseReplyFlow
    <3>2. produced' = produced BY <3>1 DEF SenderQuiet
    <3> QED BY <1>0, <1>1, <3>1, <3>2, DeliveryStep
  <2> QED BY <2>1, <2>2, <2>3
<1>7. CASE UNCHANGED vars
  <2>1. /\ Base' = Base /\ expected' = expected /\ produced' = produced
    BY <1>7 DEF vars, senderVars, receiverVars, Base
  <2> QED BY <1>0, <1>1, <2>1, DeliveryStep
<1> QED BY <1>2, <1>3, <1>4, <1>5, <1>6, <1>7 DEF Next

\* Sender and receiver implement ReliableDelivery in every mode: acceptance is
\* never revoked, and nothing that is not accepted for good is released.
THEOREM FlowImplementsDelivery == Spec /\ []BufferHasRoom => ImplementsDelivery
<1>1. Spec /\ []BufferHasRoom => Abstract!Init /\ [][Abstract!Next]_(Abstract!vars)
  BY DeliveryInit, DeliveryNext, KeptInductive, PTL DEF Spec
<1> QED BY <1>1 DEF ImplementsDelivery, Abstract!Spec
=============================================================================
