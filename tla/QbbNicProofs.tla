----------------------------- MODULE QbbNicProofs -----------------------------
(***************************************************************************)
(* The transmitter of a NIC, for any number of flows, any packet sizes,    *)
(* rates and timers: the types, the byte counts of the queues, the wake-up *)
(* of an idle transmitter, and the round robin.                            *)
(*                                                                         *)
(* The wake-up needs the byte counts (Reschedule looks at them and not at  *)
(* the queues) and that a paused class has its timer.  The round robin     *)
(* needs a measure: the flows between the one served last and a waiting    *)
(* flow, which every overtaking shortens.                                  *)
(***************************************************************************)
EXTENDS QbbNic, WellFoundedInduction, TLAPS

-----------------------------------------------------------------------------
(* Extremes and products *)

LEMMA Least ==
  ASSUME NEW T, T \subseteq Nat, T # {}
  PROVE  \E x \in T : \A y \in T : x <= y
<1> DEFINE R == OpToRel(<, Nat)
<1>1. IsWellFoundedOn(R, Nat) BY NatLessThanWellFounded
<1>2. \A x \in Nat : \A y \in Nat : y < x => <<y, x>> \in R BY DEF OpToRel
<1> HIDE DEF R
<1>3. PICK x \in T : \A y \in T : ~(<<y, x>> \in R) BY <1>1, WFMin
<1>4. ASSUME NEW y \in T PROVE x <= y
  <2>1. x \in Nat /\ y \in Nat OBVIOUS
  <2>2. ~(y < x) BY <1>2, <1>3, <2>1
  <2> QED BY <2>1, <2>2
<1> QED BY <1>4

LEMMA MinOfNaturals ==
  ASSUME NEW T, T \subseteq Nat, T # {}
  PROVE  Min(T) \in T /\ \A y \in T : Min(T) <= y
<1>1. \E x \in T : \A y \in T : x <= y BY Least
<1> QED BY <1>1 DEF Min

LEMMA MaxOfTwo ==
  ASSUME NEW a \in Int, NEW b \in Int
  PROVE  Max({a, b}) = IF a >= b THEN a ELSE b
<1> DEFINE S == {a, b}
           m == Max(S)
<1>1. \E x \in S : \A y \in S : x >= y
  <2>1. CASE a >= b BY <2>1
  <2>2. CASE b >= a BY <2>2
  <2> QED BY <2>1, <2>2
<1>2. m \in S /\ \A y \in S : m >= y BY <1>1 DEF Max
<1> HIDE DEF m
<1>3. m = IF a >= b THEN a ELSE b BY <1>2
<1> QED BY <1>3 DEF m

LEMMA MinOfTwo ==
  ASSUME NEW a \in Nat, NEW b \in Nat
  PROVE  Min({a, b}) \in Nat /\ Min({a, b}) <= a
<1>1. {a, b} \subseteq Nat /\ {a, b} # {} OBVIOUS
<1> QED BY <1>1, MinOfNaturals

LEMMA Products ==
  ASSUME NEW z \in Nat \ {0}, NEW d \in Nat
  PROVE  /\ z * d \in Nat /\ z * (d + 1) = z * d + z
         /\ z * d > 0 <=> d > 0
<1>1. z * d \in Nat /\ z * (d + 1) = z * d + z OBVIOUS
<1>2. CASE d = 0 BY <1>1, <1>2
<1>3. CASE d > 0
  <2>1. PICK e \in Nat : d = e + 1 BY <1>3
  <2>2. z * e \in Nat /\ z * d = z * e + z BY <2>1
  <2> QED BY <1>1, <1>3, <2>2
<1> QED BY <1>2, <1>3

-----------------------------------------------------------------------------
(* The device *)

\* Bytes of a packet of queue i.
PacketSize(i) == IF i = 0 THEN CtlSize ELSE Size

Counted(s) ==
    \A i \in Queues :
      /\ s.next[i] <= s.produced[i] /\ s.base[i] <= s.produced[i]
      /\ s.seen[i] <= s.produced[i]
      /\ s.bytes[i] = PacketSize(i) * (s.produced[i] - s.next[i])

PausesEnd(s) == \A c \in Classes : s.paused[c] => s.resumeEvt[c] # NoEvent

\* The packet on the wire exists; an idle transmitter has none.
OnWire(s) ==
    IF s.tx = NoEvent THEN s.cur = <<0, 0>> ELSE s.cur[2] < s.produced[s.cur[1]]

Sound(s) ==
    /\ s \in Device /\ Counted(s) /\ PausesEnd(s) /\ OnWire(s)
    /\ s.rrlast < s.fcount

LEMMA Constants ==
  /\ N \in Nat \ {0} /\ Size \in Nat \ {0} /\ CtlSize \in Nat \ {0}
  /\ 0 \in Queues /\ Flows \subseteq Queues /\ Queues \subseteq Nat
  /\ \A i \in Queues : PacketSize(i) \in Nat \ {0}
  /\ \A f \in Flows : f \in Nat /\ f > 0 /\ f <= N /\ Class[f] \in Classes
                      /\ PacketSize(f) = Size
  /\ m_pausetime \in Timer(m_pausetime) /\ m_waitAckTimer \in Timer(m_waitAckTimer)
  /\ NoEvent \in Timer(m_pausetime) /\ NoEvent \in Timer(m_waitAckTimer)
  /\ m_pausetime # NoEvent
BY NicAssumption DEF Flows, Queues, Classes, PacketSize, Timer, NoEvent

LEMMA PacketTime ==
  /\ \A i \in Queues : PacketSize(i) \in Timer(Max({Size, CtlSize})) /\ PacketSize(i) # NoEvent
  /\ NoEvent \in Timer(Max({Size, CtlSize}))
<1>1. Max({Size, CtlSize}) = IF Size >= CtlSize THEN Size ELSE CtlSize
  BY Constants, MaxOfTwo
<1> QED BY <1>1, Constants DEF PacketSize, Timer, NoEvent

LEMMA Update ==
  ASSUME NEW D, NEW S, NEW g \in [D -> S], NEW x, NEW v \in S
  PROVE  [g EXCEPT ![x] = v] \in [D -> S]
OBVIOUS

\* The types of the fields, one by one.
LEMMA Fields ==
  ASSUME NEW s \in Device
  PROVE  /\ s.fcount \in Nat /\ s.fcount >= 1 /\ s.fcount <= N + 1
         /\ s.produced \in [Queues -> Nat] /\ s.base \in [Queues -> Nat]
         /\ s.next \in [Queues -> Nat] /\ s.seen \in [Queues -> Nat]
         /\ s.bytes \in [Queues -> Nat] /\ s.avail \in [Queues -> Nat]
         /\ s.credits \in [Queues -> 0..Size] /\ s.slow \in [Queues -> Nat]
         /\ s.milestone \in [Queues -> Nat] /\ s.waiting \in [Queues -> BOOLEAN]
         /\ s.retransmit \in [Queues -> Timer(m_waitAckTimer)]
         /\ s.paused \in [Classes -> BOOLEAN]
         /\ s.resumeEvt \in [Classes -> Timer(m_pausetime)]
         /\ s.rrlast \in Nat /\ s.rrlast <= N /\ s.cur \in Queues \X Nat
         /\ s.tx \in Timer(Max({Size, CtlSize})) /\ s.nextSend \in Nat \cup {NoEvent}
BY NicAssumption DEF Device

\* Steps that leave the counts, the packet on the wire and the turn alone.
SameCounts(s, t) ==
    /\ t.produced = s.produced /\ t.base = s.base /\ t.next = s.next
    /\ t.seen = s.seen /\ t.bytes = s.bytes

SameTurn(s, t) == t.fcount = s.fcount /\ t.rrlast = s.rrlast

SamePauses(s, t) == t.paused = s.paused /\ t.resumeEvt = s.resumeEvt

SameWire(s, t) == t.tx = s.tx /\ t.cur = s.cur

LEMMA SameSound ==
  ASSUME NEW s, Sound(s), NEW t \in Device, SameCounts(s, t), SameTurn(s, t),
         SameWire(s, t), PausesEnd(t)
  PROVE  Sound(t)
BY DEF Sound, SameCounts, SameTurn, SameWire, Counted, OnWire

-----------------------------------------------------------------------------
(* Queues *)

LEMMA EnqueueSound ==
  ASSUME NEW s, Sound(s), NEW i \in Queues, NEW t \in Device,
         t.produced = [s.produced EXCEPT ![i] = @ + 1],
         t.bytes = [s.bytes EXCEPT ![i] = @ + PacketSize(i)],
         t.next = s.next, t.base = s.base, t.seen = s.seen,
         SameWire(s, t), SamePauses(s, t), t.rrlast = s.rrlast, t.fcount >= s.fcount
  PROVE  Sound(t)
<1>1. s \in Device BY DEF Sound
<1>2. Counted(t)
  <2> SUFFICES ASSUME NEW j \in Queues
               PROVE  /\ t.next[j] <= t.produced[j] /\ t.base[j] <= t.produced[j]
                      /\ t.seen[j] <= t.produced[j]
                      /\ t.bytes[j] = PacketSize(j) * (t.produced[j] - t.next[j])
    BY DEF Counted
  <2>1. /\ s.produced[j] \in Nat /\ s.next[j] \in Nat /\ s.base[j] \in Nat /\ s.seen[j] \in Nat
        /\ s.bytes[j] \in Nat
    BY <1>1, Fields
  <2>2. /\ s.next[j] <= s.produced[j] /\ s.base[j] <= s.produced[j]
        /\ s.seen[j] <= s.produced[j]
        /\ s.bytes[j] = PacketSize(j) * (s.produced[j] - s.next[j])
    BY DEF Sound, Counted
  <2>3. CASE j = i
    <3>1. t.produced[j] = s.produced[j] + 1 /\ t.bytes[j] = s.bytes[j] + PacketSize(j)
      BY <1>1, <2>3, Fields
    <3> DEFINE d == s.produced[j] - s.next[j]
    <3>2. d \in Nat BY <2>1, <2>2
    <3>3. t.produced[j] - t.next[j] = d + 1 BY <2>1, <3>1
    <3> HIDE DEF d
    <3>4. PacketSize(j) * (d + 1) = PacketSize(j) * d + PacketSize(j)
      BY <3>2, Constants, Products
    <3>5. t.bytes[j] = PacketSize(j) * (t.produced[j] - t.next[j])
      BY <2>2, <3>1, <3>3, <3>4 DEF d
    <3> QED BY <2>1, <2>2, <3>1, <3>5
  <2>4. CASE j # i
    <3>1. t.produced[j] = s.produced[j] /\ t.bytes[j] = s.bytes[j] BY <1>1, <2>4, Fields
    <3> QED BY <2>2, <3>1
  <2> QED BY <2>3, <2>4
<1>3. PausesEnd(t) BY DEF Sound, PausesEnd, SamePauses
<1>4. OnWire(t)
  <2>1. CASE s.tx = NoEvent BY <2>1 DEF Sound, OnWire, SameWire
  <2>2. CASE s.tx # NoEvent
    <3> DEFINE k == s.cur[1]
    <3>1. k \in Queues /\ s.cur[2] \in Nat /\ s.cur[2] < s.produced[k]
      BY <1>1, <2>2, Fields DEF Sound, OnWire
    <3>2. t.produced[k] \in Nat /\ s.produced[k] \in Nat /\ t.produced[k] >= s.produced[k]
      BY <1>1, <3>1, Fields
    <3> QED BY <2>2, <3>1, <3>2 DEF OnWire, SameWire
  <2> QED BY <2>1, <2>2
<1>5. t.rrlast < t.fcount BY <1>1, Fields DEF Sound
<1> QED BY <1>2, <1>3, <1>4, <1>5 DEF Sound

\* A queue moves to another place within its packets.
LEMMA MoveSound ==
  ASSUME NEW s, Sound(s), NEW f \in Queues, NEW n \in Nat, n <= s.produced[f], NEW t \in Device,
         t.next = [s.next EXCEPT ![f] = n],
         t.bytes = [s.bytes EXCEPT ![f] = PacketSize(f) * (s.produced[f] - n)],
         t.produced = s.produced, t.base = s.base, t.seen = s.seen
  PROVE  Counted(t)
<1>1. s \in Device BY DEF Sound
<1> SUFFICES ASSUME NEW j \in Queues
             PROVE  /\ t.next[j] <= t.produced[j] /\ t.base[j] <= t.produced[j]
                    /\ t.seen[j] <= t.produced[j]
                    /\ t.bytes[j] = PacketSize(j) * (t.produced[j] - t.next[j])
  BY DEF Counted
<1>2. /\ s.next[j] <= s.produced[j] /\ s.base[j] <= s.produced[j]
      /\ s.seen[j] <= s.produced[j]
      /\ s.bytes[j] = PacketSize(j) * (s.produced[j] - s.next[j])
  BY DEF Sound, Counted
<1>3. CASE j = f
  <2>1. t.next[j] = n /\ t.bytes[j] = PacketSize(j) * (t.produced[j] - n)
    BY <1>1, <1>3, Fields
  <2> QED BY <1>2, <1>3, <2>1
<1>4. CASE j # f
  <2>1. t.next[j] = s.next[j] /\ t.bytes[j] = s.bytes[j] BY <1>1, <1>4, Fields
  <2> QED BY <1>2, <2>1
<1> QED BY <1>3, <1>4

LEMMA RecoverQueueSound ==
  ASSUME NEW s, Sound(s), NEW f \in Flows, NEW t, t = RecoverQueue(s, f)
  PROVE  /\ Sound(t) /\ SameTurn(s, t) /\ SameWire(s, t) /\ t.waiting = s.waiting
<1> DEFINE u == [s EXCEPT !.bytes[f] = @ - Size * (s.produced[f] - s.next[f])]
           w == [u EXCEPT !.next[f] = s.base[f],
                          !.bytes[f] = @ + Size * (s.produced[f] - s.base[f])]
           d == s.produced[f] - s.next[f]
           e == s.produced[f] - s.base[f]
<1>1. s \in Device /\ f \in Queues BY Constants DEF Sound
<1>2. /\ s.produced[f] \in Nat /\ s.next[f] \in Nat /\ s.base[f] \in Nat
      /\ s.next[f] <= s.produced[f] /\ s.base[f] <= s.produced[f]
      /\ s.bytes[f] = Size * d
  BY <1>1, Fields, Constants DEF Sound, Counted
<1>3. d \in Nat /\ e \in Nat BY <1>2
<1> HIDE DEF d, e
<1>4. Size * d \in Nat /\ Size * e \in Nat BY <1>3, Constants, Products
<1>5. u = [s EXCEPT !.bytes[f] = 0]
  <2>1. s.bytes[f] - Size * d = 0 BY <1>2, <1>4
  <2>2. u = [s EXCEPT !.bytes[f] = s.bytes[f] - Size * d] BY DEF d
  <2> QED BY <2>1, <2>2
<1>6. t = w BY DEF RecoverQueue
<1> HIDE DEF u
<1>7. /\ u \in Device /\ u.bytes = [s.bytes EXCEPT ![f] = 0]
      /\ u.fcount = s.fcount /\ u.produced = s.produced /\ u.base = s.base
      /\ u.next = s.next /\ u.seen = s.seen /\ u.waiting = s.waiting
      /\ u.paused = s.paused /\ u.resumeEvt = s.resumeEvt /\ u.rrlast = s.rrlast
      /\ u.cur = s.cur /\ u.tx = s.tx
  BY <1>1, <1>5 DEF Device
<1>8. w = [u EXCEPT !.next[f] = s.base[f], !.bytes[f] = Size * e]
  <2>1. u.bytes[f] = 0 BY <1>1, <1>7, Fields
  <2>2. w = [u EXCEPT !.next[f] = s.base[f], !.bytes[f] = u.bytes[f] + Size * e] BY DEF e
  <2>3. u.bytes[f] + Size * e = Size * e BY <1>4, <2>1
  <2> QED BY <2>2, <2>3
<1> HIDE DEF w
<1>9. /\ w \in Device /\ w.bytes = [u.bytes EXCEPT ![f] = Size * e]
      /\ w.next = [u.next EXCEPT ![f] = s.base[f]]
      /\ w.fcount = u.fcount /\ w.produced = u.produced /\ w.base = u.base
      /\ w.seen = u.seen /\ w.waiting = u.waiting
      /\ w.paused = u.paused /\ w.resumeEvt = u.resumeEvt /\ w.rrlast = u.rrlast
      /\ w.cur = u.cur /\ w.tx = u.tx
  BY <1>1, <1>2, <1>4, <1>7, <1>8 DEF Device
<1>10. w.bytes = [s.bytes EXCEPT ![f] = PacketSize(f) * (s.produced[f] - s.base[f])]
  <2>1. w.bytes = [s.bytes EXCEPT ![f] = Size * e] BY <1>1, <1>7, <1>9, Fields
  <2> QED BY <2>1, Constants DEF e
<1>11. Counted(w)
  BY <1>1, <1>2, <1>7, <1>9, <1>10, MoveSound
<1>12. PausesEnd(w) /\ OnWire(w) /\ w.rrlast < w.fcount
  BY <1>7, <1>9 DEF Sound, PausesEnd, OnWire
<1> QED BY <1>6, <1>7, <1>9, <1>11, <1>12 DEF Sound, SameTurn, SameWire

-----------------------------------------------------------------------------
(* Transmission *)

LEMMA CreditsDueNat ==
  ASSUME NEW size \in Nat, NEW slow \in Nat, NEW credits \in Nat
  PROVE  CreditsDue(size, slow, credits) \in Nat
<1> DEFINE x == slow * (size - credits)
<1>1. x \in Int OBVIOUS
<1> HIDE DEF x
<1>2. Max({0, x}) = IF 0 >= x THEN 0 ELSE x BY <1>1, MaxOfTwo
<1>3. Max({0, x}) \in Nat BY <1>1, <1>2
<1> QED BY <1>3 DEF CreditsDue, x

LEMMA DistributeCreditsType ==
  ASSUME NEW s \in Device, NEW c, NEW due \in Nat
  PROVE  DistributeCredits(s, c, due) \in [Queues -> 0..Size]
<1> SUFFICES ASSUME NEW i \in Queues
             PROVE  (IF i = c THEN 0
                     ELSE IF i < s.fcount /\ s.avail[i] = 0 /\ s.slow[i] > 0
                          THEN Min({Size, s.credits[i] + due \div s.slow[i]})
                          ELSE s.credits[i]) \in 0..Size
  BY DEF DistributeCredits
<1>1. s.credits[i] \in 0..Size /\ s.slow[i] \in Nat /\ 0 \in 0..Size /\ Size \in Nat
  BY Fields, Constants
<1>2. CASE s.slow[i] > 0
  <2> DEFINE x == s.credits[i] + due \div s.slow[i]
  <2>1. x \in Nat BY <1>1, <1>2
  <2> HIDE DEF x
  <2>2. Min({Size, x}) \in Nat /\ Min({Size, x}) <= Size BY <1>1, <2>1, MinOfTwo
  <2>3. Min({Size, x}) \in 0..Size BY <1>1, <2>2
  <2> QED BY <1>1, <2>3 DEF x
<1>3. CASE ~(s.slow[i] > 0) BY <1>1, <1>3
<1> QED BY <1>2, <1>3

\* The fields a transmission of queue c leaves.
LEMMA TransmitFields ==
  ASSUME NEW s \in Device, NEW c \in Queues, s.bytes[c] >= PacketSize(c)
  PROVE  LET t == Transmit(s, c)
         IN  /\ t \in Device
             /\ t.bytes = [s.bytes EXCEPT ![c] = @ - PacketSize(c)]
             /\ t.next = [s.next EXCEPT ![c] = @ + 1]
             /\ t.rrlast = IF c = 0 THEN s.rrlast ELSE c
             /\ t.cur = <<c, s.next[c]>> /\ t.tx = PacketSize(c)
             /\ t.fcount = s.fcount /\ t.produced = s.produced /\ t.base = s.base
             /\ t.seen = s.seen /\ t.paused = s.paused /\ t.resumeEvt = s.resumeEvt
<1> DEFINE size  == PacketSize(c)
           slow  == Max({1, s.slow[c]})
           due   == CreditsDue(size, slow, s.credits[c])
           stops == StopsForAck(s, c)
           avail == IF stops THEN Far ELSE due
           timer == IF stops /\ ~s.waiting[c] THEN m_waitAckTimer ELSE s.retransmit[c]
           waits == s.waiting[c] \/ stops
           creds == DistributeCredits(s, c, due)
           last  == IF c = 0 THEN s.rrlast ELSE c
           t     == Transmit(s, c)
<1>1. t = [s EXCEPT !.bytes[c] = @ - size, !.next[c] = @ + 1, !.rrlast = last,
                    !.slow[c] = slow, !.credits = creds, !.avail[c] = avail,
                    !.retransmit[c] = timer, !.waiting[c] = waits,
                    !.cur = <<c, s.next[c]>>, !.tx = size]
  BY DEF Transmit, PacketSize
<1>2. size \in Nat /\ size \in Timer(Max({Size, CtlSize})) BY Constants, PacketTime
<1>3. s.slow[c] \in Nat /\ s.credits[c] \in Nat /\ s.next[c] \in Nat /\ s.bytes[c] \in Nat
  BY Fields, Constants
<1>4. slow \in Nat
  <2>1. slow = IF 1 >= s.slow[c] THEN 1 ELSE s.slow[c] BY <1>3, MaxOfTwo
  <2> QED BY <1>3, <2>1
<1> HIDE DEF size, slow
<1>5. due \in Nat BY <1>2, <1>3, <1>4, CreditsDueNat
<1> HIDE DEF due
<1>6. creds \in [Queues -> 0..Size] BY <1>5, DistributeCreditsType
<1>7. avail \in Nat BY <1>5, NicAssumption
<1>8. timer \in Timer(m_waitAckTimer) BY Fields, Constants
<1>9. waits \in BOOLEAN OBVIOUS
<1>10. last \in 0..N BY Fields, Constants DEF Queues
<1> HIDE DEF stops, avail, timer, waits, creds, last, t
<1>11. s.bytes[c] - size \in Nat BY <1>2, <1>3 DEF size
<1>12. [s.bytes EXCEPT ![c] = @ - size] \in [Queues -> Nat] BY <1>11, Fields
<1>13. <<c, s.next[c]>> \in Queues \X Nat BY <1>3
<1>14. /\ t.bytes = [s.bytes EXCEPT ![c] = @ - size]
       /\ t.next = [s.next EXCEPT ![c] = @ + 1]
       /\ t.rrlast = last /\ t.cur = <<c, s.next[c]>> /\ t.tx = size
       /\ t.fcount = s.fcount /\ t.produced = s.produced /\ t.base = s.base
       /\ t.seen = s.seen /\ t.paused = s.paused /\ t.resumeEvt = s.resumeEvt
  BY <1>1 DEF Device
<1>15. /\ t.slow = [s.slow EXCEPT ![c] = slow] /\ t.credits = creds
       /\ t.avail = [s.avail EXCEPT ![c] = avail]
       /\ t.retransmit = [s.retransmit EXCEPT ![c] = timer]
       /\ t.waiting = [s.waiting EXCEPT ![c] = waits]
       /\ t.milestone = s.milestone /\ t.nextSend = s.nextSend
  BY <1>1 DEF Device
<1>16. /\ t.next \in [Queues -> Nat] /\ t.slow \in [Queues -> Nat]
       /\ t.avail \in [Queues -> Nat] /\ t.retransmit \in [Queues -> Timer(m_waitAckTimer)]
       /\ t.waiting \in [Queues -> BOOLEAN] /\ t.bytes \in [Queues -> Nat]
  BY <1>3, <1>4, <1>7, <1>8, <1>9, <1>12, <1>14, <1>15, Fields
<1>17. /\ t.fcount \in 1..(N + 1)
       /\ t.produced \in [Queues -> Nat] /\ t.base \in [Queues -> Nat]
       /\ t.seen \in [Queues -> Nat] /\ t.credits \in [Queues -> 0..Size]
       /\ t.milestone \in [Queues -> Nat] /\ t.paused \in [Classes -> BOOLEAN]
       /\ t.resumeEvt \in [Classes -> Timer(m_pausetime)]
       /\ t.rrlast \in 0..N /\ t.cur \in Queues \X Nat
       /\ t.tx \in Timer(Max({Size, CtlSize})) /\ t.nextSend \in Nat \cup {NoEvent}
  BY <1>2, <1>6, <1>10, <1>13, <1>14, <1>15 DEF Device
<1>18. t \in Device
  <2> DEFINE u == [s EXCEPT !.bytes[c] = @ - size, !.next[c] = @ + 1, !.rrlast = last,
                            !.slow[c] = slow, !.credits = creds]
  <2>1. u.bytes = t.bytes /\ u.next = t.next /\ u.rrlast = t.rrlast
        /\ u.slow = t.slow /\ u.credits = t.credits
    BY <1>14, <1>15 DEF Device
  <2>2. u \in Device BY <1>16, <1>17, <2>1 DEF Device
  <2>3. t = [u EXCEPT !.avail[c] = avail, !.retransmit[c] = timer, !.waiting[c] = waits,
                      !.cur = <<c, s.next[c]>>, !.tx = size]
    BY <1>1
  <2> HIDE DEF u
  <2> QED BY <1>16, <1>17, <2>2, <2>3 DEF Device
<1> QED BY <1>14, <1>18 DEF t, size, last

LEMMA TransmitSound ==
  ASSUME NEW s, Sound(s), NEW c \in Queues, s.next[c] < s.produced[c], c < s.fcount, NEW t,
         t = Transmit(s, c)
  PROVE  /\ Sound(t) /\ t.tx # NoEvent /\ t.cur[1] = c /\ t.fcount = s.fcount
         /\ t.rrlast = IF c = 0 THEN s.rrlast ELSE c
<1> DEFINE d == s.produced[c] - (s.next[c] + 1)
           z == PacketSize(c)
<1>1. s \in Device BY DEF Sound
<1>2. /\ s.produced[c] \in Nat /\ s.next[c] \in Nat /\ z \in Nat \ {0}
      /\ s.bytes[c] = z * (s.produced[c] - s.next[c])
  BY <1>1, Fields, Constants DEF Sound, Counted
<1>3. d \in Nat /\ s.produced[c] - s.next[c] = d + 1 BY <1>2
<1> HIDE DEF d, z
<1>4. z * d \in Nat /\ s.bytes[c] = z * d + z BY <1>2, <1>3, Products
<1>5. s.bytes[c] >= z /\ s.bytes[c] - z = z * d BY <1>2, <1>4
<1>6. /\ t \in Device
      /\ t.bytes = [s.bytes EXCEPT ![c] = @ - z]
      /\ t.next = [s.next EXCEPT ![c] = @ + 1]
      /\ t.rrlast = IF c = 0 THEN s.rrlast ELSE c
      /\ t.cur = <<c, s.next[c]>> /\ t.tx = z
      /\ t.fcount = s.fcount /\ t.produced = s.produced /\ t.base = s.base
      /\ t.seen = s.seen /\ t.paused = s.paused /\ t.resumeEvt = s.resumeEvt
  BY <1>1, <1>5, TransmitFields DEF z
<1>7. t.bytes = [s.bytes EXCEPT ![c] = PacketSize(c) * (s.produced[c] - (s.next[c] + 1))]
  <2>1. t.bytes = [s.bytes EXCEPT ![c] = z * d] BY <1>1, <1>5, <1>6, Fields
  <2> QED BY <2>1 DEF z, d
<1>8. t.next = [s.next EXCEPT ![c] = s.next[c] + 1] BY <1>6
<1>9. s.next[c] + 1 \in Nat /\ s.next[c] + 1 <= s.produced[c] BY <1>2
<1>10. Counted(t) BY <1>6, <1>7, <1>8, <1>9, MoveSound
<1>11. t.tx # NoEvent BY <1>6, PacketTime DEF z
<1>12. OnWire(t) BY <1>6, <1>11 DEF OnWire
<1>13. PausesEnd(t) BY <1>6 DEF Sound, PausesEnd
<1>14. t.rrlast < t.fcount BY <1>6 DEF Sound
<1> QED BY <1>6, <1>10, <1>11, <1>12, <1>13, <1>14 DEF Sound

LEMMA RescheduleSound ==
  ASSUME NEW s, Sound(s), NEW t, t = Reschedule(s)
  PROVE  /\ Sound(t) /\ SameCounts(s, t) /\ SameTurn(s, t) /\ SameWire(s, t)
         /\ SamePauses(s, t)
<1> DEFINE T == {s.avail[i] : i \in {j \in 0..(s.fcount - 1) : s.bytes[j] > 0}}
           m == Min(T)
<1>1. s \in Device BY DEF Sound
<1>2. T \subseteq Nat
  <2>1. \A j \in 0..(s.fcount - 1) : j \in Queues BY <1>1, Fields, Constants DEF Queues
  <2> QED BY <1>1, <2>1, Fields
<1> HIDE DEF T
<1>3. T # {} => m \in Nat BY <1>2, MinOfNaturals
<1> HIDE DEF m
<1>4. t = s \/ (T # {} /\ t = [s EXCEPT !.nextSend = m]) BY DEF Reschedule, T, m
<1>5. CASE t = s BY <1>5 DEF Sound, SameCounts, SameTurn, SameWire, SamePauses
<1>6. CASE m \in Nat /\ t = [s EXCEPT !.nextSend = m]
  <2>1. t \in Device
    <3>1. t = [s EXCEPT !.nextSend = m] BY <1>6
    <3>2. t.nextSend \in Nat \cup {NoEvent} BY <1>1, <1>6 DEF Device
    <3> QED BY <1>1, <3>1, <3>2 DEF Device
  <2>2. SameCounts(s, t) /\ SameTurn(s, t) /\ SameWire(s, t) /\ SamePauses(s, t)
    BY <1>1, <1>6 DEF Device, SameCounts, SameTurn, SameWire, SamePauses
  <2>3. PausesEnd(t) BY <2>2 DEF Sound, PausesEnd, SamePauses
  <2> QED BY <2>1, <2>2, <2>3, SameSound
<1> QED BY <1>3, <1>4, <1>5, <1>6

-----------------------------------------------------------------------------
(* The choice of a queue *)

\* The place of a flow in the round robin.
LEMMA TurnValue ==
  ASSUME NEW s \in Device, s.rrlast < s.fcount, NEW f \in Flows, f < s.fcount
  PROVE  Turn(s, f) = IF s.rrlast < f THEN f - s.rrlast - 1
                                      ELSE f - s.rrlast - 1 + s.fcount
<1> DEFINE n == s.fcount
           r == s.rrlast
<1>1. n \in Nat \ {0} /\ r \in Nat /\ f \in Nat /\ f > 0 /\ r < n /\ f < n BY Fields, Constants
<1> HIDE DEF n, r
<1>2. CASE r < f
  <2>1. f - r - 1 \in 0..(n - 1) BY <1>1, <1>2
  <2>2. (f - r - 1) % n = f - r - 1 BY <1>1, <2>1
  <2> QED BY <1>2, <2>2 DEF Turn, n, r
<1>3. CASE ~(r < f)
  <2>1. f - r - 1 + n \in 0..(n - 1) BY <1>1, <1>3
  <2>2. (f - r - 1) % n = f - r - 1 + n BY <1>1, <2>1
  <2> QED BY <1>3, <2>2 DEF Turn, n, r
<1> QED BY <1>2, <1>3

LEMMA BackloggedFlow ==
  ASSUME NEW s, Sound(s), NEW f
  PROVE  f \in Backlogged(s) <=> f \in Flows /\ f < s.fcount /\ s.bytes[f] > 0
<1>1. s \in Device BY DEF Sound
<1>2. f \in 1..(s.fcount - 1) <=> f \in Flows /\ f < s.fcount
  BY <1>1, Fields, Constants DEF Flows
<1>3. ASSUME f \in Flows PROVE s.next[f] < s.produced[f] <=> s.bytes[f] > 0
  <2> DEFINE d == s.produced[f] - s.next[f]
  <2>1. f \in Queues /\ PacketSize(f) = Size /\ Size \in Nat \ {0} BY <1>3, Constants
  <2>2. /\ s.produced[f] \in Nat /\ s.next[f] \in Nat /\ s.next[f] <= s.produced[f]
        /\ s.bytes[f] = Size * d
    BY <1>1, <2>1, Fields DEF Sound, Counted
  <2>3. d \in Nat /\ (s.next[f] < s.produced[f] <=> d > 0) BY <2>2
  <2> HIDE DEF d
  <2> QED BY <2>1, <2>2, <2>3, Products
<1> QED BY <1>2, <1>3 DEF Backlogged

LEMMA Chosen ==
  ASSUME NEW s, Sound(s), NEW c \in DoDequeueQCN(s)
  PROVE  /\ c \in Queues /\ s.next[c] < s.produced[c] /\ c < s.fcount
         /\ c # 0 => /\ c \in Flows
                     /\ \A g \in Ready(s) : Turn(s, c) <= Turn(s, g)
<1>1. s \in Device BY DEF Sound
<1>2. \/ c = 0 /\ s.next[0] < s.produced[0]
      \/ c \in Ready(s) /\ \A g \in Ready(s) : Turn(s, c) <= Turn(s, g)
  BY DEF DoDequeueQCN
<1>3. CASE c = 0 /\ s.next[0] < s.produced[0] BY <1>1, <1>3, Fields, Constants
<1>4. CASE c \in Ready(s) /\ \A g \in Ready(s) : Turn(s, c) <= Turn(s, g)
  <2>1. c \in Backlogged(s) BY <1>4 DEF Ready
  <2>2. c \in Flows /\ c < s.fcount /\ s.next[c] < s.produced[c]
    BY <2>1, BackloggedFlow DEF Backlogged
  <2> QED BY <1>4, <2>2, Constants
<1> QED BY <1>2, <1>3, <1>4

\* Nothing is chosen although a flow has packets: no flow may send.
LEMMA NothingChosen ==
  ASSUME NEW s, Sound(s), DoDequeueQCN(s) = {}, NEW f \in Backlogged(s)
  PROVE  Ready(s) = {} /\ s.bytes[0] = 0
<1>1. s \in Device BY DEF Sound
<1>2. f \in Queues /\ s.bytes[f] > 0 BY BackloggedFlow, Constants
<1>3. ~(\A i \in Queues : s.bytes[i] = 0) BY <1>1, <1>2, Fields
<1>4. ~(s.next[0] < s.produced[0]) BY <1>3 DEF DoDequeueQCN
<1>5. s.bytes[0] = 0
  <2>1. /\ s.produced[0] \in Nat /\ s.next[0] \in Nat /\ s.next[0] <= s.produced[0]
        /\ s.bytes[0] = PacketSize(0) * (s.produced[0] - s.next[0]) /\ PacketSize(0) \in Nat
    BY <1>1, Fields, Constants DEF Sound, Counted
  <2>2. s.produced[0] - s.next[0] = 0 BY <1>4, <2>1
  <2> QED BY <2>1, <2>2
<1>6. {g \in Ready(s) : \A h \in Ready(s) : Turn(s, g) <= Turn(s, h)} = {}
  BY <1>3, <1>4 DEF DoDequeueQCN
<1>7. ASSUME Ready(s) # {} PROVE FALSE
  <2> DEFINE T == {Turn(s, g) : g \in Ready(s)}
  <2>1. ASSUME NEW g \in Ready(s) PROVE Turn(s, g) \in Nat
    <3>1. g \in Flows BY BackloggedFlow DEF Ready
    <3>2. g - s.rrlast - 1 \in Int /\ s.fcount \in Nat /\ s.fcount > 0
      BY <1>1, <3>1, Fields, Constants
    <3> QED BY <3>2 DEF Turn
  <2>2. T \subseteq Nat /\ T # {} BY <1>7, <2>1
  <2>3. PICK x \in T : \A y \in T : x <= y BY <2>2, Least
  <2>4. PICK g \in Ready(s) : x = Turn(s, g) BY <2>3
  <2> QED BY <1>6, <2>3, <2>4
<1> QED BY <1>5, <1>7

-----------------------------------------------------------------------------
(* The wake-up *)

\* Some event is pending that will call DequeueAndTransmit.
Alarm(s) ==
    \/ s.tx # NoEvent \/ s.nextSend # NoEvent
    \/ \E i \in Queues : s.retransmit[i] # NoEvent
    \/ \E c \in Classes : s.resumeEvt[c] # NoEvent

Awake(s) == Backlogged(s) # {} => Alarm(s)

LEMMA AlarmIsEvent == Alarm(dev) <=> Events # {NoEvent}
BY DEF Alarm, Events

LEMMA RescheduleAwake ==
  ASSUME NEW s, Sound(s), DoDequeueQCN(s) = {}, NEW t, t = Reschedule(s)
  PROVE  Awake(t)
<1> DEFINE J == {j \in 0..(s.fcount - 1) : s.bytes[j] > 0}
           T == {s.avail[i] : i \in J}
           m == Min(T)
<1>1. s \in Device BY DEF Sound
<1>2. SameCounts(s, t) /\ SameTurn(s, t) /\ SamePauses(s, t) BY RescheduleSound
<1>3. Backlogged(t) = Backlogged(s) BY <1>2 DEF Backlogged, SameCounts, SameTurn
<1> SUFFICES ASSUME NEW f \in Backlogged(s), s.nextSend = NoEvent
             PROVE  Alarm(t)
  <2>1. CASE s.nextSend # NoEvent
    <3>1. t = s BY <2>1 DEF Reschedule
    <3> QED BY <2>1, <3>1 DEF Alarm, Awake
  <2> QED BY <1>3, <2>1 DEF Awake
<1>4. Ready(s) = {} /\ s.bytes[0] = 0 BY NothingChosen
<1>5. f \in J
  <2>1. f \in Flows /\ f < s.fcount /\ s.bytes[f] > 0 BY BackloggedFlow
  <2> QED BY <1>1, <2>1, Fields, Constants
<1>6. J \subseteq Queues BY <1>1, Fields, Constants DEF Queues
<1>7. T \subseteq Nat /\ T # {}
  <2> HIDE DEF J
  <2> QED BY <1>1, <1>5, <1>6, Fields
<1>8. m \in T /\ m \in Nat
  <2> HIDE DEF T
  <2> QED BY <1>7, MinOfNaturals
<1>9. CASE m > 0
  <2>1. t = [s EXCEPT !.nextSend = m] BY <1>7, <1>9 DEF Reschedule
  <2> HIDE DEF m
  <2>2. t.nextSend = m BY <1>1, <2>1 DEF Device
  <2> QED BY <1>8, <2>2 DEF Alarm, NoEvent
<1>10. CASE m = 0
  <2>1. PICK j \in J : s.avail[j] = m
    <3> HIDE DEF J, m
    <3> QED BY <1>8
  <2> HIDE DEF m
  <2>2. j \in 0..(s.fcount - 1) /\ s.bytes[j] > 0 BY <2>1
  <2> HIDE DEF J, T
  <2>3. j # 0 BY <1>4, <2>2
  <2>4. j \in Flows /\ j < s.fcount BY <1>1, <2>2, <2>3, Fields, Constants DEF Flows
  <2>5. j \in Backlogged(s) BY <2>2, <2>4, BackloggedFlow
  <2>6. s.paused[Class[j]] BY <1>4, <1>10, <2>1, <2>5 DEF Ready
  <2>7. Class[j] \in Classes BY <2>4, Constants
  <2>8. s.resumeEvt[Class[j]] # NoEvent BY <2>6, <2>7 DEF Sound, PausesEnd
  <2> QED BY <1>2, <2>7, <2>8 DEF Alarm, SamePauses
<1> QED BY <1>8, <1>9, <1>10

-----------------------------------------------------------------------------
(* The round robin *)

\* Flows the round robin visits between the one served last and f.
Between(s, f) ==
    IF s.rrlast < f THEN f - s.rrlast - 1 ELSE s.fcount - 2 - s.rrlast + f

\* The flows that have overtaken f and those that still may are not more than
\* the other flows.
Order(s, b) ==
    \A f \in Flows :
        IF f < s.fcount THEN b[f] + Between(s, f) <= s.fcount - 2 ELSE b[f] = 0

LEMMA SameOrder ==
  ASSUME NEW s, NEW t, NEW b, SameTurn(s, t), Order(s, b)
  PROVE  Order(t, b)
BY DEF Order, Between, SameTurn

\* A flow joins, or none does.
LEMMA JoinOrder ==
  ASSUME NEW s, Sound(s), NEW t \in Device, NEW b \in [Flows -> Nat], Order(s, b),
         t.rrlast = s.rrlast, t.fcount \in {s.fcount, s.fcount + 1}
  PROVE  Order(t, b)
<1>1. s \in Device /\ s.rrlast < s.fcount BY DEF Sound
<1>2. s.fcount \in Nat /\ t.fcount \in Nat /\ s.rrlast \in Nat BY <1>1, Fields
<1> SUFFICES ASSUME NEW f \in Flows
             PROVE  IF f < t.fcount THEN b[f] + Between(t, f) <= t.fcount - 2 ELSE b[f] = 0
  BY DEF Order
<1>3. f \in Nat /\ b[f] \in Nat BY Constants
<1>4. IF f < s.fcount THEN b[f] + Between(s, f) <= s.fcount - 2 ELSE b[f] = 0 BY DEF Order
<1>5. CASE f < s.fcount BY <1>1, <1>2, <1>3, <1>4, <1>5 DEF Between
<1>6. CASE f = s.fcount BY <1>1, <1>2, <1>3, <1>4, <1>6 DEF Between
<1>7. CASE f > s.fcount BY <1>1, <1>2, <1>3, <1>4, <1>7
<1> QED BY <1>2, <1>3, <1>5, <1>6, <1>7

\* Serving flow c: a flow that was ready moves up, the others start again.
LEMMA ServeOrder ==
  ASSUME NEW s, Sound(s), NEW c \in Flows, c < s.fcount,
         \A g \in Ready(s) : Turn(s, c) <= Turn(s, g),
         NEW t, t.fcount = s.fcount, t.rrlast = c,
         NEW b \in [Flows -> Nat], Order(s, b), NEW d,
         d = [f \in Flows |-> IF f # c /\ f \in Ready(s) THEN b[f] + 1 ELSE 0]
  PROVE  Order(t, d)
<1>1. s \in Device /\ s.rrlast < s.fcount BY DEF Sound
<1>2. s.fcount \in Nat /\ s.rrlast \in Nat /\ c \in Nat /\ c > 0 BY <1>1, Fields, Constants
<1> SUFFICES ASSUME NEW f \in Flows
             PROVE  IF f < s.fcount THEN d[f] + Between(t, f) <= s.fcount - 2 ELSE d[f] = 0
  BY DEF Order
<1>3. f \in Nat /\ f > 0 /\ b[f] \in Nat BY Constants
<1>4. CASE f # c /\ f \in Ready(s)
  <2>1. f < s.fcount BY <1>4, BackloggedFlow DEF Ready
  <2>2. b[f] + Between(s, f) <= s.fcount - 2 BY <2>1 DEF Order
  <2>3. Turn(s, c) <= Turn(s, f) BY <1>4
  <2>4. Turn(s, c) = IF s.rrlast < c THEN c - s.rrlast - 1 ELSE c - s.rrlast - 1 + s.fcount
    BY <1>1, TurnValue
  <2>5. Turn(s, f) = IF s.rrlast < f THEN f - s.rrlast - 1 ELSE f - s.rrlast - 1 + s.fcount
    BY <1>1, <2>1, TurnValue
  <2>6. (IF s.rrlast < c THEN c - s.rrlast - 1 ELSE c - s.rrlast - 1 + s.fcount)
          <= (IF s.rrlast < f THEN f - s.rrlast - 1 ELSE f - s.rrlast - 1 + s.fcount)
    BY <2>3, <2>4, <2>5
  <2>7. (IF c < f THEN f - c - 1 ELSE s.fcount - 2 - c + f) + 1
          <= (IF s.rrlast < f THEN f - s.rrlast - 1 ELSE s.fcount - 2 - s.rrlast + f)
    BY <1>1, <1>2, <1>3, <1>4, <2>1, <2>6
  <2>8. Between(t, f) + 1 <= Between(s, f) BY <2>7 DEF Between
  <2>9. Between(t, f) \in Int /\ Between(s, f) \in Int BY <1>2, <1>3 DEF Between
  <2>10. d[f] = b[f] + 1 BY <1>4
  <2> QED BY <1>2, <1>3, <2>1, <2>2, <2>8, <2>9, <2>10
<1>5. CASE ~(f # c /\ f \in Ready(s))
  <2>1. d[f] = 0 BY <1>5
  <2> QED BY <1>2, <1>3, <2>1 DEF Between
<1> QED BY <1>4, <1>5

-----------------------------------------------------------------------------
(* DequeueAndTransmit, the end of most handlers *)

LEMMA DequeueAndTransmitSound ==
  ASSUME NEW s, Sound(s), bypass \in [Flows -> Nat], Order(s, bypass), DequeueAndTransmit(s)
  PROVE  /\ Sound(dev') /\ Order(dev', bypass') /\ bypass' \in [Flows -> Nat]
         /\ Awake(dev') /\ idled' = FALSE
<1>1. s \in Device BY DEF Sound
<1>2. bypass' = [f \in Flows |->
                   IF s.tx # NoEvent \/ dev'.cur[1] = 0 THEN bypass[f]
                   ELSE IF f # dev'.cur[1] /\ f \in Ready(s) THEN bypass[f] + 1
                   ELSE 0]
  BY DEF DequeueAndTransmit
<1>3. idled' = FALSE BY DEF DequeueAndTransmit
<1>4. \/ s.tx # NoEvent /\ dev' = s
      \/ s.tx = NoEvent /\ DoDequeueQCN(s) = {} /\ dev' = Reschedule(s)
      \/ s.tx = NoEvent /\ \E c \in DoDequeueQCN(s) : dev' = Transmit(s, c)
  BY DEF DequeueAndTransmit
<1>5. bypass' \in [Flows -> Nat]
  <2> SUFFICES ASSUME NEW f \in Flows
               PROVE  (IF s.tx # NoEvent \/ dev'.cur[1] = 0 THEN bypass[f]
                       ELSE IF f # dev'.cur[1] /\ f \in Ready(s) THEN bypass[f] + 1
                       ELSE 0) \in Nat
    BY <1>2
  <2>1. bypass[f] \in Nat /\ bypass[f] + 1 \in Nat /\ 0 \in Nat OBVIOUS
  <2> QED BY <2>1, Zenon
<1>6. ASSUME s.tx # NoEvent \/ dev'.cur[1] = 0 PROVE bypass' = bypass
  <2>1. bypass' = [f \in Flows |-> bypass[f]] BY <1>2, <1>6
  <2> QED BY <2>1
<1>7. CASE s.tx # NoEvent /\ dev' = s
  <2>1. Awake(dev') BY <1>7 DEF Awake, Alarm
  <2> QED BY <1>3, <1>5, <1>6, <1>7, <2>1
<1>8. CASE s.tx = NoEvent /\ DoDequeueQCN(s) = {} /\ dev' = Reschedule(s)
  <2> DEFINE t == dev'
  <2>1. t = Reschedule(s) BY <1>8
  <2> HIDE DEF t
  <2>2. Sound(t) /\ SameTurn(s, t) /\ SameWire(s, t) BY <2>1, RescheduleSound
  <2>3. Awake(t) BY <1>8, <2>1, RescheduleAwake
  <2>4. t.cur[1] = 0 BY <1>8, <2>2 DEF Sound, OnWire, SameWire
  <2>5. bypass' = bypass BY <1>6, <2>4 DEF t
  <2>6. Order(t, bypass') BY <2>2, <2>5, SameOrder
  <2> QED BY <1>3, <1>5, <2>2, <2>3, <2>6 DEF t
<1>9. CASE s.tx = NoEvent /\ \E c \in DoDequeueQCN(s) : dev' = Transmit(s, c)
  <2> DEFINE t == dev'
  <2>1. PICK c \in DoDequeueQCN(s) : t = Transmit(s, c) BY <1>9
  <2> HIDE DEF t
  <2>2. /\ c \in Queues /\ s.next[c] < s.produced[c] /\ c < s.fcount
        /\ c # 0 => c \in Flows /\ \A g \in Ready(s) : Turn(s, c) <= Turn(s, g)
    BY Chosen
  <2>3. /\ Sound(t) /\ t.tx # NoEvent /\ t.cur[1] = c /\ t.fcount = s.fcount
        /\ t.rrlast = IF c = 0 THEN s.rrlast ELSE c
    BY <2>1, <2>2, TransmitSound
  <2>4. Awake(t) BY <2>3 DEF Awake, Alarm
  <2>5. CASE c = 0
    <3>1. bypass' = bypass BY <1>6, <2>3, <2>5 DEF t
    <3>2. SameTurn(s, t) BY <2>3, <2>5 DEF SameTurn
    <3>3. Order(t, bypass') BY <3>1, <3>2, SameOrder
    <3> QED BY <1>3, <1>5, <2>3, <2>4, <3>3 DEF t
  <2>6. CASE c # 0
    <3>1. t.rrlast = c /\ c \in Flows /\ \A g \in Ready(s) : Turn(s, c) <= Turn(s, g)
      BY <2>2, <2>3, <2>6
    <3>2. bypass' = [f \in Flows |-> IF f # c /\ f \in Ready(s) THEN bypass[f] + 1 ELSE 0]
      BY <1>2, <1>9, <2>3, <2>6 DEF t
    <3>3. Order(t, bypass') BY <2>2, <2>3, <3>1, <3>2, ServeOrder
    <3> QED BY <1>3, <1>5, <2>3, <2>4, <3>3 DEF t
  <2> QED BY <2>5, <2>6
<1> QED BY <1>4, <1>7, <1>8, <1>9

-----------------------------------------------------------------------------
(* The invariant *)

NicInv ==
    /\ Sound(dev) /\ Order(dev, bypass) /\ (idled \/ Awake(dev))
    /\ inputs \in 0..MaxInputs /\ bypass \in [Flows -> Nat] /\ idled \in BOOLEAN

LEMMA HandlerInv ==
  ASSUME NicInv, NEW s, Sound(s), Order(s, bypass), DequeueAndTransmit(s),
         inputs' \in 0..MaxInputs
  PROVE  NicInv'
<1>1. bypass \in [Flows -> Nat] BY DEF NicInv
<1>2. /\ Sound(dev') /\ Order(dev', bypass') /\ bypass' \in [Flows -> Nat]
      /\ Awake(dev') /\ idled' = FALSE
  BY <1>1, DequeueAndTransmitSound
<1>3. idled' \in BOOLEAN BY <1>2
<1> QED BY <1>2, <1>3 DEF NicInv

LEMMA InputInv ==
  ASSUME NicInv, Input
  PROVE  inputs' \in 0..MaxInputs
BY NicAssumption DEF NicInv, Input

LEMMA InitInv ==
  ASSUME Init
  PROVE  NicInv
<1>1. dev \in Device
  <2>1. 1 \in 1..(N + 1) /\ 0 \in 0..Size /\ 0 \in 0..N /\ m_chunk \in Nat BY NicAssumption
  <2>2. <<0, 0>> \in Queues \X Nat BY Constants
  <2>3. NoEvent \in Timer(Max({Size, CtlSize})) BY PacketTime
  <2> QED BY <2>1, <2>2, <2>3, Constants DEF Init, Device
<1>2. Counted(dev)
  <2> SUFFICES ASSUME NEW i \in Queues
               PROVE  /\ dev.next[i] <= dev.produced[i] /\ dev.base[i] <= dev.produced[i]
                      /\ dev.seen[i] <= dev.produced[i]
                      /\ dev.bytes[i] = PacketSize(i) * (dev.produced[i] - dev.next[i])
    BY DEF Counted
  <2>1. /\ dev.next[i] = 0 /\ dev.produced[i] = 0 /\ dev.base[i] = 0 /\ dev.seen[i] = 0
        /\ dev.bytes[i] = 0
    BY DEF Init
  <2>2. PacketSize(i) * (0 - 0) = 0 BY Constants
  <2> QED BY <2>1, <2>2
<1>3. PausesEnd(dev) /\ OnWire(dev) BY DEF Init, PausesEnd, OnWire
<1>4. dev.fcount = 1 /\ dev.rrlast = 0 BY DEF Init
<1>5. Order(dev, bypass)
  <2>1. \A f \in Flows : bypass[f] = 0 /\ ~(f < 1) BY Constants DEF Init
  <2> QED BY <1>4, <2>1 DEF Order
<1>6. Awake(dev)
  <2>1. 1..(1 - 1) = {} OBVIOUS
  <2> QED BY <1>4, <2>1 DEF Awake, Backlogged
<1>7. inputs \in 0..MaxInputs /\ bypass \in [Flows -> Nat] BY NicAssumption DEF Init
<1>8. idled \in BOOLEAN BY DEF Init
<1> QED BY <1>1, <1>2, <1>3, <1>4, <1>5, <1>6, <1>7, <1>8 DEF NicInv, Sound

-----------------------------------------------------------------------------
(* The handlers that enqueue or wake up *)

LEMMA SendInv ==
  ASSUME NicInv, NEW f \in Flows, Send(f)
  PROVE  NicInv'
<1> DEFINE n == Max({dev.fcount, f + 1})
           s == [dev EXCEPT !.fcount = n, !.produced[f] = @ + 1, !.bytes[f] = @ + Size]
<1>1. Sound(dev) /\ dev \in Device /\ Order(dev, bypass) /\ bypass \in [Flows -> Nat]
      /\ inputs' \in 0..MaxInputs
  BY DEF NicInv, Sound, Send
<1>2. f \in Nat /\ f <= N /\ f \in Queues /\ PacketSize(f) = Size /\ Size \in Nat /\ N \in Nat
  BY Constants
<1>3. dev.fcount \in Nat /\ dev.fcount >= 1 /\ dev.fcount <= N + 1 BY <1>1, Fields
<1>4. n \in {dev.fcount, dev.fcount + 1} /\ n \in 1..(N + 1) /\ n >= dev.fcount
  <2>1. n = IF dev.fcount >= f + 1 THEN dev.fcount ELSE f + 1 BY <1>2, <1>3, MaxOfTwo
  <2>2. f <= dev.fcount BY DEF Send
  <2> QED BY <1>2, <1>3, <2>1, <2>2
<1>5. DequeueAndTransmit(s) BY DEF Send
<1> HIDE DEF n
<1>6. PICK t : t = s OBVIOUS
<1>7. /\ t.produced = [dev.produced EXCEPT ![f] = @ + 1]
      /\ t.bytes = [dev.bytes EXCEPT ![f] = @ + Size]
      /\ t.fcount = n /\ t.next = dev.next /\ t.base = dev.base /\ t.seen = dev.seen
      /\ t.rrlast = dev.rrlast /\ SameWire(dev, t) /\ SamePauses(dev, t)
  BY <1>1, <1>6 DEF Device, SameWire, SamePauses
<1>8. t \in Device
  <2>1. t.produced \in [Queues -> Nat] /\ t.bytes \in [Queues -> Nat]
    BY <1>1, <1>2, <1>7, Fields
  <2> QED BY <1>1, <1>4, <1>6, <1>7, <2>1 DEF Device
<1>9. DequeueAndTransmit(t) BY <1>5, <1>6
<1> HIDE DEF s
<1>10. t.bytes = [dev.bytes EXCEPT ![f] = @ + PacketSize(f)] BY <1>2, <1>7
<1>11. t.fcount >= dev.fcount BY <1>4, <1>7
<1>12. Sound(t) BY <1>1, <1>2, <1>7, <1>8, <1>10, <1>11, EnqueueSound
<1>13. Order(t, bypass) BY <1>1, <1>4, <1>7, <1>8, JoinOrder
<1> QED BY <1>1, <1>9, <1>12, <1>13, HandlerInv

LEMMA SendControlInv ==
  ASSUME NicInv, SendControl
  PROVE  NicInv'
<1> DEFINE s == [dev EXCEPT !.produced[0] = @ + 1, !.bytes[0] = @ + CtlSize]
<1>1. Sound(dev) /\ dev \in Device /\ Order(dev, bypass) BY DEF NicInv, Sound
<1>2. inputs' \in 0..MaxInputs BY InputInv DEF SendControl
<1>3. 0 \in Queues /\ PacketSize(0) = CtlSize /\ CtlSize \in Nat BY Constants DEF PacketSize
<1>4. DequeueAndTransmit(s) BY DEF SendControl
<1>5. PICK t : t = s OBVIOUS
<1>6. /\ t.produced = [dev.produced EXCEPT ![0] = @ + 1]
      /\ t.bytes = [dev.bytes EXCEPT ![0] = @ + CtlSize]
      /\ t.next = dev.next /\ t.base = dev.base /\ t.seen = dev.seen
      /\ SameTurn(dev, t) /\ SameWire(dev, t) /\ SamePauses(dev, t)
  BY <1>1, <1>5 DEF Device, SameTurn, SameWire, SamePauses
<1>7. t \in Device
  <2>1. t.produced \in [Queues -> Nat] /\ t.bytes \in [Queues -> Nat]
    BY <1>1, <1>3, <1>6, Fields
  <2> QED BY <1>1, <1>5, <1>6, <2>1 DEF Device
<1>8. DequeueAndTransmit(t) BY <1>4, <1>5
<1> HIDE DEF s
<1>9. t.bytes = [dev.bytes EXCEPT ![0] = @ + PacketSize(0)] BY <1>3, <1>6
<1>10. t.rrlast = dev.rrlast /\ t.fcount >= dev.fcount BY <1>1, <1>6, Fields DEF SameTurn
<1>11. Sound(t) BY <1>1, <1>3, <1>6, <1>7, <1>9, <1>10, EnqueueSound
<1>12. Order(t, bypass) BY <1>1, <1>6, SameOrder
<1> QED BY <1>2, <1>8, <1>11, <1>12, HandlerInv

\* What a packet that has left does to the packets the network has seen.
LEMMA TransmitCompleteInv ==
  ASSUME NicInv, TransmitComplete
  PROVE  NicInv'
<1> DEFINE k == dev.cur[1]
           m == Max({dev.seen[k], dev.cur[2] + 1})
           s == [dev EXCEPT !.tx = NoEvent, !.cur = <<0, 0>>, !.seen[k] = m]
<1>1. Sound(dev) /\ dev \in Device /\ Order(dev, bypass) /\ inputs' \in 0..MaxInputs
  BY DEF NicInv, Sound, TransmitComplete
<1>2. k \in Queues /\ dev.cur[2] \in Nat /\ dev.seen \in [Queues -> Nat]
      /\ dev.produced \in [Queues -> Nat]
  BY <1>1, Fields
<1>3. dev.cur[2] < dev.produced[k] /\ dev.seen[k] <= dev.produced[k]
  <2>1. dev.tx # NoEvent BY DEF TransmitComplete, NoEvent
  <2> QED BY <1>1, <1>2, <2>1 DEF Sound, OnWire, Counted
<1>4. m \in Nat /\ m <= dev.produced[k]
  <2>1. m = IF dev.seen[k] >= dev.cur[2] + 1 THEN dev.seen[k] ELSE dev.cur[2] + 1
    BY <1>2, MaxOfTwo
  <2> QED BY <1>2, <1>3, <2>1
<1>5. DequeueAndTransmit(s) BY DEF TransmitComplete
<1> HIDE DEF m, k
<1>6. PICK t : t = s OBVIOUS
<1>7. /\ t.seen = [dev.seen EXCEPT ![k] = m] /\ t.tx = NoEvent /\ t.cur = <<0, 0>>
      /\ t.produced = dev.produced /\ t.bytes = dev.bytes
      /\ t.next = dev.next /\ t.base = dev.base
      /\ SameTurn(dev, t) /\ SamePauses(dev, t)
  BY <1>1, <1>6 DEF Device, SameTurn, SamePauses
<1>8. t \in Device
  <2>1. t.seen \in [Queues -> Nat] BY <1>2, <1>4, <1>7
  <2>2. <<0, 0>> \in Queues \X Nat BY Constants
  <2>3. NoEvent \in Timer(Max({Size, CtlSize})) BY PacketTime
  <2> QED BY <1>1, <1>6, <1>7, <2>1, <2>2, <2>3 DEF Device
<1>9. DequeueAndTransmit(t) BY <1>5, <1>6
<1> HIDE DEF s
<1>10. Counted(t)
  <2> SUFFICES ASSUME NEW j \in Queues PROVE t.seen[j] <= t.produced[j]
    BY <1>1, <1>7 DEF Sound, Counted
  <2>1. dev.seen[j] <= dev.produced[j] BY <1>1 DEF Sound, Counted
  <2>2. t.seen[j] = IF j = k THEN m ELSE dev.seen[j] BY <1>2, <1>7
  <2> QED BY <1>4, <1>7, <2>1, <2>2
<1>11. PausesEnd(t) /\ OnWire(t) /\ t.rrlast < t.fcount
  BY <1>1, <1>7 DEF Sound, PausesEnd, OnWire, SamePauses, SameTurn
<1>12. Sound(t) BY <1>8, <1>10, <1>11 DEF Sound
<1>13. Order(t, bypass) BY <1>1, <1>7, SameOrder
<1> QED BY <1>1, <1>9, <1>12, <1>13, HandlerInv

LEMMA NextSendInv ==
  ASSUME NicInv, NextSend
  PROVE  NicInv'
<1> DEFINE s == [dev EXCEPT !.nextSend = NoEvent]
<1>1. Sound(dev) /\ dev \in Device /\ Order(dev, bypass) /\ inputs' \in 0..MaxInputs
  BY DEF NicInv, Sound, NextSend
<1>2. DequeueAndTransmit(s) BY DEF NextSend
<1>3. PICK t : t = s OBVIOUS
<1>4. t \in Device /\ SameCounts(dev, t) /\ SameTurn(dev, t) /\ SameWire(dev, t)
      /\ SamePauses(dev, t)
  BY <1>1, <1>3 DEF Device, SameCounts, SameTurn, SameWire, SamePauses
<1>5. DequeueAndTransmit(t) BY <1>2, <1>3
<1> HIDE DEF s
<1>6. PausesEnd(t) BY <1>1, <1>4 DEF Sound, PausesEnd, SamePauses
<1>7. Sound(t) BY <1>1, <1>4, <1>6, SameSound
<1>8. Order(t, bypass) BY <1>1, <1>4, SameOrder
<1> QED BY <1>1, <1>5, <1>7, <1>8, HandlerInv

-----------------------------------------------------------------------------
(* Answers and timers *)

LEMMA ReleaseSound ==
  ASSUME NEW s, Sound(s), NEW f \in Flows, NEW t, t = Release(s, f)
  PROVE  Sound(t) /\ SameTurn(s, t)
<1>1. s \in Device BY DEF Sound
<1>2. t = [s EXCEPT !.avail[f] = 0, !.retransmit[f] = NoEvent, !.waiting[f] = FALSE]
  BY DEF Release
<1>3. SameCounts(s, t) /\ SameTurn(s, t) /\ SameWire(s, t) /\ SamePauses(s, t)
  BY <1>1, <1>2 DEF Device, SameCounts, SameTurn, SameWire, SamePauses
<1>4. t \in Device
  <2> DEFINE R == [s.retransmit EXCEPT ![f] = NoEvent]
             A == [s.avail EXCEPT ![f] = 0]
             B == [s.waiting EXCEPT ![f] = FALSE]
             u == [s EXCEPT !.avail = A]
             w == [u EXCEPT !.retransmit = R]
             x == [w EXCEPT !.waiting = B]
  <2>1. R \in [Queues -> Timer(m_waitAckTimer)] BY <1>1, Fields, Constants, Update
  <2>2. A \in [Queues -> Nat] BY <1>1, Fields, Update
  <2>3. B \in [Queues -> BOOLEAN] BY <1>1, Fields, Update
  <2>4. t = x BY <1>2
  <2> HIDE DEF R, A, B
  <2>5. u \in Device BY <1>1, <2>2 DEF Device
  <2> HIDE DEF u
  <2>6. w \in Device BY <2>1, <2>5 DEF Device
  <2> HIDE DEF w
  <2>7. x \in Device BY <2>3, <2>6 DEF Device
  <2> QED BY <2>4, <2>7
<1>5. PausesEnd(t) BY <1>3 DEF Sound, PausesEnd, SamePauses
<1> QED BY <1>3, <1>4, <1>5, SameSound

LEMMA MilestoneSound ==
  ASSUME NEW s, Sound(s), NEW f \in Flows, NEW t,
         t = [s EXCEPT !.milestone[f] = @ + m_chunk]
  PROVE  Sound(t) /\ SameTurn(s, t)
<1>1. s \in Device BY DEF Sound
<1>2. SameCounts(s, t) /\ SameTurn(s, t) /\ SameWire(s, t) /\ SamePauses(s, t)
  BY <1>1 DEF Device, SameCounts, SameTurn, SameWire, SamePauses
<1>3. t \in Device
  <2>1. f \in Queues /\ s.milestone \in [Queues -> Nat] /\ m_chunk \in Nat
    BY <1>1, Fields, Constants, NicAssumption
  <2>2. [s.milestone EXCEPT ![f] = @ + m_chunk] \in [Queues -> Nat] BY <2>1
  <2> QED BY <1>1, <2>2 DEF Device
<1>4. PausesEnd(t) BY <1>2 DEF Sound, PausesEnd, SamePauses
<1> QED BY <1>2, <1>3, <1>4, SameSound

\* An answer moves the buffer forward, within what the network has seen.
LEMMA TrimSound ==
  ASSUME NEW s, Sound(s), NEW f \in Flows, NEW seq \in Nat, seq <= s.seen[f],
         NEW t, t = Trim(s, f, seq)
  PROVE  /\ Sound(t) /\ SameTurn(s, t) /\ SameWire(s, t) /\ SamePauses(s, t)
         /\ t.next = s.next /\ t.produced = s.produced /\ t.nextSend = s.nextSend
         /\ t.retransmit = s.retransmit /\ t.waiting = s.waiting
<1> DEFINE m == Max({s.base[f], seq})
<1>1. s \in Device /\ f \in Queues BY Constants DEF Sound
<1>2. /\ s.base \in [Queues -> Nat] /\ s.seen[f] \in Nat /\ s.produced[f] \in Nat
      /\ s.base[f] <= s.produced[f] /\ s.seen[f] <= s.produced[f]
  BY <1>1, Fields DEF Sound, Counted
<1>3. m \in Nat /\ m <= s.produced[f]
  <2>1. m = IF s.base[f] >= seq THEN s.base[f] ELSE seq BY <1>1, <1>2, MaxOfTwo
  <2> QED BY <1>1, <1>2, <2>1
<1>4. t = [s EXCEPT !.base[f] = m] BY DEF Trim
<1> HIDE DEF m
<1>5. /\ t.base = [s.base EXCEPT ![f] = m]
      /\ t.next = s.next /\ t.produced = s.produced /\ t.seen = s.seen /\ t.bytes = s.bytes
      /\ t.nextSend = s.nextSend /\ t.retransmit = s.retransmit /\ t.waiting = s.waiting
      /\ SameTurn(s, t) /\ SameWire(s, t) /\ SamePauses(s, t)
  BY <1>1, <1>4 DEF Device, SameTurn, SameWire, SamePauses
<1>6. t \in Device
  <2>1. t.base \in [Queues -> Nat] BY <1>2, <1>3, <1>5
  <2> QED BY <1>1, <1>4, <1>5, <2>1 DEF Device
<1>7. Counted(t)
  <2> SUFFICES ASSUME NEW j \in Queues PROVE t.base[j] <= t.produced[j]
    BY <1>5 DEF Sound, Counted
  <2>1. s.base[j] <= s.produced[j] BY DEF Sound, Counted
  <2>2. t.base[j] = IF j = f THEN m ELSE s.base[j] BY <1>2, <1>5
  <2> QED BY <1>3, <1>5, <2>1, <2>2
<1>8. PausesEnd(t) /\ OnWire(t) /\ t.rrlast < t.fcount
  BY <1>5 DEF Sound, PausesEnd, OnWire, SamePauses, SameTurn, SameWire
<1> QED BY <1>5, <1>6, <1>7, <1>8 DEF Sound

LEMMA RetransmitInv ==
  ASSUME NicInv, NEW f \in Flows, Retransmit(f)
  PROVE  NicInv'
<1>1. Sound(dev) /\ Order(dev, bypass) /\ inputs' \in 0..MaxInputs BY DEF NicInv, Retransmit
<1>2. PICK s : s = RecoverQueue(dev, f) OBVIOUS
<1>3. Sound(s) /\ SameTurn(dev, s) BY <1>1, <1>2, RecoverQueueSound
<1>4. PICK t : t = Release(s, f) OBVIOUS
<1>5. DequeueAndTransmit(t) BY <1>2, <1>4 DEF Retransmit
<1>6. Sound(t) /\ SameTurn(s, t) BY <1>3, <1>4, ReleaseSound
<1>7. Order(t, bypass) BY <1>1, <1>3, <1>6, SameOrder
<1> QED BY <1>1, <1>5, <1>6, <1>7, HandlerInv

LEMMA ReceiveACKInv ==
  ASSUME NicInv, NEW f \in Flows, NEW seq \in 0..MaxSeq, ReceiveACK(f, seq)
  PROVE  NicInv'
<1>1. Sound(dev) /\ dev \in Device /\ Order(dev, bypass) BY DEF NicInv, Sound
<1>2. inputs' \in 0..MaxInputs BY InputInv DEF ReceiveACK
<1>3. seq \in Nat /\ seq <= dev.seen[f]
  BY <1>1, Fields, Constants, NicAssumption DEF ReceiveACK
<1>4. PICK s : s = Trim(dev, f, seq) OBVIOUS
<1>5. /\ Sound(s) /\ SameTurn(dev, s) /\ SameWire(dev, s) /\ SamePauses(dev, s)
      /\ s.next = dev.next /\ s.produced = dev.produced /\ s.nextSend = dev.nextSend
      /\ s.retransmit = dev.retransmit
  BY <1>1, <1>3, <1>4, TrimSound
<1>6. Order(s, bypass) BY <1>1, <1>5, SameOrder
<1>7. \/ DequeueAndTransmit([Release(s, f) EXCEPT !.milestone[f] = @ + m_chunk])
      \/ dev' = s /\ UNCHANGED <<bypass, idled>>
  BY <1>4 DEF ReceiveACK
<1>8. CASE DequeueAndTransmit([Release(s, f) EXCEPT !.milestone[f] = @ + m_chunk])
  <2>1. PICK r : r = Release(s, f) OBVIOUS
  <2>2. Sound(r) /\ SameTurn(s, r) BY <1>5, <2>1, ReleaseSound
  <2>3. PICK t : t = [r EXCEPT !.milestone[f] = @ + m_chunk] OBVIOUS
  <2>4. DequeueAndTransmit(t) BY <1>8, <2>1, <2>3
  <2>5. Sound(t) /\ SameTurn(r, t) BY <2>2, <2>3, MilestoneSound
  <2>6. Order(r, bypass) BY <1>6, <2>2, SameOrder
  <2>7. Order(t, bypass) BY <2>5, <2>6, SameOrder
  <2> QED BY <1>2, <2>4, <2>5, <2>7, HandlerInv
<1>9. CASE dev' = s /\ UNCHANGED <<bypass, idled>>
  <2>1. Awake(dev) => Awake(s)
    BY <1>5 DEF Awake, Alarm, Backlogged, SameTurn, SameWire, SamePauses
  <2>2. bypass' = bypass /\ idled' = idled BY <1>9
  <2>3. Sound(dev') /\ Order(dev', bypass') BY <1>5, <1>6, <1>9, <2>2
  <2>4. bypass' \in [Flows -> Nat] /\ idled' \in BOOLEAN BY <2>2, Zenon DEF NicInv
  <2>5. idled' \/ Awake(dev')
    <3>1. CASE idled BY <2>2, <3>1
    <3>2. CASE Awake(dev) BY <1>9, <2>1, <3>2
    <3> QED BY <3>1, <3>2 DEF NicInv
  <2> QED BY <1>2, <2>3, <2>4, <2>5 DEF NicInv
<1> QED BY <1>7, <1>8, <1>9

LEMMA ReceiveNACKInv ==
  ASSUME NicInv, NEW f \in Flows, NEW seq \in 0..MaxSeq, ReceiveNACK(f, seq)
  PROVE  NicInv'
<1>1. Sound(dev) /\ dev \in Device /\ Order(dev, bypass) BY DEF NicInv, Sound
<1>2. inputs' \in 0..MaxInputs BY InputInv DEF ReceiveNACK
<1>3. seq \in Nat /\ seq <= dev.seen[f]
  BY <1>1, Fields, Constants, NicAssumption DEF ReceiveNACK
<1>4. PICK r : r = Trim(dev, f, seq) OBVIOUS
<1>5. Sound(r) /\ SameTurn(dev, r) BY <1>1, <1>3, <1>4, TrimSound
<1>6. PICK s : s = RecoverQueue(r, f) OBVIOUS
<1>7. Sound(s) /\ SameTurn(r, s) BY <1>5, <1>6, RecoverQueueSound
<1>8. Order(s, bypass) BY <1>1, <1>5, <1>7, SameOrder
<1>9. \/ DequeueAndTransmit(Release(s, f))
      \/ dev' = s /\ idled' = (s.tx = NoEvent) /\ UNCHANGED bypass
  BY <1>4, <1>6 DEF ReceiveNACK
<1>10. CASE DequeueAndTransmit(Release(s, f))
  <2>1. PICK t : t = Release(s, f) OBVIOUS
  <2>2. DequeueAndTransmit(t) BY <1>10, <2>1
  <2>3. Sound(t) /\ SameTurn(s, t) BY <1>7, <2>1, ReleaseSound
  <2>4. Order(t, bypass) BY <1>8, <2>3, SameOrder
  <2> QED BY <1>2, <2>2, <2>3, <2>4, HandlerInv
<1>11. CASE dev' = s /\ idled' = (s.tx = NoEvent) /\ UNCHANGED bypass
  <2>1. bypass' = bypass BY <1>11
  <2>2. Sound(dev') /\ Order(dev', bypass') /\ bypass' \in [Flows -> Nat]
    BY <1>7, <1>8, <1>11, <2>1 DEF NicInv
  <2>3. idled' \in BOOLEAN BY <1>11, Zenon
  <2>4. idled' \/ Awake(dev')
    <3>1. CASE s.tx = NoEvent BY <1>11, <3>1
    <3>2. CASE s.tx # NoEvent BY <1>11, <3>2 DEF Awake, Alarm
    <3> QED BY <3>1, <3>2
  <2> QED BY <1>2, <2>2, <2>3, <2>4 DEF NicInv
<1> QED BY <1>9, <1>10, <1>11

-----------------------------------------------------------------------------
(* Pauses, rates and time *)

LEMMA ReceivePauseInv ==
  ASSUME NicInv, NEW c \in Classes, ReceivePause(c)
  PROVE  NicInv'
<1>1. Sound(dev) /\ dev \in Device /\ Order(dev, bypass) BY DEF NicInv, Sound
<1>2. inputs' \in 0..MaxInputs BY InputInv DEF ReceivePause
<1>3. PICK t : t = dev' OBVIOUS
<1>4. t = [dev EXCEPT !.paused[c] = TRUE, !.resumeEvt[c] = m_pausetime]
      /\ bypass' = bypass /\ idled' = idled
  BY <1>3 DEF ReceivePause
<1>5. /\ t.paused = [dev.paused EXCEPT ![c] = TRUE]
      /\ t.resumeEvt = [dev.resumeEvt EXCEPT ![c] = m_pausetime]
      /\ SameCounts(dev, t) /\ SameTurn(dev, t) /\ SameWire(dev, t)
  BY <1>1, <1>4 DEF Device, SameCounts, SameTurn, SameWire
<1>6. t \in Device
  <2>1. t.resumeEvt \in [Classes -> Timer(m_pausetime)] BY <1>1, <1>5, Fields, Constants
  <2>2. t.paused \in [Classes -> BOOLEAN] BY <1>1, <1>5, Fields
  <2> QED BY <1>1, <1>4, <1>5, <2>1, <2>2 DEF Device
<1>7. t.resumeEvt[c] # NoEvent BY <1>1, <1>5, Fields, Constants
<1>8. PausesEnd(t)
  <2> SUFFICES ASSUME NEW k \in Classes, t.paused[k] PROVE t.resumeEvt[k] # NoEvent
    BY DEF PausesEnd
  <2>1. CASE k = c BY <1>7, <2>1
  <2>2. CASE k # c
    <3>1. dev.paused[k] BY <1>1, <1>5, <2>2, Fields
    <3>2. t.resumeEvt[k] = dev.resumeEvt[k] BY <1>1, <1>5, <2>2, Fields
    <3> QED BY <1>1, <3>1, <3>2 DEF Sound, PausesEnd
  <2> QED BY <2>1, <2>2
<1>9. Sound(t) BY <1>1, <1>5, <1>6, <1>8, SameSound
<1>10. Order(t, bypass') BY <1>1, <1>4, <1>5, SameOrder
<1>11. Awake(t) BY <1>7 DEF Awake, Alarm
<1>12. bypass' \in [Flows -> Nat] /\ idled' \in BOOLEAN BY <1>4, Zenon DEF NicInv
<1> QED BY <1>2, <1>3, <1>9, <1>10, <1>11, <1>12 DEF NicInv

LEMMA ResumeInv ==
  ASSUME NicInv, NEW c \in Classes, Resume(dev, c), inputs' \in 0..MaxInputs
  PROVE  NicInv'
<1>1. Sound(dev) /\ dev \in Device /\ Order(dev, bypass) BY DEF NicInv, Sound
<1>2. PICK t : t = [dev EXCEPT !.paused[c] = FALSE, !.resumeEvt[c] = NoEvent] OBVIOUS
<1>3. DequeueAndTransmit(t) BY <1>2 DEF Resume
<1>4. /\ t.paused = [dev.paused EXCEPT ![c] = FALSE]
      /\ t.resumeEvt = [dev.resumeEvt EXCEPT ![c] = NoEvent]
      /\ SameCounts(dev, t) /\ SameTurn(dev, t) /\ SameWire(dev, t)
  BY <1>1, <1>2 DEF Device, SameCounts, SameTurn, SameWire
<1>5. t \in Device
  <2>1. t.resumeEvt \in [Classes -> Timer(m_pausetime)] BY <1>1, <1>4, Fields, Constants
  <2>2. t.paused \in [Classes -> BOOLEAN] BY <1>1, <1>4, Fields
  <2> QED BY <1>1, <1>2, <1>4, <2>1, <2>2 DEF Device
<1>6. PausesEnd(t)
  <2> SUFFICES ASSUME NEW k \in Classes, t.paused[k] PROVE t.resumeEvt[k] # NoEvent
    BY DEF PausesEnd
  <2>1. k # c BY <1>1, <1>4, Fields
  <2>2. dev.paused[k] BY <1>1, <1>4, <2>1, Fields
  <2>3. t.resumeEvt[k] = dev.resumeEvt[k] BY <1>1, <1>4, <2>1, Fields
  <2> QED BY <1>1, <2>2, <2>3 DEF Sound, PausesEnd
<1>7. Sound(t) BY <1>1, <1>4, <1>5, <1>6, SameSound
<1>8. Order(t, bypass) BY <1>1, <1>4, SameOrder
<1> QED BY <1>3, <1>7, <1>8, HandlerInv

LEMMA SetRateInv ==
  ASSUME NicInv, NEW f \in Flows, NEW v \in Slowdowns, SetRate(f, v)
  PROVE  NicInv'
<1>1. Sound(dev) /\ dev \in Device /\ Order(dev, bypass) BY DEF NicInv, Sound
<1>2. inputs' \in 0..MaxInputs BY InputInv DEF SetRate
<1>3. PICK t : t = dev' OBVIOUS
<1>4. t = [dev EXCEPT !.slow[f] = v] /\ bypass' = bypass /\ idled' = idled
  BY <1>3 DEF SetRate
<1>5. /\ t.slow = [dev.slow EXCEPT ![f] = v]
      /\ t.retransmit = dev.retransmit /\ t.nextSend = dev.nextSend
      /\ SameCounts(dev, t) /\ SameTurn(dev, t) /\ SameWire(dev, t) /\ SamePauses(dev, t)
  BY <1>1, <1>4 DEF Device, SameCounts, SameTurn, SameWire, SamePauses
<1>6. t \in Device
  <2>1. v \in Nat BY NicAssumption
  <2>2. f \in Queues /\ dev.slow \in [Queues -> Nat] BY <1>1, Fields, Constants
  <2>3. t.slow \in [Queues -> Nat] BY <1>5, <2>1, <2>2
  <2> QED BY <1>1, <1>4, <1>5, <2>3 DEF Device
<1>7. PausesEnd(t) BY <1>1, <1>5 DEF Sound, PausesEnd, SamePauses
<1>8. Sound(t) BY <1>1, <1>5, <1>6, <1>7, SameSound
<1>9. Order(t, bypass') BY <1>1, <1>4, <1>5, SameOrder
<1>10. Awake(dev) => Awake(t)
  BY <1>5 DEF Awake, Alarm, Backlogged, SameCounts, SameTurn, SameWire, SamePauses
<1>11. /\ idled' \/ Awake(t)
       /\ bypass' \in [Flows -> Nat] /\ idled' \in BOOLEAN
  BY <1>4, <1>10, Zenon DEF NicInv
<1> QED BY <1>2, <1>3, <1>8, <1>9, <1>11 DEF NicInv

LEMMA TickInv ==
  ASSUME NicInv, Tick
  PROVE  NicInv'
<1> DEFINE Before(t) == IF t \in {NoEvent, 0, Far} THEN t ELSE t - 1
           R == [i \in Queues |-> Before(dev.retransmit[i])]
           P == [c \in Classes |-> Before(dev.resumeEvt[c])]
           A == [i \in Queues |-> Before(dev.avail[i])]
           x == Before(dev.tx)
           y == Before(dev.nextSend)
<1>1. Sound(dev) /\ dev \in Device /\ Order(dev, bypass) BY DEF NicInv, Sound
<1>2. PICK t : t = dev' OBVIOUS
<1>3. /\ t = [dev EXCEPT !.tx = x, !.nextSend = y, !.retransmit = R, !.resumeEvt = P, !.avail = A]
      /\ inputs' = inputs /\ bypass' = bypass /\ idled' = idled
  BY <1>2 DEF Tick
<1>4. ASSUME NEW m \in Int, NEW u \in Timer(m)
      PROVE  Before(u) \in Timer(m) /\ (Before(u) = NoEvent <=> u = NoEvent)
  BY <1>4 DEF Timer, NoEvent
<1>5. ASSUME NEW u \in Nat \cup {NoEvent}
      PROVE  /\ Before(u) \in Nat \cup {NoEvent} /\ (Before(u) = NoEvent <=> u = NoEvent)
             /\ u \in Nat => Before(u) \in Nat
  BY <1>5 DEF NoEvent
<1>6. x \in Timer(Max({Size, CtlSize})) /\ (x = NoEvent <=> dev.tx = NoEvent)
  <2>1. Max({Size, CtlSize}) \in Int
    <3>1. Size \in Int /\ CtlSize \in Int BY Constants
    <3> QED BY <3>1, MaxOfTwo
  <2> HIDE DEF Before
  <2> QED BY <1>1, <1>4, <2>1, Fields
<1>7. y \in Nat \cup {NoEvent} /\ (y = NoEvent <=> dev.nextSend = NoEvent)
  <2> HIDE DEF Before
  <2> QED BY <1>1, <1>5, Fields
<1>8. /\ R \in [Queues -> Timer(m_waitAckTimer)]
      /\ \A i \in Queues : R[i] = NoEvent <=> dev.retransmit[i] = NoEvent
  <2>1. m_waitAckTimer \in Int BY NicAssumption
  <2> HIDE DEF Before
  <2> QED BY <1>1, <1>4, <2>1, Fields
<1>9. /\ P \in [Classes -> Timer(m_pausetime)]
      /\ \A c \in Classes : P[c] = NoEvent <=> dev.resumeEvt[c] = NoEvent
  <2>1. m_pausetime \in Int BY NicAssumption
  <2> HIDE DEF Before
  <2> QED BY <1>1, <1>4, <2>1, Fields
<1>10. A \in [Queues -> Nat]
  <2> HIDE DEF Before
  <2> QED BY <1>1, <1>5, Fields
<1> HIDE DEF Before, x, y, R, P, A
<1>11. t \in Device BY <1>1, <1>3, <1>6, <1>7, <1>8, <1>9, <1>10 DEF Device
<1>12. /\ t.tx = x /\ t.nextSend = y /\ t.retransmit = R /\ t.resumeEvt = P
       /\ t.paused = dev.paused /\ t.cur = dev.cur
       /\ SameCounts(dev, t) /\ SameTurn(dev, t)
  BY <1>1, <1>3 DEF Device, SameCounts, SameTurn
<1>13. Counted(t) BY <1>1, <1>12 DEF Sound, Counted, SameCounts
<1>14. PausesEnd(t) BY <1>1, <1>9, <1>12 DEF Sound, PausesEnd
<1>15. OnWire(t) BY <1>1, <1>6, <1>12 DEF Sound, OnWire, SameCounts
<1>16. Sound(t) BY <1>1, <1>11, <1>12, <1>13, <1>14, <1>15 DEF Sound, SameTurn
<1>17. Order(t, bypass') BY <1>1, <1>3, <1>12, SameOrder
<1>18. Awake(dev) => Awake(t)
  <2>1. Backlogged(t) = Backlogged(dev) BY <1>12 DEF Backlogged, SameCounts, SameTurn
  <2>2. Alarm(dev) => Alarm(t) BY <1>6, <1>7, <1>8, <1>9, <1>12 DEF Alarm
  <2> QED BY <2>1, <2>2 DEF Awake
<1>19. /\ idled' \/ Awake(t)
       /\ bypass' \in [Flows -> Nat] /\ idled' \in BOOLEAN /\ inputs' \in 0..MaxInputs
  BY <1>3, <1>18, Zenon DEF NicInv
<1> QED BY <1>2, <1>16, <1>17, <1>19 DEF NicInv

-----------------------------------------------------------------------------
(* The theorems *)

LEMMA NextInv ==
  ASSUME NicInv, [Next]_vars
  PROVE  NicInv'
<1>1. CASE TransmitComplete BY <1>1, TransmitCompleteInv
<1>2. CASE NextSend BY <1>2, NextSendInv
<1>3. ASSUME NEW f \in Flows, Retransmit(f) PROVE NicInv' BY <1>3, RetransmitInv
<1>4. ASSUME NEW c \in Classes, PauseFinish(c) PROVE NicInv'
  <2>1. Resume(dev, c) /\ inputs' \in 0..MaxInputs BY <1>4 DEF PauseFinish, NicInv
  <2> QED BY <2>1, ResumeInv
<1>5. CASE Tick BY <1>5, TickInv
<1>6. CASE SendControl BY <1>6, SendControlInv
<1>7. ASSUME NEW f \in Flows, Send(f) PROVE NicInv' BY <1>7, SendInv
<1>8. ASSUME NEW c \in Classes, ReceivePause(c) PROVE NicInv' BY <1>8, ReceivePauseInv
<1>9. ASSUME NEW c \in Classes, ReceiveResume(c) PROVE NicInv'
  <2>1. Resume(dev, c) BY <1>9 DEF ReceiveResume
  <2>2. inputs' \in 0..MaxInputs BY <1>9, InputInv DEF ReceiveResume
  <2> QED BY <2>1, <2>2, ResumeInv
<1>10. ASSUME NEW f \in Flows, NEW seq \in 0..MaxSeq, ReceiveACK(f, seq) PROVE NicInv'
  BY <1>10, ReceiveACKInv
<1>11. ASSUME NEW f \in Flows, NEW seq \in 0..MaxSeq, ReceiveNACK(f, seq) PROVE NicInv'
  BY <1>11, ReceiveNACKInv
<1>12. ASSUME NEW f \in Flows, NEW v \in Slowdowns, SetRate(f, v) PROVE NicInv'
  BY <1>12, SetRateInv
<1>13. CASE UNCHANGED vars
  <2>1. dev' = dev /\ inputs' = inputs /\ bypass' = bypass /\ idled' = idled
    BY <1>13 DEF vars
  <2> QED BY <2>1, Zenon DEF NicInv
<1> QED
  BY <1>1, <1>2, <1>3, <1>4, <1>5, <1>6, <1>7, <1>8, <1>9, <1>10, <1>11, <1>12, <1>13
  DEF Next, Internal

LEMMA Invariance == Spec => []NicInv
<1>1. Init => NicInv BY InitInv
<1>2. NicInv /\ [Next]_vars => NicInv' BY NextInv
<1> QED BY <1>1, <1>2, PTL DEF Spec

\* The fields of the device keep their types: DequeueAndTransmit never leaves a
\* flow with negative credits or an m_nextAvail in the past, whatever the rates
\* and the credits were, and RecoverQueue never takes m_bytesInQueue below 0.
THEOREM TypeCorrect == Spec => []TypeOK
<1>1. NicInv => TypeOK BY DEF NicInv, Sound, TypeOK
<1> QED BY <1>1, Invariance, PTL

\* m_bytesInQueue is the size of what each queue holds, through every Send,
\* dequeue and RecoverQueue, although RecoverQueue subtracts what it clears and
\* adds what it refills.
THEOREM ByteCountsExact == Spec => []QueueBytesExact
<1>1. NicInv => QueueBytesExact
  <2> SUFFICES ASSUME NicInv PROVE QueueBytesExact OBVIOUS
  <2>1. \A i \in Queues : dev.bytes[i] = PacketSize(i) * (dev.produced[i] - dev.next[i])
    BY DEF NicInv, Sound, Counted
  <2>2. 0 \in Queues /\ PacketSize(0) = CtlSize BY Constants DEF PacketSize
  <2>3. \A f \in Flows : f \in Queues /\ PacketSize(f) = Size BY Constants
  <2>4. dev.bytes[0] = CtlSize * (dev.produced[0] - dev.next[0]) BY <2>1, <2>2
  <2>5. \A f \in Flows : dev.bytes[f] = Size * (dev.produced[f] - dev.next[f])
    BY <2>1, <2>3
  <2> QED BY <2>4, <2>5 DEF QueueBytesExact
<1> QED BY <1>1, Invariance, PTL

\* DequeueAndTransmit never leaves an idle transmitter with packets and without
\* an event that calls it again; only the NACK that restarts nothing does.
THEOREM NoLostWakeup == Spec => []WakeupExists
<1>1. NicInv => WakeupExists
  BY AlarmIsEvent DEF NicInv, WakeupExists, Awake
<1> QED BY <1>1, Invariance, PTL

\* The round robin of DoDequeueQCN is fair to a flow that may send: every other
\* flow overtakes it at most once, however many flows join meanwhile.
THEOREM RoundRobinIsFair == Spec => []BoundedBypass
<1>1. NicInv => BoundedBypass
  <2> SUFFICES ASSUME NicInv, NEW f \in Flows
               PROVE  bypass[f] <= Max({0, dev.fcount - 2})
    BY DEF BoundedBypass
  <2>1. dev \in Device /\ dev.rrlast < dev.fcount /\ Order(dev, bypass) /\ bypass[f] \in Nat
    BY DEF NicInv, Sound
  <2>2. dev.fcount \in Nat /\ dev.rrlast \in Nat /\ f \in Nat /\ f > 0
    BY <2>1, Fields, Constants
  <2>3. Max({0, dev.fcount - 2}) = IF 0 >= dev.fcount - 2 THEN 0 ELSE dev.fcount - 2
    BY <2>2, MaxOfTwo
  <2>4. IF f < dev.fcount THEN bypass[f] + Between(dev, f) <= dev.fcount - 2 ELSE bypass[f] = 0
    BY <2>1 DEF Order
  <2>5. f < dev.fcount => Between(dev, f) \in Nat BY <2>1, <2>2 DEF Between
  <2> QED BY <2>1, <2>2, <2>3, <2>4, <2>5
<1> QED BY <1>1, Invariance, PTL
===============================================================================
