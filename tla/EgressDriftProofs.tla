-------------------------- MODULE EgressDriftProofs --------------------------
(***************************************************************************)
(* The egress counters of a queue never drift from its length by more than *)
(* a packet or a guarantee (EgressDriftBounded), for every instance.       *)
(*                                                                         *)
(* The invariant is not inductive as it stands.  RemoveFromEgressAdmission *)
(* keeps the drift bounded because the packet it releases is no longer     *)
(* than the bytes counted in its queue, and UpdateEgressAdmission because  *)
(* the shared counter stays under the limit CheckEgressAdmission tests, so *)
(* nothing wraps.  The strengthening adds both: SumIs and the last         *)
(* conjunct of Drift.                                                      *)
(***************************************************************************)
EXTENDS QbbSwitchProofs

\* n is the sum of the packet sizes of queue, witnessed by its partial sums.
SumIs(queue, n) ==
    \E f \in [0..Len(queue) -> Nat] :
      /\ f[0] = 0
      /\ f[Len(queue)] = n
      /\ \A k \in 1..Len(queue) : f[k] = f[k - 1] + queue[k].size
      /\ \A j, k \in 0..Len(queue) : j <= k => f[j] <= f[k]

\* min and shared are the two counters of a queue of bytes bytes.
Drift(min, shared, bytes) ==
    /\ Signed(min) + shared = bytes
    /\ Signed(min) > -MaxSize
    /\ Signed(min) <= m_q_min_cell \/ Signed(min) <= Cell
    /\ shared <= m_op_uc_port_config1_cell

Counted(s, p, q) ==
    /\ Drift(s.out.QMin[p][q], s.out.QShared[p][q], s.bytes[p][q])
    /\ SumIs(s.qs[p][q], s.bytes[p][q])

AllCounted(s) == \A p \in Ports, q \in PGs : Counted(s, p, q)

-----------------------------------------------------------------------------
(* Sums of queues *)

LEMMA SumEmpty == ASSUME NEW queue, Len(queue) = 0 PROVE SumIs(queue, 0)
<1> DEFINE L == Len(queue)
           f == [k \in 0..L |-> 0]
<1>1. L = 0 OBVIOUS
<1> HIDE DEF L
<1>2. f \in [0..L -> Nat] OBVIOUS
<1>3. f[0] = 0 /\ f[L] = 0 BY <1>1
<1>4. \A k \in 1..L : f[k] = f[k - 1] + queue[k].size
  <2>1. 1..L = {} BY <1>1
  <2> QED BY <2>1
<1>5. \A j, k \in 0..L : j <= k => f[j] <= f[k] OBVIOUS
<1> HIDE DEF f
<1> QED BY <1>2, <1>3, <1>4, <1>5 DEF SumIs, L

LEMMA PacketSize == ASSUME NEW pkt \in Packet PROVE pkt.size \in Nat
<1>1. pkt.size \in Sizes BY DEF Packet
<1>2. \A z \in Sizes : z \in Nat BY SizeAssumption
<1> QED BY <1>1, <1>2

LEMMA SumAppend ==
  ASSUME NEW queue \in Seq(Packet), NEW n, SumIs(queue, n), NEW pkt \in Packet
  PROVE  SumIs(Append(queue, pkt), n + pkt.size)
<1> DEFINE L == Len(queue)
           new == Append(queue, pkt)
<1>1. PICK f \in [0..L -> Nat] :
        /\ f[0] = 0
        /\ f[L] = n
        /\ \A k \in 1..L : f[k] = f[k - 1] + queue[k].size
        /\ \A j, k \in 0..L : j <= k => f[j] <= f[k]
  BY DEF SumIs
<1>2. L \in Nat /\ Len(new) = L + 1 OBVIOUS
<1>3. new[L + 1] = pkt /\ \A k \in 1..L : new[k] = queue[k] OBVIOUS
<1>4. pkt.size \in Nat /\ n \in Nat BY <1>1, <1>2, PacketSize
<1> DEFINE g == [k \in 0..(L + 1) |-> IF k <= L THEN f[k] ELSE n + pkt.size]
<1> HIDE DEF new, L
<1>5. g \in [0..(L + 1) -> Nat] BY <1>2, <1>4
<1>6. g[0] = 0 /\ g[L + 1] = n + pkt.size BY <1>1, <1>2
<1>7. \A k \in 1..(L + 1) : g[k] = g[k - 1] + new[k].size
  <2> TAKE k \in 1..(L + 1)
  <2>1. CASE k <= L
    <3>1. k \in 1..L /\ k - 1 \in 0..L BY <2>1, <1>2
    <3>2. g[k] = f[k] /\ g[k - 1] = f[k - 1] BY <3>1, <1>2
    <3> QED BY <3>1, <3>2, <1>1, <1>3
  <2>2. CASE k = L + 1
    <3>1. g[k] = n + pkt.size /\ g[k - 1] = f[L] BY <2>2, <1>2
    <3> QED BY <2>2, <3>1, <1>1, <1>3
  <2> QED BY <2>1, <2>2, <1>2
<1>8. \A j, k \in 0..(L + 1) : j <= k => g[j] <= g[k]
  <2> SUFFICES ASSUME NEW j \in 0..(L + 1), NEW k \in 0..(L + 1), j <= k
               PROVE  g[j] <= g[k]
    OBVIOUS
  <2>1. CASE k <= L BY <2>1, <1>1, <1>2
  <2>2. CASE k = L + 1 /\ j <= L
    <3>1. f[j] <= n BY <2>2, <1>1, <1>2
    <3> QED BY <2>2, <3>1, <1>1, <1>2, <1>4
  <2>3. CASE k = L + 1 /\ j = L + 1 BY <2>3, <1>4, <1>2
  <2> QED BY <2>1, <2>2, <2>3, <1>2
<1> HIDE DEF g
<1> QED BY <1>2, <1>5, <1>6, <1>7, <1>8 DEF SumIs, new

LEMMA SumTail ==
  ASSUME NEW queue \in Seq(Packet), NEW n, SumIs(queue, n), queue # <<>>
  PROVE  /\ Head(queue).size <= n
         /\ SumIs(Tail(queue), n - Head(queue).size)
<1> DEFINE L == Len(queue)
           new == Tail(queue)
<1>1. PICK f \in [0..L -> Nat] :
        /\ f[0] = 0
        /\ f[L] = n
        /\ \A k \in 1..L : f[k] = f[k - 1] + queue[k].size
        /\ \A j, k \in 0..L : j <= k => f[j] <= f[k]
  BY DEF SumIs
<1>2. L \in Nat /\ L >= 1 /\ Len(new) = L - 1 OBVIOUS
<1>3. Head(queue) = queue[1] /\ \A k \in 1..(L - 1) : new[k] = queue[k + 1] OBVIOUS
<1>13. \A k \in 1..L : queue[k].size \in Nat BY PacketSize
<1> DEFINE z == Head(queue).size
<1> HIDE DEF new, L
<1>4. f[1] = z
  <2>1. f[1] = 0 + queue[1].size BY <1>1, <1>2
  <2>2. queue[1].size \in Nat BY <1>2, <1>13
  <2> QED BY <2>1, <2>2, <1>3
<1> HIDE DEF z
<1>5. \A k \in 1..L : f[1] <= f[k] BY <1>1, <1>2
<1>6. z <= n BY <1>1, <1>2, <1>4, <1>5
<1> DEFINE g == [k \in 0..(L - 1) |-> f[k + 1] - z]
<1>7. \A k \in 0..(L - 1) : k + 1 \in 1..L /\ k + 1 \in 0..L BY <1>2
<1>8. \A k \in 0..(L - 1) : g[k] = f[k + 1] - z OBVIOUS
<1>9. g \in [0..(L - 1) -> Nat]
  <2>1. \A k \in 0..(L - 1) : f[k + 1] - z \in Nat BY <1>1, <1>4, <1>5, <1>7, <1>2
  <2> QED BY <2>1
<1> HIDE DEF g
<1>10. g[0] = 0 /\ g[L - 1] = n - z
  <2>1. 0 \in 0..(L - 1) /\ L - 1 \in 0..(L - 1) /\ 0 + 1 = 1 /\ (L - 1) + 1 = L BY <1>2
  <2>2. g[0] = f[1] - z /\ g[L - 1] = f[L] - z BY <2>1, <1>8
  <2> QED BY <2>2, <1>1, <1>2, <1>4
<1>11. \A k \in 1..(L - 1) : g[k] = g[k - 1] + new[k].size
  <2> TAKE k \in 1..(L - 1)
  <2>1. k \in 0..(L - 1) /\ k - 1 \in 0..(L - 1) /\ k + 1 \in 1..L /\ (k - 1) + 1 = k BY <1>2
  <2>2. g[k] = f[k + 1] - z /\ g[k - 1] = f[k] - z BY <2>1, <1>8
  <2>3. f[k + 1] = f[k] + queue[k + 1].size
    <3>1. (k + 1) - 1 = k BY <1>2
    <3> QED BY <2>1, <3>1, <1>1
  <2>4. f[k] \in Nat /\ queue[k + 1].size \in Nat /\ z \in Nat
    BY <2>1, <1>1, <1>2, <1>4, <1>13
  <2> QED BY <2>2, <2>3, <2>4, <1>3
<1>12. \A j, k \in 0..(L - 1) : j <= k => g[j] <= g[k]
  BY <1>1, <1>2, <1>4, <1>7, <1>8
<1> QED BY <1>2, <1>6, <1>9, <1>10, <1>11, <1>12 DEF SumIs, new, z

-----------------------------------------------------------------------------
(* The counters of one queue *)

\* What UpdateEgressAdmission does to the counters of the queue it charges.
LEMMA ChargeDrift ==
  ASSUME NEW m \in Word, NEW s \in Word, NEW b \in Word, NEW z \in Sizes,
         Drift(m, s, b), Add(s, z) <= m_op_uc_port_config1_cell
  PROVE  /\ Add(b, z) = b + z
         /\ Add(m, z) < m_q_min_cell => Drift(Add(m, z), s, b + z)
         /\ ~(Add(m, z) < m_q_min_cell) /\ m < Cell /\ Add(s, z) > Cell
              => Drift(Cell, Add(Sub(Add(s, z), Cell), m), b + z)
         /\ ~(Add(m, z) < m_q_min_cell) /\ ~(m < Cell /\ Add(s, z) > Cell)
              => Drift(m, Add(s, z), b + z)
<1> USE ThresholdAssumption, SizeAssumption, RoomAssumption
<1>1. z \in 1..MaxSize BY SizeType
<1>2. Add(b, z) = b + z /\ Add(s, z) = s + z
  BY <1>1 DEF Drift, Signed, Add, Word
<1>3. Add(m, z) < m_q_min_cell => Drift(Add(m, z), s, b + z)
  BY <1>1 DEF Drift, Signed, Add, Word
<1>4. m < Cell /\ s + z > Cell => Add(Sub(s + z, Cell), m) = s + z - Cell + m
  BY <1>1, <1>2 DEF Drift, Signed, Add, Sub, Word
<1>5. m < Cell /\ s + z > Cell => Drift(Cell, s + z - Cell + m, b + z)
  BY <1>1, <1>2 DEF Drift, Signed, Word
<1>6. Drift(m, s + z, b + z)
  BY <1>1, <1>2 DEF Drift, Signed, Word
<1> QED BY <1>2, <1>3, <1>4, <1>5, <1>6

\* What RemoveFromEgressAdmission does to them.
LEMMA ReleaseDrift ==
  ASSUME NEW m \in Word, NEW s \in Word, NEW b \in Word, NEW z \in Sizes,
         Drift(m, s, b), z <= b
  PROVE  LET n == Sub(m, z)
         IN  /\ Sub(b, z) = b - z
             /\ s >= z => Drift(m, Sub(s, z), b - z)
             /\ ~(s >= z) /\ n < Cell /\ s > Cell
                  => Drift(Cell, Add(Sub(s, Cell), n), b - z)
             /\ ~(s >= z) /\ ~(n < Cell /\ s > Cell) => Drift(n, s, b - z)
<1> USE ThresholdAssumption, SizeAssumption, RoomAssumption
<1>1. z \in 1..MaxSize BY SizeType
<1>2. Sub(b, z) = b - z BY <1>1 DEF Sub, Word
<1>3. s >= z => Drift(m, Sub(s, z), b - z)
  BY <1>1 DEF Drift, Signed, Sub, Word
<1>4. ~(s >= z) => Signed(m) = m
  BY <1>1 DEF Drift, Signed, Word
<1>5. ~(s >= z) => Drift(Sub(m, z), s, b - z)
  BY <1>1, <1>4 DEF Drift, Signed, Sub, Word
<1>6. Sub(m, z) \in Word BY SubType, SizeType
<1>7. ~(s >= z) /\ Sub(m, z) < Cell /\ s > Cell
        => Drift(Cell, Add(Sub(s, Cell), Sub(m, z)), b - z)
  <2> DEFINE n == Sub(m, z)
  <2> HIDE DEF n
  <2>1. SUFFICES ASSUME Drift(n, s, b - z), n < Cell, s > Cell, n \in Word
                 PROVE  Drift(Cell, Add(Sub(s, Cell), n), b - z)
    BY <1>5, <1>6 DEF n
  <2>2. Signed(n) = n BY <2>1 DEF Drift, Signed, Word
  <2>3. Add(Sub(s, Cell), n) = s - Cell + n BY <2>1 DEF Drift, Add, Sub, Word
  <2> QED BY <2>1, <2>2, <2>3, <1>1 DEF Drift, Signed, Word
<1> QED BY <1>2, <1>3, <1>5, <1>7

-----------------------------------------------------------------------------
(* The handlers' operators keep every queue counted *)

\* UpdateEgressAdmission and RemoveFromEgressAdmission touch one queue only.
Elsewhere(new, old, p, q) ==
    \A r \in Ports, c \in PGs :
      r # p \/ c # q => new.QMin[r][c] = old.QMin[r][c] /\ new.QShared[r][c] = old.QShared[r][c]

LEMMA PatchAt ==
  ASSUME NEW out \in EgressCounters, NEW p \in Ports, NEW q \in PGs
  PROVE  LET new == PatchSizes(out, p, q)
             m   == out.QMin[p][q]
             s   == out.QShared[p][q]
         IN  /\ Elsewhere(new, out, p, q)
             /\ m < Cell /\ s > Cell
                  => new.QMin[p][q] = Cell /\ new.QShared[p][q] = Add(Sub(s, Cell), m)
             /\ ~(m < Cell /\ s > Cell) => new = out
BY DEF PatchSizes, EgressCounters, Elsewhere

LEMMA SetQMinAt ==
  ASSUME NEW out \in EgressCounters, NEW p \in Ports, NEW q \in PGs, NEW m \in Word
  PROVE  LET new == SetQMin(out, p, q, m)
         IN  /\ Elsewhere(new, out, p, q)
             /\ new.QMin[p][q] = m /\ new.QShared[p][q] = out.QShared[p][q]
BY DEF SetQMin, EgressCounters, Elsewhere

LEMMA UpdateEgressDrift ==
  ASSUME NEW out \in EgressCounters, NEW p \in Ports, NEW q \in PGs, NEW z \in Sizes,
         NEW b \in Word, Drift(out.QMin[p][q], out.QShared[p][q], b),
         Add(out.QShared[p][q], z) <= m_op_uc_port_config1_cell
  PROVE  LET new == UpdateEgressAdmission(out, p, q, z)
         IN  /\ Add(b, z) = b + z
             /\ Drift(new.QMin[p][q], new.QShared[p][q], b + z)
             /\ Elsewhere(new, out, p, q)
<1> DEFINE m   == out.QMin[p][q]
           s   == out.QShared[p][q]
           mid == ChargeShared(out, p, q, z)
           new == UpdateEgressAdmission(out, p, q, z)
<1>1. m \in Word /\ s \in Word /\ z \in Word BY SizeType DEF EgressCounters
<1>2. Add(m, z) \in Word /\ Add(s, z) \in Word BY <1>1, AddType
<1>3. mid \in EgressCounters
  <2>1. GetEgressSP(p, q) \in Pools BY PoolType
  <2>2. \A a \in Word : Add(a, z) \in Word BY <1>1, AddType
  <2> QED BY <2>1, <2>2 DEF ChargeShared, EgressCounters
<1>4. /\ mid.QMin[p][q] = m /\ mid.QShared[p][q] = Add(s, z)
      /\ Elsewhere(mid, out, p, q)
  BY DEF ChargeShared, EgressCounters, Elsewhere
<1>5. /\ Add(b, z) = b + z
      /\ Add(m, z) < m_q_min_cell => Drift(Add(m, z), s, b + z)
      /\ ~(Add(m, z) < m_q_min_cell) /\ m < Cell /\ Add(s, z) > Cell
           => Drift(Cell, Add(Sub(Add(s, z), Cell), m), b + z)
      /\ ~(Add(m, z) < m_q_min_cell) /\ ~(m < Cell /\ Add(s, z) > Cell)
           => Drift(m, Add(s, z), b + z)
  BY <1>1, ChargeDrift
<1>6. CASE Add(m, z) < m_q_min_cell
  <2>1. new = SetQMin(out, p, q, Add(m, z)) BY <1>6 DEF UpdateEgressAdmission
  <2> HIDE DEF new, m, s, mid
  <2>2. new.QMin[p][q] = Add(m, z) /\ new.QShared[p][q] = s /\ Elsewhere(new, out, p, q)
    BY <2>1, <1>2, SetQMinAt DEF s
  <2> QED BY <2>2, <1>5, <1>6 DEF new
<1>7. CASE ~(Add(m, z) < m_q_min_cell)
  <2>1. new = PatchSizes(mid, p, q) BY <1>7 DEF UpdateEgressAdmission
  <2> HIDE DEF new, m, s, mid
  <2>2. /\ Elsewhere(new, mid, p, q)
        /\ m < Cell /\ Add(s, z) > Cell
             => new.QMin[p][q] = Cell /\ new.QShared[p][q] = Add(Sub(Add(s, z), Cell), m)
        /\ ~(m < Cell /\ Add(s, z) > Cell) => new = mid
    BY <2>1, <1>3, <1>4, PatchAt
  <2>3. Elsewhere(new, out, p, q) BY <2>2, <1>4 DEF Elsewhere
  <2>4. Drift(new.QMin[p][q], new.QShared[p][q], b + z) BY <2>2, <1>4, <1>5, <1>7
  <2> QED BY <2>3, <2>4, <1>5 DEF new
<1> QED BY <1>6, <1>7

LEMMA RemoveEgressDrift ==
  ASSUME NEW out \in EgressCounters, NEW p \in Ports, NEW q \in PGs, NEW z \in Sizes,
         NEW b \in Word, Drift(out.QMin[p][q], out.QShared[p][q], b), z <= b
  PROVE  LET new == RemoveFromEgressAdmission(out, p, q, z)
         IN  /\ Sub(b, z) = b - z
             /\ Drift(new.QMin[p][q], new.QShared[p][q], b - z)
             /\ Elsewhere(new, out, p, q)
<1> DEFINE m   == out.QMin[p][q]
           s   == out.QShared[p][q]
           n   == Sub(m, z)
           mid == SetQMin(out, p, q, n)
           new == RemoveFromEgressAdmission(out, p, q, z)
<1>1. m \in Word /\ s \in Word /\ z \in Word BY SizeType DEF EgressCounters
<1>2. n \in Word BY <1>1, SubType
<1>3. /\ Sub(b, z) = b - z
      /\ s >= z => Drift(m, Sub(s, z), b - z)
      /\ ~(s >= z) /\ n < Cell /\ s > Cell
           => Drift(Cell, Add(Sub(s, Cell), n), b - z)
      /\ ~(s >= z) /\ ~(n < Cell /\ s > Cell) => Drift(n, s, b - z)
  BY <1>1, ReleaseDrift
<1>4. CASE s >= z
  <2>1. new = ReleaseShared(out, p, q, z) BY <1>4 DEF RemoveFromEgressAdmission
  <2>2. ReleaseShared(out, p, q, z).QMin[p][q] = m
    BY DEF ReleaseShared
  <2>3. ReleaseShared(out, p, q, z).QShared[p][q] = Sub(s, z)
    BY DEF ReleaseShared, EgressCounters
  <2>4. Elsewhere(ReleaseShared(out, p, q, z), out, p, q)
    BY DEF ReleaseShared, EgressCounters, Elsewhere
  <2> QED BY <1>3, <1>4, <2>1, <2>2, <2>3, <2>4
<1>5. CASE ~(s >= z)
  <2>1. new = PatchSizes(mid, p, q) BY <1>5 DEF RemoveFromEgressAdmission
  <2> HIDE DEF new, m, s, n
  <2>2. mid \in EgressCounters BY <1>2, SetQMinType
  <2>3. mid.QMin[p][q] = n /\ mid.QShared[p][q] = s /\ Elsewhere(mid, out, p, q)
    BY <1>2, SetQMinAt DEF s
  <2> HIDE DEF mid
  <2>4. /\ Elsewhere(new, mid, p, q)
        /\ n < Cell /\ s > Cell
             => new.QMin[p][q] = Cell /\ new.QShared[p][q] = Add(Sub(s, Cell), n)
        /\ ~(n < Cell /\ s > Cell) => new = mid
    BY <2>1, <2>2, <2>3, PatchAt
  <2>5. Elsewhere(new, out, p, q) BY <2>3, <2>4 DEF Elsewhere
  <2>6. Drift(new.QMin[p][q], new.QShared[p][q], b - z) BY <2>3, <2>4, <1>3, <1>5
  <2> QED BY <2>5, <2>6, <1>3 DEF new
<1> QED BY <1>4, <1>5

LEMMA AdmitCounted ==
  ASSUME NEW s \in States, AllCounted(s), NEW p \in Ports, NEW i \in Ports,
         NEW q \in PGs, NEW z \in Sizes
  PROVE  AllCounted(Admit(s, p, i, q, z))
<1> DEFINE pkt == [inDev |-> i, size |-> z]
           t   == Admit(s, p, i, q, z)
           out == UpdateEgressAdmission(s.out, p, q, z)
<1>1. CASE ~(/\ CheckIngressAdmission(s.in, i, q, z)
             /\ CheckEgressAdmission(s.out, p, q, z))
  BY <1>1 DEF Admit
<1>2. CASE /\ CheckIngressAdmission(s.in, i, q, z)
           /\ CheckEgressAdmission(s.out, p, q, z)
  <2>1. /\ t.out = out
        /\ t.qs = [s.qs EXCEPT ![p][q] = Append(@, pkt)]
        /\ t.bytes = [s.bytes EXCEPT ![p][q] = Add(@, z)]
    BY <1>2 DEF Admit
  <2>2. s.out \in EgressCounters /\ s.bytes \in [Ports -> [PGs -> Word]]
        /\ s.qs \in [Ports -> [PGs -> Seq(Packet)]]
    BY DEF States
  <2>3. Counted(s, p, q) BY DEF AllCounted
  <2>4. /\ Add(s.bytes[p][q], z) = s.bytes[p][q] + z
        /\ Drift(out.QMin[p][q], out.QShared[p][q], s.bytes[p][q] + z)
        /\ Elsewhere(out, s.out, p, q)
    <3>1. s.bytes[p][q] \in Word BY <2>2
    <3>2. Add(s.out.QShared[p][q], z) <= m_op_uc_port_config1_cell
      BY <1>2 DEF CheckEgressAdmission
    <3> QED BY <2>2, <2>3, <3>1, <3>2, UpdateEgressDrift DEF Counted
  <2> HIDE DEF out, t
  <2>5. pkt \in Packet /\ pkt.size = z BY DEF Packet
  <2> HIDE DEF pkt
  <2>6. SumIs(Append(s.qs[p][q], pkt), s.bytes[p][q] + z)
    <3>1. s.qs[p][q] \in Seq(Packet) BY <2>2
    <3> QED BY <2>3, <2>5, <3>1, SumAppend DEF Counted
  <2>7. SUFFICES ASSUME NEW r \in Ports, NEW c \in PGs PROVE Counted(t, r, c)
    BY DEF AllCounted, t
  <2>8. CASE r = p /\ c = q
    <3>1. t.qs[p][q] = Append(s.qs[p][q], pkt) BY <2>1, <2>2
    <3>2. t.bytes[p][q] = s.bytes[p][q] + z BY <2>1, <2>2, <2>4
    <3> QED BY <2>1, <2>4, <2>6, <2>8, <3>1, <3>2 DEF Counted
  <2>9. CASE r # p \/ c # q
    <3>1. t.qs[r][c] = s.qs[r][c] /\ t.bytes[r][c] = s.bytes[r][c] BY <2>1, <2>2, <2>9
    <3>2. /\ t.out.QMin[r][c] = s.out.QMin[r][c]
          /\ t.out.QShared[r][c] = s.out.QShared[r][c]
      BY <2>1, <2>4, <2>9 DEF Elsewhere
    <3>3. Counted(s, r, c) BY DEF AllCounted
    <3> QED BY <3>1, <3>2, <3>3 DEF Counted
  <2> QED BY <2>8, <2>9
<1> QED BY <1>1, <1>2

LEMMA TransmitDataCounted ==
  ASSUME NEW s \in States, AllCounted(s), NEW p \in Ports, NEW q \in PGs,
         s.qs[p][q] # <<>>, NEW ce
  PROVE  AllCounted(TransmitData(s, p, q, ce))
<1> DEFINE pkt == Head(s.qs[p][q])
           z   == pkt.size
           t   == TransmitData(s, p, q, ce)
           out == RemoveFromEgressAdmission(s.out, p, q, z)
<1>1. /\ t.out = out
      /\ t.qs = [s.qs EXCEPT ![p][q] = Tail(@)]
      /\ t.bytes = [s.bytes EXCEPT ![p][q] = Sub(@, z)]
  BY DEF TransmitData
<1>2. /\ s.out \in EgressCounters /\ s.bytes \in [Ports -> [PGs -> Word]]
      /\ s.qs \in [Ports -> [PGs -> Seq(Packet)]]
  BY DEF States
<1>3. Counted(s, p, q) BY DEF AllCounted
<1>4. pkt \in Packet BY <1>2, HeadTailType
<1>5. z \in Sizes BY <1>4 DEF Packet
<1>6. z <= s.bytes[p][q] /\ SumIs(Tail(s.qs[p][q]), s.bytes[p][q] - z)
  <2>1. s.qs[p][q] \in Seq(Packet) BY <1>2
  <2> QED BY <2>1, <1>3, SumTail DEF Counted
<1> HIDE DEF out, t, pkt, z
<1>7. /\ Sub(s.bytes[p][q], z) = s.bytes[p][q] - z
      /\ Drift(out.QMin[p][q], out.QShared[p][q], s.bytes[p][q] - z)
      /\ Elsewhere(out, s.out, p, q)
  <2>1. s.bytes[p][q] \in Word BY <1>2
  <2> QED BY <1>2, <1>3, <1>5, <1>6, <2>1, RemoveEgressDrift DEF Counted, out
<1>8. SUFFICES ASSUME NEW r \in Ports, NEW c \in PGs PROVE Counted(t, r, c)
  BY DEF AllCounted, t
<1>9. CASE r = p /\ c = q
  <2>1. t.qs[p][q] = Tail(s.qs[p][q]) BY <1>1, <1>2
  <2>2. t.bytes[p][q] = s.bytes[p][q] - z BY <1>1, <1>2, <1>7
  <2> QED BY <1>1, <1>6, <1>7, <1>9, <2>1, <2>2 DEF Counted
<1>10. CASE r # p \/ c # q
  <2>1. t.qs[r][c] = s.qs[r][c] /\ t.bytes[r][c] = s.bytes[r][c] BY <1>1, <1>2, <1>10
  <2>2. /\ t.out.QMin[r][c] = s.out.QMin[r][c]
        /\ t.out.QShared[r][c] = s.out.QShared[r][c]
    BY <1>1, <1>7, <1>10 DEF Elsewhere
  <2>3. Counted(s, r, c) BY DEF AllCounted
  <2> QED BY <2>1, <2>2, <2>3 DEF Counted
<1> QED BY <1>9, <1>10

\* Operators that leave the counters and the data queues alone.
LEMMA SameCounted ==
  ASSUME NEW s, NEW t, AllCounted(s), t.out = s.out, t.qs = s.qs, t.bytes = s.bytes
  PROVE  AllCounted(t)
BY DEF AllCounted, Counted

LEMMA TransmitCounted ==
  ASSUME NEW s \in States, AllCounted(s), NEW p \in Ports, NEW c, Servable(s, p, c), NEW ce
  PROVE  AllCounted(Transmit(s, p, c, ce))
<1>1. CASE c = None BY <1>1 DEF Transmit
<1>2. CASE c = qCnt - 1
  <2>1. Transmit(s, p, c, ce) = TransmitControl(s, p) BY <1>2 DEF Transmit, None, qCnt
  <2>2. AllCounted(TransmitControl(s, p)) BY SameCounted DEF TransmitControl
  <2> QED BY <2>1, <2>2
<1>3. CASE c \in PGs
  <2>1. c # None /\ c # qCnt - 1 BY <1>3, ClassAssumption DEF None, qCnt
  <2>2. s.qs[p][c] # <<>> BY <1>3, <2>1 DEF Servable
  <2> QED BY <1>3, <2>1, <2>2, TransmitDataCounted DEF Transmit
<1> QED BY <1>1, <1>2, <1>3 DEF Servable

LEMMA SendFramesCounted ==
  ASSUME NEW s, AllCounted(s), NEW i, NEW frames
  PROVE  AllCounted(SendFrames(s, i, frames))
BY SameCounted DEF SendFrames

LEMMA BecomeCounted ==
  ASSUME NEW s, AllCounted(s), Become(s)
  PROVE  AllCounted(Current)'
BY DEF AllCounted, Counted, Become, Current

-----------------------------------------------------------------------------
(* The inductive invariant *)

EgressCounted == AllCounted(Current)

LEMMA DequeueCounted ==
  ASSUME TypeOK, NEW s \in States, AllCounted(s), NEW p \in Ports, NEW paused,
         DequeueAndTransmit(s, p, paused)
  PROVE  EgressCounted'
<1>1. PICK lag \in SUBSET PGs : \E ce \in Marks(s, p, Served(s, p, paused, lag)) :
        Become(Transmit(s, p, Served(s, p, paused, lag), ce))
  BY DEF DequeueAndTransmit
<1>2. PICK ce \in Marks(s, p, Served(s, p, paused, lag)) :
        Become(Transmit(s, p, Served(s, p, paused, lag), ce))
  BY <1>1
<1>3. Servable(s, p, Served(s, p, paused, lag)) BY ServedServable DEF TypeOK
<1>4. AllCounted(Transmit(s, p, Served(s, p, paused, lag), ce)) BY <1>3, TransmitCounted
<1> QED BY <1>2, <1>4, BecomeCounted DEF EgressCounted

LEMMA CheckQueueFullCounted ==
  ASSUME NEW s, AllCounted(s), NEW p, NEW i, NEW q, NEW pending,
         CheckQueueFull(s, p, i, q, pending)
  PROVE  EgressCounted'
<1>1. \E frames : Become(SendFrames(s, i, frames)) BY DEF CheckQueueFull
<1>2. PICK frames : Become(SendFrames(s, i, frames)) BY <1>1
<1> QED BY <1>2, SendFramesCounted, BecomeCounted DEF EgressCounted

LEMMA InitCounted == Init => EgressCounted
<1> SUFFICES ASSUME Init, NEW p \in Ports, NEW q \in PGs PROVE Counted(Current, p, q)
  BY DEF EgressCounted, AllCounted
<1>1. /\ Current.out.QMin[p][q] = 0 /\ Current.out.QShared[p][q] = 0
      /\ Current.qs[p][q] = <<>> /\ Current.bytes[p][q] = 0
  BY DEF Init, Current, EmptyEgress
<1>2. Drift(0, 0, 0)
  BY ThresholdAssumption, SizeAssumption, RoomAssumption DEF Drift, Signed
<1>3. SumIs(<<>>, 0) BY SumEmpty
<1> QED BY <1>1, <1>2, <1>3 DEF Counted

LEMMA NextCounted == TypeOK /\ EgressCounted /\ [Next]_vars => EgressCounted'
<1> SUFFICES ASSUME TypeOK, EgressCounted, [Next]_vars PROVE EgressCounted' OBVIOUS
<1> USE CurrentType
<1>1. ASSUME NEW r \in Routes, NEW q \in PGs, NEW z \in Sizes, Send(r[2], r[1], q, z)
      PROVE  EgressCounted'
  <2> DEFINE p == r[2]
             i == r[1]
             s == Admit(Current, p, i, q, z)
  <2>1. p \in Ports /\ i \in Ports BY RouteAssumption
  <2> HIDE DEF p, i
  <2>2. s \in States /\ AllCounted(s) BY <2>1, AdmitType, AdmitCounted DEF EgressCounted
  <2> HIDE DEF s
  <2>3. PICK lag \in SUBSET PGs : \E ce \in Marks(s, p, Served(s, p, m_paused, lag)) :
          CheckQueueFull(Transmit(s, p, Served(s, p, m_paused, lag), ce), p, i, q,
                         m_recheckEvt[p][i][q])
    BY <1>1 DEF Send, s, p, i
  <2>4. PICK ce \in Marks(s, p, Served(s, p, m_paused, lag)) :
          CheckQueueFull(Transmit(s, p, Served(s, p, m_paused, lag), ce), p, i, q,
                         m_recheckEvt[p][i][q])
    BY <2>3
  <2>5. AllCounted(Transmit(s, p, Served(s, p, m_paused, lag), ce))
    BY <2>1, <2>2, ServedServable, TransmitCounted DEF TypeOK
  <2> QED BY <2>4, <2>5, CheckQueueFullCounted
<1>2. ASSUME NEW p \in Transits, SendControl(p) PROVE EgressCounted'
  <2>1. p \in Ports BY RouteAssumption
  <2> DEFINE f == ControlFrame("TRANSIT", qCnt - 1)
             s == [Current EXCEPT !.ctl[p] = Append(@, f)]
  <2>2. f \in Frame BY DEF ControlFrame, Frame, Classes, qCnt
  <2> HIDE DEF f
  <2>3. s \in States
    <3>1. Current.ctl \in [Ports -> Seq(Frame)] BY DEF States
    <3>2. Append(Current.ctl[p], f) \in Seq(Frame) BY <2>1, <2>2, <3>1
    <3> QED BY <2>1, <3>1, <3>2 DEF States
  <2>4. AllCounted(s)
    <3>1. s.out = Current.out /\ s.qs = Current.qs /\ s.bytes = Current.bytes BY DEF Current
    <3> HIDE DEF s
    <3> QED BY <3>1, SameCounted DEF EgressCounted
  <2>5. DequeueAndTransmit(s, p, m_paused) BY <1>2 DEF SendControl, f
  <2> QED BY <2>1, <2>3, <2>4, <2>5, DequeueCounted
<1>3. ASSUME NEW p \in Ports, TransmitComplete(p) PROVE EgressCounted'
  <2> DEFINE s == [Current EXCEPT !.cur[p] = NoPacket]
  <2>1. s \in States BY DEF States
  <2>2. AllCounted(s)
    <3>1. s.out = Current.out /\ s.qs = Current.qs /\ s.bytes = Current.bytes BY DEF Current
    <3> HIDE DEF s
    <3> QED BY <3>1, SameCounted DEF EgressCounted
  <2>3. DequeueAndTransmit(s, p, m_paused) BY <1>3 DEF TransmitComplete
  <2> QED BY <2>1, <2>2, <2>3, DequeueCounted
<1>4. ASSUME NEW p \in Ports, NEW q \in PGs, PauseFinish(p, q) PROVE EgressCounted'
  <2>1. DequeueAndTransmit(Current, p, m_paused') BY <1>4 DEF PauseFinish
  <2> QED BY <2>1, DequeueCounted DEF EgressCounted
<1>5. ASSUME NEW p \in Pausers, NEW q \in PGs, ReceivePause(p, q) PROVE EgressCounted'
  BY <1>5 DEF ReceivePause, EgressCounted, AllCounted, Counted, Current, mmuVars, queueVars
<1>6. ASSUME NEW p \in Ports, NEW i \in Ports, NEW q \in PGs, Recheck(p, i, q)
      PROVE  EgressCounted'
  <2>1. CheckQueueFull(Current, p, i, q, FALSE) BY <1>6 DEF Recheck
  <2> QED BY <2>1, CheckQueueFullCounted DEF EgressCounted
<1>7. CASE UNCHANGED vars
  BY <1>7 DEF vars, mmuVars, queueVars, EgressCounted, AllCounted, Counted, Current
<1> QED BY <1>1, <1>2, <1>3, <1>4, <1>5, <1>6, <1>7, RouteAssumption
        DEF Next, ReceiveResume, ResumeTimer

(***************************************************************************)
(* The egress counters of every queue add up to its length and QMin stays  *)
(* within a packet of zero and of the guarantee, for every set of devices, *)
(* classes and packet sizes, however the enqueue-side and the dequeue-side *)
(* patches of Update/RemoveFromEgressAdmission alternate.                  *)
(***************************************************************************)
THEOREM EgressDrift == Spec => []EgressDriftBounded
<1>1. EgressCounted => EgressDriftBounded
  BY DEF EgressCounted, AllCounted, Counted, Drift, Current, EgressDriftBounded
<1> QED BY <1>1, InitCounted, NextCounted, TypeCorrect, PTL DEF Spec

-----------------------------------------------------------------------------
(* ECN marks *)

\* Queue qCnt-1 holds no data packet, so a DATA frame on the wire comes from
\* TransmitData.
NonData == {f \in Frame : f.kind # "DATA"}

ControlOnly(s) == s.ctl \in [Ports -> Seq(NonData)]

\* What the mark of the data packet on the wire of device p of s says.
Honest(s, p) ==
    LET q    == s.cur[p].class
        kmin == IF q = 1 THEN m_dctcp_threshold ELSE m_pg_qcn_threshold
        kmax == IF q = 1 THEN m_dctcp_threshold_max ELSE m_pg_qcn_threshold_max
    IN  IF s.cur[p].ce
          THEN s.bytes[p][q] + MaxSize > kmin + 1
          ELSE s.bytes[p][q] <= kmax + Max({m_q_min_cell, Cell})

\* A data packet on the wire of s either was there in old, and the queues of
\* its device have not shrunk since, or was honestly marked.
TruthfulAt(old, s, p) ==
    \/ s.cur[p].kind # "DATA"
    \/ s.cur[p] = old.cur[p] /\ \A q \in PGs : Len(s.qs[p][q]) >= Len(old.qs[p][q])
    \/ Honest(s, p)

Truthful(old, s) == m_qcnEnabled => \A p \in Ports : TruthfulAt(old, s, p)

LEMMA MaxOfTwo ==
  ASSUME NEW a \in Nat, NEW b \in Nat
  PROVE  Max({a, b}) \in Nat /\ Max({a, b}) >= a /\ Max({a, b}) >= b
<1>1. \E x \in {a, b} : \A y \in {a, b} : x >= y OBVIOUS
<1>2. Max({a, b}) \in {a, b} /\ \A y \in {a, b} : Max({a, b}) >= y BY <1>1 DEF Max
<1> QED BY <1>2

\* ShouldSendCN looks at the shared counter; Drift turns it into a length.
LEMMA MarkHonest ==
  ASSUME NEW s \in States, AllCounted(s), NEW p \in Ports, NEW q \in PGs,
         s.qs[p][q] # <<>>, m_qcnEnabled, NEW ce \in Marks(s, p, q)
  PROVE  Honest(TransmitData(s, p, q, ce), p)
<1> DEFINE t    == TransmitData(s, p, q, ce)
           used == t.out.QShared[p][q]
           min  == Signed(t.out.QMin[p][q])
           b    == t.bytes[p][q]
           kmin == IF q = 1 THEN m_dctcp_threshold ELSE m_pg_qcn_threshold
           kmax == IF q = 1 THEN m_dctcp_threshold_max ELSE m_pg_qcn_threshold_max
           top  == Max({m_q_min_cell, Cell})
<1>1. ce \in BOOLEAN BY MarksType
<1>2. t \in States BY <1>1, TransmitDataType
<1>3. used \in Nat /\ b \in Nat /\ t.out.QMin[p][q] \in Nat
  BY <1>2, ThresholdAssumption DEF States, EgressCounters, Word
<1>4. Counted(t, p, q) BY TransmitDataCounted DEF AllCounted
<1>5. min + used = b /\ min > -MaxSize /\ (min <= m_q_min_cell \/ min <= Cell)
  BY <1>4 DEF Counted, Drift
<1>6. t.out = TransmitData(s, p, q, FALSE).out BY DEF TransmitData
<1>7. ce \in ShouldSendCN(t.out, p, q) BY <1>6 DEF Marks
<1>8. t.cur[p] = [kind |-> "DATA", class |-> q, ce |-> ce] BY DEF TransmitData, States
<1>9. min \in Int BY <1>3, ThresholdAssumption DEF Signed
<1>10. top \in Nat /\ min <= top
  BY <1>5, <1>9, MaxOfTwo, ThresholdAssumption
<1>11. kmin \in Nat /\ kmax \in Nat /\ kmin <= kmax BY MarkingAssumption
<1>15. ce \in (IF used > kmax THEN {TRUE}
               ELSE IF used > kmin /\ kmin # kmax THEN {TRUE, FALSE}
               ELSE {FALSE})
  BY <1>7 DEF ShouldSendCN
<1> HIDE DEF t, used, min, b, kmin, kmax, top
<1>12. (ce => used > kmin) /\ (~ce => used <= kmax)
  <2>1. CASE used > kmax BY <1>3, <1>11, <1>15, <2>1
  <2>2. CASE ~(used > kmax) /\ used > kmin /\ kmin # kmax BY <1>3, <1>11, <2>2
  <2>3. CASE ~(used > kmax) /\ ~(used > kmin /\ kmin # kmax)
    <3>1. ~ce BY <1>15, <2>3
    <3> QED BY <1>3, <1>11, <2>3, <3>1
  <2> QED BY <2>1, <2>2, <2>3
<1>13. (ce => b + MaxSize > kmin + 1) /\ (~ce => b <= kmax + top)
  BY <1>1, <1>3, <1>5, <1>9, <1>10, <1>11, <1>12, SizeAssumption
<1>14. t.cur[p].class = q /\ t.cur[p].ce = ce BY <1>8
<1> QED BY <1>1, <1>13, <1>14 DEF Honest, b, kmin, kmax, top, t

\* At a device whose wire and queues are those of s, t is as truthful as s.
LEMMA SameTruth ==
  ASSUME NEW old, NEW s, NEW t, NEW r \in Ports, m_qcnEnabled, Truthful(old, s),
         t.cur[r] = s.cur[r], t.qs[r] = s.qs[r], t.bytes[r] = s.bytes[r]
  PROVE  TruthfulAt(old, t, r)
BY DEF Truthful, TruthfulAt, Honest

LEMMA TransmitTruthful ==
  ASSUME NEW old, NEW s \in States, AllCounted(s), ControlOnly(s), Truthful(old, s),
         NEW p \in Ports, NEW c, Servable(s, p, c), NEW ce \in Marks(s, p, c)
  PROVE  Truthful(old, Transmit(s, p, c, ce)) /\ ControlOnly(Transmit(s, p, c, ce))
<1> DEFINE t == Transmit(s, p, c, ce)
<1>1. CASE c = None BY <1>1 DEF Transmit
<1>2. CASE c = qCnt - 1
  <2>1. t = TransmitControl(s, p) BY <1>2 DEF Transmit, None, qCnt
  <2>2. s.ctl[p] # <<>> /\ s.ctl[p] \in Seq(NonData)
    BY <1>2, ClassAssumption DEF Servable, ControlOnly, None, qCnt
  <2>3. Head(s.ctl[p]) \in NonData /\ Tail(s.ctl[p]) \in Seq(NonData)
    BY <2>2, HeadTailType
  <2>4. t.cur[p] = Head(s.ctl[p]) /\ t.ctl = [s.ctl EXCEPT ![p] = Tail(@)]
        /\ \A r \in Ports \ {p} :
             t.cur[r] = s.cur[r] /\ t.qs[r] = s.qs[r] /\ t.bytes[r] = s.bytes[r]
    BY <2>1 DEF TransmitControl, States
  <2> HIDE DEF t
  <2>5. ControlOnly(t) BY <2>3, <2>4 DEF ControlOnly
  <2>6. t.cur[p].kind # "DATA" BY <2>3, <2>4 DEF NonData
  <2>7. TruthfulAt(old, t, p) BY <2>6 DEF TruthfulAt
  <2>8. Truthful(old, t) BY <2>4, <2>7, SameTruth DEF Truthful
  <2> QED BY <2>5, <2>8 DEF t
<1>3. CASE c \in PGs
  <2>1. c # None /\ c # qCnt - 1 BY <1>3, ClassAssumption DEF None, qCnt
  <2>2. s.qs[p][c] # <<>> BY <1>3, <2>1 DEF Servable
  <2>3. t = TransmitData(s, p, c, ce) BY <2>1 DEF Transmit
  <2>4. m_qcnEnabled => Honest(t, p) BY <1>3, <2>2, <2>3, MarkHonest
  <2>5. t.ctl = s.ctl /\ \A r \in Ports \ {p} :
             t.cur[r] = s.cur[r] /\ t.qs[r] = s.qs[r] /\ t.bytes[r] = s.bytes[r]
    BY <1>3, <2>3 DEF TransmitData, States
  <2> HIDE DEF t
  <2>6. ControlOnly(t) BY <2>5 DEF ControlOnly
  <2>7. m_qcnEnabled => TruthfulAt(old, t, p) BY <2>4 DEF TruthfulAt
  <2>8. Truthful(old, t) BY <2>5, <2>7, SameTruth DEF Truthful
  <2> QED BY <2>6, <2>8 DEF t
<1> QED BY <1>1, <1>2, <1>3 DEF Servable

LEMMA ControlFrames ==
  ASSUME NEW k \in {"PAUSE", "RESUME", "TRANSIT"}, NEW j \in Classes
  PROVE  ControlFrame(k, j) \in NonData
BY DEF ControlFrame, NonData, Frame

LEMMA PauseFramesControl == ASSUME NEW S PROVE PauseFrames(S) \in Seq(NonData)
<1> DEFINE f(j) == IF j \in S THEN <<ControlFrame("PAUSE", j)>> ELSE <<>>
<1>1. \A j \in 0..7 : f(j) \in Seq(NonData)
  <2> TAKE j \in 0..7
  <2>1. ControlFrame("PAUSE", j) \in NonData BY ControlFrames DEF Classes, qCnt
  <2>2. <<ControlFrame("PAUSE", j)>> \in Seq(NonData) BY <2>1
  <2> QED BY <2>2
<1>2. \A a, b \in Seq(NonData) : a \o b \in Seq(NonData) OBVIOUS
<1> HIDE DEF f
<1>3. f(0) \o f(1) \o f(2) \o f(3) \o f(4) \o f(5) \o f(6) \o f(7) \in Seq(NonData)
  BY <1>1, <1>2
<1> QED BY <1>3 DEF PauseFrames, f

LEMMA SendFramesTruthful ==
  ASSUME NEW old, NEW s \in States, ControlOnly(s), Truthful(old, s),
         NEW i \in Ports, NEW frames \in Seq(NonData)
  PROVE  Truthful(old, SendFrames(s, i, frames)) /\ ControlOnly(SendFrames(s, i, frames))
<1> DEFINE t      == SendFrames(s, i, frames)
           queue  == s.ctl[i] \o frames
           starts == frames # <<>> /\ s.cur[i] = NoPacket
<1>1. s.ctl[i] \in Seq(NonData) BY DEF ControlOnly
<1>2. /\ t.qs = s.qs /\ t.bytes = s.bytes
      /\ t.ctl = [s.ctl EXCEPT ![i] = IF starts THEN Tail(queue) ELSE queue]
      /\ t.cur = [s.cur EXCEPT ![i] = IF starts THEN Head(queue) ELSE @]
  BY DEF SendFrames
<1>3. queue \in Seq(NonData) BY <1>1
<1>4. starts => Head(queue) \in NonData /\ Tail(queue) \in Seq(NonData)
  <2> SUFFICES ASSUME starts PROVE Head(queue) \in NonData /\ Tail(queue) \in Seq(NonData)
    OBVIOUS
  <2>1. Len(frames) > 0 /\ Len(queue) = Len(s.ctl[i]) + Len(frames) BY <1>1
  <2>2. queue # <<>> BY <1>1, <2>1
  <2> QED BY <1>3, <2>2, HeadTailType
<1>5. \A r \in Ports \ {i} : t.cur[r] = s.cur[r] BY <1>2 DEF States
<1>6. t.cur[i] = (IF starts THEN Head(queue) ELSE s.cur[i]) BY <1>2 DEF States
<1> HIDE DEF t, queue, starts
<1>7. ControlOnly(t) BY <1>2, <1>3, <1>4 DEF ControlOnly
<1>8. t.cur[i].kind # "DATA" \/ t.cur[i] = s.cur[i] BY <1>4, <1>6 DEF NonData
<1>9. m_qcnEnabled => TruthfulAt(old, t, i) BY <1>2, <1>8, SameTruth DEF TruthfulAt
<1>10. Truthful(old, t) BY <1>2, <1>5, <1>9, SameTruth DEF Truthful
<1> QED BY <1>7, <1>10 DEF t

\* What MarkingHonest says of a step.
HonestStep ==
    m_qcnEnabled =>
      \A p \in Ports, q \in PGs :
        LET kmin == IF q = 1 THEN m_dctcp_threshold ELSE m_pg_qcn_threshold
            kmax == IF q = 1 THEN m_dctcp_threshold_max ELSE m_pg_qcn_threshold_max
        IN  Departs(p, q) =>
              IF m_currentPkt'[p].ce
                THEN m_bytesInQueue'[p][q] + MaxSize > kmin + 1
                ELSE m_bytesInQueue'[p][q] <= kmax + Max({m_q_min_cell, Cell})

LEMMA BecomeHonest ==
  ASSUME NEW s, ControlOnly(s), Truthful(Current, s), Become(s),
         TypeOK, TypeOK'
  PROVE  ControlOnly(Current)' /\ HonestStep
<1>1. ControlOnly(Current)' BY DEF ControlOnly, Become, Current
<1>2. ASSUME m_qcnEnabled, NEW p \in Ports, NEW q \in PGs, Departs(p, q)
      PROVE  Honest(s, p) /\ s.cur[p].class = q
  <2>1. s.cur[p].kind = "DATA" /\ s.cur[p].class = q BY <1>2 DEF Departs, Become
  <2>2. TruthfulAt(Current, s, p) BY <1>2 DEF Truthful
  <2>3. ASSUME s.cur[p] = Current.cur[p],
               \A c \in PGs : Len(s.qs[p][c]) >= Len(Current.qs[p][c])
        PROVE  FALSE
    <3>1. m_currentPkt[p] # NoPacket BY <2>1, <2>3 DEF Current, NoPacket
    <3>2. Len(m_queues'[p][q]) < Len(m_queues[p][q]) BY <1>2, <3>1 DEF Departs
    <3>3. m_queues'[p][q] \in Seq(Packet) /\ m_queues[p][q] \in Seq(Packet)
      BY DEF TypeOK
    <3>4. Len(m_queues'[p][q]) >= Len(m_queues[p][q]) BY <2>3 DEF Become, Current
    <3> QED BY <3>2, <3>3, <3>4
  <2> QED BY <2>1, <2>2, <2>3 DEF TruthfulAt
<1>3. s.cur = m_currentPkt' /\ s.bytes = m_bytesInQueue' BY DEF Become
<1>4. HonestStep BY <1>2, <1>3 DEF HonestStep, Honest
<1> QED BY <1>1, <1>4

LEMMA DequeueHonest ==
  ASSUME TypeOK, TypeOK', NEW s \in States, AllCounted(s), ControlOnly(s),
         Truthful(Current, s), NEW p \in Ports, NEW paused,
         DequeueAndTransmit(s, p, paused)
  PROVE  ControlOnly(Current)' /\ HonestStep
<1> DEFINE c(lag) == Served(s, p, paused, lag)
<1>1. PICK lag \in SUBSET PGs : \E ce \in Marks(s, p, c(lag)) :
        Become(Transmit(s, p, c(lag), ce))
  BY DEF DequeueAndTransmit
<1>2. PICK ce \in Marks(s, p, c(lag)) : Become(Transmit(s, p, c(lag), ce)) BY <1>1
<1>3. Servable(s, p, c(lag)) BY ServedServable DEF TypeOK
<1> DEFINE t == Transmit(s, p, c(lag), ce)
<1> HIDE DEF c
<1>4. Truthful(Current, t) /\ ControlOnly(t) BY <1>3, TransmitTruthful
<1> HIDE DEF t
<1> QED BY <1>2, <1>4, BecomeHonest DEF t

LEMMA CheckQueueFullHonest ==
  ASSUME TypeOK, TypeOK', NEW s \in States, ControlOnly(s),
         Truthful(Current, s), NEW p, NEW i \in Ports, NEW q, NEW pending,
         CheckQueueFull(s, p, i, q, pending)
  PROVE  ControlOnly(Current)' /\ HonestStep
<1> DEFINE pauses  == GetPauseClasses(s.in, i, q)
           paused  == m_pause_remote[i][q] \/ pauses # {}
           resumes == paused /\ GetResumeClasses(s.in, i, q)
           resume  == IF resumes THEN <<ControlFrame("RESUME", ResumeClass(q))>> ELSE <<>>
           frames  == PauseFrames(pauses) \o resume
<1>1. Become(SendFrames(s, i, frames)) BY DEF CheckQueueFull
<1>2. resume \in Seq(NonData)
  <2>1. ControlFrame("RESUME", ResumeClass(q)) \in NonData
    BY ControlFrames DEF ResumeClass, Classes, qCnt
  <2>2. <<ControlFrame("RESUME", ResumeClass(q))>> \in Seq(NonData) BY <2>1
  <2> QED BY <2>2
<1> HIDE DEF pauses, resume
<1>3. frames \in Seq(NonData) BY <1>2, PauseFramesControl
<1> HIDE DEF frames
<1>4. /\ ControlOnly(SendFrames(s, i, frames))
      /\ Truthful(Current, SendFrames(s, i, frames))
  BY <1>3, SendFramesTruthful
<1> QED BY <1>1, <1>4, BecomeHonest

\* Operators that neither put a data packet on a wire nor shorten a queue.
LEMMA WaitingTruthful ==
  ASSUME NEW old, NEW s,
         \A p \in Ports : s.cur[p] = old.cur[p] \/ s.cur[p] = NoPacket,
         \A p \in Ports, q \in PGs : Len(s.qs[p][q]) >= Len(old.qs[p][q])
  PROVE  Truthful(old, s)
<1>1. NoPacket.kind # "DATA" BY DEF NoPacket
<1> QED BY <1>1 DEF Truthful, TruthfulAt

LEMMA NextHonest ==
  ASSUME TypeOK, TypeOK', EgressCounted, ControlOnly(Current), [Next]_vars
  PROVE  ControlOnly(Current)' /\ (~UNCHANGED vars => HonestStep)
<1>0. /\ Current \in States /\ AllCounted(Current)
      /\ \A p \in Ports, q \in PGs : Len(Current.qs[p][q]) \in Nat
  BY CurrentType DEF EgressCounted, Current, TypeOK
<1>1. ASSUME NEW r \in Routes, NEW q \in PGs, NEW z \in Sizes, Send(r[2], r[1], q, z)
      PROVE  ControlOnly(Current)' /\ HonestStep
  <2> DEFINE p == r[2]
             i == r[1]
             s == Admit(Current, p, i, q, z)
  <2>1. p \in Ports /\ i \in Ports BY RouteAssumption
  <2> HIDE DEF p, i
  <2>2. s \in States /\ AllCounted(s) BY <1>0, <2>1, AdmitType, AdmitCounted
  <2>3. s.cur = Current.cur /\ s.ctl = Current.ctl BY DEF Admit
  <2>4. \A d \in Ports, c \in PGs : Len(s.qs[d][c]) >= Len(Current.qs[d][c])
    <3> SUFFICES ASSUME NEW d \in Ports, NEW c \in PGs
                 PROVE  Len(s.qs[d][c]) >= Len(Current.qs[d][c])
      OBVIOUS
    <3>1. Current.qs \in [Ports -> [PGs -> Seq(Packet)]] BY <1>0 DEF States
    <3>2. CASE s = Current BY <1>0, <3>2
    <3>3. CASE s.qs = [Current.qs EXCEPT ![p][q] = Append(@, [inDev |-> i, size |-> z])]
      <4>1. CASE d = p /\ c = q
        <5>1. s.qs[d][c] = Append(Current.qs[d][c], [inDev |-> i, size |-> z])
          BY <3>1, <3>3, <4>1
        <5>2. Current.qs[d][c] \in Seq(Packet) BY <3>1
        <5>3. [inDev |-> i, size |-> z] \in Packet BY <2>1 DEF Packet
        <5> HIDE DEF s
        <5> QED BY <5>1, <5>2, <5>3
      <4>2. CASE d # p \/ c # q
        <5>1. s.qs[d][c] = Current.qs[d][c] BY <3>1, <3>3, <4>2
        <5> HIDE DEF s
        <5> QED BY <1>0, <5>1
      <4> QED BY <4>1, <4>2
    <3> QED BY <3>2, <3>3 DEF Admit
  <2>5. PICK lag \in SUBSET PGs : \E ce \in Marks(s, p, Served(s, p, m_paused, lag)) :
          CheckQueueFull(Transmit(s, p, Served(s, p, m_paused, lag), ce), p, i, q,
                         m_recheckEvt[p][i][q])
    BY <1>1 DEF Send, p, i
  <2> HIDE DEF s
  <2>6. PICK ce \in Marks(s, p, Served(s, p, m_paused, lag)) :
          CheckQueueFull(Transmit(s, p, Served(s, p, m_paused, lag), ce), p, i, q,
                         m_recheckEvt[p][i][q])
    BY <2>5
  <2> DEFINE c == Served(s, p, m_paused, lag)
             t == Transmit(s, p, c, ce)
  <2>7. Servable(s, p, c) BY <2>1, ServedServable DEF TypeOK
  <2> HIDE DEF c
  <2>8. t \in States BY <2>1, <2>2, <2>7, MarksType, TransmitType DEF c
  <2>9. Truthful(Current, s) /\ ControlOnly(s)
    BY <2>3, <2>4, WaitingTruthful DEF ControlOnly
  <2>10. Truthful(Current, t) /\ ControlOnly(t)
    BY <2>1, <2>2, <2>7, <2>9, TransmitTruthful DEF c
  <2> HIDE DEF t
  <2>11. CheckQueueFull(t, p, i, q, m_recheckEvt[p][i][q]) BY <2>6 DEF t, c
  <2> QED BY <2>1, <2>8, <2>10, <2>11, CheckQueueFullHonest
<1>2. ASSUME NEW p \in Transits, SendControl(p) PROVE ControlOnly(Current)' /\ HonestStep
  <2>1. p \in Ports BY RouteAssumption
  <2> DEFINE f == ControlFrame("TRANSIT", qCnt - 1)
             s == [Current EXCEPT !.ctl[p] = Append(@, f)]
  <2>2. f \in NonData /\ f \in Frame BY ControlFrames DEF Classes, qCnt, NonData
  <2> HIDE DEF f
  <2>3. s \in States
    <3>1. Current.ctl \in [Ports -> Seq(Frame)] BY <1>0 DEF States
    <3>2. Append(Current.ctl[p], f) \in Seq(Frame) BY <2>1, <2>2, <3>1
    <3> QED BY <1>0, <2>1, <3>1, <3>2 DEF States
  <2>4. /\ s.out = Current.out /\ s.qs = Current.qs /\ s.bytes = Current.bytes
        /\ s.cur = Current.cur /\ s.ctl = [Current.ctl EXCEPT ![p] = Append(@, f)]
    BY DEF Current
  <2>5. DequeueAndTransmit(s, p, m_paused) BY <1>2 DEF SendControl, f
  <2> HIDE DEF s
  <2>6. AllCounted(s) BY <1>0, <2>4, SameCounted
  <2>7. ControlOnly(s)
    <3>1. Current.ctl \in [Ports -> Seq(NonData)] BY DEF ControlOnly
    <3>2. Append(Current.ctl[p], f) \in Seq(NonData) BY <2>1, <2>2, <3>1
    <3> QED BY <2>4, <3>1, <3>2 DEF ControlOnly
  <2>8. Truthful(Current, s) BY <1>0, <2>4, WaitingTruthful
  <2> QED BY <2>1, <2>3, <2>5, <2>6, <2>7, <2>8, DequeueHonest
<1>3. ASSUME NEW p \in Ports, TransmitComplete(p)
      PROVE  ControlOnly(Current)' /\ HonestStep
  <2> DEFINE s == [Current EXCEPT !.cur[p] = NoPacket]
  <2>1. s \in States BY <1>0 DEF States
  <2>2. /\ s.out = Current.out /\ s.qs = Current.qs /\ s.bytes = Current.bytes
        /\ s.ctl = Current.ctl
    BY DEF Current
  <2>3. \A d \in Ports : s.cur[d] = Current.cur[d] \/ s.cur[d] = NoPacket
    BY <1>0 DEF States
  <2>4. DequeueAndTransmit(s, p, m_paused) BY <1>3 DEF TransmitComplete
  <2> HIDE DEF s
  <2>5. AllCounted(s) BY <1>0, <2>2, SameCounted
  <2>6. ControlOnly(s) BY <2>2 DEF ControlOnly
  <2>7. Truthful(Current, s) BY <1>0, <2>2, <2>3, WaitingTruthful
  <2> QED BY <2>1, <2>4, <2>5, <2>6, <2>7, DequeueHonest
<1>8. Truthful(Current, Current) BY <1>0, WaitingTruthful
<1>4. ASSUME NEW p \in Ports, NEW q \in PGs, PauseFinish(p, q)
      PROVE  ControlOnly(Current)' /\ HonestStep
  <2>1. DequeueAndTransmit(Current, p, m_paused') BY <1>4 DEF PauseFinish
  <2> QED BY <1>0, <1>8, <2>1, DequeueHonest
<1>5. ASSUME NEW p \in Pausers, NEW q \in PGs, ReceivePause(p, q)
      PROVE  ControlOnly(Current)' /\ HonestStep
  <2>1. Become(Current) BY <1>5 DEF ReceivePause, Become, Current, mmuVars, queueVars
  <2> QED BY <1>8, <2>1, BecomeHonest
<1>6. ASSUME NEW p \in Ports, NEW i \in Ports, NEW q \in PGs, Recheck(p, i, q)
      PROVE  ControlOnly(Current)' /\ HonestStep
  <2>1. CheckQueueFull(Current, p, i, q, FALSE) BY <1>6 DEF Recheck
  <2> QED BY <1>0, <1>8, <2>1, CheckQueueFullHonest
<1>7. CASE UNCHANGED vars
  BY <1>7 DEF vars, mmuVars, queueVars, ControlOnly, Current
<1> QED BY <1>1, <1>2, <1>3, <1>4, <1>5, <1>6, <1>7, RouteAssumption
        DEF Next, ReceiveResume, ResumeTimer

(***************************************************************************)
(* Every ECN mark is honest, for every instance: ShouldSendCN consults the *)
(* shared counter of the queue, after the departing packet was released,   *)
(* and that counter is never further from the bytes left in the queue than *)
(* EgressDrift allows.  The argument is the drift bound plus the fact that *)
(* no data packet ever enters queue qCnt-1.                                *)
(***************************************************************************)
THEOREM MarksAreHonest == Spec => MarkingHonest
<1>1. Init => ControlOnly(Current)
  BY DEF Init, ControlOnly, Current
<1>2. TypeOK /\ TypeOK' /\ EgressCounted /\ ControlOnly(Current) /\ [Next]_vars
        => ControlOnly(Current)'
  BY NextHonest
<1>3. TypeOK /\ TypeOK' /\ EgressCounted /\ ControlOnly(Current) /\ [Next]_vars
        => [HonestStep]_vars
  BY NextHonest
<1>4. [][HonestStep]_vars => MarkingHonest
  BY DEF HonestStep, MarkingHonest
<1> QED BY <1>1, <1>2, <1>3, <1>4, InitCounted, NextCounted, TypeCorrect, PTL DEF Spec
=============================================================================
