---------------------------- MODULE DcqcnRPProofs ----------------------------
(***************************************************************************)
(* The rate invariants of DcqcnRP and the property that only a CNP lowers  *)
(* the rate, for all rates, thresholds, gains and packet sizes.            *)
(*                                                                         *)
(* RateBounded, TargetAboveRate and HyperEarned need each other, and two   *)
(* more facts: a flow that has never sent is in no stage, and the counter  *)
(* of one that has sent is within m_bc (a CNP in the first stage keeps the *)
(* counter as it is).  IInv is their conjunction.                          *)
(***************************************************************************)
EXTENDS DcqcnRP, TLAPS

RP == [rate : Nat, rateAll : Nat, targetRate : Nat, txBytes : Int,
       byteStage : Nat, timeStage : Nat, stage : 0..3, alpha : Nat]

Rates(s) ==
    /\ s.rate = s.rateAll
    /\ m_minRate <= s.rateAll
    /\ s.rateAll <= m_bps
    /\ s.rateAll <= s.targetRate

Earned(s) == s.stage = 3 => m_rpgThreshold <= s.byteStage /\ m_rpgThreshold <= s.timeStage

Counter(s) == s.txBytes \in 0..m_bc

\* t is s after a step that is not a cut.
NoCut(s, t) == t.rateAll >= s.rateAll - 1

-----------------------------------------------------------------------------
(* Arithmetic of \div *)

LEMMA DivNat == ASSUME NEW a \in Nat, NEW d \in Nat \ {0} PROVE a \div d \in Nat
OBVIOUS

LEMMA DivBound ==
  ASSUME NEW a \in Nat, NEW b \in Nat, NEW d \in Nat \ {0}, a <= d * b
  PROVE  a \div d <= b
<1> DEFINE x == a \div d
<1>1. x \in Nat /\ d * x <= a OBVIOUS
<1> HIDE DEF x
<1>2. SUFFICES ASSUME x > b PROVE FALSE BY <1>1 DEF x
<1>3. x >= b + 1 BY <1>1, <1>2
<1>4. d * x >= d * (b + 1) BY <1>1, <1>3
<1>5. d * (b + 1) = d * b + d OBVIOUS
<1> QED BY <1>1, <1>4, <1>5

LEMMA CutBound ==
  ASSUME NEW rate \in Nat, NEW alpha \in Nat, alpha <= Unit
  PROVE  Cut(rate, alpha) \in Nat /\ Cut(rate, alpha) <= rate
<1> DEFINE k == 2 * Unit - alpha
           d == 2 * Unit
           a == rate * k
<1>1. k \in Nat /\ k <= d /\ d \in Nat \ {0} BY CounterAssumption
<1> HIDE DEF k, d
<1>2. a \in Nat BY <1>1
<1>3. a <= rate * d BY <1>1
<1>4. rate * d = d * rate BY <1>1
<1> HIDE DEF a
<1>5. a \div d \in Nat /\ a \div d <= rate BY <1>1, <1>2, <1>3, <1>4, DivNat, DivBound
<1> QED BY <1>5 DEF Cut, a, d, k

LEMMA AlphaBound ==
  ASSUME NEW alpha \in Nat, alpha <= Unit
  PROVE  LET decayed == ((Unit - m_g) * alpha) \div Unit
         IN  decayed \in Nat /\ decayed <= Unit - m_g
<1> DEFINE k == Unit - m_g
           a == k * alpha
<1>1. k \in Nat /\ Unit \in Nat \ {0} BY CounterAssumption
<1> HIDE DEF k
<1>2. a \in Nat BY <1>1
<1>3. a <= k * Unit BY <1>1
<1>4. k * Unit = Unit * k BY <1>1
<1> HIDE DEF a
<1>5. a \div Unit \in Nat /\ a \div Unit <= k BY <1>1, <1>2, <1>3, <1>4, DivNat, DivBound
<1> QED BY <1>5 DEF a, k

-----------------------------------------------------------------------------
(* Increases *)

LEMMA AdjustSound ==
  ASSUME NEW s \in RP, Rates(s), NEW increase \in Nat
  PROVE  LET t == AdjustRates(s, increase)
         IN  /\ t \in RP /\ Rates(t) /\ NoCut(s, t)
             /\ t.txBytes = s.txBytes /\ t.alpha = s.alpha /\ t.stage = s.stage
             /\ t.byteStage = s.byteStage /\ t.timeStage = s.timeStage
<1> USE RateAssumption
<1> DEFINE extra  == (s.byteStage = 1 \/ s.timeStage = 1) /\ s.targetRate > 10 * s.rateAll
           target == IF extra THEN s.targetRate \div 8 ELSE s.targetRate + increase
           rate   == LesserOf(m_bps, s.rateAll \div 2 + target \div 2)
           t      == AdjustRates(s, increase)
<1>1. t = [s EXCEPT !.targetRate = target, !.rateAll = rate, !.rate = rate]
  BY DEF AdjustRates
<1>2. s.rateAll \in Nat /\ s.targetRate \in Nat BY DEF RP
<1>3. target \in Nat /\ s.rateAll <= target
  <2>1. CASE extra
    <3>1. s.targetRate > 10 * s.rateAll BY <2>1
    <3>2. target = s.targetRate \div 8 BY <2>1
    <3> QED BY <3>1, <3>2, <1>2
  <2>2. CASE ~extra BY <2>2, <1>2 DEF Rates
  <2> QED BY <2>1, <2>2
<1> HIDE DEF target, extra
<1>4. /\ rate \in Nat /\ rate <= m_bps /\ m_minRate <= rate /\ rate <= target
  BY <1>2, <1>3 DEF LesserOf, Rates
<1>5. rate >= s.rateAll - 1
  BY <1>2, <1>3 DEF LesserOf, Rates
<1> HIDE DEF rate, t
<1>6. t \in RP BY <1>1, <1>3, <1>4 DEF RP
<1>7. /\ t.rate = rate /\ t.rateAll = rate /\ t.targetRate = target
      /\ t.txBytes = s.txBytes /\ t.alpha = s.alpha /\ t.stage = s.stage
      /\ t.byteStage = s.byteStage /\ t.timeStage = s.timeStage
  BY <1>1 DEF RP
<1>8. Rates(t) BY <1>4, <1>7 DEF Rates
<1>9. NoCut(s, t) BY <1>3, <1>5, <1>7 DEF NoCut
<1> QED BY <1>6, <1>7, <1>8, <1>9 DEF t

\* What every increase function of the code guarantees.
Increased(s, t) ==
    /\ t \in RP /\ Rates(t) /\ Earned(t) /\ NoCut(s, t)
    /\ t.alpha = s.alpha /\ t.txBytes = s.txBytes /\ t.stage > 0

LEMMA StageSound ==
  ASSUME NEW s \in RP, Rates(s), NEW increase \in Nat, NEW k \in 1..3,
         k = 3 => m_rpgThreshold <= s.byteStage /\ m_rpgThreshold <= s.timeStage,
         NEW t, t = [AdjustRates(s, increase) EXCEPT !.stage = k]
  PROVE  Increased(s, t)
<1> DEFINE u == AdjustRates(s, increase)
<1>1. /\ u \in RP /\ Rates(u) /\ NoCut(s, u)
      /\ u.txBytes = s.txBytes /\ u.alpha = s.alpha
      /\ u.byteStage = s.byteStage /\ u.timeStage = s.timeStage
  BY AdjustSound
<1> HIDE DEF u
<1>2. t = [u EXCEPT !.stage = k] BY DEF u
<1>3. t \in RP
  <2>1. k \in 0..3 OBVIOUS
  <2> QED BY <1>1, <1>2, <2>1 DEF RP
<1>4. /\ t.rate = u.rate /\ t.rateAll = u.rateAll /\ t.targetRate = u.targetRate
      /\ t.txBytes = u.txBytes /\ t.alpha = u.alpha /\ t.stage = k
      /\ t.byteStage = u.byteStage /\ t.timeStage = u.timeStage
  BY <1>1, <1>2 DEF RP
<1>5. Rates(t) /\ NoCut(s, t) /\ Earned(t) BY <1>1, <1>4 DEF Rates, NoCut, Earned
<1> QED BY <1>1, <1>3, <1>4, <1>5 DEF Increased

LEMMA FastSound ==
  ASSUME NEW s \in RP, Rates(s) PROVE Increased(s, rpr_adjust_rates(s))
<1>1. 1 \in 1..3 /\ 0 \in Nat /\ 1 # 3 OBVIOUS
<1>2. rpr_adjust_rates(s) = [AdjustRates(s, 0) EXCEPT !.stage = 1] BY DEF rpr_adjust_rates
<1> QED BY <1>1, <1>2, StageSound

LEMMA ActiveSound ==
  ASSUME NEW s \in RP, Rates(s) PROVE Increased(s, rpr_active_increase(s))
<1>1. 2 \in 1..3 /\ m_rai \in Nat /\ 2 # 3 BY RateAssumption
<1>2. rpr_active_increase(s) = [AdjustRates(s, m_rai) EXCEPT !.stage = 2]
  BY DEF rpr_active_increase
<1> QED BY <1>1, <1>2, StageSound

LEMMA HyperSound ==
  ASSUME NEW s \in RP, Rates(s),
         m_rpgThreshold <= s.byteStage, m_rpgThreshold <= s.timeStage
  PROVE  Increased(s, rpr_hyper_increase(s))
<1>1. HyperFactor(s) \in Nat BY CounterAssumption DEF HyperFactor, LesserOf, RP
<1>2. 3 \in 1..3 /\ m_rhai * HyperFactor(s) \in Nat BY <1>1, RateAssumption
<1>3. rpr_hyper_increase(s) = [AdjustRates(s, m_rhai * HyperFactor(s)) EXCEPT !.stage = 3]
  BY DEF rpr_hyper_increase
<1> QED BY <1>2, <1>3, StageSound

LEMMA SelectSound ==
  ASSUME NEW s \in RP, Rates(s) PROVE Increased(s, rpr_active_select(s))
<1>1. s.byteStage \in Nat /\ s.timeStage \in Nat /\ m_rpgThreshold \in Nat
  BY CounterAssumption DEF RP
<1> QED BY <1>1, ActiveSound, HyperSound DEF rpr_active_select

LEMMA ByteRestart ==
  ASSUME NEW s \in RP, Rates(s), NEW n \in Int
  PROVE  LET t == RestartBytes(s, n)
         IN  /\ t \in RP /\ Rates(t)
             /\ t.rateAll = s.rateAll /\ t.alpha = s.alpha /\ t.txBytes = n
             /\ t.byteStage = s.byteStage + 1 /\ t.timeStage = s.timeStage
<1> DEFINE t == RestartBytes(s, n)
<1> USE DEF RestartBytes
<1>1. t \in RP
  <2>1. s.byteStage + 1 \in Nat BY DEF RP
  <2> QED BY <2>1 DEF RP
<1>2. /\ t.rateAll = s.rateAll /\ t.alpha = s.alpha /\ t.txBytes = n
      /\ t.byteStage = s.byteStage + 1 /\ t.timeStage = s.timeStage
      /\ t.rate = s.rate /\ t.targetRate = s.targetRate
  BY DEF RP
<1> QED BY <1>1, <1>2 DEF Rates

LEMMA TimeAdvance ==
  ASSUME NEW s \in RP, Rates(s), NEW t, t = [s EXCEPT !.timeStage = @ + 1]
  PROVE  /\ t \in RP /\ Rates(t)
         /\ t.rateAll = s.rateAll /\ t.alpha = s.alpha /\ t.txBytes = s.txBytes
         /\ t.timeStage = s.timeStage + 1 /\ t.byteStage = s.byteStage
<1>1. t \in RP BY DEF RP
<1>2. /\ t.rateAll = s.rateAll /\ t.alpha = s.alpha /\ t.txBytes = s.txBytes
      /\ t.timeStage = s.timeStage + 1 /\ t.byteStage = s.byteStage
      /\ t.rate = s.rate /\ t.targetRate = s.targetRate
  BY DEF RP
<1> QED BY <1>1, <1>2 DEF Rates

\* The handlers of the byte counter and of the timer.
Raised(s, t) ==
    /\ t \in RP /\ Rates(t) /\ Earned(t) /\ NoCut(s, t)
    /\ t.alpha = s.alpha /\ t.stage > 0

LEMMA ByteSound ==
  ASSUME NEW s \in RP, Rates(s), Earned(s), s.stage > 0, NEW t,
         \/ s.stage = 1 /\ t = rpr_fast_byte(s)
         \/ s.stage = 2 /\ t = rpr_active_byte(s)
         \/ s.stage = 3 /\ t = rpr_hyper_byte(s)
  PROVE  Raised(s, t) /\ Counter(t)
<1> DEFINE u == RestartBytes(s, m_bc)
           v == RestartBytes(s, m_bc \div 2)
<1>1. m_bc \in Nat /\ m_bc \in Int /\ m_bc \div 2 \in 0..m_bc /\ m_bc \div 2 \in Int
  BY CounterAssumption
<1>2. u \in RP /\ Rates(u) /\ u.rateAll = s.rateAll /\ u.alpha = s.alpha /\ u.txBytes = m_bc
  BY <1>1, ByteRestart
<1>3. /\ v \in RP /\ Rates(v) /\ v.rateAll = s.rateAll /\ v.alpha = s.alpha
      /\ v.txBytes = m_bc \div 2
      /\ v.byteStage = s.byteStage + 1 /\ v.timeStage = s.timeStage
  BY <1>1, ByteRestart
<1> HIDE DEF u, v
<1>4. CASE s.stage = 1 /\ t = rpr_fast_byte(s)
  <2>1. t = rpr_adjust_rates(u) \/ t = rpr_active_select(u) BY <1>4 DEF rpr_fast_byte, u
  <2>2. Increased(u, t) BY <2>1, <1>2, FastSound, SelectSound
  <2> QED BY <2>2, <1>1, <1>2 DEF Increased, Raised, Counter, NoCut
<1>5. CASE s.stage = 2 /\ t = rpr_active_byte(s)
  <2>1. t = rpr_active_increase(u) BY <1>5 DEF rpr_active_byte, u
  <2>2. Increased(u, t) BY <2>1, <1>2, ActiveSound
  <2> QED BY <2>2, <1>1, <1>2 DEF Increased, Raised, Counter, NoCut
<1>6. CASE s.stage = 3 /\ t = rpr_hyper_byte(s)
  <2>1. t = rpr_hyper_increase(v) BY <1>6 DEF rpr_hyper_byte, v
  <2>2. s.byteStage \in Nat /\ m_rpgThreshold \in Nat BY CounterAssumption DEF RP
  <2>3. m_rpgThreshold <= v.byteStage /\ m_rpgThreshold <= v.timeStage
    BY <1>3, <1>6, <2>2 DEF Earned
  <2>4. Increased(v, t) BY <2>1, <2>3, <1>3, HyperSound
  <2> QED BY <2>4, <1>1, <1>3 DEF Increased, Raised, Counter, NoCut
<1> QED BY <1>4, <1>5, <1>6

LEMMA TimeSound ==
  ASSUME NEW s \in RP, Rates(s), Earned(s), s.stage > 0, NEW t, t = TimeEvent(s)
  PROVE  Raised(s, t) /\ t.txBytes = s.txBytes
<1> DEFINE u == [s EXCEPT !.timeStage = @ + 1]
<1>1. /\ u \in RP /\ Rates(u) /\ u.rateAll = s.rateAll /\ u.alpha = s.alpha
      /\ u.txBytes = s.txBytes /\ u.timeStage = s.timeStage + 1 /\ u.byteStage = s.byteStage
  BY TimeAdvance
<1>2. s.stage \in 1..3 BY DEF RP
<1>3. Increased(u, t)
  <2>1. CASE s.stage = 1
    <3>1. t = rpr_adjust_rates(u) \/ t = rpr_active_select(u)
      BY <2>1 DEF TimeEvent, rpr_fast_time
    <3> HIDE DEF u
    <3> QED BY <3>1, <1>1, FastSound, SelectSound
  <2>2. CASE s.stage = 2
    <3>1. t = rpr_active_select(u) BY <2>2 DEF TimeEvent, rpr_active_time
    <3> HIDE DEF u
    <3> QED BY <3>1, <1>1, SelectSound
  <2>3. CASE s.stage = 3
    <3>1. t = rpr_hyper_increase(u) BY <2>3 DEF TimeEvent, rpr_hyper_time
    <3> HIDE DEF u
    <3>2. s.timeStage \in Nat /\ m_rpgThreshold \in Nat BY CounterAssumption DEF RP
    <3>3. m_rpgThreshold <= u.byteStage /\ m_rpgThreshold <= u.timeStage
      BY <1>1, <2>3, <3>2 DEF Earned
    <3> QED BY <3>1, <3>3, <1>1, HyperSound
  <2> QED BY <1>2, <2>1, <2>2, <2>3
<1> HIDE DEF u
<1> QED BY <1>1, <1>3 DEF Increased, Raised, NoCut

-----------------------------------------------------------------------------
(* The inductive invariant *)

IInv ==
    /\ TypeOK
    /\ Earned(rp)
    /\ rp.alpha <= Unit
    /\ rp.rate = 0 => rp.stage = 0 /\ rp.rateAll = 0 /\ rp.targetRate = 0
    /\ rp.rate # 0 => Rates(rp) /\ Counter(rp)
    /\ rp.stage > 0 => m_rptimer /\ m_resumeAlpha

LEMMA InitInv == Init => IInv
<1> SUFFICES ASSUME Init PROVE IInv OBVIOUS
<1>1. PICK tx \in Garbage :
         rp = [rate |-> 0, rateAll |-> 0, targetRate |-> 0, txBytes |-> tx,
               byteStage |-> 0, timeStage |-> 0, stage |-> 0, alpha |-> Unit \div 2]
  BY DEF Init
<1>2. Unit \div 2 \in Nat /\ Unit \div 2 <= Unit /\ tx \in Int /\ 0 \in Nat /\ 0 \in 0..3
  BY CounterAssumption
<1>3. TypeOK BY <1>1, <1>2 DEF TypeOK, Init
<1> QED BY <1>1, <1>2, <1>3 DEF IInv, Earned

LEMMA LazySound ==
  ASSUME IInv, NEW s, s = LazyInit(rp)
  PROVE  /\ s \in RP /\ Rates(s) /\ Earned(s) /\ s.alpha <= Unit
         /\ rp.stage > 0 => s = rp
         /\ s.stage = rp.stage /\ rp.rateAll <= s.rateAll
         /\ rp.rate # 0 => s = rp
<1>1. rp \in RP BY DEF IInv, TypeOK, RP
<1>2. CASE rp.rate # 0
  <2>1. s = rp BY <1>2 DEF LazyInit
  <2>2. rp.rateAll <= rp.rateAll BY <1>1 DEF RP
  <2> QED BY <1>1, <1>2, <2>1, <2>2 DEF IInv
<1>3. CASE rp.rate = 0
  <2>1. s = [rp EXCEPT !.rate = m_bps, !.rateAll = m_bps, !.targetRate = m_bps]
    BY <1>3 DEF LazyInit
  <2>2. s \in RP BY <1>1, <2>1, RateAssumption DEF RP
  <2>3. /\ s.rate = m_bps /\ s.rateAll = m_bps /\ s.targetRate = m_bps
        /\ s.stage = rp.stage /\ s.alpha = rp.alpha
    BY <1>1, <2>1 DEF RP
  <2>4. Rates(s) BY <2>3, RateAssumption DEF Rates
  <2>5. rp.rateAll = 0 /\ rp.stage = 0 BY <1>3 DEF IInv
  <2> QED BY <1>3, <2>2, <2>3, <2>4, <2>5, RateAssumption DEF IInv, Earned
<1> QED BY <1>2, <1>3

LEMMA TransmitInv ==
  ASSUME IInv, NEW z \in PacketSizes, DequeueAndTransmit(z)
  PROVE  IInv' /\ NoCut(rp, rp')
<1> DEFINE s  == LazyInit(rp)
           tx == IF s.stage > 0 THEN s.txBytes - z ELSE m_bc
           t  == [s EXCEPT !.txBytes = tx]
<1>1. /\ s \in RP /\ Rates(s) /\ Earned(s) /\ s.alpha <= Unit
      /\ rp.stage > 0 => s = rp
      /\ s.stage = rp.stage /\ rp.rateAll <= s.rateAll
  BY LazySound
<1>2. rp' = ByteCounter(s, z) /\ UNCHANGED <<m_rptimer, m_resumeAlpha, cnps>>
  BY DEF DequeueAndTransmit
<1>10. rp \in RP BY DEF IInv, TypeOK, RP
<1> HIDE DEF s
<1>3. tx \in Int /\ (s.stage = 0 => tx = m_bc) /\ (s.stage > 0 => tx <= m_bc)
  <2>1. z \in Nat /\ m_bc \in Nat /\ s.txBytes \in Int /\ s.stage \in 0..3
    BY <1>1, CounterAssumption DEF RP
  <2>2. s.stage > 0 => s.txBytes <= m_bc
    <3>1. s.stage > 0 => rp.rate # 0 /\ s = rp BY <1>1, <2>1 DEF IInv
    <3> QED BY <2>1, <3>1 DEF IInv, Counter
  <2> QED BY <2>1, <2>2
<1>4. t \in RP BY <1>1, <1>3 DEF RP
<1>5. /\ t.rate = s.rate /\ t.rateAll = s.rateAll /\ t.targetRate = s.targetRate
      /\ t.txBytes = tx /\ t.stage = s.stage /\ t.alpha = s.alpha
      /\ t.byteStage = s.byteStage /\ t.timeStage = s.timeStage
  BY <1>1 DEF RP
<1>6. Rates(t) /\ Earned(t) BY <1>1, <1>5 DEF Rates, Earned
<1>7. \/ tx >= 0 /\ rp' = t
      \/ /\ ~(tx >= 0)
         /\ \/ t.stage = 1 /\ rp' = rpr_fast_byte(t)
            \/ t.stage = 2 /\ rp' = rpr_active_byte(t)
            \/ t.stage = 3 /\ rp' = rpr_hyper_byte(t)
  <2>1. s.stage \in 0..3 BY <1>1 DEF RP
  <2>2. s.stage = 0 => tx >= 0 BY <1>3, CounterAssumption
  <2> QED BY <1>2, <1>5, <2>1, <2>2 DEF ByteCounter
<1> HIDE DEF t, tx
<1>8. /\ rp' \in RP /\ Rates(rp') /\ Earned(rp') /\ NoCut(t, rp') /\ Counter(rp')
      /\ rp'.alpha = t.alpha /\ (rp'.stage > 0 => t.stage > 0)
  <2>1. CASE tx >= 0 /\ rp' = t
    <3>1. t.rateAll >= t.rateAll - 1 BY <1>4 DEF RP
    <3>2. tx \in 0..m_bc
      <4>1. s.stage = 0 \/ s.stage > 0 BY <1>1 DEF RP
      <4> QED BY <2>1, <1>3, <4>1, CounterAssumption
    <3> QED BY <2>1, <1>4, <1>5, <1>6, <3>1, <3>2 DEF NoCut, Counter
  <2>2. CASE ~(tx >= 0)
    <3>1. t.stage > 0 BY <2>2, <1>7
    <3>2. Raised(t, rp') /\ Counter(rp') BY <2>2, <3>1, <1>4, <1>6, <1>7, ByteSound
    <3> QED BY <3>1, <3>2 DEF Raised
  <2> QED BY <2>1, <2>2, <1>7
<1>9. NoCut(rp, rp') BY <1>1, <1>5, <1>8, <1>10 DEF NoCut, RP
<1>11. rp'.rate # 0 BY <1>8, RateAssumption DEF Rates, RP
<1>12. TypeOK' BY <1>8, <1>2 DEF TypeOK, RP, IInv
<1>13. rp'.alpha <= Unit BY <1>1, <1>5, <1>8
<1>14. (rp.stage > 0 => m_rptimer /\ m_resumeAlpha)'
  <2>1. rp'.stage > 0 => rp.stage > 0 BY <1>1, <1>5, <1>8
  <2> QED BY <2>1, <1>2 DEF IInv
<1> QED BY <1>8, <1>9, <1>11, <1>12, <1>13, <1>14 DEF IInv

LEMMA CnpInv == ASSUME IInv, ReceiveCNP PROVE IInv'
<1> DEFINE s     == LazyInit(rp)
           alpha == ((Unit - m_g) * s.alpha) \div Unit + m_g
           t     == rpr_cnm_received(s)
<1>1. s = rp /\ s \in RP /\ Rates(s) /\ s.alpha <= Unit /\ Counter(s)
  BY LazySound DEF ReceiveCNP, IInv
<1> HIDE DEF s
<1>2. /\ rp' = [t EXCEPT !.rate = LesserOf(m_bps, t.rateAll)]
      /\ m_rptimer' = TRUE /\ m_resumeAlpha' = TRUE /\ cnps' = cnps + 1
  BY DEF ReceiveCNP, s
<1>3. alpha \in Nat /\ alpha <= Unit
  <2>1. s.alpha \in Nat BY <1>1 DEF RP
  <2> DEFINE decayed == ((Unit - m_g) * s.alpha) \div Unit
  <2>2. decayed \in Nat /\ decayed <= Unit - m_g BY <1>1, <2>1, AlphaBound
  <2> HIDE DEF decayed
  <2>3. decayed + m_g \in Nat /\ decayed + m_g <= Unit BY <2>2, CounterAssumption
  <2> QED BY <2>3 DEF decayed
<1> DEFINE cut    == GreaterOf(m_minRate, Cut(s.rateAll, alpha))
           target == IF Clamps(s) THEN s.rateAll ELSE s.targetRate
           tx     == IF Clamps(s) THEN m_bc ELSE s.txBytes
<1>4. t = [s EXCEPT !.targetRate = target, !.txBytes = tx, !.byteStage = 0,
                    !.timeStage = 0, !.alpha = alpha, !.rateAll = cut, !.stage = 1]
  BY DEF rpr_cnm_received
<1> HIDE DEF alpha, t
<1>5. s.rateAll \in Nat /\ s.targetRate \in Nat /\ s.txBytes \in Int BY <1>1 DEF RP
<1>6. /\ cut \in Nat /\ m_minRate <= cut /\ cut <= s.rateAll
  <2>1. Cut(s.rateAll, alpha) \in Nat /\ Cut(s.rateAll, alpha) <= s.rateAll
    BY <1>3, <1>5, CutBound
  <2> QED BY <2>1, <1>1, <1>5, RateAssumption DEF GreaterOf, Rates
<1>7. target \in Nat /\ s.rateAll <= target BY <1>1, <1>5 DEF Rates
<1>8. tx \in 0..m_bc BY <1>1, CounterAssumption DEF Counter
<1> HIDE DEF cut, target, tx
<1>9. t \in RP
  <2>1. tx \in Int /\ 0 \in Nat /\ 1 \in 0..3 BY <1>8
  <2> QED BY <1>1, <1>3, <1>4, <1>6, <1>7, <2>1 DEF RP
<1>10. /\ t.rateAll = cut /\ t.targetRate = target /\ t.txBytes = tx
       /\ t.alpha = alpha /\ t.stage = 1
  BY <1>1, <1>4 DEF RP
<1>11. LesserOf(m_bps, t.rateAll) = cut
  BY <1>1, <1>5, <1>6, <1>10, RateAssumption DEF LesserOf, Rates
<1>12. rp' = [t EXCEPT !.rate = cut] BY <1>2, <1>11
<1>13. rp' \in RP BY <1>6, <1>9, <1>12 DEF RP
<1>14. /\ rp'.rateAll = cut /\ rp'.targetRate = target /\ rp'.txBytes = tx
       /\ rp'.alpha = alpha /\ rp'.stage = 1 /\ rp'.rate = cut
  BY <1>9, <1>10, <1>12 DEF RP
<1>15. Rates(rp') BY <1>1, <1>5, <1>6, <1>7, <1>14, RateAssumption DEF Rates
<1>16. Counter(rp') BY <1>8, <1>14 DEF Counter
<1>17. TypeOK' BY <1>13, <1>2 DEF TypeOK, RP, IInv
<1>18. rp'.rate # 0 BY <1>6, <1>14, RateAssumption
<1> QED BY <1>2, <1>3, <1>14, <1>15, <1>16, <1>17, <1>18 DEF IInv, Earned

LEMMA TimerInv == ASSUME IInv, rpr_timer_wrapper PROVE IInv' /\ NoCut(rp, rp')
<1>1. rp \in RP BY DEF IInv, TypeOK, RP
<1>2. /\ rp' = TimeEvent(rp) /\ m_rptimer' = (rp.stage # 0)
      /\ UNCHANGED <<m_resumeAlpha, cnps>>
  BY DEF rpr_timer_wrapper
<1>3. CASE rp.stage = 0
  <2>1. rp' = rp BY <1>2, <1>3 DEF TimeEvent
  <2>2. m_rptimer' \in BOOLEAN BY <1>2
  <2>3. rp.rateAll >= rp.rateAll - 1 BY <1>1 DEF RP
  <2> QED BY <1>2, <1>3, <2>1, <2>2, <2>3 DEF IInv, TypeOK, NoCut, Earned, Rates, Counter
<1>4. CASE rp.stage > 0
  <2>1. rp.rate # 0 BY <1>4 DEF IInv
  <2>2. Rates(rp) /\ Earned(rp) /\ Counter(rp) BY <2>1 DEF IInv
  <2>3. Raised(rp, rp') /\ rp'.txBytes = rp.txBytes BY <1>1, <1>2, <1>4, <2>2, TimeSound
  <2>4. rp'.rate # 0 BY <2>3, RateAssumption DEF Raised, Rates, RP
  <2>5. m_rptimer' = TRUE /\ m_resumeAlpha'
    <3>1. rp.stage # 0 BY <1>4
    <3> QED BY <1>2, <1>4, <3>1 DEF IInv
  <2>6. TypeOK' BY <2>3, <2>5, <1>2 DEF TypeOK, RP, IInv, Raised
  <2>7. Counter(rp') BY <2>2, <2>3 DEF Counter
  <2> QED BY <2>3, <2>4, <2>5, <2>6, <2>7 DEF IInv, Raised
<1> QED BY <1>1, <1>3, <1>4 DEF RP

LEMMA AlphaInv == ASSUME IInv, ResumeAlpha PROVE IInv' /\ NoCut(rp, rp')
<1> DEFINE alpha == ((Unit - m_g) * rp.alpha) \div Unit
<1>1. rp \in RP /\ rp.alpha \in Nat BY DEF IInv, TypeOK, RP
<1>2. rp' = [rp EXCEPT !.alpha = alpha] /\ UNCHANGED <<m_rptimer, m_resumeAlpha, cnps>>
  BY DEF ResumeAlpha
<1>3. alpha \in Nat /\ alpha <= Unit - m_g BY <1>1, AlphaBound DEF IInv
<1> HIDE DEF alpha
<1>4. alpha <= Unit BY <1>3, CounterAssumption
<1>5. rp' \in RP BY <1>1, <1>2, <1>3 DEF RP
<1>6. /\ rp'.rate = rp.rate /\ rp'.rateAll = rp.rateAll /\ rp'.targetRate = rp.targetRate
      /\ rp'.txBytes = rp.txBytes /\ rp'.stage = rp.stage /\ rp'.alpha = alpha
      /\ rp'.byteStage = rp.byteStage /\ rp'.timeStage = rp.timeStage
  BY <1>1, <1>2 DEF RP
<1>7. TypeOK' BY <1>5, <1>2 DEF TypeOK, RP, IInv
<1>8. rp.rateAll >= rp.rateAll - 1 BY <1>1 DEF RP
<1> QED BY <1>2, <1>4, <1>6, <1>7, <1>8 DEF IInv, Earned, Rates, Counter, NoCut

LEMMA NextInv == IInv /\ [Next]_vars => IInv'
<1> SUFFICES ASSUME IInv, [Next]_vars PROVE IInv' OBVIOUS
<1>1. ASSUME NEW z \in PacketSizes, DequeueAndTransmit(z) PROVE IInv'
  BY <1>1, TransmitInv
<1>2. CASE ReceiveCNP BY <1>2, CnpInv
<1>3. CASE rpr_timer_wrapper BY <1>3, TimerInv
<1>4. CASE ResumeAlpha BY <1>4, AlphaInv
<1>5. CASE UNCHANGED vars
  BY <1>5 DEF vars, IInv, TypeOK, Earned, Rates, Counter
<1> QED BY <1>1, <1>2, <1>3, <1>4, <1>5 DEF Next

LEMMA Inductive == Spec => []IInv
BY InitInv, NextInv, PTL DEF Spec

-----------------------------------------------------------------------------
(***************************************************************************)
(* The rate of a flow that has sent stays between MinRate and the rate of  *)
(* the link, for every sequence of packets, CNPs and timers.               *)
(***************************************************************************)
THEOREM RateIsBounded == Spec => []RateBounded
<1>1. IInv => RateBounded BY DEF IInv, RateBounded, Rates
<1> QED BY <1>1, Inductive, PTL

\* AdjustRates always averages with a target at or above the rate.
THEOREM TargetStaysAbove == Spec => []TargetAboveRate
<1>1. IInv => TargetAboveRate
  <2> SUFFICES ASSUME IInv PROVE TargetAboveRate OBVIOUS
  <2>1. CASE rp.rate = 0
    <3>1. rp.rateAll = 0 /\ rp.targetRate = 0 BY <2>1 DEF IInv
    <3> QED BY <3>1 DEF TargetAboveRate
  <2>2. CASE rp.rate # 0 BY <2>2 DEF IInv, Rates, TargetAboveRate
  <2> QED BY <2>1, <2>2
<1> QED BY <1>1, Inductive, PTL

\* The unsigned factor of rpr_hyper_increase never wraps.
THEOREM HyperIsEarned == Spec => []HyperEarned
<1>1. IInv => HyperEarned
  BY CounterAssumption DEF IInv, TypeOK, Earned, HyperEarned, HyperFactor, LesserOf
<1> QED BY <1>1, Inductive, PTL

\* The value the constructor leaves in m_txBytes is never used.
THEOREM GarbageIsUnused == Spec => []GarbageUnused
<1>1. IInv => GarbageUnused
  <2> SUFFICES ASSUME IInv, rp.stage > 0 PROVE rp.txBytes \in 0..m_bc BY DEF GarbageUnused
  <2>1. rp.rate # 0 BY DEF IInv
  <2> QED BY <2>1 DEF IInv, Counter
<1> QED BY <1>1, Inductive, PTL

\* A throttled flow always has its timers armed.
THEOREM RecoveryIsArmed == Spec => []RecoveryArmed
<1>1. IInv => RecoveryArmed BY DEF IInv, RecoveryArmed
<1> QED BY <1>1, Inductive, PTL

\* No step but the receipt of a CNP lowers the rate by more than rounding.
THEOREM CutsNeedCnp == Spec => OnlyCnpCuts
<1>1. IInv /\ [Next]_vars => [cnps' = cnps => rp'.rateAll >= rp.rateAll - 1]_vars
  <2> SUFFICES ASSUME IInv, Next, cnps' = cnps PROVE rp'.rateAll >= rp.rateAll - 1
    OBVIOUS
  <2>1. ASSUME NEW z \in PacketSizes, DequeueAndTransmit(z)
        PROVE  rp'.rateAll >= rp.rateAll - 1
    BY <2>1, TransmitInv DEF NoCut
  <2>2. CASE ReceiveCNP
    <3>1. cnps' = cnps + 1 /\ cnps \in Nat BY <2>2 DEF ReceiveCNP, IInv, TypeOK
    <3> QED BY <3>1
  <2>3. CASE rpr_timer_wrapper BY <2>3, TimerInv DEF NoCut
  <2>4. CASE ResumeAlpha BY <2>4, AlphaInv DEF NoCut
  <2> QED BY <2>1, <2>2, <2>3, <2>4 DEF Next
<1> QED BY <1>1, Inductive, PTL DEF Spec, OnlyCnpCuts
=============================================================================
