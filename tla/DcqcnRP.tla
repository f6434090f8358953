------------------------------- MODULE DcqcnRP -------------------------------
(***************************************************************************)
(* The DCQCN reaction point: how a NIC (QbbNetDevice on a node of type 0)  *)
(* lowers the rate of a flow when a congestion notification (CNP) arrives  *)
(* and raises it again, driven by a byte counter and a timer.              *)
(*                                                                         *)
(* One flow and one hop (maxHop is 1).  Its per-flow arrays are the fields *)
(* of rp; each rpr_ function of qbb-net-device.cc is an operator from rp   *)
(* to rp.  Rates are the integers of DataRate: arithmetic is done in       *)
(* double and truncated, so halving is \div.  The double m_alpha is a      *)
(* fixed-point number of Unit-ths, rounded down.                           *)
(*                                                                         *)
(* A pending simulator event is a Boolean.  The flow transmits and its     *)
(* receiver notifies at any time; a CNP only answers a packet of the flow. *)
(***************************************************************************)
EXTENDS Integers

CONSTANTS
    m_bps, m_minRate, m_rai, m_rhai,  \* DataRates
    m_rpgThreshold,                   \* FastRecoveryTimes
    m_bc,                             \* ByteCounter
    Unit, m_g,                        \* DCTCPGain is m_g / Unit
    m_EcnClampTgtRate, m_EcnClampTgtRateAfterTimeInc,
    PacketSizes,
    Garbage,                          \* what the constructor reads from m_bc
    MaxByteStage, MaxTimeStage,       \* bounds on the stage counters
    MaxCnps                           \* bound on the CNPs of a run

(***************************************************************************)
(* m_minRate is even: AdjustRates halves the rate and the target           *)
(* separately, and two odd halves lose one bit per second.  The default is *)
(* 100 Mb/s.                                                               *)
(***************************************************************************)
ASSUME RateAssumption ==
    /\ m_bps \in Nat /\ m_minRate \in Nat /\ m_rai \in Nat /\ m_rhai \in Nat
    /\ 0 < m_minRate /\ m_minRate <= m_bps
    /\ 2 * (m_minRate \div 2) = m_minRate

ASSUME CounterAssumption ==
    /\ m_rpgThreshold \in Nat /\ m_bc \in Nat
    /\ Unit \in Nat /\ m_g \in Nat /\ m_g < Unit
    /\ PacketSizes \subseteq Nat /\ Garbage \subseteq Int
    /\ m_EcnClampTgtRate \in BOOLEAN /\ m_EcnClampTgtRateAfterTimeInc \in BOOLEAN

VARIABLES
    rp,             \* the rate state of the flow
    m_rptimer,      \* rpr_timer_wrapper is scheduled
    m_resumeAlpha,  \* ResumeAlpha is scheduled
    cnps            \* CNPs received

vars == <<rp, m_rptimer, m_resumeAlpha, cnps>>

-----------------------------------------------------------------------------
\* rate = 0 means that the flow has not sent yet ("lazy initialization").
Init ==
    /\ \E tx \in Garbage :
         rp = [rate |-> 0, rateAll |-> 0, targetRate |-> 0, txBytes |-> tx,
               byteStage |-> 0, timeStage |-> 0, stage |-> 0, alpha |-> Unit \div 2]
    /\ m_rptimer = FALSE
    /\ m_resumeAlpha = FALSE
    /\ cnps = 0

LesserOf(a, b) == IF a < b THEN a ELSE b

GreaterOf(a, b) == IF a < b THEN b ELSE a

LazyInit(s) ==
    IF s.rate = 0
      THEN [s EXCEPT !.rate = m_bps, !.rateAll = m_bps, !.targetRate = m_bps]
      ELSE s

-----------------------------------------------------------------------------
(* Raising the rate *)

\* Mutant: the extra step down divides the target by 16.
AdjustRates_Sixteenth(s, increase) ==
    LET target == IF (s.byteStage = 1 \/ s.timeStage = 1) /\ s.targetRate > 10 * s.rateAll
                    THEN s.targetRate \div 16
                    ELSE s.targetRate + increase
        rate   == LesserOf(m_bps, s.rateAll \div 2 + target \div 2)
    IN  [s EXCEPT !.targetRate = target, !.rateAll = rate, !.rate = rate]

\* Mutant: the extra step down is taken at any target above the rate.
AdjustRates_AnyTarget(s, increase) ==
    LET target == IF (s.byteStage = 1 \/ s.timeStage = 1) /\ s.targetRate > s.rateAll
                    THEN s.targetRate \div 8
                    ELSE s.targetRate + increase
        rate   == LesserOf(m_bps, s.rateAll \div 2 + target \div 2)
    IN  [s EXCEPT !.targetRate = target, !.rateAll = rate, !.rate = rate]

AdjustRates(s, increase) ==
    LET target == IF (s.byteStage = 1 \/ s.timeStage = 1) /\ s.targetRate > 10 * s.rateAll
                    THEN s.targetRate \div 8
                    ELSE s.targetRate + increase
        rate   == LesserOf(m_bps, s.rateAll \div 2 + target \div 2)
    IN  [s EXCEPT !.targetRate = target, !.rateAll = rate, !.rate = rate]

rpr_adjust_rates(s) == [AdjustRates(s, 0) EXCEPT !.stage = 1]

rpr_active_increase(s) == [AdjustRates(s, m_rai) EXCEPT !.stage = 2]

\* The factor is a uint32_t: it must not go below zero.
HyperFactor(s) == LesserOf(s.byteStage, s.timeStage) - m_rpgThreshold + 1

rpr_hyper_increase(s) == [AdjustRates(s, m_rhai * HyperFactor(s)) EXCEPT !.stage = 3]

\* Mutant: one counter at the threshold is enough for hyper increase.
rpr_active_select_Either(s) ==
    IF s.byteStage < m_rpgThreshold /\ s.timeStage < m_rpgThreshold
      THEN rpr_active_increase(s)
      ELSE rpr_hyper_increase(s)

rpr_active_select(s) ==
    IF s.byteStage < m_rpgThreshold \/ s.timeStage < m_rpgThreshold
      THEN rpr_active_increase(s)
      ELSE rpr_hyper_increase(s)

RestartBytes(s, n) == [s EXCEPT !.byteStage = @ + 1, !.txBytes = n]

rpr_fast_byte(s) ==
    LET t == RestartBytes(s, m_bc)
    IN  IF t.byteStage < m_rpgThreshold THEN rpr_adjust_rates(t) ELSE rpr_active_select(t)

rpr_active_byte(s) == rpr_active_increase(RestartBytes(s, m_bc))

rpr_hyper_byte(s) == rpr_hyper_increase(RestartBytes(s, m_bc \div 2))

rpr_fast_time(s) ==
    LET t == [s EXCEPT !.timeStage = @ + 1]
    IN  IF t.timeStage < m_rpgThreshold THEN rpr_adjust_rates(t) ELSE rpr_active_select(t)

rpr_active_time(s) == rpr_active_select([s EXCEPT !.timeStage = @ + 1])

rpr_hyper_time(s) == rpr_hyper_increase([s EXCEPT !.timeStage = @ + 1])

-----------------------------------------------------------------------------
(* Lowering it *)

Clamps(s) ==
    \/ m_EcnClampTgtRate
    \/ s.byteStage # 0
    \/ m_EcnClampTgtRateAfterTimeInc /\ s.timeStage # 0

\* rateAll * (1 - alpha / 2), truncated.
Cut(rate, alpha) == (rate * (2 * Unit - alpha)) \div (2 * Unit)

\* Mutant: the cut is not limited by the minimum rate.
rpr_cnm_received_NoMinimum(s) ==
    LET alpha == ((Unit - m_g) * s.alpha) \div Unit + m_g
    IN  [s EXCEPT !.targetRate = IF Clamps(s) THEN s.rateAll ELSE @,
                  !.txBytes    = IF Clamps(s) THEN m_bc ELSE @,
                  !.byteStage  = 0,
                  !.timeStage  = 0,
                  !.alpha      = alpha,
                  !.rateAll    = Cut(@, alpha),
                  !.stage      = 1]

\* Mutant: the stage is not reset together with the counters.
rpr_cnm_received_KeepsStage(s) ==
    LET alpha == ((Unit - m_g) * s.alpha) \div Unit + m_g
    IN  [s EXCEPT !.targetRate = IF Clamps(s) THEN s.rateAll ELSE @,
                  !.txBytes    = IF Clamps(s) THEN m_bc ELSE @,
                  !.byteStage  = 0,
                  !.timeStage  = 0,
                  !.alpha      = alpha,
                  !.rateAll    = GreaterOf(m_minRate, Cut(@, alpha)),
                  !.stage      = GreaterOf(1, @)]

rpr_cnm_received(s) ==
    LET alpha == ((Unit - m_g) * s.alpha) \div Unit + m_g
    IN  [s EXCEPT !.targetRate = IF Clamps(s) THEN s.rateAll ELSE @,
                  !.txBytes    = IF Clamps(s) THEN m_bc ELSE @,
                  !.byteStage  = 0,
                  !.timeStage  = 0,
                  !.alpha      = alpha,
                  !.rateAll    = GreaterOf(m_minRate, Cut(@, alpha)),
                  !.stage      = 1]

-----------------------------------------------------------------------------
(* The event handlers *)

\* Mutant: the counter is not loaded while the flow is not throttled.
ByteCounter_NoLoad(s, z) ==
    LET tx == IF s.stage > 0 THEN s.txBytes - z ELSE s.txBytes
        t  == [s EXCEPT !.txBytes = tx]
    IN  IF tx >= 0 \/ s.stage = 0 THEN t
        ELSE IF s.stage = 1 THEN rpr_fast_byte(t)
        ELSE IF s.stage = 2 THEN rpr_active_byte(t)
        ELSE rpr_hyper_byte(t)

\* DequeueAndTransmit puts a packet of z bytes of the flow on the wire.
ByteCounter(s, z) ==
    LET tx == IF s.stage > 0 THEN s.txBytes - z ELSE m_bc
        t  == [s EXCEPT !.txBytes = tx]
    IN  IF tx >= 0 THEN t
        ELSE IF s.stage = 1 THEN rpr_fast_byte(t)
        ELSE IF s.stage = 2 THEN rpr_active_byte(t)
        ELSE rpr_hyper_byte(t)

DequeueAndTransmit(z) ==
    /\ rp.byteStage < MaxByteStage
    /\ rp' = ByteCounter(LazyInit(rp), z)
    /\ UNCHANGED <<m_rptimer, m_resumeAlpha, cnps>>

\* Receive of a CNP whose bits say congestion.
ReceiveCNP ==
    /\ rp.rate # 0
    /\ cnps < MaxCnps
    /\ LET s == rpr_cnm_received(LazyInit(rp))
       IN  rp' = [s EXCEPT !.rate = LesserOf(m_bps, s.rateAll)]
    /\ m_rptimer' = TRUE
    /\ m_resumeAlpha' = TRUE
    /\ cnps' = cnps + 1

\* Each of the three restarts the timer.
TimeEvent(s) ==
    IF s.stage = 1 THEN rpr_fast_time(s)
    ELSE IF s.stage = 2 THEN rpr_active_time(s)
    ELSE IF s.stage = 3 THEN rpr_hyper_time(s)
    ELSE s

\* Mutant: the timer is not started again.
rpr_timer_wrapper_Once ==
    /\ m_rptimer
    /\ rp.timeStage < MaxTimeStage
    /\ rp' = TimeEvent(rp)
    /\ m_rptimer' = FALSE
    /\ UNCHANGED <<m_resumeAlpha, cnps>>

rpr_timer_wrapper ==
    /\ m_rptimer
    /\ rp.timeStage < MaxTimeStage
    /\ rp' = TimeEvent(rp)
    /\ m_rptimer' = (rp.stage # 0)
    /\ UNCHANGED <<m_resumeAlpha, cnps>>

ResumeAlpha ==
    /\ m_resumeAlpha
    /\ rp' = [rp EXCEPT !.alpha = ((Unit - m_g) * @) \div Unit]
    /\ UNCHANGED <<m_rptimer, m_resumeAlpha, cnps>>

Next ==
    \/ \E z \in PacketSizes : DequeueAndTransmit(z)
    \/ ReceiveCNP
    \/ rpr_timer_wrapper
    \/ ResumeAlpha

Spec == Init /\ [][Next]_vars

-----------------------------------------------------------------------------
(* Properties *)

TypeOK ==
    /\ rp \in [rate : Nat, rateAll : Nat, targetRate : Nat, txBytes : Int,
               byteStage : Nat, timeStage : Nat, stage : 0..3, alpha : Nat]
    /\ m_rptimer \in BOOLEAN
    /\ m_resumeAlpha \in BOOLEAN
    /\ cnps \in Nat

(***************************************************************************)
(* "Minimum rate of a throttled flow" (attribute MinRate), "Current rate": *)
(* through any sequence of cuts and increases the flow that has sent keeps *)
(* a rate between m_minRate and the rate of the link, and m_rate follows   *)
(* m_rateAll.                                                              *)
(***************************************************************************)
RateBounded ==
    rp.rate # 0 => rp.rate = rp.rateAll /\ m_minRate <= rp.rate /\ rp.rate <= m_bps

(***************************************************************************)
(* The target never falls below the rate, although AdjustRates may divide  *)
(* it by 8 and a CNP may leave it where earlier increases took it: only so *)
(* can the average of the two be an increase.                              *)
(***************************************************************************)
TargetAboveRate == rp.rateAll <= rp.targetRate

(***************************************************************************)
(* Hyper increase is entered and kept only with both counters at the       *)
(* threshold, so the unsigned factor of rpr_hyper_increase never wraps.    *)
(* rpr_hyper_byte and rpr_hyper_time call it without looking.              *)
(***************************************************************************)
HyperEarned == rp.stage = 3 => HyperFactor(rp) >= 1

(***************************************************************************)
(* "we don't need this at the beginning, so it doesn't matter what value   *)
(* it has": the constructor fills m_txBytes from an attribute that is not  *)
(* set yet.  Once a CNP has started a recovery, the counter is within one  *)
(* ByteCounter.                                                            *)
(***************************************************************************)
GarbageUnused == rp.stage > 0 => rp.txBytes \in 0..m_bc

\* A throttled flow always has its recovery timer and its alpha timer armed.
RecoveryArmed == rp.stage > 0 => m_rptimer /\ m_resumeAlpha

\* Only a CNP lowers the rate: an increase step loses one bit per second at
\* most, when both halves of AdjustRates are truncated.
OnlyCnpCuts == [][cnps' = cnps => rp'.rateAll >= rp.rateAll - 1]_vars

\* A flow that is no longer notified gets the rate of the link back.
Recovers == rp.stage > 0 ~> rp.rate = m_bps
=============================================================================
