------------------------------ MODULE DcqcnLoop ------------------------------
(***************************************************************************)
(* The DCQCN loop of one flow: the reaction point of its sender (module    *)
(* DcqcnRP) driven by the notification point of its receiver, which keeps  *)
(* an ECNAccount per flow and answers congestion marks with a CNP at most  *)
(* once per CNPInterval.                                                   *)
(*                                                                         *)
(* The switches mark any packet, and lose or delay CNPs.  The counter      *)
(* total of the account is left out: the sender ignores it.                *)
(***************************************************************************)
EXTENDS DcqcnRP, Sequences, SequencesExt

CONSTANTS
    QIndexes,       \* priority classes; 1 is DCTCP
    GarbageBits,    \* what the uninitialised ECNAccount.ecnbits may hold
    MaxMarks,       \* bound: marked packets
    MaxLost         \* bound: CNPs lost

ASSUME LoopAssumption ==
    /\ QIndexes \subseteq Nat /\ GarbageBits \subseteq 0..255
    /\ MaxMarks \in Nat /\ MaxLost \in Nat

VARIABLES
    qIndex,     \* class of the flow
    account,    \* the ECNAccount, NoAccount before the first packet
    cnpQueue,   \* qfb of the CNPs on their way to the sender
    marks,      \* history: marked packets received
    lostCnps    \* history: CNPs lost

npVars == <<account, cnpQueue, marks, lostCnps>>

loopVars == <<vars, qIndex, npVars>>

NoAccount == [ecnbits |-> 0, qfb |-> -1]

LoopInit ==
    /\ Init
    /\ qIndex \in QIndexes
    /\ account = NoAccount
    /\ cnpQueue = <<>>
    /\ marks = 0
    /\ lostCnps = 0

-----------------------------------------------------------------------------
(* The notification point *)

\* Mutant: an account that sends no CNP is not reset.
CheckAccount_KeepsBits(a) ==
    IF a.ecnbits = 3
      THEN /\ cnpQueue' = Append(cnpQueue, a.qfb)
           /\ account' = [ecnbits |-> 0, qfb |-> 0]
      ELSE /\ account' = a
           /\ UNCHANGED cnpQueue

\* Mutant: sending a CNP leaves the marks in the account.
CheckAccount_Repeats(a) ==
    IF a.ecnbits = 3
      THEN /\ cnpQueue' = Append(cnpQueue, a.qfb)
           /\ account' = a
      ELSE /\ account' = [ecnbits |-> 0, qfb |-> 0]
           /\ UNCHANGED cnpQueue

\* CheckandSendQCN: a CNP if the bits are exactly 0x03, and a fresh account.
\* It schedules itself again, so that from the first packet on one is pending.
CheckAccount(a) ==
    /\ cnpQueue' = IF a.ecnbits = 3 THEN Append(cnpQueue, a.qfb) ELSE cnpQueue
    /\ account' = [ecnbits |-> 0, qfb |-> 0]

CheckandSendQCN ==
    /\ account # NoAccount
    /\ CheckAccount(account)
    /\ UNCHANGED <<vars, qIndex, marks, lostCnps>>

\* ecnbits |= 0x03
Marked(bits) == (bits - (bits % 4)) + 3

\* Receive of a data packet, marked or not.  The first one makes an account, of
\* which ecnbits is not initialised, and checks it at once.
ReceiveUdp(ce) ==
    /\ rp.rate # 0
    /\ ce => marks < MaxMarks
    /\ marks' = IF ce THEN marks + 1 ELSE marks
    /\ IF account = NoAccount
       THEN \E bits \in GarbageBits :
              CheckAccount(IF ce /\ qIndex # 1
                           THEN [ecnbits |-> Marked(bits), qfb |-> 1]
                           ELSE [ecnbits |-> 0, qfb |-> 0])
       ELSE /\ account' = IF ce THEN [ecnbits |-> Marked(account.ecnbits), qfb |-> account.qfb + 1]
                          ELSE account
            /\ UNCHANGED cnpQueue
    /\ UNCHANGED <<vars, qIndex, lostCnps>>

-----------------------------------------------------------------------------
(* The sender *)

\* Receive of a CNP: the DCTCP class and an empty feedback are ignored.
ReceiveCongestion ==
    /\ cnpQueue # <<>>
    /\ cnpQueue' = Tail(cnpQueue)
    /\ IF qIndex = 1 \/ Head(cnpQueue) = 0 THEN UNCHANGED vars ELSE ReceiveCNP
    /\ UNCHANGED <<qIndex, account, marks, lostCnps>>

LoseCnp ==
    /\ lostCnps < MaxLost
    /\ \E i \in DOMAIN cnpQueue : cnpQueue' = RemoveAt(cnpQueue, i)
    /\ lostCnps' = lostCnps + 1
    /\ UNCHANGED <<vars, qIndex, account, marks>>

\* What the sender does by itself.
Sender ==
    /\ \/ \E z \in PacketSizes : DequeueAndTransmit(z)
       \/ rpr_timer_wrapper
       \/ ResumeAlpha
    /\ UNCHANGED <<qIndex, npVars>>

LoopNext ==
    \/ Sender
    \/ \E ce \in BOOLEAN : ReceiveUdp(ce)
    \/ CheckandSendQCN
    \/ ReceiveCongestion
    \/ LoseCnp

LoopSpec == LoopInit /\ [][LoopNext]_loopVars

\* The simulator runs every scheduled event and delivers what is not lost.
LoopFairSpec ==
    /\ LoopSpec
    /\ WF_loopVars(rpr_timer_wrapper /\ UNCHANGED <<qIndex, npVars>>)
    /\ WF_loopVars(CheckandSendQCN)
    /\ WF_loopVars(ReceiveCongestion)

-----------------------------------------------------------------------------
(* Properties *)

LoopTypeOK ==
    /\ TypeOK
    /\ qIndex \in QIndexes
    /\ account \in [ecnbits : 0..255, qfb : Nat] \cup {NoAccount}
    /\ cnpQueue \in Seq(Nat)
    /\ marks \in 0..MaxMarks /\ lostCnps \in 0..MaxLost

\* The bits are 0x03 exactly when marks were counted: what ecnbits held before
\* it was set never outlives the first check, where it would block every later
\* CNP, and no CNP reaches "ERROR: Unuseful QCN".
AccountClean ==
    /\ account # NoAccount => account.ecnbits = (IF account.qfb > 0 THEN 3 ELSE 0)
    /\ \A i \in DOMAIN cnpQueue : cnpQueue[i] > 0

\* A mark is answered by one CNP at most: the flow is never cut more often than
\* its packets were marked.
CutsAnswerMarks == cnps + Len(cnpQueue) + lostCnps <= marks

\* Marks in the account reach the reaction point, unless a CNP is lost or the
\* class is DCTCP's.
Notified ==
    \A n \in 0..MaxMarks :
        account.qfb > 0 /\ cnps = n ~> cnps > n \/ lostCnps > 0 \/ qIndex = 1
=============================================================================
