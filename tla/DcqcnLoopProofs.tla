--------------------------- MODULE DcqcnLoopProofs ---------------------------
(***************************************************************************)
(* What is proved of the reaction point holds in the loop, which is built  *)
(* from its actions; the type invariant of the loop, AccountClean and      *)
(* CutsAnswerMarks, for every number of marks and losses.                  *)
(***************************************************************************)
EXTENDS DcqcnLoop, DcqcnRPProofs, SequenceTheorems

\* A CNP the account will send at its next check.
Owed(a) == IF a.qfb > 0 THEN 1 ELSE 0

Accounts == [ecnbits : 0..255, qfb : Nat] \cup {NoAccount}

\* Each mark pays for one CNP: in the account, on its way, lost or received.
LoopInv ==
    /\ qIndex \in QIndexes /\ account \in Accounts /\ cnpQueue \in Seq(Nat)
    /\ marks \in 0..MaxMarks /\ lostCnps \in 0..MaxLost
    /\ AccountClean
    /\ cnps + Len(cnpQueue) + lostCnps + Owed(account) <= marks

-----------------------------------------------------------------------------
(* What is proved of the reaction point alone holds in the loop *)

\* The loop is built from the actions of DcqcnRP: its CNPs and timers drive the
\* reaction point through them, and nothing else of the loop touches it.
LEMMA LoopStepsRP == LoopSpec => Spec
<1>1. LoopInit => Init BY DEF LoopInit
<1>2. [LoopNext]_loopVars => [Next]_vars
  <2> SUFFICES ASSUME [LoopNext]_loopVars PROVE [Next]_vars OBVIOUS
  <2>1. CASE Sender BY <2>1 DEF Sender, Next
  <2>2. CASE \E ce \in BOOLEAN : ReceiveUdp(ce) BY <2>2 DEF ReceiveUdp
  <2>3. CASE CheckandSendQCN BY <2>3 DEF CheckandSendQCN
  <2>4. CASE ReceiveCongestion BY <2>4 DEF ReceiveCongestion, Next
  <2>5. CASE LoseCnp BY <2>5 DEF LoseCnp
  <2>6. CASE UNCHANGED loopVars BY <2>6 DEF loopVars
  <2> QED BY <2>1, <2>2, <2>3, <2>4, <2>5, <2>6 DEF LoopNext
<1> QED BY <1>1, <1>2, PTL DEF LoopSpec, Spec

\* The invariant of the reaction point holds in the loop.
LEMMA LoopKeepsRP == LoopSpec => []IInv
BY LoopStepsRP, Inductive, PTL

-----------------------------------------------------------------------------
(* The queue of CNPs *)

LEMMA HeadTail ==
  ASSUME NEW s \in Seq(Nat), s # <<>>
  PROVE  /\ Tail(s) \in Seq(Nat) /\ Len(Tail(s)) = Len(s) - 1
         /\ 1 \in DOMAIN s /\ Head(s) = s[1]
         /\ \A i \in DOMAIN Tail(s) : i + 1 \in DOMAIN s /\ Tail(s)[i] = s[i + 1]
OBVIOUS

LEMMA AppendOne ==
  ASSUME NEW s \in Seq(Nat), NEW n \in Nat
  PROVE  /\ Append(s, n) \in Seq(Nat) /\ Len(Append(s, n)) = Len(s) + 1
         /\ \A i \in DOMAIN Append(s, n) :
               (i \in DOMAIN s /\ Append(s, n)[i] = s[i]) \/ Append(s, n)[i] = n
OBVIOUS

\* RemoveAt takes one element out and keeps the others.
LEMMA RemoveOne ==
  ASSUME NEW s \in Seq(Nat), NEW i \in DOMAIN s
  PROVE  /\ RemoveAt(s, i) \in Seq(Nat) /\ Len(RemoveAt(s, i)) = Len(s) - 1
         /\ \A j \in DOMAIN RemoveAt(s, i) : \E k \in DOMAIN s : RemoveAt(s, i)[j] = s[k]
<1> DEFINE a == SubSeq(s, 1, i - 1)
           b == SubSeq(s, i + 1, Len(s))
<1>1. i \in 1..Len(s) /\ Len(s) \in Nat OBVIOUS
<1>2. a \in Seq(Nat) /\ Len(a) = i - 1 /\ \A j \in 1..(i - 1) : a[j] = s[j]
  <2>1. \A j \in 1..(i - 1) : s[j] \in Nat BY <1>1
  <2> QED BY <1>1, <2>1, SubSeqProperties
<1>3. b \in Seq(Nat) /\ Len(b) = Len(s) - i /\ \A j \in 1..(Len(s) - i) : b[j] = s[i + j]
  <2>1. PICK m \in Int : m = i + 1 BY <1>1
  <2>2. \A j \in m..Len(s) : s[j] \in Nat BY <1>1, <2>1
  <2>3. /\ SubSeq(s, m, Len(s)) \in Seq(Nat)
        /\ Len(SubSeq(s, m, Len(s))) = IF m <= Len(s) THEN Len(s) - m + 1 ELSE 0
        /\ \A j \in 1..(Len(s) - m + 1) : SubSeq(s, m, Len(s))[j] = s[m + j - 1]
    <3>1. Len(s) \in Int BY <1>1
    <3> QED BY <3>1, <2>2, SubSeqProperties
  <2>4. b = SubSeq(s, m, Len(s)) /\ Len(s) - m + 1 = Len(s) - i
    BY <1>1, <2>1
  <2>5. \A j \in 1..(Len(s) - i) : m + j - 1 = i + j BY <1>1, <2>1
  <2>6. Len(b) = Len(s) - i BY <1>1, <2>1, <2>3, <2>4
  <2> HIDE DEF b
  <2>7. ASSUME NEW j \in 1..(Len(s) - i) PROVE b[j] = s[i + j]
    <3>1. b[j] = s[m + j - 1] BY <2>3, <2>4
    <3> QED BY <3>1, <2>5
  <2> QED BY <2>3, <2>4, <2>6, <2>7
<1>4. RemoveAt(s, i) = a \o b BY DEF RemoveAt
<1> HIDE DEF a, b
<1>5. /\ a \o b \in Seq(Nat) /\ Len(a \o b) = Len(s) - 1
      /\ \A j \in 1..(Len(s) - 1) : (a \o b)[j] = IF j <= i - 1 THEN a[j] ELSE b[j - (i - 1)]
  <2>1. /\ a \o b \in Seq(Nat) /\ Len(a \o b) = Len(a) + Len(b)
        /\ \A j \in 1..(Len(a) + Len(b)) :
              (a \o b)[j] = IF j <= Len(a) THEN a[j] ELSE b[j - Len(a)]
    BY <1>2, <1>3, ConcatProperties
  <2>2. Len(a) + Len(b) = Len(s) - 1 BY <1>1, <1>2, <1>3
  <2> QED BY <1>2, <2>1, <2>2
<1>6. ASSUME NEW j \in 1..(Len(s) - 1) PROVE \E k \in DOMAIN s : (a \o b)[j] = s[k]
  <2>1. CASE j <= i - 1
    <3>1. (a \o b)[j] = s[j] BY <1>1, <1>2, <1>5, <2>1
    <3> QED BY <3>1, <1>1
  <2>2. CASE ~(j <= i - 1)
    <3>1. (a \o b)[j] = b[j - (i - 1)] BY <1>5, <2>2
    <3>2. j - (i - 1) \in 1..(Len(s) - i) /\ i + (j - (i - 1)) = j + 1
      BY <1>1, <2>2
    <3>3. b[j - (i - 1)] = s[j + 1] BY <1>3, <3>2
    <3>4. j + 1 \in DOMAIN s BY <1>1
    <3> QED BY <3>1, <3>3, <3>4
  <2> QED BY <2>1, <2>2
<1>7. DOMAIN (a \o b) = 1..(Len(s) - 1) BY <1>5
<1> QED BY <1>4, <1>5, <1>6, <1>7

-----------------------------------------------------------------------------
(* The notification point *)

\* The bits of a clean account after a mark: 0x03 whether it was marked or not.
LEMMA MarkedClean == Marked(0) = 3 /\ Marked(3) = 3
BY DEF Marked

LEMMA LoopInitInv == LoopInit => LoopInv
<1> SUFFICES ASSUME LoopInit PROVE LoopInv OBVIOUS
<1>1. cnps = 0 /\ marks = 0 /\ lostCnps = 0 /\ cnpQueue = <<>> /\ account = NoAccount
      /\ qIndex \in QIndexes
  BY DEF LoopInit, Init
<1>2. Owed(NoAccount) = 0 BY DEF Owed, NoAccount
<1>3. AccountClean BY <1>1 DEF AccountClean
<1> QED BY <1>1, <1>2, <1>3, LoopAssumption DEF LoopInv, Accounts

\* A check moves what the account owes into the queue, or drops it.
LEMMA CheckSound ==
  ASSUME LoopInv, NEW a, CheckAccount(a), NEW owed \in {0, 1},
         a.ecnbits = 3 => a.qfb \in Nat /\ a.qfb > 0 /\ owed = 1
  PROVE  /\ account' \in Accounts /\ cnpQueue' \in Seq(Nat) /\ AccountClean'
         /\ Len(cnpQueue') <= Len(cnpQueue) + owed /\ Owed(account') = 0
<1>1. account' = [ecnbits |-> 0, qfb |-> 0] BY DEF CheckAccount
<1>2. account' \in Accounts /\ Owed(account') = 0
      /\ account'.ecnbits = (IF account'.qfb > 0 THEN 3 ELSE 0)
  BY <1>1 DEF Accounts, Owed
<1>3. cnpQueue \in Seq(Nat) /\ \A i \in DOMAIN cnpQueue : cnpQueue[i] > 0
  BY DEF LoopInv, AccountClean
<1>4. CASE a.ecnbits = 3
  <2>1. cnpQueue' = Append(cnpQueue, a.qfb) BY <1>4 DEF CheckAccount
  <2>2. /\ cnpQueue' \in Seq(Nat) /\ Len(cnpQueue') = Len(cnpQueue) + 1
        /\ \A i \in DOMAIN cnpQueue' : cnpQueue'[i] > 0
    BY <1>3, <1>4, <2>1, AppendOne
  <2> QED BY <1>2, <1>4, <2>2 DEF AccountClean
<1>5. CASE a.ecnbits # 3
  <2>1. cnpQueue' = cnpQueue BY <1>5 DEF CheckAccount
  <2>2. Len(cnpQueue) <= Len(cnpQueue) + owed BY <1>3
  <2> QED BY <1>2, <1>3, <2>1, <2>2 DEF AccountClean
<1> QED BY <1>4, <1>5

LEMMA CheckInv == TypeOK /\ LoopInv /\ CheckandSendQCN => LoopInv'
<1> SUFFICES ASSUME TypeOK, LoopInv, CheckandSendQCN PROVE LoopInv' OBVIOUS
<1>1. /\ account # NoAccount /\ CheckAccount(account)
      /\ UNCHANGED <<cnps, qIndex, marks, lostCnps>>
  BY DEF CheckandSendQCN, vars
<1>2. account \in [ecnbits : 0..255, qfb : Nat]
      /\ account.ecnbits = (IF account.qfb > 0 THEN 3 ELSE 0)
  BY <1>1 DEF LoopInv, Accounts, AccountClean
<1>3. Owed(account) \in {0, 1}
      /\ (account.ecnbits = 3 => account.qfb \in Nat /\ account.qfb > 0 /\ Owed(account) = 1)
  BY <1>2 DEF Owed
<1>4. /\ account' \in Accounts /\ cnpQueue' \in Seq(Nat) /\ AccountClean'
      /\ Len(cnpQueue') <= Len(cnpQueue) + Owed(account) /\ Owed(account') = 0
  BY <1>1, <1>3, CheckSound
<1>5. cnps \in Nat /\ marks \in Nat /\ lostCnps \in Nat /\ Len(cnpQueue) \in Nat
      /\ Len(cnpQueue') \in Nat
      /\ cnps + Len(cnpQueue) + lostCnps + Owed(account) <= marks
  BY <1>4, LoopAssumption DEF LoopInv, TypeOK
<1>6. cnps + Len(cnpQueue') + lostCnps + 0 <= marks BY <1>3, <1>4, <1>5
<1> QED BY <1>1, <1>4, <1>6 DEF LoopInv

LEMMA ReceiveUdpInv ==
  ASSUME TypeOK, LoopInv, NEW ce \in BOOLEAN, ReceiveUdp(ce)
  PROVE  LoopInv'
<1>1. /\ ce => marks < MaxMarks
      /\ marks' = IF ce THEN marks + 1 ELSE marks
      /\ UNCHANGED <<cnps, qIndex, lostCnps>>
  BY DEF ReceiveUdp, vars
<1>2. /\ cnps \in Nat /\ marks \in Nat /\ lostCnps \in Nat /\ Len(cnpQueue) \in Nat
      /\ cnpQueue \in Seq(Nat)
      /\ cnps + Len(cnpQueue) + lostCnps + Owed(account) <= marks
  BY LoopAssumption DEF LoopInv, TypeOK
<1>3. marks' \in 0..MaxMarks /\ lostCnps' \in 0..MaxLost /\ qIndex' \in QIndexes
  BY <1>1, <1>2, LoopAssumption DEF LoopInv
<1>4. CASE account = NoAccount
  <2>1. PICK bits \in GarbageBits :
          CheckAccount(IF ce /\ qIndex # 1
                       THEN [ecnbits |-> Marked(bits), qfb |-> 1]
                       ELSE [ecnbits |-> 0, qfb |-> 0])
    BY <1>4 DEF ReceiveUdp
  <2> DEFINE a == IF ce /\ qIndex # 1
                  THEN [ecnbits |-> Marked(bits), qfb |-> 1]
                  ELSE [ecnbits |-> 0, qfb |-> 0]
             owed == IF ce THEN 1 ELSE 0
  <2>2. owed \in {0, 1} /\ (a.ecnbits = 3 => a.qfb \in Nat /\ a.qfb > 0 /\ owed = 1)
    OBVIOUS
  <2>3. CheckAccount(a) BY <2>1
  <2>4. marks' = marks + owed BY <1>1, <1>2
  <2> HIDE DEF a, owed
  <2>5. /\ account' \in Accounts /\ cnpQueue' \in Seq(Nat) /\ AccountClean'
        /\ Len(cnpQueue') <= Len(cnpQueue) + owed /\ Owed(account') = 0
    BY <2>2, <2>3, CheckSound
  <2>6. Owed(account) = 0 BY <1>4 DEF Owed, NoAccount
  <2>7. Len(cnpQueue') \in Nat BY <2>5
  <2>8. cnps + Len(cnpQueue') + lostCnps + 0 <= marks + owed
    BY <1>2, <2>2, <2>5, <2>6, <2>7
  <2> QED BY <1>1, <1>3, <2>4, <2>5, <2>8 DEF LoopInv
<1>5. CASE account # NoAccount
  <2>1. /\ account' = IF ce THEN [ecnbits |-> Marked(account.ecnbits),
                                  qfb |-> account.qfb + 1] ELSE account
        /\ cnpQueue' = cnpQueue
    BY <1>5 DEF ReceiveUdp
  <2>2. account \in [ecnbits : 0..255, qfb : Nat]
        /\ account.ecnbits = (IF account.qfb > 0 THEN 3 ELSE 0)
    BY <1>5 DEF LoopInv, Accounts, AccountClean
  <2>3. \A i \in DOMAIN cnpQueue : cnpQueue[i] > 0 BY DEF LoopInv, AccountClean
  <2>4. CASE ce
    <3>1. Marked(account.ecnbits) = 3 BY <2>2, MarkedClean
    <3>2. account' = [ecnbits |-> 3, qfb |-> account.qfb + 1]
      BY <2>1, <2>4, <3>1
    <3>3. /\ account' \in [ecnbits : 0..255, qfb : Nat] /\ account'.qfb > 0
          /\ account'.ecnbits = 3 /\ Owed(account') = 1
      BY <2>2, <3>2 DEF Owed
    <3>4. Owed(account) \in {0, 1} BY DEF Owed
    <3>5. cnps + Len(cnpQueue) + lostCnps + 1 <= marks + 1
      BY <1>2, <3>4
    <3>6. AccountClean' BY <2>1, <2>3, <3>3 DEF AccountClean
    <3>7. marks' = marks + 1 BY <1>1, <2>4
    <3> QED BY <1>1, <1>2, <1>3, <2>1, <3>3, <3>5, <3>6, <3>7 DEF LoopInv, Accounts
  <2>5. CASE ~ce
    <3>1. UNCHANGED <<account, cnpQueue, marks>> BY <1>1, <2>1, <2>5
    <3> QED BY <1>1, <3>1 DEF LoopInv, AccountClean
  <2> QED BY <2>4, <2>5
<1> QED BY <1>4, <1>5

LEMMA ReceiveCongestionInv == TypeOK /\ LoopInv /\ ReceiveCongestion => LoopInv'
<1> SUFFICES ASSUME TypeOK, LoopInv, ReceiveCongestion PROVE LoopInv' OBVIOUS
<1>1. /\ cnpQueue # <<>> /\ cnpQueue' = Tail(cnpQueue)
      /\ UNCHANGED <<qIndex, account, marks, lostCnps>>
  BY DEF ReceiveCongestion
<1>2. /\ cnps \in Nat /\ marks \in Nat /\ lostCnps \in Nat /\ Len(cnpQueue) \in Nat
      /\ cnpQueue \in Seq(Nat) /\ Owed(account) \in {0, 1}
      /\ cnps + Len(cnpQueue) + lostCnps + Owed(account) <= marks
  BY LoopAssumption DEF LoopInv, TypeOK, Owed
<1>3. cnps' = cnps \/ cnps' = cnps + 1
  BY DEF ReceiveCongestion, ReceiveCNP, vars
<1>4. /\ cnpQueue' \in Seq(Nat) /\ Len(cnpQueue') = Len(cnpQueue) - 1
      /\ \A i \in DOMAIN cnpQueue' : cnpQueue'[i] > 0
  BY <1>1, <1>2, HeadTail DEF LoopInv, AccountClean
<1>5. cnps' + Len(cnpQueue') + lostCnps + Owed(account) <= marks
  BY <1>2, <1>3, <1>4
<1>6. AccountClean' BY <1>1, <1>4 DEF LoopInv, AccountClean
<1> QED BY <1>1, <1>4, <1>5, <1>6 DEF LoopInv

LEMMA LoseCnpInv == TypeOK /\ LoopInv /\ LoseCnp => LoopInv'
<1> SUFFICES ASSUME TypeOK, LoopInv, LoseCnp PROVE LoopInv' OBVIOUS
<1>1. PICK i \in DOMAIN cnpQueue : cnpQueue' = RemoveAt(cnpQueue, i) BY DEF LoseCnp
<1>2. /\ lostCnps < MaxLost /\ lostCnps' = lostCnps + 1
      /\ UNCHANGED <<cnps, qIndex, account, marks>>
  BY DEF LoseCnp, vars
<1>3. /\ cnps \in Nat /\ marks \in Nat /\ lostCnps \in Nat /\ Len(cnpQueue) \in Nat
      /\ cnpQueue \in Seq(Nat) /\ Owed(account) \in {0, 1}
      /\ cnps + Len(cnpQueue) + lostCnps + Owed(account) <= marks
  BY LoopAssumption DEF LoopInv, TypeOK, Owed
<1>4. /\ cnpQueue' \in Seq(Nat) /\ Len(cnpQueue') = Len(cnpQueue) - 1
      /\ \A j \in DOMAIN cnpQueue' : cnpQueue'[j] > 0
  BY <1>1, <1>3, RemoveOne DEF LoopInv, AccountClean
<1>5. cnps + Len(cnpQueue') + lostCnps' + Owed(account) <= marks
  BY <1>2, <1>3, <1>4
<1>6. lostCnps' \in 0..MaxLost BY <1>2, <1>3, LoopAssumption
<1>7. AccountClean' BY <1>2, <1>4 DEF LoopInv, AccountClean
<1> QED BY <1>2, <1>4, <1>5, <1>6, <1>7 DEF LoopInv

\* Every step of the loop preserves its invariant; the sender's own steps do not
\* touch what it speaks of.
LEMMA LoopNextInv == TypeOK /\ LoopInv /\ [LoopNext]_loopVars => LoopInv'
<1> SUFFICES ASSUME TypeOK, LoopInv, [LoopNext]_loopVars PROVE LoopInv' OBVIOUS
<1>1. CASE Sender
  <2>1. UNCHANGED <<cnps, qIndex, account, cnpQueue, marks, lostCnps>>
    BY <1>1 DEF Sender, npVars, DequeueAndTransmit, rpr_timer_wrapper, ResumeAlpha
  <2> QED BY <2>1 DEF LoopInv, AccountClean
<1>2. CASE UNCHANGED loopVars
  <2>1. UNCHANGED <<cnps, qIndex, account, cnpQueue, marks, lostCnps>>
    BY <1>2 DEF loopVars, npVars, vars
  <2> QED BY <2>1 DEF LoopInv, AccountClean
<1> QED
  BY <1>1, <1>2, ReceiveUdpInv, CheckInv, ReceiveCongestionInv, LoseCnpInv DEF LoopNext

LEMMA LoopInductive == LoopSpec => [](IInv /\ LoopInv)
<1>1. IInv => TypeOK BY DEF IInv
<1> QED BY <1>1, LoopKeepsRP, LoopInitInv, LoopNextInv, PTL DEF LoopSpec

-----------------------------------------------------------------------------
(* Theorems *)

\* The accounts, the CNPs on their way and the state of the reaction point keep
\* their types.
THEOREM LoopTypeCorrect == LoopSpec => []LoopTypeOK
<1>1. IInv /\ LoopInv => LoopTypeOK BY DEF IInv, LoopInv, LoopTypeOK, Accounts
<1> QED BY <1>1, LoopInductive, PTL

\* What the uninitialised ecnbits held never outlives the first check, and every
\* CNP that CheckandSendQCN sends stands for a mark.
THEOREM AccountsStayClean == LoopSpec => []AccountClean
<1>1. LoopInv => AccountClean BY DEF LoopInv
<1> QED BY <1>1, LoopInductive, PTL

\* The rate of a flow is cut at most once for each of its packets that was marked.
THEOREM MarksPayForCuts == LoopSpec => []CutsAnswerMarks
<1>1. IInv /\ LoopInv => CutsAnswerMarks
  <2> SUFFICES ASSUME IInv, LoopInv PROVE CutsAnswerMarks OBVIOUS
  <2>1. /\ cnps \in Nat /\ marks \in Nat /\ lostCnps \in Nat /\ Len(cnpQueue) \in Nat
        /\ Owed(account) \in {0, 1}
        /\ cnps + Len(cnpQueue) + lostCnps + Owed(account) <= marks
    BY LoopAssumption DEF IInv, LoopInv, TypeOK, Owed
  <2> QED BY <2>1 DEF CutsAnswerMarks
<1> QED BY <1>1, LoopInductive, PTL

\* In the loop too a flow that has sent keeps a rate between m_minRate and the
\* rate of the link, and only a CNP lowers it.
THEOREM LoopRateBounded == LoopSpec => []RateBounded /\ OnlyCnpCuts
BY LoopStepsRP, RateIsBounded, CutsNeedCnp, PTL
=============================================================================
