# Verification of the ns3-rdma RoCEv2 simulator

ns3-rdma is ns-3 3.17 with RDMA over converged Ethernet added: a shared-buffer
switch, PFC, ECN marking, DCQCN and a layer-2 go-back-N. This directory models
that added code in TLA+, checks the models with TLC on small instances and
proves with TLAPS, for all values of the constants, every invariant, action
property and the refinement that the passing runs check. Liveness is left to TLC.
The rest of the repository is upstream ns-3 and is not modelled. All the code
modelled is C++; the Python files of the repository are build scripts and
generated bindings.

Paths below are relative to the repository; the code is under `src/`, for
example `src/point-to-point/model/qbb-net-device.cc`. `PROJECT.json` gives the
lines behind every definition.

## The system

The simulator runs event handlers one at a time. There are no threads; what is
concurrent is the order in which scheduled events (arrivals, ends of
transmissions, timers) of many devices run. A handler may call handlers of
other objects and schedules or cancels events.

| Part | State | Operations | Interacts with |
| --- | --- | --- | --- |
| `BroadcomNode`: the MMU of a switch | byte counters of the whole buffer, of ingress and egress pools, ports, groups and queues; headroom; `m_pause_remote` | check, charge and release admission; which classes to PAUSE or RESUME; whether to mark | called by every device of its switch |
| `BEgressQueue`: the queues of a device | 8 class queues (switch) or 128 flow queues (NIC), bytes per queue, `m_rrlast`, `m_bwsatisfied` | enqueue, dequeue by round robin / per flow, `RecoverQueue` | called by its device |
| `QbbNetDevice` on a switch | `m_currentPkt`, `m_paused`, `m_resumeEvt`, `m_recheckEvt` | `Send`, `DequeueAndTransmit`, `TransmitComplete`, `CheckQueueFull`, `Receive` of PAUSE, `PauseFinish` | sends PAUSE and RESUME through the ingress device; the MMU |
| `QbbNetDevice` on a NIC: DCQCN reaction point | rates, targets, stages, byte counter, `m_alpha`, timers per flow | `rpr_*`, CNP, timers | the flow's transmissions, CNPs of the receiver |
| `QbbNetDevice` on a NIC: notification point | ECN accounts per flow | account a packet, `CheckandSendQCN` | CNPs to the sender |
| `QbbNetDevice` on a NIC: go-back-N | sending buffer, milestones, expected number, retransmission timer | `Send`, `ReceiverCheckSeq`, ACK, NACK, `Retransmit` | the peer NIC, over the switches |
| `QbbNetDevice` on a NIC: transmitter | `m_nextAvail`, `m_credits`, `m_nextSend` | `DequeueAndTransmit`, `DoDequeueQCN` | all of the above |
| `UdpEchoClient` | bytes sent and allowed, the send event | `Send`, `HandleRead`, start, stop | pushed back by the NIC's buffer; acks of the server |
| `UdpEchoServer` | bytes received of the chunk | `HandleRead`, stop | acknowledges each chunk |
| channels, headers, helpers, `third.cc` | none that changes during a run | | |

What is hard: counters charged in one event and released in another, of
another device; PAUSE, RESUME and expiry racing; state shared by devices
(`m_pause_remote`) next to state that is not (`m_recheckEvt`); transmitters
that nobody polls; byte-driven, timer-driven and network-driven changes of one
rate machine; lost data, lost and overtaken replies, and a timer racing them;
one wake-up event shared by all flows of a NIC; duplicates that reach the
applications.
`PROJECT.json` lists these as hazards, each at its line.

## Modules

| Module | Contents |
| --- | --- |
| `BroadcomNode` | the MMU as operators on two records of counters; `uint32_t` arithmetic that wraps |
| `QbbSwitch` | one switch: devices, queues, scheduler, PFC; extends `BroadcomNode` |
| `MCQbbSwitch` | routings for the switch runs |
| `QbbSwitchProofs` | the types of the switch, its wake-ups and the ends of its pauses |
| `EgressDriftProofs` | drift of the egress counters, honesty of the ECN marks; extends `QbbSwitchProofs` |
| `SharedBufferProofs` | the counters of the MMU against the contents of the buffer, repeated PAUSEs; extends `EgressDriftProofs` |
| `DcqcnRP` | the DCQCN reaction point of one flow |
| `DcqcnRPProofs` | its five invariants and its action property |
| `DcqcnLoop`, `MCDcqcnLoop` | the reaction point composed with the notification point of the receiver; extends `DcqcnRP` |
| `DcqcnLoopProofs` | the invariants of the loop; those of the reaction point carry over |
| `ReliableDelivery` | abstract: what go-back-N promises |
| `GoBackN`, `MCGoBackN` | sender, network and receiver of one flow; the attribute settings |
| `GoBackNProofs` | its five invariants and the refinement of `ReliableDelivery` |
| `QbbNic`, `MCQbbNic` | the transmitter of a NIC with several flows, rates and discrete time |
| `QbbNicProofs` | its four invariants |
| `UdpEcho` | the client and server applications of a flow |
| `UdpEchoProofs` | its six invariants |

Definitions keep the names of the code. Operators named `X_Something` with a
comment starting "Mutant" are deliberately wrong versions of `X`, used to see
that the properties notice the error.

### BroadcomNode and QbbSwitch

Every method of `BroadcomNode` is an operator from counters to counters.
`QbbSwitch` composes them: an action is one event handler with everything it
calls. `Send` admits or drops, charges, queues, dequeues if the transmitter is
idle, and then runs `CheckQueueFull`, whose frames are sent by the *ingress*
device. A handler works on a record (`Current`), and `Become` assigns it.

* A pending event may fire at any moment. `m_recheckEvt` is TRUE while its event
  is pending (`CheckQueueFull` schedules it only if it is not); `m_resumeEvt`
  counts the pending `PauseFinish` events, since the code schedules one with every
  PAUSE and only `Simulator::Cancel` before it keeps them from piling up: that there is one
  exactly while the class is paused is a property (`PausedHasTimer`). Time is
  otherwise abstracted, so `m_bwsatisfied < Now` is an arbitrary set of lagging
  classes.
* `m_queues` holds the data classes, `control` is queue 7; `m_currentPkt` is
  the frame on the wire (BUSY exactly if there is one).
* Neighbours are an open environment: they send data, PAUSE, RESUME and
  transit control frames whenever they like. Routing is the constant `Routes`.
* The random marking decision is a choice; thresholds are constants, because
  the setters run before the simulation starts.
* Two properties are about the headroom, which is charged for every packet
  that leaves its pool above the limit, checked only for a packet that finds the
  pool above the limit and no guarantee left, and released by every packet of
  the group. `HeadroomCovered`: never more than the group holds and
  never less, over the groups of a pool, than the pool holds above its limit. `HeadroomLimited`: how far a group can exceed
  `m_pg_hdrm_limit`, namely up to the limit of the pool and one packet: a group
  that filled the pool alone is charged for the packet that crosses the limit
  without the headroom being checked. The run attains this bound. With the
  values of the code (4000 * 1030 bytes for the pool, 100 * 1030 for the
  headroom) it is far above the limit.
* The properties about sums of sizes state them as cardinalities of sets of
  bytes (`Bytes`, `Held`, `Shares`): TLC counts them, and the proofs add and take away
  the bytes of one packet, where a recursive sum would need an induction.

### DcqcnRP

The per-flow arrays are the fields of `rp`; each `rpr_` function is an operator
from `rp` to `rp`. Rates are integers as in `DataRate`, which computes in
`double` and truncates, so halving is `\div`; `m_alpha` is a fixed-point number.
The byte counter starts with an arbitrary value, as the constructor reads an
attribute that is not set. A CNP is received only by a flow that has sent
(`rate # 0`), since it answers a packet.

### DcqcnLoop

The receiver keeps an account of the flow (`ecnbits`, `qfb`): `ReceiveUdp` adds
a congestion mark, `CheckandSendQCN` sends a CNP if the bits are 3 and resets
the account; it reschedules itself for ever, so it is enabled from the first
packet on. The `ecnbits` of a new account are uninitialised, hence an element
of `GarbageBits`. CNPs on their way are a queue from which any element may be
lost. `Sender` and `ReceiveCongestion` use the actions of `DcqcnRP` as they
are, so every behaviour of the loop is one of `DcqcnRP!Spec` by construction:
what is proved of the reaction point holds in the loop.

### GoBackN and ReliableDelivery

Packets are their sequence numbers. The sender's transmitter is not rate
limited here (the flow has QCN enabled and is at the rate of the link): a READY
transmitter sends the head of its queue unless the flow waits for an ACK.
An ACK that completes a message moves `m_milestone_tx` before it restarts the
transmitter, so the packet sent by that same handler is measured against the
new milestone.
Data packets arrive in order or are lost. Replies may be lost, and a NACK may
overtake ACKs, because switches put NACKs in class 7 and ACKs in class 1. That
is the only reordering modelled, and it is the only one while all packets
between two hosts take one path. Two attributes of
`src/internet/model/ipv4-global-routing.cc`, both off by default, change that
where there are several shortest paths; `third.cc` sets them from
PACKET_LEVEL_ECMP and FLOW_LEVEL_ECMP (lines 388 and 389), and
`windows/ns-3-dev/x64/Release/mix/config.txt` has 0 for the first and 1 for the
second.

* `FlowEcmpRouting` hashes addresses, protocol and, for UDP, ports and class.
  The data of a flow keep one path and stay in order, but ACKs (protocol 0xFC)
  and NACKs (0xFD) hash differently, so an ACK may also overtake a NACK. The
  theorem on `BufferCovers` does not hold then: a NACK that comes after the ACK
  that trimmed the buffer past its packet prints "Sendingbuffer miss!", and one
  that finds the buffer empty makes `ReceiveNACK` use a null packet, as `Peek`
  is not checked (`qbb-net-device.cc:665`).
* `RandomEcmpRouting` draws a path for every packet, so data arrive out of order
  too.

The results on go-back-N are about networks with one path per pair of hosts; they
are not claimed under either option.

The
variable `attr` holds the mode and never changes: `L2WaitForAck`, `L2BackToZero`,
`L2TestRead`, chunk size and ACK interval. The receiver's `m_nack_interval` is
a Boolean choice. `fault` records the division by zero of `ReceiverCheckSeq`.

`ReliableDelivery` has three counters: packets sent, accepted for good, and
released by the sender. `ImplementsDelivery` maps them to what the application
has sent, to the prefix the receiver will never go back behind, and to what
has left the sending buffer: nothing is released before it is accepted, and
acceptance is never taken back, whatever is lost or overtaken.

### QbbNic

`dev` is the device with one entry per queue: queue 0 for ACKs, NACKs and CNPs,
one queue per flow. Every time is relative to Now; `Tick` lets a unit of time
pass when no event is due. A flow's packets are numbered and its queue is
`next..produced-1`, so `RecoverQueue` moves `next` back to the start of the
sending buffer; the byte counts are separate state, as in the code.
`DequeueAndTransmit` is what handlers end with: BUSY, or the packet that
`DoDequeueQCN` chooses, with credits, `m_nextAvail` and the stop for an ACK, or
the wake-up `m_nextSend`. Rates are divisors of the link's rate (`slow`), set
by the reaction point at any time. The application, PFC frames, ACKs, NACKs
and rate changes are an open environment, limited in number, and an ACK or NACK
answers packets that have left the NIC. L2BackToZero is off, as `GoBackN` has it.
Two histories serve the properties: `bypass` and `idled`.

### UdpEcho

A pending `Send` is either the one `m_sendEvent` names or an orphan, left when
the variable was overwritten. Packets in flight are counted, since the
applications only see sizes. The network duplicates (NICs pass every
retransmission up) and loses (the error model draws a second time after the
NIC has acknowledged). Nothing repairs such a loss: `StallNeedsLoss` says that
it is the only way for both sides to wait for each other (with packets that
divide the chunk; `EchoStall` shows what happens otherwise), `LossIsFinal` that
after it no ack comes any more unless a duplicate makes up for it. `debug` tells whether `NS_ASSERT` is compiled in; a
failed assertion or a use of the null socket ends the behaviour with `fault`.

## Runs

Passing runs:

| Run | Shows |
| --- | --- |
| `SwitchAccounting` | ingress counters exact; headroom within the group, enough for what the pools hold above their limit, and above its own limit only so far; buffer not overcommitted, egress counters drift by less than a packet, port and pool sums exact, ECN marks honest |
| `SwitchPfc` | dynamic thresholds: no lost wake-up of a transmitter; a class is paused exactly while one expiry is pending, and never two are |
| `SwitchSharedPause` | static thresholds, two egress devices: while a group is above its threshold a repeated PAUSE is pending |
| `DcqcnLoop` | bounds of the rate machine; only CNPs lower the rate, at most once per mark; marks reach the sender unless a CNP is lost; after the last CNP the flow gets back to the rate of the link |
| `GbnModes` | all modes: implements `ReliableDelivery`; the sending buffer covers every reply and keeps what the receiver may ask for; with L2WaitForAck one message at a time, a stopped flow has its timer, and every message is received in spite of lost data and NACKs |
| `Nic` | byte counts of the flow queues; an idle transmitter with a backlog has a wake-up; a ready flow is overtaken at most once by each other flow; backlogged flows are served, with the exceptions that `NicParked` and `GbnLoss` show |
| `Echo` | a client that may send has a Send pending; Sends are orphaned, assertions fail and the null socket is used only after a duplicate; the client is at most a chunk and a packet ahead of the server; both wait for each other only after a loss, and then for ever; a transfer without loss finishes |

Runs that show a disagreement between the code and what it says of itself
(quoted under `findings` in `PROJECT.json`):

| Run | The code |
| --- | --- |
| `SwitchPauseIgnored` | sends packets of a paused class that is behind its minimum bandwidth |
| `SwitchResumeClass` | always resumes class 0 |
| `GbnLoss` | without L2WaitForAck leaves an idle transmitter idle after a NACK; with it, never recovers from a lost ACK of a message |
| `NicParked` | leaves the transmitter's only wake-up at 32767 s when the flow that waited for an ACK has been released, so a throttled flow waits for it |
| `EchoStall` | stops for ever when the packet size does not divide the chunk size: the server discards the bytes beyond a chunk |

More things show up in the models or in the code around them without a run of
their own:

* The guaranteed counter of an egress queue wraps below zero (a dequeue of a
  packet larger than both counters); this does less harm than it seems, because
  the two counters of a queue still add up to its length, which is proved.
* The headroom of a group can exceed `m_pg_hdrm_limit`, since it is checked
  against the pool before the packet and charged against the pool after it;
  `HeadroomLimited` says how far.
* With L2BackToZero a message longer than the 8000 packets of the sending
  buffer cannot be gone back to, because `Send` evicts its first packets.
* L2AckInterval 0, documented as "Disable ack", acknowledges every packet;
  L2ChunkSize 0, documented as "Disable chunk mode", divides by zero in
  `ReceiverCheckSeq` when the ACK interval is positive. `GbnModes` has both.
* The uninitialised `ecnbits` may suppress the CNP of the first marked packet
  (harmless later: `AccountClean`). CNPs of class 1 are sent and ignored.
* `m_qcn_np_sampling` stays 0, so the NP sampling interval has no effect.
* `RecoverQueue` leaves `m_nBytes` and `m_nPackets` of the base class alone, so
  the assertions on them fail in a debug build after a retransmission.
* The client sends only if `next_avail` is below 5 us and `next_avail` is at
  least Interval, so with the default Interval of 1 s it never sends;
  `third.cc` sets the interval.
* The 128th flow of a NIC is stored behind the end of its tables.
* Under flow-level ECMP a NACK may come after the ACK that emptied the sending
  buffer, whose head `ReceiveNACK` reads without a check (see GoBackN above).

### Bounds

* Switch: 2 or 3 devices, 2 classes (one in each pool, or class 0 and another
  one), sizes 2 and 5 against a cell of 4, so that a packet can be smaller and
  larger than the guarantee. `W` = 64 plays 2^32: larger than any sum that
  occurs, so that only underflow wraps, as in the code. All limits are small
  enough to bind: packets are dropped for each reason. `MaxQueue` bounds a queue
  and `MaxControl` the control queue *before* a handler runs.
* DCQCN: minimum rate 10 on a link of 64 with increases as large as the link,
  so that raised targets exceed ten times a throttled rate (the extra step of
  `AdjustRates`) and a cut would pass the minimum; three marks, so at most three cuts; one
  lost CNP; the threshold is 2, and the bounds on stages reach hyper increase
  from both sides. `MaxTimeStage` = 7 timer steps are enough to climb from the
  minimum to the link on timer steps alone, as `Recovers` needs when the flow
  sends nothing. Garbage is a value below and one above the byte counter; garbage
  bits are 0 and one bit that spoils the test for 3. Classes 1 (DCTCP) and 3.
* Go-back-N: six packets in messages of three, two lost packets, one lost ACK
  and one lost NACK, two packets in flight when one more is sent; six settings
  of the attributes. The buffer holds everything, as 8000 packets are more than
  a message and what is in flight in the configurations the code is used with.
  The application may stop and a finished transfer has no next step, so
  these runs do not check for deadlock.
* NIC: two flows in different classes, three packets each in messages of two,
  so that one flow waits for its ACK while the other sends; rates of the link
  and half of it; a data packet lasts two units, a control packet one, a pause
  two and the retransmission timer four, so that the timer can expire before,
  during and after a pause. Two inputs are enough for a PAUSE followed by a
  rate change, an ACK or a NACK. `Far` = 99 plays 32767 s: it is not reached.
* Applications: a chunk of 4 in packets of 2 and seven packets, so three acks
  and an incomplete chunk; two duplicates (an orphan takes one) and one loss.

### Fairness

Only events the simulator has scheduled are fair. `DcqcnLoop!LoopFairSpec`: the
recovery timer, the periodic check and the delivery of CNPs that are not lost.
`GoBackN!FairSpec`: the application's next packet, the end of a transmission,
the arrival of what is not lost and the retransmission timer. `QbbNic!FairSpec`:
scheduled events and the clock, as one action, since the simulator runs due
events before time goes on. `UdpEcho!FairSpec`: the start, delivery and pending
Sends; and strongly, that a client that keeps trying is not pushed back
for ever, because a NIC that is not paused for ever drains its queue. Losses,
duplicates, marks, stops and, in the switch and the NIC, neighbours are never
fair. All other fairness is weak.

## Proofs

Eight modules, `tlapm M.tla` each. All theorems are about `Spec`, so they hold
with and without the fairness of the runs. The inductive invariants were
checked by TLC on the instances of the runs first.

**Switch, types and events** (`QbbSwitchProofs`)

* `TypeCorrect`: one lemma per operator of the MMU and of the handlers says that
  it takes states of the right type to states of the right type; each action
  follows by composition.
* `NoLostWakeup` (`WorkConserving`) and `PausesEnd` (`PausedHasTimer`). The
  argument is about `DequeueAndTransmit`: if the scheduler returns nothing, the
  control queue is empty and every queue with packets is paused (`Working`). The
  frames of `CheckQueueFull` leave through other devices, so `Working` is
  carried for all ports at once. `PausesEnd` needs the count of pending events,
  not only that there is one: two would survive the next `Cancel`.

**Switch, counters** (`EgressDriftProofs`, `SharedBufferProofs`)

* `EgressDrift`: `EgressDriftBounded` is not inductive. It speaks of
  `m_bytesInQueue`, and to carry it through a dequeue one needs that this is the
  sum of the sizes of the queued packets and is at least the size of the head.
  `EgressCounted` adds partial sums of each queue (a function of positions, so
  no induction over sequences) and the limit on the shared counter, which
  excludes overflow.
* `MarksAreHonest` (an action property): the decision looks at the drifting
  counter of the queue after the release, so the bound on the drift gives the
  bound on the lie. Needs `MarkingAssumption`, Kmin at most Kmax.
* `IngressCountersExact`, `BufferIsRespected` and the first half of
  `HeadroomIsCovered` (groups) from `Exact`:
  each ingress counter is the number of bytes of a set of packets, that set is
  finite, the total is within the buffer. The three need each other: without
  the limit the counters may wrap, and without exactness a release may take
  away more than there is.
* The second half of `HeadroomIsCovered` (pools) and `HeadroomIsLimited` from
  `Reserved`, on top of `Exact`. A charge adds to the headroom all that the pool
  gains, unless the pool stays within its limit, and a release takes no more
  headroom than leaves the pool. A charge that was not checked against the
  headroom has a bound on the bytes of the group instead: its guarantee, the one of its
  port, or the limit of the pool; and headroom never exceeds bytes.
* `EgressCountersAddUp` from `SumsExact`, in the same way; the limits of port
  and pool are part of it, because the patch for different packet sizes moves
  bytes into the shared counters.
* `CongestedGroupsStayPaused`: only an admission raises an ingress counter
  (`Shrinks`, `Others`), and the same handler then runs `CheckQueueFull` for that
  group and schedules the repetition. A device that resumes a group clears the
  flag all devices share, but only below the lower threshold, hence
  `PfcAssumption`: a class or port is resumed below the threshold that pauses it.

**DCQCN** (`DcqcnRPProofs`, `DcqcnLoopProofs`)

* `RateIsBounded`, `TargetStaysAbove`, `HyperIsEarned`, `GarbageIsUnused`,
  `RecoveryIsArmed` and `CutsNeedCnp` from one inductive invariant `IInv`. The
  rate is bounded below only because the target is at least the rate, and the
  target stays above after a division by 8 only because it was above ten times
  the rate. They need `RateAssumption`: an even minimum rate (two truncated
  halves of an odd one lose a bit per second).
* `LoopRateBounded`: the bounds and the action property hold in the loop, as its
  steps are steps of the reaction point or leave it alone (lemma `LoopStepsRP`,
  which follows from how the loop is built and is no result of its own).
* `LoopTypeCorrect`, `AccountsStayClean`, `MarksPayForCuts` from `LoopInv`: every
  mark pays for one CNP, which is in the account, on its way, lost or received.

**Go-back-N** (`GoBackNProofs`)

* `TypeCorrect` and `WaitersHaveTimers` from `FlowInv`, whose part `Shape` says
  that the sending buffer and the queue are runs of consecutive numbers that
  end with the last packet produced.
* `NothingDiscardedEarly`, `RepliesAreCovered` from `Kept`, which orders the
  start of the buffer, every reply under way and the number the receiver
  expects, rounded to messages with L2BackToZero; replies overtake each other,
  so it is a statement about every reply and not about the first one.
* `MessagesWait` from `Message`, which relates `m_milestone_tx` to the replies,
  the data in flight and the receiver.
* `FlowImplementsDelivery`: the initial state and every step map to
  `ReliableDelivery`.
* The last four have a hypothesis, `[]BufferHasRoom`: `Send` never finds the
  sending buffer full. It cannot be dropped, since `Send` evicts the oldest
  packet whatever the receiver may still ask for. `RoomForAll` shows that it
  holds whenever the flow has at most `BufferCap` (8000) packets.

**NIC** (`QbbNicProofs`), from `NicInv`, for any number of flows:

* `TypeCorrect` and `ByteCountsExact`: `Sound` adds to the byte counts that
  positions in a queue are within what was produced and that the packet on the
  wire exists, which an ACK and the retransmission rely on.
* `NoLostWakeup` (`WakeupExists`): if nothing can be sent although a flow has
  packets, its byte count is positive, so the search of the wake-up has a
  minimum; if the minimum is 0 the flow that has it is paused, and a paused
  class has its timer.
* `RoundRobinIsFair` (`BoundedBypass`): not inductive, as it does not say where
  the round robin is. `Order` bounds the flows that have overtaken a flow
  together with those between the flow served last and it (`Between`); serving another flow
  first shortens the distance, and a flow that joins lengthens it by as much
  as the bound.

**Applications** (`UdpEchoProofs`), from `IInv`: `TypeCorrect`, `Armed`,
`OrphansNeedDuplicates`, `Window`, `StallsNeedLoss`, `LossesAreFinal`. `Accounted`
is the balance that makes the last four inductive: acks in flight, read or lost
are paid for by chunks of counted packets or by duplicated acks; packets in
flight, counted or lost by packets sent or duplicated. A stall without a loss
would leave a full chunk uncounted, and an ack after a loss a chunk with more
packets than were sent.

Assumptions on constants are named in the module that declares them, and TLC
evaluates them in the runs. Besides types they are the ones mentioned above,
`RoomAssumption` (each limit, a guarantee and a packet fit in a word: 9000000
against 2^32), `ModeAssumption` (a chunk size where messages are used) and sizes
and timers that are not zero.

Only model-checked: liveness (`Recovers`, `Notified`, `LossRepaired`, `Served`,
`Finishes`), because the prover has no support for fairness and ENABLED; and the
five disagreements, which are counterexamples on small instances.
Only proved: `RecoveryArmed`, as its run checks `Recovers`, which needs the timers.

## Not modelled

Channels deliver in order and keep no state; headers, helpers and `third.cc`
keep none that matters. Strict-priority `DoDequeue` is not called, and
`DoDequeueNIC` serves NICs with QCN switched off, which is not the default.
Link-down and `DoDispose` end a simulation. Of the client, the payload
(`SetFill`, `SetDataSize`) is not modelled. The rest of ns-3 is upstream code.
The switches between two NICs appear in the NIC modules only as what they do to
packets: mark, delay, lose, overtake.

## Plan

1. Done: the switch (MMU, scheduler, PFC), the reaction point, go-back-N, and
   the theorems above.
2. Done: `QbbNic`, `DcqcnLoop`, `ReliableDelivery` and `UdpEcho`, with the
   refinement of `ReliableDelivery`.
3. Done: the proofs of every safety property of the passing runs, the limits of
   the headroom and the stalls of the applications among them.
4. Two switches in a row: PFC end to end, with the pause time and the recheck
   time, and losslessness. The proofs of one switch need no change for it:
   neighbours are already an open environment.
5. Proofs: when go-back-N evicts, in terms of the traffic alone (a bound on what
   the application may have outstanding that implies `BufferHasRoom` and is
   weaker than `MaxSeq <= BufferCap`).
6. Go-back-N behind ECMP: ACKs that overtake NACKs (`FlowEcmpRouting`) and data
   out of order (`RandomEcmpRouting`).
