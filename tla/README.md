# Verification of the ns-3 RMCAT congestion control applications

ns3-rmcat simulates real-time media flows whose sender adapts its rate to
congestion feedback (RTP media, the RTCP feedback of *draft-ietf-avtcore-cc-feedback-message*,
the NADA controller and the CCFS controller). This directory holds TLA+ models of its
logic, translated from the C++ under `model/`, TLC configurations that check them on
small instances, and TLAPS proofs of the core results for all instances.

Paths below are relative to the repository (`model/...`).

## 1. The system

ns-3 is a discrete-event simulator: one event runs at a time, to its end, at an instant
of simulated time; events are scheduled with `Simulator::Schedule` and taken back with
`Simulator::Cancel`. So there are no data races. What is concurrent is the order of
events: codec clock, pacing timer, oversleeping, arrival of media, report timer, arrival
of feedback, and the test case's pause, resume, start and stop.

```
  codec --EnqueuePacket--> rate-shaping buffer --SendPacket--> SendOverSleep --RTP--> network
    ^                          RmcatSender                        |                     |
    | m_rVin, m_rSend                                 processSendPacket                 |
    |                                                             v                     v
  CalcBufferParams <--getBandwidth-- controller          SenderBasedController    RmcatReceiver
    ^                              (Nada | Dummy | Ccfs)          ^                     |
    +------------- RecvPacket ---- processFeedbackBatch ----------+                AddFeedback
                       ^                                                                |
                       +---------- CCFeedbackHeader (or RfbHeader) <---- SendFeedback --+
```

| component | state | operations | what is hard | what makes it correct |
|---|---|---|---|---|
| `SenderBasedController` (congestion-control/sender-based-controller) | packets in transit, history of credited packets, byte count, base delay, loss intervals | `reset`, `processSendPacket`, `processFeedback(Batch)`, metric getters | feedback lost, repeated, late and out of order; 16-bit wrap; pruning; obsolete history; asserts | packets in transit contiguous; each credited at most once; metrics never wrap; no assert fails |
| `RmcatSender` (apps/rmcat-sender) | buffer and its byte count, three `EventId`s, `m_nextSendTstmpUs`, pause flag | `StartApplication`, `StopApplication`, `PauseResume`, `EnqueuePacket`, `SendPacket`, `SendOverSleep`, `RecvPacket` | interleaving of the timers, overwritten `EventId`s, restart of the timer after the buffer ran empty | timer pending iff backlog; pace kept; when inactive nothing is buffered, and nothing pending but oversleeps that lost their `EventId`; backlog is served |
| `CCFeedbackHeader` (apps/rtp-header) | blocks per SSRC, latest time, length | `AddFeedback`, `Clear`, `Serialize`, `Deserialize`, getters | circular ranges, rollback of a refused block, 16-bit time offsets | what is read is what was added |
| `RmcatReceiver` (apps/rmcat-receiver) | running and waiting flags, header, timer | start, stop, `RecvPacket`, `AddFeedback`, `SendFeedback` | retry of a refused block, reordering, packets arriving while not running | every packet taken is reported once, within one period |
| `CcfsController`: send control (congestion-control/ccfs-controller) | status, target delay, estimates, delay window, detector | `processFeedback2`, `getBandwidth` | a state machine of 4 states and 7 events driven by correlated measurements; delayed estimates; NaN; unsigned wrap | rate in range; target delay and saved estimate agree with the state; no trap |
| `CcfsController`: ledger | map of sent packets, packets in flight, window of the bitrate fraction | `processSendPacket2`, `validateFeedback`, `getLastPeriodMs`, `parseFeedback`, `updateBrFractionWindow` | reports lost or late, records removed, `operator[]` that inserts, unsigned differences | no more reported than sent; totals are those of the window; nothing learned twice |
| `CcfsController`: virtual queue | least delay, last delay, start of the last packet | `estiQDelay`, `calcIVQDelay`, `updateInternalVQDelay` | a `while(1)` loop that raises a bandwidth until a queue is short enough | the loop ends |
| `RfbHeader` (apps/rfb-header) | CCFS's report blocks, a count and an end sequence number for each, length, times | `AddFeedback`, `CleanReportBlocks`, `GetMetricList`, `Serialize`, `Deserialize` | where a block begins, across the wrap and across the middle; 13-bit time offsets; refused length | what is read is what was added |
| `RmcatCcfsReceiver` (apps/rmcat-ccfs-receiver) | header, reference time, timer | stop, `RecvPacket`, `FbTimerHandler` | timer started by the first packet ever, packets taken when not running | every packet in at most one report, none in part |
| `NadaController` (congestion-control/nada-controller) | rate, time of last update, smoothed delay and loss | `reset`, `processSendPacket`, `processFeedback(Batch)` | updates from items and from batches race for the same interval; an item that is refused ends the batch; rounded times; two detectors of loss | a batch updates once; ramp-up only without delay and, on a history that is long enough, without loss; asserts hold |
| `DummyController`, `UtilNQMonitor`, `rate_statistics`, topologies, tests, examples, tools | none that the control depends on | | | |

The hazards, line by line, are listed in `PROJECT.json` (`hazards`), each with the
properties that would notice it going wrong.

## 2. Modules

| module | models | run(s) |
|---|---|---|
| `SequenceNumbers` | 16-bit sequence numbers (modulo `SeqMod`), `lessThan` | |
| `SenderBasedController` | the base controller in an open environment | `controller`, `controller_rejected`, `controller_wrap` |
| `RmcatSender` | the sending application and its events | `sender` |
| `RmcatSenderProofs` | its theorems | |
| `CCFeedbackHeader` | the feedback packet: a data type, as operators | |
| `CCFeedbackHeaderProofs` | lemmas about the operators: ranges, length, times, what is read back | |
| `CCFeedbackReports` | one such packet built and cleared by its operations | `reports` |
| `CCFeedbackReportsProofs` | its theorems | |
| `RmcatReceiver` | the receiving application with the network and its socket's queue | `receiver` |
| `RmcatReceiverProofs` | its theorems | |
| `CcfsSendControl` | CCFS's send control: estimates, delay window, detector, state machine | `ccfs`, `ccfs_initial_rate` |
| `CcfsSendControlProofs` | its theorems | |
| `RfbHeader` | the feedback packet of CCFS: a data type, as operators | |
| `RmcatCcfsReceiver` | the receiver of CCFS: its actions | |
| `CcfsVirtualQueue` | delay and virtual queue of `CcfsController`; on its own, a specification of what it needs of the reports | |
| `InductionLemmas` | what the proof modules share: a set of naturals has a least member, and sums over finite sets | |
| `CcfsLedger` | sent packets of `CcfsController` and how it reads a report; extends `RfbHeader` and `CcfsVirtualQueue` | |
| `FeedbackLoop` | abstract: what the feedback of CCFS promises, as sets of packets | |
| `CcfsFlow` | sender with ledger and queue, receiver, network: composes the four, implements `FeedbackLoop` and `CcfsVirtualQueue` | `ccfs_flow`, `ccfs_flow_reorder` |
| `CcfsFlowProofs` | theorems of `CcfsVirtualQueue` and, on top of them, of `CcfsFlow` | |
| `NadaController` | when NADA recalculates its rate, on top of `SenderBasedController` | `nada`, `nada_ramp_up` |
| `ControllerProofs` | theorems of `SenderBasedController` and, on top of them, of `NadaController` | |

Definitions commented "(Mutant: ...)" are not part of a model and are used by none. Each
is a version of the definition that follows it with a plausible bug; replacing the one by
the other makes TLC report the property that `PROJECT.json` (`mutants`) pairs with it.
They document that each property can fail, and because of what.

### SenderBasedController

State and actions are those of the class, one action per operation. `inTransit` and
`history` are the two deques; `lastSequence`, `firstSend`, `baseDelay`, `pktSizeSum`, `il`
the members of similar names. `Send` is the caller's `processSendPacket`, `Feedback` one
`processFeedback`, of which a batch is a sequence at one time. The loops that pop from a deque
are written as "exactly k records are popped". A failing `assert` sets `fault` and ends
the program; reading the front of an empty deque counts as one (`emptyDeque`).

The environment is open. Feedback may name any sequence number, sent or not, any number
of times, in any order. Two assumptions bound it: fewer than half the sequence numbers are
used within the in-transit window (`RateBound`; 32768 packets in 5 s in the code), and no
feedback is exactly half the space away (`Plausible`), where `lessThan` is not an order.
Sending is consecutive, as `RmcatSender` does it; `SpecAnySend` gives that up.

Times are integers instead of 64-bit numbers: `lessThan` on them is integer comparison as
long as the two are less than 2^63 us apart. The one-way delay is an integer that may be
negative, because the clocks may differ.

### RmcatSender

Each kind of event is a sequence of pending events, oldest first. The code keeps one `EventId` per
kind, so scheduling a second event of a kind makes the first an *orphan* that
`Simulator::Cancel` cannot reach (`handle = FALSE`). That does happen for oversleeping: such a packet is sent
even after the sender was paused or stopped, which `QuietUnlessActive` admits, and nothing else.
Times are kept as what remains of them, therefore no clock grows and the state space is finite
without a bound on time. `owed` is a history variable: what remains of the interval of
the packet sent last.

The rate is data. Every feedback may set any of `Rates`, so that the properties do not
depend on what `CalcBufferParams` computes. Oversleeping is any duration up to
`slept \div OversleepDivisor`; the code draws 0 to 0.99 %, hence the model's choices
are a superset. A buffer full in the sense of `MaxBuffer` holds the codec back; nothing in
the code does, and the assert on `MAX_QUEUE_SIZE_SANITY` is not modelled.

### CCFeedbackHeader, CCFeedbackReports

The header maps each SSRC to its blocks. `BeginStop` is `CalculateBeginStopSeq`: the widest
gap between numbers received, including that across the wrap, is what the report leaves out.
`Encode` and `Decode` are the packet's fields, not its octets: begin and
stop, one metric block for every number in the range with its *received* bit, ECN and
arrival time offset. Conversions between microseconds, NTP units and offsets are
integer arithmetic with the roundings of the code; `UsPerSecond`, `NtpPerSecond`, `AtoUnit`
stand for 10^6, 2^16, 2^6. The outcomes of `AddFeedback` are `NONE`, `DUPLICATE`, `BAD_ECN`
and `TOO_LONG`, after which the header is as the code leaves it: a packet that does not fit is put in and
taken out again (`TakenOut`), its block with it if it was the only one. That this gives the header there was before is
not assumed but a lemma (`RefusedAdd`).

### RmcatReceiver

A packet is known by the order in which it was sent. `net` is a set: packets are delivered
in any order or lost. `queue` is the socket's receive queue, which matters because
`RecvPacket` returns before `RecvFrom` when the application is not running: the packet
stays, and once the application runs each callback takes the packet that has waited longest. `taken`
and `report` are history variables.

### CcfsSendControl

One action, `processFeedback2`, split by the state it finds. Inputs are the
measurements of a feedback message: queueing delay, received rate, whether packets were lost,
bitrate fraction (possibly 0/0). Everything computed from them afterwards is modelled in the order of
the code: the estimate of the forward bandwidth, the delay window, the detector of increasing
delay, the event (`getControlSend`, by priority), the estimate corrected for a full queue,
the reaction of the state, and the time stamps. Steps by a factor near 1 go
to any rate above or below.

### RfbHeader, RmcatCcfsReceiver

As `CCFeedbackHeader`: blocks are functions from sequence numbers, a packet is the record of the
fields it carries. `CountEnd` is `CalcCountEndSeq` with its two halves and its limit of 100. Asserts
are predicates (`Serializable`, `Deserializable`) that the receiver and the sender evaluate where the code does,
and that set `headerFault`. The receiver has no start: `StartApplication` only sets a flag of the base
class that this class's `RecvPacket` does not ask for.

### CcfsLedger, CcfsVirtualQueue, CcfsFlow

`CcfsLedger` translates `processSendPacket2` and `processFeedback2` with everything they call, in the
order of the code, up to the delay; the control that follows is `CcfsSendControl`. `fault` names
the assert that failed. Records are inserted where the code's `operator[]` inserts them. A report
is empty (returns at once), skipped (no period can be found), or used.

The virtual queue is in closed form: `LeavesBefore` says that the last packet leaves before a deadline, which holds
iff that is true of each packet and of the queue left over, plus the services behind it. The
loop over bandwidths is an existential quantifier over `Services`, the times to serve a packet; 0 is one of
them because `int64_t` rounds the quotient and the bandwidth grows without limit. All
packets take the same time to serve; `LastTurn` for a larger one implies it for a smaller, and it is monotonic in each
single service as well, so that sizes make no difference to whether the loop ends.

`CcfsFlow` composes them with the receiver and two networks. Both hand over in order,
`Reach` lets the network for packets swap neighbours. One thread runs everything: after a failed
assert, or in an endless loop, nothing else happens (`Running`). `RateBound` holds the sender back: at most `WrapFront` (100 in
the code) numbers are in use from the oldest packet that may still be in the report being filled to the next one. Nothing in the code does so. At a period of 100 ms
a flow needs a rate of several Mbps to get there; beyond it, when the first 100 numbers behind the wrap are all lost, `CalcCountEndSeq` takes a report that has
wrapped for one that lies across the middle. Two refinements are checked as properties:

- `VirtualQueueSpec`: every step that touches the queue's variables is a `Report` of `CcfsVirtualQueue`, whose guard says what
  the queue needs, namely packets in sending and in arrival order, after those of the reports before.
- `ImplementsLoop`: `FeedbackLoop` with `travelling`, `pending` and `reports` rendered to the numbers
  in the network, in the receiver's header, and in the packets on their way back. `Learn` is all or nothing: because
  records are kept for longer than a round trip and a period (`FlowAssumption`; 10 s in the code), a
  report is learned completely or ignored completely.

### NadaController

The base class's model with the conditions under which `processFeedback` and
`processFeedbackBatch` call `updateMetrics` and `updateBw`. A batch is not one action but a sequence of
items, `batch = "open"` in between, during which no other event happens; the item that
ends it also does what the code does after the loop. An item that is refused ends the batch at once
(`GiveUp`). The environment is an orderly network: the packets of a report are outstanding, newer than those of
the report before, and received in order. Their reported times may be off by `Rounding` (the quantum of the arrival time offset, see
`TimesSurvive`), except for the last one, from which the offsets are counted.
The rate, and the metrics only its arithmetic reads, are left out.

## 3. What the runs check

| run | properties | distinct states | bounds |
|---|---|---|---|
| `controller` | `TypeOK AssertionsHold TransitContiguous HistoryWindow NeverBoth MetricsWellDefined IntervalsConsistent CurrentIntervalSinceHole CreditedFromTransit` | 393 920 | 8 sequence numbers starting at 6, two packets per instant, 6 instants, one reset |
| `sender` | `TypeOK TimerIffBacklog BufferAccounted QuietUnlessActive Paced BacklogIsServed` | 6 980 | two sizes, two rates, buffer of 3 |
| `reports` | `TypeOK SurvivesTheWire TimesSurvive ShortestRange` | 50 440 | two streams, 6 sequence numbers, 8 words, 3 times |
| `receiver` | `TypeOK NoAssertFails ReportIsComplete Timely` | 85 485 | 5 packets from number 6 of 8, 5 words, reordering up to 4, 6 instants, period 2 |
| `ccfs` | `TypeOK RateInRange TargetFollowsStatus ThrottleKeepsEstimate ProbingIsBounded ReturnsToDefault` | 62 983 | rates 2 and 3, delays of 0, 30 and 160 ms, bitrate fractions of 70 %, 100 % and 0/0, timers of 2 and 3 periods |
| `ccfs_flow` | `TypeOK NoAssertFails LoopEnds WindowIsRecent VirtualQueueSpec ImplementsLoop` | 825 179 | 4 packets from number 8 of 10, one loss or stop, latency up to 2, a period of 2 ticks, 8 instants |
| `nada` | `NadaTypeOK NadaAssertsHold UpdatedByBatch LossesAgree RampUpIsClean` | 1 227 987 | numbers from 7 of 10, two packets per instant, 6 instants, one reset, history of 3 instants, update interval 2, logs of 3 packets, rounding 1 |

Why these bounds are enough to make the interesting cases happen:

- *controller*: 6, 7, 0, 1, ... crosses the wrap within the first three packets. The in-transit
  window is 2, the inter-packet time 1 and the history 2 instants, so that pruning,
  obsolescence and garbage collection all happen within 5. A reset may come anywhere.
- *reports*: a full range, all gaps and both sides of the wrap occur; 8 words make the length refuse blocks,
  the third time is so old that it overranges, ECN value 4 is refused.
- *receiver*: 5 words make the header refuse a block, so that the retry runs. With one
  SSRC and the real limit of 65535 words this needs 130 thousand blocks and cannot happen; the
  model is stricter there than the program.
- *sender*: two of a kind of event pending, timer restart before and after `m_nextSendTstmpUs`,
  and oversleeping beyond a pause all occur.
- *ccfs*: the delays are below the threshold for probing (20 ms), between that and the target
  (50 ms), and above every limit (150 ms), the fractions below and at the limits, so that each of the seven
  events and each of the transitions between states occurs, staying in THROTTLED included. Time is counted in
  feedback periods, of which one or two lie between two messages (one message may be lost; without that
  PROBING never turns into COMPETING, because an increasing delay ends it first).

- *ccfs_flow*: 8, 9, 0, 1 cross the wrap, and with `Half` = 5 a report of 9 and 0 is on both sides of the middle. Four
  packets in 8 instants give reports of none, one and several packets, up to two of them on their way,
  records that expire (`KeepTime` is the least the assumption allows), periods that leave the window, and delays that grow and
  shrink, so that the virtual queue is empty, backed up, and in need of more bandwidth. With `WrapFront` = 3 a packet that waits at the receiver while
  three more are sent is at the limit of `RateBound`. Nothing else is restricted: `MaxPackets` below `SeqMod` is there because numbers serve as
  the names of packets in `FeedbackLoop`.
- *nada*: updates at an item, at the end of a batch and at neither occur; batches are refused in
  the middle; the history is too short, long enough, and with holes; a report may be rounded so that the
  assert of `getCurrentRecvRate` fails at an item.

Five runs are meant to find a counterexample. In each, code and documentation disagree
(`PROJECT.json`, `findings`, quotes them):

- `controller_rejected`: a send refused because of its sequence number has already advanced
  `m_lastSequence`; the next feedback fails the assert that the newest record in transit has
  that number. The sender of this repository never presents a wrong number, so this concerns the
  interface only.
- `controller_wrap`: the assert in `updateInterLossData` tolerates a smaller number only within
  50 of the wrap. After a longer run of missing feedback there, it fails. `AssertionsHold`
  of run `controller` says that this is the only assert that can fail, and only then.
- `nada_ramp_up`: the comment of `getRampUpMode` asks for no recent loss in the history and for every delay to be below `QEPS`.
  The code looks at `m_ploss`, which a history shorter than `MIN_PACKET_LOGLEN` leaves as it was: in the trace TLC finds the second
  of the first three packets is lost, the history of the other two is too short, and the rate ramps up. The code's comparison with
  `QEPS` also admits a delay equal to it. `RampUpIsClean` of run `nada` says what holds all the same.
- `ccfs_initial_rate`: CCFS sends at the built-in default rate until the first event sets
  a rate, even if the configured minimum is higher.
- `ccfs_flow_reorder`: when a packet overtakes another, the hole it leaves in one report and the late packet
  in the next are both taken off the packets in flight, and the assert that enough are there fails.

`NadaAssertsHold` says precisely which asserts can fail on the way of NADA's feedback: that of
`updateInterLossData` (as in `controller_wrap`) and that of `getCurrentRecvRate` for an update at an item, never
at the end of a batch.

Deadlock is checked in `sender`, `ccfs` and `ccfs_initial_rate`. In the other modules a bound
ends the behaviour: the controllers', the receiver's and the flow's clocks stop at `MaxTime`, and in `reports` a
report of all sequence numbers fails an assert, after which nothing is enabled.

### Fairness

- `RmcatSender`: weak fairness of `EnqueuePacket`, `SendPacket`, `SendOverSleep` and `Tick`: the
  simulator runs every event that is due, and then advances its time. None for start, stop, pause,
  resume and feedback.
- `CcfsSendControl`: weak fairness of `Next`, because the receiver reports periodically even when
  it received nothing. A message that changes no estimate still is a step (`rxedFbmCount`
  alternates), so that the assumption does not exclude messages that leave everything else as it is. `ReturnsToDefault` claims a return to DEFAULT only if queueing
  delay does not keep coming back.
- The other modules state safety only.

## 4. What is proved

The proof modules prove, for all values of the constants that satisfy the assumptions stated in the modules
(`SeqModAssumption`, `ControllerAssumption`, `SenderAssumption`, `HeaderAssumption`, `ReportsAssumption`,
`SpanAssumption`, `ReceiverAssumption`, `SendControlAssumption`, `VirtualQueueAssumption`, `RfbHeaderAssumption`, `CcfsReceiverAssumption`,
`LedgerAssumption`, `FlowAssumption`, `NadaAssumption`):

| module | theorem | says |
|---|---|---|
| `ControllerProofs` | `TypesAreKept` | `Spec => []TypeOK` |
| | `TransitIsContiguous`, `HistoryIsOrdered`, `TransitAndHistoryApart` | `Spec => []TransitContiguous`, `[]HistoryWindow`, `[]NeverBoth` |
| | `NoOtherAssertFails` | `Spec => []AssertionsHold` |
| | `CreditComesFromTransit` | `Spec => CreditedFromTransit` |
| | `IntervalsAreConsistent`, `CurrentIntervalIsCounted` | `Spec => []IntervalsConsistent`, `[]CurrentIntervalSinceHole` |
| | `MetricsAreWellDefined` | `Spec => []MetricsWellDefined`: the byte count is the sum over the history, no difference wraps |
| | `QdelayIsNonNegative`, `LossIsNonNegative` | the unsigned differences of the metric getters never wrap |
| | `NadaTypesAreKept`, `NadaAssertsAreKept` | `NadaSpec => []NadaTypeOK`, `[]NadaAssertsHold` |
| | `BatchUpdatesOnce`, `LossesAlwaysAgree` | `NadaSpec => []UpdatedByBatch`, `[]LossesAgree` |
| | `RampUpIsAlwaysClean` | `NadaSpec => RampUpIsClean` |
| `RmcatSenderProofs` | `TypesAreKept` | `Spec => []TypeOK` |
| | `TimerRunsIffBacklog`, `QuietWhenInactive`, `BufferIsAccounted` | `Spec => []TimerIffBacklog`, `[]QuietUnlessActive`, `[]BufferAccounted` |
| | `SendingIsPaced` | `Spec => Paced` |
| `CCFeedbackReportsProofs` | `ReportTypes` | `Spec => []TypeOK` |
| | `ReportsSurviveTheWire`, `ReportTimesSurvive` | `Spec => []SurvivesTheWire`, `[]TimesSurvive` |
| | `ReportsAreShortest` | `Spec => []ShortestRange` |
| `RmcatReceiverProofs` | `ReceiverTypes`, `ReceiverNeverFails` | `Spec => []TypeOK`, `[]NoAssertFails` |
| | `ReportsAreComplete`, `ReportsAreTimely` | `Spec => []ReportIsComplete`, `[]Timely` |
| `CcfsSendControlProofs` | `ControlTypes` | `Spec => []TypeOK` |
| | `TargetIsOfStatus`, `EstimateIsKept`, `ProbesEnd` | `Spec => []TargetFollowsStatus`, `[]ThrottleKeepsEstimate`, `[]ProbingIsBounded` |
| | `RateStaysInRange` | `Spec => []RateInRange` if `DefaultRate` is within the limits |
| `CcfsFlowProofs` | `QueueTypes`, `LoopAlwaysEnds` | `QueueSpec => []QueueTypeOK`, `QueueSpec => []LoopEnds` |
| | `FlowTypes`, `FlowAsserts`, `FlowLoopEnds` | `Spec => []TypeOK`, `[]NoAssertFails`, `[]LoopEnds` if `Reach = 1` |
| | `FlowWindow` | `Spec => []WindowIsRecent` if `Reach = 1` and the times of the run fit in their width (`NoTimeWrap`) |
| | `FlowFeedsQueue` | `Spec => VirtualQueueSpec` if `Reach = 1`: the flow implements the specification of the queue |
| | `FlowImplementsLoop` | `Spec => ImplementsLoop` if `Reach = 1`: the flow implements `FeedbackLoop` |

The inductive invariants are theorems too: `Invariance` (base controller, sender), `NadaInvariance`, `ReceiverInvariance`,
`FlowInvariant`.

**Controller.** `TransitContiguous` is not inductive by itself: that the scan of
`processFeedback` stops, and where, depends on `lessThan` being an order on the records, which
it is only within half the sequence space. The invariant `IInv` therefore carries typing, the age and
distance of every record in transit and in the history from the last sequence
number, the order of both deques by time and number, that everything in transit is newer than the history,
and that the base delay is the least of the history. `SendInv`, `FeedbackInv`, `ResetInv` and
`TickInv` show that each action preserves it; `FeedbackInv` splits as the code does,
into the cases of an unknown number, an out-of-order one, a decreasing time stamp and a
credited packet. Arithmetic modulo `SeqMod` is confined to lemmas at the top, where
`Diff` is shown to be additive within half the space. `CreditedFromTransit` and
`IntervalsConsistent` follow from what a step adds to the history (`FeedbackEffect`,
`AccountEffect`); the latter needs, to be inductive, that there always is a current interval.
`CurrentIntervalSinceHole` says that the current loss interval counts the packets since the last hole of the history, although packets are
pruned from the front and history and intervals are reset at different moments. A packet credited makes it 1 if it leaves a hole (`FirstInterval`) and
one more otherwise (`SameInterval`); as the history spans less than half the numbers, the 16-bit count cannot wrap within it.

**Sums.** `MetricsWellDefined` and `BufferAccounted` equate a byte count with a sum over a sequence, which the code keeps up to
date by adding and subtracting. The library's folds are defined by recursion on sets, and its induction theorems take an operator,
which the provers cannot instantiate. `InductionLemmas` therefore states what the proofs need of a sum for finite
sets and functions (`Total`: of the empty set, of one member more, of equal terms, of a list cut in two; that the recursion has a solution and
that every order of taking the members out gives the same) and proves it by contradiction from a counterexample of least cardinality. What is popped from a deque
is then the total of its front, what is pushed the total of one more; that the counts never go below 0 follows.

**Sender.** `TimerIffBacklog` needs that at most one `EnqueuePacket` and one `SendPacket` event
is pending and has its handle (otherwise a cancellation would miss it), and
that with CCFS no timer is used. `Paced` needs, in addition, that a pending
`SendPacket` is never due before what is owed has passed, and that `m_nextSendTstmpUs` is that
same time while the buffer is empty; a new oversleep comes from
`SendPacket` only.

**Send control.** The inductive invariant is `ControlInv`: typing, the three state properties and `OldestFirst`,
which says that the delay window holds the older entries in front. Without that order the loop that pops the front
until it finds a recent entry would leave old ones behind it, and the ages in the window would have no bound. Where the
loop stops is a least index (`PopsStop`). `EstimateIsKept` needs that `estiFwdBwPre` changes nothing
while the flow is throttled (`ThrottledEstimate`), so that the estimate copied when throttling began is still the current one. Each
branch of `handleSendControl` has a lemma that says what it leaves (`DefaultResult`,
`CompetingResult`, `ProbingResult`, `ThrottledResult`); `FeedbackStep` combines them. The hypothesis of
`RateStaysInRange` is needed: run `ccfs_initial_rate` shows the default outside the limits.

**Virtual queue.** `LoopEnds` is not inductive: that raising the bandwidth is enough depends on what earlier packets left in
the queue. The inductive invariant adds `Backlog`: the queue was last started no later than the last packet was
sent (`ivqSt`), and its start plus the last delay lies before the end of the millisecond in which that packet arrived,
measured from the base delay. When the next report comes, in order, what is left over leaves no later than the arrival of
the new packets allows, and with a service of 0 the last turn is reached. Minima are taken of finite sets
of integers (`LeastNat`, proved from the well-order of the naturals), since the library defines `Min` by
CHOOSE. That the program's reports are in order is `VirtualQueueSpec`, proved as `FlowFeedsQueue`; `FlowLoopEnds` is the same
result for the composition.

**CCFS flow.** None of these properties is inductive: what the sender may do with a report depends on where the report's packets have been. The invariant
`FlowInv` describes what is under way as a line of *parcels*: the reports in the network, first in first out, then the block the receiver is filling (`Parcels`), and
behind it the packets in the network. All the packets the sender may still hear of (`Alive`) are located by `Diff` from the number to be sent next, their age, so
that the wrap of the numbers is nowhere a special case. Its parts:

- `NetInv`, `TimerInv`: nothing is in the network for longer than `MaxLatency`; the timer is due within a period. A receiver that was stopped never
  sends again, so what it then collects is not a parcel.
- `NumbersInv`: the numbers sent are those of the last `Cardinality(sent)` ages, whatever is alive has not been learned, and no age is larger than
  the packets in flight as the sender counts them. The last part is what the assert in `getNetRemains` needs: a report covers a range of ages, holes
  included, and the next one starts behind it.
- `HeaderInv`: reports in the network are of one stream and can be read, and reading gives the numbers that were written.
- `OrderInv` (`UnderWay`): ages decrease along the line, the ages in one parcel are no more than `WrapFront` apart, and sending and receiving times follow the ages.
- `RecordsInv`: records of whatever is alive are kept. From `OrderInv` nothing in a parcel was sent more than twice the latency and a period
  ago, which `FlowAssumption` relates to `KeepTime`.
- `PastInv`, `QueueInv`: what the virtual queue holds is older than everything alive; the invariant of the queue.
- `PeriodsInv`: the totals are the sums over the window; periods begin no earlier than a period before the ones in front of them.
- `FaultInv`: no assert has failed.

Each action has one lemma (`SendStep`, `ArriveStep`, `SendReportStep`, `RecvFeedbackStep`, `LosePacketStep`, `LoseReportStep`, `StopStep`, `TickStep`) on
top of lemmas that do not know the program: `Sending`, `Arriving`, `Thinning` and `Waiting` say that a line with a packet more, a packet
moved, parcels gone, or an instant later is in order. `CountEndOfWindow` is what `CalcCountEndSeq` needs: numbers within `WrapFront` of each other
have their oldest as begin, their newest as end and the difference plus 1 as count, in all four cases of the code. From there `BlockRoundTrip` gives
what is read back, and `Parsing` that the list for the virtual queue names packets in the order they were sent. The refinement of `FeedbackLoop` is one lemma per
action too (`LoopSends`, ..., `LoopStep`): `Learn` needs that a report's numbers are disjoint from `learned` and all have records, which is
`NumbersInv` and `RecordsInv`.

Two hypotheses are part of these theorems. `Reach = 1`, a network that keeps the order of packets, is needed: run `ccfs_flow_reorder` has the assert of `getNetRemains` fail
as soon as one packet overtakes another. `NoTimeWrap` says that the flow starts later than a period after time 0 and ends before the times wrap; the
unsigned begin of a period, and nothing else, depends on it. `FlowInv` was checked by TLC as an invariant of run `ccfs_flow` (825 179 states) before it was proved.

**NADA.** `UpdatedByBatch` needs that an update in an open batch has left `lastTimeCalc` at the present
instant, which no later item of the batch changes because the clock stands still; then neither a second item nor the end of
the batch finds the interval elapsed. The other theorems need the base class's invariant together with what network and controller know
of each other. `NadaInv` adds to `IInv`: the packets a report may still name (`OutstandingInv`) and those the controller has in
transit, both counted from the newest, are the same packets (`AlignedInv`; after a `reset` the controller may know
fewer, and none is missing once one was credited); no record of the history was received later than the newest report says
(`ReceptionInv`); and, as long as no loss interval was started, the history has no hole in it (`NoHoleInv`). The last one is
what leaves no hole without a loss interval (`LossesAgree`): a packet credited that is not the next one expected starts
an interval, one that is leaves no hole, and pruning only takes from the front (`AccountLeavesNoHole`). `RampUpIsClean` rests on
another fact about holes: distances within the history add up (`HistoryChain`), so that a history in which no packet is missing in total has
consecutive ones throughout (`NoHoleConsecutive`).

**Feedback header.** A report leaves the widest gap out. Any range that covers the packets leaves out some gap, that between its last packet
and its first one, which is no wider; so no range is shorter (`RangeIsShortest`), for every width of the numbers. That the length kept by `AddFeedback` is that of
the blocks is again a `Total`, one term per SSRC; `Deserialize` counts the same words. Every number of a range
occurs once, at its distance from the range's begin, therefore what is read back has the numbers that were added and no
others (`BlockRoundTrip`, `HeaderRoundTrip`). That a refused packet leaves nothing behind (`RefusedAdd`) needs that a block on record is never empty. For times, the offset is exact to half a unit unless
it is beyond what the field says. Two assumptions are about reachable inputs: `SpanAssumption`, that less than 64 s lie between two packets of one report,
since `NtpToAto` cuts an offset to its 16 bits before it compares it with *overrange*; and `2 <= MaxLength`, as an empty header has two words.

**Receiver.** That a report is complete is not inductive: the header keeps numbers, not packets, and a number stands for a packet only
within a window. `ReceiverInv` therefore says of the header that it holds exactly the numbers of the packets taken since the last report, and of
every packet in the network, in the socket's queue or taken, that it is one of the last `MaxSpan` sent and in one place only. As `MaxSpan` is at most half
the sequence numbers, different packets then have different numbers (`WindowInjective`), so that `AddFeedback` never answers
*duplicate*; a number is always left out (`LeavesOneOut`), so that a range exists; and `GetMetricList`, which lists the numbers from
the one behind the gap, gives them in the order in which the packets were sent (`MetricListOrder`). The only refusal left is
*too long*; after the report was sent the header is empty, and `MaxLength >= 5` is the room of one packet, so the retry succeeds and its assert holds.
`Timely` needs that the age of whatever was taken and the time left on the timer add up to at most a period.

Only model-checked: `BacklogIsServed` and `ReturnsToDefault`, because liveness under fairness is out of the prover's reach. Every other property of
a passing run is a theorem. The runs that expect a violation show what the hypotheses are for.

## 5. What is not modelled

- Floating-point arithmetic: the rate computations, congestion signal and smoothing of NADA, the rates in
  `CalcBufferParams`, the correlation coefficient of CCFS (logged only). Where a choice depends on such a value the model chooses.
- The octets of packets, logging, and the topologies.
- The control of CCFS is checked against free measurements (`CcfsSendControl`) and the measurements against free
  control (`CcfsLedger`); the product of the two is out of TLC's reach. The term of `estiQDelay`
  for an empty queue cannot be reached, because `getLastPeriodMs` has found the newest packet's record.
- A network that reorders the reports of CCFS: the check of their order is compiled out, and the loop
  of the virtual queue may then not end.
- Details that no document makes a promise about: the integer average of the detector of increasing delay (a step
  of 6 ms or less never moves it; the model chooses from an interval), the end of COMPETING when the sender's
  clock is ahead (the wrap is modelled), the age of the received rate that NADA's ramp-up multiplies, and the bounds that a second `reset`
  restores after it has read the old initial rate.
- What the repository's scenarios cannot reach: a second stream behind an odd number of packets (`RfbHeader::Deserialize` does not
  skip the padding), a report longer than 64 KiB, a report of all 65536 numbers, a packet that arrives at time 0, a
  `reset` of CCFS with packets on record.
- `setFwdBw` undoes the room for competition before it averages; that is below the resolution of the
  model's rates.
- How long a loss-free run may be before the 16-bit count of the current loss interval wraps (65536 packets): the count is
  modelled with its width, but no property looks further back than the history.
- `RmcatReceiver`'s `rand ()` for its own SSRC.
- `DummyController` adds nothing to its base class; `UtilNQMonitor` only logs;
  `rate_statistics` is vendored and unused; `tools/` and `examples/` hold no logic of the system.

## 6. Plan

The components with a state the control depends on are modelled, and the safety properties and refinements the runs check are proved. Left, in order of importance:

1. `RmcatReceiver` behind a refinement too: `FeedbackLoop` promises what both receivers have in common.
2. A bound on the reordering under which CCFS's virtual queue still ends its loop, as weaker hypothesis than `Reach = 1` for `FlowLoopEnds`.
3. The flow for several streams: `RfbHeader` is modelled for any number of them, `CcfsFlow` sends one.

## 7. Running

```
tlc -config SenderBasedController.cfg SenderBasedController.tla
tlc -config CcfsFlow.cfg CcfsFlow.tla
tlapm CcfsFlowProofs.tla
```

`PROJECT.json` lists every run with its module and configuration.
