# Verification of ptpd

TLA+ models of the PTP daemon in `src/`, the TLC runs that check them on small
instances, and theorems about them that TLAPS proves for every instance.
`PROJECT.json` lists the components, the runs, what each definition translates
and the hazards each property is for.

## The system

ptpd is one process with one main loop. `main()` (`ptpd.c`) calls
`ptpdStartup()` and then `protocol()`, which runs one *iteration* after
another: it calls `doInit()` or `doState()`, then updates the timing domain, the
alarms and the unicast grants when their timers have expired, applies a changed
configuration and processes signals. Inside the loop everything is sequential;
what is concurrent with it is the timer signal handler, the network, the peers,
and ntpd, a process of its own. An iteration is long, though: `doState()` decides
on the state, handles up to two messages, serves several timers and may change
the state of the port at each of these steps, while its remaining steps still
belong to the state the iteration began in. Most of what can go wrong here goes
wrong between two steps of one iteration, or between two ports.

| component | state | operations | interacts with |
|---|---|---|---|
| port state machine (`protocol.c`) | `portState`, `announceTimeouts`, `listenCount`, `syncWaiting`, `disabled`, `initFailure`, `message_activity` | `protocol`, `doInit`, `doState`, `toState` | every other one |
| BMC and data sets (`bmc.c`) | `parentDS`, `timePropertiesDS`, `bestMaster`, `foreign_record_best` | `bmc`, `bmcStateDecision`, `m1`, `p1`, `s1`, `initData`, `updateDatasets` | called by `doState`, reads the records |
| foreign master records (`protocol.c`) | `foreign[]`, `number_foreign_records`, `foreign_record_i`, `record_update` | `addForeign`, reset by timeouts and by `initData` | written by `handleAnnounce`, read by `bmc` |
| event timers (`ptp_timers.c`, `dep/eventtimer*.c`) | running, latched expiry | start, stop, `isExpired`, signal handler | started and stopped by `toState`, checked by `doState` |
| Sync and Follow_Up (`protocol.c`) | `recvSyncSequenceId`, `waitingForFollow`, `followUpGap`, `sync_receive_time`, `lastSyncCorrectionField`, `consecutiveSequenceErrors` | `handleSync`, `handleFollowUp`, `issueSync`, `issueFollowup` | feed `updateOffset` |
| delay request, E2E and P2P (`protocol.c`) | `sentDelayReqSequenceId`, `waitingForDelayResp`, the send and receive times, their peer counterparts | `handleDelayReq`, `handleDelayResp`, `handlePdelay*`, `issue*` | feed `updateDelay`, `updatePeerDelay` |
| servo and clock control (`dep/servo.c`) | `delayMS`, `delaySM`, `meanPathDelay`, `offsetFromMaster`, `panicMode`, `clockControl` | `updateOffset`, `updateDelay`, `checkOffset`, `updateClock`, `stepClock`, `initClock` | may reset the port |
| Sync destination index (`protocol.c`) | `syncDestIndex[]` | `indexSync`, `lookupSyncIndex`, `findSyncDestination` | unicast `issueSync` and `handleSync` |
| unicast negotiation (`signaling.c`) | grant tables, `parentGrants`, `previousGrants` | request, grant, cancel, acknowledge, `refreshUnicastGrants` | Announce, Sync and delay messages |
| management (`management.c`) | `managementConfig`; sets data sets | one handler per management id | writes data sets, `portState`, the configuration |
| configuration and reload (`dep/daemonconfig.c`, `dep/startup.c`) | `currentConfig`, `rtOpts`, `restartSubsystems` | parsing, `checkSubsystemRestart`, `applyConfig`, `restartSubsystems`, `checkSignals` | moves the port, restarts subsystems |
| timing domain (`timingdomain.c`, `dep/ntpengine`) | services, hold, idle and election timers | `timingDomainUpdate`, election, acquire, release | PTP and NTP services, ntpd |
| alarms (`dep/alarms.c`) | condition, state, age and flags of each alarm | `setAlarmCondition`, `updateAlarms`, `configureAlarms`, `enableAlarms` | conditions reported all over the loop |
| statistics, network, ACL, packing, arithmetic, display, SNMP, system | | | see Not modelled |

What makes each of them correct:

- records: no known master is missed by the search or stored twice, the best
  one is never overwritten, the indices stay in the array;
- port: its timers fit its state; the parent data set, the record of the
  parent and the state agree; the state decision is current; a silent master
  is left, a live one found, a silent network noticed;
- timing messages: the time stamps that enter one computation belong to one
  exchange with one master or peer; a lost message does not stop the exchange;
  a Follow_Up goes where its Sync went;
- unicast: who relies on a grant is served; a node has one slot, and keeps it
  while its grants last; a slave that keeps asking is served again;
- clock: PTP and ntpd do not both steer it, the one that should gets it; it is
  stepped for a large offset only after a whole panic, but in the end it is;
- management and reload: what the options say is what the data sets and the
  subsystems work with, and a command that was confirmed has been obeyed;
- alarms: what is shown is what is so, and it does not flap.

`PROJECT.json` lists the hazards, each at its line.

## Modules

| module | models | extends or uses |
|---|---|---|
| `ForeignMasters` | the records, with their indices, and every operation on them | |
| `PtpPort` | the main loop, the port state machine, the timers, Announce handling, and the state decision | `FM == INSTANCE ForeignMasters`, over the same variables |
| `SyncExchange` | Sync and Follow_Up at a slave, and what the servo keeps of them | |
| `DelayExchange` | the delay request mechanism beside it, with the send time stamps of requests | `SyncExchange` |
| `PeerDelay` | the peer delay mechanism between several ports | |
| `SyncDestinations` | where the Follow_Ups of a unicast master go | |
| `UnicastLease` | abstract: what a grant promises | |
| `UnicastGrants` | unicast negotiation of slaves and masters | `Lease == INSTANCE UnicastLease` |
| `TimingDomain` | the services that compete for the clock | |
| `ClockControl` | what a port does to the clock, and panic mode and the leap second pause | `TimingDomain` |
| `Configuration` | the settings, what a change of each restarts, and `applyConfig()` | |
| `Management` | management messages, reloads, and what the daemon works with | `Configuration` |
| `Alarms` | one alarm and the loop that reports its condition | |
| `*_proofs` | the theorems of the module of that name; `DelayExchange_proofs` has those of `SyncExchange`, `UnicastGrants_proofs` proves as well that `UnicastGrants` implements `UnicastLease`, `FollowUps_proofs` is about `PeerDelay` and `SyncDestinations` | that module, `TLAPS` |
| `MC*` | the instances TLC checks | |

`PtpPort` is the detailed port. The modules below it keep as much of the port as
their own question needs (`slave` in `SyncExchange`, any state decision in
`ClockControl`, `Management` and `Alarms`), which includes every behaviour of the
real port and some that it does not have.

### ForeignMasters

The state is the array and its indices, slot by slot: the circular search of
`addForeign()` is `Probe` and `Hits`, its insertion `InsertSlot`,
`NumberAfterInsert` and `InsertRecord`. A record is the identity of the master,
the rank its announced data set has under `bmcDataSetComparison()`, and the
disqualified mark. Two masters never compare as equal there (identities break
ties), which the rank and the identity reproduce; what the rank leaves out is
that the comparison is not a total order for masters that announce the same
grandmaster. `Next` is any order of the operations in which `bmc()` has handled
one Announce before the next one is recorded. `heard` and `dirty` are history
variables: the masters recorded since the last reset, and whether that reset was
`initData()`, which leaves `foreign_record_i` behind.

### PtpPort

One iteration of `protocol()` is a walk of `pc` through the steps of `doState()`
in the order of the code, one action per step; `branch` is the case of its
second `switch`, which keeps being executed when a step changes `portState`.
`EnterWith`, `Listen` and `ListenFails` are `toState()`: the timers stopped for
the state that is left, those started for the state that is entered, and the
variables each case assigns; `toState(PTP_LISTENING)` may recurse into FAULTY.
The signal handler is `TimerExpires`, enabled between any two steps. A stopped
timer keeps its latched expiry, as `eventTimerStop_posix()` does.

The port uses the records through `FM!` actions. `ImplementsForeignMasters`
(`FM!Spec`) says that it keeps to the order `ForeignMasters` assumes, so the
theorems about `ForeignMasters` hold of the records of the port.

The surroundings are a parameter, given per configuration: failures of the
network, of sending and of `netInit()`, clock steps and slave resets by the
servo, management messages, and re-applied configurations (SIGHUP or
management), each switched on by `Environment`; `Announces` are the masters and
data sets that are heard. The configuration options that the port reads are a
record; a run chooses the set of `Configurations`.

Left out: unicast negotiation, leap seconds, the timers that only feed alarms
and statistics, and SET messages that change our own data set (`Management` has
these); our own identity is never in `Masters`, so the comparison never yields 0
and the FAULTY of `bmcStateDecision()` is unreachable. `netSelect()` is not made
to block: an iteration without a message is `HandleNothing`.

### SyncExchange and DelayExchange

The slave's side of the timing messages. Two things are abstracted. A time is
represented by what it is the time of: `syncOf` is the Sync `sync_receive_time`
belongs to, `requestTimed` the request `delay_req_send_time` belongs to (a set of
one, or empty), `delayMS` the masters whose send and receive time it was computed
from, and `meanPathDelay` whether it is of one exchange and had an offset. The
network is every message at every time: any Sync, Follow_Up or Delay_Resp with any
id may arrive next, which includes loss, duplication, delay, reordering and a
master that restarts. Messages the code only counts have no action.

The port is reduced to `slave` and `parent`: `BecomeSlave` is
`toState(PTP_SLAVE)`, `LeaveSlave` every `toState()` out of it,
`HandleInitialize` the management message that bypasses `toState()`, and
`ChangeParent` the state decision that selects another master while the port
remains a slave; it resets nothing. The servo is the outcome of a sample: used,
suppressed (a filter, `maxDelay`, a leap second), or a reset of the port
(`maxDelayMaxRejected`, a step of the clock).

`HandleSync` is `handleSync()`: `DiscardSync` (out of sequence), `SkipSync` (the
Follow_Up of an earlier one is still awaited), `RecordSync` and `OneStepSync`.
Follow_Ups are discarded unless they carry the recorded id. In `DelayExchange` a
request gets its send time in one of two ways: from the kernel when it is sent
(`IssueTimestamped`), or from a copy of the request that is looped back and read
later (`IssueLooped`, `HandleDelayReq`); when a time stamp does not come the port
changes from the first to the second (`IssueTimestampFails`), for good until the
network is restarted.

Left out: the master's side (a master's answers are arbitrary messages here),
intervals, the clearing of counters by an operator (which also clears
`consecutiveSequenceErrors`), and the arithmetic.

### PeerDelay and SyncDestinations

`PeerDelay` has several ports on a link, each of which asks and answers, and the
messages between them. A mean path delay needs four times, stored one by one as
they come: of our request when the kernel or a looped back copy reports it, of
its arrival and of the answer's departure at the peer, and of the answer's
arrival here. `times` holds for each the request it is of, `delay` what the
last computed delay was made from. A message carries the request it belongs to,
which the code cannot see, beside the id, which it can; that is how
`OneExchange` can tell a mistaken match. Ids are counted modulo `MODULUS`; a
message lives for fewer than `MODULUS - 1` requests. Links keep the order of
messages of one kind and do not duplicate; the answer and looped copies come
through the same socket. Faults are per configuration: loss, lateness, failing
stamps, state changes, restarts, a one-step master whose Sync clears our own
`twoStepFlag`.

`OneExchange` excuses two things the code really does, which the state records:
`mistaken` is a Follow_Up accepted for the recorded id 0 before any answer was
recorded, `unstamped` a delay computed while a send time stamp had failed.
It is about links of two ports, and links where all is unicast and the kernel stamps
what is sent (`OnePeer`): with more ports in multicast, or copies looped back to a
third one, nothing in the code tells whose message is in `PdelayReqHeader`.
The configuration with one-step masters is in the run for `MeasuresAgain` only.

`SyncDestinations` is the table that tells which destination a looped back Sync
went to: the hash of its origin time is an index with one entry, which a second
Sync with the hash clears; what the index does not know is searched. `IndexSync` is
the entry that the calls for all destinations of one hash leave. The looped back
Syncs are a set read in the order of their round and destination (`Oldest`). History
variables say when three Syncs of one round had one hash (`crowded`) and when
copies were left over from the round before (`late`); only then may a Follow_Up
go astray, and it does.

### UnicastGrants

Both sides of `signaling.c`, with a network between them. A node has its table
of slots: for a slave the configured destinations, for a master the slaves it
has heard. A slot has an identity, an address, the time it is reserved for and a
grant per message type with the flags of the code. `Refresh` is
`refreshUnicastGrants()` of a slave or master, once a second: ageing, giving up,
cancelling what the previous parent granted, requesting again, in the order of
the code; a round of the clock ends when every node has done so and what was
sent has been delivered or lost. `Find` is `findUnicastGrants()`, with the index
by hash, the search for identity or address and the first free slot.
`HandleRequest`, `HandleGrant`, `HandleCancel` and `HandleAck` are the handlers
of the TLVs; a signal with several TLVs is several messages. The timing messages
themselves are `HearTiming`, `HearAnnounce` and `Answers`: what matters of them
is that they mark a grant as receiving, or show the slave a parent.
`Disturbance` has loss, ports that leave their state, restarts, initialisation
and a reload of the destinations.

`UnicastLease` is the abstract promise: a master offers only what it serves, a
slave relies only on what it was offered, and a master withdraws its service only
when nobody relies on it or may come to. It excuses configurations in which
masters fail, slaves outnumber slots, or a slave has several masters.
`ImplementsLease` maps the tables of both sides to these sets.

The types of message that can be requested are one to three per configuration;
their intervals only matter as accepted or refused; peer delay grants are left
out. All nodes have one grant duration (30 seconds or more) and one longest
interval, and slaves ask for what they have, so that a master never cuts down what
it grants, nor is asked for a duration of zero. `EXPIRY`, `GRACE` and the duration keep the order they have in the code
(the slave asks again before it expires, the master keeps the slot longer).

### TimingDomain and ClockControl

`TimingDomain` is `timingDomainUpdate()` with its three passes, as functions
from a record of the domain to the next one, in the order of the code; the PTP
service offers what the servo put in `clockControl`, the NTP service what ntpd
answers over its socket. ntpd is a process that is silent at times, and is told
to begin or stop to steer. `ClockControl` adds the loop that makes `clockControl`:
any state decision, a Sync with a small, large or very large offset
(`checkOffset()`, `updateClock()`, `stepClock()`), the timers for panic, clock
updates and the leap second pause, which latch their expiry and are asked for
once per iteration, and the timing domain at the end.

The PI controller, calibration, leap smear and the status bits handed to the
kernel are left out.

### Configuration and Management

`Configuration` is the table of settings: for each one the subsystem that has to
be restarted when it changes, which is what `checkSubsystemRestart()` collects.
A value is the default, another one, or out of range. `applyConfig()` has its
four outcomes: refused, unchanged, aborted (a subsystem cannot work with the new
configuration, and the options it touched while checking are left changed), or
committed. `Management` has `handleManagement()`: the loop over TLVs with the copy of
the configuration each one starts from, the table of handlers, the answers that
cannot be sent, and the options that go to `applyConfig()`; then the loop of
`protocol()`, in which `doInit()`, state decisions and a step of the clock take
options into the data sets (the last two by `initClock()`, which `toState()` calls
when SLAVE is entered or left), `restartSubsystems()` restarts what is asked for,
and SIGHUP reads the file. `f ++ g` is `dictionary_merge()`: two dictionaries in one,
the first before the second.
`InForce` compares what each member of the data sets and each subsystem works
with against the options. It excuses the weaknesses the model names one by one
(`Excuse`): settings that wait for a next state change or were overwritten by
what the parent announces are not in force by design or by the observations
below. A message, the TLVs of a message and the files are any the constants
`Messages` and `Files` hold; the assumptions on them are only their types.

### Alarms

One alarm at a time, of five kinds: reported on each pass (PORT_STATE), while a
condition lasts (OFM_SECONDS), by the expiry of a receipt timer (NO_SYNC), by a
failing `doInit()` (NETWORK_FLT), or as an event (MASTER_CHANGE). The others
behave like one of these (DELAY like NO_SYNC; FAST_ADJ, DOMAIN_MISMATCH and
OFM_THRESHOLD like OFM_SECONDS; CLOCK_STEP and TIMEPROP like MASTER_CHANGE).
`setAlarmCondition()` and `updateAlarms()` are translated flag by flag; the loop
around them reports conditions where the code does. `trouble` is what the alarm
is about, `quiet` (history) how long its condition has been unset. An update of
the alarms is assumed to fall between a failed `doInit()` and its retry ten
seconds later, and a master that is not silent to send a Sync before the receipt
timer expires. Ages are capped at `MAX_AGE`.

## Runs

| run | instance | what it shows |
|---|---|---|
| `foreign_masters` | 4 masters, 3 slots, 2 ranks | `addForeign()` finds every master it knows, stores none twice, spares the best one |
| `port` | the usual roles (default, slave-only, slave-only with grace period, P2P grandmaster) with 2 masters and better or worse data than ours; the disturbed ones (grace period, P2P grandmaster, grandmaster that ignores announces, slave with backup interface and clock update timeout) with 1 master and everything that can fail | data sets, decision, records and timers agree; the null pointer of the grace period is followed only behind a fault or INITIALIZE in the same iteration; refinement of `ForeignMasters` |
| `port_liveness` | 2 masters, four roles, one of them with a `netInit()` that fails | a silent master is left, a silent network noticed, fail-over, also through a network that has to be initialised again |
| `disqualified_loses` | a slave with a grace period and 2 masters | expected to fail, see Findings |
| `slave_exchanges` | a slave that measures the delay peer to peer: 3 masters, two of them two-step; 6 ids, 2 discarded Syncs, 3 Syncs without Follow_Up; and one that does so end to end, with 2 of the masters and 2 ids of Syncs | a Follow_Up completes the recorded Sync, offsets recover, ids grow; the two times of a mean path delay belong together, an offset precedes it |
| `unicast` | a slave and a master, 1 to 3 types; 6 combinations of loss, restarts, reloads, failing masters | refinement of `UnicastLease`; a slave that keeps asking is served again |
| `unicast_contention` | 2 slaves for one master with 1 or 2 slots; a slave of 2 masters | one slot per node; no slot is given away under a grant |
| `follow_ups` | 2 ports, or 3 where it matters, with 8 combinations of faults; 3 destinations, 2 hashes | a mean path delay is of one exchange and is measured again and again; Follow_Ups of a unicast master arrive where their Syncs went |
| `clock_control` | 11 configurations of the engine, panic mode, steps and leap seconds | PTP and ntpd do not both steer; the right one takes over; no step before a whole panic, but one in the end; a paused slave resumes |
| `management` | messages of every kind, 6 configuration files, 2 messages or reloads in a behaviour | what the options say is in force; DISABLE_PORT and ENABLE_PORT are obeyed |
| `separate_tlvs` | the same | expected to fail, see Findings |
| `alarms` | 5 kinds of alarms, minimum ages 1 and 2, disabled and delayed ones | an alarm shows its condition, does not flap, is raised and cancelled in the end |

### Bounds

- `foreign_masters`: four masters and three slots make records be evicted, the
  insertion index wrap, and the best slot be skipped at every position; the
  theorems cover every size.
- `port`: two masters suffice for every relation between the parent, the best
  record and another master, since the properties relate at most two. The
  disturbed roles have one, because there the question is the port, not the
  choice. The counters `listenCount` and `announceTimeouts` are bounded by the
  code itself (`maxListen` is 2 or 1 and the grace period 1). There is no deadlock
  check because following the null pointer ends the program.
- `slave_exchanges`: sequence ids are 16 bits wide in the code and `2 * Half` here;
  six ids tell the recorded one, the next, an earlier, a later and the two ends
  apart. `MAX_FOLLOWUP_GAP` is 3 as in the code; `MAX_SEQ_ERRORS` is 50 in the code
  and 2 here, where it only counts how long Syncs are discarded. A slave has one
  delay mechanism (`delayMechanism`). With the peer delay, which `PeerDelay` has, the
  Sync exchange is alone (`P2PNext`). End to end (`E2ENext`) the delay requests run
  beside it; the Syncs then come from two of the masters with two ids and are not
  checked, since of them the delay requests only see that an offset was computed.
  Follow_Ups may stay away there as well, but the eventual part of the properties
  is about the other branch: `lossy` and sequence checking are off.
  `followUpGap` is counted up to the limit it is compared with (`NextGap`), and a
  looped copy is read before three further requests (`Loop`).
- `port_liveness`, `disqualified_loses`: two masters of equal rank that the identity
  tells apart; the violation needs no more than one to fall silent for one receipt
  timeout while the other is heard. One role of `port_liveness` has a `maxListen` of 1,
  so that it restarts its network often, and a `netInit()` that may fail each time.
- `unicast`, `unicast_contention`: times are in refreshes. A grant of two with
  `EXPIRY` 1 and `GRACE` 2 expires, is asked for again before, and is kept by the
  master after; `GRANT_KEEPALIVE_INTERVAL` and `GRANT_CANCEL_ACK_TIMEOUT` are 2. The
  identities share a hash or not, in different configurations. The second run has
  the combinations that need more nodes than a slot table holds, one of them
  with two types, so that the grants in a slot end at different times.
- `follow_ups`: ids modulo `MODULUS` = 3, with messages that live for one further
  request; three destinations and two hashes make two Syncs of a round collide
  and a third one be found by searching.
- `clock_control`: a hold time of two updates of the timing domain, an election
  delay of one or two and an idle timeout of one let each run out before or after
  the others; a panic of one minute is six expiries of its timer, as in the code.
- `management`: `MAX_CHANGES` = 2: two messages or reloads meet in the main loop
  in every order, so that the options of one meet the restart flags of the other;
  what longer sequences do to `InForce` is proved, not run. Among the messages is one
  that enables a port and loses the request to initialise it.
- `alarms`: `RECEIPT_TIME` 2 and `MAX_AGE` 3 with minimum ages 1 and 2: an age below,
  at and above the minimum, and a minimum below and at the receipt timeout. Only
  with the second does NO_SYNC stay raised (`TroubleIsRaised`).

### Fairness

`protocol()` is an endless loop without a blocking wait longer than a timer, so
the disjunction of its steps is weakly fair in every module (`Program`, `LoopRuns`,
`Loop`); a timer that keeps running expires, so each expiry is weakly fair. Weak
fairness says nothing of a timer that is restarted before it expires. The rest
is about the surroundings, and stands in the fairness or in the hypothesis of the
property it is needed for:

- `port_liveness`: nothing of the peers but `Silent(m)` (m is not heard any more)
  and, in `FailsOver`, strong fairness of the arrival of announces of the one master
  left and of the success of `doInit()`: a network that never initialises again
  leaves the port FAULTY for good, as it should. That the port tries again is the
  program's part, and is not assumed.
- `OffsetsRecover`: the port goes on receiving Syncs of its parent (weakly fair,
  whatever their ids are); a Follow_Up that is not lost arrives again and again,
  and the servo does not suppress all samples (both strongly fair: the Follow_Up is
  expected only between two Syncs). Its hypothesis is that the port in the end
  stays a slave of one master and that Follow_Ups are in the end no longer lost.
  Nothing is assumed of which ids come, so the sequence check and the gap must let
  the exchange go on by themselves.
- `ServedAgain`: a request, a grant and a refusal of each type gets through again
  and again (strong fairness of its delivery), failed masters come back, and the
  hypothesis is that disturbances end; loss need not end.
- `MeasuresAgain`: a port outside LISTENING sends its requests (a timer), and
  what is in its sockets is read. Its hypotheses are that disturbances end and that
  an answer is not slower than the next request.
- `NtpTakesControl`, `PtpTakesControl`, `LargeOffsetIsStepped`, `SlaveResumes`: the loop
  and the timers only; what ntpd, the master and the port do is in the hypotheses.
- `alarms`: Syncs of a master that is not silent are received again and again.

### Findings

- `disqualified_loses`: the mark of a master that timed out says "if true, this one
  always loses" (`ptp_datatypes.h:521`), and the grace period "just disqualify
  current GM. If another live master exists, it will be selected"
  (`protocol.c:867`), but `bmcDataSetComparison()` has the sign the other way round
  (`bmc.c:498`): a disqualified record wins. When the master a slave follows falls
  silent while another is heard, the next decision selects the silent one again,
  whatever the two announce, and the port gets away from it only by the reset after
  the grace period. `Better` is the order of the code and `Outranks` the one of the
  comments. With the sign the comments ask for, `DisqualifiedLoses` holds in the
  same instance. `DecisionIsCurrent` uses the order of the comments as well; it
  says nothing of a port while the master it follows is disqualified.
- `separate_tlvs`: "loop over all supported TLVs as if they came in separate
  messages" (`management.c:131`), but each SET, RESPONSE or COMMAND TLV starts from a
  new copy of the configuration (`management.c:178`) and only the last copy is
  applied: a DISABLE_PORT before another command is confirmed and lost.

### Observations

Behaviour met while modelling that the models have, and that the properties excuse
where they would fail for it. Where a property is named, it holds nevertheless, with
the premise or the excuse that is stated there.

Port and timing messages:

- The grace period follows `bestMaster` (`protocol.c:872`) although it is null when a
  fault or an INITIALIZE message came earlier in the iteration. That it is null
  then only is `CrashesOnlyInTransit`.
- A delay request whose timer had latched its expiry is still sent in LISTENING
  (`protocol.c:957`, against the comment at 520), and re-arms its timer.
- The reset at `protocol.c:892` leaves a pending state decision behind, which may
  select a record the reset had dropped.
- After an unanswered request, with looped copies or a stamp that failed, a
  response may be taken for the next one and be paired with the send time of the
  unanswered request (`protocol.c:2320`); with kernel time stamps it cannot, which is
  `TimestampIsOfLastRequest`.
- The sequence check does not wrap: its half-window term never rejects anything
  the other term accepts, so when the Sync with id 65535 is lost those that
  follow are discarded until the limit of 50, and right after 65535 anything is
  accepted (theorem `SequenceCheck`).
- A change of the parent within SLAVE resets nothing, so a Follow_Up of the new
  parent with the recorded id completes the Sync of the old one; `OffsetsRecover`
  shows that such an offset does not last.
- A peer delay Follow_Up that overtakes the first answer is accepted for the
  initial id 0. A one-step master's Sync clears `twoStepFlag`, after which a port
  with kernel stamps answers as one-step and sends a Follow_Up as well. A PASSIVE
  port asks its peer and ignores every answer. On a segment of more than two
  ports, Follow_Ups of other exchanges with the same id are accepted.
- The third Sync of a round with one hash may have its Follow_Up sent to another
  destination (`protocol.c:124`).

Unicast:

- The search for a master that is not in the table returns the first free slot
  (`signaling.c:156`), so its Announce is accepted under a grant that is not its own.
- With a full table, a request is answered with a duration that was never set
  (about `signaling.c:330`), and an acknowledgement follows a null pointer.
- A lost acknowledgement of a cancellation makes a slave ask its former master
  for Sync again; a late one ends a live grant; two changes of the parent within a
  second overwrite `previousGrants`. A slot that is used again inherits the grants
  of the node before.

Clock:

- PTP that goes FAULTY in HOLD is deposed without being released: until the hold
  time is over, both steer (`ExclusiveControl` starts after it). A lost answer to
  the release leaves NTP marked as in control while ntpd is stopped.
- A panic whose last expiry was latched after the timer was stopped is taken as
  over when the next one begins, so that the clock is stepped without one
  (`lateTick` in `PanicBeforeStep`). In panic mode the clock is still updated when the
  exit threshold is not met. A forced step does not ask whether PTP has control.
- The leap second pause is lifted only by the iteration that finds the expiry: a
  port that becomes MASTER and finds it consumed stays paused (`protocol.c:983`,
  1087). `SlaveResumes` is about slaves.

Management and reload:

- A reload that is aborted leaves options changed: parsing for the comparison
  works on the live options (the servo limit is multiplied again, `dscpValue` shifted
  again), and the CPU core may already be bound. `startup.c:174` assigns where it
  should add, so of two requests to restart before the loop gets to it the first
  is lost: a filter that is then enabled has no containers, and every sample is
  skipped. Because `restartSubsystems` is unsigned, the failure value -1 restarts
  everything in every iteration.
- Parameters of the outlier filters are changed without a restart of the filter
  (`daemonconfig.c:1564`), whose containers keep their former size.
- A SET that is out of range is confirmed and then rejected by the parser;
  `slave_only` has no effect, since it is overwritten (`daemonconfig.c:1374`);
  CLOCK_ACCURACY is stored under a key nobody reads, which `parseConfig()` leaves out
  of what `applyConfig()` compares, so that nothing is restarted; a master overwrites it with
  `priority1` (`protocol.c`, `updateDatasets()`). A change of `priority1` reaches a
  port in LISTENING only with its next state change. The answer to a SET of
  UNICAST_NEGOTIATION shows the old value.
- A port that is enabled leaves DISABLED for LISTENING in the pass of the message
  (`protocol.c:1170`) and counts on the restart to initialise it. When the request for
  that restart is lost, because a later TLV of the message replaced it or because
  the options were enabled already, the port goes on with the settings it had when it
  was disabled, whatever was changed in the meantime. `Excuse` names this case.

Alarms:

- NO_SYNC is reported in the iteration in which its timer expires and is unset in
  the next one: with an `alarm_timeout` shorter than the receipt timeout it is
  cancelled and raised again while Syncs are missing, which is why
  `TroubleIsRaised` asks for a minimum age of a receipt timeout. A MASTER reports neither NO_SYNC nor OFM, so what was set
  stays set. The end of NETWORK_FLT is reported once, and missed while alarms are
  disabled.

## Proofs

TLAPS proves the theorems below for every value of the constants that satisfies the
assumptions named in the modules (TLC evaluates these in each run). No proof is
left open. In each module an invariant the run checks is strengthened until it is
inductive, and the proof has one step per action.

`ForeignMasters_proofs`, for every set of masters and ranks and every capacity
above 1:

- `TypeCorrect`: the indices stay in the array. Inductive as it stands.
- `InvariantHolds`: that used slots are heard and distinct is not inductive: a new
  master is written to `InsertSlot`, which is harmless only if that slot is the
  first free one, or the array is full. So `IInv` conjoins both with
  `IndicesFollowCount`.
- `SearchAlwaysCoversUsed`, `UsedAreAlwaysHeard`, `UsedAreAlwaysDistinct`,
  `IndicesAlwaysFollowCount` follow from it. The circular search needs two facts
  about `%` that are proved first (`ModRange`, `ModWrap`).
- `BestIsPreserved`: the action property; it needs only the type invariant and
  that the slot skipped by `InsertSlot` is the best one.

`PtpPort_proofs`, for every set of configurations, surroundings and announces:

- `InvariantHolds`, with its consequences `TypeCorrect` and
  `TimersAlwaysFollowState`: `IInv` is the types, that a step belongs to its case of
  `doState()` (`StepsFollowBranch`), that `bmc()` has handled what was recorded before
  another message is (`DecidedBefore`), and that `bestMaster` is the best record or
  null (`BestIsSelected`).
- `ImplementsRecords`: under `IInv` each step is a step of `ForeignMasters` or leaves
  its variables alone (`StepOfRecords`); `DecidedBefore` is what an Announce needs. By
  it `RecordsInvariant` carries the invariant of `ForeignMasters_proofs` over to the
  port.
- `SecondInvariantHolds` builds on both: who is SLAVE has a best master, a
  slave-only port never serves (`OptionsAssumption`), heard masters are counted, a
  disabled port is not inside `doState()`, and the three properties. To avoid going
  through thirty actions for each, `StepKinds` first sorts the steps by what they do
  to the data sets and the records; `DataSetsAlwaysAgree` then rests on an Announce
  not replacing the best record (`AnnounceKeepsBest`), `DecisionStaysCurrent` on the
  order of data sets being strict and the best record standing above the others in
  it until one is recorded (`BetterIsOrder`, `SelectionStands`), from which the order
  of the comments follows where the best record is not disqualified
  (`DecisionFollows`), and `CrashesNowhereElse` on what
  leads from a SLAVE to a null best master within an iteration.

`DelayExchange_proofs`, for every set of masters, width of the ids and limits. Of the
Sync exchange alone:

- `SequenceCheck`: what the sequence check rejects, from `ModSum`, how a counter
  wraps. `SequencesGrow` follows from it and the types.
- `SyncTypeCorrect`: its interesting conjunct is that `consecutiveSequenceErrors`
  stays within its limit. `FollowUpsComplete`: inductive as it stands, because the
  only step that starts the wait for a Follow_Up writes the id and the receive
  time with it.

Of the slave with its delay requests:

- `ImplementsSyncExchange`: every step of the slave is a step of `SyncExchange`
  or leaves its variables alone (`DelayStepIsSyncStep`: a delay sample that resets
  the port is a `LeaveSlave`), so the theorems above hold of the slave as well.
- `InvariantHolds`: `TimestampIsOfLastRequest` needs the range of
  `sentDelayReqSequenceId`, to know that the id of the next request minus one,
  both modulo the width, is the request just sent (`LastOfNext`).
  `DelayNeedsOffset` is not inductive: `offsetFirstUpdated` has to mean that there
  is an offset. `IInv` conjoins both facts. `TimestampsMatch` and `DelaysNeedOffset`
  are its consequences.
- `TypeCorrect`: the types, from those of `SyncExchange` and of the delay variables.

`ClockControl_proofs`, for every set of configurations whose panic lasts at least a
minute, and any two distinct services:

- `PanicInvariant`: while panic lasts, the expiries met and the time left make up
  the whole panic, so that all of it has passed when it is over; an expiry found
  while there is no panic was left by the last one; the timer runs for a panic only.
  Each step keeps, ends or enters the panic, or is its check (`PanicEnds`,
  `PanicChecked`). `StepsFollowPanic` follows.
- `ControlInvariant`: `ExclusiveControl` speaks of the moment after an update, which
  is not enough to go on from. `ControlInv` says that PTP has been granted control
  only with the mark that lets the domain take it away, and that one of the two
  has it. An update first collects who is available and who steers (`FirstPassOfPtp`,
  `FirstPassOfNtp`), then elects: either the deposed service gives up at once, or
  every service that is not the current one gives up, and only the best is given
  control. That there is one best is `SameBest`: the ranks differ, and control is no
  part of them. `OneInControl` puts this together, `ControlIsExclusive` follows.

`UnicastGrants_proofs`, for any number of slaves, masters and slots:

- `TableInvariant`: what makes a slot free is its own time, which a refresh computes
  from the grants before they age. It is zero only when each grant that is there
  expires in the same refresh and is cancelled by it (`NodeTimeCounts`,
  `RefreshedSlot`); a grant that is not there has no time left; and a request that is
  granted raises the slot's time (`RequestKeeps`). `TableInv` conjoins these with the
  identity of a slot being the address it was taken for, which is why a slot found
  by identity or address is not one taken from another node (`FoundSlot`).
- `NothingIsEvicted` follows for every step. It needs the least element of a set of
  numbers (`LeastExists`), which is derived from the well-foundedness of the naturals.
- `SlotsInvariant` and `OneSlotForANode`: that two slots never have the same address
  is not inductive, because a slot is also found by identity, through the index or
  because it is free. `SlotsInv` adds that a signal in flight goes between a slave
  and one of its configured masters (`Linked`), so that a slave always finds the
  slot of its configuration (`FoundPeer`) and never takes a free one; that the slots of
  a slave keep the addresses of its configuration (`SlavesOK`); that a master's slot
  in use is of a slave of its own, and that a cancelled grant has no time left
  (`MastersOK`); and that parents and index entries point into the table. Each step
  is sorted by what it leaves of the tables (`StepOfSlots`: of each grant of a slave
  no more than there was, unless its master has just sent it), the network
  (`StepOfNet`), the index and the parents. `OneSlotPerNode` is stated of slaves
  that are configured with a master once (`ListedOnce`): `parseUnicastConfig()`
  accepts the same address twice.

The refinement, on top of these, for every duration of a grant of `EXPIRY` or
more, `EXPIRY` of 1 or more and `GRACE` of 2 or more (`GraceAssumption`; the code has
30 seconds or more, 5 and 10):

- `LeaseInvariant`: that a master serves what a slave relies on says nothing of how
  long. `LinkOK` relates the two counts of rounds. What a slave holds for `n`
  rounds, its master serves for `GRACE - 1` rounds more, one more if the slave has
  had its refresh of this round and one less if the master has (`Backed`); for `n`
  below `EXPIRY` it counts as `EXPIRY`, since the slave asks again by then. A
  grant on its way is backed for its whole duration. For this there must be at most
  one question or answer in flight for a type, sent in this round by a slave that
  has been refreshed (the two are a `Token`), and a cancellation or its
  acknowledgment in flight means that there is none. A master has a slot for each
  slave by counting them (`FoundRequester`, a pigeonhole argument), so that the
  answer without a slot and the acknowledgment without one do not happen.
- `KeepsThePromise`: every step of the nodes is a step of `UnicastLease` or leaves
  its variables alone. A slave comes to rely only on a grant that was in flight
  (`RelyStep`); a master serves what it has just offered (`OfferStep`); and a step
  that changes a master's table changes no slave's and takes no grant out of the
  network (`MasterAlone`), so that what was relied on or offered still is, and is
  served by the invariant of the next state (`WithdrawStep`).

`Alarms_proofs`, for every minimum age, receipt timeout and initial delay:

- `InvariantHolds`: the types, that the age of an alarm bounds the updates since
  trouble was last reported, and that the state follows a condition once an update
  has seen it. `ConditionsAreShown` is one of its conjuncts, `NeverFlaps` an action
  property that follows from the second.

`FollowUps_proofs`, for any finite set of ports, any faults and ids of any width
from 2, and for any number of destinations and hashes:

- `TypeCorrect`: the types of the peer delay mechanism.
- `ExchangeInvariant`: a mean path delay uses what six events stored at different
  times, so `OneExchange` says nothing of what the next event will add to. `Exchange`
  says of each stored value when it is of the last request: `t1` once the send time
  is known, and then no copy of an older request is left in the queue (`SendTimes`,
  `RequestsInOrder`); what came with the Resp as soon as its id is the recorded one
  (`RespTimes`); the correction of the request because `PdelayReqHeader` still is that
  request when the looped back Resp is read, for which no other request of the peer
  may be on its way (`Headers`, `Corrections`). That needs the link to keep the order
  of requests (`InOrder`), the other end of a link of two ports to be the only one who
  asks (`OneOther`, `Routed`), and that a new request finds nothing left of the one
  that had its id. `IdArithmetic` is what the proof knows of `%`. `OneExchangeAlways`
  follows.
- `SyncInvariant`: every copy of a Sync still to be read is the only one of its
  destination in this round, and either its index entry has its destination or the
  entry is empty and the search has its time (`Findable`). An entry that is cleared
  by one copy is of no use to another, since two destinations of one hash left it
  empty (`IndexOf`). `FollowUpsAlwaysArrive` follows.

`Management_proofs`, for every set of messages with any number of TLVs each, every
set of configuration files and any number of changes:

- `ManagementInvariant`: `InForce` speaks of the moments at which nothing is left to
  restart. `IInv` says for all times that a setting of a subsystem, or of the data
  sets of a port that operates and is not about to be initialised, is what its
  option is, or its restart is still to come (`requested`), or it is excused
  (`Settled`). `RequestsStand` says that whatever is still to come has its flag set,
  so that nothing is when there is no flag; `OptionsStand` that the options are what
  the configuration says. `SettledStep` is the argument all steps share: a setting
  stays settled when it changes only with its option, and what loses its request is
  excused. A restart takes each setting by its flag (`MemberFlags`, from the table of
  `Configuration`). Whatever a message does to data sets and options has to fit
  together: a handler stores the values it sets, or only sets, or only stores
  (`SoundHandler`, proved of every handler by `TablesSound`), so that a message of
  one TLV gives a setting the value of its new option (`HandleOneTLV`), and its
  configuration is never aborted half-way, since it changes nothing that needs a new
  interface or processor core (`Manageable`). Of messages of several TLVs this is
  false, which is the finding above; they excuse what they set.
- The loop over the TLVs is a recursive function. That it has a value, and one of the
  right type, is proved by the least number of TLVs for which it would not
  (`ChainExists`, `AfterType`), from the well-foundedness of the naturals.
- `InForceAlways` and `TypeCorrect` follow.

Every invariant and every action property of the passing runs, and both
refinements, are covered by these theorems. Only model-checked is liveness
(fairness and ENABLED are out of the prover's reach).

## Not modelled

- Statistics, the outlier filter, the PI controller, calibration and leap smear
  are floating point computations; the models have the samples they accept or
  reject.
- Access lists, message packing and unpacking, and time arithmetic are functions
  without state. No property here is about an amount of time or the layout of a
  message.
- SNMP, displays, event and alarm messages to a handler only read what the others
  keep. System services (clock, logs, lock and drift files) are the surroundings.
- Network input and output are the failures and time stamps its callers react to.
- The syntax of configuration files and of the command line. What a value of a
  setting does is in `Configuration`.
- `eventtimer_itimer.c`, the timer variant for systems without POSIX timers, whose
  handler counts ticks that the main loop zeroes.
- Slaves that hear several domains, local preferences and the comparison of data
  sets field by field; peer delay grants; a master's intervals.
- `apps`, scripts, tools and build files.
