---------------------------- MODULE SyncExchange ----------------------------
(***************************************************************************)
(* Sync and Follow_Up at a slave: handleSync() and handleFollowUp()        *)
(* (protocol.c) with what updateOffset() and initClock() (servo.c) keep of *)
(* them.                                                                   *)
(*                                                                         *)
(* The network loses, duplicates, delays and reorders, and a master may    *)
(* restart: a message with any id may arrive from any master at any time.  *)
(* Messages that are not from the current parent, and those that arrive    *)
(* while the port is not a slave, are only counted; they have no action.   *)
(* Left out: an operator that clears the counters, with                    *)
(* consecutiveSequenceErrors among them.                                   *)
(***************************************************************************)
EXTENDS Integers

CONSTANTS
  Masters,
  TwoStepMasters,      \* those that send the time of a Sync in a Follow_Up
  Half,                \* half the number of sequence ids, 32768
  MAX_SEQ_ERRORS,      \* discarded Syncs in a row, 50
  MAX_FOLLOWUP_GAP     \* Syncs without a Follow_Up, 3

ASSUME MastersAssumption == TwoStepMasters \subseteq Masters
ASSUME HalfAssumption    == Half \in Nat \ {0}
ASSUME LimitsAssumption  == MAX_SEQ_ERRORS \in Nat /\ MAX_FOLLOWUP_GAP \in Nat \ {0}

VARIABLES
  slave,                      \* portDS.portState is PTP_SLAVE
  parent,                     \* parentDS.parentPortIdentity
  syncSequenceChecking,       \* rtOpts->syncSequenceChecking
  syncWaiting,                \* the first Sync of this stay in SLAVE is awaited
  recvSyncSequenceId,
  consecutiveSequenceErrors,
  waitingForFollow,
  followUpGap,                \* counted up to MAX_FOLLOWUP_GAP, see NextGap
  syncOf,                     \* the Sync sync_receive_time is of, if of this stay
  offsetFirstUpdated,
  delayMS,                    \* what delayMS was computed from, or NoDelay
  lossy,                      \* the network loses Follow_Ups at present
  followUpLost                \* and has lost the one of the recorded Sync

portVars == <<slave, parent, syncSequenceChecking>>
seqVars  == <<syncWaiting, recvSyncSequenceId, consecutiveSequenceErrors>>
waitVars == <<waitingForFollow, followUpGap, syncOf, followUpLost>>
servoVars == <<offsetFirstUpdated, delayMS>>
syncVars == <<portVars, seqVars, waitVars, servoVars, lossy>>

Ids == 0 .. 2 * Half - 1
Wrap(n) == n % (2 * Half)

NoSync  == [master |-> {}, id |-> 0]
NoDelay == [origin |-> {}, receipt |-> {}]

SyncTypeOK ==
  /\ slave \in BOOLEAN
  /\ parent \in Masters
  /\ syncSequenceChecking \in BOOLEAN
  /\ syncWaiting \in BOOLEAN
  /\ recvSyncSequenceId \in Ids
  /\ consecutiveSequenceErrors \in 0 .. MAX_SEQ_ERRORS
  /\ waitingForFollow \in BOOLEAN
  /\ followUpGap \in 0 .. MAX_FOLLOWUP_GAP
  /\ syncOf \in [master : SUBSET Masters, id : Ids]
  /\ offsetFirstUpdated \in BOOLEAN
  /\ delayMS \in [origin : SUBSET Masters, receipt : SUBSET Masters]
  /\ lossy \in BOOLEAN /\ followUpLost \in BOOLEAN

SyncInit ==
  /\ slave = FALSE
  /\ parent \in Masters
  /\ syncSequenceChecking \in BOOLEAN
  /\ syncWaiting = FALSE
  /\ recvSyncSequenceId = 0 /\ consecutiveSequenceErrors = 0
  /\ waitingForFollow = FALSE /\ followUpGap = 0 /\ syncOf = NoSync
  /\ offsetFirstUpdated = FALSE /\ delayMS = NoDelay
  /\ lossy \in BOOLEAN /\ followUpLost = FALSE

-----------------------------------------------------------------------------
(* The port, see PtpPort.                                                  *)
ClearsOffset == offsetFirstUpdated' = FALSE /\ delayMS' = NoDelay

(* Entering SLAVE forgets the Sync that was waited with.                   *)
ResetsWait ==
  /\ waitingForFollow' = FALSE /\ followUpGap' = 0
  /\ syncOf' = NoSync /\ followUpLost' = FALSE

BecomeSlave(m) ==
  /\ ~slave /\ slave' = TRUE /\ parent' = m
  /\ syncWaiting' = TRUE
  /\ ResetsWait /\ ClearsOffset
  /\ UNCHANGED <<syncSequenceChecking, recvSyncSequenceId,
                 consecutiveSequenceErrors, lossy>>

(* toState() clears the offset on leaving SLAVE as well; INITIALIZE, which *)
(* sets the state without it, does not.                                    *)
LeaveSlave ==
  /\ slave /\ slave' = FALSE
  /\ ClearsOffset
  /\ UNCHANGED <<parent, syncSequenceChecking, seqVars, waitVars, lossy>>

HandleInitialize ==
  /\ slave /\ slave' = FALSE
  /\ UNCHANGED <<parent, syncSequenceChecking, seqVars, waitVars, servoVars, lossy>>

(* bmc() selects another master: a slave remains a slave, toState() is not *)
(* called and nothing is reset.                                            *)
ChangeParent(m) ==
  /\ slave /\ m # parent
  /\ parent' = m
  /\ UNCHANGED <<slave, syncSequenceChecking, seqVars, waitVars, servoVars, lossy>>

-----------------------------------------------------------------------------
(* updateOffset(), checkOffset() and updateClock() on the Sync whose send  *)
(* time m has sent: the sample is used; or a filter or a leap second       *)
(* suppresses it; or too many samples above maxDelay, or a step of the     *)
(* clock, make the port leave SLAVE.                                       *)
Outcomes == {"used", "suppressed", "reset"}

UpdateOffset(m, receipt, outcome) ==
  /\ slave' = (outcome \in {"used", "suppressed"})
  /\ CASE outcome = "used"       -> /\ offsetFirstUpdated' = TRUE
                                    /\ delayMS' = [origin |-> {m}, receipt |-> receipt]
       [] outcome = "suppressed" -> UNCHANGED servoVars
       [] OTHER                  -> ClearsOffset

-----------------------------------------------------------------------------
(* handleSync() of the current parent.                                     *)
\* A bug: the ids of the upper half are not compared.
OutOfSequence_LowerHalf(i) == Wrap(recvSyncSequenceId + Half) > i + (Half - 1)

OutOfSequence(i) ==
  \/ Wrap(recvSyncSequenceId + Half) > i + (Half - 1)
  \/ Wrap(recvSyncSequenceId + 1) > i

(* The first Sync and, after MAX_SEQ_ERRORS discarded ones, the next are   *)
(* not checked.                                                            *)
Discards(i) ==
  /\ ~syncWaiting /\ syncSequenceChecking
  /\ consecutiveSequenceErrors < MAX_SEQ_ERRORS
  /\ OutOfSequence(i)

DiscardSync(i) ==
  /\ slave /\ Discards(i)
  /\ consecutiveSequenceErrors' = consecutiveSequenceErrors + 1
  /\ UNCHANGED <<portVars, syncWaiting, recvSyncSequenceId, waitVars, servoVars, lossy>>

AcceptSync(i) ==
  /\ slave /\ ~Discards(i)
  /\ syncWaiting' = FALSE
  /\ consecutiveSequenceErrors' = IF syncWaiting \/ ~syncSequenceChecking
                                    THEN consecutiveSequenceErrors ELSE 0
  /\ UNCHANGED <<parent, syncSequenceChecking, lossy>>

(* The gap is only compared with MAX_FOLLOWUP_GAP, so that it need not be  *)
(* counted any further.                                                    *)
NextGap == IF followUpGap < MAX_FOLLOWUP_GAP THEN followUpGap + 1 ELSE followUpGap

\* A bug: the wait for one Follow_Up is not bounded.
KeepsWaiting_Always == waitingForFollow

KeepsWaiting == waitingForFollow /\ NextGap < MAX_FOLLOWUP_GAP

\* A bug: the id is recorded although the time of the Sync is not.
SkipSync_Records(i) ==
  /\ parent \in TwoStepMasters
  /\ AcceptSync(i) /\ KeepsWaiting
  /\ followUpGap' = NextGap
  /\ recvSyncSequenceId' = i
  /\ UNCHANGED <<slave, waitingForFollow, syncOf, followUpLost, servoVars>>

(* A two-step Sync while the Follow_Up of an earlier one is awaited.       *)
SkipSync(i) ==
  /\ parent \in TwoStepMasters
  /\ AcceptSync(i) /\ KeepsWaiting
  /\ followUpGap' = NextGap
  /\ UNCHANGED <<slave, recvSyncSequenceId, waitingForFollow, syncOf, followUpLost,
                 servoVars>>

RecordSync(i) ==
  /\ parent \in TwoStepMasters
  /\ AcceptSync(i) /\ ~KeepsWaiting
  /\ followUpGap' = IF waitingForFollow THEN NextGap ELSE followUpGap
  /\ recvSyncSequenceId' = i
  /\ syncOf' = [master |-> {parent}, id |-> i]
  /\ waitingForFollow' = TRUE
  /\ followUpLost' \in (IF lossy THEN BOOLEAN ELSE {FALSE})
  /\ UNCHANGED <<slave, servoVars>>

OneStepSync(i, outcome) ==
  /\ parent \notin TwoStepMasters
  /\ AcceptSync(i)
  /\ recvSyncSequenceId' = i
  /\ syncOf' = [master |-> {parent}, id |-> i]
  /\ waitingForFollow' = FALSE
  /\ UpdateOffset(parent, {parent}, outcome)
  /\ UNCHANGED <<followUpGap, followUpLost>>

HandleSync(i) ==
  \/ DiscardSync(i) \/ SkipSync(i) \/ RecordSync(i)
  \/ \E outcome \in Outcomes : OneStepSync(i, outcome)

-----------------------------------------------------------------------------
(* handleFollowUp() of the current parent; one with another id, or one     *)
(* that is not waited for, is only counted.                                *)
HandleFollowUp(i, outcome) ==
  /\ slave /\ parent \in TwoStepMasters
  /\ waitingForFollow /\ i = recvSyncSequenceId
  /\ waitingForFollow' = FALSE /\ followUpGap' = 0
  /\ UpdateOffset(parent, syncOf.master, outcome)
  /\ UNCHANGED <<parent, syncSequenceChecking, seqVars, syncOf, followUpLost, lossy>>

(* The network gets better or worse.                                       *)
ChangeLoss ==
  /\ lossy' = ~lossy
  /\ UNCHANGED <<portVars, seqVars, waitVars, servoVars>>

SyncStep ==
  \/ \E i \in Ids : HandleSync(i)
  \/ \E i \in Ids, outcome \in Outcomes : HandleFollowUp(i, outcome)
  \/ ChangeLoss

SyncNext ==
  \/ SyncStep
  \/ \E m \in Masters : BecomeSlave(m) \/ ChangeParent(m)
  \/ LeaveSlave \/ HandleInitialize

SyncSpec == SyncInit /\ [][SyncNext]_syncVars

(* Syncs of the parent keep arriving, each with any id; Follow_Ups that    *)
(* are not lost arrive, and the servo does not suppress every sample.      *)
FollowUpArrives ==
  \E i \in Ids : ~followUpLost /\ syncOf.master = {parent} /\ HandleFollowUp(i, "used")
SyncFairness ==
  /\ WF_syncVars(slave /\ \E i \in Ids : HandleSync(i))
  /\ SF_syncVars(FollowUpArrives)
  /\ SF_syncVars(\E i \in Ids : OneStepSync(i, "used"))

-----------------------------------------------------------------------------
(* A Follow_Up that is waited for completes the very Sync whose receive    *)
(* time is stored, and one that was received since the port became a       *)
(* slave: recvSyncSequenceId and sync_receive_time go together.            *)
FollowUpCompletesSync ==
  slave /\ waitingForFollow =>
    syncOf.master # {} /\ syncOf.id = recvSyncSequenceId

(* When the port stays the slave of a master and Follow_Ups are no longer  *)
(* lost, it settles on offsets whose two times come from that master, and  *)
(* goes on recording two-step Syncs and completing them.                   *)
Settled(m) == slave /\ parent = m /\ ~lossy
OffsetsRecover ==
  \A m \in Masters :
    <>[]Settled(m) =>
      /\ <>[](delayMS = [origin |-> {m}, receipt |-> {m}])
      /\ m \in TwoStepMasters => []<>waitingForFollow /\ []<>~waitingForFollow

(* "When enabled, Sync messages will only be accepted if sequence ID is    *)
(* increasing": unless the limit of errors is reached, a recorded Sync has *)
(* a higher id than the one before it, or follows the highest id there is. *)
SequenceGrows ==
  [][ /\ slave /\ syncSequenceChecking /\ ~syncWaiting
      /\ consecutiveSequenceErrors < MAX_SEQ_ERRORS
      /\ syncOf' # syncOf
      => syncOf'.id > recvSyncSequenceId \/ recvSyncSequenceId = 2 * Half - 1 ]_syncVars
=============================================================================
