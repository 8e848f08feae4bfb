------------------------------- MODULE PtpPort -------------------------------
(***************************************************************************)
(* The PTP engine of one port: the main loop protocol(), the port state    *)
(* machine toState() / doState(), and the part of handle() that moves it   *)
(* (protocol.c), with the state decision of bmc() (bmc.c).                 *)
(*                                                                         *)
(* One iteration of the loop is a walk of pc through the steps of          *)
(* doState(), because timer expiries are asynchronous (a signal handler    *)
(* latches them) and because a step may call toState() while the remaining *)
(* steps of the iteration still belong to the state the port was in.       *)
(*                                                                         *)
(* Transport is multicast, without unicast negotiation.  Timers that only  *)
(* feed alarms, statistics and displays are left out.                      *)
(***************************************************************************)
EXTENDS Integers

CONSTANTS
  Masters, Qualities, max_foreign_records,  \* see ForeignMasters
  Self,         \* our own clock identity
  OwnQuality,   \* the rank of our own data set
  Configurations,  \* the configurations considered, see Options
  Environment,  \* what the surroundings may do to each of them
  Announces     \* the Announces that each of them may receive

Options ==
  [slaveOnly : BOOLEAN,                   \* and clockClass = 255
   masterClass : BOOLEAN,                 \* clockClass < 128
   disableBMCA : BOOLEAN,
   delayMechanism : {"E2E", "P2P"},
   announceTimeoutGracePeriod : Nat,
   maxListen : Nat \ {0},
   clockUpdateTimeout : BOOLEAN,          \* configured at all
   masterRefresh : BOOLEAN,               \* periodic IGMP refresh as a master
   backupIfaceEnabled : BOOLEAN]

Surroundings ==
  {"fault",       \* sockets, sends and IGMP refreshes may fail
   "netInit",     \* netInit() may fail
   "slaveReset",  \* a sync leads to a clock step or to a reset of the slave
   "management",  \* SET and INITIALIZE management messages arrive
   "reload"}      \* the configuration is re-applied, by SIGHUP or remotely

ASSUME RecordsAssumption ==
  /\ Masters \subseteq Nat \ {0} /\ Qualities \subseteq Nat
  /\ max_foreign_records \in Nat /\ max_foreign_records > 1
ASSUME IdentityAssumption == Self \in Nat \ (Masters \cup {0})
ASSUME QualityAssumption  == OwnQuality \in Nat
ASSUME OptionsAssumption  ==
  \A o \in Configurations : o \in Options /\ ~(o.slaveOnly /\ o.masterClass)
ASSUME EnvironmentAssumption ==
  /\ Environment \in [Configurations -> SUBSET Surroundings]
  /\ Announces \in [Configurations -> SUBSET (Masters \X Qualities)]

VARIABLES
  foreign, number_foreign_records, foreign_record_i, foreign_record_best,
  record_update, heard, dirty,   \* see ForeignMasters
  portState,          \* portDS.portState
  bestMaster,         \* the slot the pointer is to, or NULL
  parentDS,           \* parentPortIdentity, and the rank of the grandmaster's data
  announceTimeouts,   \* timeouts since the last Announce of the parent
  listenCount,        \* restarts of LISTENING in a row
  syncWaiting,        \* the first Sync of the parent is awaited
  rtOpts,             \* the configuration, but for portDisabled
  running, expired,   \* timers that run, timers whose expiry is latched
  disabled,           \* ptpClock->disabled
  portDisabled,       \* rtOpts->portDisabled
  restart,            \* rtOpts->restartSubsystems asks for a protocol restart
  initFailure,        \* the last doInit() failed
  message_activity,   \* toState() ran since doState() was called
  branch,             \* the case of doState() this iteration executes
  pc                  \* the step the loop is at

FM == INSTANCE ForeignMasters

ringVars   == <<foreign, number_foreign_records, foreign_record_i,
                foreign_record_best, record_update, heard, dirty>>
portVars   == <<portState, bestMaster, announceTimeouts, listenCount,
                syncWaiting, message_activity>>
timerVars  == <<running, expired>>
adminVars  == <<rtOpts, disabled, portDisabled, restart, initFailure>>
vars == <<ringVars, portVars, parentDS, timerVars, adminVars, branch, pc>>

NULL == -1

OwnRecord   == [id |-> Self, quality |-> OwnQuality, disqualified |-> FALSE]
ParentOf(r) == [id |-> r.id, quality |-> r.quality]

PortStates == {"INITIALIZING", "FAULTY", "DISABLED", "LISTENING", "MASTER",
               "PASSIVE", "SLAVE"}

Timers == {"ANNOUNCE_RECEIPT", "DELAYREQ_INTERVAL", "PDELAYREQ_INTERVAL",
           "SYNC_INTERVAL", "ANNOUNCE_INTERVAL", "MASTER_NETREFRESH",
           "CLOCK_UPDATE"}

Steps == {"loop", "bmc", "fault", "event", "servo", "general",
          "announceReceipt", "announceTimeout", "clockUpdate", "clockTimeout",
          "delayReq", "issueDelayReq", "issuePdelayReq",
          "announce", "issueAnnounce", "pdelayReq", "refresh", "refreshIGMP",
          "sync", "issueSync", "enabled", "end", "restart", "signals", "crashed"}

TypeOK ==
  /\ FM!TypeOK
  /\ portState \in PortStates
  /\ bestMaster \in FM!Slots \cup {NULL}
  /\ parentDS \in [id : Masters \cup {FM!NoMaster, Self},
                   quality : Qualities \cup {0, OwnQuality}]
  /\ rtOpts \in Configurations
  /\ announceTimeouts \in 0 .. rtOpts.announceTimeoutGracePeriod
  /\ listenCount \in 0 .. rtOpts.maxListen
  /\ syncWaiting \in BOOLEAN /\ initFailure \in BOOLEAN
  /\ message_activity \in BOOLEAN
  /\ running \subseteq Timers
  /\ expired \subseteq Timers
  /\ disabled \in BOOLEAN /\ portDisabled \in BOOLEAN
  /\ restart \in BOOLEAN
  /\ branch \in {"none", "slave", "master", "disabled"}
  /\ pc \in Steps

(* protocol() enters INITIALIZING, or DISABLED when configured so.         *)
Init ==
  /\ FM!Init
  /\ rtOpts \in Configurations
  /\ portDisabled \in (IF "reload" \in Environment[rtOpts] THEN BOOLEAN ELSE {FALSE})
  /\ disabled = portDisabled
  /\ portState = IF disabled THEN "DISABLED" ELSE "INITIALIZING"
  /\ bestMaster = NULL
  /\ parentDS = ParentOf(FM!ZeroRecord)
  /\ announceTimeouts = 0 /\ listenCount = 0
  /\ syncWaiting = FALSE /\ initFailure = FALSE /\ message_activity = FALSE
  /\ running = {} /\ expired = {}
  /\ restart = FALSE
  /\ branch = "none" /\ pc = "loop"

-----------------------------------------------------------------------------
(* Timers: start() clears the latched expiry, stop() does not.             *)
SetTimers(stop, start) ==
  /\ running' = (running \ stop) \cup start
  /\ expired' = expired \ start

StartTimer(t) == SetTimers({}, {t})

(* The signal handler latches an expiry, the timer re-arms itself.         *)
TimerExpires(t) ==
  /\ t \in running \ expired
  /\ expired' = expired \cup {t}
  /\ UNCHANGED <<running, ringVars, portVars, parentDS, adminVars, branch, pc>>

(* A step that asks isExpired(), which reports a latched expiry once.      *)
CheckTimer(at, t, yes, no) ==
  /\ pc = at
  /\ \/ t \in expired /\ expired' = expired \ {t} /\ pc' = yes
     \/ t \notin expired /\ UNCHANGED expired /\ pc' = no
  /\ UNCHANGED <<running, ringVars, portVars, parentDS, adminVars, branch>>

-----------------------------------------------------------------------------
(* The timers toState() stops when it leaves state s, and those it stops   *)
(* and starts when it enters state s.                                      *)
StoppedOnLeaving(s) ==
  CASE s = "MASTER" -> {"SYNC_INTERVAL", "ANNOUNCE_INTERVAL",
                        "PDELAYREQ_INTERVAL", "MASTER_NETREFRESH"}
    [] s = "SLAVE" -> {"ANNOUNCE_RECEIPT", "PDELAYREQ_INTERVAL"} \cup
                      (IF rtOpts.delayMechanism = "E2E"
                       THEN {"DELAYREQ_INTERVAL"} ELSE {})
    [] s = "PASSIVE" -> {"ANNOUNCE_RECEIPT", "PDELAYREQ_INTERVAL"}
    [] s = "LISTENING" -> {"ANNOUNCE_RECEIPT"}
    [] OTHER -> {}

\* A bug: LISTENING trusts the state left to have stopped its timers.
StoppedOnListening_OwnOnly == {"CLOCK_UPDATE"}

StoppedOnListening == Timers \ {"ANNOUNCE_RECEIPT", "MASTER_NETREFRESH"}

StartedOnEntering(s) ==
  CASE s = "MASTER" -> {"SYNC_INTERVAL", "ANNOUNCE_INTERVAL",
                        "PDELAYREQ_INTERVAL"} \cup
                       (IF rtOpts.masterRefresh THEN {"MASTER_NETREFRESH"} ELSE {})
    [] s = "PASSIVE" -> {"PDELAYREQ_INTERVAL", "ANNOUNCE_RECEIPT"}
    [] s = "SLAVE" -> {"ANNOUNCE_RECEIPT"} \cup
                      (IF rtOpts.clockUpdateTimeout THEN {"CLOCK_UPDATE"} ELSE {})
    [] s = "LISTENING" -> {"ANNOUNCE_RECEIPT"}
    [] OTHER -> {}

(* toState(s) of every state but LISTENING; the pointer to the best master *)
(* is b when it is called.                                                 *)
EnterWith(s, b) ==
  /\ portState' = s
  /\ SetTimers(StoppedOnLeaving(portState), StartedOnEntering(s))
  /\ bestMaster' = IF s \in {"DISABLED", "MASTER"} THEN NULL ELSE b
  /\ listenCount' = IF portState = "LISTENING" THEN 0 ELSE listenCount
  /\ announceTimeouts' = IF s = "SLAVE" THEN 0 ELSE announceTimeouts
  /\ syncWaiting' = (s = "SLAVE" \/ syncWaiting)
  /\ message_activity' = TRUE

Enter(s) == EnterWith(s, bestMaster)

\* A bug: restarts of LISTENING are not counted.
RestartsInListening_NotCounted == listenCount

(* toState(PTP_LISTENING): it counts restarts and gives up after maxListen *)
(* of them, and a failed IGMP refresh is a fault.                          *)
RestartsInListening ==
  IF portState = "LISTENING" THEN listenCount + 1 ELSE listenCount

GivesUp == portState = "LISTENING" /\ RestartsInListening >= rtOpts.maxListen

ListenFails(b) ==
  /\ GivesUp \/ "fault" \in Environment[rtOpts]
  /\ portState' = "FAULTY"
  /\ SetTimers(StoppedOnLeaving(portState) \cup StoppedOnListening, {})
  /\ listenCount' = IF portState = "LISTENING" THEN 0 ELSE listenCount
  /\ bestMaster' = b
  /\ UNCHANGED announceTimeouts

Listen ==
  /\ ~GivesUp
  /\ portState' = "LISTENING"
  /\ SetTimers(StoppedOnLeaving(portState) \cup StoppedOnListening,
               StartedOnEntering("LISTENING"))
  /\ listenCount' = RestartsInListening
  /\ bestMaster' = NULL
  /\ announceTimeouts' = 0

EnterListeningWith(b) ==
  /\ ListenFails(b) \/ Listen
  /\ message_activity' = TRUE
  /\ UNCHANGED syncWaiting

EnterListening == EnterListeningWith(bestMaster)

(* A grandmaster that ignores announces goes straight on to MASTER.        *)
IgnoresAnnounces == rtOpts.masterClass /\ rtOpts.disableBMCA

EnterMasterFromListening ==
  /\ portState' = "MASTER"
  /\ SetTimers(StoppedOnLeaving(portState) \cup StoppedOnListening,
               StartedOnEntering("MASTER"))
  /\ bestMaster' = NULL
  /\ listenCount' = IF portState = "LISTENING" THEN 0 ELSE listenCount
  /\ message_activity' = TRUE
  /\ UNCHANGED <<announceTimeouts, syncWaiting>>

(* initClock(), part of leaving and of entering SLAVE, re-reads the option *)
(* the port is disabled by.                                                *)
ReadDisabled ==
  /\ disabled' = IF "SLAVE" \in {portState, portState'} /\ portState' # portState
                 THEN portDisabled ELSE disabled
  /\ UNCHANGED <<rtOpts, portDisabled, restart, initFailure>>

-----------------------------------------------------------------------------
(* The top of protocol()'s loop.  Its second test, for a DISABLED port that *)
(* is not to be disabled, never succeeds: LeaveDisabled comes first.       *)
LoopDisables ==
  /\ pc = "loop" /\ disabled /\ portState # "DISABLED"
  /\ Enter("DISABLED") /\ ReadDisabled
  /\ UNCHANGED <<ringVars, parentDS, branch, pc>>

(* doInit(): initData(), initClock(), m1(), toState(PTP_LISTENING).        *)
DoInit ==
  /\ pc = "loop" /\ ~disabled /\ portState = "INITIALIZING"
  /\ parentDS' = ParentOf(OwnRecord)
  /\ disabled' = portDisabled /\ UNCHANGED <<rtOpts, portDisabled, restart>>
  /\ IF IgnoresAnnounces
     THEN EnterMasterFromListening /\ FM!ClearRecords
     ELSE EnterListeningWith(NULL) /\ FM!InitData
  /\ initFailure' = FALSE
  /\ pc' = "end" /\ UNCHANGED branch

DoInitFails ==
  /\ pc = "loop" /\ ~disabled /\ portState = "INITIALIZING"
  /\ "netInit" \in Environment[rtOpts]
  /\ Enter("FAULTY")
  /\ initFailure' = TRUE /\ UNCHANGED <<rtOpts, disabled, portDisabled, restart>>
  /\ pc' = "end" /\ UNCHANGED <<ringVars, parentDS, branch>>

(* After a failure some iterations pass before the next attempt.           *)
DoInitWaits ==
  /\ pc = "loop" /\ ~disabled /\ portState = "INITIALIZING" /\ initFailure
  /\ pc' = "end"
  /\ UNCHANGED <<ringVars, portVars, parentDS, timerVars, adminVars, branch>>

CallDoState ==
  /\ pc = "loop"
  /\ disabled <=> portState = "DISABLED"
  /\ portState # "INITIALIZING"
  /\ message_activity' = FALSE
  /\ pc' = "bmc"
  /\ UNCHANGED <<ringVars, portState, bestMaster, announceTimeouts,
                 listenCount, syncWaiting, parentDS, timerVars, adminVars, branch>>

-----------------------------------------------------------------------------
(* doState(): the state decision, then the case of the state it leads to.  *)
DispatchOn(s) ==
  /\ branch' = CASE s = "MASTER"   -> "master"
                 [] s = "DISABLED" -> "disabled"
                 [] s = "FAULTY"   -> "none"
                 [] OTHER          -> "slave"
  /\ pc' = CASE s = "MASTER" -> "announce"
             [] s = "FAULTY" -> "fault"
             [] OTHER        -> "event"

\* A bug: a state is missing from those that run bmc().
DecidingStates_NotMaster    == {"LISTENING", "PASSIVE", "SLAVE"}
DecidingStates_NotListening == {"PASSIVE", "SLAVE", "MASTER"}

DecidingStates == {"LISTENING", "PASSIVE", "SLAVE", "MASTER"}

NoDecision ==
  /\ pc = "bmc"
  /\ ~(record_update /\ portState \in DecidingStates)
  /\ DispatchOn(portState)
  /\ UNCHANGED <<ringVars, portVars, parentDS, timerVars, adminVars>>

(* bmcStateDecision() on the record in slot s.                             *)
Decision(s) ==
  CASE rtOpts.slaveOnly -> "SLAVE"
    [] ~rtOpts.slaveOnly /\ number_foreign_records = 0 /\ portState = "LISTENING"
         -> "LISTENING"
    [] OTHER -> IF FM!Better(OwnRecord, foreign[s]) THEN "MASTER"
                ELSE IF rtOpts.masterClass THEN "PASSIVE" ELSE "SLAVE"

(* m1() makes us our own parent, s1() the master decided on.               *)
ParentAfter(d, s) ==
  CASE d = "MASTER"    -> ParentOf(OwnRecord)
    [] d = "LISTENING" -> parentDS
    [] OTHER           -> ParentOf(foreign[s])

MasterAlone ==
  /\ pc = "bmc" /\ record_update
  /\ portState = "MASTER" /\ number_foreign_records = 0
  /\ FM!SelectNone
  /\ parentDS' = ParentOf(OwnRecord)
  /\ DispatchOn(portState)
  /\ UNCHANGED <<portVars, timerVars, adminVars>>

StateDecision ==
  /\ pc = "bmc" /\ record_update /\ portState \in DecidingStates
  /\ ~(portState = "MASTER" /\ number_foreign_records = 0)
  /\ FM!SelectBest
  /\ LET s == foreign_record_best'
         d == Decision(s)
     IN  /\ parentDS' = ParentAfter(d, s)
         /\ \/ /\ d = portState
               /\ bestMaster' = s
               /\ UNCHANGED <<portState, announceTimeouts, listenCount,
                              syncWaiting, message_activity, timerVars>>
            \/ d # portState /\ EnterWith(d, s)
         /\ ReadDisabled
         /\ DispatchOn(d)

FaultCleared ==
  /\ pc = "fault"
  /\ Enter("INITIALIZING") /\ ReadDisabled
  /\ pc' = "end" /\ UNCHANGED <<ringVars, parentDS, branch>>

-----------------------------------------------------------------------------
(* handle(): the event socket, then the general one.  It does not poll the *)
(* sockets when toState() ran earlier in this call of doState().           *)
AfterHandle ==
  pc' = CASE branch = "slave" -> "announceReceipt"
          [] branch = "disabled" -> "enabled"
          [] OTHER -> "end"

Handling == (pc = "event" /\ ~message_activity) \/ pc = "general"

HandleNothing ==
  /\ pc \in {"event", "servo", "general"}
  /\ IF pc = "servo" \/ (pc = "event" /\ ~message_activity)
     THEN pc' = "general"
     ELSE AfterHandle
  /\ UNCHANGED <<ringVars, portVars, parentDS, timerVars, adminVars, branch>>

(* Polling or receiving fails, which ends handle(), or answering does.     *)
HandleFails ==
  /\ Handling /\ "fault" \in Environment[rtOpts]
  /\ Enter("FAULTY") /\ ReadDisabled
  /\ \/ AfterHandle
     \/ /\ pc = "event"
        /\ \/ portState = "MASTER"
           \/ rtOpts.delayMechanism = "P2P" /\ portState \in {"SLAVE", "PASSIVE"}
        /\ pc' = "general"
  /\ UNCHANGED <<ringVars, parentDS, branch>>

(* handleSync() of the parent's Sync starts our delay requests if it is    *)
(* the first one.                                                          *)
HandleSync ==
  /\ pc = "event" /\ ~message_activity
  /\ portState = "SLAVE"
  /\ syncWaiting' = FALSE
  /\ IF syncWaiting
     THEN StartTimer(IF rtOpts.delayMechanism = "E2E"
                     THEN "DELAYREQ_INTERVAL" ELSE "PDELAYREQ_INTERVAL")
     ELSE UNCHANGED timerVars
  /\ pc' = "servo"
  /\ UNCHANGED <<ringVars, portState, bestMaster, announceTimeouts,
                 listenCount, message_activity, parentDS, adminVars, branch>>

(* The servo, run by the Sync, or by a Follow_Up or Delay_Resp on the      *)
(* general socket.                                                         *)
ServoRuns ==
  /\ pc \in {"servo", "general"}
  /\ portState = "SLAVE" /\ ~syncWaiting
  /\ IF pc = "servo" THEN pc' = "general" ELSE AfterHandle

ClockUpdated ==
  /\ ServoRuns
  /\ rtOpts.clockUpdateTimeout
  /\ StartTimer("CLOCK_UPDATE")
  /\ UNCHANGED <<ringVars, portVars, parentDS, adminVars, branch>>

(* It steps the clock, which ends in FAULTY, or this was the last rejected *)
(* sample before a reset of the slave.                                     *)
ServoResets ==
  /\ ServoRuns
  /\ "slaveReset" \in Environment[rtOpts]
  /\ Enter("FAULTY") \/ EnterListening
  /\ ReadDisabled
  /\ UNCHANGED <<ringVars, parentDS, branch>>

-----------------------------------------------------------------------------
(* handleAnnounce(), by the state of the port.                             *)
AnnounceArrives == pc = "general" /\ ~IgnoresAnnounces

\* A bug: only our own data sets are updated.
AnnounceOfParent_KeepsRecord(m, q) ==
  /\ AnnounceArrives
  /\ portState = "SLAVE" /\ m = parentDS.id
  /\ FM!RequestUpdate
  /\ parentDS' = [id |-> m, quality |-> q]
  /\ StartTimer("ANNOUNCE_RECEIPT")
  /\ announceTimeouts' = 0
  /\ AfterHandle
  /\ UNCHANGED <<portState, bestMaster, listenCount, syncWaiting,
                 message_activity, adminVars, branch>>

(* The Announce of a slave's parent updates our data sets and the record   *)
(* of the best master, and holds off the announce receipt timeout.         *)
AnnounceOfParent(m, q) ==
  /\ AnnounceArrives
  /\ portState = "SLAVE" /\ m = parentDS.id /\ bestMaster # NULL
  /\ foreign' = [foreign EXCEPT ![bestMaster].quality = q]
  /\ record_update' = TRUE
  /\ parentDS' = [id |-> m, quality |-> q]
  /\ StartTimer("ANNOUNCE_RECEIPT")
  /\ announceTimeouts' = 0
  /\ AfterHandle
  /\ UNCHANGED <<number_foreign_records, foreign_record_i, foreign_record_best,
                 heard, dirty, portState, bestMaster, listenCount, syncWaiting,
                 message_activity, adminVars, branch>>

(* The Announce of the master a PASSIVE port waits for updates our data    *)
(* sets, but not its record.                                               *)
AnnounceOfActiveMaster(m, q) ==
  /\ AnnounceArrives
  /\ portState = "PASSIVE" /\ m = parentDS.id
  /\ FM!RequestUpdate
  /\ parentDS' = [id |-> m, quality |-> q]
  /\ StartTimer("ANNOUNCE_RECEIPT")
  /\ AfterHandle
  /\ UNCHANGED <<portVars, adminVars, branch>>

\* A bug: the timer is restarted for every master.
AnnounceOfAnother_RestartsTimer(m, q) ==
  /\ AnnounceArrives
  /\ \/ portState \in {"LISTENING", "MASTER"}
     \/ portState \in {"SLAVE", "PASSIVE"} /\ m # parentDS.id
  /\ FM!AddForeign(m, q)
  /\ StartTimer("ANNOUNCE_RECEIPT")
  /\ AfterHandle
  /\ UNCHANGED <<portVars, parentDS, adminVars, branch>>

AnnounceOfAnother(m, q) ==
  /\ AnnounceArrives
  /\ \/ portState \in {"LISTENING", "MASTER"}
     \/ portState \in {"SLAVE", "PASSIVE"} /\ m # parentDS.id
  /\ FM!AddForeign(m, q)
  /\ AfterHandle
  /\ UNCHANGED <<portVars, parentDS, timerVars, adminVars, branch>>

-----------------------------------------------------------------------------
(* Management messages: a SET asks for a state decision (of the attributes *)
(* only those are set that no other part of this module reads, such as the *)
(* intervals), INITIALIZE writes the state without toState(), and messages *)
(* that change the configuration, like DISABLE_PORT and ENABLE_PORT, have  *)
(* it re-applied later; only ENABLE_PORT takes effect at once.             *)
HandleSet ==
  /\ pc = "general" /\ "management" \in Environment[rtOpts]
  /\ FM!RequestUpdate
  /\ AfterHandle
  /\ UNCHANGED <<portVars, parentDS, timerVars, adminVars, branch>>

HandleInitialize ==
  /\ pc = "general" /\ "management" \in Environment[rtOpts]
  /\ portState' = "INITIALIZING"
  /\ AfterHandle
  /\ UNCHANGED <<ringVars, bestMaster, announceTimeouts, listenCount,
                 syncWaiting, message_activity, parentDS, timerVars, adminVars,
                 branch>>

(* applyConfig(): what has to be restarted is computed anew, from the      *)
(* difference to the configuration in force, unless there is none.         *)
ApplyConfig(d) ==
  /\ portDisabled' = d
  /\ restart' \in (IF d # portDisabled THEN {TRUE} ELSE BOOLEAN)

HandleConfig ==
  /\ pc = "general" /\ "reload" \in Environment[rtOpts]
  /\ ApplyConfig(TRUE) \/ ApplyConfig(portDisabled)
  /\ AfterHandle
  /\ UNCHANGED <<ringVars, portVars, parentDS, timerVars, rtOpts, disabled,
                 initFailure, branch>>

HandleEnablePort ==
  /\ pc = "general" /\ "reload" \in Environment[rtOpts]
  /\ ApplyConfig(FALSE)
  /\ disabled' = FALSE
  /\ AfterHandle
  /\ UNCHANGED <<ringVars, portVars, parentDS, timerVars, rtOpts, initFailure,
                 branch>>

Handle ==
  \/ HandleNothing \/ HandleFails \/ HandleSync \/ ClockUpdated \/ ServoResets
  \/ \E m \in Masters, q \in Qualities :
       /\ <<m, q>> \in Announces[rtOpts]
       /\ AnnounceOfParent(m, q) \/ AnnounceOfActiveMaster(m, q) \/ AnnounceOfAnother(m, q)
  \/ HandleSet \/ HandleInitialize \/ HandleConfig \/ HandleEnablePort

-----------------------------------------------------------------------------
(* The timers of LISTENING, PASSIVE and SLAVE, in the order of the code.   *)
CheckAnnounceReceipt ==
  CheckTimer("announceReceipt", "ANNOUNCE_RECEIPT", "announceTimeout", "clockUpdate")

\* A bug: the records are not reset.
TimeoutToMaster_KeepsRecords ==
  /\ pc = "announceTimeout" /\ ~rtOpts.slaveOnly
  /\ parentDS' = ParentOf(OwnRecord)
  /\ Enter("MASTER") /\ ReadDisabled
  /\ pc' = "clockUpdate" /\ UNCHANGED <<ringVars, branch>>

TimeoutToMaster ==
  /\ pc = "announceTimeout" /\ ~rtOpts.slaveOnly
  /\ FM!ClearRecords
  /\ parentDS' = ParentOf(OwnRecord)
  /\ Enter("MASTER") /\ ReadDisabled
  /\ pc' = "clockUpdate" /\ UNCHANGED branch

\* A bug: the grace period does not end; it starts in LISTENING.
InGracePeriod_Endless   == rtOpts.slaveOnly /\ portState # "LISTENING"
InGracePeriod_Listening ==
  rtOpts.slaveOnly /\ announceTimeouts < rtOpts.announceTimeoutGracePeriod

(* A slave-only port disqualifies its master during the grace period.  The *)
(* code follows bestMaster without a test: a null pointer ends the program.*)
InGracePeriod ==
  /\ rtOpts.slaveOnly /\ portState # "LISTENING"
  /\ announceTimeouts < rtOpts.announceTimeoutGracePeriod

TimeoutDisqualifies ==
  /\ pc = "announceTimeout" /\ InGracePeriod
  /\ bestMaster # NULL
  /\ foreign' = [foreign EXCEPT ![bestMaster].disqualified = TRUE]
  /\ \/ /\ announceTimeouts' = announceTimeouts + 1
        /\ pc' = "clockUpdate"
        /\ UNCHANGED <<portState, bestMaster, listenCount, syncWaiting,
                       message_activity, timerVars, adminVars>>
     \/ /\ "fault" \in Environment[rtOpts]
        /\ Enter("FAULTY") /\ ReadDisabled
        /\ pc' = "end"
  /\ UNCHANGED <<number_foreign_records, foreign_record_i, foreign_record_best,
                 record_update, heard, dirty, parentDS, branch>>

TimeoutCrashes ==
  /\ pc = "announceTimeout" /\ InGracePeriod
  /\ bestMaster = NULL
  /\ pc' = "crashed"
  /\ UNCHANGED <<ringVars, portVars, parentDS, timerVars, adminVars, branch>>

TimeoutResets ==
  /\ pc = "announceTimeout" /\ rtOpts.slaveOnly /\ ~InGracePeriod
  /\ LET unset == IF portState = "LISTENING" THEN bestMaster ELSE NULL
     IN  IF rtOpts.backupIfaceEnabled
         THEN EnterWith("INITIALIZING", unset)
         ELSE EnterListeningWith(unset)
  /\ IF portState = "LISTENING" THEN UNCHANGED ringVars ELSE FM!ClearRecords
  /\ ReadDisabled
  /\ pc' = "clockUpdate" /\ UNCHANGED <<parentDS, branch>>

(* "Reset the slave if clock update timeout configured"; in panic mode, or *)
(* when the clock is not adjusted, the timer is only restarted.            *)
CheckClockUpdate ==
  /\ pc = "clockUpdate"
  /\ IF portState = "SLAVE" /\ rtOpts.clockUpdateTimeout
     THEN CheckTimer("clockUpdate", "CLOCK_UPDATE", "clockTimeout", "delayReq")
     ELSE /\ pc' = "delayReq"
          /\ UNCHANGED <<ringVars, portVars, parentDS, timerVars, adminVars,
                         branch>>

ClockTimeoutIgnored ==
  /\ pc = "clockTimeout"
  /\ StartTimer("CLOCK_UPDATE")
  /\ pc' = "delayReq"
  /\ UNCHANGED <<ringVars, portVars, parentDS, adminVars, branch>>

ClockTimeoutResets ==
  /\ pc = "clockTimeout"
  /\ EnterListening /\ ReadDisabled
  /\ pc' = "delayReq"
  /\ UNCHANGED <<ringVars, parentDS, branch>>

CheckDelayReq ==
  IF rtOpts.delayMechanism = "E2E"
  THEN CheckTimer("delayReq", "DELAYREQ_INTERVAL", "issueDelayReq", "end")
  ELSE CheckTimer("delayReq", "PDELAYREQ_INTERVAL", "issuePdelayReq", "end")

-----------------------------------------------------------------------------
(* Sending, from every timer: a failure is a fault, and the steps of this  *)
(* iteration go on.  A Delay_Req re-arms its timer.                        *)
AfterSending ==
  pc' = CASE pc = "issueAnnounce" /\ rtOpts.delayMechanism = "P2P" -> "pdelayReq"
          [] pc = "issueAnnounce" /\ rtOpts.delayMechanism = "E2E" -> "refresh"
          [] pc = "issuePdelayReq" /\ branch = "master" -> "refresh"
          [] pc = "issueSync" -> "event"
          [] OTHER -> "end"

Sending == {"issueDelayReq", "issuePdelayReq", "issueAnnounce", "issueSync"}

Issue ==
  /\ pc \in Sending
  /\ IF pc = "issueDelayReq" THEN StartTimer("DELAYREQ_INTERVAL")
                             ELSE UNCHANGED timerVars
  /\ AfterSending
  /\ UNCHANGED <<ringVars, portVars, parentDS, adminVars, branch>>

IssueFails ==
  /\ pc \in Sending /\ "fault" \in Environment[rtOpts]
  /\ Enter("FAULTY") /\ ReadDisabled
  /\ AfterSending
  /\ UNCHANGED <<ringVars, parentDS, branch>>

(* The timers of MASTER, in the order of the code; then it handles a       *)
(* message.                                                                *)
CheckAnnounce ==
  CheckTimer("announce", "ANNOUNCE_INTERVAL", "issueAnnounce",
             IF rtOpts.delayMechanism = "P2P" THEN "pdelayReq" ELSE "refresh")

CheckPdelayReq ==
  CheckTimer("pdelayReq", "PDELAYREQ_INTERVAL", "issuePdelayReq", "refresh")

CheckRefresh ==
  IF rtOpts.masterRefresh
  THEN CheckTimer("refresh", "MASTER_NETREFRESH", "refreshIGMP", "sync")
  ELSE /\ pc = "refresh" /\ pc' = "sync"
       /\ UNCHANGED <<ringVars, portVars, parentDS, timerVars, adminVars, branch>>

RefreshIGMP ==
  /\ pc = "refreshIGMP"
  /\ \/ /\ pc' = "sync"
        /\ UNCHANGED <<portVars, timerVars, adminVars>>
     \/ /\ "fault" \in Environment[rtOpts]
        /\ Enter("FAULTY") /\ ReadDisabled
        /\ pc' = "end"
  /\ UNCHANGED <<ringVars, parentDS, branch>>

CheckSync == CheckTimer("sync", "SYNC_INTERVAL", "issueSync", "event")

(* A DISABLED port leaves as soon as it is enabled.                        *)
StaysDisabled ==
  /\ pc = "enabled" /\ disabled
  /\ pc' = "end"
  /\ UNCHANGED <<ringVars, portVars, parentDS, timerVars, adminVars, branch>>

LeaveDisabled ==
  /\ pc = "enabled" /\ ~disabled
  /\ IF IgnoresAnnounces
     THEN EnterMasterFromListening /\ FM!ClearRecords /\ parentDS' = ParentOf(OwnRecord)
     ELSE EnterListening /\ UNCHANGED <<ringVars, parentDS>>
  /\ ReadDisabled
  /\ pc' = "end" /\ UNCHANGED branch

-----------------------------------------------------------------------------
(* The rest of protocol()'s loop: a port that is to be disabled is, a      *)
(* changed configuration restarts the protocol, and signals are processed. *)
EndDisables ==
  /\ pc = "end"
  /\ IF disabled /\ portState # "DISABLED"
     THEN Enter("DISABLED") /\ ReadDisabled
     ELSE UNCHANGED <<portVars, timerVars, adminVars>>
  /\ branch' = "none"
  /\ pc' = "restart" /\ UNCHANGED <<ringVars, parentDS>>

RestartSubsystems ==
  /\ pc = "restart"
  /\ IF restart
     THEN /\ disabled' = portDisabled
          /\ Enter(IF portDisabled THEN "DISABLED" ELSE "INITIALIZING")
          /\ restart' = FALSE /\ UNCHANGED <<rtOpts, portDisabled, initFailure>>
     ELSE UNCHANGED <<portVars, timerVars, adminVars>>
  /\ pc' = "signals" /\ UNCHANGED <<ringVars, parentDS, branch>>

NoSignal ==
  /\ pc = "signals"
  /\ pc' = "loop"
  /\ UNCHANGED <<ringVars, portVars, parentDS, timerVars, adminVars, branch>>

SighupReloads ==
  /\ pc = "signals" /\ "reload" \in Environment[rtOpts]
  /\ \E d \in BOOLEAN : ApplyConfig(d)
  /\ pc' = "loop"
  /\ UNCHANGED <<ringVars, portVars, parentDS, timerVars, rtOpts, disabled,
                 initFailure, branch>>

Sigusr1StepsClock ==
  /\ pc = "signals" /\ "slaveReset" \in Environment[rtOpts]
  /\ portState = "SLAVE"
  /\ Enter("FAULTY") /\ ReadDisabled
  /\ pc' = "loop" /\ UNCHANGED <<ringVars, parentDS, branch>>

-----------------------------------------------------------------------------
Program ==
  \/ LoopDisables \/ DoInit \/ DoInitFails \/ DoInitWaits
  \/ CallDoState
  \/ NoDecision \/ MasterAlone \/ StateDecision \/ FaultCleared
  \/ Handle
  \/ CheckAnnounceReceipt \/ TimeoutToMaster \/ TimeoutDisqualifies
  \/ TimeoutResets
  \/ CheckClockUpdate \/ ClockTimeoutIgnored \/ ClockTimeoutResets
  \/ CheckDelayReq \/ Issue \/ IssueFails
  \/ CheckAnnounce \/ CheckPdelayReq \/ CheckRefresh \/ RefreshIGMP \/ CheckSync
  \/ StaysDisabled \/ LeaveDisabled
  \/ EndDisables \/ RestartSubsystems
  \/ NoSignal \/ SighupReloads \/ Sigusr1StepsClock

Next == Program \/ TimeoutCrashes \/ \E t \in Timers : TimerExpires(t)

(* The loop never stops, and a running timer keeps expiring.               *)
Fairness == WF_vars(Program) /\ \A t \in Timers : WF_vars(TimerExpires(t))

Spec == Init /\ [][Next]_vars /\ Fairness

-----------------------------------------------------------------------------
(* Every state that waits for a master has an announce receipt timeout, a  *)
(* MASTER has its Announce and Sync timers, which no other state of an     *)
(* operating port has, and a slave that heard a Sync, or a peer, has the   *)
(* timer of its delay requests, whatever states it came through.           *)
TimersFollowState ==
  /\ portState \in {"LISTENING", "PASSIVE", "SLAVE"}
       => /\ "ANNOUNCE_RECEIPT" \in running
          /\ {"SYNC_INTERVAL", "ANNOUNCE_INTERVAL"} \cap running = {}
  /\ portState = "MASTER" => {"SYNC_INTERVAL", "ANNOUNCE_INTERVAL"} \subseteq running
  /\ rtOpts.delayMechanism = "E2E" /\ portState = "SLAVE" /\ ~syncWaiting
       => "DELAYREQ_INTERVAL" \in running
  /\ rtOpts.delayMechanism = "P2P"
       /\ (portState \in {"MASTER", "PASSIVE"} \/ (portState = "SLAVE" /\ ~syncWaiting))
       => "PDELAYREQ_INTERVAL" \in running

(* A slave of a master heard since the last reset uses, for its parent     *)
(* data set and for the record bmc() compares, the same last Announce of   *)
(* the same master.                                                        *)
DataSetsAgree ==
  portState = "SLAVE" /\ parentDS.id \in heard
    => bestMaster # NULL /\ ParentOf(foreign[bestMaster]) = parentDS

(* The order the comments give: a disqualified master "always loses".      *)
Outranks(a, b) ==
  \/ ~a.disqualified /\ b.disqualified
  \/ a.disqualified = b.disqualified /\ FM!Precedes(a, b)

OutrankedByNone(r) == \A s \in FM!Used : ~Outranks(foreign[s], r)

(* With no state decision pending no master the port knows outranks it as  *)
(* a MASTER, or, while that one is not disqualified, the master it follows *)
(* as SLAVE or PASSIVE.  Until the next decision the port may follow a     *)
(* disqualified one; DisqualifiedLoses is about the decision.              *)
DecisionIsCurrent ==
  LET best == foreign[foreign_record_best] IN
  ~record_update /\ FM!Used # {} =>
    /\ portState = "MASTER" => OutrankedByNone(OwnRecord)
    /\ portState \in {"SLAVE", "PASSIVE"} /\ ~best.disqualified => OutrankedByNone(best)

(* "Don't reset yet - just disqualify current GM.  If another live master  *)
(* exists, it will be selected": whenever bmc() makes the port a slave or  *)
(* leaves it one, the master it selects is outranked by none.              *)
DisqualifiedLoses ==
  [][StateDecision /\ portState' = "SLAVE" =>
       OutrankedByNone(foreign[foreign_record_best'])]_vars

(* A port has a "current GM" in every state in which its grace period       *)
(* disqualifies one: the null pointer of bestMaster is followed only when   *)
(* an earlier step of the same iteration moved the port away, by a fault or *)
(* an INITIALIZE message.                                                   *)
CrashesOnlyInTransit ==
  pc = "crashed" => portState \in {"FAULTY", "INITIALIZING"}

(* The port uses the foreign master data set as ForeignMasters says: an    *)
(* Announce is recorded only after bmc() has handled the one before.       *)
ImplementsForeignMasters == FM!Spec

-----------------------------------------------------------------------------
(* Liveness.  AnnounceFrom(m) is the arrival of an Announce of m that the  *)
(* port takes notice of.                                                   *)
AnnounceFrom(m) ==
  \E q \in Qualities : /\ <<m, q>> \in Announces[rtOpts]
                       /\ \/ AnnounceOfParent(m, q)
                          \/ AnnounceOfActiveMaster(m, q)
                          \/ AnnounceOfAnother(m, q)

Silent(m) == <>[][~AnnounceFrom(m)]_vars

(* "Do not restart timer here: the slave will sit idle if current parent   *)
(* is not announcing, but another GM is": a slave does not stay with a     *)
(* master that fell silent.                                                *)
SilentMasterIsLeft ==
  \A m \in Masters :
    Silent(m) => []<>~(portState = "SLAVE" /\ parentDS.id = m)

(* A slave-only port that hears no master restarts its network transports  *)
(* again and again; any other port becomes MASTER for good.                *)
SilentNetwork ==
  (\A m \in Masters : Silent(m)) =>
    /\ rtOpts.slaveOnly => []<>(portState \in {"FAULTY", "INITIALIZING"})
    /\ ~rtOpts.slaveOnly => <>[](portState = "MASTER")

(* Fail-over: when every other master fell silent and m keeps being heard  *)
(* by a port that listens, a slave-only port keeps coming to m.  Where the *)
(* initialisation of the network may fail it must not do so for ever.      *)
FailsOver ==
  \A m \in Masters :
    /\ \A n \in Masters \ {m} : Silent(n)
    /\ SF_vars(DoInit) /\ SF_vars(AnnounceFrom(m))
    /\ rtOpts.slaveOnly
    => []<>(portState = "SLAVE" /\ parentDS.id = m)
=============================================================================
