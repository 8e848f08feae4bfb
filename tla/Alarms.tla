-------------------------------- MODULE Alarms --------------------------------
(***************************************************************************)
(* Alarms and events (dep/alarms.c), and how the main loop, the port and   *)
(* the servo report the conditions they stand for: at every pass           *)
(* (PORT_STATE), with every offset (OFM_SECONDS), by a timer that expires  *)
(* again and again (NO_SYNC, and NO_DELAY likewise), once at every         *)
(* initialisation of the network (NETWORK_FLT), or as an event that is     *)
(* never reported to be over (MASTER_CHANGE, and the others likewise).     *)
(*                                                                         *)
(* Alarms do not depend on each other: the model follows one of them.      *)
(***************************************************************************)
EXTENDS Integers

CONSTANTS
  Ids,             \* the alarms that may be the one followed
  Configurations,  \* what a configuration file may say, see Options
  InitialDelays,   \* values of alarmInitialDelay, fixed when ptpd starts
  RECEIPT_TIME,    \* seconds until a missing Sync is noticed
  MAX_AGE          \* ages from here on are one

Options == [alarmsEnabled : BOOLEAN, alarmMinAge : Nat]

ASSUME IdsAssumption == Ids \subseteq
  {"PORT_STATE", "OFM_SECONDS", "NO_SYNC", "NETWORK_FLT", "MASTER_CHANGE"}
ASSUME OptionsAssumption == Configurations \subseteq Options
ASSUME TimesAssumption ==
  /\ InitialDelays \subseteq Nat
  /\ RECEIPT_TIME \in Nat \ {0}
  /\ MAX_AGE \in Nat \ {0}
  /\ \A o \in Configurations : o.alarmMinAge <= MAX_AGE

VARIABLES
  id,                      \* the alarm followed
  enabled, minAge, state, condition, unhandled, age,  \* its AlarmEntry
  rtOpts,                  \* the options in force
  reconfigure,             \* restartSubsystems has PTPD_RESTART_ALARMS
  alarmDelay,              \* seconds left of the initial delay
  updateDue,               \* the alarm update timer has expired
  portState,               \* of a port that is slave-only or may be MASTER
  initFailure,             \* the last doInit() failed, it is not retried yet
  missing, syncExpired,    \* the Sync receipt timer: its age, its expiry
  trouble,                 \* what this alarm reports is the case
  quiet,                   \* updates since trouble was last reported
  pc

entryVars  == <<enabled, minAge, state, condition, unhandled, age>>
configVars == <<rtOpts, reconfigure, alarmDelay>>
portVars   == <<portState, initFailure, missing, syncExpired>>
vars == <<id, entryVars, configVars, updateDue, portVars, trouble, quiet, pc>>

eventOnly == id = "MASTER_CHANGE"

TypeOK ==
  /\ id \in Ids
  /\ enabled \in BOOLEAN /\ minAge \in 0 .. MAX_AGE
  /\ state \in {"UNSET", "SET", "CLEARED"}
  /\ condition \in BOOLEAN /\ unhandled \in BOOLEAN
  /\ age \in 0 .. MAX_AGE /\ quiet \in 0 .. MAX_AGE
  /\ rtOpts \in Configurations /\ reconfigure \in BOOLEAN
  /\ alarmDelay \in Nat
  /\ updateDue \in BOOLEAN /\ initFailure \in BOOLEAN
  /\ portState \in {"INITIALIZING", "LISTENING", "SLAVE", "MASTER"}
  /\ missing \in 0 .. RECEIPT_TIME - 1 /\ syncExpired \in BOOLEAN
  /\ trouble \in BOOLEAN
  /\ pc \in {"decide", "work", "restart", "report", "update", "signals"}

(* ptpdStartup(): initAlarms(), configureAlarms(), and enableAlarms() when  *)
(* their start is delayed.                                                 *)
Init ==
  /\ id \in Ids
  /\ rtOpts \in Configurations /\ reconfigure = FALSE
  /\ alarmDelay \in InitialDelays
  /\ enabled = (rtOpts.alarmsEnabled /\ alarmDelay = 0)
  /\ minAge = rtOpts.alarmMinAge
  /\ state = "UNSET" /\ condition = FALSE /\ unhandled = FALSE
  /\ age = 0 /\ quiet = 0
  /\ updateDue = FALSE
  /\ portState = "INITIALIZING" /\ initFailure = FALSE
  /\ missing = 0 /\ syncExpired = FALSE
  /\ trouble \in BOOLEAN
  /\ pc = "decide"

-----------------------------------------------------------------------------
\* Bugs: the age of a condition that changes is kept; a condition may be
\* cleared before it has been handled.
Captured_KeepsAge(c) ==
  /\ condition' = c
  /\ unhandled' = TRUE
  /\ UNCHANGED age

Ignored_NotUnhandled(c) == ~enabled \/ c = condition

Captured(c) ==
  /\ condition' = c
  /\ age' = 0
  /\ unhandled' = TRUE

(* A report is ignored while the alarm is disabled, when it changes        *)
(* nothing, and when it would hide a condition no update has seen.         *)
Ignored(c) == ~enabled \/ c = condition \/ (~c /\ unhandled)

setAlarmCondition(c) ==
  /\ IF Ignored(c) THEN UNCHANGED <<condition, age, unhandled>> ELSE Captured(c)
  /\ quiet' = IF c /\ enabled THEN 0 ELSE quiet
  /\ UNCHANGED <<enabled, minAge, state>>

NoReport == UNCHANGED <<entryVars, quiet>>

Older(n) == IF n < MAX_AGE THEN n + 1 ELSE MAX_AGE

\* A bug: a cleared alarm is not set again.
NextState_OnceCleared ==
  CASE ~condition /\ state = "CLEARED" /\ age >= minAge -> "UNSET"
    [] ~condition /\ state = "SET"                      -> "CLEARED"
    [] condition /\ age = 0 /\ state = "UNSET"          -> "SET"
    [] OTHER                                            -> state

\* A bug: an update leaves what it has seen unhandled.
StillUnhandled_Always(on) == unhandled

StillUnhandled(on) == unhandled /\ ~on

(* Handlers are run when an alarm is set that was UNSET, and when it is    *)
(* UNSET again; in between it may be CLEARED and set any number of times.  *)
NextState ==
  CASE ~condition /\ state = "CLEARED" /\ age >= minAge -> "UNSET"
    [] ~condition /\ state = "SET"                      -> "CLEARED"
    [] condition /\ age = 0                             -> "SET"
    [] OTHER                                            -> state

updateAlarms(on) ==
  /\ enabled' = on
  /\ unhandled' = StillUnhandled(on)
  /\ condition' = (condition /\ ~(on /\ eventOnly))
  /\ IF on /\ ~eventOnly
     THEN state' = NextState /\ age' = Older(age)
     ELSE UNCHANGED <<state, age>>
  /\ quiet' = IF on THEN Older(quiet) ELSE quiet
  /\ UNCHANGED minAge

-----------------------------------------------------------------------------
(* toState(): entering SLAVE starts the Sync receipt timer, leaving it or  *)
(* LISTENING stops it but keeps an expiry.  A slave-only port, whose       *)
(* PORT_STATE alarm is for not being a SLAVE, does not become MASTER.      *)
toState(s) ==
  /\ portState' = s
  /\ s = "MASTER" => id # "PORT_STATE"
  /\ IF s = portState THEN UNCHANGED <<missing, syncExpired>>
     ELSE missing' = 0 /\ syncExpired' = (syncExpired /\ s # "SLAVE")

(* The state decision; another best master is an event.                    *)
Decide ==
  /\ pc = "decide"
  /\ \/ portState' = portState /\ NoReport /\ UNCHANGED <<missing, syncExpired>>
     \/ /\ portState # "INITIALIZING"
        /\ \E s \in {"SLAVE", "MASTER"} : toState(s)
        /\ NoReport \/ (eventOnly /\ setAlarmCondition(TRUE))
  /\ pc' = "work"
  /\ UNCHANGED <<id, configVars, updateDue, initFailure, trouble>>

(* doInit(), retried some seconds after it failed.                         *)
Initialise ==
  /\ pc = "work" /\ portState = "INITIALIZING" /\ ~initFailure
  /\ LET fails == id = "NETWORK_FLT" /\ trouble
     IN  /\ toState(IF fails THEN "INITIALIZING" ELSE "LISTENING")
         /\ initFailure' = fails
         /\ IF id = "NETWORK_FLT" THEN setAlarmCondition(fails) ELSE NoReport
  /\ pc' = "restart"
  /\ UNCHANGED <<id, configVars, updateDue, trouble>>

WaitForRetry ==
  /\ pc = "work" /\ portState = "INITIALIZING" /\ initFailure
  /\ pc' = "restart"
  /\ NoReport /\ UNCHANGED <<id, configVars, updateDue, portVars, trouble>>

(* handleSync() restarts the receipt timer; updateOffset() reports a large *)
(* offset.  A master that is not silent sends before that timer expires.   *)
HandleSync ==
  /\ pc = "work" /\ portState = "SLAVE"
  /\ ~(id = "NO_SYNC" /\ trouble)
  /\ missing' = 0 /\ syncExpired' = FALSE
  /\ CASE id = "OFM_SECONDS" -> setAlarmCondition(trouble)
       [] id = "NO_SYNC"     -> setAlarmCondition(FALSE)
       [] OTHER              -> NoReport
  /\ pc' = "restart"
  /\ UNCHANGED <<id, configVars, updateDue, portState, initFailure, trouble>>

(* A pass of doState() without a Sync, which may leave the state.  In      *)
(* LISTENING and SLAVE a missing Sync is reported when its timer expires,  *)
(* and reported to be over at the next pass.                               *)
DoState ==
  /\ pc = "work" /\ portState # "INITIALIZING"
  /\ \/ portState' = portState
     \/ portState' \in {"LISTENING", "MASTER", "INITIALIZING"}
  /\ portState' = "MASTER" => id # "PORT_STATE"
  /\ missing' = IF portState' = portState THEN missing ELSE 0
  /\ IF portState \in {"LISTENING", "SLAVE"}
     THEN /\ syncExpired' = FALSE
          /\ IF id = "NO_SYNC" THEN setAlarmCondition(syncExpired) ELSE NoReport
     ELSE NoReport /\ UNCHANGED syncExpired
  /\ pc' = "restart"
  /\ UNCHANGED <<id, configVars, updateDue, initFailure, trouble>>

(* restartSubsystems(): configureAlarms() knows no initial delay.          *)
ConfigureAlarms ==
  /\ pc = "restart"
  /\ IF reconfigure
     THEN enabled' = rtOpts.alarmsEnabled /\ minAge' = rtOpts.alarmMinAge
     ELSE UNCHANGED <<enabled, minAge>>
  /\ reconfigure' = FALSE
  /\ pc' = "report"
  /\ UNCHANGED <<id, state, condition, unhandled, age, rtOpts, alarmDelay,
                 updateDue, portVars, trouble, quiet>>

ReportPortState ==
  /\ pc = "report"
  /\ IF id = "PORT_STATE" THEN setAlarmCondition(portState # "SLAVE") ELSE NoReport
  /\ pc' = "update"
  /\ UNCHANGED <<id, configVars, updateDue, portVars, trouble>>

DelayEnds == alarmDelay = 1 /\ rtOpts.alarmsEnabled

(* In the seconds after a failure of doInit() there is an update.          *)
UpdateAlarms ==
  /\ pc = "update" /\ updateDue
  /\ updateDue' = FALSE
  /\ alarmDelay' = IF alarmDelay > 0 THEN alarmDelay - 1 ELSE 0
  /\ updateAlarms(enabled \/ DelayEnds)
  /\ initFailure' = FALSE
  /\ pc' = "signals"
  /\ UNCHANGED <<id, rtOpts, reconfigure, portState, missing, syncExpired, trouble>>

NoUpdate ==
  /\ pc = "update" /\ ~updateDue
  /\ pc' = "signals"
  /\ NoReport /\ UNCHANGED <<id, configVars, updateDue, portVars, trouble>>

checkSignals ==
  /\ pc = "signals"
  /\ \/ UNCHANGED <<rtOpts, reconfigure>>
     \/ \E o \in Configurations \ {rtOpts} : rtOpts' = o /\ reconfigure' = TRUE
  /\ pc' = "decide"
  /\ NoReport /\ UNCHANGED <<id, alarmDelay, updateDue, portVars, trouble>>

(* A second passes: the update timer expires, and the Sync receipt timer   *)
(* when its time is up.                                                    *)
Tick ==
  /\ updateDue' = TRUE
  /\ LET silent == id = "NO_SYNC" /\ trouble /\ portState = "SLAVE"
     IN  IF silent /\ missing + 1 = RECEIPT_TIME
         THEN missing' = 0 /\ syncExpired' = TRUE
         ELSE /\ missing' = IF silent THEN missing + 1 ELSE 0
              /\ UNCHANGED syncExpired
  /\ NoReport /\ UNCHANGED <<id, configVars, portState, initFailure, trouble, pc>>

TroubleChanges ==
  /\ pc = "decide" /\ id \in {"NETWORK_FLT", "NO_SYNC", "OFM_SECONDS"}
  /\ trouble' = ~trouble
  /\ NoReport /\ UNCHANGED <<id, configVars, updateDue, portVars, pc>>

Loop == \/ Decide \/ Initialise \/ WaitForRetry \/ HandleSync \/ DoState
        \/ ConfigureAlarms \/ ReportPortState \/ UpdateAlarms \/ NoUpdate
        \/ checkSignals

Next == Loop \/ Tick \/ TroubleChanges

Spec == Init /\ [][Next]_vars

(* The main loop goes round, seconds pass, a Sync that is sent is handled. *)
FairSpec == Spec /\ WF_vars(Loop) /\ WF_vars(Tick) /\ SF_vars(HandleSync)

-----------------------------------------------------------------------------
(* A condition that an update has seen is shown, and nothing else is: none *)
(* is lost between its report and the update, whatever is disabled and     *)
(* configured again meanwhile.                                             *)
HandledIsShown == ~eventOnly /\ ~unhandled => (condition <=> state = "SET")

(* "Cancel notification will only be sent when the condition has cleared   *)
(* and timeout has passed": an alarm is UNSET only after minAge updates in *)
(* which no trouble was reported, however it flapped before.               *)
NoFlapping ==
  [][state # "UNSET" /\ state' = "UNSET" => ~condition /\ quiet >= minAge]_vars

(* What the alarm stands for, and where the port would find it.            *)
Alarming == IF id = "PORT_STATE" THEN portState # "SLAVE" ELSE trouble

Watched == CASE id = "PORT_STATE"  -> TRUE
             [] id = "NETWORK_FLT" -> portState = "INITIALIZING"
             [] OTHER              -> portState = "SLAVE"

(* While what an alarm stands for lasts where it is looked for, the alarm  *)
(* is raised and stays, although a missing Sync is reported for one pass   *)
(* at a time: that alarm must only outlast the receipt timer.              *)
TroubleIsRaised ==
  <>[](/\ ~eventOnly /\ enabled /\ Alarming /\ Watched
       /\ id = "NO_SYNC" => minAge >= RECEIPT_TIME)
  => <>[](state # "UNSET")

(* An alarm whose reason is gone is cancelled for good; the end of a       *)
(* network fault is reported only once, and must not be missed.            *)
AllClear ==
  /\ <>[](~eventOnly /\ enabled /\ ~Alarming /\ portState = "SLAVE")
  /\ id = "NETWORK_FLT" => []enabled
  => <>[](state = "UNSET")
=============================================================================
