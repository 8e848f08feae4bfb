----------------------------- MODULE Alarms_proofs -----------------------------
(***************************************************************************)
(* Proofs of the safety properties of Alarms, for every configuration,     *)
(* initial delay, receipt timeout and bound on ages.                       *)
(***************************************************************************)
EXTENDS Alarms, TLAPS

(* A report that no update has seen is as young as can be, and an alarm    *)
(* without a condition is not older than the last report of trouble.       *)
Fresh == unhandled => age = 0
Quiet == ~condition /\ ~eventOnly => age <= quiet

IInv == TypeOK /\ HandledIsShown /\ Fresh /\ Quiet

(* What the four parts say is about the entry, the ghost and the id only.  *)
Entry == <<state, condition, unhandled, age, quiet, id>>

LEMMA EntryUnchanged ==
  ASSUME HandledIsShown, Fresh, Quiet, UNCHANGED Entry
  PROVE  HandledIsShown' /\ Fresh' /\ Quiet'
BY DEF HandledIsShown, Fresh, Quiet, Entry, eventOnly

(* A report keeps the entry well formed: setAlarmCondition() never leaves  *)
(* a handled condition that is not shown.                                  *)
LEMMA ReportPreserves ==
  ASSUME NEW c \in BOOLEAN, IInv, setAlarmCondition(c), UNCHANGED id
  PROVE  /\ HandledIsShown' /\ Fresh' /\ Quiet'
         /\ condition' \in BOOLEAN /\ unhandled' \in BOOLEAN
         /\ age' \in 0 .. MAX_AGE /\ quiet' \in 0 .. MAX_AGE
         /\ UNCHANGED <<enabled, minAge, state>>
<1>1. UNCHANGED <<enabled, minAge, state>>
  BY DEF setAlarmCondition
<1>2. quiet' = IF c /\ enabled THEN 0 ELSE quiet
  BY DEF setAlarmCondition
<1>3. CASE Ignored(c)
  <2>1. UNCHANGED <<condition, age, unhandled>>
    BY <1>3 DEF setAlarmCondition
  <2>2. condition \/ ~(c /\ enabled)
    BY <1>3 DEF Ignored, IInv, TypeOK
  <2> QED
    BY <1>1, <1>2, <2>1, <2>2, TimesAssumption
    DEF IInv, TypeOK, HandledIsShown, Fresh, Quiet, eventOnly
<1>4. CASE ~Ignored(c)
  <2>1. condition' = c /\ age' = 0 /\ unhandled' = TRUE
    BY <1>4 DEF setAlarmCondition, Captured
  <2> QED
    BY <1>1, <1>2, <2>1, TimesAssumption
    DEF IInv, TypeOK, HandledIsShown, Fresh, Quiet, eventOnly
<1> QED
  BY <1>3, <1>4

(* So does an update, which shows what it handles.                         *)
LEMMA UpdatePreserves ==
  ASSUME NEW on \in BOOLEAN, IInv, updateAlarms(on), UNCHANGED id
  PROVE  /\ HandledIsShown' /\ Fresh' /\ Quiet'
         /\ condition' \in BOOLEAN /\ unhandled' \in BOOLEAN
         /\ enabled' \in BOOLEAN /\ state' \in {"UNSET", "SET", "CLEARED"}
         /\ age' \in 0 .. MAX_AGE /\ quiet' \in 0 .. MAX_AGE
         /\ UNCHANGED minAge
<1> USE DEF updateAlarms, StillUnhandled, Older
<1>1. CASE ~on
  BY <1>1 DEF IInv, TypeOK, HandledIsShown, Fresh, Quiet, eventOnly
<1>2. CASE on /\ eventOnly
  BY <1>2, TimesAssumption
  DEF IInv, TypeOK, HandledIsShown, Fresh, Quiet, eventOnly
<1>3. CASE on /\ ~eventOnly
  <2>1. /\ state' = NextState /\ age' = Older(age) /\ quiet' = Older(quiet)
        /\ unhandled' = FALSE /\ condition' = condition
    BY <1>3 DEF IInv, TypeOK
  <2>2. condition <=> NextState = "SET"
    BY <1>3 DEF NextState, IInv, TypeOK, HandledIsShown, Fresh, eventOnly
  <2>3. NextState \in {"UNSET", "SET", "CLEARED"}
    BY DEF NextState, IInv, TypeOK
  <2>4. HandledIsShown'
    BY <2>1, <2>2 DEF HandledIsShown
  <2>5. Fresh' /\ Quiet' /\ age' \in 0 .. MAX_AGE /\ quiet' \in 0 .. MAX_AGE
    BY <1>3, <2>1, TimesAssumption DEF IInv, TypeOK, Fresh, Quiet, eventOnly
  <2> QED
    BY <1>3, <2>1, <2>3, <2>4, <2>5 DEF IInv, TypeOK
<1> QED
  BY <1>1, <1>2, <1>3

-----------------------------------------------------------------------------
(* The types of what is not part of the entry.                             *)
Surroundings ==
  /\ id \in Ids
  /\ rtOpts \in Configurations /\ reconfigure \in BOOLEAN
  /\ alarmDelay \in Nat
  /\ updateDue \in BOOLEAN /\ initFailure \in BOOLEAN
  /\ portState \in {"INITIALIZING", "LISTENING", "SLAVE", "MASTER"}
  /\ missing \in 0 .. RECEIPT_TIME - 1 /\ syncExpired \in BOOLEAN
  /\ trouble \in BOOLEAN
  /\ pc \in {"decide", "work", "restart", "report", "update", "signals"}

LEMMA OptionTypes ==
  ASSUME NEW o \in Configurations
  PROVE  o.alarmsEnabled \in BOOLEAN /\ o.alarmMinAge \in 0 .. MAX_AGE
BY OptionsAssumption, TimesAssumption DEF Options

LEMMA ReceiptTime == RECEIPT_TIME \in Nat /\ RECEIPT_TIME > 0
BY TimesAssumption

LEMMA InitEstablishes == Init => IInv
<1> SUFFICES ASSUME Init PROVE IInv
  OBVIOUS
<1>1. /\ rtOpts.alarmsEnabled \in BOOLEAN /\ minAge \in 0 .. MAX_AGE
  BY OptionTypes DEF Init
<1>2. enabled \in BOOLEAN
  BY <1>1, Zenon DEF Init
<1>3. alarmDelay \in Nat /\ MAX_AGE \in Nat
  BY TimesAssumption DEF Init
<1>4. age = 0 /\ quiet = 0 /\ missing = 0
  BY DEF Init
<1>5. age \in 0 .. MAX_AGE /\ quiet \in 0 .. MAX_AGE /\ missing \in 0 .. RECEIPT_TIME - 1
  BY <1>3, <1>4, ReceiptTime
<1>6. TypeOK
  BY <1>1, <1>2, <1>3, <1>5 DEF Init, TypeOK
<1>7. HandledIsShown /\ Fresh /\ Quiet
  BY DEF Init, HandledIsShown, Fresh, Quiet, eventOnly
<1> QED
  BY <1>6, <1>7 DEF IInv

(* A step that makes at most one report, and keeps the types of the rest.  *)
LEMMA ReportStep ==
  ASSUME IInv, Surroundings',
         NEW c \in BOOLEAN, NoReport \/ setAlarmCondition(c), UNCHANGED id
  PROVE  IInv'
<1>1. CASE NoReport
  BY <1>1, EntryUnchanged
  DEF IInv, TypeOK, Surroundings, NoReport, entryVars, Entry
<1>2. CASE setAlarmCondition(c)
  <2>1. /\ HandledIsShown' /\ Fresh' /\ Quiet'
        /\ condition' \in BOOLEAN /\ unhandled' \in BOOLEAN
        /\ age' \in 0 .. MAX_AGE /\ quiet' \in 0 .. MAX_AGE
        /\ UNCHANGED <<enabled, minAge, state>>
    BY <1>2, ReportPreserves
  <2> QED
    BY <2>1 DEF IInv, TypeOK, Surroundings
<1> QED
  BY <1>1, <1>2

LEMMA NextPreserves == IInv /\ [Next]_vars => IInv'
<1> SUFFICES ASSUME IInv, [Next]_vars
             PROVE  IInv'
  OBVIOUS
<1>0. Surroundings
  BY DEF IInv, TypeOK, Surroundings
<1>1. CASE Decide
  <2>1. UNCHANGED id /\ (NoReport \/ setAlarmCondition(TRUE))
    BY <1>1 DEF Decide, toState
  <2>2. /\ portState' \in {"INITIALIZING", "LISTENING", "SLAVE", "MASTER"}
        /\ missing' = missing \/ missing' = 0
    BY <1>0, <1>1 DEF Decide, toState, Surroundings
  <2>3. syncExpired' \in BOOLEAN
    BY <1>0, <1>1, Zenon DEF Decide, toState, Surroundings
  <2>4. pc' = "work" /\ UNCHANGED <<id, configVars, updateDue, initFailure, trouble>>
    BY <1>1 DEF Decide
  <2>5. Surroundings'
    BY <1>0, <2>2, <2>3, <2>4, ReceiptTime DEF configVars, Surroundings
  <2> QED
    BY <2>1, <2>5, ReportStep
<1>2. CASE Initialise
  <2>1. PICK fails \in BOOLEAN :
          /\ toState(IF fails THEN "INITIALIZING" ELSE "LISTENING")
          /\ initFailure' = fails
          /\ NoReport \/ setAlarmCondition(fails)
    BY <1>2 DEF Initialise
  <2>2. Surroundings'
    BY <1>0, <1>2, <2>1, ReceiptTime
    DEF Initialise, toState, configVars, Surroundings
  <2> QED
    BY <1>2, <2>1, <2>2, ReportStep DEF Initialise
<1>3. CASE WaitForRetry \/ NoUpdate
  <2>1. Surroundings' /\ UNCHANGED id /\ NoReport
    BY <1>0, <1>3 DEF WaitForRetry, NoUpdate, configVars, portVars, Surroundings
  <2> QED
    BY <2>1, ReportStep
<1>4. CASE HandleSync
  <2>1. Surroundings' /\ UNCHANGED id
    <3>1. /\ missing' = 0 /\ pc' = "restart"
          /\ UNCHANGED <<id, configVars, updateDue, portState, initFailure, trouble>>
      BY <1>4 DEF HandleSync
    <3>2. syncExpired' \in BOOLEAN
      BY <1>4, Zenon DEF HandleSync
    <3> QED
      BY <1>0, <3>1, <3>2, ReceiptTime DEF configVars, Surroundings
  <2>2. CASE id = "OFM_SECONDS"
    BY <1>0, <1>4, <2>1, <2>2, ReportStep DEF HandleSync, Surroundings
  <2>3. CASE id = "NO_SYNC"
    BY <1>4, <2>1, <2>3, ReportStep DEF HandleSync
  <2>4. CASE id # "OFM_SECONDS" /\ id # "NO_SYNC"
    BY <1>4, <2>1, <2>4, ReportStep DEF HandleSync
  <2> QED
    BY <2>2, <2>3, <2>4
<1>5. CASE DoState
  <2>1. UNCHANGED id /\ (NoReport \/ setAlarmCondition(syncExpired))
    BY <1>5 DEF DoState
  <2>2. /\ portState' \in {"INITIALIZING", "LISTENING", "SLAVE", "MASTER"}
        /\ missing' = missing \/ missing' = 0
    BY <1>0, <1>5 DEF DoState, Surroundings
  <2>3. syncExpired' \in BOOLEAN
    BY <1>0, <1>5, Zenon DEF DoState, Surroundings
  <2>4. /\ pc' = "restart"
        /\ UNCHANGED <<id, configVars, updateDue, initFailure, trouble>>
    BY <1>5 DEF DoState
  <2>5. Surroundings'
    BY <1>0, <2>2, <2>3, <2>4, ReceiptTime DEF configVars, Surroundings
  <2> QED
    BY <1>0, <2>1, <2>5, ReportStep DEF Surroundings
<1>6. CASE ConfigureAlarms
  <2>1. HandledIsShown' /\ Fresh' /\ Quiet'
    BY <1>6, EntryUnchanged DEF ConfigureAlarms, Entry, IInv
  <2>2. rtOpts.alarmsEnabled \in BOOLEAN /\ rtOpts.alarmMinAge \in 0 .. MAX_AGE
    BY <1>0, OptionTypes DEF Surroundings
  <2>3. enabled' \in BOOLEAN /\ minAge' \in 0 .. MAX_AGE
    BY <1>6, <2>2 DEF ConfigureAlarms, IInv, TypeOK
  <2> QED
    BY <1>6, <2>1, <2>3 DEF ConfigureAlarms, IInv, TypeOK, portVars
<1>7. CASE ReportPortState
  <2>1. Surroundings' /\ UNCHANGED id
    BY <1>0, <1>7 DEF ReportPortState, configVars, portVars, Surroundings
  <2> QED
    BY <1>7, <2>1, ReportStep DEF ReportPortState
<1>8. CASE UpdateAlarms
  <2>1. (enabled \/ DelayEnds) \in BOOLEAN
    BY DEF IInv, TypeOK, DelayEnds
  <2>2. UNCHANGED id /\ updateAlarms(enabled \/ DelayEnds)
    BY <1>8 DEF UpdateAlarms
  <2>3. Surroundings'
    <3>1. /\ pc' = "signals"
          /\ alarmDelay' = IF alarmDelay > 0 THEN alarmDelay - 1 ELSE 0
          /\ UNCHANGED <<id, rtOpts, reconfigure, portState, missing,
                         syncExpired, trouble>>
      BY <1>8 DEF UpdateAlarms
    <3>2. updateDue' \in BOOLEAN /\ initFailure' \in BOOLEAN
      BY <1>8, Zenon DEF UpdateAlarms
    <3> QED
      BY <1>0, <3>1, <3>2 DEF Surroundings
  <2>4. /\ HandledIsShown' /\ Fresh' /\ Quiet'
        /\ condition' \in BOOLEAN /\ unhandled' \in BOOLEAN
        /\ enabled' \in BOOLEAN /\ state' \in {"UNSET", "SET", "CLEARED"}
        /\ age' \in 0 .. MAX_AGE /\ quiet' \in 0 .. MAX_AGE
        /\ UNCHANGED minAge
    BY <2>1, <2>2, UpdatePreserves
  <2> QED
    BY <2>3, <2>4 DEF IInv, TypeOK, Surroundings
<1>9. CASE checkSignals
  <2>1. Surroundings' /\ UNCHANGED id /\ NoReport
    BY <1>0, <1>9 DEF checkSignals, portVars, Surroundings
  <2> QED
    BY <2>1, ReportStep
<1>10. CASE Tick
  <2>1. /\ NoReport
        /\ UNCHANGED <<id, configVars, portState, initFailure, trouble, pc>>
    BY <1>10 DEF Tick
  <2>2. updateDue' \in BOOLEAN /\ syncExpired' \in BOOLEAN
    BY <1>0, <1>10, Zenon DEF Tick, Surroundings
  <2>3. missing' \in 0 .. RECEIPT_TIME - 1
    BY <1>0, <1>10, ReceiptTime DEF Tick, Surroundings
  <2>4. Surroundings'
    BY <1>0, <2>1, <2>2, <2>3 DEF configVars, Surroundings
  <2> QED
    BY <2>1, <2>4, ReportStep
<1>11. CASE TroubleChanges
  <2>1. Surroundings' /\ UNCHANGED id /\ NoReport
    BY <1>0, <1>11 DEF TroubleChanges, configVars, portVars, Surroundings
  <2> QED
    BY <2>1, ReportStep
<1>12. CASE UNCHANGED vars
  <2>1. Surroundings' /\ UNCHANGED id /\ NoReport
    BY <1>0, <1>12 DEF vars, configVars, portVars, Surroundings, NoReport
  <2> QED
    BY <2>1, ReportStep
<1> QED
  BY <1>1, <1>2, <1>3, <1>4, <1>5, <1>6, <1>7, <1>8, <1>9, <1>10, <1>11, <1>12
  DEF Next, Loop

(* The inductive invariant: types, the two properties of ages, and that    *)
(* what an update has handled is shown.                                    *)
THEOREM InvariantHolds == Spec => []IInv
<1>1. Init => IInv
  BY InitEstablishes
<1>2. IInv /\ [Next]_vars => IInv'
  BY NextPreserves
<1> QED
  BY <1>1, <1>2, PTL DEF Spec

(* No condition is lost between its report and the update that sets the    *)
(* alarm, and no alarm is shown without one (setAlarmCondition() and       *)
(* updateAlarms()).                                                        *)
THEOREM ConditionsAreShown == Spec => []HandledIsShown
<1>1. IInv => HandledIsShown
  BY DEF IInv
<1> QED
  BY <1>1, InvariantHolds, PTL

(* updateAlarms() cancels an alarm only after minAge updates without a     *)
(* report of trouble, whatever minAge is configured to meanwhile.          *)
THEOREM NeverFlaps == Spec => NoFlapping
<1>1. ASSUME IInv, [Next]_vars, state # "UNSET", state' = "UNSET"
      PROVE  ~condition /\ quiet >= minAge
  <2>1. UpdateAlarms
    BY <1>1 DEF Next, Loop, Decide, toState, Initialise, WaitForRetry, HandleSync,
       DoState, ConfigureAlarms, ReportPortState, NoUpdate, checkSignals, Tick,
       TroubleChanges, NoReport, setAlarmCondition, entryVars, vars
  <2>2. state' = NextState /\ ~eventOnly
    BY <1>1, <2>1 DEF UpdateAlarms, updateAlarms
  <2>3. ~condition /\ age >= minAge
    BY <1>1, <2>2 DEF NextState
  <2> QED
    BY <1>1, <2>2, <2>3, TimesAssumption DEF IInv, TypeOK, Quiet
<1>2. IInv /\ [Next]_vars
        => [state # "UNSET" /\ state' = "UNSET" => ~condition /\ quiet >= minAge]_vars
  BY <1>1
<1> QED
  BY <1>2, InvariantHolds, PTL DEF Spec, NoFlapping
=============================================================================
