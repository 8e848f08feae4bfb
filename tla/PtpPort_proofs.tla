---------------------------- MODULE PtpPort_proofs ----------------------------
(***************************************************************************)
(* Theorems about the port, for every set of masters and of ranks, every   *)
(* capacity of the records, every set of configurations, and whatever the  *)
(* surroundings may do to each of them.                                    *)
(***************************************************************************)
EXTENDS PtpPort, TLAPS

FMP == INSTANCE ForeignMasters_proofs

(* The records of the port are those of the theorems of ForeignMasters.    *)
LEMMA SameRecords ==
  /\ FM!ringVars = ringVars
  /\ FM!TypeOK <=> FMP!TypeOK
  /\ FM!Init <=> FMP!Init
<1>1. FM!ringVars = ringVars
  BY DEF FM!ringVars, ringVars
<1>2. FM!TypeOK <=> FMP!TypeOK
  BY DEF FM!TypeOK, FMP!TypeOK, FM!Slots, FMP!Slots, FM!Record, FMP!Record,
         FM!NoMaster, FMP!NoMaster
<1>3. FM!Init <=> FMP!Init
  BY DEF FM!Init, FMP!Init, FM!Slots, FMP!Slots, FM!ZeroRecord, FMP!ZeroRecord,
         FM!NoMaster, FMP!NoMaster
<1> QED BY <1>1, <1>2, <1>3

LEMMA SameNext == FM!Next <=> FMP!Next
<1>1. ASSUME NEW m \in Masters, NEW q \in Qualities
      PROVE  FM!AddForeign(m, q) <=> FMP!AddForeign(m, q)
  BY DEF FM!AddForeign, FMP!AddForeign, FM!RefreshRecord, FMP!RefreshRecord,
         FM!InsertRecord, FMP!InsertRecord, FM!Hits, FMP!Hits, FM!Probe, FMP!Probe,
         FM!Used, FMP!Used, FM!Announced, FMP!Announced, FM!InsertSlot, FMP!InsertSlot,
         FM!NumberAfterInsert, FMP!NumberAfterInsert
<1>2. FM!SelectBest <=> FMP!SelectBest
  BY DEF FM!SelectBest, FMP!SelectBest, FM!IsBest, FMP!IsBest, FM!Better, FMP!Better,
     FM!Precedes, FMP!Precedes,
         FM!Slots, FMP!Slots, FM!Used, FMP!Used
<1>3. FM!SelectNone <=> FMP!SelectNone
  BY DEF FM!SelectNone, FMP!SelectNone
<1>4. ASSUME NEW q \in Qualities PROVE FM!UpdateBest(q) <=> FMP!UpdateBest(q)
  BY DEF FM!UpdateBest, FMP!UpdateBest
<1>5. FM!RequestUpdate <=> FMP!RequestUpdate
  BY DEF FM!RequestUpdate, FMP!RequestUpdate
<1>6. FM!DisqualifyBest <=> FMP!DisqualifyBest
  BY DEF FM!DisqualifyBest, FMP!DisqualifyBest
<1>7. FM!ClearRecords <=> FMP!ClearRecords
  BY DEF FM!ClearRecords, FMP!ClearRecords
<1>8. FM!InitData <=> FMP!InitData
  BY DEF FM!InitData, FMP!InitData
<1> QED
  BY <1>1, <1>2, <1>3, <1>4, <1>5, <1>6, <1>7, <1>8, Zenon DEF FM!Next, FMP!Next

-----------------------------------------------------------------------------
(* The order of one iteration: which case of doState() a step belongs to,  *)
(* and the steps that come before the port may handle an Announce.         *)
SlaveSteps == {"announceReceipt", "announceTimeout", "clockUpdate", "clockTimeout",
               "delayReq", "issueDelayReq"}
MasterSteps == {"announce", "issueAnnounce", "pdelayReq", "refresh", "refreshIGMP",
                "sync", "issueSync"}
HandleSteps == {"event", "servo", "general"}

StepsFollowBranch ==
  /\ pc \in SlaveSteps => branch = "slave"
  /\ pc \in MasterSteps => branch = "master"
  /\ pc = "issuePdelayReq" => branch \in {"slave", "master"}
  /\ pc = "enabled" => branch = "disabled"
  /\ pc \in HandleSteps => branch \in {"slave", "master", "disabled"}

BeforeAnnounce ==
  pc \in HandleSteps \cup MasterSteps \/ (pc = "issuePdelayReq" /\ branch = "master")

(* bmc() has handled what was recorded before doState() handles a message. *)
DecidedBefore == BeforeAnnounce /\ portState \in DecidingStates => ~record_update

(* The pointer to the best master is to the slot bmc() selected.           *)
BestIsSelected == bestMaster # NULL => bestMaster = foreign_record_best

IInv == TypeOK /\ StepsFollowBranch /\ DecidedBefore /\ BestIsSelected

-----------------------------------------------------------------------------
(* Refinement: every step of the port is one of the data set or none.      *)
LEMMA StepOfRecords ==
  ASSUME IInv, [Next]_vars PROVE [FM!Next]_ringVars
<1> USE DEF IInv
<1>1. CASE UNCHANGED ringVars
  BY <1>1
<1>2. ASSUME FM!ClearRecords \/ FM!InitData \/ FM!RequestUpdate \/ FM!DisqualifyBest
      PROVE  FM!Next
  BY <1>2 DEF FM!Next
<1>3. CASE DoInit
  BY <1>2, <1>3 DEF DoInit
<1>4. CASE MasterAlone
  BY <1>4 DEF MasterAlone, FM!Next
<1>5. CASE StateDecision
  BY <1>5 DEF StateDecision, FM!Next
<1>6. ASSUME NEW m \in Masters, NEW q \in Qualities, AnnounceOfParent(m, q)
      PROVE  [FM!Next]_ringVars
  <2>1. ~record_update /\ bestMaster = foreign_record_best
    BY <1>6 DEF AnnounceOfParent, AnnounceArrives, DecidedBefore, BeforeAnnounce,
                HandleSteps, DecidingStates, BestIsSelected
  <2>2. FM!UpdateBest(q)
    BY <1>6, <2>1 DEF AnnounceOfParent, FM!UpdateBest
  <2> QED BY <2>1, <2>2 DEF FM!Next
<1>7. ASSUME NEW m \in Masters, NEW q \in Qualities, AnnounceOfActiveMaster(m, q)
      PROVE  [FM!Next]_ringVars
  BY <1>2, <1>7 DEF AnnounceOfActiveMaster
<1>8. ASSUME NEW m \in Masters, NEW q \in Qualities, AnnounceOfAnother(m, q)
      PROVE  [FM!Next]_ringVars
  <2>1. ~record_update
    BY <1>8 DEF AnnounceOfAnother, AnnounceArrives, DecidedBefore, BeforeAnnounce,
                HandleSteps, DecidingStates
  <2> QED BY <1>8, <2>1 DEF AnnounceOfAnother, FM!Next
<1>9. CASE HandleSet
  BY <1>2, <1>9 DEF HandleSet
<1>10. CASE TimeoutToMaster
  BY <1>2, <1>10 DEF TimeoutToMaster
<1>11. CASE TimeoutDisqualifies
  <2>1. bestMaster = foreign_record_best
    BY <1>11 DEF TimeoutDisqualifies, BestIsSelected
  <2>2. FM!DisqualifyBest
    BY <1>11, <2>1 DEF TimeoutDisqualifies, FM!DisqualifyBest
  <2> QED BY <1>2, <2>2
<1>12. CASE TimeoutResets
  BY <1>1, <1>2, <1>12 DEF TimeoutResets
<1>13. CASE LeaveDisabled
  BY <1>1, <1>2, <1>13 DEF LeaveDisabled
<1>14. CASE Handle
  <2>1. CASE \/ HandleNothing \/ HandleFails \/ HandleSync \/ ClockUpdated
             \/ ServoResets \/ HandleInitialize \/ HandleConfig \/ HandleEnablePort
    BY <1>1, <2>1 DEF HandleNothing, HandleFails, HandleSync, ClockUpdated,
         ServoResets, HandleInitialize, HandleConfig, HandleEnablePort
  <2> QED BY <1>6, <1>7, <1>8, <1>9, <1>14, <2>1 DEF Handle
<1>15. CASE LoopDisables \/ DoInitFails \/ DoInitWaits \/ CallDoState \/ NoDecision
            \/ FaultCleared
  BY <1>1, <1>15 DEF LoopDisables, DoInitFails, DoInitWaits, CallDoState,
       NoDecision, FaultCleared
<1>16. CASE CheckAnnounceReceipt \/ CheckClockUpdate \/ CheckDelayReq \/ CheckAnnounce
            \/ CheckPdelayReq \/ CheckRefresh \/ CheckSync
  BY <1>1, <1>16 DEF CheckTimer, CheckAnnounceReceipt, CheckClockUpdate,
       CheckDelayReq, CheckAnnounce, CheckPdelayReq, CheckRefresh, CheckSync
<1>17. CASE ClockTimeoutIgnored \/ ClockTimeoutResets \/ Issue \/ IssueFails
            \/ RefreshIGMP \/ StaysDisabled
  BY <1>1, <1>17 DEF ClockTimeoutIgnored, ClockTimeoutResets, Issue, IssueFails,
       RefreshIGMP, StaysDisabled
<1>18. CASE EndDisables \/ RestartSubsystems \/ NoSignal \/ SighupReloads
            \/ Sigusr1StepsClock \/ TimeoutCrashes
  BY <1>1, <1>18 DEF EndDisables, RestartSubsystems, NoSignal, SighupReloads,
       Sigusr1StepsClock, TimeoutCrashes
<1>19. ASSUME NEW t \in Timers, TimerExpires(t) PROVE [FM!Next]_ringVars
  BY <1>1, <1>19 DEF TimerExpires
<1>20. CASE UNCHANGED vars
  BY <1>1, <1>20 DEF vars
<1> QED
  BY <1>3, <1>4, <1>5, <1>10, <1>11, <1>12, <1>13, <1>14, <1>15, <1>16, <1>17, <1>18,
     <1>19, <1>20 DEF Next, Program

(* So the records keep their types.                                        *)
LEMMA RecordsTypes == ASSUME IInv, [Next]_vars PROVE (FM!TypeOK)'
<1>1. [FMP!Next]_ringVars
  BY StepOfRecords, SameNext
<1>2. FMP!TypeOK
  BY SameRecords DEF IInv, TypeOK
<1>3. (FMP!TypeOK)'
  BY <1>1, <1>2, FMP!NextType, RecordsAssumption DEF ringVars, FMP!ringVars
<1> QED
  BY <1>3 DEF FM!TypeOK, FMP!TypeOK, FM!Slots, FMP!Slots, FM!Record, FMP!Record,
              FM!NoMaster, FMP!NoMaster

-----------------------------------------------------------------------------
(* Types.  PortOK is what toState() and the timers change, AdminOK what    *)
(* configurations change.                                                  *)
PortOK ==
  /\ portState \in PortStates
  /\ bestMaster \in FM!Slots \cup {NULL}
  /\ announceTimeouts \in 0 .. rtOpts.announceTimeoutGracePeriod
  /\ listenCount \in 0 .. rtOpts.maxListen
  /\ syncWaiting \in BOOLEAN /\ message_activity \in BOOLEAN
  /\ running \subseteq Timers /\ expired \subseteq Timers

AdminOK ==
  /\ rtOpts \in Configurations
  /\ disabled \in BOOLEAN /\ portDisabled \in BOOLEAN
  /\ restart \in BOOLEAN /\ initFailure \in BOOLEAN

ParentOK == parentDS \in [id : Masters \cup {FM!NoMaster, Self},
                          quality : Qualities \cup {0, OwnQuality}]

LEMMA TypeParts ==
  TypeOK <=> /\ FM!TypeOK /\ PortOK /\ AdminOK /\ ParentOK
             /\ branch \in {"none", "slave", "master", "disabled"} /\ pc \in Steps
BY DEF TypeOK, PortOK, AdminOK, ParentOK

LEMMA OptionsTypes ==
  ASSUME TypeOK
  PROVE  /\ rtOpts.announceTimeoutGracePeriod \in Nat /\ rtOpts.maxListen \in Nat \ {0}
         /\ rtOpts.delayMechanism \in {"E2E", "P2P"}
         /\ ~(rtOpts.slaveOnly /\ rtOpts.masterClass)
BY OptionsAssumption DEF TypeOK, Options

(* What toState() does to timers keeps to the timers there are.            *)
LEMMA TimerSets ==
  ASSUME NEW s PROVE /\ StoppedOnLeaving(s) \subseteq Timers
                     /\ StartedOnEntering(s) \subseteq Timers
                     /\ StoppedOnListening \subseteq Timers
BY DEF StoppedOnLeaving, StartedOnEntering, StoppedOnListening, Timers

LEMMA SetTimersTypes ==
  ASSUME TypeOK, NEW stop, NEW start \in SUBSET Timers, SetTimers(stop, start)
  PROVE  running' \subseteq Timers /\ expired' \subseteq Timers
BY DEF TypeOK, SetTimers

LEMMA EnterTypes ==
  ASSUME TypeOK, UNCHANGED rtOpts, NEW s \in PortStates, NEW b \in FM!Slots \cup {NULL},
         EnterWith(s, b)
  PROVE  PortOK'
<1>1. running' \subseteq Timers /\ expired' \subseteq Timers
  BY SetTimersTypes, TimerSets DEF EnterWith
<1>2. bestMaster' \in (FM!Slots)' \cup {NULL}
  BY DEF EnterWith, FM!Slots
<1>3. listenCount' \in 0 .. rtOpts'.maxListen /\ announceTimeouts' \in 0 .. rtOpts'.announceTimeoutGracePeriod
  BY OptionsTypes DEF EnterWith, TypeOK
<1>4. syncWaiting' \in BOOLEAN
  BY Zenon DEF EnterWith, TypeOK
<1>5. portState' \in PortStates /\ message_activity' \in BOOLEAN
  BY DEF EnterWith
<1> QED BY <1>1, <1>2, <1>3, <1>4, <1>5 DEF PortOK, NULL

LEMMA ListenTypes ==
  ASSUME TypeOK, UNCHANGED rtOpts, NEW b \in FM!Slots \cup {NULL}, EnterListeningWith(b)
  PROVE  PortOK'
<1>1. /\ running' \subseteq Timers /\ expired' \subseteq Timers
      /\ portState' \in PortStates
      /\ bestMaster' \in (FM!Slots)' \cup {NULL}
      /\ listenCount' \in 0 .. rtOpts'.maxListen
      /\ announceTimeouts' \in 0 .. rtOpts'.announceTimeoutGracePeriod
  <2>1. CASE ListenFails(b)
    <3>1. running' \subseteq Timers /\ expired' \subseteq Timers
      BY <2>1, SetTimersTypes DEF ListenFails
    <3> QED BY <2>1, <3>1, OptionsTypes DEF ListenFails, TypeOK, PortStates, FM!Slots
  <2>2. CASE Listen
    <3>1. running' \subseteq Timers /\ expired' \subseteq Timers
      BY <2>2, SetTimersTypes, TimerSets DEF Listen
    <3>2. listenCount' \in 0 .. rtOpts'.maxListen
      BY <2>2, OptionsTypes DEF Listen, GivesUp, RestartsInListening, TypeOK
    <3> QED BY <2>2, <3>1, <3>2, OptionsTypes DEF Listen, TypeOK, PortStates, FM!Slots
  <2> QED BY <2>1, <2>2 DEF EnterListeningWith
<1>2. syncWaiting' \in BOOLEAN /\ message_activity' \in BOOLEAN
  BY DEF EnterListeningWith, TypeOK
<1> QED BY <1>1, <1>2 DEF PortOK

LEMMA MasterTypes ==
  ASSUME TypeOK, UNCHANGED rtOpts, EnterMasterFromListening
  PROVE  PortOK'
<1>1. running' \subseteq Timers /\ expired' \subseteq Timers
  BY SetTimersTypes, TimerSets DEF EnterMasterFromListening
<1> QED BY <1>1, OptionsTypes DEF EnterMasterFromListening, TypeOK, PortOK, PortStates, FM!Slots

LEMMA StartTimerTypes ==
  ASSUME TypeOK, UNCHANGED <<rtOpts, portVars>>, NEW t \in Timers,
         StartTimer(t) \/ UNCHANGED timerVars
  PROVE  PortOK'
BY DEF StartTimer, SetTimers, timerVars, portVars, TypeOK, PortOK, FM!Slots

-----------------------------------------------------------------------------
(* Timers.  What each of the ways into a state does to them.               *)
LEMMA EnterTimers ==
  ASSUME TypeOK, TimersFollowState, UNCHANGED rtOpts,
         NEW s \in PortStates \ {"LISTENING"}, NEW b, EnterWith(s, b),
         s \in {"SLAVE", "PASSIVE"} => portState \in DecidingStates
  PROVE  TimersFollowState'
<1>1. /\ portState' = s
      /\ running' = (running \ StoppedOnLeaving(portState)) \cup StartedOnEntering(s)
      /\ syncWaiting' = (s = "SLAVE" \/ syncWaiting)
  BY DEF EnterWith, SetTimers
<1>2. CASE s = "MASTER"
  BY <1>1, <1>2, OptionsTypes DEF TimersFollowState, StartedOnEntering
<1>3. CASE s = "PASSIVE"
  BY <1>1, <1>3, OptionsTypes
     DEF TimersFollowState, StartedOnEntering, StoppedOnLeaving, DecidingStates
<1>4. CASE s = "SLAVE"
  <2>1. syncWaiting'
    BY <1>1, <1>4
  <2> QED BY <1>1, <1>4, <2>1, OptionsTypes
          DEF TimersFollowState, StartedOnEntering, StoppedOnLeaving, DecidingStates
<1>5. CASE s \notin {"MASTER", "PASSIVE", "SLAVE", "LISTENING"}
  BY <1>1, <1>5 DEF TimersFollowState
<1> QED BY <1>2, <1>3, <1>4, <1>5

LEMMA ListenTimers ==
  ASSUME NEW b, EnterListeningWith(b)
  PROVE  TimersFollowState'
BY DEF EnterListeningWith, ListenFails, Listen, TimersFollowState, SetTimers,
       StartedOnEntering, StoppedOnListening, Timers

LEMMA MasterTimers ==
  ASSUME TypeOK, UNCHANGED rtOpts, EnterMasterFromListening
  PROVE  TimersFollowState'
BY OptionsTypes DEF EnterMasterFromListening, TimersFollowState, SetTimers, StartedOnEntering

(* Starting one of the others disturbs nothing.                            *)
LEMMA StartTimerTimers ==
  ASSUME TypeOK, TimersFollowState, UNCHANGED <<rtOpts, portState>>,
         syncWaiting' = syncWaiting,
         NEW t \in Timers \ {"SYNC_INTERVAL", "ANNOUNCE_INTERVAL"},
         StartTimer(t) \/ UNCHANGED timerVars
  PROVE  TimersFollowState'
BY DEF StartTimer, SetTimers, timerVars, TimersFollowState

-----------------------------------------------------------------------------
(* Every step keeps both.                                                  *)
Good == PortOK' /\ TimersFollowState'

LEMMA EnterGood ==
  ASSUME TypeOK, TimersFollowState, UNCHANGED rtOpts,
         NEW s \in PortStates \ {"LISTENING", "SLAVE", "PASSIVE"},
         NEW b \in FM!Slots \cup {NULL}, EnterWith(s, b)
  PROVE  Good
BY EnterTypes, EnterTimers DEF Good

LEMMA ListenGood ==
  ASSUME TypeOK, UNCHANGED rtOpts, NEW b \in FM!Slots \cup {NULL}, EnterListeningWith(b)
  PROVE  Good
BY ListenTypes, ListenTimers DEF Good

LEMMA MasterGood ==
  ASSUME TypeOK, UNCHANGED rtOpts, EnterMasterFromListening
  PROVE  Good
BY MasterTypes, MasterTimers DEF Good

LEMMA TimerGood ==
  ASSUME TypeOK, TimersFollowState, UNCHANGED <<rtOpts, portVars>>,
         NEW t \in Timers \ {"SYNC_INTERVAL", "ANNOUNCE_INTERVAL"},
         StartTimer(t) \/ UNCHANGED timerVars
  PROVE  Good
<1>1. portState' = portState /\ syncWaiting' = syncWaiting
  BY DEF portVars
<1> QED BY <1>1, StartTimerTypes, StartTimerTimers DEF Good

LEMMA PortStep ==
  ASSUME TypeOK, TimersFollowState, [Next]_vars PROVE Good
<1>1. bestMaster \in FM!Slots \cup {NULL} /\ NULL \in FM!Slots \cup {NULL}
  BY DEF TypeOK
<1>2. ASSUME NEW s \in PortStates \ {"LISTENING", "SLAVE", "PASSIVE"}, Enter(s), UNCHANGED rtOpts
      PROVE  Good
  BY <1>1, <1>2, EnterGood DEF Enter
<1>3. ASSUME EnterListening, UNCHANGED rtOpts PROVE Good
  BY <1>1, <1>3, ListenGood DEF EnterListening
<1>4. ASSUME UNCHANGED <<rtOpts, portVars, timerVars>> PROVE Good
  BY <1>4, TimerGood DEF Timers
<1>5. ASSUME ReadDisabled PROVE UNCHANGED rtOpts
  BY <1>5 DEF ReadDisabled
<1>6. ASSUME UNCHANGED adminVars PROVE UNCHANGED rtOpts
  BY <1>6 DEF adminVars
<1>7. CASE LoopDisables \/ DoInitFails \/ FaultCleared \/ HandleFails \/ IssueFails
           \/ Sigusr1StepsClock
  BY <1>2, <1>5, <1>7 DEF LoopDisables, DoInitFails, FaultCleared, HandleFails, IssueFails,
       Sigusr1StepsClock, PortStates
<1>8. CASE DoInit
  BY <1>1, <1>8, MasterGood, ListenGood DEF DoInit
<1>9. CASE DoInitWaits \/ NoDecision \/ MasterAlone \/ HandleNothing \/ HandleSet
           \/ HandleConfig \/ HandleEnablePort \/ StaysDisabled \/ NoSignal \/ SighupReloads
           \/ TimeoutCrashes \/ UNCHANGED vars
  BY <1>4, <1>6, <1>9 DEF DoInitWaits, NoDecision, MasterAlone, HandleNothing, HandleSet,
       HandleConfig, HandleEnablePort, StaysDisabled, NoSignal, SighupReloads,
       TimeoutCrashes, vars
<1>10. CASE CallDoState
  BY <1>10 DEF CallDoState, Good, PortOK, TypeOK, FM!Slots, timerVars, adminVars,
               TimersFollowState
<1>11. CASE StateDecision
  <2> DEFINE s == foreign_record_best'
             d == Decision(s)
  <2>1. UNCHANGED rtOpts
    BY <1>5, <1>11 DEF StateDecision
  <2>2. s \in FM!Slots
    BY <1>11 DEF StateDecision, FM!SelectBest
  <2>3. CASE d = portState
    BY <1>11, <2>1, <2>2, <2>3
       DEF StateDecision, Good, PortOK, TypeOK, FM!Slots, timerVars, TimersFollowState
  <2>4. CASE d # portState
    <3>1. EnterWith(d, s) /\ portState \in DecidingStates
      BY <1>11, <2>4 DEF StateDecision
    <3>2. d \in PortStates \ {"LISTENING"}
      BY <2>4 DEF Decision, PortStates
    <3> QED BY <2>1, <2>2, <3>1, <3>2, EnterTypes, EnterTimers DEF Good
  <2> QED BY <2>3, <2>4
<1>12. CASE HandleSync
  <2>1. /\ UNCHANGED rtOpts
        /\ bestMaster' \in (FM!Slots)' \cup {NULL}
        /\ running' \subseteq Timers /\ expired' \subseteq Timers
    BY <1>12 DEF HandleSync, adminVars, TypeOK, FM!Slots, StartTimer, SetTimers, Timers, timerVars
  <2>2. TimersFollowState'
    BY <1>12, <2>1, OptionsTypes
       DEF HandleSync, TimersFollowState, StartTimer, SetTimers, timerVars
  <2> QED BY <1>12, <2>1, <2>2 DEF HandleSync, Good, PortOK, TypeOK
<1>13. CASE ClockUpdated \/ ClockTimeoutIgnored
  BY <1>6, <1>13, TimerGood DEF ClockUpdated, ClockTimeoutIgnored, Timers
<1>14. CASE ServoResets
  BY <1>2, <1>3, <1>5, <1>14 DEF ServoResets, PortStates
<1>15. ASSUME NEW m \in Masters, NEW q \in Qualities, AnnounceOfParent(m, q) PROVE Good
  <2>1. UNCHANGED rtOpts /\ StartTimer("ANNOUNCE_RECEIPT")
    BY <1>6, <1>15 DEF AnnounceOfParent
  <2>2. TimersFollowState'
    BY <1>15, <2>1, StartTimerTimers DEF AnnounceOfParent, Timers
  <2>3. PortOK'
    BY <1>15, <2>1, OptionsTypes
       DEF AnnounceOfParent, PortOK, TypeOK, FM!Slots, StartTimer, SetTimers, Timers
  <2> QED BY <2>2, <2>3 DEF Good
<1>16. ASSUME NEW m \in Masters, NEW q \in Qualities,
              AnnounceOfActiveMaster(m, q) \/ AnnounceOfAnother(m, q)
       PROVE  Good
  BY <1>4, <1>6, <1>16, TimerGood DEF AnnounceOfActiveMaster, AnnounceOfAnother, Timers
<1>17. CASE HandleInitialize
  <2>1. UNCHANGED rtOpts
    BY <1>6, <1>17 DEF HandleInitialize
  <2> QED BY <1>17, <2>1
          DEF HandleInitialize, Good, PortOK, TypeOK, FM!Slots, timerVars, TimersFollowState,
              PortStates
<1>18. ASSUME UNCHANGED <<rtOpts, portVars, running>>, expired' \subseteq Timers PROVE Good
  <2>1. PortOK'
    BY <1>18 DEF PortOK, TypeOK, portVars, FM!Slots
  <2>2. TimersFollowState'
    BY <1>18 DEF TimersFollowState, portVars
  <2> QED BY <2>1, <2>2 DEF Good
<1>19. ASSUME NEW at, NEW t, NEW yes, NEW no, CheckTimer(at, t, yes, no) PROVE Good
  <2>1. expired' \subseteq Timers
    BY <1>19 DEF CheckTimer, TypeOK
  <2> QED BY <1>6, <1>18, <1>19, <2>1 DEF CheckTimer
<1>20. CASE CheckAnnounceReceipt \/ CheckClockUpdate \/ CheckDelayReq \/ CheckAnnounce
            \/ CheckPdelayReq \/ CheckRefresh \/ CheckSync
  BY <1>4, <1>6, <1>19, <1>20 DEF CheckAnnounceReceipt, CheckClockUpdate,
       CheckDelayReq, CheckAnnounce, CheckPdelayReq, CheckRefresh, CheckSync
<1>21. ASSUME NEW t \in Timers, TimerExpires(t) PROVE Good
  <2>1. expired' \subseteq Timers
    BY <1>21 DEF TimerExpires, TypeOK
  <2> QED BY <1>6, <1>18, <1>21, <2>1 DEF TimerExpires
<1>22. CASE TimeoutToMaster
  BY <1>2, <1>5, <1>22 DEF TimeoutToMaster, PortStates
<1>23. CASE TimeoutDisqualifies
  <2>1. CASE Enter("FAULTY") /\ ReadDisabled
    BY <1>2, <1>5, <2>1 DEF PortStates
  <2>2. CASE ~(Enter("FAULTY") /\ ReadDisabled)
    <3>1. /\ UNCHANGED <<portState, bestMaster, listenCount, syncWaiting, message_activity,
                         running, expired, rtOpts>>
          /\ announceTimeouts' = announceTimeouts + 1
      BY <1>23, <2>2 DEF TimeoutDisqualifies, timerVars, adminVars
    <3>2. announceTimeouts' \in 0 .. rtOpts'.announceTimeoutGracePeriod
      BY <1>23, <3>1, OptionsTypes DEF TimeoutDisqualifies, InGracePeriod, TypeOK
    <3> QED BY <3>1, <3>2 DEF Good, PortOK, TypeOK, FM!Slots, TimersFollowState
  <2> QED BY <2>1, <2>2
<1>24. CASE TimeoutResets
  <2> DEFINE unset == IF portState = "LISTENING" THEN bestMaster ELSE NULL
  <2>1. unset \in FM!Slots \cup {NULL} /\ UNCHANGED rtOpts
    BY <1>1, <1>5, <1>24 DEF TimeoutResets
  <2>2. EnterWith("INITIALIZING", unset) \/ EnterListeningWith(unset)
    BY <1>24 DEF TimeoutResets
  <2> QED BY <2>1, <2>2, EnterGood, ListenGood DEF PortStates
<1>25. CASE ClockTimeoutResets
  BY <1>3, <1>5, <1>25 DEF ClockTimeoutResets
<1>26. CASE Issue
  <2>1. StartTimer("DELAYREQ_INTERVAL") \/ UNCHANGED timerVars
    BY <1>26 DEF Issue
  <2> QED BY <1>6, <1>26, <2>1, TimerGood DEF Issue, Timers
<1>27. CASE RefreshIGMP
  BY <1>2, <1>4, <1>5, <1>6, <1>27 DEF RefreshIGMP, PortStates
<1>28. CASE LeaveDisabled
  BY <1>3, <1>5, <1>28, MasterGood DEF LeaveDisabled
<1>29. CASE EndDisables
  BY <1>2, <1>4, <1>5, <1>6, <1>29 DEF EndDisables, PortStates
<1>30. CASE RestartSubsystems
  <2>1. CASE restart
    BY <1>2, <1>30, <2>1 DEF RestartSubsystems, PortStates
  <2>2. CASE ~restart
    BY <1>4, <1>6, <1>30, <2>2 DEF RestartSubsystems
  <2> QED BY <2>1, <2>2
<1>31. CASE Handle
  BY <1>7, <1>9, <1>12, <1>13, <1>14, <1>15, <1>16, <1>17, <1>31 DEF Handle
<1> QED
  BY <1>7, <1>8, <1>9, <1>10, <1>11, <1>13, <1>20, <1>21, <1>22, <1>23, <1>24, <1>25,
     <1>26, <1>27, <1>28, <1>29, <1>30, <1>31 DEF Next, Program

-----------------------------------------------------------------------------
(* What configurations change.                                             *)
LEMMA AdminStep == ASSUME TypeOK, [Next]_vars PROVE AdminOK'
<1> DEFINE Fixed == UNCHANGED rtOpts
           Flags == /\ disabled' \in BOOLEAN /\ portDisabled' \in BOOLEAN
                    /\ restart' \in BOOLEAN /\ initFailure' \in BOOLEAN
<1>1. ASSUME Fixed, Flags PROVE AdminOK'
  BY <1>1 DEF AdminOK, TypeOK
<1>2. ASSUME ReadDisabled PROVE AdminOK'
  <2>1. disabled' = portDisabled \/ disabled' = disabled
    BY <1>2 DEF ReadDisabled
  <2> QED BY <1>1, <1>2, <2>1 DEF ReadDisabled, TypeOK
<1>3. ASSUME UNCHANGED adminVars PROVE AdminOK'
  BY <1>1, <1>3 DEF adminVars, TypeOK
<1>4. ASSUME NEW d \in BOOLEAN, ApplyConfig(d), UNCHANGED <<rtOpts, initFailure>>,
             disabled' = disabled \/ disabled' = FALSE
      PROVE  AdminOK'
  <2>1. portDisabled' \in BOOLEAN
    BY <1>4, Zenon DEF ApplyConfig
  <2>2. restart' \in BOOLEAN
    BY <1>4, Zenon DEF ApplyConfig
  <2>3. disabled' \in BOOLEAN
    BY <1>4, Zenon DEF TypeOK
  <2> QED BY <1>1, <1>4, <2>1, <2>2, <2>3 DEF TypeOK
<1>5. CASE DoInit
  <2>1. initFailure' \in BOOLEAN
    BY <1>5, Zenon DEF DoInit
  <2> QED BY <1>1, <1>5, <2>1 DEF DoInit, TypeOK
<1>6. CASE DoInitFails
  <2>1. initFailure' \in BOOLEAN
    BY <1>6, Zenon DEF DoInitFails
  <2> QED BY <1>1, <1>6, <2>1 DEF DoInitFails, TypeOK
<1>7. CASE RestartSubsystems
  <2>1. CASE restart
    <3>1. restart' \in BOOLEAN
      BY <1>7, <2>1, Zenon DEF RestartSubsystems
    <3> QED BY <1>1, <1>7, <2>1, <3>1 DEF RestartSubsystems, TypeOK
  <2>2. CASE ~restart
    BY <1>3, <1>7, <2>2 DEF RestartSubsystems
  <2> QED BY <2>1, <2>2
<1>8. CASE HandleConfig \/ HandleEnablePort \/ SighupReloads
  <2>1. TRUE \in BOOLEAN /\ FALSE \in BOOLEAN /\ portDisabled \in BOOLEAN
    BY DEF TypeOK
  <2>2. CASE HandleConfig
    <3>1. PICK d \in BOOLEAN : ApplyConfig(d)
      BY <2>1, <2>2 DEF HandleConfig
    <3> QED BY <1>4, <2>2, <3>1 DEF HandleConfig
  <2>3. CASE HandleEnablePort
    BY <1>4, <2>1, <2>3 DEF HandleEnablePort
  <2>4. CASE SighupReloads
    BY <1>4, <2>4 DEF SighupReloads
  <2> QED BY <1>8, <2>2, <2>3, <2>4
<1>9. CASE Handle
  <2>1. CASE HandleFails \/ ServoResets
    BY <1>2, <2>1 DEF HandleFails, ServoResets
  <2>2. CASE HandleNothing \/ HandleSync \/ ClockUpdated \/ HandleSet \/ HandleInitialize
    BY <1>3, <2>2 DEF HandleNothing, HandleSync, ClockUpdated, HandleSet, HandleInitialize
  <2>3. ASSUME NEW m \in Masters, NEW q \in Qualities,
               AnnounceOfParent(m, q) \/ AnnounceOfActiveMaster(m, q) \/ AnnounceOfAnother(m, q)
        PROVE  AdminOK'
    BY <1>3, <2>3 DEF AnnounceOfParent, AnnounceOfActiveMaster, AnnounceOfAnother
  <2> QED BY <1>8, <1>9, <2>1, <2>2, <2>3 DEF Handle
<1>10. CASE LoopDisables \/ StateDecision \/ FaultCleared \/ TimeoutToMaster \/ TimeoutResets
            \/ ClockTimeoutResets \/ IssueFails \/ LeaveDisabled \/ Sigusr1StepsClock
  BY <1>2, <1>10 DEF LoopDisables, StateDecision, FaultCleared, TimeoutToMaster, TimeoutResets,
       ClockTimeoutResets, IssueFails, LeaveDisabled, Sigusr1StepsClock
<1>11. CASE TimeoutDisqualifies \/ RefreshIGMP \/ EndDisables
  BY <1>2, <1>3, <1>11 DEF TimeoutDisqualifies, RefreshIGMP, EndDisables
<1>12. CASE DoInitWaits \/ CallDoState \/ NoDecision \/ MasterAlone \/ ClockTimeoutIgnored
            \/ Issue \/ StaysDisabled \/ NoSignal \/ TimeoutCrashes \/ UNCHANGED vars
  BY <1>3, <1>12 DEF DoInitWaits, CallDoState, NoDecision, MasterAlone, ClockTimeoutIgnored,
       Issue, StaysDisabled, NoSignal, TimeoutCrashes, vars
<1>13. CASE CheckAnnounceReceipt \/ CheckClockUpdate \/ CheckDelayReq \/ CheckAnnounce
            \/ CheckPdelayReq \/ CheckRefresh \/ CheckSync
  BY <1>3, <1>13 DEF CheckTimer, CheckAnnounceReceipt, CheckClockUpdate,
       CheckDelayReq, CheckAnnounce, CheckPdelayReq, CheckRefresh, CheckSync
<1>14. ASSUME NEW t \in Timers, TimerExpires(t) PROVE AdminOK'
  BY <1>3, <1>14 DEF TimerExpires
<1> QED
  BY <1>5, <1>6, <1>7, <1>8, <1>9, <1>10, <1>11, <1>12, <1>13, <1>14 DEF Next, Program

(* The parent is a recorded master, the sender of an Announce, or the port. *)
LEMMA ParentStep == ASSUME TypeOK, [Next]_vars PROVE ParentOK'
<1>1. ASSUME UNCHANGED parentDS PROVE ParentOK'
  BY <1>1 DEF ParentOK, TypeOK
<1>2. ASSUME parentDS' = ParentOf(OwnRecord) PROVE ParentOK'
  BY <1>2 DEF ParentOK, ParentOf, OwnRecord
<1>3. ASSUME NEW m \in Masters, NEW q \in Qualities, parentDS' = [id |-> m, quality |-> q]
      PROVE  ParentOK'
  BY <1>3 DEF ParentOK
<1>4. ASSUME NEW s \in FM!Slots, parentDS' = ParentOf(foreign[s]) PROVE ParentOK'
  <2>1. foreign[s] \in FM!Record
    BY DEF TypeOK, FM!TypeOK
  <2> QED BY <1>4, <2>1 DEF ParentOK, ParentOf, FM!Record
<1>5. CASE StateDecision
  <2> DEFINE s == foreign_record_best'
  <2>1. s \in FM!Slots
    BY <1>5 DEF StateDecision, FM!SelectBest
  <2>2. parentDS' \in {ParentOf(OwnRecord), parentDS, ParentOf(foreign[s])}
    BY <1>5 DEF StateDecision, ParentAfter
  <2> QED BY <1>1, <1>2, <1>4, <2>1, <2>2
<1>6. CASE DoInit \/ MasterAlone \/ TimeoutToMaster \/ LeaveDisabled
  BY <1>1, <1>2, <1>6 DEF DoInit, MasterAlone, TimeoutToMaster, LeaveDisabled
<1>7. CASE Handle
  <2>1. ASSUME NEW m \in Masters, NEW q \in Qualities,
               AnnounceOfParent(m, q) \/ AnnounceOfActiveMaster(m, q) \/ AnnounceOfAnother(m, q)
        PROVE  ParentOK'
    BY <1>1, <1>3, <2>1 DEF AnnounceOfParent, AnnounceOfActiveMaster, AnnounceOfAnother
  <2>2. CASE HandleNothing \/ HandleFails \/ HandleSync \/ ClockUpdated \/ ServoResets
             \/ HandleSet \/ HandleInitialize \/ HandleConfig \/ HandleEnablePort
    BY <1>1, <2>2 DEF HandleNothing, HandleFails, HandleSync, ClockUpdated, ServoResets,
         HandleSet, HandleInitialize, HandleConfig, HandleEnablePort
  <2> QED BY <1>7, <2>1, <2>2 DEF Handle
<1>8. CASE LoopDisables \/ DoInitFails \/ DoInitWaits \/ CallDoState \/ NoDecision
           \/ FaultCleared \/ TimeoutDisqualifies \/ TimeoutResets \/ TimeoutCrashes
  BY <1>1, <1>8 DEF LoopDisables, DoInitFails, DoInitWaits, CallDoState, NoDecision,
       FaultCleared, TimeoutDisqualifies, TimeoutResets, TimeoutCrashes
<1>9. CASE ClockTimeoutIgnored \/ ClockTimeoutResets \/ Issue \/ IssueFails \/ RefreshIGMP
           \/ StaysDisabled \/ EndDisables \/ RestartSubsystems \/ NoSignal
           \/ SighupReloads \/ Sigusr1StepsClock \/ UNCHANGED vars
  BY <1>1, <1>9 DEF ClockTimeoutIgnored, ClockTimeoutResets, Issue, IssueFails, RefreshIGMP,
       StaysDisabled, EndDisables, RestartSubsystems, NoSignal, SighupReloads,
       Sigusr1StepsClock, vars
<1>10. CASE CheckAnnounceReceipt \/ CheckClockUpdate \/ CheckDelayReq \/ CheckAnnounce
            \/ CheckPdelayReq \/ CheckRefresh \/ CheckSync
  BY <1>1, <1>10 DEF CheckTimer, CheckAnnounceReceipt, CheckClockUpdate,
       CheckDelayReq, CheckAnnounce, CheckPdelayReq, CheckRefresh, CheckSync
<1>11. ASSUME NEW t \in Timers, TimerExpires(t) PROVE ParentOK'
  BY <1>1, <1>11 DEF TimerExpires
<1> QED
  BY <1>5, <1>6, <1>7, <1>8, <1>9, <1>10, <1>11 DEF Next, Program

-----------------------------------------------------------------------------
(* The order of one iteration.                                             *)
FlowOK == /\ branch \in {"none", "slave", "master", "disabled"} /\ pc \in Steps
          /\ StepsFollowBranch

LEMMA FlowStep == ASSUME TypeOK, StepsFollowBranch, [Next]_vars PROVE FlowOK'
<1> USE DEF FlowOK, StepsFollowBranch, SlaveSteps, MasterSteps, HandleSteps, Steps
<1> branch \in {"none", "slave", "master", "disabled"} /\ pc \in Steps
  BY DEF TypeOK
<1>1. ASSUME UNCHANGED branch, pc' \in {"loop", "end", "signals", "crashed"} PROVE FlowOK'
  BY <1>1
<1>2. ASSUME UNCHANGED branch, AfterHandle PROVE FlowOK'
  BY <1>2 DEF AfterHandle
<1>3. ASSUME UNCHANGED branch, pc \in SlaveSteps, pc' \in SlaveSteps PROVE FlowOK'
  BY <1>3
<1>4. ASSUME NEW s, DispatchOn(s) PROVE FlowOK'
  BY <1>4 DEF DispatchOn
<1>5. ASSUME UNCHANGED branch, AfterSending, pc \in Sending PROVE FlowOK'
  BY <1>5 DEF AfterSending, Sending
<1>6. CASE LoopDisables \/ DoInit \/ DoInitFails \/ DoInitWaits \/ CallDoState
           \/ FaultCleared
  BY <1>6 DEF LoopDisables, DoInit, DoInitFails, DoInitWaits, CallDoState, FaultCleared
<1>7. CASE NoDecision \/ MasterAlone \/ StateDecision
  BY <1>4, <1>7 DEF NoDecision, MasterAlone, StateDecision
<1>8. CASE Handle
  <2>1. ASSUME NEW m \in Masters, NEW q \in Qualities,
               AnnounceOfParent(m, q) \/ AnnounceOfActiveMaster(m, q) \/ AnnounceOfAnother(m, q)
        PROVE  FlowOK'
    BY <1>2, <2>1 DEF AnnounceOfParent, AnnounceOfActiveMaster, AnnounceOfAnother
  <2>2. CASE HandleSet \/ HandleInitialize \/ HandleConfig \/ HandleEnablePort
    BY <1>2, <2>2 DEF HandleSet, HandleInitialize, HandleConfig, HandleEnablePort
  <2>3. ASSUME UNCHANGED branch, pc \in HandleSteps, pc' \in HandleSteps PROVE FlowOK'
    BY <2>3
  <2>4. CASE HandleNothing \/ HandleFails \/ HandleSync
    BY <1>2, <2>3, <2>4 DEF HandleNothing, HandleFails, HandleSync, Handling
  <2>5. CASE ClockUpdated \/ ServoResets
    BY <1>2, <2>3, <2>5 DEF ClockUpdated, ServoResets, ServoRuns
  <2> QED BY <1>8, <2>1, <2>2, <2>4, <2>5 DEF Handle
<1>9. CASE TimeoutToMaster \/ TimeoutDisqualifies \/ TimeoutResets \/ TimeoutCrashes
           \/ ClockTimeoutIgnored \/ ClockTimeoutResets
  BY <1>9 DEF TimeoutToMaster, TimeoutDisqualifies, TimeoutResets, TimeoutCrashes,
       ClockTimeoutIgnored, ClockTimeoutResets
<1>10. CASE Issue \/ IssueFails
  BY <1>5, <1>10 DEF Issue, IssueFails
<1>11. CASE RefreshIGMP \/ StaysDisabled \/ LeaveDisabled \/ EndDisables \/ RestartSubsystems
  BY <1>11 DEF RefreshIGMP, StaysDisabled, LeaveDisabled, EndDisables, RestartSubsystems
<1>12. CASE NoSignal \/ SighupReloads \/ Sigusr1StepsClock
  BY <1>12 DEF NoSignal, SighupReloads, Sigusr1StepsClock
<1>13. CASE CheckAnnounceReceipt \/ CheckClockUpdate \/ CheckDelayReq
  BY <1>13 DEF CheckTimer, CheckAnnounceReceipt, CheckClockUpdate, CheckDelayReq
<1>14. CASE CheckAnnounce \/ CheckPdelayReq \/ CheckRefresh \/ CheckSync
  BY <1>14 DEF CheckTimer, CheckAnnounce, CheckPdelayReq, CheckRefresh, CheckSync
<1>15. CASE UNCHANGED vars
  BY <1>15 DEF vars
<1>16. ASSUME NEW t \in Timers, TimerExpires(t) PROVE FlowOK'
  BY <1>16 DEF TimerExpires
<1> QED
  BY <1>6, <1>7, <1>8, <1>9, <1>10, <1>11, <1>12, <1>13, <1>14, <1>15, <1>16
     DEF Next, Program

(* An Announce is handled only after the decision on those before it.      *)
LEMMA DecidedStep == ASSUME IInv, [Next]_vars PROVE DecidedBefore'
<1> USE DEF IInv, DecidedBefore, BeforeAnnounce, StepsFollowBranch,
            SlaveSteps, MasterSteps, HandleSteps, DecidingStates
<1>1. ASSUME pc' \in {"loop", "bmc", "fault", "end", "restart", "signals", "crashed",
                     "enabled", "announceReceipt", "announceTimeout", "clockUpdate",
                     "clockTimeout", "delayReq", "issueDelayReq"}
      PROVE  DecidedBefore'
  BY <1>1
<1>2. ASSUME AfterHandle PROVE DecidedBefore'
  BY <1>1, <1>2 DEF AfterHandle
<1>3. ASSUME BeforeAnnounce, UNCHANGED record_update,
             portState' \in {portState, "FAULTY"}
      PROVE  DecidedBefore'
  BY <1>3
<1>4. CASE LoopDisables \/ DoInit \/ DoInitFails \/ DoInitWaits \/ CallDoState \/ FaultCleared
  BY <1>1, <1>4 DEF LoopDisables, DoInit, DoInitFails, DoInitWaits, CallDoState, FaultCleared
<1>5. CASE NoDecision \/ MasterAlone \/ StateDecision
  BY <1>5 DEF NoDecision, MasterAlone, StateDecision, ringVars, portVars, FM!SelectBest,
       FM!SelectNone
<1>6. CASE Handle
  <2>1. ASSUME NEW m \in Masters, NEW q \in Qualities,
               AnnounceOfParent(m, q) \/ AnnounceOfActiveMaster(m, q) \/ AnnounceOfAnother(m, q)
        PROVE  DecidedBefore'
    BY <1>2, <2>1 DEF AnnounceOfParent, AnnounceOfActiveMaster, AnnounceOfAnother
  <2>2. CASE HandleSet \/ HandleInitialize \/ HandleConfig \/ HandleEnablePort
    BY <1>2, <2>2 DEF HandleSet, HandleInitialize, HandleConfig, HandleEnablePort
  <2>3. CASE HandleNothing \/ HandleFails \/ HandleSync \/ ClockUpdated
    BY <1>3, <2>3 DEF HandleNothing, HandleFails, HandleSync, ClockUpdated, ServoRuns,
         Handling, Enter, EnterWith, ringVars, portVars
  <2>4. CASE ServoResets
    BY <2>4 DEF ServoResets, ServoRuns, ringVars
  <2> QED BY <1>6, <2>1, <2>2, <2>3, <2>4 DEF Handle
<1>7. CASE TimeoutToMaster \/ TimeoutDisqualifies \/ TimeoutResets \/ TimeoutCrashes
           \/ ClockTimeoutIgnored \/ ClockTimeoutResets
  BY <1>1, <1>7 DEF TimeoutToMaster, TimeoutDisqualifies, TimeoutResets, TimeoutCrashes,
       ClockTimeoutIgnored, ClockTimeoutResets
<1>8. CASE Issue \/ IssueFails
  <2>1. CASE pc = "issueDelayReq" \/ (pc = "issuePdelayReq" /\ branch # "master")
    BY <1>1, <1>8, <2>1 DEF Issue, IssueFails, AfterSending
  <2>2. CASE pc \in {"issueAnnounce", "issueSync"} \/ (pc = "issuePdelayReq" /\ branch = "master")
    BY <1>3, <1>8, <2>2 DEF Issue, IssueFails, Enter, EnterWith, ringVars, portVars
  <2> QED BY <1>8, <2>1, <2>2 DEF Issue, IssueFails, Sending
<1>9. CASE RefreshIGMP \/ StaysDisabled \/ LeaveDisabled \/ EndDisables \/ RestartSubsystems
  BY <1>1, <1>3, <1>9 DEF RefreshIGMP, StaysDisabled, LeaveDisabled, EndDisables,
       RestartSubsystems, ringVars, portVars
<1>10. CASE NoSignal \/ SighupReloads \/ Sigusr1StepsClock
  BY <1>1, <1>10 DEF NoSignal, SighupReloads, Sigusr1StepsClock
<1>11. CASE CheckAnnounceReceipt \/ CheckClockUpdate
  BY <1>1, <1>11 DEF CheckTimer, CheckAnnounceReceipt, CheckClockUpdate
<1>12. CASE CheckDelayReq
  BY <1>12 DEF CheckTimer, CheckDelayReq
<1>13. CASE CheckAnnounce \/ CheckPdelayReq \/ CheckRefresh \/ CheckSync
  BY <1>3, <1>13 DEF CheckTimer, CheckAnnounce, CheckPdelayReq, CheckRefresh, CheckSync,
       ringVars, portVars
<1>14. CASE UNCHANGED vars
  BY <1>14 DEF vars, ringVars, portVars
<1>15. ASSUME NEW t \in Timers, TimerExpires(t) PROVE DecidedBefore'
  BY <1>15 DEF TimerExpires, ringVars, portVars
<1> QED
  BY <1>4, <1>5, <1>6, <1>7, <1>8, <1>9, <1>10, <1>11, <1>12, <1>13, <1>14, <1>15
     DEF Next, Program

(* No step moves the pointer but those that follow bmc(), and those that   *)
(* clear it.                                                               *)
LEMMA SelectedStep == ASSUME IInv, [Next]_vars PROVE BestIsSelected'
<1> USE DEF IInv, BestIsSelected
<1>1. ASSUME UNCHANGED foreign_record_best, bestMaster' \in {bestMaster, NULL}
      PROVE  BestIsSelected'
  BY <1>1 DEF NULL
<1>2. ASSUME NEW s, NEW b \in {bestMaster, NULL},
             EnterWith(s, b) \/ EnterListeningWith(b) \/ EnterMasterFromListening
      PROVE  bestMaster' \in {bestMaster, NULL}
  BY <1>2 DEF EnterWith, EnterListeningWith, ListenFails, Listen, EnterMasterFromListening
<1>3. ASSUME NEW s, Enter(s) PROVE bestMaster' \in {bestMaster, NULL}
  BY <1>2, <1>3 DEF Enter
<1>4. ASSUME EnterListening PROVE bestMaster' \in {bestMaster, NULL}
  BY <1>2, <1>4 DEF EnterListening
<1>5. ASSUME UNCHANGED ringVars \/ FM!InitData \/ FM!ClearRecords \/ FM!RequestUpdate
             \/ FM!SelectNone
      PROVE  UNCHANGED foreign_record_best
  BY <1>5 DEF ringVars, FM!InitData, FM!ClearRecords, FM!RequestUpdate, FM!SelectNone
<1>6. CASE LoopDisables \/ DoInitFails \/ FaultCleared
  BY <1>1, <1>3, <1>5, <1>6 DEF LoopDisables, DoInitFails, FaultCleared
<1>7. CASE DoInit
  BY <1>1, <1>2, <1>5, <1>7 DEF DoInit
<1>8. CASE DoInitWaits \/ CallDoState \/ NoDecision \/ MasterAlone
  BY <1>1, <1>5, <1>8 DEF DoInitWaits, CallDoState, NoDecision, MasterAlone, portVars
<1>9. CASE StateDecision
  BY <1>9 DEF StateDecision, EnterWith, NULL
<1>10. CASE Handle
  <2>1. ASSUME NEW m \in Masters, NEW q \in Qualities,
               AnnounceOfParent(m, q) \/ AnnounceOfActiveMaster(m, q) \/ AnnounceOfAnother(m, q)
        PROVE  BestIsSelected'
    BY <1>1, <1>5, <2>1 DEF AnnounceOfParent, AnnounceOfActiveMaster, AnnounceOfAnother,
         FM!AddForeign, portVars
  <2>2. CASE HandleFails \/ ServoResets
    BY <1>1, <1>3, <1>4, <1>5, <2>2 DEF HandleFails, ServoResets
  <2>3. CASE HandleNothing \/ HandleSync \/ ClockUpdated \/ HandleSet \/ HandleInitialize
             \/ HandleConfig \/ HandleEnablePort
    BY <1>1, <1>5, <2>3 DEF HandleNothing, HandleSync, ClockUpdated, HandleSet,
         HandleInitialize, HandleConfig, HandleEnablePort, portVars
  <2> QED BY <1>10, <2>1, <2>2, <2>3 DEF Handle
<1>11. CASE TimeoutToMaster \/ ClockTimeoutResets \/ IssueFails \/ Sigusr1StepsClock
  BY <1>1, <1>3, <1>4, <1>5, <1>11 DEF TimeoutToMaster, ClockTimeoutResets, IssueFails,
       Sigusr1StepsClock
<1>12. CASE TimeoutDisqualifies
  BY <1>1, <1>3, <1>12 DEF TimeoutDisqualifies
<1>13. CASE TimeoutResets
  BY <1>1, <1>2, <1>5, <1>13 DEF TimeoutResets
<1>14. CASE TimeoutCrashes \/ ClockTimeoutIgnored \/ Issue \/ StaysDisabled \/ NoSignal
            \/ SighupReloads \/ UNCHANGED vars
  BY <1>1, <1>5, <1>14 DEF TimeoutCrashes, ClockTimeoutIgnored, Issue, StaysDisabled,
       NoSignal, SighupReloads, portVars, vars
<1>15. CASE LeaveDisabled
  BY <1>1, <1>2, <1>4, <1>5, <1>15 DEF LeaveDisabled
<1>16. CASE RefreshIGMP \/ EndDisables \/ RestartSubsystems
  BY <1>1, <1>3, <1>5, <1>16 DEF RefreshIGMP, EndDisables, RestartSubsystems, portVars
<1>17. CASE CheckAnnounceReceipt \/ CheckClockUpdate \/ CheckDelayReq \/ CheckAnnounce
            \/ CheckPdelayReq \/ CheckRefresh \/ CheckSync
  BY <1>1, <1>5, <1>17 DEF CheckTimer, CheckAnnounceReceipt, CheckClockUpdate,
       CheckDelayReq, CheckAnnounce, CheckPdelayReq, CheckRefresh, CheckSync, portVars
<1>18. ASSUME NEW t \in Timers, TimerExpires(t) PROVE BestIsSelected'
  BY <1>1, <1>5, <1>18 DEF TimerExpires, portVars
<1> QED
  BY <1>6, <1>7, <1>8, <1>9, <1>10, <1>11, <1>12, <1>13, <1>14, <1>15, <1>16, <1>17, <1>18
     DEF Next, Program

-----------------------------------------------------------------------------
(* The parts together.                                                     *)
LEMMA PortInit == Init => IInv /\ TimersFollowState
<1> SUFFICES ASSUME Init PROVE IInv /\ TimersFollowState
  OBVIOUS
<1>1. FM!TypeOK
  BY SameRecords, FMP!InitType, RecordsAssumption DEF Init
<1>2. portDisabled \in BOOLEAN /\ disabled \in BOOLEAN
  BY Zenon DEF Init
<1>3. PortOK
  <2>1. syncWaiting \in BOOLEAN /\ message_activity \in BOOLEAN
    BY Zenon DEF Init
  <2>2. portState \in PortStates
    BY DEF Init, PortStates
  <2>3. announceTimeouts \in 0 .. rtOpts.announceTimeoutGracePeriod
        /\ listenCount \in 0 .. rtOpts.maxListen
    BY OptionsAssumption DEF Init, Options
  <2> QED BY <2>1, <2>2, <2>3 DEF Init, PortOK
<1>4. ParentOK
  BY DEF Init, ParentOK, ParentOf, FM!ZeroRecord, FM!NoMaster
<1>5. restart \in BOOLEAN /\ initFailure \in BOOLEAN
  BY Zenon DEF Init
<1>6. TypeOK
  BY <1>1, <1>2, <1>3, <1>4, <1>5, TypeParts DEF Init, AdminOK, Steps
<1>7. StepsFollowBranch /\ DecidedBefore /\ BestIsSelected
  BY DEF Init, StepsFollowBranch, DecidedBefore, BeforeAnnounce, BestIsSelected,
         SlaveSteps, MasterSteps, HandleSteps
<1>8. TimersFollowState
  BY DEF Init, TimersFollowState
<1> QED BY <1>6, <1>7, <1>8 DEF IInv

LEMMA PortNext ==
  ASSUME IInv, TimersFollowState, [Next]_vars PROVE (IInv /\ TimersFollowState)'
<1>1. TypeOK /\ StepsFollowBranch
  BY DEF IInv
<1>2. (FM!TypeOK)' /\ AdminOK' /\ ParentOK' /\ FlowOK'
  BY <1>1, RecordsTypes, AdminStep, ParentStep, FlowStep
<1>3. PortOK' /\ TimersFollowState'
  BY <1>1, PortStep DEF Good
<1>4. DecidedBefore' /\ BestIsSelected'
  BY DecidedStep, SelectedStep
<1>5. TypeOK'
  BY <1>2, <1>3, TypeParts DEF FlowOK, TypeOK, PortOK, AdminOK, ParentOK
<1> QED BY <1>2, <1>3, <1>4, <1>5 DEF IInv, FlowOK

(* The invariant: types, the timers of each state, the order of doState(). *)
THEOREM InvariantHolds == Spec => [](IInv /\ TimersFollowState)
BY PortInit, PortNext, PTL DEF Spec

(* protocol(), doState() and toState() keep every variable in its range,   *)
(* restarts, faults, timeouts and messages in any order included.          *)
THEOREM TypeCorrect == Spec => []TypeOK
BY InvariantHolds, PTL DEF IInv

(* toState() of all seven states, from all seven states, leaves the timers *)
(* of the state the port comes to running.                                 *)
THEOREM TimersAlwaysFollowState == Spec => []TimersFollowState
BY InvariantHolds, PTL

(* Whatever the port does, it uses addForeign(), bmc() and the resets in   *)
(* the order the foreign master data set relies on.                        *)
THEOREM ImplementsRecords == Spec => ImplementsForeignMasters
<1>1. Init => FM!Init
  BY DEF Init
<1>2. IInv /\ [Next]_vars => [FM!Next]_(FM!ringVars)
  <2>1. ASSUME [FM!Next]_ringVars PROVE [FM!Next]_(FM!ringVars)
    BY <2>1 DEF ringVars, FM!ringVars
  <2> QED BY <2>1, StepOfRecords
<1> QED BY <1>1, <1>2, InvariantHolds, PTL DEF Spec, ImplementsForeignMasters, FM!Spec

-----------------------------------------------------------------------------
(* Second layer: the records together with the state and the parent.  Most *)
(* steps leave all of them alone or lead to a state without a master; the  *)
(* rest are few.                                                           *)
Keeps == /\ UNCHANGED <<foreign, number_foreign_records, foreign_record_best, heard,
                        parentDS, portState, bestMaster>>
         /\ record_update' \in {record_update, TRUE}

Leaves == portState' \in {"INITIALIZING", "FAULTY", "DISABLED", "LISTENING"}

TakesOver == portState' = "MASTER" /\ number_foreign_records' = 0 /\ ~rtOpts.slaveOnly

Announced == \E m \in Masters, q \in Qualities :
               AnnounceOfParent(m, q) \/ AnnounceOfActiveMaster(m, q) \/ AnnounceOfAnother(m, q)

Kinds == \/ Keeps \/ Leaves \/ TakesOver \/ MasterAlone \/ StateDecision
         \/ Announced \/ TimeoutDisqualifies

LEMMA StepKinds == ASSUME TypeOK, [Next]_vars PROVE Kinds
<1> USE DEF Kinds
<1>1. ASSUME NEW s, NEW b, EnterWith(s, b), s \in {"INITIALIZING", "FAULTY", "DISABLED"}
      PROVE  Leaves
  BY <1>1 DEF EnterWith, Leaves
<1>2. ASSUME NEW b, EnterListeningWith(b) PROVE Leaves
  BY <1>2 DEF EnterListeningWith, ListenFails, Listen, Leaves
<1>3. ASSUME EnterMasterFromListening, FM!ClearRecords, IgnoresAnnounces PROVE TakesOver
  BY <1>3, OptionsTypes DEF EnterMasterFromListening, FM!ClearRecords, IgnoresAnnounces, TakesOver
<1>4. ASSUME UNCHANGED <<ringVars, portVars, parentDS>> PROVE Keeps
  BY <1>4 DEF ringVars, portVars, Keeps
<1>5. CASE LoopDisables \/ DoInitFails \/ FaultCleared \/ IssueFails \/ Sigusr1StepsClock
  BY <1>1, <1>5 DEF LoopDisables, DoInitFails, FaultCleared, IssueFails, Sigusr1StepsClock,
       Enter
<1>6. CASE DoInit
  BY <1>2, <1>3, <1>6 DEF DoInit
<1>7. CASE DoInitWaits \/ NoDecision \/ ClockTimeoutIgnored \/ Issue \/ StaysDisabled
           \/ NoSignal \/ SighupReloads \/ TimeoutCrashes
  BY <1>4, <1>7 DEF DoInitWaits, NoDecision, ClockTimeoutIgnored, Issue, StaysDisabled,
       NoSignal, SighupReloads, TimeoutCrashes
<1>8. CASE CallDoState \/ UNCHANGED vars
  BY <1>4, <1>8 DEF CallDoState, Keeps, ringVars, vars
<1>9. CASE Handle
  <2>1. CASE HandleFails
    BY <1>1, <2>1 DEF HandleFails, Enter
  <2>2. CASE ServoResets
    BY <1>1, <1>2, <2>2 DEF ServoResets, Enter, EnterListening
  <2>3. CASE HandleNothing \/ ClockUpdated \/ HandleConfig \/ HandleEnablePort
    BY <1>4, <2>3 DEF HandleNothing, ClockUpdated, HandleConfig, HandleEnablePort
  <2>4. CASE HandleSync \/ HandleSet
    BY <2>4 DEF HandleSync, HandleSet, FM!RequestUpdate, Keeps, ringVars, portVars
  <2>5. CASE HandleInitialize
    BY <2>5 DEF HandleInitialize, Leaves
  <2> QED BY <1>9, <2>1, <2>2, <2>3, <2>4, <2>5 DEF Handle, Announced
<1>10. CASE TimeoutToMaster
  BY <1>10 DEF TimeoutToMaster, TakesOver, Enter, EnterWith, FM!ClearRecords
<1>11. CASE TimeoutResets
  BY <1>1, <1>2, <1>11 DEF TimeoutResets
<1>12. CASE ClockTimeoutResets
  BY <1>2, <1>12 DEF ClockTimeoutResets, EnterListening
<1>13. CASE RefreshIGMP \/ EndDisables \/ RestartSubsystems
  BY <1>1, <1>4, <1>13 DEF RefreshIGMP, EndDisables, RestartSubsystems, Enter
<1>14. CASE LeaveDisabled
  BY <1>2, <1>3, <1>14 DEF LeaveDisabled, EnterListening
<1>15. CASE CheckAnnounceReceipt \/ CheckClockUpdate \/ CheckDelayReq \/ CheckAnnounce
            \/ CheckPdelayReq \/ CheckRefresh \/ CheckSync
  BY <1>4, <1>15 DEF CheckTimer, CheckAnnounceReceipt, CheckClockUpdate,
       CheckDelayReq, CheckAnnounce, CheckPdelayReq, CheckRefresh, CheckSync
<1>16. ASSUME NEW t \in Timers, TimerExpires(t) PROVE Keeps
  BY <1>4, <1>16 DEF TimerExpires
<1> QED
  BY <1>5, <1>6, <1>7, <1>8, <1>9, <1>10, <1>11, <1>12, <1>13, <1>14, <1>15, <1>16
     DEF Next, Program

(* No step changes the options.                                            *)
LEMMA OptionsFixed == ASSUME [Next]_vars PROVE UNCHANGED rtOpts
<1> USE DEF adminVars, ReadDisabled
<1>1. CASE LoopDisables \/ DoInit \/ DoInitFails \/ DoInitWaits \/ CallDoState \/ NoDecision
           \/ MasterAlone \/ StateDecision \/ FaultCleared
  BY <1>1 DEF LoopDisables, DoInit, DoInitFails, DoInitWaits, CallDoState, NoDecision,
       MasterAlone, StateDecision, FaultCleared
<1>2. CASE Handle
  BY <1>2 DEF Handle, HandleNothing, HandleFails, HandleSync, ClockUpdated, ServoResets,
       HandleSet, HandleInitialize, HandleConfig, HandleEnablePort,
       AnnounceOfParent, AnnounceOfActiveMaster, AnnounceOfAnother
<1>3. CASE TimeoutToMaster \/ TimeoutDisqualifies \/ TimeoutResets \/ TimeoutCrashes
           \/ ClockTimeoutIgnored \/ ClockTimeoutResets \/ Issue \/ IssueFails
  BY <1>3 DEF TimeoutToMaster, TimeoutDisqualifies, TimeoutResets, TimeoutCrashes,
       ClockTimeoutIgnored, ClockTimeoutResets, Issue, IssueFails
<1>4. CASE RefreshIGMP \/ StaysDisabled \/ LeaveDisabled \/ EndDisables \/ RestartSubsystems
           \/ NoSignal \/ SighupReloads \/ Sigusr1StepsClock \/ UNCHANGED vars
  BY <1>4 DEF RefreshIGMP, StaysDisabled, LeaveDisabled, EndDisables, RestartSubsystems,
       NoSignal, SighupReloads, Sigusr1StepsClock, vars
<1>5. CASE CheckAnnounceReceipt \/ CheckClockUpdate \/ CheckDelayReq \/ CheckAnnounce
            \/ CheckPdelayReq \/ CheckRefresh \/ CheckSync
  BY <1>5 DEF CheckTimer, CheckAnnounceReceipt, CheckClockUpdate,
       CheckDelayReq, CheckAnnounce, CheckPdelayReq, CheckRefresh, CheckSync
<1>6. ASSUME NEW t \in Timers, TimerExpires(t) PROVE UNCHANGED rtOpts
  BY <1>6 DEF TimerExpires
<1> QED BY <1>1, <1>2, <1>3, <1>4, <1>5, <1>6 DEF Next, Program

-----------------------------------------------------------------------------
SlaveHasBest     == portState = "SLAVE" => bestMaster # NULL
SlavesDoNotServe == rtOpts.slaveOnly => portState \notin {"MASTER", "PASSIVE"}
HeardAreCounted  == heard # {} => number_foreign_records > 0
Following        == SlaveHasBest /\ SlavesDoNotServe /\ HeardAreCounted

(* A master heard since the last reset has a slot: no Announce is counted  *)
(* without a record.                                                       *)
LEMMA HeardStep ==
  ASSUME FM!TypeOK, HeardAreCounted, [FM!Next]_ringVars PROVE HeardAreCounted'
<1> USE DEF HeardAreCounted
<1>1. number_foreign_records \in Nat
  BY RecordsAssumption DEF FM!TypeOK
<1>2. ASSUME NEW m \in Masters, NEW q \in Qualities, FM!AddForeign(m, q) PROVE HeardAreCounted'
  <2>1. CASE FM!RefreshRecord(m, q)
    <3>1. PICK k : k \in 0 .. number_foreign_records - 1
      BY <2>1 DEF FM!RefreshRecord, FM!Hits, FM!Used
    <3>2. number_foreign_records' = number_foreign_records
      BY <2>1 DEF FM!RefreshRecord
    <3> QED BY <1>1, <3>1, <3>2
  <2>2. CASE FM!InsertRecord(m, q)
    BY <1>1, <2>2, RecordsAssumption DEF FM!InsertRecord, FM!NumberAfterInsert
  <2> QED BY <1>2, <2>1, <2>2 DEF FM!AddForeign
<1>3. ASSUME UNCHANGED <<heard, number_foreign_records>> PROVE HeardAreCounted'
  BY <1>3
<1>4. ASSUME FM!ClearRecords \/ FM!InitData PROVE HeardAreCounted'
  BY <1>4 DEF FM!ClearRecords, FM!InitData
<1>5. CASE FM!Next
  BY <1>2, <1>3, <1>4, <1>5 DEF FM!Next, FM!SelectBest, FM!SelectNone, FM!UpdateBest,
     FM!RequestUpdate, FM!DisqualifyBest
<1> QED BY <1>3, <1>5 DEF ringVars

LEMMA FollowingStep ==
  ASSUME IInv, Following, [Next]_vars PROVE Following'
<1>1. HeardAreCounted'
  BY HeardStep, StepOfRecords DEF Following, IInv, TypeOK
<1>2. Kinds /\ UNCHANGED rtOpts
  BY StepKinds, OptionsFixed DEF IInv
<1> USE DEF Following, SlaveHasBest, SlavesDoNotServe
<1>3. CASE Keeps \/ Leaves \/ TakesOver
  BY <1>1, <1>2, <1>3 DEF Keeps, Leaves, TakesOver
<1>4. CASE MasterAlone
  BY <1>1, <1>2, <1>4 DEF MasterAlone, portVars
<1>5. CASE StateDecision
  <2> DEFINE s == foreign_record_best'
             d == Decision(s)
  <2>1. s # NULL
    BY <1>5 DEF StateDecision, FM!SelectBest, FM!Slots, NULL
  <2>2. portState' = d /\ (d = "SLAVE" => bestMaster' = s)
    BY <1>5 DEF StateDecision, EnterWith
  <2>3. rtOpts.slaveOnly => d = "SLAVE"
    BY DEF Decision
  <2> QED BY <1>1, <1>2, <2>1, <2>2, <2>3
<1>6. CASE Announced
  BY <1>1, <1>2, <1>6 DEF Announced, AnnounceOfParent, AnnounceOfActiveMaster,
     AnnounceOfAnother, portVars
<1>7. CASE TimeoutDisqualifies
  BY <1>1, <1>2, <1>7 DEF TimeoutDisqualifies, Enter, EnterWith
<1> QED BY <1>2, <1>3, <1>4, <1>5, <1>6, <1>7 DEF Kinds

(* The two copies of the parent's Announce: what handleAnnounce() writes,  *)
(* and what addForeign() must not overwrite.                               *)
LEMMA AgreeStep ==
  ASSUME IInv, FMP!IInv, Following, DataSetsAgree, [Next]_vars PROVE DataSetsAgree'
<1>1. Kinds
  BY StepKinds DEF IInv
<1>2. foreign \in [FM!Slots -> FM!Record] /\ bestMaster \in FM!Slots \cup {NULL}
  BY DEF IInv, TypeOK, FM!TypeOK
<1> USE DEF DataSetsAgree
<1>3. CASE Keeps \/ Leaves \/ TakesOver
  BY <1>3 DEF Keeps, Leaves, TakesOver
<1>4. CASE MasterAlone
  BY <1>4 DEF MasterAlone, portVars
<1>5. CASE StateDecision
  <2> DEFINE s == foreign_record_best'
             d == Decision(s)
  <2>1. portState' = d /\ (d = "SLAVE" => bestMaster' = s) /\ parentDS' = ParentAfter(d, s)
    BY <1>5 DEF StateDecision, EnterWith
  <2>2. s # NULL /\ foreign' = foreign
    BY <1>5 DEF StateDecision, FM!SelectBest, FM!Slots, NULL
  <2>3. ASSUME d = "SLAVE" PROVE parentDS' = ParentOf(foreign[s])
    BY <2>1, <2>3 DEF ParentAfter
  <2> QED BY <2>1, <2>2, <2>3
<1>6. CASE Announced
  <2> PICK m \in Masters, q \in Qualities :
        AnnounceOfParent(m, q) \/ AnnounceOfActiveMaster(m, q) \/ AnnounceOfAnother(m, q)
    BY <1>6 DEF Announced
  <2>1. CASE AnnounceOfParent(m, q)
    <3>1. /\ bestMaster \in FM!Slots /\ bestMaster' = bestMaster /\ heard' = heard
          /\ foreign' = [foreign EXCEPT ![bestMaster].quality = q]
          /\ portState = "SLAVE" /\ m = parentDS.id /\ parentDS' = [id |-> m, quality |-> q]
      BY <1>2, <2>1 DEF AnnounceOfParent
    <3>2. foreign'[bestMaster].id = foreign[bestMaster].id /\ foreign'[bestMaster].quality = q
      BY <1>2, <3>1 DEF FM!Record
    <3>3. ASSUME m \in heard PROVE foreign[bestMaster].id = m
      BY <3>1, <3>3 DEF ParentOf
    <3>4. ASSUME m \in heard PROVE ParentOf(foreign'[bestMaster]) = parentDS'
      BY <3>1, <3>2, <3>3, <3>4 DEF ParentOf
    <3> QED BY <3>1, <3>4 DEF NULL, FM!Slots
  <2>2. CASE AnnounceOfActiveMaster(m, q)
    BY <2>2 DEF AnnounceOfActiveMaster, portVars
  <2>3. CASE AnnounceOfAnother(m, q)
    <3> SUFFICES ASSUME portState' = "SLAVE", parentDS'.id \in heard'
                 PROVE  bestMaster' # NULL /\ ParentOf(foreign'[bestMaster']) = parentDS'
      OBVIOUS
    <3>1. /\ portState = "SLAVE" /\ parentDS' = parentDS /\ bestMaster' = bestMaster
          /\ m # parentDS.id /\ FM!AddForeign(m, q) /\ heard' = heard \cup {m}
      BY <2>3 DEF AnnounceOfAnother, portVars, FM!AddForeign
    <3>2. parentDS.id \in heard
      BY <3>1
    <3>3. bestMaster # NULL /\ ParentOf(foreign[bestMaster]) = parentDS
          /\ bestMaster = foreign_record_best
      BY <3>1, <3>2 DEF IInv, BestIsSelected
    <3>4. ~record_update /\ number_foreign_records > 0
      BY <2>3, <3>2 DEF AnnounceOfAnother, AnnounceArrives, IInv, DecidedBefore,
         BeforeAnnounce, HandleSteps, DecidingStates, Following, HeardAreCounted
    <3>5. FMP!AddForeign(m, q)
      BY <3>1 DEF FM!AddForeign, FMP!AddForeign, FM!RefreshRecord, FMP!RefreshRecord,
         FM!InsertRecord, FMP!InsertRecord, FM!Hits, FMP!Hits, FM!Probe, FMP!Probe,
         FM!Used, FMP!Used, FM!Announced, FMP!Announced, FM!InsertSlot, FMP!InsertSlot,
         FM!NumberAfterInsert, FMP!NumberAfterInsert
    <3>6. \/ foreign'[foreign_record_best] = foreign[foreign_record_best]
          \/ foreign[foreign_record_best].id = m
      BY <3>4, <3>5, FMP!AnnounceKeepsBest, RecordsAssumption
    <3>7. foreign[bestMaster].id = parentDS.id
      BY <3>3 DEF ParentOf
    <3> QED BY <3>1, <3>3, <3>6, <3>7
  <2> QED BY <2>1, <2>2, <2>3
<1>7. CASE TimeoutDisqualifies
  <2>1. CASE portState' = "FAULTY"
    BY <2>1
  <2>2. CASE portState' # "FAULTY"
    <3>1. /\ portState' = portState /\ bestMaster' = bestMaster /\ bestMaster \in FM!Slots
          /\ UNCHANGED <<parentDS, heard>>
          /\ foreign' = [foreign EXCEPT ![bestMaster].disqualified = TRUE]
      BY <1>2, <1>7, <2>2 DEF TimeoutDisqualifies, Enter, EnterWith
    <3>2. ParentOf(foreign'[bestMaster]) = ParentOf(foreign[bestMaster])
      BY <1>2, <3>1 DEF ParentOf, FM!Record
    <3> QED BY <3>1, <3>2
  <2> QED BY <2>1, <2>2
<1> QED BY <1>1, <1>3, <1>4, <1>5, <1>6, <1>7 DEF Kinds

(* What bmc() decided stays right until the next decision is due: by its   *)
(* own order, in which a disqualified record wins, no record compares      *)
(* below what the port is or follows.                                      *)
SelectionStands ==
  ~record_update /\ FM!Used # {} =>
    /\ portState = "MASTER" => \A s \in FM!Used : ~FM!Better(foreign[s], OwnRecord)
    /\ portState \in {"SLAVE", "PASSIVE"} =>
         \A s \in FM!Used : ~FM!Better(foreign[s], foreign[foreign_record_best])

LEMMA BetterIsOrder ==
  ASSUME NEW a, NEW b, NEW c,
         a.quality \in Int, b.quality \in Int, c.quality \in Int,
         a.id \in Int, b.id \in Int, c.id \in Int,
         a.disqualified \in BOOLEAN, b.disqualified \in BOOLEAN, c.disqualified \in BOOLEAN
  PROVE  /\ FM!Better(a, b) /\ FM!Better(b, c) => FM!Better(a, c)
         /\ ~FM!Better(a, a)
<1>1. ~FM!Better(a, a)
  BY DEF FM!Better, FM!Precedes
<1>2. ASSUME FM!Better(a, b), FM!Better(b, c) PROVE FM!Better(a, c)
  <2> DEFINE Rank(x, y) == x.quality < y.quality \/ (x.quality = y.quality /\ x.id < y.id)
  <2>1. Rank(a, b) /\ Rank(b, c) => Rank(a, c)
    OBVIOUS
  <2>2. \A x, y : FM!Better(x, y) <=> \/ x.disqualified /\ ~y.disqualified
                                      \/ x.disqualified = y.disqualified /\ Rank(x, y)
    BY DEF FM!Better, FM!Precedes
  <2> HIDE DEF Rank
  <2> QED BY <1>2, <2>1, <2>2, Zenon
<1> QED BY <1>1, <1>2

LEMMA FieldsAreNumbers ==
  /\ \A x \in Masters \cup {0} : x \in Int
  /\ \A x \in Qualities \cup {0} : x \in Int
BY RecordsAssumption

LEMMA RecordFields ==
  ASSUME TypeOK, NEW s \in FM!Used
  PROVE  /\ s \in FM!Slots
         /\ foreign[s].quality \in Int /\ foreign[s].id \in Int
         /\ foreign[s].disqualified \in BOOLEAN
<1>1. s \in FM!Slots
  BY RecordsAssumption DEF TypeOK, FM!TypeOK, FM!Used, FM!Slots
<1>2. foreign[s] \in FM!Record
  BY <1>1 DEF TypeOK, FM!TypeOK
<1>3. foreign[s].disqualified \in BOOLEAN
  BY <1>2 DEF FM!Record
<1>4. foreign[s].id \in Masters \cup {0} /\ foreign[s].quality \in Qualities \cup {0}
  BY <1>2 DEF FM!Record, FM!NoMaster
<1>5. foreign[s].id \in Int /\ foreign[s].quality \in Int
  BY <1>4, FieldsAreNumbers, Zenon
<1> QED BY <1>1, <1>3, <1>5, Zenon

LEMMA SelectionStep ==
  ASSUME IInv, Following, SelectionStands, [Next]_vars PROVE SelectionStands'
<1>1. Kinds /\ TypeOK
  BY StepKinds DEF IInv
<1> USE DEF SelectionStands
<1>2. ASSUME (FM!Used)' = {} \/ record_update' PROVE SelectionStands'
  BY <1>2
<1>3. CASE Keeps
  BY <1>3 DEF Keeps, FM!Used, FM!Better, FM!Precedes
<1>4. CASE Leaves
  BY <1>4 DEF Leaves
<1>5. ASSUME number_foreign_records' = 0 PROVE SelectionStands'
  <2>1. (FM!Used)' = {}
    BY <1>5 DEF FM!Used
  <2> QED BY <1>2, <2>1
<1>6. CASE TakesOver
  BY <1>5, <1>6 DEF TakesOver
<1>7. CASE MasterAlone
  BY <1>5, <1>7 DEF MasterAlone, FM!SelectNone
<1>8. CASE StateDecision
  <2> DEFINE s == foreign_record_best'
             d == Decision(s)
  <2>1. /\ portState' = d /\ foreign' = foreign /\ (FM!Used)' = FM!Used
        /\ FM!IsBest(s)
    BY <1>8 DEF StateDecision, FM!SelectBest, FM!Used, EnterWith
  <2>2. CASE number_foreign_records = 0
    BY <1>5, <1>8, <2>2 DEF StateDecision, FM!SelectBest
  <2>3. CASE number_foreign_records # 0
    <3>1. s \in FM!Used /\ \A t \in FM!Used : ~FM!Better(foreign[t], foreign[s])
      BY <2>1, <2>3 DEF FM!IsBest
    <3>2. ASSUME d = "MASTER", NEW t \in FM!Used, FM!Better(foreign[t], OwnRecord)
          PROVE  FALSE
      <4>1. FM!Better(OwnRecord, foreign[s])
        BY <3>2 DEF Decision
      <4>2. /\ OwnRecord.quality \in Int /\ OwnRecord.id \in Int
            /\ OwnRecord.disqualified \in BOOLEAN
        BY IdentityAssumption, QualityAssumption DEF OwnRecord
      <4> HIDE DEF s
      <4>3. FM!Better(foreign[t], foreign[s])
        BY <1>1, <3>1, <3>2, <4>1, <4>2, RecordFields, BetterIsOrder
      <4> QED BY <3>1, <4>3
    <3>3. \A t \in FM!Used : ~FM!Better(foreign'[t], foreign'[s])
      BY <2>1, <3>1
    <3>4. (\A a, b : FM!Better(a, b) <=> (FM!Better(a, b))')
      BY DEF FM!Better, FM!Precedes
    <3> QED BY <2>1, <3>2, <3>3 DEF FM!Better, FM!Precedes
  <2> QED BY <2>2, <2>3
<1>9. CASE Announced
  BY <1>2, <1>9 DEF Announced, AnnounceOfParent, AnnounceOfActiveMaster, AnnounceOfAnother,
     FM!RequestUpdate, FM!AddForeign
<1>10. CASE TimeoutDisqualifies
  <2>1. CASE portState' = "FAULTY"
    BY <2>1
  <2>2. CASE portState' # "FAULTY"
    <3> DEFINE b == foreign_record_best
               u == [foreign[b] EXCEPT !.disqualified = TRUE]
    <3>1. /\ portState' = portState /\ record_update' = record_update
          /\ b' = b /\ b \in FM!Slots /\ (FM!Used)' = FM!Used
          /\ foreign' = [foreign EXCEPT ![b].disqualified = TRUE]
          /\ portState # "MASTER"
      BY <1>10, <2>2 DEF TimeoutDisqualifies, Enter, EnterWith, IInv, BestIsSelected,
         TypeOK, FM!TypeOK, FM!Used, InGracePeriod, Following, SlavesDoNotServe
    <3>2. foreign \in [FM!Slots -> FM!Record] /\ foreign[b] \in FM!Record
      BY <1>1, <3>1 DEF TypeOK, FM!TypeOK
    <3>3. /\ foreign'[b].disqualified = TRUE
          /\ foreign'[b].quality = foreign[b].quality /\ foreign'[b].id = foreign[b].id
          /\ \A t \in FM!Slots \ {b} : foreign'[t] = foreign[t]
      BY <3>1, <3>2 DEF FM!Record
    <3>4. foreign[b].disqualified \in BOOLEAN
          /\ foreign[b].id \in Int /\ foreign[b].quality \in Int
      <4>1. foreign[b].id \in Masters \cup {0} /\ foreign[b].quality \in Qualities \cup {0}
        BY <3>2 DEF FM!Record, FM!NoMaster
      <4>2. foreign[b].id \in Int /\ foreign[b].quality \in Int
        BY <4>1, FieldsAreNumbers, Zenon
      <4>3. foreign[b].disqualified \in BOOLEAN
        BY <3>2 DEF FM!Record
      <4> QED BY <4>2, <4>3, Zenon
    <3>5. ASSUME NEW t \in FM!Used, ~FM!Better(foreign[t], foreign[b])
          PROVE  ~FM!Better(foreign'[t], foreign'[b])
      <4>1. CASE t = b
        BY <3>3, <3>4, <4>1 DEF FM!Better, FM!Precedes
      <4>2. CASE t # b
        <5>1. foreign'[t] = foreign[t] /\ foreign[t].disqualified \in BOOLEAN
          BY <1>1, <3>3, <4>2, RecordFields
        <5> QED BY <3>3, <3>4, <3>5, <5>1, Zenon DEF FM!Better, FM!Precedes
      <4> QED BY <4>1, <4>2
    <3>6. \A t \in FM!Used : ~FM!Better(foreign[t], foreign[b])
            => ~FM!Better(foreign'[t], foreign'[b])
      BY <3>5
    <3> QED BY <3>1, <3>6 DEF FM!Better, FM!Precedes
  <2> QED BY <2>1, <2>2
<1> QED BY <1>1, <1>3, <1>4, <1>6, <1>7, <1>8, <1>9, <1>10 DEF Kinds

(* In the order of the comments a record that is not disqualified is only  *)
(* outranked by one that the order of the code has below it as well.       *)
LEMMA DecisionFollows ==
  ASSUME IInv, SelectionStands PROVE DecisionIsCurrent
<1>1. ASSUME NEW s \in FM!Used, NEW r, r.disqualified = FALSE, Outranks(foreign[s], r)
      PROVE  FM!Better(foreign[s], r)
  <2>1. foreign[s].disqualified \in BOOLEAN
    BY RecordFields DEF IInv
  <2>2. foreign[s].disqualified = FALSE /\ FM!Precedes(foreign[s], r)
    BY <1>1, <2>1 DEF Outranks
  <2> QED BY <1>1, <2>2 DEF FM!Better
<1>2. OwnRecord.disqualified = FALSE
  BY DEF OwnRecord
<1>3. foreign[foreign_record_best].disqualified \in BOOLEAN
  BY DEF IInv, TypeOK, FM!TypeOK, FM!Record
<1> QED BY <1>1, <1>2, <1>3, Zenon DEF DecisionIsCurrent, OutrankedByNone, SelectionStands

-----------------------------------------------------------------------------
(* A DISABLED port does not come to the timers of a slave.                 *)
NotDisabledInside ==
  branch = "slave" /\ pc \in SlaveSteps \cup HandleSteps \cup {"issuePdelayReq"}
    => portState # "DISABLED"

LEMMA InsideStep ==
  ASSUME TypeOK, StepsFollowBranch, NotDisabledInside, [Next]_vars PROVE NotDisabledInside'
<1> USE DEF NotDisabledInside, SlaveSteps, HandleSteps, StepsFollowBranch, MasterSteps
<1>1. ASSUME pc' \in {"loop", "bmc", "fault", "end", "restart", "signals", "crashed"}
      PROVE  NotDisabledInside'
  BY <1>1
<1>2. ASSUME portState' # "DISABLED" PROVE NotDisabledInside'
  BY <1>2
<1>3. ASSUME UNCHANGED <<branch, portState>>,
             pc \in SlaveSteps \cup HandleSteps \cup MasterSteps \cup {"issuePdelayReq"}
      PROVE  NotDisabledInside'
  BY <1>3
<1>4. CASE LoopDisables \/ DoInit \/ DoInitFails \/ DoInitWaits \/ CallDoState \/ FaultCleared
  BY <1>1, <1>4 DEF LoopDisables, DoInit, DoInitFails, DoInitWaits, CallDoState, FaultCleared
<1>5. CASE NoDecision \/ MasterAlone
  BY <1>5 DEF NoDecision, MasterAlone, DispatchOn, portVars
<1>6. CASE StateDecision
  <2> DEFINE d == Decision(foreign_record_best')
  <2>1. d # "DISABLED" /\ portState' = d
    BY <1>6 DEF StateDecision, Decision, EnterWith
  <2> QED BY <1>2, <2>1
<1>7. CASE Handle
  <2>1. ASSUME NEW m \in Masters, NEW q \in Qualities,
               AnnounceOfParent(m, q) \/ AnnounceOfActiveMaster(m, q) \/ AnnounceOfAnother(m, q)
        PROVE  NotDisabledInside'
    BY <1>3, <2>1 DEF AnnounceOfParent, AnnounceOfActiveMaster, AnnounceOfAnother,
       AnnounceArrives, portVars
  <2>2. CASE HandleNothing \/ HandleSync \/ ClockUpdated \/ HandleSet \/ HandleConfig
             \/ HandleEnablePort
    BY <1>3, <2>2 DEF HandleNothing, HandleSync, ClockUpdated, ServoRuns, HandleSet,
       HandleConfig, HandleEnablePort, portVars
  <2>3. CASE HandleFails \/ HandleInitialize
    BY <1>2, <2>3 DEF HandleFails, HandleInitialize, Enter, EnterWith
  <2>4. CASE ServoResets
    BY <1>2, <2>4 DEF ServoResets, Enter, EnterWith, EnterListening, EnterListeningWith,
       ListenFails, Listen
  <2> QED BY <1>7, <2>1, <2>2, <2>3, <2>4 DEF Handle
<1>8. CASE TimeoutToMaster
  BY <1>2, <1>8 DEF TimeoutToMaster, Enter, EnterWith
<1>9. CASE TimeoutDisqualifies
  BY <1>1, <1>3, <1>9 DEF TimeoutDisqualifies
<1>10. CASE TimeoutResets
  BY <1>2, <1>10 DEF TimeoutResets, EnterWith, EnterListeningWith, ListenFails, Listen
<1>11. CASE ClockTimeoutIgnored
  BY <1>3, <1>11 DEF ClockTimeoutIgnored, portVars
<1>12. CASE ClockTimeoutResets
  BY <1>2, <1>12 DEF ClockTimeoutResets, EnterListening, EnterListeningWith, ListenFails, Listen
<1>13. CASE Issue
  <2>1. pc' \in {"end", "event", "pdelayReq", "refresh"} /\ (pc' = "event" => branch = "master")
    BY <1>13 DEF Issue, AfterSending, Sending
  <2> QED BY <1>13, <2>1 DEF Issue
<1>14. CASE IssueFails
  BY <1>2, <1>14 DEF IssueFails, Enter, EnterWith
<1>15. CASE RefreshIGMP \/ StaysDisabled \/ LeaveDisabled \/ EndDisables \/ RestartSubsystems
  BY <1>1, <1>3, <1>15 DEF RefreshIGMP, StaysDisabled, LeaveDisabled, EndDisables,
     RestartSubsystems, portVars
<1>16. CASE NoSignal \/ SighupReloads \/ Sigusr1StepsClock \/ TimeoutCrashes
  BY <1>1, <1>16 DEF NoSignal, SighupReloads, Sigusr1StepsClock, TimeoutCrashes
<1>17. CASE CheckAnnounceReceipt \/ CheckClockUpdate \/ CheckDelayReq \/ CheckAnnounce
            \/ CheckPdelayReq \/ CheckRefresh \/ CheckSync
  BY <1>3, <1>17 DEF CheckTimer, CheckAnnounceReceipt, CheckClockUpdate,
     CheckDelayReq, CheckAnnounce, CheckPdelayReq, CheckRefresh, CheckSync, portVars
<1>18. CASE UNCHANGED vars
  BY <1>18 DEF vars, portVars
<1>19. ASSUME NEW t \in Timers, TimerExpires(t) PROVE NotDisabledInside'
  BY <1>19 DEF TimerExpires, portVars
<1> QED
  BY <1>4, <1>5, <1>6, <1>7, <1>8, <1>9, <1>10, <1>11, <1>12, <1>13, <1>14, <1>15, <1>16,
     <1>17, <1>18, <1>19 DEF Next, Program

(* Where the program ends: only where the pointer is followed.             *)
LEMMA OnlyTimeoutCrashes ==
  ASSUME TypeOK, [Next]_vars, pc' = "crashed"
  PROVE  TimeoutCrashes \/ UNCHANGED <<pc, portState>>
<1>1. ASSUME AfterHandle PROVE FALSE
  BY <1>1 DEF AfterHandle
<1>2. ASSUME NEW s, DispatchOn(s) PROVE FALSE
  BY <1>2 DEF DispatchOn
<1>3. ASSUME AfterSending, pc \in Sending PROVE FALSE
  BY <1>3 DEF AfterSending, Sending
<1>4. ~(LoopDisables \/ DoInit \/ DoInitFails \/ DoInitWaits \/ CallDoState \/ FaultCleared)
  BY DEF LoopDisables, DoInit, DoInitFails, DoInitWaits, CallDoState, FaultCleared
<1>5. ~(NoDecision \/ MasterAlone \/ StateDecision)
  BY <1>2 DEF NoDecision, MasterAlone, StateDecision
<1>6. ~Handle
  <2>1. ~(\/ \E m \in Masters, q \in Qualities :
               AnnounceOfParent(m, q) \/ AnnounceOfActiveMaster(m, q) \/ AnnounceOfAnother(m, q)
          \/ HandleSet \/ HandleInitialize \/ HandleConfig \/ HandleEnablePort)
    BY <1>1 DEF AnnounceOfParent, AnnounceOfActiveMaster, AnnounceOfAnother, HandleSet,
       HandleInitialize, HandleConfig, HandleEnablePort
  <2>2. ~(HandleNothing \/ HandleFails \/ HandleSync \/ ClockUpdated \/ ServoResets)
    BY <1>1 DEF HandleNothing, HandleFails, HandleSync, ClockUpdated, ServoResets, ServoRuns
  <2> QED BY <2>1, <2>2 DEF Handle
<1>7. ~(TimeoutToMaster \/ TimeoutDisqualifies \/ TimeoutResets \/ ClockTimeoutIgnored
        \/ ClockTimeoutResets)
  BY DEF TimeoutToMaster, TimeoutDisqualifies, TimeoutResets, ClockTimeoutIgnored,
     ClockTimeoutResets
<1>8. ~(Issue \/ IssueFails)
  BY <1>3 DEF Issue, IssueFails
<1>9. ~(\/ RefreshIGMP \/ StaysDisabled \/ LeaveDisabled \/ EndDisables \/ RestartSubsystems
        \/ NoSignal \/ SighupReloads \/ Sigusr1StepsClock)
  BY DEF RefreshIGMP, StaysDisabled, LeaveDisabled, EndDisables, RestartSubsystems,
     NoSignal, SighupReloads, Sigusr1StepsClock
<1>10. ~(\/ CheckAnnounceReceipt \/ CheckClockUpdate \/ CheckDelayReq \/ CheckAnnounce
         \/ CheckPdelayReq \/ CheckRefresh \/ CheckSync)
  BY DEF CheckTimer, CheckAnnounceReceipt, CheckClockUpdate,
     CheckDelayReq, CheckAnnounce, CheckPdelayReq, CheckRefresh, CheckSync
<1>11. ASSUME UNCHANGED vars PROVE UNCHANGED <<pc, portState>>
  BY <1>11 DEF vars, portVars
<1>12. ASSUME NEW t \in Timers, TimerExpires(t) PROVE UNCHANGED <<pc, portState>>
  BY <1>12 DEF TimerExpires, portVars
<1> QED
  BY <1>4, <1>5, <1>6, <1>7, <1>8, <1>9, <1>10, <1>11, <1>12 DEF Next, Program

LEMMA CrashStep ==
  ASSUME IInv, Following, NotDisabledInside, CrashesOnlyInTransit, [Next]_vars
  PROVE  CrashesOnlyInTransit'
<1> SUFFICES ASSUME pc' = "crashed" PROVE portState' \in {"FAULTY", "INITIALIZING"}
  BY DEF CrashesOnlyInTransit
<1>1. CASE UNCHANGED <<pc, portState>>
  BY <1>1 DEF CrashesOnlyInTransit
<1>2. CASE TimeoutCrashes
  <2>1. /\ pc = "announceTimeout" /\ branch = "slave" /\ rtOpts.slaveOnly
        /\ portState # "LISTENING" /\ bestMaster = NULL /\ portState' = portState
    BY <1>2 DEF TimeoutCrashes, InGracePeriod, IInv, StepsFollowBranch, SlaveSteps, portVars
  <2>2. portState \notin {"SLAVE", "MASTER", "PASSIVE", "DISABLED"}
    BY <2>1 DEF Following, SlaveHasBest, SlavesDoNotServe, NotDisabledInside, SlaveSteps
  <2> QED BY <2>1, <2>2 DEF IInv, TypeOK, PortStates
<1> QED BY <1>1, <1>2, OnlyTimeoutCrashes DEF IInv

-----------------------------------------------------------------------------
(* The second invariant rests on the first, and on that of the records,    *)
(* which the port has because it implements them.                          *)
IInv2 == /\ Following /\ NotDisabledInside
         /\ DataSetsAgree /\ SelectionStands /\ CrashesOnlyInTransit

THEOREM RecordsInvariant == Spec => []FMP!IInv
<1>1. Spec => FM!Spec
  BY ImplementsRecords DEF ImplementsForeignMasters
<1>2. FM!Spec => FMP!Spec
  <2>1. [FM!Next]_(FM!ringVars) => [FMP!Next]_(FMP!ringVars)
    BY SameNext DEF FM!ringVars, FMP!ringVars
  <2> QED BY <2>1, SameRecords, PTL DEF FM!Spec, FMP!Spec
<1>3. FMP!Spec => []FMP!IInv
  BY FMP!InvariantHolds, RecordsAssumption
<1> QED BY <1>1, <1>2, <1>3

THEOREM SecondInvariantHolds == Spec => []IInv2
<1>1. Init => IInv2
  BY DEF Init, FM!Init, IInv2, Following, SlaveHasBest, SlavesDoNotServe, HeardAreCounted,
     NotDisabledInside, DataSetsAgree, SelectionStands, CrashesOnlyInTransit
<1>2. IInv /\ FMP!IInv /\ IInv2 /\ [Next]_vars => IInv2'
  <2> SUFFICES ASSUME IInv, FMP!IInv, IInv2, [Next]_vars PROVE IInv2'
    OBVIOUS
  <2>1. Following' /\ NotDisabledInside'
    BY FollowingStep, InsideStep DEF IInv2, IInv
  <2>2. DataSetsAgree' /\ SelectionStands' /\ CrashesOnlyInTransit'
    BY AgreeStep, SelectionStep, CrashStep DEF IInv2
  <2> QED BY <2>1, <2>2 DEF IInv2
<1> QED BY <1>1, <1>2, InvariantHolds, RecordsInvariant, PTL DEF Spec

(* handleAnnounce() and addForeign() keep the two copies of the parent's   *)
(* Announce the same, in every order of Announces, decisions and resets.   *)
THEOREM DataSetsAlwaysAgree == Spec => []DataSetsAgree
BY SecondInvariantHolds, PTL DEF IInv2

(* The state bmc() decided on stays the right one until the next decision  *)
(* is due, whatever happens to the records in between, unless a timeout    *)
(* disqualifies the master that is followed.                               *)
THEOREM DecisionStaysCurrent == Spec => []DecisionIsCurrent
<1>1. IInv /\ IInv2 => DecisionIsCurrent
  BY DecisionFollows DEF IInv2
<1> QED BY <1>1, InvariantHolds, SecondInvariantHolds, PTL

(* The grace period follows a null pointer only in an iteration in which a *)
(* fault or an INITIALIZE message came before the timeout.                 *)
THEOREM CrashesNowhereElse == Spec => []CrashesOnlyInTransit
BY SecondInvariantHolds, PTL DEF IInv2
===============================================================================
