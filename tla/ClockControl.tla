---------------------------- MODULE ClockControl ----------------------------
(***************************************************************************)
(* What a port does to the clock (dep/servo.c): each Sync has it updated,  *)
(* or stepped; a large offset starts panic mode, a leap second a pause.    *)
(* The loop of protocol() runs doState(), which decides the state, handles *)
(* a message and looks at the timers, and then updates the timing domain.  *)
(* Timers expire at any moment, and an expiry stays until it is asked for. *)
(***************************************************************************)
EXTENDS TimingDomain

ASSUME DurationAssumption == \A c \in Configurations : c.panicModeDuration \in Nat \ {0}

VARIABLES
  pc,
  running, expired,       \* the timers, and the expiries not yet asked for
  panicMode, panicOver, panicModeTimeLeft,
  pastStartup, stepRequired,
  leapSecondPending, leapSecondInProgress,
  leapFlag,               \* timePropertiesDS.leap59 or leap61
  nearMidnight,           \* a leap second would be imminent
  panicTicks,             \* history: expiries met by this panic
  lateTick,               \* history: an expiry was left when it was stopped
  did                     \* history: what the last message did to the clock

panicVars == <<panicMode, panicOver, panicModeTimeLeft, panicTicks, lateTick>>
leapVars == <<leapSecondPending, leapSecondInProgress, leapFlag, nearMidnight>>
stepVars == <<pastStartup, stepRequired, did>>
portVars == <<portState, available, activity>>
upstreamVars == <<config, granted, engine, serviceVars, ntpd, updated>>
vars == <<upstreamVars, portVars, pc, running, expired, panicVars, stepVars, leapVars>>

Timers == {"panic", "update", "pause", "domain"}
Steps == {"decide", "handle", "timers", "leap", "master", "panic", "loop"}

(* The panic timer expires every ten seconds of the minutes configured. *)
PanicTicks == 6 * config.panicModeDuration

TypeOK ==
  /\ DomainTypeOK
  /\ pc \in Steps /\ running \subseteq Timers /\ expired \subseteq Timers
  /\ panicMode \in BOOLEAN /\ panicOver \in BOOLEAN /\ lateTick \in BOOLEAN
  /\ panicModeTimeLeft \in 0..PanicTicks /\ panicTicks \in 0..PanicTicks
  /\ pastStartup \in BOOLEAN /\ stepRequired \in BOOLEAN
  /\ did \in {"nothing", "updated", "slewed", "stepped"}
  /\ leapSecondPending \in BOOLEAN /\ leapSecondInProgress \in BOOLEAN
  /\ leapFlag \in BOOLEAN /\ nearMidnight \in BOOLEAN

Init ==
  /\ DomainInit
  /\ pc = "decide" /\ running = {"domain"} /\ expired = {}
  /\ panicMode = FALSE /\ panicOver = FALSE /\ lateTick = FALSE
  /\ panicModeTimeLeft = 0 /\ panicTicks = 0
  /\ pastStartup = FALSE /\ stepRequired = FALSE /\ did = "nothing"
  /\ leapSecondPending = FALSE /\ leapSecondInProgress = FALSE
  /\ leapFlag = FALSE /\ nearMidnight = FALSE

-----------------------------------------------------------------------------
(* Event timers: to stop one leaves its expiry, to start it takes it away. *)
Expire(t) ==
  /\ t \in running \ expired /\ expired' = expired \cup {t}
  /\ UNCHANGED <<upstreamVars, portVars, pc, running, panicVars, stepVars, leapVars>>

(* The timers after some were stopped, others started, and the expiries    *)
(* that were asked for.                                                    *)
Timing(stopped, started, asked) ==
  /\ running' = (running \ stopped) \cup started
  /\ expired' = expired \ (asked \cup started)

(* The end of a panic: it is stopped, an expiry may be left.               *)
PanicEnds ==
  /\ panicMode' = FALSE /\ panicOver' = FALSE /\ panicTicks' = 0
  /\ lateTick' = ("panic" \in expired)
  /\ UNCHANGED panicModeTimeLeft

(* toState(): what leaving SLAVE, and entering a state, do here.           *)
\* A bug: that a panic was over is remembered.
LeaveSlave_StaysOver ==
  /\ panicMode' = FALSE /\ panicTicks' = 0
  /\ UNCHANGED <<panicOver, lateTick, panicModeTimeLeft>>
LeaveSlave == PanicEnds

UpdateTimer(state) == IF state = "SLAVE" /\ config.clockUpdateTimeout THEN {"update"} ELSE {}
ToState(state, asked) ==
  /\ portState' = state
  /\ Timing((IF portState = "SLAVE" THEN {"panic"} ELSE {})
              \cup (IF state = "LISTENING" THEN {"update"} ELSE {}),
            UpdateTimer(state), asked)
  /\ IF portState = "SLAVE" THEN LeaveSlave ELSE UNCHANGED panicVars
Stay(asked) == Timing({}, {}, asked) /\ UNCHANGED <<portState, panicVars>>
Become(state, asked) == IF state = portState THEN Stay(asked) ELSE ToState(state, asked)

-----------------------------------------------------------------------------
(* s1(): the leap flag of a master.  A flag that is withdrawn before the   *)
(* pause aborts the leap second.                                           *)
LeapFlags == IF config.leap THEN BOOLEAN ELSE {FALSE}
Aborted(flag) == leapSecondPending /\ leapFlag /\ ~flag /\ ~leapSecondInProgress
Pending(flag) == (leapSecondPending /\ ~Aborted(flag)) \/ (flag /\ ~leapSecondInProgress)

(* The state decision, and doInit().  PtpPort says which state it is; the  *)
(* flag is that of the master selected, or of the kernel.                  *)
Decide ==
  /\ pc = "decide"
  /\ \E state \in PortStates, flag \in LeapFlags :
       /\ portState = "FAULTY" => state \in {"FAULTY", "LISTENING"}
       /\ portState \notin {"FAULTY", "LISTENING"} => state # "LISTENING"
       /\ pc' = CASE "FAULTY" \in {portState, state} -> "loop"
                  [] state = "MASTER" -> "master"
                  [] OTHER -> "handle"
       /\ Become(state, {})
       /\ leapFlag' = IF state = portState /\ state # "SLAVE" THEN leapFlag ELSE flag
       /\ leapSecondPending' = IF state = "SLAVE" THEN Pending(flag) ELSE leapSecondPending
  /\ UNCHANGED <<upstreamVars, available, activity, stepVars, leapSecondInProgress, nearMidnight>>

-----------------------------------------------------------------------------
(* handle(), for a port that is not MASTER, of one message: a Sync, or its *)
(* Follow_Up, an Announce of the parent, or what does nothing here.        *)
Handled == pc = "handle" /\ pc' = "timers" /\ UNCHANGED <<upstreamVars, nearMidnight>>
NoMessage ==
  /\ Handled /\ Stay({}) /\ did' = "nothing"
  /\ UNCHANGED <<available, activity, pastStartup, stepRequired,
                 leapSecondPending, leapSecondInProgress, leapFlag>>

(* After the pause the first Announce lifts it.  With the leap second      *)
(* handled by a step, the next Sync has the clock stepped.                 *)
\* A bug: not while the parent still announces the leap second.
LiftsPause_NotFlagged == leapSecondInProgress /\ ~leapSecondPending /\ ~leapFlag
LiftsPause == leapSecondInProgress /\ ~leapSecondPending

HandleAnnounce ==
  /\ Handled /\ portState = "SLAVE"
  /\ \E flag \in LeapFlags, resumed \in (IF config.grace THEN BOOLEAN ELSE {FALSE}) :
       LET lifted == LiftsPause
       IN /\ leapFlag' = (flag /\ ~lifted)
          /\ leapSecondPending' = Pending(flag)
          /\ leapSecondInProgress' = (leapSecondInProgress /\ ~lifted)
          /\ stepRequired' = (stepRequired \/ (lifted /\ config.leapStep))
          /\ available' = (available \/ resumed)
  /\ did' = "nothing" /\ Stay({}) /\ UNCHANGED <<activity, pastStartup>>

(* Offsets below the threshold to leave panic mode, below a second, above. *)
Offsets == {"small", "large", "second"}

(* updateOffset() refused the Sync or, in a pause, the Sync was not looked *)
(* at: neither checkOffset() nor updateClock() does anything.              *)
Ignored == did' = "nothing" /\ Stay({}) /\ UNCHANGED <<available, activity, pastStartup, stepRequired>>

(* noAdjust: the clock is never touched. *)
NotAdjusted ==
  did' = "nothing" /\ available' = FALSE /\ Stay({}) /\ UNCHANGED <<activity, pastStartup, stepRequired>>

(* stepClock(), which resets the port, or noResetClock: the maximum rate.  *)
(* Only checkOffset() takes note that the clock has been stepped.          *)
Step(panicOn) ==
  /\ stepRequired' = FALSE /\ UNCHANGED activity
  /\ IF ~config.noResetClock THEN did' = "stepped" /\ ToState("FAULTY", {})
     ELSE /\ did' = "slewed" /\ UNCHANGED portState
          /\ IF panicOn THEN UNCHANGED <<panicVars, running, expired>>
             ELSE PanicEnds /\ Timing({"panic"}, {}, {})

(* checkOffset(), with an offset of a second or more.                      *)
StepAtOnce == Step(TRUE) /\ pastStartup' = TRUE /\ UNCHANGED available
\* A bug: every large offset starts the panic again.
StillPanicking_Restarts ==
  /\ panicModeTimeLeft' = PanicTicks /\ panicTicks' = 0 /\ Timing({}, {"panic"}, {})
  /\ did' = "nothing"
  /\ UNCHANGED <<portVars, panicMode, panicOver, lateTick, pastStartup, stepRequired>>
StillPanicking ==
  /\ available' = (available \/ ~config.panicModeReleaseClock)
  /\ activity' = (activity \/ available')
  /\ did' = "nothing" /\ Stay({}) /\ UNCHANGED <<pastStartup, stepRequired>>
PanicIsOver == Step(FALSE) /\ pastStartup' = TRUE /\ available' = TRUE
EnterPanic ==
  /\ panicMode' = TRUE /\ panicModeTimeLeft' = PanicTicks /\ panicTicks' = 0
  /\ lateTick' = FALSE
  /\ Timing({}, {"panic"}, {}) /\ UNCHANGED <<portState, panicOver>>
  /\ available' = (available /\ ~config.panicModeReleaseClock)
  /\ did' = "nothing" /\ UNCHANGED <<activity, pastStartup, stepRequired>>

LargeOffset ==
  \/ ~config.enablePanicMode /\ StepAtOnce
  \/ config.enablePanicMode /\ panicMode /\ StillPanicking
  \/ config.enablePanicMode /\ ~panicMode /\ panicOver /\ PanicIsOver
  \/ config.enablePanicMode /\ ~panicMode /\ ~panicOver /\ EnterPanic

(* checkOffset() with a smaller offset, and updateClock().  A panic that   *)
(* the threshold does not let end does not stop the update.                *)
LeavesPanic(offset) ==
  /\ config.enablePanicMode
  /\ \/ /\ panicMode /\ panicModeTimeLeft # 2 * config.panicModeDuration
        /\ config.panicModeExitThreshold => offset = "small"
     \/ panicOver

UpdateClock(offset) ==
  /\ did' = "updated" /\ pastStartup' = TRUE /\ UNCHANGED <<portState, stepRequired>>
  /\ available' = TRUE /\ activity' = TRUE
  /\ IF LeavesPanic(offset)
     THEN PanicEnds /\ Timing({"panic"}, UpdateTimer("SLAVE"), {})
     ELSE Timing({}, UpdateTimer("SLAVE"), {}) /\ UNCHANGED panicVars

SmallOffset(offset) ==
  \/ ~stepRequired /\ UpdateClock(offset)
  \/ /\ stepRequired /\ Step(~LeavesPanic(offset)) /\ UNCHANGED pastStartup
     /\ available' = (available \/ LeavesPanic(offset))

MayStep(offset) ==
  ~pastStartup /\ (config.stepForce \/ (config.stepOnce /\ offset = "second"))
TooLarge(offset) == config.maxOffset /\ offset = "second"

HandleSync(offset) ==
  /\ Handled /\ portState = "SLAVE" /\ ~leapSecondInProgress
  /\ UNCHANGED <<leapSecondPending, leapSecondInProgress, leapFlag>>
  /\ \/ config.noAdjust /\ NotAdjusted
     \/ ~config.noAdjust /\ MayStep(offset) /\ StepAtOnce
     \/ ~config.noAdjust /\ ~MayStep(offset) /\ TooLarge(offset) /\ Ignored
     \/ /\ ~config.noAdjust /\ ~MayStep(offset) /\ ~TooLarge(offset)
        /\ \/ offset = "second" /\ LargeOffset
           \/ offset # "second" /\ SmallOffset(offset)

-----------------------------------------------------------------------------
(* The timers of a port that is not MASTER: of the Announces, see PtpPort, *)
(* and of the clock updates, which resets a slave that had none, unless it *)
(* is in panic mode.                                                       *)
AnnounceTimeout ==
  \E state \in {"LISTENING", "MASTER", "FAULTY"} \ {portState} :
    ToState(state, {})
UpdateTimeout ==
  /\ portState = "SLAVE" /\ "update" \in expired
  /\ IF panicMode \/ config.noAdjust
     THEN Timing({}, UpdateTimer("SLAVE"), {}) /\ UNCHANGED <<portState, panicVars>>
     ELSE ToState("LISTENING", {"update"})
NoTimeout == ~(portState = "SLAVE" /\ "update" \in expired) /\ Stay({})

PortTimers ==
  /\ pc = "timers" /\ pc' = "leap"
  /\ AnnounceTimeout \/ UpdateTimeout \/ NoTimeout
  /\ UNCHANGED <<upstreamVars, available, activity, stepVars, leapVars>>

(* The end of the pause is noted, and its beginning, if the leap second is *)
(* near.  An Announce lifts the pause.                                     *)
PauseStarts(pending) == pending /\ ~leapSecondInProgress /\ nearMidnight
PauseOver == leapSecondInProgress /\ "pause" \in expired
PauseTimer(starts, ends) ==
  Timing(IF ends THEN {"pause"} ELSE {}, IF starts THEN {"pause"} ELSE {}, {"pause"})

LeapSecond ==
  /\ pc = "leap" /\ pc' = "panic"
  /\ leapSecondPending' = (leapSecondPending /\ ~PauseOver)
  /\ leapSecondInProgress' = (leapSecondInProgress \/ PauseStarts(leapSecondPending))
  /\ PauseTimer(PauseStarts(leapSecondPending), PauseOver)
  /\ UNCHANGED <<upstreamVars, portVars, panicVars, stepVars, leapFlag, nearMidnight>>

(* A MASTER has the flag of the kernel, and lifts the pause itself.        *)
MasterLeapSecond ==
  /\ pc = "master" /\ pc' = "panic"
  /\ \E flag \in LeapFlags :
       LET pending == leapSecondPending \/ (flag /\ ~leapSecondInProgress)
       IN /\ leapFlag' = flag
          /\ leapSecondPending' = (pending /\ ~PauseOver)
          /\ leapSecondInProgress' = ((leapSecondInProgress /\ ~PauseOver) \/ PauseStarts(pending))
          /\ PauseTimer(PauseStarts(pending), PauseOver)
  /\ UNCHANGED <<upstreamVars, portVars, panicVars, stepVars, nearMidnight>>

(* The end of doState(): ten seconds of panic are over.                    *)
PanicCheck ==
  /\ pc = "panic" /\ pc' = "loop"
  /\ IF config.enablePanicMode /\ "panic" \in expired
     THEN /\ panicModeTimeLeft' = CountDown(panicModeTimeLeft)
          /\ panicMode' = (panicMode /\ panicModeTimeLeft' > 0)
          /\ panicOver' = (panicOver \/ panicModeTimeLeft' = 0)
          /\ panicTicks' = IF panicMode THEN panicTicks + 1 ELSE panicTicks
          /\ Timing({}, {}, {"panic"}) /\ UNCHANGED lateTick
     ELSE UNCHANGED <<panicVars, running, expired>>
  /\ UNCHANGED <<upstreamVars, portVars, stepVars, leapVars>>

-----------------------------------------------------------------------------
(* The rest of the loop: the timing domain, and the signal that asks for a *)
(* step.                                                                   *)
UpdateDomain ==
  /\ pc = "loop" /\ pc' = "decide"
  /\ IF "domain" \in expired
     THEN /\ \E answer \in config.answers : TimingDomainUpdate(answer)
          /\ expired' = expired \ {"domain"}
     ELSE UNCHANGED <<domainVars, expired>>
  /\ UNCHANGED <<running, panicVars, stepVars, leapVars>>

RestartServices ==
  /\ pc = "loop"
  /\ \E answer \in config.answers, enabled \in BOOLEAN : RestartEngine(answer, enabled)
  /\ UNCHANGED <<pc, running, expired, panicVars, stepVars, leapVars>>

StepOnSignal ==
  /\ config.signals /\ pc = "decide" /\ portState = "SLAVE" /\ ~config.noAdjust
  /\ did' = "stepped" /\ stepRequired' = FALSE /\ ToState("FAULTY", {})
  /\ UNCHANGED <<upstreamVars, available, activity, pc, pastStartup, leapVars>>

NtpdIsStarted ==
  NtpdStarts /\ UNCHANGED <<pc, running, expired, panicVars, stepVars, leapVars>>

Midnight ==
  /\ config.leap /\ nearMidnight' = ~nearMidnight
  /\ UNCHANGED <<upstreamVars, portVars, pc, running, expired, panicVars, stepVars,
                 leapSecondPending, leapSecondInProgress, leapFlag>>

Loop ==
  \/ Decide \/ NoMessage \/ HandleAnnounce \/ (\E offset \in Offsets : HandleSync(offset))
  \/ PortTimers \/ LeapSecond \/ MasterLeapSecond \/ PanicCheck \/ UpdateDomain

Next ==
  \/ Loop \/ RestartServices \/ StepOnSignal \/ NtpdIsStarted \/ Midnight
  \/ \E t \in Timers : Expire(t)

Spec == Init /\ [][Next]_vars

(* The loop, one of whose steps is always enabled, goes round, and timers  *)
(* expire.                                                                 *)
LoopRuns == []<>(pc = "decide") /\ []<>(pc # "decide")
FairSpec == Spec /\ LoopRuns /\ \A t \in Timers : WF_vars(Expire(t))

-----------------------------------------------------------------------------
(* After the start the clock is stepped for a large offset only when panic *)
(* mode lasted its time, all of it in one stay in SLAVE, with no smaller   *)
(* offset in between; unless the timer expired just before it was stopped: *)
(* that expiry is counted late, by then for the next panic.                *)
PanicBeforeStep ==
  [][config.enablePanicMode /\ pastStartup /\ ~stepRequired
       /\ HandleSync("second") /\ did' \in {"stepped", "slewed"}
     => panicTicks = PanicTicks \/ lateTick]_vars

(* A slave that hears nothing but large offsets does not wait for ever.    *)
MayStepLater == ~config.noAdjust /\ ~config.maxOffset /\ ~config.noResetClock
LargeOffsetIsStepped ==
  MayStepLater /\ <>[](portState = "SLAVE")
    => \/ <>[][~HandleSync("second")]_vars
       \/ []<><<\E offset \in {"small", "large"} : HandleSync(offset)>>_vars

(* Once an update found ntpd answering and no hold time runs, PTP and ntpd *)
(* do not both steer the clock.                                            *)
ExclusiveControl ==
  /\ engine /\ config.failover /\ config.control
  /\ pc = "decide" /\ updated = "answers" /\ lastUpdate = 0 /\ holdTimeLeft = 0
  => ~(granted /\ ntpd)

(* "Fail over to NTP when PTP time sync not available": when the port is   *)
(* no slave any more, and ntpd answers, ntpd has the clock for good.       *)
NtpTakesControl ==
  /\ config.failover /\ config.control
  /\ <>[](portState # "SLAVE") /\ <>[](engine /\ updated = "answers")
  => <>[](ntpd /\ ~granted)

(* A slave that has its clock updated again and again gets control of it   *)
(* from NTP, unless NTP is preferred.                                      *)
PtpTakesControl ==
  /\ config.failover /\ ~(engine /\ config.preferNTP)
  /\ <>[](portState = "SLAVE" /\ ~panicMode) /\ []<>(did = "updated")
  => []<>granted

(* A slave that hears its parent leaves the pause of a leap second.        *)
SlaveResumes ==
  []<><<HandleAnnounce>>_vars => (leapSecondInProgress ~> ~leapSecondInProgress)
=============================================================================
