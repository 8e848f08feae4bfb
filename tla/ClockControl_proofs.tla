------------------------ MODULE ClockControl_proofs ------------------------
(***************************************************************************)
(* Theorems about panic mode and about who controls the clock, for any     *)
(* configurations whose times are as the assumptions say.                  *)
(***************************************************************************)
EXTENDS ClockControl, TLAPS

-----------------------------------------------------------------------------
(* Panic mode.  While it lasts, the expiries met and the time left add up  *)
(* to the whole panic, which is why all of it lasted when it is over.  An  *)
(* expiry that is found while there is no panic is one that was left when  *)
(* the last panic was ended: the timer runs for a panic only.              *)
PanicInv ==
  /\ config \in Configurations /\ panicModeTimeLeft \in Nat /\ panicTicks \in Nat
  /\ panicMode => /\ ~panicOver /\ ~lateTick /\ panicModeTimeLeft > 0
                  /\ panicTicks + panicModeTimeLeft = PanicTicks
  /\ panicOver => panicTicks = PanicTicks \/ lateTick
  /\ "panic" \in running => panicMode \/ panicOver
  /\ "panic" \in expired => panicMode \/ panicOver \/ lateTick

(* What the steps do to a panic, but for its own timer. *)
NoNewExpiry == "panic" \in expired' => "panic" \in expired
KeepsPanic ==
  /\ UNCHANGED panicVars /\ NoNewExpiry
  /\ "panic" \in running' => "panic" \in running
EndsPanic == PanicEnds /\ NoNewExpiry /\ "panic" \notin running'

LEMMA TicksOfPanic ==
  ASSUME PanicInv
  PROVE  PanicTicks \in Nat \ {0}
<1>1. config.panicModeDuration \in Nat \ {0}
  BY DurationAssumption DEF PanicInv
<1> QED BY <1>1 DEF PanicTicks

LEMMA PanicKept ==
  ASSUME PanicInv, UNCHANGED config, KeepsPanic \/ EndsPanic
  PROVE  PanicInv'
<1>1. CASE KeepsPanic
  BY <1>1 DEF KeepsPanic, NoNewExpiry, PanicInv, PanicTicks, panicVars
<1>2. CASE EndsPanic
  <2>1. PanicTicks' = PanicTicks
    BY DEF PanicTicks
  <2> QED BY <1>2, <2>1, TicksOfPanic DEF EndsPanic, NoNewExpiry, PanicEnds, PanicInv
<1> QED BY <1>1, <1>2

LEMMA PanicEntered ==
  ASSUME PanicInv, UNCHANGED config, EnterPanic, ~panicMode, ~panicOver
  PROVE  PanicInv'
<1>1. PanicTicks' = PanicTicks
  BY DEF PanicTicks
<1>2. /\ panicMode' /\ panicModeTimeLeft' = PanicTicks /\ panicTicks' = 0
      /\ ~lateTick' /\ ~panicOver'
      /\ "panic" \notin expired'
  BY DEF EnterPanic, Timing
<1> QED BY <1>1, <1>2, TicksOfPanic DEF PanicInv

LEMMA PanicChecked ==
  ASSUME PanicInv, UNCHANGED config, PanicCheck
  PROVE  PanicInv'
<1> USE DEF PanicInv
<1>1. PanicTicks' = PanicTicks /\ PanicTicks \in Nat
  BY TicksOfPanic DEF PanicTicks
<1>2. CASE config.enablePanicMode /\ "panic" \in expired
  <2>0. /\ panicMode' = (panicMode /\ panicModeTimeLeft' > 0)
        /\ panicOver' = (panicOver \/ panicModeTimeLeft' = 0)
    BY <1>2 DEF PanicCheck
  <2>1. /\ panicModeTimeLeft' = CountDown(panicModeTimeLeft)
        /\ panicMode' <=> panicMode /\ panicModeTimeLeft' > 0
        /\ panicOver' <=> panicOver \/ panicModeTimeLeft' = 0
        /\ panicTicks' = IF panicMode THEN panicTicks + 1 ELSE panicTicks
        /\ "panic" \notin expired'
        /\ "panic" \in running' => "panic" \in running
        /\ lateTick' = lateTick
    <3>1. panicMode' <=> panicMode /\ panicModeTimeLeft' > 0
      BY <2>0, Zenon
    <3>2. panicOver' <=> panicOver \/ panicModeTimeLeft' = 0
      BY <2>0, Zenon
    <3> QED BY <1>2, <3>1, <3>2 DEF PanicCheck, Timing
  <2>2. CASE panicMode
    <3>1. panicModeTimeLeft' = panicModeTimeLeft - 1 /\ panicModeTimeLeft' \in Nat
      BY <2>1, <2>2 DEF CountDown
    <3>2. panicTicks' = panicTicks + 1 /\ ~lateTick'
      BY <2>1, <2>2
    <3>3. panicTicks' + panicModeTimeLeft' = PanicTicks
      BY <1>1, <2>2, <3>1, <3>2
    <3>4. CASE panicModeTimeLeft' = 0
      <4>1. panicTicks' = PanicTicks
        BY <3>2, <3>3, <3>4
      <4>2. ~panicMode' /\ panicOver'
        BY <2>1, <3>4
      <4> QED BY <1>1, <2>1, <3>1, <3>2, <4>1, <4>2
    <3>5. CASE panicModeTimeLeft' # 0
      <4>1. panicModeTimeLeft' > 0 /\ panicMode' /\ ~panicOver'
        BY <2>1, <2>2, <3>1, <3>5
      <4> QED BY <1>1, <2>1, <3>1, <3>2, <3>3, <4>1
    <3> QED BY <3>4, <3>5
  <2>3. CASE ~panicMode
    <3>1. panicModeTimeLeft' \in Nat /\ panicTicks' = panicTicks /\ ~panicMode'
      BY <2>1, <2>3 DEF CountDown
    <3>2. panicOver \/ lateTick
      BY <1>2, <2>3
    <3>3. panicOver => panicOver'
      BY <2>1
    <3> QED BY <1>1, <2>1, <2>3, <3>1, <3>2, <3>3
  <2> QED BY <2>2, <2>3
<1>3. CASE ~(config.enablePanicMode /\ "panic" \in expired)
  BY <1>3, PanicKept DEF PanicCheck, KeepsPanic, NoNewExpiry
<1> QED BY <1>2, <1>3

(* The timers of the port but that of panic.                               *)
LEMMA OtherTimers ==
  ASSUME NEW stopped, NEW started, NEW asked, Timing(stopped, started, asked),
         "panic" \notin started
  PROVE  /\ NoNewExpiry
         /\ "panic" \in running' => "panic" \in running
         /\ "panic" \in stopped => "panic" \notin running'
BY DEF Timing, NoNewExpiry

LEMMA StateChangesEndPanic ==
  ASSUME NEW state, NEW asked, ToState(state, asked) \/ Become(state, asked) \/ Stay(asked)
  PROVE  KeepsPanic \/ EndsPanic
<1>1. "panic" \notin UpdateTimer(state)
  BY DEF UpdateTimer
<1>2. CASE Stay(asked)
  BY <1>2, OtherTimers DEF Stay, KeepsPanic, panicVars
<1>3. CASE ToState(state, asked)
  <2>1. PICK stopped : /\ Timing(stopped, UpdateTimer(state), asked)
                       /\ portState = "SLAVE" => "panic" \in stopped
    BY <1>3 DEF ToState
  <2> QED BY <1>1, <1>3, <2>1, OtherTimers DEF ToState, LeaveSlave, KeepsPanic, EndsPanic
<1> QED BY <1>2, <1>3 DEF Become

(* A Sync, a step of the clock included, ends a panic, enters it or leaves *)
(* it alone; the clock is stepped in a large offset when it is over.       *)
LEMMA StepsEndPanic ==
  ASSUME NEW panicOn \in BOOLEAN, Step(panicOn)
  PROVE  KeepsPanic \/ EndsPanic
<1>1. CASE ToState("FAULTY", {})
  BY <1>1, StateChangesEndPanic
<1>2. CASE UNCHANGED <<panicVars, running, expired>>
  BY <1>2 DEF KeepsPanic, NoNewExpiry
<1>3. CASE PanicEnds /\ Timing({"panic"}, {}, {})
  BY <1>3, OtherTimers DEF EndsPanic
<1> QED BY <1>1, <1>2, <1>3 DEF Step

LEMMA SyncsAndPanic ==
  ASSUME NEW offset \in Offsets, HandleSync(offset)
  PROVE  KeepsPanic \/ EndsPanic \/ (EnterPanic /\ ~panicMode /\ ~panicOver)
<1>1. CASE Stay({})
  BY <1>1, StateChangesEndPanic
<1>2. ASSUME NEW panicOn \in BOOLEAN, Step(panicOn)
      PROVE  KeepsPanic \/ EndsPanic
  BY <1>2, StepsEndPanic
<1>3. CASE UpdateClock(offset)
  <2>1. "panic" \notin UpdateTimer("SLAVE")
    BY DEF UpdateTimer
  <2>2. \/ PanicEnds /\ Timing({"panic"}, UpdateTimer("SLAVE"), {})
        \/ Timing({}, UpdateTimer("SLAVE"), {}) /\ UNCHANGED panicVars
    BY <1>3 DEF UpdateClock
  <2> QED BY <2>1, <2>2, OtherTimers DEF KeepsPanic, EndsPanic
<1>4. CASE LargeOffset
  BY <1>1, <1>2, <1>4 DEF LargeOffset, StepAtOnce, StillPanicking, PanicIsOver
<1>5. CASE SmallOffset(offset)
  <2>1. (~LeavesPanic(offset)) \in BOOLEAN
    BY Zenon
  <2> QED BY <1>2, <1>3, <1>5, <2>1 DEF SmallOffset
<1> QED BY <1>1, <1>2, <1>4, <1>5 DEF HandleSync, NotAdjusted, StepAtOnce, Ignored

LEMMA PanicStep == PanicInv /\ [Next]_vars => PanicInv'
<1> SUFFICES ASSUME PanicInv, [Next]_vars PROVE PanicInv'
  OBVIOUS
<1>1. UNCHANGED config
  BY DEF Next, Loop, Decide, NoMessage, HandleAnnounce, HandleSync, Handled, PortTimers,
         LeapSecond, MasterLeapSecond, PanicCheck, UpdateDomain, TimingDomainUpdate,
         RestartServices, RestartEngine, StepOnSignal, NtpdIsStarted, NtpdStarts, Midnight,
         Expire, upstreamVars, domainVars, vars
<1>2. CASE Decide \/ NoMessage \/ HandleAnnounce \/ StepOnSignal
  BY <1>1, <1>2, PanicKept, StateChangesEndPanic
  DEF Decide, NoMessage, HandleAnnounce, StepOnSignal
<1>3. CASE PortTimers
  <2>1. \/ \E state, asked : ToState(state, asked) \/ Stay(asked)
        \/ Timing({}, UpdateTimer("SLAVE"), {}) /\ UNCHANGED panicVars
    BY <1>3 DEF PortTimers, AnnounceTimeout, UpdateTimeout, NoTimeout
  <2>2. CASE Timing({}, UpdateTimer("SLAVE"), {}) /\ UNCHANGED panicVars
    <3>1. "panic" \notin UpdateTimer("SLAVE")
      BY DEF UpdateTimer
    <3> QED BY <1>1, <2>2, <3>1, OtherTimers, PanicKept DEF KeepsPanic
  <2> QED BY <1>1, <2>1, <2>2, PanicKept, StateChangesEndPanic
<1>4. CASE LeapSecond \/ MasterLeapSecond
  <2>1. /\ \E stopped, asked : Timing(stopped, {"pause"}, asked) \/ Timing(stopped, {}, asked)
        /\ UNCHANGED panicVars
    BY <1>4 DEF LeapSecond, MasterLeapSecond, PauseTimer
  <2> QED BY <1>1, <2>1, OtherTimers, PanicKept DEF KeepsPanic
<1>5. ASSUME NEW offset \in Offsets, HandleSync(offset) PROVE PanicInv'
  BY <1>1, <1>5, SyncsAndPanic, PanicKept, PanicEntered
<1>6. CASE PanicCheck
  BY <1>1, <1>6, PanicChecked
<1>7. CASE UpdateDomain \/ RestartServices \/ NtpdIsStarted \/ Midnight \/ UNCHANGED vars
  <2>1. UNCHANGED <<running, panicVars>> /\ NoNewExpiry
    BY <1>7 DEF UpdateDomain, RestartServices, NtpdIsStarted, Midnight, vars, NoNewExpiry
  <2> QED BY <1>1, <2>1, PanicKept DEF KeepsPanic
<1>8. ASSUME NEW t \in Timers, Expire(t) PROVE PanicInv'
  BY <1>1, <1>8 DEF Expire, PanicInv, PanicTicks, panicVars
<1> QED BY <1>2, <1>3, <1>4, <1>5, <1>6, <1>7, <1>8 DEF Next, Loop

THEOREM PanicInvariant == Spec => []PanicInv
<1>1. Init => PanicInv
  BY DEF Init, DomainInit, PanicInv
<1> QED BY <1>1, PanicStep, PTL DEF Spec

(* After the start the clock is stepped for a large offset only when a     *)
(* whole panic is over, for every duration and every set of options, but   *)
(* for an expiry left by the panic before.                                 *)
THEOREM StepsFollowPanic == Spec => PanicBeforeStep
<1> DEFINE Waits ==
      config.enablePanicMode /\ pastStartup /\ ~stepRequired
        /\ HandleSync("second") /\ did' \in {"stepped", "slewed"}
      => panicTicks = PanicTicks \/ lateTick
<1>1. ASSUME PanicInv PROVE Waits
  <2> SUFFICES ASSUME config.enablePanicMode, pastStartup, HandleSync("second"),
                      did' \in {"stepped", "slewed"}
               PROVE  panicTicks = PanicTicks \/ lateTick
    OBVIOUS
  <2>1. did' # "nothing"
    OBVIOUS
  <2>2. ~NotAdjusted /\ ~Ignored /\ ~StillPanicking /\ ~EnterPanic
    BY <2>1 DEF NotAdjusted, Ignored, StillPanicking, EnterPanic
  <2>3. LargeOffset
    BY <2>2 DEF HandleSync, MayStep
  <2>4. panicOver
    BY <2>2, <2>3 DEF LargeOffset
  <2> QED BY <1>1, <2>4 DEF PanicInv
<1>2. []PanicInv => [][Waits]_vars
  <2>1. PanicInv => [Waits]_vars
    BY <1>1
  <2> QED BY <2>1, PTL
<1> QED BY <1>2, PanicInvariant DEF PanicBeforeStep

-----------------------------------------------------------------------------
(* Control of the clock.  An update is a function of the record Domain;    *)
(* what the steps of it do is stated for records with its fields.          *)
IsDomain(d) ==
  /\ DOMAIN d = {"flags", "hold", "idle", "last", "due", "current", "election",
                 "available", "active", "granted", "ntpd"}
  /\ DOMAIN d.flags = {PTP, NTP}

Controls(d, s) == Has(d, s, "IN_CONTROL")
(* With more than one service PTP is granted the clock by Acquire only.    *)
PtpKnown(d) == config.failover /\ d.granted => Controls(d, PTP)
NtpKnown(d) == d.ntpd => Controls(d, NTP)

(* Steps that concern one service only, and say no more than is so. *)
PtpOnly(d, e) ==
  /\ IsDomain(e)
  /\ PtpKnown(d) => PtpKnown(e)
  /\ e.last = d.last /\ e.due = d.due /\ e.ntpd = d.ntpd /\ e.flags[NTP] = d.flags[NTP]
NtpOnly(d, e) ==
  /\ IsDomain(e) /\ e.last = d.last /\ e.due = d.due /\ e.hold = d.hold
  /\ e.granted = d.granted /\ e.flags[PTP] = d.flags[PTP]

(* A flag more or less of one service.                                     *)
FlagsOnly(d, e) ==
  /\ IsDomain(e)
  /\ e.hold = d.hold /\ e.last = d.last /\ e.due = d.due /\ e.current = d.current
  /\ e.election = d.election /\ e.granted = d.granted /\ e.ntpd = d.ntpd

LEMMA FlagsSet ==
  ASSUME NEW d, IsDomain(d), NEW s \in {PTP, NTP}, NEW S
  PROVE  /\ FlagsOnly(d, Set(d, s, S))
         /\ \A t \in {PTP, NTP} \ {s} : Set(d, s, S).flags[t] = d.flags[t]
         /\ Set(d, s, S).flags[s] = d.flags[s] \cup S
BY DEF IsDomain, Set, FlagsOnly

LEMMA FlagsUnset ==
  ASSUME NEW d, IsDomain(d), NEW s \in {PTP, NTP}, NEW S
  PROVE  /\ FlagsOnly(d, Unset(d, s, S))
         /\ \A t \in {PTP, NTP} \ {s} : Unset(d, s, S).flags[t] = d.flags[t]
         /\ Unset(d, s, S).flags[s] = d.flags[s] \ S
BY DEF IsDomain, Unset, FlagsOnly

(* Whatever PTP does, ntpd and its flags stay; it is granted the clock and *)
(* marked with it at once.                                                 *)
LEMMA PtpTakesOrLeaves ==
  ASSUME NEW d, IsDomain(d), NEW answer
  PROVE  /\ PtpOnly(d, Acquire(d, PTP, answer)) /\ PtpOnly(d, Release(d, PTP, answer))
         /\ PtpOnly(d, Dethrone(d, PTP, answer))
         /\ Acquire(d, PTP, answer).hold = d.hold
         /\ Release(d, PTP, answer).hold = d.hold
         /\ Release(d, PTP, answer).current = d.current
         /\ Release(d, PTP, answer).election = d.election
         /\ Dethrone(d, PTP, answer).hold = d.hold
         /\ ~Release(d, PTP, answer).granted /\ ~Dethrone(d, PTP, answer).granted
         /\ Release(d, PTP, answer).flags[PTP] = d.flags[PTP] \ {"IN_CONTROL"}
<1> USE ServicesAssumption
<1> DEFINE taken == Set(d, PTP, {"IN_CONTROL"})
           left == Unset(d, PTP, {"IN_CONTROL"})
<1>1. /\ IsDomain(taken) /\ taken.flags[NTP] = d.flags[NTP]
      /\ taken.flags[PTP] = d.flags[PTP] \cup {"IN_CONTROL"}
      /\ taken.last = d.last /\ taken.due = d.due /\ taken.ntpd = d.ntpd /\ taken.hold = d.hold
  BY FlagsSet, FlagsUnset DEF FlagsOnly
<1>2. /\ IsDomain(left) /\ left.flags[NTP] = d.flags[NTP]
      /\ left.flags[PTP] = d.flags[PTP] \ {"IN_CONTROL"}
      /\ left.last = d.last /\ left.due = d.due /\ left.ntpd = d.ntpd /\ left.hold = d.hold
      /\ left.current = d.current /\ left.election = d.election
  BY FlagsSet, FlagsUnset DEF FlagsOnly
<1> HIDE DEF taken, left
<1>3. /\ Acquire(d, PTP, answer) = [taken EXCEPT !.granted = TRUE]
      /\ Release(d, PTP, answer) = [left EXCEPT !.granted = FALSE]
  BY DEF Acquire, Release, taken, left
<1>4. /\ PtpOnly(d, Acquire(d, PTP, answer)) /\ Acquire(d, PTP, answer).hold = d.hold
  BY <1>1, <1>3 DEF PtpOnly, IsDomain, PtpKnown, Controls, Has
<1>5. /\ PtpOnly(d, Release(d, PTP, answer)) /\ ~Release(d, PTP, answer).granted
      /\ Release(d, PTP, answer).flags[PTP] = d.flags[PTP] \ {"IN_CONTROL"}
      /\ Release(d, PTP, answer).hold = d.hold
      /\ Release(d, PTP, answer).current = d.current
      /\ Release(d, PTP, answer).election = d.election
  BY <1>2, <1>3 DEF PtpOnly, IsDomain, PtpKnown
<1>6. /\ PtpOnly(d, Dethrone(d, PTP, answer)) /\ ~Dethrone(d, PTP, answer).granted
      /\ Dethrone(d, PTP, answer).hold = d.hold
  BY <1>5 DEF Dethrone, PtpOnly, IsDomain, PtpKnown
<1> QED BY <1>4, <1>5, <1>6

(* And whatever NTP does PTP keeps what it has.                            *)
LEMMA NtpTakesOrLeaves ==
  ASSUME NEW d, IsDomain(d), NEW answer
  PROVE  /\ NtpOnly(d, Acquire(d, NTP, answer)) /\ NtpOnly(d, Release(d, NTP, answer))
         /\ NtpOnly(d, Dethrone(d, NTP, answer))
         /\ Release(d, NTP, answer).current = d.current
         /\ Release(d, NTP, answer).election = d.election
         /\ Release(d, NTP, answer).flags[NTP] \in {d.flags[NTP], d.flags[NTP] \ {"IN_CONTROL"}}
         /\ config.control /\ answer = "answers" =>
              ~Release(d, NTP, answer).ntpd /\ ~Dethrone(d, NTP, answer).ntpd
<1> USE ServicesAssumption
<1>1. \A b \in BOOLEAN :
        /\ IsDomain(NtpdSteers(d, b, answer))
        /\ LET e == NtpdSteers(d, b, answer)
           IN /\ e.flags = d.flags /\ e.last = d.last /\ e.due = d.due /\ e.hold = d.hold
              /\ e.granted = d.granted /\ e.current = d.current /\ e.election = d.election
              /\ answer = "answers" => e.ntpd = b
  BY DEF NtpdSteers, IsDomain
<1> DEFINE on == NtpdSteers(d, TRUE, answer)
           off == NtpdSteers(d, FALSE, answer)
<1>2. Acquire(d, NTP, answer) \in {d, on, Set(on, NTP, {"IN_CONTROL"})}
  BY DEF Acquire
<1>3. /\ Release(d, NTP, answer) \in {d, off, Unset(off, NTP, {"IN_CONTROL"})}
      /\ config.control /\ answer = "answers" =>
           Release(d, NTP, answer) = Unset(off, NTP, {"IN_CONTROL"})
  BY DEF Release
<1>4. /\ IsDomain(on) /\ IsDomain(off)
      /\ on.flags = d.flags /\ on.last = d.last /\ on.due = d.due /\ on.hold = d.hold
      /\ on.granted = d.granted
      /\ off.flags = d.flags /\ off.last = d.last /\ off.due = d.due /\ off.hold = d.hold
      /\ off.granted = d.granted /\ off.current = d.current /\ off.election = d.election
      /\ answer = "answers" => off.ntpd = FALSE
  BY <1>1
<1> HIDE DEF on, off
<1>5. NtpOnly(d, Acquire(d, NTP, answer))
  BY <1>2, <1>4, FlagsSet DEF FlagsOnly, NtpOnly
<1>6. /\ NtpOnly(d, Release(d, NTP, answer))
      /\ Release(d, NTP, answer).current = d.current
      /\ Release(d, NTP, answer).election = d.election
      /\ Release(d, NTP, answer).flags[NTP] \in {d.flags[NTP], d.flags[NTP] \ {"IN_CONTROL"}}
      /\ config.control /\ answer = "answers" => ~Release(d, NTP, answer).ntpd
  <2> DEFINE unset == Unset(off, NTP, {"IN_CONTROL"})
  <2>1. /\ IsDomain(unset) /\ unset.flags[PTP] = d.flags[PTP]
        /\ unset.flags[NTP] = d.flags[NTP] \ {"IN_CONTROL"}
        /\ unset.last = d.last /\ unset.due = d.due /\ unset.hold = d.hold
        /\ unset.granted = d.granted /\ unset.current = d.current
        /\ unset.election = d.election
        /\ answer = "answers" => unset.ntpd = FALSE
    <3>1. /\ IsDomain(unset) /\ unset.flags[PTP] = off.flags[PTP]
          /\ unset.flags[NTP] = off.flags[NTP] \ {"IN_CONTROL"}
          /\ unset.last = off.last /\ unset.due = off.due /\ unset.hold = off.hold
          /\ unset.granted = off.granted /\ unset.current = off.current
          /\ unset.election = off.election /\ unset.ntpd = off.ntpd
      BY <1>4, FlagsUnset DEF FlagsOnly
    <3> QED BY <1>4, <3>1
  <2> HIDE DEF unset
  <2>2. Release(d, NTP, answer) \in {d, off, unset}
    BY <1>3 DEF unset
  <2>3. config.control /\ answer = "answers" => Release(d, NTP, answer) = unset
    BY <1>3 DEF unset
  <2> HIDE DEF Release
  <2>4. \A e \in {d, off, unset} :
          /\ NtpOnly(d, e) /\ e.current = d.current /\ e.election = d.election
          /\ e.flags[NTP] \in {d.flags[NTP], d.flags[NTP] \ {"IN_CONTROL"}}
    BY <1>4, <2>1 DEF NtpOnly
  <2> QED BY <2>1, <2>2, <2>3, <2>4
<1>7. /\ NtpOnly(d, Dethrone(d, NTP, answer))
      /\ config.control /\ answer = "answers" => ~Dethrone(d, NTP, answer).ntpd
  BY <1>6 DEF Dethrone, NtpOnly, IsDomain
<1> QED BY <1>5, <1>6, <1>7

(* The first pass for PTP: with all it does to hold and idle times ntpd    *)
(* stays as it was.                                                        *)
LEMMA PtpOnlyTransitive ==
  ASSUME NEW d, NEW e, NEW f, PtpOnly(d, e), PtpOnly(e, f)
  PROVE  PtpOnly(d, f)
BY Zenon DEF PtpOnly

(* Steps that leave the grant and the mark alone.                          *)
Untouched(d, e) ==
  /\ IsDomain(e) /\ e.granted = d.granted
  /\ Controls(d, PTP) => Controls(e, PTP)
  /\ e.last = d.last /\ e.due = d.due /\ e.ntpd = d.ntpd /\ e.flags[NTP] = d.flags[NTP]

LEMMA UntouchedIsPtpOnly ==
  ASSUME NEW d, NEW e, Untouched(d, e)
  PROVE  PtpOnly(d, e)
BY Zenon DEF Untouched, PtpOnly, PtpKnown

LEMMA UntouchedTransitive ==
  ASSUME NEW d, NEW e, NEW f, Untouched(d, e), Untouched(e, f)
  PROVE  Untouched(d, f)
BY Zenon DEF Untouched

LEMMA UntouchedSelf ==
  ASSUME NEW d, IsDomain(d)
  PROVE  Untouched(d, d)
BY DEF Untouched

LEMMA FlagsUntouched ==
  ASSUME NEW d, IsDomain(d), NEW S
  PROVE  /\ Untouched(d, Set(d, PTP, S))
         /\ "IN_CONTROL" \notin S => Untouched(d, Unset(d, PTP, S))
<1>1. /\ IsDomain(Set(d, PTP, S)) /\ Set(d, PTP, S).flags[PTP] = d.flags[PTP] \cup S
      /\ Set(d, PTP, S).flags[NTP] = d.flags[NTP] /\ Set(d, PTP, S).last = d.last
      /\ Set(d, PTP, S).due = d.due /\ Set(d, PTP, S).granted = d.granted
      /\ Set(d, PTP, S).ntpd = d.ntpd
  BY FlagsSet, FlagsUnset, ServicesAssumption DEF FlagsOnly
<1>2. /\ IsDomain(Unset(d, PTP, S)) /\ Unset(d, PTP, S).flags[PTP] = d.flags[PTP] \ S
      /\ Unset(d, PTP, S).flags[NTP] = d.flags[NTP] /\ Unset(d, PTP, S).last = d.last
      /\ Unset(d, PTP, S).due = d.due /\ Unset(d, PTP, S).granted = d.granted
      /\ Unset(d, PTP, S).ntpd = d.ntpd
  BY FlagsSet, FlagsUnset, ServicesAssumption DEF FlagsOnly
<1> QED BY <1>1, <1>2 DEF Untouched, Controls, Has

LEMMA OtherFieldsUntouched ==
  ASSUME NEW d, IsDomain(d), NEW x
  PROVE  /\ Untouched(d, [d EXCEPT !.hold = x])
         /\ Untouched(d, [d EXCEPT !.idle = x])
         /\ Untouched(d, [d EXCEPT !.available = x])
         /\ Untouched(d, [d EXCEPT !.active = x])
         /\ Untouched(d, [d EXCEPT !.election = x])
BY DEF Untouched, IsDomain, Controls, Has

LEMMA PtpServiceKeepsNtpd ==
  ASSUME NEW d, IsDomain(d)
  PROVE  PtpOnly(d, PtpServiceUpdate(d))
<1> DEFINE slaveNow == Slave(Operational(d))
<1>1. ASSUME NEW e, IsDomain(e) PROVE Untouched(e, Operational(e))
  BY <1>1, FlagsUntouched DEF Operational
<1>2. ASSUME NEW e, IsDomain(e) PROVE Untouched(e, Slave(e))
  <2> DEFINE f == Unset(Set(e, PTP, {"AVAILABLE"}), PTP, {"HOLD"})
  <2>1. Untouched(e, Set(e, PTP, {"AVAILABLE"})) /\ Untouched(e, Unset(e, PTP, {"AVAILABLE"}))
    BY <1>2, FlagsUntouched
  <2>2. Untouched(Set(e, PTP, {"AVAILABLE"}), f)
    BY <2>1, FlagsUntouched, Zenon DEF Untouched
  <2>3. Untouched(f, [f EXCEPT !.hold = 0])
    <3>1. IsDomain(f)
      BY <2>2, Zenon DEF Untouched
    <3> HIDE DEF f
    <3> QED BY <3>1, OtherFieldsUntouched
  <2>4. Untouched(e, [f EXCEPT !.hold = 0])
    BY <2>1, <2>2, <2>3, UntouchedTransitive, Zenon
  <2> QED BY <2>1, <2>4 DEF Slave
<1>3. ASSUME NEW e, IsDomain(e) PROVE Untouched(e, NotSlave(e))
  <2> DEFINE idle == Unset(e, PTP, {"IDLE"})
             given == Unset(idle, PTP, {"AVAILABLE", "HOLD"})
             held == Set(idle, PTP, {"HOLD"})
  <2>1. Untouched(e, idle)
    BY <1>3, FlagsUntouched
  <2>2. Untouched(idle, given) /\ Untouched(idle, held)
    BY <2>1, FlagsUntouched, Zenon DEF Untouched
  <2>3. /\ Untouched(given, [given EXCEPT !.available = FALSE])
        /\ \A x : Untouched(held, [held EXCEPT !.hold = x])
    <3>1. IsDomain(given) /\ IsDomain(held)
      BY <2>2, Zenon DEF Untouched
    <3> HIDE DEF given, held
    <3> QED BY <3>1, OtherFieldsUntouched
  <2>4. /\ Untouched(e, [given EXCEPT !.available = FALSE])
        /\ \A x : Untouched(e, [held EXCEPT !.hold = x])
    BY <2>1, <2>2, <2>3, UntouchedTransitive, Zenon
  <2>5. NotSlave(e) \in {idle, [given EXCEPT !.available = FALSE],
                         [held EXCEPT !.hold = IF held.hold = 0 THEN config.holdTime ELSE held.hold]}
    BY DEF NotSlave
  <2> QED BY <2>1, <2>4, <2>5
<1>4. ASSUME NEW e, IsDomain(e) PROVE Untouched(e, IdleGivesUp(e))
  <2> DEFINE f == Unset(e, PTP, {"AVAILABLE"})
  <2>1. Untouched(e, f)
    BY <1>4, FlagsUntouched
  <2>2. Untouched(f, [f EXCEPT !.available = FALSE])
    BY <2>1, OtherFieldsUntouched, Zenon DEF Untouched
  <2>3. Untouched(e, [f EXCEPT !.available = FALSE])
    BY <2>1, <2>2, UntouchedTransitive, Zenon
  <2>4. IdleGivesUp(e) \in {e, [f EXCEPT !.available = FALSE]}
    BY DEF IdleGivesUp
  <2> QED BY <1>4, <2>3, <2>4, UntouchedSelf
<1>5. CASE ~config.failover
  <2> DEFINE e == Set(d, PTP, {"OPERATIONAL", "AVAILABLE"})
  <2>1. Untouched(d, e)
    BY FlagsUntouched
  <2>2. PtpServiceUpdate(d) = [e EXCEPT !.granted = @ \/ d.available]
    BY <1>5 DEF PtpServiceUpdate
  <2>3. IsDomain(e) /\ e.last = d.last /\ e.due = d.due /\ e.ntpd = d.ntpd /\ e.flags[NTP] = d.flags[NTP]
    BY <2>1, Zenon DEF Untouched
  <2> HIDE DEF e
  <2>4. \A x : PtpOnly(d, [e EXCEPT !.granted = x])
    BY <1>5, <2>3 DEF PtpOnly, PtpKnown, IsDomain
  <2> QED BY <2>2, <2>4, Zenon
<1>6. CASE config.failover
  <2>1. Untouched(d, Operational(d)) /\ IsDomain(Operational(d))
    BY <1>1 DEF Untouched
  <2>2. /\ Untouched(Operational(d), Slave(Operational(d)))
        /\ Untouched(Operational(d), NotSlave(Operational(d)))
        /\ IsDomain(Slave(Operational(d))) /\ IsDomain(NotSlave(Operational(d)))
    BY <1>2, <1>3, <2>1 DEF Untouched
  <2>3. /\ Untouched(Slave(Operational(d)), IdleGivesUp(Slave(Operational(d))))
        /\ Untouched(NotSlave(Operational(d)), IdleGivesUp(NotSlave(Operational(d))))
    BY <1>4, <2>2
  <2>4. /\ Untouched(d, IdleGivesUp(Slave(Operational(d))))
        /\ Untouched(d, IdleGivesUp(NotSlave(Operational(d))))
    BY <2>1, <2>2, <2>3, UntouchedTransitive, Zenon
  <2> QED BY <1>6, <2>4, UntouchedIsPtpOnly DEF PtpServiceUpdate
<1> QED BY <1>5, <1>6

LEMMA IdleTimesKeepNtpd ==
  ASSUME NEW d, IsDomain(d), NEW active
  PROVE  PtpOnly(d, IdleTimes(d, active))
<1> DEFINE seen == IF active THEN Active(d) ELSE d
           held == [seen EXCEPT !.hold =
                      IF ~Has(d, PTP, "IDLE") /\ d.current = PTP THEN config.holdTime ELSE @]
           marked == Set(held, PTP, {"IDLE"})
           idled == [marked EXCEPT !.idle = 0]
<1>1. Untouched(d, Active(d))
  <2> DEFINE e == Unset(d, PTP, {"IDLE"})
  <2>1. Untouched(d, e) /\ IsDomain(e)
    BY FlagsUntouched DEF Untouched
  <2>2. Active(d) = [e EXCEPT !.hold = IF Has(d, PTP, "HOLD") THEN @ ELSE 0]
    BY DEF Active
  <2> HIDE DEF e
  <2>3. \A x : Untouched(e, [e EXCEPT !.hold = x])
    BY <2>1, OtherFieldsUntouched
  <2> QED BY <2>1, <2>2, <2>3, UntouchedTransitive, Zenon
<1>2. Untouched(d, seen) /\ IsDomain(seen)
  <2>1. seen \in {d, Active(d)}
    OBVIOUS
  <2> HIDE DEF seen
  <2> QED BY <1>1, <2>1, UntouchedSelf DEF Untouched
<1>3. Untouched(seen, held) /\ IsDomain(held)
  <2> HIDE DEF seen
  <2>1. \A x : Untouched(seen, [seen EXCEPT !.hold = x])
    BY <1>2, OtherFieldsUntouched
  <2> QED BY <2>1, Zenon DEF Untouched
<1>4. Untouched(held, marked) /\ IsDomain(marked)
  <2> HIDE DEF held
  <2> QED BY <1>3, FlagsUntouched DEF Untouched
<1>5. Untouched(marked, idled) /\ IsDomain(idled)
  <2> HIDE DEF marked
  <2>1. Untouched(marked, [marked EXCEPT !.idle = 0])
    BY <1>4, OtherFieldsUntouched
  <2> QED BY <2>1, Zenon DEF Untouched
<1>6. \A x : Untouched(seen, [seen EXCEPT !.idle = x])
  <2> HIDE DEF seen
  <2> QED BY <1>2, OtherFieldsUntouched
<1>7. \/ IdleTimes(d, active) = d
      \/ \E x : IdleTimes(d, active) = [seen EXCEPT !.idle = x]
      \/ IdleTimes(d, active) = idled
      \/ IdleTimes(d, active) = Dethrone(idled, PTP, "answers")
  BY Zenon DEF IdleTimes
<1> HIDE DEF seen, held, marked, idled
<1>8. Untouched(d, idled)
  BY <1>2, <1>3, <1>4, <1>5, UntouchedTransitive, Zenon
<1>9. PtpOnly(idled, Dethrone(idled, PTP, "answers"))
  BY <1>5, PtpTakesOrLeaves
<1>10. PtpOnly(d, Dethrone(idled, PTP, "answers"))
  BY <1>8, <1>9, UntouchedIsPtpOnly, PtpOnlyTransitive, Zenon
<1>11. \A x : PtpOnly(d, [seen EXCEPT !.idle = x])
  BY <1>2, <1>6, UntouchedTransitive, UntouchedIsPtpOnly, Zenon
<1> QED BY <1>7, <1>8, <1>10, <1>11, UntouchedSelf, UntouchedIsPtpOnly, Zenon

LEMMA FirstPassOfPtp ==
  ASSUME NEW d, IsDomain(d), NEW e, e = FirstPassPtp(d)
  PROVE  /\ IsDomain(e) /\ e.last = d.last /\ PTP \in e.due
         /\ PtpKnown(d) => PtpKnown(e)
<1> DEFINE due == [d EXCEPT !.due = @ \cup {PTP}, !.hold = CountDown(@),
                            !.active = @ /\ ~config.failover]
           offered == PtpServiceUpdate(due)
           idled == IdleTimes(offered, d.active \/ ~config.failover)
<1>1. /\ IsDomain(due) /\ due.last = d.last /\ PTP \in due.due
      /\ PtpKnown(d) => PtpKnown(due)
  BY DEF IsDomain, PtpKnown, Controls, Has
<1>2. e \in {idled, Release(idled, PTP, "answers"), Dethrone(idled, PTP, "answers")}
  BY Zenon DEF FirstPassPtp, ReleaseUnusable
<1> HIDE DEF due
<1>3. PtpOnly(due, offered) /\ IsDomain(offered)
  BY <1>1, PtpServiceKeepsNtpd DEF PtpOnly
<1> HIDE DEF offered
<1>4. PtpOnly(offered, idled) /\ IsDomain(idled)
  BY <1>3, IdleTimesKeepNtpd DEF PtpOnly
<1> HIDE DEF idled
<1>5. /\ PtpOnly(idled, Release(idled, PTP, "answers"))
      /\ PtpOnly(idled, Dethrone(idled, PTP, "answers"))
  BY <1>4, PtpTakesOrLeaves
<1>6. PtpOnly(due, idled)
  BY <1>3, <1>4, PtpOnlyTransitive, Zenon
<1>7. PtpOnly(due, e)
  <2>1. CASE e = idled
    BY <1>6, <2>1
  <2>2. CASE e \in {Release(idled, PTP, "answers"), Dethrone(idled, PTP, "answers")}
    <3>1. PtpOnly(idled, e)
      BY <1>5, <2>2, Zenon
    <3> QED BY <1>6, <3>1, PtpOnlyTransitive, Zenon
  <2> QED BY <1>2, <2>1, <2>2
<1> QED BY <1>1, <1>7, Zenon DEF PtpOnly

(* The first pass for NTP leaves PTP as it is.  When ntpd was asked and    *)
(* answered, its mark is there if it steers the clock.                     *)
LEMMA NtpKeepsPtp ==
  ASSUME NEW d, NEW e, NtpOnly(d, e)
  PROVE  PtpKnown(d) => PtpKnown(e)
BY Zenon DEF NtpOnly, PtpKnown, Controls, Has

LEMMA FirstPassOfNtp ==
  ASSUME NEW d, IsDomain(d), d.last \in Nat, NEW answer, NEW e, e = FirstPassNtp(d, answer)
  PROVE  /\ IsDomain(e) /\ e.last \in Nat
         /\ PtpKnown(d) => PtpKnown(e)
         /\ d.due \subseteq e.due
         /\ engine /\ answer = "answers" /\ e.last = 0 => NTP \in e.due /\ NtpKnown(e)
<1> DEFINE asked == [d EXCEPT !.last = 0, !.due = @ \cup {NTP}]
           u == NtpServiceUpdate(asked, answer)
<1>1. CASE e = d /\ ~engine
  BY <1>1
<1>2. CASE e = [d EXCEPT !.last = @ + 1]
  <2>1. IsDomain(e) /\ e.last = d.last + 1 /\ e.due = d.due
    BY <1>2 DEF IsDomain
  <2>2. e.granted = d.granted /\ e.flags = d.flags
    BY <1>2 DEF IsDomain
  <2>3. PtpKnown(d) => PtpKnown(e)
    BY <2>2, Zenon DEF PtpKnown, Controls, Has
  <2> QED BY <2>1, <2>3
<1>3. CASE e = ReleaseUnusable(u, NTP, answer)
  <2>1. /\ IsDomain(asked) /\ asked.last = 0 /\ asked.due = d.due \cup {NTP}
        /\ asked.granted = d.granted /\ asked.flags = d.flags
    BY DEF IsDomain
  <2>2. PtpKnown(d) => PtpKnown(asked)
    BY <2>1, Zenon DEF PtpKnown, Controls, Has
  <2>3. \/ u = Unset(asked, NTP, {"OPERATIONAL", "AVAILABLE"}) /\ answer # "answers"
        \/ \E S : /\ u = Set(asked, NTP, {"OPERATIONAL", "AVAILABLE"} \cup S)
                  /\ asked.ntpd => "IN_CONTROL" \in S
    BY Zenon DEF NtpServiceUpdate, NtpdInControl
  <2> HIDE DEF asked, u
  <2>4. /\ NtpOnly(asked, u)
        /\ answer = "answers" => NtpKnown(u) /\ Usable(u, NTP)
    <3> USE ServicesAssumption
    <3>1. CASE u = Unset(asked, NTP, {"OPERATIONAL", "AVAILABLE"}) /\ answer # "answers"
      BY <2>1, <3>1, FlagsUnset DEF FlagsOnly, NtpOnly
    <3>2. ASSUME NEW S, u = Set(asked, NTP, {"OPERATIONAL", "AVAILABLE"} \cup S),
                 asked.ntpd => "IN_CONTROL" \in S
          PROVE  NtpOnly(asked, u) /\ NtpKnown(u) /\ Usable(u, NTP)
      <4>1. /\ FlagsOnly(asked, u) /\ u.flags[PTP] = asked.flags[PTP]
            /\ u.flags[NTP] = asked.flags[NTP] \cup ({"OPERATIONAL", "AVAILABLE"} \cup S)
        BY <2>1, <3>2, FlagsSet
      <4>2. NtpOnly(asked, u)
        BY <4>1 DEF FlagsOnly, NtpOnly
      <4>3. u.ntpd = asked.ntpd
        BY <4>1 DEF FlagsOnly
      <4>4. "IN_CONTROL" \in S => Controls(u, NTP)
        BY <4>1 DEF Controls, Has
      <4>5. Usable(u, NTP)
        BY <4>1 DEF Usable, Has
      <4> QED BY <3>2, <4>2, <4>3, <4>4, <4>5, Zenon DEF NtpKnown
    <3> QED BY <2>3, <3>1, <3>2
  <2>5. e \in {u, Release(u, NTP, answer), Dethrone(u, NTP, answer)}
    BY <1>3, Zenon DEF ReleaseUnusable
  <2>6. Usable(u, NTP) => e = u
    BY <1>3 DEF ReleaseUnusable
  <2>7. IsDomain(u)
    BY <2>4, Zenon DEF NtpOnly
  <2>8. /\ NtpOnly(u, Release(u, NTP, answer)) /\ NtpOnly(u, Dethrone(u, NTP, answer))
    BY <2>7, NtpTakesOrLeaves
  <2>9. /\ IsDomain(e) /\ e.last = u.last /\ e.due = u.due
        /\ PtpKnown(u) => PtpKnown(e)
    <3>1. CASE e = u
      BY <2>7, <3>1
    <3>2. CASE e # u
      BY <2>5, <2>8, <3>2, NtpKeepsPtp, Zenon DEF NtpOnly
    <3> QED BY <3>1, <3>2
  <2>10. u.last = 0 /\ u.due = d.due \cup {NTP} /\ (PtpKnown(asked) => PtpKnown(u))
    BY <2>1, <2>4, NtpKeepsPtp, Zenon DEF NtpOnly
  <2>11. answer = "answers" => NtpKnown(e)
    BY <2>4, <2>6, Zenon
  <2> QED BY <2>2, <2>9, <2>10, <2>11
<1> QED BY <1>1, <1>2, <1>3, Zenon DEF FirstPassNtp

-----------------------------------------------------------------------------
(* The rest of an update keeps the times.                                  *)
Kept(d, e) ==
  /\ IsDomain(e) /\ e.last = d.last /\ e.hold = d.hold
  /\ PtpKnown(d) => PtpKnown(e)

LEMMA KeptTransitive ==
  ASSUME NEW d, NEW e, NEW f, Kept(d, e), Kept(e, f)
  PROVE  Kept(d, f)
BY Zenon DEF Kept

LEMMA ControlKeepsTimes ==
  ASSUME NEW d, IsDomain(d), NEW s \in {PTP, NTP}, NEW answer
  PROVE  /\ Kept(d, Acquire(d, s, answer)) /\ Kept(d, Release(d, s, answer))
         /\ Kept(d, Dethrone(d, s, answer))
<1>1. /\ Kept(d, Acquire(d, PTP, answer)) /\ Kept(d, Release(d, PTP, answer))
      /\ Kept(d, Dethrone(d, PTP, answer))
  <2>1. /\ PtpOnly(d, Acquire(d, PTP, answer)) /\ Acquire(d, PTP, answer).hold = d.hold
        /\ PtpOnly(d, Release(d, PTP, answer)) /\ Release(d, PTP, answer).hold = d.hold
        /\ PtpOnly(d, Dethrone(d, PTP, answer)) /\ Dethrone(d, PTP, answer).hold = d.hold
    BY PtpTakesOrLeaves
  <2> QED BY <2>1, Zenon DEF PtpOnly, Kept
<1>2. /\ Kept(d, Acquire(d, NTP, answer)) /\ Kept(d, Release(d, NTP, answer))
      /\ Kept(d, Dethrone(d, NTP, answer))
  <2>1. /\ NtpOnly(d, Acquire(d, NTP, answer)) /\ NtpOnly(d, Release(d, NTP, answer))
        /\ NtpOnly(d, Dethrone(d, NTP, answer))
    BY NtpTakesOrLeaves
  <2>2. \A e : NtpOnly(d, e) => Kept(d, e)
    BY NtpKeepsPtp, Zenon DEF NtpOnly, Kept
  <2> QED BY <2>1, <2>2, Zenon
<1> QED BY <1>1, <1>2, Zenon

LEMMA CurrentKeepsTimes ==
  ASSUME NEW d, IsDomain(d), NEW x
  PROVE  /\ Kept(d, [d EXCEPT !.current = x]) /\ Kept(d, [d EXCEPT !.due = x])
         /\ Kept(d, [[d EXCEPT !.due = {}] EXCEPT !.current = None])
<1>1. /\ IsDomain([d EXCEPT !.current = x]) /\ IsDomain([d EXCEPT !.due = x])
      /\ IsDomain([[d EXCEPT !.due = {}] EXCEPT !.current = None])
  BY DEF IsDomain
<1>2. \A e \in {[d EXCEPT !.current = x], [d EXCEPT !.due = x],
                [[d EXCEPT !.due = {}] EXCEPT !.current = None]} :
        /\ e.granted = d.granted /\ e.flags = d.flags /\ e.last = d.last /\ e.hold = d.hold
  BY DEF IsDomain
<1>3. ASSUME NEW e, e.granted = d.granted, e.flags = d.flags
      PROVE  PtpKnown(d) => PtpKnown(e)
  BY <1>3, Zenon DEF PtpKnown, Controls, Has
<1> QED BY <1>1, <1>2, <1>3 DEF Kept

(* There is one best service, and control of the clock is no part of what  *)
(* makes it the best.                                                      *)
LEMMA RanksDiffer ==
  ASSUME NEW d
  PROVE  /\ \A s \in {PTP, NTP} : Rank(d, s) \in 0 .. 7
         /\ Rank(d, PTP) # Rank(d, NTP)
<1> USE ServicesAssumption
<1>1. CASE config.preferNTP
  BY <1>1 DEF Rank, Preferred
<1>2. CASE ~config.preferNTP
  BY <1>2 DEF Rank, Preferred
<1> QED BY <1>1, <1>2

LEMMA BestOfServices ==
  ASSUME NEW d
  PROVE  Best(d) \in Services /\ \A s \in Services : Rank(d, Best(d)) >= Rank(d, s)
<1>1. \E s \in Services : \A other \in Services : Rank(d, s) >= Rank(d, other)
  <2>1. CASE engine /\ Rank(d, NTP) >= Rank(d, PTP)
    <3>1. \A other \in Services : Rank(d, NTP) >= Rank(d, other)
      BY <2>1, RanksDiffer DEF Services
    <3> QED BY <2>1, <3>1 DEF Services
  <2>2. CASE ~(engine /\ Rank(d, NTP) >= Rank(d, PTP))
    <3>1. \A other \in Services : Rank(d, PTP) >= Rank(d, other)
      BY <2>2, RanksDiffer DEF Services
    <3> QED BY <3>1 DEF Services
  <2> QED BY <2>1, <2>2
<1> QED BY <1>1, Zenon DEF Best

LEMMA SameBest ==
  ASSUME NEW d, NEW e, \A s \in Services : Rank(e, s) = Rank(d, s)
  PROVE  Best(e) = Best(d)
<1> DEFINE b == Best(d)
           c == Best(e)
<1>1. b \in {PTP, NTP} /\ c \in {PTP, NTP} /\ b \in Services /\ c \in Services
  BY BestOfServices, Zenon DEF Services
<1>2. Rank(d, b) >= Rank(d, c) /\ Rank(e, c) >= Rank(e, b)
  BY <1>1, BestOfServices
<1>3. Rank(e, c) = Rank(d, c) /\ Rank(e, b) = Rank(d, b)
  BY <1>1
<1>4. Rank(d, b) \in 0 .. 7 /\ Rank(d, c) \in 0 .. 7
  BY <1>1, RanksDiffer
<1>5. Rank(d, b) = Rank(d, c)
  BY <1>2, <1>3, <1>4
<1>6. Rank(d, PTP) # Rank(d, NTP)
  BY RanksDiffer
<1> HIDE DEF b, c
<1>7. b = c
  BY <1>1, <1>5, <1>6
<1> QED BY <1>7 DEF b, c

LEMMA ReleaseKeepsRanks ==
  ASSUME NEW d, IsDomain(d), NEW s \in {PTP, NTP}, NEW answer
  PROVE  \A t \in {PTP, NTP} : Rank(Release(d, s, answer), t) = Rank(d, t)
<1> USE ServicesAssumption
<1> DEFINE e == Release(d, s, answer)
<1>1. \A t \in {PTP, NTP} : e.flags[t] \in {d.flags[t], d.flags[t] \ {"IN_CONTROL"}}
  <2>1. CASE s = PTP
    BY <2>1, PtpTakesOrLeaves DEF PtpOnly
  <2>2. CASE s = NTP
    BY <2>2, NtpTakesOrLeaves DEF NtpOnly
  <2> QED BY <2>1, <2>2
<1> HIDE DEF e
<1>2. \A t \in {PTP, NTP}, flag \in {"OPERATIONAL", "AVAILABLE"} : Has(e, t, flag) <=> Has(d, t, flag)
  BY <1>1 DEF Has
<1>3. \A t \in {PTP, NTP} : Rank(e, t) = Rank(d, t)
  BY <1>2 DEF Rank
<1> QED BY <1>3 DEF e

(* A service other than PTP is treated as NTP. *)
LEMMA DethronesOne ==
  ASSUME NEW d, NEW s, s # PTP, NEW answer
  PROVE  Dethrone(d, s, answer) = Dethrone(d, NTP, answer)
<1>1. Release(d, s, answer) = Release(d, NTP, answer)
  BY ServicesAssumption, Zenon DEF Release
<1> QED BY <1>1, Zenon DEF Dethrone

LEMMA DethroneKeepsTimes ==
  ASSUME NEW d, IsDomain(d), NEW s, NEW answer
  PROVE  Kept(d, Dethrone(d, s, answer))
<1>1. Kept(d, Dethrone(d, PTP, answer)) /\ Kept(d, Dethrone(d, NTP, answer))
  BY ControlKeepsTimes, Zenon
<1> QED BY <1>1, DethronesOne, Zenon

SecondPass(d, answer) ==
  IF Deposes(d) THEN Dethrone(d, d.current, answer)
  ELSE Crown(ReleaseUsurpers(Elect(d), answer), answer)

LEMMA SecondPassKeepsTimes ==
  ASSUME NEW d, IsDomain(d), NEW answer
  PROVE  Kept(d, SecondPass(d, answer))
<1> DEFINE e == Elect(d)
           p == IF Usurps(e, PTP) THEN Release(e, PTP, answer) ELSE e
           r == ReleaseUsurpers(e, answer)
           done == [r EXCEPT !.due = {}]
<1>0. \A x : IsDomain(x) => Kept(x, x)
  BY Zenon DEF Kept
<1>1. Kept(d, e) /\ IsDomain(e)
  <2>1. e = d \/ \E x : e = [d EXCEPT !.current = x]
    BY Zenon DEF Elect
  <2> HIDE DEF e
  <2>2. \A x : Kept(d, [d EXCEPT !.current = x])
    BY CurrentKeepsTimes
  <2>3. Kept(d, e)
    BY <1>0, <2>1, <2>2, Zenon
  <2> QED BY <2>3, Zenon DEF Kept
<1> HIDE DEF e
<1>2. Kept(e, p) /\ IsDomain(p)
  BY <1>0, <1>1, ControlKeepsTimes DEF Kept
<1>3. r = p \/ r = Release(p, NTP, answer)
  BY Zenon DEF ReleaseUsurpers
<1> HIDE DEF p, r
<1>4. Kept(p, r) /\ IsDomain(r)
  BY <1>0, <1>2, <1>3, ControlKeepsTimes DEF Kept
<1>5. Kept(r, done) /\ IsDomain(done)
  BY <1>4, CurrentKeepsTimes DEF Kept
<1>6. Kept(r, Crown(r, answer))
  <2>1. \/ Crown(r, answer) = [[r EXCEPT !.due = {}] EXCEPT !.current = None]
        \/ Crown(r, answer) = done
        \/ Crown(r, answer) = Acquire(done, Best(r), answer)
    BY Zenon DEF Crown
  <2>2. Best(r) \in {PTP, NTP}
    BY BestOfServices, Zenon DEF Services
  <2> HIDE DEF done
  <2>3. Kept(done, Acquire(done, Best(r), answer))
    BY <1>5, <2>2, ControlKeepsTimes
  <2>4. Kept(r, Acquire(done, Best(r), answer))
    BY <1>5, <2>3, KeptTransitive, Zenon
  <2>5. Kept(r, [[r EXCEPT !.due = {}] EXCEPT !.current = None])
    BY <1>4, CurrentKeepsTimes
  <2> QED BY <1>5, <2>1, <2>4, <2>5, Zenon
<1>7. Kept(d, Crown(r, answer))
  BY <1>1, <1>2, <1>4, <1>6, KeptTransitive, Zenon
<1>8. Kept(d, Dethrone(d, d.current, answer))
  BY DethroneKeepsTimes
<1> QED BY <1>7, <1>8, Zenon DEF SecondPass, r, e

(* The heart of the matter.  Both services were updated and hold nothing.  *)
(* Either the update ends with the one deposed giving the clock up, or     *)
(* whoever is not current and has it gives it up; and only the best is     *)
(* given it, which then is current.                                        *)
LEMMA OneInControl ==
  ASSUME NEW d, IsDomain(d), engine, config.control, config.failover,
         PTP \in d.due, NTP \in d.due, d.hold = 0, PtpKnown(d), NtpKnown(d)
  PROVE  ~(SecondPass(d, "answers").granted /\ SecondPass(d, "answers").ntpd)
<1> USE ServicesAssumption
<1> DEFINE e == Elect(d)
           p == IF Usurps(e, PTP) THEN Release(e, PTP, "answers") ELSE e
           r == IF Usurps(p, NTP) THEN Release(p, NTP, "answers") ELSE p
           done == [r EXCEPT !.due = {}]
<1>1. CASE Deposes(d)
  <2>1. SecondPass(d, "answers") = Dethrone(d, d.current, "answers")
    BY <1>1, Zenon DEF SecondPass
  <2>2. ~Dethrone(d, PTP, "answers").granted /\ ~Dethrone(d, NTP, "answers").ntpd
    BY PtpTakesOrLeaves, NtpTakesOrLeaves
  <2> QED BY <2>1, <2>2, DethronesOne, Zenon
<1>2. CASE ~Deposes(d)
  <2>1. SecondPass(d, "answers") = Crown(r, "answers")
    BY <1>2, Zenon DEF SecondPass, ReleaseUsurpers
  <2>2. /\ IsDomain(e) /\ e.flags = d.flags /\ e.granted = d.granted /\ e.ntpd = d.ntpd
        /\ e.due = d.due /\ e.hold = d.hold /\ e.election = d.election
    BY DEF Elect, IsDomain
  <2>3. d.election = 0 /\ Usable(d, Best(d)) => e.current = Best(d)
    BY DEF Elect, IsDomain
  <2>4. PtpKnown(e) /\ NtpKnown(e)
    BY <2>2, Zenon DEF PtpKnown, NtpKnown, Controls, Has
  <2> HIDE DEF e
  <2>5. /\ IsDomain(p) /\ p.current = e.current /\ p.due = d.due /\ p.election = d.election
        /\ p.flags[NTP] = e.flags[NTP] /\ p.ntpd = e.ntpd
        /\ \A t \in {PTP, NTP} : Rank(p, t) = Rank(e, t)
    BY <2>2, PtpTakesOrLeaves, ReleaseKeepsRanks DEF PtpOnly
  <2>6. e.current # PTP => ~p.granted
    <3>1. CASE Usurps(e, PTP)
      <4>1. p = Release(e, PTP, "answers")
        BY <3>1
      <4> QED BY <2>2, <4>1, PtpTakesOrLeaves
    <3>2. CASE ~Usurps(e, PTP)
      <4>1. p = e
        BY <3>2
      <4>2. e.current # PTP => ~Has(e, PTP, "IN_CONTROL")
        BY <2>2, <3>2 DEF Usurps, Hold
      <4> HIDE DEF p
      <4> QED BY <2>4, <4>1, <4>2, Zenon DEF PtpKnown, Controls
    <3> QED BY <3>1, <3>2
  <2>7. NtpKnown(p)
    BY <2>4, <2>5, Zenon DEF NtpKnown, Controls, Has
  <2> HIDE DEF p
  <2>8. /\ IsDomain(r) /\ r.granted = p.granted /\ r.current = p.current /\ r.election = p.election
        /\ \A t \in {PTP, NTP} : Rank(r, t) = Rank(p, t)
    BY <2>5, NtpTakesOrLeaves, ReleaseKeepsRanks DEF NtpOnly
  <2>9. e.current # NTP => ~r.ntpd
    <3>1. CASE Usurps(p, NTP)
      <4>1. r = Release(p, NTP, "answers")
        BY <3>1
      <4> QED BY <2>5, <4>1, NtpTakesOrLeaves
    <3>2. CASE ~Usurps(p, NTP)
      <4>1. r = p
        BY <3>2
      <4>2. e.current # NTP => ~Has(p, NTP, "IN_CONTROL")
        BY <2>5, <3>2 DEF Usurps, Hold
      <4> HIDE DEF r
      <4> QED BY <2>7, <4>1, <4>2, Zenon DEF NtpKnown, Controls
    <3> QED BY <3>1, <3>2
  <2> HIDE DEF r
  <2>10. Best(r) = Best(d)
    <3>1. \A t \in {PTP, NTP} : Rank(e, t) = Rank(d, t)
      BY <2>2 DEF Rank, Has
    <3>2. \A s \in Services : Rank(r, s) = Rank(d, s)
      BY <2>5, <2>8, <3>1 DEF Services
    <3> QED BY <3>2, SameBest
  <2>11. Best(r) \in {PTP, NTP}
    BY BestOfServices, Zenon DEF Services
  <2>12. Usable(r, Best(r)) => Usable(d, Best(d))
    <3>1. Rank(r, Best(r)) = Rank(d, Best(d))
      <4>1. \A t \in {PTP, NTP} : Rank(e, t) = Rank(d, t)
        BY <2>2 DEF Rank, Has
      <4> QED BY <2>5, <2>8, <2>10, <2>11, <4>1
    <3>2. Usable(r, Best(r)) => Rank(r, Best(r)) >= 6
      BY DEF Usable, Rank
    <3>3. ~Usable(d, Best(d)) => Rank(d, Best(d)) < 6
      BY DEF Usable, Rank
    <3>4. Rank(d, Best(d)) \in 0 .. 7
      BY <2>10, <2>11, RanksDiffer
    <3> QED BY <3>1, <3>2, <3>3, <3>4
  <2>13. /\ IsDomain(done) /\ done.granted = r.granted /\ done.ntpd = r.ntpd
    BY <2>8 DEF IsDomain
  <2>14. CASE Crown(r, "answers") \in {done, [done EXCEPT !.current = None]}
    <3> HIDE DEF done
    <3>1. /\ Crown(r, "answers").granted = done.granted /\ Crown(r, "answers").ntpd = done.ntpd
      BY <2>13, <2>14 DEF IsDomain
    <3>2. e.current # PTP \/ e.current # NTP
      OBVIOUS
    <3> QED BY <2>1, <2>6, <2>8, <2>9, <2>13, <3>1, <3>2, Zenon
  <2>15. CASE /\ Usable(r, Best(r)) /\ r.election = 0
              /\ Crown(r, "answers") = Acquire(done, Best(r), "answers")
    <3> HIDE DEF done
    <3>1. e.current = Best(d)
      BY <2>3, <2>5, <2>8, <2>12, <2>15
    <3>2. CASE Best(r) = PTP
      <4>1. Acquire(done, PTP, "answers").ntpd = done.ntpd
        BY <2>13, PtpTakesOrLeaves DEF PtpOnly
      <4>2. ~r.ntpd
        BY <2>9, <2>10, <3>1, <3>2
      <4> QED BY <2>1, <2>13, <2>15, <3>2, <4>1, <4>2, Zenon
    <3>3. CASE Best(r) = NTP
      <4>1. Acquire(done, NTP, "answers").granted = done.granted
        BY <2>13, NtpTakesOrLeaves DEF NtpOnly
      <4>2. ~r.granted
        BY <2>6, <2>8, <2>10, <3>1, <3>3
      <4> QED BY <2>1, <2>13, <2>15, <3>3, <4>1, <4>2, Zenon
    <3> QED BY <2>11, <3>2, <3>3
  <2> QED BY <2>14, <2>15, Zenon DEF Crown
<1> QED BY <1>1, <1>2

-----------------------------------------------------------------------------
(* The inductive invariant of the domain: what PTP was granted it is       *)
(* marked with, and the last update, as long as nothing was restarted      *)
(* since, left one in control.                                             *)
OneControls ==
  engine /\ config.failover /\ config.control
    /\ updated = "answers" /\ lastUpdate = 0 /\ holdTimeLeft = 0
  => ~(granted /\ ntpd)

ControlInv ==
  /\ DOMAIN flags = {PTP, NTP} /\ lastUpdate \in Nat
  /\ config.failover /\ granted => "IN_CONTROL" \in flags[PTP]
  /\ OneControls

LEMMA UpdateKeepsControl ==
  ASSUME ControlInv, NEW answer, TimingDomainUpdate(answer)
  PROVE  ControlInv'
<1> DEFINE started == [Domain EXCEPT !.election = CountDown(@)]
           first == FirstPassPtp(started)
           second == FirstPassNtp(first, answer)
           last == SecondPass(second, answer)
<1>1. /\ IsDomain(started) /\ started.last = lastUpdate /\ started.granted = granted
      /\ started.flags = flags
  BY DEF IsDomain, Domain, ControlInv
<1>2. PtpKnown(started)
  BY <1>1, Zenon DEF PtpKnown, Controls, Has, ControlInv
<1> HIDE DEF started
<1>3. /\ IsDomain(first) /\ first.last = lastUpdate /\ PTP \in first.due /\ PtpKnown(first)
  BY <1>1, <1>2, FirstPassOfPtp
<1> HIDE DEF first
<1>4. /\ IsDomain(second) /\ second.last \in Nat /\ PtpKnown(second) /\ PTP \in second.due
      /\ engine /\ answer = "answers" /\ second.last = 0 => NTP \in second.due /\ NtpKnown(second)
  <2>1. first.last \in Nat
    BY <1>3 DEF ControlInv
  <2> QED BY <1>3, <2>1, FirstPassOfNtp
<1> HIDE DEF second
<1>5. IsDomain(last) /\ last.last = second.last /\ last.hold = second.hold /\ PtpKnown(last)
  BY <1>4, SecondPassKeepsTimes DEF Kept
<1>6. /\ Becomes(last) /\ updated' = answer /\ UNCHANGED <<config, engine>>
  BY Zenon DEF TimingDomainUpdate, Updated, SecondPass, last, second, first, started
<1>7. /\ flags' = last.flags /\ holdTimeLeft' = last.hold /\ lastUpdate' = last.last
      /\ granted' = last.granted /\ ntpd' = last.ntpd
  BY <1>6, Zenon DEF Becomes
<1>8. ASSUME engine, config.failover, config.control, answer = "answers", last.last = 0,
             last.hold = 0
      PROVE  ~(last.granted /\ last.ntpd)
  <2>1. last = SecondPass(second, "answers")
    BY <1>8
  <2> HIDE DEF last
  <2>2. NTP \in second.due /\ NtpKnown(second) /\ second.hold = 0
    BY <1>4, <1>5, <1>8
  <2>3. ~(SecondPass(second, "answers").granted /\ SecondPass(second, "answers").ntpd)
    BY <1>4, <1>8, <2>2, OneInControl
  <2> QED BY <2>1, <2>3, Zenon
<1> HIDE DEF last
<1>9. OneControls'
  BY <1>6, <1>7, <1>8, Zenon DEF OneControls
<1>10. config'.failover /\ granted' => "IN_CONTROL" \in flags'[PTP]
  BY <1>5, <1>6, <1>7, Zenon DEF PtpKnown, Controls, Has
<1>11. DOMAIN flags' = {PTP, NTP} /\ lastUpdate' \in Nat
  BY <1>4, <1>5, <1>7 DEF IsDomain
<1> QED BY <1>9, <1>10, <1>11, Zenon DEF ControlInv

LEMMA ControlStep == ControlInv /\ [Next]_vars => ControlInv'
<1> SUFFICES ASSUME ControlInv, [Next]_vars PROVE ControlInv'
  OBVIOUS
<1> USE DEF ControlInv, OneControls
<1>1. CASE UNCHANGED upstreamVars
  BY <1>1 DEF upstreamVars, serviceVars
<1>2. CASE UNCHANGED domainVars
  BY <1>2 DEF domainVars, serviceVars
<1>3. ASSUME NEW answer, TimingDomainUpdate(answer) PROVE ControlInv'
  BY <1>3, UpdateKeepsControl
<1>4. ASSUME NEW answer, NEW enabled, RestartEngine(answer, enabled) PROVE ControlInv'
  <2>1. /\ updated' = "restarted" /\ UNCHANGED <<config, granted, lastUpdate>>
    BY <1>4 DEF RestartEngine
  <2>2. DOMAIN flags' = {PTP, NTP} /\ flags'[PTP] = flags[PTP]
    BY <1>4, ServicesAssumption DEF RestartEngine
  <2> QED BY <2>1, <2>2
<1>5. CASE NtpdStarts
  BY <1>5 DEF NtpdStarts, serviceVars
<1> QED BY <1>1, <1>2, <1>3, <1>4, <1>5
        DEF Next, Loop, Decide, NoMessage, HandleAnnounce, HandleSync, Handled, PortTimers,
            LeapSecond, MasterLeapSecond, PanicCheck, UpdateDomain, RestartServices,
            StepOnSignal, NtpdIsStarted, Midnight, Expire, vars

THEOREM ControlInvariant == Spec => []ControlInv
<1>1. Init => ControlInv
  BY DEF Init, DomainInit, ControlInv, OneControls
<1> QED BY <1>1, ControlStep, PTL DEF Spec

(* PTP and ntpd do not both steer the clock once an update found ntpd      *)
(* answering and no hold time runs, whatever the times, the preference and *)
(* the history of failures, elections and restarts.                        *)
THEOREM ControlIsExclusive == Spec => []ExclusiveControl
<1>1. ControlInv => ExclusiveControl
  BY DEF ControlInv, OneControls, ExclusiveControl
<1> QED BY <1>1, ControlInvariant, PTL
=============================================================================
