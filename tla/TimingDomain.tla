---------------------------- MODULE TimingDomain ----------------------------
(***************************************************************************)
(* timingdomain.c: the services that may control the clock, PTP and NTP,   *)
(* and the update that once a second lets the best one have it.  ntpd is a *)
(* process of its own, which is asked over a socket whether it controls    *)
(* the clock, and told to begin or to stop (dep/ntpengine/ntpdcontrol.c).  *)
(* What PTP offers, `available` and `activity`, is the servo's business.   *)
(***************************************************************************)
EXTENDS Integers, FiniteSets

CONSTANTS PTP, NTP, None,   \* the services, and NULL
          Configurations    \* of the run time options that matter

ASSUME ServicesAssumption == PTP # NTP /\ None \notin {PTP, NTP}

VARIABLES
  config,
  portState,            \* of PTP; FAULTY stands for INITIALIZING as well
  available, activity, granted,     \* clockControl of the PTP engine
  engine,               \* ntpengine:enabled, NTP is among the services
  flags,                \* of each service
  holdTimeLeft,         \* of PTP; NTP holds nothing
  idleTime,             \* of PTP; NTP never goes idle
  lastUpdate,           \* of NTP; PTP is updated every time
  updateDue,            \* the services whose update was due
  current, electionLeft,
  ntpd,                 \* ntpd steers the clock
  updated               \* what the last update met, see Answers, or that
                        \* ntpd, or its service, was restarted since

serviceVars == <<flags, holdTimeLeft, idleTime, lastUpdate, updateDue, current, electionLeft>>
domainVars == <<config, portState, available, activity, granted, engine, serviceVars, ntpd, updated>>

Services == IF engine THEN {PTP, NTP} ELSE {PTP}
Flags == {"OPERATIONAL", "AVAILABLE", "IDLE", "HOLD", "IN_CONTROL"}

(* ntpd does not answer, or not in time, or its answer is lost.  An update *)
(* takes less than a second: it meets one of these throughout.             *)
Answers == {"answers", "silent", "answerLost"}

PortStates == {"FAULTY", "LISTENING", "SLAVE", "PASSIVE", "MASTER"}

DomainTypeOK ==
  /\ config \in Configurations /\ portState \in PortStates
  /\ available \in BOOLEAN /\ activity \in BOOLEAN /\ granted \in BOOLEAN
  /\ engine \in BOOLEAN /\ ntpd \in BOOLEAN
  /\ flags \in [{PTP, NTP} -> SUBSET Flags]
  /\ holdTimeLeft \in 0..config.holdTime
  /\ idleTime \in 0..config.idleTimeout
  /\ lastUpdate \in 0..config.checkInterval - 1
  /\ updateDue \subseteq {PTP, NTP}
  /\ current \in {PTP, NTP, None}
  /\ electionLeft \in 0..config.electionDelay
  /\ updated \in Answers \cup {"restarted"}

(* ptpServiceInit(), ntpServiceInit(), timingDomainInit(): ntpd is asked   *)
(* for the first time.                                                     *)
DomainInit ==
  /\ config \in Configurations
  /\ portState = "FAULTY"
  /\ available = FALSE /\ activity = FALSE /\ granted = FALSE
  /\ engine = config.engine
  /\ flags \in [{PTP, NTP} -> {{}, {"OPERATIONAL"}}]
  /\ flags[PTP] = {} /\ (~engine => flags[NTP] = {})
  /\ holdTimeLeft = 0 /\ idleTime = 0 /\ lastUpdate = 0
  /\ updateDue = {} /\ current = None
  /\ electionLeft = config.electionDelay
  /\ ntpd = engine /\ updated = "answers"

-----------------------------------------------------------------------------
(* The steps of an update take a record of the domain to the next one.     *)
CountDown(n) == IF n > 0 THEN n - 1 ELSE 0

Domain ==
  [flags |-> flags, hold |-> holdTimeLeft, idle |-> idleTime, last |-> lastUpdate,
   due |-> updateDue, current |-> current, election |-> electionLeft,
   available |-> available, active |-> activity, granted |-> granted, ntpd |-> ntpd]

Has(d, s, flag) == flag \in d.flags[s]
Set(d, s, S) == [d EXCEPT !.flags[s] = @ \cup S]
Unset(d, s, S) == [d EXCEPT !.flags[s] = @ \ S]
Hold(d, s) == IF s = PTP THEN d.hold ELSE 0
Usable(d, s) == Has(d, s, "OPERATIONAL") /\ Has(d, s, "AVAILABLE")

(* ntpdSetFlags(), ntpdClearFlags(): when the answer is lost ntpd has done *)
(* as it was told.                                                         *)
NtpdSteers(d, steers, answer) == IF answer = "silent" THEN d ELSE [d EXCEPT !.ntpd = steers]

(* ptpServiceAcquire(), ntpServiceAcquire(). *)
Acquire(d, s, answer) ==
  IF s = PTP THEN [Set(d, PTP, {"IN_CONTROL"}) EXCEPT !.granted = TRUE]
  ELSE IF ~config.control THEN d
  ELSE LET asked == NtpdSteers(d, TRUE, answer)
       IN IF answer = "answers" THEN Set(asked, NTP, {"IN_CONTROL"}) ELSE asked

(* ptpServiceRelease(), ntpServiceRelease(). *)
Release(d, s, answer) ==
  IF s = PTP THEN [Unset(d, PTP, {"IN_CONTROL"}) EXCEPT !.granted = FALSE]
  ELSE IF ~config.control THEN d
  ELSE LET asked == NtpdSteers(d, FALSE, answer)
       IN IF answer = "answers" THEN Unset(asked, NTP, {"IN_CONTROL"}) ELSE asked

(* A service that loses the clock starts the election delay. *)
Dethrone(d, s, answer) ==
  [Release(d, s, answer) EXCEPT !.current = None, !.election = config.electionDelay]

-----------------------------------------------------------------------------
(* ptpServiceUpdate(). *)
Operational(d) ==
  IF portState = "FAULTY" THEN Unset(d, PTP, {"OPERATIONAL"}) ELSE Set(d, PTP, {"OPERATIONAL"})

\* A bug: every update starts the hold time again.
NotSlave_HoldsOn(d) ==
  IF d.available THEN [Set(d, PTP, {"HOLD"}) EXCEPT !.hold = config.holdTime] ELSE d
NotSlave(d) ==
  LET idle == Unset(d, PTP, {"IDLE"})
  IN IF Has(d, PTP, "HOLD")
     THEN IF d.hold > 0 THEN idle
          ELSE [Unset(idle, PTP, {"AVAILABLE", "HOLD"}) EXCEPT !.available = FALSE]
     ELSE IF d.available
     THEN [Set(idle, PTP, {"HOLD"}) EXCEPT !.hold = IF @ = 0 THEN config.holdTime ELSE @]
     ELSE idle

Slave(d) ==
  IF ~d.available THEN Unset(d, PTP, {"AVAILABLE"})
  ELSE IF Has(d, PTP, "HOLD")
  THEN [Unset(Set(d, PTP, {"AVAILABLE"}), PTP, {"HOLD"}) EXCEPT !.hold = 0]
  ELSE Set(d, PTP, {"AVAILABLE"})

IdleGivesUp(d) ==
  IF Has(d, PTP, "IDLE") /\ d.hold = 0
  THEN [Unset(d, PTP, {"AVAILABLE"}) EXCEPT !.available = FALSE] ELSE d

PtpServiceUpdate(d) ==
  IF ~config.failover
  THEN [Set(d, PTP, {"OPERATIONAL", "AVAILABLE"}) EXCEPT !.granted = @ \/ d.available]
  ELSE IdleGivesUp(IF portState = "SLAVE" THEN Slave(Operational(d)) ELSE NotSlave(Operational(d)))

(* ntpServiceUpdate(). *)
NtpdInControl(d, answer) ==
  IF answer # "answers" THEN "INFO_ERR" ELSE IF d.ntpd THEN "INFO_YES" ELSE "INFO_NO"
NtpServiceUpdate(d, answer) ==
  LET res == NtpdInControl(d, answer)
  IN IF res = "INFO_ERR" THEN Unset(d, NTP, {"OPERATIONAL", "AVAILABLE"})
     ELSE Set(d, NTP, {"OPERATIONAL", "AVAILABLE"}
                       \cup (IF res = "INFO_YES" THEN {"IN_CONTROL"} ELSE {}))

-----------------------------------------------------------------------------
(* timingDomainUpdate(), the first pass for PTP: a service without         *)
(* activity goes idle, and starts its hold time if it is in control.       *)
GoesIdle(d, idle) ==
  /\ Has(d, PTP, "AVAILABLE") /\ ~Has(d, PTP, "HOLD")
  /\ idle > config.idleTimeout

\* A bug: a service that was idle stays so.
Active_StaysIdle(d) == IF Has(d, PTP, "HOLD") THEN d ELSE [d EXCEPT !.hold = 0]
Active(d) ==
  [Unset(d, PTP, {"IDLE"}) EXCEPT !.hold = IF Has(d, PTP, "HOLD") THEN @ ELSE 0]

IdleTimes(d, active) ==
  LET idle == IF active THEN 0 ELSE d.idle + 1
      seen == IF active THEN Active(d) ELSE d
      held == [seen EXCEPT !.hold =
                 IF ~Has(d, PTP, "IDLE") /\ d.current = PTP THEN config.holdTime ELSE @]
  IN IF ~Has(d, PTP, "OPERATIONAL") THEN d
     ELSE IF ~GoesIdle(seen, idle)
     THEN [seen EXCEPT !.idle = IF idle > config.idleTimeout THEN config.idleTimeout ELSE idle]
     ELSE LET idled == [Set(held, PTP, {"IDLE"}) EXCEPT !.idle = 0]
          IN IF d.current = PTP /\ held.hold = 0 THEN Dethrone(idled, PTP, "answers") ELSE idled

(* The end of the first pass: what cannot be used any more is released.    *)
ReleaseUnusable(d, s, answer) ==
  IF ~Usable(d, s) /\ Has(d, s, "IN_CONTROL") /\ Hold(d, s) = 0
  THEN IF d.current = s THEN Dethrone(d, s, answer) ELSE Release(d, s, answer)
  ELSE d

FirstPassPtp(d) ==
  LET due == [d EXCEPT !.due = @ \cup {PTP}, !.hold = CountDown(@),
                       !.active = @ /\ ~config.failover]
  IN ReleaseUnusable(IdleTimes(PtpServiceUpdate(due), d.active \/ ~config.failover),
                     PTP, "answers")

FirstPassNtp(d, answer) ==
  IF ~engine THEN d
  ELSE IF d.last + 1 < config.checkInterval THEN [d EXCEPT !.last = @ + 1]
  ELSE ReleaseUnusable(
         NtpServiceUpdate([d EXCEPT !.last = 0, !.due = @ \cup {NTP}], answer), NTP, answer)

(* cmpTimingService(): operational before not, available before not, and   *)
(* then PTP, unless NTP is preferred.                                      *)
Preferred == IF config.preferNTP THEN NTP ELSE PTP
Rank(d, s) ==
  (IF Has(d, s, "OPERATIONAL") THEN 4 ELSE 0) + (IF Has(d, s, "AVAILABLE") THEN 2 ELSE 0)
  + (IF s = Preferred THEN 1 ELSE 0)
Best(d) == CHOOSE s \in Services : \A other \in Services : Rank(d, s) >= Rank(d, other)

(* The second pass.  A service that is not the best any more is released   *)
(* first, and the update ends there.                                       *)
Deposes(d) == d.current \notin {Best(d), None} /\ d.election = 0 /\ Hold(d, d.current) = 0
Elect(d) ==
  IF Best(d) # d.current /\ d.election = 0
  THEN [d EXCEPT !.current = IF Usable(d, Best(d)) THEN Best(d) ELSE None]
  ELSE d

(* The third pass: a service that has control and was not elected.         *)
\* A bug: hold times are not looked at, a service may keep what it has.
Usurps_NotDue(d, s) == FALSE
Usurps(d, s) ==
  s # d.current /\ Has(d, s, "IN_CONTROL") /\ s \in d.due /\ Hold(d, s) = 0
ReleaseUsurpers(d, answer) ==
  LET p == IF Usurps(d, PTP) THEN Release(d, PTP, answer) ELSE d
  IN IF engine /\ Usurps(p, NTP) THEN Release(p, NTP, answer) ELSE p

(* The end of the update. *)
Crown(d, answer) ==
  LET best == Best(d)
      done == [d EXCEPT !.due = {}]
  IN IF ~Usable(d, best) THEN [done EXCEPT !.current = None]
     ELSE IF ~Has(d, best, "IN_CONTROL") /\ d.election = 0 THEN Acquire(done, best, answer)
     ELSE done

Updated(answer) ==
  LET started == [Domain EXCEPT !.election = CountDown(@)]
      first == FirstPassNtp(FirstPassPtp(started), answer)
  IN IF Deposes(first) THEN Dethrone(first, first.current, answer)
     ELSE Crown(ReleaseUsurpers(Elect(first), answer), answer)

Becomes(d) ==
  /\ flags' = d.flags /\ holdTimeLeft' = d.hold /\ idleTime' = d.idle
  /\ lastUpdate' = d.last /\ updateDue' = d.due /\ current' = d.current
  /\ electionLeft' = d.election /\ available' = d.available /\ activity' = d.active
  /\ granted' = d.granted /\ ntpd' = d.ntpd

TimingDomainUpdate(answer) ==
  /\ answer \in config.answers
  /\ Becomes(Updated(answer)) /\ updated' = answer
  /\ UNCHANGED <<config, portState, engine>>

-----------------------------------------------------------------------------
(* restartSubsystems() with PTPD_RESTART_NTPENGINE, ntpSetup(): the        *)
(* service is shut down, which gives ntpd its original flags back, and     *)
(* started again unless it was disabled.  IN_CONTROL is left as it was.    *)
RestartEngine(answer, enabled) ==
  LET back == answer # "silent"
      kept == flags[NTP] \ {"OPERATIONAL", "AVAILABLE"}
  IN /\ config.restart /\ answer \in config.answers
     /\ engine' = enabled
     /\ ntpd' = IF engine /\ back THEN TRUE ELSE ntpd
     /\ updated' = "restarted"
     /\ flags' = [flags EXCEPT ![NTP] =
          IF enabled /\ answer = "answers" THEN kept \cup {"OPERATIONAL"}
          ELSE IF engine \/ enabled THEN kept ELSE @]
     /\ current' = IF current = NTP /\ ~enabled THEN None ELSE current
     /\ UNCHANGED <<config, portState, available, activity, granted, holdTimeLeft,
                    idleTime, lastUpdate, updateDue, electionLeft>>

(* ntpd is restarted, by others, and begins to steer. *)
NtpdStarts ==
  /\ config.restart /\ ~ntpd /\ ntpd' = TRUE /\ updated' = "restarted"
  /\ UNCHANGED <<config, portState, available, activity, granted, engine, serviceVars>>
=============================================================================
