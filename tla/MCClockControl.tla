--------------------------- MODULE MCClockControl ---------------------------
(* Times are in updates of the timing domain; a hold time of two, an       *)
(* election delay of one and an idle timeout of one let each of the three  *)
(* run out before or after the others.                                     *)
EXTENDS ClockControl

Plain ==
  [engine |-> FALSE, failover |-> FALSE, control |-> FALSE, preferNTP |-> FALSE,
   holdTime |-> 0, idleTimeout |-> 1, checkInterval |-> 1, electionDelay |-> 0,
   answers |-> {"answers"}, restart |-> FALSE,
   enablePanicMode |-> FALSE, panicModeDuration |-> 1, panicModeExitThreshold |-> FALSE,
   panicModeReleaseClock |-> FALSE, maxOffset |-> FALSE,
   stepForce |-> FALSE, stepOnce |-> FALSE, noResetClock |-> FALSE, noAdjust |-> FALSE,
   clockUpdateTimeout |-> FALSE, grace |-> FALSE, leap |-> FALSE, leapStep |-> FALSE,
   signals |-> FALSE]

Ntp == [Plain EXCEPT !.engine = TRUE, !.failover = TRUE, !.control = TRUE,
          !.holdTime = 2, !.electionDelay = 1]
Panic == [Plain EXCEPT !.enablePanicMode = TRUE, !.clockUpdateTimeout = TRUE]
Leap == [Plain EXCEPT !.leap = TRUE]

(* NTP preferred, with an ntpd that is silent at times; asked every second *)
(* update; restarted; without hold time; panic mode, whose duration is one *)
(* minute, with its options; steps at startup and on a signal; a clock that *)
(* is not adjusted; leap seconds.                                          *)
Checked ==
  {[Ntp EXCEPT !.preferNTP = TRUE, !.answers = {"answers", "silent"}],
   [Ntp EXCEPT !.checkInterval = 2],
   [Ntp EXCEPT !.restart = TRUE],
   [Ntp EXCEPT !.holdTime = 0, !.electionDelay = 2],
   Panic,
   [Panic EXCEPT !.panicModeExitThreshold = TRUE, !.noResetClock = TRUE,
      !.panicModeReleaseClock = TRUE, !.failover = TRUE, !.clockUpdateTimeout = FALSE],
   [Plain EXCEPT !.stepOnce = TRUE, !.signals = TRUE, !.failover = TRUE, !.grace = TRUE],
   [Plain EXCEPT !.stepForce = TRUE, !.maxOffset = TRUE],
   [Plain EXCEPT !.enablePanicMode = TRUE, !.noAdjust = TRUE],
   Leap,
   [Leap EXCEPT !.leapStep = TRUE]}
=============================================================================
