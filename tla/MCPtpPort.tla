------------------------------ MODULE MCPtpPort ------------------------------
EXTENDS PtpPort

Default ==
  [slaveOnly |-> FALSE, masterClass |-> FALSE, disableBMCA |-> FALSE,
   delayMechanism |-> "E2E", announceTimeoutGracePeriod |-> 0, maxListen |-> 2,
   clockUpdateTimeout |-> FALSE, masterRefresh |-> FALSE,
   backupIfaceEnabled |-> FALSE]

Slave   == [Default EXCEPT !.slaveOnly = TRUE]
Grace   == [Slave EXCEPT !.announceTimeoutGracePeriod = 1]
Passive == [Default EXCEPT !.masterClass = TRUE, !.delayMechanism = "P2P"]
Telecom == [Default EXCEPT !.masterClass = TRUE, !.disableBMCA = TRUE,
                           !.masterRefresh = TRUE]
Backup  == [Slave EXCEPT !.delayMechanism = "P2P", !.clockUpdateTimeout = TRUE,
                         !.backupIfaceEnabled = TRUE]

\* The usual roles, with two masters and without faults; and the same port
\* with one master, but with everything that may disturb it.
Usual     == {Default, Slave, Grace, Passive}
Disturbed == {[Grace EXCEPT !.maxListen = 1], [Passive EXCEPT !.maxListen = 1],
              Telecom, Backup}
Roles     == Usual \cup Disturbed
\* Roles that must get along by themselves: one of them has to try again
\* when netInit() failed.
Unlucky == [Slave EXCEPT !.maxListen = 1]
Alive   == {Default, Slave, Grace, Unlucky}
Patient == {Grace}

Quiet == [o \in Configurations |-> {}]
Retry == [o \in Configurations |-> IF o = Unlucky THEN {"netInit"} ELSE {}]
Everything(o) == IF o \in Disturbed THEN Surroundings ELSE {}
SomeAnnounces(o) == IF o \in Disturbed THEN {<<1, 1>>} ELSE Masters \X Qualities

Mixed     == [o \in Configurations |-> Everything(o)]
MixedData == [o \in Configurations |-> SomeAnnounces(o)]
AllData   == [o \in Configurations |-> Masters \X Qualities]
=============================================================================
