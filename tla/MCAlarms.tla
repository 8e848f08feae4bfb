------------------------------- MODULE MCAlarms -------------------------------
EXTENDS Alarms

\* Alarms that are cancelled before, and not before, the Sync receipt timer
\* expires again; and alarms that are switched off.
Files == {[alarmsEnabled |-> TRUE, alarmMinAge |-> 1],
          [alarmsEnabled |-> TRUE, alarmMinAge |-> 2],
          [alarmsEnabled |-> FALSE, alarmMinAge |-> 2]}
=============================================================================
