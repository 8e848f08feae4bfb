--------------------------- MODULE Configuration ---------------------------
(* The configuration of ptpd: the dictionary currentConfig, the runtime    *)
(* options rtOpts parsed from it, and applyConfig(), which replaces both   *)
(* and leaves in restartSubsystems what the main loop has to restart. A    *)
(* setting stands for its kind: its value is its default, another one, or  *)
(* one out of its range.                                                   *)
EXTENDS Naturals

VARIABLES currentConfig,      \* dictionary of settings
          rtOpts,             \* options the program runs with
          restartSubsystems,  \* set of restart flags
          rescaled            \* rtOpts->servoMaxPpb was scaled once too often

configVars == <<currentConfig, rtOpts, restartSubsystems, rescaled>>

Default == 0
Other == 1
OutOfRange == 2
Values == {Default, Other, OutOfRange}

(* The settings of two dictionaries, those of the first before the second. *)
f ++ g ==
  [s \in DOMAIN f \cup DOMAIN g |-> IF s \in DOMAIN f THEN f[s] ELSE g[s]]

(* The restart flag of each setting: what parseConfig() hands to its       *)
(* configMap functions.                                                    *)
PortSettings ==
  [interface |-> "NETWORK", backup_interface |-> "NETWORK", disabled |-> "PROTOCOL",
   unicast_negotiation |-> "PROTOCOL"]

ProtocolSettings ==
  [delay_mechanism |-> "PROTOCOL", domain |-> "PROTOCOL", port_description |-> "UPDATE",
   slave_only |-> "NONE", log_announce_interval |-> "UPDATE",
   announce_receipt_timeout |-> "UPDATE", log_sync_interval |-> "UPDATE"]

ClockSettings ==
  [log_peer_delayreq_interval |-> "NONE", ptp_clock_accuracy |-> "UPDATE",
   utc_offset |-> "UPDATE", time_traceable |-> "UPDATE", ptp_timescale |-> "UPDATE",
   clock_class |-> "UPDATE", priority1 |-> "UPDATE", priority2 |-> "UPDATE"]

TransportSettings == [management_set_enable |-> "NONE", multicast_ttl |-> "NETWORK"]

DelayFilterSettings ==
  [delay_outlier_filter |-> "FILTERS", delay_outlier_threshold |-> "NONE"]

SyncFilterSettings ==
  [sync_outlier_filter |-> "FILTERS", sync_outlier_threshold |-> "NONE"]

EngineSettings ==
  [panic_mode |-> "NONE", ntp_failover_timeout |-> "NTPCONFIG", timing_acl |-> "ACLS"]

ServoSettings == [no_adjust |-> "NONE", servo_kp |-> "NONE"]

GlobalSettings ==
  [clock_update_timeout |-> "PROTOCOL", alarms |-> "ALARMS", lock_file |-> "DAEMON"]

LogSettings == [log_file |-> "LOGGING", log_statistics |-> "NONE", cpu_core |-> "CPUAFFINITY"]

RestartFlag ==
  PortSettings ++ ProtocolSettings ++ ClockSettings ++ TransportSettings
    ++ DelayFilterSettings ++ SyncFilterSettings ++ EngineSettings ++ ServoSettings
    ++ GlobalSettings ++ LogSettings
Settings == DOMAIN RestartFlag

(* What -1 stands for in the unsigned restartSubsystems: every flag there  *)
(* is, the ones of no setting of the model included.                       *)
AllFlags == {RestartFlag[s] : s \in Settings} \cup {"NTPENGINE"}

(* The checks of configMapInt() and of the other configMap functions.      *)
ParsesWell(config) == \A s \in Settings : config[s] # OutOfRange

(* parseConfig() maps every setting to its option, but slave-only mode is  *)
(* taken from the clock class: Other stands for class 255.                 *)
ParsedOptions(config) ==
  [config EXCEPT !.slave_only = IF config.clock_class = Other THEN Other ELSE Default]

Changed(config) == {s \in Settings : config[s] # currentConfig[s]}

(* checkSubsystemRestart(): the flags of the settings that changed.        *)
\* A bug: no restart for a port that is disabled or enabled.
SubsystemRestart_Unflagged(config) ==
  {RestartFlag[s] : s \in Changed(config) \ {"disabled"}}
SubsystemRestart(config) == {RestartFlag[s] : s \in Changed(config)}

(* Collecting the flags runs the parser over the live options: what a      *)
(* setting switches on by being present is then on only if it changed. A   *)
(* backup interface that was removed is tested under its empty name.       *)
BackupTested(config) == "backup_interface" \in Changed(config)
OptionsAfterCheck(config) ==
  [rtOpts EXCEPT !.backup_interface = IF BackupTested(config) THEN Other ELSE Default]

(***************************************************************************)
(* applyConfig(): a configuration that does not parse and one that changes *)
(* nothing are dropped; one whose network interface or processor core      *)
(* cannot be used is given up; any other is committed, its request         *)
(* replacing whatever restartSubsystems held.                              *)
(***************************************************************************)
Rejected(config) == ~ParsesWell(config) /\ UNCHANGED configVars

Unchanged(config) ==
  ParsesWell(config) /\ Changed(config) = {} /\ UNCHANGED configVars

Aborted(config) ==
  /\ ParsesWell(config)
  /\ {"NETWORK", "CPUAFFINITY"} \cap SubsystemRestart(config) # {}
  /\ rtOpts' = OptionsAfterCheck(config)
  /\ restartSubsystems' = {}
  /\ rescaled' = TRUE
  /\ UNCHANGED currentConfig

Committed(config) ==
  /\ ParsesWell(config)
  /\ Changed(config) # {}
  /\ currentConfig' = config
  /\ rtOpts' = ParsedOptions(config)
  /\ rescaled' = FALSE
  /\ \/ /\ BackupTested(config) => config.backup_interface = Other
        /\ restartSubsystems' = SubsystemRestart(config)
     \/ /\ BackupTested(config)                       \* the backup cannot be used
        /\ restartSubsystems' = AllFlags

applyConfig(config) ==
  Rejected(config) \/ Unchanged(config) \/ Aborted(config) \/ Committed(config)
=============================================================================
