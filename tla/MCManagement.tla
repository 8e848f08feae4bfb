---------------------------- MODULE MCManagement ---------------------------
(* Management messages of every kind to a port whose options let it be     *)
(* managed, and a configuration file with settings of every restart flag.  *)
EXTENDS Management

Base == [s \in Settings |-> IF s = "management_set_enable" THEN Other ELSE Default]
Edited(settings) == [s \in Settings |-> IF s \in settings THEN Other ELSE Base[s]]

ConfigFiles ==
  {Base, Edited({"priority1", "utc_offset", "log_sync_interval", "timing_acl",
           "alarms", "servo_kp"}),
   Edited({"disabled", "domain", "delay_outlier_filter", "panic_mode"}),
   Edited({"backup_interface", "sync_outlier_threshold", "lock_file", "log_file"}),
   Edited({"interface", "clock_class", "log_peer_delayreq_interval", "ntp_failover_timeout",
           "cpu_core"}),
   [Base EXCEPT !.priority2 = OutOfRange]}

TLV(id, value) == [type |-> "MANAGEMENT", id |-> id, value |-> value, malformed |-> FALSE]
Message(action, tlvs) == [accepted |-> TRUE, action |-> action, tlvs |-> tlvs]

(* A SET of every member that has a handler of its own, one out of range.  *)
Sets ==
  {Message("SET", <<TLV(id, Other)>>) :
     id \in {"SLAVE_ONLY", "USER_DESCRIPTION", "DOMAIN", "LOG_SYNC_INTERVAL",
             "LOG_MIN_PDELAY_REQ_INTERVAL", "CLOCK_ACCURACY", "DELAY_MECHANISM"}}
    \cup {Message("SET", <<TLV("PRIORITY2", OutOfRange)>>)}

Commands ==
  {Message("COMMAND", <<TLV(id, Default)>>) :
     id \in {"ENABLE_PORT", "DISABLE_PORT", "INITIALIZE"}}

(* Messages of several TLVs, and some that change nothing.                 *)
Others ==
  {Message("SET", <<TLV("PRIORITY1", Other), TLV("LOG_ANNOUNCE_INTERVAL", Other)>>),
   Message("COMMAND", <<TLV("DISABLE_PORT", Default), TLV("NULL_MANAGEMENT", Default)>>),
   Message("COMMAND", <<TLV("ENABLE_PORT", Default), TLV("NULL_MANAGEMENT", Default)>>),
   Message("GET", <<TLV("DEFAULT_DATA_SET", Default), TLV("PRIORITY1", Default)>>),
   Message("RESPONSE", <<TLV("UNICAST_NEGOTIATION_ENABLE", Other)>>),
   Message("ACKNOWLEDGE", <<TLV("ALTERNATE_MASTER", Default)>>),
   Message("SET", <<[TLV("DOMAIN", Other) EXCEPT !.malformed = TRUE]>>),
   Message("SET", <<[TLV("PRIORITY1", Other) EXCEPT !.type = "ERROR_STATUS"]>>),
   [Message("SET", <<TLV("PRIORITY1", Other)>>) EXCEPT !.accepted = FALSE]}

MessagesOfNetwork == Sets \cup Commands \cup Others
=============================================================================
