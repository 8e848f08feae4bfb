----------------------------- MODULE Management ----------------------------
(* How settings reach the data sets of the port: management messages       *)
(* (management.c), the reload of the configuration file on SIGHUP, the     *)
(* restart of subsystems and the (re)initialisation of the port, in the    *)
(* order of the main loop of protocol(). One pass of the loop is two       *)
(* steps: the work of the port with at most one management message, then   *)
(* restartSubsystems() and checkSignals(). The protocol engine in between  *)
(* is left to PtpPort; here the port moves freely among its states.        *)
EXTENDS Configuration, SequencesExt

CONSTANTS Messages,       \* management messages that may arrive
          Files,          \* contents the configuration file may take
          MAX_CHANGES     \* bound on messages and reloads of a behaviour

TLVs == [type : STRING, id : STRING, value : Values, malformed : BOOLEAN]
ASSUME MessagesAssumption ==
  Messages \subseteq [accepted : BOOLEAN, action : STRING, tlvs : Seq(TLVs)]
ASSUME FilesAssumption == Files \subseteq [Settings -> Values]
ASSUME ChangesAssumption == MAX_CHANGES \in Nat

VARIABLES portState,
          dataSets,       \* the setting each data set member, and each filter,
                          \* list and service of the program, works with
          phase,          \* where in a pass of the main loop the program is
          configFile,
          sighup_received,
          changes,        \* messages and reloads so far
          requested,      \* history: settings committed, their restart still to come
          excused         \* history: settings that a known weakness keeps apart

vars == <<configVars, portState, dataSets, phase, configFile, sighup_received,
          changes, requested, excused>>

Heard == 3                \* taken over from the master the port follows
FromPriority(p) == 10 + p \* a clock accuracy overwritten by priority1

NoConfig == [s \in {} |-> 0]
Operating == {"LISTENING", "MASTER", "SLAVE", "PASSIVE"}
States == Operating \cup {"INITIALIZING", "FAULTY", "DISABLED"}

----------------------------------------------------------------------------
(* The handlers of management.c. A handler answers the actions it knows,   *)
(* is silent on some and reports an error for the rest. It may set members *)
(* of the data sets and store settings in the configuration to apply.      *)
Handler(answers, silent, sets, stores) ==
  [answers |-> answers, silent |-> silent, sets |-> sets, stores |-> stores, initialize |-> FALSE]

Nothing == NoConfig
ReadOnly == Handler({"GET"}, {"RESPONSE"}, Nothing, Nothing)
NotSupported == Handler({}, {}, Nothing, Nothing)
GetSet(setting, v) ==
  Handler({"GET", "SET"}, {"RESPONSE"}, [s \in {setting} |-> v], [s \in {setting} |-> v])

NullAndDescription(v) ==
  [NULL_MANAGEMENT |-> Handler({"GET", "SET", "COMMAND"}, {}, Nothing, Nothing),
   CLOCK_DESCRIPTION |-> ReadOnly]

SlaveOnlyAndStorage(v) ==
  [SLAVE_ONLY |-> [GetSet("slave_only", v) EXCEPT !.silent = {}],
   USER_DESCRIPTION |-> [GetSet("port_description", v) EXCEPT !.silent = {}],
   SAVE_IN_NON_VOLATILE_STORAGE |-> NotSupported,
   RESET_NON_VOLATILE_STORAGE |-> NotSupported]

InitializeAndDefaultDataSet(v) ==
  [INITIALIZE |-> [Handler({"COMMAND"}, {"ACKNOWLEDGE"}, Nothing, Nothing)
                     EXCEPT !.initialize = TRUE],
   DEFAULT_DATA_SET |-> ReadOnly, CURRENT_DATA_SET |-> ReadOnly]

DataSets(v) ==
  [PARENT_DATA_SET |-> ReadOnly, TIME_PROPERTIES_DATA_SET |-> ReadOnly,
   PORT_DATA_SET |-> ReadOnly]

PrioritiesAndDomain(v) ==
  [PRIORITY1 |-> GetSet("priority1", v), PRIORITY2 |-> GetSet("priority2", v)]
    ++ [id \in {"DOMAIN"} |-> GetSet("domain", v)]

Intervals(v) ==
  [LOG_ANNOUNCE_INTERVAL |-> GetSet("log_announce_interval", v),
   ANNOUNCE_RECEIPT_TIMEOUT |-> GetSet("announce_receipt_timeout", v),
   LOG_SYNC_INTERVAL |-> GetSet("log_sync_interval", v)]

VersionPortAndTime(v) ==
  [VERSION_NUMBER |-> ReadOnly,
   ENABLE_PORT |-> Handler({"COMMAND"}, {}, [disabled |-> Default], [disabled |-> Default]),
   DISABLE_PORT |-> Handler({"COMMAND"}, {}, Nothing, [disabled |-> Other]),
   TIME |-> Handler({"GET", "SET"}, {"RESPONSE"}, Nothing, Nothing)]

(* The accuracy is stored under a name that no option has, and what        *)
(* parseConfig() returns, and applyConfig() compares, is free of those: a  *)
(* SET of the accuracy alone leaves the configuration unchanged.           *)
AccuracyAndProperties(v) ==
  [CLOCK_ACCURACY |-> [GetSet("ptp_clock_accuracy", v) EXCEPT !.stores = Nothing],
   UTC_PROPERTIES |-> GetSet("utc_offset", v),
   TRACEABILITY_PROPERTIES |-> GetSet("time_traceable", v)]

TimescaleNegotiationAndDelay(v) ==
  [TIMESCALE_PROPERTIES |-> [GetSet("ptp_timescale", v) EXCEPT !.sets = Nothing],
   UNICAST_NEGOTIATION_ENABLE |-> [GetSet("unicast_negotiation", v) EXCEPT !.sets = Nothing],
   DELAY_MECHANISM |-> GetSet("delay_mechanism", v)]

PdelayInterval(v) ==
  [LOG_MIN_PDELAY_REQ_INTERVAL |-> GetSet("log_peer_delayreq_interval", v)]

Handlers(v) ==
  NullAndDescription(v) ++ SlaveOnlyAndStorage(v) ++ InitializeAndDefaultDataSet(v)
    ++ DataSets(v) ++ PrioritiesAndDomain(v) ++ Intervals(v) ++ VersionPortAndTime(v)
    ++ AccuracyAndProperties(v) ++ TimescaleNegotiationAndDelay(v) ++ PdelayInterval(v)

(* The switch of handleManagement(): an identifier without a handler is    *)
(* answered by an error.                                                   *)
HandlerTable == [v \in Values |-> Handlers(v)]
HandlerOf(tlv) ==
  IF tlv.id \in DOMAIN HandlerTable[tlv.value] THEN HandlerTable[tlv.value][tlv.id]
  ELSE NotSupported

(* A TLV changes something if its handler takes its action for a request   *)
(* to change.                                                              *)
Changes(action, tlv) == action \in HandlerOf(tlv).answers /\ action # "GET"
Answered(action, tlv) == action \notin HandlerOf(tlv).silent

(* What handleManagement() does for one TLV of a message. The TLV is       *)
(* passed over unless it is a management TLV; an action that may change    *)
(* something starts from a new copy of the configuration; a TLV that does  *)
(* not unpack ends there. INITIALIZE sets the state of the port directly,  *)
(* a failure to send the answer faults it by toState().                    *)
Actionable == {"SET", "RESPONSE", "COMMAND"}
CopyOfConfig(action, pending) == IF action \in Actionable THEN currentConfig ELSE pending

(* toState() calls initClock(), which takes the option, on entry to SLAVE  *)
(* and on exit from it.                                                    *)
initClock(settings) == [settings EXCEPT !.disabled = rtOpts.disabled]
toState(from, to, settings) ==
  IF from # to /\ "SLAVE" \in {from, to} THEN initClock(settings) ELSE settings

HandleTLV(message, sent, state, tlv) ==
  LET action == message.action
      handler == HandlerOf(tlv)
      copy == CopyOfConfig(action, state.managementConfig)
      changing == Changes(action, tlv)
      handled == IF changing /\ handler.initialize THEN "INITIALIZING" ELSE state.portState
      next == IF Answered(action, tlv) /\ ~sent THEN "FAULTY" ELSE handled
      set == IF changing THEN handler.sets ++ state.dataSets ELSE state.dataSets
  IN  CASE tlv.type # "MANAGEMENT" -> state
        [] tlv.type = "MANAGEMENT" /\ tlv.malformed /\ action # "GET" ->
             [state EXCEPT !.managementConfig = copy]
        [] OTHER ->
             [dataSets |-> toState(handled, next, set),
              managementConfig |-> IF changing THEN handler.stores ++ copy ELSE copy,
              portState |-> next]

(* A message not directed to the port, or a change while the options allow *)
(* only reading, is dropped TLV by TLV.                                    *)
Accepted(message) ==
  /\ message.accepted
  /\ message.action \in {"SET", "COMMAND"} => rtOpts.management_set_enable = Other

BeforeTLVs == [dataSets |-> dataSets, managementConfig |-> NoConfig, portState |-> portState]
AfterTLVs(message, sent) ==
  LET after[n \in 0..Len(message.tlvs)] ==
        IF n = 0 THEN BeforeTLVs ELSE HandleTLV(message, sent, after[n - 1], message.tlvs[n])
  IN  IF Accepted(message) THEN after[Len(message.tlvs)] ELSE BeforeTLVs

----------------------------------------------------------------------------
(* Settings that are copied from rtOpts: to the data sets, or to the        *)
(* filters, the access list, the alarms and the timing services. The       *)
(* others are read in rtOpts alone.                                        *)
Filters ==
  {"delay_outlier_filter", "delay_outlier_threshold", "sync_outlier_filter",
   "sync_outlier_threshold"}
Services == {"ntp_failover_timeout", "servo_kp"}
Subsystems == Filters \cup Services \cup {"timing_acl", "alarms"}
DataSetMembers ==
  (DOMAIN PortSettings \cup DOMAIN ProtocolSettings \cup DOMAIN ClockSettings)
    \ {"backup_interface", "unicast_negotiation"}
Members == DataSetMembers \cup Subsystems
TimeProperties == {"utc_offset", "time_traceable", "ptp_timescale"}
HeardIntervals == {"log_announce_interval", "log_sync_interval"}

Take(settings) == [s \in Members |-> IF s \in settings THEN rtOpts[s] ELSE dataSets[s]]

(* initData() copies every option but those of the time properties;        *)
(* slave-only mode is only ever switched on there.                         *)
\* A bug: the domain survives the initialisation.
initData_KeepsDomain == Take(DataSetMembers \ ({"domain", "slave_only"} \cup TimeProperties))
initData ==
  Take((IF rtOpts.slave_only = Other THEN DataSetMembers ELSE DataSetMembers \ {"slave_only"})
         \ TimeProperties)

(* updateDatasets(): what it copies depends on the state of the port; on a *)
(* master the clock accuracy then gets the value of priority1.             *)
SlaveUpdates == {"port_description", "delay_mechanism", "ptp_clock_accuracy", "clock_class",
                 "priority1", "priority2"}
MasterUpdates ==
  SlaveUpdates \cup TimeProperties \cup HeardIntervals
    \cup {"announce_receipt_timeout", "log_peer_delayreq_interval"}

Updates ==
  CASE portState = "MASTER" -> MasterUpdates
    [] portState \in {"SLAVE", "PASSIVE"} -> SlaveUpdates
    [] OTHER -> {"port_description"}
updateDatasets(restarted) ==
  LET updated == Take(Updates \cup restarted)
  IN  IF portState = "MASTER"
        THEN [updated EXCEPT !.ptp_clock_accuracy = FromPriority(rtOpts.priority1)]
        ELSE updated

(* The checks of the flag "disabled" before and after the work of a pass.  *)
IfDisabled(state, disabled) ==
  IF disabled = Other /\ state # "DISABLED" THEN "DISABLED" ELSE state
BeforeWork ==
  IF dataSets.disabled = Default /\ portState = "DISABLED" THEN "INITIALIZING"
  ELSE IfDisabled(portState, dataSets.disabled)

----------------------------------------------------------------------------
(* The history variables. requested holds the settings whose restart is    *)
(* still to come: a commit replaces the flags of the one before, and what  *)
(* its own do not include is forgotten. A setting is excused from the      *)
(* moment such a weakness parts it from its option until both agree again. *)
Excuse(settings) ==
  excused' = {s \in Members : dataSets'[s] # rtOpts'[s] /\ s \in excused \cup settings}

NewOptions == {s \in Members : rtOpts'[s] # rtOpts[s]}
SetDirectly == {s \in Members : dataSets'[s] # dataSets[s]}

Request ==
  requested' = IF configVars' = configVars THEN requested
               ELSE {s \in requested \cup NewOptions : RestartFlag[s] \in restartSubsystems'}

(* What an update without initialisation does not reach: on a master a     *)
(* setting without a flag, on a slave what it takes from its master or     *)
(* never uses, in any other state all but the description. A filter has    *)
(* its threshold of when it was started.                                   *)
Thresholds == {"delay_outlier_threshold", "sync_outlier_threshold"}
NotUpdated ==
  CASE portState = "MASTER" -> {"log_peer_delayreq_interval", "ptp_clock_accuracy"}
    [] portState \in {"SLAVE", "PASSIVE"} -> MasterUpdates \ SlaveUpdates
    [] OTHER -> MasterUpdates \ {"port_description"}

----------------------------------------------------------------------------
Init ==
  \E config \in Files :
    /\ ParsesWell(config)
    /\ currentConfig = config /\ rtOpts = ParsedOptions(config)
    /\ restartSubsystems = {} /\ rescaled = FALSE
    /\ portState = IF config.disabled = Other THEN "DISABLED" ELSE "INITIALIZING"
    /\ dataSets = [s \in Members |-> IF s \in TimeProperties THEN Default ELSE rtOpts[s]]
    /\ phase = "work"
    /\ configFile = config /\ sighup_received = FALSE /\ changes = 0
    /\ requested = {} /\ excused = {}

(* The protocol engine decides on a state: a master takes the time         *)
(* properties of its options (m1), a slave and a passive port those of the *)
(* master they hear (s1), but a passive port its own UTC offset (p1), with *)
(* the interval of its Announces and, on a slave, of its Syncs.            *)
HeardIn(state) ==
  CASE state = "SLAVE" -> TimeProperties \cup HeardIntervals
    [] state = "PASSIVE" -> (TimeProperties \ {"utc_offset"}) \cup {"log_announce_interval"}
    [] OTHER -> {}
TakenIn(state) ==
  CASE state = "MASTER" -> TimeProperties
    [] state = "PASSIVE" -> {"utc_offset"}
    [] OTHER -> {}

Decide(state) ==
  /\ phase = "work"
  /\ portState \in Operating
  /\ dataSets' = toState(portState, state,
                   [s \in Members |-> IF s \in HeardIn(state) THEN Heard
                                     ELSE Take(TakenIn(state))[s]])
  /\ portState' = IfDisabled(state, dataSets'.disabled)
  /\ UNCHANGED <<configVars, phase, configFile, sighup_received, changes, requested>>
  /\ Excuse(HeardIn(state))

(* The servo of a slave, or SIGUSR1, steps the clock, and the port faults. *)
stepClock ==
  /\ phase = "work"
  /\ portState = "SLAVE"
  /\ rtOpts.no_adjust = Default
  /\ dataSets' = initClock(dataSets)
  /\ portState' = IfDisabled("FAULTY", dataSets'.disabled)
  /\ UNCHANGED <<configVars, phase, configFile, sighup_received, changes, requested>>
  /\ Excuse({})

(* A pass without a message.                                               *)
doState ==
  /\ phase = "work"
  /\ phase' = "restart"
  /\ BeforeWork # "INITIALIZING"
  /\ portState' = IF BeforeWork = "FAULTY" THEN "INITIALIZING" ELSE BeforeWork
  /\ UNCHANGED <<configVars, dataSets, configFile, sighup_received, changes, requested, excused>>

doInit ==
  /\ phase = "work"
  /\ phase' = "restart"
  /\ BeforeWork = "INITIALIZING"
  /\ dataSets' = [initData EXCEPT !.timing_acl = rtOpts.timing_acl]   \* by netInit()
  /\ portState' = IfDisabled("LISTENING", initData.disabled)
  /\ UNCHANGED <<configVars, configFile, sighup_received, changes, requested>>
  /\ Excuse({})

(* A restart of the protocol or of the network initialises the port.       *)
Initialising == restartSubsystems \cap {"PROTOCOL", "NETWORK"} # {}

(* handleManagement(): the TLVs in turn, then the configuration they left. *)
(* A port enabled by the message listens before its restart, and goes on   *)
(* listening with what it had while disabled when no restart is to come.   *)
handleManagement(message, sent) ==
  LET after == AfterTLVs(message, sent) IN
  /\ phase = "work"
  /\ changes < MAX_CHANGES
  /\ BeforeWork \in Operating \cup {"DISABLED"}
  /\ phase' = "restart"
  /\ changes' = changes + 1
  /\ dataSets' = after.dataSets
  /\ portState' =
       IfDisabled(IF BeforeWork = "DISABLED" /\ after.dataSets.disabled = Default
                    THEN "LISTENING" ELSE after.portState,
                  after.dataSets.disabled)
  /\ IF after.managementConfig = NoConfig
       THEN UNCHANGED configVars
       ELSE applyConfig(after.managementConfig)
  /\ UNCHANGED <<configFile, sighup_received>>
  /\ Request
  /\ Excuse((requested \ requested') \cup
            (IF rtOpts' = rtOpts \/ Len(message.tlvs) > 1 THEN SetDirectly ELSE {}) \cup
            (IF BeforeWork = "DISABLED" /\ portState' = "LISTENING" /\ ~Initialising'
               THEN DataSetMembers ELSE {}))

(* restartSubsystems(): the subsystems whose flag is set, and those that   *)
(* every restart brings up to date.                                        *)
Restarted ==
  Services \cup (IF "FILTERS" \in restartSubsystems THEN Filters ELSE {})
           \cup (IF "ACLS" \in restartSubsystems THEN {"timing_acl"} ELSE {})
           \cup (IF "ALARMS" \in restartSubsystems THEN {"alarms"} ELSE {})

(* With them either a new initialisation of the port or an update of its   *)
(* data sets.                                                              *)
\* A bug: the restart goes by the flag of before the change.
Reinitialise_OldFlag ==
  /\ Initialising
  /\ dataSets' = Take(Restarted \cup {"slave_only", "clock_class"})
  /\ portState' = IF dataSets.disabled = Other THEN "DISABLED" ELSE "INITIALIZING"
  /\ requested' = {}
  /\ Excuse(Thresholds)
Reinitialise ==
  /\ Initialising
  /\ dataSets' = Take(Restarted \cup {"slave_only", "clock_class", "disabled"})
  /\ portState' = IF rtOpts.disabled = Other THEN "DISABLED" ELSE "INITIALIZING"
  /\ requested' = {}
  /\ Excuse(Thresholds)

Update ==
  /\ restartSubsystems # {}
  /\ ~Initialising
  /\ dataSets' = IF "UPDATE" \in restartSubsystems THEN updateDatasets(Restarted)
                 ELSE Take(Restarted)
  /\ UNCHANGED portState
  /\ requested' = {}
  /\ Excuse((requested \cap (NotUpdated \cup Thresholds))
            \cup (IF portState = "MASTER" THEN {"ptp_clock_accuracy"} ELSE {}))

NoRestart ==
  /\ restartSubsystems = {}
  /\ UNCHANGED <<dataSets, portState, requested, excused>>

(* A request of -1 is never taken back.                                    *)
Acknowledged == IF restartSubsystems = AllFlags THEN AllFlags ELSE {}

RestartSubsystems ==
  /\ phase = "restart"
  /\ phase' = "signals"
  /\ restartSubsystems' = Acknowledged
  /\ UNCHANGED <<currentConfig, rtOpts, rescaled, configFile, sighup_received, changes>>
  /\ Reinitialise \/ Update \/ NoRestart

(* checkSignals(): the configuration file is read again on SIGHUP.         *)
checkSignals ==
  /\ phase = "signals"
  /\ phase' = "work"
  /\ sighup_received' = FALSE
  /\ IF sighup_received THEN applyConfig(configFile) ELSE UNCHANGED configVars
  /\ UNCHANGED <<portState, dataSets, configFile, changes>>
  /\ Request
  /\ Excuse(requested \ requested')

(* The operator edits the file and sends SIGHUP at any moment.             *)
SIGHUP(file) ==
  /\ changes < MAX_CHANGES
  /\ changes' = changes + 1
  /\ configFile' = file
  /\ sighup_received' = TRUE
  /\ UNCHANGED <<configVars, portState, dataSets, phase, requested, excused>>

Loop ==
  \/ doState
  \/ doInit
  \/ \E message \in Messages, sent \in BOOLEAN : handleManagement(message, sent)
  \/ RestartSubsystems
  \/ checkSignals

Next ==
  \/ Loop
  \/ \E state \in Operating : Decide(state)
  \/ stepClock
  \/ \E file \in Files : SIGHUP(file)

Spec == Init /\ [][Next]_vars

(* The main loop goes round.                                               *)
FairSpec == Spec /\ WF_vars(Loop)

----------------------------------------------------------------------------
TypeOK ==
  /\ currentConfig \in [Settings -> {Default, Other}]
  /\ rtOpts \in [Settings -> {Default, Other}]
  /\ restartSubsystems \subseteq AllFlags
  /\ rescaled \in BOOLEAN
  /\ portState \in States
  /\ dataSets \in [Members -> Values \cup {Heard} \cup {FromPriority(v) : v \in Values}]
  /\ phase \in {"work", "restart", "signals"}
  /\ configFile \in Files
  /\ sighup_received \in BOOLEAN
  /\ changes \in 0..MAX_CHANGES
  /\ requested \subseteq Members
  /\ excused \subseteq Members

(* Once the restarts a change asked for are done, an operating port works  *)
(* with what its options say, whichever way the change came (SET, COMMAND  *)
(* or reload) and in whatever order changes, restarts, faults and state    *)
(* decisions followed each other: but for the settings that one of the     *)
(* weaknesses listed at "excused" has parted from their options.           *)
Compared ==
  Members \ ({"slave_only"} \cup IF portState = "MASTER" THEN {} ELSE TimeProperties)
InForce ==
  phase = "work" /\ restartSubsystems = {} /\ portState \in Operating =>
    \A s \in Compared : dataSets[s] = rtOpts[s] \/ s \in excused

(* A port that its options disable, by DISABLE_PORT or by a reload, comes  *)
(* to rest in DISABLED, unless the request is forgotten or taken back.     *)
DisableIsObeyed ==
  (rtOpts.disabled = Other) ~>
    (portState = "DISABLED" \/ rtOpts.disabled = Default \/ "disabled" \in excused)

(* A port that its options enable, by ENABLE_PORT or by a reload, comes to *)
(* operate, faults in between notwithstanding, unless it is disabled again *)
(* or the request is forgotten.                                            *)
EnableIsObeyed ==
  (rtOpts.disabled = Default) ~>
    (portState \in Operating \/ rtOpts.disabled = Other \/ "disabled" \in excused)

(* The TLVs of a message are handled "as if they came in separate          *)
(* messages": when its configuration is applied, what any of them stored   *)
(* is in it, unless a later one stored the setting again.                  *)
StoredBy(message) ==
  FoldLeft(LAMBDA stored, tlv : IF Changes(message.action, tlv) THEN HandlerOf(tlv).stores ++ stored
                                ELSE stored, Nothing, message.tlvs)
EveryTLVCounts ==
  [][\A message \in Messages :
       handleManagement(message, TRUE) /\ currentConfig' # currentConfig =>
         LET stored == StoredBy(message)
         IN  \A s \in DOMAIN stored : currentConfig'[s] = stored[s]]_vars
=============================================================================
