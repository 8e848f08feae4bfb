------------------------- MODULE Management_proofs -------------------------
(* That an operating port works with what its options say, for every set   *)
(* of messages, TLVs and configuration files and any number of changes.    *)
(* The invariant says of each setting of a data set or of a subsystem that *)
(* it is what its option is, or that its restart is still to come, or that *)
(* one of the weaknesses of the code holds it; what a message of several   *)
(* TLVs does is followed by the least TLV that would go wrong.             *)
EXTENDS Management, WellFoundedInduction, TLAPS


(* A set of numbers that is not empty has a least one.                     *)
LEMMA Least ==
  ASSUME NEW S, S \subseteq Nat, S # {}
  PROVE  \E i \in S : \A j \in S : i <= j
<1> DEFINE Below == {ss \in Nat \X Nat : ss[1] < ss[2]}
<1>1. IsWellFoundedOn(Below, Nat)
  <2>1. OpToRel(<, Nat) = Below
    BY DEF OpToRel
  <2> QED BY <2>1, NatLessThanWellFounded
<1>2. \A i, j \in Nat : <<j, i>> \notin Below => i <= j
  OBVIOUS
<1> HIDE DEF Below
<1> QED BY <1>1, <1>2, WFMin

(* dictionary_merge(): what the merged dictionary holds.                   *)
LEMMA Merged ==
  ASSUME NEW f, NEW g
  PROVE  /\ DOMAIN (f ++ g) = DOMAIN f \cup DOMAIN g
         /\ \A s \in DOMAIN f : (f ++ g)[s] = f[s]
         /\ \A s \in DOMAIN g \ DOMAIN f : (f ++ g)[s] = g[s]
BY DEF ++

(* Merged into a dictionary of all settings, one of some of them keeps its *)
(* type.                                                                   *)
LEMMA MergedType ==
  ASSUME NEW D, NEW E, NEW V, NEW f \in [D -> V], NEW g \in [E -> V], D \subseteq E
  PROVE  f ++ g \in [E -> V]
BY DEF ++

(* Every group of settings has its restart flags.                          *)
LEMMA Flags ==
  /\ \A s \in DOMAIN PortSettings : s \in Settings /\ RestartFlag[s] = PortSettings[s]
  /\ \A s \in DOMAIN ProtocolSettings : s \in Settings /\ RestartFlag[s] = ProtocolSettings[s]
  /\ \A s \in DOMAIN ClockSettings : s \in Settings /\ RestartFlag[s] = ClockSettings[s]
  /\ \A s \in DOMAIN DelayFilterSettings :
       s \in Settings /\ RestartFlag[s] = DelayFilterSettings[s]
  /\ \A s \in DOMAIN SyncFilterSettings :
       s \in Settings /\ RestartFlag[s] = SyncFilterSettings[s]
  /\ \A s \in DOMAIN EngineSettings : s \in Settings /\ RestartFlag[s] = EngineSettings[s]
  /\ \A s \in DOMAIN ServoSettings : s \in Settings /\ RestartFlag[s] = ServoSettings[s]
  /\ \A s \in DOMAIN GlobalSettings : s \in Settings /\ RestartFlag[s] = GlobalSettings[s]
<1> DEFINE
      P2 == PortSettings ++ ProtocolSettings
      P3 == P2 ++ ClockSettings
      P4 == P3 ++ TransportSettings
      P5 == P4 ++ DelayFilterSettings
      P6 == P5 ++ SyncFilterSettings
      P7 == P6 ++ EngineSettings
      P8 == P7 ++ ServoSettings
      P9 == P8 ++ GlobalSettings
<1>1. RestartFlag = P9 ++ LogSettings
  BY DEF RestartFlag
<1>2. /\ DOMAIN P2 = DOMAIN PortSettings \cup DOMAIN ProtocolSettings
      /\ DOMAIN P3 = DOMAIN P2 \cup DOMAIN ClockSettings
      /\ DOMAIN P4 = DOMAIN P3 \cup DOMAIN TransportSettings
      /\ DOMAIN P5 = DOMAIN P4 \cup DOMAIN DelayFilterSettings
      /\ DOMAIN P6 = DOMAIN P5 \cup DOMAIN SyncFilterSettings
      /\ DOMAIN P7 = DOMAIN P6 \cup DOMAIN EngineSettings
      /\ DOMAIN P8 = DOMAIN P7 \cup DOMAIN ServoSettings
      /\ DOMAIN P9 = DOMAIN P8 \cup DOMAIN GlobalSettings
      /\ DOMAIN RestartFlag = DOMAIN P9 \cup DOMAIN LogSettings
  BY Merged, <1>1
<1>3. /\ \A s \in DOMAIN PortSettings : P2[s] = PortSettings[s]
      /\ \A s \in DOMAIN P2 : P3[s] = P2[s]
      /\ \A s \in DOMAIN P3 : P4[s] = P3[s]
      /\ \A s \in DOMAIN P4 : P5[s] = P4[s]
      /\ \A s \in DOMAIN P5 : P6[s] = P5[s]
      /\ \A s \in DOMAIN P6 : P7[s] = P6[s]
      /\ \A s \in DOMAIN P7 : P8[s] = P7[s]
      /\ \A s \in DOMAIN P8 : P9[s] = P8[s]
      /\ \A s \in DOMAIN P9 : RestartFlag[s] = P9[s]
  BY Merged, <1>1
<1>4. /\ \A s \in DOMAIN ProtocolSettings \ DOMAIN PortSettings : P2[s] = ProtocolSettings[s]
      /\ \A s \in DOMAIN ClockSettings \ DOMAIN P2 : P3[s] = ClockSettings[s]
      /\ \A s \in DOMAIN DelayFilterSettings \ DOMAIN P4 : P5[s] = DelayFilterSettings[s]
      /\ \A s \in DOMAIN SyncFilterSettings \ DOMAIN P5 : P6[s] = SyncFilterSettings[s]
      /\ \A s \in DOMAIN EngineSettings \ DOMAIN P6 : P7[s] = EngineSettings[s]
      /\ \A s \in DOMAIN ServoSettings \ DOMAIN P7 : P8[s] = ServoSettings[s]
      /\ \A s \in DOMAIN GlobalSettings \ DOMAIN P8 : P9[s] = GlobalSettings[s]
  BY Merged
<1> HIDE DEF P2, P3, P4, P5, P6, P7, P8, P9
<1>5. /\ DOMAIN ProtocolSettings \cap DOMAIN PortSettings = {}
      /\ DOMAIN ClockSettings \cap DOMAIN P2 = {}
      /\ DOMAIN DelayFilterSettings \cap DOMAIN P4 = {}
      /\ DOMAIN SyncFilterSettings \cap DOMAIN P5 = {}
      /\ DOMAIN EngineSettings \cap DOMAIN P6 = {}
      /\ DOMAIN ServoSettings \cap DOMAIN P7 = {}
      /\ DOMAIN GlobalSettings \cap DOMAIN P8 = {}
  BY <1>2 DEF PortSettings, ProtocolSettings, ClockSettings, TransportSettings,
       DelayFilterSettings, SyncFilterSettings, EngineSettings, ServoSettings, GlobalSettings
<1> QED BY <1>2, <1>3, <1>4, <1>5 DEF Settings
(* What the data sets and the subsystems work with, and its restart flags. *)
LEMMA MemberFacts ==
  /\ Members \subseteq Settings
  /\ DataSetMembers \cap Subsystems = {}
  /\ {"slave_only", "disabled", "clock_class", "ptp_clock_accuracy"} \subseteq DataSetMembers
  /\ MasterUpdates \subseteq DataSetMembers
  /\ "timing_acl" \in Members /\ "alarms" \in Members
  /\ {"management_set_enable", "backup_interface"} \cap Members = {}
<1>1. DataSetMembers =
        (DOMAIN PortSettings \cup DOMAIN ProtocolSettings \cup DOMAIN ClockSettings)
           \ {"backup_interface", "unicast_negotiation"}
  BY DEF DataSetMembers
<1>2. DataSetMembers \subseteq Settings
  BY <1>1, Flags
<1>3. Subsystems \subseteq Settings
  BY Flags DEF Subsystems, Filters, Services, DelayFilterSettings, SyncFilterSettings,
       EngineSettings, ServoSettings, GlobalSettings
<1>4. DataSetMembers =
        {"interface", "disabled", "delay_mechanism", "domain", "port_description",
         "slave_only", "log_announce_interval", "announce_receipt_timeout",
         "log_sync_interval", "log_peer_delayreq_interval", "ptp_clock_accuracy",
         "utc_offset", "time_traceable", "ptp_timescale", "clock_class", "priority1",
         "priority2"}
  BY <1>1 DEF PortSettings, ProtocolSettings, ClockSettings
<1> QED
  BY <1>2, <1>3, <1>4 DEF Members, Subsystems, Filters, Services, MasterUpdates, SlaveUpdates,
       TimeProperties, HeardIntervals

(* The restart flag of a setting says which step of restartSubsystems()    *)
(* takes it, but for a threshold, a service and the interval of peer delay *)
(* requests.                                                               *)
LEMMA MemberFlags ==
  ASSUME NEW s \in Members, s # "slave_only"
  PROVE  \/ RestartFlag[s] \in {"PROTOCOL", "NETWORK"} /\ s \in DataSetMembers
         \/ s \in MasterUpdates /\ RestartFlag[s] = "UPDATE"
         \/ s = "log_peer_delayreq_interval"
         \/ s \in Services
         \/ s \in Thresholds
         \/ s \in Filters /\ RestartFlag[s] = "FILTERS"
         \/ s = "timing_acl" /\ RestartFlag[s] = "ACLS"
         \/ s = "alarms" /\ RestartFlag[s] = "ALARMS"
<1>1. CASE s \in Subsystems
  BY <1>1, Flags DEF Subsystems, Filters, Services, Thresholds, DelayFilterSettings,
       SyncFilterSettings, EngineSettings, ServoSettings, GlobalSettings
<1>2. CASE s \in DOMAIN PortSettings \ {"backup_interface", "unicast_negotiation"}
  BY <1>2, Flags DEF PortSettings, DataSetMembers
<1>3. CASE s \in DOMAIN ProtocolSettings \ {"backup_interface", "unicast_negotiation"}
  BY <1>3, Flags DEF ProtocolSettings, DataSetMembers, MasterUpdates, SlaveUpdates,
       HeardIntervals
<1>4. CASE s \in DOMAIN ClockSettings \ {"backup_interface", "unicast_negotiation"}
  BY <1>4, Flags DEF ClockSettings, MasterUpdates, SlaveUpdates, TimeProperties
<1> QED BY <1>1, <1>2, <1>3, <1>4 DEF Members, DataSetMembers

(* Every flag of a setting is one of the flags -1 stands for.              *)
LEMMA FlagsOfAll == \A s \in Settings : RestartFlag[s] \in AllFlags
BY DEF AllFlags

----------------------------------------------------------------------------
(* A handler sets members of the data sets and stores settings that need   *)
(* no new network interface or processor core.                             *)
Manageable == {s \in Settings : RestartFlag[s] \notin {"NETWORK", "CPUAFFINITY"}}

SoundHandler(h) ==
  /\ \E D \in SUBSET (Members \cap Settings) : h.sets \in [D -> Values]
  /\ \E D \in SUBSET Manageable : h.stores \in [D -> Values]
  /\ h.stores = h.sets \/ h.sets = Nothing \/ h.stores = Nothing
  /\ h.answers \subseteq {"GET"} \cup Actionable

(* The dictionary of no settings.                                          *)
LEMMA NothingType == Nothing \in [{} -> Values]
BY DEF Nothing, NoConfig

(* The settings that handlers of management.c both set and store.          *)
LEMMA ManageableNames ==
  {"slave_only", "port_description", "priority1", "priority2", "domain",
   "log_announce_interval", "announce_receipt_timeout", "log_sync_interval", "disabled",
   "ptp_clock_accuracy", "utc_offset", "time_traceable", "delay_mechanism",
   "log_peer_delayreq_interval"} \subseteq Manageable \cap Members
<1>1. {"slave_only", "port_description", "domain", "log_announce_interval",
       "announce_receipt_timeout", "log_sync_interval", "delay_mechanism"}
         \subseteq Manageable \cap Members
  BY Flags DEF ProtocolSettings, Manageable, Members, DataSetMembers
<1>2. {"priority1", "priority2", "ptp_clock_accuracy", "utc_offset", "time_traceable",
       "log_peer_delayreq_interval"} \subseteq Manageable \cap Members
  BY Flags DEF ClockSettings, Manageable, Members, DataSetMembers
<1>3. "disabled" \in Manageable \cap Members
  BY Flags DEF PortSettings, Manageable, Members, DataSetMembers
<1> QED BY <1>1, <1>2, <1>3

(* The settings that handlers store and never set.                         *)
LEMMA ManageableOnly == {"ptp_timescale", "unicast_negotiation"} \subseteq Manageable
BY Flags DEF ClockSettings, PortSettings, Manageable

(* A handler that sets a member and stores the same value is sound, and so *)
(* is one that is silent on nothing.                                       *)
LEMMA GetSetSound ==
  ASSUME NEW s \in Manageable \cap Members, NEW v \in Values
  PROVE  /\ SoundHandler(GetSet(s, v))
         /\ SoundHandler([GetSet(s, v) EXCEPT !.silent = {}])
<1> DEFINE f == [x \in {s} |-> v]
<1>1. /\ GetSet(s, v).sets = f /\ GetSet(s, v).stores = f
      /\ GetSet(s, v).answers \subseteq {"GET"} \cup Actionable
  BY DEF GetSet, Handler, Actionable
<1>2. /\ [GetSet(s, v) EXCEPT !.silent = {}].sets = f
      /\ [GetSet(s, v) EXCEPT !.silent = {}].stores = f
      /\ [GetSet(s, v) EXCEPT !.silent = {}].answers \subseteq {"GET"} \cup Actionable
  BY DEF GetSet, Handler, Actionable
<1>3. f \in [{s} -> Values]
  OBVIOUS
<1>4. {s} \in SUBSET Members /\ {s} \in SUBSET Manageable /\ {s} \in SUBSET Settings
  BY DEF Manageable
<1> HIDE DEF f
<1> QED BY <1>1, <1>2, <1>3, <1>4 DEF SoundHandler

(* A handler that only stores is sound.                                    *)
LEMMA SetsNothing ==
  ASSUME NEW s \in Manageable, NEW v \in Values
  PROVE  SoundHandler([GetSet(s, v) EXCEPT !.sets = Nothing])
<1> DEFINE f == [x \in {s} |-> v]
<1>1. /\ [GetSet(s, v) EXCEPT !.sets = Nothing].sets = Nothing
      /\ [GetSet(s, v) EXCEPT !.sets = Nothing].stores = f
      /\ [GetSet(s, v) EXCEPT !.sets = Nothing].answers \subseteq {"GET"} \cup Actionable
  BY DEF GetSet, Handler, Actionable
<1>2. f \in [{s} -> Values] /\ {s} \in SUBSET Manageable
  OBVIOUS
<1> HIDE DEF f
<1> QED BY <1>1, <1>2, NothingType DEF SoundHandler

(* A handler that only sets is sound.                                      *)
LEMMA StoresNothing ==
  ASSUME NEW s \in Members \cap Settings, NEW v \in Values
  PROVE  SoundHandler([GetSet(s, v) EXCEPT !.stores = Nothing])
<1> DEFINE f == [x \in {s} |-> v]
<1>1. /\ [GetSet(s, v) EXCEPT !.stores = Nothing].sets = f
      /\ [GetSet(s, v) EXCEPT !.stores = Nothing].stores = Nothing
      /\ [GetSet(s, v) EXCEPT !.stores = Nothing].answers \subseteq {"GET"} \cup Actionable
  BY DEF GetSet, Handler, Actionable
<1>2. f \in [{s} -> Values] /\ {s} \in SUBSET (Members \cap Settings)
  OBVIOUS
<1> HIDE DEF f
<1> QED BY <1>1, <1>2, NothingType DEF SoundHandler

(* A handler that neither sets nor stores is sound.                        *)
LEMMA StoresNone ==
  ASSUME NEW h, h.sets = Nothing, h.stores = Nothing,
         h.answers \subseteq {"GET"} \cup Actionable
  PROVE  SoundHandler(h)
BY NothingType DEF SoundHandler

(* So are the handlers that answer and change nothing of the settings, the *)
(* one that initialises the port included.                                 *)
LEMMA IdleSound ==
  ASSUME NEW answers, NEW silent, answers \subseteq {"GET"} \cup Actionable
  PROVE  /\ SoundHandler(Handler(answers, silent, Nothing, Nothing))
         /\ SoundHandler([Handler(answers, silent, Nothing, Nothing) EXCEPT !.initialize = TRUE])
<1> DEFINE h == Handler(answers, silent, Nothing, Nothing)
           g == [h EXCEPT !.initialize = TRUE]
<1>1. h.sets = Nothing /\ h.stores = Nothing /\ h.answers = answers
  BY DEF Handler
<1>2. g.sets = Nothing /\ g.stores = Nothing /\ g.answers = answers
  BY DEF Handler
<1>3. SoundHandler(h) /\ SoundHandler(g)
  <2> HIDE DEF h, g
  <2> QED BY <1>1, <1>2, StoresNone
<1> QED BY <1>3

(* The handlers of the data sets that are read only, and of what is not    *)
(* supported.                                                              *)
LEMMA ReadOnlySound == SoundHandler(ReadOnly) /\ SoundHandler(NotSupported)
BY IdleSound DEF ReadOnly, NotSupported, Actionable

SoundTable(table) == \A id \in DOMAIN table : SoundHandler(table[id])

(* The tables of sound handlers, merged.                                   *)
LEMMA SoundMerge ==
  ASSUME NEW t, NEW u, SoundTable(t), SoundTable(u)
  PROVE  SoundTable(t ++ u)
<1> SUFFICES ASSUME NEW id \in DOMAIN (t ++ u) PROVE SoundHandler((t ++ u)[id])
  BY DEF SoundTable
<1>1. \/ id \in DOMAIN t /\ (t ++ u)[id] = t[id]
      \/ id \in DOMAIN u /\ (t ++ u)[id] = u[id]
  BY DEF ++
<1> QED BY <1>1 DEF SoundTable

(* Every handler of management.c is sound, table by table.                 *)
LEMMA TablesSound ==
  ASSUME NEW v \in Values
  PROVE  SoundTable(Handlers(v))
<1>1. SoundTable(NullAndDescription(v))
  <2>1. /\ SoundHandler(Handler({"GET", "SET", "COMMAND"}, {}, Nothing, Nothing))
        /\ SoundHandler(ReadOnly)
    BY IdleSound, ReadOnlySound DEF Actionable
  <2> DEFINE t == NullAndDescription(v)
  <2>2. DOMAIN t = {"NULL_MANAGEMENT", "CLOCK_DESCRIPTION"}
    BY DEF NullAndDescription
  <2>3. /\ SoundHandler(t["NULL_MANAGEMENT"])
        /\ SoundHandler(t["CLOCK_DESCRIPTION"])
    BY <2>1 DEF NullAndDescription
  <2> HIDE DEF t
  <2>4. SoundTable(t)
    BY <2>2, <2>3 DEF SoundTable
  <2> QED BY <2>4 DEF t
<1>2. SoundTable(SlaveOnlyAndStorage(v))
  <2>1. /\ SoundHandler([GetSet("slave_only", v) EXCEPT !.silent = {}])
        /\ SoundHandler([GetSet("port_description", v) EXCEPT !.silent = {}])
        /\ SoundHandler(NotSupported)
    BY ManageableNames, GetSetSound, ReadOnlySound
  <2> DEFINE t == SlaveOnlyAndStorage(v)
  <2>2. DOMAIN t = {"SLAVE_ONLY", "USER_DESCRIPTION", "SAVE_IN_NON_VOLATILE_STORAGE", "RESET_NON_VOLATILE_STORAGE"}
    BY DEF SlaveOnlyAndStorage
  <2>3. /\ SoundHandler(t["SLAVE_ONLY"])
        /\ SoundHandler(t["USER_DESCRIPTION"])
        /\ SoundHandler(t["SAVE_IN_NON_VOLATILE_STORAGE"])
        /\ SoundHandler(t["RESET_NON_VOLATILE_STORAGE"])
    BY <2>1 DEF SlaveOnlyAndStorage
  <2> HIDE DEF t
  <2>4. SoundTable(t)
    BY <2>2, <2>3 DEF SoundTable
  <2> QED BY <2>4 DEF t
<1>3. SoundTable(InitializeAndDefaultDataSet(v))
  <2>1. /\ SoundHandler([Handler({"COMMAND"}, {"ACKNOWLEDGE"}, Nothing, Nothing) EXCEPT !.initialize = TRUE])
        /\ SoundHandler(ReadOnly)
    BY IdleSound, ReadOnlySound DEF Actionable
  <2> DEFINE t == InitializeAndDefaultDataSet(v)
  <2>2. DOMAIN t = {"INITIALIZE", "DEFAULT_DATA_SET", "CURRENT_DATA_SET"}
    BY DEF InitializeAndDefaultDataSet
  <2>3. /\ SoundHandler(t["INITIALIZE"])
        /\ SoundHandler(t["DEFAULT_DATA_SET"])
        /\ SoundHandler(t["CURRENT_DATA_SET"])
    BY <2>1 DEF InitializeAndDefaultDataSet
  <2> HIDE DEF t
  <2>4. SoundTable(t)
    BY <2>2, <2>3 DEF SoundTable
  <2> QED BY <2>4 DEF t
<1>4. SoundTable(DataSets(v))
  <2>1. /\ SoundHandler(ReadOnly)
    BY ReadOnlySound
  <2> DEFINE t == DataSets(v)
  <2>2. DOMAIN t = {"PARENT_DATA_SET", "TIME_PROPERTIES_DATA_SET", "PORT_DATA_SET"}
    BY DEF DataSets
  <2>3. /\ SoundHandler(t["PARENT_DATA_SET"])
        /\ SoundHandler(t["TIME_PROPERTIES_DATA_SET"])
        /\ SoundHandler(t["PORT_DATA_SET"])
    BY <2>1 DEF DataSets
  <2> HIDE DEF t
  <2>4. SoundTable(t)
    BY <2>2, <2>3 DEF SoundTable
  <2> QED BY <2>4 DEF t
<1>5. SoundTable(PrioritiesAndDomain(v))
  <2> DEFINE t == [PRIORITY1 |-> GetSet("priority1", v), PRIORITY2 |-> GetSet("priority2", v)]
             u == [id \in {"DOMAIN"} |-> GetSet("domain", v)]
  <2>1. /\ SoundHandler(GetSet("priority1", v))
        /\ SoundHandler(GetSet("priority2", v))
        /\ SoundHandler(GetSet("domain", v))
    BY ManageableNames, GetSetSound
  <2>2. /\ DOMAIN t = {"PRIORITY1", "PRIORITY2"} /\ DOMAIN u = {"DOMAIN"}
        /\ SoundHandler(t["PRIORITY1"]) /\ SoundHandler(t["PRIORITY2"])
        /\ SoundHandler(u["DOMAIN"])
    BY <2>1
  <2>3. PrioritiesAndDomain(v) = t ++ u
    BY DEF PrioritiesAndDomain
  <2> HIDE DEF t, u
  <2>4. SoundTable(t) /\ SoundTable(u)
    BY <2>2 DEF SoundTable
  <2>5. SoundTable(t ++ u)
    BY <2>4, SoundMerge
  <2> QED BY <2>3, <2>5
<1>6. SoundTable(Intervals(v))
  <2>1. /\ SoundHandler(GetSet("log_announce_interval", v))
        /\ SoundHandler(GetSet("announce_receipt_timeout", v))
        /\ SoundHandler(GetSet("log_sync_interval", v))
    BY ManageableNames, GetSetSound
  <2> DEFINE t == Intervals(v)
  <2>2. DOMAIN t = {"LOG_ANNOUNCE_INTERVAL", "ANNOUNCE_RECEIPT_TIMEOUT", "LOG_SYNC_INTERVAL"}
    BY DEF Intervals
  <2>3. /\ SoundHandler(t["LOG_ANNOUNCE_INTERVAL"])
        /\ SoundHandler(t["ANNOUNCE_RECEIPT_TIMEOUT"])
        /\ SoundHandler(t["LOG_SYNC_INTERVAL"])
    BY <2>1 DEF Intervals
  <2> HIDE DEF t
  <2>4. SoundTable(t)
    BY <2>2, <2>3 DEF SoundTable
  <2> QED BY <2>4 DEF t
<1>7. SoundTable(VersionPortAndTime(v))
  <2> DEFINE enabled == [disabled |-> Default]
             disabling == [disabled |-> Other]
             enable == Handler({"COMMAND"}, {}, enabled, enabled)
             disable == Handler({"COMMAND"}, {}, Nothing, disabling)
             t == VersionPortAndTime(v)
  <2>1. {"disabled"} \in SUBSET Manageable /\ {"disabled"} \in SUBSET (Members \cap Settings)
    BY ManageableNames, MemberFacts
  <2>2. enabled \in [{"disabled"} -> Values] /\ disabling \in [{"disabled"} -> Values]
    BY DEF Values
  <2>3. /\ enable.sets = enabled /\ enable.stores = enabled
        /\ disable.sets = Nothing /\ disable.stores = disabling
        /\ enable.answers = {"COMMAND"} /\ disable.answers = {"COMMAND"}
    BY DEF Handler
  <2>4. SoundHandler(enable) /\ SoundHandler(disable)
    <3> HIDE DEF enabled, disabling, enable, disable
    <3> QED BY <2>1, <2>2, <2>3, NothingType DEF SoundHandler, Actionable
  <2>5. DOMAIN t = {"VERSION_NUMBER", "ENABLE_PORT", "DISABLE_PORT", "TIME"}
    BY DEF VersionPortAndTime
  <2>6. /\ SoundHandler(t["VERSION_NUMBER"]) /\ SoundHandler(t["TIME"])
        /\ SoundHandler(t["ENABLE_PORT"]) /\ SoundHandler(t["DISABLE_PORT"])
    <3>1. SoundHandler(Handler({"GET", "SET"}, {"RESPONSE"}, Nothing, Nothing))
      BY IdleSound DEF Actionable
    <3> QED BY <3>1, <2>4, ReadOnlySound DEF VersionPortAndTime
  <2> HIDE DEF t
  <2>7. SoundTable(t)
    BY <2>5, <2>6 DEF SoundTable
  <2> QED BY <2>7 DEF t
<1>8. SoundTable(AccuracyAndProperties(v))
  <2>1. /\ SoundHandler([GetSet("ptp_clock_accuracy", v) EXCEPT !.stores = Nothing])
        /\ SoundHandler(GetSet("utc_offset", v))
        /\ SoundHandler(GetSet("time_traceable", v))
    BY ManageableNames, MemberFacts, GetSetSound, StoresNothing
  <2> DEFINE t == AccuracyAndProperties(v)
  <2>2. DOMAIN t = {"CLOCK_ACCURACY", "UTC_PROPERTIES", "TRACEABILITY_PROPERTIES"}
    BY DEF AccuracyAndProperties
  <2>3. /\ SoundHandler(t["CLOCK_ACCURACY"])
        /\ SoundHandler(t["UTC_PROPERTIES"])
        /\ SoundHandler(t["TRACEABILITY_PROPERTIES"])
    BY <2>1 DEF AccuracyAndProperties
  <2> HIDE DEF t
  <2>4. SoundTable(t)
    BY <2>2, <2>3 DEF SoundTable
  <2> QED BY <2>4 DEF t
<1>9. SoundTable(TimescaleNegotiationAndDelay(v))
  <2>1. /\ SoundHandler([GetSet("ptp_timescale", v) EXCEPT !.sets = Nothing])
        /\ SoundHandler([GetSet("unicast_negotiation", v) EXCEPT !.sets = Nothing])
        /\ SoundHandler(GetSet("delay_mechanism", v))
    BY ManageableNames, ManageableOnly, GetSetSound, SetsNothing
  <2> DEFINE t == TimescaleNegotiationAndDelay(v)
  <2>2. DOMAIN t = {"TIMESCALE_PROPERTIES", "UNICAST_NEGOTIATION_ENABLE", "DELAY_MECHANISM"}
    BY DEF TimescaleNegotiationAndDelay
  <2>3. /\ SoundHandler(t["TIMESCALE_PROPERTIES"])
        /\ SoundHandler(t["UNICAST_NEGOTIATION_ENABLE"])
        /\ SoundHandler(t["DELAY_MECHANISM"])
    BY <2>1 DEF TimescaleNegotiationAndDelay
  <2> HIDE DEF t
  <2>4. SoundTable(t)
    BY <2>2, <2>3 DEF SoundTable
  <2> QED BY <2>4 DEF t
<1>10. SoundTable(PdelayInterval(v))
  <2>1. /\ SoundHandler(GetSet("log_peer_delayreq_interval", v))
    BY ManageableNames, GetSetSound
  <2> DEFINE t == PdelayInterval(v)
  <2>2. DOMAIN t = {"LOG_MIN_PDELAY_REQ_INTERVAL"}
    BY DEF PdelayInterval
  <2>3. /\ SoundHandler(t["LOG_MIN_PDELAY_REQ_INTERVAL"])
    BY <2>1 DEF PdelayInterval
  <2> HIDE DEF t
  <2>4. SoundTable(t)
    BY <2>2, <2>3 DEF SoundTable
  <2> QED BY <2>4 DEF t
<1> QED
  BY <1>1, <1>2, <1>3, <1>4, <1>5, <1>6, <1>7, <1>8, <1>9, <1>10, SoundMerge DEF Handlers

(* So is the one that the switch of handleManagement() picks for a TLV,    *)
(* the error for an unknown identifier included.                           *)
LEMMA HandlersSound ==
  ASSUME NEW tlv \in TLVs
  PROVE  SoundHandler(HandlerOf(tlv))
<1>1. tlv.value \in Values
  BY DEF TLVs
<1>2. HandlerTable[tlv.value] = Handlers(tlv.value)
  BY <1>1 DEF HandlerTable
<1>3. SoundTable(Handlers(tlv.value))
  BY <1>1, TablesSound
<1>4. HandlerOf(tlv) = IF tlv.id \in DOMAIN Handlers(tlv.value) THEN Handlers(tlv.value)[tlv.id]
                       ELSE NotSupported
  BY <1>2 DEF HandlerOf
<1> QED BY <1>3, <1>4, ReadOnlySound DEF SoundTable
----------------------------------------------------------------------------
(* The TLVs of a message, one after the other: the recursion over them has *)
(* a value, by the least number of TLVs for which it had none.             *)
Step(message, sent, after, n) ==
  IF n = 0 THEN BeforeTLVs ELSE HandleTLV(message, sent, after[n - 1], message.tlvs[n])

(* The recursion over the TLVs has a value for every number of them.       *)
LEMMA ChainExists ==
  ASSUME NEW message, NEW sent, NEW N \in Nat
  PROVE  \E f : f = [n \in 0..N |-> Step(message, sent, f, n)]
<1> DEFINE Chain(f, k) == f = [n \in 0..k |-> Step(message, sent, f, n)]
           S == {k \in Nat : ~ \E f : Chain(f, k)}
<1>1. ASSUME S # {} PROVE FALSE
  <2>1. PICK k \in S : \A j \in S : k <= j
    BY <1>1, Least
  <2>2. CASE k = 0
    <3> DEFINE f == [n \in 0..0 |-> BeforeTLVs]
    <3>1. Chain(f, 0)
      BY DEF Step
    <3> QED BY <2>1, <2>2, <3>1
  <2>3. CASE k # 0
    <3>1. k - 1 \in Nat /\ k - 1 \notin S
      BY <2>1, <2>3
    <3>2. PICK f : Chain(f, k - 1)
      BY <3>1
    <3> DEFINE g == [n \in 0..k |-> IF n = k THEN Step(message, sent, f, k) ELSE f[n]]
    <3>3. \A n \in 0..k : g[n] = Step(message, sent, g, n)
      <4>1. \A n \in 0..k : g[n] = IF n = k THEN Step(message, sent, f, k) ELSE f[n]
        OBVIOUS
      <4> HIDE DEF g
      <4>2. \A n \in 0..(k - 1) : f[n] = Step(message, sent, f, n)
        BY <3>2
      <4>3. \A n \in 0..k : g[n] = Step(message, sent, f, n)
        BY <4>1, <4>2, <3>1
      <4>4. \A n \in 1..k : f[n - 1] = g[n - 1]
        BY <4>1, <3>1
      <4> QED BY <4>3, <4>4 DEF Step
    <3>4. g = [n \in 0..k |-> g[n]]
      OBVIOUS
    <3> HIDE DEF g
    <3>5. Chain(g, k)
      BY <3>3, <3>4
    <3> QED BY <3>5, <2>1
  <2> QED BY <2>2, <2>3
<1> QED BY <1>1

After(message, sent) ==
  CHOOSE f : f = [n \in 0..Len(message.tlvs) |->
                    IF n = 0 THEN BeforeTLVs
                    ELSE HandleTLV(message, sent, f[n - 1], message.tlvs[n])]

(* What the loop of handleManagement() over the TLVs computes: one         *)
(* HandleTLV() after the other.                                            *)
LEMMA ChainOf ==
  ASSUME NEW message, NEW sent, Len(message.tlvs) \in Nat
  PROVE  /\ AfterTLVs(message, sent) =
              IF Accepted(message) THEN After(message, sent)[Len(message.tlvs)] ELSE BeforeTLVs
         /\ After(message, sent)[0] = BeforeTLVs
         /\ \A n \in 1..Len(message.tlvs) :
              After(message, sent)[n] =
                HandleTLV(message, sent, After(message, sent)[n - 1], message.tlvs[n])
<1>1. AfterTLVs(message, sent) =
        IF Accepted(message) THEN After(message, sent)[Len(message.tlvs)] ELSE BeforeTLVs
  BY DEF AfterTLVs, After
<1>2. \E f : f = [n \in 0..Len(message.tlvs) |->
                    IF n = 0 THEN BeforeTLVs
                    ELSE HandleTLV(message, sent, f[n - 1], message.tlvs[n])]
  <2>1. \E f : f = [n \in 0..Len(message.tlvs) |-> Step(message, sent, f, n)]
    BY ChainExists
  <2> QED BY <2>1 DEF Step
<1>3. After(message, sent) =
        [n \in 0..Len(message.tlvs) |->
           IF n = 0 THEN BeforeTLVs
           ELSE HandleTLV(message, sent, After(message, sent)[n - 1], message.tlvs[n])]
  BY <1>2 DEF After
<1> DEFINE f == After(message, sent)
<1> HIDE DEF f
<1>4. \A n \in 0..Len(message.tlvs) :
        f[n] = IF n = 0 THEN BeforeTLVs ELSE HandleTLV(message, sent, f[n - 1], message.tlvs[n])
  BY <1>3 DEF f
<1>5. f[0] = BeforeTLVs
  BY <1>4
<1>6. \A n \in 1..Len(message.tlvs) : f[n] = HandleTLV(message, sent, f[n - 1], message.tlvs[n])
  BY <1>4
<1> QED BY <1>1, <1>5, <1>6 DEF f

----------------------------------------------------------------------------
(* What the TLVs of a message make of the data sets, the configuration to  *)
(* apply and the state of the port.                                        *)
WorkedWith == Values \cup {Heard} \cup {FromPriority(v) : v \in Values}
MessageStates ==
  [dataSets : [Members -> WorkedWith],
   managementConfig : {NoConfig} \cup [Settings -> Values],
   portState : {portState, "FAULTY", "INITIALIZING"}]

(* One TLV leaves data sets, a configuration and a state of the right      *)
(* types.                                                                  *)
LEMMA HandleTLVType ==
  ASSUME TypeOK, NEW message, NEW sent, NEW state \in MessageStates, NEW tlv \in TLVs
  PROVE  HandleTLV(message, sent, state, tlv) \in MessageStates
<1> DEFINE action == message.action
           handler == HandlerOf(tlv)
           copy == CopyOfConfig(action, state.managementConfig)
           changing == Changes(action, tlv)
           handled == IF changing /\ handler.initialize THEN "INITIALIZING" ELSE state.portState
           next == IF Answered(action, tlv) /\ ~sent THEN "FAULTY" ELSE handled
           set == IF changing THEN handler.sets ++ state.dataSets ELSE state.dataSets
           config == IF changing THEN handler.stores ++ copy ELSE copy
<1>1. state.dataSets \in [Members -> WorkedWith]
  BY DEF MessageStates
<1>2. currentConfig \in [Settings -> Values] /\ rtOpts.disabled \in WorkedWith
  BY MemberFacts DEF TypeOK, Values, WorkedWith, Members
<1>3. copy \in {NoConfig} \cup [Settings -> Values]
  BY <1>2 DEF CopyOfConfig, MessageStates
<1>4. SoundHandler(handler)
  BY HandlersSound
<1>5. changing => copy = currentConfig
  BY <1>4 DEF SoundHandler, Changes, CopyOfConfig, Actionable
<1>6. set \in [Members -> WorkedWith]
  <2>1. PICK D \in SUBSET (Members \cap Settings) : handler.sets \in [D -> Values]
    BY <1>4 DEF SoundHandler
  <2>2. handler.sets \in [D -> WorkedWith]
    BY <2>1 DEF WorkedWith
  <2>3. D \subseteq Members
    OBVIOUS
  <2>4. handler.sets ++ state.dataSets \in [Members -> WorkedWith]
    BY <2>2, <2>3, <1>1, MergedType
  <2> QED BY <2>4, <1>1
<1>7. config \in {NoConfig} \cup [Settings -> Values]
  <2>1. PICK D \in SUBSET Manageable : handler.stores \in [D -> Values]
    BY <1>4 DEF SoundHandler
  <2>2. D \subseteq Settings
    BY DEF Manageable
  <2>3. handler.stores ++ currentConfig \in [Settings -> Values]
    BY <2>1, <2>2, <1>2, MergedType
  <2> QED BY <2>3, <1>3, <1>5
<1>8. next \in {portState, "FAULTY", "INITIALIZING"}
  BY DEF MessageStates
<1>9. toState(handled, next, set) \in [Members -> WorkedWith]
  BY <1>2, <1>6 DEF toState, initClock
<1>10. HandleTLV(message, sent, state, tlv) =
         CASE tlv.type # "MANAGEMENT" -> state
           [] tlv.type = "MANAGEMENT" /\ tlv.malformed /\ action # "GET" ->
                [state EXCEPT !.managementConfig = copy]
           [] OTHER -> [dataSets |-> toState(handled, next, set),
                        managementConfig |-> config, portState |-> next]
  BY Zenon DEF HandleTLV
<1>11. [state EXCEPT !.managementConfig = copy] \in MessageStates
  BY <1>3 DEF MessageStates
<1>12. [dataSets |-> toState(handled, next, set),
        managementConfig |-> config, portState |-> next] \in MessageStates
  BY <1>7, <1>8, <1>9 DEF MessageStates
<1> HIDE DEF action, copy, handled, next, set, config
<1> QED BY <1>10, <1>11, <1>12

(* The state the loop starts from has them.                                *)
LEMMA BeforeType ==
  ASSUME TypeOK
  PROVE  BeforeTLVs \in MessageStates
BY DEF TypeOK, BeforeTLVs, MessageStates, WorkedWith

(* By the first TLV, had there been one, after which the types are wrong.  *)
LEMMA AfterType ==
  ASSUME TypeOK, NEW message \in Messages, NEW sent \in BOOLEAN
  PROVE  AfterTLVs(message, sent) \in MessageStates
<1> DEFINE f == After(message, sent)
           N == Len(message.tlvs)
           S == {n \in 0..N : f[n] \notin MessageStates}
<1>1. message.tlvs \in Seq(TLVs) /\ N \in Nat
  BY MessagesAssumption
<1>2. \A n \in 1..N : message.tlvs[n] \in TLVs
  BY <1>1
<1>3. f[0] \in MessageStates
  BY <1>1, ChainOf, BeforeType
<1>4. \A n \in 1..N : f[n] = HandleTLV(message, sent, f[n - 1], message.tlvs[n])
  BY <1>1, ChainOf
<1>5. AfterTLVs(message, sent) = IF Accepted(message) THEN f[N] ELSE BeforeTLVs
  BY <1>1, ChainOf
<1> HIDE DEF f, N
<1>6. S = {}
  <2>1. SUFFICES ASSUME S # {} PROVE FALSE
    OBVIOUS
  <2> S \subseteq Nat
    BY <1>1
  <2>2. PICK n \in S : \A j \in S : n <= j
    <3> HIDE DEF S
    <3> QED BY <2>1, Least
  <2>3. n \in 1..N /\ n - 1 \in 0..N /\ n - 1 \notin S
    BY <2>2, <1>1, <1>3
  <2>4. f[n - 1] \in MessageStates
    BY <2>3
  <2>5. f[n] \in MessageStates
    BY <2>3, <2>4, <1>2, <1>4, HandleTLVType
  <2> QED BY <2>2, <2>5
<1> QED BY <1>1, <1>5, <1>6, BeforeType

(* A setting a message of one TLV has in the data sets is what it was, the *)
(* option, or what the message stored too.                                 *)
LEMMA HandleOneTLV ==
  ASSUME TypeOK, NEW message, NEW sent, NEW tlv \in TLVs, NEW after,
         after = HandleTLV(message, sent, BeforeTLVs, tlv),
         after.managementConfig # NoConfig
  PROVE  /\ Changed(after.managementConfig) \subseteq Manageable
         /\ \/ Changed(after.managementConfig) = {}
            \/ \A s \in Members :
                 after.dataSets[s] \in {dataSets[s], rtOpts[s], after.managementConfig[s]}
<1> DEFINE action == message.action
           handler == HandlerOf(tlv)
           copy == CopyOfConfig(action, NoConfig)
           changing == Changes(action, tlv)
           handled == IF changing /\ handler.initialize THEN "INITIALIZING" ELSE portState
           next == IF Answered(action, tlv) /\ ~sent THEN "FAULTY" ELSE handled
           set == IF changing THEN handler.sets ++ dataSets ELSE dataSets
           config == IF changing THEN handler.stores ++ copy ELSE copy
<1>1. after =
         CASE tlv.type # "MANAGEMENT" -> BeforeTLVs
           [] tlv.type = "MANAGEMENT" /\ tlv.malformed /\ action # "GET" ->
                [BeforeTLVs EXCEPT !.managementConfig = copy]
           [] OTHER -> [dataSets |-> toState(handled, next, set),
                        managementConfig |-> config, portState |-> next]
  <2>1. /\ BeforeTLVs.managementConfig = NoConfig /\ BeforeTLVs.dataSets = dataSets
        /\ BeforeTLVs.portState = portState
    BY DEF BeforeTLVs
  <2> QED BY <2>1, Zenon DEF HandleTLV
<1>2. copy = NoConfig \/ copy = currentConfig
  BY DEF CopyOfConfig
<1>3. SoundHandler(handler)
  BY HandlersSound
<1>4. changing => copy = currentConfig
  BY <1>3 DEF SoundHandler, Changes, CopyOfConfig, Actionable
<1>5. currentConfig \in [Settings -> Values] /\ dataSets \in [Members -> WorkedWith]
  BY DEF TypeOK, Values, WorkedWith
<1>6. \/ after.managementConfig \in {NoConfig, currentConfig}
      \/ /\ changing
         /\ after.managementConfig = handler.stores ++ currentConfig
         /\ after.dataSets = toState(handled, next, handler.sets ++ dataSets)
  <2>1. CASE tlv.type # "MANAGEMENT"
    BY <2>1, <1>1 DEF BeforeTLVs
  <2>2. CASE tlv.type = "MANAGEMENT" /\ tlv.malformed /\ action # "GET"
    <3>1. after = [BeforeTLVs EXCEPT !.managementConfig = copy]
      BY <2>2, <1>1
    <3>2. after.managementConfig = copy
      BY <3>1 DEF BeforeTLVs
    <3> QED BY <3>2, <1>2
  <2>3. CASE tlv.type = "MANAGEMENT" /\ ~(tlv.malformed /\ action # "GET")
    <3>1. /\ after.managementConfig = config
          /\ after.dataSets = toState(handled, next, set)
      BY <2>3, <1>1
    <3> QED BY <3>1, <1>2, <1>4
  <2> QED BY <2>1, <2>2, <2>3
<1>7. CASE after.managementConfig = currentConfig
  BY <1>7, <1>5 DEF Changed
<1>8. CASE /\ after.managementConfig = handler.stores ++ currentConfig
           /\ after.dataSets = toState(handled, next, handler.sets ++ dataSets)
  <2>1. PICK E \in SUBSET Manageable : handler.stores \in [E -> Values]
    BY <1>3 DEF SoundHandler
  <2>2. PICK D \in SUBSET (Members \cap Settings) : handler.sets \in [D -> Values]
    BY <1>3 DEF SoundHandler
  <2>3. \A s \in Settings :
          after.managementConfig[s] = IF s \in E THEN handler.stores[s] ELSE currentConfig[s]
    <3>1. E \subseteq Settings
      BY DEF Manageable
    <3> HIDE DEF handler
    <3>2. \A s \in Settings : (handler.stores ++ currentConfig)[s] =
                              IF s \in E THEN handler.stores[s] ELSE currentConfig[s]
      BY <3>1, <2>1, <1>5 DEF ++
    <3> QED BY <3>2, <1>8
  <2>4. Changed(after.managementConfig) \subseteq E
    BY <2>3 DEF Changed
  <2>5. \A s \in Members :
          after.dataSets[s] \in {rtOpts[s], IF s \in D THEN handler.sets[s] ELSE dataSets[s]}
    <3>1. handler.sets \in [D -> WorkedWith] /\ D \subseteq Members
      BY <2>2 DEF WorkedWith
    <3> HIDE DEF handler
    <3>2. /\ handler.sets ++ dataSets \in [Members -> WorkedWith]
          /\ \A s \in Members :
               (handler.sets ++ dataSets)[s] = IF s \in D THEN handler.sets[s] ELSE dataSets[s]
      BY <3>1, <1>5 DEF ++
    <3> DEFINE merged == handler.sets ++ dataSets
    <3> HIDE DEF merged
    <3>3. \A s \in Members : toState(handled, next, merged)[s] \in {rtOpts[s], merged[s]}
      BY <3>2 DEF merged, toState, initClock
    <3> QED BY <3>2, <3>3, <1>8 DEF merged
  <2>6. CASE handler.stores = handler.sets
    <3>1. D = E
      BY <2>1, <2>2, <2>6
    <3> QED BY <3>1, <2>3, <2>4, <2>5, <2>6
  <2>7. CASE handler.sets = Nothing
    <3>1. D = {}
      BY <2>2, <2>7, NothingType
    <3> QED BY <3>1, <2>4, <2>5
  <2>8. CASE handler.stores = Nothing
    <3>1. E = {}
      BY <2>1, <2>8, NothingType
    <3> QED BY <3>1, <2>4
  <2> QED BY <2>6, <2>7, <2>8, <1>3 DEF SoundHandler
<1> QED BY <1>6, <1>7, <1>8
----------------------------------------------------------------------------
(* The inductive invariant.  A setting of the data sets or of a subsystem  *)
(* is what the options say, or its restart is still to come, or a weakness *)
(* keeps it apart; the settings of the data sets only while the port       *)
(* operates and is not about to be initialised.                            *)
Settled(s) == dataSets[s] = rtOpts[s] \/ s \in requested \cup excused

RequestsStand == \A s \in requested : RestartFlag[s] \in restartSubsystems
OptionsStand == \A s \in Members \ {"slave_only"} : rtOpts[s] = currentConfig[s]
SubsystemsSettled == \A s \in Subsystems : Settled(s)
DataSetsSettled ==
  portState \in Operating /\ ~(phase = "restart" /\ Initialising) =>
    \A s \in Compared \cap DataSetMembers : Settled(s)

IInv == TypeOK /\ RequestsStand /\ OptionsStand /\ SubsystemsSettled /\ DataSetsSettled

ConfigTypes ==
  /\ currentConfig \in [Settings -> {Default, Other}]
  /\ rtOpts \in [Settings -> {Default, Other}]
  /\ restartSubsystems \subseteq AllFlags
  /\ rescaled \in BOOLEAN

(* A configuration that parses well holds no value out of range, and       *)
(* neither do its options; but for slave-only mode they are its settings.  *)
LEMMA Parsed ==
  ASSUME NEW config \in [Settings -> Values], ParsesWell(config)
  PROVE  /\ config \in [Settings -> {Default, Other}]
         /\ ParsedOptions(config) \in [Settings -> {Default, Other}]
         /\ \A s \in Members \ {"slave_only"} : ParsedOptions(config)[s] = config[s]
<1>1. \A s \in Settings : config[s] \in {Default, Other}
  BY DEF ParsesWell, Values
<1>2. config \in [Settings -> {Default, Other}]
  BY <1>1
<1>3. Members \subseteq Settings
  BY MemberFacts
<1> QED BY <1>2, <1>3 DEF ParsedOptions

(* applyConfig() keeps the options what the configuration says. It changes *)
(* an option of the data sets or of a subsystem only by a commit, with the *)
(* flag of its restart set.                                                *)
LEMMA ApplyStep ==
  ASSUME ConfigTypes, OptionsStand, NEW config \in [Settings -> Values], applyConfig(config)
  PROVE  /\ ConfigTypes' /\ OptionsStand'
         /\ \/ UNCHANGED configVars
            \/ /\ ~(Changed(config) \subseteq Manageable)
               /\ \A s \in Members : rtOpts'[s] = rtOpts[s]
            \/ /\ Changed(config) # {}
               /\ \A s \in Members \ {"slave_only"} :
                    /\ rtOpts'[s] = config[s]
                    /\ rtOpts'[s] # rtOpts[s] => RestartFlag[s] \in restartSubsystems'
<1> Members \subseteq Settings /\ "backup_interface" \notin Members
  BY MemberFacts
<1>1. CASE Rejected(config) \/ Unchanged(config)
  BY <1>1 DEF Rejected, Unchanged, configVars, ConfigTypes, OptionsStand
<1>2. CASE Aborted(config)
  <2>1. PICK s \in Changed(config) : RestartFlag[s] \in {"NETWORK", "CPUAFFINITY"}
    BY <1>2 DEF Aborted, SubsystemRestart
  <2>2. s \notin Manageable
    BY <2>1 DEF Manageable
  <2>3. rtOpts' \in [Settings -> {Default, Other}] /\ \A x \in Members : rtOpts'[x] = rtOpts[x]
    BY <1>2 DEF Aborted, OptionsAfterCheck, ConfigTypes
  <2>4. /\ currentConfig' = currentConfig /\ restartSubsystems' = {} /\ rescaled' = TRUE
    BY <1>2 DEF Aborted
  <2>5. ConfigTypes' /\ OptionsStand'
    BY <2>3, <2>4 DEF ConfigTypes, OptionsStand
  <2> QED BY <2>1, <2>2, <2>3, <2>5
<1>3. CASE Committed(config)
  <2>1. /\ currentConfig' = config /\ rtOpts' = ParsedOptions(config) /\ rescaled' = FALSE
        /\ ParsesWell(config) /\ Changed(config) # {}
        /\ restartSubsystems' \in {SubsystemRestart(config), AllFlags}
    BY <1>3 DEF Committed
  <2>2. SubsystemRestart(config) \subseteq AllFlags
    BY DEF SubsystemRestart, Changed, AllFlags
  <2>3. ConfigTypes'
    BY <2>1, <2>2, Parsed DEF ConfigTypes
  <2>4. OptionsStand'
    BY <2>1, Parsed DEF OptionsStand
  <2>5. ASSUME NEW s \in Members \ {"slave_only"}, rtOpts'[s] # rtOpts[s]
        PROVE  RestartFlag[s] \in restartSubsystems'
    <3>1. s \in Changed(config)
      BY <2>1, <2>5, Parsed DEF OptionsStand, Changed
    <3>2. RestartFlag[s] \in SubsystemRestart(config)
      BY <3>1 DEF SubsystemRestart
    <3> QED BY <3>2, <2>1, <2>2
  <2>6. \A s \in Members \ {"slave_only"} : rtOpts'[s] = config[s]
    BY <2>1, Parsed
  <2> QED BY <2>1, <2>3, <2>4, <2>5, <2>6
<1> QED BY <1>1, <1>2, <1>3 DEF applyConfig

(* What a request for restarts keeps, and what it lets go of.              *)
LEMMA RequestStep ==
  ASSUME ConfigTypes, OptionsStand, RequestsStand, requested \subseteq Members,
         \/ UNCHANGED configVars
         \/ \E config \in [Settings -> Values] : applyConfig(config),
         Request
  PROVE  /\ ConfigTypes' /\ OptionsStand' /\ RequestsStand' /\ requested' \subseteq Members
         /\ \A s \in Members \ {"slave_only"} : rtOpts'[s] # rtOpts[s] => s \in requested'
<1>1. CASE UNCHANGED configVars
  BY <1>1 DEF Request, configVars, ConfigTypes, OptionsStand, RequestsStand
<1>2. ASSUME ~ UNCHANGED configVars, NEW config \in [Settings -> Values], applyConfig(config)
      PROVE  /\ ConfigTypes' /\ OptionsStand' /\ RequestsStand' /\ requested' \subseteq Members
             /\ \A s \in Members \ {"slave_only"} : rtOpts'[s] # rtOpts[s] => s \in requested'
  <2>1. requested' = {s \in requested \cup NewOptions : RestartFlag[s] \in restartSubsystems'}
    BY <1>2 DEF Request
  <2>2. ConfigTypes' /\ OptionsStand'
    BY <1>2, ApplyStep
  <2>3. \A s \in Members \ {"slave_only"} :
          rtOpts'[s] # rtOpts[s] => RestartFlag[s] \in restartSubsystems'
    BY <1>2, ApplyStep
  <2> QED BY <2>1, <2>2, <2>3 DEF NewOptions, RequestsStand
<1> QED BY <1>1, <1>2

(* A setting stays settled when what is let go of is excused.              *)
LEMMA SettledStep ==
  ASSUME NEW X, Excuse(X), requested \ requested' \subseteq X,
         NEW s \in Members \ {"slave_only"}, Settled(s),
         rtOpts'[s] # rtOpts[s] => s \in requested',
         dataSets'[s] \in {dataSets[s], rtOpts[s], rtOpts'[s]} \/ s \in X
  PROVE  Settled(s)'
BY DEF Settled, Excuse

(* What it is to take settings from the options.                           *)
LEMMA TakeType ==
  ASSUME TypeOK, NEW S
  PROVE  /\ Take(S) \in [Members -> WorkedWith]
         /\ \A s \in Members : Take(S)[s] = IF s \in S THEN rtOpts[s] ELSE dataSets[s]
<1> Members \subseteq Settings
  BY MemberFacts
<1> QED BY DEF TypeOK, Take, WorkedWith, Values

(* At the start of the program nothing operates, and the subsystems have   *)
(* their options.                                                          *)
LEMMA InitInv == Init => IInv
<1> SUFFICES ASSUME NEW config \in Files, ParsesWell(config),
                    currentConfig = config, rtOpts = ParsedOptions(config),
                    restartSubsystems = {}, rescaled = FALSE,
                    portState = IF config.disabled = Other THEN "DISABLED" ELSE "INITIALIZING",
                    dataSets = [s \in Members |-> IF s \in TimeProperties THEN Default
                                                  ELSE rtOpts[s]],
                    phase = "work", configFile = config, sighup_received = FALSE, changes = 0,
                    requested = {}, excused = {}
             PROVE  IInv
  BY DEF Init
<1>1. config \in [Settings -> Values]
  BY FilesAssumption
<1>2. ConfigTypes /\ OptionsStand
  BY <1>1, Parsed DEF ConfigTypes, OptionsStand
<1>3. dataSets \in [Members -> WorkedWith]
  BY <1>2, MemberFacts DEF ConfigTypes, WorkedWith, Values
<1>4. portState \in States
  BY DEF States
<1>5. TypeOK
  <2>1. changes \in 0..MAX_CHANGES
    BY ChangesAssumption
  <2>2. dataSets \in [Members -> Values \cup {Heard} \cup {FromPriority(v) : v \in Values}]
    BY Zenon, <1>3 DEF WorkedWith
  <2>3. requested \subseteq Members /\ excused \subseteq Members
    OBVIOUS
  <2>4. phase \in {"work", "restart", "signals"} /\ configFile \in Files
        /\ sighup_received \in BOOLEAN
    OBVIOUS
  <2> QED BY Zenon, <1>2, <1>4, <2>1, <2>2, <2>3, <2>4 DEF TypeOK, ConfigTypes
<1>6. RequestsStand
  BY DEF RequestsStand
<1>7. \A s \in Subsystems : Settled(s)
  <2>1. TimeProperties \cap Subsystems = {}
    BY MemberFacts DEF MasterUpdates
  <2> QED BY <2>1 DEF Settled, Members
<1>8. portState \notin Operating
  BY DEF Operating
<1> QED BY <1>2, <1>5, <1>6, <1>7, <1>8 DEF IInv, SubsystemsSettled, DataSetsSettled

(* The parts of the invariant the configuration needs.                     *)
LEMMA IInvParts ==
  ASSUME IInv
  PROVE  TypeOK /\ RequestsStand /\ OptionsStand /\ ConfigTypes
BY DEF IInv, TypeOK, ConfigTypes

(* A pass without a message leaves every setting alone and makes no port   *)
(* operate.                                                                *)
LEMMA DoStateStep == ASSUME IInv, doState PROVE IInv'
<1>1. /\ UNCHANGED <<configVars, dataSets, configFile, sighup_received, changes, requested,
                     excused>>
      /\ phase = "work" /\ phase' = "restart"
  BY DEF doState
<1>2. portState' \in States /\ (portState' \in Operating => portState' = portState)
  BY DEF doState, BeforeWork, IfDisabled, IInv, TypeOK, States, Operating
<1>3. TypeOK'
  BY <1>1, <1>2 DEF IInv, TypeOK, configVars
<1>4. RequestsStand' /\ OptionsStand' /\ SubsystemsSettled'
  BY <1>1 DEF IInv, RequestsStand, OptionsStand, SubsystemsSettled, Settled, configVars
<1>5. DataSetsSettled'
  BY <1>1, <1>2 DEF IInv, DataSetsSettled, Settled, configVars, Compared
<1> QED BY <1>3, <1>4, <1>5 DEF IInv

(* SIGHUP changes the file only.                                           *)
LEMMA SighupStep == ASSUME IInv, NEW file \in Files, SIGHUP(file) PROVE IInv'
<1>1. /\ UNCHANGED <<configVars, portState, dataSets, phase, requested, excused>>
      /\ configFile' = file /\ sighup_received' = TRUE
      /\ changes < MAX_CHANGES /\ changes' = changes + 1
  BY DEF SIGHUP
<1>2. TypeOK'
  BY <1>1, ChangesAssumption DEF IInv, TypeOK, configVars
<1>3. RequestsStand' /\ OptionsStand' /\ SubsystemsSettled' /\ DataSetsSettled'
  BY <1>1 DEF IInv, RequestsStand, OptionsStand, SubsystemsSettled, DataSetsSettled, Settled,
       configVars, Compared, Initialising
<1> QED BY <1>2, <1>3 DEF IInv

(* The initialisation gives the port its options, but for the time         *)
(* properties, which a port that listens is not compared on.               *)
LEMMA DoInitStep == ASSUME IInv, doInit PROVE IInv'
<1>1. /\ UNCHANGED <<configVars, configFile, sighup_received, changes, requested>>
      /\ phase' = "restart"
      /\ portState' = IfDisabled("LISTENING", initData.disabled)
      /\ dataSets' = [initData EXCEPT !.timing_acl = rtOpts.timing_acl]
      /\ Excuse({})
  BY DEF doInit
<1>2. /\ initData \in [Members -> WorkedWith]
      /\ \A s \in Members : initData[s] \in {rtOpts[s], dataSets[s]}
      /\ \A s \in DataSetMembers \ ({"slave_only"} \cup TimeProperties) : initData[s] = rtOpts[s]
  <2> DEFINE S == (IF rtOpts.slave_only = Other THEN DataSetMembers
                   ELSE DataSetMembers \ {"slave_only"}) \ TimeProperties
  <2>1. Take(S) \in [Members -> WorkedWith]
    BY TakeType DEF IInv
  <2>2. \A s \in Members : Take(S)[s] = IF s \in S THEN rtOpts[s] ELSE dataSets[s]
    BY TakeType DEF IInv
  <2>3. initData = Take(S)
    BY DEF initData
  <2>4. \A s \in DataSetMembers \ ({"slave_only"} \cup TimeProperties) : s \in S /\ s \in Members
    BY DEF Members
  <2> HIDE DEF S
  <2> QED BY <2>1, <2>2, <2>3, <2>4
<1>3. rtOpts.timing_acl \in WorkedWith
  BY MemberFacts DEF IInv, TypeOK, WorkedWith, Values
<1>4. /\ dataSets' \in [Members -> WorkedWith]
      /\ \A s \in Members : dataSets'[s] \in {rtOpts[s], dataSets[s]}
      /\ \A s \in DataSetMembers \ ({"slave_only"} \cup TimeProperties) : dataSets'[s] = rtOpts[s]
  BY <1>1, <1>2, <1>3 DEF Members
<1>5. portState' \in {"LISTENING", "DISABLED"}
  BY <1>1 DEF IfDisabled
<1>6. TypeOK'
  BY <1>1, <1>4, <1>5 DEF IInv, TypeOK, configVars, WorkedWith, States, Operating, Excuse
<1>7. RequestsStand' /\ OptionsStand'
  BY <1>1 DEF IInv, RequestsStand, OptionsStand, configVars
<1>8. SubsystemsSettled'
  <2>1. \A s \in Subsystems : s \in Members /\ s # "slave_only"
    BY MemberFacts DEF Members
  <2> QED BY <2>1, <1>1, <1>4, SettledStep DEF IInv, SubsystemsSettled, configVars
<1>9. DataSetsSettled'
  BY <1>1, <1>4, <1>5 DEF DataSetsSettled, Compared, Settled, configVars
<1> QED BY <1>6, <1>7, <1>8, <1>9 DEF IInv

(* A decision on a state takes settings from the options or, excused, from *)
(* the master heard; a port that becomes master takes its time properties. *)
LEMMA DecideStep == ASSUME IInv, NEW state \in Operating, Decide(state) PROVE IInv'
<1> DEFINE X == HeardIn(state)
           decided == [s \in Members |-> IF s \in X THEN Heard ELSE Take(TakenIn(state))[s]]
<1>1. /\ UNCHANGED <<configVars, phase, configFile, sighup_received, changes, requested>>
      /\ phase = "work" /\ portState \in Operating
      /\ dataSets' = toState(portState, state, decided)
      /\ portState' = IfDisabled(state, dataSets'.disabled)
      /\ Excuse(X)
  BY DEF Decide
<1>2. /\ decided \in [Members -> WorkedWith]
      /\ \A s \in Members \ X : decided[s] \in {rtOpts[s], dataSets[s]}
      /\ \A s \in TakenIn(state) \ X : s \in Members => decided[s] = rtOpts[s]
  <2>1. Take(TakenIn(state)) \in [Members -> WorkedWith] /\ Heard \in WorkedWith
    BY TakeType DEF IInv, WorkedWith
  <2>2. \A s \in Members :
          Take(TakenIn(state))[s] = IF s \in TakenIn(state) THEN rtOpts[s] ELSE dataSets[s]
    BY TakeType DEF IInv
  <2> HIDE DEF X
  <2> QED BY <2>1, <2>2
<1>3. rtOpts.disabled \in WorkedWith
  BY MemberFacts DEF IInv, TypeOK, WorkedWith, Values, Members
<1> HIDE DEF X, decided
<1>4. /\ dataSets' \in [Members -> WorkedWith]
      /\ \A s \in Members \ X : dataSets'[s] \in {rtOpts[s], dataSets[s]}
      /\ \A s \in TakenIn(state) \ X : s \in Members => dataSets'[s] = rtOpts[s]
  BY <1>1, <1>2, <1>3 DEF toState, initClock
<1>5. portState' \in {state, "DISABLED"}
  BY <1>1 DEF IfDisabled
<1>6. TypeOK'
  BY <1>1, <1>4, <1>5 DEF IInv, TypeOK, configVars, WorkedWith, States, Excuse
<1>7. RequestsStand' /\ OptionsStand'
  BY <1>1 DEF IInv, RequestsStand, OptionsStand, configVars
<1>8. \A s \in Members \ {"slave_only"} : Settled(s) => Settled(s)'
  BY <1>1, <1>4, SettledStep DEF configVars
<1>9. SubsystemsSettled'
  <2>1. \A s \in Subsystems : s \in Members /\ s # "slave_only"
    BY MemberFacts DEF Members
  <2> QED BY <2>1, <1>8 DEF IInv, SubsystemsSettled
<1>10. DataSetsSettled'
  <2> SUFFICES ASSUME portState' \in Operating,
                      NEW s \in (Compared \cap DataSetMembers)'
               PROVE  Settled(s)'
    BY DEF DataSetsSettled
  <2>1. portState' = state
    BY <1>5 DEF Operating
  <2>2. s \in Members \ {"slave_only"} /\ s \in DataSetMembers
    BY DEF Compared
  <2>3. CASE s \in TimeProperties
    <3>1. state = "MASTER"
      BY <2>1, <2>3 DEF Compared
    <3>2. TakenIn(state) = TimeProperties /\ X = {}
      BY <3>1 DEF TakenIn, HeardIn, X
    <3> QED BY <3>2, <2>2, <2>3, <1>1, <1>4 DEF Settled, configVars
  <2>4. CASE s \notin TimeProperties
    <3>1. s \in Compared
      BY <2>2, <2>4 DEF Compared
    <3>2. Settled(s)
      BY <3>1, <2>2, <1>1 DEF IInv, DataSetsSettled
    <3> QED BY <3>2, <2>2, <1>8
  <2> QED BY <2>3, <2>4
<1> QED BY <1>6, <1>7, <1>9, <1>10 DEF IInv

(* A step of the clock takes the option that disables the port.            *)
LEMMA StepClockStep == ASSUME IInv, stepClock PROVE IInv'
<1>1. /\ UNCHANGED <<configVars, phase, configFile, sighup_received, changes, requested>>
      /\ dataSets' = initClock(dataSets)
      /\ portState' = IfDisabled("FAULTY", dataSets'.disabled)
      /\ Excuse({})
  BY DEF stepClock
<1>2. rtOpts.disabled \in WorkedWith
  BY MemberFacts DEF IInv, TypeOK, WorkedWith, Values, Members
<1>3. /\ dataSets' \in [Members -> WorkedWith]
      /\ \A s \in Members : dataSets'[s] \in {rtOpts[s], dataSets[s]}
  BY <1>1, <1>2 DEF IInv, TypeOK, WorkedWith, initClock
<1>4. portState' \in {"FAULTY", "DISABLED"}
  BY <1>1 DEF IfDisabled
<1>5. TypeOK'
  BY <1>1, <1>3, <1>4 DEF IInv, TypeOK, configVars, WorkedWith, States, Excuse
<1>6. RequestsStand' /\ OptionsStand'
  BY <1>1 DEF IInv, RequestsStand, OptionsStand, configVars
<1>7. SubsystemsSettled'
  <2>1. \A s \in Subsystems : s \in Members /\ s # "slave_only"
    BY MemberFacts DEF Members
  <2> QED BY <2>1, <1>1, <1>3, SettledStep DEF IInv, SubsystemsSettled, configVars
<1>8. DataSetsSettled'
  BY <1>4 DEF DataSetsSettled, Operating
<1> QED BY <1>5, <1>6, <1>7, <1>8 DEF IInv

(* A reload changes options only along with their requests.                *)
LEMMA CheckSignalsStep == ASSUME IInv, checkSignals PROVE IInv'
<1>1. /\ UNCHANGED <<portState, dataSets, configFile, changes>>
      /\ phase = "signals" /\ phase' = "work" /\ sighup_received' = FALSE
      /\ Request /\ Excuse(requested \ requested')
      /\ UNCHANGED configVars \/ applyConfig(configFile)
  BY DEF checkSignals
<1>2. configFile \in [Settings -> Values]
  BY FilesAssumption DEF IInv, TypeOK
<1>3. /\ ConfigTypes' /\ OptionsStand' /\ RequestsStand' /\ requested' \subseteq Members
      /\ \A s \in Members \ {"slave_only"} : rtOpts'[s] # rtOpts[s] => s \in requested'
  <2>1. UNCHANGED configVars \/ \E config \in [Settings -> Values] : applyConfig(config)
    BY <1>1, <1>2
  <2>2. requested \subseteq Members
    BY DEF IInv, TypeOK
  <2> QED BY <2>1, <2>2, <1>1, IInvParts, RequestStep
<1>4. TypeOK'
  BY <1>1, <1>3 DEF IInv, TypeOK, ConfigTypes, Excuse
<1>5. \A s \in Members \ {"slave_only"} : Settled(s) => Settled(s)'
  BY <1>1, <1>3, SettledStep
<1>6. SubsystemsSettled'
  <2>1. \A s \in Subsystems : s \in Members /\ s # "slave_only"
    BY MemberFacts DEF Members
  <2> QED BY <2>1, <1>5 DEF IInv, SubsystemsSettled
<1>7. DataSetsSettled'
  <2> SUFFICES ASSUME portState \in Operating, NEW s \in Compared \cap DataSetMembers
               PROVE  Settled(s)'
    BY <1>1 DEF DataSetsSettled, Compared
  <2>1. Settled(s)
    BY <1>1 DEF IInv, DataSetsSettled
  <2> QED BY <2>1, <1>5 DEF Compared
<1> QED BY <1>3, <1>4, <1>6, <1>7 DEF IInv

(* An acknowledged request leaves no flag, or all of them.                 *)
LEMMA TakenBack ==
  /\ Acknowledged \subseteq AllFlags
  /\ restartSubsystems = {} => Acknowledged = {}
BY DEF Acknowledged, AllFlags

(* restartSubsystems() takes every setting whose restart was asked for, or *)
(* excuses it; a new initialisation leaves no port operating.              *)
LEMMA RestartStep == ASSUME IInv, RestartSubsystems PROVE IInv'
<1>1. /\ phase = "restart" /\ phase' = "signals" /\ restartSubsystems' = Acknowledged
      /\ UNCHANGED <<currentConfig, rtOpts, rescaled, configFile, sighup_received, changes>>
  BY DEF RestartSubsystems
<1>2. \A s \in Subsystems : s \in Members /\ s # "slave_only"
  BY MemberFacts DEF Members
<1>3. ASSUME NEW X, Excuse(X), requested' = {}, dataSets' \in [Members -> WorkedWith],
             \A s \in Members : dataSets'[s] \in {rtOpts[s], dataSets[s]} \/ s \in X,
             portState' \in States,
             \A s \in Subsystems : s \in requested => dataSets'[s] = rtOpts[s] \/ s \in X
      PROVE  TypeOK' /\ RequestsStand' /\ OptionsStand' /\ SubsystemsSettled'
  <2>1. TypeOK'
    BY <1>1, <1>3, TakenBack DEF IInv, TypeOK, WorkedWith, Excuse
  <2>2. RequestsStand' /\ OptionsStand'
    BY <1>1, <1>3 DEF IInv, RequestsStand, OptionsStand
  <2>3. ASSUME NEW s \in Subsystems PROVE Settled(s)'
    <3>1. Settled(s)
      BY DEF IInv, SubsystemsSettled
    <3> QED BY <3>1, <1>1, <1>2, <1>3 DEF Settled, Excuse
  <2> QED BY <2>1, <2>2, <2>3 DEF SubsystemsSettled
(* Of the settings whose restart was asked for, those of the subsystems    *)
(* are taken or are the thresholds of filters.                             *)
<1>4. \A s \in Subsystems : s \in requested => s \in Restarted \cup Thresholds
  <2> SUFFICES ASSUME NEW s \in Subsystems, s \in requested PROVE s \in Restarted \cup Thresholds
    OBVIOUS
  <2>1. RestartFlag[s] \in restartSubsystems
    BY DEF IInv, RequestsStand
  <2>2. s \notin DataSetMembers /\ s \notin MasterUpdates /\ s # "log_peer_delayreq_interval"
    BY MemberFacts DEF MasterUpdates
  <2>3. \/ s \in Services \/ s \in Thresholds
        \/ s \in Filters /\ RestartFlag[s] = "FILTERS"
        \/ s = "timing_acl" /\ RestartFlag[s] = "ACLS"
        \/ s = "alarms" /\ RestartFlag[s] = "ALARMS"
    BY <1>2, <2>2, MemberFlags
  <2> QED BY <2>1, <2>3 DEF Restarted
<1>5. CASE Reinitialise
  <2> DEFINE S == Restarted \cup {"slave_only", "clock_class", "disabled"}
  <2>1. /\ dataSets' = Take(S) /\ requested' = {} /\ Excuse(Thresholds)
        /\ portState' \in {"DISABLED", "INITIALIZING"}
    BY <1>5 DEF Reinitialise
  <2>2. /\ Take(S) \in [Members -> WorkedWith]
        /\ \A s \in Members : Take(S)[s] = IF s \in S THEN rtOpts[s] ELSE dataSets[s]
    BY TakeType DEF IInv
  <2>3. \A s \in Subsystems : s \in requested => dataSets'[s] = rtOpts[s] \/ s \in Thresholds
    BY <1>2, <1>4, <2>1, <2>2
  <2>4. TypeOK' /\ RequestsStand' /\ OptionsStand' /\ SubsystemsSettled'
    <3>1. portState' \in States
      BY <2>1 DEF States
    <3>2. \A s \in Members : dataSets'[s] \in {rtOpts[s], dataSets[s]}
      BY <2>1, <2>2
    <3> HIDE DEF S
    <3> QED BY <1>3, <2>1, <2>2, <2>3, <3>1, <3>2
  <2>5. DataSetsSettled'
    BY <2>1 DEF DataSetsSettled, Operating
  <2> QED BY <2>4, <2>5 DEF IInv
<1>6. CASE Update
  <2> DEFINE S == Restarted \cup (IF "UPDATE" \in restartSubsystems THEN Updates ELSE {})
             X == (requested \cap (NotUpdated \cup Thresholds))
                    \cup (IF portState = "MASTER" THEN {"ptp_clock_accuracy"} ELSE {})
  <2>1. requested' = {} /\ portState' = portState /\ Excuse(X) /\ ~Initialising
    BY <1>6 DEF Update
  <2>2. /\ dataSets' \in [Members -> WorkedWith]
        /\ \A s \in Members : \/ dataSets'[s] = IF s \in S THEN rtOpts[s] ELSE dataSets[s]
                              \/ s \in X
    <3>1. /\ Take(Restarted) \in [Members -> WorkedWith]
          /\ \A s \in Members :
               Take(Restarted)[s] = IF s \in Restarted THEN rtOpts[s] ELSE dataSets[s]
      BY TakeType DEF IInv
    <3>2. /\ Take(Updates \cup Restarted) \in [Members -> WorkedWith]
          /\ \A s \in Members : Take(Updates \cup Restarted)[s] =
               IF s \in Updates \cup Restarted THEN rtOpts[s] ELSE dataSets[s]
      BY TakeType DEF IInv
    <3>3. FromPriority(rtOpts.priority1) \in WorkedWith
      <4>1. rtOpts.priority1 \in Values
        BY Flags DEF IInv, TypeOK, Values, ClockSettings
      <4> QED BY <4>1 DEF WorkedWith
    <3>4. CASE "UPDATE" \notin restartSubsystems
      <4>1. dataSets' = Take(Restarted) /\ S = Restarted
        BY <1>6, <3>4 DEF Update
      <4> QED BY <3>1, <4>1
    <3>5. CASE "UPDATE" \in restartSubsystems /\ portState # "MASTER"
      <4>1. dataSets' = Take(Updates \cup Restarted) /\ S = Updates \cup Restarted
        BY <1>6, <3>5 DEF Update, updateDatasets
      <4> QED BY <3>2, <4>1
    <3>6. CASE "UPDATE" \in restartSubsystems /\ portState = "MASTER"
      <4>1. /\ dataSets' = [Take(Updates \cup Restarted) EXCEPT !.ptp_clock_accuracy =
                              FromPriority(rtOpts.priority1)]
            /\ S = Updates \cup Restarted
        BY <1>6, <3>6 DEF Update, updateDatasets
      <4>2. "ptp_clock_accuracy" \in X
        BY <3>6
      <4> HIDE DEF S, X
      <4> QED BY <3>2, <3>3, <4>1, <4>2
    <3> QED BY <3>4, <3>5, <3>6
  <2>3. \A s \in Members \ {"slave_only"} : s \in requested => s \in S \cup X
    <3> SUFFICES ASSUME NEW s \in Members \ {"slave_only"}, s \in requested, s \notin X
                 PROVE  s \in S
      OBVIOUS
    <3>1. RestartFlag[s] \in restartSubsystems
      BY DEF IInv, RequestsStand
    <3>2. RestartFlag[s] \notin {"PROTOCOL", "NETWORK"}
      BY <2>1, <3>1 DEF Initialising
    <3>3. s \notin NotUpdated /\ s \notin Thresholds
      OBVIOUS
    <3>4. s # "log_peer_delayreq_interval"
      BY <3>3 DEF NotUpdated, MasterUpdates, SlaveUpdates
    <3>5. CASE s \in MasterUpdates /\ RestartFlag[s] = "UPDATE"
      <4>1. s \in Updates
        BY <3>3, <3>5 DEF NotUpdated, Updates, SlaveUpdates
      <4> QED BY <4>1, <3>1, <3>5
    <3>6. CASE s \in Subsystems
      BY <1>4, <3>3, <3>6
    <3> QED BY <3>2, <3>3, <3>4, <3>5, <3>6, MemberFlags DEF Subsystems
  <2> HIDE DEF S, X
  <2>4. \A s \in Subsystems : s \in requested => dataSets'[s] = rtOpts[s] \/ s \in X
    BY <1>2, <2>2, <2>3
  <2>5. TypeOK' /\ RequestsStand' /\ OptionsStand' /\ SubsystemsSettled'
    <3>1. portState' \in States
      BY <2>1 DEF IInv, TypeOK
    <3>2. \A s \in Members : dataSets'[s] \in {rtOpts[s], dataSets[s]} \/ s \in X
      BY <2>2
    <3> QED BY <1>3, <2>1, <2>2, <2>4, <3>1, <3>2
  <2>6. DataSetsSettled'
    <3> SUFFICES ASSUME portState \in Operating, NEW s \in Compared \cap DataSetMembers
                 PROVE  Settled(s)'
      BY <2>1 DEF DataSetsSettled, Compared
    <3>1. Settled(s)
      BY <2>1 DEF IInv, DataSetsSettled
    <3>2. s \in Members \ {"slave_only"}
      BY DEF Compared
    <3> QED BY <3>1, <3>2, <1>1, <2>1, <2>2, <2>3 DEF Settled, Excuse
  <2> QED BY <2>5, <2>6 DEF IInv
<1>7. CASE NoRestart
  <2>1. /\ UNCHANGED <<dataSets, portState, requested, excused>>
        /\ restartSubsystems = {} /\ restartSubsystems' = {}
    BY <1>1, <1>7, TakenBack DEF NoRestart
  <2>2. TypeOK'
    BY <1>1, <2>1 DEF IInv, TypeOK
  <2>3. RequestsStand' /\ OptionsStand' /\ SubsystemsSettled'
    BY <1>1, <2>1 DEF IInv, RequestsStand, OptionsStand, SubsystemsSettled, Settled
  <2>4. DataSetsSettled'
    BY <1>1, <2>1 DEF IInv, DataSetsSettled, Compared, Settled, Initialising
  <2> QED BY <2>2, <2>3, <2>4 DEF IInv
<1> QED BY <1>5, <1>6, <1>7 DEF RestartSubsystems

(* A management message: a setting it sets without its option is excused,  *)
(* one it sets and stores is what the option becomes, and one whose option *)
(* it changes has its restart still to come.                               *)
LEMMA ManagementStep ==
  ASSUME IInv, NEW message \in Messages, NEW sent \in BOOLEAN, handleManagement(message, sent)
  PROVE  IInv'
<1> DEFINE after == AfterTLVs(message, sent)
           config == after.managementConfig
           listens == BeforeWork = "DISABLED" /\ portState' = "LISTENING" /\ ~Initialising'
           X == (requested \ requested') \cup
                (IF rtOpts' = rtOpts \/ Len(message.tlvs) > 1 THEN SetDirectly ELSE {}) \cup
                (IF listens THEN DataSetMembers ELSE {})
<1>1. /\ phase = "work" /\ phase' = "restart"
      /\ changes < MAX_CHANGES /\ changes' = changes + 1
      /\ BeforeWork \in Operating \cup {"DISABLED"}
      /\ dataSets' = after.dataSets
      /\ portState' =
           IfDisabled(IF BeforeWork = "DISABLED" /\ after.dataSets.disabled = Default
                        THEN "LISTENING" ELSE after.portState,
                      after.dataSets.disabled)
      /\ UNCHANGED <<configFile, sighup_received>>
      /\ Request /\ Excuse(X)
  BY DEF handleManagement
<1>2. IF config = NoConfig THEN UNCHANGED configVars ELSE applyConfig(config)
  BY DEF handleManagement
<1>3. after \in MessageStates
  BY AfterType, IInvParts
<1>4. /\ after.dataSets \in [Members -> WorkedWith]
      /\ config \in {NoConfig} \cup [Settings -> Values]
      /\ after.portState \in {portState, "FAULTY", "INITIALIZING"}
  BY <1>3 DEF MessageStates
<1>5. /\ message.tlvs \in Seq(TLVs) /\ Len(message.tlvs) \in Nat
  BY MessagesAssumption
<1>6. /\ ConfigTypes' /\ OptionsStand' /\ RequestsStand' /\ requested' \subseteq Members
      /\ \A s \in Members \ {"slave_only"} : rtOpts'[s] # rtOpts[s] => s \in requested'
  <2>1. UNCHANGED configVars \/ \E c \in [Settings -> Values] : applyConfig(c)
    <3> HIDE DEF config
    <3> QED BY <1>2, <1>4
  <2>2. requested \subseteq Members
    BY DEF IInv, TypeOK
  <2> QED BY <2>1, <2>2, <1>1, IInvParts, RequestStep
<1>7. TypeOK'
  <2>1. portState' \in States
    <3> HIDE DEF after
    <3> QED BY <1>1, <1>4 DEF IInv, TypeOK, IfDisabled, States, Operating
  <2>2. dataSets' \in [Members -> WorkedWith]
    BY <1>1, <1>4
  <2>3. excused' \subseteq Members
    BY <1>1 DEF Excuse
  <2>4. changes' \in 0..MAX_CHANGES
    BY <1>1, ChangesAssumption DEF IInv, TypeOK
  <2> HIDE DEF after, X
  <2> QED BY <1>1, <1>6, <2>1, <2>2, <2>3, <2>4 DEF IInv, TypeOK, ConfigTypes, WorkedWith
(* A message of one TLV that changes options has set what it stored.       *)
<1>8. ASSUME NEW s \in Members \ {"slave_only"}
      PROVE  dataSets'[s] \in {dataSets[s], rtOpts[s], rtOpts'[s]} \/ s \in X
  <2>1. CASE rtOpts' = rtOpts \/ Len(message.tlvs) > 1
    BY <2>1 DEF SetDirectly
  <2>2. CASE rtOpts' # rtOpts /\ Len(message.tlvs) <= 1
    <3>1. config # NoConfig /\ applyConfig(config)
      BY <1>2, <2>2 DEF configVars
    <3>2. config \in [Settings -> Values]
      BY <1>4, <3>1
    <3>3. BeforeTLVs.managementConfig = NoConfig
      BY DEF BeforeTLVs
    <3>4. /\ after = IF Accepted(message) THEN After(message, sent)[Len(message.tlvs)]
                     ELSE BeforeTLVs
          /\ After(message, sent)[0] = BeforeTLVs
      BY <1>5, ChainOf
    <3>5. Len(message.tlvs) = 1 /\ after = After(message, sent)[1]
      <4>1. after # BeforeTLVs
        BY <3>1, <3>3
      <4>2. \A n \in Nat : n <= 1 => n = 0 \/ n = 1
        OBVIOUS
      <4> HIDE DEF after
      <4> QED BY <1>5, <2>2, <3>4, <4>1, <4>2
    <3>6. message.tlvs[1] \in TLVs
      BY <1>5, <3>5
    <3>7. after = HandleTLV(message, sent, BeforeTLVs, message.tlvs[1])
      <4>1. \A n \in 1..Len(message.tlvs) :
              After(message, sent)[n] =
                HandleTLV(message, sent, After(message, sent)[n - 1], message.tlvs[n])
        BY <1>5, ChainOf
      <4>2. After(message, sent)[1] =
              HandleTLV(message, sent, After(message, sent)[1 - 1], message.tlvs[1])
        BY <4>1, <3>5
      <4> HIDE DEF after
      <4> QED BY <4>2, <3>4, <3>5
    <3>8. /\ Changed(config) \subseteq Manageable
          /\ \/ Changed(config) = {}
             \/ \A m \in Members : after.dataSets[m] \in {dataSets[m], rtOpts[m], config[m]}
      <4> HIDE DEF after
      <4> QED BY <3>1, <3>6, <3>7, IInvParts, HandleOneTLV
    <3>9. Changed(config) # {} /\ rtOpts'[s] = config[s]
      <4> HIDE DEF config
      <4> QED BY <3>1, <3>2, <3>8, <2>2, IInvParts, ApplyStep DEF configVars
    <3> HIDE DEF after
    <3> QED BY <3>8, <3>9, <1>1
  <2> QED BY <2>1, <2>2, <1>5
<1>9. \A s \in Members \ {"slave_only"} : Settled(s) => Settled(s)'
  <2>1. requested \ requested' \subseteq X
    OBVIOUS
  <2> HIDE DEF X
  <2> QED BY <2>1, <1>1, <1>6, <1>8, SettledStep
<1>10. SubsystemsSettled'
  <2>1. \A s \in Subsystems : s \in Members /\ s # "slave_only"
    BY MemberFacts DEF Members
  <2> QED BY <2>1, <1>9 DEF IInv, SubsystemsSettled
(* A port that operated was settled; one that its message enabled either   *)
(* is to be initialised or works with what is excused.                     *)
<1>11. DataSetsSettled'
  <2> SUFFICES ASSUME portState' \in Operating, ~Initialising',
                      NEW s \in (Compared \cap DataSetMembers)'
               PROVE  Settled(s)'
    BY <1>1 DEF DataSetsSettled
  <2>1. s \in Members \ {"slave_only"} /\ s \in DataSetMembers
    BY DEF Compared
  <2>2. CASE portState \in Operating
    <3>1. portState' \in {portState, "LISTENING"}
      <4> HIDE DEF after
      <4> QED BY <1>1, <1>4 DEF IfDisabled, Operating
    <3>2. s \in Compared
      BY <3>1 DEF Compared
    <3>3. Settled(s)
      BY <3>2, <2>1, <2>2, <1>1 DEF IInv, DataSetsSettled
    <3> QED BY <3>3, <2>1, <1>9
  <2>3. CASE portState \notin Operating
    <3>1. BeforeWork = "DISABLED"
      BY <2>3, <1>1 DEF BeforeWork, IfDisabled, Operating
    <3>2. portState' = "LISTENING"
      <4> HIDE DEF after
      <4> QED BY <2>3, <1>1, <1>4 DEF IfDisabled, Operating
    <3>3. s \in X
      BY <2>1, <3>1, <3>2
    <3> QED BY <3>3, <2>1, <1>1 DEF Settled, Excuse
  <2> QED BY <2>2, <2>3
<1> QED BY <1>6, <1>7, <1>10, <1>11 DEF IInv

(* Every step of the program keeps the invariant.                          *)
LEMMA StepInv == IInv /\ [Next]_vars => IInv'
<1> SUFFICES ASSUME IInv, [Next]_vars PROVE IInv'
  OBVIOUS
<1>1. CASE Loop
  BY <1>1, DoStateStep, DoInitStep, ManagementStep, RestartStep, CheckSignalsStep DEF Loop
<1>2. CASE \E state \in Operating : Decide(state)
  BY <1>2, DecideStep
<1>3. CASE \E file \in Files : SIGHUP(file)
  BY <1>3, SighupStep
<1>5. CASE stepClock
  BY <1>5, StepClockStep
<1>4. CASE UNCHANGED vars
  <2>1. TypeOK' /\ RequestsStand' /\ OptionsStand'
    BY <1>4 DEF IInv, TypeOK, RequestsStand, OptionsStand, vars, configVars
  <2>2. SubsystemsSettled' /\ DataSetsSettled'
    BY <1>4 DEF IInv, SubsystemsSettled, DataSetsSettled, Settled, Compared, Initialising,
         vars, configVars
  <2> QED BY <2>1, <2>2 DEF IInv
<1> QED BY <1>1, <1>2, <1>3, <1>4, <1>5 DEF Next

(* Always, a setting of an operating port that is not about to be          *)
(* initialised, and of every subsystem, is what its option says, or its    *)
(* restart is still to come, or it is excused (management.c, startup.c,    *)
(* protocol.c).                                                            *)
THEOREM ManagementInvariant == Spec => []IInv
<1>1. Init => IInv
  BY InitInv
<1>2. IInv /\ [Next]_vars => IInv'
  BY StepInv
<1> QED BY <1>1, <1>2, PTL DEF Spec

(* The variables of Management keep their types: no value out of range     *)
(* reaches the options or survives applyConfig() (daemonconfig.c,          *)
(* startup.c).                                                             *)
THEOREM TypeCorrect == Spec => []TypeOK
<1>1. IInv => TypeOK
  BY DEF IInv
<1> QED BY <1>1, ManagementInvariant, PTL

(* InForce for every set of messages and files and any number of changes:  *)
(* when the restarts a change asked for are done, an operating port works  *)
(* with its options (management.c, startup.c, protocol.c).                 *)
THEOREM InForceAlways == Spec => []InForce
<1>1. IInv => InForce
  <2> SUFFICES ASSUME IInv, phase = "work", restartSubsystems = {}, portState \in Operating,
                      NEW s \in Compared
               PROVE  dataSets[s] = rtOpts[s] \/ s \in excused
    BY DEF InForce
  <2>1. requested = {}
    BY DEF IInv, RequestsStand
  <2>2. s \in Subsystems \/ s \in Compared \cap DataSetMembers
    BY DEF Compared, Members
  <2>3. Settled(s)
    BY <2>2 DEF IInv, SubsystemsSettled, DataSetsSettled
  <2> QED BY <2>1, <2>3 DEF Settled
<1> QED BY <1>1, ManagementInvariant, PTL
=============================================================================
