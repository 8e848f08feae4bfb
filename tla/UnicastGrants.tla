---------------------------- MODULE UnicastGrants ----------------------------
(***************************************************************************)
(* Unicast negotiation (signaling.c): slave-only ports that request the    *)
(* transmission of messages from their masters and renew the grants, and   *)
(* masters that grant, expire and cancel them, over a network that loses   *)
(* and reorders signaling messages.                                        *)
(*                                                                         *)
(* Every node runs refreshUnicastGrants() once a second; in a round each   *)
(* does so once, and a message is delivered or lost before the next round. *)
(***************************************************************************)
EXTENDS Integers, Sequences, FiniteSets

CONSTANTS
  Masters, Slaves,
  Rank,                       \* of a master in the best master comparison
  Configurations,
  unicastGrantDuration,
  EXPIRY,                     \* 5: a grant is renewed before its end
  GRACE,                      \* 10: a master adds to what it grants
  GRANT_KEEPALIVE_INTERVAL,
  GRANT_CANCEL_ACK_TIMEOUT,
  None

VARIABLES
  config,       \* destinations and table sizes, faults; never changes
  portState,
  table,        \* unicastGrants of each node
  index,        \* grantIndex of each node
  parentDS,     \* the master a slave has selected
  parentGrants, previousGrants,   \* their slots in the table of a slave
  everyN,
  net,          \* signaling messages in flight
  refreshed     \* the nodes whose refresh of this round is done

vars == <<config, portState, table, index, parentDS, parentGrants,
          previousGrants, everyN, net, refreshed>>
slaveVars == <<parentDS, parentGrants, previousGrants, everyN>>

Nodes == Masters \cup Slaves
Hash == config.hash            \* of a port identity in the index
Hashes == {Hash[n] : n \in Nodes}
(* A node without destinations, or that is no destination, is not there.   *)
Present == {n \in Nodes : IF n \in Slaves THEN config.destinations[n] # <<>>
              ELSE \E s \in Slaves : \E i \in 1..Len(config.destinations[s]) :
                     config.destinations[s][i] = n}
Types == config.types          \* the requestable ones
SlotsOf(n) == 1..config.size
(* unicastDestinationCount of a slave; a master uses its whole table.      *)
Count(n) == IF n \in Slaves THEN Len(config.destinations[n]) ELSE config.size

MaxTime == unicastGrantDuration + 2 * GRACE
TypeIndex == [ANNOUNCE |-> 0, SYNC |-> 1, DELAY_RESP |-> 2]

ASSUME NodesAssumption ==
  Masters \cap Slaves = {} /\ None \notin Nodes /\ IsFiniteSet(Slaves)
ASSUME TimesAssumption ==
  unicastGrantDuration \in Nat \ {0} /\ EXPIRY \in Nat /\ GRACE \in Nat
(* A grant lasts 30 seconds or more; 5 and 10 in the code.                 *)
ASSUME GraceAssumption ==
  EXPIRY >= 1 /\ GRACE >= 2 /\ unicastGrantDuration >= EXPIRY
ASSUME TablesAssumption ==
  \A c \in Configurations : c.size \in Nat /\ c.types \subseteq DOMAIN TypeIndex
(* parseUnicastConfig() stops where the table ends.                        *)
ASSUME DestinationsAssumption ==
  \A c \in Configurations : \A s \in Slaves :
    c.destinations[s] \in Seq(Masters) /\ Len(c.destinations[s]) <= c.size

NoGrant == [requested |-> FALSE, granted |-> FALSE, canceled |-> FALSE,
            cancelCount |-> 0, timeLeft |-> 0, logInterval |-> 0,
            receiving |-> FALSE]

(* initUnicastGrantTable(): a slot per destination, the rest empty.  An    *)
(* identity of all ones and one of all zeros are both None.                *)
Destination(n, i) ==
  IF n \in Slaves /\ i <= Count(n)
  THEN config.destinations[n][i] ELSE None

EmptyTable(n) ==
  [i \in SlotsOf(n) |-> [identity |-> None, address |-> Destination(n, i),
                         timeLeft |-> 0, grants |-> [t \in Types |-> NoGrant]]]
EmptyIndex == [h \in Hashes |-> 0]

Message == [kind : {"request", "grant", "deny", "cancel", "ack"},
            from : Nodes, to : Nodes, type : DOMAIN TypeIndex, interval : Nat]

Grant == [requested : BOOLEAN, granted : BOOLEAN, canceled : BOOLEAN,
          cancelCount : 0..GRANT_CANCEL_ACK_TIMEOUT, timeLeft : 0..MaxTime,
          logInterval : 0..config.maxInterval, receiving : BOOLEAN]

TypeOK ==
  /\ config \in Configurations
  /\ portState \in [Nodes -> {"LISTENING", "SLAVE", "MASTER", "PASSIVE", "DISABLED"}]
  /\ \A n \in Nodes :
       /\ table[n] \in [SlotsOf(n) -> [identity : Nodes \cup {None},
            address : Nodes \cup {None}, timeLeft : 0..MaxTime,
            grants : [Types -> Grant]]]
       /\ index[n] \in [Hashes -> {0} \cup SlotsOf(n)]
  /\ parentDS \in [Slaves -> Masters \cup {None}]
  /\ \A s \in Slaves : {parentGrants[s], previousGrants[s]} \subseteq 0..Count(s)
  /\ everyN \in [Slaves -> 0..GRANT_KEEPALIVE_INTERVAL - 1]
  /\ net \subseteq Message
  /\ refreshed \subseteq Nodes

Init ==
  /\ config \in Configurations
  /\ portState = [n \in Nodes |-> IF n \in Masters THEN "MASTER" ELSE "LISTENING"]
  /\ table = [n \in Nodes |-> EmptyTable(n)]
  /\ index = [n \in Nodes |-> EmptyIndex]
  /\ parentDS = [s \in Slaves |-> None]
  /\ parentGrants = [s \in Slaves |-> 0] /\ previousGrants = [s \in Slaves |-> 0]
  /\ everyN = [s \in Slaves |-> 0]
  /\ net = {} /\ refreshed = {}

-----------------------------------------------------------------------------
First(S) == CHOOSE i \in S : \A j \in S : i <= j
FirstOrNone(S) == IF S = {} THEN 0 ELSE First(S)

(* lookupUnicastIndex(): a hit only if the slot still has that identity.   *)
IndexHit(n, who) ==
  LET i == index[n][Hash[who]] IN i # 0 /\ table[n][i].identity = who

(* Mutant: only the identity is compared. *)
MatchingIdentity(n, who, address, count) == {i \in 1..count : table[n][i].identity = who}

Matching(n, who, address, count) ==
  {i \in 1..count : \/ table[n][i].identity = who
                    \/ address # None /\ table[n][i].address = address}
Free(n, count) == {i \in 1..count : table[n][i].timeLeft = 0}

(* findUnicastGrants(): the slot of a node, or else the first free one,    *)
(* even where nothing is to be inserted; 0 for NULL.                       *)
Find(n, who, address, count) ==
  IF IndexHit(n, who) THEN index[n][Hash[who]]
  ELSE LET matching == Matching(n, who, address, count)
       IN IF matching # {} THEN First(matching) ELSE FirstOrNone(Free(n, count))

(* With update: the slot found, or the free one taken over, becomes who's. *)
Taken(n, i, who) == [table[n][i] EXCEPT !.identity = who, !.address = who]
Indexed(n, i, who) == [index EXCEPT ![n][Hash[who]] = i]

SetGrant(slot, t, g) == [slot EXCEPT !.grants[t] = g]
Signal(kind, from, to, t, interval) ==
  [kind |-> kind, from |-> from, to |-> to, type |-> t, interval |-> interval]

-----------------------------------------------------------------------------
(* prepareSMCancelUnicastTransmission(): what cancelUnicastTransmission()  *)
(* leaves; the message goes out if the grant was there.                    *)
Min2(a, b) == IF a < b THEN a ELSE b
Cancelled(g) ==
  [g EXCEPT !.requested = FALSE, !.timeLeft = 0,
            !.canceled = g.granted \/ @,
            !.cancelCount = IF g.granted THEN Min2(@ + 1, GRANT_CANCEL_ACK_TIMEOUT) ELSE @]

(* requestUnicastTransmission(). *)
Requested(g) == [g EXCEPT !.requested = TRUE, !.timeLeft = 0, !.granted = FALSE]

Ended(g) == [g EXCEPT !.granted = FALSE, !.requested = FALSE,
                      !.cancelCount = 0, !.timeLeft = 0]

(* refreshUnicastGrants(), for one grant: it ages, and a cancellation that *)
(* nobody acknowledged is given up.  "expired" is cleared by the request   *)
(* or the cancellation that it leads to in the same call.                  *)
Expired(g) == g.granted /\ g.timeLeft <= EXPIRY
Aged(g) == IF g.granted /\ ~Expired(g) THEN [g EXCEPT !.timeLeft = @ - 1] ELSE g
GivenUp(g) ==
  IF g.canceled /\ g.cancelCount >= GRANT_CANCEL_ACK_TIMEOUT
  THEN [Ended(g) EXCEPT !.canceled = FALSE] ELSE g

(* With intervals so long that no message can be missed in time, nobody    *)
(* reads "receiving": it is not kept then, nor is the count of rounds.     *)
NextRound(s) ==
  IF config.keepalive THEN (everyN[s] + 1) % GRANT_KEEPALIVE_INTERVAL ELSE 0
KeepaliveTick(s) == config.keepalive /\ NextRound(s) = GRANT_KEEPALIVE_INTERVAL - 1
KeepaliveOf(s, g) == IF KeepaliveTick(s) THEN [g EXCEPT !.receiving = FALSE] ELSE g

(* Mutant: a request without an answer is not repeated. *)
NeedsRequestOnce(s, t, g) ==
  LET h == GivenUp(Aged(g)) IN
  \/ Expired(g)
  \/ t = "ANNOUNCE" /\ ~h.requested
  \/ KeepaliveTick(s) /\ h.granted /\ ~h.receiving /\ h.logInterval = 0

NeedsRequest(s, t, g) ==
  LET h == GivenUp(Aged(g)) IN
  \/ Expired(g)
  \/ h.requested /\ ~h.granted
  \/ t = "ANNOUNCE" /\ ~h.requested
  \/ KeepaliveTick(s) /\ h.granted /\ ~h.receiving /\ h.logInterval = 0

SlaveGrant(s, t, g) ==
  LET h == KeepaliveOf(s, GivenUp(Aged(g)))
  IN IF NeedsRequest(s, t, g) THEN Requested(h) ELSE h

(* The time left of a node is that of its first grant or of a longer one   *)
(* that is not about to expire.                                            *)
NodeTime(slot) ==
  LET granted == {t \in Types : slot.grants[t].granted}
      first == CHOOSE t \in granted : \A u \in granted : TypeIndex[t] <= TypeIndex[u]
      counted == {slot.grants[t].timeLeft : t \in granted} \cap (EXPIRY + 1)..MaxTime
      times == counted \cup {slot.grants[first].timeLeft}
  IN IF granted = {} THEN 0 ELSE CHOOSE x \in times : \A y \in times : y <= x

(* A slot whose time is up is reusable. *)
Refreshed(slot, grants) ==
  [slot EXCEPT !.grants = grants, !.timeLeft = NodeTime(slot),
               !.identity = IF NodeTime(slot) = 0 THEN None ELSE @]

Requests(n, slots, S) ==
  {Signal("request", n, slots[x[1]].address, x[2], slots[x[1]].grants[x[2]].logInterval) : x \in S}
Cancels(n, slots, S) ==
  {Signal("cancel", n, slots[x[1]].address, x[2], 0) :
     x \in {y \in S : slots[y[1]].grants[y[2]].granted}}

AgedSlots(s) ==
  [i \in SlotsOf(s) |->
     IF i <= Count(s)
     THEN Refreshed(table[s][i], [t \in Types |-> SlaveGrant(s, t, table[s][i].grants[t])])
     ELSE table[s][i]]

(* The grants of a former parent are cancelled, all but its Announce.      *)
ToCancel(s) ==
  IF previousGrants[s] = 0 THEN {} ELSE {previousGrants[s]} \X (Types \ {"ANNOUNCE"})
CancelSlots(slots, S) ==
  [i \in DOMAIN slots |-> [slots[i] EXCEPT !.grants =
     [t \in Types |-> IF <<i, t>> \in S THEN Cancelled(@[t]) ELSE @[t]]]]

(* A slave requests Sync of its parent, and Delay_Resp once it has Sync.   *)
ToRequest(s, slots) ==
  LET p == parentGrants[s] IN
  IF p = 0 \/ portState[s] # "SLAVE" \/ "SYNC" \notin Types THEN {}
  ELSE IF ~slots[p].grants["SYNC"].requested THEN {<<p, "SYNC">>}
  ELSE {<<p, t>> : t \in {u \in Types \cap {"DELAY_RESP"} :
           slots[p].grants["SYNC"].granted /\ ~slots[p].grants[u].requested}}
RequestSlots(slots, S) ==
  [i \in DOMAIN slots |-> [slots[i] EXCEPT !.grants =
     [t \in Types |-> IF <<i, t>> \in S THEN Requested(@[t]) ELSE @[t]]]]

(* refreshUnicastGrants() of a slave. *)
RefreshSlave(s) ==
  LET expired == {x \in (1..Count(s)) \X Types :
                    NeedsRequest(s, x[2], table[s][x[1]].grants[x[2]])}
      aged == AgedSlots(s)
      left == CancelSlots(aged, ToCancel(s))
  IN /\ s \notin refreshed /\ refreshed' = refreshed \cup {s}
     /\ table' = [table EXCEPT ![s] = RequestSlots(left, ToRequest(s, left))]
     /\ net' = net \cup Requests(s, aged, expired) \cup Cancels(s, aged, ToCancel(s))
                  \cup Requests(s, left, ToRequest(s, left))
     /\ previousGrants' = [previousGrants EXCEPT ![s] = 0]
     /\ everyN' = [everyN EXCEPT ![s] = NextRound(s)]
     /\ UNCHANGED <<config, portState, index, parentDS, parentGrants>>

(* refreshUnicastGrants() of a master. *)
RefreshMaster(m) ==
  LET aged == [i \in SlotsOf(m) |-> Refreshed(table[m][i],
                 [t \in Types |-> GivenUp(Aged(table[m][i].grants[t]))])]
      expired == {x \in SlotsOf(m) \X Types : Expired(table[m][x[1]].grants[x[2]])}
  IN /\ m \notin refreshed /\ refreshed' = refreshed \cup {m}
     /\ table' = [table EXCEPT ![m] = CancelSlots(aged, expired)]
     /\ net' = net \cup Cancels(m, aged, expired)
     /\ UNCHANGED <<config, portState, index, slaveVars>>

EndRound ==
  /\ refreshed = Present /\ net = {} /\ refreshed' = {}
  /\ UNCHANGED <<config, portState, table, index, slaveVars, net>>

-----------------------------------------------------------------------------
IgnoresSignals(n) == portState[n] \in {"LISTENING", "DISABLED"}

Deliver(msg, answers) == msg \in net /\ net' = (net \ {msg}) \cup answers

Ignore(msg) ==
  /\ Deliver(msg, {})
  /\ UNCHANGED <<config, portState, table, index, slaveVars, refreshed>>

(* Mutants: no grace period; the slot of a first grant stays reusable. *)
ServedTimeExact == unicastGrantDuration
ReservedNot(slot) == slot

(* A master keeps a grant for longer than it says, and the slot of a node  *)
(* that had none for longer still.                                         *)
ServedTime == unicastGrantDuration + GRACE
Reserved(slot) == [slot EXCEPT !.timeLeft = IF @ = 0 THEN ServedTime + GRACE ELSE @]

(* handleSMRequestUnicastTransmission(), with a slot for the requester.    *)
(* Masters and slaves have the same unicastGrantDuration (30 s or more)    *)
(* and the same longest interval, and a slave asks for the former and for  *)
(* an interval within the latter, so that neither is cut down here. What   *)
(* is not requestable is never asked for; the code would grant that, too:  *)
(* it denies it in myGrant alone and then goes on as for the others.       *)
GrantRequest(m, i, msg) ==
  LET slot == Taken(m, i, msg.from)
      g == slot.grants[msg.type]
      granted == msg.interval >= config.minInterval
      given == [g EXCEPT !.requested = TRUE, !.granted = TRUE, !.canceled = FALSE,
                  !.cancelCount = 0, !.timeLeft = ServedTime,
                  !.logInterval = msg.interval]
      answer == Signal(IF granted THEN "grant" ELSE "deny", m, msg.from, msg.type, msg.interval)
  IN /\ table' = [table EXCEPT ![m][i] =
                    IF granted THEN SetGrant(Reserved(slot), msg.type, given)
                    ELSE SetGrant(slot, msg.type, [g EXCEPT !.requested = TRUE])]
     /\ index' = Indexed(m, i, msg.from)
     /\ Deliver(msg, {answer})

(* Without one, the answer is sent as it was allocated: its duration is    *)
(* not set, and an answer with a duration is a grant.                      *)
AnswerWithoutSlot(m, msg) ==
  /\ \E kind \in {"grant", "deny"} :
       Deliver(msg, {Signal(kind, m, msg.from, msg.type, msg.interval)})
  /\ UNCHANGED <<table, index>>

HandleRequest(m, msg) ==
  LET i == Find(m, msg.from, msg.from, config.size) IN
  /\ msg.kind = "request" /\ ~IgnoresSignals(m)
  /\ IF i = 0 THEN AnswerWithoutSlot(m, msg) ELSE GrantRequest(m, i, msg)
  /\ UNCHANGED <<config, portState, slaveVars, refreshed>>

Denied(g) ==
  [g EXCEPT !.logInterval = IF @ + 1 > config.maxInterval THEN 0 ELSE @ + 1,
            !.requested = FALSE]
Given(g, msg) ==
  [g EXCEPT !.granted = TRUE, !.logInterval = msg.interval, !.canceled = FALSE,
            !.timeLeft = unicastGrantDuration, !.cancelCount = 0]

HandleGrant(s, msg) ==
  LET i == Find(s, msg.from, msg.from, Count(s))
      slot == Taken(s, i, msg.from)
      g == slot.grants[msg.type]
      h == IF ~g.requested THEN g ELSE IF msg.kind = "deny" THEN Denied(g) ELSE Given(g, msg)
  IN /\ msg.kind \in {"grant", "deny"}
     /\ table' = [table EXCEPT ![s][i] = SetGrant(slot, msg.type, h)]
     /\ index' = Indexed(s, i, msg.from)
     /\ Deliver(msg, {})
     /\ UNCHANGED <<config, portState, slaveVars, refreshed>>

(* handleSMCancelUnicastTransmission(): acknowledged only if it was given. *)
HandleCancel(n, msg) ==
  LET i == Find(n, msg.from, msg.from, config.size)
      g == table[n][i].grants[msg.type]
      known == i # 0 /\ g.requested /\ g.granted
  IN /\ msg.kind = "cancel" /\ ~IgnoresSignals(n)
     /\ IF known
        THEN /\ table' = [table EXCEPT ![n][i].grants[msg.type] = Ended(g)]
             /\ Deliver(msg, {Signal("ack", n, msg.from, msg.type, 0)})
        ELSE Deliver(msg, {}) /\ UNCHANGED table
     /\ UNCHANGED <<config, portState, index, slaveVars, refreshed>>

(* handleSMAcknowledgeCancelUnicastTransmission(): whatever was not asked  *)
(* for is logged, and the grant ends all the same.                         *)
HandleAck(n, msg) ==
  LET i == Find(n, msg.from, msg.from, config.size)
      g == table[n][i].grants[msg.type]
  IN /\ msg.kind = "ack" /\ ~IgnoresSignals(n) /\ i # 0
     /\ table' = [table EXCEPT ![n][i].grants[msg.type] = [Ended(g) EXCEPT !.canceled = FALSE]]
     /\ Deliver(msg, {})
     /\ UNCHANGED <<config, portState, index, slaveVars, refreshed>>

(* handleSignaling(): in some states signals are not processed.            *)
IgnoreSignal(n, msg) ==
  /\ IgnoresSignals(n) /\ n = msg.to
  /\ msg.kind \in {"grant", "deny"} => portState[n] = "DISABLED"
  /\ Ignore(msg)

HandleSignaling(msg) ==
  LET n == msg.to IN
  \/ n \in Masters /\ HandleRequest(n, msg)
  \/ n \in Slaves /\ portState[n] # "DISABLED" /\ HandleGrant(n, msg)
  \/ HandleCancel(n, msg)
  \/ HandleAck(n, msg)
  \/ IgnoreSignal(n, msg)

Lose(msg) ==
  "loss" \in config.faults /\ Ignore(msg)

-----------------------------------------------------------------------------
(* issueAnnounce(), issueSync(): to every slot with a grant.               *)
Sends(m, s, t) ==
  /\ portState[m] = "MASTER"
  /\ \E i \in SlotsOf(m) : table[m][i].address = s /\ table[m][i].grants[t].granted

(* handleDelayReq(): a slave is answered by the grant of its slot.         *)
Answers(m, s) ==
  LET i == Find(m, s, None, config.size)
  IN portState[m] = "MASTER" /\ i # 0 /\ table[m][i].grants["DELAY_RESP"].granted

(* A message marks the grant of the slot it is looked up in; the mark is   *)
(* its sequence id, which may be 0.                                        *)
Receive(s, i, t, mark) ==
  table' = [table EXCEPT ![s][i].grants[t].receiving = mark /\ config.keepalive]

(* handleSync() and handleDelayResp(). *)
HearTiming(s, m, t, mark) ==
  LET i == Find(s, m, None, config.size) IN
  /\ IF t = "SYNC" THEN Sends(m, s, t) ELSE Answers(m, s)
  /\ portState[s] = "SLAVE" /\ i # 0
  /\ Receive(s, i, t, mark)
  /\ UNCHANGED <<config, portState, index, slaveVars, net, refreshed>>

(* bmcStateDecision() of a slave-only port that selects master best.       *)
Select(s, best) ==
  /\ previousGrants' = [previousGrants EXCEPT ![s] =
       IF parentDS[s] # best /\ parentGrants[s] # 0 THEN parentGrants[s] ELSE @]
  /\ parentDS' = [parentDS EXCEPT ![s] = best]
  /\ parentGrants' = [parentGrants EXCEPT ![s] = Find(s, best, None, Count(s))]
  /\ portState' = [portState EXCEPT ![s] = "SLAVE"]

(* handleAnnounce(), and the state decision that follows: the sender is    *)
(* the best master unless the parent is better.                            *)
HearAnnounce(s, m, mark) ==
  LET i == Find(s, m, None, config.size)
      best == IF portState[s] = "SLAVE" /\ Rank[parentDS[s]] > Rank[m] THEN parentDS[s] ELSE m
  IN /\ Sends(m, s, "ANNOUNCE")
     /\ i # 0 /\ table[s][i].grants["ANNOUNCE"].granted
     /\ Receive(s, i, "ANNOUNCE", mark)
     /\ Select(s, best)
     /\ UNCHANGED <<config, index, everyN, net, refreshed>>

(* toState() out of SLAVE: what the parent granted is to be renewed.       *)
Lapsed(slot) == [slot EXCEPT !.grants = [t \in Types |-> [@[t] EXCEPT !.timeLeft = 0]]]

LeaveSlave(s) ==
  /\ "leave" \in config.faults /\ portState[s] = "SLAVE"
  /\ portState' = [portState EXCEPT ![s] = "LISTENING"]
  /\ table' = [table EXCEPT ![s] =
       [i \in SlotsOf(s) |-> IF i = parentGrants[s] THEN Lapsed(@[i]) ELSE @[i]]]
  /\ parentGrants' = [parentGrants EXCEPT ![s] = 0]
  /\ UNCHANGED <<config, index, parentDS, previousGrants, everyN, net, refreshed>>

(* toState() out of MASTER: cancelAllGrants(). *)
LeaveMaster(m, state) ==
  LET granted == {x \in SlotsOf(m) \X Types : table[m][x[1]].grants[x[2]].granted} IN
  /\ "master" \in config.faults /\ portState[m] = "MASTER"
  /\ portState' = [portState EXCEPT ![m] = state]
  /\ table' = [table EXCEPT ![m] = CancelSlots(@, granted)]
  /\ net' = net \cup Cancels(m, table[m], granted)
  /\ UNCHANGED <<config, index, slaveVars, refreshed>>

BecomeMaster(m) ==
  /\ portState[m] = "PASSIVE"
  /\ portState' = [portState EXCEPT ![m] = "MASTER"]
  /\ UNCHANGED <<config, table, index, slaveVars, net, refreshed>>

(* toState() out of INITIALIZING, after a failure, a restart, or an        *)
(* acknowledgment that found no slot at all, which ends the program.       *)
Initialized(n) ==
  /\ table' = [table EXCEPT ![n] = EmptyTable(n)]
  /\ index' = [index EXCEPT ![n] = EmptyIndex]

InitializeMaster(m) ==
  /\ portState[m] = "DISABLED" /\ Initialized(m)
  /\ portState' = [portState EXCEPT ![m] = "MASTER"]
  /\ UNCHANGED <<config, slaveVars, net, refreshed>>

AckWithoutSlot(n, msg) ==
  /\ msg.kind = "ack" /\ n = msg.to /\ ~IgnoresSignals(n)
  /\ Find(n, msg.from, msg.from, config.size) = 0
  /\ Initialized(n) /\ Deliver(msg, {})
  /\ portState' = [portState EXCEPT ![n] = "DISABLED"]
  /\ UNCHANGED <<config, slaveVars, refreshed>>

RestartSlave(s) ==
  /\ "slave" \in config.faults /\ Initialized(s)
  /\ portState' = [portState EXCEPT ![s] = "LISTENING"]
  /\ parentDS' = [parentDS EXCEPT ![s] = None]
  /\ parentGrants' = [parentGrants EXCEPT ![s] = 0]
  /\ previousGrants' = [previousGrants EXCEPT ![s] = 0]
  /\ everyN' = [everyN EXCEPT ![s] = 0]
  /\ UNCHANGED <<config, net, refreshed>>

(* updateUnicastGrantTable(), after a change of the configured intervals.  *)
Updated(slot) ==
  [slot EXCEPT !.grants = [t \in Types |-> [@[t] EXCEPT !.timeLeft = 0, !.logInterval = 0]]]

UpdateGrantTable(s) ==
  /\ "reload" \in config.faults
  /\ table' = [table EXCEPT ![s] =
       [i \in SlotsOf(s) |-> IF i <= Count(s) THEN Updated(@[i]) ELSE @[i]]]
  /\ UNCHANGED <<config, portState, index, slaveVars, net, refreshed>>

Disturbance ==
  \/ \E s \in Present \cap Slaves : LeaveSlave(s) \/ RestartSlave(s) \/ UpdateGrantTable(s)
  \/ \E m \in Present \cap Masters : \E state \in {"PASSIVE", "DISABLED"} : LeaveMaster(m, state)

Handle == \E msg \in net : HandleSignaling(msg) \/ AckWithoutSlot(msg.to, msg)
Messages(s, m) ==
  \E mark \in {TRUE, "wrap" \notin config.faults} :
    \/ \E t \in Types \ {"ANNOUNCE"} : HearTiming(s, m, t, mark)
    \/ HearAnnounce(s, m, mark)
Refresh(n) ==
  \/ n \in Slaves /\ RefreshSlave(n)
  \/ n \in Masters /\ RefreshMaster(n)

Next ==
  \/ \E n \in Present : Refresh(n)
  \/ EndRound
  \/ Handle
  \/ \E msg \in net : Lose(msg)
  \/ \E s \in Slaves, m \in Masters : Messages(s, m)
  \/ \E m \in Masters : BecomeMaster(m) \/ InitializeMaster(m)
  \/ Disturbance

Spec == Init /\ [][Next]_vars

(* Each node refreshes its table every second and each message is handled  *)
(* or lost before the next one; a message that is sent again and again     *)
(* gets through, and a failed master comes back.                           *)
Delivered(kind, from, to, t) ==
  \E msg \in net : /\ msg.kind = kind /\ msg.from = from /\ msg.to = to /\ msg.type = t
                    /\ HandleSignaling(msg)

Fairness ==
  /\ WF_vars(EndRound) /\ WF_vars(Handle)
  /\ \A n \in Nodes : WF_vars(n \in Present /\ Refresh(n))
  /\ \A m \in Masters : WF_vars(BecomeMaster(m)) /\ WF_vars(InitializeMaster(m))
  /\ \A s \in Slaves, m \in Masters, t \in {"ANNOUNCE", "SYNC"} :
       /\ SF_vars(Delivered("request", s, m, t))
       /\ SF_vars(Delivered("grant", m, s, t))
       /\ SF_vars(Delivered("deny", m, s, t))

FairSpec == Spec /\ Fairness

-----------------------------------------------------------------------------
(* The leases of UnicastLease. *)
Leases == Slaves \X Masters \X DOMAIN TypeIndex
Relies(s, m, t) ==
  \E i \in 1..Count(s) : /\ t \in Types /\ table[s][i].address = m
                         /\ table[s][i].grants[t].granted /\ ~table[s][i].grants[t].canceled
Serves(s, m, t) ==
  \E i \in SlotsOf(m) : t \in Types /\ table[m][i].address = s /\ table[m][i].grants[t].granted
Offers(s, m, t) ==
  \E msg \in net : msg.kind = "grant" /\ msg.from = m /\ msg.to = s /\ msg.type = t

Lease == INSTANCE UnicastLease WITH
  offered <- {l \in Leases : Offers(l[1], l[2], l[3])},
  served <- {l \in Leases : Serves(l[1], l[2], l[3])},
  relied <- {l \in Leases : Relies(l[1], l[2], l[3])},
  unreliable <- \/ "master" \in config.faults
                \/ \E s \in Slaves : Count(s) > 1
                \/ Cardinality({s \in Slaves : Count(s) > 0}) > config.size

(* While no master fails, what refreshUnicastGrants() and the handlers do  *)
(* on both sides keeps the promise of UnicastLease, whatever is lost.      *)
ImplementsLease == Lease!Spec

(* Whatever was lost, denied, cancelled or forgotten, a slave that keeps   *)
(* asking relies on Announce from its masters again, and one that stays    *)
(* with its master relies on Sync from it again (refreshUnicastGrants()).  *)
ServedAgain ==
  <>[][~Disturbance]_vars =>
    \A s \in Slaves, m \in Masters :
      /\ []<>(m = Destination(s, 1) => Relies(s, m, "ANNOUNCE"))
      /\ <>[](portState[s] = "SLAVE" /\ parentDS[s] = m)
           => []<>("SYNC" \in Types => Relies(s, m, "SYNC"))

(* A node never occupies two slots, by identity or by address, whatever    *)
(* the index, the reuse of slots and the lookups with and without an       *)
(* address do (findUnicastGrants()); unless the slave has been told of it  *)
(* twice.                                                                  *)
ListedOnce(n) ==
  \A i, j \in 1..Count(n) :
    Destination(n, i) = Destination(n, j) => i = j \/ Destination(n, i) = None
OneSlotPerNode ==
  \A n \in {k \in Nodes : ListedOnce(k)} : \A i, j \in SlotsOf(n) : i # j =>
    /\ table[n][i].identity = table[n][j].identity => table[n][i].identity = None
    /\ table[n][i].address = table[n][j].address => table[n][i].address = None

(* A slot is not given to another node while a grant in it has time left   *)
(* (the free slot of findUnicastGrants()).                                 *)
NoEviction ==
  [][\A m \in Masters : \A i \in SlotsOf(m) :
       /\ table'[m][i].address # table[m][i].address
       /\ table'[m][i].address # None
       => \A t \in Types : table[m][i].grants[t].timeLeft = 0]_vars
=============================================================================
