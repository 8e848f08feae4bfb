------------------------------ MODULE PeerDelay ------------------------------
(***************************************************************************)
(* The peer delay mechanism (P2P) of protocol.c: issuePdelayReq(),         *)
(* handlePdelayReq(), handlePdelayResp() and handlePdelayRespFollowUp(),   *)
(* with updatePeerDelay() (servo.c) and the send time stamps of            *)
(* netSendPeerEvent() (net.c).  Every port asks and answers.  Four times   *)
(* make a delay: t1 and t4, of our request and of the answer to it, t2 and *)
(* t3, of the same two at the peer.  They are stored one by one, matched   *)
(* by sequence id, and t1 and t3 are known only once the kernel or a       *)
(* looped back copy has reported them.                                     *)
(***************************************************************************)
EXTENDS Naturals, Sequences, FiniteSets

CONSTANTS
  Ports,
  Configurations,   \* what the ports may be configured as, see Init
  MODULUS,          \* of the sequence ids, 2^16 in the code
  None

ASSUME ModulusAssumption == MODULUS \in Nat \ {0, 1}
ASSUME PortsAssumption == IsFiniteSet(Ports) /\ None \notin Ports
ASSUME ConfigurationsAssumption ==
  \A c \in Configurations :
    /\ c.ports \subseteq Ports /\ c.asking \subseteq c.ports /\ c.looping \in BOOLEAN
    /\ \A p \in c.ports : c.peer[p] \in (c.ports \ {p}) \cup {None}

VARIABLES
  config,
  portState,
  twoStepFlag,        \* defaultDS.twoStepFlag, which handleSync() overwrites
  txTimestampFailure,
  sent,               \* sentPdelayReqSequenceId, the id of the next request
  recv,               \* recvPdelayRespSequenceId
  header,             \* PdelayReqHeader: the request answered last
  lastDst,            \* lastPdelayRespDst
  times,              \* what each stored time is of
  delay,              \* what peerMeanPathDelay was computed from
  copies,             \* own event messages looped back, in order
  net

portVars == <<portState, twoStepFlag, txTimestampFailure>>
timeVars == <<times, delay>>
vars == <<config, portVars, sent, recv, header, lastDst, timeVars, copies, net>>

Ids == 0..MODULUS - 1
Succ(id) == (id + 1) % MODULUS
LastSent(p) == (sent[p] + MODULUS - 1) % MODULUS
On == config.ports
Fault(f) == f \in config.faults

(* The request an event of the exchange belongs to.                        *)
Request(p, id) == [port |-> p, id |-> id]
Requests == [port : Ports, id : Ids]
Active(p) == portState[p] = "ACTIVE"        \* SLAVE or MASTER
\* A bug: a PASSIVE port does not answer.
Answering_ActiveOnly == {"ACTIVE"}
Answering == {"ACTIVE", "PASSIVE"}

(* Nothing has been measured, or the request is so long ago that its id    *)
(* has been used again.                                                    *)
NoTimes == [t1 |-> None, t2 |-> None, t3 |-> None, t4 |-> None,
            correction |-> None, followUpCorrection |-> None]
NoDelay == [measured |-> FALSE, whole |-> TRUE, unstamped |-> FALSE, mistaken |-> FALSE]

Copies == [kind : {"req", "resp"}, of : Requests]
Messages == [kind : {"req", "resp", "follow"}, from : Ports, to : Ports, of : Requests,
             twoStep : BOOLEAN, correction : Requests \cup {None}]
Delays == [measured : BOOLEAN, whole : BOOLEAN, unstamped : BOOLEAN, mistaken : BOOLEAN]

TypeOK ==
  /\ config \in Configurations
  /\ portState \in [Ports -> {"LISTENING", "PASSIVE", "ACTIVE"}]
  /\ twoStepFlag \in [Ports -> BOOLEAN] /\ txTimestampFailure \in [Ports -> BOOLEAN]
  /\ sent \in [Ports -> Ids] /\ recv \in [Ports -> Ids]
  /\ header \in [Ports -> Requests \cup {None}]
  /\ lastDst \in [Ports -> Ports \cup {None}]
  /\ times \in [Ports -> [DOMAIN NoTimes -> Requests \cup {None}]]
  /\ delay \in [Ports -> Delays]
  /\ copies \in [Ports -> Seq(Copies)]
  /\ net \subseteq Messages

(* config.peer is the unicast destination of the requests of a port, or    *)
(* none, which is multicast; config.asking are the ports whose request     *)
(* timer runs.                                                             *)
Init ==
  /\ config \in Configurations
  /\ portState = [p \in Ports |-> "LISTENING"]
  /\ twoStepFlag = [p \in Ports |-> TRUE]
  /\ txTimestampFailure = [p \in Ports |-> config.looping]
  /\ sent = [p \in Ports |-> 0] /\ recv = [p \in Ports |-> 0]
  /\ header = [p \in Ports |-> None] /\ lastDst = [p \in Ports |-> None]
  /\ times = [p \in Ports |-> NoTimes] /\ delay = [p \in Ports |-> NoDelay]
  /\ copies = [p \in Ports |-> <<>>] /\ net = {}

-----------------------------------------------------------------------------
(* Messages.  dst is none for the peer multicast address.                  *)
Message(kind, from, to, of, twoStep, correction) ==
  [kind |-> kind, from |-> from, to |-> to, of |-> of, twoStep |-> twoStep,
   correction |-> correction]
Sent(kind, p, dst, of, twoStep, correction) ==
  {Message(kind, p, q, of, twoStep, correction) :
     q \in IF dst = None THEN On \ {p} ELSE {dst}}

(* netSendPeerEvent(): the send time comes from the error queue of the     *)
(* socket.  The first time that fails, looping is switched on: in          *)
(* multicast for the messages after this one, in unicast the message       *)
(* itself is sent to ourselves, too.                                       *)
StampComes(p) == ~txTimestampFailure[p]
StampFails(p) == ~txTimestampFailure[p] /\ Fault("stamp")
Loops(p, dst) == txTimestampFailure[p] \/ dst # None
Looped(p, kind, of) == [copies EXCEPT ![p] = Append(@, [kind |-> kind, of |-> of])]

-----------------------------------------------------------------------------
(* The times of requests whose id is used again are of no known request.   *)
Forget(p, r) ==
  [times EXCEPT ![p] = [t \in DOMAIN NoTimes |-> IF @[t] = r THEN None ELSE @[t]]]

(* processPdelayReqFromSelf().                                             *)
OwnRequestSent(ts, p, r) == [ts EXCEPT ![p].t1 = r]

(* issuePdelayReq().  A message does not live longer than MODULUS - 1      *)
(* requests, and unless the network is slow an exchange ends before the    *)
(* next begins.                                                            *)
Copied(r) == \E q \in On : \E i \in DOMAIN copies[q] : copies[q][i].of = r
Finished(p) == /\ \A msg \in net : msg.of.port # p
               /\ \A id \in Ids : ~Copied(Request(p, id))
IssuePdelayReq(p) ==
  LET r == Request(p, sent[p])
      dst == config.peer[p]
      old == {msg \in net : msg.of = r}
  IN
  /\ p \in config.asking
  /\ portState[p] # "LISTENING" \/ Fault("late")
  /\ Finished(p) \/ Fault("slow")
  /\ ~Copied(r)
  /\ sent' = [sent EXCEPT ![p] = Succ(@)]
  /\ net' = (net \ old) \cup Sent("req", p, dst, r, FALSE, None)
  /\ \/ /\ StampComes(p)
        /\ times' = OwnRequestSent(Forget(p, r), p, r)
        /\ UNCHANGED <<txTimestampFailure, copies>>
     \/ /\ StampFails(p) \/ txTimestampFailure[p]
        /\ txTimestampFailure' = [txTimestampFailure EXCEPT ![p] = TRUE]
        /\ copies' = IF Loops(p, dst) THEN Looped(p, "req", r) ELSE copies
        /\ times' = Forget(p, r)
  /\ delay' = [delay EXCEPT ![p] = [NoDelay EXCEPT !.unstamped = txTimestampFailure'[p],
                                                   !.mistaken = recv[p] = sent[p]]]
  /\ UNCHANGED <<config, portState, twoStepFlag, recv, header, lastDst>>

-----------------------------------------------------------------------------
(* issuePdelayRespFollowUp() for the Resp to request r, after              *)
(* processPdelayRespFromSelf(): id and send time are of that Resp, the     *)
(* correction is of the request in PdelayReqHeader.                        *)
FollowUp(p, dst, r, hdr) == Sent("follow", p, dst, r, TRUE, hdr)

(* A link keeps the order of the messages of one kind.  Event and general  *)
(* messages come through two sockets: when they queue up, a Follow_Up may  *)
(* be read before its Resp.                                                *)
Age(r) == (sent[r.port] + MODULUS - r.id - 1) % MODULUS
InOrder(msg) ==
  \A other \in net :
    /\ other.from = msg.from /\ other.to = msg.to /\ other.of.port = msg.of.port
    => /\ other.kind = msg.kind => Age(other.of) <= Age(msg.of)
       /\ msg.kind = "follow" /\ ~Fault("slow") => other.kind # "resp"
Delivered(msg, answers) == net' = (net \ {msg}) \cup answers

(* handlePdelayReq() from another port, with issuePdelayResp().            *)
HandlePdelayReq(msg) ==
  LET p == msg.to
      dst == IF config.peer[msg.from] # None THEN msg.from ELSE None
      resp == Sent("resp", p, dst, msg.of, twoStepFlag[p], None)
  IN
  /\ msg.kind = "req" /\ portState[p] \in Answering
  /\ header' = [header EXCEPT ![p] = msg.of]
  /\ lastDst' = [lastDst EXCEPT ![p] = dst]
  /\ \/ /\ StampComes(p)
        /\ Delivered(msg, resp \cup FollowUp(p, dst, msg.of, msg.of))
        /\ UNCHANGED <<txTimestampFailure, copies>>
     \/ /\ StampFails(p) \/ txTimestampFailure[p]
        /\ txTimestampFailure' = [txTimestampFailure EXCEPT ![p] = TRUE]
        /\ copies' = IF Loops(p, dst) THEN Looped(p, "resp", msg.of) ELSE copies
        /\ Delivered(msg, resp)
  /\ UNCHANGED <<config, portState, twoStepFlag, sent, recv, timeVars>>

(* handlePdelayReq() and handlePdelayResp() of the copy of our own message *)
(* at the head of the queue.  Our own Resp is handled as one of the peer   *)
(* when the port believes to be a one-step clock; it is not to a request   *)
(* of ours, and rejected.                                                  *)
HandleCopy(p) ==
  LET copy == Head(copies[p]) IN
  /\ copies[p] # <<>>
  /\ copies' = [copies EXCEPT ![p] = Tail(@)]
  /\ times' = IF copy.kind = "req" /\ portState[p] \in Answering
                THEN OwnRequestSent(times, p, copy.of) ELSE times
  /\ net' = IF copy.kind = "resp" /\ Active(p) /\ twoStepFlag[p]
              THEN net \cup FollowUp(p, lastDst[p], copy.of, header[p]) ELSE net
  /\ delay' = [delay EXCEPT ![p].unstamped =
                 @ /\ ~(/\ copy = [kind |-> "req", of |-> Request(p, LastSent(p))]
                        /\ portState[p] \in Answering)]
  /\ UNCHANGED <<config, portVars, sent, recv, header, lastDst>>

-----------------------------------------------------------------------------
(* updatePeerDelay(): with a Follow_Up from all four times and both        *)
(* corrections, without from t1 and t4.                                    *)
UsedTimes(twoStep) == IF twoStep THEN DOMAIN NoTimes ELSE {"t1", "t4"}

UpdatePeerDelay(p, ts, twoStep) ==
  [delay EXCEPT ![p].measured = TRUE,
                ![p].whole = \/ delay[p].unstamped \/ delay[p].mistaken
                             \/ \A t \in UsedTimes(twoStep) : ts[p][t] = Request(p, LastSent(p))]

AnswersLastRequest(p, id) == Succ(id) = sent[p]

(* handlePdelayResp() to our request, from any port.  The copy of the      *)
(* request came through the same socket before it.                         *)
HandlePdelayResp(msg) ==
  LET p == msg.to
      ts == [times EXCEPT ![p] =
               IF msg.twoStep THEN [@ EXCEPT !.t2 = msg.of, !.t4 = msg.of, !.correction = msg.of]
                              ELSE [@ EXCEPT !.t4 = msg.of]]
  IN
  /\ msg.kind = "resp" /\ Active(p)
  /\ AnswersLastRequest(p, msg.of.id) /\ msg.of.port = p
  /\ \A i \in DOMAIN copies[p] : copies[p][i].of # msg.of
  /\ times' = ts
  /\ recv' = [recv EXCEPT ![p] = msg.of.id]
  /\ delay' = IF msg.twoStep THEN [delay EXCEPT ![p].mistaken = FALSE]
                             ELSE UpdatePeerDelay(p, ts, FALSE)
  /\ Delivered(msg, {})
  /\ UNCHANGED <<config, portVars, sent, header, lastDst, copies>>

\* A bug: the Follow_Up is not matched with the Resp.
FollowsRecorded_Any(p, id) == AnswersLastRequest(p, id)
FollowsRecorded(p, id) == AnswersLastRequest(p, id) /\ recv[p] = id

(* handlePdelayRespFollowUp(): neither its sender nor the requesting port  *)
(* in it is looked at.                                                     *)
HandlePdelayRespFollowUp(msg) ==
  LET p == msg.to
      ts == [times EXCEPT ![p] = [@ EXCEPT !.t3 = msg.of, !.followUpCorrection = msg.correction]]
  IN
  /\ msg.kind = "follow" /\ Active(p) /\ FollowsRecorded(p, msg.of.id)
  /\ times' = ts
  /\ delay' = UpdatePeerDelay(p, ts, TRUE)
  /\ Delivered(msg, {})
  /\ UNCHANGED <<config, portVars, sent, recv, header, lastDst, copies>>

(* What the states and the tests above turn away.                          *)
Accepted(msg) ==
  LET p == msg.to IN
  CASE msg.kind = "req" -> portState[p] \in Answering
    [] msg.kind = "resp" -> Active(p) /\ AnswersLastRequest(p, msg.of.id) /\ msg.of.port = p
    [] msg.kind = "follow" -> Active(p) /\ FollowsRecorded(p, msg.of.id)
Discard(msg) ==
  /\ ~Accepted(msg) /\ Delivered(msg, {})
  /\ UNCHANGED <<config, portVars, sent, recv, header, lastDst, timeVars, copies>>

-----------------------------------------------------------------------------
(* The network, and the rest of the port.                                  *)
Lose(msg) ==
  /\ msg \in net /\ Fault("loss") /\ net' = net \ {msg}
  /\ UNCHANGED <<config, portVars, sent, recv, header, lastDst, timeVars, copies>>

(* The buffer of the socket was full, or a leap second is in progress, in  *)
(* which event messages are dropped.                                       *)
LoseCopy(p) ==
  /\ copies[p] # <<>> /\ Fault("loss")
  /\ copies' = [copies EXCEPT ![p] = Tail(@)]
  /\ UNCHANGED <<config, portVars, sent, recv, header, lastDst, timeVars, net>>

(* toState(), see PtpPort: the ids and times are kept.                     *)
ChangeState(p) ==
  /\ p \in On /\ (portState[p] = "LISTENING" \/ Fault("state"))
  /\ \E s \in {"LISTENING", "PASSIVE", "ACTIVE"} \ {portState[p]} :
       /\ s = "PASSIVE" => Fault("state")
       /\ portState' = [portState EXCEPT ![p] = s]
  /\ UNCHANGED <<config, twoStepFlag, txTimestampFailure, sent, recv, header, lastDst,
                 timeVars, copies, net>>

(* doInit(): netInit() opens new sockets and tries time stamping again,    *)
(* and initData() sets twoStepFlag.                                        *)
Initialize(p) ==
  /\ Fault("state") /\ portState[p] # "LISTENING"
  /\ portState' = [portState EXCEPT ![p] = "LISTENING"]
  /\ twoStepFlag' = [twoStepFlag EXCEPT ![p] = TRUE]
  /\ txTimestampFailure' = [txTimestampFailure EXCEPT ![p] = config.looping]
  /\ copies' = [copies EXCEPT ![p] = <<>>]
  /\ UNCHANGED <<config, sent, recv, header, lastDst, timeVars, net>>

(* handleSync() of a slave: the flag becomes that of the parent's Syncs.   *)
HearSync(p) ==
  /\ Active(p) /\ Fault("oneStep")
  /\ twoStepFlag' = [twoStepFlag EXCEPT ![p] = ~@]
  /\ UNCHANGED <<config, portState, txTimestampFailure, sent, recv, header, lastDst,
                 timeVars, copies, net>>

Handle(msg) ==
  /\ InOrder(msg)
  /\ \/ HandlePdelayReq(msg) \/ HandlePdelayResp(msg) \/ HandlePdelayRespFollowUp(msg)
     \/ Discard(msg)

Disturbance ==
  \/ \E msg \in net : Lose(msg)
  \/ \E p \in Ports : LoseCopy(p) \/ ChangeState(p) \/ Initialize(p) \/ HearSync(p)

Next ==
  \/ \E p \in Ports : IssuePdelayReq(p) \/ HandleCopy(p)
  \/ \E msg \in net : Handle(msg)
  \/ Disturbance

Spec == Init /\ [][Next]_vars

(* The request timer runs in every state but LISTENING, what is not lost   *)
(* arrives, and the sockets are read.                                      *)
Fairness ==
  \A p \in Ports :
    /\ WF_vars(IssuePdelayReq(p) /\ portState[p] # "LISTENING")
    /\ WF_vars(HandleCopy(p))
    /\ WF_vars(\E msg \in net : msg.of.port = p /\ Handle(msg))

FairSpec == Spec /\ Fairness
-----------------------------------------------------------------------------
(* On a link of two ports, or when requests and answers are unicast and    *)
(* the kernel stamps what is sent, the times and corrections a mean path   *)
(* delay is computed from are of one request and of the answer to it,      *)
(* whatever was lost or came late.  Two cases are beyond the code: the     *)
(* send time of the request was never reported to it (unstamped), or no    *)
(* Resp was recorded for so many requests that the id came round, or ever  *)
(* since the start, so that a Follow_Up that overtakes its Resp is taken   *)
(* for one of the Resp recorded (mistaken).                                *)
OnePeer ==
  \/ Cardinality(On) = 2
  \/ ~config.looping /\ ~Fault("stamp") /\ \A p \in On : config.peer[p] # None
OneExchange ==
  \A p \in Ports :  OnePeer /\ ~Fault("oneStep") => delay[p].whole

(* A port that stays SLAVE or MASTER on an undisturbed link, where answers *)
(* outrun the next request, goes on measuring the delay, unless            *)
(* the peer is PASSIVE and loops its answers back: it does not handle the  *)
(* copies and follows up none.                                             *)
FollowsUp(q) == Active(q) \/ (portState[q] = "PASSIVE" /\ ~txTimestampFailure[q])
Measuring(p) ==
  Active(p) /\ p \in config.asking /\ \A q \in On \ {p} : FollowsUp(q)
MeasuresAgain ==
  \A p \in Ports :
    ~Fault("slow") /\ <>[]Measuring(p) /\ <>[][~Disturbance]_vars
      => []<>delay[p].measured /\ []<>~delay[p].measured
=============================================================================
