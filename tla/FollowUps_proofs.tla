--------------------------- MODULE FollowUps_proofs ---------------------------
(***************************************************************************)
(* Theorems about the messages ptpd follows up: peer delay answers, for    *)
(* any ports, width of the sequence ids and faults, and the Syncs of a     *)
(* unicast master, for any number of destinations and hashes.              *)
(***************************************************************************)
EXTENDS PeerDelay, SyncDestinations, FiniteSetTheorems, TLAPS

(* The arithmetic of the sequence ids: which id was sent last before s,    *)
(* and which of them has no age.                                           *)
LEMMA ModOnce ==
  ASSUME NEW n \in Nat \ {0}, NEW x \in 0 .. 2 * n - 1
  PROVE  x % n = IF x < n THEN x ELSE x - n
<1>1. CASE x < n
  BY <1>1, SMT
<1>2. CASE x >= n
  BY <1>2, SMT
<1> QED BY <1>1, <1>2

Before(s) == (s + MODULUS - 1) % MODULUS

LEMMA IdArithmetic ==
  ASSUME NEW s \in Ids, NEW id \in Ids
  PROVE  /\ Succ(s) \in Ids /\ Before(s) \in Ids
         /\ Before(Succ(s)) = s /\ Before(s) # s
         /\ Succ(id) = s <=> id = Before(s)
         /\ (s + MODULUS - id - 1) % MODULUS \in Nat
         /\ (s + MODULUS - id - 1) % MODULUS = 0 <=> id = Before(s)
<1>1. MODULUS \in Nat \ {0, 1} /\ Ids = 0 .. MODULUS - 1
  BY ModulusAssumption DEF Ids
<1>2. ASSUME NEW i \in Ids
      PROVE  Succ(i) = IF i = MODULUS - 1 THEN 0 ELSE i + 1
  <2>1. PICK x \in 0 .. 2 * MODULUS - 1 : x = i + 1
    BY <1>1
  <2>2. x % MODULUS = IF x < MODULUS THEN x ELSE x - MODULUS
    BY <1>1, ModOnce
  <2> QED BY <1>1, <2>1, <2>2 DEF Succ
<1>3. ASSUME NEW i \in Ids
      PROVE  Before(i) = IF i = 0 THEN MODULUS - 1 ELSE i - 1
  <2>1. PICK x \in 0 .. 2 * MODULUS - 1 : x = i + MODULUS - 1
    BY <1>1
  <2>2. x % MODULUS = IF x < MODULUS THEN x ELSE x - MODULUS
    BY <1>1, ModOnce
  <2> QED BY <1>1, <2>1, <2>2 DEF Before
<1>4. PICK age \in 0 .. 2 * MODULUS - 1 : age = s + MODULUS - id - 1
  BY <1>1
<1>5. age % MODULUS = IF age < MODULUS THEN age ELSE age - MODULUS
  BY <1>1, ModOnce
<1>6. (s + MODULUS - id - 1) % MODULUS = IF age < MODULUS THEN age ELSE age - MODULUS
  BY <1>4, <1>5
<1>7. Succ(s) \in Ids /\ Before(s) \in Ids
  BY <1>1, <1>2, <1>3
<1>8. Before(Succ(s)) = s /\ Before(s) # s
  BY <1>1, <1>2, <1>3, <1>7
<1>9. Succ(id) = s <=> id = Before(s)
  BY <1>1, <1>2, <1>3
<1>10. /\ (s + MODULUS - id - 1) % MODULUS \in Nat
       /\ (s + MODULUS - id - 1) % MODULUS = 0 <=> id = Before(s)
  <2>1. PICK a : a = (s + MODULUS - id - 1) % MODULUS
    OBVIOUS
  <2>2. a = IF age < MODULUS THEN age ELSE age - MODULUS
    BY <1>6, <2>1
  <2>3. a \in Nat /\ (a = 0 <=> id = Before(s))
    BY <1>1, <1>3, <1>4, <2>2
  <2> QED BY <2>1, <2>3
<1> QED BY <1>7, <1>8, <1>9, <1>10

(* What the configurations say of the ports that are on.                   *)
LEMMA Configured ==
  ASSUME config \in Configurations
  PROVE  /\ On \subseteq Ports /\ config.asking \subseteq On /\ config.looping \in BOOLEAN
         /\ \A p \in On : config.peer[p] \in (On \ {p}) \cup {None}
         /\ None \notin Ports
  BY ConfigurationsAssumption, PortsAssumption DEF On

(* On a link of two ports there is one other.                              *)
LEMMA OneOther ==
  ASSUME config \in Configurations, Cardinality(On) = 2,
         NEW p \in On, NEW q \in On \ {p}, NEW r \in On \ {p}
  PROVE  q = r
<1>1. SUFFICES ASSUME q # r PROVE FALSE
  OBVIOUS
<1>2. IsFiniteSet(On)
  BY Configured, PortsAssumption, FS_Subset
<1>3. IsFiniteSet({}) /\ Cardinality({}) = 0
  BY FS_EmptySet
<1>4. IsFiniteSet({p}) /\ Cardinality({p}) = 1
  BY FS_Singleton
<1>5. IsFiniteSet({p, q}) /\ Cardinality({p, q}) = 2
  <2>1. {p, q} = {p} \cup {q} /\ q \notin {p}
    OBVIOUS
  <2> QED BY <1>4, <2>1, FS_AddElement
<1>6. IsFiniteSet({p, q, r}) /\ Cardinality({p, q, r}) = 3
  <2>1. {p, q, r} = {p, q} \cup {r} /\ r \notin {p, q}
    BY <1>1
  <2> QED BY <1>5, <2>1, FS_AddElement
<1>7. Cardinality({p, q, r}) <= Cardinality(On)
  BY <1>2, FS_Subset
<1> QED BY <1>6, <1>7

(* What Sent() sends, and to whom.                                         *)
LEMMA SentMessages ==
  ASSUME NEW kind, NEW p, NEW dst, NEW of, NEW twoStep, NEW correction,
         NEW msg \in Sent(kind, p, dst, of, twoStep, correction)
  PROVE  /\ msg = [kind |-> kind, from |-> p, to |-> msg.to, of |-> of, twoStep |-> twoStep,
                   correction |-> correction]
         /\ IF dst = None THEN msg.to \in On \ {p} ELSE msg.to = dst
  BY DEF Sent, Message

LEMMA SentType ==
  ASSUME config \in Configurations,
         NEW kind \in {"req", "resp", "follow"}, NEW p \in Ports,
         NEW dst \in Ports \cup {None}, NEW of \in Requests, NEW twoStep \in BOOLEAN,
         NEW correction \in Requests \cup {None}
  PROVE  Sent(kind, p, dst, of, twoStep, correction) \subseteq Messages
  BY Configured DEF Sent, Message, Messages

-----------------------------------------------------------------------------
(* Types.                                                                  *)

LEMMA RequestType ==
  ASSUME NEW p \in Ports, NEW id \in Ids
  PROVE  Request(p, id) \in Requests /\ Request(p, id).port = p /\ Request(p, id).id = id
  BY DEF Request, Requests

LEMMA InitType == Init => TypeOK
<1> SUFFICES ASSUME Init PROVE TypeOK
  OBVIOUS
<1>1. 0 \in Ids
  BY ModulusAssumption DEF Ids
<1>2. NoTimes \in [DOMAIN NoTimes -> Requests \cup {None}]
  BY DEF NoTimes
<1>3. NoDelay \in Delays
  BY DEF NoDelay, Delays
<1>4. config.looping \in BOOLEAN
  BY Configured DEF Init
<1> QED BY <1>1, <1>2, <1>3, <1>4 DEF Init, TypeOK

LEMMA TimesType ==
  ASSUME TypeOK, NEW p \in Ports, NEW r \in Requests
  PROVE  /\ Forget(p, r) \in [Ports -> [DOMAIN NoTimes -> Requests \cup {None}]]
         /\ \A ts \in [Ports -> [DOMAIN NoTimes -> Requests \cup {None}]] :
              OwnRequestSent(ts, p, r) \in [Ports -> [DOMAIN NoTimes -> Requests \cup {None}]]
  BY DEF TypeOK, Forget, OwnRequestSent

LEMMA LoopedType ==
  ASSUME TypeOK, NEW p \in Ports, NEW kind \in {"req", "resp"}, NEW r \in Requests
  PROVE  Looped(p, kind, r) \in [Ports -> Seq(Copies)]
<1>1. copies[p] \in Seq(Copies) /\ copies \in [Ports -> Seq(Copies)]
  BY DEF TypeOK
<1>2. PICK copy \in Copies : copy = [kind |-> kind, of |-> r]
  BY DEF Copies
<1>3. Append(copies[p], copy) \in Seq(Copies)
  BY <1>1
<1> QED BY <1>1, <1>2, <1>3 DEF Looped

LEMMA OwnRequestTime ==
  ASSUME TypeOK, NEW p \in Ports, NEW r, NEW s \in Ports
  PROVE  /\ OwnRequestSent(times, p, r)[s].t1 = IF s = p THEN r ELSE times[s].t1
         /\ OwnRequestSent(times, p, r)[s].t2 = times[s].t2
         /\ OwnRequestSent(times, p, r)[s].t4 = times[s].t4
         /\ OwnRequestSent(times, p, r)[s].correction = times[s].correction
  BY DEF TypeOK, OwnRequestSent, NoTimes

LEMMA IssueType ==
  ASSUME TypeOK, NEW p \in Ports, IssuePdelayReq(p)
  PROVE  TypeOK'
<1> DEFINE r == Request(p, sent[p])
           AllTimes == [Ports -> [DOMAIN NoTimes -> Requests \cup {None}]]
<1>1. sent[p] \in Ids /\ r \in Requests /\ Succ(sent[p]) \in Ids
  BY RequestType, IdArithmetic DEF TypeOK
<1>2. config.peer[p] \in Ports \cup {None}
  BY Configured DEF TypeOK, IssuePdelayReq
<1>3. Sent("req", p, config.peer[p], r, FALSE, None) \subseteq Messages
  BY <1>1, <1>2, SentType DEF TypeOK
<1>4. Forget(p, r) \in AllTimes /\ OwnRequestSent(Forget(p, r), p, r) \in AllTimes
  BY <1>1, TimesType
<1>5. Looped(p, "req", r) \in [Ports -> Seq(Copies)]
  BY <1>1, LoopedType
<1> HIDE DEF r, AllTimes
<1>6. times' \in AllTimes
  BY <1>4 DEF IssuePdelayReq, r
<1>7. copies' \in [Ports -> Seq(Copies)]
  BY <1>5 DEF TypeOK, IssuePdelayReq, r
<1>8. txTimestampFailure' \in [Ports -> BOOLEAN]
  BY DEF TypeOK, IssuePdelayReq
<1>9. delay' \in [Ports -> Delays]
  BY <1>8 DEF TypeOK, IssuePdelayReq, Delays, NoDelay
<1>10. net' \subseteq Messages
  BY <1>3 DEF TypeOK, IssuePdelayReq, r
<1>11. sent' \in [Ports -> Ids]
  BY <1>1 DEF TypeOK, IssuePdelayReq
<1> QED
  BY <1>6, <1>7, <1>8, <1>9, <1>10, <1>11 DEF TypeOK, IssuePdelayReq, AllTimes

LEMMA RequestHandlerType ==
  ASSUME TypeOK, NEW msg \in net, HandlePdelayReq(msg)
  PROVE  TypeOK'
<1> DEFINE p == msg.to
           dst == IF config.peer[msg.from] # None THEN msg.from ELSE None
<1>1. /\ p \in Ports /\ msg.from \in Ports /\ msg.of \in Requests
      /\ dst \in Ports \cup {None} /\ twoStepFlag[p] \in BOOLEAN
  BY DEF TypeOK, Messages
<1>2. /\ Sent("resp", p, dst, msg.of, twoStepFlag[p], None) \subseteq Messages
      /\ FollowUp(p, dst, msg.of, msg.of) \subseteq Messages
  <2> HIDE DEF p, dst
  <2>1. config \in Configurations
    BY DEF TypeOK
  <2>2. Sent("resp", p, dst, msg.of, twoStepFlag[p], None) \subseteq Messages
    BY <1>1, <2>1, SentType
  <2>3. Sent("follow", p, dst, msg.of, TRUE, msg.of) \subseteq Messages
    BY <1>1, <2>1, SentType
  <2> QED BY <2>2, <2>3 DEF FollowUp
<1>3. Looped(p, "resp", msg.of) \in [Ports -> Seq(Copies)]
  <2> HIDE DEF p, dst
  <2>1. p \in Ports /\ msg.of \in Requests
    BY <1>1
  <2> QED BY <2>1, LoopedType
<1> HIDE DEF dst, p
<1>4. net' \subseteq Messages
  BY <1>2 DEF TypeOK, HandlePdelayReq, Delivered, p, dst
<1>5. copies' \in [Ports -> Seq(Copies)]
  BY <1>3 DEF TypeOK, HandlePdelayReq, p
<1>6. /\ header' \in [Ports -> Requests \cup {None}]
      /\ lastDst' \in [Ports -> Ports \cup {None}]
      /\ txTimestampFailure' \in [Ports -> BOOLEAN]
  BY <1>1 DEF TypeOK, HandlePdelayReq, p, dst
<1> QED
  BY <1>4, <1>5, <1>6 DEF TypeOK, HandlePdelayReq, timeVars

LEMMA CopyHandlerType ==
  ASSUME TypeOK, NEW p \in Ports, HandleCopy(p)
  PROVE  TypeOK'
<1> DEFINE copy == Head(copies[p])
<1>1. copies[p] \in Seq(Copies) /\ copies[p] # <<>>
  BY DEF TypeOK, HandleCopy
<1>2. copy \in Copies /\ Tail(copies[p]) \in Seq(Copies)
  BY <1>1
<1>3. copy.of \in Requests
  BY <1>2 DEF Copies
<1>4. FollowUp(p, lastDst[p], copy.of, header[p]) \subseteq Messages
  <2>1. lastDst[p] \in Ports \cup {None} /\ header[p] \in Requests \cup {None}
    BY DEF TypeOK
  <2> QED BY <1>3, <2>1, SentType DEF TypeOK, FollowUp
<1>5. OwnRequestSent(times, p, copy.of) \in [Ports -> [DOMAIN NoTimes -> Requests \cup {None}]]
  BY <1>3, TimesType DEF TypeOK
<1>6. delay' \in [Ports -> Delays]
  BY DEF TypeOK, HandleCopy, Delays
<1> HIDE DEF copy
<1>7. net' \subseteq Messages
  BY <1>4 DEF TypeOK, HandleCopy, copy
<1>8. times' \in [Ports -> [DOMAIN NoTimes -> Requests \cup {None}]]
  BY <1>5 DEF TypeOK, HandleCopy, copy
<1>9. copies' \in [Ports -> Seq(Copies)]
  BY <1>2 DEF TypeOK, HandleCopy
<1> QED BY <1>6, <1>7, <1>8, <1>9 DEF TypeOK, HandleCopy, portVars

LEMMA AnswerHandlersType ==
  ASSUME TypeOK, NEW msg \in net, HandlePdelayResp(msg) \/ HandlePdelayRespFollowUp(msg)
  PROVE  TypeOK'
<1>1. msg.to \in Ports /\ msg.of \in Requests /\ msg.of.id \in Ids
      /\ msg.correction \in Requests \cup {None}
  BY DEF TypeOK, Messages, Requests
<1>2. \A p \in Ports : \A ts, twoStep : UpdatePeerDelay(p, ts, twoStep) \in [Ports -> Delays]
  BY DEF TypeOK, UpdatePeerDelay, Delays
<1>3. CASE HandlePdelayResp(msg)
  <2>1. times' \in [Ports -> [DOMAIN NoTimes -> Requests \cup {None}]]
    BY <1>1, <1>3 DEF TypeOK, HandlePdelayResp
  <2>2. delay' \in [Ports -> Delays]
    <3>1. [delay EXCEPT ![msg.to].mistaken = FALSE] \in [Ports -> Delays]
      BY DEF TypeOK, Delays
    <3> QED BY <1>1, <1>2, <1>3, <3>1 DEF HandlePdelayResp
  <2>3. recv' \in [Ports -> Ids]
    BY <1>1, <1>3 DEF TypeOK, HandlePdelayResp
  <2> QED BY <1>3, <2>1, <2>2, <2>3 DEF TypeOK, HandlePdelayResp, portVars, Delivered
<1>4. CASE HandlePdelayRespFollowUp(msg)
  <2>1. times' \in [Ports -> [DOMAIN NoTimes -> Requests \cup {None}]]
    BY <1>1, <1>4 DEF TypeOK, HandlePdelayRespFollowUp
  <2>2. delay' \in [Ports -> Delays]
    BY <1>1, <1>2, <1>4 DEF HandlePdelayRespFollowUp
  <2> QED BY <1>4, <2>1, <2>2 DEF TypeOK, HandlePdelayRespFollowUp, portVars, Delivered
<1> QED BY <1>3, <1>4

LEMMA DisturbanceType ==
  ASSUME TypeOK, Disturbance
  PROVE  TypeOK'
<1>1. ASSUME NEW msg \in net, Lose(msg)
      PROVE  TypeOK'
  BY <1>1 DEF TypeOK, Lose, portVars, timeVars
<1>2. ASSUME NEW p \in Ports, LoseCopy(p)
      PROVE  TypeOK'
  <2>1. copies' \in [Ports -> Seq(Copies)]
    BY <1>2 DEF TypeOK, LoseCopy
  <2> QED BY <1>2, <2>1 DEF TypeOK, LoseCopy, portVars, timeVars
<1>3. ASSUME NEW p \in Ports, ChangeState(p)
      PROVE  TypeOK'
  BY <1>3 DEF TypeOK, ChangeState, timeVars
<1>4. ASSUME NEW p \in Ports, Initialize(p)
      PROVE  TypeOK'
  <2>1. config.looping \in BOOLEAN
    BY Configured DEF TypeOK
  <2>2. copies' \in [Ports -> Seq(Copies)]
    BY <1>4 DEF TypeOK, Initialize
  <2> QED BY <1>4, <2>1, <2>2 DEF TypeOK, Initialize, timeVars
<1>5. ASSUME NEW p \in Ports, HearSync(p)
      PROVE  TypeOK'
  BY <1>5 DEF TypeOK, HearSync, timeVars
<1> QED BY <1>1, <1>2, <1>3, <1>4, <1>5 DEF Disturbance

LEMMA StepType == TypeOK /\ [Next]_vars => TypeOK'
<1> SUFFICES ASSUME TypeOK, [Next]_vars PROVE TypeOK'
  OBVIOUS
<1>1. CASE UNCHANGED vars
  BY <1>1 DEF TypeOK, vars, portVars, timeVars
<1>2. ASSUME NEW msg \in net, Handle(msg)
      PROVE  TypeOK'
  <2>1. CASE Discard(msg)
    BY <2>1 DEF TypeOK, Discard, Delivered, portVars, timeVars
  <2> QED BY <1>2, <2>1, RequestHandlerType, AnswerHandlersType DEF Handle
<1> QED BY <1>1, <1>2, IssueType, CopyHandlerType, DisturbanceType DEF Next

(* Whatever is lost, late or restarted, the variables of the peer delay    *)
(* mechanism keep their types.                                             *)
THEOREM TypeCorrect == Spec => []TypeOK
<1> QED BY InitType, StepType, PTL DEF Spec

-----------------------------------------------------------------------------
(* One exchange.  Each of the four times and the two corrections is stored *)
(* by an event of its own; the invariant says of each when it is of the    *)
(* last request, and what keeps an older message from being taken for one  *)
(* of the last exchange.                                                   *)
LastRequest(p) == Request(p, LastSent(p))

(* No request of p was ever sent, or none of its messages is left.         *)
Unasked(p) ==
  /\ \A msg \in net : msg.of.port # p
  /\ \A q \in Ports : \A i \in DOMAIN copies[q] : copies[q][i].of.port # p

AllTwoStep ==
  /\ \A p \in Ports : twoStepFlag[p]
  /\ \A msg \in net : msg.kind = "resp" => msg.twoStep

(* Messages between ports that are on; an answer reaches only who asked.   *)
Routed ==
  \A msg \in net :
    /\ msg.from \in On /\ msg.to \in On /\ msg.from # msg.to
    /\ msg.kind = "req" => msg.of.port = msg.from /\ ~msg.twoStep /\ msg.correction = None
    /\ msg.kind # "req" => msg.of.port = msg.to

(* Only on a link of two ports are messages looped back, and only while    *)
(* the kernel does not stamp them.                                         *)
Looping ==
  \A p \in Ports :
    /\ txTimestampFailure[p] => Cardinality(On) = 2
    /\ copies[p] # <<>> => txTimestampFailure[p] /\ p \in On
    /\ \A i \in DOMAIN copies[p] :
         /\ copies[p][i].kind = "req" => copies[p][i].of.port = p
         /\ copies[p][i].kind = "resp" => copies[p][i].of.port \in On \ {p}
    /\ lastDst[p] # p /\ lastDst[p] \in On \cup {None}

(* t1 is of the last request once its send time is known, and no copy of   *)
(* an older request is read after that.                                    *)
SendTimes ==
  \A p \in Ports :
    \/ Unasked(p) \/ delay[p].unstamped
    \/ times[p].t1 = LastRequest(p) /\ \A i \in DOMAIN copies[p] : copies[p][i].kind # "req"

RequestsInOrder ==
  \A p \in Ports : \A i, j \in DOMAIN copies[p] :
    i < j /\ copies[p][i].kind = "req" /\ copies[p][i].of = LastRequest(p)
      => copies[p][j].kind # "req"

(* Once the Resp to the last request is recorded, t2, t4 and its           *)
(* correction are of it.                                                   *)
RespTimes ==
  \A p \in Ports :
    recv[p] = LastSent(p) /\ ~delay[p].mistaken =>
      /\ times[p].t2 = LastRequest(p) /\ times[p].t4 = LastRequest(p)
      /\ times[p].correction = LastRequest(p)

(* The Follow_Up for the last request has its correction: PdelayReqHeader  *)
(* is still that request when the copy of the Resp to it is read.          *)
Corrections ==
  \A msg \in net : msg.kind = "follow" /\ msg.of = LastRequest(msg.of.port) => msg.correction = msg.of

Headers ==
  \A p \in Ports : \A i \in DOMAIN copies[p] :
    copies[p][i].kind = "resp" /\ copies[p][i].of = LastRequest(copies[p][i].of.port) =>
      /\ header[p] = copies[p][i].of
      /\ \A msg \in net : ~(msg.kind = "req" /\ msg.to = p /\ msg.of.port = copies[p][i].of.port)

Wholes == \A p \in Ports : delay[p].whole

Exchange ==
  /\ AllTwoStep /\ Routed /\ Looping /\ SendTimes /\ RequestsInOrder
  /\ RespTimes /\ Corrections /\ Headers /\ Wholes

Covered == OnePeer /\ ~Fault("oneStep")
ExchangeInv == TypeOK /\ (Covered => Exchange)

(* The last request, were the ids next sent those of ids.                  *)
Latest(ids, p) == Request(p, Before(ids[p]))

LEMMA LastRequestType ==
  ASSUME TypeOK, NEW p \in Ports
  PROVE  /\ LastSent(p) = Before(sent[p]) /\ LastSent(p) \in Ids /\ LastSent(p) # sent[p]
         /\ LastRequest(p) \in Requests
         /\ LastRequest(p).port = p /\ LastRequest(p).id = LastSent(p)
         /\ \A r \in Requests : r.port = p =>
              /\ Succ(r.id) = sent[p] <=> r = LastRequest(p)
              /\ r.id = LastSent(p) <=> r = LastRequest(p)
              /\ Age(r) \in Nat
              /\ Age(r) = 0 <=> r = LastRequest(p)
<1>1. sent[p] \in Ids
  BY DEF TypeOK
<1>2. LastSent(p) = Before(sent[p]) /\ LastSent(p) \in Ids /\ LastSent(p) # sent[p]
  BY <1>1, IdArithmetic DEF LastSent, Before
<1>3. LastRequest(p) = [port |-> p, id |-> LastSent(p)]
  BY DEF LastRequest, Request
<1>4. LastRequest(p) \in Requests /\ LastRequest(p).port = p /\ LastRequest(p).id = LastSent(p)
  BY <1>2, <1>3 DEF Requests
<1>5. ASSUME NEW r \in Requests, r.port = p
      PROVE  /\ Succ(r.id) = sent[p] <=> r = LastRequest(p)
             /\ r.id = LastSent(p) <=> r = LastRequest(p)
             /\ Age(r) \in Nat
             /\ Age(r) = 0 <=> r = LastRequest(p)
  <2>1. r.id \in Ids /\ (r.id = LastSent(p) <=> r = LastRequest(p))
    BY <1>3, <1>5 DEF Requests
  <2>2. /\ Succ(r.id) = sent[p] <=> r.id = Before(sent[p])
        /\ (sent[p] + MODULUS - r.id - 1) % MODULUS \in Nat
        /\ (sent[p] + MODULUS - r.id - 1) % MODULUS = 0 <=> r.id = Before(sent[p])
    BY <1>1, <2>1, IdArithmetic
  <2>3. Age(r) = (sent[p] + MODULUS - r.id - 1) % MODULUS
    BY <1>5 DEF Age
  <2> QED BY <1>2, <2>1, <2>2, <2>3
<1> QED BY <1>2, <1>4, <1>5

(* The queues after a message was looped back, and after one was read.     *)
LEMMA LoopedQueue ==
  ASSUME TypeOK, NEW p \in Ports, NEW kind, NEW r,
         NEW q \in Ports, NEW i \in DOMAIN Looped(p, kind, r)[q]
  PROVE  \/ i \in DOMAIN copies[q] /\ Looped(p, kind, r)[q][i] = copies[q][i]
         \/ /\ q = p /\ i = Len(copies[p]) + 1
            /\ Looped(p, kind, r)[q][i] = [kind |-> kind, of |-> r]
  BY DEF TypeOK, Looped

LEMMA ShorterQueue ==
  ASSUME NEW s \in Seq(Copies), s # <<>>, NEW i \in DOMAIN Tail(s)
  PROVE  i \in Nat \ {0} /\ i + 1 \in DOMAIN s /\ Tail(s)[i] = s[i + 1]
  OBVIOUS

(* What is lost or ignored leaves the exchange as it was.                  *)
LEMMA NothingNew ==
  ASSUME TypeOK, Exchange, net' \subseteq net,
         UNCHANGED <<config, twoStepFlag, txTimestampFailure, sent, recv, header, lastDst,
                     times, delay>>,
         \A q \in Ports : \/ copies'[q] = copies[q]
                          \/ copies[q] # <<>> /\ copies'[q] = Tail(copies[q])
  PROVE  Exchange'
<1>1. \A q \in Ports : \A i \in DOMAIN copies'[q] :
         \/ i \in DOMAIN copies[q] /\ copies'[q] = copies[q]
         \/ /\ i \in Nat /\ i + 1 \in DOMAIN copies[q] /\ copies'[q][i] = copies[q][i + 1]
            /\ copies'[q] = Tail(copies[q])
  <2> TAKE q \in Ports
  <2> TAKE i \in DOMAIN copies'[q]
  <2>1. copies[q] \in Seq(Copies)
    BY DEF TypeOK
  <2>2. CASE copies'[q] = copies[q]
    BY <2>2
  <2>3. CASE copies[q] # <<>> /\ copies'[q] = Tail(copies[q])
    BY <2>1, <2>3, ShorterQueue
  <2> QED BY <2>2, <2>3
<1>2. \A q \in Ports : \A i \in DOMAIN copies'[q] :
         \E k \in DOMAIN copies[q] : copies'[q][i] = copies[q][k]
  BY <1>1
<1>3. On' = On /\ \A p : LastSent(p)' = LastSent(p) /\ LastRequest(p)' = LastRequest(p)
  BY DEF On, LastSent, LastRequest
<1>4. AllTwoStep' /\ Routed' /\ RespTimes' /\ Wholes'
  BY <1>3 DEF Exchange, AllTwoStep, Routed, RespTimes, Wholes
<1>5. Looping'
  <2>1. \A q \in Ports : copies'[q] # <<>> => copies[q] # <<>>
    OBVIOUS
  <2> QED BY <1>2, <1>3, <2>1 DEF Exchange, Looping
<1>6. SendTimes'
  BY <1>2, <1>3 DEF Exchange, SendTimes, Unasked
<1>7. RequestsInOrder'
  <2> SUFFICES ASSUME NEW p \in Ports, NEW i \in DOMAIN copies'[p], NEW j \in DOMAIN copies'[p],
                      i < j, copies'[p][i].kind = "req", copies'[p][i].of = LastRequest(p)
               PROVE  copies'[p][j].kind # "req"
    BY <1>3 DEF RequestsInOrder
  <2>1. \A k, l \in DOMAIN copies[p] :
          k < l /\ copies[p][k].kind = "req" /\ copies[p][k].of = LastRequest(p)
            => copies[p][l].kind # "req"
    BY DEF Exchange, RequestsInOrder
  <2>2. CASE copies'[p] = copies[p]
    BY <2>1, <2>2
  <2>3. CASE copies[p] # <<>> /\ copies'[p] = Tail(copies[p])
    <3>1. copies[p] \in Seq(Copies)
      BY DEF TypeOK
    <3>2. /\ i \in Nat /\ i + 1 \in DOMAIN copies[p] /\ copies'[p][i] = copies[p][i + 1]
          /\ j \in Nat /\ j + 1 \in DOMAIN copies[p] /\ copies'[p][j] = copies[p][j + 1]
      BY <2>3, <3>1, ShorterQueue
    <3> QED BY <2>1, <3>2
  <2> QED BY <2>2, <2>3
<1>8. Corrections'
  BY <1>3 DEF Exchange, Corrections
<1>9. Headers'
  BY <1>2, <1>3 DEF Exchange, Headers
<1> QED BY <1>4, <1>5, <1>6, <1>7, <1>8, <1>9 DEF Exchange

LEMMA InitializeKeeps ==
  ASSUME TypeOK, Covered, Exchange, NEW p \in Ports, Initialize(p)
  PROVE  Exchange'
<1>1. /\ net' = net
      /\ UNCHANGED <<config, sent, recv, header, lastDst, times, delay>>
      /\ twoStepFlag' = [twoStepFlag EXCEPT ![p] = TRUE]
      /\ txTimestampFailure' = [txTimestampFailure EXCEPT ![p] = config.looping]
      /\ copies' = [copies EXCEPT ![p] = <<>>]
  BY DEF Initialize, timeVars
<1>2. On' = On /\ \A q : LastSent(q)' = LastSent(q) /\ LastRequest(q)' = LastRequest(q)
  BY <1>1 DEF On, LastSent, LastRequest
<1>3. \A q \in Ports : copies'[q] = IF q = p THEN <<>> ELSE copies[q]
  BY <1>1 DEF TypeOK
<1>4. \A q \in Ports : \A i \in DOMAIN copies'[q] : i \in DOMAIN copies[q] /\ copies'[q] = copies[q]
  BY <1>3
<1>5. AllTwoStep' /\ Routed' /\ RespTimes' /\ Corrections' /\ Wholes'
  BY <1>1, <1>2 DEF TypeOK, Exchange, AllTwoStep, Routed, RespTimes, Corrections, Wholes
<1>6. Looping'
  <2>1. config.looping => Cardinality(On) = 2
    BY DEF Covered, OnePeer
  <2>2. \A q \in Ports : txTimestampFailure'[q] = IF q = p THEN config.looping
                                                   ELSE txTimestampFailure[q]
    BY <1>1 DEF TypeOK
  <2> QED BY <1>1, <1>2, <1>3, <2>1, <2>2 DEF Exchange, Looping
<1>7. SendTimes' /\ RequestsInOrder' /\ Headers'
  BY <1>1, <1>2, <1>4 DEF Exchange, SendTimes, Unasked, RequestsInOrder, Headers
<1> QED BY <1>5, <1>6, <1>7 DEF Exchange

(* A Resp to the last request records its times.                           *)
LEMMA RespKeeps ==
  ASSUME TypeOK, Covered, Exchange, NEW msg \in net, HandlePdelayResp(msg)
  PROVE  Exchange'
<1> DEFINE p == msg.to
           r == LastRequest(p)
<1>1. msg \in Messages /\ p \in Ports /\ msg.of \in Requests
  BY DEF TypeOK, Messages
<1>2. msg.twoStep
  BY DEF HandlePdelayResp, Exchange, AllTwoStep
<1>3. msg.of = r
  BY <1>1, LastRequestType DEF HandlePdelayResp, AnswersLastRequest
<1>4. /\ net' \subseteq net
      /\ UNCHANGED <<config, portState, twoStepFlag, txTimestampFailure, sent, header, lastDst,
                     copies>>
      /\ times' = [times EXCEPT ![p] = [@ EXCEPT !.t2 = r, !.t4 = r, !.correction = r]]
      /\ delay' = [delay EXCEPT ![p].mistaken = FALSE]
      /\ recv' = [recv EXCEPT ![p] = r.id]
  BY <1>2, <1>3 DEF HandlePdelayResp, Delivered, portVars
<1>5. On' = On /\ \A q : LastSent(q)' = LastSent(q) /\ LastRequest(q)' = LastRequest(q)
  BY <1>4 DEF On, LastSent, LastRequest
<1> HIDE DEF r, p
<1>6. \A q \in Ports : /\ delay'[q].whole = delay[q].whole
                       /\ delay'[q].unstamped = delay[q].unstamped
                       /\ q # p => delay'[q] = delay[q]
  BY <1>1, <1>4 DEF TypeOK, Delays
<1>7. \A q \in Ports : times'[q].t1 = times[q].t1 /\ (q # p => times'[q] = times[q])
  BY <1>1, <1>4 DEF TypeOK, NoTimes
<1>8. times'[p].t2 = r /\ times'[p].t4 = r /\ times'[p].correction = r
  BY <1>1, <1>4 DEF TypeOK, NoTimes
<1>9. AllTwoStep' /\ Routed' /\ Looping' /\ RequestsInOrder' /\ Corrections' /\ Headers'
  BY <1>4, <1>5 DEF Exchange, AllTwoStep, Routed, Looping, RequestsInOrder, Corrections, Headers
<1>10. SendTimes' /\ Wholes'
  BY <1>4, <1>5, <1>6, <1>7 DEF Exchange, SendTimes, Unasked, Wholes
<1>11. RespTimes'
  <2>1. \A q \in Ports : q # p => recv'[q] = recv[q]
    BY <1>4 DEF TypeOK
  <2> QED BY <1>5, <1>6, <1>7, <1>8, <2>1 DEF Exchange, RespTimes, r
<1> QED BY <1>9, <1>10, <1>11 DEF Exchange

(* A Follow_Up that is accepted completes six times of one exchange.       *)
LEMMA FollowUpKeeps ==
  ASSUME TypeOK, Covered, Exchange, NEW msg \in net, HandlePdelayRespFollowUp(msg)
  PROVE  Exchange'
<1> DEFINE p == msg.to
           r == LastRequest(p)
           ts == [times EXCEPT ![p] = [@ EXCEPT !.t3 = r, !.followUpCorrection = r]]
<1>1. msg \in Messages /\ p \in Ports /\ msg.of \in Requests
  BY DEF TypeOK, Messages
<1>2. msg.kind = "follow" /\ msg.of.port = p
  BY DEF HandlePdelayRespFollowUp, Exchange, Routed
<1>3. msg.of = r /\ recv[p] = LastSent(p)
  BY <1>1, <1>2, LastRequestType
     DEF HandlePdelayRespFollowUp, FollowsRecorded, AnswersLastRequest
<1>4. msg.correction = r
  BY <1>2, <1>3 DEF Exchange, Corrections
<1>5. /\ net' \subseteq net
      /\ UNCHANGED <<config, portState, twoStepFlag, txTimestampFailure, sent, recv, header,
                     lastDst, copies>>
      /\ times' = ts /\ delay' = UpdatePeerDelay(p, ts, TRUE)
  BY <1>3, <1>4 DEF HandlePdelayRespFollowUp, Delivered, portVars
<1>6. On' = On /\ \A q : LastSent(q)' = LastSent(q) /\ LastRequest(q)' = LastRequest(q)
  BY <1>5 DEF On, LastSent, LastRequest
<1>7. /\ \A q \in Ports : /\ ts[q].t1 = times[q].t1 /\ ts[q].t2 = times[q].t2
                          /\ ts[q].t4 = times[q].t4 /\ ts[q].correction = times[q].correction
      /\ ts[p].t3 = r /\ ts[p].followUpCorrection = r
  BY <1>1 DEF TypeOK, NoTimes
<1>8. delay[p].unstamped \/ delay[p].mistaken \/ \A t \in DOMAIN NoTimes : ts[p][t] = r
  <2>1. ~Unasked(p)
    BY <1>2 DEF Unasked
  <2>2. delay[p].unstamped \/ times[p].t1 = r
    BY <1>1, <2>1 DEF Exchange, SendTimes
  <2>3. ~delay[p].mistaken => times[p].t2 = r /\ times[p].t4 = r /\ times[p].correction = r
    BY <1>1, <1>3 DEF Exchange, RespTimes
  <2>4. \A t \in DOMAIN NoTimes : t \in {"t1", "t2", "t3", "t4", "correction", "followUpCorrection"}
    BY DEF NoTimes
  <2> QED BY <1>1, <1>7, <2>2, <2>3, <2>4
<1> HIDE DEF ts, r, p
<1>9. \A q \in Ports : /\ delay'[q].unstamped = delay[q].unstamped
                       /\ delay'[q].mistaken = delay[q].mistaken
                       /\ q # p => delay'[q] = delay[q]
  BY <1>1, <1>5 DEF TypeOK, Delays, UpdatePeerDelay
<1>10. delay'[p].whole
  <2>1. delay[p] \in Delays /\ delay \in [Ports -> Delays] /\ UsedTimes(TRUE) = DOMAIN NoTimes
    BY <1>1 DEF TypeOK, UsedTimes
  <2>2. r = Request(p, LastSent(p))
    BY DEF r, LastRequest
  <2>3. PICK w : w = (\/ delay[p].unstamped \/ delay[p].mistaken
                      \/ \A t \in UsedTimes(TRUE) : ts[p][t] = Request(p, LastSent(p)))
    OBVIOUS
  <2>4. UpdatePeerDelay(p, ts, TRUE) = [delay EXCEPT ![p].measured = TRUE, ![p].whole = w]
    BY <2>3 DEF UpdatePeerDelay
  <2>5. delay'[p].whole = w
    BY <1>1, <1>5, <2>1, <2>4 DEF Delays
  <2>6. w
    BY <1>8, <2>1, <2>2, <2>3
  <2> QED BY <2>5, <2>6
<1>11. AllTwoStep' /\ Routed' /\ Looping' /\ RequestsInOrder' /\ Corrections' /\ Headers'
  BY <1>5, <1>6 DEF Exchange, AllTwoStep, Routed, Looping, RequestsInOrder, Corrections, Headers
<1>12. SendTimes'
  BY <1>5, <1>6, <1>7, <1>9 DEF Exchange, SendTimes, Unasked
<1>13. RespTimes'
  BY <1>5, <1>6, <1>7, <1>9 DEF Exchange, RespTimes
<1>14. Wholes'
  BY <1>9, <1>10 DEF Exchange, Wholes
<1> QED BY <1>11, <1>12, <1>13, <1>14 DEF Exchange

(* A message that cannot be stamped is looped back, on a link of two ports.*)
LEMMA Unstamped ==
  ASSUME Covered, Exchange, NEW p \in Ports, StampFails(p) \/ txTimestampFailure[p]
  PROVE  Cardinality(On) = 2
<1>1. CASE StampFails(p)
  BY <1>1 DEF StampFails, Covered, OnePeer
<1>2. CASE txTimestampFailure[p]
  BY <1>2 DEF Exchange, Looping
<1> QED BY <1>1, <1>2

(* The answer goes to who asked.                                           *)
LEMMA AnswersReach ==
  ASSUME TypeOK, Covered, Exchange, NEW msg \in net, msg.kind = "req"
  PROVE  LET dst == IF config.peer[msg.from] # None THEN msg.from ELSE None
         IN  /\ dst \in On \cup {None} /\ dst # msg.to
             /\ \A to : (IF dst = None THEN to \in On \ {msg.to} ELSE to = dst) => to = msg.from
<1>1. /\ msg.from \in On /\ msg.to \in On /\ msg.from # msg.to
  BY DEF Exchange, Routed
<1>2. config \in Configurations /\ On \subseteq Ports /\ None \notin Ports
  BY Configured DEF TypeOK
<1>3. CASE config.peer[msg.from] = None
  <2>1. Cardinality(On) = 2
    BY <1>1, <1>3 DEF Covered, OnePeer
  <2>2. \A to \in On \ {msg.to} : to = msg.from
    BY <1>1, <1>2, <2>1, OneOther
  <2> QED BY <1>1, <1>2, <1>3, <2>2
<1>4. CASE config.peer[msg.from] # None
  BY <1>1, <1>2, <1>4
<1> QED BY <1>3, <1>4

(* A request is answered, and the Resp followed up at once or looped back. *)
LEMMA RequestKeeps ==
  ASSUME TypeOK, Covered, Exchange, NEW msg \in net, InOrder(msg), HandlePdelayReq(msg)
  PROVE  Exchange'
<1> DEFINE p == msg.to
           q == msg.from
           r == msg.of
           dst == IF config.peer[msg.from] # None THEN msg.from ELSE None
<1>1. /\ msg \in Messages /\ p \in Ports /\ q \in Ports /\ r \in Requests /\ msg.kind = "req"
      /\ p \in On /\ q \in On /\ p # q /\ r.port = q /\ ~msg.twoStep /\ msg.correction = None
  BY DEF TypeOK, Messages, HandlePdelayReq, Exchange, Routed
<1>2. /\ dst \in On \cup {None} /\ dst # p
      /\ \A to : (IF dst = None THEN to \in On \ {p} ELSE to = dst) => to = q
  BY <1>1, AnswersReach
<1>3. /\ header' = [header EXCEPT ![p] = r] /\ lastDst' = [lastDst EXCEPT ![p] = dst]
      /\ UNCHANGED <<config, portState, twoStepFlag, sent, recv, times, delay>>
  BY DEF HandlePdelayReq, timeVars
<1>4. net' \subseteq (net \ {msg}) \cup Sent("resp", p, dst, r, twoStepFlag[p], None)
                       \cup Sent("follow", p, dst, r, TRUE, r)
  BY DEF HandlePdelayReq, Delivered, FollowUp
<1>5. \/ UNCHANGED <<txTimestampFailure, copies>>
      \/ /\ StampFails(p) \/ txTimestampFailure[p]
         /\ txTimestampFailure' = [txTimestampFailure EXCEPT ![p] = TRUE]
         /\ copies' = copies \/ copies' = Looped(p, "resp", r)
  BY DEF HandlePdelayReq
<1>6. On' = On /\ \A s : LastSent(s)' = LastSent(s) /\ LastRequest(s)' = LastRequest(s)
  BY <1>3 DEF On, LastSent, LastRequest
<1>7. twoStepFlag[p]
  BY <1>1 DEF Exchange, AllTwoStep
<1> HIDE DEF p, q, r, dst
<1>8. ASSUME NEW m \in net', m \notin net \ {msg}
      PROVE  /\ m.kind \in {"resp", "follow"} /\ m.from = p /\ m.to = q /\ m.of = r
             /\ m.twoStep /\ (m.kind = "follow" => m.correction = r)
  <2>1. CASE m \in Sent("resp", p, dst, r, twoStepFlag[p], None)
    <3>1. /\ m = [kind |-> "resp", from |-> p, to |-> m.to, of |-> r, twoStep |-> twoStepFlag[p],
                  correction |-> None]
          /\ IF dst = None THEN m.to \in On \ {p} ELSE m.to = dst
      BY <2>1, SentMessages
    <3>2. m.to = q
      BY <1>2, <3>1
    <3> QED BY <1>7, <3>1, <3>2
  <2>2. CASE m \in Sent("follow", p, dst, r, TRUE, r)
    <3>1. /\ m = [kind |-> "follow", from |-> p, to |-> m.to, of |-> r, twoStep |-> TRUE,
                  correction |-> r]
          /\ IF dst = None THEN m.to \in On \ {p} ELSE m.to = dst
      BY <2>2 DEF Sent, Message
    <3>2. m.to = q
      BY <1>2, <3>1
    <3> QED BY <1>7, <3>1, <3>2
  <2> QED BY <1>4, <1>8, <2>1, <2>2
<1>9. \A s \in Ports : \A i \in DOMAIN copies'[s] :
        \/ i \in DOMAIN copies[s] /\ copies'[s][i] = copies[s][i]
        \/ s = p /\ i = Len(copies[p]) + 1 /\ copies'[s][i] = [kind |-> "resp", of |-> r]
  BY <1>1, <1>5, LoopedQueue
<1>10. AllTwoStep'
  BY <1>3, <1>8 DEF Exchange, AllTwoStep
<1>11. Routed'
  <2> SUFFICES ASSUME NEW m \in net'
               PROVE  /\ m.from \in On /\ m.to \in On /\ m.from # m.to
                      /\ m.kind = "req" => m.of.port = m.from /\ ~m.twoStep /\ m.correction = None
                      /\ m.kind # "req" => m.of.port = m.to
    BY <1>6 DEF Routed
  <2>1. CASE m \in net \ {msg}
    BY <2>1 DEF Exchange, Routed
  <2>2. CASE m \notin net \ {msg}
    BY <1>1, <1>8, <2>2
  <2> QED BY <2>1, <2>2
<1>12. Looping'
  <2> SUFFICES ASSUME NEW s \in Ports
               PROVE  /\ txTimestampFailure'[s] => Cardinality(On) = 2
                      /\ copies'[s] # <<>> => txTimestampFailure'[s] /\ s \in On
                      /\ \A i \in DOMAIN copies'[s] :
                           /\ copies'[s][i].kind = "req" => copies'[s][i].of.port = s
                           /\ copies'[s][i].kind = "resp" => copies'[s][i].of.port \in On \ {s}
                      /\ lastDst'[s] # s /\ lastDst'[s] \in On \cup {None}
    BY <1>6 DEF Looping
  <2>1. lastDst'[s] # s /\ lastDst'[s] \in On \cup {None}
    BY <1>1, <1>2, <1>3 DEF TypeOK, Exchange, Looping
  <2>2. ASSUME NEW i \in DOMAIN copies'[s]
        PROVE  /\ copies'[s][i].kind = "req" => copies'[s][i].of.port = s
               /\ copies'[s][i].kind = "resp" => copies'[s][i].of.port \in On \ {s}
    BY <1>1, <1>9 DEF Exchange, Looping
  <2>3. /\ txTimestampFailure'[s] => Cardinality(On) = 2
        /\ copies'[s] # <<>> => txTimestampFailure'[s] /\ s \in On
    <3>1. CASE UNCHANGED <<txTimestampFailure, copies>>
      BY <3>1 DEF Exchange, Looping
    <3>2. CASE /\ StampFails(p) \/ txTimestampFailure[p]
               /\ txTimestampFailure' = [txTimestampFailure EXCEPT ![p] = TRUE]
               /\ copies' = copies \/ copies' = Looped(p, "resp", r)
      <4>1. Cardinality(On) = 2
        BY <1>1, <3>2, Unstamped
      <4>2. s # p => copies'[s] = copies[s] /\ txTimestampFailure'[s] = txTimestampFailure[s]
        BY <3>2 DEF TypeOK, Looped
      <4>3. s = p => txTimestampFailure'[s]
        BY <1>1, <3>2 DEF TypeOK
      <4> QED BY <1>1, <4>1, <4>2, <4>3 DEF Exchange, Looping
    <3> QED BY <1>5, <3>1, <3>2
  <2> QED BY <2>1, <2>2, <2>3
<1>13. SendTimes'
  <2> SUFFICES ASSUME NEW s \in Ports
               PROVE  \/ Unasked(s)' \/ delay'[s].unstamped
                      \/ /\ times'[s].t1 = LastRequest(s)
                         /\ \A i \in DOMAIN copies'[s] : copies'[s][i].kind # "req"
    BY <1>6 DEF SendTimes
  <2>1. Unasked(s) => Unasked(s)'
    <3> SUFFICES ASSUME Unasked(s) PROVE Unasked(s)'
      OBVIOUS
    <3>1. s # q
      BY <1>1 DEF Unasked, q, r
    <3>2. \A m \in net' : m.of.port # s
      BY <1>1, <1>8, <3>1 DEF Unasked
    <3>3. \A t \in Ports : \A i \in DOMAIN copies'[t] : copies'[t][i].of.port # s
      BY <1>1, <1>9, <3>1 DEF Unasked
    <3> QED BY <3>2, <3>3 DEF Unasked
  <2>2. delay' = delay /\ times' = times
    BY <1>3
  <2> QED BY <1>9, <2>1, <2>2 DEF Exchange, SendTimes
<1>14. RequestsInOrder'
  <2> SUFFICES ASSUME NEW s \in Ports, NEW i \in DOMAIN copies'[s], NEW j \in DOMAIN copies'[s],
                      i < j, copies'[s][i].kind = "req", copies'[s][i].of = LastRequest(s)
               PROVE  copies'[s][j].kind # "req"
    BY <1>6 DEF RequestsInOrder
  <2> QED BY <1>9 DEF Exchange, RequestsInOrder
<1>15. RespTimes' /\ Wholes'
  BY <1>3, <1>6 DEF Exchange, RespTimes, Wholes
<1>16. Corrections'
  BY <1>6, <1>8 DEF Exchange, Corrections
<1>17. Headers'
  <2> SUFFICES ASSUME NEW s \in Ports, NEW i \in DOMAIN copies'[s],
                      copies'[s][i].kind = "resp",
                      copies'[s][i].of = LastRequest(copies'[s][i].of.port)
               PROVE  /\ header'[s] = copies'[s][i].of
                      /\ \A m \in net' : ~(/\ m.kind = "req" /\ m.to = s
                                           /\ m.of.port = copies'[s][i].of.port)
    BY <1>6 DEF Headers
  <2>1. \A m \in net' : m.kind = "req" => m \in net \ {msg}
    BY <1>8
  <2>2. CASE i \in DOMAIN copies[s] /\ copies'[s][i] = copies[s][i]
    <3>1. /\ header[s] = copies[s][i].of
          /\ \A m \in net : ~(m.kind = "req" /\ m.to = s /\ m.of.port = copies[s][i].of.port)
      BY <2>2 DEF Exchange, Headers
    <3>2. s # p
      <4> SUFFICES ASSUME s = p PROVE FALSE
        OBVIOUS
      <4>1. copies[s][i].of.port \in On \ {p} /\ copies[s] # <<>>
        BY <2>2 DEF Exchange, Looping
      <4>2. Cardinality(On) = 2
        BY <4>1 DEF Exchange, Looping
      <4>3. copies[s][i].of.port = q
        BY <1>1, <4>1, <4>2, OneOther DEF TypeOK
      <4> QED BY <1>1, <3>1, <4>3 DEF p, r
    <3>3. header'[s] = header[s]
      BY <1>3, <3>2 DEF TypeOK
    <3> QED BY <2>1, <2>2, <3>1, <3>3
  <2>3. CASE s = p /\ copies'[s][i] = [kind |-> "resp", of |-> r]
    <3>1. r = LastRequest(q)
      BY <1>1, <2>3
    <3>2. header'[s] = r
      BY <1>1, <1>3, <2>3 DEF TypeOK
    <3>3. ASSUME NEW m \in net \ {msg}, m.kind = "req", m.to = p, m.of.port = q
          PROVE  FALSE
      <4>1. m \in Messages /\ m.of \in Requests /\ m.from = q /\ ~m.twoStep /\ m.correction = None
        BY <3>3 DEF TypeOK, Messages, Exchange, Routed
      <4>2. Age(m.of) <= Age(r)
        BY <1>1, <3>3, <4>1 DEF InOrder, p, q, r
      <4>3. Age(r) = 0 /\ Age(m.of) \in Nat
        BY <1>1, <3>1, <3>3, <4>1, LastRequestType
      <4>4. Age(m.of) = 0
        BY <4>2, <4>3
      <4>5. m.of = r
        BY <1>1, <3>1, <3>3, <4>1, <4>4, LastRequestType
      <4>6. m = msg
        BY <1>1, <3>3, <4>1, <4>5 DEF Messages, p, q, r
      <4> QED BY <4>6
    <3>4. copies'[s][i].of = r
      BY <2>3
    <3> QED BY <1>1, <2>1, <2>3, <3>2, <3>3, <3>4
  <2> QED BY <1>9, <2>2, <2>3
<1> QED
  BY <1>10, <1>11, <1>12, <1>13, <1>14, <1>15, <1>16, <1>17 DEF Exchange

(* The copy of an own message is read.                                     *)
LEMMA CopyKeeps ==
  ASSUME TypeOK, Covered, Exchange, NEW p \in Ports, HandleCopy(p)
  PROVE  Exchange'
<1> DEFINE copy == Head(copies[p])
           r == copy.of
           other == copy.of.port
<1>1. /\ copies[p] \in Seq(Copies) /\ copies[p] # <<>> /\ 1 \in DOMAIN copies[p]
      /\ copy = copies[p][1] /\ copy \in Copies /\ r \in Requests /\ other \in Ports
  <2>1. copies[p] \in Seq(Copies) /\ copies[p] # <<>>
    BY DEF TypeOK, HandleCopy
  <2>2. 1 \in DOMAIN copies[p] /\ copy = copies[p][1] /\ copy \in Copies
    BY <2>1
  <2>3. r \in Requests
    BY <2>2 DEF Copies
  <2>4. other \in Ports
    BY <2>3 DEF Requests
  <2> QED BY <2>1, <2>2, <2>3, <2>4
<1>2. /\ p \in On /\ txTimestampFailure[p] /\ Cardinality(On) = 2
      /\ copy.kind = "req" => other = p
      /\ copy.kind = "resp" => other \in On \ {p}
  BY <1>1 DEF Exchange, Looping
<1>3. /\ copies' = [copies EXCEPT ![p] = Tail(@)]
      /\ times' = times \/ (copy.kind = "req" /\ times' = OwnRequestSent(times, p, r))
      /\ UNCHANGED <<config, portState, twoStepFlag, txTimestampFailure, sent, recv, header, lastDst>>
  BY DEF HandleCopy, portVars
<1>4. /\ net \subseteq net'
      /\ \A m \in net' : m \in net \/ /\ copy.kind = "resp"
                                      /\ m \in Sent("follow", p, lastDst[p], r, TRUE, header[p])
  BY DEF HandleCopy, FollowUp
<1>5. \/ /\ copy.kind = "req" /\ r = LastRequest(p) /\ portState[p] \in Answering
         /\ times' = OwnRequestSent(times, p, r)
         /\ delay' = [delay EXCEPT ![p].unstamped = FALSE]
      \/ delay' = delay
  <2>1. CASE copy = [kind |-> "req", of |-> LastRequest(p)] /\ portState[p] \in Answering
    <3>1. times' = OwnRequestSent(times, p, r)
      BY <2>1 DEF HandleCopy
    <3>2. delay' = [delay EXCEPT ![p].unstamped = FALSE]
      BY <2>1 DEF HandleCopy, LastRequest
    <3> QED BY <2>1, <3>1, <3>2
  <2>2. CASE ~(copy = [kind |-> "req", of |-> LastRequest(p)] /\ portState[p] \in Answering)
    <3>1. delay' = [delay EXCEPT ![p].unstamped = @ /\ TRUE]
      BY <2>2 DEF HandleCopy, LastRequest
    <3>2. delay' = delay
      BY <3>1 DEF TypeOK, Delays
    <3> QED BY <3>2
  <2> QED BY <2>1, <2>2
<1>6. On' = On /\ \A s : LastSent(s)' = LastSent(s) /\ LastRequest(s)' = LastRequest(s)
  BY <1>3 DEF On, LastSent, LastRequest
<1> HIDE DEF copy, r, other
<1>7. /\ \A s \in Ports \ {p} : copies'[s] = copies[s]
      /\ copies'[p] = Tail(copies[p])
  BY <1>3 DEF TypeOK
<1>8. \A i \in DOMAIN copies'[p] :
        i \in Nat \ {0} /\ i + 1 \in DOMAIN copies[p] /\ copies'[p][i] = copies[p][i + 1]
  BY <1>1, <1>7, ShorterQueue
<1>9. \A s \in Ports : \A i \in DOMAIN copies'[s] :
        \E k \in DOMAIN copies[s] : copies'[s][i] = copies[s][k]
  BY <1>7, <1>8
<1>10. ASSUME NEW m \in net', m \notin net
       PROVE  /\ copy.kind = "resp" /\ m.kind = "follow" /\ m.from = p /\ m.to = other
              /\ m.of = r /\ m.correction = header[p]
  <2>1. /\ copy.kind = "resp"
        /\ m \in Sent("follow", p, lastDst[p], r, TRUE, header[p])
    BY <1>4, <1>10
  <2>2. /\ m = [kind |-> "follow", from |-> p, to |-> m.to, of |-> r, twoStep |-> TRUE,
                correction |-> header[p]]
        /\ IF lastDst[p] = None THEN m.to \in On \ {p} ELSE m.to = lastDst[p]
    BY <2>1 DEF Sent, Message
  <2>3. m.to \in On \ {p}
    BY <2>2 DEF Exchange, Looping
  <2>4. m.to = other
    BY <1>2, <2>1, <2>3, OneOther DEF TypeOK
  <2> QED BY <2>1, <2>2, <2>4
<1>20. \A s \in Ports : delay'[s].mistaken = delay[s].mistaken /\ delay'[s].whole = delay[s].whole
  <2>1. CASE delay' = [delay EXCEPT ![p].unstamped = FALSE]
    BY <2>1 DEF TypeOK, Delays
  <2>2. CASE delay' = delay
    BY <2>2
  <2> QED BY <1>5, <2>1, <2>2
<1>11. AllTwoStep'
  BY <1>3, <1>10 DEF Exchange, AllTwoStep
<1>12. Routed'
  <2> SUFFICES ASSUME NEW m \in net'
               PROVE  /\ m.from \in On /\ m.to \in On /\ m.from # m.to
                      /\ m.kind = "req" => m.of.port = m.from /\ ~m.twoStep /\ m.correction = None
                      /\ m.kind # "req" => m.of.port = m.to
    BY <1>6 DEF Routed
  <2>1. CASE m \in net
    BY <2>1 DEF Exchange, Routed
  <2>2. CASE m \notin net
    BY <1>2, <1>10, <2>2 DEF other, r
  <2> QED BY <2>1, <2>2
<1>13. Looping'
  <2>1. \A s \in Ports : copies'[s] # <<>> => copies[s] # <<>>
    BY <1>1, <1>7
  <2> QED BY <1>3, <1>6, <1>9, <2>1 DEF Exchange, Looping
<1>14. SendTimes'
  <2> SUFFICES ASSUME NEW s \in Ports
               PROVE  \/ Unasked(s)' \/ delay'[s].unstamped
                      \/ /\ times'[s].t1 = LastRequest(s)
                         /\ \A i \in DOMAIN copies'[s] : copies'[s][i].kind # "req"
    BY <1>6 DEF SendTimes
  <2>1. Unasked(s) => Unasked(s)' /\ s # other
    <3> SUFFICES ASSUME Unasked(s) PROVE Unasked(s)' /\ s # other
      OBVIOUS
    <3>1. s # other
      BY <1>1 DEF Unasked, other
    <3>2. \A m \in net' : m.of.port # s
      BY <1>10, <3>1 DEF Unasked, other, r
    <3>3. \A t \in Ports : \A i \in DOMAIN copies'[t] : copies'[t][i].of.port # s
      BY <1>9 DEF Unasked
    <3> QED BY <3>1, <3>2, <3>3 DEF Unasked
  <2>2. \/ Unasked(s) \/ delay[s].unstamped
        \/ times[s].t1 = LastRequest(s) /\ \A i \in DOMAIN copies[s] : copies[s][i].kind # "req"
    BY DEF Exchange, SendTimes
  <2>3. CASE s # p
    <3>1. delay'[s] = delay[s] /\ times'[s] = times[s]
      BY <1>3, <1>5, <2>3 DEF TypeOK, OwnRequestSent
    <3> QED BY <1>9, <2>1, <2>2, <3>1
  <2>4. CASE s = p /\ delay' = delay
    <3>1. copy.kind = "req" => Unasked(s) \/ delay[s].unstamped
      BY <1>1, <2>2, <2>4
    <3>2. CASE Unasked(s) \/ delay[s].unstamped
      BY <2>1, <2>4, <3>2
    <3>3. CASE copy.kind # "req"
      <4>1. times' = times
        BY <1>3, <3>3
      <4> QED BY <1>9, <2>1, <2>2, <2>4, <4>1
    <3> QED BY <3>1, <3>2, <3>3
  <2>5. CASE /\ s = p /\ copy.kind = "req" /\ r = LastRequest(p)
             /\ times' = OwnRequestSent(times, p, r)
    <3>1. times'[s].t1 = LastRequest(s)
      BY <2>5 DEF TypeOK, OwnRequestSent, NoTimes
    <3>2. ASSUME NEW i \in DOMAIN copies'[s]
          PROVE  copies'[s][i].kind # "req"
      <4>1. i \in Nat \ {0} /\ i + 1 \in DOMAIN copies[p] /\ copies'[s][i] = copies[p][i + 1]
        BY <1>8, <2>5
      <4>2. 1 < i + 1
        BY <4>1
      <4>3. copies[p][1].kind = "req" /\ copies[p][1].of = LastRequest(p)
        BY <1>1, <2>5 DEF r
      <4> QED BY <1>1, <2>5, <4>1, <4>2, <4>3 DEF Exchange, RequestsInOrder
    <3> QED BY <3>1, <3>2
  <2> QED BY <1>5, <2>3, <2>4, <2>5
<1>15. RequestsInOrder'
  <2> SUFFICES ASSUME NEW s \in Ports, NEW i \in DOMAIN copies'[s], NEW j \in DOMAIN copies'[s],
                      i < j, copies'[s][i].kind = "req", copies'[s][i].of = LastRequest(s)
               PROVE  copies'[s][j].kind # "req"
    BY <1>6 DEF RequestsInOrder
  <2>1. CASE s # p
    BY <1>7, <2>1 DEF Exchange, RequestsInOrder
  <2>2. CASE s = p
    <3>1. /\ i \in Nat /\ i + 1 \in DOMAIN copies[p] /\ copies'[p][i] = copies[p][i + 1]
          /\ j \in Nat /\ j + 1 \in DOMAIN copies[p] /\ copies'[p][j] = copies[p][j + 1]
          /\ i + 1 < j + 1
      BY <1>8, <2>2
    <3> QED BY <2>2, <3>1 DEF Exchange, RequestsInOrder
  <2> QED BY <2>1, <2>2
<1>16. RespTimes'
  <2>1. CASE times' = times
    BY <1>3, <1>6, <1>20, <2>1 DEF Exchange, RespTimes
  <2>2. CASE times' = OwnRequestSent(times, p, r)
    <3>1. \A s \in Ports : /\ times'[s].t2 = times[s].t2 /\ times'[s].t4 = times[s].t4
                           /\ times'[s].correction = times[s].correction
      BY <2>2, OwnRequestTime
    <3>2. \A s \in Ports : recv[s] = LastSent(s) /\ ~delay[s].mistaken =>
            /\ times[s].t2 = LastRequest(s) /\ times[s].t4 = LastRequest(s)
            /\ times[s].correction = LastRequest(s)
      BY DEF Exchange, RespTimes
    <3> QED BY <1>3, <1>6, <1>20, <3>1, <3>2 DEF RespTimes
  <2> QED BY <1>3, <2>1, <2>2
<1>17. Wholes'
  BY <1>20 DEF Exchange, Wholes
<1>18. Corrections'
  <2> SUFFICES ASSUME NEW m \in net', m.kind = "follow", m.of = LastRequest(m.of.port)
               PROVE  m.correction = m.of
    BY <1>6 DEF Corrections
  <2>1. CASE m \in net
    BY <2>1 DEF Exchange, Corrections
  <2>2. CASE m \notin net
    <3>1. copy.kind = "resp" /\ m.of = r /\ m.correction = header[p]
      BY <1>10, <2>2
    <3>2. copies[p][1].kind = "resp" /\ copies[p][1].of = m.of
      BY <1>1, <3>1 DEF r
    <3>3. header[p] = m.of
      BY <1>1, <3>2 DEF Exchange, Headers
    <3> QED BY <3>1, <3>3
  <2> QED BY <2>1, <2>2
<1>19. Headers'
  <2>1. \A m \in net' : m.kind = "req" => m \in net
    BY <1>10
  <2> QED BY <1>3, <1>6, <1>9, <2>1 DEF Exchange, Headers
<1> QED
  BY <1>11, <1>12, <1>13, <1>14, <1>15, <1>16, <1>17, <1>18, <1>19 DEF Exchange

(* A new request: nothing of the one that had its id is left.              *)
LEMMA IssueKeeps ==
  ASSUME TypeOK, Covered, Exchange, NEW p \in Ports, IssuePdelayReq(p)
  PROVE  Exchange'
<1> DEFINE r == Request(p, sent[p])
           dst == config.peer[p]
<1>1. /\ p \in On /\ On \subseteq Ports /\ dst \in (On \ {p}) \cup {None} /\ None \notin Ports
      /\ sent[p] \in Ids /\ r \in Requests /\ r.port = p /\ r.id = sent[p]
  BY Configured, RequestType DEF TypeOK, IssuePdelayReq
<1>2. /\ sent' = [sent EXCEPT ![p] = Succ(@)]
      /\ UNCHANGED <<config, portState, twoStepFlag, recv, header, lastDst>>
      /\ net' = (net \ {msg \in net : msg.of = r}) \cup Sent("req", p, dst, r, FALSE, None)
      /\ ~Copied(r)
  BY DEF IssuePdelayReq
<1>3. \/ /\ ~txTimestampFailure[p] /\ UNCHANGED <<txTimestampFailure, copies>>
         /\ times' = OwnRequestSent(Forget(p, r), p, r)
      \/ /\ StampFails(p) \/ txTimestampFailure[p]
         /\ txTimestampFailure' = [txTimestampFailure EXCEPT ![p] = TRUE]
         /\ copies' = copies \/ copies' = Looped(p, "req", r)
         /\ times' = Forget(p, r)
  BY DEF IssuePdelayReq, StampComes
<1>4. /\ delay'[p].whole /\ (txTimestampFailure'[p] => delay'[p].unstamped)
      /\ recv[p] = sent[p] => delay'[p].mistaken
      /\ \A s \in Ports \ {p} : delay'[s] = delay[s]
  BY DEF TypeOK, IssuePdelayReq, NoDelay
<1>5. LastSent(p)' = sent[p] /\ LastRequest(p)' = r
  <2>1. sent'[p] = Succ(sent[p])
    BY <1>2 DEF TypeOK
  <2>2. Before(Succ(sent[p])) = sent[p]
    BY <1>1, IdArithmetic
  <2> QED BY <2>1, <2>2 DEF LastSent, LastRequest, Before
<1>6. \A s \in Ports \ {p} : LastSent(s)' = LastSent(s) /\ LastRequest(s)' = LastRequest(s)
  BY <1>2 DEF TypeOK, LastSent, LastRequest
<1>7. On' = On
  BY <1>2 DEF On
<1> HIDE DEF r, dst
<1>8. ASSUME NEW m \in net'
      PROVE  \/ m \in net /\ m.of # r
             \/ /\ m.kind = "req" /\ m.from = p /\ m.to \in On \ {p} /\ m.of = r
                /\ ~m.twoStep /\ m.correction = None
  <2>1. CASE m \in Sent("req", p, dst, r, FALSE, None)
    BY <1>1, <2>1 DEF Sent, Message
  <2> QED BY <1>2, <2>1
<1>9. \A s \in Ports : \A i \in DOMAIN copies[s] : copies[s][i].of # r
  BY <1>2 DEF Copied, Exchange, Looping
<1>10. \A s \in Ports : \A i \in DOMAIN copies'[s] :
         \/ i \in DOMAIN copies[s] /\ copies'[s][i] = copies[s][i]
         \/ /\ s = p /\ i = Len(copies[p]) + 1 /\ txTimestampFailure'[p]
            /\ copies'[s][i] = [kind |-> "req", of |-> r]
  <2> TAKE s \in Ports
  <2> TAKE i \in DOMAIN copies'[s]
  <2>1. CASE copies' = copies
    BY <2>1
  <2>2. CASE /\ txTimestampFailure' = [txTimestampFailure EXCEPT ![p] = TRUE]
             /\ copies' = Looped(p, "req", r)
    <3>1. txTimestampFailure'[p]
      BY <2>2 DEF TypeOK
    <3> QED BY <2>2, <3>1, LoopedQueue
  <2> QED BY <1>3, <2>1, <2>2
<1>11. AllTwoStep'
  BY <1>2, <1>8 DEF Exchange, AllTwoStep
<1>12. Routed'
  <2> SUFFICES ASSUME NEW m \in net'
               PROVE  /\ m.from \in On /\ m.to \in On /\ m.from # m.to
                      /\ m.kind = "req" => m.of.port = m.from /\ ~m.twoStep /\ m.correction = None
                      /\ m.kind # "req" => m.of.port = m.to
    BY <1>7 DEF Routed
  <2>1. CASE m \in net
    BY <2>1 DEF Exchange, Routed
  <2>2. CASE m \notin net
    BY <1>1, <1>8, <2>2
  <2> QED BY <2>1, <2>2
<1>13. Looping'
  <2> SUFFICES ASSUME NEW s \in Ports
               PROVE  /\ txTimestampFailure'[s] => Cardinality(On) = 2
                      /\ copies'[s] # <<>> => txTimestampFailure'[s] /\ s \in On
                      /\ \A i \in DOMAIN copies'[s] :
                           /\ copies'[s][i].kind = "req" => copies'[s][i].of.port = s
                           /\ copies'[s][i].kind = "resp" => copies'[s][i].of.port \in On \ {s}
                      /\ lastDst'[s] # s /\ lastDst'[s] \in On \cup {None}
    BY <1>7 DEF Looping
  <2>1. lastDst'[s] # s /\ lastDst'[s] \in On \cup {None}
    BY <1>2 DEF Exchange, Looping
  <2>2. ASSUME NEW i \in DOMAIN copies'[s]
        PROVE  /\ copies'[s][i].kind = "req" => copies'[s][i].of.port = s
               /\ copies'[s][i].kind = "resp" => copies'[s][i].of.port \in On \ {s}
    BY <1>1, <1>10 DEF Exchange, Looping
  <2>3. /\ txTimestampFailure'[s] => Cardinality(On) = 2
        /\ copies'[s] # <<>> => txTimestampFailure'[s] /\ s \in On
    <3>1. CASE UNCHANGED <<txTimestampFailure, copies>>
      BY <3>1 DEF Exchange, Looping
    <3>2. CASE /\ StampFails(p) \/ txTimestampFailure[p]
               /\ txTimestampFailure' = [txTimestampFailure EXCEPT ![p] = TRUE]
               /\ copies' = copies \/ copies' = Looped(p, "req", r)
      <4>1. Cardinality(On) = 2
        BY <3>2, Unstamped
      <4>2. s # p => copies'[s] = copies[s] /\ txTimestampFailure'[s] = txTimestampFailure[s]
        BY <3>2 DEF TypeOK, Looped
      <4>3. s = p => txTimestampFailure'[s]
        BY <3>2 DEF TypeOK
      <4> QED BY <1>1, <4>1, <4>2, <4>3 DEF Exchange, Looping
    <3> QED BY <1>3, <3>1, <3>2
  <2> QED BY <2>1, <2>2, <2>3
<1>14. \A s \in Ports \ {p} : times'[s] = times[s]
  BY <1>3 DEF TypeOK, Forget, OwnRequestSent
<1>15. SendTimes'
  <2> SUFFICES ASSUME NEW s \in Ports
               PROVE  \/ Unasked(s)' \/ delay'[s].unstamped
                      \/ /\ times'[s].t1 = LastRequest(s)'
                         /\ \A i \in DOMAIN copies'[s] : copies'[s][i].kind # "req"
    BY DEF SendTimes
  <2>1. CASE s # p
    <3>1. Unasked(s) => Unasked(s)'
      BY <1>1, <1>8, <1>10, <2>1 DEF Unasked
    <3>2. delay'[s] = delay[s] /\ times'[s] = times[s] /\ LastRequest(s)' = LastRequest(s)
      BY <1>4, <1>6, <1>14, <2>1
    <3> QED BY <1>10, <2>1, <3>1, <3>2 DEF Exchange, SendTimes
  <2>2. CASE s = p /\ txTimestampFailure'[p]
    BY <1>4, <2>2
  <2>3. CASE s = p /\ ~txTimestampFailure'[p]
    <3>1. /\ ~txTimestampFailure[p] /\ UNCHANGED <<txTimestampFailure, copies>>
          /\ times' = OwnRequestSent(Forget(p, r), p, r)
      BY <1>3, <2>3 DEF TypeOK
    <3>2. times'[p].t1 = r
      BY <3>1 DEF TypeOK, Forget, OwnRequestSent, NoTimes
    <3>3. copies[p] = <<>>
      BY <3>1 DEF Exchange, Looping
    <3> QED BY <1>5, <2>3, <3>1, <3>2, <3>3
  <2> QED BY <2>1, <2>2, <2>3
<1>16. RequestsInOrder'
  <2> SUFFICES ASSUME NEW s \in Ports, NEW i \in DOMAIN copies'[s], NEW j \in DOMAIN copies'[s],
                      i < j, copies'[s][i].kind = "req", copies'[s][i].of = LastRequest(s)'
               PROVE  copies'[s][j].kind # "req"
    BY DEF RequestsInOrder
  <2>1. CASE s # p
    <3>1. LastRequest(s)' = LastRequest(s)
      BY <1>6, <2>1
    <3> QED BY <1>10, <2>1, <3>1 DEF Exchange, RequestsInOrder
  <2>2. CASE s = p
    <3>1. i = Len(copies[p]) + 1
      BY <1>5, <1>9, <1>10, <2>2
    <3>2. j = Len(copies[p]) + 1 \/ j \in 1 .. Len(copies[p])
      <4>1. copies[p] \in Seq(Copies)
        BY DEF TypeOK
      <4> QED BY <1>10, <2>2, <4>1
    <3>3. Len(copies[p]) \in Nat
      BY DEF TypeOK
    <3> QED BY <3>1, <3>2, <3>3
  <2> QED BY <2>1, <2>2
<1>17. RespTimes'
  <2> SUFFICES ASSUME NEW s \in Ports, recv'[s] = LastSent(s)', ~delay'[s].mistaken
               PROVE  /\ times'[s].t2 = LastRequest(s)' /\ times'[s].t4 = LastRequest(s)'
                      /\ times'[s].correction = LastRequest(s)'
    BY DEF RespTimes
  <2>1. CASE s # p
    <3>1. /\ delay'[s] = delay[s] /\ times'[s] = times[s] /\ recv'[s] = recv[s]
          /\ LastRequest(s)' = LastRequest(s) /\ LastSent(s)' = LastSent(s)
      BY <1>2, <1>4, <1>6, <1>14, <2>1
    <3> QED BY <3>1 DEF Exchange, RespTimes
  <2>2. CASE s = p
    BY <1>2, <1>4, <1>5, <2>2
  <2> QED BY <2>1, <2>2
<1>18. /\ Latest(sent', p) = r
       /\ \A s \in Ports \ {p} : Latest(sent', s) = LastRequest(s)
  BY <1>2, <1>5 DEF TypeOK, Latest, LastRequest, LastSent, Before
<1>19. Corrections'
  <2> SUFFICES ASSUME NEW m \in net', m.kind = "follow", m.of = Latest(sent', m.of.port)
               PROVE  m.correction = m.of
    BY DEF Corrections, Latest, LastRequest, LastSent, Before
  <2>1. m \in net /\ m.of # r /\ m.of.port \in Ports
    BY <1>8 DEF TypeOK, Messages, Requests
  <2>2. m.of.port # p
    BY <1>18, <2>1
  <2>3. m.of = LastRequest(m.of.port)
    BY <1>18, <2>1, <2>2
  <2> QED BY <2>1, <2>3 DEF Exchange, Corrections
<1>20. Headers'
  <2> SUFFICES ASSUME NEW s \in Ports, NEW i \in DOMAIN copies'[s],
                      copies'[s][i].kind = "resp",
                      copies'[s][i].of = Latest(sent', copies'[s][i].of.port)
               PROVE  /\ header'[s] = copies'[s][i].of
                      /\ \A m \in net' : ~(/\ m.kind = "req" /\ m.to = s
                                           /\ m.of.port = copies'[s][i].of.port)
    BY DEF Headers, Latest, LastRequest, LastSent, Before
  <2>1. i \in DOMAIN copies[s] /\ copies'[s][i] = copies[s][i]
    BY <1>10
  <2>2. copies[s][i].of # r /\ copies[s][i].of.port \in Ports
    <3>1. copies[s] \in Seq(Copies)
      BY DEF TypeOK
    <3>2. copies[s][i] \in Copies
      BY <2>1, <3>1
    <3> QED BY <1>9, <2>1, <3>2 DEF Copies, Requests
  <2>3. copies[s][i].of.port # p
    BY <1>18, <2>1, <2>2
  <2>4. copies[s][i].of = LastRequest(copies[s][i].of.port)
    BY <1>18, <2>1, <2>2, <2>3
  <2>5. /\ header[s] = copies[s][i].of
        /\ \A m \in net : ~(m.kind = "req" /\ m.to = s /\ m.of.port = copies[s][i].of.port)
    BY <2>1, <2>4 DEF Exchange, Headers
  <2> QED BY <1>1, <1>2, <1>8, <2>1, <2>3, <2>5
<1>21. Wholes'
  BY <1>4 DEF Exchange, Wholes
<1> QED
  BY <1>11, <1>12, <1>13, <1>15, <1>16, <1>17, <1>19, <1>20, <1>21 DEF Exchange

-----------------------------------------------------------------------------
LEMMA InitExchange == Init => ExchangeInv
<1> SUFFICES ASSUME Init PROVE ExchangeInv
  OBVIOUS
<1>1. TypeOK
  BY InitType
<1>2. ASSUME Covered
      PROVE  Exchange
  <2>1. /\ AllTwoStep /\ Routed /\ RequestsInOrder /\ Corrections /\ Headers
    BY DEF Init, AllTwoStep, Routed, RequestsInOrder, Corrections, Headers
  <2>2. Looping
    <3>1. config.looping => Cardinality(On) = 2
      BY <1>2 DEF Covered, OnePeer
    <3>2. None \notin Ports
      BY PortsAssumption
    <3> QED BY <3>1, <3>2 DEF Init, Looping
  <2>3. SendTimes
    BY DEF Init, SendTimes, Unasked
  <2>4. RespTimes
    <3>1. \A p \in Ports : LastSent(p) # sent[p] /\ recv[p] = sent[p]
      BY <1>1, LastRequestType DEF Init
    <3> QED BY <3>1 DEF RespTimes
  <2>5. Wholes
    BY DEF Init, NoDelay, Wholes
  <2> QED BY <2>1, <2>2, <2>3, <2>4, <2>5 DEF Exchange
<1> QED BY <1>1, <1>2 DEF ExchangeInv

LEMMA StepExchange == ExchangeInv /\ [Next]_vars => ExchangeInv'
<1> SUFFICES ASSUME ExchangeInv, [Next]_vars PROVE ExchangeInv'
  OBVIOUS
<1>1. TypeOK /\ TypeOK'
  BY StepType DEF ExchangeInv
<1>2. config' = config
  BY DEF Next, vars, portVars, IssuePdelayReq, HandleCopy, Handle, HandlePdelayReq,
         HandlePdelayResp, HandlePdelayRespFollowUp, Discard, Disturbance, Lose, LoseCopy,
         ChangeState, Initialize, HearSync
<1>3. Covered' = Covered
  BY <1>2 DEF Covered, OnePeer, On, Fault
<1>4. ASSUME Covered
      PROVE  Exchange'
  <2> USE <1>1, <1>4
  <2>1. Exchange
    BY DEF ExchangeInv
  <2>2. CASE UNCHANGED vars
    BY <2>1, <2>2, NothingNew DEF vars, portVars, timeVars
  <2>3. ASSUME NEW p \in Ports, IssuePdelayReq(p) \/ HandleCopy(p)
        PROVE  Exchange'
    BY <2>1, <2>3, IssueKeeps, CopyKeeps
  <2>4. ASSUME NEW msg \in net, Handle(msg)
        PROVE  Exchange'
    <3>1. CASE HandlePdelayReq(msg)
      BY <2>1, <2>4, <3>1, RequestKeeps DEF Handle
    <3>2. CASE HandlePdelayResp(msg)
      BY <2>1, <3>2, RespKeeps
    <3>3. CASE HandlePdelayRespFollowUp(msg)
      BY <2>1, <3>3, FollowUpKeeps
    <3>4. CASE Discard(msg)
      BY <2>1, <3>4, NothingNew DEF Discard, Delivered, portVars, timeVars
    <3> QED BY <2>4, <3>1, <3>2, <3>3, <3>4 DEF Handle
  <2>5. CASE Disturbance
    <3>1. ASSUME NEW msg \in net, Lose(msg)
          PROVE  Exchange'
      BY <2>1, <3>1, NothingNew DEF Lose, portVars, timeVars
    <3>2. ASSUME NEW p \in Ports, LoseCopy(p)
          PROVE  Exchange'
      <4>1. \A q \in Ports : \/ copies'[q] = copies[q]
                             \/ copies[q] # <<>> /\ copies'[q] = Tail(copies[q])
        BY <3>2 DEF LoseCopy, TypeOK
      <4> QED BY <2>1, <3>2, <4>1, NothingNew DEF LoseCopy, portVars, timeVars
    <3>3. ASSUME NEW p \in Ports, ChangeState(p)
          PROVE  Exchange'
      BY <2>1, <3>3, NothingNew DEF ChangeState, timeVars
    <3>4. ASSUME NEW p \in Ports, HearSync(p)
          PROVE  FALSE
      BY <3>4 DEF HearSync, Covered
    <3> QED BY <2>1, <2>5, <3>1, <3>2, <3>3, <3>4, InitializeKeeps DEF Disturbance
  <2> QED BY <2>2, <2>3, <2>4, <2>5 DEF Next
<1> QED BY <1>1, <1>3, <1>4 DEF ExchangeInv

(* For any ports, on a link of two or in unicast with send time stamps,    *)
(* whatever is lost, late, not stamped or restarted: what keeps the times  *)
(* of two exchanges apart.                                                 *)
THEOREM ExchangeInvariant == Spec => []ExchangeInv
<1> QED BY InitExchange, StepExchange, PTL DEF Spec

(* No mean path delay is computed from times of two exchanges.             *)
THEOREM OneExchangeAlways == Spec => []OneExchange
<1>1. ExchangeInv => OneExchange
  BY DEF ExchangeInv, Covered, Exchange, Wholes, OneExchange
<1> QED BY <1>1, ExchangeInvariant, PTL

-----------------------------------------------------------------------------
(* Syncs.                                                                  *)
SyncCopies == [of : Destinations, round : {0, 1}, hash : Hashes]

SyncTypes ==
  /\ round \in {0, 1}
  /\ syncDestIndex = [h \in Hashes |-> syncDestIndex[h]]
  /\ lastSyncTimestamp \in [Destinations -> {0, 1, Never}]
  /\ syncCopies \subseteq SyncCopies
  /\ crowded \in BOOLEAN /\ late \in BOOLEAN

(* Each copy still to be read is of the last round and the only one of its *)
(* destination; the index has its destination, or has nothing for its hash *)
(* and the search finds it.                                                *)
Findable(copy) ==
  /\ copy.round = round
  /\ \/ syncDestIndex[copy.hash] = copy.of
     \/ syncDestIndex[copy.hash] = 0 /\ lastSyncTimestamp[copy.of] = round
  /\ \A other \in syncCopies : other.of = copy.of => other = copy

SyncInv ==
  /\ SyncTypes
  /\ ~crowded /\ ~late => \A copy \in syncCopies : Findable(copy)

(* The index of a hash that no more than two destinations share.           *)
LEMMA IndexOf ==
  ASSUME NEW D \in SUBSET Destinations, ~(Cardinality(D) > 2), NEW d \in D
  PROVE  IndexSync(D) \in {0, d}
<1>1. IsFiniteSet(D) /\ Cardinality(D) \in Nat
  BY DestinationsAssumption, FS_Subset, FS_CardinalityType
<1>2. d \in Nat
  BY DestinationsAssumption, FS_CardinalityType
<1>3. Cardinality(D) # 0
  BY <1>1, FS_EmptySet
<1>4. CASE Cardinality(D) = 1
  <2>1. PICK e : D = {e}
    BY <1>1, <1>4, FS_Singleton
  <2>2. D = {d}
    BY <2>1
  <2>3. Max({d}) = d
    BY <1>2 DEF Max
  <2> QED BY <1>4, <2>2, <2>3 DEF IndexSync
<1>5. CASE Cardinality(D) = 2
  BY <1>5 DEF IndexSync
<1> QED BY <1>1, <1>3, <1>4, <1>5

LEMMA SyncInitInv == SyncInit => SyncInv
  BY DEF SyncInit, SyncInv, SyncTypes, Never

LEMMA IssueSyncInv ==
  ASSUME SyncInv, NEW S \in SUBSET Destinations, NEW hash \in [S -> Hashes], NEW failing,
         IssueSync(S, hash, failing)
  PROVE  SyncInv'
<1> DEFINE looped == S \ {d \in S : txStamps /\ d < failing}
           sharing(h) == {d \in S : hash[d] = h}
<1>1. /\ round' = 1 - round
      /\ syncDestIndex' = [h \in Hashes |-> IndexSync(sharing(h))]
      /\ lastSyncTimestamp' = [d \in Destinations |-> IF d \in S THEN 1 - round ELSE Never]
      /\ syncCopies' = syncCopies \cup
           {[of |-> d, round |-> 1 - round, hash |-> hash[d]] : d \in looped}
      /\ crowded' = \E h \in Hashes : Cardinality(sharing(h)) > 2
      /\ late' = (syncCopies # {})
  BY DEF IssueSync
<1>2. looped \subseteq S /\ \A h : sharing(h) \subseteq S
  OBVIOUS
<1> HIDE DEF looped
<1>3. SyncTypes'
  <2>1. 1 - round \in {0, 1}
    BY DEF SyncInv, SyncTypes
  <2>2. syncCopies' \subseteq SyncCopies
    BY <1>1, <1>2, <2>1 DEF SyncInv, SyncTypes, SyncCopies
  <2>3. crowded' \in BOOLEAN /\ late' \in BOOLEAN
    BY <1>1, Zenon
  <2>4. syncDestIndex' = [h \in Hashes |-> syncDestIndex'[h]]
    BY <1>1
  <2>5. lastSyncTimestamp' \in [Destinations -> {0, 1, Never}]
    BY <1>1, <2>1
  <2> QED BY <1>1, <2>1, <2>2, <2>3, <2>4, <2>5 DEF SyncTypes
<1>4. ASSUME ~crowded', ~late', NEW copy \in syncCopies'
      PROVE  /\ copy.round = 1 - round
             /\ \/ syncDestIndex'[copy.hash] = copy.of
                \/ syncDestIndex'[copy.hash] = 0 /\ lastSyncTimestamp'[copy.of] = 1 - round
             /\ \A other \in syncCopies' : other.of = copy.of => other = copy
  <2>1. syncCopies' = {[of |-> d, round |-> 1 - round, hash |-> hash[d]] : d \in looped}
    BY <1>1, <1>4
  <2>2. PICK d \in looped : copy = [of |-> d, round |-> 1 - round, hash |-> hash[d]]
    BY <2>1
  <2>3. d \in S /\ hash[d] \in Hashes /\ copy.of = d /\ copy.hash = hash[d]
    BY <1>2, <2>2
  <2>4. IndexSync(sharing(hash[d])) \in {0, d}
    <3>1. ~(Cardinality(sharing(hash[d])) > 2)
      BY <1>1, <1>4, <2>3
    <3>2. sharing(hash[d]) \in SUBSET Destinations /\ d \in sharing(hash[d])
      BY <2>3
    <3> HIDE DEF sharing
    <3> QED BY <3>1, <3>2, IndexOf
  <2> HIDE DEF sharing
  <2>5. syncDestIndex'[copy.hash] \in {0, d} /\ lastSyncTimestamp'[d] = 1 - round
    BY <1>1, <2>3, <2>4
  <2>6. \A other \in syncCopies' : other.of = copy.of => other = copy
    BY <2>1, <2>2
  <2> QED BY <2>2, <2>3, <2>5, <2>6
<1> QED BY <1>1, <1>3, <1>4 DEF SyncInv, Findable

(* What handling a copy finds.                                             *)
LEMMA Found ==
  ASSUME SyncInv, ~crowded, ~late, NEW copy \in syncCopies, HandleOwnSync(copy)
  PROVE  followUps' = {[of |-> copy.of, to |-> copy.of]}
<1>1. Findable(copy) /\ copy \in SyncCopies /\ copy.of \in Destinations
  BY DEF SyncInv, SyncTypes, SyncCopies
<1>2. copy.of # 0
  BY <1>1, DestinationsAssumption, FS_CardinalityType
<1>3. CASE syncDestIndex[copy.hash] = copy.of
  BY <1>2, <1>3 DEF HandleOwnSync
<1>4. CASE syncDestIndex[copy.hash] = 0 /\ lastSyncTimestamp[copy.of] = round
  BY <1>1, <1>2, <1>4 DEF HandleOwnSync, Searched, Findable
<1> QED BY <1>1, <1>3, <1>4 DEF Findable

LEMMA HandleSyncInv ==
  ASSUME SyncInv, NEW copy \in syncCopies, HandleOwnSync(copy)
  PROVE  SyncInv'
<1> DEFINE indexed == syncDestIndex[copy.hash]
           dst == IF indexed # 0 THEN indexed ELSE Searched(copy)
<1>1. /\ syncCopies' = syncCopies \ {copy}
      /\ syncDestIndex' = [syncDestIndex EXCEPT ![copy.hash] = 0]
      /\ lastSyncTimestamp' = IF indexed = 0 /\ dst # 0
                                THEN [lastSyncTimestamp EXCEPT ![dst] = Never]
                                ELSE lastSyncTimestamp
      /\ UNCHANGED <<round, crowded, late>>
  BY DEF HandleOwnSync
<1>2. copy \in SyncCopies /\ copy.of \in Destinations /\ copy.hash \in Hashes
  BY DEF SyncInv, SyncTypes, SyncCopies
<1>3. indexed = 0 => dst \in {0, copy.of}
  BY DEF Searched
<1> HIDE DEF indexed, dst
<1>4. SyncTypes'
  <2>1. lastSyncTimestamp' \in [Destinations -> {0, 1, Never}]
    BY <1>1 DEF SyncInv, SyncTypes
  <2>2. syncDestIndex' = [h \in Hashes |-> syncDestIndex'[h]]
    BY <1>1 DEF SyncInv, SyncTypes
  <2> QED BY <1>1, <2>1, <2>2 DEF SyncInv, SyncTypes
<1>5. ASSUME ~crowded, ~late, NEW other \in syncCopies'
      PROVE  Findable(other)'
  <2>1. /\ other \in syncCopies /\ other # copy /\ Findable(other) /\ Findable(copy)
        /\ other.of \in Destinations /\ other.hash \in Hashes
    BY <1>1, <1>5 DEF SyncInv, SyncTypes, SyncCopies
  <2>2. other.of # copy.of
    BY <2>1 DEF Findable
  <2>3. lastSyncTimestamp'[other.of] = lastSyncTimestamp[other.of]
    <3>1. CASE indexed = 0 /\ dst # 0
      <4>1. lastSyncTimestamp' = [lastSyncTimestamp EXCEPT ![copy.of] = Never]
        BY <1>1, <1>3, <3>1
      <4> QED BY <2>1, <2>2, <4>1 DEF SyncInv, SyncTypes
    <3> QED BY <1>1, <3>1
  <2>4. CASE other.hash = copy.hash
    <3>1. syncDestIndex'[other.hash] = 0
      BY <1>1, <2>1, <2>4 DEF SyncInv, SyncTypes
    <3>2. lastSyncTimestamp[other.of] = round
      <4>1. other.of # 0
        BY <2>1, DestinationsAssumption, FS_CardinalityType
      <4> QED BY <2>1, <2>2, <2>4, <4>1 DEF Findable
    <3> QED BY <1>1, <2>1, <2>3, <3>1, <3>2 DEF Findable
  <2>5. CASE other.hash # copy.hash
    <3>1. syncDestIndex'[other.hash] = syncDestIndex[other.hash]
      BY <1>1, <2>1, <2>5 DEF SyncInv, SyncTypes
    <3> QED BY <1>1, <2>1, <2>3, <3>1 DEF Findable
  <2> QED BY <2>4, <2>5
<1> QED BY <1>1, <1>4, <1>5 DEF SyncInv

LEMMA SyncStepInv == SyncInv /\ [SyncNext]_syncVars => SyncInv'
<1> SUFFICES ASSUME SyncInv, [SyncNext]_syncVars PROVE SyncInv'
  OBVIOUS
<1>1. CASE UNCHANGED syncVars
  BY <1>1 DEF syncVars, SyncInv, SyncTypes, Findable
<1>2. CASE IssueSyncs
  <2>1. PICK S \in SUBSET Destinations \ {{}} : \E hash \in [S -> Hashes],
          failing \in Destinations \cup {Cardinality(Destinations) + 1} :
            IssueSync(S, hash, failing)
    BY <1>2, Zenon DEF IssueSyncs
  <2> QED BY <2>1, IssueSyncInv
<1>3. CASE LeapSecond
  BY <1>3 DEF LeapSecond, SyncInv, SyncTypes, Never
<1>4. ASSUME NEW copy \in syncCopies, LoseSyncCopy(copy)
      PROVE  SyncInv'
  BY <1>4 DEF LoseSyncCopy, SyncInv, SyncTypes, Findable
<1> QED BY <1>1, <1>2, <1>3, <1>4, HandleSyncInv DEF SyncNext

(* For any number of destinations and hashes, whatever copies are lost:    *)
(* where the Follow_Up to a looped back Sync will be sent.                 *)
THEOREM SyncInvariant == SyncSpec => []SyncInv
<1> QED BY SyncInitInv, SyncStepInv, PTL DEF SyncSpec

(* Every looped back Sync that is read has its Follow_Up, and the          *)
(* Follow_Up goes where its Sync went.                                     *)
THEOREM FollowUpsAlwaysArrive == SyncSpec => FollowUpsArrive
<1>1. SyncInv /\ [SyncNext]_syncVars =>
        [\A copy \in syncCopies :
           HandleOwnSync(copy) /\ ~crowded /\ ~late =>
             followUps' = {[of |-> copy.of, to |-> copy.of]}]_syncVars
  BY Found
<1> QED BY <1>1, SyncInvariant, PTL DEF SyncSpec, FollowUpsArrive
=============================================================================
