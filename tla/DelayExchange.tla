---------------------------- MODULE DelayExchange ----------------------------
(***************************************************************************)
(* The delay request mechanism of a slave (E2E), beside the Sync exchange: *)
(* issueDelayReq(), handleDelayReq() of our own requests, handleDelayResp()*)
(* (protocol.c) with updateDelay() (servo.c), and the send time of a       *)
(* request, which netSendEvent() (net.c) gets from the error queue of the  *)
(* socket or, once that has failed, from a looped back copy.               *)
(***************************************************************************)
EXTENDS SyncExchange

VARIABLES
  sentDelayReqSequenceId,   \* the id of the next request
  waitingForDelayResp,
  requestTimed,             \* the request delay_req_send_time is of, or none
  txTimestampFailure,       \* netPath.txTimestampFailure
  copies,                   \* looped back requests in the event socket
  meanPathDelay             \* what the mean path delay was computed from

delayVars == <<sentDelayReqSequenceId, waitingForDelayResp, requestTimed,
               txTimestampFailure, copies, meanPathDelay>>
vars == <<syncVars, delayVars>>

LastRequest == Wrap(sentDelayReqSequenceId - 1)

NoMeanPathDelay == [known |-> FALSE, oneExchange |-> TRUE, afterOffset |-> TRUE]

TypeOK ==
  /\ SyncTypeOK
  /\ sentDelayReqSequenceId \in Ids
  /\ waitingForDelayResp \in BOOLEAN
  /\ requestTimed \subseteq Ids
  /\ txTimestampFailure \in BOOLEAN
  /\ copies \subseteq Ids
  /\ meanPathDelay \in [known : BOOLEAN, oneExchange : BOOLEAN, afterOffset : BOOLEAN]

Init ==
  /\ SyncInit
  /\ sentDelayReqSequenceId = 0
  /\ waitingForDelayResp = FALSE /\ requestTimed = {}
  /\ txTimestampFailure \in BOOLEAN /\ copies = {}
  /\ meanPathDelay = NoMeanPathDelay

-----------------------------------------------------------------------------
\* A bug: the wait for a Delay_Resp of an earlier stay in SLAVE is kept.
ResetsDelay_KeepsWait ==
  /\ requestTimed' = {} /\ meanPathDelay' = NoMeanPathDelay
  /\ UNCHANGED waitingForDelayResp

ResetsDelay ==
  /\ waitingForDelayResp' = FALSE /\ requestTimed' = {}
  /\ meanPathDelay' = NoMeanPathDelay

StartAsSlave(m) ==
  /\ BecomeSlave(m) /\ ResetsDelay
  /\ UNCHANGED <<sentDelayReqSequenceId, txTimestampFailure, copies>>

(* netInit(), while the port is INITIALIZING or DISABLED: the sockets are  *)
(* new, and time stamping is tried again.                                  *)
RestartNetwork ==
  /\ ~slave
  /\ txTimestampFailure' \in BOOLEAN /\ copies' = {}
  /\ UNCHANGED <<syncVars, sentDelayReqSequenceId, waitingForDelayResp,
                 requestTimed, meanPathDelay>>

-----------------------------------------------------------------------------
(* processDelayReqFromSelf() for request r.                                *)
ProcessOwnRequest(r) == waitingForDelayResp' = TRUE /\ requestTimed' = {r}

(* The looped back copy of r joins the socket's queue.  A copy is assumed  *)
(* to be read before three requests have followed it.                      *)
Loop(r) == copies' = {r} \cup (copies \cap {Wrap(r - 1)})

\* A bug: the id does not wrap.
Issues_NoWrap ==
  /\ sentDelayReqSequenceId' = sentDelayReqSequenceId + 1
  /\ UNCHANGED <<syncVars, meanPathDelay>>

(* issueDelayReq(), whenever its timer has expired.  The first Sync starts *)
(* the timer, but an expiry may be served after SLAVE was left, and start  *)
(* it again there.                                                         *)
Issues ==
  /\ sentDelayReqSequenceId' = Wrap(sentDelayReqSequenceId + 1)
  /\ UNCHANGED <<syncVars, meanPathDelay>>

IssueTimestamped ==
  /\ Issues /\ ~txTimestampFailure
  /\ ProcessOwnRequest(sentDelayReqSequenceId)
  /\ UNCHANGED <<txTimestampFailure, copies>>

(* The time stamp of this request does not come: looping is used from now  *)
(* on, and with unicast this request is sent to ourselves as well.         *)
IssueTimestampFails ==
  /\ Issues /\ ~txTimestampFailure
  /\ txTimestampFailure' = TRUE
  /\ Loop(sentDelayReqSequenceId) \/ UNCHANGED copies
  /\ UNCHANGED <<waitingForDelayResp, requestTimed>>

IssueLooped ==
  /\ Issues /\ txTimestampFailure
  /\ Loop(sentDelayReqSequenceId)
  /\ UNCHANGED <<txTimestampFailure, waitingForDelayResp, requestTimed>>

-----------------------------------------------------------------------------
(* handleDelayReq() of a copy of our own request.                          *)
HandleDelayReq(r) ==
  /\ slave /\ r \in copies /\ r = LastRequest
  /\ copies' = copies \ {r}
  /\ ProcessOwnRequest(r)
  /\ UNCHANGED <<syncVars, sentDelayReqSequenceId, txTimestampFailure, meanPathDelay>>

(* A copy that is not of the last request, or that arrives while the port  *)
(* is not a slave or in a leap second, has no effect; or the socket's      *)
(* buffer was full.                                                        *)
LoseCopy(r) ==
  /\ r \in copies /\ copies' = copies \ {r}
  /\ UNCHANGED <<syncVars, sentDelayReqSequenceId, waitingForDelayResp, requestTimed,
                 txTimestampFailure, meanPathDelay>>

-----------------------------------------------------------------------------
(* updateDelay() on the answer to request r: the sample is used once there *)
(* is an offset; a filter may suppress it, or too many samples above       *)
(* maxDelay reset the port.                                                *)
DelayOutcomes == {"used", "suppressed", "reset"}

\* A bug: an offset is not needed.
CanUpdateDelay_Always == TRUE

CanUpdateDelay == offsetFirstUpdated

UpdateDelay(r, outcome) ==
  IF outcome = "reset" /\ CanUpdateDelay
    THEN /\ slave' = FALSE /\ ClearsOffset
         /\ meanPathDelay' = NoMeanPathDelay
    ELSE /\ UNCHANGED <<slave, servoVars>>
         /\ IF outcome = "used" /\ CanUpdateDelay
              THEN meanPathDelay' = [known |-> TRUE,
                                     oneExchange |-> requestTimed = {r},
                                     afterOffset |-> delayMS # NoDelay]
              ELSE UNCHANGED meanPathDelay

(* handleDelayResp() of the current parent to our port.                    *)
HandleDelayResp(r, outcome) ==
  /\ slave /\ waitingForDelayResp /\ r = LastRequest
  /\ waitingForDelayResp' = FALSE
  /\ UpdateDelay(r, outcome)
  /\ UNCHANGED <<parent, syncSequenceChecking, seqVars, waitVars, lossy,
                 sentDelayReqSequenceId, requestTimed, txTimestampFailure, copies>>

DelayStep ==
  \/ RestartNetwork
  \/ IssueTimestamped \/ IssueTimestampFails \/ IssueLooped
  \/ \E r \in Ids : HandleDelayReq(r) \/ LoseCopy(r)
  \/ \E r \in Ids, outcome \in DelayOutcomes : HandleDelayResp(r, outcome)

(* What leaves SLAVE by toState() clears the mean path delay.              *)
ClearsDelay ==
  /\ meanPathDelay' = IF slave /\ ~slave' THEN NoMeanPathDelay ELSE meanPathDelay
  /\ UNCHANGED <<sentDelayReqSequenceId, waitingForDelayResp, requestTimed,
                 txTimestampFailure, copies>>

Next ==
  \/ (SyncStep \/ LeaveSlave) /\ ClearsDelay
  \/ HandleInitialize /\ UNCHANGED delayVars
  \/ \E m \in Masters : ChangeParent(m) /\ UNCHANGED delayVars
  \/ \E m \in Masters : StartAsSlave(m)
  \/ DelayStep

Spec == Init /\ [][Next]_vars

-----------------------------------------------------------------------------
(* While the kernel delivers the time stamps of what is sent, the request  *)
(* a Delay_Resp is matched with by its id is the one whose send time is    *)
(* stored, also when requests remained unanswered, and each mean path      *)
(* delay is of one exchange.                                               *)
TimestampIsOfLastRequest ==
  slave /\ ~txTimestampFailure =>
    /\ waitingForDelayResp => requestTimed = {LastRequest}
    /\ meanPathDelay.oneExchange

(* No mean path delay is computed before there is an offset from this stay *)
(* in SLAVE to compute it from.                                            *)
DelayNeedsOffset == meanPathDelay.afterOffset
=============================================================================
