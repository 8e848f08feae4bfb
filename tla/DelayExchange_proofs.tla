------------------------ MODULE DelayExchange_proofs ------------------------
(***************************************************************************)
(* Theorems about the Sync exchange and the delay request mechanism, for   *)
(* any masters, any width of the sequence ids and any limits.  What is     *)
(* proved of SyncExchange alone comes first.                               *)
(***************************************************************************)
EXTENDS DelayExchange, TLAPS

(* Arithmetic modulo n: what a 16-bit counter does at its ends.            *)
LEMMA ModOnce ==
  ASSUME NEW n \in Nat \ {0}, NEW x \in 0 .. 2 * n - 1
  PROVE  x % n = IF x < n THEN x ELSE x - n
<1>1. CASE x < n
  BY <1>1, SMT
<1>2. CASE x >= n
  BY <1>2, SMT
<1> QED BY <1>1, <1>2

LEMMA ModSum ==
  ASSUME NEW n \in Nat \ {0}, NEW x \in 0 .. n - 1, NEW y \in 0 .. n
  PROVE  (x + y) % n = IF x + y < n THEN x + y ELSE x + y - n
<1>1. PICK z \in 0 .. 2 * n - 1 : z = x + y
  OBVIOUS
<1>2. z % n = IF z < n THEN z ELSE z - n
  BY ModOnce
<1> QED BY <1>1, <1>2

(* The sequence check of handleSync() rejects exactly the ids up to the    *)
(* recorded one, except that after the highest id nothing is rejected.     *)
(* The comparison with the window of half the ids adds nothing, and there  *)
(* is no wrap: when the Sync with the highest id is lost, all that follow  *)
(* are rejected until the limit of errors.                                 *)
THEOREM SequenceCheck ==
  ASSUME recvSyncSequenceId \in Ids, NEW i \in Ids
  PROVE  OutOfSequence(i) <=> /\ i <= recvSyncSequenceId
                              /\ recvSyncSequenceId # 2 * Half - 1
<1>0. PICK n \in Nat \ {0} : n = 2 * Half
  BY HalfAssumption
<1>1. PICK r \in 0 .. n - 1 : r = recvSyncSequenceId
  BY <1>0 DEF Ids
<1>2. n = Half + Half /\ Half \in 1 .. n /\ i \in 0 .. n - 1
  BY <1>0, HalfAssumption DEF Ids
<1>3. (r + Half) % n = IF r + Half < n THEN r + Half ELSE r + Half - n
  <2>1. PICK h \in 0 .. n : h = Half
    BY <1>2
  <2>2. (r + h) % n = IF r + h < n THEN r + h ELSE r + h - n
    BY ModSum
  <2> QED BY <2>1, <2>2
<1>4. (r + 1) % n = IF r + 1 < n THEN r + 1 ELSE r + 1 - n
  <2>1. 1 \in 0 .. n
    BY <1>2
  <2> QED BY <2>1, ModSum
<1>5. OutOfSequence(i) <=> (r + Half) % n > i + (Half - 1) \/ (r + 1) % n > i
  BY <1>0, <1>1 DEF OutOfSequence, Wrap
<1>6. ((r + 1) % n > i) <=> (i <= r /\ r # n - 1)
  BY <1>2, <1>4
<1>7. (r + Half) % n > i + (Half - 1) => i <= r /\ r # n - 1
  BY <1>2, <1>3
<1> QED BY <1>0, <1>1, <1>5, <1>6, <1>7

-----------------------------------------------------------------------------
(* Type correctness; the number of discarded Syncs stays within its limit. *)
LEMMA NextGapType ==
  ASSUME followUpGap \in 0 .. MAX_FOLLOWUP_GAP
  PROVE  NextGap \in 0 .. MAX_FOLLOWUP_GAP
BY LimitsAssumption DEF NextGap

LEMMA NothingType ==
  /\ NoSync \in [master : SUBSET Masters, id : Ids]
  /\ NoDelay \in [origin : SUBSET Masters, receipt : SUBSET Masters]
<1>1. 0 \in Ids
  BY HalfAssumption DEF Ids
<1> QED BY <1>1 DEF NoSync, NoDelay

LEMMA UpdateOffsetType ==
  ASSUME SyncTypeOK, NEW m \in Masters, NEW receipt \in SUBSET Masters,
         NEW outcome \in Outcomes, UpdateOffset(m, receipt, outcome)
  PROVE  /\ slave' \in BOOLEAN
         /\ offsetFirstUpdated' \in BOOLEAN
         /\ delayMS' \in [origin : SUBSET Masters, receipt : SUBSET Masters]
<1>1. slave' \in BOOLEAN
  BY DEF UpdateOffset
<1>2. CASE outcome = "used"
  BY <1>1, <1>2 DEF UpdateOffset
<1>3. CASE outcome = "reset"
  <2>1. ClearsOffset
    BY <1>3 DEF UpdateOffset
  <2> QED BY <1>1, <2>1, NothingType DEF ClearsOffset
<1>4. CASE outcome = "suppressed"
  BY <1>1, <1>4 DEF UpdateOffset, servoVars, SyncTypeOK
<1> QED BY <1>2, <1>3, <1>4 DEF Outcomes

LEMMA SyncInitType == SyncInit => SyncTypeOK
<1>1. 0 \in Ids
  BY HalfAssumption DEF Ids
<1>2. 0 \in 0 .. MAX_SEQ_ERRORS /\ 0 \in 0 .. MAX_FOLLOWUP_GAP
  BY LimitsAssumption
<1> QED BY <1>1, <1>2, NothingType DEF SyncInit, SyncTypeOK

(* What an accepted Sync leaves of the sequence check.                     *)
LEMMA AcceptSyncType ==
  ASSUME SyncTypeOK, NEW i \in Ids, AcceptSync(i)
  PROVE  /\ syncWaiting' \in BOOLEAN
         /\ consecutiveSequenceErrors' \in 0 .. MAX_SEQ_ERRORS
         /\ parent' \in Masters /\ parent' = parent
         /\ syncSequenceChecking' \in BOOLEAN /\ lossy' \in BOOLEAN
<1>1. 0 \in 0 .. MAX_SEQ_ERRORS
  BY LimitsAssumption
<1>2. consecutiveSequenceErrors' \in 0 .. MAX_SEQ_ERRORS
  BY <1>1 DEF AcceptSync, SyncTypeOK
<1> QED BY <1>2 DEF AcceptSync, SyncTypeOK

LEMMA HandleSyncType ==
  ASSUME SyncTypeOK, NEW i \in Ids, HandleSync(i)
  PROVE  SyncTypeOK'
<1>1. CASE DiscardSync(i)
  BY <1>1, LimitsAssumption
  DEF DiscardSync, Discards, SyncTypeOK, portVars, waitVars, servoVars
<1>2. CASE SkipSync(i)
  BY <1>2, AcceptSyncType, NextGapType DEF SkipSync, SyncTypeOK, servoVars
<1>3. CASE RecordSync(i)
  <2>1. followUpGap' \in 0 .. MAX_FOLLOWUP_GAP /\ followUpLost' \in BOOLEAN
    BY <1>3, NextGapType DEF RecordSync, SyncTypeOK
  <2>2. AcceptSync(i) /\ syncOf' \in [master : SUBSET Masters, id : Ids]
    BY <1>3 DEF RecordSync, SyncTypeOK
  <2> QED BY <1>3, <2>1, <2>2, AcceptSyncType DEF RecordSync, SyncTypeOK, servoVars
<1>4. ASSUME NEW outcome \in Outcomes, OneStepSync(i, outcome)
      PROVE  SyncTypeOK'
  <2>1. parent \in Masters
    BY DEF SyncTypeOK
  <2>2. /\ slave' \in BOOLEAN
        /\ offsetFirstUpdated' \in BOOLEAN
        /\ delayMS' \in [origin : SUBSET Masters, receipt : SUBSET Masters]
    <3>1. UpdateOffset(parent, {parent}, outcome)
      BY <1>4 DEF OneStepSync
    <3> QED BY <2>1, <3>1, UpdateOffsetType
  <2>3. AcceptSync(i) /\ syncOf' \in [master : SUBSET Masters, id : Ids]
    BY <1>4, <2>1 DEF OneStepSync
  <2> QED BY <1>4, <2>2, <2>3, AcceptSyncType DEF OneStepSync, SyncTypeOK
<1> QED BY <1>1, <1>2, <1>3, <1>4 DEF HandleSync

LEMMA HandleFollowUpType ==
  ASSUME SyncTypeOK, NEW i \in Ids, NEW outcome \in Outcomes,
         HandleFollowUp(i, outcome)
  PROVE  SyncTypeOK'
<1>1. UpdateOffset(parent, syncOf.master, outcome)
  BY DEF HandleFollowUp
<1>2. parent \in Masters /\ syncOf.master \in SUBSET Masters
  BY DEF SyncTypeOK
<1>3. /\ slave' \in BOOLEAN
      /\ offsetFirstUpdated' \in BOOLEAN
      /\ delayMS' \in [origin : SUBSET Masters, receipt : SUBSET Masters]
  BY <1>1, <1>2, UpdateOffsetType
<1>4. 0 \in 0 .. MAX_FOLLOWUP_GAP
  BY LimitsAssumption
<1> QED BY <1>3, <1>4 DEF HandleFollowUp, SyncTypeOK, seqVars

LEMMA SyncNextType == SyncTypeOK /\ [SyncNext]_syncVars => SyncTypeOK'
<1> SUFFICES ASSUME SyncTypeOK, [SyncNext]_syncVars
             PROVE  SyncTypeOK'
  OBVIOUS
<1> USE DEF portVars, seqVars, waitVars, servoVars
<1>1. ASSUME NEW m \in Masters, BecomeSlave(m) PROVE SyncTypeOK'
  <2>1. 0 \in 0 .. MAX_FOLLOWUP_GAP
    BY LimitsAssumption
  <2> QED BY <1>1, <2>1, NothingType
          DEF BecomeSlave, ResetsWait, ClearsOffset, SyncTypeOK
<1>2. ASSUME NEW m \in Masters, ChangeParent(m) PROVE SyncTypeOK'
  BY <1>2 DEF ChangeParent, SyncTypeOK
<1>3. CASE LeaveSlave \/ HandleInitialize
  BY <1>3, NothingType DEF LeaveSlave, HandleInitialize, ClearsOffset, SyncTypeOK
<1>4. CASE ChangeLoss
  BY <1>4 DEF ChangeLoss, SyncTypeOK
<1>5. CASE UNCHANGED syncVars
  BY <1>5 DEF syncVars, SyncTypeOK
<1> QED BY <1>1, <1>2, <1>3, <1>4, <1>5, HandleSyncType, HandleFollowUpType
        DEF SyncNext, SyncStep

(* Every variable keeps its type, and no more than MAX_SEQ_ERRORS Syncs in *)
(* a row are discarded.                                                    *)
THEOREM SyncTypeCorrect == SyncSpec => []SyncTypeOK
<1>1. SyncTypeOK /\ [SyncNext]_syncVars => SyncTypeOK'
  BY SyncNextType
<1> QED BY <1>1, SyncInitType, PTL DEF SyncSpec

-----------------------------------------------------------------------------
(* The Sync that is waited with.  Only a recorded Sync sets waitingForFollow *)
(* and it sets the other two with it; nothing changes one of the three     *)
(* without ending the wait, and becoming a slave ends it.                  *)
LEMMA HandleSyncCompletes ==
  ASSUME NEW i \in Ids, HandleSync(i), FollowUpCompletesSync
  PROVE  FollowUpCompletesSync'
<1> USE DEF FollowUpCompletesSync
<1>1. CASE DiscardSync(i)
  BY <1>1 DEF DiscardSync, portVars, waitVars
<1>2. CASE SkipSync(i)
  BY <1>2 DEF SkipSync
<1>3. CASE RecordSync(i)
  BY <1>3 DEF RecordSync
<1>4. ASSUME NEW outcome \in Outcomes, OneStepSync(i, outcome)
      PROVE  FollowUpCompletesSync'
  BY <1>4 DEF OneStepSync
<1> QED BY <1>1, <1>2, <1>3, <1>4 DEF HandleSync

LEMMA CompletesStep ==
  FollowUpCompletesSync /\ [SyncNext]_syncVars => FollowUpCompletesSync'
<1> SUFFICES ASSUME FollowUpCompletesSync, [SyncNext]_syncVars
             PROVE  FollowUpCompletesSync'
  OBVIOUS
<1> USE DEF FollowUpCompletesSync, portVars, seqVars, waitVars, servoVars
<1>1. ASSUME NEW m \in Masters, BecomeSlave(m) PROVE FollowUpCompletesSync'
  BY <1>1 DEF BecomeSlave, ResetsWait
<1>2. ASSUME NEW m \in Masters, ChangeParent(m) PROVE FollowUpCompletesSync'
  BY <1>2 DEF ChangeParent
<1>3. CASE LeaveSlave \/ HandleInitialize
  BY <1>3 DEF LeaveSlave, HandleInitialize
<1>4. CASE ChangeLoss
  BY <1>4 DEF ChangeLoss
<1>5. CASE UNCHANGED syncVars
  BY <1>5 DEF syncVars
<1>6. ASSUME NEW i \in Ids, NEW outcome \in Outcomes, HandleFollowUp(i, outcome)
      PROVE  FollowUpCompletesSync'
  BY <1>6 DEF HandleFollowUp
<1>7. ASSUME NEW i \in Ids, HandleSync(i) PROVE FollowUpCompletesSync'
  BY <1>7, HandleSyncCompletes
<1> QED BY <1>1, <1>2, <1>3, <1>4, <1>5, <1>6, <1>7 DEF SyncNext, SyncStep

(* A Follow_Up only ever completes the Sync whose receive time is stored,  *)
(* and one received since the port became a slave.                         *)
THEOREM FollowUpsComplete == SyncSpec => []FollowUpCompletesSync
<1>1. SyncInit => FollowUpCompletesSync
  BY DEF SyncInit, FollowUpCompletesSync
<1> QED BY <1>1, CompletesStep, PTL DEF SyncSpec

-----------------------------------------------------------------------------
(* What the option sync_sequence_checking guarantees: ids of recorded      *)
(* Syncs grow, but for the first one, for the one after the highest id,    *)
(* and for the one after MAX_SEQ_ERRORS discarded ones.                    *)
THEOREM SequencesGrow == SyncSpec => SequenceGrows
<1> DEFINE Grows ==
      /\ slave /\ syncSequenceChecking /\ ~syncWaiting
      /\ consecutiveSequenceErrors < MAX_SEQ_ERRORS
      /\ syncOf' # syncOf
      => syncOf'.id > recvSyncSequenceId \/ recvSyncSequenceId = 2 * Half - 1
<1>1. ASSUME SyncTypeOK, SyncNext
      PROVE  Grows
  <2> SUFFICES ASSUME slave, syncSequenceChecking, ~syncWaiting,
                      consecutiveSequenceErrors < MAX_SEQ_ERRORS, syncOf' # syncOf
               PROVE  syncOf'.id > recvSyncSequenceId \/ recvSyncSequenceId = 2 * Half - 1
    OBVIOUS
  <2>1. PICK i \in Ids : \/ RecordSync(i)
                         \/ \E outcome \in Outcomes : OneStepSync(i, outcome)
    BY <1>1 DEF SyncNext, SyncStep, HandleSync, BecomeSlave, ChangeParent, LeaveSlave,
                HandleInitialize, ChangeLoss, HandleFollowUp, DiscardSync, SkipSync, waitVars
  <2>2. AcceptSync(i) /\ syncOf' = [master |-> {parent}, id |-> i]
    BY <2>1 DEF RecordSync, OneStepSync
  <2>3. ~OutOfSequence(i)
    BY <2>2 DEF AcceptSync, Discards
  <2>4. recvSyncSequenceId \in Ids
    BY <1>1 DEF SyncTypeOK
  <2>5. ~(i <= recvSyncSequenceId /\ recvSyncSequenceId # 2 * Half - 1)
    BY <2>3, <2>4, SequenceCheck
  <2>6. syncOf'.id = i
    BY <2>2
  <2>7. i \in Int /\ recvSyncSequenceId \in Int
    BY <2>4, HalfAssumption DEF Ids
  <2> QED BY <2>5, <2>6, <2>7
<1>2. SyncTypeOK /\ [SyncNext]_syncVars => [Grows]_syncVars
  BY <1>1
<1>3. []SyncTypeOK /\ [][SyncNext]_syncVars => [][Grows]_syncVars
  BY <1>2, PTL
<1> QED BY <1>3, SyncTypeCorrect DEF SyncSpec, SequenceGrows

-----------------------------------------------------------------------------
(* The two exchanges compose.                                              *)

(* A mean path delay that resets the port is a slave that leaves SLAVE.    *)
LEMMA DelayStepIsSyncStep ==
  ASSUME DelayStep
  PROVE  [SyncNext]_syncVars
<1>1. CASE UNCHANGED syncVars
  BY <1>1
<1>2. ASSUME NEW r \in Ids, NEW outcome \in DelayOutcomes, HandleDelayResp(r, outcome)
      PROVE  [SyncNext]_syncVars
  <2>1. slave /\ UNCHANGED <<parent, syncSequenceChecking, seqVars, waitVars, lossy>>
    BY <1>2 DEF HandleDelayResp
  <2>2. CASE outcome = "reset" /\ CanUpdateDelay
    <3>1. LeaveSlave
      BY <1>2, <2>1, <2>2 DEF HandleDelayResp, UpdateDelay, LeaveSlave
    <3> QED BY <3>1 DEF SyncNext
  <2>3. CASE ~(outcome = "reset" /\ CanUpdateDelay)
    <3>1. UNCHANGED <<slave, servoVars>>
      BY <1>2, <2>3 DEF HandleDelayResp, UpdateDelay
    <3> QED BY <2>1, <3>1 DEF syncVars, portVars
  <2> QED BY <2>2, <2>3
<1> QED BY <1>1, <1>2 DEF DelayStep, RestartNetwork, IssueTimestamped, IssueTimestampFails,
                          IssueLooped, Issues, HandleDelayReq, LoseCopy

(* Beside the delay requests the Sync exchange goes on as its own module   *)
(* says, so that what is proved of SyncExchange holds here.                *)
THEOREM ImplementsSyncExchange == Spec => SyncSpec
<1>1. Init => SyncInit
  BY DEF Init
<1>2. [Next]_vars => [SyncNext]_syncVars
  <2> SUFFICES ASSUME [Next]_vars PROVE [SyncNext]_syncVars
    OBVIOUS
  <2>1. CASE DelayStep
    BY <2>1, DelayStepIsSyncStep
  <2>2. CASE UNCHANGED vars
    BY <2>2 DEF vars
  <2>3. ASSUME NEW m \in Masters, StartAsSlave(m) PROVE SyncNext
    BY <2>3 DEF StartAsSlave, SyncNext
  <2> QED BY <2>1, <2>2, <2>3 DEF Next, SyncNext
<1> QED BY <1>1, <1>2, PTL DEF Spec, SyncSpec

-----------------------------------------------------------------------------
(* The inductive invariant.  That no mean path delay precedes an offset is *)
(* not inductive: offsetFirstUpdated has to mean that there is an offset.  *)
IInv ==
  /\ sentDelayReqSequenceId \in Ids
  /\ TimestampIsOfLastRequest
  /\ DelayNeedsOffset
  /\ offsetFirstUpdated => delayMS # NoDelay

(* The id of a request sent is the one before the id of the next.          *)
LEMMA LastOfNext ==
  ASSUME NEW i \in Ids
  PROVE  /\ Wrap(i + 1) \in Ids
         /\ Wrap(Wrap(i + 1) - 1) = i
<1>1. PICK n \in Nat \ {0} : n = 2 * Half /\ n > 1
  BY HalfAssumption
<1>2. i \in 0 .. n - 1 /\ Ids = 0 .. n - 1
  BY <1>1 DEF Ids
<1>3. (i + 1) % n = IF i + 1 < n THEN i + 1 ELSE i + 1 - n
  <2>1. 1 \in 0 .. n
    BY <1>1
  <2> QED BY <1>2, <2>1, ModSum
<1>4. Wrap(i + 1) = (i + 1) % n
  BY <1>1 DEF Wrap
<1>5. CASE i + 1 < n
  <2>1. Wrap(i + 1) = i + 1 /\ i + 1 \in 0 .. n - 1
    BY <1>2, <1>3, <1>4, <1>5
  <2>2. \A k, j : k = j + 1 /\ j \in Ids => Wrap(k - 1) = j % n
    BY <1>1, <1>2 DEF Wrap
  <2>3. Wrap(Wrap(i + 1) - 1) = i % n
    BY <2>1, <2>2
  <2>4. i % n = i
    BY <1>1, <1>2
  <2> QED BY <1>2, <2>1, <2>3, <2>4
<1>6. CASE i + 1 >= n
  <2>1. i = n - 1 /\ Wrap(i + 1) = 0
    BY <1>2, <1>3, <1>4, <1>6
  <2>2. Wrap(Wrap(i + 1) - 1) = Wrap(0 - 1) /\ Wrap(0 - 1) = (0 - 1) % n
    BY <1>1, <2>1 DEF Wrap
  <2>3. (0 - 1) % n = n - 1
    BY <1>1
  <2>4. Wrap(Wrap(i + 1) - 1) = i
    BY <2>1, <2>2, <2>3, Zenon
  <2>5. 0 \in Ids
    BY <1>1, <1>2
  <2> QED BY <2>1, <2>4, <2>5, Zenon
<1> QED BY <1>2, <1>5, <1>6

(* The steps of the Sync exchange, but for becoming a slave, leave the     *)
(* delay requests alone and set offsetFirstUpdated with delayMS.           *)
LEMMA OffsetIsKnown ==
  ASSUME NEW m \in Masters, NEW receipt \in SUBSET Masters, NEW outcome \in Outcomes,
         UpdateOffset(m, receipt, outcome), offsetFirstUpdated => delayMS # NoDelay
  PROVE  offsetFirstUpdated' => (delayMS # NoDelay)'
<1>1. CASE outcome = "used"
  <2>1. delayMS' = [origin |-> {m}, receipt |-> receipt]
    BY <1>1 DEF UpdateOffset
  <2>2. delayMS'.origin # {}
    BY <2>1
  <2> QED BY <2>2 DEF NoDelay
<1>2. CASE outcome = "reset"
  BY <1>2 DEF UpdateOffset, ClearsOffset
<1>3. CASE outcome = "suppressed"
  BY <1>3 DEF UpdateOffset, servoVars
<1> QED BY <1>1, <1>2, <1>3 DEF Outcomes

LEMMA SyncStepInv ==
  ASSUME SyncTypeOK, IInv,
         \/ (SyncStep \/ LeaveSlave) /\ ClearsDelay
         \/ (HandleInitialize \/ \E m \in Masters : ChangeParent(m)) /\ UNCHANGED delayVars
  PROVE  IInv'
<1> USE DEF portVars, seqVars, waitVars, servoVars
<1>1. slave' => slave
  BY DEF SyncTypeOK, SyncStep, LeaveSlave, HandleInitialize, ChangeParent, ChangeLoss,
         HandleSync, DiscardSync, SkipSync, RecordSync, OneStepSync, HandleFollowUp, AcceptSync
<1>2. (offsetFirstUpdated => delayMS # NoDelay)'
  <2> USE DEF IInv
  <2>1. ASSUME NEW i \in Ids, NEW outcome \in Outcomes, OneStepSync(i, outcome)
        PROVE  (offsetFirstUpdated => delayMS # NoDelay)'
    <3>1. parent \in Masters /\ UpdateOffset(parent, {parent}, outcome)
      BY <2>1 DEF OneStepSync, SyncTypeOK
    <3> QED BY <3>1, OffsetIsKnown
  <2>2. ASSUME NEW i \in Ids, NEW outcome \in Outcomes, HandleFollowUp(i, outcome)
        PROVE  (offsetFirstUpdated => delayMS # NoDelay)'
    <3>1. /\ parent \in Masters /\ syncOf.master \in SUBSET Masters
          /\ UpdateOffset(parent, syncOf.master, outcome)
      BY <2>2 DEF HandleFollowUp, SyncTypeOK
    <3> QED BY <3>1, OffsetIsKnown
  <2> QED BY <2>1, <2>2 DEF SyncStep, LeaveSlave, HandleInitialize, ClearsOffset,
             ChangeParent, ChangeLoss, HandleSync, DiscardSync, SkipSync, RecordSync
<1>3. /\ meanPathDelay' \in {meanPathDelay, NoMeanPathDelay}
      /\ UNCHANGED <<sentDelayReqSequenceId, waitingForDelayResp, requestTimed,
                     txTimestampFailure>>
  BY DEF ClearsDelay, delayVars
<1> QED BY <1>1, <1>2, <1>3 DEF IInv, TimestampIsOfLastRequest, DelayNeedsOffset,
           LastRequest, NoMeanPathDelay

LEMMA DelayStepInv ==
  ASSUME IInv, DelayStep
  PROVE  IInv'
<1> USE DEF IInv, TimestampIsOfLastRequest, DelayNeedsOffset, servoVars
<1>1. CASE RestartNetwork
  BY <1>1 DEF RestartNetwork, syncVars, portVars
<1>2. CASE IssueTimestamped
  <2>1. /\ sentDelayReqSequenceId' \in Ids
        /\ requestTimed' = {LastRequest'}
    BY <1>2, LastOfNext DEF IssueTimestamped, Issues, ProcessOwnRequest, LastRequest
  <2> QED BY <1>2, <2>1 DEF IssueTimestamped, Issues, syncVars, portVars
<1>3. CASE IssueTimestampFails \/ IssueLooped
  BY <1>3, LastOfNext DEF IssueTimestampFails, IssueLooped, Issues, syncVars, portVars
<1>4. ASSUME NEW r \in Ids, HandleDelayReq(r)
      PROVE  IInv'
  BY <1>4 DEF HandleDelayReq, ProcessOwnRequest, LastRequest, syncVars, portVars
<1>5. ASSUME NEW r \in Ids, LoseCopy(r)
      PROVE  IInv'
  BY <1>5 DEF LoseCopy, LastRequest, syncVars, portVars
<1>6. ASSUME NEW r \in Ids, NEW outcome \in DelayOutcomes, HandleDelayResp(r, outcome)
      PROVE  IInv'
  <2>1. /\ slave /\ waitingForDelayResp /\ r = LastRequest /\ ~waitingForDelayResp'
        /\ UNCHANGED <<sentDelayReqSequenceId, requestTimed, txTimestampFailure>>
    BY <1>6 DEF HandleDelayResp
  <2>2. /\ (offsetFirstUpdated => delayMS # NoDelay)'
        /\ slave' => slave
    BY <1>6, <2>1 DEF HandleDelayResp, UpdateDelay, ClearsOffset
  <2>3. \/ meanPathDelay' \in {meanPathDelay, NoMeanPathDelay}
        \/ /\ meanPathDelay' = [known |-> TRUE, oneExchange |-> requestTimed = {r},
                                afterOffset |-> delayMS # NoDelay]
           /\ offsetFirstUpdated
    BY <1>6 DEF HandleDelayResp, UpdateDelay, CanUpdateDelay
  <2>4. CASE meanPathDelay' \in {meanPathDelay, NoMeanPathDelay}
    BY <2>1, <2>2, <2>4 DEF NoMeanPathDelay
  <2>5. CASE meanPathDelay' \notin {meanPathDelay, NoMeanPathDelay}
    <3>1. /\ meanPathDelay'.oneExchange = (requestTimed = {r})
          /\ meanPathDelay'.afterOffset = (delayMS # NoDelay)
      BY <2>3, <2>5
    <3>2. delayMS # NoDelay
      BY <2>3, <2>5
    <3>3. ~txTimestampFailure => requestTimed = {r}
      BY <2>1
    <3>4. meanPathDelay'.afterOffset
      BY <3>1, <3>2
    <3>5. ~txTimestampFailure' => meanPathDelay'.oneExchange
      BY <2>1, <3>1, <3>3
    <3> QED BY <2>1, <2>2, <3>4, <3>5
  <2> QED BY <2>4, <2>5
<1> QED BY <1>1, <1>2, <1>3, <1>4, <1>5, <1>6 DEF DelayStep

LEMMA InvStep == SyncTypeOK /\ IInv /\ [Next]_vars => IInv'
<1> SUFFICES ASSUME SyncTypeOK, IInv, [Next]_vars PROVE IInv'
  OBVIOUS
<1>1. CASE DelayStep
  BY <1>1, DelayStepInv
<1>2. ASSUME NEW m \in Masters, StartAsSlave(m) PROVE IInv'
  BY <1>2 DEF StartAsSlave, BecomeSlave, ResetsDelay, NoMeanPathDelay, ClearsOffset,
              IInv, TimestampIsOfLastRequest, DelayNeedsOffset
<1>3. CASE UNCHANGED vars
  BY <1>3 DEF vars, delayVars, syncVars, portVars, servoVars, IInv, LastRequest,
              TimestampIsOfLastRequest, DelayNeedsOffset
<1> QED BY <1>1, <1>2, <1>3, SyncStepInv DEF Next

THEOREM InvariantHolds == Spec => []IInv
<1>1. Init => IInv
  <2>1. 0 \in Ids
    BY HalfAssumption DEF Ids
  <2> QED BY <2>1 DEF Init, SyncInit, NoMeanPathDelay, IInv, TimestampIsOfLastRequest,
                      DelayNeedsOffset
<1>2. Spec => []SyncTypeOK
  BY ImplementsSyncExchange, SyncTypeCorrect, PTL
<1> QED BY <1>1, <1>2, InvStep, PTL DEF Spec

(* While the kernel time-stamps what is sent, a Delay_Resp is only ever    *)
(* used with the send time of the request it answers.                      *)
THEOREM TimestampsMatch == Spec => []TimestampIsOfLastRequest
BY InvariantHolds, PTL DEF IInv

(* No mean path delay is computed without an offset of this stay in SLAVE. *)
THEOREM DelaysNeedOffset == Spec => []DelayNeedsOffset
BY InvariantHolds, PTL DEF IInv

-----------------------------------------------------------------------------
(* The types.  Those of the Sync exchange hold because it is implemented;  *)
(* of the rest the mean path delay is what takes a word: what it was       *)
(* computed from are Booleans.                                             *)
DelayTypeOK ==
  /\ sentDelayReqSequenceId \in Ids /\ waitingForDelayResp \in BOOLEAN
  /\ requestTimed \subseteq Ids /\ txTimestampFailure \in BOOLEAN /\ copies \subseteq Ids
  /\ meanPathDelay \in [known : BOOLEAN, oneExchange : BOOLEAN, afterOffset : BOOLEAN]

LEMMA MeanPathDelayType ==
  /\ NoMeanPathDelay \in [known : BOOLEAN, oneExchange : BOOLEAN, afterOffset : BOOLEAN]
  /\ \A r : [known |-> TRUE, oneExchange |-> requestTimed = {r}, afterOffset |-> delayMS # NoDelay]
              \in [known : BOOLEAN, oneExchange : BOOLEAN, afterOffset : BOOLEAN]
<1>1. \A r : (requestTimed = {r}) \in BOOLEAN
  BY Zenon
<1>2. (delayMS # NoDelay) \in BOOLEAN
  BY Zenon
<1> QED BY <1>1, <1>2 DEF NoMeanPathDelay

LEMMA DelayTypeStep == DelayTypeOK /\ [Next]_vars => DelayTypeOK'
<1> SUFFICES ASSUME DelayTypeOK, [Next]_vars PROVE DelayTypeOK'
  OBVIOUS
<1> USE DEF DelayTypeOK
<1>1. CASE DelayStep
  <2>1. CASE RestartNetwork
    BY <2>1 DEF RestartNetwork
  <2>2. CASE IssueTimestamped
    BY <2>2, LastOfNext DEF IssueTimestamped, Issues, ProcessOwnRequest
  <2>3. CASE IssueTimestampFails \/ IssueLooped
    BY <2>3, LastOfNext DEF IssueTimestampFails, IssueLooped, Issues, Loop
  <2>4. ASSUME NEW r \in Ids, HandleDelayReq(r) \/ LoseCopy(r)
        PROVE  DelayTypeOK'
    BY <2>4 DEF HandleDelayReq, LoseCopy, ProcessOwnRequest
  <2>5. ASSUME NEW r \in Ids, NEW outcome \in DelayOutcomes, HandleDelayResp(r, outcome)
        PROVE  DelayTypeOK'
    <3>1. \/ meanPathDelay' \in {meanPathDelay, NoMeanPathDelay}
          \/ meanPathDelay' = [known |-> TRUE, oneExchange |-> requestTimed = {r},
                               afterOffset |-> delayMS # NoDelay]
      BY <2>5 DEF HandleDelayResp, UpdateDelay
    <3>2. meanPathDelay' \in [known : BOOLEAN, oneExchange : BOOLEAN, afterOffset : BOOLEAN]
      BY <3>1, MeanPathDelayType, Zenon
    <3> QED BY <2>5, <3>2 DEF HandleDelayResp
  <2> QED BY <1>1, <2>1, <2>2, <2>3, <2>4, <2>5 DEF DelayStep
<1>2. ASSUME NEW m \in Masters, StartAsSlave(m) PROVE DelayTypeOK'
  BY <1>2, MeanPathDelayType DEF StartAsSlave, ResetsDelay
<1>3. CASE UNCHANGED delayVars
  BY <1>3 DEF delayVars
<1>4. CASE ClearsDelay
  BY <1>4, MeanPathDelayType DEF ClearsDelay
<1> QED BY <1>1, <1>2, <1>3, <1>4 DEF Next, vars

(* Every variable keeps its type: ids wrap, and a copy is of an id.        *)
THEOREM TypeCorrect == Spec => []TypeOK
<1>1. Init => DelayTypeOK
  <2>1. 0 \in Ids
    BY HalfAssumption DEF Ids
  <2> QED BY <2>1, MeanPathDelayType DEF Init, DelayTypeOK
<1>2. Spec => []SyncTypeOK
  BY ImplementsSyncExchange, SyncTypeCorrect, PTL
<1>3. SyncTypeOK /\ DelayTypeOK => TypeOK
  BY DEF DelayTypeOK, TypeOK
<1> QED BY <1>1, <1>2, <1>3, DelayTypeStep, PTL DEF Spec
=============================================================================
