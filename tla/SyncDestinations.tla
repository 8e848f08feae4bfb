-------------------------- MODULE SyncDestinations --------------------------
(***************************************************************************)
(* Where a two-step master in unicast sends its Follow_Ups (protocol.c).   *)
(* issueSync() sends a Sync to each destination.  While the kernel gives   *)
(* send time stamps the Follow_Up goes out at once.  Without, the Sync is  *)
(* looped back, and all that tells whose copy it is is the origin time in  *)
(* it: issueSyncSingle() indexes the destination by a hash of that time,   *)
(* and handleSync() looks it up, or else searches for the very time.       *)
(***************************************************************************)
EXTENDS Naturals, FiniteSets, FiniteSetsExt

CONSTANTS
  Destinations,     \* 1..n: the slots of the unicast table, in order
  Hashes            \* what fnvHash() of an origin time may be

ASSUME DestinationsAssumption ==
  IsFiniteSet(Destinations) /\ Destinations = 1..Cardinality(Destinations)

VARIABLES
  round,                \* the parity of the last issueSync()
  txStamps,             \* the kernel gives send time stamps
  syncDestIndex,        \* a destination for each hash, or 0
  lastSyncTimestamp,    \* of each destination: the round of its Sync, or 2
  syncCopies,           \* looped back Syncs: [of, round, hash]
  followUps,            \* the Follow_Ups of the last step: [of, to]
  crowded, late         \* three times had one hash; copies were left over

syncVars == <<round, txStamps, syncDestIndex, lastSyncTimestamp, syncCopies,
              followUps, crowded, late>>

Never == 2              \* clearTime()

SyncInit ==
  /\ round = 0 /\ txStamps \in BOOLEAN
  /\ syncDestIndex = [h \in Hashes |-> 0]
  /\ lastSyncTimestamp = [d \in Destinations |-> Never]
  /\ syncCopies = {} /\ followUps = {}
  /\ crowded = FALSE /\ late = FALSE

-----------------------------------------------------------------------------
(* indexSync() for the destinations D whose times have one hash, in turn:  *)
(* the second one clears the entry, a third one takes it, and so on.       *)
\* A bug: the second destination takes the entry.
IndexSync_Overwrites(D) == IF D # {} THEN Max(D) ELSE 0
IndexSync(D) == IF Cardinality(D) % 2 = 1 THEN Max(D) ELSE 0

(* issueSync(): S are the destinations with a grant whose interval is due, *)
(* or all that are configured; hash is that of the origin time of each     *)
(* Sync, or with the kernel's stamp of that.  The stamps come for those    *)
(* before `failing`, and from then on each Sync is looped back.            *)
IssueSync(S, hash, failing) ==
  LET stamped == {d \in S : txStamps /\ d < failing}
      sharing(h) == {d \in S : hash[d] = h}
  IN
  /\ round' = 1 - round
  /\ syncDestIndex' = [h \in Hashes |-> IndexSync(sharing(h))]
  /\ lastSyncTimestamp' = [d \in Destinations |-> IF d \in S THEN 1 - round ELSE Never]
  /\ txStamps' = (txStamps /\ S = stamped)
  /\ followUps' = {[of |-> d, to |-> d] : d \in stamped}
  /\ syncCopies' = syncCopies \cup
       {[of |-> d, round |-> 1 - round, hash |-> hash[d]] : d \in S \ stamped}
  /\ crowded' = \E h \in Hashes : Cardinality(sharing(h)) > 2
  /\ late' = (syncCopies # {})

(* A copy is read before the second round after its own.                   *)
IssueSyncs ==
  /\ \A copy \in syncCopies : copy.round = round
  /\ \E S \in SUBSET Destinations \ {{}} : \E hash \in [S -> Hashes],
       failing \in Destinations \cup {Cardinality(Destinations) + 1} :
         IssueSync(S, hash, failing)

(* issueSync() in a leap second: the index is cleared, nothing is sent,    *)
(* and handle() drops the copies.                                          *)
LeapSecond ==
  /\ syncDestIndex' = [h \in Hashes |-> 0]
  /\ lastSyncTimestamp' = [d \in Destinations |-> Never]
  /\ syncCopies' = {} /\ followUps' = {} /\ crowded' = FALSE /\ late' = FALSE
  /\ UNCHANGED <<round, txStamps>>

(* findSyncDestination(): the origin time itself.                          *)
Searched(copy) == IF lastSyncTimestamp[copy.of] = copy.round THEN copy.of ELSE 0

(* The copies are read in the order the Syncs were sent.                   *)
Oldest(copy) ==
  \A other \in syncCopies :
    IF other.round = copy.round THEN copy.of <= other.of ELSE copy.round # round

(* handleSync() of our own Sync with lookupSyncIndex(): no Follow_Up if    *)
(* neither knows a destination.                                            *)
HandleOwnSync(copy) ==
  LET indexed == syncDestIndex[copy.hash]
      dst == IF indexed # 0 THEN indexed ELSE Searched(copy)
  IN
  /\ Oldest(copy)
  /\ syncCopies' = syncCopies \ {copy}
  /\ syncDestIndex' = [syncDestIndex EXCEPT ![copy.hash] = 0]
  /\ lastSyncTimestamp' = IF indexed = 0 /\ dst # 0
                            THEN [lastSyncTimestamp EXCEPT ![dst] = Never]
                            ELSE lastSyncTimestamp
  /\ followUps' = IF dst = 0 THEN {} ELSE {[of |-> copy.of, to |-> dst]}
  /\ UNCHANGED <<round, txStamps, crowded, late>>

(* The buffer of the socket was full.                                      *)
LoseSyncCopy(copy) ==
  /\ syncCopies' = syncCopies \ {copy} /\ followUps' = {}
  /\ UNCHANGED <<round, txStamps, syncDestIndex, lastSyncTimestamp, crowded, late>>

SyncNext ==
  \/ IssueSyncs \/ LeapSecond
  \/ \E copy \in syncCopies : HandleOwnSync(copy) \/ LoseSyncCopy(copy)

SyncSpec == SyncInit /\ [][SyncNext]_syncVars

-----------------------------------------------------------------------------
(* As long as no three Syncs of a round share a hash and the copies are    *)
(* read before the next round, every looped back Sync has its Follow_Up,   *)
(* and every Follow_Up goes where its Sync went.                           *)
FollowUpsArrive ==
  [][\A copy \in syncCopies :
       HandleOwnSync(copy) /\ ~crowded /\ ~late =>
         followUps' = {[of |-> copy.of, to |-> copy.of]}]_syncVars
=============================================================================
