--------------------------- MODULE MCFollowUps ---------------------------
(* The two messages ptpd follows up, each on its own: the answers to peer  *)
(* delay requests, and the Syncs of a unicast master.  Where one is at     *)
(* work the other's configuration has it idle.                             *)
EXTENDS PeerDelay, SyncDestinations, TLC

Setting(ports, asking, unicast, looping, faults) ==
  [ports |-> ports, asking |-> asking, looping |-> looping, faults |-> faults,
   peer |-> [p \in Ports |-> IF ~unicast THEN None ELSE IF p = "b" THEN "a" ELSE "b"]]

Link == {"a", "b"}
Links ==
  {Setting(Link, {"a"}, FALSE, TRUE, {"slow"}),
   Setting(Link, {"a"}, FALSE, TRUE, {"loss", "late"}),
   Setting(Link, {"a"}, FALSE, FALSE, {"loss", "slow"}),
   Setting(Link, {"a"}, TRUE, FALSE, {"stamp"}),
   Setting(Link, {"a"}, FALSE, FALSE, {"stamp", "state"}),
   Setting(Link, {"a"}, FALSE, FALSE, {"oneStep"}),
   Setting(Link, Link, FALSE, TRUE, {}),
   Setting(Ports, Ports \ {"b"}, TRUE, FALSE, {})}
Idle == Setting({}, {}, FALSE, FALSE, {})
LinksAndIdle == Links \cup {Idle}

FollowUpsNext ==
  \/ config # Idle /\ Next /\ UNCHANGED syncVars
  \/ config = Idle /\ SyncNext /\ UNCHANGED vars

FollowUpsInit == Init /\ SyncInit /\ (txStamps \/ config = Idle)

FollowUpsSpec ==
  /\ FollowUpsInit
  /\ [][FollowUpsNext]_<<vars, syncVars>>
  /\ Fairness
=============================================================================
