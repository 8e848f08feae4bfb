-------------------------- MODULE MCUnicastGrants --------------------------
EXTENDS UnicastGrants, TLC

Alike    == [n \in Nodes |-> "m1"]
Distinct == [n \in Nodes |-> n]

Setting(destinations, size, types, faults) ==
  [destinations |-> [s \in Slaves |-> IF s \in DOMAIN destinations THEN destinations[s] ELSE <<>>],
   size |-> size, types |-> types, faults |-> faults, hash |-> Alike,
   keepalive |-> TRUE, minInterval |-> 0, maxInterval |-> 0]
Slow(setting) == [setting EXCEPT !.minInterval = 1, !.maxInterval = 1]
Hashed(setting) == [setting EXCEPT !.hash = Distinct]

One == "s1" :> <<"m1">>
Two == One @@ "s2" :> <<"m1">>
Timing == {"ANNOUNCE", "SYNC"}

(* One slave and one master. *)
Pairs ==
  {Setting(One, 1, Timing \cup {"DELAY_RESP"}, {}),
   Setting(One, 1, Timing, {"loss"}),
   Setting(One, 1, Timing, {"leave", "wrap"}),
   Slow(Setting(One, 1, {"ANNOUNCE"}, {"loss", "reload"})),
   Slow(Setting(One, 1, {"ANNOUNCE"}, {"loss", "slave"})),
   Setting(One, 1, {"ANNOUNCE"}, {"master"})}

(* Two slaves of one master, and a slave of two masters. *)
Switching == [Setting("s1" :> <<"m1", "m2">>, 2, Timing, {}) EXCEPT !.keepalive = FALSE]
Competing ==
  {Setting(Two, 2, {"ANNOUNCE"}, {}),
   Hashed(Setting(Two, 1, {"ANNOUNCE"}, {"loss"})),
   Hashed(Setting(Two, 1, Timing, {"leave"})),
   Switching}

Order == [m \in Masters |-> IF m = "m1" THEN 1 ELSE 2]
=============================================================================
