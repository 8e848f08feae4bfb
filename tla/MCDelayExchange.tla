-------------------------- MODULE MCDelayExchange --------------------------
(* A slave of two masters that send Follow_Ups and one that does not, with *)
(* six sequence ids and the limit of Syncs without a Follow_Up that the    *)
(* code has.  A slave that measures the delay end to end sends its delay   *)
(* requests beside the Syncs; these are then of two of the masters, with   *)
(* two ids that are not checked, on a network that is not called lossy: a  *)
(* Follow_Up may still never come, but nothing depends on its loss.        *)
EXTENDS DelayExchange

VARIABLE delayMechanism     \* rtOpts->delayMechanism

AFewMasters == {1, 3}
AFewIds     == {0, 1}

ExchangesInit ==
  /\ Init
  /\ delayMechanism \in {"E2E", "P2P"}
  /\ delayMechanism = "P2P" => ~txTimestampFailure
  /\ delayMechanism = "E2E" =>
       parent \in AFewMasters /\ ~syncSequenceChecking /\ ~lossy

E2ENext ==
  /\ delayMechanism = "E2E"
  /\ Next
  /\ parent' \in AFewMasters /\ recvSyncSequenceId' \in AFewIds /\ ~lossy'

P2PNext == delayMechanism = "P2P" /\ SyncNext /\ UNCHANGED delayVars

ExchangesNext == (E2ENext \/ P2PNext) /\ UNCHANGED delayMechanism

ExchangesSpec ==
  ExchangesInit /\ [][ExchangesNext]_<<vars, delayMechanism>> /\ SyncFairness
============================================================================
