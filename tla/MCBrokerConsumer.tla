-------------------------- MODULE MCBrokerConsumer --------------------------
(***************************************************************************)
(* The consumer groups of redpanda.rs:45, both and one of them alone.      *)
(***************************************************************************)
EXTENDS BrokerConsumer, FiniteSetsExt

BothGroups == {"game-server-loop", "game-audit-log"}
OneGroup == {"game-server-loop"}

\* Bound: what befalls both groups together, be it a restart or a rebalance of
\* either.
MaxDisturbances == 1

Disturbances == epoch + MapThenSumSet(LAMBDA g : rebalances[g], Groups)

SharingNext == Next /\ Disturbances' <= MaxDisturbances

SharingSpec == Init /\ [][SharingNext]_vars /\ Fairness
=============================================================================
