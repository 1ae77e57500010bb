---------------------------- MODULE MCSimulation ----------------------------
(***************************************************************************)
(* The logs of sessions of up to seven commands of two players on a few    *)
(* tiles, among them games that are won, abandoned and never started.      *)
(***************************************************************************)
EXTENDS Simulation, FiniteSets

MCTiles == 0..9

MCCommands ==
       [type : {"JoinGame"}, player_id : Players]
  \cup {[type |-> "PlaceTile", player_id |-> 1, at |-> i] : i \in {0, 1, 2}}
  \cup {[type |-> "PlaceTile", player_id |-> 2, at |-> i] : i \in {0, 4, 9}}
  \cup {[type |-> "LeaveGame", player_id |-> 2]}

\* What a session may have recorded after n commands.
Recorded ==
  LET after[n \in 0..7] ==
        IF n = 0 THEN {<< >>}
        ELSE after[n - 1] \cup
               {entries \o decide(hydrate(entries), cmd).events :
                  entries \in after[n - 1], cmd \in MCCommands}
      departures(entries) == {k \in 1..Len(entries) : entries[k].type = "PlayerLeft"}
  IN  {entries \in after[7] : Cardinality(departures(entries)) <= 1}
=============================================================================
