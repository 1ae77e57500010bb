--------------------------- MODULE MCGameService ---------------------------
(***************************************************************************)
(* Sessions for GameService: two players and a third who finds no slot.    *)
(* Player ids 1..3 are PlayerId values; an envelope's id is its command,   *)
(* so that a redelivery is the same envelope handled again, except for the *)
(* second join of a player, which its client sends beside the server's.    *)
(***************************************************************************)
EXTENDS GameService

Join(p)      == [type |-> "JoinGame", player_id |-> p]
Place(p, i)  == [type |-> "PlaceTile", player_id |-> p, at |-> i]
Leave(p)     == [type |-> "LeaveGame", player_id |-> p]

Envelope(cmd) == [id |-> <<"server", cmd>>, game_id |-> GameId, command |-> cmd]

\* drain_client_commands makes a fresh envelope of a client's own JoinGame.
ClientsOwn(cmd) == [Envelope(cmd) EXCEPT !.id = <<"client", cmd>>]

\* A command left in the topic by an earlier server, whose game id differs.
Stale(cmd) == [id |-> <<"stale", cmd>>, game_id |-> "earlier", command |-> cmd]

MCPlayers == 1..3
MCGame == "this"
MCTiles == 0..9

Common ==
       {Envelope(Join(p)) : p \in Players}
  \cup {ClientsOwn(Join(1)), Stale(Place(1, 0))}

\* Either side can win (0,1,2 or 3,4,5), both want tile 0, one move is off the
\* board, and a player or the third client may leave.
Contest ==
  Common \cup {Envelope(Place(1, i)) : i \in {0, 1, 2, 8, 9}}
         \cup {Envelope(Place(2, i)) : i \in {0, 3, 4, 5}}
         \cup {Envelope(Leave(1)), Envelope(Leave(3))}

\* Eight moves that leave cell 0 for a draw, and eight that leave it for a line
\* that fills the board: 1 moves first.
LateGames == {<<2, 1, 3, 4, 7, 5, 8, 6>>, <<1, 4, 2, 5, 3, 6, 8, 7>>}

Mover(k) == IF k % 2 = 1 THEN 1 ELSE 2

Played == UNION {{Envelope(Place(Mover(k), moves[k])) : k \in 1..8} : moves \in LateGames}

MCEnvelopes == Contest \cup Played

\* 1 and 2 have joined one after the other and made these moves, and every
\* record has been delivered.
LateInit(moves) ==
  LET handled == <<Join(1), Join(2), Join(2)>>
                   \o [k \in 1..Len(moves) |-> Place(Mover(k), moves[k])]
      decided == <<PlayerJoined(1), PlayerJoined(2), GameStarted(1)>>
                   \o [k \in 1..Len(moves) |-> TilePlaced(Mover(k), moves[k])]
  IN  /\ log = [k \in 1..Len(decided) |->
                  GameEventEnvelope(k - 1, decided[k], Envelope(handled[k]).id)]
      /\ published = log /\ broadcast = decided

\* Bound: what is applied anew comes of Contest; the other moves played in a
\* late session come again as redeliveries only.
NewsFromContest ==
  \A k \in (Len(log) + 1)..Len(log') : log'[k].command_id \in {env.id : env \in Contest}

\* Sessions from the server's start, and from just before the last tile.
ContestSpec ==
  /\ Init \/ \E moves \in LateGames : LateInit(moves)
  /\ [][Next /\ NewsFromContest]_vars
=============================================================================
