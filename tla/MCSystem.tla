------------------------------ MODULE MCSystem ------------------------------
(***************************************************************************)
(* Client ids that are time stamps, two slots on the server.  Sessions     *)
(* begin with the server's start, or late in a game that went smoothly, so *)
(* that few clicks are left to a win or a draw.                            *)
(***************************************************************************)
EXTENDS System, TLC

MCTiles == Positions

\* The last pixel of cell 0, the first of cell 4, and one above the board.
TwoCells == [c \in Clients |-> {<<159, 189>>, <<160, 190>>, <<20, 29>>}]

\* Cell 0 for both, and a cell of the first row for each.
ContestedCell == [c \in Clients |-> {<<159, 189>>, <<160 * c, 30>>}]

\* No step and no invariant tells one client from another.
ClientsAlike == Permutations(Clients)

\* Moves that leave X a line by cell 0, and moves that leave cell 0 for a draw.
LateGames == {<<1, 3, 2, 5>>, <<2, 1, 3, 4, 7, 5, 8, 6>>}

\* x and o have joined one after the other, made these moves and read all of
\* it, frame by frame; their clicks so far are not counted.
LateInit(x, o, moves) ==
  LET mover(k) == IF k % 2 = 1 THEN x ELSE o
      For(value, other) == [c \in Clients |-> IF c \in {x, o} THEN value ELSE other]
      drawn == {<<k + 3, moves[k], IF mover(k) = x THEN "X" ELSE "O">> : k \in 1..Len(moves)}
  IN  /\ connected = {x, o} /\ gone = {} /\ serverEvents = << >>
      /\ uplink = [c \in Clients |-> << >>]
      /\ step = "update" /\ polled = {} /\ messages = << >>
      /\ log = <<PlayerJoined(x), PlayerJoined(o), GameStarted(x)>>
                 \o [k \in 1..Len(moves) |-> TilePlaced(mover(k), moves[k])]
      /\ topic = {JoinGame(x), JoinGame(o)}
                   \cup {PlaceTile(mover(k), moves[k]) : k \in 1..Len(moves)}
      /\ state = hydrate(log)
      /\ downlink = For(log, << >>) /\ read = For(Len(log), 0)
      /\ view = For(state, DefaultState)
      /\ pair = For(<<x, o>>, << >>) /\ pieces = For(drawn, {})
      /\ status = [For(Waiting, Waiting) EXCEPT ![x] = Text("YourTurn", NoPlayer),
                                                ![o] = Text("Turn", x)]
      /\ clicks = [c \in Clients |-> << >>]
      /\ restarts = 0

EarlyOrLate ==
  \/ Init
  \/ \E x \in Clients : \E o \in Clients \ {x} : \E moves \in LateGames : LateInit(x, o, moves)

StreamsSpec == EarlyOrLate /\ [][Next]_vars
=============================================================================
