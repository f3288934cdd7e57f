-------------------------------- MODULE TttPlay --------------------------------
(*****************************************************************************)
(* The two ways to play: `rl_ttt play`, one game of the human against the    *)
(* agent (cli.py, _cmd_play), and the page on which the user moves for both  *)
(* sides and sees the agent's Q-values (web/app.js).  Both keep an absolute  *)
(* board, of +1 and -1 instead of mine and theirs: +1 is the human in the    *)
(* one, X in the other.                                                      *)
(*****************************************************************************)
EXTENDS TttGame

VARIABLES
  ui,                         (* the program that runs: "cli" or "web"       *)
  board,                      (* absolute; +1 and -1 are ME and OPP          *)
  phase,                      (* "playing", "gameover"; "bye" on EOF         *)
  result,                     (* the winner's piece, 0 a draw, NoResult      *)
  human_first, human_to_move, (* of _cmd_play                                *)
  lastMove, moveCount,        (* of the page                                 *)
  key, qvals                  (* what render looked up, the cells it put a
                                 number in                                   *)

cli == <<human_first, human_to_move>>
web == <<lastMove, moveCount, key, qvals>>
vars == <<ui, board, phase, result, cli, web>>

X == ME
O == OPP
NoResult == 2
NoMove == <<>>

-----------------------------------------------------------------------------
(* The game of _cmd_play                                                     *)

Place(b, a, piece) == [b EXCEPT ![a] = piece]

(* The head of the loop: is the game over?                                   *)
Announce(b) ==
  LET w == winner(b) IN
  /\ board' = b
  /\ IF w # 0 \/ legal_moves(b) = {}
     THEN phase' = "gameover" /\ result' = w
     ELSE UNCHANGED <<phase, result>>

HumanMoves ==
  /\ ui = "cli" /\ phase = "playing" /\ human_to_move
  /\ \E a \in legal_moves(board) : Announce(Place(board, a, 1))
  /\ human_to_move' = FALSE
  /\ UNCHANGED <<ui, human_first, web>>

(* Not a number, or not a legal move: ask again.                             *)
HumanMistypes ==
  /\ ui = "cli" /\ phase = "playing" /\ human_to_move
  /\ UNCHANGED vars

HumanQuits ==
  /\ ui = "cli" /\ phase = "playing" /\ human_to_move
  /\ phase' = "bye"
  /\ UNCHANGED <<ui, board, result, cli, web>>

(* The agent chooses on its own view of the board, which is negated.         *)
AgentMoves ==
  /\ ui = "cli" /\ phase = "playing" /\ ~human_to_move
  /\ LET agent_view == flip_perspective(board) IN
     \E a \in legal_moves(agent_view) : Announce(Place(board, a, -1))
  /\ human_to_move' = TRUE
  /\ UNCHANGED <<ui, human_first, web>>

CliEnded == ui = "cli" /\ phase # "playing" /\ UNCHANGED vars

-----------------------------------------------------------------------------
(* The page                                                                  *)

sideToMovePiece(b) ==
  LET count(piece) == Cardinality({i \in Cells : b[i] = piece}) IN
  IF count(X) = count(O) THEN X ELSE O

(* The lines are game.py's; the test for one is not.                         *)
checkWinner(b) ==
  LET Won(line) == /\ b[line[1]] # EMPTY
                   /\ b[line[1]] = b[line[2]] /\ b[line[1]] = b[line[3]]
      won == SelectSeq(WINNING_LINES, Won) IN
  IF won = <<>> THEN 0 ELSE b[won[1][1]]

isDraw(b) == checkWinner(b) = 0 /\ legal_moves(b) = {}

(* Mutant: the board is looked up as it is.                                  *)
AsX(b) == [i \in Cells |-> b[i]]

canonicalForCurrentPlayer(b) == [i \in Cells |-> sideToMovePiece(b) * b[i]]

(* A row of the table has numbers at the key's empty cells only, and a row   *)
(* that is missing is all zeros; a number is shown on the empty cells.       *)
Render(b) ==
  /\ key' = canonicalForCurrentPlayer(b)
  /\ \E row \in {legal_moves(key'), Cells} : qvals' = legal_moves(b) \cap row

startNewGame ==
  /\ board' = initial_board /\ result' = NoResult /\ phase' = "playing"
  /\ lastMove' = NoMove /\ moveCount' = 0
  /\ Render(board')

(* Mutant: the end of the game is not noticed when the grid is full.         *)
ApplyMoveNoDraw(i) ==
  LET p == sideToMovePiece(board)
      w == checkWinner(board') IN
  /\ board' = Place(board, i, p)
  /\ lastMove' = <<i, p>> /\ moveCount' = moveCount + 1
  /\ IF w # 0 THEN phase' = "gameover" /\ result' = w
     ELSE UNCHANGED <<phase, result>>
  /\ Render(board')

applyMove(i) ==
  LET p == sideToMovePiece(board)
      w == checkWinner(board') IN
  /\ board' = Place(board, i, p)
  /\ lastMove' = <<i, p>> /\ moveCount' = moveCount + 1
  /\ IF w # 0 \/ isDraw(board') THEN phase' = "gameover" /\ result' = w
     ELSE UNCHANGED <<phase, result>>
  /\ Render(board')

onCellClick ==
  /\ ui = "web" /\ phase = "playing"
  /\ \E i \in Cells : board[i] = EMPTY /\ applyMove(i)
  /\ UNCHANGED <<ui, cli>>

onNewGame == ui = "web" /\ startNewGame /\ UNCHANGED <<ui, cli>>

-----------------------------------------------------------------------------
(* The page starts with its first game; _cmd_play tosses a coin.             *)
Init ==
  /\ ui \in {"cli", "web"}
  /\ board = initial_board /\ phase = "playing" /\ result = NoResult
  /\ human_first \in (IF ui = "cli" THEN BOOLEAN ELSE {TRUE})
  /\ human_to_move = human_first
  /\ lastMove = NoMove /\ moveCount = 0
  /\ key = initial_board /\ qvals = Cells

Next ==
  \/ HumanMoves \/ HumanMistypes \/ HumanQuits \/ AgentMoves \/ CliEnded
  \/ onCellClick \/ onNewGame

Spec == Init /\ [][Next]_vars

-----------------------------------------------------------------------------
(* Properties                                                                *)

(* X is who began.                                                           *)
NameOf(piece) == IF (piece = 1) = human_first THEN "X" ELSE "O"

Absolute ==
  INSTANCE TicTacToe WITH
    grid <- [i \in Cells |-> IF board[i] = EMPTY THEN "" ELSE NameOf(board[i])],
    result <- CASE result = NoResult -> "none"
                [] result = 0 -> "draw"
                [] OTHER -> NameOf(result)

(* Both programs play by the rules: the command line, which keeps whose turn *)
(* it is in human_to_move and checks for the end before every move, and the  *)
(* page, which counts pieces to know whose turn it is and checks after every *)
(* move with a test for a line of its own.                                   *)
PlayIsAGame == Absolute!Spec

(* While a game goes on the page looks the Q-table up with a board on which  *)
(* the player it shows as +1 is to move, as the learner's keys are           *)
(* (QLearning!KeysAreDecisions), and it shows a number on exactly the cells  *)
(* a click is accepted on, whichever rows the exported table has; what it    *)
(* highlights is the move that led to the board it shows.                    *)
PageShowsTheMoves ==
  ui = "web" =>
    /\ phase = "playing" =>
         /\ Cardinality({i \in Cells : key[i] = OPP})
              - Cardinality({i \in Cells : key[i] = ME}) = moveCount % 2
         /\ qvals = legal_moves(board)
    /\ lastMove # NoMove => board[lastMove[1]] = lastMove[2]
    /\ moveCount = Cardinality(Cells \ legal_moves(board))
===============================================================================
