-------------------------------- MODULE TttGame --------------------------------
(*****************************************************************************)
(* rl-ttt/rl_ttt/game.py and opponents.py: the rules on a board seen by the  *)
(* side to move, which is always ME, and the players that are not trained.   *)
(*****************************************************************************)
EXTENDS Integers, Sequences, FiniteSets, TLC

EMPTY == 0
ME    == 1
OPP   == -1

Cells == 0..8
Board == [Cells -> {EMPTY, ME, OPP}]

(* Mutant: a diagonal that is none.                                          *)
WinningLinesTypo ==
  <<<<0, 1, 2>>, <<3, 4, 5>>, <<6, 7, 8>>, <<0, 3, 6>>, <<1, 4, 7>>,
    <<2, 5, 8>>, <<0, 4, 8>>, <<2, 4, 7>>>>

WINNING_LINES ==
  <<<<0, 1, 2>>, <<3, 4, 5>>, <<6, 7, 8>>, <<0, 3, 6>>, <<1, 4, 7>>,
    <<2, 5, 8>>, <<0, 4, 8>>, <<2, 4, 6>>>>

initial_board == [i \in Cells |-> EMPTY]
legal_moves(b) == {i \in Cells : b[i] = EMPTY}
apply_move(b, action) == [b EXCEPT ![action] = ME]
flip_perspective(b) == [i \in Cells |-> -b[i]]

LineSum(b, line) == b[line[1]] + b[line[2]] + b[line[3]]

(* The first full line decides.                                              *)
winner(b) ==
  LET full  == {k \in 1..8 : LineSum(b, WINNING_LINES[k]) \in {3 * ME, 3 * OPP}}
      first == CHOOSE k \in full : \A l \in full : k <= l IN
  IF full = {} THEN 0 ELSE b[WINNING_LINES[first][1]]

is_terminal(b) ==
  LET w == winner(b) IN
  [done |-> w # 0 \/ legal_moves(b) = {}, reward |-> w]

-----------------------------------------------------------------------------
(* Opponents                                                                 *)

random_player(b) == legal_moves(b)

Child(b, a) == flip_perspective(apply_move(b, a))

(* The boards after 0, 1, ... 9 moves.                                       *)
Plies ==
  LET Deeper(boards) ==
        UNION {{Child(b, a) : a \in legal_moves(b)} :
               b \in {c \in boards : ~is_terminal(c).done}}
      upTo[k \in 0..9] ==
        IF k = 0 THEN <<{initial_board}>>
        ELSE LET above == upTo[k - 1] IN Append(above, Deeper(above[k])) IN
  upTo[9]

(* The best value, and of the moves that have it the lowest.                 *)
Beats(values, a) ==
  \A c \in DOMAIN values :
    values[a] > values[c] \/ (values[a] = values[c] /\ a <= c)

(* _negamax of a board whose children are in the memo; no move (-1) on a     *)
(* terminal board.                                                           *)
Negamax(b, memo) ==
  LET values == [a \in legal_moves(b) |-> -memo[Child(b, a)].value]
      best == CHOOSE a \in DOMAIN values : Beats(values, a) IN
  IF is_terminal(b).done
  THEN [value |-> is_terminal(b).reward, action |-> -1]
  ELSE [value |-> values[best], action |-> best]

(* What lru_cache holds after a search from the start, deepest boards first. *)
NegamaxMemo ==
  LET memo[k \in 0..10] ==
        IF k = 0 THEN <<>>
        ELSE LET below == memo[k - 1] IN
             [b \in Plies[11 - k] |-> Negamax(b, below)] @@ below IN
  memo[10]

minimax_player(b) == NegamaxMemo[b].action

(* What the recursion computes, for every board it meets: the value of a     *)
(* board is the best that a move is worth, and minimax_player makes a move   *)
(* that is worth it.  From the start that is a draw.                         *)
ASSUME NegamaxAssumption ==
  /\ initial_board \in DOMAIN NegamaxMemo
  /\ NegamaxMemo[initial_board].value = 0
  /\ \A b \in DOMAIN NegamaxMemo :
       LET value == NegamaxMemo[b].value IN
       /\ value \in {-1, 0, 1}
       /\ IF is_terminal(b).done THEN value = is_terminal(b).reward
          ELSE /\ minimax_player(b) \in legal_moves(b)
               /\ \A a \in legal_moves(b) :
                    /\ Child(b, a) \in DOMAIN NegamaxMemo
                    /\ LET worth == -NegamaxMemo[Child(b, a)].value IN
                       /\ worth <= value
                       /\ a = minimax_player(b) => worth = value
===============================================================================
