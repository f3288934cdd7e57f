------------------------------- MODULE TicTacToe -------------------------------
(*****************************************************************************)
(* What the programs of rl-ttt promise to play: tic-tac-toe, one game after  *)
(* another.  X begins, the sides alternate, and a game is over when a side   *)
(* has a row, a column or a diagonal or when the grid is full.               *)
(*****************************************************************************)
EXTENDS Integers, FiniteSets

VARIABLES grid,         (* what each cell holds: "X", "O" or ""              *)
          result        (* "X", "O" or "draw"; "none" while the game goes on *)

vars == <<grid, result>>

Cells == 0..8
Row(i) == i \div 3
Col(i) == i % 3

(* A row, a column or a diagonal of one side.                                *)
Has(g, side) ==
  \/ \E k \in 0..2 : \A i \in Cells : Row(i) = k => g[i] = side
  \/ \E k \in 0..2 : \A i \in Cells : Col(i) = k => g[i] = side
  \/ \A i \in Cells : Row(i) = Col(i) => g[i] = side
  \/ \A i \in Cells : Row(i) + Col(i) = 2 => g[i] = side

Full(g) == \A i \in Cells : g[i] # ""

ResultOf(g) ==
  IF Has(g, "X") THEN "X"
  ELSE IF Has(g, "O") THEN "O"
  ELSE IF Full(g) THEN "draw" ELSE "none"

Count(g, side) == Cardinality({i \in Cells : g[i] = side})
Turn == IF Count(grid, "X") = Count(grid, "O") THEN "X" ELSE "O"

EmptyGrid == [i \in Cells |-> ""]

Init == grid = EmptyGrid /\ result = "none"

Move(i) ==
  /\ result = "none" /\ grid[i] = ""
  /\ grid' = [grid EXCEPT ![i] = Turn]
  /\ result' = ResultOf(grid')

NewGame == grid' = EmptyGrid /\ result' = "none"

Next == NewGame \/ \E i \in Cells : Move(i)

Spec == Init /\ [][Next]_vars
===============================================================================
