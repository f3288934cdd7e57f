------------------------------- MODULE QLearning -------------------------------
(*****************************************************************************)
(* rl-ttt/rl_ttt/train.py and agent.py: the trainee plays episode after      *)
(* episode, against random_player (phase 1a) or against itself (phase 1b),   *)
(* and is evaluated every cfg.eval_every episodes and at the end.            *)
(*                                                                           *)
(* The numbers of the Q-table are abstracted away: the greedy choice may be  *)
(* any legal move.  What is kept of agent.update is the experience it is     *)
(* given, of the Q-table the boards it is looked up with.                    *)
(*****************************************************************************)
EXTENDS TttGame

CONSTANTS Configs,       (* the TrainConfigs: phase, episodes, eval_every and
                            eps_decay_episodes                               *)
          EvalGames,     (* cfg.eval_games_per_opponent                      *)
          EpsStart,
          EpsEnd         (* cfg.eps_start and eps_end, in tenths             *)

ASSUME ConfigsAssumption ==
  \A c \in Configs : /\ c.phase \in {"1a", "1b"} /\ c.episodes \in Nat
                     /\ c.eval_every \in Nat \ {0} /\ c.decay \in Int
ASSUME EvalGamesAssumption == EvalGames \in Nat \ {0}
ASSUME EpsAssumption == EpsStart \in Nat /\ EpsEnd \in Nat

VARIABLES
  cfg, ep, history,      (* of _training_loop; ep counts finished episodes   *)
  stage,                 (* who is being played, and why                     *)
  at,                    (* "game" inside _run_episode, "returned" from it,
                            "loop" in one of the loops around it             *)
  epsilon,               (* of the agent, in tenths over the decay length    *)
  original_eps, tally,   (* of evaluate                                      *)
  trainee_first, trainee_to_move, board, last,      (* of _run_episode; at   *)
                         (* its end board is the new_board that ended it     *)
  outcome,               (* what _run_episode returned; NoOutcome before     *)
  update, credits        (* history variables: the experience this step gave
                            to agent.update; how many this episode gave      *)

loop == <<cfg, ep, history, stage, original_eps, tally, epsilon>>
game == <<trainee_first, trainee_to_move, board, last, outcome, update,
          credits>>
vars == <<loop, at, game>>

NoOutcome == 2
NoUpdate == <<>>
NoBoard == <<>>
NoMove == <<>>
ZeroTally == [win |-> 0, draw |-> 0, loss |-> 0]

-----------------------------------------------------------------------------
(* agent.py and the schedule                                                 *)

(* Exploring picks any legal move; so may the greedy choice.                 *)
select_action(b) == legal_moves(b)

(* An experience, as agent.update takes it.                                  *)
Experience(move, r, next) ==
  [s |-> move[1], a |-> move[2], r |-> r, s_next |-> next]

EpsScale == IF cfg.decay > 0 THEN cfg.decay ELSE 1

epsilon_schedule(e) ==
  IF cfg.decay <= 0 \/ e >= cfg.decay
  THEN EpsEnd * EpsScale
  ELSE EpsStart * cfg.decay + (EpsEnd - EpsStart) * e

-----------------------------------------------------------------------------
Init ==
  /\ cfg \in Configs
  /\ ep = 0 /\ history = <<>> /\ stage = "train" /\ at = "loop"
  /\ epsilon = EpsStart * EpsScale /\ original_eps = 0 /\ tally = ZeroTally
  /\ trainee_first \in BOOLEAN /\ trainee_to_move = trainee_first
  /\ board = initial_board /\ last = NoMove /\ outcome = NoOutcome
  /\ update = NoUpdate /\ credits = 0

train == stage = "train"

(* The entry of _run_episode: a coin decides who begins.                     *)
EnterEpisode ==
  /\ at' = "game"
  /\ trainee_first' \in BOOLEAN /\ trainee_to_move' = trainee_first'
  /\ board' = initial_board /\ last' = NoMove /\ outcome' = NoOutcome
  /\ update' = NoUpdate /\ credits' = 0

(* Mutant: evaluations train the agent as well.                              *)
LearnInEvaluation(move, r, next) ==
  IF move # NoMove
  THEN update' = Experience(move, r, next) /\ credits' = credits + 1
  ELSE update' = NoUpdate /\ UNCHANGED credits

(* agent.update, called only while training.                                 *)
Learn(move, r, next) ==
  IF train /\ move # NoMove
  THEN update' = Experience(move, r, next) /\ credits' = credits + 1
  ELSE update' = NoUpdate /\ UNCHANGED credits

opponent(b) ==
  CASE stage = "random" -> random_player(b)
    [] stage = "minimax" -> {minimax_player(b)}
    [] stage = "train" /\ cfg.phase = "1a" -> random_player(b)
    [] stage = "train" /\ cfg.phase = "1b" -> select_action(b)

ReturnOutcome(new_board, r) ==
  at' = "returned" /\ board' = new_board /\ outcome' = r
  /\ UNCHANGED <<last, trainee_to_move>>

(* Mutant: the trainee's board is handed over unflipped.                     *)
TraineeMovesUnflipped ==
  /\ at = "game" /\ trainee_to_move
  /\ \E a \in select_action(board) :
       LET new_board == apply_move(board, a)
           end == is_terminal(new_board) IN
       \/ /\ end.done
          /\ Learn(<<board, a>>, end.reward, NoBoard)
          /\ ReturnOutcome(new_board, end.reward)
       \/ /\ ~end.done
          /\ last' = IF train THEN <<board, a>> ELSE NoMove
          /\ board' = new_board
          /\ trainee_to_move' = FALSE
          /\ update' = NoUpdate
          /\ UNCHANGED <<at, outcome, credits>>
  /\ UNCHANGED <<loop, trainee_first>>

TraineeMoves ==
  /\ at = "game" /\ trainee_to_move
  /\ \E a \in select_action(board) :
       LET new_board == apply_move(board, a)
           end == is_terminal(new_board) IN
       \/ /\ end.done
          /\ Learn(<<board, a>>, end.reward, NoBoard)
          /\ ReturnOutcome(new_board, end.reward)
       \/ /\ ~end.done
          (* read again only to train *)
          /\ last' = IF train THEN <<board, a>> ELSE NoMove
          /\ board' = flip_perspective(new_board)
          /\ trainee_to_move' = FALSE
          /\ update' = NoUpdate
          /\ UNCHANGED <<at, outcome, credits>>
  /\ UNCHANGED <<loop, trainee_first>>

(* Mutant: the opponent's win is returned as if it were the trainee's.       *)
OpponentMovesUnnegated ==
  /\ at = "game" /\ ~trainee_to_move
  /\ \E a_opp \in opponent(board) :
       LET new_board == apply_move(board, a_opp)
           end == is_terminal(new_board)
           trainee_next_board == flip_perspective(new_board) IN
       \/ /\ end.done
          /\ Learn(last, -end.reward, NoBoard)
          /\ ReturnOutcome(new_board, end.reward)
       \/ /\ ~end.done
          /\ Learn(last, 0, trainee_next_board)
          /\ board' = trainee_next_board
          /\ trainee_to_move' = TRUE
          /\ UNCHANGED <<at, outcome, last>>
  /\ UNCHANGED <<loop, trainee_first>>

OpponentMoves ==
  /\ at = "game" /\ ~trainee_to_move
  /\ \E a_opp \in opponent(board) :
       LET new_board == apply_move(board, a_opp)
           end == is_terminal(new_board)
           trainee_next_board == flip_perspective(new_board) IN
       \/ /\ end.done
          /\ Learn(last, -end.reward, NoBoard)
          /\ ReturnOutcome(new_board, -end.reward)
       \/ /\ ~end.done
          /\ Learn(last, 0, trainee_next_board)
          /\ board' = trainee_next_board
          /\ trainee_to_move' = TRUE
          /\ UNCHANGED <<at, outcome, last>>
  /\ UNCHANGED <<loop, trainee_first>>

-----------------------------------------------------------------------------
(* evaluate, _eval_cycle and _training_loop                                  *)

(* The entry of evaluate: save epsilon, then play greedily.                  *)
EnterEvaluate(player, eps) ==
  /\ stage' = player
  /\ original_eps' = eps /\ epsilon' = 0 /\ tally' = ZeroTally

BeginEpisode ==
  /\ train /\ at = "loop" /\ ep < cfg.episodes
  /\ epsilon' = epsilon_schedule(ep)
  /\ EnterEpisode
  /\ UNCHANGED <<cfg, ep, history, stage, original_eps, tally>>

EndEpisode ==
  /\ train /\ at = "returned" /\ at' = "loop"
  /\ ep' = ep + 1
  /\ IF ep' % cfg.eval_every = 0
     THEN EnterEvaluate("random", epsilon)
     ELSE UNCHANGED <<stage, original_eps, epsilon, tally>>
  /\ UNCHANGED <<cfg, history, game>>

Played == tally.win + tally.draw + tally.loss

BeginEvalGame ==
  /\ stage \in {"random", "minimax"} /\ at = "loop" /\ Played < EvalGames
  /\ EnterEpisode
  /\ UNCHANGED loop

EndEvalGame ==
  /\ stage \in {"random", "minimax"} /\ at = "returned" /\ at' = "loop"
  /\ tally' =
       [win  |-> tally.win  + IF outcome > 0 THEN 1 ELSE 0,
        draw |-> tally.draw + IF outcome = 0 THEN 1 ELSE 0,
        loss |-> tally.loss + IF outcome < 0 THEN 1 ELSE 0]
  /\ UNCHANGED <<cfg, ep, history, stage, original_eps, epsilon, game>>

(* Mutant: the first evaluate returns without restoring epsilon.             *)
EndVsRandomUnrestored ==
  /\ stage = "random" /\ at = "loop" /\ Played = EvalGames
  /\ EnterEvaluate("minimax", epsilon)
  /\ UNCHANGED <<cfg, ep, history, at, game>>

(* evaluate returns against random_player; the one against minimax begins.   *)
EndVsRandom ==
  /\ stage = "random" /\ at = "loop" /\ Played = EvalGames
  /\ EnterEvaluate("minimax", original_eps)
  /\ UNCHANGED <<cfg, ep, history, at, game>>

(* The second evaluate returns, and _eval_cycle with it.                     *)
EndVsMinimax ==
  /\ stage = "minimax" /\ at = "loop" /\ Played = EvalGames
  /\ epsilon' = original_eps
  /\ history' = Append(history, [episode |-> ep, epsilon |-> epsilon'])
  /\ stage' = "train"
  /\ UNCHANGED <<cfg, ep, original_eps, tally, at, game>>

(* The loop is over: evaluate once more unless it just has been done.        *)
EndTraining ==
  /\ train /\ at = "loop" /\ ep = cfg.episodes
  /\ IF history = <<>> \/ history[Len(history)].episode # cfg.episodes
     THEN EnterEvaluate("random", epsilon)
     ELSE stage' = "done" /\ UNCHANGED <<original_eps, epsilon, tally>>
  /\ UNCHANGED <<cfg, ep, history, at, game>>

Done == stage = "done" /\ UNCHANGED vars

Next ==
  \/ BeginEpisode \/ TraineeMoves \/ OpponentMoves \/ EndEpisode
  \/ BeginEvalGame \/ EndEvalGame \/ EndVsRandom \/ EndVsMinimax
  \/ EndTraining \/ Done

Spec == Init /\ [][Next]_vars

-----------------------------------------------------------------------------
(* Properties                                                                *)

Count(b, piece) == Cardinality({i \in Cells : b[i] = piece})

(* A board a player still has to move on: not over, and seen by the side     *)
(* whose turn it is, which has as many pieces as the other or one fewer.     *)
IsDecision(b) ==
  /\ ~is_terminal(b).done
  /\ Count(b, OPP) - Count(b, ME) \in {0, 1}

(* Every board the Q-table is looked up with, by select_action of either     *)
(* side (train.py:112, 264) or by update (agent.py:121-126), is one on which *)
(* the player who looks it up is to move: keys of both sides mean the same,  *)
(* which is what lets them share one table, and no row is ever made for a    *)
(* finished board, whose nanmax would be NaN.                                *)
KeysAreDecisions ==
  /\ at = "game" => IsDecision(board)
  /\ update # NoUpdate =>
       /\ IsDecision(update.s) /\ update.a \in legal_moves(update.s)
       /\ update.s_next # NoBoard => IsDecision(update.s_next)

(* Board t is what the trainee sees after its move a on s and a reply.       *)
Answers(t, s, a) ==
  \E reply \in legal_moves(apply_move(s, a)) :
    t = [apply_move(s, a) EXCEPT ![reply] = OPP]

(* The board of a finished episode as the trainee sees it.                   *)
FinalBoard == IF trainee_to_move THEN board ELSE flip_perspective(board)

(* Whatever order the sides move in, an experience given to update is about  *)
(* the trainee's latest move and what really came of it: the reply's board   *)
(* and no reward, or the end of the game and the reward _run_episode         *)
(* returns.  When a training episode returns every move of the trainee has   *)
(* been credited once; an evaluation credits none.                           *)
CreditIsDue ==
  /\ update # NoUpdate =>
       \/ /\ at = "game" /\ update.r = 0 /\ update.s_next = board
          /\ Answers(board, update.s, update.a)
       \/ /\ at # "game" /\ update.r = outcome /\ update.s_next = NoBoard
          /\ \/ FinalBoard = apply_move(update.s, update.a)
             \/ Answers(FinalBoard, update.s, update.a)
  /\ at = "returned" =>
       credits = IF train THEN Count(FinalBoard, ME) ELSE 0

(* The rows of metrics.csv: one after every eval_every episodes and one      *)
(* after the last, in order, with the epsilon the schedule has there, though *)
(* every evaluation plays greedily and shares the agent with the training:   *)
(* the schedule is what the next training episode runs with, too.            *)
EvalLeavesTheSchedule ==
  /\ at = "game" => epsilon = IF train THEN epsilon_schedule(ep) ELSE 0
  /\ \A i \in DOMAIN history :
       /\ history[i].episode =
            IF i * cfg.eval_every <= cfg.episodes
            THEN i * cfg.eval_every ELSE cfg.episodes
       /\ history[i].epsilon =
            IF cfg.episodes = 0 THEN EpsStart * EpsScale
            ELSE epsilon_schedule(history[i].episode - 1)
  /\ stage = "done" =>
       history # <<>> /\ history[Len(history)].episode = cfg.episodes

(* minimax_player is optimal: whoever begins and however the trainee plays,  *)
(* an evaluation against it never counts a win.                              *)
MinimaxNeverLoses == stage = "minimax" => tally.win = 0

(* The trainee's and the opponent's pieces by the order they began in.       *)
PieceOf(v) ==
  IF v = EMPTY THEN ""
  ELSE IF (v = ME) = (trainee_to_move = trainee_first) THEN "X" ELSE "O"

Grid == [i \in Cells |-> PieceOf(board[i])]
Result ==
  CASE outcome = NoOutcome -> "none"
    [] outcome = 0 -> "draw"
    [] outcome = 1 -> IF trainee_first THEN "X" ELSE "O"
    [] outcome = -1 -> IF trainee_first THEN "O" ELSE "X"

Absolute == INSTANCE TicTacToe WITH grid <- Grid, result <- Result

(* Boards are flipped after every move and outcomes negated for one side;    *)
(* seen from outside, _run_episode plays tic-tac-toe: the sides alternate on *)
(* empty cells, and the game ends exactly when and as its rules say.         *)
IsAGame == Absolute!Spec
===============================================================================
