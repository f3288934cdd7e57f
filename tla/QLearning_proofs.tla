--------------------------- MODULE QLearning_proofs ---------------------------
(*****************************************************************************)
(* The training loop and the episodes in it, for all configurations, numbers *)
(* of evaluation games and limits of epsilon.  First lemmas on boards: what  *)
(* flipping one, making a move on it and testing it for the end do to its    *)
(* lines and its pieces.                                                     *)
(*****************************************************************************)
EXTENDS QLearning, FiniteSetTheorems, TLAPS

-----------------------------------------------------------------------------
(* Boards                                                                    *)

Three(b, p, x, y, z) == b[x] = p /\ b[y] = p /\ b[z] = p

(* Side p has a row, a column or a diagonal.                                 *)
Line(b, p) ==
  \/ Three(b, p, 0, 1, 2) \/ Three(b, p, 3, 4, 5) \/ Three(b, p, 6, 7, 8)
  \/ Three(b, p, 0, 3, 6) \/ Three(b, p, 1, 4, 7) \/ Three(b, p, 2, 5, 8)
  \/ Three(b, p, 0, 4, 8) \/ Three(b, p, 2, 4, 6)

LEMMA LineCells ==
  /\ WINNING_LINES[1] = <<0, 1, 2>> /\ WINNING_LINES[2] = <<3, 4, 5>>
  /\ WINNING_LINES[3] = <<6, 7, 8>> /\ WINNING_LINES[4] = <<0, 3, 6>>
  /\ WINNING_LINES[5] = <<1, 4, 7>> /\ WINNING_LINES[6] = <<2, 5, 8>>
  /\ WINNING_LINES[7] = <<0, 4, 8>> /\ WINNING_LINES[8] = <<2, 4, 6>>
BY DEF WINNING_LINES

LEMMA Least ==
  ASSUME NEW S \in SUBSET (1..8), S # {}
  PROVE  \E k \in S : \A l \in S : k <= l
<1> DEFINE In(k) == k \in S
<1>1. \A l \in S : l \in 1..8 /\ In(l)
  OBVIOUS
<1>2. \A l \in 1..8 : \/ l = 1 \/ l = 2 \/ l = 3 \/ l = 4
                     \/ l = 5 \/ l = 6 \/ l = 7 \/ l = 8
  OBVIOUS
<1>3. In(1) \/ In(2) \/ In(3) \/ In(4) \/ In(5) \/ In(6) \/ In(7) \/ In(8)
  BY <1>1, <1>2
<1>4. SUFFICES \E k \in 1..8 : In(k) /\ \A l \in 1..8 : In(l) => k <= l
  BY <1>1
<1> HIDE DEF In
<1>5. CASE In(1) \/ In(2) \/ In(3) \/ In(4)
  BY <1>2, <1>5
<1>6. CASE ~In(1) /\ ~In(2) /\ ~In(3) /\ ~In(4)
  BY <1>2, <1>3, <1>6
<1>7. QED
  BY <1>5, <1>6

(* Three cells sum to 3 or -3 when they are of one side.                     *)
LEMMA SumIsThree ==
  ASSUME NEW b \in Board, NEW x \in Cells, NEW y \in Cells, NEW z \in Cells
  PROVE  /\ LineSum(b, <<x, y, z>>) \in {3 * ME, 3 * OPP} <=>
              Three(b, ME, x, y, z) \/ Three(b, OPP, x, y, z)
         /\ Three(b, ME, x, y, z) => b[x] = ME
         /\ Three(b, OPP, x, y, z) => b[x] = OPP
<1>1. b[x] \in {0, 1, -1} /\ b[y] \in {0, 1, -1} /\ b[z] \in {0, 1, -1}
  BY DEF Board, EMPTY, ME, OPP
<1>2. LineSum(b, <<x, y, z>>) = b[x] + b[y] + b[z]
  BY DEF LineSum
<1>3. QED
  BY <1>1, <1>2 DEF Three, ME, OPP

LEMMA WinnerFacts ==
  ASSUME NEW b \in Board
  PROVE  /\ winner(b) \in {0, ME, OPP}
         /\ winner(b) = 0 <=> ~Line(b, ME) /\ ~Line(b, OPP)
         /\ winner(b) = ME => Line(b, ME)
         /\ winner(b) = OPP => Line(b, OPP)
<1> DEFINE Full(k) == LineSum(b, WINNING_LINES[k]) \in {3 * ME, 3 * OPP}
           full == {k \in 1..8 : Full(k)}
           first == CHOOSE k \in full : \A l \in full : k <= l
<1>1. 0 \in Cells /\ 1 \in Cells /\ 2 \in Cells /\ 3 \in Cells /\ 4 \in Cells
      /\ 5 \in Cells /\ 6 \in Cells /\ 7 \in Cells /\ 8 \in Cells
  BY DEF Cells
<1> DEFINE Of(k, p) == \A j \in 1..3 : b[WINNING_LINES[k][j]] = p
<1>2. \A k \in 1..8 :
        /\ Full(k) <=> Of(k, ME) \/ Of(k, OPP)
        /\ Of(k, ME) => Line(b, ME)
        /\ Of(k, OPP) => Line(b, OPP)
  <2>1. ASSUME NEW x \in Cells, NEW y \in Cells, NEW z \in Cells,
               NEW k \in 1..8, WINNING_LINES[k] = <<x, y, z>>
        PROVE  /\ Full(k) <=> Three(b, ME, x, y, z) \/ Three(b, OPP, x, y, z)
               /\ \A p : Of(k, p) <=> Three(b, p, x, y, z)
    <3>1. \A p : Of(k, p) <=> Three(b, p, x, y, z)
      BY <2>1 DEF Three
    <3>2. Full(k) <=> Three(b, ME, x, y, z) \/ Three(b, OPP, x, y, z)
      BY <2>1, SumIsThree
    <3>3. QED
      BY <3>1, <3>2
  <2> HIDE DEF Full, Of
  <2>2. Full(1) <=> Of(1, ME) \/ Of(1, OPP)
    BY <1>1, <2>1, LineCells
  <2>3. QED
    BY <1>1, <2>1, LineCells DEF Line
<1>3. \A p \in {ME, OPP} : Line(b, p) => \E k \in 1..8 : Of(k, p)
  <2>1. ASSUME NEW p
        PROVE  /\ Three(b, p, 0, 1, 2) => Of(1, p)
               /\ Three(b, p, 3, 4, 5) => Of(2, p)
               /\ Three(b, p, 6, 7, 8) => Of(3, p)
               /\ Three(b, p, 0, 3, 6) => Of(4, p)
               /\ Three(b, p, 1, 4, 7) => Of(5, p)
               /\ Three(b, p, 2, 5, 8) => Of(6, p)
               /\ Three(b, p, 0, 4, 8) => Of(7, p)
               /\ Three(b, p, 2, 4, 6) => Of(8, p)
    BY LineCells DEF Three
  <2> HIDE DEF Of
  <2>2. QED
    BY <2>1 DEF Line
<1>4. CASE full = {}
  <2>1. winner(b) = 0
    BY <1>4 DEF winner
  <2>2. ~Line(b, ME) /\ ~Line(b, OPP)
    BY <1>2, <1>3, <1>4
  <2>3. QED
    BY <2>1, <2>2 DEF ME, OPP
<1>5. CASE full # {}
  <2>1. first \in full
    BY <1>5, Least
  <2>2. winner(b) = b[WINNING_LINES[first][1]]
    BY <1>5 DEF winner
  <2> HIDE DEF full, first
  <2>3. first \in 1..8 /\ (Of(first, ME) \/ Of(first, OPP))
    BY <1>2, <2>1 DEF full
  <2>4. /\ Of(first, ME) => winner(b) = ME /\ Line(b, ME)
        /\ Of(first, OPP) => winner(b) = OPP /\ Line(b, OPP)
    BY <1>2, <2>2, <2>3
  <2>5. QED
    BY <2>3, <2>4 DEF ME, OPP
<1>6. QED
  BY <1>4, <1>5

-----------------------------------------------------------------------------
(* Flips and moves                                                           *)

LEMMA CellFacts ==
  /\ 0 \in Cells /\ 1 \in Cells /\ 2 \in Cells /\ 3 \in Cells /\ 4 \in Cells
  /\ 5 \in Cells /\ 6 \in Cells /\ 7 \in Cells /\ 8 \in Cells
BY DEF Cells

(* How many cells hold piece p.                                              *)
Pieces(b, p) == Cardinality({i \in Cells : b[i] = p})

LEMMA FlipFacts ==
  ASSUME NEW b \in Board
  PROVE  /\ flip_perspective(b) \in Board
         /\ \A i \in Cells : flip_perspective(b)[i] = -b[i]
         /\ flip_perspective(flip_perspective(b)) = b
         /\ legal_moves(flip_perspective(b)) = legal_moves(b)
         /\ Pieces(flip_perspective(b), ME) = Pieces(b, OPP)
         /\ Pieces(flip_perspective(b), OPP) = Pieces(b, ME)
         /\ Line(flip_perspective(b), ME) <=> Line(b, OPP)
         /\ Line(flip_perspective(b), OPP) <=> Line(b, ME)
<1> DEFINE f == flip_perspective(b)
<1>1. /\ f = [i \in Cells |-> -b[i]]
      /\ \A i \in Cells : f[i] = -b[i] /\ b[i] \in {0, 1, -1}
  BY DEF flip_perspective, Board, EMPTY, ME, OPP
<1>2. f \in Board
  BY <1>1 DEF Board, EMPTY, ME, OPP
<1>3. flip_perspective(f) = b
  <2>1. flip_perspective(f) = [i \in Cells |-> -f[i]]
    BY DEF flip_perspective
  <2> HIDE DEF f
  <2>2. b = [i \in Cells |-> b[i]]
    BY DEF Board
  <2>3. \A i \in Cells : -f[i] = b[i]
    BY <1>1
  <2>4. QED
    BY <2>1, <2>2, <2>3
<1> HIDE DEF f
<1>4. /\ \A i \in Cells : f[i] = EMPTY <=> b[i] = EMPTY
      /\ \A i \in Cells : f[i] = ME <=> b[i] = OPP
      /\ \A i \in Cells : f[i] = OPP <=> b[i] = ME
  BY <1>1 DEF EMPTY, ME, OPP
<1>5. legal_moves(f) = legal_moves(b)
  BY <1>4 DEF legal_moves
<1>6. /\ {i \in Cells : f[i] = ME} = {i \in Cells : b[i] = OPP}
      /\ {i \in Cells : f[i] = OPP} = {i \in Cells : b[i] = ME}
  BY <1>4
<1>7. Pieces(f, ME) = Pieces(b, OPP) /\ Pieces(f, OPP) = Pieces(b, ME)
  BY <1>6 DEF Pieces
<1>8. /\ \A x, y, z \in Cells :
            Three(f, ME, x, y, z) <=> Three(b, OPP, x, y, z)
      /\ \A x, y, z \in Cells :
            Three(f, OPP, x, y, z) <=> Three(b, ME, x, y, z)
  BY <1>4 DEF Three
<1>9. (Line(f, ME) <=> Line(b, OPP)) /\ (Line(f, OPP) <=> Line(b, ME))
  BY <1>8, CellFacts DEF Line
<1>10. QED
  BY <1>1, <1>2, <1>3, <1>5, <1>7, <1>9 DEF f

LEMMA PiecesType ==
  ASSUME NEW b, NEW p
  PROVE  /\ Pieces(b, p) \in Nat
         /\ IsFiniteSet({i \in Cells : b[i] = p})
<1>1. IsFiniteSet(Cells)
  <2>1. 0 \in Int /\ 8 \in Int
    OBVIOUS
  <2>2. IsFiniteSet(0..8)
    BY <2>1, FS_Interval
  <2>3. QED
    BY <2>2 DEF Cells
<1>2. IsFiniteSet({i \in Cells : b[i] = p})
  BY <1>1, FS_Subset
<1>3. QED
  BY <1>2, FS_CardinalityType DEF Pieces

LEMMA MoveFacts ==
  ASSUME NEW b \in Board, NEW a \in legal_moves(b)
  PROVE  /\ a \in Cells /\ apply_move(b, a) \in Board
         /\ \A i \in Cells :
              apply_move(b, a)[i] = IF i = a THEN ME ELSE b[i]
         /\ Pieces(apply_move(b, a), ME) = Pieces(b, ME) + 1
         /\ Pieces(apply_move(b, a), OPP) = Pieces(b, OPP)
         /\ Line(apply_move(b, a), OPP) <=> Line(b, OPP)
<1> DEFINE c == apply_move(b, a)
<1>1. a \in Cells /\ b[a] = EMPTY
  BY DEF legal_moves
<1>2. /\ c \in Board
      /\ \A i \in Cells : c[i] = IF i = a THEN ME ELSE b[i]
  BY <1>1 DEF apply_move, Board
<1> HIDE DEF c
<1>3. \A i \in Cells : c[i] = OPP <=> b[i] = OPP
  BY <1>1, <1>2 DEF EMPTY, ME, OPP
<1>4. {i \in Cells : c[i] = OPP} = {i \in Cells : b[i] = OPP}
  BY <1>3
<1>5. {i \in Cells : c[i] = ME} = {i \in Cells : b[i] = ME} \cup {a}
  BY <1>1, <1>2
<1>6. a \notin {i \in Cells : b[i] = ME}
  BY <1>1 DEF EMPTY, ME
<1>7. Pieces(c, ME) = Pieces(b, ME) + 1
  <2>1. IsFiniteSet({i \in Cells : b[i] = ME})
    BY PiecesType
  <2>2. QED
    BY <1>5, <1>6, <2>1, FS_AddElement DEF Pieces
<1>8. \A x, y, z \in Cells : Three(c, OPP, x, y, z) <=> Three(b, OPP, x, y, z)
  BY <1>3 DEF Three
<1>9. Line(c, OPP) <=> Line(b, OPP)
  BY <1>8, CellFacts DEF Line
<1>10. QED
  BY <1>1, <1>2, <1>4, <1>7, <1>9 DEF c, Pieces

LEMMA InitialBoardFacts ==
  /\ initial_board \in Board /\ ~is_terminal(initial_board).done
  /\ Pieces(initial_board, ME) = 0 /\ Pieces(initial_board, OPP) = 0
  /\ \A i \in Cells : initial_board[i] = EMPTY
<1> DEFINE b == initial_board
<1>1. b \in Board /\ \A i \in Cells : b[i] = EMPTY
  BY DEF initial_board, Board
<1> HIDE DEF b
<1>2. ~Line(b, ME) /\ ~Line(b, OPP)
  BY <1>1, CellFacts DEF Line, Three, EMPTY, ME, OPP
<1>3. legal_moves(b) # {}
  BY <1>1, CellFacts DEF legal_moves
<1>4. ~is_terminal(b).done
  BY <1>1, <1>2, <1>3, WinnerFacts DEF is_terminal
<1>5. {i \in Cells : b[i] = ME} = {} /\ {i \in Cells : b[i] = OPP} = {}
  BY <1>1 DEF EMPTY, ME, OPP
<1>6. Pieces(b, ME) = 0 /\ Pieces(b, OPP) = 0
  BY <1>5, FS_EmptySet DEF Pieces
<1>7. QED
  BY <1>1, <1>4, <1>6 DEF b

LEMMA TerminalFacts ==
  ASSUME NEW b \in Board
  PROVE  /\ is_terminal(b).done \in BOOLEAN
         /\ is_terminal(b).reward = winner(b)
         /\ is_terminal(b).done <=>
              Line(b, ME) \/ Line(b, OPP) \/ legal_moves(b) = {}
<1>1. /\ is_terminal(b).reward = winner(b)
      /\ is_terminal(b).done = (winner(b) # 0 \/ legal_moves(b) = {})
  BY DEF is_terminal
<1>2. QED
  BY <1>1, WinnerFacts

(* A move ends a game by a line of its own side or by the last cell; on the  *)
(* flipped board the end is the same and the reward negated.                 *)
LEMMA MoveEnds ==
  ASSUME NEW b \in Board, ~is_terminal(b).done, NEW a \in legal_moves(b)
  PROVE  LET c == apply_move(b, a)
             f == flip_perspective(c) IN
         /\ ~Line(c, OPP)
         /\ winner(c) \in {0, ME} /\ (winner(c) = ME <=> Line(c, ME))
         /\ is_terminal(f).done <=> is_terminal(c).done
         /\ winner(f) = -winner(c)
<1> DEFINE c == apply_move(b, a)
           f == flip_perspective(c)
<1>1. c \in Board /\ ~Line(c, OPP)
  BY MoveFacts, TerminalFacts
<1>2. /\ f \in Board /\ legal_moves(f) = legal_moves(c)
      /\ ~Line(f, ME) /\ (Line(f, OPP) <=> Line(c, ME))
  BY <1>1, FlipFacts
<1> HIDE DEF c, f
<1>3. winner(c) \in {0, ME} /\ (winner(c) = ME <=> Line(c, ME))
  BY <1>1, WinnerFacts DEF ME, OPP
<1>4. winner(f) \in {0, OPP} /\ (winner(f) = OPP <=> Line(f, OPP))
  BY <1>2, WinnerFacts DEF ME, OPP
<1>5. is_terminal(f).done <=> is_terminal(c).done
  BY <1>1, <1>2, TerminalFacts
<1>6. winner(f) = -winner(c)
  BY <1>2, <1>3, <1>4 DEF ME, OPP
<1>7. QED
  BY <1>1, <1>3, <1>5, <1>6 DEF c, f

(* A reply, seen by the side that moved before.                              *)
LEMMA ReplyFacts ==
  ASSUME NEW c \in Board, NEW r \in legal_moves(flip_perspective(c))
  PROVE  /\ r \in legal_moves(c)
         /\ flip_perspective(apply_move(flip_perspective(c), r)) =
              [c EXCEPT ![r] = OPP]
<1> DEFINE f == flip_perspective(c)
           d == apply_move(f, r)
<1>1. /\ f \in Board /\ r \in legal_moves(c)
      /\ \A i \in Cells : f[i] = -c[i]
  BY FlipFacts
<1>2. /\ d \in Board /\ r \in Cells
      /\ \A i \in Cells : d[i] = IF i = r THEN ME ELSE f[i]
  BY <1>1, MoveFacts
<1>3. flip_perspective(d) = [i \in Cells |-> -d[i]]
  BY DEF flip_perspective
<1> HIDE DEF f, d
<1>4. \A i \in Cells : c[i] \in {0, 1, -1}
  BY DEF Board, EMPTY, ME, OPP
<1>5. \A i \in Cells : -d[i] = IF i = r THEN OPP ELSE c[i]
  BY <1>1, <1>2, <1>4 DEF ME, OPP
<1>6. [c EXCEPT ![r] = OPP] = [i \in Cells |-> IF i = r THEN OPP ELSE c[i]]
  BY <1>2 DEF Board
<1>7. QED
  BY <1>1, <1>3, <1>5, <1>6 DEF f, d

-----------------------------------------------------------------------------
(* The calendar of the evaluations                                           *)

Rows   == Len(history)
Due    == (Rows + 1) * cfg.eval_every
Since  == Rows * cfg.eval_every
Evaluating == stage \in {"random", "minimax"}

(* Epsilon after ep episodes.                                                *)
LastEpsilon == IF ep = 0 THEN EpsStart * EpsScale ELSE epsilon_schedule(ep - 1)

(* The last episode is evaluated.                                            *)
Final == Rows > 0 /\ ep = cfg.episodes /\ history[Rows].episode = ep

RowIsDue(i) ==
  /\ history[i].episode =
       IF i * cfg.eval_every <= cfg.episodes
       THEN i * cfg.eval_every ELSE cfg.episodes
  /\ history[i].epsilon =
       IF cfg.episodes = 0 THEN EpsStart * EpsScale
       ELSE epsilon_schedule(history[i].episode - 1)

LoopType ==
  /\ cfg \in Configs /\ ep \in 0..cfg.episodes
  /\ history \in Seq([episode : Nat, epsilon : Int])
  /\ stage \in {"train", "random", "minimax", "done"}
  /\ at \in {"loop", "game", "returned"}
  /\ epsilon \in Int /\ original_eps \in Int

(* Which episodes have been evaluated when, and what epsilon is then.        *)
Calendar ==
  /\ train /\ at = "loop" =>
       /\ (Since <= ep /\ ep < Due) \/ Final
       /\ epsilon = LastEpsilon
  /\ train /\ at # "loop" =>
       /\ Since <= ep /\ ep < Due /\ ep < cfg.episodes
       /\ epsilon = epsilon_schedule(ep)
  /\ Evaluating =>
       /\ ep = Due \/ (ep = cfg.episodes /\ ep < Due)
       /\ epsilon = 0 /\ original_eps = LastEpsilon
  /\ stage = "done" => at = "loop" /\ Final

LoopInv ==
  LoopType /\ Calendar /\ \A i \in DOMAIN history : RowIsDue(i)

LEMMA ScheduleType ==
  ASSUME cfg \in Configs, NEW e \in Int
  PROVE  epsilon_schedule(e) \in Int /\ EpsStart * EpsScale \in Int
<1>1. cfg.decay \in Int /\ EpsStart \in Int /\ EpsEnd \in Int
  BY ConfigsAssumption, EpsAssumption
<1>2. EpsScale \in Int
  BY <1>1 DEF EpsScale
<1>3. EpsEnd * EpsScale \in Int /\ EpsStart * EpsScale \in Int
  BY <1>1, <1>2
<1>4. EpsStart * cfg.decay + (EpsEnd - EpsStart) * e \in Int
  <2>1. EpsStart * cfg.decay \in Int /\ EpsEnd - EpsStart \in Int
    BY <1>1
  <2>2. (EpsEnd - EpsStart) * e \in Int
    BY <2>1
  <2>3. QED
    BY <2>1, <2>2
<1>5. QED
  BY <1>3, <1>4 DEF epsilon_schedule

LEMMA OneMoreTime ==
  ASSUME NEW n \in Nat, NEW e \in Nat
  PROVE  (n + 1) * e = n * e + e
OBVIOUS

LEMMA CalendarFacts ==
  ASSUME LoopType
  PROVE  /\ cfg.episodes \in Nat /\ cfg.eval_every \in Nat /\ cfg.eval_every > 0
         /\ Rows \in Nat /\ Since \in Nat /\ Due = Since + cfg.eval_every
         /\ ep \in Nat /\ ep <= cfg.episodes
         /\ LastEpsilon \in Int /\ epsilon_schedule(ep) \in Int
<1>1. /\ cfg.episodes \in Nat /\ cfg.eval_every \in Nat /\ cfg.eval_every > 0
      /\ Rows \in Nat
  BY ConfigsAssumption DEF LoopType, Rows
<1>2. ep \in Nat /\ ep <= cfg.episodes
  BY <1>1 DEF LoopType
<1>3. Since \in Nat /\ Due = Since + cfg.eval_every
  BY <1>1 DEF Since, Due
<1>4. /\ epsilon_schedule(ep) \in Int /\ epsilon_schedule(ep - 1) \in Int
      /\ EpsStart * EpsScale \in Int
  BY <1>2, ScheduleType DEF LoopType
<1>5. QED
  BY <1>1, <1>2, <1>3, <1>4 DEF LastEpsilon

(* Of the episodes after the last evaluation the next multiple of eval_every *)
(* is the first with no remainder.                                           *)
LEMMA NextMultiple ==
  ASSUME NEW e \in Nat \ {0}, NEW n \in Nat, NEW x \in Nat,
         n * e < x, x <= n * e + e
  PROVE  x % e = 0 <=> x = n * e + e
<1>1. /\ x \div e \in Int /\ x % e \in 0..(e - 1)
      /\ x = e * (x \div e) + (x % e)
  OBVIOUS
<1> DEFINE q == x \div e
           r == x % e
<1>2. q \in Int /\ r \in Int /\ 0 <= r /\ r < e /\ x = e * q + r
  BY <1>1
<1> HIDE DEF q, r
<1>3. ASSUME r = 0
      PROVE  x = n * e + e
  <2>1. n * e < e * q /\ e * q <= (n + 1) * e
    BY <1>2, <1>3
  <2>2. n < q /\ q <= n + 1
    BY <1>2, <2>1
  <2>3. q = n + 1
    BY <1>2, <2>2
  <2>4. QED
    BY <1>2, <1>3, <2>3
<1>4. ASSUME x = n * e + e
      PROVE  r = 0
  <2>1. e * q + r = e * (n + 1)
    BY <1>2, <1>4
  <2>2. r = e * ((n + 1) - q)
    BY <1>2, <2>1
  <2> DEFINE d == (n + 1) - q
  <2>3. d \in Int /\ r = e * d
    BY <1>2, <2>2
  <2> HIDE DEF d
  <2>4. d = 0
    <3>1. d >= 1 => e * d >= e
      BY <2>3
    <3>2. d <= -1 => e * d <= -e
      BY <2>3
    <3>3. QED
      BY <1>2, <2>3, <3>1, <3>2
  <2>5. QED
    BY <2>3, <2>4
<1>5. QED
  BY <1>3, <1>4 DEF r

LEMMA LoopInit ==
  ASSUME Init
  PROVE  LoopInv
<1> USE DEF Init
<1>1. cfg \in Configs /\ history = <<>> /\ Rows = 0
  BY DEF Rows
<1>2. /\ cfg.episodes \in Nat /\ cfg.eval_every \in Nat /\ cfg.eval_every > 0
  BY <1>1, ConfigsAssumption
<1>3. EpsStart * EpsScale \in Int
  BY <1>1, ScheduleType
<1>4. LoopType
  BY <1>1, <1>2, <1>3 DEF LoopType
<1>5. Since = 0 /\ Due = cfg.eval_every
  BY <1>1, <1>2 DEF Since, Due
<1>6. Calendar
  BY <1>2, <1>5 DEF Calendar, train, Evaluating, LastEpsilon
<1>7. QED
  BY <1>1, <1>4, <1>6 DEF LoopInv

(* The moves, and the episodes of an evaluation, leave the loop alone.       *)
LEMMA LoopFrame ==
  ASSUME LoopInv, UNCHANGED loop,
         at' \in {"loop", "game", "returned"},
         at' = at \/ Evaluating \/ (at = "game" /\ at' = "returned")
  PROVE  LoopInv'
<1> USE DEF loop
<1>1. LoopType'
  BY DEF LoopInv, LoopType
<1>2. /\ Rows' = Rows /\ Since' = Since /\ Due' = Due /\ train' = train
      /\ Evaluating' = Evaluating /\ LastEpsilon' = LastEpsilon
      /\ Final' = Final /\ epsilon_schedule(ep)' = epsilon_schedule(ep)
  BY DEF Rows, Since, Due, train, Evaluating, LastEpsilon, Final,
     epsilon_schedule, EpsScale
<1>3. Calendar'
  BY <1>2 DEF LoopInv, Calendar, train, Evaluating
<1>4. \A i \in DOMAIN history : RowIsDue(i)'
  BY DEF LoopInv, RowIsDue, epsilon_schedule, EpsScale
<1>5. QED
  BY <1>1, <1>3, <1>4 DEF LoopInv

(* No row is written.                                                        *)
LEMMA RowsFrame ==
  ASSUME LoopInv, UNCHANGED <<cfg, history>>
  PROVE  /\ \A i \in DOMAIN history' : RowIsDue(i)'
         /\ Rows' = Rows /\ Since' = Since /\ Due' = Due
         /\ \A e : epsilon_schedule(e)' = epsilon_schedule(e)
<1>1. \A e : epsilon_schedule(e)' = epsilon_schedule(e)
  BY DEF epsilon_schedule, EpsScale
<1>2. \A i \in DOMAIN history : RowIsDue(i)'
  BY DEF LoopInv, RowIsDue, epsilon_schedule, EpsScale
<1>3. QED
  BY <1>1, <1>2 DEF Rows, Since, Due

LEMMA LoopBeginEpisode ==
  ASSUME LoopInv, BeginEpisode
  PROVE  LoopInv'
<1> USE DEF BeginEpisode, EnterEpisode, train
<1>1. LoopType /\ Since <= ep /\ ep < Due
  BY CalendarFacts DEF LoopInv, Calendar, Final
<1>2. /\ \A i \in DOMAIN history' : RowIsDue(i)'
      /\ Rows' = Rows /\ Since' = Since /\ Due' = Due
      /\ epsilon_schedule(ep)' = epsilon_schedule(ep)
  BY RowsFrame DEF epsilon_schedule, EpsScale
<1>3. epsilon' = epsilon_schedule(ep) /\ epsilon' \in Int /\ at' = "game"
  BY <1>1, CalendarFacts
<1>4. LoopType'
  BY <1>1, <1>3 DEF LoopType
<1>5. Calendar'
  BY <1>1, <1>2, <1>3 DEF Calendar, Evaluating
<1>6. QED
  BY <1>2, <1>4, <1>5 DEF LoopInv

(* The episode is counted, and evaluated if it is the one due.               *)
LEMMA LoopEndEpisode ==
  ASSUME LoopInv, EndEpisode
  PROVE  LoopInv'
<1> USE DEF EndEpisode, train
<1>1. /\ LoopType /\ Since <= ep /\ ep < Due /\ ep < cfg.episodes
      /\ epsilon = epsilon_schedule(ep)
  BY DEF LoopInv, Calendar
<1>2. /\ cfg.episodes \in Nat /\ cfg.eval_every \in Nat /\ cfg.eval_every > 0
      /\ Rows \in Nat /\ Since \in Nat /\ Due = Since + cfg.eval_every
      /\ ep \in Nat
  BY <1>1, CalendarFacts
<1>3. /\ \A i \in DOMAIN history' : RowIsDue(i)'
      /\ Rows' = Rows /\ Since' = Since /\ Due' = Due
  BY RowsFrame
<1>4. /\ ep' = ep + 1 /\ ep' \in Nat /\ Since < ep' /\ ep' <= Due
      /\ ep' <= cfg.episodes
  BY <1>1, <1>2
<1>5. ep' % cfg.eval_every = 0 <=> ep' = Due
  <2> DEFINE e == cfg.eval_every
  <2>1. e \in Nat \ {0} /\ Rows * e < ep' /\ ep' <= Rows * e + e
    BY <1>2, <1>4 DEF Since
  <2>2. Due = Rows * e + e
    BY <1>2 DEF Since
  <2> HIDE DEF e
  <2>3. ep' % e = 0 <=> ep' = Rows * e + e
    BY <1>2, <1>4, <2>1, NextMultiple
  <2>4. QED
    BY <2>2, <2>3 DEF e
<1>6. LastEpsilon' = epsilon
  <2>1. ep' # 0 /\ ep' - 1 = ep
    BY <1>2, <1>4
  <2>2. LastEpsilon' = epsilon_schedule(ep)
    BY <2>1 DEF LastEpsilon, epsilon_schedule, EpsScale
  <2>3. QED
    BY <1>1, <2>2
<1>7. CASE ep' = Due
  <2>1. /\ stage' = "random" /\ original_eps' = epsilon /\ epsilon' = 0
    BY <1>5, <1>7 DEF EnterEvaluate
  <2>2. LoopType'
    BY <1>1, <1>2, <1>4, <2>1 DEF LoopType
  <2>3. Calendar'
    BY <1>3, <1>6, <1>7, <2>1 DEF Calendar, Evaluating
  <2>4. QED
    BY <1>3, <2>2, <2>3 DEF LoopInv
<1>8. CASE ep' # Due
  <2>1. UNCHANGED <<stage, original_eps, epsilon>>
    BY <1>5, <1>8
  <2>2. LoopType'
    BY <1>1, <1>2, <1>4, <2>1 DEF LoopType
  <2>3. Since' <= ep' /\ ep' < Due'
    BY <1>2, <1>3, <1>4, <1>8
  <2>4. Calendar'
    BY <1>6, <2>1, <2>3 DEF Calendar, Evaluating
  <2>5. QED
    BY <1>3, <2>2, <2>4 DEF LoopInv
<1>9. QED
  BY <1>7, <1>8

(* evaluate restores epsilon, and the next one saves it again.               *)
LEMMA LoopEndVsRandom ==
  ASSUME LoopInv, EndVsRandom
  PROVE  LoopInv'
<1> USE DEF EndVsRandom, EnterEvaluate, train
<1>1. /\ LoopType /\ original_eps = LastEpsilon
      /\ ep = Due \/ (ep = cfg.episodes /\ ep < Due)
  BY DEF LoopInv, Calendar, Evaluating
<1>2. /\ \A i \in DOMAIN history' : RowIsDue(i)'
      /\ Rows' = Rows /\ Since' = Since /\ Due' = Due
  BY RowsFrame
<1>3. LastEpsilon' = LastEpsilon
  BY DEF LastEpsilon, epsilon_schedule, EpsScale
<1>4. LoopType'
  BY <1>1 DEF LoopType
<1>5. Calendar'
  BY <1>1, <1>2, <1>3 DEF Calendar, Evaluating
<1>6. QED
  BY <1>2, <1>4, <1>5 DEF LoopInv

(* A row for the episode that was due, or for the last.                      *)
LEMMA LoopEndVsMinimax ==
  ASSUME LoopInv, EndVsMinimax
  PROVE  LoopInv'
<1> USE DEF EndVsMinimax, train
<1> DEFINE row == [episode |-> ep, epsilon |-> original_eps]
           e == cfg.eval_every
<1>1. /\ LoopType /\ original_eps = LastEpsilon
      /\ ep = Due \/ (ep = cfg.episodes /\ ep < Due)
  BY DEF LoopInv, Calendar, Evaluating
<1>2. /\ cfg.episodes \in Nat /\ e \in Nat /\ e > 0
      /\ Rows \in Nat /\ Since \in Nat /\ Due = Since + e
      /\ ep \in Nat /\ ep <= cfg.episodes
  BY <1>1, CalendarFacts
<1>3. row \in [episode : Nat, epsilon : Int]
  BY <1>1, <1>2 DEF LoopType
<1>4. /\ history' = Append(history, row) /\ epsilon' = original_eps
      /\ stage' = "train" /\ at = "loop" /\ at' = at
      /\ cfg' = cfg /\ ep' = ep /\ original_eps' = original_eps
  OBVIOUS
<1>5. /\ Rows' = Rows + 1 /\ history'[Rows + 1] = row
      /\ DOMAIN history = 1..Rows /\ DOMAIN history' = 1..(Rows + 1)
      /\ \A i \in 1..Rows : history'[i] = history[i]
      /\ history' \in Seq([episode : Nat, epsilon : Int])
  BY <1>1, <1>3, <1>4 DEF LoopType, Rows
<1>6. LoopType'
  BY <1>1, <1>4, <1>5 DEF LoopType
<1>7. LastEpsilon' = original_eps
  BY <1>1, <1>4 DEF LastEpsilon, epsilon_schedule, EpsScale
<1>8. Since' = Due /\ Due' = Due + e
  <2>1. Rows' \in Nat /\ Since' = Rows' * e /\ Due' = (Rows' + 1) * e
    BY <1>2, <1>4, <1>5 DEF Since, Due
  <2>2. (Rows' + 1) * e = Rows' * e + e
    BY <1>2, <2>1, OneMoreTime
  <2>3. QED
    BY <1>5, <2>1, <2>2 DEF Due
<1>9. Calendar'
  <2>1. (Since' <= ep' /\ ep' < Due') \/ Final'
    <3>1. CASE ep = Due
      BY <1>2, <1>4, <1>8, <3>1
    <3>2. CASE ep = cfg.episodes
      BY <1>2, <1>4, <1>5, <3>2 DEF Final
    <3>3. QED
      BY <1>1, <3>1, <3>2
  <2>2. QED
    BY <1>4, <1>7, <2>1 DEF Calendar, Evaluating
<1>10. \A i \in DOMAIN history' : RowIsDue(i)'
  <2>1. \A i \in 1..Rows : RowIsDue(i)'
    BY <1>4, <1>5 DEF LoopInv, RowIsDue, epsilon_schedule, EpsScale
  <2>2. ASSUME NEW i, i = Rows + 1
        PROVE  RowIsDue(i)'
    <3>1. ep = IF Due <= cfg.episodes THEN Due ELSE cfg.episodes
      BY <1>1, <1>2
    <3>2. original_eps = IF cfg.episodes = 0 THEN EpsStart * EpsScale
                         ELSE epsilon_schedule(ep - 1)
      <4>1. cfg.episodes = 0 <=> ep = 0
        BY <1>1, <1>2
      <4>2. QED
        BY <1>1, <4>1 DEF LastEpsilon
    <3>3. history'[i].episode = ep /\ history'[i].epsilon = original_eps
      BY <1>5, <2>2
    <3>4. QED
      BY <1>4, <2>2, <3>1, <3>2, <3>3
         DEF RowIsDue, Due, epsilon_schedule, EpsScale
  <2>3. \A i \in DOMAIN history' : i \in 1..Rows \/ i = Rows + 1
    BY <1>2, <1>5
  <2>4. QED
    BY <2>1, <2>2, <2>3
<1>11. QED
  BY <1>6, <1>9, <1>10 DEF LoopInv

LEMMA LoopEndTraining ==
  ASSUME LoopInv, EndTraining
  PROVE  LoopInv'
<1> USE DEF EndTraining, train
<1>1. /\ LoopType
      /\ (Since <= ep /\ ep < Due) \/ Final
      /\ epsilon = LastEpsilon /\ ep = cfg.episodes
  BY DEF LoopInv, Calendar
<1>2. /\ \A i \in DOMAIN history' : RowIsDue(i)'
      /\ Rows' = Rows /\ Since' = Since /\ Due' = Due
  BY RowsFrame
<1>3. LastEpsilon' = LastEpsilon
  BY DEF LastEpsilon, epsilon_schedule, EpsScale
<1>4. /\ history \in Seq([episode : Nat, epsilon : Int])
      /\ history = <<>> <=> Rows = 0
      /\ Rows \in Nat
  BY <1>1 DEF LoopType, Rows
<1>5. CASE history = <<>> \/ history[Len(history)].episode # cfg.episodes
  <2>1. /\ stage' = "random" /\ original_eps' = epsilon /\ epsilon' = 0
    BY <1>5 DEF EnterEvaluate
  <2>2. ~Final
    BY <1>1, <1>4, <1>5 DEF Final, Rows
  <2>3. LoopType'
    BY <1>1, <2>1 DEF LoopType
  <2>4. Calendar'
    BY <1>1, <1>2, <1>3, <2>1, <2>2 DEF Calendar, Evaluating
  <2>5. QED
    BY <1>2, <2>3, <2>4 DEF LoopInv
<1>6. CASE history # <<>> /\ history[Len(history)].episode = cfg.episodes
  <2>1. stage' = "done" /\ UNCHANGED <<original_eps, epsilon>>
    BY <1>6
  <2>2. Final'
    BY <1>1, <1>4, <1>6 DEF Final, Rows
  <2>3. LoopType'
    BY <1>1, <2>1 DEF LoopType
  <2>4. Calendar'
    BY <2>1, <2>2 DEF Calendar, Evaluating
  <2>5. QED
    BY <1>2, <2>3, <2>4 DEF LoopInv
<1>7. QED
  BY <1>5, <1>6

LEMMA LoopNext ==
  ASSUME LoopInv, [Next]_vars
  PROVE  LoopInv'
<1>1. at \in {"loop", "game", "returned"}
  BY DEF LoopInv, LoopType
<1>2. ASSUME TraineeMoves \/ OpponentMoves
      PROVE  LoopInv'
  BY <1>2, LoopFrame DEF TraineeMoves, OpponentMoves, ReturnOutcome
<1>3. ASSUME BeginEvalGame
      PROVE  LoopInv'
  BY <1>3, LoopFrame DEF BeginEvalGame, EnterEpisode, Evaluating
<1>4. ASSUME EndEvalGame
      PROVE  LoopInv'
  <2> USE <1>4 DEF EndEvalGame
  <2>1. LoopType'
    BY DEF LoopInv, LoopType
  <2>2. Calendar'
    BY DEF LoopInv, Calendar, train, Evaluating, Since, Due, Rows, Final,
       LastEpsilon, epsilon_schedule, EpsScale
  <2>3. \A i \in DOMAIN history' : RowIsDue(i)'
    BY RowsFrame
  <2>4. QED
    BY <2>1, <2>2, <2>3 DEF LoopInv
<1>5. ASSUME UNCHANGED vars
      PROVE  LoopInv'
  BY <1>1, <1>5, LoopFrame DEF vars
<1>6. QED
  BY <1>2, <1>3, <1>4, <1>5, LoopBeginEpisode, LoopEndEpisode,
     LoopEndVsRandom, LoopEndVsMinimax, LoopEndTraining DEF Next, Done

(* An evaluation comes after every eval_every episodes and after the last,   *)
(* and leaves the exploration schedule as it was, however many episodes and  *)
(* evaluation games there are.                                               *)
THEOREM ScheduleSurvives == Spec => []EvalLeavesTheSchedule
<1>1. LoopInv => EvalLeavesTheSchedule
  <2> SUFFICES ASSUME LoopInv
               PROVE  EvalLeavesTheSchedule
    OBVIOUS
  <2>1. at = "game" => epsilon = IF train THEN epsilon_schedule(ep) ELSE 0
    BY DEF LoopInv, LoopType, Calendar, train, Evaluating
  <2>2. stage = "done" =>
          history # <<>> /\ history[Len(history)].episode = cfg.episodes
    BY DEF LoopInv, LoopType, Calendar, Final, Rows
  <2>3. QED
    BY <2>1, <2>2 DEF LoopInv, RowIsDue, EvalLeavesTheSchedule
<1>2. Init => LoopInv
  BY LoopInit
<1>3. LoopInv /\ [Next]_vars => LoopInv'
  BY LoopNext
<1>4. QED
  BY <1>1, <1>2, <1>3, PTL DEF Spec


-----------------------------------------------------------------------------
(* The game that is being played                                             *)

(* The pieces on the board tell whose turn it is, and the game is not over.  *)
TurnInv ==
  at = "game" =>
    /\ outcome = NoOutcome /\ ~is_terminal(board).done
    /\ IF trainee_to_move = trainee_first
       THEN Count(board, OPP) = Count(board, ME)
       ELSE Count(board, OPP) = Count(board, ME) + 1

(* last is the one move of the trainee that has not been credited.           *)
LastIsPending ==
  \/ last = NoMove /\ credits = 0 /\ Count(board, OPP) = 0
  \/ LET s == last[1]
         a == last[2] IN
     /\ last # NoMove /\ s \in Board /\ IsDecision(s) /\ a \in legal_moves(s)
     /\ board = flip_perspective(apply_move(s, a))
     /\ credits + 1 = Count(board, OPP)

CreditInv ==
  at = "game" =>
    /\ ~train => last = NoMove /\ credits = 0
    /\ train /\ trainee_to_move => credits = Count(board, ME)
    /\ train /\ ~trainee_to_move => LastIsPending

(* Against minimax_player the trainee can reach a draw at best.              *)
MinimaxInv ==
  stage = "minimax" =>
    /\ tally.win = 0
    /\ at = "game" =>
         /\ board \in DOMAIN NegamaxMemo
         /\ IF trainee_to_move THEN NegamaxMemo[board].value <= 0
            ELSE NegamaxMemo[board].value >= 0
    /\ at = "returned" => outcome <= 0

GameType ==
  /\ trainee_first \in BOOLEAN /\ trainee_to_move \in BOOLEAN
  /\ board \in Board /\ outcome \in {NoOutcome, -1, 0, 1} /\ credits \in Nat

GameInv ==
  /\ GameType /\ TurnInv /\ CreditInv /\ MinimaxInv
  /\ KeysAreDecisions /\ CreditIsDue

LEMMA CountIsPieces ==
  \A b, p : Count(b, p) = Pieces(b, p)
BY DEF Count, Pieces

LEMMA MinimaxStep ==
  ASSUME NEW b \in DOMAIN NegamaxMemo, b \in Board, ~is_terminal(b).done
  PROVE  /\ minimax_player(b) \in legal_moves(b)
         /\ \A a \in legal_moves(b) :
              LET c == apply_move(b, a)
                  f == flip_perspective(c) IN
              /\ f \in DOMAIN NegamaxMemo
              /\ NegamaxMemo[b].value \in Int /\ NegamaxMemo[f].value \in Int
              /\ NegamaxMemo[f].value >= -NegamaxMemo[b].value
              /\ a = minimax_player(b) =>
                   NegamaxMemo[f].value = -NegamaxMemo[b].value
              /\ is_terminal(c).done => winner(c) = -NegamaxMemo[f].value
<1> DEFINE Value(d) == NegamaxMemo[d].value
<1>1. /\ minimax_player(b) \in legal_moves(b) /\ Value(b) \in Int
      /\ \A a \in legal_moves(b) :
           /\ Child(b, a) \in DOMAIN NegamaxMemo
           /\ -Value(Child(b, a)) <= Value(b)
           /\ a = minimax_player(b) => -Value(Child(b, a)) = Value(b)
  BY NegamaxAssumption
<1>2. ASSUME NEW a \in legal_moves(b)
      PROVE  LET c == apply_move(b, a)
                 f == flip_perspective(c) IN
             /\ f \in DOMAIN NegamaxMemo /\ Value(f) \in Int
             /\ Value(f) >= -Value(b)
             /\ a = minimax_player(b) => Value(f) = -Value(b)
             /\ is_terminal(c).done => winner(c) = -Value(f)
  <2> DEFINE c == apply_move(b, a)
             f == flip_perspective(c)
  <2>1. f \in DOMAIN NegamaxMemo /\ f = Child(b, a)
    BY <1>1 DEF Child
  <2>2. c \in Board /\ f \in Board
    BY MoveFacts, FlipFacts
  <2>3. /\ is_terminal(f).done <=> is_terminal(c).done
        /\ winner(f) = -winner(c) /\ winner(c) \in Int
    BY MoveEnds DEF ME
  <2> HIDE DEF c, f
  <2>4. /\ Value(f) \in Int
        /\ is_terminal(f).done => Value(f) = is_terminal(f).reward
    BY <2>1, NegamaxAssumption
  <2>5. is_terminal(f).reward = winner(f)
    BY <2>2, TerminalFacts
  <2>6. -Value(f) <= Value(b) /\ (a = minimax_player(b) => -Value(f) = Value(b))
    BY <1>1, <2>1
  <2> HIDE DEF Value
  <2>7. is_terminal(c).done => winner(c) = -Value(f)
    BY <2>3, <2>4, <2>5
  <2>8. QED
    BY <1>1, <2>1, <2>4, <2>6, <2>7 DEF c, f
<1>3. QED
  BY <1>1, <1>2

LEMMA OpponentIsLegal ==
  ASSUME LoopInv, GameInv, at = "game", ~trainee_to_move,
         NEW a \in opponent(board)
  PROVE  /\ a \in legal_moves(board)
         /\ stage = "minimax" => a = minimax_player(board)
<1>1. /\ cfg.phase \in {"1a", "1b"}
      /\ stage \in {"train", "random", "minimax"}
      /\ board \in Board /\ ~is_terminal(board).done
  BY ConfigsAssumption
     DEF LoopInv, LoopType, Calendar, GameInv, GameType, TurnInv
<1>2. CASE stage = "minimax"
  <2>1. board \in DOMAIN NegamaxMemo
    BY <1>2 DEF GameInv, MinimaxInv
  <2>2. a = minimax_player(board)
    BY <1>2 DEF opponent
  <2>3. QED
    BY <1>1, <2>1, <2>2, MinimaxStep
<1>3. CASE stage = "random"
  BY <1>3 DEF opponent, random_player
<1>4. CASE stage = "train"
  BY <1>1, <1>4 DEF opponent, random_player, select_action
<1>5. QED
  BY <1>1, <1>2, <1>3, <1>4

LEMMA GameInit ==
  ASSUME Init
  PROVE  GameInv
<1> USE DEF Init
<1>1. GameType
  BY InitialBoardFacts DEF GameType
<1>2. TurnInv /\ CreditInv /\ MinimaxInv /\ KeysAreDecisions /\ CreditIsDue
  BY DEF TurnInv, CreditInv, MinimaxInv, KeysAreDecisions, CreditIsDue
<1>3. QED
  BY <1>1, <1>2 DEF GameInv

LEMMA InitialIsDecision ==
  /\ initial_board \in Board /\ ~is_terminal(initial_board).done
  /\ Count(initial_board, ME) = 0 /\ Count(initial_board, OPP) = 0
  /\ IsDecision(initial_board)
<1>1. /\ initial_board \in Board /\ ~is_terminal(initial_board).done
      /\ Count(initial_board, ME) = 0 /\ Count(initial_board, OPP) = 0
  BY InitialBoardFacts, CountIsPieces
<1>2. QED
  BY <1>1 DEF IsDecision

LEMMA GameEnterEpisode ==
  ASSUME GameInv, EnterEpisode, MinimaxInv'
  PROVE  GameInv'
<1> USE DEF EnterEpisode
<1>1. GameType'
  BY InitialIsDecision DEF GameType
<1>2. TurnInv'
  <2>1. /\ trainee_to_move' = trainee_first' /\ outcome' = NoOutcome
        /\ board' = initial_board
    OBVIOUS
  <2>2. QED
    BY <2>1, InitialIsDecision DEF TurnInv
<1>3. CreditInv'
  BY InitialIsDecision DEF CreditInv, LastIsPending
<1>4. KeysAreDecisions' /\ CreditIsDue'
  BY InitialIsDecision DEF KeysAreDecisions, CreditIsDue, IsDecision
<1>5. QED
  BY <1>1, <1>2, <1>3, <1>4 DEF GameInv

(* What a move does, whoever makes it, on the board of the side to move.     *)
LEMMA AfterMove ==
  ASSUME NEW b \in Board, ~is_terminal(b).done, NEW a \in legal_moves(b)
  PROVE  LET c == apply_move(b, a)
             f == flip_perspective(c) IN
         /\ c \in Board /\ f \in Board
         /\ winner(c) \in {0, ME} /\ is_terminal(c).reward = winner(c)
         /\ is_terminal(c).done \in BOOLEAN
         /\ is_terminal(f).done <=> is_terminal(c).done
         /\ Count(b, ME) \in Nat /\ Count(b, OPP) \in Nat
         /\ Count(c, ME) = Count(b, ME) + 1 /\ Count(c, OPP) = Count(b, OPP)
         /\ Count(f, ME) = Count(b, OPP) /\ Count(f, OPP) = Count(b, ME) + 1
<1> DEFINE c == apply_move(b, a)
<1>1. c \in Board
  BY MoveFacts
<1>2. /\ Count(c, ME) = Count(b, ME) + 1 /\ Count(c, OPP) = Count(b, OPP)
  BY MoveFacts, CountIsPieces
<1>3. /\ winner(c) \in {0, ME}
      /\ is_terminal(flip_perspective(c)).done <=> is_terminal(c).done
  BY MoveEnds
<1>4. /\ is_terminal(c).reward = winner(c) /\ is_terminal(c).done \in BOOLEAN
  BY <1>1, TerminalFacts
<1>5. Count(b, ME) \in Nat /\ Count(b, OPP) \in Nat
  BY PiecesType, CountIsPieces
<1> HIDE DEF c
<1>6. /\ flip_perspective(c) \in Board
      /\ Count(flip_perspective(c), ME) = Count(c, OPP)
      /\ Count(flip_perspective(c), OPP) = Count(c, ME)
  BY <1>1, FlipFacts, CountIsPieces
<1>7. QED
  BY <1>1, <1>2, <1>3, <1>4, <1>5, <1>6 DEF c

LEMMA TraineeMovesEffect ==
  ASSUME GameInv, TraineeMoves
  PROVE  \E a \in legal_moves(board) :
           LET c == apply_move(board, a)
               f == flip_perspective(c) IN
           /\ at = "game" /\ trainee_to_move
           /\ UNCHANGED <<loop, trainee_first>>
           /\ \/ /\ is_terminal(c).done /\ at' = "returned" /\ board' = c
                 /\ outcome' = winner(c) /\ UNCHANGED <<last, trainee_to_move>>
                 /\ Learn(<<board, a>>, winner(c), NoBoard)
              \/ /\ ~is_terminal(c).done /\ at' = at /\ board' = f
                 /\ outcome' = outcome /\ trainee_to_move' = FALSE
                 /\ last' = IF train THEN <<board, a>> ELSE NoMove
                 /\ credits' = credits /\ update' = NoUpdate
<1>1. \A b : select_action(b) = legal_moves(b)
  BY DEF select_action
<1>2. \A b : is_terminal(b).reward = winner(b)
  BY DEF is_terminal
<1>3. QED
  BY <1>1, <1>2 DEF TraineeMoves, ReturnOutcome

LEMMA OpponentMovesEffect ==
  ASSUME LoopInv, GameInv, OpponentMoves
  PROVE  \E a \in legal_moves(board) :
           LET c == apply_move(board, a)
               f == flip_perspective(c) IN
           /\ at = "game" /\ ~trainee_to_move
           /\ stage = "minimax" => a = minimax_player(board)
           /\ UNCHANGED <<loop, trainee_first>>
           /\ \/ /\ is_terminal(c).done /\ at' = "returned" /\ board' = c
                 /\ outcome' = -winner(c) /\ UNCHANGED <<last, trainee_to_move>>
                 /\ Learn(last, -winner(c), NoBoard)
              \/ /\ ~is_terminal(c).done /\ at' = at /\ board' = f
                 /\ outcome' = outcome /\ trainee_to_move' = TRUE
                 /\ last' = last
                 /\ Learn(last, 0, f)
<1>1. \A b : is_terminal(b).reward = winner(b)
  BY DEF is_terminal
<1>2. at = "game" /\ ~trainee_to_move
  BY DEF OpponentMoves
<1>3. \A a \in opponent(board) :
        /\ a \in legal_moves(board)
        /\ stage = "minimax" => a = minimax_player(board)
  BY <1>2, OpponentIsLegal
<1>4. QED
  BY <1>1, <1>2, <1>3 DEF OpponentMoves, ReturnOutcome

LEMMA MinimaxMoves ==
  ASSUME LoopInv, GameInv, TraineeMoves \/ OpponentMoves
  PROVE  MinimaxInv'
<1>1. PICK a \in legal_moves(board) :
           LET c == apply_move(board, a)
               f == flip_perspective(c) IN
           /\ at = "game" /\ UNCHANGED loop
           /\ ~trainee_to_move /\ stage = "minimax" => a = minimax_player(board)
           /\ \/ /\ is_terminal(c).done /\ at' = "returned"
                 /\ outcome' = IF trainee_to_move THEN winner(c) ELSE -winner(c)
              \/ /\ ~is_terminal(c).done /\ at' = at /\ board' = f
                 /\ trainee_to_move' = ~trainee_to_move
  <2> trainee_to_move \in BOOLEAN
    BY DEF GameInv, GameType
  <2>1. CASE TraineeMoves
    BY <2>1, TraineeMovesEffect
  <2>2. CASE OpponentMoves
    BY <2>2, OpponentMovesEffect
  <2>3. QED
    BY <2>1, <2>2
<1>2. SUFFICES ASSUME stage = "minimax"
               PROVE  MinimaxInv'
  BY <1>1 DEF MinimaxInv, loop
<1> DEFINE c == apply_move(board, a)
           f == flip_perspective(c)
           v == NegamaxMemo[board].value
           w == NegamaxMemo[f].value
<1>3. /\ board \in DOMAIN NegamaxMemo /\ board \in Board
      /\ ~is_terminal(board).done /\ tally.win = 0
      /\ IF trainee_to_move THEN v <= 0 ELSE v >= 0
  BY <1>1, <1>2 DEF GameInv, GameType, TurnInv, MinimaxInv
<1>4. /\ f \in DOMAIN NegamaxMemo /\ v \in Int /\ w \in Int /\ w >= -v
      /\ ~trainee_to_move => w = -v
      /\ is_terminal(c).done => winner(c) = -w
  BY <1>1, <1>2, <1>3, MinimaxStep
<1>5. IF trainee_to_move THEN w >= 0 ELSE w <= 0
  BY <1>3, <1>4
<1>6. UNCHANGED <<stage, tally>>
  BY <1>1 DEF loop
<1>7. CASE is_terminal(c).done
  <2>1. outcome' = (IF trainee_to_move THEN -w ELSE w) /\ at' = "returned"
    BY <1>1, <1>4, <1>7
  <2>2. outcome' <= 0
    BY <1>4, <1>5, <2>1
  <2>3. QED
    BY <1>3, <1>6, <2>1, <2>2 DEF MinimaxInv
<1>8. CASE ~is_terminal(c).done
  <2>1. board' = f /\ trainee_to_move' = ~trainee_to_move /\ at' = "game"
    BY <1>1, <1>8
  <2> HIDE DEF f
  <2>2. IF trainee_to_move' THEN NegamaxMemo[board'].value <= 0
        ELSE NegamaxMemo[board'].value >= 0
    BY <1>5, <2>1
  <2>3. QED
    BY <1>3, <1>4, <1>6, <2>1, <2>2 DEF MinimaxInv
<1>9. QED
  BY <1>7, <1>8

LEMMA GameTraineeMoves ==
  ASSUME LoopInv, GameInv, TraineeMoves
  PROVE  GameInv'
<1>1. PICK a \in legal_moves(board) :
           LET c == apply_move(board, a)
               f == flip_perspective(c) IN
           /\ at = "game" /\ trainee_to_move
           /\ UNCHANGED <<loop, trainee_first>>
           /\ \/ /\ is_terminal(c).done /\ at' = "returned" /\ board' = c
                 /\ outcome' = winner(c) /\ UNCHANGED <<last, trainee_to_move>>
                 /\ Learn(<<board, a>>, winner(c), NoBoard)
              \/ /\ ~is_terminal(c).done /\ at' = at /\ board' = f
                 /\ outcome' = outcome /\ trainee_to_move' = FALSE
                 /\ last' = IF train THEN <<board, a>> ELSE NoMove
                 /\ credits' = credits /\ update' = NoUpdate
  BY TraineeMovesEffect
<1> DEFINE b == board
           c == apply_move(b, a)
           f == flip_perspective(c)
<1>2. /\ b \in Board /\ ~is_terminal(b).done /\ outcome = NoOutcome
      /\ trainee_first \in BOOLEAN /\ trainee_to_move = TRUE /\ credits \in Nat
      /\ IF trainee_first THEN Count(b, OPP) = Count(b, ME)
         ELSE Count(b, OPP) = Count(b, ME) + 1
      /\ IF train THEN credits = Count(b, ME) ELSE credits = 0
  BY <1>1 DEF GameInv, GameType, TurnInv, CreditInv
<1>3. /\ c \in Board /\ f \in Board
      /\ winner(c) \in {0, 1}
      /\ is_terminal(f).done <=> is_terminal(c).done
      /\ Count(b, ME) \in Nat /\ Count(b, OPP) \in Nat
      /\ Count(c, ME) = Count(b, ME) + 1
      /\ Count(f, ME) = Count(b, OPP) /\ Count(f, OPP) = Count(b, ME) + 1
  BY <1>2, AfterMove DEF ME
<1>4. IsDecision(b)
  BY <1>2, <1>3 DEF IsDecision
<1>5. /\ train' = train /\ trainee_first' = trainee_first
      /\ UNCHANGED <<stage, cfg>>
  BY <1>1 DEF loop, train
<1>6. MinimaxInv'
  BY MinimaxMoves
<1> HIDE DEF c, f
<1>7. CASE is_terminal(c).done
  <2>1. /\ at' = "returned" /\ board' = c /\ outcome' = winner(c)
        /\ trainee_to_move' = TRUE
        /\ IF train THEN /\ update' = Experience(<<b, a>>, winner(c), NoBoard)
                         /\ credits' = credits + 1
           ELSE update' = NoUpdate /\ credits' = credits
    BY <1>1, <1>2, <1>7 DEF Learn, NoMove, c
  <2>2. GameType'
    <3>1. outcome' \in {NoOutcome, -1, 0, 1} /\ credits' \in Nat
      BY <1>2, <1>3, <2>1
    <3>2. QED
      BY <1>2, <1>3, <1>5, <2>1, <3>1 DEF GameType
  <2>3. TurnInv' /\ CreditInv'
    BY <2>1 DEF TurnInv, CreditInv
  <2>4. train => /\ update'.s = b /\ update'.a = a /\ update'.r = winner(c)
                 /\ update'.s_next = NoBoard
    BY <2>1 DEF Experience
  <2>5. KeysAreDecisions'
    BY <1>4, <2>1, <2>4 DEF KeysAreDecisions
  <2>6. FinalBoard' = c
    BY <2>1 DEF FinalBoard
  <2>7. credits' = IF train THEN Count(c, ME) ELSE 0
    BY <1>2, <1>3, <2>1
  <2>8. CreditIsDue'
    <3>1. update' # NoUpdate => train
      BY <2>1
    <3>2. update' # NoUpdate =>
            /\ at' # "game" /\ update'.r = outcome' /\ update'.s_next = NoBoard
            /\ FinalBoard' = apply_move(update'.s, update'.a)
      BY <2>1, <2>4, <2>6, <3>1 DEF c
    <3>3. credits' = IF train' THEN Count(FinalBoard', ME) ELSE 0
      BY <1>5, <2>6, <2>7
    <3>4. QED
      BY <3>2, <3>3 DEF CreditIsDue
  <2>9. QED
    BY <1>6, <2>2, <2>3, <2>5, <2>8 DEF GameInv
<1>8. CASE ~is_terminal(c).done
  <2>1. /\ at' = "game" /\ board' = f /\ outcome' = NoOutcome
        /\ trainee_to_move' = FALSE /\ credits' = credits /\ update' = NoUpdate
        /\ last' = IF train THEN <<b, a>> ELSE NoMove
    BY <1>1, <1>2, <1>8 DEF c, f
  <2>2. GameType'
    BY <1>2, <1>3, <1>5, <2>1 DEF GameType
  <2>3. IF trainee_first THEN Count(f, OPP) = Count(f, ME) + 1
        ELSE Count(f, OPP) = Count(f, ME)
    BY <1>2, <1>3
  <2>4. TurnInv'
    <3>1. ~is_terminal(f).done
      BY <1>3, <1>8
    <3>2. (trainee_to_move' = trainee_first') <=> ~trainee_first
      BY <1>2, <1>5, <2>1
    <3>3. IF trainee_to_move' = trainee_first'
          THEN Count(f, OPP) = Count(f, ME)
          ELSE Count(f, OPP) = Count(f, ME) + 1
      BY <1>2, <2>3, <3>2
    <3>4. QED
      BY <2>1, <3>1, <3>3 DEF TurnInv
  <2>5. LastIsPending' \/ ~train
    <3>1. CASE train
      <4>1. last' = <<b, a>> /\ last' # NoMove /\ last'[1] = b /\ last'[2] = a
        BY <2>1, <3>1 DEF NoMove
      <4>2. credits' + 1 = Count(f, OPP)
        BY <1>2, <1>3, <2>1, <3>1
      <4>3. QED
        BY <1>2, <1>4, <2>1, <4>1, <4>2 DEF LastIsPending, c, f
    <3>2. QED
      BY <3>1
  <2>6. CreditInv'
    BY <1>2, <1>5, <2>1, <2>5 DEF CreditInv
  <2>7. IsDecision(f)
    <3>1. ~is_terminal(f).done
      BY <1>3, <1>8
    <3>2. Count(f, OPP) - Count(f, ME) \in {0, 1}
      BY <1>2, <1>3, <2>3
    <3>3. QED
      BY <3>1, <3>2 DEF IsDecision
  <2>8. KeysAreDecisions' /\ CreditIsDue'
    BY <2>1, <2>7 DEF KeysAreDecisions, CreditIsDue
  <2>9. QED
    BY <1>6, <2>2, <2>4, <2>6, <2>8 DEF GameInv
<1>9. QED
  BY <1>7, <1>8

(* Of the trainee's last move the opponent's reply is what came.             *)
LEMMA ReplyAnswers ==
  ASSUME NEW s \in Board, NEW a \in legal_moves(s),
         NEW b, b = flip_perspective(apply_move(s, a)), NEW r \in legal_moves(b)
  PROVE  Answers(flip_perspective(apply_move(b, r)), s, a)
<1>1. apply_move(s, a) \in Board
  BY MoveFacts
<1>2. /\ r \in legal_moves(apply_move(s, a))
      /\ flip_perspective(apply_move(b, r)) =
           [apply_move(s, a) EXCEPT ![r] = OPP]
  BY <1>1, ReplyFacts
<1>3. QED
  BY <1>2 DEF Answers

LEMMA GameOpponentMoves ==
  ASSUME LoopInv, GameInv, OpponentMoves
  PROVE  GameInv'
<1>1. PICK r \in legal_moves(board) :
           LET c == apply_move(board, r)
               f == flip_perspective(c) IN
           /\ at = "game" /\ ~trainee_to_move
           /\ stage = "minimax" => r = minimax_player(board)
           /\ UNCHANGED <<loop, trainee_first>>
           /\ \/ /\ is_terminal(c).done /\ at' = "returned" /\ board' = c
                 /\ outcome' = -winner(c) /\ UNCHANGED <<last, trainee_to_move>>
                 /\ Learn(last, -winner(c), NoBoard)
              \/ /\ ~is_terminal(c).done /\ at' = at /\ board' = f
                 /\ outcome' = outcome /\ trainee_to_move' = TRUE
                 /\ last' = last
                 /\ Learn(last, 0, f)
  BY OpponentMovesEffect
<1> DEFINE b == board
           c == apply_move(b, r)
           f == flip_perspective(c)
           s == last[1]
           a == last[2]
<1>2. /\ b \in Board /\ ~is_terminal(b).done /\ outcome = NoOutcome
      /\ trainee_first \in BOOLEAN /\ trainee_to_move = FALSE /\ credits \in Nat
      /\ IF trainee_first THEN Count(b, OPP) = Count(b, ME) + 1
         ELSE Count(b, OPP) = Count(b, ME)
      /\ ~train => last = NoMove /\ credits = 0
  BY <1>1 DEF GameInv, GameType, TurnInv, CreditInv
<1>3. /\ c \in Board /\ f \in Board
      /\ winner(c) \in {0, 1}
      /\ is_terminal(f).done <=> is_terminal(c).done
      /\ Count(b, ME) \in Nat /\ Count(b, OPP) \in Nat
      /\ Count(f, ME) = Count(b, OPP) /\ Count(f, OPP) = Count(b, ME) + 1
  BY <1>2, AfterMove DEF ME
<1>4. train => \/ last = NoMove /\ credits = 0 /\ Count(b, OPP) = 0
               \/ /\ last # NoMove /\ s \in Board /\ IsDecision(s)
                  /\ a \in legal_moves(s) /\ credits + 1 = Count(b, OPP)
                  /\ Answers(f, s, a)
  <2>1. train => LastIsPending
    BY <1>1, <1>2 DEF GameInv, CreditInv
  <2>2. QED
    BY <1>1, <2>1, ReplyAnswers DEF LastIsPending
<1>5. /\ train' = train /\ trainee_first' = trainee_first
      /\ UNCHANGED <<stage, cfg>>
  BY <1>1 DEF loop, train
<1>6. MinimaxInv'
  BY MinimaxMoves
<1> DEFINE reward  == IF is_terminal(c).done THEN -winner(c) ELSE 0
           next    == IF is_terminal(c).done THEN NoBoard ELSE f
<1>7. /\ IF is_terminal(c).done
         THEN /\ at' = "returned" /\ board' = c /\ outcome' = -winner(c)
              /\ trainee_to_move' = FALSE /\ last' = last
         ELSE /\ at' = "game" /\ board' = f /\ outcome' = NoOutcome
              /\ trainee_to_move' = TRUE /\ last' = last
      /\ Learn(last, reward, next)
  BY <1>1, <1>2
<1> HIDE DEF c, f, s, a, reward, next
(* Here the move that was pending is credited.                               *)
<1>8. IF train /\ last # NoMove
      THEN /\ update'.s = s /\ update'.a = a /\ update'.r = reward
           /\ update'.s_next = next /\ credits' = credits + 1
      ELSE update' = NoUpdate /\ credits' = credits
  BY <1>7 DEF Learn, Experience, s, a
<1>9. /\ credits' \in Nat
      /\ credits' = IF train THEN Count(f, ME) ELSE 0
  BY <1>2, <1>3, <1>4, <1>8
<1>10. update' # NoUpdate =>
         /\ train /\ s \in Board /\ IsDecision(s) /\ a \in legal_moves(s)
         /\ Answers(f, s, a)
  BY <1>4, <1>8
<1>11. CASE is_terminal(c).done
  <2>1. /\ at' = "returned" /\ board' = c /\ outcome' = -winner(c)
        /\ trainee_to_move' = FALSE /\ reward = outcome' /\ next = NoBoard
    BY <1>7, <1>11 DEF reward, next
  <2>2. outcome' \in {NoOutcome, -1, 0, 1}
    BY <1>3, <2>1
  <2>3. GameType'
    BY <1>2, <1>3, <1>5, <1>9, <2>1, <2>2 DEF GameType
  <2>4. TurnInv' /\ CreditInv'
    BY <2>1 DEF TurnInv, CreditInv
  <2>5. FinalBoard' = f
    BY <2>1 DEF FinalBoard, f
  <2>6. KeysAreDecisions'
    BY <1>8, <1>10, <2>1 DEF KeysAreDecisions
  <2>7. CreditIsDue'
    <3>1. credits' = IF train' THEN Count(FinalBoard', ME) ELSE 0
      BY <1>5, <1>9, <2>5
    <3>2. update' # NoUpdate =>
            /\ at' # "game" /\ update'.r = outcome' /\ update'.s_next = NoBoard
            /\ Answers(FinalBoard', update'.s, update'.a)
      BY <1>8, <1>10, <2>1, <2>5
    <3>3. QED
      BY <3>1, <3>2 DEF CreditIsDue
  <2>8. QED
    BY <1>6, <2>3, <2>4, <2>6, <2>7 DEF GameInv
<1>12. CASE ~is_terminal(c).done
  <2>1. /\ at' = "game" /\ board' = f /\ outcome' = NoOutcome
        /\ trainee_to_move' = TRUE /\ last' = last /\ reward = 0 /\ next = f
    BY <1>7, <1>12 DEF reward, next
  <2>2. GameType'
    BY <1>2, <1>3, <1>5, <1>9, <2>1 DEF GameType
  <2>3. ~is_terminal(f).done
    BY <1>3, <1>12
  <2>4. IF trainee_first THEN Count(f, OPP) = Count(f, ME)
        ELSE Count(f, OPP) = Count(f, ME) + 1
    BY <1>2, <1>3
  <2>5. TurnInv'
    <3>1. (trainee_to_move' = trainee_first') <=> trainee_first
      BY <1>2, <1>5, <2>1
    <3>2. IF trainee_to_move' = trainee_first'
          THEN Count(f, OPP) = Count(f, ME)
          ELSE Count(f, OPP) = Count(f, ME) + 1
      BY <1>2, <2>4, <3>1
    <3>3. QED
      BY <2>1, <2>3, <3>2 DEF TurnInv
  <2>6. CreditInv'
    <3>1. ~train => last' = NoMove /\ credits' = 0
      BY <1>2, <1>8, <2>1
    <3>2. train => credits' = Count(f, ME)
      BY <1>9
    <3>3. QED
      BY <1>5, <2>1, <3>1, <3>2 DEF CreditInv
  <2>7. IsDecision(f)
    <3>1. Count(f, OPP) - Count(f, ME) \in {0, 1}
      BY <1>2, <1>3, <2>4
    <3>2. QED
      BY <2>3, <3>1 DEF IsDecision
  <2>8. KeysAreDecisions'
    <3>1. IsDecision(board')
      BY <2>1, <2>7
    <3>2. update' # NoUpdate =>
            /\ IsDecision(update'.s) /\ update'.a \in legal_moves(update'.s)
            /\ IsDecision(update'.s_next)
      BY <1>8, <1>10, <2>1, <2>7
    <3>3. QED
      BY <3>1, <3>2 DEF KeysAreDecisions
  <2>9. CreditIsDue'
    <3>1. update' # NoUpdate =>
            /\ update'.r = 0 /\ update'.s_next = board'
            /\ Answers(board', update'.s, update'.a)
      BY <1>8, <1>10, <2>1
    <3>2. QED
      BY <2>1, <3>1 DEF CreditIsDue
  <2>10. QED
    BY <1>6, <2>2, <2>5, <2>6, <2>8, <2>9 DEF GameInv
<1>13. QED
  BY <1>11, <1>12

(* Between the episodes the last one's game stays as it was returned.        *)
LEMMA GameFrame ==
  ASSUME GameInv, UNCHANGED game, at # "game", at' = "loop", MinimaxInv'
  PROVE  GameInv'
<1> USE DEF game
<1>1. GameType'
  BY DEF GameInv, GameType
<1>2. TurnInv' /\ CreditInv'
  BY DEF TurnInv, CreditInv
<1>3. KeysAreDecisions'
  BY DEF GameInv, KeysAreDecisions
<1>4. CreditIsDue'
  BY DEF GameInv, CreditIsDue, FinalBoard
<1>5. QED
  BY <1>1, <1>2, <1>3, <1>4 DEF GameInv

LEMMA GameNext ==
  ASSUME LoopInv, GameInv, [Next]_vars
  PROVE  GameInv'
<1>1. ASSUME BeginEpisode
      PROVE  GameInv'
  <2>1. MinimaxInv'
    BY <1>1 DEF BeginEpisode, train, MinimaxInv
  <2>2. QED
    BY <1>1, <2>1, GameEnterEpisode DEF BeginEpisode
<1>2. ASSUME BeginEvalGame
      PROVE  GameInv'
  <2>1. UNCHANGED <<stage, tally>> /\ board' = initial_board /\ at' = "game"
    BY <1>2 DEF BeginEvalGame, EnterEpisode, loop
  <2>2. /\ initial_board \in DOMAIN NegamaxMemo
        /\ NegamaxMemo[initial_board].value = 0
    BY NegamaxAssumption
  <2>3. MinimaxInv'
    BY <2>1, <2>2 DEF GameInv, MinimaxInv
  <2>4. QED
    BY <1>2, <2>3, GameEnterEpisode DEF BeginEvalGame
<1>3. ASSUME EndEpisode
      PROVE  GameInv'
  <2>1. stage' # "minimax"
    BY <1>3 DEF EndEpisode, EnterEvaluate, train
  <2>2. MinimaxInv'
    BY <2>1 DEF MinimaxInv
  <2>3. QED
    BY <1>3, <2>2, GameFrame DEF EndEpisode
<1>4. ASSUME EndEvalGame
      PROVE  GameInv'
  <2>1. /\ stage' = stage /\ at' = "loop" /\ at = "returned"
        /\ tally'.win = tally.win + IF outcome > 0 THEN 1 ELSE 0
    BY <1>4 DEF EndEvalGame
  <2>2. ASSUME stage = "minimax"
        PROVE  tally'.win = 0
    <3>1. tally.win = 0 /\ outcome <= 0 /\ outcome \in Int
      BY <2>1, <2>2 DEF GameInv, GameType, MinimaxInv, NoOutcome
    <3>2. QED
      BY <2>1, <3>1
  <2>3. MinimaxInv'
    BY <2>1, <2>2 DEF MinimaxInv
  <2>4. QED
    BY <1>4, <2>1, <2>3, GameFrame DEF EndEvalGame
<1>5. ASSUME EndVsRandom
      PROVE  GameInv'
  <2>1. tally'.win = 0 /\ at = "loop" /\ at' = "loop"
    BY <1>5 DEF EndVsRandom, EnterEvaluate, ZeroTally
  <2>2. MinimaxInv'
    BY <2>1 DEF MinimaxInv
  <2>3. QED
    BY <1>5, <2>1, <2>2, GameFrame DEF EndVsRandom
<1>6. ASSUME EndVsMinimax \/ EndTraining
      PROVE  GameInv'
  <2>1. stage' # "minimax" /\ at = "loop" /\ at' = "loop" /\ UNCHANGED game
    BY <1>6 DEF EndVsMinimax, EndTraining, EnterEvaluate
  <2>2. MinimaxInv'
    BY <2>1 DEF MinimaxInv
  <2>3. QED
    BY <2>1, <2>2, GameFrame
<1>7. ASSUME UNCHANGED vars
      PROVE  GameInv'
  <2> USE <1>7 DEF vars, loop, game
  <2>1. GameType' /\ TurnInv' /\ MinimaxInv'
    BY DEF GameInv, GameType, TurnInv, MinimaxInv
  <2>2. CreditInv'
    BY DEF GameInv, CreditInv, LastIsPending, train
  <2>3. KeysAreDecisions' /\ CreditIsDue'
    BY DEF GameInv, KeysAreDecisions, CreditIsDue, FinalBoard, train
  <2>4. QED
    BY <2>1, <2>2, <2>3 DEF GameInv
<1>8. QED
  BY <1>1, <1>2, <1>3, <1>4, <1>5, <1>6, <1>7, GameTraineeMoves,
     GameOpponentMoves DEF Next, Done

(* The invariant of an episode holds in every configuration.                 *)
THEOREM EpisodesAreSound == Spec => [](LoopInv /\ GameInv)
<1>1. Init => LoopInv /\ GameInv
  BY LoopInit, GameInit
<1>2. LoopInv /\ GameInv /\ [Next]_vars => (LoopInv /\ GameInv)'
  BY LoopNext, GameNext
<1>3. QED
  BY <1>1, <1>2, PTL DEF Spec

(* Every board _run_episode or update looks up in the Q-table is one the     *)
(* player who looks it up has to move on.                                    *)
THEOREM LookupsAreDecisions == Spec => []KeysAreDecisions
<1>1. GameInv => KeysAreDecisions
  BY DEF GameInv
<1>2. QED
  BY <1>1, EpisodesAreSound, PTL

(* However many episodes and evaluations there are, each move of the trainee *)
(* in a training episode is given to update once, with what came of it.      *)
THEOREM MovesAreCredited == Spec => []CreditIsDue
<1>1. GameInv => CreditIsDue
  BY DEF GameInv
<1>2. QED
  BY <1>1, EpisodesAreSound, PTL

(* No number of evaluation games gets a win out of minimax_player.           *)
THEOREM MinimaxIsUnbeaten == Spec => []MinimaxNeverLoses
<1>1. GameInv => MinimaxNeverLoses
  BY DEF GameInv, MinimaxInv, MinimaxNeverLoses
<1>2. QED
  BY <1>1, EpisodesAreSound, PTL

-----------------------------------------------------------------------------
(* Seen from outside, a game of tic-tac-toe                                  *)

LEMMA AbsoluteCells ==
  /\ Absolute!Cells = Cells
  /\ \A i \in Cells : \/ i = 0 \/ i = 1 \/ i = 2 \/ i = 3 \/ i = 4
                      \/ i = 5 \/ i = 6 \/ i = 7 \/ i = 8
BY DEF Absolute!Cells, Cells

(* Rows, columns and diagonals are the eight winning lines.                  *)
LEMMA HasIsLine ==
  ASSUME NEW g, NEW p
  PROVE  Absolute!Has(g, p) <=> Line(g, p)
<1> DEFINE R(i) == Absolute!Row(i)
           C(i) == Absolute!Col(i)
<1>1. /\ R(0) = 0 /\ R(1) = 0 /\ R(2) = 0 /\ R(3) = 1 /\ R(4) = 1 /\ R(5) = 1
      /\ R(6) = 2 /\ R(7) = 2 /\ R(8) = 2
  BY DEF Absolute!Row
<1>2. /\ C(0) = 0 /\ C(1) = 1 /\ C(2) = 2 /\ C(3) = 0 /\ C(4) = 1 /\ C(5) = 2
      /\ C(6) = 0 /\ C(7) = 1 /\ C(8) = 2
  BY DEF Absolute!Col
<1> HIDE DEF R, C
<1>3. /\ (\A i \in Cells : R(i) = 0 => g[i] = p) <=> Three(g, p, 0, 1, 2)
      /\ (\A i \in Cells : R(i) = 1 => g[i] = p) <=> Three(g, p, 3, 4, 5)
      /\ (\A i \in Cells : R(i) = 2 => g[i] = p) <=> Three(g, p, 6, 7, 8)
  BY <1>1, CellFacts, AbsoluteCells DEF Three
<1>4. /\ (\A i \in Cells : C(i) = 0 => g[i] = p) <=> Three(g, p, 0, 3, 6)
      /\ (\A i \in Cells : C(i) = 1 => g[i] = p) <=> Three(g, p, 1, 4, 7)
      /\ (\A i \in Cells : C(i) = 2 => g[i] = p) <=> Three(g, p, 2, 5, 8)
  BY <1>2, CellFacts, AbsoluteCells DEF Three
<1>5. /\ (\A i \in Cells : R(i) = C(i) => g[i] = p) <=> Three(g, p, 0, 4, 8)
      /\ (\A i \in Cells : R(i) + C(i) = 2 => g[i] = p)
           <=> Three(g, p, 2, 4, 6)
  BY <1>1, <1>2, CellFacts, AbsoluteCells DEF Three
<1>6. Absolute!Has(g, p) <=>
        \/ \E k \in 0..2 : \A i \in Cells : R(i) = k => g[i] = p
        \/ \E k \in 0..2 : \A i \in Cells : C(i) = k => g[i] = p
        \/ \A i \in Cells : R(i) = C(i) => g[i] = p
        \/ \A i \in Cells : R(i) + C(i) = 2 => g[i] = p
  BY AbsoluteCells DEF Absolute!Has, R, C
<1>7. \A k \in 0..2 : k = 0 \/ k = 1 \/ k = 2
  OBVIOUS
<1>8. 0 \in 0..2 /\ 1 \in 0..2 /\ 2 \in 0..2
  OBVIOUS
<1>9. QED
  BY <1>3, <1>4, <1>5, <1>6, <1>7, <1>8 DEF Line

LEMMA AbsoluteCardinality ==
  \A S : Absolute!Cardinality(S) = Cardinality(S)
BY Zenon DEF Absolute!Cardinality, Cardinality

(* A board with the pieces named mine and theirs.                            *)
Named(b, mine, theirs) ==
  [i \in Cells |-> IF b[i] = EMPTY THEN "" ELSE IF b[i] = ME THEN mine
                   ELSE theirs]

LEMMA NamedFacts ==
  ASSUME NEW b \in Board,
         NEW mine \in {"X", "O"}, NEW theirs \in {"X", "O"}, mine # theirs
  PROVE  LET g == Named(b, mine, theirs) IN
         /\ Absolute!Has(g, mine) <=> Line(b, ME)
         /\ Absolute!Has(g, theirs) <=> Line(b, OPP)
         /\ Absolute!Full(g) <=> legal_moves(b) = {}
         /\ Absolute!Count(g, mine) = Count(b, ME)
         /\ Absolute!Count(g, theirs) = Count(b, OPP)
         /\ Named(flip_perspective(b), theirs, mine) = g
<1> DEFINE g == Named(b, mine, theirs)
<1>1. \A i \in Cells : b[i] \in {EMPTY, ME, OPP}
  BY DEF Board
<1>2. EMPTY # ME /\ EMPTY # OPP /\ ME # OPP /\ "" # mine /\ "" # theirs
  <2>1. "" # "X" /\ "" # "O"
    OBVIOUS
  <2>2. EMPTY # ME /\ EMPTY # OPP /\ ME # OPP
    BY DEF EMPTY, ME, OPP
  <2>3. QED
    BY <2>1, <2>2
<1>3. \A i \in Cells : /\ g[i] = mine <=> b[i] = ME
                       /\ g[i] = theirs <=> b[i] = OPP
                       /\ g[i] = "" <=> b[i] = EMPTY
  BY <1>1, <1>2 DEF Named
<1>4. \A x, y, z \in Cells :
        /\ Three(g, mine, x, y, z) <=> Three(b, ME, x, y, z)
        /\ Three(g, theirs, x, y, z) <=> Three(b, OPP, x, y, z)
  BY <1>3 DEF Three
<1>5. Line(g, mine) <=> Line(b, ME)
  BY <1>4, CellFacts DEF Line
<1>6. Line(g, theirs) <=> Line(b, OPP)
  BY <1>4, CellFacts DEF Line
<1>7. Absolute!Full(g) <=> legal_moves(b) = {}
  BY <1>3, AbsoluteCells DEF Absolute!Full, legal_moves
<1>8. /\ {i \in Cells : g[i] = mine} = {i \in Cells : b[i] = ME}
      /\ {i \in Cells : g[i] = theirs} = {i \in Cells : b[i] = OPP}
  BY <1>3
<1>9. /\ Absolute!Count(g, mine) = Count(b, ME)
      /\ Absolute!Count(g, theirs) = Count(b, OPP)
  <2> HIDE DEF g
  <2>1. ASSUME NEW p
        PROVE  Absolute!Count(g, p) = Cardinality({i \in Cells : g[i] = p})
    <3>1. {i \in Absolute!Cells : g[i] = p} = {i \in Cells : g[i] = p}
      BY AbsoluteCells
    <3>2. QED
      BY <3>1, AbsoluteCardinality DEF Absolute!Count
  <2>2. QED
    BY <1>8, <2>1 DEF Count
<1>10. Named(flip_perspective(b), theirs, mine) = g
  <2> DEFINE f == flip_perspective(b)
  <2>1. \A i \in Cells : /\ f[i] = EMPTY <=> b[i] = EMPTY
                         /\ f[i] = ME <=> b[i] = OPP
                         /\ f[i] = OPP <=> b[i] = ME
    BY <1>1, FlipFacts DEF EMPTY, ME, OPP
  <2> HIDE DEF f
  <2>2. QED
    BY <1>1, <1>2, <2>1 DEF Named, f
<1>11. QED
  BY <1>5, <1>6, <1>7, <1>9, <1>10, HasIsLine

(* The sides to move and to wait, by the order they began in.                *)
Mine   == IF trainee_to_move = trainee_first THEN "X" ELSE "O"
Theirs == IF trainee_to_move = trainee_first THEN "O" ELSE "X"

LEMMA GridIsNamed ==
  board \in Board => Grid = Named(board, Mine, Theirs)
<1> SUFFICES ASSUME board \in Board
             PROVE  Grid = Named(board, Mine, Theirs)
  OBVIOUS
<1>1. ASSUME NEW i \in Cells
      PROVE  PieceOf(board[i]) =
               IF board[i] = EMPTY THEN "" ELSE IF board[i] = ME THEN Mine
               ELSE Theirs
  <2>1. CASE trainee_to_move = trainee_first
    BY <2>1 DEF PieceOf, Mine, Theirs
  <2>2. CASE trainee_to_move # trainee_first
    BY <2>2 DEF PieceOf, Mine, Theirs
  <2>3. QED
    BY <2>1, <2>2
<1>2. QED
  BY <1>1 DEF Grid, Named

LEMMA NextGridIsNamed ==
  (board \in Board => Grid = Named(board, Mine, Theirs))'
BY GridIsNamed, PTL

LEMMA MovePlays ==
  ASSUME GameInv, at = "game", NEW a \in legal_moves(board),
         trainee_first' = trainee_first,
         IF is_terminal(apply_move(board, a)).done
         THEN /\ board' = apply_move(board, a)
              /\ trainee_to_move' = trainee_to_move
              /\ outcome' = IF trainee_to_move
                            THEN winner(apply_move(board, a))
                            ELSE -winner(apply_move(board, a))
         ELSE /\ board' = flip_perspective(apply_move(board, a))
              /\ trainee_to_move' = ~trainee_to_move
              /\ outcome' = NoOutcome
  PROVE  \E i \in Absolute!Cells : Absolute!Move(i)
<1> DEFINE b == board
           c == apply_move(b, a)
           f == flip_perspective(c)
<1>1. /\ b \in Board /\ ~is_terminal(b).done /\ outcome = NoOutcome
      /\ trainee_first \in BOOLEAN /\ trainee_to_move \in BOOLEAN
      /\ IF trainee_to_move = trainee_first
         THEN Count(b, OPP) = Count(b, ME)
         ELSE Count(b, OPP) = Count(b, ME) + 1
  BY DEF GameInv, GameType, TurnInv
<1>2. /\ c \in Board /\ f \in Board /\ Count(b, ME) \in Nat
      /\ a \in Cells /\ b[a] = EMPTY /\ c = [b EXCEPT ![a] = ME]
  BY <1>1, AfterMove DEF legal_moves, apply_move
<1>3. /\ ~Line(c, OPP) /\ winner(c) \in {0, 1}
      /\ winner(c) = 1 <=> Line(c, ME)
      /\ is_terminal(c).done <=> Line(c, ME) \/ legal_moves(c) = {}
  <2>1. /\ ~Line(c, OPP) /\ winner(c) \in {0, ME}
        /\ winner(c) = ME <=> Line(c, ME)
    BY <1>1, MoveEnds
  <2>2. is_terminal(c).done <=>
          Line(c, ME) \/ Line(c, OPP) \/ legal_moves(c) = {}
    BY <1>2, TerminalFacts
  <2>3. QED
    BY <2>1, <2>2 DEF ME
<1>4. /\ Mine \in {"X", "O"} /\ Theirs \in {"X", "O"} /\ Mine # Theirs
      /\ Mine = IF trainee_to_move = trainee_first THEN "X" ELSE "O"
      /\ Theirs = IF trainee_to_move = trainee_first THEN "O" ELSE "X"
  BY DEF Mine, Theirs
<1> DEFINE g == Named(c, Mine, Theirs)
<1>5. Grid = Named(b, Mine, Theirs)
  BY <1>1, GridIsNamed
<1>6. Absolute!Turn = Mine
  <2>1. /\ Absolute!Count(Grid, Mine) = Count(b, ME)
        /\ Absolute!Count(Grid, Theirs) = Count(b, OPP)
    BY <1>1, <1>4, <1>5, NamedFacts
  <2>2. Absolute!Count(Grid, "X") = Absolute!Count(Grid, "O")
          <=> trainee_to_move = trainee_first
    BY <1>1, <1>2, <1>4, <2>1
  <2>3. QED
    BY <1>4, <2>2 DEF Absolute!Turn
<1>7. g = [Grid EXCEPT ![a] = Mine] /\ Grid[a] = ""
  <2>1. \A i \in Cells : c[i] = IF i = a THEN ME ELSE b[i]
    BY <1>1, <1>2 DEF Board
  <2>2. ME # EMPTY
    BY DEF ME, EMPTY
  <2> HIDE DEF c
  <2>3. /\ Grid = [i \in Cells |-> Grid[i]]
        /\ \A i \in Cells :
             Grid[i] = IF b[i] = EMPTY THEN "" ELSE IF b[i] = ME THEN Mine
                       ELSE Theirs
    BY <1>5 DEF Named
  <2>4. \A i \in Cells : g[i] = IF i = a THEN Mine ELSE Grid[i]
    BY <2>1, <2>2, <2>3 DEF Named
  <2>5. g = [i \in Cells |-> g[i]]
    BY DEF Named
  <2> HIDE DEF g
  <2>6. g = [Grid EXCEPT ![a] = Mine]
    BY <2>3, <2>4, <2>5
  <2>7. QED
    BY <1>2, <2>3, <2>6
<1>8. Absolute!ResultOf(g) =
        IF Line(c, ME) THEN Mine
        ELSE IF legal_moves(c) = {} THEN "draw" ELSE "none"
  <2>1. /\ Absolute!Has(g, Mine) <=> Line(c, ME)
        /\ ~Absolute!Has(g, Theirs)
        /\ Absolute!Full(g) <=> legal_moves(c) = {}
    BY <1>2, <1>3, <1>4, NamedFacts
  <2> HIDE DEF g, c
  <2>2. CASE Mine = "X"
    <3>1. Theirs = "O"
      BY <1>4, <2>2
    <3>2. QED
      BY <2>1, <2>2, <3>1 DEF Absolute!ResultOf
  <2>3. CASE Mine = "O"
    <3>1. Theirs = "X"
      BY <1>4, <2>3
    <3>2. QED
      BY <2>1, <2>3, <3>1 DEF Absolute!ResultOf
  <2>4. QED
    BY <1>4, <2>2, <2>3
<1>9. Result = "none"
  BY <1>1 DEF Result, NoOutcome
<1>10. Grid' = g /\ Result' = Absolute!ResultOf(g)
  <2>1. CASE is_terminal(c).done
    <3>1. /\ board' = c /\ trainee_to_move' = trainee_to_move
          /\ outcome' = IF trainee_to_move THEN winner(c) ELSE -winner(c)
      BY <2>1
    <3>2. Grid' = g
      <4>1. (Grid = Named(board, Mine, Theirs))'
        BY <1>2, <3>1, NextGridIsNamed
      <4>2. Mine' = Mine /\ Theirs' = Theirs
        BY <3>1 DEF Mine, Theirs
      <4>3. QED
        BY <3>1, <4>1, <4>2
    <3> HIDE DEF c, g
    <3>3. CASE Line(c, ME)
      <4>1. outcome' = IF trainee_to_move THEN 1 ELSE -1
        BY <1>3, <3>1, <3>3
      <4>2. Result' = Mine
        BY <1>1, <4>1 DEF Result, Mine, NoOutcome
      <4>3. QED
        BY <1>8, <3>2, <3>3, <4>2
    <3>4. CASE ~Line(c, ME)
      <4>1. outcome' = 0 /\ legal_moves(c) = {}
        BY <1>3, <2>1, <3>1, <3>4
      <4>2. Result' = "draw"
        BY <4>1 DEF Result, NoOutcome
      <4>3. QED
        BY <1>8, <3>2, <3>4, <4>1, <4>2
    <3>5. QED
      BY <3>3, <3>4
  <2>2. CASE ~is_terminal(c).done
    <3>1. /\ board' = f /\ trainee_to_move' = ~trainee_to_move
          /\ outcome' = NoOutcome
      BY <2>2
    <3>2. Grid' = g
      <4>1. (Grid = Named(board, Mine, Theirs))'
        BY <1>2, <3>1, NextGridIsNamed
      <4>2. Mine' = Theirs /\ Theirs' = Mine
        BY <1>1, <3>1 DEF Mine, Theirs
      <4>3. Named(f, Theirs, Mine) = g
        BY <1>2, <1>4, NamedFacts
      <4> HIDE DEF f, g
      <4>4. QED
        BY <3>1, <4>1, <4>2, <4>3
    <3>3. Result' = "none"
      BY <3>1 DEF Result, NoOutcome
    <3>4. QED
      BY <1>3, <1>8, <2>2, <3>2, <3>3
  <2>3. QED
    BY <2>1, <2>2
<1>11. Absolute!Move(a)
  BY <1>6, <1>7, <1>9, <1>10 DEF Absolute!Move
<1>12. QED
  BY <1>2, <1>11, AbsoluteCells

LEMMA EmptyGrid ==
  /\ board = initial_board => Grid = Absolute!EmptyGrid
  /\ outcome = NoOutcome => Result = "none"
<1>1. \A i \in Cells : initial_board[i] = EMPTY
  BY InitialBoardFacts
<1>2. board = initial_board => Grid = [i \in Cells |-> ""]
  BY <1>1 DEF Grid, PieceOf
<1>3. [i \in Cells |-> ""] = [i \in Absolute!Cells |-> ""]
  BY AbsoluteCells
<1>4. Absolute!EmptyGrid = [i \in Cells |-> ""]
  BY <1>3 DEF Absolute!EmptyGrid
<1>5. outcome = NoOutcome => Result = "none"
  BY DEF Result, NoOutcome
<1>6. QED
  BY <1>2, <1>4, <1>5

LEMMA NextEmptyGrid ==
  (/\ board = initial_board => Grid = Absolute!EmptyGrid
   /\ outcome = NoOutcome => Result = "none")'
BY EmptyGrid, PTL

LEMMA StepsPlay ==
  ASSUME LoopInv, GameInv, [Next]_vars
  PROVE  [Absolute!Next]_(Absolute!vars)
<1>1. ASSUME EnterEpisode
      PROVE  Absolute!Next
  <2>1. board' = initial_board /\ outcome' = NoOutcome
    BY <1>1 DEF EnterEpisode
  <2>2. QED
    BY <2>1, NextEmptyGrid DEF Absolute!Next, Absolute!NewGame
<1>2. ASSUME UNCHANGED game
      PROVE  UNCHANGED Absolute!vars
  <2>1. UNCHANGED <<board, outcome, trainee_first, trainee_to_move>>
    BY <1>2 DEF game
  <2>2. Grid' = Grid
    BY <2>1 DEF Grid, PieceOf
  <2>3. Result' = Result
    BY <2>1 DEF Result
  <2>4. QED
    BY <2>2, <2>3 DEF Absolute!vars
<1>3. CASE TraineeMoves
  <2>1. trainee_to_move \in BOOLEAN /\ trainee_to_move = TRUE
    BY <1>3 DEF GameInv, GameType, TraineeMoves
  <2>2. at = "game" /\ outcome = NoOutcome
    BY <1>3 DEF GameInv, TurnInv, TraineeMoves
  <2>3. PICK a \in legal_moves(board) :
          LET c == apply_move(board, a) IN
          /\ trainee_first' = trainee_first
          /\ IF is_terminal(c).done
             THEN /\ board' = c /\ trainee_to_move' = trainee_to_move
                  /\ outcome' = winner(c)
             ELSE /\ board' = flip_perspective(c) /\ trainee_to_move' = FALSE
                  /\ outcome' = NoOutcome
    BY <1>3, <2>2, TraineeMovesEffect
  <2>4. \E i \in Absolute!Cells : Absolute!Move(i)
    BY <2>1, <2>2, <2>3, MovePlays
  <2>5. QED
    BY <2>4 DEF Absolute!Next
<1>4. CASE OpponentMoves
  <2>1. trainee_to_move \in BOOLEAN /\ trainee_to_move = FALSE
    BY <1>4 DEF GameInv, GameType, OpponentMoves
  <2>2. at = "game" /\ outcome = NoOutcome
    BY <1>4 DEF GameInv, TurnInv, OpponentMoves
  <2>3. PICK a \in legal_moves(board) :
          LET c == apply_move(board, a) IN
          /\ trainee_first' = trainee_first
          /\ IF is_terminal(c).done
             THEN /\ board' = c /\ trainee_to_move' = trainee_to_move
                  /\ outcome' = -winner(c)
             ELSE /\ board' = flip_perspective(c) /\ trainee_to_move' = TRUE
                  /\ outcome' = NoOutcome
    BY <1>4, <2>2, OpponentMovesEffect
  <2>4. \E i \in Absolute!Cells : Absolute!Move(i)
    BY <2>1, <2>2, <2>3, MovePlays
  <2>5. QED
    BY <2>4 DEF Absolute!Next
<1>5. CASE BeginEpisode \/ BeginEvalGame
  BY <1>1, <1>5 DEF BeginEpisode, BeginEvalGame
<1>6. CASE \/ EndEpisode \/ EndEvalGame \/ EndVsRandom \/ EndVsMinimax
           \/ EndTraining \/ UNCHANGED vars
  BY <1>2, <1>6 DEF EndEpisode, EndEvalGame, EndVsRandom, EndVsMinimax,
     EndTraining, vars
<1>7. QED
  BY <1>3, <1>4, <1>5, <1>6 DEF Next, Done

(* Whoever begins and whoever the opponent is, what _run_episode plays on    *)
(* its flipped boards is tic-tac-toe, game after game.                       *)
THEOREM PlaysTicTacToe == Spec => IsAGame
<1>1. Init => Absolute!Init
  BY EmptyGrid DEF Init, Absolute!Init
<1>2. LoopInv /\ GameInv /\ [Next]_vars => [Absolute!Next]_(Absolute!vars)
  BY StepsPlay
<1>3. QED
  BY <1>1, <1>2, EpisodesAreSound, PTL DEF Spec, IsAGame, Absolute!Spec
===============================================================================
