------------------------------ MODULE MCQLearning ------------------------------
(* QLearning with both phases, and every way the last evaluation can fall.   *)
EXTENDS QLearning

Config(phase, episodes, eval_every, decay) ==
  [phase |-> phase, episodes |-> episodes,
   eval_every |-> eval_every, decay |-> decay]

MCConfigs == {Config("1a", 0, 2, 0), Config("1a", 1, 1, 1),
              Config("1b", 3, 2, 2)}
===============================================================================
