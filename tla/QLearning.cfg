CONSTANTS
  Configs <- MCConfigs
  EvalGames = 2
  EpsStart = 10
  EpsEnd = 1

SPECIFICATION Spec

INVARIANTS
  KeysAreDecisions
  CreditIsDue
  EvalLeavesTheSchedule
  MinimaxNeverLoses

PROPERTY
  IsAGame
