SPECIFICATION Spec

INVARIANT
  PageShowsTheMoves

PROPERTY
  PlayIsAGame
