CONSTANTS
  Bounds = {0, 1, 3}
  MaxCards = 4
SPECIFICATION Spec
INVARIANT MentionedDeckIsOutside
