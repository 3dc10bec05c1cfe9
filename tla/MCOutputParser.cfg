\* Finding the final object in every small text.
SPECIFICATION Spec
CONSTANTS
  None = None
  Contents <- MCContents
INVARIANTS
  FirstObjectFound
  OverlookedBehindBraces
  FencedObjectFound
CHECK_DEADLOCK FALSE
