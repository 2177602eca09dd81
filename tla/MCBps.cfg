SPECIFICATION Spec
CONSTANTS
  U64_MAX = 100
  BPS_MAX = 10
INVARIANTS
  FeeMatchesReference
  NoUndefinedBehaviour
