SPECIFICATION Spec
CONSTANTS
  Base = 6
  STORE_LONG_TERM_STATE_INTERVAL = 9
  SHORT_TERM_STATE_HISTORY = 7
  VOTE_LIFETIME = 3
  VOTE_OR_TX_VERIFY_HEIGHT_BUFFER = 2
  QuorumHistories = {10}
  EnoughQuorumHistory = 2
  W = 64
  AltForks = {}
  MaxHeight = 17
  MaxVotes = 1
  MaxDetaches = 1
  Depths = {3}
  MaxRestarts = 1
  MaxUpsets = 9
  MaxAlts = 0
INVARIANT StoredStatesHaveQuorums
CHECK_DEADLOCK FALSE
