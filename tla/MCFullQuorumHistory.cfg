SPECIFICATION Spec
CONSTANTS
  Base = 6
  STORE_LONG_TERM_STATE_INTERVAL = 9
  SHORT_TERM_STATE_HISTORY = 7
  VOTE_LIFETIME = 3
  VOTE_OR_TX_VERIFY_HEIGHT_BUFFER = 2
  QuorumHistories = {63}
  EnoughQuorumHistory = 2
  W = 64
  AltForks = {}
  MaxHeight = 17
  MaxVotes = 0
  MaxDetaches = 0
  Depths = {0, 1, 2}
  MaxRestarts = 1
  MaxUpsets = 9
  MaxAlts = 0
INVARIANT CleanRestartKeepsList
CHECK_DEADLOCK FALSE
