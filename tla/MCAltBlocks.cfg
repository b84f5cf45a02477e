SPECIFICATION Spec
CONSTANTS
  Base = 6
  STORE_LONG_TERM_STATE_INTERVAL = 9
  SHORT_TERM_STATE_HISTORY = 7
  VOTE_LIFETIME = 3
  VOTE_OR_TX_VERIFY_HEIGHT_BUFFER = 2
  QuorumHistories = {0}
  EnoughQuorumHistory = 2
  W = 64
  AltForks = {8, 9}
  MaxHeight = 10
  MaxVotes = 1
  MaxDetaches = 0
  Depths = {0, 1, 2, 3}
  MaxRestarts = 0
  MaxUpsets = 9
  MaxAlts = 3
PROPERTY AltStatesFollowBranch
CHECK_DEADLOCK FALSE
