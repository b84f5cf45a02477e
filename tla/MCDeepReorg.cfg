SPECIFICATION Spec
CONSTANTS
  Base = 6
  STORE_LONG_TERM_STATE_INTERVAL = 9
  SHORT_TERM_STATE_HISTORY = 7
  VOTE_LIFETIME = 3
  VOTE_OR_TX_VERIFY_HEIGHT_BUFFER = 2
  QuorumHistories = {2, 9}
  EnoughQuorumHistory = 2
  W = 64
  AltForks = {}
  MaxHeight = 20
  MaxVotes = 1
  MaxDetaches = 1
  Depths = {7, 8, 9, 10, 11, 12, 13, 14}
  MaxRestarts = 0
  MaxUpsets = 9
  MaxAlts = 0
INVARIANTS TypeOK ListFollowsChain KeptStatesFollowChain VotesVerifiable CleanRestartKeepsList
CHECK_DEADLOCK FALSE
