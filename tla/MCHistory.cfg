SPECIFICATION Spec
CONSTANTS
  Base = 6
  STORE_LONG_TERM_STATE_INTERVAL = 8
  SHORT_TERM_STATE_HISTORY = 6
  VOTE_LIFETIME = 3
  VOTE_OR_TX_VERIFY_HEIGHT_BUFFER = 2
  QuorumHistories = {0, 10}
  EnoughQuorumHistory = 2
  W = 64
  AltForks = {}
  MaxHeight = 15
  MaxVotes = 1
  MaxDetaches = 2
  Depths = {0, 1, 2}
  MaxRestarts = 2
  MaxUpsets = 3
  MaxAlts = 0
INVARIANTS ListFollowsChain KeptStatesFollowChain StoredStatesHaveQuorums OldQuorumsAscending CleanRestartKeepsList
CHECK_DEADLOCK FALSE
