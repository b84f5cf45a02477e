\* Three transactions per block: a node deregistered, registered again and voted on.
CONSTANTS
    alice = alice
    bob = bob
    Word = 16
    StakingPortions = 12
    MaxContributors = 2
    LockBlocks = 2
    PubKeys = {1, 2}
    Addresses = {alice}
    StakingRequirement = 2
    Registrations <- SoleOperator
    Transfers = {2}
    StateChangeTxLifetime = 3
    ShortTermHistory = 3
    StateChangeQuorumSize = 1
    StateChangeMinVotes = 1
    MinNodesToTest = 1
    NthToTest = 2
    CheckpointInterval = 2
    ReorgSafetyBuffer = 1
    CheckpointQuorumSize = 2
    BlinkQuorumInterval = 2
    BlinkExpiryBuffer = 1
    BlinkSubquorumSize = 2
    BlinkMinVotes = 1
    ProofInterval = 0
    MaxHeight = 4
    MaxBlockTxs = 3
    MaxStakeOutputs = 3
    MaxTxOutputs = 1
    RepeatedImages = {}
SPECIFICATION Spec
INVARIANT NotVotedOnPrematurely
CHECK_DEADLOCK FALSE
