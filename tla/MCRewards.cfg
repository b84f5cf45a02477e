\* Three nodes in the reward queue; no checkpoint and no blink quorums.
CONSTANTS
    alice = alice
    bob = bob
    Word = 16
    StakingPortions = 12
    MaxContributors = 2
    LockBlocks = 2
    PubKeys = {1, 2, 3}
    Addresses = {alice}
    StakingRequirement = 2
    Registrations <- SoleOperator
    Transfers = {2}
    StateChangeTxLifetime = 2
    ShortTermHistory = 2
    StateChangeQuorumSize = 1
    StateChangeMinVotes = 1
    MinNodesToTest = 1
    NthToTest = 2
    CheckpointInterval = 2
    ReorgSafetyBuffer = 1
    CheckpointQuorumSize = 4
    BlinkQuorumInterval = 2
    BlinkExpiryBuffer = 1
    BlinkSubquorumSize = 2
    BlinkMinVotes = 4
    ProofInterval = 0
    MaxHeight = 6
    MaxBlockTxs = 2
    MaxStakeOutputs = 3
    MaxTxOutputs = 1
    RepeatedImages = {}
SPECIFICATION Spec
PROPERTY NeverOvertaken
CONSTRAINT QueueOnly
CHECK_DEADLOCK FALSE
