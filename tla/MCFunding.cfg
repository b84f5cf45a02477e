\* One node with two stakers, all ways to fund it or not.
CONSTANTS
    alice = alice
    bob = bob
    Word = 16
    StakingPortions = 12
    MaxContributors = 3
    LockBlocks = 2
    PubKeys = {1}
    Addresses = {alice, bob}
    StakingRequirement = 5
    Registrations <- SharedNodes
    Transfers = {0, 1, 2, 3, 5}
    StateChangeTxLifetime = 3
    ShortTermHistory = 3
    StateChangeQuorumSize = 1
    StateChangeMinVotes = 1
    MinNodesToTest = 1
    NthToTest = 2
    CheckpointInterval = 2
    ReorgSafetyBuffer = 1
    CheckpointQuorumSize = 2
    BlinkQuorumInterval = 2
    BlinkExpiryBuffer = 1
    BlinkSubquorumSize = 2
    BlinkMinVotes = 1
    ProofInterval = 0
    MaxHeight = 3
    MaxBlockTxs = 2
    MaxStakeOutputs = 6
    MaxTxOutputs = 4
    RepeatedImages = {}
SPECIFICATION Spec
INVARIANTS
    TotalsAddUp
    ReservationsFit
    ActiveSinceConsistent
CHECK_DEADLOCK FALSE
