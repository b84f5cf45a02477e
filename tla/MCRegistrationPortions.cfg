\* All lists of up to four 4-bit portions: STAKING_PORTIONS is 2^w - 4, a
\* multiple of twelve, as in the code.
CONSTANTS
    Word = 16
    StakingPortions = 12
    MaxContributors = 4
    LockBlocks = 4
    Requirements = {1, 5, 7, 12}
SPECIFICATION Spec
INVARIANTS
    ReservedFitsRequirement
    ReservedContributorsAdmitted
    LowestPortionsForAmount
    PayoutsWithinReward
CHECK_DEADLOCK FALSE
