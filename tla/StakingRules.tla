---------------------------- MODULE StakingRules ----------------------------
(***************************************************************************)
(* The arithmetic of staking: service_node_rules.cpp, the portion checks   *)
(* of a registration, and the split of a block reward.  Amounts and        *)
(* portions are unsigned words: Word stands for 2^64, and subtractions and *)
(* sums that the code lets wrap are taken modulo Word.  mul128 / div128_64 *)
(* keep a double word, so a product followed by a division is exact and    *)
(* only the quotient is cut to a word.                                     *)
(*                                                                         *)
(* Operators named in CamelCase that stand just before a definition in the *)
(* code's own spelling, and that nothing uses, are that definition with a  *)
(* plausible mistake in it; they show that the properties notice it.       *)
(***************************************************************************)
EXTENDS Integers, Sequences

CONSTANTS
    Word,               \* 2^64: one more than the largest uint64_t
    StakingPortions,    \* STAKING_PORTIONS, 2^64 - 4 in the code
    MaxContributors,    \* MAX_NUMBER_OF_CONTRIBUTORS, 4 in the code
    LockBlocks          \* staking_num_lock_blocks(nettype)

ASSUME RulesAssumption ==
    /\ Word \in Nat /\ StakingPortions \in 1..(Word - 2)
    /\ MaxContributors \in 1..4
    /\ LockBlocks \in Nat \ {0}

UINT64_MAX == Word - 1

Words == 0..UINT64_MAX

(***************************************************************************)
(* Registrations name at most four contributors, so the sums the code      *)
(* builds in loops over them are written out: UpTo(s, k) is s cut to its   *)
(* first k entries and padded with zeroes, Total adds the four entries.    *)
(***************************************************************************)
UpTo(s, k) == [j \in 1..4 |-> IF j <= k /\ j <= Len(s) THEN s[j] ELSE 0]

Total(f) == f[1] + f[2] + f[3] + f[4]

\* The smallest contribution accepted when n stakes are already locked.  A debug
\* build asserts n < MaxContributors first; this is the release build.
get_min_node_contribution(staking_requirement, total_reserved, n) ==
    IF MaxContributors <= n
    THEN UINT64_MAX
    ELSE ((staking_requirement - total_reserved) % Word) \div (MaxContributors - n)

portions_to_amount(portions, staking_requirement) ==
    ((staking_requirement * portions) \div StakingPortions) % Word

PortionsWithoutCarry(staking_requirement, amount) ==
    LET product == amount * StakingPortions
        lo2     == ((product % Word) + (staking_requirement - 1)) % Word
    IN  (((product \div Word) * Word + lo2) \div staking_requirement) % Word

\* Double word numerator amount * STAKING_PORTIONS + (staking_requirement - 1),
\* added to the low word with the carry taken to the high word by hand.
get_portions_to_make_amount(staking_requirement, amount) ==
    LET product == amount * StakingPortions
        lo      == product % Word
        carry   == IF lo > UINT64_MAX - (staking_requirement - 1) THEN 1 ELSE 0
        hi      == product \div Word + carry
        lo2     == (lo + (staking_requirement - 1)) % Word
    IN  ((hi * Word + lo2) \div staking_requirement) % Word

PortionsOfAnySize(portions) ==
    /\ Len(portions) <= MaxContributors
    /\ Total(UpTo(portions, 4)) % Word <= StakingPortions

\* `reserved' is a uint64_t: the running sum wraps.
check_service_node_portions(portions) ==
    LET reserved(k) == Total(UpTo(portions, k)) % Word IN
    /\ Len(portions) <= MaxContributors
    /\ \A i \in 1..Len(portions) :
          portions[i] >= get_min_node_contribution(StakingPortions, reserved(i - 1), i - 1)
    /\ reserved(Len(portions)) <= StakingPortions

EachPortionFits(portions) == \A i \in 1..Len(portions) : portions[i] <= StakingPortions

\* The part of get_registration_hash that can refuse: each portion is compared
\* with what is left, so nothing wraps.
hashable_portions(portions) ==
    \A i \in 1..Len(portions) :
        portions[i] <= StakingPortions - Total(UpTo(portions, i - 1))

\* The tests of is_registration_tx on the portions of the named contributors.
acceptable_portions(portions) ==
    /\ portions # <<>>
    /\ check_service_node_portions(portions)
    /\ hashable_portions(portions)

\* What a registration reserves for each of the named contributors.
reserved_amounts(portions, staking_requirement) ==
    [i \in 1..Len(portions) |-> portions_to_amount(portions[i], staking_requirement)]

PayoutWithFeeTwice(amount, is_operator, portions_for_operator, staking_requirement) ==
    (((amount * StakingPortions) \div staking_requirement)
        + IF is_operator THEN portions_for_operator ELSE 0) % Word

\* The share of the block reward of a contributor, in portions; the operator's
\* own fee is added to the operator's entry (get_block_winner).
payout_portions(amount, is_operator, portions_for_operator, staking_requirement) ==
    LET remaining == StakingPortions - portions_for_operator IN
    (((amount * remaining) \div staking_requirement)
        + IF is_operator THEN portions_for_operator ELSE 0) % Word

get_locked_key_image_unlock_height(curr_height) == curr_height + LockBlocks \div 2
=============================================================================
