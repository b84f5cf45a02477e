------------------------ MODULE RegistrationPortions ------------------------
(***************************************************************************)
(* Every list of portions an operator can put in a registration, built one *)
(* contributor at a time, so that the arithmetic of StakingRules is looked *)
(* at on all of them, including those whose sum does not fit a word.       *)
(***************************************************************************)
EXTENDS StakingRules

CONSTANT Requirements   \* the staking requirements considered

ASSUME RequirementsAssumption == Requirements \subseteq 1..StakingPortions

VARIABLE portions       \* tx_extra_service_node_register::m_portions

vars == <<portions>>

Init == portions = <<>>

\* One more contributor with any uint64_t as its portion, up to
\* MAX_NUMBER_OF_CONTRIBUTORS: longer lists are refused for their length alone.
AddContributor ==
    /\ Len(portions) < 4
    /\ \E p \in Words : portions' = Append(portions, p)

Next == AddContributor

Spec == Init /\ [][Next]_vars

TypeOK == portions \in Seq(Words) /\ Len(portions) <= 4

\* What an accepted registration reserves never exceeds the staking
\* requirement, so that `staking_requirement - total_reserved' in
\* process_contribution_tx and get_min_node_contribution does not wrap.
ReservedFitsRequirement ==
    acceptable_portions(portions) =>
        \A sr \in Requirements :
            Total(UpTo(reserved_amounts(portions, sr), 4)) <= sr

\* In an accepted registration, contributors who pay exactly what is reserved
\* for them, in the order of the registration, are never turned away by the
\* minimum of process_contribution_tx, but for the atomic unit per contributor
\* that the conversion of portions to amounts rounds off.
ReservedContributorsAdmitted ==
    acceptable_portions(portions) =>
        \A sr \in Requirements :
            LET amounts  == reserved_amounts(portions, sr)
                reserved == Total(UpTo(amounts, 4))
            IN  \A i \in 1..Len(portions) :
                    amounts[i] + Len(portions) >=
                        get_min_node_contribution(sr, reserved, i - 1)

\* get_portions_to_make_amount returns the lowest number of portions worth the
\* amount (service_node_rules.h), its carry between the two words included.
LowestPortionsForAmount ==
    \A sr \in Requirements : \A amount \in 0..sr :
        LET x == get_portions_to_make_amount(sr, amount) IN
        /\ portions_to_amount(x, sr) >= amount
        /\ \A y \in 0..(x - 1) : portions_to_amount(y, sr) < amount

\* The payouts of a node funded with at most the requirement, fee of the
\* operator included, never add up to more than the whole reward.
PayoutsWithinReward ==
    acceptable_portions(portions) =>
        \A sr \in Requirements, fee \in 0..StakingPortions :
            LET amounts == reserved_amounts(portions, sr)
                payouts == [i \in 1..Len(portions) |->
                               payout_portions(amounts[i], i = 1, fee, sr)]
            IN  Total(UpTo(payouts, 4)) <= StakingPortions
=============================================================================
