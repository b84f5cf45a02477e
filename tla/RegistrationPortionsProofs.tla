--------------------- MODULE RegistrationPortionsProofs ---------------------
(***************************************************************************)
(* The properties of RegistrationPortions for every word size and every    *)
(* list of portions.  ReservedContributorsAdmitted is left to TLC.         *)
(***************************************************************************)
EXTENDS RegistrationPortions, StakingRulesProofs

\* Portions are lists of at most four words.
THEOREM PortionsTyped == Spec => []TypeOK
<1>1. Init => TypeOK
  BY DEF Init, TypeOK
<1>2. TypeOK /\ [Next]_vars => TypeOK'
  <2> SUFFICES ASSUME TypeOK, [Next]_vars PROVE TypeOK'
    OBVIOUS
  <2>1. CASE Next
    <3>1. PICK p \in Words : portions' = Append(portions, p)
      BY <2>1 DEF Next, AddContributor
    <3>2. Len(portions) < 4
      BY <2>1 DEF Next, AddContributor
    <3> QED BY <3>1, <3>2 DEF TypeOK
  <2>2. CASE UNCHANGED vars
    BY <2>2 DEF TypeOK, vars
  <2> QED BY <2>1, <2>2
<1> QED
  BY <1>1, <1>2, PTL DEF Spec

\* The portions of a state are natural numbers, and requirements are words.
LEMMA TypedValues ==
    TypeOK => /\ portions \in Seq(Nat)
              /\ Requirements \subseteq 1..UINT64_MAX
<1> SUFFICES ASSUME TypeOK PROVE portions \in Seq(Nat) /\ Requirements \subseteq 1..UINT64_MAX
  OBVIOUS
<1>1. portions \in Seq(Nat)
  BY WordsAreNumbers DEF TypeOK
<1>2. Requirements \subseteq 1..UINT64_MAX
  BY RulesAssumption, RequirementsAssumption DEF UINT64_MAX
<1> QED BY <1>1, <1>2

\* What an accepted registration reserves never exceeds the requirement.
THEOREM ReservedFits == Spec => []ReservedFitsRequirement
<1>1. TypeOK => ReservedFitsRequirement
  BY TypedValues, AcceptedReservationsFit DEF ReservedFitsRequirement
<1> QED
  BY <1>1, PortionsTyped, PTL

\* get_portions_to_make_amount returns the lowest portions worth an amount.
THEOREM LowestPortions == Spec => []LowestPortionsForAmount
<1>1. TypeOK => LowestPortionsForAmount
  <2> SUFFICES ASSUME TypeOK, NEW sr \in Requirements, NEW amount \in 0..sr
               PROVE  LET x == get_portions_to_make_amount(sr, amount) IN
                      /\ portions_to_amount(x, sr) >= amount
                      /\ \A y \in 0..(x - 1) : portions_to_amount(y, sr) < amount
    BY DEF LowestPortionsForAmount
  <2>1. sr \in 1..UINT64_MAX
    BY TypedValues
  <2>2. amount \in Nat /\ amount <= sr
    BY <2>1, RulesAssumption DEF UINT64_MAX
  <2> QED BY <2>1, <2>2, PortionsAreLowest
<1> QED
  BY <1>1, PortionsTyped, PTL

\* The payouts of a node never add up to more than the whole reward.
THEOREM PayoutsWithin == Spec => []PayoutsWithinReward
<1>1. TypeOK => PayoutsWithinReward
  <2> SUFFICES ASSUME TypeOK, acceptable_portions(portions),
                      NEW sr \in Requirements, NEW fee \in 0..StakingPortions
               PROVE  LET amounts == reserved_amounts(portions, sr)
                          payouts == [i \in 1..Len(portions) |->
                                         payout_portions(amounts[i], i = 1, fee, sr)]
                      IN  Total(UpTo(payouts, 4)) <= StakingPortions
    BY DEF PayoutsWithinReward
  <2>1. sr \in 1..UINT64_MAX /\ portions \in Seq(Nat)
    BY TypedValues
  <2>2. PICK amounts : /\ amounts = reserved_amounts(portions, sr)
                       /\ amounts \in Seq(Nat) /\ Len(amounts) = Len(portions)
                       /\ Total(UpTo(amounts, 4)) <= sr
    BY <2>1, AcceptedReservationsFit
  <2>3. Len(amounts) <= 4
    BY <2>2 DEF TypeOK
  <2>4. LET payouts == [i \in 1..Len(amounts) |-> payout_portions(amounts[i], i = 1, fee, sr)]
        IN  Total(UpTo(payouts, 4)) <= StakingPortions
    BY <2>1, <2>2, <2>3, PayoutsFit
  <2> QED BY <2>2, <2>4
<1> QED
  BY <1>1, PortionsTyped, PTL
=============================================================================
