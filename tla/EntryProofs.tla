---------------------------- MODULE EntryProofs ----------------------------
(***************************************************************************)
(* Proofs about one entry of ServiceNodeList, for every value of the       *)
(* constants: its type, and what every operation on it keeps (EntryOK).    *)
(***************************************************************************)
EXTENDS ServiceNodeList, StakingRulesProofs

(***************************************************************************)
(* Constants.                                                              *)
(***************************************************************************)

\* The constants the proofs use, one by one.
LEMMA Constants ==
    /\ Word \in Nat /\ StakingRequirement \in Nat \ {0} /\ StakingRequirement < Word
    /\ StakingRequirement \in 1..UINT64_MAX
    /\ LockBlocks \in Nat \ {0} /\ LockBlocks \div 2 \in Nat
    /\ MaxContributors \in Nat /\ MaxContributors <= 4
    /\ MaxBlockTxs \in Nat
    /\ PubKeys \subseteq Nat \ {0}
    /\ BlinkExpiryBuffer \in Nat /\ BlinkExpiryBuffer <= LockBlocks \div 2
<1>1. /\ Word \in Nat /\ StakingRequirement \in Nat \ {0} /\ StakingRequirement < Word
      /\ StakingRequirement \in 1..UINT64_MAX
  BY RulesAssumption, ListAssumption DEF UINT64_MAX
<1>2. LockBlocks \in Nat \ {0} /\ LockBlocks \div 2 \in Nat
  BY RulesAssumption
<1>3. MaxContributors \in Nat /\ MaxContributors <= 4
  BY RulesAssumption
<1>4. MaxBlockTxs \in Nat /\ PubKeys \subseteq Nat \ {0} /\ BlinkExpiryBuffer \in Nat
  BY ListAssumption, Zenon
<1> QED BY <1>1, <1>2, <1>3, <1>4, BlinkAssumption

(***************************************************************************)
(* Types.                                                                  *)
(***************************************************************************)

\* The operations on an entry keep it an entry.
LEMMA SendToBackType ==
    ASSUME NEW info \in Info, NEW h \in Nat
    PROVE  send_to_back(info, h) \in Info
BY Constants DEF Info, send_to_back, LAST_INDEX

LEMMA DecommissionedType ==
    ASSUME NEW info \in Info, height \in Nat
    PROVE  decommissioned(info) \in Info
<1>1. info.active_since_height \in Int /\ info.decommission_count \in Nat
  BY DEF Info
<1>2. -info.active_since_height \in Int /\ info.decommission_count + 1 \in Nat
  BY <1>1
<1> QED BY <1>2 DEF Info, decommissioned

LEMMA RecommissionedType ==
    ASSUME NEW info \in Info, height \in Nat
    PROVE  recommissioned(info) \in Info
<1>1. send_to_back(info, height) \in Info
  BY SendToBackType
<1> QED BY <1>1 DEF Info, recommissioned

LEMMA UnlockType ==
    ASSUME NEW info \in Info, height \in Nat
    PROVE  [info EXCEPT !.requested_unlock_height = get_locked_key_image_unlock_height(height)] \in Info
BY Constants DEF Info, get_locked_key_image_unlock_height

\* A new entry: its reservations fit the requirement (is_registration_tx).
LEMMA RegisteredEntry ==
    ASSUME NEW reg \in Registrations \cup {NoRegistration}, NEW address, NEW transferred,
           is_registration_tx(reg, address, transferred), NEW h \in Nat, NEW i \in Nat
    PROVE  LET info == registered_info(reg, h, i) IN
           /\ info \in Info
           /\ info.total_reserved <= StakingRequirement
           /\ \A a \in Addresses : /\ info.contributors[a].amount = 0
                                   /\ info.contributors[a].reserved <= info.total_reserved
<1> DEFINE amounts == reserved_amounts(reg.portions, StakingRequirement)
           total   == Total(UpTo(amounts, 4))
           of(a)   == IF \E k \in 1..Len(reg.addresses) : reg.addresses[k] = a
                      THEN amounts[CHOOSE k \in 1..Len(reg.addresses) : reg.addresses[k] = a]
                      ELSE 0
<1>1. acceptable_portions(reg.portions) /\ Len(reg.addresses) = Len(reg.portions)
  BY DEF is_registration_tx
<1>2. reg.portions \in Seq(Nat)
  <2>1. reg # NoRegistration
    BY <1>1 DEF NoRegistration, acceptable_portions
  <2>2. reg.portions \in Seq(Words)
    BY <2>1, ListAssumption
  <2> QED BY <2>2, WordsAreNumbers
<1>3. /\ amounts \in Seq(Nat) /\ Len(amounts) = Len(reg.portions)
      /\ total \in Nat /\ total <= StakingRequirement
      /\ \A k \in 1..Len(reg.portions) : amounts[k] <= total
  BY <1>1, <1>2, Constants, AcceptedReservationsFit
<1> HIDE DEF amounts, total
<1>4. ASSUME NEW a \in Addresses PROVE of(a) \in Nat /\ of(a) <= total
  <2>1. CASE \E k \in 1..Len(reg.addresses) : reg.addresses[k] = a
    <3>1. PICK k \in 1..Len(reg.addresses) :
             k = CHOOSE j \in 1..Len(reg.addresses) : reg.addresses[j] = a
      BY <2>1
    <3>2. k \in 1..Len(reg.portions) /\ k \in 1..Len(amounts)
      BY <1>1, <1>3
    <3>3. amounts[k] \in Nat /\ amounts[k] <= total
      BY <1>3, <3>2
    <3> QED BY <2>1, <3>1, <3>3
  <2>2. CASE ~(\E k \in 1..Len(reg.addresses) : reg.addresses[k] = a)
    BY <1>3, <2>2
  <2> QED BY <2>1, <2>2
<1> DEFINE info == registered_info(reg, h, i)
<1>5. info = [registration_height           |-> h,
              requested_unlock_height       |-> KEY_IMAGE_AWAITING_UNLOCK_HEIGHT,
              last_reward_block_height      |-> h,
              last_reward_transaction_index |-> i,
              decommission_count            |-> 0,
              active_since_height           |-> 0,
              last_decommission_height      |-> 0,
              last_ip_change_height         |-> h,
              contributors                  |-> [a \in Addresses |-> [amount |-> 0, reserved |-> of(a)]],
              locked                        |-> {},
              num_locked                    |-> 0,
              total_contributed             |-> 0,
              total_reserved                |-> total,
              staking_requirement           |-> StakingRequirement,
              in_swarm                      |-> FALSE]
  BY DEF registered_info, amounts, total
<1> HIDE DEF of, info
<1>6. [a \in Addresses |-> [amount |-> 0, reserved |-> of(a)]] \in [Addresses -> Contributor]
  BY <1>4 DEF Contributor
<1>7. info \in Info
  BY <1>3, <1>5, <1>6 DEF Info, KEY_IMAGE_AWAITING_UNLOCK_HEIGHT
<1>8. info.total_reserved = total
  BY <1>5
<1>9. ASSUME NEW a \in Addresses
      PROVE  info.contributors[a].amount = 0 /\ info.contributors[a].reserved = of(a)
  BY <1>5
<1> QED BY <1>3, <1>4, <1>7, <1>8, <1>9 DEF info
(***************************************************************************)
(* What holds of every single entry.                                       *)
(***************************************************************************)

Fits(info) ==
    /\ info.total_reserved <= info.staking_requirement
    /\ \A a \in Addresses : /\ info.contributors[a].amount <= info.contributors[a].reserved
                            /\ info.contributors[a].reserved <= info.total_reserved

ActiveSince(info, h) ==
    /\ (info.active_since_height # 0) = is_fully_funded(info)
    /\ info.active_since_height > 0 => info.active_since_height \in info.registration_height..h
    /\ is_decommissioned(info) =>
          /\ -info.active_since_height \in info.registration_height..info.last_decommission_height
          /\ info.last_decommission_height <= h
          /\ info.decommission_count > 0

EntryOK(info, h) ==
    /\ info \in Info
    /\ info.registration_height <= h
    /\ info.last_reward_block_height <= h
    /\ Fits(info)
    /\ ActiveSince(info, h)
    /\ info.requested_unlock_height # KEY_IMAGE_AWAITING_UNLOCK_HEIGHT =>
          h <= info.requested_unlock_height
    /\ info.in_swarm => is_active(info)

LEMMA FundedBoolean == \A info : is_fully_funded(info) \in BOOLEAN
BY DEF is_fully_funded

\* The part of a contribution the invariants are about.
Contributed(info, images, new) ==
    /\ new \in Info
    /\ Fits(new)
    /\ new.locked = info.locked \cup images
    /\ is_fully_funded(new) => new.active_since_height = height
    /\ ~is_fully_funded(new) => new.active_since_height = info.active_since_height
    /\ new.last_reward_block_height = height
    /\ new.last_reward_transaction_index = index
    /\ new.registration_height = info.registration_height
    /\ new.requested_unlock_height = info.requested_unlock_height
    /\ new.last_decommission_height = info.last_decommission_height
    /\ new.in_swarm = info.in_swarm

\* What a contribution does to an entry that fits.
LEMMA ContributeFits ==
    ASSUME NEW info \in Info, Fits(info), NEW address \in Addresses, NEW images \in SUBSET Nat,
           Cardinality(images) \in Nat,
           NEW transferred \in Nat, height \in Nat, index \in Nat
    PROVE  Contributed(info, images, contribute(info, address, images, transferred))
<1> DEFINE c        == info.contributors[address]
           counted  == counted_contribution(info, address, transferred)
           amount   == c.amount + counted
           grown    == IF amount > c.reserved THEN amount - c.reserved ELSE 0
           new      == contribute(info, address, images, transferred)
<1>1. PICK sr \in Nat, tr \in Nat, a \in Nat, r \in Nat, tc \in Nat :
         /\ sr = info.staking_requirement /\ tr = info.total_reserved
         /\ a = c.amount /\ r = c.reserved /\ tc = info.total_contributed
         /\ a <= r /\ r <= tr /\ tr <= sr /\ sr < Word /\ Word \in Nat
  <2>1. info.contributors[address] \in Contributor
    BY DEF Info
  <2>2. info.staking_requirement = StakingRequirement
    BY DEF Info
  <2>3. c.amount \in Nat /\ c.reserved \in Nat
    BY <2>1 DEF Contributor
  <2>4. info.total_reserved \in Nat /\ info.total_contributed \in Nat
    BY DEF Info
  <2> QED BY <2>2, <2>3, <2>4, Constants DEF Fits
<1>2. counted = IF transferred < r + (sr - tr) - a THEN transferred ELSE r + (sr - tr) - a
  <2>1. sr - tr \in Nat /\ sr - tr < Word
    BY <1>1
  <2>2. r + (sr - tr) \in Nat /\ r + (sr - tr) < Word
    BY <1>1
  <2>3. r + (sr - tr) - a \in Nat /\ r + (sr - tr) - a < Word
    BY <1>1
  <2>4. /\ (sr - tr) % Word = sr - tr
        /\ (r + (sr - tr)) % Word = r + (sr - tr)
        /\ (r + (sr - tr) - a) % Word = r + (sr - tr) - a
    BY <1>1, <2>1, <2>2, <2>3, FitsNoWrap
  <2> QED BY <1>1, <2>4 DEF counted_contribution
<1>3. PICK k \in Nat, g \in Nat :
         /\ k = counted /\ g = grown
         /\ a + k <= r + g /\ tr + g <= sr
  <2> HIDE DEF counted
  <2>1. counted \in Nat /\ a + counted <= r + (sr - tr)
    BY <1>1, <1>2
  <2>2. grown = IF a + counted > r THEN a + counted - r ELSE 0
    <3>1. c.amount = a /\ c.reserved = r
      BY <1>1
    <3> HIDE DEF c
    <3> QED BY <2>1, <3>1
  <2> HIDE DEF grown
  <2>3. grown \in Nat /\ a + counted <= r + grown /\ tr + grown <= sr
    BY <1>1, <2>1, <2>2
  <2> QED BY <2>1, <2>3
<1>4. PICK cs \in [Addresses -> Contributor], since \in Int :
         /\ cs = [info.contributors EXCEPT ![address] = [amount |-> a + k, reserved |-> r + g]]
         /\ since = IF tc + k >= sr THEN height ELSE info.active_since_height
  <2>1. [info.contributors EXCEPT ![address] = [amount |-> a + k, reserved |-> r + g]]
            \in [Addresses -> Contributor]
    BY <1>1, <1>3 DEF Info, Contributor
  <2>2. (IF tc + k >= sr THEN height ELSE info.active_since_height) \in Int
    BY DEF Info
  <2> QED BY <2>1, <2>2
<1>5. new = [info EXCEPT !.last_reward_block_height = height,
                         !.last_reward_transaction_index = index,
                         !.contributors = cs,
                         !.total_contributed = tc + k,
                         !.total_reserved = tr + g,
                         !.locked = info.locked \cup images,
                         !.num_locked = info.num_locked + Cardinality(images),
                         !.active_since_height = since]
  BY <1>1, <1>3, <1>4 DEF contribute, place_in_queue, funded_with, Info
<1> HIDE DEF new
<1>6. /\ tc + k \in Nat /\ tr + g \in Nat /\ info.locked \cup images \in SUBSET Nat
      /\ info.num_locked + Cardinality(images) \in Nat
  <2>1. tc + k \in Nat /\ tr + g \in Nat
    OBVIOUS
  <2>2. info.locked \cup images \in SUBSET Nat
    BY DEF Info
  <2>3. info.num_locked + Cardinality(images) \in Nat
    BY DEF Info
  <2> QED BY <2>1, <2>2, <2>3
<1>7. new \in Info
  BY <1>5, <1>6 DEF Info
<1>8. /\ new.locked = info.locked \cup images /\ new.active_since_height = since
      /\ new.contributors = cs /\ new.total_contributed = tc + k /\ new.total_reserved = tr + g
      /\ new.staking_requirement = info.staking_requirement
      /\ new.last_reward_block_height = height
      /\ new.last_reward_transaction_index = index
      /\ new.registration_height = info.registration_height
      /\ new.requested_unlock_height = info.requested_unlock_height
      /\ new.last_decommission_height = info.last_decommission_height
      /\ new.in_swarm = info.in_swarm
  BY <1>5 DEF Info
<1>9. Fits(new)
  <2>1. new.total_reserved <= new.staking_requirement
    BY <1>1, <1>3, <1>8
  <2>2. ASSUME NEW b \in Addresses
        PROVE  cs[b].amount <= cs[b].reserved /\ cs[b].reserved <= tr + g
    <3>1. CASE b = address
      <4>1. cs[b] = [amount |-> a + k, reserved |-> r + g]
        BY <1>4, <3>1 DEF Info
      <4> QED BY <1>1, <1>3, <4>1
    <3>2. CASE b # address
      <4>1. cs[b] = info.contributors[b]
        BY <1>4, <3>2 DEF Info
      <4>2. cs[b].amount <= cs[b].reserved /\ cs[b].reserved <= tr
        BY <1>1, <4>1 DEF Fits
      <4>3. cs[b].reserved \in Nat
        BY DEF Contributor
      <4> QED BY <4>2, <4>3
    <3> QED BY <3>1, <3>2
  <2> QED BY <1>8, <2>1, <2>2 DEF Fits
<1>10. /\ is_fully_funded(new) => since = height
       /\ ~is_fully_funded(new) => since = info.active_since_height
  BY <1>1, <1>4, <1>8 DEF is_fully_funded
<1> QED BY <1>7, <1>8, <1>9, <1>10 DEF Contributed, new
\* Each operation keeps an entry in order: registration,
LEMMA RegisteredOK ==
    ASSUME NEW reg \in Registrations \cup {NoRegistration}, NEW address, NEW transferred,
           is_registration_tx(reg, address, transferred), height \in Nat, index \in Nat
    PROVE  LET info == registered_info(reg, height, index) IN
           /\ EntryOK(info, height)
           /\ ~is_fully_funded(info)
           /\ info.locked = {}
           /\ info.requested_unlock_height = KEY_IMAGE_AWAITING_UNLOCK_HEIGHT
           /\ info.registration_height = height
           /\ info.active_since_height = 0
<1>1. PICK info : /\ info = registered_info(reg, height, index)
                  /\ info \in Info
                  /\ info.total_reserved <= StakingRequirement
                  /\ \A a \in Addresses : /\ info.contributors[a].amount = 0
                                          /\ info.contributors[a].reserved <= info.total_reserved
  BY RegisteredEntry
<1>2. /\ info.registration_height = height /\ info.last_reward_block_height = height
      /\ info.active_since_height = 0 /\ info.in_swarm = FALSE /\ info.locked = {}
      /\ info.requested_unlock_height = KEY_IMAGE_AWAITING_UNLOCK_HEIGHT
      /\ info.total_contributed = 0 /\ info.staking_requirement = StakingRequirement
  BY <1>1 DEF registered_info
<1>3. Fits(info)
  <2>1. \A a \in Addresses : info.contributors[a].reserved \in Nat
    BY <1>1 DEF Info, Contributor
  <2> QED BY <1>1, <1>2, <2>1 DEF Fits
<1>4. ~is_fully_funded(info)
  BY <1>2, Constants DEF is_fully_funded
<1>5. ActiveSince(info, height)
  BY <1>2, <1>4, FundedBoolean DEF ActiveSince, is_decommissioned
<1> QED BY <1>1, <1>2, <1>3, <1>4, <1>5 DEF EntryOK

\* contribution,
LEMMA ContributeOK ==
    ASSUME height \in Nat \ {0}, NEW info \in Info, EntryOK(info, height),
           ~is_fully_funded(info), NEW stakes, NEW new, Contributed(info, stakes, new)
    PROVE  EntryOK(new, height)
<1>1. /\ info.active_since_height = 0 /\ ~info.in_swarm
      /\ info.registration_height \in Nat /\ info.registration_height <= height
      /\ info.requested_unlock_height # KEY_IMAGE_AWAITING_UNLOCK_HEIGHT =>
            height <= info.requested_unlock_height
  BY DEF EntryOK, ActiveSince, is_active, Info
<1>2. /\ new \in Info /\ Fits(new)
      /\ is_fully_funded(new) => new.active_since_height = height
      /\ ~is_fully_funded(new) => new.active_since_height = info.active_since_height
      /\ new.last_reward_block_height = height
      /\ new.registration_height = info.registration_height
      /\ new.requested_unlock_height = info.requested_unlock_height
      /\ new.in_swarm = info.in_swarm
  BY DEF Contributed
<1>3. ActiveSince(new, height)
  <2>1. CASE is_fully_funded(new)
    <3>1. new.active_since_height = height
      BY <1>2, <2>1
    <3>2. height # 0 /\ ~(height < 0) /\ height \in new.registration_height..height
      BY <1>1, <1>2
    <3> QED BY <2>1, <3>1, <3>2, FundedBoolean DEF ActiveSince, is_decommissioned
  <2>2. CASE ~is_fully_funded(new)
    <3>1. new.active_since_height = 0
      BY <1>1, <1>2, <2>2
    <3> QED BY <2>2, <3>1, FundedBoolean DEF ActiveSince, is_decommissioned
  <2> QED BY <2>1, <2>2
<1> QED BY <1>1, <1>2, <1>3 DEF EntryOK

\* decommissioning,
LEMMA DecommissionOK ==
    ASSUME height \in Nat \ {0}, NEW info, EntryOK(info, height), ~is_decommissioned(info)
    PROVE  EntryOK(decommissioned(info), height)
<1>1. info \in Info
  BY DEF EntryOK
<1>2. PICK new : new = decommissioned(info)
  OBVIOUS
<1>3. new \in Info
  BY <1>1, <1>2, DecommissionedType
<1>4. /\ new.registration_height = info.registration_height
      /\ new.last_reward_block_height = info.last_reward_block_height
      /\ new.requested_unlock_height = info.requested_unlock_height
      /\ new.total_contributed = info.total_contributed
      /\ new.total_reserved = info.total_reserved
      /\ new.staking_requirement = info.staking_requirement
      /\ new.contributors = info.contributors
      /\ new.last_decommission_height = height
      /\ new.in_swarm = FALSE
  BY <1>1, <1>2 DEF decommissioned, Info
<1>5. new.active_since_height = -info.active_since_height
  BY <1>1, <1>2 DEF decommissioned, Info
<1>6. new.decommission_count = info.decommission_count + 1
  BY <1>1, <1>2 DEF decommissioned, Info
<1>7. PICK x \in Int, r \in Nat, d \in Nat :
         /\ x = info.active_since_height /\ r = info.registration_height
         /\ d = info.decommission_count
  BY <1>1 DEF Info
<1>8. is_fully_funded(new) = is_fully_funded(info)
  BY <1>4 DEF is_fully_funded
<1>9. x >= 0 /\ (x # 0) = is_fully_funded(info) /\ (x > 0 => x \in r..height)
  BY <1>7 DEF EntryOK, ActiveSince, is_decommissioned
<1>10. ActiveSince(new, height)
  <2>1. (-x # 0) = (x # 0)
    OBVIOUS
  <2>2. -x < 0 => x \in r..height
    BY <1>9
  <2>3. ~(-x > 0)
    BY <1>9
  <2>4. d + 1 > 0 /\ -(-x) = x
    OBVIOUS
  <2> QED BY <1>4, <1>5, <1>6, <1>7, <1>8, <1>9, <2>1, <2>2, <2>3, <2>4
          DEF ActiveSince, is_decommissioned
<1>11. Fits(new)
  BY <1>4 DEF EntryOK, Fits
<1> QED BY <1>2, <1>3, <1>4, <1>10, <1>11 DEF EntryOK

\* recommissioning,
LEMMA RecommissionOK ==
    ASSUME height \in Nat \ {0}, NEW info, EntryOK(info, height), is_decommissioned(info)
    PROVE  EntryOK(recommissioned(info), height)
<1>1. info \in Info
  BY DEF EntryOK
<1>2. PICK new : new = recommissioned(info)
  OBVIOUS
<1>3. new \in Info
  BY <1>1, <1>2, RecommissionedType
<1>4. /\ new.registration_height = info.registration_height
      /\ new.last_reward_block_height = height
      /\ new.requested_unlock_height = info.requested_unlock_height
      /\ new.total_contributed = info.total_contributed
      /\ new.total_reserved = info.total_reserved
      /\ new.staking_requirement = info.staking_requirement
      /\ new.contributors = info.contributors
      /\ new.active_since_height = height
      /\ new.in_swarm = info.in_swarm
  BY <1>1, <1>2 DEF recommissioned, send_to_back, Info
<1>5. is_fully_funded(new) = is_fully_funded(info)
  BY <1>4 DEF is_fully_funded
<1>6. /\ is_fully_funded(info) /\ ~info.in_swarm
      /\ info.registration_height \in Nat /\ info.registration_height <= height
  <2>1. info.active_since_height \in Int /\ info.registration_height \in Nat
    BY <1>1 DEF Info
  <2>2. info.active_since_height < 0
    BY DEF is_decommissioned
  <2>3. is_fully_funded(info)
    BY <2>1, <2>2, FundedBoolean DEF EntryOK, ActiveSince
  <2> QED BY <2>1, <2>3 DEF EntryOK, is_active
<1>7. ActiveSince(new, height)
  <2>1. height # 0 /\ ~(height < 0) /\ height \in info.registration_height..height
    BY <1>6
  <2> QED BY <1>4, <1>5, <1>6, <2>1, FundedBoolean DEF ActiveSince, is_decommissioned
<1>8. Fits(new)
  BY <1>4 DEF EntryOK, Fits
<1> QED BY <1>2, <1>3, <1>4, <1>6, <1>7, <1>8 DEF EntryOK
\* a change of the fields that concern neither the stakes nor the state: being
\* sent to the back of the queue, penalised for a change of address, granted an
\* unlock, given a swarm, or left as it is.
LEMMA OtherChangesOK ==
    ASSUME NEW h \in Nat, NEW h2 \in Nat, NEW info, NEW new \in Info, EntryOK(info, h), h <= h2,
           new.registration_height = info.registration_height,
           new.active_since_height = info.active_since_height,
           new.last_decommission_height = info.last_decommission_height,
           new.decommission_count = info.decommission_count,
           new.contributors = info.contributors,
           new.total_contributed = info.total_contributed,
           new.total_reserved = info.total_reserved,
           new.last_reward_block_height <= h2,
           new.requested_unlock_height # KEY_IMAGE_AWAITING_UNLOCK_HEIGHT =>
               h2 <= new.requested_unlock_height,
           new.in_swarm => is_active(new)
    PROVE  EntryOK(new, h2)
<1>1. info \in Info /\ new.staking_requirement = info.staking_requirement
  BY DEF EntryOK, Info
<1>2. new.registration_height <= h2
  <2>1. info.registration_height \in Nat /\ info.registration_height <= h
    BY <1>1 DEF EntryOK, Info
  <2> QED BY <2>1
<1>3. Fits(new)
  BY <1>1 DEF EntryOK, Fits
<1>4. is_fully_funded(new) = is_fully_funded(info)
  BY <1>1 DEF is_fully_funded
<1>5. ActiveSince(new, h2)
  <2>1. PICK x \in Int, r \in Nat, d \in Nat :
           /\ x = info.active_since_height /\ r = info.registration_height
           /\ d = info.last_decommission_height
    BY <1>1 DEF Info
  <2>2. /\ (x # 0) = is_fully_funded(info)
        /\ x > 0 => x \in r..h
        /\ x < 0 => -x \in r..d /\ d <= h /\ info.decommission_count > 0
    BY <2>1, SMTT(20) DEF EntryOK, ActiveSince, is_decommissioned
  <2>3. x > 0 => x \in r..h2
    BY <2>2
  <2>4. x < 0 => -x \in r..d /\ d <= h2 /\ info.decommission_count > 0
    BY <2>2
  <2> QED BY <1>4, <2>1, <2>2, <2>3, <2>4 DEF ActiveSince, is_decommissioned
<1> QED BY <1>2, <1>3, <1>5 DEF EntryOK
=============================================================================
