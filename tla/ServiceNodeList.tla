-------------------------- MODULE ServiceNodeList --------------------------
(***************************************************************************)
(* service_node_list::state_t: the registered service nodes, their stakes, *)
(* the reward queue, the blacklist of stakes of deregistered nodes and the *)
(* quorums drawn for every height.  The state is advanced by one block at  *)
(* a time (update_from_block), transaction by transaction; every one of    *)
(* those steps is an action here, so that the transactions of a block are  *)
(* checked against the list as it was before the block (check_tx_inputs)   *)
(* and applied to the list as the earlier ones of the block left it.       *)
(*                                                                         *)
(* The rules are those in force since hard fork 16.  A key image has the   *)
(* number of the first stake output that has it.  Stakers choose the       *)
(* secret keys of their transactions: one who uses a key again gets the    *)
(* image of an earlier output again, and nothing in the code refuses it.   *)
(* A quorum is drawn by a shuffle seeded with the block hash: any draw is  *)
(* possible.  Signatures are valid or the transaction is not there; the    *)
(* validators of a quorum vote as they like.  As in StakingRules,          *)
(* operators in CamelCase before a definition in the code's spelling are   *)
(* that definition with a mistake.                                         *)
(***************************************************************************)
EXTENDS StakingRules, FiniteSetsExt

CONSTANTS
    PubKeys,                \* service node keys, numbers as they are compared
    Addresses,              \* wallet addresses of contributors
    StakingRequirement,     \* get_staking_requirement
    Registrations,          \* tx_extra_service_node_register contents in use
    Transfers,              \* what the outputs of a stake transaction may add up to
    StateChangeTxLifetime,  \* STATE_CHANGE_TX_LIFETIME_IN_BLOCKS
    ShortTermHistory,       \* DEFAULT_SHORT_TERM_STATE_HISTORY
    StateChangeQuorumSize,  \* STATE_CHANGE_QUORUM_SIZE
    StateChangeMinVotes,    \* STATE_CHANGE_MIN_VOTES_TO_CHANGE_STATE
    MinNodesToTest,         \* STATE_CHANGE_MIN_NODES_TO_TEST
    NthToTest,              \* STATE_CHANGE_NTH_OF_THE_NETWORK_TO_TEST
    CheckpointInterval,     \* CHECKPOINT_INTERVAL
    ReorgSafetyBuffer,      \* REORG_SAFETY_BUFFER_BLOCKS_POST_HF12
    CheckpointQuorumSize,   \* CHECKPOINT_QUORUM_SIZE
    BlinkQuorumInterval,    \* BLINK_QUORUM_INTERVAL
    BlinkExpiryBuffer,      \* BLINK_EXPIRY_BUFFER
    BlinkSubquorumSize,     \* BLINK_SUBQUORUM_SIZE
    BlinkMinVotes,          \* BLINK_MIN_VOTES
    ProofInterval,          \* UPTIME_PROOF_FREQUENCY_IN_SECONDS / 2, in blocks
    MaxHeight,              \* bound: the last block of the chain
    MaxBlockTxs,            \* bound: transactions per block that concern the list
    MaxStakeOutputs,        \* bound: stake outputs on the whole chain
    MaxTxOutputs,           \* bound: stake outputs of one transaction
    RepeatedImages          \* bound: key images that stakers use more than once

NoRegistration == [addresses |-> <<>>, portions |-> <<>>]

ASSUME ListAssumption ==
    /\ PubKeys \subseteq Nat \ {0}
    /\ StakingRequirement \in 1..(Word - 1)
    /\ Registrations \subseteq [addresses : Seq(Addresses), portions : Seq(Words)]
    /\ Transfers \subseteq Words
    /\ {StateChangeTxLifetime, ShortTermHistory, CheckpointInterval, BlinkQuorumInterval,
        NthToTest} \subseteq Nat \ {0}
    /\ {StateChangeQuorumSize, StateChangeMinVotes, MinNodesToTest, ReorgSafetyBuffer,
        CheckpointQuorumSize, BlinkExpiryBuffer, BlinkSubquorumSize, BlinkMinVotes,
        ProofInterval} \subseteq Nat
    /\ {MaxHeight, MaxBlockTxs, MaxStakeOutputs, MaxTxOutputs} \subseteq Nat
    /\ RepeatedImages \subseteq Nat

\* A blink quorum is drawn from nodes without an unlock scheduled before the
\* buffer has passed; one requested later takes half the lock time.  This holds of
\* the constants of the main net and the test nets, not of those of FAKECHAIN.
ASSUME BlinkAssumption == BlinkExpiryBuffer <= LockBlocks \div 2

ASSUME HistoryAssumption == StateChangeTxLifetime <= ShortTermHistory

VARIABLES
    height,             \* state_t::height, the block applied or being applied
    infos,              \* service_nodes_infos, a function on the registered keys
    blacklist,          \* key_image_blacklist
    quorums,            \* the quorums of the states kept in the history, by height
    proofs,             \* service_node_list::proofs, times counted in blocks
    outputs,            \* stake outputs on the chain so far (key images in 1..outputs)
    in_block,           \* update_from_block is running
    before,             \* the list the transactions of the block were checked against
    index,              \* position in the block
    need_swarm_update

vars == <<height, infos, blacklist, quorums, proofs, outputs,
          in_block, before, index, need_swarm_update>>

\* The index given to a node sent to the back of the queue (UINT32_MAX): no
\* transaction of a block has it.
LAST_INDEX == MaxBlockTxs

KEY_IMAGE_AWAITING_UNLOCK_HEIGHT == 0

NoKey == 0

EmptyMap == [x \in {} |-> x]

NoQuorum == [drawn |-> FALSE, validators |-> {}]

Drawn(vs) == [drawn |-> TRUE, validators |-> vs]

NewStates == {"deregister", "decommission", "recommission", "ip_change_penalty"}

-----------------------------------------------------------------------------
(***************************************************************************)
(* service_node_info                                                       *)
(***************************************************************************)

is_fully_funded(info) == info.total_contributed >= info.staking_requirement

is_decommissioned(info) == info.active_since_height < 0

is_active(info) == is_fully_funded(info) /\ ~is_decommissioned(info)

active_service_nodes(list) == {n \in DOMAIN list : is_active(list[n])}

decommissioned_service_nodes(list) ==
    {n \in DOMAIN list : is_decommissioned(list[n]) /\ is_fully_funded(list[n])}

can_be_voted_on(info, h) ==
    /\ is_fully_funded(info) /\ info.registration_height < h
    /\ is_decommissioned(info) => info.last_decommission_height < h
    /\ is_active(info) => info.active_since_height < h

can_transition_to_state(info, h, state) ==
    /\ can_be_voted_on(info, h)
    /\ state = "deregister" => h > info.registration_height
    /\ state = "ip_change_penalty" => h > info.last_ip_change_height
    /\ IF is_decommissioned(info)
       THEN state \notin {"decommission", "ip_change_penalty"}
       ELSE state # "recommission"

-----------------------------------------------------------------------------
(***************************************************************************)
(* The reward queue                                                        *)
(***************************************************************************)

\* m has been waiting for its reward for longer than n.
waits_longer(list, m, n) ==
    LET hm == list[m].last_reward_block_height
        hn == list[n].last_reward_block_height
        tm == list[m].last_reward_transaction_index
        tn == list[n].last_reward_transaction_index
    IN  hm < hn \/ (hm = hn /\ (tm < tn \/ (tm = tn /\ m < n)))

get_block_winner(list) ==
    LET active == active_service_nodes(list) IN
    IF active = {}
    THEN NoKey
    ELSE CHOOSE n \in active : \A m \in active \ {n} : waits_longer(list, n, m)

\* The node goes to the back of the queue, behind everything of block h.
send_to_back(info, h) ==
    [info EXCEPT !.last_reward_block_height = h, !.last_reward_transaction_index = LAST_INDEX]

-----------------------------------------------------------------------------
(***************************************************************************)
(* Stake transactions                                                      *)
(***************************************************************************)

\* The key images the stake outputs of a transaction can have: new ones and ones
\* seen before, but no two the same, as the output index is part of the key.
stake_images ==
    {images \in UNION {{again \cup ((outputs + 1)..(outputs + new)) :
                           again \in SUBSET (RepeatedImages \cap 1..outputs)} :
                        new \in 0..MaxTxOutputs} :
        Cardinality(images) <= MaxTxOutputs}

\* What the stake outputs of a transaction can amount to: each counts at least
\* one atomic unit, and outputs that are no stakes of the sender count nothing.
get_contribution(images, transferred) ==
    (images = {}) = (transferred = 0) /\ Cardinality(images) <= transferred

is_registration_tx(reg, address, transferred) ==
    LET named == {reg.addresses[i] : i \in 1..Len(reg.addresses)} IN
    /\ Len(reg.addresses) = Len(reg.portions)
    /\ acceptable_portions(reg.portions)
    /\ transferred >= get_min_node_contribution(StakingRequirement, 0, 0)
    /\ Len(reg.addresses) + (IF address \in named THEN 0 ELSE 1) <= MaxContributors
    /\ \A i, j \in 1..Len(reg.addresses) : i # j => reg.addresses[i] # reg.addresses[j]

registered_info(reg, h, i) ==
    LET reserved == reserved_amounts(reg.portions, StakingRequirement)
        of(a)    == IF \E k \in 1..Len(reg.addresses) : reg.addresses[k] = a
                    THEN reserved[CHOOSE k \in 1..Len(reg.addresses) : reg.addresses[k] = a]
                    ELSE 0
    IN [registration_height           |-> h,
        requested_unlock_height       |-> KEY_IMAGE_AWAITING_UNLOCK_HEIGHT,
        last_reward_block_height      |-> h,
        last_reward_transaction_index |-> i,
        decommission_count            |-> 0,
        active_since_height           |-> 0,
        last_decommission_height      |-> 0,
        last_ip_change_height         |-> h,
        contributors                  |-> [a \in Addresses |-> [amount |-> 0, reserved |-> of(a)]],
        locked                        |-> {},
        num_locked                    |-> 0,
        total_contributed             |-> 0,
        total_reserved                |-> Total(UpTo(reserved, 4)),
        staking_requirement           |-> StakingRequirement,
        in_swarm                      |-> FALSE]

\* A key registered already keeps its entry.
process_registration_tx(list, n, reg, address, transferred) ==
    IF is_registration_tx(reg, address, transferred) /\ n \notin DOMAIN list
    THEN [m \in DOMAIN list \cup {n} |-> IF m = n THEN registered_info(reg, height, index) ELSE list[m]]
    ELSE list

\* The conditions of process_contribution_tx.
can_contribute(info, images, transferred) ==
    /\ ~is_fully_funded(info)
    /\ info.num_locked + Cardinality(images) <= MaxContributors
    /\ transferred >= get_min_node_contribution(info.staking_requirement, info.total_reserved,
                                                info.num_locked)

ContributionToOpenRequirement(info, address, transferred) ==
    LET room == info.staking_requirement - info.total_contributed
    IN  IF transferred < room THEN transferred ELSE room

\* What does not fit the reservation of the contributor and the open part is
\* locked all the same, but not counted.
counted_contribution(info, address, transferred) ==
    LET can_increase_reserved_by == (info.staking_requirement - info.total_reserved) % Word
        max_amount == (info.contributors[address].reserved + can_increase_reserved_by) % Word
        room       == (max_amount - info.contributors[address].amount) % Word
    IN  IF transferred < room THEN transferred ELSE room

FundedAlready(info, counted) == info.total_contributed >= info.staking_requirement

funded_with(info, counted) == info.total_contributed + counted >= info.staking_requirement

\* A contribution sends the node to the back, behind the earlier ones of the block.
place_in_queue(info) ==
    [info EXCEPT !.last_reward_block_height = height, !.last_reward_transaction_index = index]

ContributeAllToTotal(info, address, images, transferred) ==
    LET counted  == counted_contribution(info, address, transferred)
        reserved == info.contributors[address].reserved
        amount   == info.contributors[address].amount + counted
        grown    == IF amount > reserved THEN amount - reserved ELSE 0
    IN [place_in_queue(info) EXCEPT
          !.contributors[address] = [amount |-> amount, reserved |-> reserved + grown],
          !.total_contributed = @ + transferred,
          !.total_reserved = @ + grown,
          !.locked = @ \cup images,
          !.num_locked = @ + Cardinality(images),
          !.active_since_height = IF funded_with(info, counted) THEN height ELSE @]

contribute(info, address, images, transferred) ==
    LET counted  == counted_contribution(info, address, transferred)
        reserved == info.contributors[address].reserved
        amount   == info.contributors[address].amount + counted
        grown    == IF amount > reserved THEN amount - reserved ELSE 0
    IN [place_in_queue(info) EXCEPT
          !.contributors[address] = [amount |-> amount, reserved |-> reserved + grown],
          !.total_contributed = @ + counted,
          !.total_reserved = @ + grown,
          !.locked = @ \cup images,
          !.num_locked = @ + Cardinality(images),
          !.active_since_height = IF funded_with(info, counted) THEN height ELSE @]

-----------------------------------------------------------------------------
(***************************************************************************)
(* Quorums                                                                 *)
(***************************************************************************)

\* Validators are active; the workers they test may also be decommissioned.
obligations_draws(list) ==
    LET active == active_service_nodes(list)
        all    == active \cup decommissioned_service_nodes(list)
        num_validators == IF Cardinality(active) < StateChangeQuorumSize
                          THEN Cardinality(active) ELSE StateChangeQuorumSize
        remaining   == Cardinality(all) - num_validators
        wanted      == IF remaining \div NthToTest > MinNodesToTest
                       THEN remaining \div NthToTest ELSE MinNodesToTest
        num_workers == IF remaining < wanted THEN remaining ELSE wanted
    IN  UNION {{[validators |-> v, workers |-> w] : w \in kSubset(num_workers, all \ v)} :
                   v \in kSubset(num_validators, active)}

checkpointing_draws(list) ==
    LET active == active_service_nodes(list) IN
    IF (height + ReorgSafetyBuffer) % CheckpointInterval # 0 THEN {NoQuorum}
    ELSE IF Cardinality(active) < CheckpointQuorumSize THEN {Drawn({})}
    ELSE {Drawn(v) : v \in kSubset(CheckpointQuorumSize, active)}

BlinkDrawsOfAll(list) ==
    LET active == active_service_nodes(list)
        size   == IF Cardinality(active) < BlinkSubquorumSize
                  THEN Cardinality(active) ELSE BlinkSubquorumSize
    IN  IF height % BlinkQuorumInterval # 0 THEN {NoQuorum}
        ELSE IF Cardinality(active) < BlinkMinVotes THEN {Drawn({})}
        ELSE {Drawn(v) : v \in kSubset(size, active)}

\* Nodes about to unlock are left out of blink quorums.
blink_draws(list) ==
    LET staying == {n \in active_service_nodes(list) :
                       LET ruh == list[n].requested_unlock_height IN
                       ruh = KEY_IMAGE_AWAITING_UNLOCK_HEIGHT \/ ruh > height + BlinkExpiryBuffer}
        size == IF Cardinality(staying) < BlinkSubquorumSize
                THEN Cardinality(staying) ELSE BlinkSubquorumSize
    IN  IF height % BlinkQuorumInterval # 0 THEN {NoQuorum}
        ELSE IF Cardinality(staying) < BlinkMinVotes THEN {Drawn({})}
        ELSE {Drawn(v) : v \in kSubset(size, staying)}

-----------------------------------------------------------------------------
(***************************************************************************)
(* The block: process_block and update_from_block                          *)
(***************************************************************************)

ExpiredOneBlockLate(list, h) ==
    {n \in DOMAIN list :
        /\ list[n].requested_unlock_height # KEY_IMAGE_AWAITING_UNLOCK_HEIGHT
        /\ h > list[n].requested_unlock_height + 1}

get_expired_nodes(list, h) ==
    {n \in DOMAIN list :
        /\ list[n].requested_unlock_height # KEY_IMAGE_AWAITING_UNLOCK_HEIGHT
        /\ h > list[n].requested_unlock_height}

short_term_state_cull_height(h) == IF h < ShortTermHistory THEN 0 ELSE h - ShortTermHistory

\* Everything before the transactions.  The miner transaction names the winner
\* of the list before the block (validate_miner_tx); a winner that expires in
\* the block is paid, but there is no entry left to send to the back.
BlockBegin ==
    /\ ~in_block /\ height < MaxHeight
    /\ LET h       == height + 1
           winner  == get_block_winner(infos)
           expired == get_expired_nodes(infos, h)
       IN /\ height' = h
          /\ blacklist' = {e \in blacklist : h < e.unlock_height}
          /\ infos' = [n \in DOMAIN infos \ expired |->
                         IF n = winner THEN send_to_back(infos[n], h) ELSE infos[n]]
          /\ need_swarm_update' = \E n \in expired : is_active(infos[n])
          /\ quorums' = [q \in {q \in DOMAIN quorums : q > short_term_state_cull_height(h)} |->
                           quorums[q]]
    /\ before' = infos
    /\ in_block' = TRUE
    /\ index' = 0
    /\ UNCHANGED <<proofs, outputs>>

NextTx == in_block /\ index < MaxBlockTxs /\ index' = index + 1

NewProof == [timestamp |-> 0, effective_timestamp |-> 0]

\* A stake transaction is tried as a registration and then, whatever came of
\* that, as a contribution to the same key.
StakeTx(n, reg, address, images, transferred) ==
    /\ NextTx
    /\ get_contribution(images, transferred)
    /\ outputs + Cardinality(images) <= MaxStakeOutputs
    /\ LET list       == process_registration_tx(infos, n, reg, address, transferred)
           is_new     == n \in DOMAIN list /\ n \notin DOMAIN infos
           accepted   == n \in DOMAIN list /\ can_contribute(list[n], images, transferred)
       IN /\ infos' = IF accepted
                      THEN [list EXCEPT ![n] = contribute(list[n], address, images, transferred)]
                      ELSE list
          /\ need_swarm_update' = \/ need_swarm_update
                                  \/ accepted /\ is_fully_funded(infos'[n])
          /\ proofs' = IF is_new THEN [proofs EXCEPT ![n] = NewProof] ELSE proofs
    /\ outputs' = outputs + Cardinality(images)
    /\ UNCHANGED <<height, blacklist, quorums, in_block, before>>

\* verify_tx_state_change with the votes of the validators of the quorum.
verify_tx_state_change(vote_height, n, latest_height) ==
    /\ vote_height \in DOMAIN quorums
    /\ vote_height < latest_height
    /\ latest_height < vote_height + StateChangeTxLifetime
    /\ n \in quorums[vote_height].obligations.workers
    /\ Cardinality(quorums[vote_height].obligations.validators) >= StateChangeMinVotes

\* What check_tx_inputs asks of a state change before the block is accepted.
StateChangeTx(n, vote_height, state) ==
    /\ NextTx
    /\ verify_tx_state_change(vote_height, n, height)
    /\ n \in DOMAIN before
    /\ can_transition_to_state(before[n], vote_height, state)
    /\ UNCHANGED <<height, quorums, outputs, in_block, before>>

\* The node has left the list since the block began: nothing to change.
StateChangeOfUnregistered(n, vote_height, state) ==
    /\ StateChangeTx(n, vote_height, state)
    /\ n \notin DOMAIN infos
    /\ UNCHANGED <<infos, blacklist, proofs, need_swarm_update>>

BlacklistedForHalf(info) ==
    {[key_image |-> k, unlock_height |-> height + LockBlocks \div 2] : k \in info.locked}

\* The stakes of a deregistered node stay locked.
blacklisted_stakes(info) ==
    {[key_image |-> k, unlock_height |-> height + LockBlocks] : k \in info.locked}

Deregister(n, vote_height) ==
    /\ StateChangeTx(n, vote_height, "deregister")
    /\ n \in DOMAIN infos
    /\ blacklist' = blacklist \cup blacklisted_stakes(infos[n])
    /\ infos' = [m \in DOMAIN infos \ {n} |-> infos[m]]
    /\ need_swarm_update' = TRUE
    /\ UNCHANGED proofs

DecommissionedUnrecorded(info) ==
    [info EXCEPT !.active_since_height = -@,
                 !.decommission_count = @ + 1,
                 !.in_swarm = FALSE]

DecommissionsCountedDown(info) ==
    [info EXCEPT !.active_since_height = -@,
                 !.last_decommission_height = height,
                 !.decommission_count = @ - 1,
                 !.in_swarm = FALSE]

DecommissionedInSwarm(info) ==
    [info EXCEPT !.active_since_height = -@,
                 !.last_decommission_height = height,
                 !.decommission_count = @ + 1]

\* active_since_height is negated: a node that is not funded keeps 0.
decommissioned(info) ==
    [info EXCEPT !.active_since_height = -@,
                 !.last_decommission_height = height,
                 !.decommission_count = @ + 1,
                 !.in_swarm = FALSE]

EffectiveTimestampOnly(proof) == [proof EXCEPT !.effective_timestamp = 0]

zero_timestamps(proof) == [proof EXCEPT !.timestamp = 0, !.effective_timestamp = 0]

Decommission(n, vote_height) ==
    /\ StateChangeTx(n, vote_height, "decommission")
    /\ n \in DOMAIN infos
    /\ IF is_decommissioned(infos[n])
       THEN UNCHANGED <<infos, proofs, need_swarm_update>>
       ELSE /\ infos' = [infos EXCEPT ![n] = decommissioned(@)]
            /\ proofs' = [proofs EXCEPT ![n] = zero_timestamps(@)]
            /\ need_swarm_update' = TRUE
    /\ UNCHANGED blacklist

RecommissionedInPlace(info) == [info EXCEPT !.active_since_height = height]

recommissioned(info) == [send_to_back(info, height) EXCEPT !.active_since_height = height]

Recommission(n, vote_height) ==
    /\ StateChangeTx(n, vote_height, "recommission")
    /\ n \in DOMAIN infos
    /\ IF ~is_decommissioned(infos[n])
       THEN UNCHANGED <<infos, proofs, need_swarm_update>>
       ELSE /\ infos' = [infos EXCEPT ![n] = recommissioned(@)]
            /\ proofs' = [proofs EXCEPT ![n].effective_timestamp = height]
            /\ need_swarm_update' = TRUE
    /\ UNCHANGED blacklist

IpChangePenalty(n, vote_height) ==
    /\ StateChangeTx(n, vote_height, "ip_change_penalty")
    /\ n \in DOMAIN infos
    /\ IF is_decommissioned(infos[n])
       THEN UNCHANGED <<infos, need_swarm_update>>
       ELSE /\ infos' = [infos EXCEPT ![n] =
                           [send_to_back(@, height) EXCEPT !.last_ip_change_height = height]]
            /\ need_swarm_update' = TRUE
    /\ UNCHANGED <<blacklist, proofs>>

\* is_key_image_locked, with the unlock height of a node that holds the stake: of
\* the first one found in a hash table when an image is held by several.
awaiting_unlock(list, k) ==
    \E m \in DOMAIN list :
        k \in list[m].locked /\ list[m].requested_unlock_height = KEY_IMAGE_AWAITING_UNLOCK_HEIGHT

KeyImageUnlockTx(n, k) ==
    /\ NextTx
    /\ awaiting_unlock(before, k)
    /\ infos' = IF /\ n \in DOMAIN infos
                   /\ infos[n].requested_unlock_height = KEY_IMAGE_AWAITING_UNLOCK_HEIGHT
                   /\ k \in infos[n].locked
                THEN [infos EXCEPT ![n].requested_unlock_height =
                         get_locked_key_image_unlock_height(height)]
                ELSE infos
    /\ UNCHANGED <<height, blacklist, quorums, proofs, outputs, in_block, before, need_swarm_update>>

\* Swarms and quorums, from the list as the transactions left it.  That
\* calc_swarm_changes returns, with every active node in a swarm, is assumed.
BlockEnd ==
    /\ in_block
    /\ infos' = IF need_swarm_update
                THEN [n \in DOMAIN infos |->
                        IF is_active(infos[n]) THEN [infos[n] EXCEPT !.in_swarm = TRUE] ELSE infos[n]]
                ELSE infos
    /\ \E o \in obligations_draws(infos'), c \in checkpointing_draws(infos'),
          b \in blink_draws(infos') :
          quorums' = [q \in DOMAIN quorums \cup {height} |->
                        IF q = height THEN [obligations |-> o, checkpointing |-> c, blink |-> b]
                        ELSE quorums[q]]
    /\ in_block' = FALSE
    /\ before' = EmptyMap
    /\ index' = 0
    /\ need_swarm_update' = FALSE
    /\ UNCHANGED <<height, blacklist, proofs, outputs>>

\* An uptime proof is recorded for a registered node, unless it has had one
\* recently.  Proofs arrive at any time, but wait for the block to be done
\* (m_sn_mutex).
HandleUptimeProof(n) ==
    /\ ~in_block
    /\ n \in DOMAIN infos
    /\ proofs[n].timestamp = 0 \/ proofs[n].timestamp < height - ProofInterval
    /\ proofs' = [proofs EXCEPT ![n] = [timestamp |-> height, effective_timestamp |-> height]]
    /\ UNCHANGED <<height, infos, blacklist, quorums, outputs, in_block, before, index,
                   need_swarm_update>>

-----------------------------------------------------------------------------
Init ==
    /\ height = 0
    /\ infos = EmptyMap
    /\ blacklist = {}
    /\ quorums = EmptyMap
    /\ proofs = [n \in PubKeys |-> NewProof]
    /\ outputs = 0
    /\ in_block = FALSE
    /\ before = EmptyMap
    /\ index = 0
    /\ need_swarm_update = FALSE

Next ==
    \/ BlockBegin
    \/ \E images \in stake_images, n \in PubKeys, reg \in Registrations \cup {NoRegistration},
          address \in Addresses, transferred \in Transfers :
          StakeTx(n, reg, address, images, transferred)
    \/ \E n \in PubKeys, vote_height \in DOMAIN quorums :
          \/ \E state \in NewStates : StateChangeOfUnregistered(n, vote_height, state)
          \/ Deregister(n, vote_height)
          \/ Decommission(n, vote_height)
          \/ Recommission(n, vote_height)
          \/ IpChangePenalty(n, vote_height)
    \/ \E n \in PubKeys, k \in 1..outputs : KeyImageUnlockTx(n, k)
    \/ BlockEnd
    \/ \E n \in PubKeys : HandleUptimeProof(n)

Spec == Init /\ [][Next]_vars

-----------------------------------------------------------------------------
(***************************************************************************)
(* Properties                                                              *)
(***************************************************************************)

Contributor == [amount : Nat, reserved : Nat]

Info == [registration_height           : Nat,
         requested_unlock_height       : Nat,
         last_reward_block_height      : Nat,
         last_reward_transaction_index : Nat,
         decommission_count            : Nat,
         active_since_height           : Int,
         last_decommission_height      : Nat,
         last_ip_change_height         : Nat,
         contributors                  : [Addresses -> Contributor],
         locked                        : SUBSET Nat,
         num_locked                    : Nat,
         total_contributed             : Nat,
         total_reserved                : Nat,
         staking_requirement           : {StakingRequirement},
         in_swarm                      : BOOLEAN]

IsList(list) == DOMAIN list \subseteq PubKeys /\ list \in [DOMAIN list -> Info]

Quorum == [drawn : BOOLEAN, validators : SUBSET PubKeys]

QuorumManager == [obligations   : [validators : SUBSET PubKeys, workers : SUBSET PubKeys],
                  checkpointing : Quorum,
                  blink         : Quorum]

TypeOK ==
    /\ height \in Nat
    /\ IsList(infos)
    /\ blacklist \subseteq [key_image : Nat, unlock_height : Nat]
    /\ DOMAIN quorums \subseteq Nat /\ quorums \in [DOMAIN quorums -> QuorumManager]
    /\ proofs \in [PubKeys -> [timestamp : Nat, effective_timestamp : Nat]]
    /\ outputs \in Nat
    /\ in_block \in BOOLEAN
    /\ IsList(before)
    /\ index \in Nat
    /\ need_swarm_update \in BOOLEAN

\* Nothing that process_contribution_tx subtracts ever wraps: contributions stay
\* within the reservations, and reservations within the staking requirement.
ReservationsFit ==
    \A n \in DOMAIN infos :
        /\ infos[n].total_reserved <= infos[n].staking_requirement
        /\ \A a \in Addresses :
              /\ infos[n].contributors[a].amount <= infos[n].contributors[a].reserved
              /\ infos[n].contributors[a].reserved <= infos[n].total_reserved

\* The totals a node is funded and paid by are the sums over its contributors,
\* and a node is never funded beyond the staking requirement.
TotalsAddUp ==
    \A n \in DOMAIN infos :
        /\ infos[n].total_contributed =
              MapThenSumSet(LAMBDA a : infos[n].contributors[a].amount, Addresses)
        /\ infos[n].total_reserved =
              MapThenSumSet(LAMBDA a : infos[n].contributors[a].reserved, Addresses)
        /\ infos[n].total_contributed <= infos[n].staking_requirement

\* active_since_height tells the life of a node: 0 until it is funded, then the
\* height at which it became active, negated while it is decommissioned.  Since
\* decommissioning also applies to the entry of a key registered again earlier
\* in the same block, this is what keeps is_decommissioned meaningful.
ActiveSinceConsistent ==
    \A n \in DOMAIN infos :
        LET i == infos[n] IN
        /\ (i.active_since_height # 0) = is_fully_funded(i)
        /\ i.active_since_height > 0 => i.active_since_height \in i.registration_height..height
        /\ is_decommissioned(i) =>
              /\ -i.active_since_height \in i.registration_height..i.last_decommission_height
              /\ i.last_decommission_height <= height
              /\ i.decommission_count > 0

\* An unlock that is due has been carried out: no node is still registered after
\* the height it was granted, and no blacklisting is still there at its own.
UnlocksCarriedOut ==
    /\ \A n \in DOMAIN infos :
          infos[n].requested_unlock_height # KEY_IMAGE_AWAITING_UNLOCK_HEIGHT =>
              height <= infos[n].requested_unlock_height
    /\ \A e \in blacklist : height < e.unlock_height

\* Between blocks every active node serves in a swarm, and no other node does.
SwarmsAreActive ==
    ~in_block => \A n \in DOMAIN infos : infos[n].in_swarm = is_active(infos[n])

\* An uptime proof on record for a node was received during its present
\* registration and, if it is decommissioned, since it was decommissioned.
ProofsAreCurrent ==
    \A n \in DOMAIN infos : proofs[n].timestamp # 0 =>
        /\ proofs[n].timestamp >= infos[n].registration_height
        /\ is_decommissioned(infos[n]) =>
              proofs[n].timestamp >= infos[n].last_decommission_height

\* A key image that a node holds is let go only when the unlock its owner asked
\* for is due, or else to be blacklisted for the whole lock time; and a
\* blacklisting lasts its time, whatever becomes of other stakes with the same
\* image.  So what is_key_image_locked and the blacklist together keep from being
\* spent is kept for as long as every one of its holders asks.
StakesReleasedOnTime ==
    [][/\ \A n \in DOMAIN infos : \A k \in infos[n].locked :
             \/ n \in DOMAIN infos' /\ k \in infos'[n].locked
             \/ /\ infos[n].requested_unlock_height # KEY_IMAGE_AWAITING_UNLOCK_HEIGHT
                /\ height' > infos[n].requested_unlock_height
             \/ \E e \in blacklist' : e.key_image = k /\ e.unlock_height >= height' + LockBlocks
       /\ \A e \in blacklist : e \in blacklist' \/ height' >= e.unlock_height]_vars

\* A node that waits for its reward is never overtaken: once active, no other
\* node gets ahead of it until it is paid or sent to the back itself.
NeverOvertaken ==
    [][\A n \in active_service_nodes(infos), m \in active_service_nodes(infos') :
          ( /\ m # n
            /\ n \in active_service_nodes(infos')
            /\ infos'[n].last_reward_block_height = infos[n].last_reward_block_height
            /\ infos'[n].last_reward_block_height < height'
            /\ waits_longer(infos', m, n) )
          => m \in active_service_nodes(infos) /\ waits_longer(infos, m, n)]_vars

\* A member of a blink quorum can be deregistered, but it does not expire before
\* the blinks of that quorum are behind it (BLINK_EXPIRY_BUFFER).
BlinkQuorumsDontExpire ==
    \A q \in DOMAIN quorums : \A n \in quorums[q].blink.validators \cap DOMAIN infos :
        infos[n].requested_unlock_height # KEY_IMAGE_AWAITING_UNLOCK_HEIGHT =>
            infos[n].requested_unlock_height >= q + BlinkExpiryBuffer

\* can_be_voted_on (service_node_list.cpp:2702): a node registered again since
\* the height voted on is not voted on prematurely, so a decommissioned node has
\* been registered for a block at least.
NotVotedOnPrematurely ==
    \A n \in DOMAIN infos :
        is_decommissioned(infos[n]) =>
            infos[n].registration_height < infos[n].last_decommission_height
=============================================================================
