----------------------- MODULE ServiceNodeListProofs -----------------------
(***************************************************************************)
(* Proofs about ServiceNodeList, for every number of nodes, of             *)
(* contributors and of blocks: the invariant Core, the types and EntryOK   *)
(* of every entry, is kept by every action.                                *)
(***************************************************************************)
EXTENDS EntryProofs, FiniteSetTheorems

Core ==
    /\ TypeOK
    /\ in_block => height > 0
    /\ \A n \in DOMAIN infos : EntryOK(infos[n], height)

LEMMA InitCore == Init => Core
<1> SUFFICES ASSUME Init PROVE Core
  OBVIOUS
<1>1. DOMAIN EmptyMap = {} /\ \A S : EmptyMap \in [{} -> S]
  BY DEF EmptyMap
<1>2. IsList(EmptyMap)
  BY <1>1 DEF IsList
<1>3. TypeOK
  BY <1>1, <1>2 DEF Init, TypeOK, NewProof
<1>4. DOMAIN infos = {} /\ ~in_block
  BY <1>1 DEF Init
<1> QED BY <1>3, <1>4 DEF Core

\* The list after process_registration_tx: at most one entry more, as new.
AtMostOneMore(list, n) ==
    /\ IsList(list)
    /\ DOMAIN infos \subseteq DOMAIN list /\ DOMAIN list \subseteq DOMAIN infos \cup {n}
    /\ \A m \in DOMAIN infos : list[m] = infos[m]
    /\ \A m \in DOMAIN list : EntryOK(list[m], height)
    /\ n \notin DOMAIN infos /\ n \in DOMAIN list =>
          /\ ~is_fully_funded(list[n]) /\ list[n].locked = {}
          /\ list[n].requested_unlock_height = KEY_IMAGE_AWAITING_UNLOCK_HEIGHT
          /\ list[n].registration_height = height
          /\ list[n].active_since_height = 0

LEMMA RegistrationStep ==
    ASSUME Core, in_block, NEW n \in PubKeys, NEW reg \in Registrations \cup {NoRegistration},
           NEW address, NEW transferred
    PROVE  AtMostOneMore(process_registration_tx(infos, n, reg, address, transferred), n)
<1> DEFINE list == process_registration_tx(infos, n, reg, address, transferred)
           new  == registered_info(reg, height, index)
<1>0. /\ IsList(infos) /\ height \in Nat /\ index \in Nat
      /\ \A m \in DOMAIN infos : EntryOK(infos[m], height)
  BY DEF Core, TypeOK
<1>1. CASE is_registration_tx(reg, address, transferred) /\ n \notin DOMAIN infos
  <2>1. /\ EntryOK(new, height) /\ ~is_fully_funded(new) /\ new.locked = {}
        /\ new.requested_unlock_height = KEY_IMAGE_AWAITING_UNLOCK_HEIGHT
        /\ new.registration_height = height /\ new.active_since_height = 0
    BY <1>0, <1>1, RegisteredOK
  <2>2. list = [m \in DOMAIN infos \cup {n} |-> IF m = n THEN new ELSE infos[m]]
    BY <1>1 DEF process_registration_tx
  <2> HIDE DEF list, new
  <2>3. /\ DOMAIN list = DOMAIN infos \cup {n} /\ list[n] = new
        /\ \A m \in DOMAIN infos : list[m] = infos[m]
    BY <1>1, <2>2
  <2>4. \A m \in DOMAIN list : EntryOK(list[m], height)
    BY <1>0, <2>1, <2>3
  <2>5. IsList(list)
    <3>1. \A m \in DOMAIN list : list[m] \in Info
      BY <2>4 DEF EntryOK
    <3>2. DOMAIN list \subseteq PubKeys
      BY <1>0, <2>3 DEF IsList
    <3> QED BY <2>2, <3>1, <3>2 DEF IsList
  <2> QED BY <2>1, <2>3, <2>4, <2>5 DEF list, AtMostOneMore
<1>2. CASE ~(is_registration_tx(reg, address, transferred) /\ n \notin DOMAIN infos)
  <2>1. list = infos
    BY <1>2 DEF process_registration_tx
  <2> QED BY <1>0, <2>1 DEF AtMostOneMore
<1> QED BY <1>1, <1>2

\* A transaction has finitely many stake outputs, new and used images together.
LEMMA StakeImages ==
    ASSUME outputs \in Nat, NEW images \in stake_images
    PROVE  images \in SUBSET Nat /\ Cardinality(images) \in Nat
<1>1. PICK new \in 0..MaxTxOutputs, again \in SUBSET (RepeatedImages \cap 1..outputs) :
         images = again \cup ((outputs + 1)..(outputs + new))
  BY DEF stake_images
<1>2. new \in Nat
  BY ListAssumption
<1>3. again \subseteq 1..outputs /\ IsFiniteSet(1..outputs)
      /\ IsFiniteSet((outputs + 1)..(outputs + new))
  BY <1>2, FS_Interval
<1>4. IsFiniteSet(images)
  BY <1>1, <1>3, FS_Subset, FS_Union
<1>5. images \in SUBSET Nat
  BY <1>1, <1>2, <1>3
<1> QED BY <1>4, <1>5, FS_CardinalityType

\* What a stake transaction does to the list: it concerns the entry of n only,
\* which it may create and to which it may add the images of its stakes.
LEMMA StakeStep ==
    ASSUME Core, NEW n \in PubKeys, NEW reg \in Registrations \cup {NoRegistration},
           NEW address \in Addresses, NEW images \in stake_images,
           NEW transferred \in Transfers, StakeTx(n, reg, address, images, transferred)
    PROVE  /\ IsList(infos')
           /\ DOMAIN infos \subseteq DOMAIN infos' /\ DOMAIN infos' \subseteq DOMAIN infos \cup {n}
           /\ \A m \in DOMAIN infos' : EntryOK(infos'[m], height)
           /\ \A m \in DOMAIN infos : m # n => infos'[m] = infos[m]
           /\ n \in DOMAIN infos' =>
                 /\ infos'[n].requested_unlock_height =
                       IF n \in DOMAIN infos THEN infos[n].requested_unlock_height
                       ELSE KEY_IMAGE_AWAITING_UNLOCK_HEIGHT
                 /\ infos'[n].registration_height =
                       IF n \in DOMAIN infos THEN infos[n].registration_height ELSE height
                 /\ n \in DOMAIN infos => infos[n].locked \subseteq infos'[n].locked
                 /\ n \notin DOMAIN infos => proofs'[n] = NewProof
                 /\ \/ n \in DOMAIN infos /\ infos'[n] = infos[n]
                    \/ ~is_fully_funded(infos'[n])
                    \/ /\ need_swarm_update' /\ infos'[n].last_reward_block_height = height
                       /\ infos'[n].last_reward_transaction_index = index
                       /\ infos'[n].active_since_height = height
           /\ need_swarm_update => need_swarm_update'
           /\ \A m \in PubKeys : m # n \/ n \in DOMAIN infos => proofs'[m] = proofs[m]
           /\ proofs' \in [PubKeys -> [timestamp : Nat, effective_timestamp : Nat]]
<1> DEFINE list     == process_registration_tx(infos, n, reg, address, transferred)
           is_new   == n \in DOMAIN list /\ n \notin DOMAIN infos
           accepted == n \in DOMAIN list /\ can_contribute(list[n], images, transferred)
           new      == contribute(list[n], address, images, transferred)
<1>0. /\ in_block /\ height \in Nat \ {0} /\ index \in Nat /\ outputs \in Nat
      /\ proofs \in [PubKeys -> [timestamp : Nat, effective_timestamp : Nat]]
  BY DEF Core, TypeOK, StakeTx, NextTx
<1>1. /\ infos' = IF accepted THEN [list EXCEPT ![n] = new] ELSE list
      /\ need_swarm_update' = (need_swarm_update \/ (accepted /\ is_fully_funded(infos'[n])))
      /\ proofs' = IF is_new THEN [proofs EXCEPT ![n] = NewProof] ELSE proofs
      /\ outputs' = outputs + Cardinality(images)
  BY DEF StakeTx
<1>2. /\ IsList(list)
      /\ DOMAIN infos \subseteq DOMAIN list /\ DOMAIN list \subseteq DOMAIN infos \cup {n}
      /\ \A m \in DOMAIN infos : list[m] = infos[m]
      /\ \A m \in DOMAIN list : EntryOK(list[m], height)
      /\ n \notin DOMAIN infos /\ n \in DOMAIN list =>
            /\ ~is_fully_funded(list[n]) /\ list[n].locked = {}
            /\ list[n].requested_unlock_height = KEY_IMAGE_AWAITING_UNLOCK_HEIGHT
            /\ list[n].registration_height = height
            /\ list[n].active_since_height = 0
  <2>1. AtMostOneMore(list, n)
    BY <1>0, RegistrationStep
  <2> HIDE DEF list
  <2> QED BY <2>1 DEF AtMostOneMore
<1>3. transferred \in Nat /\ images \in SUBSET Nat /\ Cardinality(images) \in Nat
  <2>1. transferred \in Words
    BY ListAssumption
  <2>2. transferred \in Nat
    BY <2>1, RulesAssumption DEF Words, UINT64_MAX
  <2> QED BY <1>0, <2>2, StakeImages
<1> HIDE DEF list
<1>4. ASSUME accepted
      PROVE  EntryOK(new, height) /\ Contributed(list[n], images, new)
  <2>1. EntryOK(list[n], height) /\ ~is_fully_funded(list[n])
    BY <1>2, <1>4 DEF can_contribute
  <2>2. PICK e \in Info : e = list[n] /\ Fits(e)
    BY <2>1 DEF EntryOK
  <2>3. images \in SUBSET Nat /\ Cardinality(images) \in Nat /\ transferred \in Nat /\ height \in Nat /\ index \in Nat
    BY <1>0, <1>3
  <2>4. Contributed(e, images, contribute(e, address, images, transferred))
    BY <2>2, <2>3, ContributeFits
  <2>5. Contributed(list[n], images, new)
    BY <2>2, <2>4
  <2> HIDE DEF new
  <2>6. EntryOK(new, height)
    BY <1>0, <2>1, <2>2, <2>5, ContributeOK
  <2> QED BY <2>5, <2>6
<1> HIDE DEF new
<1>5. /\ DOMAIN infos' = DOMAIN list
      /\ \A m \in DOMAIN list : m # n => infos'[m] = list[m]
      /\ n \in DOMAIN list => infos'[n] = IF accepted THEN new ELSE list[n]
      /\ infos' = [m \in DOMAIN infos' |-> infos'[m]]
  <2>1. list = [m \in DOMAIN list |-> list[m]]
    BY <1>2 DEF IsList
  <2>2. CASE accepted
    BY <1>1, <2>1, <2>2
  <2>3. CASE ~accepted
    BY <1>1, <2>1, <2>3
  <2> QED BY <2>2, <2>3
<1>6. \A m \in DOMAIN infos' : EntryOK(infos'[m], height)
  BY <1>2, <1>4, <1>5
<1>7. IsList(infos')
  <2>1. \A m \in DOMAIN infos' : infos'[m] \in Info
    BY <1>6 DEF EntryOK
  <2> QED BY <1>2, <1>5, <2>1 DEF IsList
<1>8. DOMAIN infos \subseteq DOMAIN infos' /\ DOMAIN infos' \subseteq DOMAIN infos \cup {n}
  BY <1>2, <1>5
<1>9. \A m \in DOMAIN infos : m # n => infos'[m] = infos[m]
  BY <1>2, <1>5
<1>10. ASSUME n \in DOMAIN infos'
       PROVE  /\ infos'[n].requested_unlock_height = list[n].requested_unlock_height
              /\ infos'[n].registration_height = list[n].registration_height
              /\ list[n].locked \subseteq infos'[n].locked
  <2>1. CASE accepted
    BY <1>3, <1>4, <1>5, <1>10, <2>1 DEF Contributed
  <2>2. CASE ~accepted
    BY <1>5, <1>10, <2>2
  <2> QED BY <2>1, <2>2
<1>11. ASSUME n \in DOMAIN infos'
       PROVE  /\ infos'[n].requested_unlock_height =
                    IF n \in DOMAIN infos THEN infos[n].requested_unlock_height
                    ELSE KEY_IMAGE_AWAITING_UNLOCK_HEIGHT
              /\ infos'[n].registration_height =
                    IF n \in DOMAIN infos THEN infos[n].registration_height ELSE height
              /\ n \in DOMAIN infos => infos[n].locked \subseteq infos'[n].locked
  <2>1. CASE n \in DOMAIN infos
    BY <1>2, <1>10, <1>11, <2>1
  <2>2. CASE n \notin DOMAIN infos
    BY <1>2, <1>5, <1>10, <1>11, <2>2
  <2> QED BY <2>1, <2>2
<1>12. ASSUME n \in DOMAIN infos'
       PROVE  \/ n \in DOMAIN infos /\ infos'[n] = infos[n]
              \/ ~is_fully_funded(infos'[n])
              \/ /\ need_swarm_update' /\ infos'[n].last_reward_block_height = height
                 /\ infos'[n].last_reward_transaction_index = index
                 /\ infos'[n].active_since_height = height
  <2>1. CASE accepted
    <3>1. infos'[n] = new
      BY <1>5, <1>12, <2>1
    <3>2. is_fully_funded(new) => need_swarm_update'
      BY <1>1, <2>1, <3>1
    <3> QED BY <1>4, <2>1, <3>1, <3>2 DEF Contributed
  <2>2. CASE ~accepted
    BY <1>2, <1>5, <1>12, <2>2
  <2> QED BY <2>1, <2>2
<1>13. need_swarm_update => need_swarm_update'
  BY <1>1
<1>14. /\ n \in DOMAIN infos' /\ n \notin DOMAIN infos => proofs'[n] = NewProof
       /\ \A m \in PubKeys : m # n \/ n \in DOMAIN infos => proofs'[m] = proofs[m]
       /\ proofs' \in [PubKeys -> [timestamp : Nat, effective_timestamp : Nat]]
  BY <1>0, <1>1, <1>5 DEF NewProof
<1> QED BY <1>6, <1>7, <1>8, <1>9, <1>11, <1>12, <1>13, <1>14

\* A list with one entry replaced by one in order is in order.
LEMMA OneEntry ==
    ASSUME NEW list, IsList(list), NEW h, \A m \in DOMAIN list : EntryOK(list[m], h),
           NEW n \in DOMAIN list, NEW e, EntryOK(e, h)
    PROVE  /\ IsList([list EXCEPT ![n] = e])
           /\ \A m \in DOMAIN list : EntryOK([list EXCEPT ![n] = e][m], h)
           /\ DOMAIN [list EXCEPT ![n] = e] = DOMAIN list
<1>1. list = [m \in DOMAIN list |-> list[m]] /\ DOMAIN list \subseteq PubKeys
  BY DEF IsList
<1>2. PICK new : new = [list EXCEPT ![n] = e]
  OBVIOUS
<1>3. /\ new = [m \in DOMAIN list |-> new[m]]
      /\ DOMAIN new = DOMAIN list
      /\ \A m \in DOMAIN list : new[m] = IF m = n THEN e ELSE list[m]
  BY <1>1, <1>2
<1>4. \A m \in DOMAIN list : EntryOK(new[m], h)
  BY <1>3
<1>5. \A m \in DOMAIN list : new[m] \in Info
  BY <1>4 DEF EntryOK
<1>6. IsList(new)
  BY <1>1, <1>3, <1>5 DEF IsList
<1> QED BY <1>2, <1>3, <1>4, <1>6

\* An entry that stays when a block begins: it has not expired, and may have won.
LEMMA BeginEntryOK ==
    ASSUME height \in Nat, NEW info, EntryOK(info, height),
           ~(info.requested_unlock_height # KEY_IMAGE_AWAITING_UNLOCK_HEIGHT
             /\ height + 1 > info.requested_unlock_height)
    PROVE  EntryOK(info, height + 1) /\ EntryOK(send_to_back(info, height + 1), height + 1)
<1>1. info \in Info /\ height + 1 \in Nat /\ height <= height + 1
  BY DEF EntryOK
<1>2. /\ info.requested_unlock_height # KEY_IMAGE_AWAITING_UNLOCK_HEIGHT =>
            height + 1 <= info.requested_unlock_height
      /\ info.last_reward_block_height <= height + 1
      /\ info.in_swarm => is_active(info)
  <2>1. info.requested_unlock_height \in Nat /\ info.last_reward_block_height \in Nat
    BY <1>1 DEF Info
  <2> QED BY <2>1 DEF EntryOK
<1>3. EntryOK(info, height + 1)
  BY <1>1, <1>2, OtherChangesOK
<1>4. PICK new : new = send_to_back(info, height + 1)
  OBVIOUS
<1>5. new \in Info
  BY <1>1, <1>4, SendToBackType
<1>6. /\ new.registration_height = info.registration_height
      /\ new.active_since_height = info.active_since_height
      /\ new.last_decommission_height = info.last_decommission_height
      /\ new.decommission_count = info.decommission_count
      /\ new.contributors = info.contributors
      /\ new.total_contributed = info.total_contributed
      /\ new.total_reserved = info.total_reserved
      /\ new.requested_unlock_height = info.requested_unlock_height
      /\ new.staking_requirement = info.staking_requirement
      /\ new.in_swarm = info.in_swarm
      /\ new.last_reward_block_height = height + 1
  BY <1>1, <1>4 DEF send_to_back, Info
<1>7. new.in_swarm => is_active(new)
  BY <1>2, <1>6 DEF is_active, is_fully_funded, is_decommissioned
<1>8. EntryOK(new, height + 1)
  <2>1. height + 1 <= height + 1
    BY <1>1
  <2> QED BY <1>1, <1>2, <1>3, <1>5, <1>6, <1>7, <2>1, OtherChangesOK
<1> QED BY <1>3, <1>4, <1>8

LEMMA BlockBeginCore == Core /\ BlockBegin => Core'
<1> SUFFICES ASSUME Core, BlockBegin PROVE Core'
  OBVIOUS
<1> DEFINE expired == get_expired_nodes(infos, height + 1)
           winner  == get_block_winner(infos)
<1>1. /\ height' = height + 1
      /\ blacklist' = {e \in blacklist : height + 1 < e.unlock_height}
      /\ infos' = [n \in DOMAIN infos \ expired |->
                      IF n = winner THEN send_to_back(infos[n], height + 1) ELSE infos[n]]
      /\ need_swarm_update' = \E n \in expired : is_active(infos[n])
      /\ quorums' = [q \in {q \in DOMAIN quorums : q > short_term_state_cull_height(height + 1)} |->
                        quorums[q]]
      /\ before' = infos /\ in_block' = TRUE /\ index' = 0
      /\ proofs' = proofs /\ outputs' = outputs
  BY DEF BlockBegin
<1>2. TypeOK /\ height \in Nat /\ IsList(infos) /\ \A n \in DOMAIN infos : EntryOK(infos[n], height)
  BY DEF Core, TypeOK
<1>3. \A n \in DOMAIN infos' : EntryOK(infos'[n], height + 1)
  <2> SUFFICES ASSUME NEW n \in DOMAIN infos' PROVE EntryOK(infos'[n], height + 1)
    OBVIOUS
  <2> HIDE DEF winner
  <2>1. n \in DOMAIN infos \ expired
    BY <1>1
  <2>2. PICK e : e = infos[n] /\ EntryOK(e, height)
    BY <1>2, <2>1
  <2>3. ~(e.requested_unlock_height # KEY_IMAGE_AWAITING_UNLOCK_HEIGHT
          /\ height + 1 > e.requested_unlock_height)
    BY <2>1, <2>2 DEF get_expired_nodes
  <2>4. EntryOK(e, height + 1) /\ EntryOK(send_to_back(e, height + 1), height + 1)
    BY <1>2, <2>2, <2>3, BeginEntryOK
  <2> QED BY <1>1, <2>1, <2>2, <2>4
<1>4. IsList(infos')
  <2>1. \A n \in DOMAIN infos' : infos'[n] \in Info
    BY <1>3 DEF EntryOK
  <2>2. DOMAIN infos' \subseteq PubKeys
    BY <1>1, <1>2 DEF IsList
  <2>3. infos' = [n \in DOMAIN infos' |-> infos'[n]]
    BY <1>1
  <2> QED BY <2>1, <2>2, <2>3 DEF IsList
<1>5. DOMAIN quorums' \subseteq Nat /\ quorums' \in [DOMAIN quorums' -> QuorumManager]
  BY <1>1, <1>2 DEF TypeOK
<1>6. need_swarm_update' \in BOOLEAN
  BY <1>1
<1>7. TypeOK'
  BY <1>1, <1>2, <1>4, <1>5, <1>6 DEF TypeOK
<1> QED BY <1>1, <1>2, <1>3, <1>7 DEF Core

LEMMA StakeCore ==
    ASSUME Core, NEW n \in PubKeys, NEW reg \in Registrations \cup {NoRegistration},
           NEW address \in Addresses, NEW images \in stake_images,
           NEW transferred \in Transfers, StakeTx(n, reg, address, images, transferred)
    PROVE  Core'
<1>1. /\ IsList(infos') /\ \A m \in DOMAIN infos' : EntryOK(infos'[m], height)
      /\ proofs' \in [PubKeys -> [timestamp : Nat, effective_timestamp : Nat]]
  BY StakeStep
<1>2. /\ height' = height /\ blacklist' = blacklist /\ quorums' = quorums
      /\ in_block' = in_block /\ before' = before /\ in_block
      /\ index' = index + 1 /\ outputs' = outputs + Cardinality(images)
  BY DEF StakeTx, NextTx
<1>3. need_swarm_update' \in BOOLEAN
  BY DEF StakeTx
<1>4. index' \in Nat /\ outputs' \in Nat
  <2>1. index \in Nat /\ outputs \in Nat
    BY DEF Core, TypeOK
  <2>2. Cardinality(images) \in Nat
    BY <2>1, StakeImages
  <2> QED BY <1>2, <2>1, <2>2
<1> QED BY <1>1, <1>2, <1>3, <1>4 DEF Core, TypeOK

\* What every state change leaves alone.
LEMMA StateChangeFrame ==
    ASSUME Core, NEW n, NEW vote_height, NEW state, StateChangeTx(n, vote_height, state)
    PROVE  /\ in_block /\ height \in Nat \ {0} /\ index \in Nat /\ index' \in Nat
           /\ height' = height /\ quorums' = quorums /\ outputs' = outputs
           /\ in_block' = in_block /\ before' = before
           /\ IsList(infos) /\ \A m \in DOMAIN infos : EntryOK(infos[m], height)
           /\ proofs \in [PubKeys -> [timestamp : Nat, effective_timestamp : Nat]]
BY DEF StateChangeTx, NextTx, Core, TypeOK

\* What is left to show of a state change.
LEMMA StateChangeCore ==
    ASSUME Core, NEW n, NEW vote_height, NEW state, StateChangeTx(n, vote_height, state),
           IsList(infos'), \A m \in DOMAIN infos' : EntryOK(infos'[m], height),
           blacklist' \subseteq [key_image : Nat, unlock_height : Nat],
           proofs' \in [PubKeys -> [timestamp : Nat, effective_timestamp : Nat]],
           need_swarm_update' \in BOOLEAN
    PROVE  Core'
<1>1. /\ height' = height /\ quorums' = quorums /\ outputs' = outputs /\ index' \in Nat
      /\ in_block' = in_block /\ before' = before
  BY StateChangeFrame
<1> QED BY <1>1 DEF Core, TypeOK

LEMMA DeregisterCore ==
    ASSUME Core, NEW n, NEW vote_height, Deregister(n, vote_height)
    PROVE  Core'
<1>1. /\ StateChangeTx(n, vote_height, "deregister") /\ n \in DOMAIN infos
      /\ blacklist' = blacklist \cup blacklisted_stakes(infos[n])
      /\ infos' = [m \in DOMAIN infos \ {n} |-> infos[m]]
      /\ need_swarm_update' = TRUE /\ proofs' = proofs
  BY DEF Deregister
<1>2. /\ height \in Nat /\ IsList(infos) /\ \A m \in DOMAIN infos : EntryOK(infos[m], height)
      /\ proofs \in [PubKeys -> [timestamp : Nat, effective_timestamp : Nat]]
  BY <1>1, StateChangeFrame
<1>3. \A m \in DOMAIN infos' : EntryOK(infos'[m], height)
  BY <1>1, <1>2
<1>4. IsList(infos')
  BY <1>1, <1>2 DEF IsList
<1>5. blacklist' \subseteq [key_image : Nat, unlock_height : Nat]
  <2>1. infos[n].locked \subseteq Nat /\ height + LockBlocks \in Nat
    BY <1>1, <1>2, Constants DEF EntryOK, Info
  <2>2. blacklisted_stakes(infos[n]) \subseteq [key_image : Nat, unlock_height : Nat]
    BY <2>1 DEF blacklisted_stakes
  <2> QED BY <1>1, <2>2 DEF Core, TypeOK
<1> QED BY <1>1, <1>2, <1>3, <1>4, <1>5, StateChangeCore

LEMMA DecommissionCore ==
    ASSUME Core, NEW n, NEW vote_height, Decommission(n, vote_height)
    PROVE  Core'
<1>1. StateChangeTx(n, vote_height, "decommission") /\ n \in DOMAIN infos /\ blacklist' = blacklist
  BY DEF Decommission
<1>2. /\ height \in Nat \ {0} /\ IsList(infos) /\ \A m \in DOMAIN infos : EntryOK(infos[m], height)
      /\ proofs \in [PubKeys -> [timestamp : Nat, effective_timestamp : Nat]]
      /\ blacklist' \subseteq [key_image : Nat, unlock_height : Nat]
      /\ need_swarm_update \in BOOLEAN
  BY <1>1, StateChangeFrame DEF Core, TypeOK
<1>3. CASE is_decommissioned(infos[n])
  <2>1. infos' = infos /\ proofs' = proofs /\ need_swarm_update' = need_swarm_update
    BY <1>3 DEF Decommission
  <2> QED BY <1>1, <1>2, <2>1, StateChangeCore
<1>4. CASE ~is_decommissioned(infos[n])
  <2>1. PICK e : e = decommissioned(infos[n]) /\ EntryOK(e, height)
    BY <1>1, <1>2, <1>4, DecommissionOK
  <2>2. /\ infos' = [infos EXCEPT ![n] = e] /\ need_swarm_update' = TRUE
        /\ proofs' = [proofs EXCEPT ![n] = zero_timestamps(proofs[n])]
    BY <1>4, <2>1 DEF Decommission
  <2>3. IsList(infos') /\ \A m \in DOMAIN infos' : EntryOK(infos'[m], height)
    BY <1>1, <1>2, <2>1, <2>2, OneEntry
  <2>4. proofs' \in [PubKeys -> [timestamp : Nat, effective_timestamp : Nat]]
    BY <1>2, <2>2 DEF zero_timestamps
  <2> QED BY <1>1, <1>2, <2>2, <2>3, <2>4, StateChangeCore
<1> QED BY <1>3, <1>4

LEMMA RecommissionCore ==
    ASSUME Core, NEW n, NEW vote_height, Recommission(n, vote_height)
    PROVE  Core'
<1>1. StateChangeTx(n, vote_height, "recommission") /\ n \in DOMAIN infos /\ blacklist' = blacklist
  BY DEF Recommission
<1>2. /\ height \in Nat \ {0} /\ IsList(infos) /\ \A m \in DOMAIN infos : EntryOK(infos[m], height)
      /\ proofs \in [PubKeys -> [timestamp : Nat, effective_timestamp : Nat]]
      /\ blacklist' \subseteq [key_image : Nat, unlock_height : Nat]
      /\ need_swarm_update \in BOOLEAN
  BY <1>1, StateChangeFrame DEF Core, TypeOK
<1>3. CASE ~is_decommissioned(infos[n])
  <2>1. infos' = infos /\ proofs' = proofs /\ need_swarm_update' = need_swarm_update
    BY <1>3 DEF Recommission
  <2> QED BY <1>1, <1>2, <2>1, StateChangeCore
<1>4. CASE is_decommissioned(infos[n])
  <2>1. PICK e : e = recommissioned(infos[n]) /\ EntryOK(e, height)
    BY <1>1, <1>2, <1>4, RecommissionOK
  <2>2. /\ infos' = [infos EXCEPT ![n] = e] /\ need_swarm_update' = TRUE
        /\ proofs' = [proofs EXCEPT ![n].effective_timestamp = height]
    BY <1>4, <2>1 DEF Recommission
  <2>3. IsList(infos') /\ \A m \in DOMAIN infos' : EntryOK(infos'[m], height)
    BY <1>1, <1>2, <2>1, <2>2, OneEntry
  <2>4. proofs' \in [PubKeys -> [timestamp : Nat, effective_timestamp : Nat]]
    BY <1>2, <2>2
  <2> QED BY <1>1, <1>2, <2>2, <2>3, <2>4, StateChangeCore
<1> QED BY <1>3, <1>4

\* The entry of a node penalised for a change of address, and of one granted an
\* unlock, and of one given a swarm.
LEMMA PenaltyOK ==
    ASSUME height \in Nat \ {0}, NEW info, EntryOK(info, height)
    PROVE  EntryOK([send_to_back(info, height) EXCEPT !.last_ip_change_height = height], height)
<1>1. info \in Info /\ height <= height /\ height \in Nat
  BY DEF EntryOK
<1>2. PICK back \in Info : back = send_to_back(info, height)
  BY <1>1, SendToBackType
<1>3. PICK new : new = [back EXCEPT !.last_ip_change_height = height]
  OBVIOUS
<1>4. new \in Info
  BY <1>1, <1>2, <1>3 DEF Info
<1>5. /\ new.registration_height = info.registration_height
      /\ new.active_since_height = info.active_since_height
      /\ new.last_decommission_height = info.last_decommission_height
      /\ new.decommission_count = info.decommission_count
      /\ new.contributors = info.contributors
      /\ new.total_contributed = info.total_contributed
      /\ new.total_reserved = info.total_reserved
      /\ new.requested_unlock_height = info.requested_unlock_height
      /\ new.staking_requirement = info.staking_requirement
      /\ new.in_swarm = info.in_swarm
      /\ new.last_reward_block_height = height
  BY <1>1, <1>2, <1>3 DEF send_to_back, Info
<1>6. new.in_swarm => is_active(new)
  BY <1>5 DEF EntryOK, is_active, is_fully_funded, is_decommissioned
<1>7. new.requested_unlock_height # KEY_IMAGE_AWAITING_UNLOCK_HEIGHT =>
         height <= new.requested_unlock_height
  BY <1>5 DEF EntryOK
<1>8. EntryOK(new, height)
  BY <1>1, <1>4, <1>5, <1>6, <1>7, OtherChangesOK
<1> QED BY <1>2, <1>3, <1>8

LEMMA UnlockOK ==
    ASSUME height \in Nat \ {0}, NEW info, EntryOK(info, height)
    PROVE  EntryOK([info EXCEPT !.requested_unlock_height =
                       get_locked_key_image_unlock_height(height)], height)
<1>1. info \in Info /\ height <= height /\ height \in Nat
  BY DEF EntryOK
<1>2. PICK new \in Info : new = [info EXCEPT !.requested_unlock_height =
                                    get_locked_key_image_unlock_height(height)]
  BY <1>1, UnlockType
<1>3. /\ new.registration_height = info.registration_height
      /\ new.active_since_height = info.active_since_height
      /\ new.last_decommission_height = info.last_decommission_height
      /\ new.decommission_count = info.decommission_count
      /\ new.contributors = info.contributors
      /\ new.total_contributed = info.total_contributed
      /\ new.total_reserved = info.total_reserved
      /\ new.staking_requirement = info.staking_requirement
      /\ new.in_swarm = info.in_swarm
      /\ new.last_reward_block_height = info.last_reward_block_height
      /\ new.requested_unlock_height = get_locked_key_image_unlock_height(height)
  BY <1>1, <1>2 DEF Info
<1>4. new.in_swarm => is_active(new)
  BY <1>3 DEF EntryOK, is_active, is_fully_funded, is_decommissioned
<1>5. height <= new.requested_unlock_height
  BY <1>3, Constants DEF get_locked_key_image_unlock_height
<1>6. new.last_reward_block_height <= height
  BY <1>3 DEF EntryOK
<1>7. EntryOK(new, height)
  BY <1>1, <1>3, <1>4, <1>5, <1>6, OtherChangesOK
<1> QED BY <1>2, <1>7

LEMMA SwarmOK ==
    ASSUME height \in Nat, NEW info, EntryOK(info, height), is_active(info)
    PROVE  EntryOK([info EXCEPT !.in_swarm = TRUE], height)
<1>1. info \in Info /\ height <= height
  BY DEF EntryOK
<1>2. PICK new : new = [info EXCEPT !.in_swarm = TRUE]
  OBVIOUS
<1>3. new \in Info
  BY <1>1, <1>2 DEF Info
<1>4. /\ new.registration_height = info.registration_height
      /\ new.active_since_height = info.active_since_height
      /\ new.last_decommission_height = info.last_decommission_height
      /\ new.decommission_count = info.decommission_count
      /\ new.contributors = info.contributors
      /\ new.total_contributed = info.total_contributed
      /\ new.total_reserved = info.total_reserved
      /\ new.staking_requirement = info.staking_requirement
      /\ new.last_reward_block_height = info.last_reward_block_height
      /\ new.requested_unlock_height = info.requested_unlock_height
  BY <1>1, <1>2 DEF Info
<1>5. is_active(new)
  BY <1>4 DEF is_active, is_fully_funded, is_decommissioned
<1>6. /\ new.last_reward_block_height <= height
      /\ new.requested_unlock_height # KEY_IMAGE_AWAITING_UNLOCK_HEIGHT =>
            height <= new.requested_unlock_height
  BY <1>4 DEF EntryOK
<1>7. EntryOK(new, height)
  BY <1>1, <1>3, <1>4, <1>5, <1>6, OtherChangesOK
<1> QED BY <1>2, <1>7

LEMMA IpChangePenaltyCore ==
    ASSUME Core, NEW n, NEW vote_height, IpChangePenalty(n, vote_height)
    PROVE  Core'
<1>1. /\ StateChangeTx(n, vote_height, "ip_change_penalty") /\ n \in DOMAIN infos
      /\ blacklist' = blacklist /\ proofs' = proofs
  BY DEF IpChangePenalty
<1>2. /\ height \in Nat \ {0} /\ IsList(infos) /\ \A m \in DOMAIN infos : EntryOK(infos[m], height)
      /\ proofs' \in [PubKeys -> [timestamp : Nat, effective_timestamp : Nat]]
      /\ blacklist' \subseteq [key_image : Nat, unlock_height : Nat]
      /\ need_swarm_update \in BOOLEAN
  BY <1>1, StateChangeFrame DEF Core, TypeOK
<1>3. CASE is_decommissioned(infos[n])
  <2>1. infos' = infos /\ need_swarm_update' = need_swarm_update
    BY <1>3 DEF IpChangePenalty
  <2> QED BY <1>1, <1>2, <2>1, StateChangeCore
<1>4. CASE ~is_decommissioned(infos[n])
  <2>1. PICK e : /\ e = [send_to_back(infos[n], height) EXCEPT !.last_ip_change_height = height]
                 /\ EntryOK(e, height)
    BY <1>1, <1>2, PenaltyOK
  <2>2. infos' = [infos EXCEPT ![n] = e] /\ need_swarm_update' = TRUE
    BY <1>4, <2>1 DEF IpChangePenalty
  <2>3. IsList(infos') /\ \A m \in DOMAIN infos' : EntryOK(infos'[m], height)
    BY <1>1, <1>2, <2>1, <2>2, OneEntry
  <2> QED BY <1>1, <1>2, <2>2, <2>3, StateChangeCore
<1> QED BY <1>3, <1>4

LEMMA UnregisteredCore ==
    ASSUME Core, NEW n, NEW vote_height, NEW state, StateChangeOfUnregistered(n, vote_height, state)
    PROVE  Core'
<1>1. /\ StateChangeTx(n, vote_height, state) /\ infos' = infos /\ blacklist' = blacklist
      /\ proofs' = proofs /\ need_swarm_update' = need_swarm_update
  BY DEF StateChangeOfUnregistered
<1>2. /\ height' = height /\ quorums' = quorums /\ outputs' = outputs /\ index' \in Nat
      /\ in_block' = in_block /\ before' = before
  BY <1>1, StateChangeFrame
<1> QED BY <1>1, <1>2 DEF Core, TypeOK

LEMMA KeyImageUnlockCore ==
    ASSUME Core, NEW n, NEW k, KeyImageUnlockTx(n, k)
    PROVE  Core'
<1>1. /\ in_block /\ index' = index + 1
      /\ height' = height /\ blacklist' = blacklist /\ quorums' = quorums /\ proofs' = proofs
      /\ outputs' = outputs /\ in_block' = in_block /\ before' = before
      /\ need_swarm_update' = need_swarm_update
  BY DEF KeyImageUnlockTx, NextTx
<1>2. /\ height \in Nat \ {0} /\ index' \in Nat /\ IsList(infos)
      /\ \A m \in DOMAIN infos : EntryOK(infos[m], height)
  BY <1>1 DEF Core, TypeOK
<1>3. IsList(infos') /\ \A m \in DOMAIN infos' : EntryOK(infos'[m], height)
  <2>1. CASE infos' = infos
    BY <1>2, <2>1
  <2>2. CASE infos' # infos
    <3>1. PICK e : /\ n \in DOMAIN infos
                   /\ e = [infos[n] EXCEPT !.requested_unlock_height =
                              get_locked_key_image_unlock_height(height)]
                   /\ infos' = [infos EXCEPT ![n] = e]
      BY <2>2, Zenon DEF KeyImageUnlockTx
    <3>2. EntryOK(e, height)
      BY <1>2, <3>1, UnlockOK
    <3> QED BY <1>2, <3>1, <3>2, OneEntry
  <2> QED BY <2>1, <2>2
<1> QED BY <1>1, <1>2, <1>3 DEF Core, TypeOK

\* A quorum consists of registered nodes.
LEMMA DrawsTyped ==
    ASSUME NEW list, IsList(list), NEW o \in obligations_draws(list),
           NEW c \in checkpointing_draws(list), NEW b \in blink_draws(list)
    PROVE  [obligations |-> o, checkpointing |-> c, blink |-> b] \in QuorumManager
<1>1. /\ active_service_nodes(list) \subseteq PubKeys
      /\ decommissioned_service_nodes(list) \subseteq PubKeys
  BY DEF IsList, active_service_nodes, decommissioned_service_nodes
<1>2. o \in [validators : SUBSET PubKeys, workers : SUBSET PubKeys]
  <2>1. PICK v, w : /\ o = [validators |-> v, workers |-> w]
                    /\ v \subseteq active_service_nodes(list)
                    /\ w \subseteq active_service_nodes(list) \cup decommissioned_service_nodes(list)
    BY SMTT(20) DEF obligations_draws, kSubset
  <2> QED BY <1>1, <2>1
<1>3. NoQuorum \in Quorum /\ \A v : v \subseteq PubKeys => Drawn(v) \in Quorum
  BY DEF NoQuorum, Drawn, Quorum
<1>4. c \in Quorum
  BY <1>1, <1>3 DEF checkpointing_draws, kSubset
<1>5. b \in Quorum
  BY <1>1, <1>3 DEF blink_draws, kSubset
<1> QED BY <1>2, <1>4, <1>5 DEF QuorumManager

\* The list after swarms have been assigned.
LEMMA SwarmStep ==
    ASSUME Core, BlockEnd
    PROVE  /\ IsList(infos') /\ DOMAIN infos' = DOMAIN infos
           /\ \A n \in DOMAIN infos :
                 /\ EntryOK(infos'[n], height)
                 /\ infos'[n] = IF need_swarm_update /\ is_active(infos[n])
                                THEN [infos[n] EXCEPT !.in_swarm = TRUE] ELSE infos[n]
<1>1. height \in Nat /\ IsList(infos) /\ \A n \in DOMAIN infos : EntryOK(infos[n], height)
  BY DEF Core, TypeOK
<1>2. /\ DOMAIN infos' = DOMAIN infos /\ infos' = [n \in DOMAIN infos' |-> infos'[n]]
      /\ \A n \in DOMAIN infos :
            infos'[n] = IF need_swarm_update /\ is_active(infos[n])
                        THEN [infos[n] EXCEPT !.in_swarm = TRUE] ELSE infos[n]
  BY <1>1 DEF BlockEnd, IsList
<1>3. ASSUME NEW n \in DOMAIN infos PROVE EntryOK(infos'[n], height)
  <2>1. CASE need_swarm_update /\ is_active(infos[n])
    BY <1>1, <1>2, <2>1, SwarmOK
  <2>2. CASE ~(need_swarm_update /\ is_active(infos[n]))
    BY <1>1, <1>2, <2>2
  <2> QED BY <2>1, <2>2
<1>4. IsList(infos')
  <2>1. \A n \in DOMAIN infos' : infos'[n] \in Info
    BY <1>2, <1>3 DEF EntryOK
  <2> QED BY <1>1, <1>2, <2>1 DEF IsList
<1> QED BY <1>2, <1>3, <1>4

LEMMA BlockEndCore == Core /\ BlockEnd => Core'
<1> SUFFICES ASSUME Core, BlockEnd PROVE Core'
  OBVIOUS
<1>1. /\ in_block' = FALSE /\ before' = EmptyMap /\ index' = 0 /\ need_swarm_update' = FALSE
      /\ height' = height /\ blacklist' = blacklist /\ proofs' = proofs /\ outputs' = outputs
  BY DEF BlockEnd
<1>2. /\ IsList(infos') /\ \A n \in DOMAIN infos' : EntryOK(infos'[n], height)
      /\ height \in Nat /\ DOMAIN quorums \subseteq Nat /\ quorums \in [DOMAIN quorums -> QuorumManager]
  BY SwarmStep DEF Core, TypeOK
<1>3. PICK o \in obligations_draws(infos'), c \in checkpointing_draws(infos'),
           b \in blink_draws(infos') :
         quorums' = [q \in DOMAIN quorums \cup {height} |->
                       IF q = height THEN [obligations |-> o, checkpointing |-> c, blink |-> b]
                       ELSE quorums[q]]
  BY DEF BlockEnd
<1>4. [obligations |-> o, checkpointing |-> c, blink |-> b] \in QuorumManager
  BY <1>2, DrawsTyped
<1>5. DOMAIN quorums' \subseteq Nat /\ quorums' \in [DOMAIN quorums' -> QuorumManager]
  BY <1>2, <1>3, <1>4
<1>6. IsList(EmptyMap)
  BY DEF IsList, EmptyMap
<1> QED BY <1>1, <1>2, <1>5, <1>6 DEF Core, TypeOK

LEMMA UptimeProofCore ==
    ASSUME Core, NEW n \in PubKeys, HandleUptimeProof(n)
    PROVE  Core'
<1>1. proofs' \in [PubKeys -> [timestamp : Nat, effective_timestamp : Nat]]
  BY DEF Core, TypeOK, HandleUptimeProof
<1> QED BY <1>1 DEF Core, TypeOK, HandleUptimeProof

LEMMA NextCore == Core /\ [Next]_vars => Core'
<1> SUFFICES ASSUME Core, [Next]_vars PROVE Core'
  OBVIOUS
<1>1. CASE BlockBegin
  BY <1>1, BlockBeginCore
<1>2. ASSUME NEW n \in PubKeys, NEW reg \in Registrations \cup {NoRegistration},
             NEW address \in Addresses, NEW images \in stake_images,
             NEW transferred \in Transfers, StakeTx(n, reg, address, images, transferred)
      PROVE  Core'
  BY <1>2, StakeCore
<1>3. ASSUME NEW n \in PubKeys, NEW vote_height \in DOMAIN quorums,
             \/ \E state \in NewStates : StateChangeOfUnregistered(n, vote_height, state)
             \/ Deregister(n, vote_height)
             \/ Decommission(n, vote_height)
             \/ Recommission(n, vote_height)
             \/ IpChangePenalty(n, vote_height)
      PROVE  Core'
  <2>1. ASSUME NEW state \in NewStates, StateChangeOfUnregistered(n, vote_height, state)
        PROVE  Core'
    BY <2>1, UnregisteredCore
  <2>2. CASE Deregister(n, vote_height)
    BY <2>2, DeregisterCore
  <2>3. CASE Decommission(n, vote_height)
    BY <2>3, DecommissionCore
  <2>4. CASE Recommission(n, vote_height)
    BY <2>4, RecommissionCore
  <2>5. CASE IpChangePenalty(n, vote_height)
    BY <2>5, IpChangePenaltyCore
  <2> QED BY <1>3, <2>1, <2>2, <2>3, <2>4, <2>5
<1>4. ASSUME NEW n \in PubKeys, NEW k \in 1..outputs, KeyImageUnlockTx(n, k)
      PROVE  Core'
  BY <1>4, KeyImageUnlockCore
<1>5. CASE BlockEnd
  BY <1>5, BlockEndCore
<1>6. ASSUME NEW n \in PubKeys, HandleUptimeProof(n)
      PROVE  Core'
  BY <1>6, UptimeProofCore
<1>7. CASE UNCHANGED vars
  BY <1>7 DEF vars, Core, TypeOK
<1> QED BY <1>1, <1>2, <1>3, <1>4, <1>5, <1>6, <1>7 DEF Next

LEMMA CoreInvariant == Spec => []Core
BY InitCore, NextCore, PTL DEF Spec

\* The list and everything kept beside it stay of their types: in particular no
\* amount, height or count of an entry ever goes below zero.
THEOREM ListTyped == Spec => []TypeOK
<1>1. Core => TypeOK
  BY DEF Core
<1> QED BY <1>1, CoreInvariant, PTL

\* The subtractions in process_contribution_tx never wrap.
THEOREM ReservationsAlwaysFit == Spec => []ReservationsFit
<1>1. Core => ReservationsFit
  BY DEF Core, EntryOK, Fits, ReservationsFit
<1> QED BY <1>1, CoreInvariant, PTL

\* active_since_height tells funded from unfunded and active from decommissioned
\* nodes, whatever the order of the transactions of a block.
THEOREM ActiveSinceAlwaysConsistent == Spec => []ActiveSinceConsistent
<1>1. Core => ActiveSinceConsistent
  BY DEF Core, EntryOK, ActiveSince, ActiveSinceConsistent
<1> QED BY <1>1, CoreInvariant, PTL
=============================================================================
