--------------------------- MODULE NodeLifeProofs ---------------------------
(***************************************************************************)
(* Proofs about ServiceNodeList that follow one entry from step to step:   *)
(* swarms and uptime proofs.  Every step does one of four things to an     *)
(* entry (EntryStep); the invariants then only look at those four.         *)
(***************************************************************************)
EXTENDS ServiceNodeListProofs

SamePlace(new, old) ==
    /\ new.last_reward_block_height = old.last_reward_block_height
    /\ new.last_reward_transaction_index = old.last_reward_transaction_index

SameState(new, old) ==
    /\ new.total_contributed = old.total_contributed
    /\ new.staking_requirement = old.staking_requirement
    /\ new.active_since_height = old.active_since_height
    /\ new.last_decommission_height = old.last_decommission_height
    /\ new.registration_height = old.registration_height

LEMMA SameStateSame ==
    ASSUME NEW new, NEW old, SameState(new, old)
    PROVE  /\ is_fully_funded(new) = is_fully_funded(old)
           /\ is_decommissioned(new) = is_decommissioned(old)
           /\ is_active(new) = is_active(old)
BY DEF SameState, is_fully_funded, is_decommissioned, is_active

(***************************************************************************)
(* What a step may do to the entry of m.                                   *)
(***************************************************************************)

SameUnlock(m) ==
    \/ infos'[m].requested_unlock_height = infos[m].requested_unlock_height
    \/ /\ infos'[m].requested_unlock_height = get_locked_key_image_unlock_height(height)
       /\ height' = height /\ quorums' = quorums

EntryKept(m) ==
    /\ m \in DOMAIN infos
    /\ SameState(infos'[m], infos[m])
    /\ SamePlace(infos'[m], infos[m]) \/ infos'[m].last_reward_block_height = height'
    /\ SameUnlock(m)
    /\ \/ infos'[m].in_swarm = infos[m].in_swarm
       \/ BlockEnd
    /\ \/ proofs'[m] = proofs[m]
       \/ proofs'[m].timestamp = height

EntryDecommissioned(m) ==
    /\ m \in DOMAIN infos
    /\ ~is_active(infos'[m])
    /\ infos'[m].requested_unlock_height = infos[m].requested_unlock_height
    /\ proofs'[m].timestamp = 0
    /\ height' = height

EntryRecommissioned(m) ==
    /\ m \in DOMAIN infos
    /\ infos'[m].active_since_height = height
    /\ infos'[m].registration_height = infos[m].registration_height
    /\ infos'[m].last_reward_block_height = height
    /\ infos'[m].requested_unlock_height = infos[m].requested_unlock_height
    /\ proofs'[m].timestamp = proofs[m].timestamp
    /\ in_block' /\ need_swarm_update' /\ height' = height

EntryStaked(m) ==
    /\ m \in DOMAIN infos =>
          /\ infos'[m].requested_unlock_height = infos[m].requested_unlock_height
          /\ infos'[m].registration_height = infos[m].registration_height
          /\ proofs'[m] = proofs[m]
    /\ m \notin DOMAIN infos =>
          /\ infos'[m].requested_unlock_height = KEY_IMAGE_AWAITING_UNLOCK_HEIGHT
          /\ proofs'[m].timestamp = 0
    /\ \/ ~is_fully_funded(infos'[m])
       \/ /\ need_swarm_update' /\ infos'[m].last_reward_block_height = height
          /\ infos'[m].active_since_height = height
    /\ in_block' /\ height' = height

Lived(m) == EntryKept(m) \/ EntryDecommissioned(m) \/ EntryRecommissioned(m) \/ EntryStaked(m)

\* The operations, field by field.
LEMMA BackFields ==
    ASSUME NEW info \in Info, NEW h, NEW new, new = send_to_back(info, h)
    PROVE  /\ SameState(new, info) /\ new.last_reward_block_height = h
           /\ new.in_swarm = info.in_swarm
           /\ new.requested_unlock_height = info.requested_unlock_height
BY DEF SameState, send_to_back, Info

LEMMA UnlockFields ==
    ASSUME NEW info \in Info, NEW h, NEW new, new = [info EXCEPT !.requested_unlock_height = h]
    PROVE  /\ SameState(new, info) /\ SamePlace(new, info)
           /\ new.in_swarm = info.in_swarm /\ new.requested_unlock_height = h
BY DEF SameState, SamePlace, Info

LEMMA SwarmFields ==
    ASSUME NEW info \in Info, NEW new, new = [info EXCEPT !.in_swarm = TRUE]
    PROVE  /\ SameState(new, info) /\ SamePlace(new, info)
           /\ new.requested_unlock_height = info.requested_unlock_height /\ new.in_swarm
BY DEF SameState, SamePlace, Info

LEMMA DecommissionFields ==
    ASSUME NEW info \in Info, NEW new, new = decommissioned(info)
    PROVE  /\ new.requested_unlock_height = info.requested_unlock_height
           /\ new.active_since_height = -info.active_since_height
           /\ new.total_contributed = info.total_contributed
           /\ new.staking_requirement = info.staking_requirement
BY DEF decommissioned, Info

LEMMA RecommissionFields ==
    ASSUME NEW info \in Info, NEW new, new = recommissioned(info)
    PROVE  /\ new.requested_unlock_height = info.requested_unlock_height
           /\ new.active_since_height = height
           /\ new.last_reward_block_height = height
           /\ new.registration_height = info.registration_height
BY DEF recommissioned, send_to_back, Info

\* An entry that is left as it is.
LEMMA UntouchedLived ==
    ASSUME NEW m \in DOMAIN infos, infos'[m] = infos[m], proofs'[m] = proofs[m]
    PROVE  Lived(m)
BY DEF Lived, EntryKept, SameState, SamePlace, SameUnlock

\* Every step does one of the four things to an entry.
LEMMA EntryStep ==
    ASSUME Core, [Next]_vars, NEW m \in DOMAIN infos'
    PROVE  Lived(m)
<1>1. /\ IsList(infos) /\ \A l \in DOMAIN infos : infos[l] \in Info /\ EntryOK(infos[l], height)
      /\ proofs \in [PubKeys -> [timestamp : Nat, effective_timestamp : Nat]] /\ height \in Nat
  BY DEF Core, TypeOK, IsList
<1>2. CASE BlockBegin
  <2>1. /\ m \in DOMAIN infos /\ proofs' = proofs /\ height' = height + 1
        /\ infos'[m] = infos[m] \/ infos'[m] = send_to_back(infos[m], height + 1)
    BY <1>2 DEF BlockBegin
  <2>2. CASE infos'[m] = send_to_back(infos[m], height + 1)
    BY <1>1, <2>1, <2>2, BackFields DEF Lived, EntryKept, SameUnlock
  <2> QED BY <2>1, <2>2, UntouchedLived
<1>3. ASSUME NEW n \in PubKeys, NEW reg \in Registrations \cup {NoRegistration},
             NEW address \in Addresses, NEW images \in stake_images,
             NEW transferred \in Transfers, StakeTx(n, reg, address, images, transferred)
      PROVE  Lived(m)
  <2>1. CASE m # n
    <3>1. m \in DOMAIN infos /\ m \in PubKeys
      BY <1>1, <1>3, <2>1, StakeStep DEF IsList
    <3>2. infos'[m] = infos[m] /\ proofs'[m] = proofs[m]
      BY <1>3, <2>1, <3>1, StakeStep
    <3> QED BY <3>1, <3>2, UntouchedLived
  <2>2. CASE m = n
    <3>1. in_block' /\ height' = height
      BY <1>3 DEF StakeTx, NextTx
    <3>2. /\ infos'[n].requested_unlock_height =
                IF n \in DOMAIN infos THEN infos[n].requested_unlock_height
                ELSE KEY_IMAGE_AWAITING_UNLOCK_HEIGHT
          /\ infos'[n].registration_height =
                IF n \in DOMAIN infos THEN infos[n].registration_height ELSE height
          /\ n \notin DOMAIN infos => proofs'[n] = NewProof
          /\ n \in DOMAIN infos => proofs'[n] = proofs[n]
      BY <1>3, <2>2, StakeStep
    <3>3. \/ n \in DOMAIN infos /\ infos'[n] = infos[n]
          \/ ~is_fully_funded(infos'[n])
          \/ /\ need_swarm_update' /\ infos'[n].last_reward_block_height = height
             /\ infos'[n].active_since_height = height
      BY <1>3, <2>2, StakeStep
    <3>4. CASE n \in DOMAIN infos /\ infos'[n] = infos[n]
      BY <2>2, <3>2, <3>4, UntouchedLived
    <3>5. CASE ~(n \in DOMAIN infos /\ infos'[n] = infos[n])
      BY <2>2, <3>1, <3>2, <3>3, <3>5 DEF Lived, EntryStaked, NewProof
    <3> QED BY <3>4, <3>5
  <2> QED BY <2>1, <2>2
<1>4. ASSUME NEW n \in PubKeys, NEW vote_height, Deregister(n, vote_height)
      PROVE  Lived(m)
  BY <1>4, UntouchedLived DEF Deregister
<1>5. ASSUME NEW n \in PubKeys, NEW vote_height, NEW state,
             StateChangeOfUnregistered(n, vote_height, state)
      PROVE  Lived(m)
  BY <1>5, UntouchedLived DEF StateChangeOfUnregistered
<1>6. ASSUME NEW n \in PubKeys, NEW vote_height, Decommission(n, vote_height)
      PROVE  Lived(m)
  <2>1. n \in DOMAIN infos /\ height' = height
    BY <1>6 DEF Decommission, StateChangeTx
  <2>2. CASE is_decommissioned(infos[n]) \/ m # n
    <3>1. m \in DOMAIN infos /\ infos'[m] = infos[m] /\ proofs'[m] = proofs[m]
      BY <1>1, <1>6, <2>1, <2>2 DEF Decommission, IsList
    <3> QED BY <3>1, UntouchedLived
  <2>3. CASE ~is_decommissioned(infos[n]) /\ m = n
    <3>1. infos'[n] = decommissioned(infos[n]) /\ proofs'[n] = zero_timestamps(proofs[n])
      BY <1>1, <1>6, <2>1, <2>3 DEF Decommission, IsList
    <3>2. proofs'[n].timestamp = 0
      BY <1>1, <3>1 DEF zero_timestamps
    <3>3. /\ infos'[n].requested_unlock_height = infos[n].requested_unlock_height
          /\ infos'[n].active_since_height = -infos[n].active_since_height
          /\ infos'[n].total_contributed = infos[n].total_contributed
          /\ infos'[n].staking_requirement = infos[n].staking_requirement
      BY <1>1, <2>1, <3>1, DecommissionFields
    <3>4. PICK x \in Int : x = infos[n].active_since_height /\ ~(x < 0) /\ (x # 0) = is_fully_funded(infos[n])
      BY <1>1, <2>1, <2>3 DEF Info, EntryOK, ActiveSince, is_decommissioned
    <3>5. x # 0 => -x < 0
      BY <3>4
    <3>6. is_fully_funded(infos'[n]) = is_fully_funded(infos[n])
      BY <3>3 DEF is_fully_funded
    <3>7. ~is_active(infos'[n])
      BY <3>3, <3>4, <3>5, <3>6 DEF is_active, is_decommissioned
    <3> QED BY <2>1, <2>3, <3>2, <3>3, <3>7 DEF Lived, EntryDecommissioned
  <2> QED BY <2>2, <2>3
<1>7. ASSUME NEW n \in PubKeys, NEW vote_height, Recommission(n, vote_height)
      PROVE  Lived(m)
  <2>1. n \in DOMAIN infos /\ height' = height /\ in_block'
    BY <1>7 DEF Recommission, StateChangeTx, NextTx
  <2>2. CASE ~is_decommissioned(infos[n]) \/ m # n
    <3>1. m \in DOMAIN infos /\ infos'[m] = infos[m] /\ proofs'[m] = proofs[m]
      BY <1>1, <1>7, <2>1, <2>2 DEF Recommission, IsList
    <3> QED BY <3>1, UntouchedLived
  <2>3. CASE is_decommissioned(infos[n]) /\ m = n
    <3>1. /\ infos'[n] = recommissioned(infos[n]) /\ need_swarm_update'
          /\ proofs'[n] = [proofs[n] EXCEPT !.effective_timestamp = height]
      BY <1>1, <1>7, <2>1, <2>3 DEF Recommission, IsList
    <3>2. proofs'[n].timestamp = proofs[n].timestamp
      BY <1>1, <3>1
    <3>3. /\ infos'[n].requested_unlock_height = infos[n].requested_unlock_height
          /\ infos'[n].active_since_height = height
          /\ infos'[n].last_reward_block_height = height
          /\ infos'[n].registration_height = infos[n].registration_height
      BY <1>1, <2>1, <3>1, RecommissionFields
    <3> QED BY <2>1, <2>3, <3>1, <3>2, <3>3 DEF Lived, EntryRecommissioned
  <2> QED BY <2>2, <2>3
<1>8. ASSUME NEW n \in PubKeys, NEW vote_height, IpChangePenalty(n, vote_height)
      PROVE  Lived(m)
  <2>1. n \in DOMAIN infos /\ height' = height /\ proofs' = proofs
    BY <1>8 DEF IpChangePenalty, StateChangeTx
  <2>2. CASE is_decommissioned(infos[n]) \/ m # n
    <3>1. m \in DOMAIN infos /\ infos'[m] = infos[m]
      BY <1>1, <1>8, <2>1, <2>2 DEF IpChangePenalty, IsList
    <3> QED BY <2>1, <3>1, UntouchedLived
  <2>3. CASE ~is_decommissioned(infos[n]) /\ m = n
    <3>1. infos'[n] = [send_to_back(infos[n], height) EXCEPT !.last_ip_change_height = height]
      BY <1>1, <1>8, <2>1, <2>3 DEF IpChangePenalty, IsList
    <3>2. /\ SameState(infos'[n], infos[n]) /\ infos'[n].last_reward_block_height = height
          /\ infos'[n].in_swarm = infos[n].in_swarm
          /\ infos'[n].requested_unlock_height = infos[n].requested_unlock_height
      BY <1>1, <2>1, <3>1 DEF SameState, send_to_back, Info
    <3> QED BY <2>1, <2>3, <3>2 DEF Lived, EntryKept, SameUnlock
  <2> QED BY <2>2, <2>3
<1>9. ASSUME NEW n \in PubKeys, NEW k, KeyImageUnlockTx(n, k)
      PROVE  Lived(m)
  <2>1. height' = height /\ proofs' = proofs /\ quorums' = quorums
    BY <1>9 DEF KeyImageUnlockTx
  <2>2. /\ m \in DOMAIN infos
        /\ \/ infos'[m] = infos[m]
           \/ infos'[m] = [infos[m] EXCEPT !.requested_unlock_height =
                              get_locked_key_image_unlock_height(height)]
    BY <1>1, <1>9 DEF KeyImageUnlockTx, IsList
  <2>3. CASE infos'[m] = infos[m]
    BY <2>1, <2>2, <2>3, UntouchedLived
  <2>4. CASE infos'[m] = [infos[m] EXCEPT !.requested_unlock_height =
                             get_locked_key_image_unlock_height(height)]
    <3>1. /\ SameState(infos'[m], infos[m]) /\ SamePlace(infos'[m], infos[m])
          /\ infos'[m].in_swarm = infos[m].in_swarm
          /\ infos'[m].requested_unlock_height = get_locked_key_image_unlock_height(height)
      BY <1>1, <2>2, <2>4, UnlockFields
    <3> QED BY <2>1, <2>2, <3>1 DEF Lived, EntryKept, SameUnlock
  <2> QED BY <2>2, <2>3, <2>4
<1>10. CASE BlockEnd
  <2>1. /\ m \in DOMAIN infos /\ proofs' = proofs
        /\ infos'[m] = infos[m] \/ infos'[m] = [infos[m] EXCEPT !.in_swarm = TRUE]
    BY <1>10, SwarmStep DEF BlockEnd
  <2>2. CASE infos'[m] = [infos[m] EXCEPT !.in_swarm = TRUE]
    <3>1. /\ SameState(infos'[m], infos[m]) /\ SamePlace(infos'[m], infos[m])
          /\ infos'[m].requested_unlock_height = infos[m].requested_unlock_height
      BY <1>1, <2>1, <2>2, SwarmFields
    <3> QED BY <1>10, <2>1, <3>1 DEF Lived, EntryKept, SameUnlock
  <2> QED BY <2>1, <2>2, UntouchedLived
<1>11. ASSUME NEW n \in PubKeys, HandleUptimeProof(n)
       PROVE  Lived(m)
  <2>1. infos' = infos /\ proofs' = [proofs EXCEPT ![n] =
                                       [timestamp |-> height, effective_timestamp |-> height]]
    BY <1>11 DEF HandleUptimeProof
  <2>2. m \in PubKeys
    BY <1>1, <2>1 DEF IsList
  <2>3. proofs'[m] = proofs[m] \/ proofs'[m].timestamp = height
    BY <1>1, <2>1, <2>2
  <2> QED BY <2>1, <2>3 DEF Lived, EntryKept, SameState, SamePlace, SameUnlock
<1>12. CASE UNCHANGED vars
  BY <1>12, UntouchedLived DEF vars
<1> QED BY <1>2, <1>3, <1>4, <1>5, <1>6, <1>7, <1>8, <1>9, <1>10, <1>11, <1>12 DEF Next

(***************************************************************************)
(* Swarms.                                                                 *)
(***************************************************************************)

\* An active node without a swarm gets one before the block is done.
SwarmsPending ==
    \A n \in DOMAIN infos :
        is_active(infos[n]) /\ ~infos[n].in_swarm => in_block /\ need_swarm_update

LEMMA NextSwarms == Core /\ SwarmsPending /\ [Next]_vars => SwarmsPending'
<1> SUFFICES ASSUME Core, SwarmsPending, [Next]_vars, NEW n \in DOMAIN infos',
                    is_active(infos'[n]), ~infos'[n].in_swarm
             PROVE  in_block' /\ need_swarm_update'
  BY DEF SwarmsPending
<1>1. \/ in_block' /\ (need_swarm_update => need_swarm_update')
      \/ BlockBegin
      \/ BlockEnd
      \/ in_block' = in_block /\ need_swarm_update' = need_swarm_update
  <2>1. ASSUME NEW m \in PubKeys, NEW reg \in Registrations \cup {NoRegistration},
               NEW address \in Addresses, NEW images \in stake_images,
               NEW transferred \in Transfers, StakeTx(m, reg, address, images, transferred)
        PROVE  in_block' /\ (need_swarm_update => need_swarm_update')
    BY <2>1 DEF StakeTx, NextTx
  <2>2. ASSUME NEW m, NEW vote_height, NEW state, StateChangeTx(m, vote_height, state)
        PROVE  in_block'
    BY <2>2 DEF StateChangeTx, NextTx
  <2>3. ASSUME NEW m \in PubKeys, NEW vote_height,
               \/ \E state \in NewStates : StateChangeOfUnregistered(m, vote_height, state)
               \/ Deregister(m, vote_height)
               \/ Decommission(m, vote_height)
               \/ Recommission(m, vote_height)
               \/ IpChangePenalty(m, vote_height)
        PROVE  in_block' /\ (need_swarm_update => need_swarm_update')
    BY <2>2, <2>3 DEF StateChangeOfUnregistered, Deregister, Decommission, Recommission,
                      IpChangePenalty
  <2>4. ASSUME NEW m, NEW k, KeyImageUnlockTx(m, k)
        PROVE  in_block' = in_block /\ need_swarm_update' = need_swarm_update
    BY <2>4 DEF KeyImageUnlockTx
  <2>5. ASSUME NEW m, HandleUptimeProof(m)
        PROVE  in_block' = in_block /\ need_swarm_update' = need_swarm_update
    BY <2>5 DEF HandleUptimeProof
  <2> QED BY <2>1, <2>3, <2>4, <2>5 DEF Next, vars
<1>2. CASE BlockBegin
  <2>1. ~in_block /\ n \in DOMAIN infos
    BY <1>2 DEF BlockBegin
  <2>2. infos'[n] = infos[n] \/ infos'[n] = send_to_back(infos[n], height + 1)
    BY <1>2 DEF BlockBegin
  <2>3. infos[n] \in Info
    BY <2>1 DEF Core, TypeOK, IsList
  <2>4. SameState(infos'[n], infos[n]) /\ infos'[n].in_swarm = infos[n].in_swarm
    BY <2>2, <2>3, BackFields DEF SameState
  <2>5. is_active(infos[n]) /\ ~infos[n].in_swarm
    BY <2>4, SameStateSame
  <2> QED BY <2>1, <2>5 DEF SwarmsPending
<1>3. CASE BlockEnd
  <2>1. n \in DOMAIN infos /\ infos[n] \in Info
    BY <1>3, SwarmStep DEF Core, TypeOK, IsList
  <2>2. infos'[n] = IF need_swarm_update /\ is_active(infos[n])
                    THEN [infos[n] EXCEPT !.in_swarm = TRUE] ELSE infos[n]
    BY <1>3, <2>1, SwarmStep
  <2>3. CASE need_swarm_update /\ is_active(infos[n])
    BY <2>1, <2>2, <2>3, SwarmFields
  <2>4. CASE ~(need_swarm_update /\ is_active(infos[n]))
    BY <2>1, <2>2, <2>4 DEF SwarmsPending
  <2> QED BY <2>3, <2>4
<1>4. CASE ~BlockBegin /\ ~BlockEnd
  <2>1. CASE EntryKept(n)
    <3>1. n \in DOMAIN infos /\ is_active(infos[n]) /\ ~infos[n].in_swarm
      BY <1>4, <2>1, SameStateSame DEF EntryKept
    <3> QED BY <1>1, <1>4, <3>1, SMTT(20) DEF SwarmsPending
  <2>2. CASE EntryDecommissioned(n)
    BY <2>2 DEF EntryDecommissioned
  <2>3. CASE EntryRecommissioned(n)
    BY <2>3 DEF EntryRecommissioned
  <2>4. CASE EntryStaked(n)
    BY <2>4 DEF EntryStaked, is_active
  <2> QED BY <2>1, <2>2, <2>3, <2>4, EntryStep DEF Lived
<1> QED BY <1>2, <1>3, <1>4

\* Between blocks exactly the active nodes serve in swarms.
THEOREM SwarmsAlwaysActive == Spec => []SwarmsAreActive
<1>1. Init => SwarmsPending
  BY DEF Init, SwarmsPending, EmptyMap
<1>2. Core /\ SwarmsPending => SwarmsAreActive
  <2> SUFFICES ASSUME Core, SwarmsPending, ~in_block, NEW n \in DOMAIN infos
               PROVE  infos[n].in_swarm = is_active(infos[n])
    BY DEF SwarmsAreActive
  <2>1. infos[n].in_swarm \in BOOLEAN
    BY DEF Core, TypeOK, IsList, Info
  <2>2. is_active(infos[n]) \in BOOLEAN
    BY DEF is_active
  <2>3. infos[n].in_swarm => is_active(infos[n])
    BY DEF Core, EntryOK
  <2>4. is_active(infos[n]) => infos[n].in_swarm
    BY DEF SwarmsPending
  <2> QED BY <2>1, <2>2, <2>3, <2>4
<1> QED BY <1>1, <1>2, NextSwarms, CoreInvariant, PTL DEF Spec

(***************************************************************************)
(* Uptime proofs.                                                          *)
(***************************************************************************)

LEMMA NextProofs == Core /\ Core' /\ ProofsAreCurrent /\ [Next]_vars => ProofsAreCurrent'
<1> SUFFICES ASSUME Core, Core', ProofsAreCurrent, [Next]_vars, NEW n \in DOMAIN infos',
                    proofs'[n].timestamp # 0
             PROVE  /\ proofs'[n].timestamp >= infos'[n].registration_height
                    /\ is_decommissioned(infos'[n]) =>
                          proofs'[n].timestamp >= infos'[n].last_decommission_height
  BY DEF ProofsAreCurrent
<1>1. /\ infos'[n] \in Info /\ EntryOK(infos'[n], height') /\ height \in Nat
  BY DEF Core, TypeOK, IsList
<1>2. n \in DOMAIN infos => infos[n] \in Info /\ EntryOK(infos[n], height)
  BY DEF Core, TypeOK, IsList
<1>3. CASE EntryKept(n)
  <2>1. n \in DOMAIN infos /\ SameState(infos'[n], infos[n])
    BY <1>3 DEF EntryKept
  <2>2. CASE proofs'[n] = proofs[n]
    BY <2>1, <2>2, SameStateSame DEF ProofsAreCurrent, SameState
  <2>3. CASE proofs'[n].timestamp = height
    <3>1. PICK r \in Nat, d \in Nat :
             /\ r = infos[n].registration_height /\ d = infos[n].last_decommission_height
             /\ r <= height
             /\ is_decommissioned(infos[n]) => d <= height
      BY <1>2, <2>1 DEF EntryOK, ActiveSince, Info
    <3>2. /\ infos'[n].registration_height = r /\ infos'[n].last_decommission_height = d
          /\ is_decommissioned(infos'[n]) => is_decommissioned(infos[n])
      BY <2>1, <3>1, SameStateSame DEF SameState
    <3>3. proofs'[n].timestamp >= r
      BY <1>1, <2>3, <3>1
    <3>4. is_decommissioned(infos'[n]) => proofs'[n].timestamp >= d
      BY <1>1, <2>3, <3>1, <3>2
    <3> QED BY <3>2, <3>3, <3>4
  <2> QED BY <1>3, <2>2, <2>3 DEF EntryKept
<1>4. CASE EntryDecommissioned(n)
  BY <1>4 DEF EntryDecommissioned
<1>5. CASE EntryRecommissioned(n)
  <2>1. ~is_decommissioned(infos'[n])
    BY <1>1, <1>5 DEF EntryRecommissioned, is_decommissioned
  <2> QED BY <1>5, <2>1 DEF EntryRecommissioned, ProofsAreCurrent
<1>6. CASE EntryStaked(n)
  <2>1. n \in DOMAIN infos /\ proofs'[n] = proofs[n]
        /\ infos'[n].registration_height = infos[n].registration_height
    BY <1>6 DEF EntryStaked
  <2>2. ~is_decommissioned(infos'[n])
    <3>1. CASE ~is_fully_funded(infos'[n])
      <4>1. infos'[n].active_since_height = 0
        BY <1>1, <3>1, FundedBoolean DEF EntryOK, ActiveSince
      <4> QED BY <4>1 DEF is_decommissioned
    <3>2. CASE infos'[n].active_since_height = height
      BY <1>1, <3>2 DEF is_decommissioned
    <3> QED BY <1>6, <3>1, <3>2 DEF EntryStaked
  <2> QED BY <2>1, <2>2 DEF ProofsAreCurrent
<1> QED BY <1>3, <1>4, <1>5, <1>6, EntryStep DEF Lived

\* No proof of an earlier registration, or of the time before a decommissioning,
\* ever speaks for a node.
THEOREM ProofsAlwaysCurrent == Spec => []ProofsAreCurrent
<1>1. Init => ProofsAreCurrent
  BY DEF Init, ProofsAreCurrent, EmptyMap
<1> QED BY <1>1, NextProofs, CoreInvariant, PTL DEF Spec
=============================================================================
