------------------------- MODULE StakeReleaseProofs -------------------------
(***************************************************************************)
(* Proofs about ServiceNodeList that follow the locked key images: a step  *)
(* that neither stakes nor deregisters does not touch them (QuietStep).    *)
(***************************************************************************)
EXTENDS ServiceNodeListProofs

\* A step that neither stakes nor deregisters.
Quiet ==
    \/ BlockBegin
    \/ \E n \in PubKeys, vote_height \in DOMAIN quorums :
          \/ \E state \in NewStates : StateChangeOfUnregistered(n, vote_height, state)
          \/ Decommission(n, vote_height)
          \/ Recommission(n, vote_height)
          \/ IpChangePenalty(n, vote_height)
    \/ \E n \in PubKeys, k \in 1..outputs : KeyImageUnlockTx(n, k)
    \/ BlockEnd
    \/ \E n \in PubKeys : HandleUptimeProof(n)
    \/ UNCHANGED vars

SameStakes(new, old) ==
    /\ new.locked = old.locked
    /\ new.registration_height = old.registration_height
    /\ new.total_contributed = old.total_contributed
    /\ new.staking_requirement = old.staking_requirement

\* The operations of quiet steps do not touch the stakes.
LEMMA OperationsKeepStakes ==
    ASSUME NEW info \in Info, NEW h
    PROVE  /\ SameStakes(info, info)
           /\ SameStakes(send_to_back(info, h), info)
           /\ SameStakes(decommissioned(info), info)
           /\ SameStakes(recommissioned(info), info)
           /\ SameStakes([send_to_back(info, h) EXCEPT !.last_ip_change_height = h], info)
           /\ SameStakes([info EXCEPT !.requested_unlock_height = h], info)
           /\ SameStakes([info EXCEPT !.in_swarm = TRUE], info)
<1>1. SameStakes(info, info) /\ SameStakes(send_to_back(info, h), info)
  BY DEF SameStakes, send_to_back, Info
<1>2. SameStakes(decommissioned(info), info)
  BY DEF SameStakes, decommissioned, Info
<1>3. SameStakes(recommissioned(info), info)
  BY DEF SameStakes, recommissioned, send_to_back, Info
<1>4. SameStakes([send_to_back(info, h) EXCEPT !.last_ip_change_height = h], info)
  BY DEF SameStakes, send_to_back, Info
<1>5. SameStakes([info EXCEPT !.requested_unlock_height = h], info)
  BY DEF SameStakes, Info
<1>6. SameStakes([info EXCEPT !.in_swarm = TRUE], info)
  BY DEF SameStakes, Info
<1> QED BY <1>1, <1>2, <1>3, <1>4, <1>5, <1>6

LEMMA QuietStep ==
    ASSUME Core, Quiet
    PROVE  /\ outputs' = outputs /\ blacklist' \subseteq blacklist
           /\ DOMAIN infos' \subseteq DOMAIN infos
           /\ \A m \in DOMAIN infos' : SameStakes(infos'[m], infos[m])
           /\ \A m \in DOMAIN infos \ DOMAIN infos' :
                 /\ infos[m].requested_unlock_height # KEY_IMAGE_AWAITING_UNLOCK_HEIGHT
                 /\ height' > infos[m].requested_unlock_height
           /\ \/ height' = height
              \/ height' = height + 1 /\ \A e \in blacklist' : height' < e.unlock_height
           /\ \A e \in blacklist \ blacklist' : height' >= e.unlock_height
<1>1. IsList(infos) /\ \A m \in DOMAIN infos : infos[m] \in Info /\ SameStakes(infos[m], infos[m])
  BY DEF Core, TypeOK, IsList, SameStakes
<1>2. CASE BlockBegin
  <2>1. /\ DOMAIN infos' = DOMAIN infos \ get_expired_nodes(infos, height + 1)
        /\ \A m \in DOMAIN infos' :
              infos'[m] = infos[m] \/ infos'[m] = send_to_back(infos[m], height + 1)
        /\ outputs' = outputs /\ height' = height + 1
        /\ blacklist' = {e \in blacklist : height + 1 < e.unlock_height}
    BY <1>2 DEF BlockBegin
  <2>2. \A m \in DOMAIN infos' : SameStakes(infos'[m], infos[m])
    BY <1>1, <2>1, OperationsKeepStakes
  <2>3. \A e \in blacklist : height + 1 \in Nat /\ e.unlock_height \in Nat
    BY DEF Core, TypeOK
  <2>4. \A e \in blacklist \ blacklist' : height' >= e.unlock_height
    BY <2>1, <2>3
  <2> QED BY <2>1, <2>2, <2>4 DEF get_expired_nodes
<1>3. ASSUME NEW n \in PubKeys, NEW e, n \in DOMAIN infos, SameStakes(e, infos[n]),
             infos' = [infos EXCEPT ![n] = e],
             outputs' = outputs, blacklist' = blacklist, height' = height
      PROVE  /\ outputs' = outputs /\ blacklist' = blacklist
             /\ DOMAIN infos' = DOMAIN infos /\ height' = height
             /\ \A m \in DOMAIN infos' : SameStakes(infos'[m], infos[m])
  BY <1>1, <1>3
<1>4. CASE infos' = infos /\ outputs' = outputs /\ blacklist' = blacklist /\ height' = height
  BY <1>1, <1>4
<1>5. ASSUME NEW n \in PubKeys, NEW vote_height, Decommission(n, vote_height)
      PROVE  /\ outputs' = outputs /\ blacklist' = blacklist
             /\ DOMAIN infos' = DOMAIN infos /\ height' = height
             /\ \A m \in DOMAIN infos' : SameStakes(infos'[m], infos[m])
  <2>1. outputs' = outputs /\ blacklist' = blacklist /\ height' = height /\ n \in DOMAIN infos
    BY <1>5 DEF Decommission, StateChangeTx
  <2>2. infos' = infos \/ infos' = [infos EXCEPT ![n] = decommissioned(infos[n])]
    BY <1>5 DEF Decommission
  <2>3. SameStakes(decommissioned(infos[n]), infos[n])
    BY <1>1, <2>1, OperationsKeepStakes
  <2> QED BY <1>1, <1>3, <2>1, <2>2, <2>3
<1>6. ASSUME NEW n \in PubKeys, NEW vote_height, Recommission(n, vote_height)
      PROVE  /\ outputs' = outputs /\ blacklist' = blacklist
             /\ DOMAIN infos' = DOMAIN infos /\ height' = height
             /\ \A m \in DOMAIN infos' : SameStakes(infos'[m], infos[m])
  <2>1. outputs' = outputs /\ blacklist' = blacklist /\ height' = height /\ n \in DOMAIN infos
    BY <1>6 DEF Recommission, StateChangeTx
  <2>2. infos' = infos \/ infos' = [infos EXCEPT ![n] = recommissioned(infos[n])]
    BY <1>6 DEF Recommission
  <2>3. SameStakes(recommissioned(infos[n]), infos[n])
    BY <1>1, <2>1, OperationsKeepStakes
  <2> QED BY <1>1, <1>3, <2>1, <2>2, <2>3
<1>7. ASSUME NEW n \in PubKeys, NEW vote_height, IpChangePenalty(n, vote_height)
      PROVE  /\ outputs' = outputs /\ blacklist' = blacklist
             /\ DOMAIN infos' = DOMAIN infos /\ height' = height
             /\ \A m \in DOMAIN infos' : SameStakes(infos'[m], infos[m])
  <2>1. outputs' = outputs /\ blacklist' = blacklist /\ height' = height /\ n \in DOMAIN infos
    BY <1>7 DEF IpChangePenalty, StateChangeTx
  <2>2. PICK e : /\ e = [send_to_back(infos[n], height) EXCEPT !.last_ip_change_height = height]
                 /\ infos' = infos \/ infos' = [infos EXCEPT ![n] = e]
    BY <1>7 DEF IpChangePenalty
  <2>3. SameStakes(e, infos[n])
    BY <1>1, <2>1, <2>2, OperationsKeepStakes
  <2> QED BY <1>1, <1>3, <2>1, <2>2, <2>3
<1>8. ASSUME NEW n \in PubKeys, NEW k, KeyImageUnlockTx(n, k)
      PROVE  /\ outputs' = outputs /\ blacklist' = blacklist
             /\ DOMAIN infos' = DOMAIN infos /\ height' = height
             /\ \A m \in DOMAIN infos' : SameStakes(infos'[m], infos[m])
  <2>1. outputs' = outputs /\ blacklist' = blacklist /\ height' = height
    BY <1>8 DEF KeyImageUnlockTx
  <2>2. PICK e : /\ e = [infos[n] EXCEPT !.requested_unlock_height =
                            get_locked_key_image_unlock_height(height)]
                 /\ infos' = infos \/ (n \in DOMAIN infos /\ infos' = [infos EXCEPT ![n] = e])
    BY <1>8 DEF KeyImageUnlockTx
  <2>3. n \in DOMAIN infos => SameStakes(e, infos[n])
    BY <1>1, <2>2, OperationsKeepStakes
  <2> QED BY <1>1, <1>3, <2>1, <2>2, <2>3
<1>9. CASE BlockEnd
  <2>1. outputs' = outputs /\ blacklist' = blacklist /\ height' = height
    BY <1>9 DEF BlockEnd
  <2>2. DOMAIN infos' = DOMAIN infos
    BY <1>9, SwarmStep
  <2>3. \A m \in DOMAIN infos :
           infos'[m] = infos[m] \/ infos'[m] = [infos[m] EXCEPT !.in_swarm = TRUE]
    BY <1>9, SwarmStep
  <2>4. \A m \in DOMAIN infos : SameStakes(infos'[m], infos[m])
    BY <1>1, <2>3, OperationsKeepStakes
  <2> QED BY <2>1, <2>2, <2>4
<1>10. ASSUME NEW n \in PubKeys, HandleUptimeProof(n)
       PROVE  infos' = infos /\ outputs' = outputs /\ blacklist' = blacklist /\ height' = height
  BY <1>10 DEF HandleUptimeProof
<1>11. ASSUME NEW n \in PubKeys, NEW vote_height, NEW state,
              StateChangeOfUnregistered(n, vote_height, state)
       PROVE  infos' = infos /\ outputs' = outputs /\ blacklist' = blacklist /\ height' = height
  BY <1>11 DEF StateChangeOfUnregistered, StateChangeTx
<1>12. UNCHANGED vars =>
          infos' = infos /\ outputs' = outputs /\ blacklist' = blacklist /\ height' = height
  BY DEF vars
<1> QED BY <1>2, <1>4, <1>5, <1>6, <1>7, <1>8, <1>9, <1>10, <1>11, <1>12 DEF Quiet

\* What is blacklisted is not due yet.
BlacklistPending == \A e \in blacklist : height < e.unlock_height

LEMMA DeregisterPending ==
    ASSUME Core, BlacklistPending, NEW n, NEW vote_height, Deregister(n, vote_height)
    PROVE  BlacklistPending'
<1>1. height' = height /\ blacklist' = blacklist \cup blacklisted_stakes(infos[n])
  BY DEF Deregister, StateChangeTx
<1>2. \A e \in blacklisted_stakes(infos[n]) : e.unlock_height = height + LockBlocks
  BY DEF blacklisted_stakes
<1>3. height < height + LockBlocks
  BY Constants DEF Core, TypeOK
<1> QED BY <1>1, <1>2, <1>3 DEF BlacklistPending

\* Every step is one of the three.
LEMMA ThreeKinds ==
    ASSUME [Next]_vars
    PROVE  \/ Quiet
           \/ \E n \in PubKeys, vote_height \in DOMAIN quorums : Deregister(n, vote_height)
           \/ \E images \in stake_images, n \in PubKeys,
                 reg \in Registrations \cup {NoRegistration}, address \in Addresses,
                 transferred \in Transfers :
                 StakeTx(n, reg, address, images, transferred)
BY DEF Next, Quiet

LEMMA PendingInvariant == Spec => []BlacklistPending
<1>1. Init => BlacklistPending
  BY DEF Init, BlacklistPending
<1>2. ASSUME Core, BlacklistPending, Quiet PROVE BlacklistPending'
  BY <1>2, QuietStep DEF BlacklistPending
<1>3. ASSUME BlacklistPending, NEW n, NEW reg, NEW address, NEW images, NEW transferred,
             StakeTx(n, reg, address, images, transferred)
      PROVE  BlacklistPending'
  BY <1>3 DEF StakeTx, BlacklistPending
<1>4. Core /\ BlacklistPending /\ [Next]_vars => BlacklistPending'
  BY <1>2, <1>3, ThreeKinds, DeregisterPending
<1> QED BY <1>1, <1>4, CoreInvariant, PTL DEF Spec

\* Every unlock is carried out at its height.
THEOREM UnlocksAlwaysCarriedOut == Spec => []UnlocksCarriedOut
<1>1. Core /\ BlacklistPending => UnlocksCarriedOut
  BY DEF Core, BlacklistPending, EntryOK, UnlocksCarriedOut
<1> QED BY <1>1, CoreInvariant, PendingInvariant, PTL

\* A key image is let go by its node when its unlock is due or for the blacklist,
\* and by the blacklist at its own height, however often it was used.
THEOREM StakesAlwaysReleasedOnTime == Spec => StakesReleasedOnTime
<1> DEFINE Released ==
      \A n \in DOMAIN infos : \A k \in infos[n].locked :
          \/ n \in DOMAIN infos' /\ k \in infos'[n].locked
          \/ /\ infos[n].requested_unlock_height # KEY_IMAGE_AWAITING_UNLOCK_HEIGHT
             /\ height' > infos[n].requested_unlock_height
          \/ \E e \in blacklist' : e.key_image = k /\ e.unlock_height >= height' + LockBlocks
           Served == \A e \in blacklist : e \in blacklist' \/ height' >= e.unlock_height
<1>1. Core /\ Quiet => Released
  BY QuietStep DEF SameStakes
<1>2. ASSUME Core, NEW n, NEW vote_height, Deregister(n, vote_height)
      PROVE  Released
  <2> SUFFICES ASSUME NEW m \in DOMAIN infos, NEW k \in infos[m].locked
               PROVE  \/ m \in DOMAIN infos' /\ k \in infos'[m].locked
                      \/ \E e \in blacklist' : e.key_image = k /\ e.unlock_height >= height' + LockBlocks
    OBVIOUS
  <2>1. /\ height' = height /\ n \in DOMAIN infos
        /\ infos' = [l \in DOMAIN infos \ {n} |-> infos[l]]
        /\ blacklist' = blacklist \cup blacklisted_stakes(infos[n])
    BY <1>2 DEF Deregister, StateChangeTx
  <2>2. CASE m = n
    <3>1. PICK e : e = [key_image |-> k, unlock_height |-> height + LockBlocks]
      OBVIOUS
    <3>2. e \in blacklist' /\ e.key_image = k /\ e.unlock_height = height' + LockBlocks
      BY <2>1, <2>2, <3>1 DEF blacklisted_stakes
    <3>3. height' + LockBlocks \in Nat
      BY <1>2, <2>1, Constants DEF Core, TypeOK
    <3> QED BY <3>2, <3>3
  <2>3. CASE m # n
    BY <2>1, <2>3
  <2> QED BY <2>2, <2>3
<1>3. ASSUME Core, NEW n \in PubKeys, NEW reg \in Registrations \cup {NoRegistration},
             NEW address \in Addresses, NEW images \in stake_images,
             NEW transferred \in Transfers, StakeTx(n, reg, address, images, transferred)
      PROVE  Released
  <2>1. /\ DOMAIN infos \subseteq DOMAIN infos'
        /\ \A m \in DOMAIN infos : infos[m].locked \subseteq infos'[m].locked
    BY <1>3, StakeStep
  <2> QED BY <2>1
<1>4. Core /\ [Next]_vars => Released
  BY <1>1, <1>2, <1>3, ThreeKinds
<1>5. Core /\ [Next]_vars => Served
  <2>1. Core /\ Quiet => Served
    BY QuietStep
  <2>2. ASSUME NEW n, NEW vote_height, Deregister(n, vote_height)
        PROVE  Served
    BY <2>2 DEF Deregister
  <2>3. ASSUME NEW n, NEW reg, NEW address, NEW images, NEW transferred,
               StakeTx(n, reg, address, images, transferred)
        PROVE  Served
    BY <2>3 DEF StakeTx
  <2> QED BY <2>1, <2>2, <2>3, ThreeKinds
<1>6. Core /\ [Next]_vars => [Released /\ Served]_vars
  BY <1>4, <1>5
<1> QED BY <1>6, CoreInvariant, PTL DEF Spec, StakesReleasedOnTime
=============================================================================
