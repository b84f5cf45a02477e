----------------------------- MODULE QueueProofs -----------------------------
(***************************************************************************)
(* Proofs about ServiceNodeList that follow one entry from step to step    *)
(* (EntryStep of NodeLifeProofs): blink quorums and the reward queue.      *)
(***************************************************************************)
EXTENDS NodeLifeProofs

(***************************************************************************)
(* Blink quorums.                                                          *)
(***************************************************************************)

BlinkInv == DOMAIN quorums \subseteq 0..height /\ BlinkQuorumsDontExpire

\* The members of a quorum drawn now stay beyond the buffer.
LEMMA DrawnStay ==
    ASSUME NEW list, NEW b \in blink_draws(list), NEW n \in b.validators
    PROVE  \/ list[n].requested_unlock_height = KEY_IMAGE_AWAITING_UNLOCK_HEIGHT
           \/ list[n].requested_unlock_height > height + BlinkExpiryBuffer
<1> DEFINE staying == {l \in active_service_nodes(list) :
                          LET ruh == list[l].requested_unlock_height IN
                          ruh = KEY_IMAGE_AWAITING_UNLOCK_HEIGHT \/ ruh > height + BlinkExpiryBuffer}
<1>1. b.validators \subseteq staying
  BY DEF blink_draws, kSubset, Drawn, NoQuorum
<1> QED BY <1>1

\* What happens to the quorums on record.
LEMMA QuorumStep ==
    ASSUME Core, [Next]_vars
    PROVE  \/ quorums' = quorums /\ height' = height
           \/ BlockBegin
           \/ BlockEnd
<1>1. ASSUME NEW n, NEW vote_height, NEW state, StateChangeTx(n, vote_height, state)
      PROVE  quorums' = quorums /\ height' = height
  BY <1>1 DEF StateChangeTx
<1>2. ASSUME NEW n, NEW vote_height,
             \/ \E state \in NewStates : StateChangeOfUnregistered(n, vote_height, state)
             \/ Deregister(n, vote_height)
             \/ Decommission(n, vote_height)
             \/ Recommission(n, vote_height)
             \/ IpChangePenalty(n, vote_height)
      PROVE  quorums' = quorums /\ height' = height
  BY <1>1, <1>2 DEF StateChangeOfUnregistered, Deregister, Decommission, Recommission, IpChangePenalty
<1>3. ASSUME NEW n, NEW reg, NEW address, NEW images, NEW transferred,
             StakeTx(n, reg, address, images, transferred)
      PROVE  quorums' = quorums /\ height' = height
  BY <1>3 DEF StakeTx
<1>4. ASSUME NEW n, NEW k, KeyImageUnlockTx(n, k)
      PROVE  quorums' = quorums /\ height' = height
  BY <1>4 DEF KeyImageUnlockTx
<1>5. ASSUME NEW n, HandleUptimeProof(n)
      PROVE  quorums' = quorums /\ height' = height
  BY <1>5 DEF HandleUptimeProof
<1> QED BY <1>2, <1>3, <1>4, <1>5 DEF Next, vars

LEMMA NextBlink == Core /\ BlinkInv /\ [Next]_vars => BlinkInv'
<1> SUFFICES ASSUME Core, BlinkInv, [Next]_vars PROVE BlinkInv'
  OBVIOUS
<1>1. height \in Nat
  BY DEF Core, TypeOK
<1>2. DOMAIN quorums' \subseteq 0..height'
  <2>1. CASE BlockBegin
    <3>1. height' = height + 1 /\ DOMAIN quorums' \subseteq DOMAIN quorums
      BY <2>1 DEF BlockBegin
    <3>2. 0..height \subseteq 0..(height + 1)
      BY <1>1
    <3> QED BY <3>1, <3>2 DEF BlinkInv
  <2>2. CASE BlockEnd
    <3>1. height' = height /\ DOMAIN quorums' = DOMAIN quorums \cup {height}
      BY <2>2 DEF BlockEnd
    <3> QED BY <1>1, <3>1 DEF BlinkInv
  <2> QED BY <2>1, <2>2, QuorumStep DEF BlinkInv
<1>3. BlinkQuorumsDontExpire'
  <2> SUFFICES ASSUME NEW q \in DOMAIN quorums', NEW n \in quorums'[q].blink.validators,
                      n \in DOMAIN infos',
                      infos'[n].requested_unlock_height # KEY_IMAGE_AWAITING_UNLOCK_HEIGHT
               PROVE  infos'[n].requested_unlock_height >= q + BlinkExpiryBuffer
    BY DEF BlinkQuorumsDontExpire
  <2>1. CASE q \in DOMAIN quorums /\ quorums'[q] = quorums[q]
    <3>1. q \in 0..height
      BY <2>1 DEF BlinkInv
    <3>2. CASE /\ n \in DOMAIN infos
               /\ infos'[n].requested_unlock_height = infos[n].requested_unlock_height
      BY <2>1, <3>2 DEF BlinkInv, BlinkQuorumsDontExpire
    <3>3. CASE infos'[n].requested_unlock_height = get_locked_key_image_unlock_height(height)
      <4>1. infos'[n].requested_unlock_height = height + LockBlocks \div 2
        BY <3>3 DEF get_locked_key_image_unlock_height
      <4>2. PICK l \in Nat : l = LockBlocks \div 2 /\ BlinkExpiryBuffer <= l /\ BlinkExpiryBuffer \in Nat
        BY Constants
      <4> QED BY <1>1, <3>1, <4>1, <4>2
    <3> QED BY <3>2, <3>3, EntryStep DEF Lived, EntryKept, SameUnlock, EntryDecommissioned,
                                        EntryRecommissioned, EntryStaked
  <2>2. CASE ~(q \in DOMAIN quorums /\ quorums'[q] = quorums[q])
    <3>1. BlockEnd
      <4>1. BlockBegin => q \in DOMAIN quorums /\ quorums'[q] = quorums[q]
        BY DEF BlockBegin
      <4> QED BY <2>2, <4>1, QuorumStep
    <3>2. PICK o \in obligations_draws(infos'), c \in checkpointing_draws(infos'),
               b \in blink_draws(infos') :
             quorums' = [l \in DOMAIN quorums \cup {height} |->
                           IF l = height THEN [obligations |-> o, checkpointing |-> c, blink |-> b]
                           ELSE quorums[l]]
      BY <3>1 DEF BlockEnd
    <3>3. q = height /\ quorums'[q].blink = b
      BY <2>2, <3>2
    <3>4. infos'[n].requested_unlock_height > height + BlinkExpiryBuffer
      BY <3>3, DrawnStay
    <3>5. infos'[n].requested_unlock_height \in Nat
      BY <3>1, SwarmStep DEF EntryOK, Info
    <3> QED BY <1>1, <3>4, <3>5, <3>3, Constants
  <2> QED BY <2>1, <2>2
<1> QED BY <1>2, <1>3 DEF BlinkInv

\* A member of a blink quorum does not expire within BLINK_EXPIRY_BUFFER.
THEOREM BlinkQuorumsNeverExpire == Spec => []BlinkQuorumsDontExpire
<1>1. Init => BlinkInv
  BY DEF Init, BlinkInv, BlinkQuorumsDontExpire, EmptyMap
<1>2. BlinkInv => BlinkQuorumsDontExpire
  BY DEF BlinkInv
<1> QED BY <1>1, <1>2, NextBlink, CoreInvariant, PTL DEF Spec

(***************************************************************************)
(* The reward queue.                                                       *)
(***************************************************************************)

\* A node keeps its place or is at the back, and is active only if it was or is
\* at the back.
LEMMA QueueStep ==
    ASSUME Core, [Next]_vars, NEW m \in DOMAIN infos', is_active(infos'[m])
    PROVE  \/ /\ m \in DOMAIN infos /\ is_active(infos[m])
              /\ SamePlace(infos'[m], infos[m])
           \/ infos'[m].last_reward_block_height = height'
<1>1. CASE EntryKept(m)
  BY <1>1, SameStateSame DEF EntryKept
<1> QED BY <1>1, EntryStep DEF Lived, EntryDecommissioned, EntryRecommissioned, EntryStaked, is_active

\* Nobody overtakes a node that waits for its reward.
THEOREM NeverOvertakenAlways == Spec => NeverOvertaken
<1> DEFINE InOrder ==
      \A n \in active_service_nodes(infos), m \in active_service_nodes(infos') :
          ( /\ m # n
            /\ n \in active_service_nodes(infos')
            /\ infos'[n].last_reward_block_height = infos[n].last_reward_block_height
            /\ infos'[n].last_reward_block_height < height'
            /\ waits_longer(infos', m, n) )
          => m \in active_service_nodes(infos) /\ waits_longer(infos, m, n)
<1>1. ASSUME Core, Core', [Next]_vars PROVE InOrder
  <2> SUFFICES ASSUME NEW n \in active_service_nodes(infos), NEW m \in active_service_nodes(infos'),
                      n \in active_service_nodes(infos'),
                      infos'[n].last_reward_block_height < height',
                      waits_longer(infos', m, n)
               PROVE  m \in active_service_nodes(infos) /\ waits_longer(infos, m, n)
    OBVIOUS
  <2>1. /\ n \in DOMAIN infos' /\ is_active(infos'[n]) /\ m \in DOMAIN infos' /\ is_active(infos'[m])
    BY DEF active_service_nodes
  <2>2. PICK hm \in Nat, hn \in Nat, h \in Nat :
           /\ hm = infos'[m].last_reward_block_height /\ hn = infos'[n].last_reward_block_height
           /\ h = height'
    BY <1>1, <2>1 DEF Core, TypeOK, IsList, Info
  <2>3. hm <= hn /\ hn < h
    BY <2>2 DEF waits_longer
  <2>4. hm # h /\ hn # h
    BY <2>3
  <2>5. /\ m \in DOMAIN infos /\ is_active(infos[m]) /\ SamePlace(infos'[m], infos[m])
        /\ SamePlace(infos'[n], infos[n])
    BY <1>1, <2>1, <2>2, <2>4, QueueStep
  <2> QED BY <2>5 DEF SamePlace, waits_longer, active_service_nodes
<1>2. Core /\ Core' /\ [Next]_vars => [InOrder]_vars
  BY <1>1
<1> QED BY <1>2, CoreInvariant, PTL DEF Spec, NeverOvertaken
=============================================================================
