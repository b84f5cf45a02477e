# TLA+ verification of the sispop service nodes

Sispop is a proof-of-work chain in the CryptoNote family with a second layer of
*service nodes*: servers whose owners lock a stake on the chain, that are tested
by quorums of their peers, and that are paid from the block reward. This directory holds
TLA+ models of that layer, TLC configurations that check them on small
instances, and TLAPS proofs of the properties that matter most.

Paths below are relative to the repository's `src/` directory; `list` is
`cryptonote_core/service_node_list.cpp`, `rules` is
`cryptonote_core/service_node_rules.{h,cpp}`.

To run a check: `tlc -config MCLifecycle.cfg MCServiceNodeList`. To check
proofs: `tlapm ServiceNodeListProofs.tla`. The proofs about `ServiceNodeList` are split over
five modules because `tlapm` slows down within a long one, and its time limits count that.

## 1. The system and its parts

| Part | Code | State | Operations | What makes it hard | Status |
|---|---|---|---|---|---|
| Staking rules | `rules`, `list` (registration checks, payouts) | none | portions to amounts and back, minimal contribution, unlock height | 64-bit words that wrap, 128-bit products, truncation | `StakingRules`, `RegistrationPortions` |
| Service node list, one block | `list`: `state_t::update_from_block` and what it calls | registered nodes with contributors and locked key images, blacklist, reward queue, quorums, proofs | registration, contribution, deregister, decommission, recommission, IP penalty, key image unlock, expiry, payment, quorum drawing | transactions of one block act on each other but are checked against the list before the block | `ServiceNodeList` |
| Service node list over time | `list`: `process_block`, `blockchain_detached`, `alt_block_added`, `store`, `load`, `init`; `blockchain.cpp`: the callers | current state, short-term history, archive, old quorums, alternative states, two blobs on disk | add, refuse, pop and switch blocks, stop, crash, start | reorganisations across the history and the archive, crashes between two writes, lists rebuilt from partial data | `StateHistory` |
| Uptime proofs | `list`: `handle_uptime_proof`, `proof_info` | timestamps, IP and version history | receive, reset, clean up | arrive between any two blocks, outlive a registration | timestamps in `ServiceNodeList` |
| Swarm assignment | `service_node_swarm.cpp` | swarm id of each node | `calc_swarm_changes` | empty and undersized swarms | planned |
| Votes | `service_node_voting.cpp` | voting pool | verify, add, relay, expire | nodes at different heights, duplicate votes | height rules in `ServiceNodeList`, `StateHistory`; pool planned |
| Quorum cop | `service_node_quorum_cop.cpp` | heights processed so far | test workers, vote, assemble state changes and checkpoints | reorganisations, concurrent votes for one checkpoint | planned |
| Checkpoints | `checkpoints/checkpoints.cpp` | checkpoints by height, immutable height, last cull height | add, cull, detach, accept alternative blocks | heights that get out of step after a rollback | planned |
| Blink | `tx_blink.cpp`, `quorumnet.cpp`, `tx_pool.cpp` | signatures of two subquorums | sign, approve, reject, remove conflicts | state checked under one lock and used under another | planned |
| Transaction pool | `tx_pool.cpp` | transactions, key images | add, take, prune | pool at its limit | planned |
| Blockchain | `blockchain.cpp` | main chain, alternative blocks | add, switch, roll back | hooks that fail half way | order of hooks in `StateHistory`, `check_tx_inputs` for state changes in `ServiceNodeList` |
| Database | `blockchain_db/lmdb` | blobs of service node data | set, get, clear | atomicity of each write | the two blobs in `StateHistory` |
| Name system | `sispop_name_system.cpp` | mappings by block | add block, detach | height written late | planned |
| Block queue | `block_queue.cpp` | spans by connection | reserve, fill, flush | spans of several peers | planned |
| Peer lists | `p2p/net_peerlist.*` | white, grey, anchor lists | add, promote, evict | lists at their limits | planned last |
| Core, miner, RPC, wallets, cryptography | | | | I/O, user interface and algebra | not modelled |

How they interact: the blockchain calls hooks in order for each block it
adds (`validate_miner_tx`, `block_added`), for each time it cuts the chain
(`blockchain_detached`), for each alternative block and at start. The service
node list is one of the hooked parts. Its quorums are what votes, checkpoints
and blinks are checked against; its block winner is what the miner transaction
must pay; its key image locks are what the blockchain refuses to spend.

## 2. Modules

```
StakingRules  <-  RegistrationPortions      <-  RegistrationPortionsProofs
     ^   ^------  StakingRulesProofs  <---------------'
     |                  ^
     '---  ServiceNodeList  <-  MCServiceNodeList
                 ^---  EntryProofs  <-  ServiceNodeListProofs  <-  StakeReleaseProofs
                                                   ^-----------  NodeLifeProofs  <-  QueueProofs
StateHistory
```

Definitions carry the names the code uses. A definition in CamelCase that stands
directly before one in the code's spelling, and that nothing uses, is that
definition with a plausible mistake; `PROJECT.json` ("mutants") says which
property notices it.

### StakingRules

Pure arithmetic, parameterised by the size of a word (`Word`, 2^64 in the code)
and by `STAKING_PORTIONS` (2^64 - 4). `UpTo` and `Total` write out the sums the
code forms in loops over at most four contributors, so that they can be proved
about. Every subtraction and sum the code leaves unchecked is taken modulo
`Word`; `mul128`/`div128_64` are exact until the quotient is cut. The
hand-written carry in `get_portions_to_make_amount` is kept.

### RegistrationPortions

One variable, the list of portions of a registration, extended by one arbitrary
word at a time: it enumerates all lists of up to four portions
(`MAX_NUMBER_OF_CONTRIBUTORS`), the ones whose sum wraps included.

### ServiceNodeList

`state_t` as of hard fork 16. A block is not one action: `BlockBegin` does what
`update_from_block` does before the transactions (cull, expire the blacklist and
the nodes, send the paid node to the back of the queue), then each transaction
is an action (`StakeTx`, `Deregister`, `Decommission`, `Recommission`,
`IpChangePenalty`, `StateChangeOfUnregistered`, `KeyImageUnlockTx`), and
`BlockEnd` updates the swarms and draws the quorums. `before` is the list when
the block began: `check_tx_inputs` judges all transactions of a block against
it, while each is applied to the list the earlier ones left. `HandleUptimeProof`
happens between blocks (the code holds `m_sn_mutex` over a block).

Abstractions:

- a key image is the number of the first stake output that has it. The staker
  chooses the secret key of the transaction, so an output with the image of an earlier
  one is possible, and neither `get_contribution` nor its callers compare images with
  those locked or blacklisted. `RepeatedImages` bounds which images come again.
  One image may thus be held by several nodes, by a node and the blacklist, or twice
  by one node: `locked` is the set of images, `num_locked` the number of stakes.
  `is_key_image_locked` answers for the holder it finds first; `awaiting_unlock`
  lets it be any of them;
- a quorum is *any* subset of the candidates of the right size, where the code
  shuffles them with a seed from the block hash;
- signatures are valid or the transaction is not there; validators vote
  as they please;
- a swarm id is reduced to whether the node has one; `BlockEnd` assumes that
  `calc_swarm_changes` returns with every active node assigned. Its last loop
  (`service_node_swarm.cpp:290`) may dissolve the last swarm, and what happens
  then is not modelled;
- a stake transaction whose outputs count nothing transfers nothing, and one
  without a valid registration is a plain contribution (`NoRegistration`).

### StateHistory

The effect of a block on a list is `ServiceNodeList`'s subject; here a list *is*
the sequence of blocks whose effects it holds. A list is right exactly when that
sequence is the main chain. What makes this more than bookkeeping is that a block may carry
a state change, and `process_state_change_tx` skips it when the quorum that
voted is not among the states at hand: a list rebuilt from too little history
silently misses an effect. `Block` therefore records how far back its vote
is, and `FindsQuorum` is the search through history, archive and alternative
states.

| Action | Code |
|---|---|
| `AddBlock` | `handle_block_to_main_chain` with `block_added` / `process_block` |
| `AbortBlock` | a later hook refuses the block, `abort_block` pops it |
| `Detach(n)` | `pop_blocks`, `switch_to_alternative_blockchain`, `rollback_blockchain_switching`: cut, `blockchain_detached`, `load_missing_blocks_into_sispop_subsystems` |
| `AltBlock` | `alt_block_added` |
| `Stop` | `core::deinit`, which stores |
| `Crash` | the daemon dies: nothing is stored, or only the first of the two writes of `store` |
| `Start` | `Blockchain::init`: `init`, `load`, missing blocks |
| `StartInterrupted` | a crash during the scan, after one of its intermediate stores or between the two writes of one |

After `reset` the state has the null hash and not that of a block (`null_hash`), so an
alternative block on top of the block before hard fork 9 is refused, as in the code.
`store_quorum_history` is a variable that never changes: a run checks several
values of the option at once (`QuorumHistories`).

Left out: `version_0` data and its conversion, the window of hard forks below 13,
`m_rescanning`, the name system's part of the scan. Blink quorums are not stored
by the code and are not looked for here.

## 3. Runs

Deadlock checking is off everywhere: the bounds end every behaviour, and the
code's own components stop only when the daemon does. No fairness is assumed:
everything checked so far is a safety property.

### Runs that hold

| Run | Instance | Shows |
|---|---|---|
| `portions` | all lists of up to four 4-bit portions, `STAKING_PORTIONS` = 12 = 2^4 - 4, requirements 1, 5, 7, 12 | what an accepted registration reserves fits the requirement; those it is reserved for are admitted, up to one atomic unit per contributor; rounding goes the way the callers rely on; payouts never exceed the reward |
| `funding` | one node, two stakers, transfers of 0, 1, 2, 3, 5 against a requirement of 5, up to 4 outputs per transaction | totals are the sums over the contributors, nothing subtracted wraps |
| `lifecycle` | two nodes, one staker, five blocks of two transactions, lock time 2 | life of a node and its stakes, with the first key image used again: `ActiveSinceConsistent`, `UnlocksCarriedOut`, `StakesReleasedOnTime`, `SwarmsAreActive`, `ProofsAreCurrent`, `BlinkQuorumsDontExpire` |
| `rewards` | three nodes, six blocks | nobody overtakes a node waiting for its reward |
| `history` | up to nine blocks, one of a chain's blocks with a state change, up to two cuts and two restarts (three together), quorum history off or of 10 blocks | list, history and archive are the main chain's after all of it; the stored blob is good enough to start from; an orderly restart keeps the list |
| `deep_reorg` | up to fourteen blocks, one cut of 7 to 14, quorum histories of 2 and 9 blocks | the same when the short-term history does not reach back far enough, and votes can still be verified |
| `alt_blocks` | three alternative blocks on two branches | an alternative block's state is that of its parent with the block's effect; a state change voted on above the fork is only claimed to have its effect when the main chain has a state of that height and just one alternative block of that height is known |

Bounds and why they are enough to meet the interesting cases:

- `Word = 16` with `STAKING_PORTIONS = 12` keeps the relation of the code (2^w - 4,
  a multiple of 12), so sums of two portions already wrap and
  the carry of `get_portions_to_make_amount` happens.
- `lifecycle` has two stake outputs, enough for one image to be held by both nodes, or by
  one and the blacklist. `ProofsAreCurrent` there is about the time a proof was received:
  the model does not know when it was signed.
- In `lifecycle` the lock time (2), the vote lifetime (3) and the quorum intervals
  (2) all pass within five blocks: a node can be registered, funded, decommissioned,
  recommissioned, asked to unlock, expire, or be deregistered and registered again
  while its stakes are still on the blacklist.
- In `funding` the transfers include nothing, less than the minimum, exactly the
  reserved amount and more than the requirement.
- `rewards` has the state constraint `QueueOnly`: no proofs, no unlocks and no
  deregistrations, which do not reorder the nodes that stay. The theorem
  `NeverOvertakenAlways` has no such restriction.
- `StateHistory` keeps the order of the code's numbers: interval (10000) > short
  history (6 vote lifetimes) > vote lifetime + buffer. With 9, 7, 3 + 2 and
  a base of 6, archive heights 9 and 18 both matter within the bounds of `deep_reorg`.
  `history` has 8, 6, 3 + 2 and the same base: its nine blocks reach height 15, where the
  short-term states have left the archived height 8 behind, and a stored state
  with fewer quorums than the buffer calls for is seen (the mutant `NoBuffer`).
- With two restarts and no quorum history, `init` keeps blobs of different moments: those
  of a crash between the two writes of a later store. With one restart there
  would be no earlier short-term blob to keep.
- `CleanRestartKeepsList` has a condition, `LastsARestart`. `load` takes over the old quorums
  above `current_height - N` only, and the last `SHORT_TERM_STATE_HISTORY` heights are not old yet:
  `N - SHORT_TERM_STATE_HISTORY` of them are left, while `init` asks for 10 (or `N`). With
  360 in the code, every `--store-quorum-history` of 2 to 369 makes every start scan the chain
  from hard fork 9, though the option's text allows any number. `deep_reorg` has the
  least that lasts with its numbers (7 + 2 = 9) and a shorter one (2, for which the property claims
  nothing); `history` has none (0) and one longer than its least (10, of 6 + 2 = 8).
- `Depths` counts from the highest block ever processed, since that is what the
  history was culled for. `history` goes up to
  `VOTE_OR_TX_VERIFY_HEIGHT_BUFFER`, the depth `store` allows for (a rollback of
  more than that is the run `stored_quorums`, below); `deep_reorg` starts where the
  short-term history ends. A cut in between, or a deep cut followed by a crash,
  is *not* claimed to work: see section 6.

### Runs that show a disagreement

Each of these checks one sentence the repository says of itself, and TLC finds
a behaviour of the code that contradicts it. `PROJECT.json` ("findings") quotes the
sentences.

| Run | What the code does |
|---|---|
| `premature` | `can_be_voted_on` is asked of the list before the block: a key deregistered and registered again in one block can be decommissioned in that same block by an old vote. |
| `assert_height` | `init` compares a height with a number of blocks: after popping down to the stored state the list is one block ahead of the chain. |
| `old_quorums` | falling back on an archived state appends old quorums twice, out of order; `load` then refuses them. |
| `full_quorum_history` | "1 to store the entire history" makes a subtraction wrap, so no stored quorum is loaded and every start scans the chain (as it does, without wrapping, for 2 to 369). |
| `stored_quorums` | after a rollback by more than the buffer, `store` writes a whole state that lacks some quorums the blocks after it refer to. |

## 4. Proofs

All theorems hold for every value of the constants allowed by the named
assumptions (`RulesAssumption`, `RequirementsAssumption`, `ListAssumption`,
`BlinkAssumption`, `HistoryAssumption`); the runs evaluate those on their
instances. `BlinkAssumption` (the expiry buffer is at most half of the lock time) is
needed because an unlock requested after a quorum is drawn takes half the lock
time. It holds on the main net and the test nets; on FAKECHAIN, where the lock time is 30
blocks, the buffer is 45 and the theorem says nothing. The bounds of the model (`MaxHeight`, `MaxBlockTxs`, ...) are arbitrary
naturals in the proofs.

- **StakingRulesProofs**: the arithmetic. `AmountOfPortions` turns the truncated
  quotient into two inequalities; `HashablePortionsFit` shows that the comparison
  of each portion with what is left bounds the sum, in spite of the wrapping sum in
  `check_service_node_portions`; together they give `AcceptedReservationsFit`.
  `CarryAdds` shows that the hand-written carry computes the two-word sum, and from it
  `PortionsAreLowest`. `PayoutsFit` bounds the payouts.
- **RegistrationPortionsProofs**: the same as invariants of `RegistrationPortions`
  (`ReservedFits`, `LowestPortions`, `PayoutsWithin`).
- **EntryProofs**, **ServiceNodeListProofs**: the inductive invariant `Core` is `TypeOK` together
  with `EntryOK` of every registered node, which combines three facts that need
  each other: amounts within reservations within the requirement, so that no word
  wraps; `active_since_height` nonzero exactly when the node is funded, with its
  sign and range; and an unlock height that is still to come. One lemma per operation on an entry
  (`RegisteredOK`, `ContributeOK`, `DecommissionOK`, ... in `EntryProofs`), one per action
  (`BlockBeginCore`, `StakeCore`, ...), combined in `NextCore`.
  Theorems: `ListTyped`, `ReservationsAlwaysFit`, `ActiveSinceAlwaysConsistent`.
- **StakeReleaseProofs**: the second invariant, `BlacklistPending`, says that what is blacklisted is not due yet. Actions
  are of three kinds there: quiet ones that move no stake between holders,
  `Deregister`, and `StakeTx`. Nothing is assumed of key images: they may repeat.
  Theorems: `UnlocksAlwaysCarriedOut`, `StakesAlwaysReleasedOnTime`.
- **NodeLifeProofs**, **QueueProofs**: on top of `Core`. `SwarmsAlwaysActive` needs `SwarmsPending`
  (an active node without a swarm implies that a swarm update is due in this
  block); `BlinkQuorumsNeverExpire` needs that quorums are not of the future;
  `ProofsAlwaysCurrent` and the action property `NeverOvertakenAlways` follow from
  `Core` and the steps.

Only model-checked: `TotalsAddUp` (a sum over a set of arbitrary size needs
induction over data, which the provers at hand do not do) and
`ReservedContributorsAdmitted`, and all properties of `StateHistory`.

## 5. Plan

In this order; each module gets its runs, the mutants and, where marked *P*,
proofs.

1. `Checkpoints` *P*: adding, updating, culling and detaching of checkpoints, the
   immutable height, which alternative blocks are allowed, which chain wins when
   branches carry different numbers of checkpoints.
   Properties: no reorganisation below the immutable height; the cull keeps the
   checkpoints the rules say; votes added concurrently never shorten a checkpoint.
2. `VotingPool` and `QuorumCop`: votes of several nodes at different heights,
   relay and expiry, state changes and checkpoints made from them, decommission
   credit. Composition with `Checkpoints`. First liveness property: a node that
   fails its obligations is eventually decommissioned while its quorums vote, with
   weak fairness on `block_added` and on relaying, which the core's idle loop runs.
3. `Swarms` *P*: `calc_swarm_changes` as an operator, over all small swarm maps.
   Properties: every active node is assigned; no swarm below the minimum survives
   where it need not.
4. An abstract specification of `StateHistory` (the list of the main chain, nothing
   else) and the refinement; *P* for the invariants of `history` that do not need
   restarts; deep reorganisations with restarts.
5. `UptimeProofs`: IP history, key maps, cleanup.
6. `Blink`, with the lock steps of `quorumnet.cpp` as separate actions, then the
   transaction pool's part (`remove_blink_conflicts`, `get_blink_hashes_and_mined_heights`).
7. `BlockQueue`, `NameSystem`, `Peerlist`.

## 6. What is not covered

- Rules before hard fork 16, and the conversion of data stored by old versions.
- `get_staking_requirement` as a function of the height (floating point); the
  requirement is a constant.
- Swarm ids: which swarm a node is in, and whether `calc_swarm_changes` always returns.
- State changes of alternative blocks voted on above the fork, when several branches have a
  block of that height or the main chain has no state there: the loop of
  `process_state_change_tx` goes on after a match, and the last state tried decides.
- Signatures, key derivation, ring checks, difficulty, block weights.
- In `StateHistory`: cuts deeper than the buffer and short of the end of the short-term
  history; deep cuts followed by a restart. There `load` takes over a stored
  state without comparing its block hash with the chain, archive entries above the state
  fallen back on stay in the blob until the next archived state, and votes may be left without a quorum. The
  hazards in `PROJECT.json` note these at their lines.
- Two observations on `rules` without a run of their own: the sum in
  `check_service_node_portions` wraps, so that function alone does not keep what its
  header says (`get_registration_hash` refuses such portions, and
  `AcceptedReservationsFit` is the proof that the two together suffice); and the
  assertion in `get_min_node_contribution` can fail in a debug build for a node with the
  maximal number of stakes that is not funded (release builds refuse the stake).
- Components marked planned or not modelled in section 1.
