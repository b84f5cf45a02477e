---------------------------- MODULE StateHistory ----------------------------
(***************************************************************************)
(* How the service node list follows the main chain: the short-term        *)
(* history of states, the archive of one state in every                    *)
(* STORE_LONG_TERM_STATE_INTERVAL blocks, the states of alternative        *)
(* blocks, the blobs store() writes and load() reads back, reorganisations *)
(* and restarts (service_node_list.cpp, with the callers in                *)
(* blockchain.cpp).                                                        *)
(*                                                                         *)
(* What a block does to a list is ServiceNodeList's subject. Here a list   *)
(* is the sequence of the blocks whose effects it holds, so a list is      *)
(* right for a chain when it is that chain. A block may carry a state      *)
(* change voted on by the obligations quorum some blocks below it: it has  *)
(* its effect only when the list finds that quorum among the states kept.  *)
(***************************************************************************)
EXTENDS Integers, Sequences, FiniteSets, TLC, SequencesExt

CONSTANTS
  Base,                            \* height before hard fork 9 (reset)
  STORE_LONG_TERM_STATE_INTERVAL,  \* one state in so many is archived whole
  SHORT_TERM_STATE_HISTORY,        \* DEFAULT_SHORT_TERM_STATE_HISTORY
  VOTE_LIFETIME,                   \* also STATE_CHANGE_TX_LIFETIME_IN_BLOCKS
  VOTE_OR_TX_VERIFY_HEIGHT_BUFFER,
  QuorumHistories,                 \* values of the option --store-quorum-history
  EnoughQuorumHistory,             \* the 10 of init()
  W                                \* heights are unsigned words below W

CONSTANTS
  AltForks,     \* names of blocks that start an alternative branch
  MaxHeight,    \* bounds of the model: highest block,
  MaxVotes,     \*   blocks of a chain that carry a state change,
  MaxDetaches,  \*   reorganisations,
  Depths,       \*   how far below the highest block seen the chain is cut,
  MaxRestarts,  \*   restarts,
  MaxUpsets,    \*   reorganisations and restarts together,
  MaxAlts       \*   alternative blocks held at a time

ASSUME HistoryAssumption ==
  /\ Base \in Nat
  /\ Base > VOTE_LIFETIME + VOTE_OR_TX_VERIFY_HEIGHT_BUFFER
  /\ VOTE_LIFETIME \in Nat \ {0}
  /\ VOTE_OR_TX_VERIFY_HEIGHT_BUFFER \in Nat \ {0}
  /\ SHORT_TERM_STATE_HISTORY \in Nat
  /\ SHORT_TERM_STATE_HISTORY > VOTE_LIFETIME + VOTE_OR_TX_VERIFY_HEIGHT_BUFFER
  /\ STORE_LONG_TERM_STATE_INTERVAL \in Nat
  /\ STORE_LONG_TERM_STATE_INTERVAL > SHORT_TERM_STATE_HISTORY
  /\ W \in Nat /\ W > MaxHeight + 1
  /\ QuorumHistories \subseteq 0 .. (W - 1)

VARIABLES
  chain,     \* the blocks of the main chain above Base
  snl,       \* the service_node_list: m_state and m_transient
  disk,      \* the two blobs of service node data in the database
  running,   \* whether the daemon is up
  peak,      \* the height of the highest block processed so far
  detaches,  \* reorganisations so far
  restarts,  \* restarts so far
  store_quorum_history   \* m_store_quorum_history: the same at every start

vars == <<chain, snl, disk, running, peak, detaches, restarts, store_quorum_history>>

-----------------------------------------------------------------------------
(* Blocks and states *)

\* A block: the branch it was made on, and how many blocks below it the
\* quorum of its state change is (0: it carries none).
Block == [fork : (0 .. MaxDetaches) \cup AltForks, vote : 0 .. VOTE_LIFETIME]

Empty == << >>
null_hash == <<[fork |-> -1, vote |-> 0]>>    \* of no block
NoMap == [h \in {} |-> Empty]
NoBuffer == VOTE_LIFETIME    \* mutant of QuorumBuffer
QuorumBuffer == VOTE_LIFETIME + VOTE_OR_TX_VERIFY_HEIGHT_BUFFER

\* A block is identified by the path that ends in it.
Height(path) == Base + Len(path)
At(path, h) == SubSeq(path, 1, h - Base)
Tip == Height(chain)

\* generate_quorums: the quorums of a state depend on its list and its block.
Quorums(hash, nodes) == [hash |-> hash, nodes |-> nodes]

State(path, nodes) ==
  [height |-> Height(path), block_hash |-> path, nodes |-> nodes,
   quorums |-> Quorums(path, nodes), only_loaded_quorums |-> FALSE]

\* m_state after reset: no node, and the hash of no block
reset_state == [State(Empty, Empty) EXCEPT !.block_hash = null_hash]

\* The state every honest node has after the blocks of path.
Canonical(path) == IF path = Empty THEN reset_state ELSE State(path, path)

QuorumOnly(s) == [s EXCEPT !.nodes = Empty, !.only_loaded_quorums = TRUE]

\* state_set: std::set ordered by height, as a map. emplace and insert leave
\* an element of the same height in place.
Emplace(set, new) == set @@ new
Later(set, h) == set         \* mutant of Upto: nothing is erased
KeepAll(set, keys) == set    \* mutant of Without: nothing is erased
Upto(set, h) == [k \in {j \in DOMAIN set : j <= h} |-> set[k]]
Without(set, keys) == [k \in DOMAIN set \ keys |-> set[k]]
Highest(set) == CHOOSE h \in DOMAIN set : \A k \in DOMAIN set : k <= h
Has(set, h) == h \in DOMAIN set /\ ~set[h].only_loaded_quorums

\* m_state and m_transient after reset
reset == [state |-> reset_state, history |-> NoMap, archive |-> NoMap,
          old |-> Empty, alt |-> NoMap, added |-> FALSE]

short_term_state_cull_height(h) ==
  IF h < SHORT_TERM_STATE_HISTORY THEN 0 ELSE h - SHORT_TERM_STATE_HISTORY

-----------------------------------------------------------------------------
(* Processing a block *)

\* Mutant of FindsQuorum: neither the archive nor the alternative states are
\* searched.
FindsQuorumInHistory(history, archive, alts, last, path) ==
  LET q == Height(path) - path[Len(path)].vote
  IN  q \in DOMAIN history /\ history[q].quorums = Canonical(At(path, q)).quorums

\* Where process_state_change_tx finds the quorum of the state change in the
\* block at the end of path. The votes are those of the quorum on path. When
\* the state kept for that height has another quorum, the alternative states
\* of the height are tried in the order of a hash table and the last one
\* decides.
FindsQuorum(history, archive, alts, last, path) ==
  LET q == Height(path) - path[Len(path)].vote
      voted == Canonical(At(path, q)).quorums
      found == IF q \in DOMAIN history THEN history[q] ELSE archive[q]
  IN  /\ q \in DOMAIN history \cup DOMAIN archive
      /\ \/ found.quorums = voted
         \/ /\ \E a \in DOMAIN alts : alts[a].height = q
            /\ alts[last].quorums = voted

\* state_t::update_from_block, for the block at the end of path
update_from_block(s, history, archive, alts, last, path) ==
  LET b == path[Len(path)]
      effect == IF b.vote = 0 \/ FindsQuorum(history, archive, alts, last, path)
                THEN b
                ELSE [b EXCEPT !.vote = 0]
      nodes == Append(s.nodes, effect)
  IN  [s EXCEPT !.height = @ + 1,
                !.block_hash = path,
                !.nodes = nodes,
                !.quorums = Quorums(path, nodes)]

\* Mutant of need_quorum_for_future_states: only whole states are archived.
need_no_quorum(h) == FALSE

\* How far the next archived state is: the quorums of the states just below it
\* are archived too.
need_quorum_for_future_states(h) ==
  LET next_long_term_state == ((h \div STORE_LONG_TERM_STATE_INTERVAL) + 1)
                              * STORE_LONG_TERM_STATE_INTERVAL
  IN  next_long_term_state - h <= QuorumBuffer

Archived(s) == IF need_quorum_for_future_states(s.height) THEN QuorumOnly(s) ELSE s

\* The old quorums kept: the last store_quorum_history of them.
Untrimmed(aged) == aged      \* mutant of Trimmed
Trimmed(aged) ==
  LET excess == Len(aged) - store_quorum_history
  IN  IF excess > 0 THEN SubSeq(aged, excess + 1, Len(aged)) ELSE aged

\* service_node_list::process_block, for the block at the end of path
process_block(l, path) ==
  LET cull == short_term_state_cull_height(Height(path))
      culled == {h \in DOMAIN l.history : h <= cull}
      to_archive == {h \in culled : \/ (h % STORE_LONG_TERM_STATE_INTERVAL) = 0
                                    \/ need_quorum_for_future_states(h)}
      archive == Emplace(l.archive, [h \in to_archive |-> Archived(l.history[h])])
      aged == IF store_quorum_history = 0 THEN l.old
              ELSE l.old \o [i \in 1 .. Cardinality(culled) |->
                     LET h == SetToSortSeq(culled, <)[i]
                     IN  [height |-> h, quorums |-> l.history[h].quorums]]
      history == Emplace(Without(l.history, culled), l.state.height :> l.state)
  IN  [state |-> update_from_block(l.state, history, archive, NoMap, Empty, path),
       history |-> history,
       archive |-> archive,
       old |-> Trimmed(aged),
       alt |-> Without(l.alt, {a \in DOMAIN l.alt : l.alt[a].height < cull}),
       added |-> l.added \/ to_archive # {}]

-----------------------------------------------------------------------------
(* Storing and loading *)

NoBlob == [present |-> FALSE, quorum_states |-> Empty, states |-> NoMap]
NoData == [long |-> NoMap, short |-> NoBlob]

\* Mutant of ShortTermBlob: no state keeps its nodes.
QuorumsOnlyBlob(l) ==
  [present |-> TRUE, quorum_states |-> l.old,
   states |-> [h \in DOMAIN Upto(l.history, short_term_state_cull_height(l.state.height - 1)
                                             + QuorumBuffer) |-> QuorumOnly(l.history[h])]]

\* The short-term blob: the old quorums and the states up to
\* max_short_term_height, all but that one without their nodes and hash.
ShortTermBlob(l) ==
  LET max_short_term_height == short_term_state_cull_height(l.state.height - 1) + QuorumBuffer
  IN  [present |-> TRUE,
       quorum_states |-> l.old,
       states |-> [h \in DOMAIN Upto(l.history, max_short_term_height) |->
                     IF h < max_short_term_height
                     THEN [QuorumOnly(l.history[h]) EXCEPT !.block_hash = null_hash]
                     ELSE l.history[h]]]

LongTermBlob(l, d) == IF l.added THEN l.archive ELSE d.long

\* service_node_list::store
store(l, d) == [long |-> LongTermBlob(l, d), short |-> ShortTermBlob(l)]
Stored(l) == [l EXCEPT !.added = FALSE]

\* BlockchainLMDB::clear_service_node_data gives up at the first missing blob.
clear_service_node_data(d) ==
  IF d.short.present THEN NoData ELSE d

BlockId(c, h) == IF h <= Height(c) THEN At(c, h) ELSE null_hash

\* The old quorums load() takes over: those of the last store_quorum_history
\* blocks, a difference of unsigned words.
LoadedQuorums(d, current_height) ==
  LET hist_state_from_height == (current_height - store_quorum_history) % W
  IN  SelectSeq(d.short.quorum_states, LAMBDA e : e.height >= hist_state_from_height)

Ascending(quorum_states) ==
  \A i \in 2 .. Len(quorum_states) : quorum_states[i - 1].height < quorum_states[i].height

\* Whether load() returns true
Loads(d, current_height) ==
  /\ d.short.present
  /\ DOMAIN d.short.states # {}
  /\ Ascending(LoadedQuorums(d, current_height))
  /\ ~d.short.states[Highest(d.short.states)].only_loaded_quorums

\* service_node_list::load, what it loads
load(d, c) ==
  LET states == d.short.states
      last == Highest(states)
      restored(s) == IF s.block_hash = null_hash
                     THEN [s EXCEPT !.block_hash = BlockId(c, s.height)] ELSE s
  IN  [reset EXCEPT !.archive = d.long,
                    !.old = LoadedQuorums(d, Height(c) + 1),
                    !.history = [h \in DOMAIN states \ {last} |-> restored(states[h])],
                    !.state = states[last]]

\* Whether init() keeps what load() found
Enough(old) == \/ Len(old) >= store_quorum_history
               \/ Len(old) >= EnoughQuorumHistory
Keeps(d, c) ==
  LET current_height == Height(c) + 1
  IN  /\ Loads(d, current_height)
      /\ Enough(load(d, c).old)
      /\ load(d, c).state.height <= current_height

\* service_node_list::init
init(d, c) ==
  IF Keeps(d, c) THEN [l |-> load(d, c), d |-> d]
                 ELSE [l |-> reset, d |-> clear_service_node_data(d)]

-----------------------------------------------------------------------------
(* Catching up with the chain *)

\* The blocks of c up to height to, processed one after the other
Processed(l, c, to) ==
  LET from == l.state.height
  IN  FoldLeft(LAMBDA done, h : process_block(done, At(c, h)), l,
               [i \in 1 .. to - from |-> from + i])

\* Mutant of load_missing_blocks: the last block is left out.
LoadAllButTip(ld, c) ==
  IF ld.l.state.height >= Height(c) THEN ld
  ELSE LET caught_up == Processed(ld.l, c, Height(c) - 1)
       IN  [l |-> Stored(caught_up), d |-> store(caught_up, ld.d)]

\* Blockchain::load_missing_blocks_into_sispop_subsystems
load_missing_blocks(ld, c) ==
  IF ld.l.state.height >= Height(c) THEN ld
  ELSE LET caught_up == Processed(ld.l, c, Height(c))
       IN  [l |-> Stored(caught_up), d |-> store(caught_up, ld.d)]

\* service_node_list::blockchain_detached, for a chain cut back to c
blockchain_detached(l, d, c) ==
  LET revert_to_height == Height(c)
      prev_interval == revert_to_height - (revert_to_height % STORE_LONG_TERM_STATE_INTERVAL)
  IN  CASE Has(l.history, revert_to_height) ->
             [l |-> [l EXCEPT !.state = l.history[revert_to_height],
                              !.history = Upto(@, revert_to_height - 1)],
              d |-> d]
        [] ~Has(l.history, revert_to_height) /\ Has(l.archive, prev_interval) ->
             [l |-> [l EXCEPT !.state = l.archive[prev_interval],
                              !.history = NoMap,
                              !.archive = Upto(@, prev_interval - 1)],
              d |-> d]
        [] OTHER -> init(d, c)

-----------------------------------------------------------------------------
(* The actions *)

Init ==
  /\ chain = Empty
  /\ snl = reset
  /\ disk = NoData
  /\ running = TRUE
  /\ peak = Base
  /\ detaches = 0
  /\ restarts = 0
  /\ store_quorum_history \in QuorumHistories

Votes(path) == Cardinality({i \in DOMAIN path : path[i].vote # 0})

\* get_quorum(obligations, h)
get_quorum(l, h) ==
  CASE h = l.state.height -> l.state.quorums
    [] h # l.state.height /\ h \in DOMAIN l.history -> l.history[h].quorums
    [] h # l.state.height /\ h \notin DOMAIN l.history /\ h \in DOMAIN l.archive ->
         l.archive[h].quorums
    [] OTHER -> Empty

\* The blocks the network may put on top of path. A state change is younger
\* than its lifetime and refers to a block with a quorum.
NewBlock(path, b) ==
  /\ Height(path) < MaxHeight
  /\ b.vote < VOTE_LIFETIME
  /\ b.vote # 0 => /\ Height(path) + 1 - b.vote > Base
                   /\ Votes(path) < MaxVotes

\* A block extends the main chain: check_tx_inputs asks for the quorum of its
\* state change, then block_added processes it.
AddBlock(b) ==
  LET path == Append(chain, b)
      q == Height(path) - b.vote
  IN  /\ running
      /\ NewBlock(chain, b)
      /\ b.fork = detaches \/ path \in DOMAIN snl.alt
      /\ b.vote # 0 => get_quorum(snl, q) = Canonical(At(path, q)).quorums
      /\ chain' = path
      /\ snl' = process_block(snl, path)
      /\ peak' = IF Height(path) > peak THEN Height(path) ELSE peak
      /\ UNCHANGED <<disk, running, detaches, restarts, store_quorum_history>>

\* A hook refuses the block after the list has processed it: abort_block pops
\* it again.
AbortBlock(b) ==
  LET path == Append(chain, b)
      q == Height(path) - b.vote
      back == blockchain_detached(process_block(snl, path), disk, chain)
  IN  /\ running
      /\ NewBlock(chain, b)
      /\ b.fork = detaches
      /\ b.vote # 0 => get_quorum(snl, q) = Canonical(At(path, q)).quorums
      /\ snl' = back.l
      /\ disk' = back.d
      /\ peak' = IF Height(path) > peak THEN Height(path) ELSE peak
      /\ UNCHANGED <<chain, running, detaches, restarts, store_quorum_history>>

\* pop_blocks, switch_to_alternative_blockchain and
\* rollback_blockchain_switching cut the chain, call the detached hooks and
\* load what is missing.
Detach(n) ==
  LET cut == SubSeq(chain, 1, Len(chain) - n)
      back == load_missing_blocks(blockchain_detached(snl, disk, cut), cut)
  IN  /\ running
      /\ Tip - n >= Base
      /\ peak - (Tip - n) \in Depths
      /\ detaches < MaxDetaches /\ detaches + restarts < MaxUpsets
      /\ chain' = cut
      /\ snl' = back.l
      /\ disk' = back.d
      /\ detaches' = detaches + 1
      /\ UNCHANGED <<running, peak, restarts, store_quorum_history>>

\* The state alt_block_added starts from: that of the parent on the main chain
\* or, failing that, on an alternative branch.
OnMain(parent) == /\ Height(parent) \in DOMAIN snl.history
                  /\ snl.history[Height(parent)].block_hash = parent
starting_state(parent) ==
  IF OnMain(parent) THEN snl.history[Height(parent)] ELSE snl.alt[parent]

\* alt_block_added: a block on top of a block of the main chain below its tip
\* or of an alternative block. last is the alternative state tried last.
AltBlock(parent, b, last) ==
  LET path == Append(parent, b)
      q == Height(path) - b.vote
      same == {a \in DOMAIN snl.alt : snl.alt[a].height = q}
  IN  /\ running
      /\ NewBlock(parent, b)
      /\ Tip - Height(parent) \in Depths
      /\ Cardinality(DOMAIN snl.alt) < MaxAlts
      /\ OnMain(parent) \/ parent \in DOMAIN snl.alt
      /\ path \notin DOMAIN snl.alt
      /\ ~IsPrefix(path, chain)
      /\ last \in IF same = {} THEN {Empty} ELSE same
      /\ snl' = [snl EXCEPT !.alt = @ @@
                   (path :> update_from_block(starting_state(parent), snl.history, snl.archive,
                                              snl.alt, last, path))]
      /\ UNCHANGED <<chain, disk, running, peak, detaches, restarts, store_quorum_history>>

\* core::deinit stores and stops.
Stop ==
  /\ running
  /\ restarts < MaxRestarts /\ detaches + restarts < MaxUpsets
  /\ disk' = store(snl, disk)
  /\ snl' = reset
  /\ running' = FALSE
  /\ UNCHANGED <<chain, peak, detaches, restarts, store_quorum_history>>

\* The daemon dies, at worst between the two transactions of store().
Crash ==
  /\ running
  /\ restarts < MaxRestarts /\ detaches + restarts < MaxUpsets
  /\ \/ UNCHANGED disk
     \/ disk' = [disk EXCEPT !.long = LongTermBlob(snl, disk)]
  /\ snl' = reset
  /\ running' = FALSE
  /\ UNCHANGED <<chain, peak, detaches, restarts, store_quorum_history>>

\* Blockchain::init runs the init hooks and loads the missing blocks.
Start ==
  LET up == load_missing_blocks(init(disk, chain), chain)
  IN  /\ ~running
      /\ snl' = up.l
      /\ disk' = up.d
      /\ running' = TRUE
      /\ restarts' = restarts + 1
      /\ UNCHANGED <<chain, peak, detaches, store_quorum_history>>

\* The daemon dies while it scans the missing blocks: after one of the stores in
\* between, or between the two transactions of one of them or of the last.
StartInterrupted ==
  LET up == init(disk, chain)
  IN  /\ ~running
      /\ restarts < MaxRestarts /\ detaches + restarts < MaxUpsets
      /\ \E h \in (up.l.state.height + 1) .. Tip :
           LET scanned == Processed(up.l, chain, h)
           IN  \/ h < Tip /\ disk' = store(scanned, up.d)
               \/ disk' = [up.d EXCEPT !.long = LongTermBlob(scanned, up.d)]
      /\ restarts' = restarts + 1
      /\ UNCHANGED <<chain, snl, running, peak, detaches, store_quorum_history>>

Next ==
  \/ \E b \in Block : AddBlock(b)
  \/ \E b \in Block : AbortBlock(b)
  \/ \E n \in 1 .. Len(chain) : Detach(n)
  \/ \E k \in 0 .. Len(chain) - 1, f \in AltForks, v \in 0 .. VOTE_LIFETIME :
       \E last \in {Empty} \cup DOMAIN snl.alt :
         AltBlock(SubSeq(chain, 1, k), [fork |-> f, vote |-> v], last)
  \/ \E parent \in DOMAIN snl.alt, f \in AltForks, v \in 0 .. VOTE_LIFETIME :
       \E last \in DOMAIN snl.alt \cup {Empty} :
         AltBlock(parent, [fork |-> f, vote |-> v], last)
  \/ Stop
  \/ Crash
  \/ Start
  \/ StartInterrupted

Spec == Init /\ [][Next]_vars

-----------------------------------------------------------------------------
(* Properties *)

\* The maps of states are keyed by the heights of their states, and no more
\* old quorums are kept than were asked for.
TypeOK ==
  /\ chain \in Seq(Block)
  /\ \A set \in {snl.history, snl.archive} : \A h \in DOMAIN set :
       h \in Base .. MaxHeight /\ set[h].height = h
  /\ \A a \in DOMAIN snl.alt : a \in Seq(Block) /\ snl.alt[a].height = Height(a)
  /\ Len(snl.old) <= store_quorum_history
  /\ {running, snl.added, disk.short.present} \subseteq BOOLEAN
  /\ peak \in Base .. MaxHeight
  /\ detaches \in 0 .. MaxDetaches
  /\ restarts \in Nat
  /\ store_quorum_history \in QuorumHistories

\* The list a running daemon answers from is the list of its main chain:
\* after any sequence of blocks, reorganisations of one of the Depths,
\* orderly stops and crashes, blockchain_detached, load and
\* load_missing_blocks_into_sispop_subsystems bring back exactly the effects
\* of the chain's blocks, state changes included.
ListFollowsChain == running => snl.state = Canonical(chain)

\* Every state kept to go back to is a state of the main chain, and every
\* quorum kept to check votes is the main chain's.
KeptStatesFollowChain ==
  running =>
    \A set \in {snl.history, snl.archive} : \A h \in DOMAIN set :
      /\ h < Tip
      /\ set[h].quorums = Canonical(At(chain, h)).quorums
      /\ ~set[h].only_loaded_quorums => set[h] = Canonical(At(chain, h))

\* The quorum of every vote the next block may carry is at hand, also right
\* after blockchain_detached fell back on an archived state.
VotesVerifiable ==
  running => \A v \in 1 .. VOTE_LIFETIME - 1 :
    Tip + 1 - v > Base => get_quorum(snl, Tip + 1 - v) = Canonical(At(chain, Tip + 1 - v)).quorums

ForkHeight(a) == Height(LongestCommonPrefix({a, chain}))

\* The alternative state at height q of the branch of a is the only one of its
\* height, has missed no state change, and the main chain has a state there too.
Undisputed(a, q) ==
  /\ q < Tip
  /\ {c \in DOMAIN snl.alt : snl.alt[c].height = q} = {At(a, q)}
  /\ snl.alt[At(a, q)].nodes = At(a, q)

\* The state of an alternative block that comes has the list of its parent, on
\* the main chain or on a branch, with the effect of the block. A state change
\* that was voted on above the fork is left out at most when the main chain keeps
\* no state of that height or the loop of process_state_change_tx has several
\* alternative ones to try.
AltStatesFollowBranch ==
  [][\A a \in DOMAIN snl'.alt \ DOMAIN snl.alt :
       LET s == snl'.alt[a]
           b == a[Len(a)]
           q == Height(a) - b.vote
           parent == At(a, Height(a) - 1)
           nodes == IF IsPrefix(parent, chain) THEN parent ELSE snl.alt[parent].nodes
       IN  /\ s.block_hash = a
           /\ \/ s.nodes = Append(nodes, b)
              \/ /\ s.nodes = Append(nodes, [b EXCEPT !.vote = 0])
                 /\ q > ForkHeight(a) /\ ~Undisputed(a, q)]_vars

\* store() promises quorum information before the state it stores whole: every
\* quorum a block after it may have votes of is loaded with it.
StoredStatesHaveQuorums ==
  LET blob == store(snl, disk)
      last == Highest(blob.short.states)
  IN  running /\ Loads(blob, Tip + 1) =>
        \A v \in 1 .. VOTE_LIFETIME - 1 :
          last + 1 - v > Base => last + 1 - v \in DOMAIN blob.short.states \cup DOMAIN blob.long

\* update_from_block asserts height == block_height: the list is at the tip of
\* the chain when the next block comes.
AssertHeight == running => snl.state.height = Tip

\* load expects the old quorums in ascending order of height, and get_quorum
\* searches them by bisection.
OldQuorumsAscending == Ascending(snl.old)

\* load drops the old quorums below current_height - m_store_quorum_history, and
\* those kept are below the states of the short-term history: this many blocks of
\* quorum history, or none, must be asked for if init is to find enough of them.
LastsARestart == \/ store_quorum_history = 0
                 \/ store_quorum_history >= SHORT_TERM_STATE_HISTORY + EnoughQuorumHistory

\* A daemon that stops in order finds its list again when it starts, and has
\* not to scan the chain from hard fork 9: when it was asked for no quorum
\* history or for one that lasts, once there is a state to store and enough of
\* that history, and as long as no reorganisation has cut the chain. (With any
\* other length, 2 .. SHORT_TERM_STATE_HISTORY + EnoughQuorumHistory - 1, every
\* orderly restart scans the chain.)
CleanRestartKeepsList ==
  /\ running /\ detaches = 0
  /\ LastsARestart
  /\ Tip > Base + SHORT_TERM_STATE_HISTORY - QuorumBuffer
  /\ Enough(snl.old)
  => Keeps(store(snl, disk), chain)

=============================================================================
