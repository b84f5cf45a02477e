------------------------- MODULE MCServiceNodeList -------------------------
(***************************************************************************)
(* Small instances of ServiceNodeList.                                     *)
(***************************************************************************)
EXTENDS ServiceNodeList, TLC

CONSTANTS alice, bob

\* One contributor that stakes everything.
SoleOperator == {[addresses |-> <<alice>>, portions |-> <<12>>]}

\* A half reserved for the operator, with the other half open or reserved.
SharedNodes == {[addresses |-> <<alice>>, portions |-> <<6>>],
                [addresses |-> <<alice, bob>>, portions |-> <<6, 6>>]}

\* A bound for the run on the reward queue: no proofs, no unlocks, no deregistered
\* node comes back.
QueueOnly ==
    /\ \A n \in PubKeys : proofs[n].timestamp = 0
    /\ \A n \in DOMAIN infos : infos[n].requested_unlock_height = 0
    /\ blacklist = {}
=============================================================================
