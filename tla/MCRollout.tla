------------------------------ MODULE MCRollout ------------------------------
EXTENDS Rollout
One == {[kind |-> "int", value |-> 1]}
TwoOrThree == {[kind |-> "int", value |-> v] : v \in {2, 3}}
Mixed == {[kind |-> "unset", value |-> 0], [kind |-> "percent", value |-> 60], [kind |-> "invalid", value |-> 0]}

\* A pool in which at most node 1 was cordoned before the rollout: neither
\* findUnhealthySlots nor the order of the slots looks at cordons, and the
\* administrator may cordon the others meanwhile.
OneCordoned == Init /\ admin \subseteq {1}
HaltSpec == OneCordoned /\ [][Next]_vars
EditsSpec == OneCordoned /\ FairSpec
=============================================================================
