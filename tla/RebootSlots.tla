----------------------------- MODULE RebootSlots -----------------------------
(***************************************************************************)
(* What a rollout promises to the workloads of a pool, without the pass, the *)
(* API objects, the drains and the daemons that keep the promise: a node is  *)
(* taken out of service one slot at a time, goes down only after it was      *)
(* cleared of its workload, and serves again only after it came back.        *)
(* Module Rollout is shown to implement this specification.                  *)
(***************************************************************************)
EXTENDS Integers, FiniteSets, TLAPS

CONSTANT Node

VARIABLES
    life,   \* what a node is doing
    work,   \* does a workload run on the node?
    limit   \* how many nodes may be out of service when one more is taken

vars == <<life, work, limit>>

\* serving; held for an update; cleared to go down; down.
Life == {"serving", "held", "cleared", "down"}

OutOfService(l) == {n \in Node : l[n] # "serving"}

TypeOK ==
    /\ life \in [Node -> Life]
    /\ work \in [Node -> BOOLEAN]
    /\ limit \in Int

Init ==
    /\ life = [n \in Node |-> "serving"]
    /\ work \in [Node -> BOOLEAN]
    /\ limit \in Int

Moves(n, from, to) ==
    /\ life[n] \in from
    /\ \E l \in to : life' = [life EXCEPT ![n] = l]
    /\ UNCHANGED <<work, limit>>

Hold(n) ==
    /\ Moves(n, {"serving"}, {"held"})
    /\ Cardinality(OutOfService(life')) <= limit

Clear(n) == ~work[n] /\ Moves(n, {"held"}, {"cleared"})

\* The update the node was cleared for was replaced by another.
Revoke(n) == Moves(n, {"cleared"}, {"held"})

GoDown(n) == Moves(n, {"cleared"}, {"down"})

\* The node is back, with the update or without it.
ComeUp(n) == Moves(n, {"down"}, {"held", "cleared"})

Release(n) == Moves(n, {"held"}, {"serving"})

Schedule(n) ==
    /\ life[n] \in {"serving", "held"}
    /\ work' = [work EXCEPT ![n] = TRUE]
    /\ UNCHANGED <<life, limit>>

Evict(n) ==
    /\ life[n] = "held"
    /\ work' = [work EXCEPT ![n] = FALSE]
    /\ UNCHANGED <<life, limit>>

SetLimit ==
    /\ limit' \in Int
    /\ UNCHANGED <<life, work>>

Next ==
    \/ SetLimit
    \/ \E n \in Node : \/ Hold(n) \/ Clear(n) \/ Revoke(n) \/ GoDown(n) \/ ComeUp(n)
                       \/ Release(n) \/ Schedule(n) \/ Evict(n)

Spec == Init /\ [][Next]_vars

\* No workload runs on a node that is cleared to go down, or down.
NoWorkLost == \A n \in Node : life[n] \in {"cleared", "down"} => ~work[n]

\* A specification that takes these steps loses no workload: nothing is scheduled
\* on a node between its clearing and its return.
THEOREM PromiseLosesNoWork == Spec => []NoWorkLost
  <1> DEFINE Inv == TypeOK /\ NoWorkLost
  <1>1. Init => Inv
    BY DEF Init, TypeOK, NoWorkLost, Life
  <1>2. Inv /\ [Next]_vars => Inv'
    <2> SUFFICES ASSUME Inv, [Next]_vars PROVE Inv'
      OBVIOUS
    <2> USE DEF TypeOK, NoWorkLost, Life
    <2>1. ASSUME NEW n \in Node, NEW F, NEW T, T \subseteq Life, Moves(n, F, T),
                 T \cap {"cleared", "down"} = {} \/ ~work[n]
          PROVE  Inv'
      BY <2>1 DEF Moves
    <2>2. ASSUME NEW n \in Node, Hold(n) \/ Revoke(n) \/ Release(n) PROVE Inv'
      BY <2>1, <2>2 DEF Hold, Revoke, Release
    <2>3. ASSUME NEW n \in Node, Clear(n) \/ GoDown(n) \/ ComeUp(n) PROVE Inv'
      BY <2>1, <2>3 DEF Clear, GoDown, ComeUp, Moves
    <2>4. ASSUME NEW n \in Node, Schedule(n) \/ Evict(n) PROVE Inv'
      BY ZenonT(60), <2>4 DEF Schedule, Evict
    <2>5. CASE SetLimit
      BY <2>5 DEF SetLimit
    <2>6. CASE UNCHANGED vars
      BY <2>6 DEF vars
    <2> QED
      BY <2>2, <2>3, <2>4, <2>5, <2>6 DEF Next
  <1>3. Inv => NoWorkLost
    OBVIOUS
  <1> QED
    BY <1>1, <1>2, <1>3, PTL DEF Spec
=============================================================================
