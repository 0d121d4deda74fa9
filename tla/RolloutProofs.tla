---------------------------- MODULE RolloutProofs ----------------------------
(***************************************************************************)
(* Proofs of the safety properties of module Rollout, for any set of nodes, *)
(* any images and any bounds: types, reboot slots, and cordons.             *)
(***************************************************************************)
EXTENDS Rollout, FiniteSetTheorems, TLAPS

\* The records are large: give each prover some time.
USE SMTT(30), ZenonT(30)

(***************************************************************************)
(* Type correctness.                                                       *)
(***************************************************************************)

\* A merge patch of one BootcNode with another is a BootcNode.
LEMMA MergedType ==
    ASSUME NEW cur \in BootcNode, NEW old \in BootcNode, NEW new \in BootcNode
    PROVE  Merged(cur, old, new) \in BootcNode
  BY ZenonT(60) DEF Merged, BootcNode

\* What TypeOK says of the objects of one node.
LEMMA NodeTypes ==
    ASSUME TypeOK, NEW n \in Node
    PROVE  /\ bn[n] \in BootcNode /\ rec.bn[n] \in BootcNode
           /\ node[n] \in NodeObject /\ CachedNode[n] \in NodeObject
           /\ host[n] \in Host /\ rec.target \in Image
  BY DEF TypeOK, Reconcile, CachedNode

\* The modifications the controller makes to its copies keep their types.
LEMMA CopyTypes ==
    ASSUME NEW b \in BootcNode, NEW i \in Image, NEW nd \in NodeObject
    PROVE  /\ SyncedSpec(b, i) \in BootcNode /\ Approved(b) \in BootcNode
           /\ Unslotted(b) \in BootcNode /\ Slotted(b, nd) \in BootcNode
           /\ Restored(b, nd) \in NodeObject
  <1>1. SyncedSpec(b, i) \in BootcNode
    BY ZenonT(60) DEF BootcNode, SyncedSpec
  <1>2. Approved(b) \in BootcNode
    BY DEF BootcNode, Approved
  <1>3. Unslotted(b) \in BootcNode
    BY ZenonT(60) DEF BootcNode, Unslotted
  <1>4. Slotted(b, nd) \in BootcNode
    BY ZenonT(60) DEF BootcNode, Slotted
  <1>5. Restored(b, nd) \in NodeObject
    BY ZenonT(60) DEF NodeObject, Restored
  <1> QED
    BY <1>1, <1>2, <1>3, <1>4, <1>5

LEMMA PatchType ==
    ASSUME TypeOK, NEW n \in Node, NEW new \in BootcNode, PatchBN(n, new)
    PROVE  bn' \in [Node -> BootcNode] /\ Replied(n) \in [Node -> BootcNode]
  <1>2. Merged(bn[n], rec.bn[n], new) \in BootcNode
    BY NodeTypes, MergedType
  <1> QED
    BY <1>2 DEF PatchBN, Replied, TypeOK, Reconcile

\* resolveMaxUnavailable yields a number of nodes or the error value.
LEMMA LimitType ==
    ASSUME NEW p \in Pool PROVE resolveMaxUnavailable(p) \in Nat \cup {InvalidSpec}
  <1>1. /\ p.paused \in BOOLEAN
        /\ p.max.kind \in {"unset", "int", "percent", "invalid"} /\ p.max.value \in Nat
    BY MaxUnavailableAssumption DEF Pool
  <1>2. Cardinality(Node) \in Nat
    BY NodeAssumption, FS_CardinalityType
  <1>3. (p.max.value * Cardinality(Node) + 99) \div 100 \in Nat
    BY <1>1, <1>2
  <1> QED
    BY <1>1, <1>3 DEF resolveMaxUnavailable, InvalidSpec

LEMMA NoReconcileType == NoReconcile \in Reconcile
  BY ImageAssumption DEF NoReconcile, Reconcile, NewBootcNode, BootcNode, NodeObject, nodeState,
     InvalidSpec, Image

LEMMA InitType == Init => TypeOK
  <1> SUFFICES ASSUME Init PROVE TypeOK
    OBVIOUS
  <1>1. 0 \in Image /\ 0 \in 0 .. MaxEdits /\ 0 \in 0 .. MaxFaults
    BY ImageAssumption, BoundsAssumption DEF Image
  <1>2. bn \in [Node -> BootcNode]
    BY <1>1 DEF Init, NewBootcNode, BootcNode
  <1>3. node \in [Node -> NodeObject]
    BY DEF Init, NodeObject
  <1>4. host \in [Node -> Host]
    BY <1>1 DEF Init, Host
  <1>5. pool \in Pool
    BY ZenonT(60), <1>1 DEF Init, Pool
  <1> QED
    BY ZenonT(60), <1>1, <1>2, <1>3, <1>4, <1>5, NoReconcileType DEF Init, TypeOK

\* Every step keeps the types: one step per action of Next.
LEMMA NextType == TypeOK /\ [Next]_vars => TypeOK'
  <1> SUFFICES ASSUME TypeOK, [Next]_vars PROVE TypeOK'
    OBVIOUS
  <1> USE DEF external
  <1>1. CASE StartReconcile
    <2>1. resolveMaxUnavailable(pool) \in Nat \cup {InvalidSpec}
      BY LimitType DEF TypeOK
    <2>2. CachedBN \in [Node -> BootcNode]
      BY DEF TypeOK, CachedBN
    <2>3. pool.target \in Image
      BY DEF TypeOK, Pool
    <2>4. rec' \in Reconcile
      BY ZenonT(60), <1>1, <2>1, <2>2, <2>3, NoReconcileType DEF StartReconcile, Reconcile
    <2> QED
      BY <1>1, <2>4 DEF StartReconcile, TypeOK
  <1>2. CASE StartCollect
    BY ZenonT(60), <1>2 DEF StartCollect, TypeOK, Reconcile
  <1>3. CASE buildRolloutState
    <2>1. ASSUME NEW n \in Node PROVE classWithTimeout(rec.bn[n]) \in nodeState
      <3>1. rec.bn[n] \in BootcNode
        BY DEF TypeOK, Reconcile
      <3> QED
        BY <3>1 DEF classWithTimeout, classifyNode, nodeState, BootcNode
    <2>2. Cardinality(InSlot(rec.bn)) \in Int
      <3>1. IsFiniteSet(InSlot(rec.bn))
        BY NodeAssumption, FS_Subset DEF InSlot
      <3> QED
        BY <3>1, FS_CardinalityType
    <2>3. InSlot(rec.bn) \subseteq Node
      BY DEF InSlot
    <2>4. rec' \in Reconcile
      BY ZenonT(60), <1>3, <2>1, <2>2, <2>3 DEF buildRolloutState, TypeOK, Reconcile
    <2> QED
      BY <1>3, <2>4 DEF buildRolloutState, TypeOK
  <1>4. CASE HaltRollout
    BY <1>4, NoReconcileType DEF HaltRollout, Abort, TypeOK
  <1>5. CASE StartAssign
    <2>1. availableSlots(rec.limit, rec.occupied) \in Nat
      BY <1>5 DEF StartAssign, availableSlots, TypeOK, Reconcile, InvalidSpec
    <2> QED
      BY ZenonT(60), <1>5, <2>1 DEF StartAssign, TypeOK, Reconcile
  <1>6. CASE ensureDrain
    BY <1>6, NoReconcileType DEF ensureDrain, Abort, TypeOK
  <1>7. ASSUME NEW n \in Node, syncBootcNodeSpec(n) PROVE TypeOK'
    <2>1. SyncedSpec(rec.bn[n], rec.target) \in BootcNode
      BY NodeTypes, CopyTypes
    <2>2. bn' \in [Node -> BootcNode] /\ Replied(n) \in [Node -> BootcNode]
      BY <1>7, <2>1, PatchType DEF syncBootcNodeSpec
    <2>3. rec' \in Reconcile
      BY ZenonT(60), <1>7, <2>2 DEF syncBootcNodeSpec, TypeOK, Reconcile
    <2> QED
      BY <1>7, <2>2, <2>3 DEF syncBootcNodeSpec, TypeOK
  <1>8. ASSUME NEW n \in Node, collectDrainResults(n) PROVE TypeOK'
    <2>1. Approved(rec.bn[n]) \in BootcNode
      BY NodeTypes, CopyTypes
    <2>2. bn' \in [Node -> BootcNode] /\ Replied(n) \in [Node -> BootcNode]
      BY <1>8, <2>1, PatchType, NodeTypes DEF collectDrainResults, TypeOK, Reconcile, Replied
    <2>3. rec' \in Reconcile
      <3>1. CASE drains[n] # "failed"
        <4>1. rec' = [rec EXCEPT !.bn = Replied(n), !.todo = @ \ {n}]
          BY <1>8, <3>1 DEF collectDrainResults
        <4> QED
          BY ZenonT(60), <4>1, <2>2 DEF TypeOK, Reconcile
      <3>2. CASE drains[n] = "failed"
        BY <1>8, <3>2 DEF collectDrainResults, TypeOK, Reconcile
      <3> QED
        BY <3>1, <3>2
    <2> QED
      BY ZenonT(60), <1>8, <2>2, <2>3 DEF collectDrainResults, TypeOK
  <1>9. ASSUME NEW n \in Node, freeCompletedSlot(n) PROVE TypeOK'
    <2>1. Restored(rec.bn[n], node[n]) \in NodeObject
      BY NodeTypes, CopyTypes
    <2>2. node' \in [Node -> NodeObject]
      BY <1>9, <2>1 DEF freeCompletedSlot, TypeOK
    <2>3. rec' \in Reconcile
      <3>1. CASE rec' = [rec EXCEPT !.todo = @ \ {n}]
        BY <3>1 DEF TypeOK, Reconcile
      <3>2. CASE rec' = [rec EXCEPT !.pc = "freed", !.cur = {n}]
        BY ZenonT(60), <3>2 DEF TypeOK, Reconcile
      <3>3. CASE rec' = NoReconcile
        BY <3>3, NoReconcileType
      <3> QED
        BY <1>9, <3>1, <3>2, <3>3 DEF freeCompletedSlot, Abort
    <2> QED
      BY <1>9, <2>2, <2>3 DEF freeCompletedSlot, TypeOK
  <1>10. ASSUME NEW n \in Node, freeRebootSlot(n) PROVE TypeOK'
    <2>1. Unslotted(rec.bn[n]) \in BootcNode
      BY NodeTypes, CopyTypes
    <2>2. bn' \in [Node -> BootcNode] /\ Replied(n) \in [Node -> BootcNode]
      BY <1>10, <2>1, PatchType DEF freeRebootSlot
    <2>3. rec' \in Reconcile
      <3>1. rec' = [rec EXCEPT !.pc = "free", !.bn = Replied(n), !.todo = @ \ {n}, !.cur = {},
                               !.occupied = @ - 1]
        BY <1>10 DEF freeRebootSlot
      <3>2. rec.occupied - 1 \in Int
        BY DEF TypeOK, Reconcile
      <3> QED
        BY ZenonT(60), <3>1, <3>2, <2>2 DEF TypeOK, Reconcile
    <2> QED
      BY <1>10, <2>2, <2>3 DEF freeRebootSlot, TypeOK
  <1>11. ASSUME NEW n \in Node, assignRebootSlot(n) PROVE TypeOK'
    <2>1. Slotted(rec.bn[n], CachedNode[n]) \in BootcNode
      BY NodeTypes, CopyTypes
    <2>2. bn' \in [Node -> BootcNode] /\ Replied(n) \in [Node -> BootcNode]
      BY <1>11, <2>1, PatchType, NodeTypes DEF assignRebootSlot, TypeOK, Reconcile, Replied
    <2>3. (IF rec.bn[n].inSlot THEN rec.slots ELSE rec.slots - 1) \in Nat
      BY <1>11 DEF assignRebootSlot, Candidate, TypeOK, Reconcile
    <2>4. rec' \in Reconcile
      BY ZenonT(60), <1>11, <2>2, <2>3, NodeTypes DEF assignRebootSlot, TypeOK, Reconcile
    <2> QED
      BY <1>11, <2>2, <2>4 DEF assignRebootSlot, TypeOK
  <1>12. ASSUME NEW n \in Node, cordonNode(n) PROVE TypeOK'
    <2>1. [node[n] EXCEPT !.cordoned = TRUE] \in NodeObject
      BY ZenonT(60), NodeTypes DEF NodeObject
    <2>2. node' \in [Node -> NodeObject]
      BY ZenonT(60), <1>12, <2>1 DEF cordonNode, TypeOK
    <2>3. rec' \in Reconcile
      <3>1. CASE rec' = [rec EXCEPT !.pc = "assign", !.todo = @ \ {n}, !.cur = {}]
        BY ZenonT(60), <3>1 DEF TypeOK, Reconcile
      <3>2. CASE rec' = NoReconcile
        BY <3>2, NoReconcileType
      <3> QED
        BY <1>12, <3>1, <3>2 DEF cordonNode, Abort
    <2> QED
      BY <1>12, <2>2, <2>3 DEF cordonNode, TypeOK
  <1>13. CASE ApiError
    BY <1>13, NoReconcileType, BoundsAssumption DEF ApiError, Abort, TypeOK
  <1>14. CASE ControllerCrash
    BY <1>14, NoReconcileType, BoundsAssumption DEF ControllerCrash, Abort, TypeOK
  <1>15. CASE EditPool
    <2>1. pool' \in Pool
      BY ZenonT(60), <1>15 DEF EditPool, TypeOK, Pool
    <2> QED
      BY <1>15, <2>1, BoundsAssumption DEF EditPool, TypeOK
  <1>16. ASSUME NEW n \in Node, collectFails(n) \/ otherPoolCollects(n) PROVE TypeOK'
    BY <1>16, NoReconcileType, BoundsAssumption DEF collectFails, otherPoolCollects, Abort, TypeOK
  <1>17. ASSUME NEW n \in Node, SchedulePod(n) \/ DrainFinishes(n) PROVE TypeOK'
    <2>1. CASE SchedulePod(n)
      BY <2>1 DEF SchedulePod, TypeOK
    <2>2. CASE DrainFinishes(n)
      <3>1. faults' \in 0 .. MaxFaults
        BY <2>2, BoundsAssumption DEF DrainFinishes, TypeOK
      <3>2. drains' \in [Node -> {"none", "running", "ok", "failed"}] /\ pods' \in [Node -> BOOLEAN]
        BY ZenonT(60), <2>2 DEF DrainFinishes, TypeOK
      <3> QED
        BY <2>2, <3>1, <3>2 DEF DrainFinishes, TypeOK
    <2> QED
      BY <1>17, <2>1, <2>2
  <1>18. ASSUME NEW n \in Node,
                HostLosesPower(n) \/ Reboot(n) \/ KubeletReady(n) \/ AdminCordons(n)
         PROVE  TypeOK'
    <2>1. ASSUME NEW v \in BOOLEAN
          PROVE  /\ [node[n] EXCEPT !.ready = v] \in NodeObject
                 /\ [node[n] EXCEPT !.cordoned = v] \in NodeObject
      BY NodeTypes DEF NodeObject
    <2>2. node' \in [Node -> NodeObject]
      BY ZenonT(60), <1>18, <2>1, NodeTypes
         DEF HostLosesPower, Reboot, KubeletReady, AdminCordons, TypeOK, NodeObject
    <2>3. ASSUME NEW p \in {"up", "down"} PROVE [host[n] EXCEPT !.phase = p] \in Host
      BY NodeTypes DEF Host
    <2>4. host' \in [Node -> Host]
      BY <1>18, <2>3 DEF HostLosesPower, Reboot, KubeletReady, AdminCordons, TypeOK
    <2> QED
      BY <1>18, <2>2, <2>4, BoundsAssumption
         DEF HostLosesPower, Reboot, KubeletReady, AdminCordons, TypeOK
  <1>19. ASSUME NEW n \in Node,
                RebootOverdue(n) \/ SyncBootcNodeCache(n) \/ SyncNodeCache(n)
         PROVE  TypeOK'
    <2>1. [bn[n] EXCEPT !.late = TRUE] \in BootcNode
      BY ZenonT(60), NodeTypes DEF BootcNode
    <2>2. CASE RebootOverdue(n)
      BY <2>1, <2>2 DEF RebootOverdue, TypeOK
    <2>3. CASE SyncBootcNodeCache(n)
      BY <2>3 DEF SyncBootcNodeCache, TypeOK
    <2>4. CASE SyncNodeCache(n)
      BY <2>4 DEF SyncNodeCache, TypeOK
    <2> QED
      BY <1>19, <2>2, <2>3, <2>4
  <1>20. ASSUME NEW n \in Node, DaemonReconcile(n) PROVE TypeOK'
    <2>1. ASSUME NEW idle \in {"Idle", "Staging", "Staged", "Rebooting"}, NEW d \in BOOLEAN,
                 Report(n, idle, d)
          PROVE  bn' \in [Node -> BootcNode]
      <3>1. [bn[n] EXCEPT !.booted = host[n].booted, !.idle = idle, !.degraded = d,
                          !.late = FALSE] \in BootcNode
        BY ZenonT(60), NodeTypes DEF BootcNode, Host
      <3> QED
        BY <2>1, <3>1 DEF Report, TypeOK
    <2>2. bn' \in [Node -> BootcNode]
      BY ZenonT(60), <1>20, <2>1 DEF DaemonReconcile
    <2>3. /\ [host[n] EXCEPT !.stageErr = FALSE] \in Host
          /\ [host[n] EXCEPT !.stage = bn[n].desired] \in Host
          /\ [host[n] EXCEPT !.phase = "reboot"] \in Host
      BY ZenonT(60), NodeTypes DEF Host, BootcNode
    <2>4. host' \in [Node -> Host]
      BY ZenonT(60), <1>20, <2>3 DEF DaemonReconcile, TypeOK
    <2> QED
      BY <1>20, <2>2, <2>4 DEF DaemonReconcile, TypeOK
  <1>21. ASSUME NEW n \in Node, StageFinishes(n) \/ HostBoots(n) PROVE TypeOK'
    <2>1. /\ [host[n] EXCEPT !.staged = host[n].stage, !.stage = NoImage] \in Host
          /\ [host[n] EXCEPT !.stageErr = TRUE, !.stage = NoImage] \in Host
          /\ [booted |-> IF host[n].staged = NoImage THEN host[n].booted ELSE host[n].staged,
              staged |-> NoImage, stage |-> NoImage, stageErr |-> FALSE, phase |-> "up"] \in Host
      BY ZenonT(60), NodeTypes DEF Host
    <2>2. host' \in [Node -> Host]
      BY ZenonT(60), <1>21, <2>1 DEF StageFinishes, HostBoots, TypeOK
    <2> QED
      BY <1>21, <2>2, BoundsAssumption DEF StageFinishes, HostBoots, TypeOK
  <1>22. CASE UNCHANGED vars
    BY <1>22 DEF vars, TypeOK
  <1> QED
    BY <1>1, <1>2, <1>3, <1>4, <1>5, <1>6, <1>7, <1>8, <1>9, <1>10, <1>11, <1>12, <1>13, <1>14,
       <1>15, <1>16, <1>17, <1>18, <1>19, <1>20, <1>21, <1>22
       DEF Next, Controller, Machine, Disturbance

\* Every reachable state is well typed; in particular the number of slots a pass
\* may still assign never becomes negative, whatever limit and edits it meets.
THEOREM TypeCorrect == Spec => []TypeOK
  BY InitType, NextType, PTL DEF Spec

(***************************************************************************)
(* The working copies of a pass.                                           *)
(***************************************************************************)

\* With a faithful working copy a merge patch writes what the controller meant.
LEMMA PatchEffect ==
    ASSUME TypeOK, WorkingCopies, rec.pc # "idle",
           NEW n \in Node, NEW new \in BootcNode, PatchBN(n, new)
    PROVE  /\ Agree(bn'[n], new)
           /\ bn'[n].booted = bn[n].booted /\ bn'[n].idle = bn[n].idle
           /\ Replied(n)[n] = bn'[n]
           /\ \A m \in Node \ {n} : bn'[m] = bn[m] /\ Replied(n)[m] = rec.bn[m]
  <1>1. bn[n] \in BootcNode /\ rec.bn[n] \in BootcNode /\ Agree(rec.bn[n], bn[n])
    BY NodeTypes DEF WorkingCopies
  <1>2. bn'[n] = Merged(bn[n], rec.bn[n], new)
    BY DEF PatchBN, TypeOK
  <1>3. /\ Agree(Merged(bn[n], rec.bn[n], new), new)
        /\ Merged(bn[n], rec.bn[n], new).booted = bn[n].booted
        /\ Merged(bn[n], rec.bn[n], new).idle = bn[n].idle
    BY <1>1 DEF Merged, Agree, BootcNode
  <1>4. Replied(n)[n] = bn'[n]
    BY DEF Replied, TypeOK, Reconcile
  <1>5. ASSUME NEW m \in Node \ {n} PROVE bn'[m] = bn[m] /\ Replied(n)[m] = rec.bn[m]
    BY DEF PatchBN, Replied, TypeOK, Reconcile
  <1> QED
    BY <1>2, <1>3, <1>4, <1>5

\* The steps of everybody but the controller.
Others == \E n \in Node : \/ Machine(n) \/ SchedulePod(n) \/ HostLosesPower(n) \/ RebootOverdue(n)
                           \/ SyncBootcNodeCache(n) \/ SyncNodeCache(n) \/ AdminCordons(n)

\* They leave the pass and the controller's fields of the BootcNodes alone.
LEMMA OthersKeep ==
    ASSUME TypeOK, Others \/ EditPool \/ UNCHANGED vars
    PROVE  rec' = rec /\ \A m \in Node : Agree(bn'[m], bn[m])
  <1>1. ASSUME NEW n \in Node, NEW idle, NEW d, Report(n, idle, d), NEW m \in Node
        PROVE  Agree(bn'[m], bn[m])
    <2>1. bn[n] \in BootcNode /\ bn \in [Node -> BootcNode]
      BY DEF TypeOK
    <2>2. CASE m = n
      BY <1>1, <2>1, <2>2 DEF Report, Agree, BootcNode
    <2>3. CASE m # n
      BY <1>1, <2>1, <2>3 DEF Report, Agree
    <2> QED
      BY <2>2, <2>3
  <1>2. ASSUME NEW n \in Node, DaemonReconcile(n)
        PROVE  rec' = rec /\ \A m \in Node : Agree(bn'[m], bn[m])
    <2>1. \E idle, d : Report(n, idle, d)
      BY ZenonT(60), <1>2 DEF DaemonReconcile
    <2> QED
      BY <1>1, <1>2, <2>1 DEF DaemonReconcile
  <1>3. ASSUME NEW n \in Node, RebootOverdue(n)
        PROVE  rec' = rec /\ \A m \in Node : Agree(bn'[m], bn[m])
    <2>1. ASSUME NEW m \in Node PROVE Agree(bn'[m], bn[m])
      <3>1. bn[n] \in BootcNode /\ bn \in [Node -> BootcNode]
        BY DEF TypeOK
      <3> QED
        BY <1>3, <3>1 DEF RebootOverdue, Agree, BootcNode
    <2> QED
      BY ZenonT(60), <1>3, <2>1 DEF RebootOverdue
  <1>4. ASSUME rec' = rec, bn' = bn
        PROVE  rec' = rec /\ \A m \in Node : Agree(bn'[m], bn[m])
    BY <1>4 DEF Agree
  <1> QED
    BY ZenonT(60), <1>2, <1>3, <1>4 DEF Others, Machine, vars, DrainFinishes, StageFinishes, Reboot, HostBoots,
       KubeletReady, SchedulePod, HostLosesPower, SyncBootcNodeCache, SyncNodeCache, AdminCordons,
       EditPool

\* The steps of the controller that end its pass.
Aborts == rec' = NoReconcile

LEMMA AbortSteps ==
    ASSUME HaltRollout \/ ensureDrain \/ ApiError \/ ControllerCrash
           \/ \E n \in Node : collectFails(n) \/ otherPoolCollects(n)
    PROVE  Aborts /\ bn' = bn /\ node' = node
  BY DEF HaltRollout, ensureDrain, ApiError, ControllerCrash, collectFails, otherPoolCollects, Abort, Aborts

\* The working copies stay faithful while the caches are fresh.
LEMMA WorkingCopiesStep ==
    ASSUME TypeOK, WorkingCopies, ~Lagging, [Next]_vars
    PROVE  WorkingCopies'
  <1> USE DEF WorkingCopies
  <1>1. CASE StartReconcile
    BY <1>1 DEF StartReconcile, CachedBN, NoReconcile, Agree
  <1>2. CASE StartCollect \/ buildRolloutState \/ StartAssign
    <2>1. rec.pc # "idle" /\ rec'.bn = rec.bn /\ bn' = bn
      BY ZenonT(60), <1>2 DEF StartCollect, buildRolloutState, StartAssign, TypeOK, Reconcile
    <2> QED
      BY <2>1
  <1>3. CASE Aborts
    BY <1>3 DEF Aborts, NoReconcile
  <1>4. ASSUME NEW n \in Node, NEW new \in BootcNode, PatchBN(n, new), rec.pc # "idle",
               rec'.bn = Replied(n)
        PROVE  WorkingCopies'
    BY <1>4, PatchEffect DEF Agree
  <1>5. ASSUME NEW n \in Node, syncBootcNodeSpec(n) PROVE WorkingCopies'
    <2>1. SyncedSpec(rec.bn[n], rec.target) \in BootcNode
      BY NodeTypes, CopyTypes
    <2>2. rec.pc # "idle" /\ rec'.bn = Replied(n)
      BY <1>5 DEF syncBootcNodeSpec, TypeOK, Reconcile
    <2> QED
      BY <1>4, <1>5, <2>1, <2>2 DEF syncBootcNodeSpec
  <1>6. ASSUME NEW n \in Node, collectDrainResults(n) PROVE WorkingCopies'
    <2>1. Approved(rec.bn[n]) \in BootcNode
      BY ZenonT(60), NodeTypes, CopyTypes
    <2>2. CASE drains[n] # "failed"
      <3>1. rec.pc # "idle" /\ rec'.bn = Replied(n)
        BY ZenonT(60), <1>6, <2>2 DEF collectDrainResults, TypeOK, Reconcile
      <3> QED
        BY <1>4, <1>6, <2>1, <2>2, <3>1 DEF collectDrainResults
    <2>3. CASE drains[n] = "failed"
      <3>1. rec.pc # "idle" /\ rec'.bn = rec.bn /\ bn' = bn
        BY <1>6, <2>3 DEF collectDrainResults, TypeOK, Reconcile
      <3> QED
        BY <3>1
    <2> QED
      BY <2>2, <2>3
  <1>7. ASSUME NEW n \in Node, freeCompletedSlot(n) \/ cordonNode(n) PROVE WorkingCopies'
    <2>1. CASE rec' = NoReconcile
      BY <2>1 DEF NoReconcile
    <2>2. CASE rec' # NoReconcile
      <3>1. rec.pc # "idle" /\ rec'.bn = rec.bn /\ bn' = bn
        BY ZenonT(60), <1>7, <2>2 DEF freeCompletedSlot, cordonNode, Abort, TypeOK, Reconcile
      <3> QED
        BY <3>1
    <2> QED
      BY <2>1, <2>2
  <1>8. ASSUME NEW n \in Node, freeRebootSlot(n) PROVE WorkingCopies'
    <2>1. Unslotted(rec.bn[n]) \in BootcNode
      BY ZenonT(60), NodeTypes, CopyTypes
    <2>2. rec.pc # "idle" /\ rec'.bn = Replied(n)
      BY <1>8 DEF freeRebootSlot, TypeOK, Reconcile
    <2> QED
      BY <1>4, <1>8, <2>1, <2>2 DEF freeRebootSlot
  <1>9. ASSUME NEW n \in Node, assignRebootSlot(n) PROVE WorkingCopies'
    <2>1. Slotted(rec.bn[n], CachedNode[n]) \in BootcNode
      BY NodeTypes, CopyTypes
    <2>2. CASE Slotted(rec.bn[n], CachedNode[n]) = rec.bn[n]
      <3>1. rec.pc # "idle" /\ rec'.bn = rec.bn /\ bn' = bn
        BY <1>9, <2>2 DEF assignRebootSlot, TypeOK, Reconcile
      <3> QED
        BY <3>1
    <2>3. CASE Slotted(rec.bn[n], CachedNode[n]) # rec.bn[n]
      <3>1. rec.pc # "idle" /\ rec'.bn = Replied(n)
        BY <1>9, <2>3 DEF assignRebootSlot, TypeOK, Reconcile
      <3> QED
        BY <1>4, <1>9, <2>1, <2>3, <3>1 DEF assignRebootSlot
    <2> QED
      BY <2>2, <2>3
  <1>10. CASE Others \/ EditPool \/ UNCHANGED vars
    BY <1>10, OthersKeep DEF Agree
  <1> QED
    BY <1>1, <1>2, <1>3, <1>5, <1>6, <1>7, <1>8, <1>9, <1>10, AbortSteps
       DEF Next, Controller, Disturbance, Others

(***************************************************************************)
(* What the four patching actions do, given faithful working copies.       *)
(***************************************************************************)

LEMMA SyncEffect ==
    ASSUME TypeOK, WorkingCopies, NEW n \in Node, syncBootcNodeSpec(n)
    PROVE  /\ rec.pc = "sync" /\ rec'.pc = "sync" /\ rec'.target = rec.target
           /\ bn'[n].desired = rec.target /\ bn'[n].state = "Staged"
           /\ bn'[n].inSlot = bn[n].inSlot /\ bn'[n].wasCordoned = bn[n].wasCordoned
           /\ bn'[n].booted = bn[n].booted /\ bn'[n].idle = bn[n].idle
           /\ rec'.bn[n] = bn'[n]
           /\ \A m \in Node \ {n} : bn'[m] = bn[m] /\ rec'.bn[m] = rec.bn[m]
  <1>1. /\ SyncedSpec(rec.bn[n], rec.target) \in BootcNode /\ rec.bn[n] \in BootcNode
        /\ rec.pc = "sync" /\ Agree(rec.bn[n], bn[n])
    BY NodeTypes, CopyTypes DEF syncBootcNodeSpec, WorkingCopies
  <1>2. /\ Agree(bn'[n], SyncedSpec(rec.bn[n], rec.target))
        /\ bn'[n].booted = bn[n].booted /\ bn'[n].idle = bn[n].idle
        /\ Replied(n)[n] = bn'[n]
        /\ \A m \in Node \ {n} : bn'[m] = bn[m] /\ Replied(n)[m] = rec.bn[m]
    BY <1>1, PatchEffect DEF syncBootcNodeSpec
  <1>3. rec'.pc = "sync" /\ rec'.target = rec.target /\ rec'.bn = Replied(n)
    BY DEF syncBootcNodeSpec, TypeOK, Reconcile
  <1> QED
    BY <1>1, <1>2, <1>3 DEF Agree, SyncedSpec, BootcNode

LEMMA CollectEffect ==
    ASSUME TypeOK, WorkingCopies, NEW n \in Node, collectDrainResults(n)
    PROVE  /\ rec.pc = "collect" /\ rec'.pc = "collect" /\ rec'.target = rec.target
           /\ rec'.todo = rec.todo \ {n}
           /\ bn'[n].desired = bn[n].desired
           /\ bn'[n].state = IF drains[n] = "failed" THEN bn[n].state ELSE "Booted"
           /\ bn'[n].inSlot = bn[n].inSlot /\ bn'[n].wasCordoned = bn[n].wasCordoned
           /\ bn'[n].booted = bn[n].booted /\ bn'[n].idle = bn[n].idle
           /\ rec'.bn[n] = bn'[n] \/ (drains[n] = "failed" /\ rec'.bn[n] = rec.bn[n])
           /\ \A m \in Node \ {n} : bn'[m] = bn[m] /\ rec'.bn[m] = rec.bn[m]
  <1>1. /\ Approved(rec.bn[n]) \in BootcNode /\ rec.bn[n] \in BootcNode
        /\ rec.pc = "collect" /\ Agree(rec.bn[n], bn[n])
    BY NodeTypes, CopyTypes DEF collectDrainResults, WorkingCopies
  <1>2. rec'.pc = "collect" /\ rec'.target = rec.target /\ rec'.todo = rec.todo \ {n}
    BY ZenonT(60) DEF collectDrainResults, TypeOK, Reconcile
  <1>3. CASE drains[n] = "failed"
    <2>1. bn' = bn /\ rec'.bn = rec.bn
      BY <1>3 DEF collectDrainResults, TypeOK, Reconcile
    <2> QED
      BY <1>1, <1>2, <1>3, <2>1
  <1>4. CASE drains[n] # "failed"
    <2>1. PatchBN(n, Approved(rec.bn[n])) /\ rec'.bn = Replied(n)
      BY ZenonT(60), <1>4 DEF collectDrainResults, TypeOK, Reconcile
    <2>2. /\ Agree(bn'[n], Approved(rec.bn[n]))
          /\ bn'[n].booted = bn[n].booted /\ bn'[n].idle = bn[n].idle
          /\ Replied(n)[n] = bn'[n]
          /\ \A m \in Node \ {n} : bn'[m] = bn[m] /\ Replied(n)[m] = rec.bn[m]
      BY <1>1, <2>1, PatchEffect
    <2>3. /\ bn'[n].desired = bn[n].desired /\ bn'[n].state = "Booted"
          /\ bn'[n].inSlot = bn[n].inSlot /\ bn'[n].wasCordoned = bn[n].wasCordoned
      BY <1>1, <2>2 DEF Agree, Approved, BootcNode
    <2>4. rec'.bn[n] = bn'[n] /\ \A m \in Node \ {n} : bn'[m] = bn[m] /\ rec'.bn[m] = rec.bn[m]
      BY <2>1, <2>2
    <2>5. bn'[n].booted = bn[n].booted /\ bn'[n].idle = bn[n].idle
      BY <2>2
    <2> QED
      BY <1>1, <1>2, <1>4, <2>3, <2>4, <2>5
  <1> QED
    BY <1>3, <1>4

LEMMA FreeEffect ==
    ASSUME TypeOK, WorkingCopies, NEW n \in Node, freeRebootSlot(n)
    PROVE  /\ rec.pc = "freed" /\ rec'.pc = "free" /\ rec'.target = rec.target
           /\ rec'.todo = rec.todo \ {n} /\ rec'.cur = {} /\ n \in rec.cur
           /\ rec'.occupied = rec.occupied - 1 /\ rec'.class = rec.class
           /\ bn'[n].desired = bn[n].desired /\ bn'[n].state = bn[n].state
           /\ bn'[n].inSlot = FALSE
           /\ bn'[n].booted = bn[n].booted /\ bn'[n].idle = bn[n].idle
           /\ rec'.bn[n] = bn'[n]
           /\ \A m \in Node \ {n} : bn'[m] = bn[m] /\ rec'.bn[m] = rec.bn[m]
  <1>1. /\ Unslotted(rec.bn[n]) \in BootcNode /\ rec.bn[n] \in BootcNode
        /\ rec.pc = "freed" /\ Agree(rec.bn[n], bn[n])
    BY NodeTypes, CopyTypes DEF freeRebootSlot, WorkingCopies
  <1>2. /\ Agree(bn'[n], Unslotted(rec.bn[n]))
        /\ bn'[n].booted = bn[n].booted /\ bn'[n].idle = bn[n].idle
        /\ Replied(n)[n] = bn'[n]
        /\ \A m \in Node \ {n} : bn'[m] = bn[m] /\ Replied(n)[m] = rec.bn[m]
    BY <1>1, PatchEffect DEF freeRebootSlot
  <1>3. /\ rec'.pc = "free" /\ rec'.target = rec.target /\ rec'.bn = Replied(n)
        /\ rec'.todo = rec.todo \ {n} /\ rec'.cur = {} /\ n \in rec.cur
        /\ rec'.occupied = rec.occupied - 1 /\ rec'.class = rec.class
    BY DEF freeRebootSlot, TypeOK, Reconcile
  <1>4. /\ bn'[n].desired = bn[n].desired /\ bn'[n].state = bn[n].state
        /\ bn'[n].inSlot = FALSE
    BY <1>1, <1>2 DEF Agree, Unslotted, BootcNode
  <1> QED
    BY <1>1, <1>2, <1>3, <1>4

LEMMA AssignEffect ==
    ASSUME TypeOK, WorkingCopies, ~Lagging, NEW n \in Node, assignRebootSlot(n)
    PROVE  /\ rec.pc = "assign" /\ rec'.pc = "cordon" /\ rec'.target = rec.target
           /\ rec'.limit = rec.limit
           /\ n \in rec.todo /\ rec'.todo = rec.todo /\ rec'.cur = {n} /\ rec'.node = node[n]
           /\ rec'.slots = IF bn[n].inSlot THEN rec.slots ELSE rec.slots - 1
           /\ bn[n].inSlot \/ rec.slots > 0
           /\ rec'.class = rec.class
           /\ bn'[n].desired = bn[n].desired /\ bn'[n].state = bn[n].state
           /\ bn'[n].inSlot = TRUE
           /\ bn'[n].wasCordoned = IF bn[n].inSlot THEN bn[n].wasCordoned
                                   ELSE IF node[n].cordoned THEN "true" ELSE "false"
           /\ bn'[n].booted = bn[n].booted /\ bn'[n].idle = bn[n].idle
           /\ rec'.bn[n] \in {rec.bn[n], bn'[n]}
           /\ \A m \in Node \ {n} : bn'[m] = bn[m] /\ rec'.bn[m] = rec.bn[m]
  <1> DEFINE new == Slotted(rec.bn[n], node[n])
  <1>1. /\ new \in BootcNode /\ rec.bn[n] \in BootcNode /\ bn[n] \in BootcNode
        /\ rec.pc = "assign" /\ Agree(rec.bn[n], bn[n]) /\ CachedNode = node
    BY NodeTypes, CopyTypes DEF assignRebootSlot, WorkingCopies, CachedNode
  <1>2. /\ rec'.pc = "cordon" /\ rec'.target = rec.target /\ rec'.limit = rec.limit
        /\ n \in rec.todo /\ rec'.todo = rec.todo /\ rec'.cur = {n} /\ rec'.node = node[n]
        /\ rec'.slots = IF rec.bn[n].inSlot THEN rec.slots ELSE rec.slots - 1
        /\ rec.bn[n].inSlot \/ rec.slots > 0
        /\ rec'.class = rec.class
    BY <1>1 DEF assignRebootSlot, Candidate, TypeOK, Reconcile
  <1>3. /\ new.desired = bn[n].desired /\ new.state = bn[n].state /\ new.inSlot = TRUE
        /\ new.wasCordoned = IF bn[n].inSlot THEN bn[n].wasCordoned
                             ELSE IF node[n].cordoned THEN "true" ELSE "false"
    BY <1>1 DEF Agree, Slotted, BootcNode
  <1>4. CASE new = rec.bn[n]
    <2>1. bn' = bn /\ rec'.bn = rec.bn
      BY <1>1, <1>4 DEF assignRebootSlot, TypeOK, Reconcile
    <2> HIDE DEF new
    <2> QED
      BY <1>1, <1>2, <1>3, <1>4, <2>1 DEF Agree
  <1>5. CASE new # rec.bn[n]
    <2>1. PatchBN(n, new) /\ rec'.bn = Replied(n)
      BY <1>1, <1>5 DEF assignRebootSlot, TypeOK, Reconcile
    <2> HIDE DEF new
    <2>2. /\ Agree(bn'[n], new)
          /\ bn'[n].booted = bn[n].booted /\ bn'[n].idle = bn[n].idle
          /\ Replied(n)[n] = bn'[n]
          /\ \A m \in Node \ {n} : bn'[m] = bn[m] /\ Replied(n)[m] = rec.bn[m]
      BY <1>1, <2>1, PatchEffect
    <2> QED
      BY <1>1, <1>2, <1>3, <2>1, <2>2 DEF Agree
  <1> QED
    BY ZenonT(60), <1>4, <1>5

(***************************************************************************)
(* The reboot slots in use.                                                *)
(***************************************************************************)

LEMMA InSlotFinite == \A f : IsFiniteSet(InSlot(f)) /\ Cardinality(InSlot(f)) \in Nat
  <1> TAKE f
  <1>1. InSlot(f) \subseteq Node
    BY DEF InSlot
  <1> QED
    BY <1>1, NodeAssumption, FS_Subset, FS_CardinalityType

LEMMA SameSlots ==
    ASSUME \A m \in Node : bn'[m].inSlot = bn[m].inSlot PROVE InSlot(bn') = InSlot(bn)
  BY DEF InSlot

\* The counters of a pass follow the slots it frees and assigns.
LEMMA SlotCountStep ==
    ASSUME TypeOK, WorkingCopies, SlotCount, ~Lagging, [Next]_vars
    PROVE  SlotCount'
  <1> DEFINE used == Cardinality(InSlot(bn))
             usedNext == Cardinality(InSlot(bn'))
  <1>0. used \in Nat /\ usedNext \in Nat
    BY InSlotFinite
  <1>1. CASE rec'.pc \in {"idle", "sync", "collect"} /\ rec'.cur = {}
    BY <1>1 DEF SlotCount
  <1>2. CASE StartReconcile \/ StartCollect \/ (\E n \in Node : syncBootcNodeSpec(n) \/ collectDrainResults(n))
    <2>1. CASE StartReconcile
      BY <1>1, <2>1 DEF StartReconcile, NoReconcile
    <2>2. CASE StartCollect
      BY <1>1, <2>2 DEF StartCollect, SlotCount, TypeOK, Reconcile
    <2>3. ASSUME NEW n \in Node, syncBootcNodeSpec(n) \/ collectDrainResults(n)
          PROVE  SlotCount'
      <3>1. /\ rec.pc \in {"sync", "collect"} /\ rec'.pc = rec.pc
            /\ rec'.cur = rec.cur
        BY ZenonT(60), <2>3 DEF syncBootcNodeSpec, collectDrainResults, TypeOK, Reconcile
      <3> QED
        BY <1>1, <3>1 DEF SlotCount
    <2> QED
      BY <1>2, <2>1, <2>2, <2>3
  <1>3. CASE Aborts
    BY <1>1, <1>3 DEF Aborts, NoReconcile
  <1>4. CASE buildRolloutState
    <2>1. /\ rec.pc = "collect" /\ rec'.pc = "free" /\ rec'.cur = rec.cur /\ bn' = bn
          /\ rec'.occupied = Cardinality(InSlot(rec.bn)) /\ rec'.todo \subseteq InSlot(rec.bn)
      BY <1>4 DEF buildRolloutState, TypeOK, Reconcile
    <2>2. InSlot(rec.bn) = InSlot(bn)
      BY <2>1 DEF InSlot, WorkingCopies, Agree
    <2>3. rec.cur = {}
      BY <2>1 DEF SlotCount
    <2> QED
      BY ZenonT(60), <2>1, <2>2, <2>3 DEF SlotCount, InSlot
  <1>5. CASE StartAssign
    <2>1. /\ rec.pc = "free" /\ rec'.pc = "assign" /\ bn' = bn /\ rec'.limit = rec.limit
          /\ rec'.cur = rec.cur
          /\ rec'.slots = availableSlots(rec.limit, rec.occupied) /\ rec.limit # InvalidSpec
      BY <1>5 DEF StartAssign, TypeOK, Reconcile
    <2>2. rec.limit \in Nat /\ rec.occupied = used
      BY <2>1 DEF TypeOK, Reconcile, SlotCount
    <2>3. rec'.slots > 0 => used + rec'.slots <= rec.limit
      BY <1>0, <2>1, <2>2 DEF availableSlots
    <2> QED
      BY <2>1, <2>3 DEF SlotCount
  <1>6. ASSUME NEW n \in Node, freeCompletedSlot(n), rec' # NoReconcile PROVE SlotCount'
    <2>1. rec.pc = "free" /\ n \in rec.todo /\ bn' = bn
      BY <1>6 DEF freeCompletedSlot
    <2>2. CASE rec' = [rec EXCEPT !.todo = @ \ {n}]
      <3>1. /\ rec'.pc = "free" /\ rec'.cur = rec.cur /\ rec'.occupied = rec.occupied
            /\ rec'.todo = rec.todo \ {n}
        BY <2>1, <2>2 DEF TypeOK, Reconcile
      <3> QED
        BY <2>1, <3>1 DEF SlotCount
    <2>3. CASE rec' = [rec EXCEPT !.pc = "freed", !.cur = {n}]
      <3>1. /\ rec'.pc = "freed" /\ rec'.cur = {n} /\ rec'.occupied = rec.occupied
            /\ rec'.todo = rec.todo
        BY <2>3 DEF TypeOK, Reconcile
      <3> QED
        BY <2>1, <3>1 DEF SlotCount
    <2> QED
      BY <1>6, <2>2, <2>3 DEF freeCompletedSlot, Abort
  <1>7. ASSUME NEW n \in Node, freeRebootSlot(n) PROVE SlotCount'
    <2>1. /\ rec.pc = "freed" /\ rec'.pc = "free" /\ rec'.cur = {} /\ n \in rec.cur
          /\ rec'.todo = rec.todo \ {n} /\ rec'.occupied = rec.occupied - 1
          /\ bn'[n].inSlot = FALSE /\ \A m \in Node \ {n} : bn'[m] = bn[m]
      BY ZenonT(60), <1>7, FreeEffect
    <2>2. /\ bn[n].inSlot = TRUE /\ rec.occupied = used
          /\ \A m \in rec.todo : bn[m].inSlot
      BY <2>1, NodeTypes DEF SlotCount, BootcNode
    <2>3. n \in InSlot(bn) /\ InSlot(bn') = InSlot(bn) \ {n}
      BY <2>1, <2>2 DEF InSlot
    <2>4. usedNext = used - 1
      BY ZenonT(60), <2>3, InSlotFinite, FS_RemoveElement
    <2>5. \A m \in rec'.todo : bn'[m].inSlot
      BY <2>1, <2>2 DEF TypeOK, Reconcile
    <2> QED
      BY <2>1, <2>2, <2>4, <2>5 DEF SlotCount
  <1>8. ASSUME NEW n \in Node, assignRebootSlot(n) PROVE SlotCount'
    <2>1. CASE bn[n].inSlot
      <3>1. InSlot(bn') = InSlot(bn)
        <4>1. bn'[n].inSlot = TRUE /\ \A m \in Node \ {n} : bn'[m] = bn[m]
          BY ZenonT(60), <1>8, AssignEffect
        <4> QED
          BY <2>1, <4>1 DEF InSlot
      <3>2. /\ rec.pc = "assign" /\ rec'.pc = "cordon" /\ rec'.limit = rec.limit
            /\ rec'.todo = rec.todo /\ rec'.slots = rec.slots
        BY ZenonT(60), <1>8, <2>1, AssignEffect
      <3> QED
        BY <3>1, <3>2 DEF SlotCount
    <2>2. CASE ~bn[n].inSlot
      <3>1. n \notin InSlot(bn) /\ InSlot(bn') = InSlot(bn) \cup {n}
        <4>1. bn'[n].inSlot = TRUE /\ \A m \in Node \ {n} : bn'[m] = bn[m]
          BY ZenonT(60), <1>8, AssignEffect
        <4> QED
          BY <2>2, <4>1 DEF InSlot
      <3>2. usedNext = used + 1
        BY ZenonT(60), <3>1, InSlotFinite, FS_AddElement
      <3>3. rec.slots \in Nat /\ used + rec.slots <= rec.limit /\ rec'.slots = rec.slots - 1
        BY ZenonT(60), <1>8, <2>2, AssignEffect DEF SlotCount, TypeOK, Reconcile
      <3>4. rec.limit \in Int
        BY DEF TypeOK, Reconcile, InvalidSpec
      <3>5. usedNext + rec'.slots <= rec.limit
        BY <1>0, <3>2, <3>3, <3>4
      <3> QED
        BY ZenonT(60), <1>8, <3>5, AssignEffect DEF SlotCount
    <2> QED
      BY <2>1, <2>2
  <1>9. ASSUME NEW n \in Node, cordonNode(n), rec' # NoReconcile PROVE SlotCount'
    <2>1. /\ rec.pc = "cordon" /\ rec'.pc = "assign" /\ bn' = bn
          /\ rec'.slots = rec.slots /\ rec'.limit = rec.limit /\ rec'.cur = {}
      BY ZenonT(60), <1>9 DEF cordonNode, Abort, TypeOK, Reconcile
    <2> QED
      BY <2>1 DEF SlotCount
  <1>10. CASE Others \/ EditPool \/ UNCHANGED vars
    <2>1. rec' = rec /\ InSlot(bn') = InSlot(bn) /\ \A m \in Node : bn'[m].inSlot = bn[m].inSlot
      BY <1>10, OthersKeep, SameSlots DEF Agree
    <2>2. rec.todo \subseteq Node
      BY DEF TypeOK, Reconcile
    <2> QED
      BY <2>1, <2>2 DEF SlotCount
  <1> QED
    BY <1>2, <1>3, <1>4, <1>5, <1>6, <1>7, <1>8, <1>9, <1>10, AbortSteps
       DEF Next, Controller, Disturbance, Others, Aborts

LEMMA InitSlots == Init => WorkingCopies /\ SlotCount
  BY SMTT(30) DEF Init, NoReconcile, WorkingCopies, SlotCount

\* Only assignRebootSlot gives a node a slot.
LEMMA NewSlotAssigned ==
    ASSUME TypeOK, WorkingCopies, ~Lagging, [Next]_vars, NewSlots # {}
    PROVE  \E n \in Node : assignRebootSlot(n) /\ ~bn[n].inSlot
  <1>1. PICK n \in Node : bn'[n].inSlot /\ ~bn[n].inSlot
    BY DEF NewSlots, InSlot
  <1>2. ~(Others \/ EditPool \/ UNCHANGED vars)
    BY <1>1, OthersKeep DEF Agree
  <1>3. bn' # bn
    BY <1>1
  <1>4. ASSUME NEW m \in Node, syncBootcNodeSpec(m) PROVE FALSE
    BY <1>1, <1>4, SyncEffect
  <1>5. ASSUME NEW m \in Node, collectDrainResults(m) PROVE FALSE
    BY <1>1, <1>5, CollectEffect
  <1>6. ASSUME NEW m \in Node, freeRebootSlot(m) PROVE FALSE
    BY ZenonT(60), <1>1, <1>6, FreeEffect
  <1>7. PICK m \in Node : assignRebootSlot(m)
    BY ZenonT(60), <1>2, <1>3, <1>4, <1>5, <1>6, AbortSteps
       DEF Next, Controller, Disturbance, Others, StartReconcile, StartCollect, buildRolloutState,
           StartAssign, freeCompletedSlot, cordonNode
  <1> QED
    BY ZenonT(60), <1>1, <1>7, AssignEffect

\* A step that gives a node a slot respects the limit of its pass.
LEMMA NewSlotStep ==
    ASSUME TypeOK, WorkingCopies, SlotCount, ~Lagging, [Next]_vars, NewSlots # {}
    PROVE  Cardinality(InSlot(bn')) <= rec.limit
  <1>1. PICK n \in Node : assignRebootSlot(n) /\ ~bn[n].inSlot
    BY NewSlotAssigned
  <1>2. rec.slots \in Nat /\ rec.limit \in Int
    BY DEF TypeOK, Reconcile, InvalidSpec
  <1>3. /\ rec.pc = "assign" /\ rec.slots > 0
        /\ bn'[n].inSlot = TRUE /\ \A k \in Node \ {n} : bn'[k] = bn[k]
    BY ZenonT(60), <1>1, AssignEffect
  <1>4. n \notin InSlot(bn) /\ InSlot(bn') = InSlot(bn) \cup {n}
    BY <1>1, <1>3 DEF InSlot
  <1>5. Cardinality(InSlot(bn')) = Cardinality(InSlot(bn)) + 1
    BY ZenonT(60), <1>4, InSlotFinite, FS_AddElement
  <1>6. Cardinality(InSlot(bn)) + rec.slots <= rec.limit
    BY <1>3 DEF SlotCount
  <1> QED
    BY <1>2, <1>3, <1>5, <1>6, InSlotFinite

\* With caches that do not lag, a pass never brings the number of slots in use
\* above the maxUnavailable it read, whatever crashes, refused writes and edits
\* it meets between counting the slots and assigning them.
THEOREM SlotsRespectLimit == ASSUME ~Lagging PROVE Spec => SlotsWithinLimit
  <1> DEFINE Inv == TypeOK /\ WorkingCopies /\ SlotCount
  <1>1. Init => Inv
    BY InitType, InitSlots
  <1>2. Inv /\ [Next]_vars => Inv'
    BY NextType, WorkingCopiesStep, SlotCountStep
  <1>3. Inv /\ Inv' /\ [Next]_vars => [NewSlots # {} => Cardinality(InSlot(bn')) <= rec.limit]_vars
    BY NewSlotStep
  <1> QED
    BY <1>1, <1>2, <1>3, PTL DEF Spec, SlotsWithinLimit

(***************************************************************************)
(* The cordons.                                                            *)
(***************************************************************************)

\* Nobody but the controller and the administrator cordons or uncordons.
LEMMA OthersKeepCordons ==
    ASSUME TypeOK, ~AdminActs, Others \/ EditPool \/ UNCHANGED vars
    PROVE  admin' = admin /\ \A m \in Node : node'[m].cordoned = node[m].cordoned
  <1>1. ASSUME NEW n \in Node, NEW r \in BOOLEAN,
               node' = [node EXCEPT ![n] = [@ EXCEPT !.ready = r]], NEW m \in Node
        PROVE  node'[m].cordoned = node[m].cordoned
    BY <1>1, NodeTypes DEF TypeOK, NodeObject
  <1>2. CASE node' = node
    BY ZenonT(60), <1>2 DEF Others, Machine, vars, external, DrainFinishes, DaemonReconcile,
       StageFinishes, Reboot, HostBoots, KubeletReady, SchedulePod, HostLosesPower, RebootOverdue,
       SyncBootcNodeCache, SyncNodeCache, AdminCordons, EditPool
  <1>3. ASSUME NEW n \in Node, Reboot(n) \/ KubeletReady(n) \/ HostLosesPower(n)
        PROVE  admin' = admin /\ \A m \in Node : node'[m].cordoned = node[m].cordoned
    BY ZenonT(60), <1>1, <1>3 DEF Reboot, KubeletReady, HostLosesPower, external
  <1> QED
    BY ZenonT(60), <1>2, <1>3 DEF Others, Machine, vars, DrainFinishes, DaemonReconcile, StageFinishes,
       HostBoots, SchedulePod, RebootOverdue, SyncBootcNodeCache, SyncNodeCache, AdminCordons,
       EditPool

LEMMA CordonStep ==
    ASSUME TypeOK, WorkingCopies, SlotCount, CordonAccount, ~Lagging, ~AdminActs, [Next]_vars
    PROVE  CordonAccount'
  <1>1. ASSUME rec'.pc \notin {"freed", "cordon"}, admin' = admin,
               \A m \in Node : /\ node'[m].cordoned = node[m].cordoned
                               /\ bn'[m].inSlot = bn[m].inSlot
                               /\ bn'[m].wasCordoned = bn[m].wasCordoned
        PROVE  CordonAccount'
    BY <1>1 DEF CordonAccount
  <1>2. CASE Aborts /\ bn' = bn /\ node' = node /\ admin' = admin
    BY <1>1, <1>2 DEF Aborts, NoReconcile
  <1>3. CASE StartReconcile \/ StartCollect \/ buildRolloutState \/ StartAssign
    <2>1. rec'.pc \notin {"freed", "cordon"} /\ admin' = admin /\ node' = node /\ bn' = bn
      BY ZenonT(60), <1>3 DEF StartReconcile, StartCollect, buildRolloutState, StartAssign, external,
         NoReconcile, TypeOK, Reconcile
    <2> QED
      BY <1>1, <2>1
  <1>4. ASSUME NEW n \in Node, syncBootcNodeSpec(n) PROVE CordonAccount'
    <2>1. admin' = admin /\ node' = node
      BY <1>4 DEF syncBootcNodeSpec, external
    <2> QED
      BY <1>1, <1>4, <2>1, SyncEffect
  <1>5. ASSUME NEW n \in Node, collectDrainResults(n) PROVE CordonAccount'
    <2>1. admin' = admin /\ node' = node
      BY <1>5 DEF collectDrainResults, external
    <2> QED
      BY <1>1, <1>5, <2>1, CollectEffect
  <1>6. ASSUME NEW n \in Node, freeCompletedSlot(n) PROVE CordonAccount'
    <2>1. rec.pc = "free" /\ n \in rec.todo /\ bn' = bn /\ admin' = admin
      BY <1>6 DEF freeCompletedSlot, external
    <2>2. CASE node' = node /\ rec' \in {NoReconcile, [rec EXCEPT !.todo = @ \ {n}]}
      <3>1. rec'.pc \in {"idle", "free"}
        BY <2>1, <2>2 DEF NoReconcile, TypeOK, Reconcile
      <3> QED
        BY <1>1, <2>1, <2>2, <3>1
    <2>3. CASE /\ node' = [node EXCEPT ![n] = Restored(rec.bn[n], node[n])]
               /\ rec' = [rec EXCEPT !.pc = "freed", !.cur = {n}]
      <3>1. rec'.pc = "freed" /\ rec'.cur = {n}
        BY <2>3 DEF TypeOK, Reconcile
      <3>2. bn[n].inSlot /\ rec.bn[n].wasCordoned = bn[n].wasCordoned
        BY <2>1 DEF SlotCount, WorkingCopies, Agree
      <3>3. /\ node[n] \in NodeObject /\ \A m \in Node \ {n} : node'[m] = node[m]
            /\ node'[n] = Restored(rec.bn[n], node[n])
        BY <2>3 DEF TypeOK
      <3>4. node'[n].cordoned = IF bn[n].wasCordoned = "false" THEN FALSE ELSE node[n].cordoned
        BY <3>2, <3>3 DEF Restored, NodeObject
      <3>5. node'[n].cordoned <=> n \in admin
        BY <3>2, <3>4 DEF CordonAccount
      <3> QED
        BY <2>1, <3>1, <3>3, <3>5 DEF CordonAccount
    <2> QED
      BY <1>6, <2>2, <2>3 DEF freeCompletedSlot, Abort
  <1>7. ASSUME NEW n \in Node, freeRebootSlot(n) PROVE CordonAccount'
    <2>1. admin' = admin /\ node' = node
      BY <1>7 DEF freeRebootSlot, external
    <2>2. /\ rec.pc = "freed" /\ rec'.pc = "free" /\ n \in rec.cur
          /\ bn'[n].inSlot = FALSE /\ \A m \in Node \ {n} : bn'[m] = bn[m]
      BY ZenonT(60), <1>7, FreeEffect
    <2> QED
      BY <2>1, <2>2 DEF CordonAccount
  <1>8. ASSUME NEW n \in Node, assignRebootSlot(n) PROVE CordonAccount'
    <2>1. admin' = admin /\ node' = node
      BY <1>8 DEF assignRebootSlot, external
    <2>2. /\ rec'.pc = "cordon" /\ rec'.cur = {n} /\ bn'[n].inSlot = TRUE
          /\ bn'[n].wasCordoned = IF bn[n].inSlot THEN bn[n].wasCordoned
                                  ELSE IF node[n].cordoned THEN "true" ELSE "false"
          /\ \A m \in Node \ {n} : bn'[m] = bn[m]
      BY ZenonT(60), <1>8, AssignEffect
    <2> QED
      BY <2>1, <2>2 DEF CordonAccount
  <1>9. ASSUME NEW n \in Node, cordonNode(n) PROVE CordonAccount'
    <2>1. rec.pc = "cordon" /\ n \in rec.cur /\ bn' = bn /\ admin' = admin
      BY <1>9 DEF cordonNode, external
    <2>2. rec'.pc \in {"assign", "idle"}
      <3>1. rec' \in {NoReconcile, [rec EXCEPT !.pc = "assign", !.todo = @ \ {n}, !.cur = {}]}
        BY <1>9 DEF cordonNode, Abort
      <3>2. CASE rec' = NoReconcile
        BY <3>2 DEF NoReconcile
      <3>3. CASE rec' = [rec EXCEPT !.pc = "assign", !.todo = @ \ {n}, !.cur = {}]
        BY <3>3 DEF TypeOK, Reconcile
      <3> QED
        BY <3>1, <3>2, <3>3
    <2>3. CASE node' = node
      BY <1>1, <2>1, <2>2, <2>3
    <2>4. CASE node' = [node EXCEPT ![n] = [@ EXCEPT !.cordoned = TRUE]]
      <3>1. node'[n].cordoned = TRUE /\ \A m \in Node \ {n} : node'[m] = node[m]
        BY <2>4, NodeTypes DEF TypeOK, NodeObject
      <3>2. bn[n].inSlot
        BY <2>1 DEF CordonAccount
      <3> QED
        BY ZenonT(60), <2>1, <2>2, <3>1, <3>2 DEF CordonAccount
    <2> QED
      BY <1>9, <2>3, <2>4 DEF cordonNode
  <1>10. CASE Others \/ EditPool \/ UNCHANGED vars
    <2>1. /\ rec' = rec /\ admin' = admin
          /\ \A m \in Node : /\ node'[m].cordoned = node[m].cordoned
                             /\ bn'[m].inSlot = bn[m].inSlot
                             /\ bn'[m].wasCordoned = bn[m].wasCordoned
      BY <1>10, OthersKeep, OthersKeepCordons DEF Agree
    <2> QED
      BY <2>1 DEF CordonAccount
  <1>11. CASE HaltRollout \/ ensureDrain \/ ApiError \/ ControllerCrash
              \/ \E n \in Node : collectFails(n) \/ otherPoolCollects(n)
    <2>1. admin' = admin
      BY <1>11 DEF HaltRollout, ensureDrain, ApiError, ControllerCrash, collectFails, otherPoolCollects, external
    <2> QED
      BY <1>2, <1>11, <2>1, AbortSteps
  <1> QED
    BY <1>3, <1>4, <1>5, <1>6, <1>7, <1>8, <1>9, <1>10, <1>11
       DEF Next, Controller, Disturbance, Others

\* With caches that do not lag and no administrator at work during the rollout,
\* a node that is not in a slot is cordoned exactly if the administrator had
\* cordoned it, wherever a pass was interrupted.
THEOREM CordonsAreRestored == ASSUME ~Lagging, ~AdminActs PROVE Spec => []CordonRestored
  <1> DEFINE Inv == TypeOK /\ WorkingCopies /\ SlotCount /\ CordonAccount
  <1>1. Init => Inv
    <2> SUFFICES ASSUME Init PROVE CordonAccount
      BY InitType, InitSlots
    <2>1. rec.pc = "idle"
      BY DEF Init, NoReconcile
    <2>2. ASSUME NEW n \in Node PROVE bn[n].inSlot = FALSE /\ (node[n].cordoned <=> n \in admin)
      BY ZenonT(60) DEF Init, NewBootcNode
    <2> QED
      BY ZenonT(60), <2>1, <2>2 DEF CordonAccount
  <1>2. Inv /\ [Next]_vars => Inv'
    BY NextType, WorkingCopiesStep, SlotCountStep, CordonStep
  <1>3. Inv => CordonRestored
    BY DEF CordonAccount, CordonRestored
  <1> QED
    BY <1>1, <1>2, <1>3, PTL DEF Spec

\* With fresh caches the cordon recorded when a node entered its slot stays until
\* the node leaves the slot, whatever is retried in between: assignRebootSlot "must
\* not overwrite the original recorded value".
THEOREM CordonRecordIsKept == ASSUME ~Lagging PROVE Spec => CordonRecordKept
  <1> DEFINE Inv == TypeOK /\ WorkingCopies
             Kept == \A n \in Node : bn[n].inSlot /\ bn'[n].inSlot =>
                                        bn'[n].wasCordoned = bn[n].wasCordoned
  <1>1. Init => Inv
    BY InitType, InitSlots
  <1>2. Inv /\ [Next]_vars => Inv'
    BY NextType, WorkingCopiesStep
  <1>3. ASSUME Inv, [Next]_vars PROVE Kept
    <2>1. CASE bn' = bn
      BY <2>1
    <2>2. CASE Others \/ EditPool \/ UNCHANGED vars
      BY <1>3, <2>2, OthersKeep DEF Agree
    <2>3. ASSUME NEW m \in Node, syncBootcNodeSpec(m) PROVE Kept
      BY <1>3, <2>3, SyncEffect
    <2>4. ASSUME NEW m \in Node, collectDrainResults(m) PROVE Kept
      BY <1>3, <2>4, CollectEffect
    <2>5. ASSUME NEW m \in Node, freeRebootSlot(m) PROVE Kept
      BY ZenonT(60), <1>3, <2>5, FreeEffect
    <2>6. ASSUME NEW m \in Node, assignRebootSlot(m) PROVE Kept
      BY ZenonT(60), <1>3, <2>6, AssignEffect
    <2> QED
      BY ZenonT(60), <1>3, <2>1, <2>2, <2>3, <2>4, <2>5, <2>6, AbortSteps
         DEF Next, Controller, Disturbance, Others, StartReconcile, StartCollect, buildRolloutState,
             StartAssign, freeCompletedSlot, cordonNode
  <1>4. Inv /\ [Next]_vars => [Kept]_vars
    BY <1>3
  <1> QED
    BY <1>1, <1>2, <1>4, PTL DEF Spec, CordonRecordKept
=============================================================================
