---------------------------- MODULE RebootProofs ----------------------------
(***************************************************************************)
(* Reboots in module Rollout, for any set of nodes, images, edits and       *)
(* faults: they happen in slots, on cordoned and drained nodes, and every   *)
(* step of Rollout moves at most one node through its life, along an edge   *)
(* that RebootSlots allows.                                                 *)
(***************************************************************************)
EXTENDS RolloutProofs

USE SMTT(30), ZenonT(30)

(***************************************************************************)
(* What the machines do.                                                   *)
(***************************************************************************)

LEMMA DaemonEffect ==
    ASSUME TypeOK, NEW n \in Node, DaemonReconcile(n)
    PROVE  /\ rec' = rec /\ node' = node /\ pods' = pods /\ drains' = drains /\ pool' = pool
           /\ host[n].phase = "up"
           /\ bn'[n].desired = bn[n].desired /\ bn'[n].state = bn[n].state
           /\ bn'[n].inSlot = bn[n].inSlot /\ bn'[n].booted = host[n].booted
           /\ host'[n].booted = host[n].booted /\ host'[n].staged = host[n].staged
           /\ \/ host'[n].phase = "up" /\ host'[n].stage = host[n].stage
              \/ /\ host'[n].phase = "up" /\ host'[n].stage = bn[n].desired
                 /\ host[n].booted # bn[n].desired
              \/ /\ host'[n].phase = "reboot" /\ host'[n].stage = host[n].stage
                 /\ bn'[n].idle = "Rebooting"
                 /\ host[n].booted # bn[n].desired /\ bn[n].state = "Booted"
           /\ \A m \in Node \ {n} : bn'[m] = bn[m] /\ host'[m] = host[m]
  <1>0. bn[n] \in BootcNode /\ host[n] \in Host /\ bn \in [Node -> BootcNode]
        /\ host \in [Node -> Host]
    BY DEF TypeOK
  <1>1. ASSUME NEW idle, NEW d, Report(n, idle, d)
        PROVE  /\ bn'[n].desired = bn[n].desired /\ bn'[n].state = bn[n].state
               /\ bn'[n].inSlot = bn[n].inSlot /\ bn'[n].booted = host[n].booted
               /\ bn'[n].idle = idle /\ \A m \in Node \ {n} : bn'[m] = bn[m]
    BY <1>0, <1>1 DEF Report, BootcNode
  <1>2. \E idle, d : Report(n, idle, d)
    BY ZenonT(60) DEF DaemonReconcile
  <1>3. /\ rec' = rec /\ node' = node /\ pods' = pods /\ drains' = drains /\ pool' = pool
        /\ host[n].phase = "up"
    BY DEF DaemonReconcile, external
  <1>4. /\ bn'[n].desired = bn[n].desired /\ bn'[n].state = bn[n].state
        /\ bn'[n].inSlot = bn[n].inSlot /\ bn'[n].booted = host[n].booted
        /\ \A m \in Node \ {n} : bn'[m] = bn[m]
    BY <1>1, <1>2
  <1>5. CASE host' = host
    BY <1>3, <1>4, <1>5
  <1>6. CASE host' = [host EXCEPT ![n] = [@ EXCEPT !.stageErr = FALSE]]
    <2>1. /\ host'[n].booted = host[n].booted /\ host'[n].staged = host[n].staged
          /\ host'[n].stage = host[n].stage /\ host'[n].phase = host[n].phase
          /\ \A m \in Node \ {n} : host'[m] = host[m]
      BY <1>0, <1>6 DEF Host
    <2> QED
      BY <1>3, <1>4, <2>1
  <1>7. CASE /\ updateAction(n) = "stage"
             /\ host' = [host EXCEPT ![n] = [@ EXCEPT !.stage = bn[n].desired]]
    <2>1. /\ host'[n].booted = host[n].booted /\ host'[n].staged = host[n].staged
          /\ host'[n].stage = bn[n].desired /\ host'[n].phase = host[n].phase
          /\ \A m \in Node \ {n} : host'[m] = host[m]
      BY <1>0, <1>7 DEF Host
    <2>2. host[n].booted # bn[n].desired
      BY <1>7 DEF updateAction
    <2> QED
      BY <1>3, <1>4, <2>1, <2>2
  <1>8. CASE /\ updateAction(n) = "reboot" /\ Report(n, "Rebooting", FALSE)
             /\ host' = [host EXCEPT ![n] = [@ EXCEPT !.phase = "reboot"]]
    <2>1. /\ host'[n].booted = host[n].booted /\ host'[n].staged = host[n].staged
          /\ host'[n].stage = host[n].stage /\ host'[n].phase = "reboot"
          /\ \A m \in Node \ {n} : host'[m] = host[m]
      BY <1>0, <1>8 DEF Host
    <2>2. host[n].booted # bn[n].desired /\ bn[n].state = "Booted"
      BY <1>8 DEF updateAction
    <2>3. bn'[n].idle = "Rebooting"
      BY ZenonT(60), <1>1, <1>8
    <2> QED
      BY <1>3, <1>4, <2>1, <2>2, <2>3
  <1> QED
    BY ZenonT(60), <1>5, <1>6, <1>7, <1>8 DEF DaemonReconcile

LEMMA StageEffect ==
    ASSUME TypeOK, NEW n \in Node, StageFinishes(n)
    PROVE  /\ rec' = rec /\ bn' = bn /\ node' = node /\ pods' = pods /\ drains' = drains
           /\ pool' = pool
           /\ host'[n].booted = host[n].booted /\ host'[n].phase = host[n].phase
           /\ host'[n].stage = NoImage /\ host[n].stage # NoImage
           /\ host'[n].staged \in {host[n].staged, host[n].stage}
           /\ \A m \in Node \ {n} : host'[m] = host[m]
  <1>1. host[n] \in Host /\ host \in [Node -> Host]
    BY DEF TypeOK
  <1>2. /\ rec' = rec /\ bn' = bn /\ node' = node /\ pods' = pods /\ drains' = drains
        /\ pool' = pool /\ host[n].stage # NoImage
    BY DEF StageFinishes, external
  <1>3. CASE host' = [host EXCEPT ![n] = [@ EXCEPT !.staged = host[n].stage, !.stage = NoImage]]
    BY <1>1, <1>2, <1>3 DEF Host
  <1>4. CASE host' = [host EXCEPT ![n] = [@ EXCEPT !.stageErr = TRUE, !.stage = NoImage]]
    BY <1>1, <1>2, <1>4 DEF Host
  <1> QED
    BY <1>3, <1>4 DEF StageFinishes

LEMMA RebootEffect ==
    ASSUME TypeOK, NEW n \in Node, Reboot(n)
    PROVE  /\ rec' = rec /\ bn' = bn /\ pods' = pods /\ drains' = drains /\ pool' = pool
           /\ host[n].phase = "reboot" /\ host'[n].booted = host[n].booted
           /\ host'[n].stage = host[n].stage /\ host'[n].staged = host[n].staged
           /\ \A m \in Node \ {n} : host'[m] = host[m]
  <1>1. host[n] \in Host /\ host \in [Node -> Host]
    BY DEF TypeOK
  <1>2. /\ rec' = rec /\ bn' = bn /\ pods' = pods /\ drains' = drains /\ pool' = pool
        /\ host[n].phase = "reboot"
    BY DEF Reboot, external
  <1>3. ASSUME NEW p, host' = [host EXCEPT ![n] = [@ EXCEPT !.phase = p]]
        PROVE  /\ host'[n].booted = host[n].booted
               /\ host'[n].stage = host[n].stage /\ host'[n].staged = host[n].staged
               /\ \A m \in Node \ {n} : host'[m] = host[m]
    BY <1>1, <1>3 DEF Host
  <1> QED
    BY <1>2, <1>3 DEF Reboot

LEMMA BootEffect ==
    ASSUME TypeOK, NEW n \in Node, HostBoots(n)
    PROVE  /\ rec' = rec /\ bn' = bn /\ node' = node /\ pods' = pods /\ drains' = drains
           /\ pool' = pool
           /\ host[n].phase = "down" /\ host'[n].phase = "up"
           /\ host'[n].booted = IF host[n].staged = NoImage THEN host[n].booted ELSE host[n].staged
           /\ host'[n].stage = NoImage /\ host'[n].staged = NoImage
           /\ \A m \in Node \ {n} : host'[m] = host[m]
  BY DEF HostBoots, external, TypeOK

\* The steps of everybody else leave the hosts and the drains alone.
LEMMA QuietEffect ==
    ASSUME TypeOK, ~PowerLoss, ~AdminActs, ~Lagging,
           \/ UNCHANGED vars \/ EditPool
           \/ \E n \in Node : \/ KubeletReady(n) \/ RebootOverdue(n) \/ HostLosesPower(n)
                             \/ SyncBootcNodeCache(n) \/ SyncNodeCache(n) \/ AdminCordons(n)
    PROVE  /\ rec' = rec /\ host' = host /\ pods' = pods /\ drains' = drains
           /\ pool' = pool \/ EditPool
           /\ \A m \in Node : /\ Agree(bn'[m], bn[m])
                              /\ bn'[m].booted = bn[m].booted /\ bn'[m].idle = bn[m].idle
                              /\ node'[m].cordoned = node[m].cordoned
  <1>1. ASSUME NEW n \in Node, RebootOverdue(n), NEW m \in Node
        PROVE  bn'[m].booted = bn[m].booted /\ bn'[m].idle = bn[m].idle
    BY <1>1, NodeTypes DEF RebootOverdue, TypeOK, BootcNode
  <1>2. bn' = bn \/ \E n \in Node : RebootOverdue(n)
    BY DEF vars, EditPool, KubeletReady, HostLosesPower, SyncBootcNodeCache, SyncNodeCache,
       AdminCordons
  <1>3. Others \/ EditPool \/ UNCHANGED vars
    BY DEF Others, Machine
  <1>4. /\ host' = host /\ pods' = pods /\ drains' = drains
        /\ pool' = pool \/ EditPool
    BY DEF vars, external, EditPool, KubeletReady, HostLosesPower, RebootOverdue,
       SyncBootcNodeCache, SyncNodeCache, AdminCordons
  <1> QED
    BY ZenonT(60), <1>1, <1>2, <1>3, <1>4, OthersKeep, OthersKeepCordons

(***************************************************************************)
(* Reboots.                                                                *)
(***************************************************************************)

\* A pass that goes on without touching the desired images.
GoesOn ==
    /\ rec.pc # "idle" /\ rec'.target = rec.target /\ pool' = pool /\ host' = host
    /\ \A m \in Node : /\ bn'[m].desired = bn[m].desired /\ bn'[m].booted = bn[m].booted
                       /\ rec'.bn[m].booted \in {rec.bn[m].booted, bn[m].booted}

LEMMA GoingOn ==
    ASSUME TypeOK, WorkingCopies, ~Lagging, rec' # NoReconcile,
           \/ StartCollect \/ buildRolloutState \/ StartAssign
           \/ \E n \in Node : \/ collectDrainResults(n) \/ freeCompletedSlot(n) \/ freeRebootSlot(n)
                             \/ assignRebootSlot(n) \/ cordonNode(n)
    PROVE  GoesOn
  <1>1. pool' = pool /\ host' = host
    BY ZenonT(60) DEF StartCollect, buildRolloutState, StartAssign, collectDrainResults, freeCompletedSlot,
       freeRebootSlot, assignRebootSlot, cordonNode, external
  <1>2. CASE StartCollect \/ buildRolloutState \/ StartAssign
    BY ZenonT(60), <1>1, <1>2 DEF GoesOn, StartCollect, buildRolloutState, StartAssign, TypeOK, Reconcile
  <1>3. ASSUME NEW n \in Node, collectDrainResults(n) PROVE GoesOn
    BY <1>1, <1>3, CollectEffect DEF GoesOn
  <1>4. ASSUME NEW n \in Node, freeRebootSlot(n) PROVE GoesOn
    <2>1. /\ rec.pc # "idle" /\ rec'.target = rec.target
          /\ bn'[n].desired = bn[n].desired /\ bn'[n].booted = bn[n].booted
          /\ rec'.bn[n].booted = bn[n].booted
          /\ \A m \in Node \ {n} : bn'[m] = bn[m] /\ rec'.bn[m] = rec.bn[m]
      BY ZenonT(60), <1>4, FreeEffect
    <2> QED
      BY ZenonT(60), <1>1, <2>1 DEF GoesOn
  <1>5. ASSUME NEW n \in Node, assignRebootSlot(n) PROVE GoesOn
    <2>1. /\ rec.pc # "idle" /\ rec'.target = rec.target
          /\ bn'[n].desired = bn[n].desired /\ bn'[n].booted = bn[n].booted
          /\ rec'.bn[n] = rec.bn[n] \/ rec'.bn[n] = bn'[n]
          /\ \A m \in Node \ {n} : bn'[m] = bn[m] /\ rec'.bn[m] = rec.bn[m]
      BY ZenonT(60), <1>5, AssignEffect
    <2>2. rec'.bn[n].booted \in {rec.bn[n].booted, bn[n].booted}
      BY ZenonT(60), <2>1
    <2> QED
      BY ZenonT(60), <1>1, <2>1, <2>2 DEF GoesOn
  <1>6. ASSUME NEW n \in Node, freeCompletedSlot(n) PROVE GoesOn
    <2>1. rec.pc # "idle" /\ bn' = bn
      BY ZenonT(60), <1>6 DEF freeCompletedSlot
    <2>2. rec' \in {[rec EXCEPT !.todo = @ \ {n}], [rec EXCEPT !.pc = "freed", !.cur = {n}]}
      BY ZenonT(60), <1>6 DEF freeCompletedSlot, Abort
    <2>3. rec'.target = rec.target /\ rec'.bn = rec.bn
      BY ZenonT(60), <2>2 DEF TypeOK, Reconcile
    <2> QED
      BY <1>1, <2>1, <2>3 DEF GoesOn
  <1>7. ASSUME NEW n \in Node, cordonNode(n) PROVE GoesOn
    <2>1. rec.pc # "idle" /\ bn' = bn
      BY ZenonT(60), <1>7 DEF cordonNode
    <2>2. rec' = [rec EXCEPT !.pc = "assign", !.todo = @ \ {n}, !.cur = {}]
      BY ZenonT(60), <1>7 DEF cordonNode, Abort
    <2>3. rec'.target = rec.target /\ rec'.bn = rec.bn
      BY <2>2 DEF TypeOK, Reconcile
    <2> QED
      BY <1>1, <2>1, <2>3 DEF GoesOn
  <1> QED
    BY <1>2, <1>3, <1>4, <1>5, <1>6, <1>7

\* What the images are, as numbers or as no image.
LEMMA ImageTypes ==
    ASSUME TypeOK
    PROVE  /\ rec.target \in Int /\ pool.target \in Int
           /\ \A n \in Node : /\ host[n].booted \in Int /\ bn[n].desired \in Int
                              /\ host[n].staged # NoImage => host[n].staged \in Int
                              /\ host[n].stage # NoImage => host[n].stage \in Int
                              /\ bn[n].booted # NoImage => bn[n].booted \in Int
                              /\ rec.bn[n].booted # NoImage => rec.bn[n].booted \in Int
                              /\ host[n].booted # NoImage /\ bn[n].desired # NoImage
  <1>1. rec.target \in Image /\ pool.target \in Image
    BY DEF TypeOK, Reconcile, Pool
  <1>2. \A n \in Node : host[n] \in Host /\ bn[n] \in BootcNode /\ rec.bn[n] \in BootcNode
    BY NodeTypes
  <1>3. Image \subseteq Int /\ NoImage \notin Image
    BY ImageAssumption DEF Image
  <1> QED
    BY ZenonT(60), <1>1, <1>2, <1>3 DEF Host, BootcNode

\* The order of the images.
LEMMA LeqTransitive ==
    ASSUME NEW a \in Int, NEW b \in Int, NEW c \in Int, a <= b, b <= c
    PROVE  a <= c
  OBVIOUS

LEMMA LessTransitive ==
    ASSUME NEW a \in Int, NEW b \in Int, a <= b, a # b
    PROVE  a < b
  OBVIOUS

LEMMA LeqReflexive ==
    ASSUME NEW a \in Int
    PROVE  a <= a
  OBVIOUS

LEMMA LessIsLeq ==
    ASSUME NEW a \in Int, NEW b \in Int, a < b
    PROVE  a <= b
  OBVIOUS

LEMMA ForwardStep ==
    ASSUME TypeOK, WorkingCopies, ImagesForward, TypeOK',
           ~Lagging, ~Rollback, ~PowerLoss, ~AdminActs, [Next]_vars
    PROVE  ImagesForward'
  <1>0. (rec.pc # "idle" => rec.target <= pool.target) /\ \A n \in Node : ForwardAt(n)
    BY DEF ImagesForward
  <1>1. ASSUME rec'.pc = "idle", bn' = bn, host' = host, pool' = pool PROVE ImagesForward'
    BY ZenonT(60), <1>0, <1>1 DEF ImagesForward, ForwardAt
  <1>2. CASE GoesOn
    BY ZenonT(60), <1>0, <1>2 DEF ImagesForward, GoesOn, ForwardAt
  <1>3. CASE StartReconcile
    <2>1. rec'.target = pool.target /\ rec'.bn = bn /\ bn' = bn /\ host' = host /\ pool' = pool
      BY <1>3 DEF StartReconcile, CachedBN, NoReconcile, external
    <2>2. pool.target <= pool.target
      BY ImageTypes, LeqReflexive
    <2>3. ASSUME NEW n \in Node PROVE ForwardAt(n)'
      <3>1. ForwardAt(n)
        BY <1>0
      <3> QED
        BY <2>1, <3>1 DEF ForwardAt
    <2> QED
      BY <2>1, <2>2, <2>3 DEF ImagesForward
  <1>4. ASSUME NEW n \in Node, syncBootcNodeSpec(n) PROVE ImagesForward'
    <2>0. ForwardAt(n)
      BY <1>0
    <2>1. pool' = pool /\ host' = host
      BY <1>4 DEF syncBootcNodeSpec, external
    <2>2. /\ rec.pc # "idle" /\ rec'.target = rec.target
          /\ bn'[n].desired = rec.target /\ bn'[n].booted = bn[n].booted
          /\ rec'.bn[n].booted = bn[n].booted
          /\ \A m \in Node \ {n} : bn'[m] = bn[m] /\ rec'.bn[m] = rec.bn[m]
      BY <1>4, SyncEffect
    <2>3. /\ host[n].booted \in Int /\ bn[n].desired \in Int /\ rec.target \in Int
          /\ host[n].staged # NoImage => host[n].staged \in Int
          /\ host[n].stage # NoImage => host[n].stage \in Int
          /\ bn[n].booted # NoImage => bn[n].booted \in Int
          /\ rec.bn[n].booted # NoImage => rec.bn[n].booted \in Int /\ pool.target \in Int
      BY ImageTypes
    <2>4. ForwardAt(n)'
      <3>1. /\ host[n].booted <= bn[n].desired /\ bn[n].desired <= rec.target
            /\ rec.target <= pool.target
            /\ host[n].staged # NoImage =>
                  host[n].booted < host[n].staged /\ host[n].staged <= bn[n].desired
            /\ host[n].stage # NoImage =>
                  host[n].booted < host[n].stage /\ host[n].stage <= bn[n].desired
            /\ bn[n].booted # NoImage => bn[n].booted <= host[n].booted
        BY ZenonT(60), <1>0, <2>0, <2>2 DEF ForwardAt
      <3>2. host[n].booted <= rec.target
        BY ZenonT(60), <2>3, <3>1, LeqTransitive
      <3>3. host[n].staged # NoImage => host[n].staged <= rec.target
        BY <2>3, <3>1, LeqTransitive
      <3>4. host[n].stage # NoImage => host[n].stage <= rec.target
        BY <2>3, <3>1, LeqTransitive
      <3>5. rec.target <= rec.target
        BY <2>3, LeqReflexive
      <3>6. /\ host'[n].booted <= bn'[n].desired /\ bn'[n].desired <= pool'.target
            /\ bn'[n].desired <= rec'.target
        BY <2>1, <2>2, <3>1, <3>2, <3>5
      <3>7. /\ host'[n].staged # NoImage =>
                  host'[n].booted < host'[n].staged /\ host'[n].staged <= bn'[n].desired
            /\ host'[n].stage # NoImage =>
                  host'[n].booted < host'[n].stage /\ host'[n].stage <= bn'[n].desired
        BY <2>1, <2>2, <3>1, <3>3, <3>4
      <3>8. /\ bn'[n].booted # NoImage => bn'[n].booted <= host'[n].booted
            /\ rec'.bn[n].booted # NoImage => rec'.bn[n].booted <= host'[n].booted
        BY <2>1, <2>2, <3>1
      <3> QED
        BY <3>6, <3>7, <3>8 DEF ForwardAt
    <2>5. ASSUME NEW m \in Node \ {n} PROVE ForwardAt(m)'
      <3>1. ForwardAt(m)
        BY <1>0
      <3> QED
        BY <3>1, <2>1, <2>2 DEF ForwardAt
    <2> QED
      BY ZenonT(60), <1>0, <2>1, <2>2, <2>4, <2>5 DEF ImagesForward
  <1>5. ASSUME NEW n \in Node,
               DaemonReconcile(n) \/ StageFinishes(n) \/ Reboot(n) \/ HostBoots(n)
        PROVE  ImagesForward'
    <2>0. ForwardAt(n)
      BY <1>0
    <2>1. /\ rec' = rec /\ pool' = pool /\ bn'[n].desired = bn[n].desired
          /\ \A m \in Node \ {n} : bn'[m] = bn[m] /\ host'[m] = host[m]
      BY ZenonT(60), <1>5, DaemonEffect, StageEffect, RebootEffect, BootEffect
    <2>2. ASSUME NEW m \in Node \ {n} PROVE ForwardAt(m)'
      <3>1. ForwardAt(m)
        BY <1>0
      <3> QED
        BY ZenonT(60), <3>1, <2>1 DEF ForwardAt
    <2>3. ASSUME DaemonReconcile(n) PROVE ForwardAt(n)'
      <3>1. /\ bn'[n].booted = host[n].booted /\ host'[n].booted = host[n].booted
            /\ host'[n].staged = host[n].staged
            /\ \/ host'[n].stage = host[n].stage
               \/ host'[n].stage = bn[n].desired /\ host[n].booted # bn[n].desired
        BY <2>3, DaemonEffect
      <3>2. host[n].booted \in Int /\ bn[n].desired \in Int
        BY ImageTypes
      <3>3. /\ host[n].booted <= host[n].booted /\ bn[n].desired <= bn[n].desired
            /\ host[n].booted <= bn[n].desired
        BY <2>0, <3>2, LeqReflexive DEF ForwardAt
      <3>4. host[n].booted # bn[n].desired => host[n].booted < bn[n].desired
        BY <3>2, <3>3, LessTransitive
      <3>5. /\ host[n].stage # NoImage =>
                  host[n].booted < host[n].stage /\ host[n].stage <= bn[n].desired
            /\ host[n].staged # NoImage =>
                  host[n].booted < host[n].staged /\ host[n].staged <= bn[n].desired
        BY <2>0 DEF ForwardAt
      <3>6. host'[n].stage # NoImage =>
               host'[n].booted < host'[n].stage /\ host'[n].stage <= bn'[n].desired
        <4>1. CASE host'[n].stage = host[n].stage
          BY <2>1, <3>1, <3>5, <4>1
        <4>2. CASE host'[n].stage = bn[n].desired /\ host[n].booted # bn[n].desired
          BY <2>1, <3>1, <3>3, <3>4, <4>2
        <4> QED
          BY <3>1, <4>1, <4>2
      <3>7. /\ host'[n].booted <= bn'[n].desired
            /\ host'[n].staged # NoImage =>
                  host'[n].booted < host'[n].staged /\ host'[n].staged <= bn'[n].desired
            /\ bn'[n].booted <= host'[n].booted
        BY <2>1, <3>1, <3>3, <3>5
      <3>8. /\ bn'[n].desired <= pool'.target
            /\ rec'.pc # "idle" => bn'[n].desired <= rec'.target
            /\ rec'.pc # "idle" /\ rec'.bn[n].booted # NoImage =>
                  rec'.bn[n].booted <= host'[n].booted
        BY <2>0, <2>1, <3>1 DEF ForwardAt
      <3> QED
        BY ZenonT(60), <3>6, <3>7, <3>8 DEF ForwardAt
    <2>4. ASSUME StageFinishes(n) PROVE ForwardAt(n)'
      <3>1. /\ bn' = bn /\ host'[n].booted = host[n].booted
            /\ host'[n].stage = NoImage /\ host[n].stage # NoImage
            /\ host'[n].staged = host[n].staged \/ host'[n].staged = host[n].stage
        BY <2>4, StageEffect
      <3> QED
        BY <2>0, <2>1, <3>1 DEF ForwardAt
    <2>5. ASSUME Reboot(n) PROVE ForwardAt(n)'
      BY <2>0, <2>1, <2>5, RebootEffect DEF ForwardAt
    <2>6. ASSUME HostBoots(n) PROVE ForwardAt(n)'
      <3>1. /\ host[n].booted \in Int /\ bn[n].desired \in Int /\ rec.target \in Int
            /\ host[n].staged # NoImage => host[n].staged \in Int
            /\ host[n].stage # NoImage => host[n].stage \in Int
            /\ bn[n].booted # NoImage => bn[n].booted \in Int
            /\ rec.bn[n].booted # NoImage => rec.bn[n].booted \in Int
        BY ImageTypes
      <3>2. /\ rec' = rec /\ bn' = bn /\ pool' = pool /\ host'[n].stage = NoImage
            /\ host'[n].staged = NoImage
            /\ host'[n].booted = IF host[n].staged = NoImage THEN host[n].booted ELSE host[n].staged
        BY <2>6, BootEffect
      <3>3. CASE host[n].staged = NoImage
        BY <2>0, <3>2, <3>3 DEF ForwardAt
      <3>4. CASE host[n].staged # NoImage
        <4>1. /\ host[n].booted < host[n].staged /\ host[n].staged <= bn[n].desired
              /\ bn[n].desired <= pool.target
              /\ rec.pc # "idle" => bn[n].desired <= rec.target
              /\ bn[n].booted # NoImage => bn[n].booted <= host[n].booted
              /\ rec.pc # "idle" /\ rec.bn[n].booted # NoImage => rec.bn[n].booted <= host[n].booted
          BY ZenonT(60), <2>0, <3>4 DEF ForwardAt
        <4>2. host[n].booted <= host[n].staged
          BY ZenonT(60), <3>1, <3>4, <4>1, LessIsLeq
        <4>3. bn[n].booted # NoImage => bn[n].booted <= host[n].staged
          BY <3>1, <3>4, <4>1, <4>2, LeqTransitive
        <4>4. rec.pc # "idle" /\ rec.bn[n].booted # NoImage => rec.bn[n].booted <= host[n].staged
          BY <3>1, <3>4, <4>1, <4>2, LeqTransitive
        <4>5. host'[n].booted = host[n].staged
          BY <3>2, <3>4
        <4> QED
          BY <3>2, <4>1, <4>3, <4>4, <4>5 DEF ForwardAt
      <3> QED
        BY <3>3, <3>4
    <2>7. ForwardAt(n)'
      BY <1>5, <2>3, <2>4, <2>5, <2>6
    <2> QED
      BY <1>0, <2>1, <2>2, <2>7 DEF ImagesForward
  <1>6. ASSUME rec' = rec, host' = host, pool.target <= pool'.target, pool'.target \in Int,
               \A m \in Node : bn'[m].desired = bn[m].desired /\ bn'[m].booted = bn[m].booted
        PROVE  ImagesForward'
    <2>1. rec'.pc # "idle" => rec'.target <= pool'.target
      BY <1>0, <1>6, ImageTypes
    <2>2. ASSUME NEW m \in Node PROVE ForwardAt(m)'
      <3>1. ForwardAt(m) /\ bn'[m].desired = bn[m].desired /\ bn'[m].booted = bn[m].booted
        BY <1>0, <1>6
      <3>2. bn[m].desired <= pool'.target
        <4>1. bn[m].desired \in Int /\ pool.target \in Int
          BY ImageTypes
        <4>2. bn[m].desired <= pool.target
          BY <3>1 DEF ForwardAt
        <4> QED
          BY <1>6, <4>1, <4>2, LeqTransitive
      <3> QED
        BY <1>6, <3>1, <3>2 DEF ForwardAt
    <2> QED
      BY <2>1, <2>2 DEF ImagesForward
  <1>7. CASE \E n \in Node : DrainFinishes(n) \/ SchedulePod(n)
    <2>1. rec' = rec /\ host' = host /\ pool' = pool /\ bn' = bn
      BY <1>7 DEF DrainFinishes, SchedulePod, external
    <2>2. pool.target \in Int /\ pool.target <= pool.target
      BY ImageTypes
    <2> QED
      BY <1>6, <2>1, <2>2
  <1>8. CASE \/ UNCHANGED vars \/ EditPool
             \/ \E n \in Node : \/ KubeletReady(n) \/ RebootOverdue(n) \/ HostLosesPower(n)
                               \/ SyncBootcNodeCache(n) \/ SyncNodeCache(n) \/ AdminCordons(n)
    <2>1. EditPool => pool.target <= pool'.target
      BY ImageTypes, ImageAssumption DEF EditPool, TypeOK, Pool, Image
    <2>2. pool'.target \in Int
      BY ImageAssumption DEF TypeOK, Pool, Image
    <2>3. /\ rec' = rec /\ host' = host
          /\ pool' = pool \/ EditPool
          /\ \A m \in Node : Agree(bn'[m], bn[m]) /\ bn'[m].booted = bn[m].booted
      BY <1>8, QuietEffect
    <2>4. pool.target <= pool'.target
      BY <2>1, <2>3, ImageTypes
    <2>5. \A m \in Node : bn'[m].desired = bn[m].desired /\ bn'[m].booted = bn[m].booted
      BY <2>3 DEF Agree
    <2> QED
      BY <1>6, <2>2, <2>3, <2>4, <2>5
  <1>9. CASE HaltRollout \/ ensureDrain \/ ApiError \/ ControllerCrash
             \/ \E n \in Node : collectFails(n) \/ otherPoolCollects(n)
    <2>1. host' = host /\ pool' = pool
      BY ZenonT(60), <1>9 DEF HaltRollout, ensureDrain, ApiError, ControllerCrash, collectFails, otherPoolCollects, external
    <2> QED
      BY <1>1, <1>9, <2>1, AbortSteps DEF Aborts, NoReconcile
  <1>10. CASE rec' = NoReconcile /\ \E n \in Node : freeCompletedSlot(n) \/ cordonNode(n)
    BY <1>1, <1>10 DEF freeCompletedSlot, cordonNode, NoReconcile, external
  <1>11. ASSUME \/ StartCollect \/ buildRolloutState \/ StartAssign
                \/ \E n \in Node : collectDrainResults(n) \/ freeRebootSlot(n) \/ assignRebootSlot(n)
         PROVE  rec' # NoReconcile
    <2>1. CASE StartCollect \/ buildRolloutState \/ StartAssign
      <3>1. rec'.pc # "idle"
        <4>1. CASE StartCollect
          BY ZenonT(60), <4>1 DEF StartCollect, TypeOK, Reconcile
        <4>2. CASE buildRolloutState
          BY ZenonT(60), <4>2 DEF buildRolloutState, TypeOK, Reconcile
        <4>3. CASE StartAssign
          BY ZenonT(60), <4>3 DEF StartAssign, TypeOK, Reconcile
        <4> QED
          BY <2>1, <4>1, <4>2, <4>3
      <3> QED
        BY <3>1 DEF NoReconcile
    <2>2. CASE \E n \in Node : collectDrainResults(n) \/ freeRebootSlot(n) \/ assignRebootSlot(n)
      <3>1. rec'.pc # "idle"
        BY ZenonT(60), <2>2, CollectEffect, FreeEffect, AssignEffect
      <3> QED
        BY <3>1 DEF NoReconcile
    <2> QED
      BY <1>11, <2>1, <2>2
  <1> QED
    BY <1>2, <1>3, <1>4, <1>5, <1>7, <1>8, <1>9, <1>10, <1>11, GoingOn
       DEF Next, Controller, Disturbance, Machine

\* A node whose slot is about to be released runs its desired image: no approval,
\* reboot or drain of it is outstanding.
LEMMA ReleasedIsDone ==
    ASSUME TypeOK, ImagesForward, UpdateStages, PassConclusions, NEW n \in Node,
           rec.pc \in {"free", "freed"}, n \in rec.todo \cup rec.cur
    PROVE  host[n].booted = bn[n].desired /\ host[n].phase = "up" /\ drains[n] = "none"
  <1>1. rec.bn[n].booted = bn[n].desired
    BY DEF PassConclusions, ConclusionsAt
  <1>2. host[n].booted = bn[n].desired
    <2>1. /\ host[n].booted <= bn[n].desired
          /\ rec.bn[n].booted # NoImage => rec.bn[n].booted <= host[n].booted
      BY DEF ImagesForward, ForwardAt
    <2>2. host[n].booted \in Int /\ bn[n].desired \in Int /\ bn[n].desired # NoImage
      BY ImageTypes
    <2>3. bn[n].desired <= host[n].booted
      BY <1>1, <2>1, <2>2
    <2> QED
      BY <2>1, <2>2, <2>3
  <1> QED
    BY <1>2 DEF UpdateStages, StagesAt

\* Every step keeps a node out of service while an update needs it to be.
LEMMA StagesStep ==
    ASSUME TypeOK, WorkingCopies, ImagesForward, UpdateStages, PassConclusions,
           ~Lagging, ~Rollback, ~PowerLoss, ~AdminActs, [Next]_vars
    PROVE  UpdateStages'
  <1>0. \A n \in Node : StagesAt(n) /\ ForwardAt(n) /\ ConclusionsAt(n)
    BY DEF UpdateStages, ImagesForward, PassConclusions
  <1>1. ASSUME NEW m \in Node, bn'[m] = bn[m], node'[m] = node[m], host'[m] = host[m],
               pods'[m] = pods[m], drains'[m] = drains[m]
        PROVE  StagesAt(m)'
    BY ZenonT(60), <1>0, <1>1 DEF StagesAt, OutOfService
  <1>2. CASE StartReconcile \/ StartCollect \/ buildRolloutState \/ StartAssign \/ HaltRollout
             \/ ApiError
    <2>1. bn' = bn /\ node' = node /\ host' = host /\ pods' = pods /\ drains' = drains
      BY <1>2 DEF StartReconcile, StartCollect, buildRolloutState, StartAssign, HaltRollout, ApiError
    <2> QED
      BY <1>1, <2>1 DEF UpdateStages
  <1>3. CASE ControllerCrash \/ \E n \in Node : collectFails(n) \/ otherPoolCollects(n)
    <2>1. /\ bn' = bn /\ node' = node /\ host' = host /\ pods' = pods
          /\ \A m \in Node : drains'[m] \in {drains[m], "none"}
      BY ZenonT(60), <1>3 DEF ControllerCrash, collectFails, otherPoolCollects, TypeOK
    <2> SUFFICES ASSUME NEW m \in Node PROVE StagesAt(m)'
      BY DEF UpdateStages
    <2>m. StagesAt(m) /\ ForwardAt(m) /\ ConclusionsAt(m)
      BY <1>0
    <2> QED
      BY ZenonT(60), <2>m, <2>1 DEF StagesAt, OutOfService
  <1>4. CASE ensureDrain
    <2>1. bn' = bn /\ node' = node /\ host' = host /\ pods' = pods /\ rec.pc = "assign"
      BY <1>4 DEF ensureDrain
    <2>2. ASSUME NEW m \in Node PROVE StagesAt(m)'
      <3>1. CASE NeedsDrain(m) /\ drains[m] = "none"
        <4>1. rec.class[m] = "Staged" /\ bn[m].inSlot /\ bn[m].state = "Staged" /\ m \notin rec.todo
          <5>1. bn[m].state \in {"Staged", "Booted"}
            BY NodeTypes DEF BootcNode
          <5> QED
            BY ZenonT(60), <1>4, <2>1, <3>1, <5>1 DEF NeedsDrain, ensureDrain, NoCandidate, WorkingCopies, Agree
        <4>2. host[m].phase = "up" /\ host[m].booted # bn[m].desired /\ node[m].cordoned
          BY <1>0, <2>1, <4>1 DEF ConclusionsAt
        <4>3. drains'[m] = "running"
          BY <1>4, <3>1 DEF ensureDrain
        <4> QED
          BY ZenonT(60), <1>0, <2>1, <4>1, <4>2, <4>3 DEF StagesAt, OutOfService
      <3>2. CASE ~(NeedsDrain(m) /\ drains[m] = "none")
        <4>1. drains'[m] = drains[m]
          BY <1>4, <3>2 DEF ensureDrain
        <4> QED
          BY <1>1, <2>1, <4>1
      <3> QED
        BY <3>1, <3>2
    <2> QED
      BY <2>2 DEF UpdateStages
  <1>5. ASSUME NEW n \in Node, syncBootcNodeSpec(n) PROVE UpdateStages'
    <2>0. StagesAt(n) /\ ForwardAt(n) /\ ConclusionsAt(n)
      BY <1>0
    <2>1. node' = node /\ host' = host /\ pods' = pods /\ drains' = drains
      BY <1>5 DEF syncBootcNodeSpec
    <2>2. /\ rec.pc = "sync" /\ bn'[n].desired = rec.target /\ bn'[n].state = "Staged"
          /\ bn'[n].inSlot = bn[n].inSlot /\ bn'[n].booted = bn[n].booted
          /\ bn'[n].idle = bn[n].idle /\ \A m \in Node \ {n} : bn'[m] = bn[m]
      BY <1>5, SyncEffect
    <2>3. host[n].booted # bn[n].desired => host[n].booted # bn'[n].desired
      <3>1. /\ host[n].booted <= bn[n].desired /\ bn[n].desired <= rec.target
            /\ bn'[n].desired = rec.target
        BY ZenonT(60), <2>0, <2>2 DEF ForwardAt
      <3>2. host[n].booted \in Int /\ bn[n].desired \in Int /\ rec.target \in Int
        BY ImageTypes
      <3> QED
        BY <3>1, <3>2
    <2>4. StagesAt(n)'
      BY ZenonT(60), <2>0, <2>1, <2>2, <2>3 DEF StagesAt, OutOfService
    <2> QED
      BY <1>1, <2>1, <2>2, <2>4 DEF UpdateStages
  <1>6. ASSUME NEW n \in Node, collectDrainResults(n) PROVE UpdateStages'
    <2>0. StagesAt(n) /\ ForwardAt(n) /\ ConclusionsAt(n)
      BY <1>0
    <2>1. /\ node' = node /\ host' = host /\ pods' = pods /\ n \in rec.todo
          /\ drains'[n] = "none" /\ \A m \in Node \ {n} : drains'[m] = drains[m]
      BY <1>6 DEF collectDrainResults, TypeOK
    <2>2. /\ rec.pc = "collect" /\ bn'[n].desired = bn[n].desired
          /\ bn'[n].state = IF drains[n] = "failed" THEN bn[n].state ELSE "Booted"
          /\ bn'[n].inSlot = bn[n].inSlot /\ bn'[n].booted = bn[n].booted
          /\ bn'[n].idle = bn[n].idle /\ \A m \in Node \ {n} : bn'[m] = bn[m]
      BY ZenonT(60), <1>6, CollectEffect
    <2>3. drains[n] \in {"ok", "failed"}
      BY <1>0, <2>1, <2>2 DEF ConclusionsAt
    <2>4. StagesAt(n)'
      BY ZenonT(60), <2>0, <2>1, <2>2, <2>3 DEF StagesAt, OutOfService
    <2> QED
      BY ZenonT(60), <1>1, <2>1, <2>2, <2>4 DEF UpdateStages
  <1>7. ASSUME NEW n \in Node, freeCompletedSlot(n) PROVE UpdateStages'
    <2>0. StagesAt(n) /\ ForwardAt(n) /\ ConclusionsAt(n)
      BY <1>0
    <2>1. /\ bn' = bn /\ host' = host /\ pods' = pods /\ drains' = drains
          /\ rec.pc = "free" /\ n \in rec.todo
          /\ \A m \in Node \ {n} : node'[m] = node[m]
      BY <1>7 DEF freeCompletedSlot, TypeOK
    <2>2. host[n].booted = bn[n].desired /\ host[n].phase = "up" /\ drains[n] = "none"
      BY ZenonT(60), <2>1, ReleasedIsDone
    <2>3. StagesAt(n)'
      BY ZenonT(60), <2>0, <2>1, <2>2 DEF StagesAt
    <2> QED
      BY ZenonT(60), <1>1, <2>1, <2>3 DEF UpdateStages
  <1>8. ASSUME NEW n \in Node, freeRebootSlot(n) PROVE UpdateStages'
    <2>0. StagesAt(n) /\ ForwardAt(n) /\ ConclusionsAt(n)
      BY <1>0
    <2>1. node' = node /\ host' = host /\ pods' = pods /\ drains' = drains
      BY <1>8 DEF freeRebootSlot
    <2>2. /\ rec.pc = "freed" /\ n \in rec.cur /\ bn'[n].desired = bn[n].desired
          /\ bn'[n].state = bn[n].state /\ bn'[n].booted = bn[n].booted
          /\ bn'[n].idle = bn[n].idle /\ \A m \in Node \ {n} : bn'[m] = bn[m]
      BY ZenonT(60), <1>8, FreeEffect
    <2>3. host[n].booted = bn[n].desired /\ host[n].phase = "up" /\ drains[n] = "none"
      BY ZenonT(60), <2>2, ReleasedIsDone
    <2>4. StagesAt(n)'
      BY ZenonT(60), <2>0, <2>1, <2>2, <2>3 DEF StagesAt
    <2> QED
      BY <1>1, <2>1, <2>2, <2>4 DEF UpdateStages
  <1>9. ASSUME NEW n \in Node, assignRebootSlot(n) PROVE UpdateStages'
    <2>0. StagesAt(n) /\ ForwardAt(n) /\ ConclusionsAt(n)
      BY <1>0
    <2>1. node' = node /\ host' = host /\ pods' = pods /\ drains' = drains
      BY <1>9 DEF assignRebootSlot
    <2>2. /\ bn'[n].desired = bn[n].desired /\ bn'[n].inSlot = TRUE
          /\ bn'[n].state = bn[n].state /\ bn'[n].booted = bn[n].booted
          /\ bn'[n].idle = bn[n].idle /\ \A m \in Node \ {n} : bn'[m] = bn[m]
      BY ZenonT(60), <1>9, AssignEffect
    <2>3. StagesAt(n)'
      BY ZenonT(60), <2>0, <2>1, <2>2 DEF StagesAt, OutOfService
    <2> QED
      BY ZenonT(60), <1>1, <2>1, <2>2, <2>3 DEF UpdateStages
  <1>10. ASSUME NEW n \in Node, cordonNode(n) PROVE UpdateStages'
    <2>0. StagesAt(n) /\ ForwardAt(n) /\ ConclusionsAt(n)
      BY <1>0
    <2>1. bn' = bn /\ host' = host /\ pods' = pods /\ drains' = drains
      BY <1>10 DEF cordonNode
    <2>2. \A m \in Node : node'[m].cordoned = node[m].cordoned \/ node'[m].cordoned = TRUE
      <3>1. CASE node' = node
        BY <3>1
      <3>2. CASE node' = [node EXCEPT ![n] = [@ EXCEPT !.cordoned = TRUE]]
        BY ZenonT(60), <3>2, NodeTypes DEF TypeOK, NodeObject
      <3> QED
        BY ZenonT(60), <1>10, <3>1, <3>2 DEF cordonNode
    <2> SUFFICES ASSUME NEW m \in Node PROVE StagesAt(m)'
      BY DEF UpdateStages
    <2>m. StagesAt(m) /\ ForwardAt(m) /\ ConclusionsAt(m)
      BY <1>0
    <2> QED
      BY ZenonT(60), <2>m, <2>1, <2>2 DEF StagesAt, OutOfService
  <1>11. ASSUME NEW n \in Node, DrainFinishes(n) PROVE UpdateStages'
    <2>0. StagesAt(n) /\ ForwardAt(n) /\ ConclusionsAt(n)
      BY <1>0
    <2>1. /\ bn' = bn /\ node' = node /\ host' = host /\ drains[n] = "running"
          /\ \A m \in Node \ {n} : drains'[m] = drains[m] /\ pods'[m] = pods[m]
      BY <1>11 DEF DrainFinishes, TypeOK
    <2>2. \/ drains'[n] = "ok" /\ pods'[n] = FALSE
          \/ drains'[n] = "failed" /\ pods' = pods
      BY <1>11 DEF DrainFinishes, TypeOK
    <2>3. StagesAt(n)'
      BY ZenonT(60), <2>0, <2>1, <2>2 DEF StagesAt, OutOfService
    <2> QED
      BY <1>1, <2>1, <2>3 DEF UpdateStages
  <1>12. ASSUME NEW n \in Node, SchedulePod(n) PROVE UpdateStages'
    <2>0. StagesAt(n) /\ ForwardAt(n) /\ ConclusionsAt(n)
      BY <1>0
    <2>1. /\ bn' = bn /\ node' = node /\ host' = host /\ drains' = drains
          /\ ~node[n].cordoned /\ \A m \in Node \ {n} : pods'[m] = pods[m]
      BY <1>12 DEF SchedulePod, TypeOK
    <2>2. StagesAt(n)'
      BY ZenonT(60), <2>0, <2>1 DEF StagesAt, OutOfService
    <2> QED
      BY ZenonT(60), <1>1, <2>1, <2>2 DEF UpdateStages
  <1>13. ASSUME NEW n \in Node, DaemonReconcile(n) PROVE UpdateStages'
    <2>0. StagesAt(n) /\ ForwardAt(n) /\ ConclusionsAt(n)
      BY <1>0
    <2>1. StagesAt(n)'
      BY ZenonT(60), <2>0, <1>13, DaemonEffect DEF StagesAt, OutOfService
    <2>2. /\ node' = node /\ pods' = pods /\ drains' = drains
          /\ \A m \in Node \ {n} : bn'[m] = bn[m] /\ host'[m] = host[m]
      BY ZenonT(60), <1>13, DaemonEffect
    <2> QED
      BY ZenonT(60), <1>1, <2>1, <2>2 DEF UpdateStages
  <1>14. ASSUME NEW n \in Node, StageFinishes(n) PROVE UpdateStages'
    <2>0. StagesAt(n) /\ ForwardAt(n) /\ ConclusionsAt(n)
      BY <1>0
    <2>1. StagesAt(n)'
      BY ZenonT(60), <2>0, <1>14, StageEffect DEF StagesAt, OutOfService
    <2> QED
      BY ZenonT(60), <1>1, <1>14, <2>1, StageEffect DEF UpdateStages
  <1>15. ASSUME NEW n \in Node, Reboot(n) PROVE UpdateStages'
    <2>0. StagesAt(n) /\ ForwardAt(n) /\ ConclusionsAt(n)
      BY <1>0
    <2>1. \A m \in Node : node'[m].cordoned = node[m].cordoned
      BY ZenonT(60), <1>15, OthersKeepCordons DEF Others, Machine
    <2>2. /\ bn' = bn /\ pods' = pods /\ drains' = drains
          /\ host[n].phase = "reboot" /\ host'[n].booted = host[n].booted
          /\ \A m \in Node \ {n} : host'[m] = host[m]
      BY <1>15, RebootEffect
    <2>3. StagesAt(n)'
      BY ZenonT(60), <2>0, <2>1, <2>2 DEF StagesAt, OutOfService
    <2>4. ASSUME NEW m \in Node \ {n} PROVE StagesAt(m)'
      <3>1. StagesAt(m) /\ ForwardAt(m) /\ ConclusionsAt(m)
        BY <1>0
      <3> QED
        BY ZenonT(60), <3>1, <2>1, <2>2 DEF StagesAt, OutOfService
    <2> QED
      BY <2>3, <2>4 DEF UpdateStages
  <1>16. ASSUME NEW n \in Node, HostBoots(n) PROVE UpdateStages'
    <2>0. StagesAt(n) /\ ForwardAt(n) /\ ConclusionsAt(n)
      BY <1>0
    <2>1. StagesAt(n)'
      BY ZenonT(60), <2>0, <1>16, BootEffect DEF StagesAt, OutOfService
    <2> QED
      BY ZenonT(60), <1>1, <1>16, <2>1, BootEffect DEF UpdateStages
  <1>17. CASE \/ UNCHANGED vars \/ EditPool
              \/ \E n \in Node : \/ KubeletReady(n) \/ RebootOverdue(n) \/ HostLosesPower(n)
                                \/ SyncBootcNodeCache(n) \/ SyncNodeCache(n) \/ AdminCordons(n)
    <2>1. /\ host' = host /\ pods' = pods /\ drains' = drains
          /\ \A m \in Node : /\ bn'[m].desired = bn[m].desired /\ bn'[m].state = bn[m].state
                             /\ bn'[m].inSlot = bn[m].inSlot /\ bn'[m].booted = bn[m].booted
                             /\ bn'[m].idle = bn[m].idle
                             /\ node'[m].cordoned = node[m].cordoned
      BY ZenonT(60), <1>17, QuietEffect DEF Agree
    <2> SUFFICES ASSUME NEW m \in Node PROVE StagesAt(m)'
      BY DEF UpdateStages
    <2>m. StagesAt(m) /\ ForwardAt(m) /\ ConclusionsAt(m)
      BY <1>0
    <2> QED
      BY ZenonT(60), <2>m, <2>1 DEF StagesAt, OutOfService
  <1> QED
    BY <1>2, <1>3, <1>4, <1>5, <1>6, <1>7, <1>8, <1>9, <1>10, <1>11, <1>12, <1>13, <1>14, <1>15,
       <1>16, <1>17 DEF Next, Controller, Disturbance, Machine

\* What the classification of a working copy tells.
LEMMA ClassMeaning ==
    ASSUME NEW b \in BootcNode
    PROVE  /\ classWithTimeout(b) = "Staged" =>
                 b.idle = "Staged" /\ b.booted # NoImage /\ b.booted # b.desired
           /\ classWithTimeout(b) = "UpToDate" => b.booted = b.desired
  <1>1. b.idle \in {"Idle", "Staging", "Staged", "Rebooting"}
    BY DEF BootcNode
  <1>2. /\ classifyNode(b) = "Staged" =>
              b.idle = "Staged" /\ b.booted # NoImage /\ b.booted # b.desired
        /\ classifyNode(b) = "UpToDate" => b.booted = b.desired
    BY <1>1 DEF classifyNode
  <1> QED
    BY <1>2 DEF classWithTimeout

\* A pass may act on what it concluded, whatever happened since.
LEMMA ConclusionsStep ==
    ASSUME TypeOK, WorkingCopies, SlotCount, UpdateStages, PassConclusions,
           ~Lagging, ~PowerLoss, ~AdminActs, [Next]_vars
    PROVE  PassConclusions'
  <1>0. \A n \in Node : StagesAt(n) /\ ConclusionsAt(n)
    BY DEF UpdateStages, PassConclusions
  <1>1. ASSUME rec'.pc = "idle" PROVE PassConclusions'
    BY ZenonT(60), <1>1 DEF PassConclusions, ConclusionsAt
  <1>2. CASE HaltRollout \/ ensureDrain \/ ApiError \/ ControllerCrash
             \/ \E n \in Node : collectFails(n) \/ otherPoolCollects(n)
    BY <1>1, <1>2, AbortSteps DEF Aborts, NoReconcile
  \* A copy made of the current object tells as much as the object.
  <1>3. ASSUME NEW m \in Node, bn[m].idle = "Staged"
        PROVE  host[m].phase = "up" /\ bn[m].booted \in {NoImage, host[m].booted}
    BY ZenonT(60), <1>0, <1>3 DEF StagesAt
  <1>4. CASE StartReconcile
    <2>1. rec'.pc = "sync" /\ rec'.bn = bn /\ bn' = bn /\ host' = host
      BY <1>4 DEF StartReconcile, CachedBN, NoReconcile
    <2> QED
      BY ZenonT(60), <1>3, <2>1 DEF PassConclusions, ConclusionsAt
  <1>5. ASSUME NEW n \in Node, syncBootcNodeSpec(n) PROVE PassConclusions'
    <2>1. host' = host
      BY <1>5 DEF syncBootcNodeSpec
    <2>2. /\ rec.pc = "sync" /\ rec'.pc = "sync" /\ rec'.bn[n] = bn'[n]
          /\ bn'[n].booted = bn[n].booted /\ bn'[n].idle = bn[n].idle
          /\ \A m \in Node \ {n} : bn'[m] = bn[m] /\ rec'.bn[m] = rec.bn[m]
      BY ZenonT(60), <1>5, SyncEffect
    <2>3. ConclusionsAt(n)'
      <3>1. bn[n].idle = "Staged" =>
               host[n].phase = "up" /\ bn[n].booted \in {NoImage, host[n].booted}
        BY <1>3
      <3> QED
        BY ZenonT(60), <2>1, <2>2, <3>1 DEF ConclusionsAt
    <2>4. ASSUME NEW m \in Node \ {n} PROVE ConclusionsAt(m)'
      <3>1. ConclusionsAt(m) /\ bn'[m] = bn[m] /\ rec'.bn[m] = rec.bn[m]
        BY ZenonT(60), <1>0, <2>2
      <3> QED
        BY ZenonT(60), <2>1, <2>2, <3>1 DEF ConclusionsAt
    <2> QED
      BY <2>3, <2>4 DEF PassConclusions
  <1>6. CASE StartCollect
    <2>1. /\ rec.pc = "sync" /\ rec'.pc = "collect" /\ rec'.bn = rec.bn /\ bn' = bn /\ host' = host
          /\ drains' = drains /\ rec'.todo = {n \in Node : HasResult(n)}
      BY <1>6 DEF StartCollect, TypeOK, Reconcile
    <2> SUFFICES ASSUME NEW m \in Node PROVE ConclusionsAt(m)'
      BY DEF PassConclusions
    <2>m. StagesAt(m) /\ ConclusionsAt(m)
      BY <1>0
    <2> QED
      BY ZenonT(60), <2>m, <2>1 DEF ConclusionsAt, HasResult
  <1>7. ASSUME NEW n \in Node, collectDrainResults(n) PROVE PassConclusions'
    <2>0. StagesAt(n) /\ ConclusionsAt(n)
      BY <1>0
    <2>1. host' = host /\ n \in rec.todo /\ \A m \in Node \ {n} : drains'[m] = drains[m]
      BY <1>7 DEF collectDrainResults, TypeOK
    <2>2. /\ rec.pc = "collect" /\ rec'.pc = "collect" /\ rec'.todo = rec.todo \ {n}
          /\ bn'[n].booted = bn[n].booted /\ bn'[n].idle = bn[n].idle
          /\ bn'[n].state = IF drains[n] = "failed" THEN bn[n].state ELSE "Booted"
          /\ rec'.bn[n] = bn'[n] \/ rec'.bn[n] = rec.bn[n]
          /\ \A m \in Node \ {n} : bn'[m] = bn[m] /\ rec'.bn[m] = rec.bn[m]
      BY ZenonT(60), <1>7, CollectEffect
    <2>i. bn[n].idle = "Staged" =>
             host[n].phase = "up" /\ bn[n].booted \in {NoImage, host[n].booted}
      BY <1>3
    <2>c. rec'.bn[n].idle = "Staged" /\ bn'[n].state = "Staged" =>
             host'[n].phase = "up" /\ rec'.bn[n].booted \in {NoImage, host'[n].booted}
      <3>1. CASE rec'.bn[n] = bn'[n]
        BY ZenonT(60), <2>i, <2>1, <2>2, <3>1
      <3>2. CASE rec'.bn[n] = rec.bn[n]
        BY ZenonT(60), <2>0, <2>1, <2>2, <3>2 DEF ConclusionsAt
      <3> QED
        BY <2>2, <3>1, <3>2
    <2>3. ConclusionsAt(n)'
      BY ZenonT(60), <2>0, <2>c, <2>1, <2>2 DEF ConclusionsAt
    <2>4. ASSUME NEW m \in Node \ {n} PROVE ConclusionsAt(m)'
      <3>1. StagesAt(m) /\ ConclusionsAt(m)
        BY <1>0
      <3> QED
        BY ZenonT(60), <3>1, <2>1, <2>2 DEF ConclusionsAt
    <2> QED
      BY <2>3, <2>4 DEF PassConclusions
  <1>8. CASE buildRolloutState
    <2>1. /\ rec.pc = "collect" /\ rec'.pc = "free" /\ rec'.bn = rec.bn /\ rec'.cur = rec.cur
          /\ bn' = bn /\ host' = host
          /\ rec'.class = [n \in Node |-> classWithTimeout(rec.bn[n])]
          /\ rec'.todo = {n \in InSlot(rec.bn) : classWithTimeout(rec.bn[n]) = "UpToDate"}
      BY <1>8 DEF buildRolloutState, TypeOK, Reconcile
    <2>2. rec.cur = {}
      BY <2>1 DEF SlotCount
    <2>3. ASSUME NEW m \in Node PROVE ConclusionsAt(m)'
      <3>1. rec.bn[m].desired = bn[m].desired /\ rec.bn[m] \in BootcNode
        BY ZenonT(60), <2>1, NodeTypes DEF WorkingCopies, Agree
      <3>2. rec'.class[m] = "Staged" => /\ rec.bn[m].idle = "Staged" /\ rec.bn[m].booted # NoImage
                                        /\ rec.bn[m].booted # bn[m].desired
        BY <2>1, <3>1, ClassMeaning
      <3>3. m \in rec'.todo => rec.bn[m].booted = bn[m].desired
        BY <2>1, <3>1, ClassMeaning
      <3>4. ConclusionsAt(m)
        BY <1>0
      <3> QED
        BY ZenonT(60), <2>1, <2>2, <3>2, <3>3, <3>4 DEF ConclusionsAt
    <2> QED
      BY <2>3 DEF PassConclusions
  <1>9. ASSUME NEW n \in Node, freeCompletedSlot(n) PROVE PassConclusions'
    <2>0. StagesAt(n) /\ ConclusionsAt(n)
      BY <1>0
    <2>1. rec.pc = "free" /\ n \in rec.todo /\ bn' = bn /\ host' = host
      BY <1>9 DEF freeCompletedSlot
    <2>2. CASE rec' = NoReconcile
      BY <1>1, <2>2 DEF NoReconcile
    <2>3. CASE rec' \in {[rec EXCEPT !.todo = @ \ {n}], [rec EXCEPT !.pc = "freed", !.cur = {n}]}
      <3>1. /\ rec'.pc \in {"free", "freed"} /\ rec'.bn = rec.bn /\ rec'.class = rec.class
            /\ rec'.todo \cup rec'.cur \subseteq rec.todo \cup rec.cur
        <4>1. CASE rec' = [rec EXCEPT !.todo = @ \ {n}]
          BY <2>1, <4>1 DEF TypeOK, Reconcile
        <4>2. CASE rec' = [rec EXCEPT !.pc = "freed", !.cur = {n}]
          BY <2>1, <4>2 DEF TypeOK, Reconcile
        <4> QED
          BY <2>3, <4>1, <4>2
      <3> SUFFICES ASSUME NEW m \in Node PROVE ConclusionsAt(m)'
        BY DEF PassConclusions
      <3>m. StagesAt(m) /\ ConclusionsAt(m)
        BY <1>0
      <3> QED
        BY ZenonT(60), <3>m, <2>1, <3>1 DEF ConclusionsAt
    <2> QED
      BY <1>9, <2>2, <2>3 DEF freeCompletedSlot, Abort
  <1>10. ASSUME NEW n \in Node, freeRebootSlot(n) PROVE PassConclusions'
    <2>0. StagesAt(n) /\ ConclusionsAt(n)
      BY <1>0
    <2>1. host' = host
      BY <1>10 DEF freeRebootSlot
    <2>2. /\ rec.pc = "freed" /\ rec'.pc = "free" /\ rec'.todo = rec.todo \ {n} /\ rec'.cur = {}
          /\ rec'.class = rec.class /\ rec'.bn[n] = bn'[n]
          /\ bn'[n].booted = bn[n].booted /\ bn'[n].idle = bn[n].idle
          /\ bn'[n].desired = bn[n].desired /\ bn'[n].state = bn[n].state
          /\ \A m \in Node \ {n} : bn'[m] = bn[m] /\ rec'.bn[m] = rec.bn[m]
      BY ZenonT(60), <1>10, FreeEffect
    <2>i. bn[n].idle = "Staged" =>
             host[n].phase = "up" /\ bn[n].booted \in {NoImage, host[n].booted}
      BY <1>3
    <2>c. rec'.bn[n].idle = "Staged" /\ bn'[n].state = "Staged" =>
             host'[n].phase = "up" /\ rec'.bn[n].booted \in {NoImage, host'[n].booted}
      <3>1. CASE rec'.bn[n] = bn'[n]
        BY ZenonT(60), <2>i, <2>1, <2>2, <3>1
      <3>2. CASE rec'.bn[n] = rec.bn[n]
        BY ZenonT(60), <2>0, <2>1, <2>2, <3>2 DEF ConclusionsAt
      <3> QED
        BY ZenonT(60), <2>2, <3>1, <3>2
    <2>3. ConclusionsAt(n)'
      BY ZenonT(60), <2>0, <2>c, <2>1, <2>2 DEF ConclusionsAt
    <2>4. ASSUME NEW m \in Node \ {n} PROVE ConclusionsAt(m)'
      <3>1. StagesAt(m) /\ ConclusionsAt(m)
        BY <1>0
      <3> QED
        BY ZenonT(60), <3>1, <2>1, <2>2 DEF ConclusionsAt
    <2> QED
      BY <2>3, <2>4 DEF PassConclusions
  <1>11. CASE StartAssign
    <2>1. /\ rec.pc = "free" /\ rec'.pc = "assign" /\ rec'.bn = rec.bn /\ rec'.class = rec.class
          /\ rec'.todo = {n \in Node : rec.class[n] = "Staged"} /\ bn' = bn /\ host' = host
      BY <1>11 DEF StartAssign, TypeOK, Reconcile
    <2> SUFFICES ASSUME NEW m \in Node PROVE ConclusionsAt(m)'
      BY DEF PassConclusions
    <2>m. StagesAt(m) /\ ConclusionsAt(m)
      BY <1>0
    <2> QED
      BY ZenonT(60), <2>m, <2>1 DEF ConclusionsAt
  <1>12. ASSUME NEW n \in Node, assignRebootSlot(n) PROVE PassConclusions'
    <2>0. StagesAt(n) /\ ConclusionsAt(n)
      BY <1>0
    <2>1. host' = host /\ node' = node
      BY <1>12 DEF assignRebootSlot
    <2>2. /\ rec.pc = "assign" /\ rec'.pc = "cordon" /\ rec'.todo = rec.todo /\ rec'.cur = {n}
          /\ rec'.class = rec.class /\ rec'.node = node[n] /\ n \in rec.todo
          /\ rec'.bn[n] = rec.bn[n] \/ rec'.bn[n] = bn'[n]
          /\ bn'[n].booted = bn[n].booted /\ bn'[n].idle = bn[n].idle
          /\ bn'[n].desired = bn[n].desired /\ bn'[n].state = bn[n].state
          /\ \A m \in Node \ {n} : bn'[m] = bn[m] /\ rec'.bn[m] = rec.bn[m]
      BY ZenonT(60), <1>12, AssignEffect
    <2>i. bn[n].idle = "Staged" =>
             host[n].phase = "up" /\ bn[n].booted \in {NoImage, host[n].booted}
      BY <1>3
    <2>c. rec'.bn[n].idle = "Staged" /\ bn'[n].state = "Staged" =>
             host'[n].phase = "up" /\ rec'.bn[n].booted \in {NoImage, host'[n].booted}
      <3>1. CASE rec'.bn[n] = bn'[n]
        BY ZenonT(60), <2>i, <2>1, <2>2, <3>1
      <3>2. CASE rec'.bn[n] = rec.bn[n]
        BY ZenonT(60), <2>0, <2>1, <2>2, <3>2 DEF ConclusionsAt
      <3> QED
        BY ZenonT(60), <2>2, <3>1, <3>2
    <2>3. ConclusionsAt(n)'
      BY ZenonT(60), <2>0, <2>c, <2>1, <2>2 DEF ConclusionsAt
    <2>4. ASSUME NEW m \in Node \ {n} PROVE ConclusionsAt(m)'
      <3>1. StagesAt(m) /\ ConclusionsAt(m)
        BY <1>0
      <3> QED
        BY ZenonT(60), <3>1, <2>1, <2>2 DEF ConclusionsAt
    <2> QED
      BY <2>3, <2>4 DEF PassConclusions
  <1>13. ASSUME NEW n \in Node, cordonNode(n) PROVE PassConclusions'
    <2>0. StagesAt(n) /\ ConclusionsAt(n)
      BY <1>0
    <2>1. rec.pc = "cordon" /\ n \in rec.cur /\ bn' = bn /\ host' = host
      BY <1>13 DEF cordonNode
    <2>2. CASE rec' = NoReconcile
      BY <1>1, <2>2 DEF NoReconcile
    <2>3. CASE rec' # NoReconcile
      <3>1. rec' = [rec EXCEPT !.pc = "assign", !.todo = @ \ {n}, !.cur = {}]
        BY <1>13, <2>3 DEF cordonNode, Abort
      <3>2. /\ rec'.pc = "assign" /\ rec'.todo = rec.todo \ {n} /\ rec'.bn = rec.bn
            /\ rec'.class = rec.class
        BY <3>1 DEF TypeOK, Reconcile
      <3>3. \/ node' = node /\ rec.node.cordoned
            \/ node' = [node EXCEPT ![n] = [@ EXCEPT !.cordoned = TRUE]]
        BY <1>13, <2>3 DEF cordonNode, Abort
      <3>4. node'[n].cordoned /\ \A m \in Node \ {n} : node'[m] = node[m]
        <4>1. CASE node' = node /\ rec.node.cordoned
          BY <1>0, <2>1, <4>1 DEF ConclusionsAt
        <4>2. CASE node' = [node EXCEPT ![n] = [@ EXCEPT !.cordoned = TRUE]]
          BY <4>2, NodeTypes DEF TypeOK, NodeObject
        <4> QED
          BY <3>3, <4>1, <4>2
      <3> SUFFICES ASSUME NEW m \in Node PROVE ConclusionsAt(m)'
        BY DEF PassConclusions
      <3>m. StagesAt(m) /\ ConclusionsAt(m)
        BY <1>0
      <3> QED
        BY ZenonT(60), <3>m, <2>1, <3>2, <3>4 DEF ConclusionsAt
    <2> QED
      BY <2>2, <2>3
  <1>14. ASSUME NEW n \in Node, DrainFinishes(n) \/ SchedulePod(n) PROVE PassConclusions'
    <2>0. StagesAt(n) /\ ConclusionsAt(n)
      BY <1>0
    <2>1. /\ rec' = rec /\ bn' = bn /\ node' = node /\ host' = host
          /\ \A m \in Node : drains'[m] = drains[m] \/ drains'[m] \in {"ok", "failed"}
      BY <1>14 DEF DrainFinishes, SchedulePod, TypeOK
    <2> SUFFICES ASSUME NEW m \in Node PROVE ConclusionsAt(m)'
      BY DEF PassConclusions
    <2>m. StagesAt(m) /\ ConclusionsAt(m)
      BY <1>0
    <2> QED
      BY ZenonT(60), <2>m, <2>1 DEF ConclusionsAt
  <1>15. ASSUME NEW n \in Node, DaemonReconcile(n) PROVE PassConclusions'
    <2>0. ConclusionsAt(n)
      BY <1>0
    <2>1. /\ rec' = rec /\ node' = node /\ drains' = drains
          /\ bn'[n].desired = bn[n].desired /\ bn'[n].state = bn[n].state
          /\ bn'[n].inSlot = bn[n].inSlot /\ host'[n].booted = host[n].booted
          /\ host'[n].phase = "up" \/ bn[n].state = "Booted"
          /\ \A m \in Node \ {n} : bn'[m] = bn[m] /\ host'[m] = host[m]
      BY <1>15, DaemonEffect
    <2>2. ConclusionsAt(n)'
      BY ZenonT(60), <2>0, <2>1 DEF ConclusionsAt
    <2>3. ASSUME NEW m \in Node \ {n} PROVE ConclusionsAt(m)'
      <3>1. ConclusionsAt(m) /\ bn'[m] = bn[m] /\ host'[m] = host[m]
        BY ZenonT(60), <1>0, <2>1
      <3> QED
        BY ZenonT(60), <2>1, <3>1 DEF ConclusionsAt
    <2> QED
      BY <2>2, <2>3 DEF PassConclusions
  <1>16. ASSUME NEW n \in Node, StageFinishes(n) \/ HostBoots(n) PROVE PassConclusions'
    <2>0. StagesAt(n) /\ ConclusionsAt(n)
      BY <1>0
    <2>1. /\ rec' = rec /\ bn' = bn /\ node' = node /\ drains' = drains
          /\ \A m \in Node \ {n} : host'[m] = host[m]
          /\ \/ host[n].phase = "down"
             \/ host'[n].booted = host[n].booted /\ host'[n].phase = host[n].phase
      BY ZenonT(60), <1>16, StageEffect, BootEffect
    <2>2. ConclusionsAt(n)'
      BY ZenonT(60), <2>0, <2>1 DEF ConclusionsAt
    <2>3. ASSUME NEW m \in Node \ {n} PROVE ConclusionsAt(m)'
      <3>1. StagesAt(m) /\ ConclusionsAt(m)
        BY <1>0
      <3> QED
        BY ZenonT(60), <3>1, <2>1 DEF ConclusionsAt
    <2> QED
      BY <2>2, <2>3 DEF PassConclusions
  <1>17. ASSUME NEW n \in Node, Reboot(n) PROVE PassConclusions'
    <2>0. StagesAt(n) /\ ConclusionsAt(n)
      BY <1>0
    <2>1. \A m \in Node : node'[m].cordoned = node[m].cordoned
      BY ZenonT(60), <1>17, OthersKeepCordons DEF Others, Machine
    <2>2. /\ rec' = rec /\ bn' = bn /\ drains' = drains /\ host[n].phase = "reboot"
          /\ \A m \in Node \ {n} : host'[m] = host[m]
      BY ZenonT(60), <1>17, RebootEffect
    <2>3. ConclusionsAt(n)'
      BY ZenonT(60), <2>0, <2>1, <2>2 DEF ConclusionsAt
    <2>4. ASSUME NEW m \in Node \ {n} PROVE ConclusionsAt(m)'
      <3>1. StagesAt(m) /\ ConclusionsAt(m)
        BY <1>0
      <3> QED
        BY ZenonT(60), <3>1, <2>1, <2>2 DEF ConclusionsAt
    <2> QED
      BY <2>3, <2>4 DEF PassConclusions
  <1>18. CASE \/ UNCHANGED vars \/ EditPool
              \/ \E n \in Node : \/ KubeletReady(n) \/ RebootOverdue(n) \/ HostLosesPower(n)
                                \/ SyncBootcNodeCache(n) \/ SyncNodeCache(n) \/ AdminCordons(n)
    <2>1. /\ rec' = rec /\ host' = host /\ drains' = drains
          /\ \A m \in Node : /\ bn'[m].desired = bn[m].desired /\ bn'[m].state = bn[m].state
                             /\ bn'[m].inSlot = bn[m].inSlot
                             /\ node'[m].cordoned = node[m].cordoned
      BY ZenonT(60), <1>18, QuietEffect DEF Agree
    <2> SUFFICES ASSUME NEW m \in Node PROVE ConclusionsAt(m)'
      BY DEF PassConclusions
    <2>m. StagesAt(m) /\ ConclusionsAt(m)
      BY <1>0
    <2> QED
      BY ZenonT(60), <2>m, <2>1 DEF ConclusionsAt
  <1> QED
    BY <1>2, <1>4, <1>5, <1>6, <1>7, <1>8, <1>9, <1>10, <1>11, <1>12, <1>13, <1>14, <1>15, <1>16,
       <1>17, <1>18 DEF Next, Controller, Disturbance, Machine

LEMMA InitReboot == Init => RebootInv
  <1> SUFFICES ASSUME Init PROVE RebootInv
    OBVIOUS
  <1>1. rec.pc = "idle" /\ pool.target = 0
    BY ZenonT(60) DEF Init, NoReconcile
  <1>2. ASSUME NEW n \in Node
        PROVE  /\ bn[n].desired = 0 /\ bn[n].state = "Staged" /\ bn[n].booted = NoImage
               /\ host[n].booted = 0 /\ host[n].staged = NoImage /\ host[n].stage = NoImage
               /\ host[n].phase = "up" /\ drains[n] = "none"
    BY ZenonT(60) DEF Init, NewBootcNode
  <1>3. ASSUME NEW n \in Node PROVE ForwardAt(n) /\ StagesAt(n) /\ ConclusionsAt(n)
    <2>0. /\ bn[n].desired = 0 /\ bn[n].booted = NoImage /\ host[n].booted = 0
          /\ host[n].staged = NoImage /\ host[n].stage = NoImage
      BY <1>2
    <2>1. ForwardAt(n)
      BY <1>1, <2>0 DEF ForwardAt
    <2>2. StagesAt(n)
      BY <1>2 DEF StagesAt
    <2>3. ConclusionsAt(n)
      BY <1>1 DEF ConclusionsAt
    <2> QED
      BY <2>1, <2>2, <2>3
  <1> QED
    BY ZenonT(60), <1>1, <1>3 DEF RebootInv, WorkingCopies, ImagesForward, UpdateStages, PassConclusions

\* RebootInv is inductive together with the type invariant and the slot count.
LEMMA RebootInvStep ==
    ASSUME ~Lagging, ~Rollback, ~PowerLoss, ~AdminActs, TypeOK, SlotCount, RebootInv, [Next]_vars
    PROVE  TypeOK' /\ SlotCount' /\ RebootInv'
  <1>1. TypeOK' /\ WorkingCopies' /\ SlotCount'
    BY NextType, WorkingCopiesStep, SlotCountStep DEF RebootInv
  <1>2. ImagesForward' /\ UpdateStages' /\ PassConclusions'
    BY <1>1, ForwardStep, StagesStep, ConclusionsStep DEF RebootInv
  <1> QED
    BY <1>1, <1>2 DEF RebootInv

LEMMA RebootInvHolds ==
    ASSUME ~Lagging, ~Rollback, ~PowerLoss, ~AdminActs
    PROVE  Spec => [](TypeOK /\ SlotCount /\ RebootInv)
  <1>1. Init => TypeOK /\ SlotCount /\ RebootInv
    BY InitType, InitSlots, InitReboot
  <1>2. TypeOK /\ SlotCount /\ RebootInv /\ [Next]_vars => (TypeOK /\ SlotCount /\ RebootInv)'
    BY RebootInvStep
  <1> QED
    BY <1>1, <1>2, PTL DEF Spec

\* From what runs through what is staged to the target images only move forward, an
\* update keeps its node out of service, and what a pass concluded from its
\* copies still holds when it acts on it: given caches that do not lag, targets that
\* only move forward, no power loss and no administrator at work.
THEOREM RolloutIsOrderly ==
    ASSUME ~Lagging, ~Rollback, ~PowerLoss, ~AdminActs PROVE Spec => []RebootInv
  BY RebootInvHolds, PTL

\* A host is rebooted only while its node is in a slot, cordoned and drained,
\* for any number of nodes, images, edits and faults: given caches that do not
\* lag, targets that only move forward, no power loss and no administrator who
\* cordons or uncordons during the rollout.
THEOREM RebootsAreSafe ==
    ASSUME ~Lagging, ~Rollback, ~PowerLoss, ~AdminActs PROVE Spec => []SafeReboot
  <1>1. TypeOK /\ RebootInv => SafeReboot
    BY DEF RebootInv, UpdateStages, StagesAt, OutOfService, SafeReboot
  <1> QED
    BY <1>1, RebootInvHolds, PTL

\* Under the same assumptions no drain goroutine outlives the slot that ensureDrain
\* started it for.
THEOREM DrainsStayInSlots ==
    ASSUME ~Lagging, ~Rollback, ~PowerLoss, ~AdminActs PROVE Spec => []DrainInSlot
  <1>1. RebootInv => DrainInSlot
    BY DEF RebootInv, UpdateStages, StagesAt, DrainInSlot
  <1> QED
    BY <1>1, RebootInvHolds, PTL

\* Nor does an approval that the daemon has still to use outlive the slot in which
\* collectDrainResults gave it.
THEOREM ApprovalsStayInSlots ==
    ASSUME ~Lagging, ~Rollback, ~PowerLoss, ~AdminActs PROVE Spec => []ApprovalInSlot
  <1>1. RebootInv => ApprovalInSlot
    BY DEF RebootInv, UpdateStages, StagesAt, OutOfService, ApprovalInSlot
  <1> QED
    BY <1>1, RebootInvHolds, PTL

(***************************************************************************)
(* The refinement of RebootSlots.                                           *)
(***************************************************************************)

\* The cases of LifeOf as implications.
LEMMA LifeCases ==
    ASSUME NEW b, NEW h
    PROVE  /\ h.phase # "up" => LifeOf(b, h) = "down"
           /\ h.phase = "up" /\ ~b.inSlot => LifeOf(b, h) = "serving"
           /\ h.phase = "up" /\ b.inSlot /\ b.state = "Booted" /\ h.booted # b.desired =>
                 LifeOf(b, h) = "cleared"
           /\ h.phase = "up" /\ b.inSlot /\ ~(b.state = "Booted" /\ h.booted # b.desired) =>
                 LifeOf(b, h) = "held"
  BY DEF LifeOf

\* The life of a node depends on five fields only.
LEMMA SameLife ==
    ASSUME NEW b, NEW c, NEW h, NEW k,
           b.inSlot = c.inSlot, b.state = c.state, b.desired = c.desired,
           h.phase = k.phase, h.booted = k.booted
    PROVE  LifeOf(b, h) = LifeOf(c, k)
  BY DEF LifeOf

\* The mapped state.
lives == [m \in Node |-> LifeOf(bn[m], host[m])]

\* A step that moves no node and no workload is a change of the limit, or nothing.
LEMMA StillStep ==
    ASSUME TypeOK', pods' = pods,
           \A m \in Node : LifeOf(bn'[m], host'[m]) = LifeOf(bn[m], host[m])
    PROVE  [Slots!Next]_(Slots!vars)
  <1>1. lives' = lives
    BY DEF lives
  <1>2. rec'.limit \in Int
    BY DEF TypeOK, Reconcile, InvalidSpec
  <1>3. Slots!SetLimit
    BY <1>1, <1>2 DEF Slots!SetLimit, lives
  <1> QED
    BY <1>3 DEF Slots!Next

NotServing == {m \in Node : LifeOf(bn[m], host[m]) # "serving"}

\* The edges of RebootSlots: a node may go from one life to another.
MayMove(n, from, to) ==
    \/ from = "held" /\ to = "cleared" /\ ~pods[n]
    \/ from = "cleared" /\ to \in {"held", "down"}
    \/ from = "down" /\ to \in {"held", "cleared"}
    \/ from = "held" /\ to = "serving"
    \/ from = "serving" /\ to = "held" /\ Cardinality(NotServing') <= rec.limit

\* A step that moves one node along an edge, and nothing else, is a step of it.
LEMMA MoveStep ==
    ASSUME NEW n \in Node, pods' = pods, rec'.limit = rec.limit,
           \A m \in Node \ {n} : LifeOf(bn'[m], host'[m]) = LifeOf(bn[m], host[m]),
           MayMove(n, LifeOf(bn[n], host[n]), LifeOf(bn'[n], host'[n]))
    PROVE  Slots!Next
  <1> DEFINE from == LifeOf(bn[n], host[n])
             to   == LifeOf(bn'[n], host'[n])
  <1>1. lives[n] = from /\ lives' = [lives EXCEPT ![n] = to]
    BY ZenonT(60) DEF lives
  <1>2. ASSUME NEW F, NEW T, from \in F, to \in T PROVE Slots!Moves(n, F, T)
    BY <1>1, <1>2, ZenonT(60) DEF Slots!Moves, lives
  <1>3. CASE from = "held" /\ to = "cleared" /\ ~pods[n]
    BY <1>2, <1>3 DEF Slots!Next, Slots!Clear
  <1>4. CASE from = "cleared" /\ to = "held"
    BY <1>2, <1>4 DEF Slots!Next, Slots!Revoke
  <1>5. CASE from = "cleared" /\ to = "down"
    BY <1>2, <1>5 DEF Slots!Next, Slots!GoDown
  <1>6. CASE from = "down" /\ to \in {"held", "cleared"}
    BY <1>2, <1>6 DEF Slots!Next, Slots!ComeUp
  <1>7. CASE from = "held" /\ to = "serving"
    BY <1>2, <1>7 DEF Slots!Next, Slots!Release
  <1>8. CASE /\ from = "serving" /\ to = "held"
             /\ Cardinality(NotServing') <= rec.limit
    <2>1. Slots!Moves(n, {"serving"}, {"held"})
      BY <1>2, <1>8
    <2>2. Slots!OutOfService(lives') = NotServing'
      BY DEF Slots!OutOfService, NotServing, lives
    <2>3. Slots!Cardinality(NotServing') = Cardinality(NotServing')
      BY ZenonT(60) DEF Slots!Cardinality, Cardinality
    <2>4. Slots!Hold(n)
      BY <2>1, <2>2, <2>3, <1>8, ZenonT(60) DEF Slots!Hold, lives
    <2> QED
      BY <2>4 DEF Slots!Next
  <1> QED
    BY <1>3, <1>4, <1>5, <1>6, <1>7, <1>8 DEF MayMove

\* Every step of the rollout is a step of RebootSlots, or none.
LEMMA RefinementStep ==
    ASSUME ~Lagging, ~PowerLoss, ~AdminActs, TypeOK, TypeOK', SlotCount, SlotCount', RebootInv,
           [Next]_vars
    PROVE  [Slots!Next]_(Slots!vars)
  <1> USE DEF RebootInv
  <1>1. CASE bn' = bn /\ host' = host /\ pods' = pods
    BY <1>1, StillStep
  <1>2. CASE EditPool \/ UNCHANGED vars
             \/ \E n \in Node : \/ KubeletReady(n) \/ RebootOverdue(n) \/ HostLosesPower(n)
                               \/ SyncBootcNodeCache(n) \/ SyncNodeCache(n) \/ AdminCordons(n)
    <2>1. host' = host /\ pods' = pods /\ \A m \in Node : Agree(bn'[m], bn[m])
      BY <1>2, QuietEffect
    <2>2. \A m \in Node : LifeOf(bn'[m], host'[m]) = LifeOf(bn[m], host[m])
      BY <2>1, SameLife DEF Agree
    <2> QED
      BY <2>1, <2>2, StillStep
  <1>3. ASSUME NEW n \in Node, syncBootcNodeSpec(n) PROVE [Slots!Next]_(Slots!vars)
    <2>1. /\ bn'[n].state = "Staged" /\ bn'[n].inSlot = bn[n].inSlot
          /\ \A m \in Node \ {n} : bn'[m] = bn[m]
      BY <1>3, SyncEffect
    <2>2. host' = host /\ pods' = pods /\ rec'.limit = rec.limit
      BY <1>3 DEF syncBootcNodeSpec, TypeOK, Reconcile
    <2>3. \/ LifeOf(bn'[n], host'[n]) = LifeOf(bn[n], host[n])
          \/ LifeOf(bn[n], host[n]) = "cleared" /\ LifeOf(bn'[n], host'[n]) = "held"
      BY <2>1, <2>2 DEF LifeOf
    <2> QED
      BY <2>1, <2>2, <2>3, StillStep, MoveStep DEF MayMove
  <1>4. ASSUME NEW n \in Node, collectDrainResults(n) PROVE [Slots!Next]_(Slots!vars)
    <2>1. /\ rec.pc = "collect" /\ bn'[n].desired = bn[n].desired
          /\ bn'[n].state = IF drains[n] = "failed" THEN bn[n].state ELSE "Booted"
          /\ bn'[n].inSlot = bn[n].inSlot /\ \A m \in Node \ {n} : bn'[m] = bn[m]
      BY <1>4, CollectEffect
    <2>2. host' = host /\ pods' = pods
      BY <1>4 DEF collectDrainResults
    <2>3. rec'.limit = rec.limit
      <3>1. rec \in Reconcile
        BY DEF TypeOK
      <3>2. \/ rec' = [rec EXCEPT !.bn = Replied(n), !.todo = @ \ {n}]
            \/ rec' = [rec EXCEPT !.todo = @ \ {n}]
        BY ZenonT(30), <1>4 DEF collectDrainResults
      <3> QED
        BY ZenonT(30), <3>1, <3>2 DEF Reconcile
    <2>4. CASE drains[n] = "failed"
      <3>1. LifeOf(bn'[n], host'[n]) = LifeOf(bn[n], host[n])
        BY <2>1, <2>2, <2>4 DEF LifeOf
      <3> QED
        BY <2>1, <2>2, <3>1, StillStep
    <2>5. CASE drains[n] # "failed"
      <3>1. drains[n] = "ok"
        BY <1>4, <2>1, <2>5 DEF PassConclusions, ConclusionsAt, collectDrainResults
      <3>2. /\ bn[n].inSlot /\ bn[n].state = "Staged" /\ host[n].phase = "up"
            /\ host[n].booted # bn[n].desired /\ ~pods[n]
        BY <3>1 DEF UpdateStages, StagesAt
      <3>3. LifeOf(bn[n], host[n]) = "held" /\ LifeOf(bn'[n], host'[n]) = "cleared"
        BY <2>1, <2>2, <2>5, <3>2 DEF LifeOf
      <3> QED
        BY <2>1, <2>2, <2>3, <3>2, <3>3, MoveStep DEF MayMove
    <2> QED
      BY <2>4, <2>5
  <1>5. ASSUME NEW n \in Node, freeRebootSlot(n) PROVE [Slots!Next]_(Slots!vars)
    <2>1. /\ rec.pc = "freed" /\ n \in rec.cur /\ bn'[n].inSlot = FALSE
          /\ \A m \in Node \ {n} : bn'[m] = bn[m]
      BY <1>5, FreeEffect, ZenonT(60)
    <2>2. host' = host /\ pods' = pods /\ rec'.limit = rec.limit
      BY <1>5 DEF freeRebootSlot, TypeOK, Reconcile
    <2>3. host[n].booted = bn[n].desired /\ host[n].phase = "up"
      BY <2>1, ReleasedIsDone
    <2>4. bn[n].inSlot
      BY <2>1 DEF SlotCount
    <2>5. LifeOf(bn[n], host[n]) = "held" /\ LifeOf(bn'[n], host'[n]) = "serving"
      BY <2>1, <2>2, <2>3, <2>4 DEF LifeOf
    <2> QED
      BY <2>1, <2>2, <2>5, MoveStep DEF MayMove
  <1>6. ASSUME NEW n \in Node, assignRebootSlot(n) PROVE [Slots!Next]_(Slots!vars)
    <2>1. /\ bn'[n].desired = bn[n].desired /\ bn'[n].state = bn[n].state
          /\ bn'[n].inSlot = TRUE /\ \A m \in Node \ {n} : bn'[m] = bn[m]
          /\ rec'.limit = rec.limit
      BY <1>6, AssignEffect, ZenonT(60)
    <2>2. host' = host /\ pods' = pods
      BY <1>6 DEF assignRebootSlot
    <2>3. CASE bn[n].inSlot
      <3>1. LifeOf(bn'[n], host'[n]) = LifeOf(bn[n], host[n])
        BY <2>1, <2>2, <2>3 DEF LifeOf
      <3> QED
        BY <2>1, <2>2, <3>1, StillStep
    <2>4. CASE ~bn[n].inSlot
      <3>1. Cardinality(InSlot(bn')) <= rec.limit
        <4>1. NewSlots # {}
          BY <2>1, <2>4 DEF NewSlots, InSlot
        <4> QED
          BY <4>1, NewSlotStep
      <3>2. host[n].phase = "up" /\ ~(bn[n].state = "Booted" /\ host[n].booted # bn[n].desired)
        BY <2>4 DEF UpdateStages, StagesAt, OutOfService
      <3>3. LifeOf(bn[n], host[n]) = "serving" /\ LifeOf(bn'[n], host'[n]) = "held"
        BY <2>1, <2>2, <2>4, <3>2 DEF LifeOf
      <3>4. NotServing' = InSlot(bn')
        <4>1. ASSUME NEW m \in Node PROVE host'[m].phase # "up" => bn'[m].inSlot
          BY <2>1, <2>2 DEF UpdateStages, StagesAt, OutOfService
        <4> QED
          BY <4>1 DEF NotServing, InSlot, LifeOf
      <3> QED
        BY <2>1, <2>2, <3>1, <3>3, <3>4, MoveStep DEF MayMove
    <2> QED
      BY <2>3, <2>4
  <1>7. ASSUME NEW n \in Node, DaemonReconcile(n) PROVE [Slots!Next]_(Slots!vars)
    <2>1. /\ rec' = rec /\ pods' = pods /\ host[n].phase = "up"
          /\ bn'[n].desired = bn[n].desired /\ bn'[n].state = bn[n].state
          /\ bn'[n].inSlot = bn[n].inSlot /\ host'[n].booted = host[n].booted
          /\ \/ host'[n].phase = "up"
             \/ /\ host'[n].phase = "reboot"
                /\ host[n].booted # bn[n].desired /\ bn[n].state = "Booted"
          /\ \A m \in Node \ {n} : bn'[m] = bn[m] /\ host'[m] = host[m]
      BY <1>7, DaemonEffect, ZenonT(60)
    <2>2. CASE host'[n].phase = "up"
      <3>1. LifeOf(bn'[n], host'[n]) = LifeOf(bn[n], host[n])
        BY <2>1, <2>2, SameLife
      <3> QED
        BY <2>1, <3>1, StillStep
    <2>3. CASE /\ host'[n].phase = "reboot"
               /\ host[n].booted # bn[n].desired /\ bn[n].state = "Booted"
      <3>1. bn[n].inSlot
        BY <2>3 DEF UpdateStages, StagesAt, OutOfService
      <3>2. LifeOf(bn[n], host[n]) = "cleared" /\ LifeOf(bn'[n], host'[n]) = "down"
        BY <2>1, <2>3, <3>1 DEF LifeOf
      <3> QED
        BY <2>1, <3>2, MoveStep DEF MayMove
    <2> QED
      BY <2>1, <2>2, <2>3
  <1>8. ASSUME NEW n \in Node, StageFinishes(n) PROVE [Slots!Next]_(Slots!vars)
    <2>1. /\ bn' = bn /\ pods' = pods /\ host'[n].booted = host[n].booted
          /\ host'[n].phase = host[n].phase /\ \A m \in Node \ {n} : host'[m] = host[m]
      BY <1>8, StageEffect
    <2>2. LifeOf(bn'[n], host'[n]) = LifeOf(bn[n], host[n])
      BY <2>1, SameLife
    <2> QED
      BY <2>1, <2>2, StillStep
  <1>9. ASSUME NEW n \in Node, Reboot(n) \/ HostBoots(n) PROVE [Slots!Next]_(Slots!vars)
    <2>1. /\ rec' = rec /\ bn' = bn /\ pods' = pods /\ host[n].phase # "up"
          /\ \A m \in Node \ {n} : host'[m] = host[m]
      BY <1>9, RebootEffect, BootEffect
    <2>2. bn[n].inSlot
      BY <2>1 DEF UpdateStages, StagesAt, OutOfService
    <2>3. LifeOf(bn[n], host[n]) = "down"
      BY <2>1 DEF LifeOf
    <2>4. LifeOf(bn'[n], host'[n]) \in {"down", "held", "cleared"}
      BY <2>1, <2>2 DEF LifeOf
    <2> QED
      BY <2>1, <2>3, <2>4, StillStep, MoveStep DEF MayMove
  <1>10. ASSUME NEW n \in Node, DrainFinishes(n) PROVE [Slots!Next]_(Slots!vars)
    <2>1. bn' = bn /\ host' = host /\ rec' = rec /\ drains[n] = "running"
      BY <1>10 DEF DrainFinishes
    <2>2. LifeOf(bn[n], host[n]) = "held"
      BY <2>1 DEF UpdateStages, StagesAt, LifeOf
    <2>3. CASE pods' = pods
      BY <1>1, <2>1, <2>3
    <2>4. CASE pods' = [pods EXCEPT ![n] = FALSE]
      <3>1. Slots!Evict(n)
        BY <2>1, <2>2, <2>4 DEF Slots!Evict
      <3> QED
        BY <3>1 DEF Slots!Next
    <2> QED
      BY <1>10, <2>3, <2>4 DEF DrainFinishes
  <1>11. ASSUME NEW n \in Node, SchedulePod(n) PROVE [Slots!Next]_(Slots!vars)
    <2>1. /\ bn' = bn /\ host' = host /\ rec' = rec /\ ~node[n].cordoned
          /\ pods' = [pods EXCEPT ![n] = TRUE]
      BY <1>11 DEF SchedulePod
    <2>2. LifeOf(bn[n], host[n]) \in {"serving", "held"}
      BY <2>1 DEF UpdateStages, StagesAt, OutOfService, LifeOf
    <2>3. Slots!Schedule(n)
      BY <2>1, <2>2 DEF Slots!Schedule
    <2> QED
      BY <2>3 DEF Slots!Next
  <1>12. ASSUME \/ StartReconcile \/ StartCollect \/ buildRolloutState \/ HaltRollout
                \/ StartAssign \/ ensureDrain \/ ApiError \/ ControllerCrash
                \/ \E n \in Node : \/ freeCompletedSlot(n) \/ cordonNode(n) \/ collectFails(n)
                                  \/ otherPoolCollects(n)
         PROVE  bn' = bn /\ host' = host /\ pods' = pods
    BY <1>12, ZenonT(60) DEF StartReconcile, StartCollect, buildRolloutState, HaltRollout,
       StartAssign, ensureDrain, ApiError, ControllerCrash, freeCompletedSlot, cordonNode,
       collectFails, otherPoolCollects
  <1> QED
    BY <1>1, <1>2, <1>3, <1>4, <1>5, <1>6, <1>7, <1>8, <1>9, <1>10, <1>11, <1>12, ZenonT(60)
       DEF Next, Controller, Disturbance, Machine

\* The rollout keeps the promise of RebootSlots, for any number of nodes, images,
\* edits and faults: a node leaves service within the limit, goes down only
\* cleared of its workload, and serves again only once it runs what it should.
\* Assumed: caches that do not lag, targets that only move forward, no power
\* loss, and no administrator who cordons or uncordons during the rollout.
THEOREM RolloutImplementsSlots ==
    ASSUME ~Lagging, ~Rollback, ~PowerLoss, ~AdminActs PROVE Spec => KeepsPromise
  <1> DEFINE Inv == TypeOK /\ SlotCount /\ RebootInv
  <1>1. Init => Inv
    BY InitType, InitSlots, InitReboot
  <1>2. Inv /\ [Next]_vars => Inv'
    <2> SUFFICES ASSUME Inv, [Next]_vars PROVE Inv'
      OBVIOUS
    <2>1. TypeOK' /\ WorkingCopies' /\ SlotCount'
      BY NextType, WorkingCopiesStep, SlotCountStep DEF RebootInv
    <2>2. ImagesForward' /\ UpdateStages' /\ PassConclusions'
      BY <2>1, ForwardStep, StagesStep, ConclusionsStep DEF RebootInv
    <2> QED
      BY <2>1, <2>2 DEF RebootInv
  <1>3. Init => Slots!Init
    <2> SUFFICES ASSUME Init PROVE Slots!Init
      OBVIOUS
    <2>1. \A n \in Node : LifeOf(bn[n], host[n]) = "serving"
      BY DEF Init, NewBootcNode, LifeOf
    <2>2. pods \in [Node -> BOOLEAN] /\ rec.limit \in Int
      BY DEF Init, NoReconcile
    <2> QED
      BY <2>1, <2>2, ZenonT(60) DEF Slots!Init
  <1>4. Inv /\ Inv' /\ [Next]_vars => [Slots!Next]_(Slots!vars)
    BY RefinementStep
  <1> QED
    BY <1>1, <1>2, <1>3, <1>4, PTL DEF Spec, KeepsPromise, Slots!Spec

\* So, under the same assumptions, no workload runs on a node that is approved to
\* reboot, rebooting or down.
THEOREM RolloutLosesNoWork ==
    ASSUME ~Lagging, ~Rollback, ~PowerLoss, ~AdminActs PROVE Spec => []Slots!NoWorkLost
  BY RolloutImplementsSlots, Slots!PromiseLosesNoWork, PTL DEF KeepsPromise
=============================================================================
