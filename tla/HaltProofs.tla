----------------------------- MODULE HaltProofs -----------------------------
(***************************************************************************)
(* What stops a rollout in module Rollout: unhealthy nodes keep their slots *)
(* and halt it, so that a bad image reaches few hosts.                      *)
(***************************************************************************)
EXTENDS RebootProofs

USE SMTT(30), ZenonT(30)

(***************************************************************************)
(* The halt of a rollout.                                                  *)
(***************************************************************************)

\* An approval outlives its slot only on a node that reported the desired image.
Done(b) == b.state = "Booted" /\ ~b.inSlot => b.booted = b.desired

Classified == rec.pc \in {"free", "freed", "assign", "cordon"}

\* What a pass knows of a node: after the sync its copy asks for the target; what
\* the copy reported is still reported; the loops visit nodes of one class; and a copy
\* in a slot that runs the target was classified so.
HaltAt(n) ==
    /\ rec.pc # "idle" => \/ rec.pc = "sync" /\ n \in rec.todo
                          \/ rec.bn[n].desired = rec.target
    /\ Done(bn[n]) /\ (rec.pc # "idle" => Done(rec.bn[n]))
    /\ rec.pc # "idle" /\ rec.bn[n].booted = bn[n].desired => bn[n].booted = bn[n].desired
    /\ rec.pc \in {"free", "freed"} /\ n \in rec.todo => rec.class[n] = "UpToDate"
    /\ rec.pc \in {"assign", "cordon"} /\ n \in rec.todo => rec.class[n] = "Staged"
    /\ Classified /\ rec.class[n] = "Staged" /\ ~rec.bn[n].inSlot => rec.bn[n].state = "Staged"
    /\ Classified /\ rec.bn[n].inSlot /\ rec.bn[n].booted = rec.target =>
          rec.class[n] \in {"UpToDate", "Degraded"}

\* From StartAssign on there are too few unhealthy slots for a halt.
HaltAccount ==
    /\ \A n \in Node : HaltAt(n)
    /\ rec.pc \in {"assign", "cordon"} => Cardinality(findUnhealthySlots) < unhealthySlotHaltThreshold

\* A copy that reports the desired image is up to date, or degraded.
LEMMA ClassOfDone ==
    ASSUME NEW b \in BootcNode, b.booted = b.desired
    PROVE  classWithTimeout(b) \in {"UpToDate", "Degraded"}
  <1>1. b.booted # NoImage
    BY ImageAssumption DEF BootcNode
  <1> QED
    BY <1>1 DEF classWithTimeout, classifyNode

\* Steps of the pass that change neither a BootcNode nor a working copy.
LEMMA HaltKept ==
    ASSUME NEW n \in Node, HaltAt(n), rec.pc # "idle", rec'.target = rec.target,
           rec'.bn[n] = rec.bn[n], bn'[n] = bn[n],
           rec.pc = "sync" => n \notin rec.todo,
           rec'.pc # "sync",
           Classified' => /\ Classified /\ rec'.class[n] = rec.class[n]
                          /\ n \in rec'.todo => IF rec'.pc \in {"free", "freed"}
                                                THEN rec.class[n] = "UpToDate"
                                                ELSE rec.class[n] = "Staged"
    PROVE  HaltAt(n)'
  BY DEF HaltAt, Done, Classified

\* Steps of the others: what a BootcNode asks for stays, and what it reports
\* comes from the host.
LEMMA HaltOthers ==
    ASSUME TypeOK, ImagesForward, NEW n \in Node, HaltAt(n), rec' = rec, Agree(bn'[n], bn[n]),
           bn'[n].booted \in {bn[n].booted, host[n].booted}
    PROVE  HaltAt(n)'
  <1>1. /\ bn[n].booted = bn[n].desired => host[n].booted = bn[n].desired
        /\ rec.pc # "idle" /\ rec.bn[n].booted = bn[n].desired => host[n].booted = bn[n].desired
    <2>1. /\ host[n].booted <= bn[n].desired
          /\ bn[n].booted # NoImage => bn[n].booted <= host[n].booted
          /\ rec.pc # "idle" /\ rec.bn[n].booted # NoImage => rec.bn[n].booted <= host[n].booted
      BY DEF ImagesForward, ForwardAt
    <2>2. host[n].booted \in Int /\ bn[n].desired \in Int /\ bn[n].desired # NoImage
      BY ImageTypes
    <2> QED
      BY <2>1, <2>2
  <1>2. /\ bn'[n].desired = bn[n].desired /\ bn'[n].state = bn[n].state
        /\ bn'[n].inSlot = bn[n].inSlot
    BY DEF Agree
  <1> QED
    BY <1>1, <1>2 DEF HaltAt, Done, Classified

LEMMA HaltNodesStep ==
    ASSUME TypeOK, SlotCount, RebootInv, ~Lagging, ~PowerLoss, ~AdminActs,
           \A n \in Node : HaltAt(n), [Next]_vars, NEW m \in Node
    PROVE  HaltAt(m)'
  <1>0. /\ WorkingCopies /\ ImagesForward /\ UpdateStages /\ PassConclusions
        /\ HaltAt(m) /\ bn[m] \in BootcNode /\ rec.bn[m] \in BootcNode
    BY NodeTypes DEF RebootInv
  <1>1. CASE Aborts /\ bn' = bn
    BY ZenonT(60), <1>0, <1>1 DEF Aborts, NoReconcile, HaltAt, Done, Classified
  <1>2. CASE StartReconcile
    <2>1. /\ rec'.pc = "sync" /\ rec'.target = pool.target /\ rec'.bn = bn /\ bn' = bn
          /\ rec'.todo = {n \in Node : bn[n].desired # pool.target}
      BY <1>2 DEF StartReconcile, NoReconcile, CachedBN
    <2> QED
      BY ZenonT(60), <1>0, <2>1 DEF HaltAt, Classified
  <1>3. ASSUME NEW n \in Node, syncBootcNodeSpec(n) PROVE HaltAt(m)'
    <2>1. rec'.todo = rec.todo \ {n}
      BY <1>3 DEF syncBootcNodeSpec, TypeOK, Reconcile
    <2>2. CASE m = n
      <3>1. /\ rec'.pc = "sync" /\ rec'.bn[m] = bn'[m] /\ bn'[m].state = "Staged"
            /\ bn'[m].desired = rec'.target
        BY <1>0, <1>3, <2>2, SyncEffect
      <3> QED
        BY <3>1 DEF HaltAt, Done, Classified
    <2>3. CASE m # n
      <3>1. /\ rec.pc = "sync" /\ rec'.pc = "sync" /\ rec'.target = rec.target
            /\ bn'[m] = bn[m] /\ rec'.bn[m] = rec.bn[m]
        BY <1>0, <1>3, <2>3, SyncEffect
      <3> QED
        BY <1>0, <2>1, <2>3, <3>1 DEF HaltAt, Classified
    <2> QED
      BY <2>2, <2>3
  <1>4. CASE StartCollect
    <2>1. /\ rec.pc = "sync" /\ rec.todo = {} /\ rec'.pc = "collect" /\ rec'.target = rec.target
          /\ rec'.bn = rec.bn /\ bn' = bn
      BY <1>4 DEF StartCollect, TypeOK, Reconcile
    <2> QED
      BY <1>0, <2>1, HaltKept DEF Classified
  <1>5. ASSUME NEW n \in Node, collectDrainResults(n) PROVE HaltAt(m)'
    <2>1. /\ rec.pc = "collect" /\ rec'.pc = "collect" /\ rec'.target = rec.target
          /\ \A k \in Node \ {n} : bn'[k] = bn[k] /\ rec'.bn[k] = rec.bn[k]
      BY <1>0, <1>5, CollectEffect
    <2>2. CASE m # n
      BY <1>0, <2>1, <2>2, HaltKept DEF Classified
    <2>3. CASE m = n /\ drains[n] = "failed"
      <3>1. bn' = bn /\ rec'.bn = rec.bn
        BY <1>5, <2>3 DEF collectDrainResults, TypeOK, Reconcile
      <3> QED
        BY <1>0, <2>1, <3>1, HaltKept DEF Classified
    <2>4. CASE m = n /\ drains[n] # "failed"
      <3>1. drains[n] # "none"
        BY <1>0, <1>5 DEF collectDrainResults, PassConclusions, ConclusionsAt
      <3>2. bn[n].inSlot
        BY <1>0, <3>1 DEF UpdateStages, StagesAt
      <3>3. /\ rec'.bn[n] = bn'[n] /\ bn'[n].inSlot /\ bn'[n].desired = bn[n].desired
        BY <1>0, <1>5, <2>4, <3>2, CollectEffect
      <3>4. rec.bn[n].desired = bn[n].desired
        BY <1>0, <2>1 DEF WorkingCopies, Agree
      <3> QED
        BY <1>0, <2>1, <2>4, <3>3, <3>4 DEF HaltAt, Done, Classified
    <2> QED
      BY <2>2, <2>3, <2>4
  <1>6. CASE buildRolloutState
    <2>1. /\ rec.pc = "collect" /\ rec'.pc = "free" /\ rec'.target = rec.target
          /\ rec'.bn = rec.bn /\ bn' = bn /\ rec'.class[m] = classWithTimeout(rec.bn[m])
          /\ m \in rec'.todo => classWithTimeout(rec.bn[m]) = "UpToDate"
      BY <1>6 DEF buildRolloutState, TypeOK, Reconcile
    <2>2. rec.bn[m].desired = rec.target
      BY <1>0, <2>1 DEF HaltAt
    <2>3. rec.bn[m].booted = rec.target => rec'.class[m] \in {"UpToDate", "Degraded"}
      BY <1>0, <2>1, <2>2, ClassOfDone
    <2>4. rec'.class[m] = "Staged" /\ ~rec.bn[m].inSlot => rec.bn[m].state = "Staged"
      <3>1. rec.bn[m].state \in {"Staged", "Booted"}
        BY <1>0 DEF BootcNode
      <3>2. rec'.class[m] = "Staged" => rec.bn[m].booted # rec.bn[m].desired
        BY ZenonT(60), <1>0, <2>1, ClassMeaning
      <3>3. Done(rec.bn[m])
        BY <1>0, <2>1 DEF HaltAt
      <3> QED
        BY <3>1, <3>2, <3>3 DEF Done
    <2> QED
      BY ZenonT(60), <1>0, <2>1, <2>2, <2>3, <2>4 DEF HaltAt, Classified
  <1>7. ASSUME NEW n \in Node, freeCompletedSlot(n), rec' # NoReconcile PROVE HaltAt(m)'
    <2>1. /\ rec.pc = "free" /\ bn' = bn
          /\ rec' \in {[rec EXCEPT !.todo = @ \ {n}], [rec EXCEPT !.pc = "freed", !.cur = {n}]}
      BY ZenonT(60), <1>7 DEF freeCompletedSlot, Abort
    <2>2. /\ rec'.pc \in {"free", "freed"} /\ rec'.target = rec.target /\ rec'.bn = rec.bn
          /\ rec'.class = rec.class /\ rec'.todo \subseteq rec.todo
      <3>1. CASE rec' = [rec EXCEPT !.todo = @ \ {n}]
        BY <2>1, <3>1 DEF TypeOK, Reconcile
      <3>2. CASE rec' = [rec EXCEPT !.pc = "freed", !.cur = {n}]
        BY <3>2 DEF TypeOK, Reconcile
      <3> QED
        BY <2>1, <3>1, <3>2
    <2>3. m \in rec'.todo => rec.class[m] = "UpToDate"
      BY <1>0, <2>1, <2>2 DEF HaltAt
    <2> QED
      BY <1>0, <2>1, <2>2, <2>3, HaltKept DEF Classified
  <1>8. ASSUME NEW n \in Node, freeRebootSlot(n) PROVE HaltAt(m)'
    <2>1. /\ rec.pc = "freed" /\ rec'.pc = "free" /\ rec'.target = rec.target
          /\ rec'.todo = rec.todo \ {n} /\ rec'.class = rec.class /\ n \in rec.cur
          /\ \A k \in Node \ {n} : bn'[k] = bn[k] /\ rec'.bn[k] = rec.bn[k]
      BY ZenonT(60), <1>0, <1>8, FreeEffect
    <2>2. CASE m # n
      <3>1. m \in rec'.todo => rec.class[m] = "UpToDate"
        BY <1>0, <2>1 DEF HaltAt
      <3> QED
        BY <1>0, <2>1, <2>2, <3>1, HaltKept DEF Classified
    <2>3. CASE m = n
      <3>1. /\ bn'[n].desired = bn[n].desired /\ bn'[n].state = bn[n].state
            /\ bn'[n].inSlot = FALSE /\ bn'[n].booted = bn[n].booted /\ rec'.bn[n] = bn'[n]
        BY ZenonT(60), <1>0, <1>8, FreeEffect
      <3>2. rec.class[n] = "UpToDate" /\ rec.bn[n].desired = rec.target
        BY ZenonT(60), <1>0, <2>1, <2>3 DEF HaltAt, SlotCount
      <3>3. rec.bn[n].desired = bn[n].desired
        BY <1>0, <2>1 DEF WorkingCopies, Agree
      <3>4. bn[n].booted = bn[n].desired
        BY ZenonT(60), <1>0, <2>1, <2>3 DEF HaltAt, PassConclusions, ConclusionsAt
      <3> QED
        <4>1. /\ rec'.pc = "free" /\ m \notin rec'.todo /\ rec'.class[m] = "UpToDate"
              /\ rec'.bn[m] = bn'[m] /\ bn'[m].desired = rec'.target
              /\ bn'[m].booted = bn'[m].desired /\ ~bn'[m].inSlot
          BY <2>1, <2>3, <3>1, <3>2, <3>3, <3>4
        <4> QED
          BY <4>1 DEF HaltAt, Done, Classified
    <2> QED
      BY <2>2, <2>3
  <1>9. CASE StartAssign
    <2>1. /\ rec.pc = "free" /\ rec'.pc = "assign" /\ rec'.target = rec.target
          /\ rec'.bn = rec.bn /\ rec'.class = rec.class /\ bn' = bn
          /\ rec'.todo = {n \in Node : rec.class[n] = "Staged"}
      BY <1>9 DEF StartAssign, TypeOK, Reconcile
    <2> QED
      BY <1>0, <2>1, HaltKept DEF Classified
  <1>10. ASSUME NEW n \in Node, assignRebootSlot(n) PROVE HaltAt(m)'
    <2>1. /\ rec.pc = "assign" /\ rec'.pc = "cordon" /\ rec'.target = rec.target
          /\ n \in rec.todo /\ rec'.todo = rec.todo /\ rec'.class = rec.class
          /\ \A k \in Node \ {n} : bn'[k] = bn[k] /\ rec'.bn[k] = rec.bn[k]
      BY ZenonT(60), <1>0, <1>10, AssignEffect
    <2>2. m \in rec'.todo => rec.class[m] = "Staged"
      BY <1>0, <2>1 DEF HaltAt
    <2>3. CASE m # n
      BY <1>0, <2>1, <2>2, <2>3, HaltKept DEF Classified
    <2>4. CASE m = n /\ rec.bn[n].inSlot
      <3>1. bn' = bn /\ rec'.bn = rec.bn
        BY <1>10, <2>4 DEF assignRebootSlot, Slotted, TypeOK, Reconcile
      <3> QED
        BY <1>0, <2>1, <2>2, <3>1, HaltKept DEF Classified
    <2>5. CASE m = n /\ ~rec.bn[n].inSlot
      <3>1. /\ bn'[n].desired = bn[n].desired /\ bn'[n].inSlot = TRUE
            /\ bn'[n].booted = bn[n].booted /\ rec'.bn[n] \in {rec.bn[n], bn'[n]}
        BY ZenonT(60), <1>0, <1>10, AssignEffect
      <3>2. Agree(rec.bn[n], bn[n]) /\ rec.bn[n].desired = rec.target
        BY ZenonT(60), <1>0, <2>1, <2>5 DEF WorkingCopies, HaltAt
      <3>3. rec.class[n] = "Staged" /\ bn[n].state = "Staged"
        BY <1>0, <2>1, <2>5, <3>2 DEF HaltAt, Classified, Agree
      <3>4. host[n].booted # bn[n].desired
        BY <1>0, <2>1, <3>3 DEF PassConclusions, ConclusionsAt
      <3>5. bn[n].booted # bn[n].desired
        <4>1. /\ host[n].booted <= bn[n].desired
              /\ bn[n].booted # NoImage => bn[n].booted <= host[n].booted
          BY <1>0 DEF ImagesForward, ForwardAt
        <4>2. host[n].booted \in Int /\ bn[n].desired \in Int /\ bn[n].desired # NoImage
          BY ImageTypes
        <4> QED
          BY <3>4, <4>1, <4>2
      <3>6. rec'.bn[n].inSlot => rec'.bn[n] = bn'[n]
        BY <2>5, <3>1
      <3>7. rec'.bn[n] # bn'[n] => rec'.bn[n] = rec.bn[n]
        BY <3>1
      <3>8. rec'.bn[n].desired = rec.target
        BY <3>1, <3>2 DEF Agree
      <3>9. Done(bn'[n]) /\ Done(rec'.bn[n])
        BY ZenonT(60), <1>0, <2>1, <2>5, <3>1, <3>7 DEF HaltAt, Done
      <3>10. rec'.bn[n].booted = bn'[n].desired => bn'[n].booted = bn'[n].desired
        BY ZenonT(60), <1>0, <2>1, <2>5, <3>1, <3>7 DEF HaltAt
      <3>11. ~rec'.bn[n].inSlot => rec'.bn[n].state = "Staged"
        BY <3>1, <3>2, <3>3, <3>7 DEF Agree
      <3>12. rec'.bn[n].inSlot => rec'.bn[n].booted # rec.target
        BY <3>1, <3>2, <3>5, <3>6 DEF Agree
      <3> QED
        BY <2>1, <2>2, <2>5, <3>8, <3>9, <3>10, <3>11, <3>12 DEF HaltAt, Classified
    <2> QED
      BY <2>3, <2>4, <2>5
  <1>11. ASSUME NEW n \in Node, cordonNode(n), rec' # NoReconcile PROVE HaltAt(m)'
    <2>1. /\ rec.pc = "cordon" /\ bn' = bn
          /\ rec' = [rec EXCEPT !.pc = "assign", !.todo = @ \ {n}, !.cur = {}]
      BY ZenonT(60), <1>11 DEF cordonNode, Abort
    <2>2. /\ rec'.pc = "assign" /\ rec'.target = rec.target /\ rec'.bn = rec.bn
          /\ rec'.class = rec.class /\ rec'.todo \subseteq rec.todo
      BY <2>1 DEF TypeOK, Reconcile
    <2>3. m \in rec'.todo => rec.class[m] = "Staged"
      BY <1>0, <2>1, <2>2 DEF HaltAt
    <2> QED
      BY <1>0, <2>1, <2>2, <2>3, HaltKept DEF Classified
  <1>12. CASE Others \/ EditPool \/ UNCHANGED vars
    <2>1. rec' = rec /\ Agree(bn'[m], bn[m])
      BY <1>12, OthersKeep
    <2>2. bn'[m].booted \in {bn[m].booted, host[m].booted}
      <3>1. ASSUME NEW n \in Node, DaemonReconcile(n) PROVE bn'[m].booted \in {bn[m].booted, host[m].booted}
        BY <3>1, DaemonEffect
      <3>2. ASSUME NEW n \in Node, RebootOverdue(n) PROVE bn'[m].booted = bn[m].booted
        BY <3>2, NodeTypes DEF RebootOverdue, TypeOK, BootcNode
      <3>3. CASE bn' = bn
        BY <3>3
      <3> QED
        BY ZenonT(60), <1>12, <3>1, <3>2, <3>3 DEF Others, Machine, vars, DrainFinishes, StageFinishes,
           Reboot, HostBoots, KubeletReady, SchedulePod, HostLosesPower, SyncBootcNodeCache,
           SyncNodeCache, AdminCordons, EditPool
    <2> QED
      BY <1>0, <2>1, <2>2, HaltOthers
  <1>13. ASSUME NEW n \in Node, freeCompletedSlot(n) \/ cordonNode(n), rec' = NoReconcile
         PROVE  HaltAt(m)'
    BY <1>1, <1>13 DEF Aborts, freeCompletedSlot, cordonNode
  <1> QED
    BY <1>1, <1>2, <1>3, <1>4, <1>5, <1>6, <1>7, <1>8, <1>9, <1>10, <1>11, <1>12, <1>13, AbortSteps
       DEF Next, Controller, Disturbance, Others

\* Classes and counts stay as StartAssign found them while it assigns slots.
LEMMA HaltCountStep ==
    ASSUME TypeOK, WorkingCopies, ~Lagging, HaltAccount, [Next]_vars
    PROVE  (rec.pc \in {"assign", "cordon"} =>
               Cardinality(findUnhealthySlots) < unhealthySlotHaltThreshold)'
  <1> DEFINE Few == rec.pc \in {"assign", "cordon"} =>
                       Cardinality(findUnhealthySlots) < unhealthySlotHaltThreshold
  <1>0. Few
    BY DEF HaltAccount
  <1>1. CASE rec'.pc \in {"idle", "sync", "collect", "free", "freed"}
    BY <1>1
  <1>2. CASE StartAssign
    <2>1. rec'.target = rec.target /\ rec'.bn = rec.bn /\ rec'.class = rec.class
      BY <1>2 DEF StartAssign, TypeOK, Reconcile
    <2>2. findUnhealthySlots' = findUnhealthySlots
      BY <2>1 DEF findUnhealthySlots
    <2> QED
      BY <1>2, <2>2 DEF StartAssign, unhealthySlotHaltThreshold
  <1>3. ASSUME NEW n \in Node, assignRebootSlot(n) PROVE Few'
    <2>1. /\ rec.pc = "assign" /\ n \in rec.todo /\ rec'.target = rec.target
          /\ rec'.class = rec.class /\ \A k \in Node \ {n} : rec'.bn[k] = rec.bn[k]
      BY ZenonT(60), <1>3, AssignEffect
    <2>2. rec.class[n] = "Staged"
      BY <2>1 DEF HaltAccount, HaltAt
    <2>3. findUnhealthySlots' = findUnhealthySlots
      BY <2>1, <2>2 DEF findUnhealthySlots
    <2> QED
      BY <1>0, <2>1, <2>3 DEF unhealthySlotHaltThreshold
  <1>4. ASSUME NEW n \in Node, cordonNode(n), rec' # NoReconcile PROVE Few'
    <2>1. rec.pc = "cordon" /\ rec' = [rec EXCEPT !.pc = "assign", !.todo = @ \ {n}, !.cur = {}]
      BY ZenonT(60), <1>4 DEF cordonNode, Abort
    <2>2. rec'.target = rec.target /\ rec'.bn = rec.bn /\ rec'.class = rec.class
      BY <2>1 DEF TypeOK, Reconcile
    <2>3. findUnhealthySlots' = findUnhealthySlots
      BY <2>2 DEF findUnhealthySlots
    <2> QED
      BY <1>0, <2>1, <2>3 DEF unhealthySlotHaltThreshold
  <1>5. CASE Others \/ EditPool \/ UNCHANGED vars
    <2>1. rec' = rec
      BY <1>5, OthersKeep
    <2>2. findUnhealthySlots' = findUnhealthySlots
      BY <2>1 DEF findUnhealthySlots
    <2> QED
      BY <1>0, <2>1, <2>2 DEF unhealthySlotHaltThreshold
  <1>6. CASE Aborts
    BY <1>1, <1>6 DEF Aborts, NoReconcile
  <1>7. CASE \/ StartReconcile \/ StartCollect \/ buildRolloutState
             \/ \E n \in Node : \/ syncBootcNodeSpec(n) \/ collectDrainResults(n)
                               \/ freeRebootSlot(n) \/ freeCompletedSlot(n)
    <2>1. CASE StartReconcile \/ StartCollect \/ buildRolloutState
      <3>1. rec'.pc \in {"sync", "collect", "free"}
        BY ZenonT(60), <2>1 DEF StartReconcile, StartCollect, buildRolloutState, NoReconcile, TypeOK, Reconcile
      <3> QED
        BY <1>1, <3>1
    <2>2. ASSUME NEW n \in Node, syncBootcNodeSpec(n) PROVE Few'
      BY <1>1, <2>2, SyncEffect
    <2>3. ASSUME NEW n \in Node, collectDrainResults(n) PROVE Few'
      BY <1>1, <2>3, CollectEffect
    <2>4. ASSUME NEW n \in Node, freeRebootSlot(n) PROVE Few'
      BY ZenonT(60), <1>1, <2>4, FreeEffect
    <2>5. ASSUME NEW n \in Node, freeCompletedSlot(n) PROVE Few'
      <3>1. CASE rec' = [rec EXCEPT !.todo = @ \ {n}]
        BY <1>1, <2>5, <3>1 DEF freeCompletedSlot, TypeOK, Reconcile
      <3>2. CASE rec' = [rec EXCEPT !.pc = "freed", !.cur = {n}]
        BY <1>1, <3>2 DEF TypeOK, Reconcile
      <3> QED
        BY <1>6, <2>5, <3>1, <3>2 DEF freeCompletedSlot, Abort, Aborts
    <2> QED
      BY <1>7, <2>1, <2>2, <2>3, <2>4, <2>5
  <1> QED
    BY <1>2, <1>3, <1>4, <1>5, <1>6, <1>7, AbortSteps
       DEF Next, Controller, Disturbance, Others, Aborts

LEMMA InitHalt == Init => HaltAccount
  <1> SUFFICES ASSUME Init PROVE HaltAccount
    OBVIOUS
  <1>1. rec.pc = "idle"
    BY DEF Init, NoReconcile
  <1>2. ASSUME NEW n \in Node PROVE HaltAt(n)
    <2>1. bn[n].state = "Staged"
      BY ZenonT(60) DEF Init, NewBootcNode
    <2> QED
      BY <1>1, <2>1 DEF HaltAt, Done, Classified
  <1> QED
    BY <1>1, <1>2 DEF HaltAccount

\* A pass that assigns a slot sees fewer than two nodes in slots which run its
\* target and are not Ready, although the nodes went on reporting after it
\* classified them and some copies were replaced by the replies to its patches.
THEOREM RolloutHalts ==
    ASSUME ~Lagging, ~Rollback, ~PowerLoss, ~AdminActs PROVE Spec => HaltHolds
  <1> DEFINE Inv == TypeOK /\ SlotCount /\ RebootInv
             Sick == {m \in Node : /\ rec.bn[m].inSlot
                                   /\ rec.bn[m].booted = rec.target
                                   /\ ~node[m].ready}
  <1>1. Init => Inv /\ HaltAccount
    BY InitType, InitSlots, InitReboot, InitHalt
  <1>2. Inv /\ [Next]_vars => Inv'
    BY RebootInvStep
  <1>3. Inv /\ HaltAccount /\ [Next]_vars => HaltAccount'
    <2> SUFFICES ASSUME Inv, HaltAccount, [Next]_vars PROVE HaltAccount'
      OBVIOUS
    <2>1. \A m \in Node : HaltAt(m)'
      BY HaltNodesStep DEF HaltAccount
    <2> QED
      BY <2>1, HaltCountStep DEF HaltAccount, RebootInv
  <1>4. ASSUME Inv, HaltAccount, [Next]_vars, NewSlots # {} PROVE Cardinality(Sick) < 2
    <2>1. PICK n \in Node : assignRebootSlot(n)
      BY <1>4, NewSlotAssigned DEF RebootInv
    <2>2. rec.pc = "assign"
      BY <2>1 DEF assignRebootSlot
    <2>3. Sick \subseteq findUnhealthySlots
      BY <1>4, <2>2 DEF HaltAccount, HaltAt, Classified, findUnhealthySlots
    <2>4. IsFiniteSet(findUnhealthySlots)
      BY NodeAssumption, FS_Subset DEF findUnhealthySlots
    <2>5. /\ Cardinality(Sick) <= Cardinality(findUnhealthySlots)
          /\ Cardinality(Sick) \in Nat /\ Cardinality(findUnhealthySlots) \in Nat
      BY <2>3, <2>4, FS_Subset, FS_CardinalityType
    <2> QED
      BY <1>4, <2>2, <2>5 DEF HaltAccount, unhealthySlotHaltThreshold
  <1>5. Inv /\ HaltAccount /\ [Next]_vars => [NewSlots # {} => Cardinality(Sick) < 2]_vars
    BY <1>4
  <1> QED
    BY <1>1, <1>2, <1>3, <1>5, PTL DEF Spec, HaltHolds

(***************************************************************************)
(* The reach of a bad image.                                               *)
(***************************************************************************)

\* A node that is down is not Ready; one that runs a bad image is in a slot and not
\* Ready, so freeCompletedSlot passes it over.
ContainedAt(n) ==
    /\ host[n].phase = "down" => ~node[n].ready
    /\ host[n].booted \in BadImage => bn[n].inSlot /\ ~node[n].ready
    /\ rec.pc = "freed" /\ n \in rec.cur => host[n].booted \notin BadImage

Containment ==
    /\ rec.pc # "idle" => rec.limit = resolveMaxUnavailable(pool)
    /\ Cardinality(InSlot(bn)) <= resolveMaxUnavailable(pool)
    /\ \A n \in Node : ContainedAt(n)

\* A step after which the node is no healthier, and not being released.
LEMMA ContainedKept ==
    ASSUME NEW n \in Node, ContainedAt(n), host'[n].booted = host[n].booted,
           host'[n].phase = "down" => host[n].phase = "down" \/ ~node'[n].ready,
           node'[n].ready => node[n].ready, bn[n].inSlot => bn'[n].inSlot,
           rec'.pc = "freed" /\ n \in rec'.cur => rec.pc = "freed" /\ n \in rec.cur
    PROVE  ContainedAt(n)'
  BY DEF ContainedAt

\* The controller's patches of a Node leave its readiness alone.
LEMMA ControllerKeepsReady ==
    ASSUME TypeOK, NEW m \in Node, NEW n \in Node, freeCompletedSlot(n) \/ cordonNode(n)
    PROVE  node'[m].ready = node[m].ready
  <1>0. node \in [Node -> NodeObject] /\ node[m] \in NodeObject
    BY DEF TypeOK
  <1>1. ASSUME NEW c \in BOOLEAN, node' = [node EXCEPT ![n] = [@ EXCEPT !.cordoned = c]]
        PROVE  node'[m].ready = node[m].ready
    BY <1>0, <1>1 DEF NodeObject
  <1>2. CASE node' = node
    BY <1>2
  <1>3. CASE freeCompletedSlot(n)
    <2>1. CASE node' = [node EXCEPT ![n] = Restored(rec.bn[n], node[n])]
      <3>1. CASE rec.bn[n].wasCordoned = "false"
        BY <1>1, <2>1, <3>1 DEF Restored
      <3>2. CASE rec.bn[n].wasCordoned # "false"
        BY <1>0, <2>1, <3>2 DEF Restored
      <3> QED
        BY <3>1, <3>2
    <2> QED
      BY ZenonT(60), <1>2, <1>3, <2>1 DEF freeCompletedSlot
  <1>4. CASE cordonNode(n)
    BY ZenonT(60), <1>1, <1>2, <1>4 DEF cordonNode
  <1> QED
    BY <1>2, <1>3, <1>4

LEMMA ContainedStep ==
    ASSUME TypeOK, RebootInv, ~Lagging, ~PowerLoss, ~AdminActs,
           \A n \in Node : ContainedAt(n), [Next]_vars, NEW m \in Node
    PROVE  ContainedAt(m)'
  <1>0. /\ WorkingCopies /\ ImagesForward /\ UpdateStages /\ PassConclusions
        /\ ContainedAt(m) /\ host \in [Node -> Host] /\ node \in [Node -> NodeObject]
        /\ host[m] \in Host /\ node[m] \in NodeObject
    BY DEF RebootInv, TypeOK
  <1>1. ASSUME host' = host, node'[m].ready = node[m].ready, bn[m].inSlot => bn'[m].inSlot,
               rec' = rec \/ rec'.pc # "freed"
        PROVE  ContainedAt(m)'
    BY <1>0, <1>1, ContainedKept
  <1>2. CASE Aborts /\ bn' = bn /\ node' = node /\ host' = host
    BY <1>1, <1>2 DEF Aborts, NoReconcile
  <1>3. CASE StartReconcile \/ StartCollect \/ buildRolloutState \/ StartAssign
    <2>1. bn' = bn /\ node' = node /\ host' = host
      BY <1>3 DEF StartReconcile, StartCollect, buildRolloutState, StartAssign
    <2>2. rec'.pc # "freed"
      BY ZenonT(60), <1>3 DEF StartReconcile, StartCollect, buildRolloutState, StartAssign, NoReconcile, TypeOK,
                  Reconcile
    <2> QED
      BY <1>1, <2>1, <2>2
  <1>4. ASSUME NEW n \in Node, syncBootcNodeSpec(n) PROVE ContainedAt(m)'
    <2>1. node' = node /\ host' = host
      BY <1>4 DEF syncBootcNodeSpec
    <2> QED
      BY ZenonT(60), <1>0, <1>1, <1>4, <2>1, SyncEffect
  <1>5. ASSUME NEW n \in Node, collectDrainResults(n) PROVE ContainedAt(m)'
    <2>1. node' = node /\ host' = host
      BY <1>5 DEF collectDrainResults
    <2> QED
      BY <1>0, <1>1, <1>5, <2>1, CollectEffect
  <1>6. ASSUME NEW n \in Node, freeCompletedSlot(n) PROVE ContainedAt(m)'
    <2>1. bn' = bn /\ host' = host
      BY <1>6 DEF freeCompletedSlot
    <2>2. node'[m].ready = node[m].ready
      BY <1>6, ControllerKeepsReady
    <2>3. CASE rec' = [rec EXCEPT !.pc = "freed", !.cur = {n}] /\ nodeReadyStatus(node[n])
      <3>1. rec'.cur = {n} /\ (m = n => host[m].booted \notin BadImage)
        BY <1>0, <2>3 DEF TypeOK, Reconcile, nodeReadyStatus, ContainedAt
      <3> QED
        BY <1>0, <2>1, <2>2, <3>1 DEF ContainedAt
    <2>4. CASE rec' = [rec EXCEPT !.todo = @ \ {n}]
      <3>1. rec'.pc # "freed"
        BY <1>6, <2>4 DEF freeCompletedSlot, TypeOK, Reconcile
      <3> QED
        BY <1>1, <2>1, <2>2, <3>1
    <2>5. CASE rec' = NoReconcile
      BY <1>1, <2>1, <2>2, <2>5 DEF NoReconcile
    <2> QED
      BY <1>6, <2>3, <2>4, <2>5 DEF freeCompletedSlot, Abort, CachedNode
  <1>7. ASSUME NEW n \in Node, freeRebootSlot(n) PROVE ContainedAt(m)'
    <2>1. /\ rec.pc = "freed" /\ n \in rec.cur /\ rec'.pc = "free"
          /\ \A k \in Node \ {n} : bn'[k] = bn[k]
      BY ZenonT(60), <1>0, <1>7, FreeEffect
    <2>2. node' = node /\ host' = host
      BY <1>7 DEF freeRebootSlot
    <2>3. CASE m # n
      BY <1>1, <2>1, <2>2, <2>3
    <2>4. CASE m = n
      BY <1>0, <2>1, <2>2, <2>4 DEF ContainedAt
    <2> QED
      BY <2>3, <2>4
  <1>8. ASSUME NEW n \in Node, assignRebootSlot(n) PROVE ContainedAt(m)'
    <2>1. /\ rec'.pc = "cordon" /\ bn'[n].inSlot = TRUE /\ \A k \in Node \ {n} : bn'[k] = bn[k]
      BY ZenonT(60), <1>0, <1>8, AssignEffect
    <2>2. node' = node /\ host' = host
      BY <1>8 DEF assignRebootSlot
    <2> QED
      BY <1>1, <2>1, <2>2
  <1>9. ASSUME NEW n \in Node, cordonNode(n) PROVE ContainedAt(m)'
    <2>1. bn' = bn /\ host' = host
      BY <1>9 DEF cordonNode
    <2>2. node'[m].ready = node[m].ready
      BY <1>9, ControllerKeepsReady
    <2>3. rec'.pc # "freed"
      <3>1. CASE rec' = NoReconcile
        BY <3>1 DEF NoReconcile
      <3>2. CASE rec' = [rec EXCEPT !.pc = "assign", !.todo = @ \ {n}, !.cur = {}]
        BY <3>2 DEF TypeOK, Reconcile
      <3> QED
        BY ZenonT(60), <1>9, <3>1, <3>2 DEF cordonNode, Abort
    <2> QED
      BY <1>1, <2>1, <2>2, <2>3
  <1>10. ASSUME NEW n \in Node, DaemonReconcile(n) PROVE ContainedAt(m)'
    <2>1. /\ rec' = rec /\ node' = node /\ bn'[m].inSlot = bn[m].inSlot
          /\ host'[m].booted = host[m].booted
          /\ host'[m].phase = "down" => host[m].phase = "down"
      BY <1>10, DaemonEffect
    <2> QED
      BY <1>0, <2>1, ContainedKept
  <1>11. ASSUME NEW n \in Node, StageFinishes(n) PROVE ContainedAt(m)'
    <2>1. /\ rec' = rec /\ bn' = bn /\ node' = node
          /\ host'[m].booted = host[m].booted /\ host'[m].phase = host[m].phase
      BY ZenonT(60), <1>11, StageEffect
    <2> QED
      BY <1>0, <2>1, ContainedKept
  <1>12. ASSUME NEW n \in Node, Reboot(n) PROVE ContainedAt(m)'
    <2>1. rec' = rec /\ bn' = bn /\ host'[m].booted = host[m].booted
      BY <1>12, RebootEffect
    <2>2. CASE /\ host' = [host EXCEPT ![n] = [@ EXCEPT !.phase = "down"]]
               /\ node' = [node EXCEPT ![n] = [@ EXCEPT !.ready = FALSE]]
      <3>1. /\ host'[m].phase = "down" => host[m].phase = "down" \/ ~node'[m].ready
            /\ node'[m].ready => node[m].ready
        BY <1>0, <2>2 DEF Host, NodeObject
      <3> QED
        BY <1>0, <2>1, <3>1, ContainedKept
    <2>3. CASE host' = [host EXCEPT ![n] = [@ EXCEPT !.phase = "up"]] /\ node' = node
      <3>1. host'[m].phase = "down" => host[m].phase = "down"
        BY <1>0, <2>3 DEF Host
      <3> QED
        BY <1>0, <2>1, <2>3, <3>1, ContainedKept
    <2> QED
      BY <1>12, <2>2, <2>3 DEF Reboot
  <1>13. ASSUME NEW n \in Node, HostBoots(n) PROVE ContainedAt(m)'
    <2>1. /\ rec' = rec /\ bn' = bn /\ node' = node /\ host[n].phase = "down"
          /\ host'[n].phase = "up" /\ \A k \in Node \ {n} : host'[k] = host[k]
      BY <1>13, BootEffect
    <2>2. CASE m # n
      BY <1>0, <2>1, <2>2, ContainedKept
    <2>3. CASE m = n
      <3>1. bn[n].inSlot /\ ~node[n].ready
        BY ZenonT(60), <1>0, <2>1, <2>3 DEF UpdateStages, StagesAt, OutOfService, ContainedAt
      <3>2. ~(rec.pc = "freed" /\ n \in rec.cur)
        BY <1>0, <2>1, ReleasedIsDone
      <3> QED
        BY <2>1, <2>3, <3>1, <3>2 DEF ContainedAt
    <2> QED
      BY <2>2, <2>3
  <1>14. ASSUME NEW n \in Node, KubeletReady(n) PROVE ContainedAt(m)'
    <2>1. /\ rec' = rec /\ bn' = bn /\ host' = host /\ host[n].phase = "up"
          /\ host[n].booted \notin BadImage
          /\ m # n => node'[m] = node[m]
      BY <1>0, <1>14 DEF KubeletReady
    <2>2. CASE m # n
      BY <1>0, <2>1, <2>2, ContainedKept
    <2>3. CASE m = n
      BY <2>1, <2>3 DEF ContainedAt
    <2> QED
      BY <2>2, <2>3
  <1>15. ASSUME NEW n \in Node, DrainFinishes(n) \/ SchedulePod(n) PROVE ContainedAt(m)'
    BY <1>1, <1>15 DEF DrainFinishes, SchedulePod
  <1>16. CASE \/ UNCHANGED vars \/ EditPool
              \/ \E n \in Node : \/ RebootOverdue(n) \/ HostLosesPower(n) \/ AdminCordons(n)
                                \/ SyncBootcNodeCache(n) \/ SyncNodeCache(n)
    <2>1. rec' = rec /\ host' = host /\ Agree(bn'[m], bn[m])
      BY ZenonT(60), <1>16, QuietEffect
    <2>2. node' = node
      BY <1>16 DEF vars, EditPool, RebootOverdue, HostLosesPower, AdminCordons,
                   SyncBootcNodeCache, SyncNodeCache
    <2> QED
      BY <1>1, <2>1, <2>2 DEF Agree
  <1>17. CASE \/ HaltRollout \/ ensureDrain \/ ApiError \/ ControllerCrash
              \/ \E n \in Node : collectFails(n) \/ otherPoolCollects(n)
    <2>1. host' = host
      BY <1>17 DEF HaltRollout, ensureDrain, ApiError, ControllerCrash, collectFails, otherPoolCollects
    <2> QED
      BY <1>2, <1>17, <2>1, AbortSteps
  <1> QED
    BY ZenonT(60), <1>3, <1>4, <1>5, <1>6, <1>7, <1>8, <1>9, <1>10, <1>11, <1>12, <1>13, <1>14,
       <1>15, <1>16, <1>17 DEF Next, Controller, Disturbance, Machine

\* Edits of the target alone leave the limit as it is.
LEMMA LimitKept ==
    ASSUME TypeOK, Edits \subseteq {"target"}, pool' = pool \/ EditPool
    PROVE  resolveMaxUnavailable(pool') = resolveMaxUnavailable(pool)
  <1>1. CASE pool' = pool
    BY <1>1
  <1>2. CASE EditPool
    <2>1. PICK i : pool' = [pool EXCEPT !.target = i]
      BY <1>2 DEF EditPool
    <2>2. pool'.paused = pool.paused /\ pool'.max = pool.max
      BY <2>1 DEF TypeOK, Pool
    <2> QED
      BY <2>2 DEF resolveMaxUnavailable
  <1> QED
    BY <1>1, <1>2

\* A pass goes by the limit it read.
LEMMA LimitRead ==
    ASSUME TypeOK, [Next]_vars
    PROVE  /\ pool' = pool \/ EditPool
           /\ \/ StartReconcile \/ rec'.pc = "idle"
              \/ rec.pc # "idle" /\ rec'.limit = rec.limit
              \/ rec' = rec
  <1>1. pool' = pool \/ EditPool
    BY ZenonT(60) DEF Next, Controller, Disturbance, Machine, vars, external, StartReconcile, StartCollect,
       buildRolloutState, HaltRollout, StartAssign, ensureDrain, syncBootcNodeSpec,
       collectDrainResults, freeCompletedSlot, freeRebootSlot, assignRebootSlot, cordonNode, ApiError,
       ControllerCrash, collectFails, otherPoolCollects, SchedulePod, HostLosesPower, RebootOverdue,
       SyncBootcNodeCache, SyncNodeCache, AdminCordons, DrainFinishes, DaemonReconcile, StageFinishes,
       Reboot, HostBoots, KubeletReady
  <1> DEFINE Same == rec.pc # "idle" /\ rec'.limit = rec.limit
  <1>2. ASSUME StartCollect \/ buildRolloutState \/ StartAssign PROVE Same
    BY ZenonT(60), <1>2 DEF StartCollect, buildRolloutState, StartAssign, TypeOK, Reconcile
  <1>3. ASSUME NEW n \in Node, syncBootcNodeSpec(n) \/ freeRebootSlot(n) \/ assignRebootSlot(n)
        PROVE  Same
    BY ZenonT(60), <1>3 DEF syncBootcNodeSpec, freeRebootSlot, assignRebootSlot, TypeOK, Reconcile
  <1>4. ASSUME NEW n \in Node, collectDrainResults(n) PROVE Same
    BY ZenonT(60), <1>4 DEF collectDrainResults, TypeOK, Reconcile
  <1>5. ASSUME NEW n \in Node, freeCompletedSlot(n), ~Aborts PROVE Same
    <2>1. rec.pc # "idle"
      BY <1>5 DEF freeCompletedSlot
    <2>2. CASE rec' = [rec EXCEPT !.todo = @ \ {n}]
      BY <2>1, <2>2 DEF TypeOK, Reconcile
    <2>3. CASE rec' = [rec EXCEPT !.pc = "freed", !.cur = {n}]
      BY <2>1, <2>3 DEF TypeOK, Reconcile
    <2> QED
      BY <1>5, <2>2, <2>3 DEF freeCompletedSlot, Abort, Aborts
  <1>6. ASSUME NEW n \in Node, cordonNode(n), ~Aborts PROVE Same
    <2>1. rec.pc # "idle" /\ rec' = [rec EXCEPT !.pc = "assign", !.todo = @ \ {n}, !.cur = {}]
      BY ZenonT(60), <1>6 DEF cordonNode, Abort, Aborts
    <2> QED
      BY <2>1 DEF TypeOK, Reconcile
  <1>7. ASSUME Others \/ EditPool \/ UNCHANGED vars PROVE rec' = rec
    BY <1>7, OthersKeep
  <1>8. ASSUME Aborts PROVE rec'.pc = "idle"
    BY <1>8 DEF Aborts, NoReconcile
  <1> QED
    BY <1>1, <1>2, <1>3, <1>4, <1>5, <1>6, <1>7, <1>8, AbortSteps
       DEF Next, Controller, Disturbance, Others

LEMMA ContainmentStep ==
    ASSUME ~Lagging, ~PowerLoss, ~AdminActs, Edits \subseteq {"target"},
           TypeOK, SlotCount, RebootInv, Containment, [Next]_vars
    PROVE  Containment'
  <1>1. resolveMaxUnavailable(pool') = resolveMaxUnavailable(pool)
    BY LimitRead, LimitKept
  <1>2. (rec.pc # "idle" => rec.limit = resolveMaxUnavailable(pool))'
    <2>1. CASE StartReconcile
      BY <1>1, <2>1 DEF StartReconcile, NoReconcile
    <2> QED
      BY <1>1, <2>1, LimitRead DEF Containment
  <1>3. Cardinality(InSlot(bn')) <= resolveMaxUnavailable(pool')
    <2>1. CASE NewSlots # {}
      <3>1. PICK n \in Node : assignRebootSlot(n)
        BY <2>1, NewSlotAssigned DEF RebootInv
      <3>2. rec.limit = resolveMaxUnavailable(pool)
        BY <3>1 DEF assignRebootSlot, Containment
      <3> QED
        BY <1>1, <2>1, <3>2, NewSlotStep DEF RebootInv
    <2>2. CASE NewSlots = {}
      <3>1. InSlot(bn') \subseteq InSlot(bn)
        BY <2>2 DEF NewSlots
      <3>2. Cardinality(InSlot(bn')) <= Cardinality(InSlot(bn))
        BY <3>1, InSlotFinite, FS_Subset
      <3>3. resolveMaxUnavailable(pool) \in Int
        BY LimitType DEF TypeOK, InvalidSpec
      <3>4. Cardinality(InSlot(bn)) <= resolveMaxUnavailable(pool)
        BY DEF Containment
      <3> QED
        BY <1>1, <3>2, <3>3, <3>4, InSlotFinite
    <2> QED
      BY <2>1, <2>2
  <1>4. \A m \in Node : ContainedAt(m)'
    BY ContainedStep DEF Containment
  <1> QED
    BY <1>2, <1>3, <1>4 DEF Containment

\* An image on which no node becomes Ready reaches at most maxUnavailable hosts, for
\* any pool size, limit and faults: freeCompletedSlot keeps the slot of a node that is
\* not Ready, and slots are what a reboot needs.  The user edits only the target (a
\* limit lowered later cannot take hosts back), maxUnavailable is well-formed, and
\* the image the hosts start on is good.
THEOREM BadImageStaysContained ==
    ASSUME ~Lagging, ~Rollback, ~PowerLoss, ~AdminActs, Edits \subseteq {"target"},
           0 \notin BadImage, \A x \in MaxUnavailable : x.kind # "invalid"
    PROVE  Spec => []BadImageContained
  <1> DEFINE Inv == TypeOK /\ SlotCount /\ RebootInv
  <1>1. Init => Inv /\ Containment
    <2> SUFFICES ASSUME Init PROVE Inv /\ Containment
      OBVIOUS
    <2>1. Inv
      BY InitType, InitSlots, InitReboot
    <2>2. rec.pc = "idle"
      BY DEF Init, NoReconcile
    <2>3. ASSUME NEW n \in Node PROVE ContainedAt(n) /\ ~bn[n].inSlot
      <3>1. host[n].booted = 0 /\ host[n].phase = "up" /\ ~bn[n].inSlot
        BY ZenonT(60) DEF Init, NewBootcNode
      <3> QED
        BY <2>2, <3>1 DEF ContainedAt
    <2>4. Cardinality(InSlot(bn)) = 0
      <3>1. InSlot(bn) = {}
        BY <2>3 DEF InSlot
      <3> QED
        BY <3>1, FS_EmptySet
    <2>5. resolveMaxUnavailable(pool) \in Nat
      <3>1. pool \in Pool /\ pool.max.kind # "invalid"
        BY <2>1 DEF TypeOK, Pool
      <3>2. resolveMaxUnavailable(pool) # InvalidSpec
        <4>1. /\ pool.paused = FALSE /\ pool.max.kind \in {"unset", "int", "percent"}
              /\ pool.max.value \in Nat
          BY ZenonT(60), <3>1, MaxUnavailableAssumption DEF Init, Pool
        <4>2. Cardinality(Node) \in Nat
          BY NodeAssumption, FS_CardinalityType
        <4>3. (pool.max.value * Cardinality(Node) + 99) \div 100 >= 0
          <5>1. pool.max.value * Cardinality(Node) \in Nat
            BY <4>1, <4>2
          <5> QED
            BY <5>1
        <4> QED
          BY <4>1, <4>3 DEF resolveMaxUnavailable, InvalidSpec
      <3> QED
        BY <3>1, <3>2, LimitType
    <2> QED
      BY <2>1, <2>2, <2>3, <2>4, <2>5 DEF Containment
  <1>2. Inv /\ [Next]_vars => Inv'
    BY RebootInvStep
  <1>3. Inv /\ Containment /\ [Next]_vars => Containment'
    BY ContainmentStep
  <1>4. Inv /\ Containment => BadImageContained
    <2> SUFFICES ASSUME Inv, Containment PROVE BadImageContained
      OBVIOUS
    <2> DEFINE Bad == {n \in Node : host[n].booted \in BadImage}
    <2>1. Bad \subseteq InSlot(bn)
      BY DEF Containment, ContainedAt, InSlot
    <2>2. Cardinality(Bad) <= Cardinality(InSlot(bn)) /\ Cardinality(Bad) \in Nat
      BY <2>1, InSlotFinite, FS_Subset, FS_CardinalityType
    <2>3. resolveMaxUnavailable(pool) \in Int
      BY LimitType DEF TypeOK, InvalidSpec
    <2>4. Cardinality(InSlot(bn)) <= resolveMaxUnavailable(pool)
      BY DEF Containment
    <2>5. Cardinality(Bad) <= resolveMaxUnavailable(pool)
      BY <2>2, <2>3, <2>4, InSlotFinite
    <2> QED
      BY <2>5 DEF BadImageContained
  <1> QED
    BY <1>1, <1>2, <1>3, <1>4, PTL DEF Spec
=============================================================================
