------------------------------- MODULE Rollout -------------------------------
(***************************************************************************)
(* The rollout of an OS image over the nodes of one BootcNodePool:          *)
(* driveRollout of internal/controller/rollout.go, run by the pool          *)
(* reconciler after it has copied the pool's target into the BootcNodes,    *)
(* against the daemons, the hosts, the drain goroutines, the user who edits *)
(* the pool and the administrator who cordons nodes.                        *)
(*                                                                         *)
(* The reconciler is one worker.  Its pass is split where it talks to the   *)
(* API server: every action below holds at most one successful write, and   *)
(* everything else in the system may move between two of them.              *)
(*                                                                         *)
(* Scope: the nodes are members of the pool throughout, carry no startup    *)
(* taint and are not owned by a Karpenter NodeClaim, so the branches on     *)
(* karpenterOwned and on the os-not-ready annotation are never taken.  The  *)
(* pool's image is a digest reference, so the target is the digest itself.  *)
(***************************************************************************)
EXTENDS Integers, FiniteSets

CONSTANTS
    Node,            \* names of the pool's nodes, ordered as strings.Compare orders them
    LastImage,       \* images are the digests 0 .. LastImage; every host starts on 0
    NoImage,         \* "no such deployment": a nil BootInfo, no stage in flight
    BadImage,        \* images on which the kubelet never becomes Ready
    MaxUnavailable,  \* the values of spec.rollout.maxUnavailable the user may choose
    Edits,           \* the fields the user edits: a subset of {"target", "paused", "max"}
    MaxEdits,        \* bound: edits of the pool, and cordons by the administrator
    MaxFaults,       \* bound: failed calls, failed drains, lost results, crashes, power losses
    Rollback,        \* may the user return to an image that was the target before?
    PowerLoss,       \* may a host restart on its own?
    AdminActs,       \* does an administrator cordon and uncordon nodes meanwhile?
    RebootTimeout,   \* is spec.rollout.rebootTimeoutSeconds set?
    Lagging          \* do the controller's informer caches lag behind the API server?

Image == 0 .. LastImage

ASSUME NodeAssumption == Node \subseteq Nat /\ IsFiniteSet(Node)
ASSUME ImageAssumption == LastImage \in Nat /\ NoImage \notin Image /\ BadImage \subseteq Image
ASSUME MaxUnavailableAssumption ==
    /\ MaxUnavailable # {}
    /\ MaxUnavailable \subseteq [kind : {"unset", "int", "percent", "invalid"}, value : Nat]
ASSUME BoundsAssumption == MaxEdits \in Nat /\ MaxFaults \in Nat
ASSUME SwitchesAssumption ==
    /\ Rollback \in BOOLEAN /\ PowerLoss \in BOOLEAN /\ AdminActs \in BOOLEAN
    /\ RebootTimeout \in BOOLEAN /\ Lagging \in BOOLEAN

VARIABLES
    pool,    \* the BootcNodePool's spec
    bn,      \* the BootcNode of every node, as the API server holds it
    node,    \* the Kubernetes Node of every node, as the API server holds it
    cache,   \* the controller's informer caches of both (unused unless Lagging)
    rec,     \* the local variables of the reconcile in progress
    drains,  \* r.drains: what became of the drain goroutine of a node
    host,    \* the machine and its daemon
    pods,    \* is a workload running on the node?
    admin,   \* the nodes the administrator wants cordoned
    edits,   \* edits and administrator actions so far
    faults   \* faults so far

vars == <<pool, bn, node, cache, rec, drains, host, pods, admin, edits, faults>>
external == <<pool, admin, edits>>

-----------------------------------------------------------------------------
(* The objects.                                                            *)

Pool == [target : Image, paused : BOOLEAN, max : MaxUnavailable]

BootcNode == [desired     : Image,
              state       : {"Staged", "Booted"},
              inSlot      : BOOLEAN,
              wasCordoned : {"none", "false", "true"},
              booted      : Image \cup {NoImage},
              idle        : {"Idle", "Staging", "Staged", "Rebooting"},
              degraded    : BOOLEAN,
              late        : BOOLEAN]   \* Rebooting for longer than the reboot timeout

NodeObject == [cordoned : BOOLEAN, ready : BOOLEAN]

\* phase: running, told to reboot by its daemon, or down.
Host == [booted   : Image,
         staged   : Image \cup {NoImage},
         stage    : Image \cup {NoImage},   \* the image stageOp is staging
         stageErr : BOOLEAN,
         phase    : {"up", "reboot", "down"}]

NewBootcNode == [desired |-> 0, state |-> "Staged", inSlot |-> FALSE,
                 wasCordoned |-> "none", booted |-> NoImage, idle |-> "Idle",
                 degraded |-> FALSE, late |-> FALSE]

\* nodeState of rollout.go, and TimedOut for the nodes that applyRebootTimeouts
\* moves from rebooting to degraded.
nodeState == {"UpToDate", "Pending", "Staging", "Staged", "Rebooting", "Degraded", "TimedOut"}

\* resolveMaxUnavailable's invalidSpecError.
InvalidSpec == -1

\* The reconcile in progress: what it read from the pool, its working copies of
\* the BootcNodes (ownedBootcNodes), the class driveRollout gave each of them,
\* its counters, the nodes left to visit in the current loop, and the node
\* between the two writes of an assignment or of a release, if there is one,
\* with the copy of the Node that was read for it.
Reconcile == [pc       : {"idle", "sync", "collect", "free", "freed", "assign", "cordon"},
              target   : Image,
              limit    : Nat \cup {InvalidSpec},
              bn       : [Node -> BootcNode],
              class    : [Node -> nodeState],
              occupied : Int,
              slots    : Nat,
              todo     : SUBSET Node,
              cur      : SUBSET Node,
              node     : NodeObject]

NoReconcile == [pc |-> "idle", target |-> 0, limit |-> 0,
                bn |-> [n \in Node |-> NewBootcNode], class |-> [n \in Node |-> "Pending"],
                occupied |-> 0, slots |-> 0, todo |-> {}, cur |-> {},
                node |-> [cordoned |-> FALSE, ready |-> TRUE]]

TypeOK ==
    /\ pool \in Pool
    /\ bn \in [Node -> BootcNode]
    /\ node \in [Node -> NodeObject]
    /\ cache \in [bn : [Node -> BootcNode], node : [Node -> NodeObject]]
    /\ rec \in Reconcile
    /\ drains \in [Node -> {"none", "running", "ok", "failed"}]
    /\ host \in [Node -> Host]
    /\ pods \in [Node -> BOOLEAN]
    /\ admin \in SUBSET Node
    /\ edits \in 0 .. MaxEdits
    /\ faults \in 0 .. MaxFaults

\* The BootcNodes have just been created for running nodes, some of which the
\* administrator had cordoned; no daemon has reported yet.
Init ==
    /\ pool \in [target : {0}, paused : {FALSE}, max : MaxUnavailable]
    /\ bn = [n \in Node |-> NewBootcNode]
    /\ admin \in SUBSET Node
    /\ node = [n \in Node |-> [cordoned |-> n \in admin, ready |-> TRUE]]
    /\ cache = [bn |-> bn, node |-> node]
    /\ rec = NoReconcile
    /\ drains = [n \in Node |-> "none"]
    /\ host = [n \in Node |-> [booted |-> 0, staged |-> NoImage, stage |-> NoImage,
                               stageErr |-> FALSE, phase |-> "up"]]
    /\ pods = [n \in Node |-> TRUE]
    /\ edits = 0
    /\ faults = 0

\* What a Get or a List of the controller's cached client returns.
CachedBN == IF Lagging THEN cache.bn ELSE bn
CachedNode == IF Lagging THEN cache.node ELSE node

\* The caches lag by the latency of a watch.  That is long enough for any number
\* of the controller's and the daemons' steps, and shorter than a drain, the
\* staging of an image or a boot: those end when the caches have caught up.
WatchesDelivered == Lagging => cache = [bn |-> bn, node |-> node]

\* A merge patch carries the fields that differ between the copy read (old) and
\* the modified copy (new); the API server applies it to what it holds (cur).
Merged(cur, old, new) ==
    [cur EXCEPT !.desired     = IF old.desired = new.desired THEN @ ELSE new.desired,
                !.state       = IF old.state = new.state THEN @ ELSE new.state,
                !.inSlot      = IF old.inSlot = new.inSlot THEN @ ELSE new.inSlot,
                !.wasCordoned = IF old.wasCordoned = new.wasCordoned THEN @ ELSE new.wasCordoned]

\* Patch BootcNode n from the working copy to new, without an optimistic lock.
PatchBN(n, new) == bn' = [bn EXCEPT ![n] = Merged(bn[n], rec.bn[n], new)]

\* The reply, the object as it is now, replaces the working copy.
Replied(n) == [rec.bn EXCEPT ![n] = bn'[n]]

\* A patch of a Node carries the resourceVersion of the copy read and is
\* refused as a conflict when the Node has changed since.
UpToDateCopy(n, copy) == copy = node[n]

-----------------------------------------------------------------------------
(* Pure functions of rollout.go.                                           *)

classifyNode(b) ==
    IF b.degraded THEN "Degraded"
    ELSE IF b.booted = NoImage THEN "Pending"
    ELSE IF b.booted = b.desired THEN "UpToDate"
    ELSE IF b.idle = "Idle" THEN "Pending"
    ELSE b.idle

\* The class after applyRebootTimeouts.
classWithTimeout(b) ==
    IF RebootTimeout /\ classifyNode(b) = "Rebooting" /\ b.late
    THEN "TimedOut" ELSE classifyNode(b)

resolveMaxUnavailable(p) ==
    IF p.paused THEN 0
    ELSE CASE p.max.kind = "unset"   -> 1
           [] p.max.kind = "int"     -> p.max.value
           [] p.max.kind = "percent" -> (p.max.value * Cardinality(Node) + 99) \div 100
           [] p.max.kind = "invalid" -> InvalidSpec

availableSlots_unclamped(limit, occupied) == limit - occupied
availableSlots_unoccupied(limit, occupied) == limit

availableSlots(limit, occupied) ==
    IF limit > occupied THEN limit - occupied ELSE 0

unhealthySlotHaltThreshold_3 == 3

unhealthySlotHaltThreshold == 2

nodeReadyStatus_ignored(nd) == TRUE

nodeReadyStatus(nd) == nd.ready

\* The nodes still in a slot although they run the target (degraded, or not
\* Ready: the Ready ones have just been freed), or that never came back.
findUnhealthySlots ==
    {n \in Node :
        /\ rec.bn[n].inSlot
        /\ \/ rec.class[n] \in {"UpToDate", "TimedOut"}
           \/ rec.class[n] = "Degraded" /\ rec.bn[n].booted \in {NoImage, rec.target}}

\* Staged nodes by slot, in the order in which they are processed: the slotted
\* ones first, each group by name.
before(m, n) ==
    \/ rec.bn[m].inSlot /\ ~rec.bn[n].inSlot
    \/ rec.bn[m].inSlot = rec.bn[n].inSlot /\ m < n

-----------------------------------------------------------------------------
(* The pool reconciler.                                                    *)

Abort == rec' = NoReconcile

\* Reconcile reads the pool and lists the BootcNodes.  Events, requeues and
\* resyncs may start a pass at any time.
StartReconcile ==
    /\ rec.pc = "idle"
    /\ rec' = [NoReconcile EXCEPT
                  !.pc = "sync",
                  !.target = pool.target,
                  !.limit = resolveMaxUnavailable(pool),
                  !.bn = CachedBN,
                  !.todo = {n \in Node : CachedBN[n].desired # pool.target}]
    /\ UNCHANGED <<external, bn, node, cache, drains, host, pods, faults>>

SyncedSpec_keepsApproval(b, target) == [b EXCEPT !.desired = target]

\* A new desired image revokes the approval to reboot.
SyncedSpec(b, target) == [b EXCEPT !.desired = target, !.state = "Staged"]

syncBootcNodeSpec(n) ==
    /\ rec.pc = "sync"
    /\ n \in rec.todo
    /\ PatchBN(n, SyncedSpec(rec.bn[n], rec.target))
    /\ rec' = [rec EXCEPT !.bn = Replied(n), !.todo = @ \ {n}]
    /\ UNCHANGED <<external, node, cache, drains, host, pods, faults>>

HasResult_early(n) == drains[n] # "none"

\* The goroutine has sent its result.
HasResult(n) == drains[n] \in {"ok", "failed"}

\* The drains that have a result by now are collected, in any order.
StartCollect ==
    /\ rec.pc = "sync"
    /\ rec.todo = {}
    /\ rec' = [rec EXCEPT !.pc = "collect",
                          !.todo = {n \in Node : HasResult(n)}]
    /\ UNCHANGED <<external, bn, node, cache, drains, host, pods, faults>>

Approved(b) == [b EXCEPT !.state = "Booted"]

\* A successful drain approves the reboot; a failed one is forgotten, and
\* ensureDrain starts it again.
collectDrainResults(n) ==
    /\ rec.pc = "collect"
    /\ n \in rec.todo
    /\ drains' = [drains EXCEPT ![n] = "none"]
    /\ IF drains[n] # "failed"
       THEN /\ PatchBN(n, Approved(rec.bn[n]))
            /\ rec' = [rec EXCEPT !.bn = Replied(n), !.todo = @ \ {n}]
       ELSE /\ bn' = bn
            /\ rec' = [rec EXCEPT !.todo = @ \ {n}]
    /\ UNCHANGED <<external, node, cache, host, pods, faults>>

\* The patch fails after the result has been taken from the channel.
collectFails(n) ==
    /\ rec.pc = "collect"
    /\ n \in rec.todo
    /\ drains[n] = "ok"
    /\ faults < MaxFaults
    /\ faults' = faults + 1
    /\ drains' = [drains EXCEPT ![n] = "none"]
    /\ Abort
    /\ UNCHANGED <<external, bn, node, cache, host, pods>>

\* r.drains is shared by all pools: while no pass of this pool is under way, the
\* pass of another one takes the result of a node that is not its own and drops it.
otherPoolCollects(n) ==
    /\ rec.pc = "idle"
    /\ HasResult(n)
    /\ faults < MaxFaults
    /\ faults' = faults + 1
    /\ drains' = [drains EXCEPT ![n] = "none"]
    /\ Abort
    /\ UNCHANGED <<external, bn, node, cache, host, pods>>

InSlot(f) == {n \in Node : f[n].inSlot}

\* Classify the working copies, time out reboots and count the slots taken.
buildRolloutState ==
    /\ rec.pc = "collect"
    /\ rec.todo = {}
    /\ rec' = [rec EXCEPT
                  !.pc = "free",
                  !.class = [n \in Node |-> classWithTimeout(rec.bn[n])],
                  !.occupied = Cardinality(InSlot(rec.bn)),
                  !.todo = {n \in InSlot(rec.bn) : classWithTimeout(rec.bn[n]) = "UpToDate"}]
    /\ UNCHANGED <<external, bn, node, cache, drains, host, pods, faults>>

\* What restoreNodeState makes of a Node: uncordoned if the operator cordoned it.
Restored(b, nd) == IF b.wasCordoned = "false" THEN [nd EXCEPT !.cordoned = FALSE] ELSE nd

\* freeCompletedSlot up to the patch of the Node: a node that runs the target
\* keeps its slot until it is Ready.
freeCompletedSlot(n) ==
    /\ rec.pc = "free"
    /\ n \in rec.todo
    /\ \/ /\ ~nodeReadyStatus(CachedNode[n])
          /\ rec' = [rec EXCEPT !.todo = @ \ {n}]
          /\ node' = node
       \/ /\ nodeReadyStatus(CachedNode[n])
          /\ rec.bn[n].wasCordoned = "false" => UpToDateCopy(n, CachedNode[n])
          /\ node' = [node EXCEPT ![n] = Restored(rec.bn[n], node[n])]
          /\ rec' = [rec EXCEPT !.pc = "freed", !.cur = {n}]
       \/ /\ nodeReadyStatus(CachedNode[n])
          /\ rec.bn[n].wasCordoned = "false" /\ ~UpToDateCopy(n, CachedNode[n])
          /\ node' = node
          /\ Abort
    /\ UNCHANGED <<external, bn, cache, drains, host, pods, faults>>

Unslotted_keepsSlot(b) == [b EXCEPT !.wasCordoned = "none"]

Unslotted(b) == [b EXCEPT !.inSlot = FALSE, !.wasCordoned = "none"]

\* freeRebootSlot's second write: the slot annotations go.
freeRebootSlot(n) ==
    /\ rec.pc = "freed"
    /\ n \in rec.cur
    /\ PatchBN(n, Unslotted(rec.bn[n]))
    /\ rec' = [rec EXCEPT !.pc = "free", !.bn = Replied(n), !.todo = @ \ {n}, !.cur = {},
                          !.occupied = @ - 1]
    /\ UNCHANGED <<external, node, cache, drains, host, pods, faults>>

\* Two unhealthy nodes in slots halt the rollout; a malformed maxUnavailable
\* ends the pass too.
HaltRollout ==
    /\ rec.pc = "free"
    /\ rec.todo = {}
    /\ \/ Cardinality(findUnhealthySlots) >= unhealthySlotHaltThreshold
       \/ rec.limit = InvalidSpec
    /\ Abort
    /\ UNCHANGED <<external, bn, node, cache, drains, host, pods, faults>>

StartAssign ==
    /\ rec.pc = "free"
    /\ rec.todo = {}
    /\ Cardinality(findUnhealthySlots) < unhealthySlotHaltThreshold
    /\ rec.limit # InvalidSpec
    /\ rec' = [rec EXCEPT !.pc = "assign",
                          !.slots = availableSlots(rec.limit, rec.occupied),
                          !.todo = {n \in Node : rec.class[n] = "Staged"}]
    /\ UNCHANGED <<external, bn, node, cache, drains, host, pods, faults>>

\* Slotted nodes are processed whatever the capacity, others while it lasts.
Candidate(n) ==
    /\ n \in rec.todo
    /\ \A m \in rec.todo \ {n} : before(n, m)
    /\ rec.bn[n].inSlot \/ rec.slots > 0

Slotted_everyTime(b, nd) ==
    [b EXCEPT !.inSlot = TRUE, !.wasCordoned = IF nd.cordoned THEN "true" ELSE "false"]

NoCandidate == \A n \in rec.todo : ~rec.bn[n].inSlot /\ rec.slots = 0

\* The annotations assignRebootSlot wants: the cordon found is recorded on the
\* first assignment only.
Slotted(b, nd) ==
    IF b.inSlot THEN b
    ELSE [b EXCEPT !.inSlot = TRUE, !.wasCordoned = IF nd.cordoned THEN "true" ELSE "false"]

\* processCandidate and assignRebootSlot up to the patch of the BootcNode.
assignRebootSlot(n) ==
    /\ rec.pc = "assign"
    /\ Candidate(n)
    /\ LET new == Slotted(rec.bn[n], CachedNode[n])
       IN  IF new = rec.bn[n] THEN bn' = bn ELSE PatchBN(n, new)
    /\ rec' = [rec EXCEPT !.pc = "cordon", !.cur = {n}, !.node = CachedNode[n],
                          !.bn = IF Slotted(@[n], CachedNode[n]) = @[n] THEN @ ELSE Replied(n),
                          !.slots = IF rec.bn[n].inSlot THEN @ ELSE @ - 1]
    /\ UNCHANGED <<external, node, cache, drains, host, pods, faults>>

\* assignRebootSlot's patch of the Node, skipped when it was found cordoned.
cordonNode(n) ==
    /\ rec.pc = "cordon"
    /\ n \in rec.cur
    /\ \/ /\ rec.node.cordoned
          /\ node' = node
          /\ rec' = [rec EXCEPT !.pc = "assign", !.todo = @ \ {n}, !.cur = {}]
       \/ /\ ~rec.node.cordoned
          /\ UpToDateCopy(n, rec.node)
          /\ node' = [node EXCEPT ![n] = [@ EXCEPT !.cordoned = TRUE]]
          /\ rec' = [rec EXCEPT !.pc = "assign", !.todo = @ \ {n}, !.cur = {}]
       \/ /\ ~rec.node.cordoned
          /\ ~UpToDateCopy(n, rec.node)
          /\ node' = node
          /\ Abort
    /\ UNCHANGED <<external, bn, cache, drains, host, pods, faults>>

NeedsDrain_anywhere(n) == rec.class[n] = "Staged" /\ rec.bn[n].state # "Booted"

NeedsDrain(n) ==
    /\ rec.class[n] = "Staged"
    /\ rec.bn[n].inSlot
    /\ rec.bn[n].state # "Booted"

\* Every slotted Staged node that is not approved has a drain; the pass ends.
ensureDrain ==
    /\ rec.pc = "assign"
    /\ NoCandidate
    /\ drains' = [n \in Node |->
                     IF NeedsDrain(n) /\ drains[n] = "none" THEN "running" ELSE drains[n]]
    /\ Abort
    /\ UNCHANGED <<external, bn, node, cache, host, pods, faults>>

\* Any other write is refused, or lost to a conflict: the pass ends with an
\* error and the pool is queued again.
ApiError ==
    /\ \/ rec.pc = "sync" /\ rec.todo # {}
       \/ rec.pc = "free" /\ \E n \in rec.todo : nodeReadyStatus(CachedNode[n])
       \/ rec.pc = "freed"
       \/ rec.pc = "assign" /\ \E n \in Node : Candidate(n) /\ ~rec.bn[n].inSlot
       \/ rec.pc = "cordon" /\ ~rec.node.cordoned
    /\ faults < MaxFaults
    /\ faults' = faults + 1
    /\ Abort
    /\ UNCHANGED <<external, bn, node, cache, drains, host, pods>>

\* The controller restarts: the pass and the drain goroutines are lost.
ControllerCrash ==
    /\ faults < MaxFaults
    /\ faults' = faults + 1
    /\ Abort
    /\ drains' = [n \in Node |-> "none"]
    /\ UNCHANGED <<external, bn, node, cache, host, pods>>

-----------------------------------------------------------------------------
(* Drain goroutines, the daemon and its host.                              *)

\* RunNodeDrain returns: the pods were evicted, or it gave up.
DrainFinishes(n) ==
    /\ drains[n] = "running"
    /\ WatchesDelivered
    /\ \/ /\ drains' = [drains EXCEPT ![n] = "ok"]
          /\ pods' = [pods EXCEPT ![n] = FALSE]
          /\ faults' = faults
       \/ /\ faults < MaxFaults
          /\ faults' = faults + 1
          /\ drains' = [drains EXCEPT ![n] = "failed"]
          /\ pods' = pods
    /\ UNCHANGED <<external, bn, node, cache, rec, host>>

\* The scheduler places a pod on a node that is not cordoned.
SchedulePod(n) ==
    /\ ~node[n].cordoned
    /\ ~pods[n]
    /\ pods' = [pods EXCEPT ![n] = TRUE]
    /\ UNCHANGED <<external, bn, node, cache, rec, drains, host, faults>>

\* One report of the daemon: what runs, and what it is doing about it.
Report(n, idle, degraded) ==
    bn' = [bn EXCEPT ![n] = [@ EXCEPT !.booted = host[n].booted, !.idle = idle,
                                      !.degraded = degraded, !.late = FALSE]]

\* classifyAction on what the host has staged, with the outcome of the last
\* stage taken first.
updateAction(n) ==
    IF host[n].booted = bn[n].desired THEN "none"
    ELSE IF host[n].stageErr THEN "stageFailed"
    ELSE IF host[n].staged # bn[n].desired
         THEN IF host[n].stage = bn[n].desired THEN "awaitStage" ELSE "stage"
    ELSE IF bn[n].state # "Booted" THEN "awaitBooted" ELSE "reboot"

DaemonReconcile(n) ==
    /\ host[n].phase = "up"
    /\ \/ /\ updateAction(n) = "none"
          /\ Report(n, "Idle", FALSE)
          /\ host' = host
       \/ /\ updateAction(n) = "stageFailed"
          /\ Report(n, "Idle", TRUE)
          /\ host' = [host EXCEPT ![n] = [@ EXCEPT !.stageErr = FALSE]]
       \/ /\ updateAction(n) = "stage"
          /\ Report(n, "Staging", FALSE)
          /\ host' = [host EXCEPT ![n] = [@ EXCEPT !.stage = bn[n].desired]]
       \/ /\ updateAction(n) = "awaitStage"
          /\ Report(n, "Staging", FALSE)
          /\ host' = host
       \/ /\ updateAction(n) = "awaitBooted"
          /\ Report(n, "Staged", FALSE)
          /\ host' = host
       \/ /\ updateAction(n) = "reboot"
          /\ Report(n, "Rebooting", FALSE)
          /\ host' = [host EXCEPT ![n] = [@ EXCEPT !.phase = "reboot"]]
    /\ UNCHANGED <<external, node, cache, rec, drains, pods, faults>>

\* bootc switch ends.
StageFinishes(n) ==
    /\ host[n].stage # NoImage
    /\ WatchesDelivered
    /\ host[n].phase # "down"
    /\ \/ /\ host' = [host EXCEPT ![n] = [@ EXCEPT !.staged = host[n].stage, !.stage = NoImage]]
          /\ faults' = faults
       \/ /\ faults < MaxFaults
          /\ faults' = faults + 1
          /\ host' = [host EXCEPT ![n] = [@ EXCEPT !.stageErr = TRUE, !.stage = NoImage]]
    /\ UNCHANGED <<external, bn, node, cache, rec, drains, pods>>

\* Executor.Reboot, after the Rebooting condition was written.
Reboot(n) ==
    /\ host[n].phase = "reboot"
    /\ \/ /\ host' = [host EXCEPT ![n] = [@ EXCEPT !.phase = "down"]]
          /\ node' = [node EXCEPT ![n] = [@ EXCEPT !.ready = FALSE]]
          /\ faults' = faults
       \/ /\ faults < MaxFaults
          /\ faults' = faults + 1
          /\ host' = [host EXCEPT ![n] = [@ EXCEPT !.phase = "up"]]
          /\ node' = node
    /\ UNCHANGED <<external, bn, cache, rec, drains, pods>>

HostLosesPower(n) ==
    /\ PowerLoss
    /\ host[n].phase = "up"
    /\ faults < MaxFaults
    /\ faults' = faults + 1
    /\ host' = [host EXCEPT ![n] = [@ EXCEPT !.phase = "down"]]
    /\ node' = [node EXCEPT ![n] = [@ EXCEPT !.ready = FALSE]]
    /\ UNCHANGED <<external, bn, cache, rec, drains, pods>>

\* The staged deployment, if there is one, is what boots.
HostBoots(n) ==
    /\ host[n].phase = "down"
    /\ WatchesDelivered
    /\ host' = [host EXCEPT ![n] =
                  [booted   |-> IF host[n].staged = NoImage THEN host[n].booted ELSE host[n].staged,
                   staged   |-> NoImage, stage |-> NoImage, stageErr |-> FALSE, phase |-> "up"]]
    /\ UNCHANGED <<external, bn, node, cache, rec, drains, pods, faults>>

KubeletReady(n) ==
    /\ host[n].phase = "up"
    /\ host[n].booted \notin BadImage
    /\ ~node[n].ready
    /\ node' = [node EXCEPT ![n] = [@ EXCEPT !.ready = TRUE]]
    /\ UNCHANGED <<external, bn, cache, rec, drains, host, pods, faults>>

\* The Rebooting condition gets older than the reboot timeout.
RebootOverdue(n) ==
    /\ RebootTimeout
    /\ bn[n].idle = "Rebooting"
    /\ ~bn[n].late
    /\ bn' = [bn EXCEPT ![n] = [@ EXCEPT !.late = TRUE]]
    /\ UNCHANGED <<external, node, cache, rec, drains, host, pods, faults>>

\* The watches bring the caches up to date.
SyncBootcNodeCache(n) ==
    /\ Lagging
    /\ cache' = [cache EXCEPT !.bn = [@ EXCEPT ![n] = bn[n]]]
    /\ UNCHANGED <<external, bn, node, rec, drains, host, pods, faults>>

SyncNodeCache(n) ==
    /\ Lagging
    /\ cache' = [cache EXCEPT !.node = [@ EXCEPT ![n] = node[n]]]
    /\ UNCHANGED <<external, bn, node, rec, drains, host, pods, faults>>

-----------------------------------------------------------------------------
(* The user and the administrator.                                         *)

EditPool ==
    /\ edits < MaxEdits
    /\ edits' = edits + 1
    /\ \/ /\ "target" \in Edits
          /\ \E i \in Image \ {pool.target} :
                /\ Rollback \/ i > pool.target
                /\ pool' = [pool EXCEPT !.target = i]
       \/ /\ "paused" \in Edits
          /\ pool' = [pool EXCEPT !.paused = ~@]
       \/ /\ "max" \in Edits
          /\ \E m \in MaxUnavailable \ {pool.max} : pool' = [pool EXCEPT !.max = m]
    /\ UNCHANGED <<admin, bn, node, cache, rec, drains, host, pods, faults>>

\* kubectl cordon and uncordon change nothing when the node is as wanted.
AdminCordons(n) ==
    /\ AdminActs
    /\ edits < MaxEdits
    /\ edits' = edits + 1
    /\ node' = [node EXCEPT ![n] = [@ EXCEPT !.cordoned = ~node[n].cordoned]]
    /\ admin' = IF node[n].cordoned THEN admin \ {n} ELSE admin \cup {n}
    /\ UNCHANGED <<pool, bn, cache, rec, drains, host, pods, faults>>

-----------------------------------------------------------------------------

Controller ==
    \/ StartReconcile \/ StartCollect \/ buildRolloutState \/ HaltRollout \/ StartAssign
    \/ ensureDrain
    \/ \E n \in Node :
          \/ syncBootcNodeSpec(n) \/ collectDrainResults(n) \/ freeCompletedSlot(n)
          \/ freeRebootSlot(n) \/ assignRebootSlot(n) \/ cordonNode(n)

Machine(n) ==
    \/ DrainFinishes(n) \/ DaemonReconcile(n) \/ StageFinishes(n) \/ Reboot(n)
    \/ HostBoots(n) \/ KubeletReady(n)

Disturbance ==
    \/ ApiError \/ ControllerCrash \/ EditPool
    \/ \E n \in Node :
          \/ collectFails(n) \/ otherPoolCollects(n) \/ SchedulePod(n)
          \/ HostLosesPower(n) \/ RebootOverdue(n) \/ SyncBootcNodeCache(n)
          \/ SyncNodeCache(n) \/ AdminCordons(n)

Next == Controller \/ Disturbance \/ \E n \in Node : Machine(n)

Spec == Init /\ [][Next]_vars

-----------------------------------------------------------------------------
(* Fairness.  The worker keeps reconciling: every change it waits for (a    *)
(* BootcNode's status, a Node's readiness, the end of a drain, an error)    *)
(* queues the pool.  Daemons, drains and machines finish what they started. *)
(* Users, administrators, schedulers and faults owe nothing.                *)

Fairness ==
    /\ WF_vars(Controller)
    /\ \A n \in Node :
          /\ WF_vars(DrainFinishes(n)) /\ WF_vars(DaemonReconcile(n))
          /\ WF_vars(StageFinishes(n)) /\ WF_vars(Reboot(n))
          /\ WF_vars(HostBoots(n)) /\ WF_vars(KubeletReady(n))
          /\ WF_vars(SyncBootcNodeCache(n)) /\ WF_vars(SyncNodeCache(n))

FairSpec == Spec /\ Fairness

-----------------------------------------------------------------------------
(* Properties.                                                             *)

\* A daemon reboots its host only while the node holds a reboot slot, is
\* cordoned and has been drained: the approval given in collectDrainResults is
\* never used outside the slot it was given for, nor after the target it was
\* given for was replaced and the slot released.
SafeReboot ==
    \A n \in Node : host[n].phase = "reboot" => bn[n].inSlot /\ node[n].cordoned /\ ~pods[n]

NewSlots == InSlot(bn') \ InSlot(bn)

\* assignRebootSlot never brings the number of slots in use above the
\* maxUnavailable its pass started from, although the pass counted the slots
\* before it released some and assigned others.
SlotsWithinLimit ==
    [][NewSlots # {} => Cardinality(InSlot(bn')) <= rec.limit]_vars

\* Pods are evicted only from nodes in a slot: no drain goroutine outlives the
\* slot that ensureDrain started it for.
DrainInSlot ==
    \A n \in Node : drains[n] = "running" => bn[n].inSlot

\* Between passes a node without a slot is cordoned exactly if the administrator
\* cordoned it: assignRebootSlot and restoreNodeState, interrupted anywhere and
\* retried, leave the cordon as it was found.
CordonRestored ==
    \A n \in Node : rec.pc = "idle" /\ ~bn[n].inSlot => (node[n].cordoned <=> n \in admin)

\* An approval that the daemon has not used yet belongs to a node in a slot.
ApprovalInSlot ==
    \A n \in Node :
        bn[n].state = "Booted" /\ host[n].booted # bn[n].desired => bn[n].inSlot

\* The cordon recorded when a node entered its slot is kept until it leaves the
\* slot: assignRebootSlot "must not overwrite the original recorded value".
CordonRecordKept ==
    [][\A n \in Node : bn[n].inSlot /\ bn'[n].inSlot =>
                          bn'[n].wasCordoned = bn[n].wasCordoned]_vars

\* An image on which nodes never become Ready reaches at most maxUnavailable
\* hosts: freeCompletedSlot holds the slot of every node it took down.
BadImageContained ==
    Cardinality({n \in Node : host[n].booted \in BadImage}) <= resolveMaxUnavailable(pool)

\* No slot is assigned in a pass that sees two nodes in slots which run the
\* target and are not Ready.
HaltHolds ==
    [][NewSlots # {} =>
         Cardinality({m \in Node : /\ rec.bn[m].inSlot
                                   /\ rec.bn[m].booted = rec.target
                                   /\ ~node[m].ready}) < 2]_vars

\* Once the user stops editing, every host runs the target and every node is out
\* of its slot for good, unless the pool was left paused, without capacity or
\* malformed: failed drains, stages, reboots and writes are all retried, and no
\* slot is held for ever.
RolloutCompletes ==
    \/ []<>(resolveMaxUnavailable(pool) <= 0)
    \/ <>[](\A n \in Node : host[n].booted = pool.target /\ ~bn[n].inSlot)

\* A node as module RebootSlots sees it, from its BootcNode and its host.
LifeOf(b, h) ==
    IF h.phase # "up" THEN "down"
    ELSE IF ~b.inSlot THEN "serving"
    ELSE IF b.state = "Booted" /\ h.booted # b.desired THEN "cleared"
    ELSE "held"

Slots == INSTANCE RebootSlots WITH
            life <- [n \in Node |-> LifeOf(bn[n], host[n])], work <- pods, limit <- rec.limit

\* The pass, its drains and the daemons implement RebootSlots: each of their steps
\* is one step of that specification, or none.
KeepsPromise == Slots!Spec

-----------------------------------------------------------------------------
(* The inductive invariants behind the safety properties, in three layers.  *)

\* The fields of a BootcNode that only the controller writes.
Agree(b, c) ==
    /\ b.desired = c.desired
    /\ b.state = c.state
    /\ b.inSlot = c.inSlot
    /\ b.wasCordoned = c.wasCordoned

\* With fresh caches the working copies of a pass agree with the API server on
\* the fields that only the controller writes.
WorkingCopies == rec.pc # "idle" => \A n \in Node : Agree(rec.bn[n], bn[n])

\* The counters of a pass against the slots in use.
SlotCount ==
    /\ rec.pc \notin {"freed", "cordon"} => rec.cur = {}
    /\ rec.pc \in {"free", "freed"} =>
          /\ rec.occupied = Cardinality(InSlot(bn))
          /\ rec.cur \subseteq rec.todo
          /\ \A n \in rec.todo : bn[n].inSlot
    /\ rec.pc \in {"assign", "cordon"} /\ rec.slots > 0 =>
          Cardinality(InSlot(bn)) + rec.slots <= rec.limit

\* The recorded cordon and the cordon itself against the administrator's wish.
CordonAccount ==
    \A n \in Node :
        /\ n \in admin => node[n].cordoned
        /\ ~bn[n].inSlot => (node[n].cordoned <=> n \in admin)
        /\ bn[n].inSlot => bn[n].wasCordoned = (IF n \in admin THEN "true" ELSE "false")
        /\ rec.pc = "freed" /\ n \in rec.cur => (node[n].cordoned <=> n \in admin)
        /\ rec.pc = "cordon" /\ n \in rec.cur => bn[n].inSlot

\* The node is out of service: nothing that a reboot could disturb.
OutOfService(n) == bn[n].inSlot /\ node[n].cordoned /\ ~pods[n]

\* Images only move forward: from what runs, through what is staged or being
\* staged, to what is desired and to the target of the pass and of the pool.
ForwardAt(n) ==
    /\ host[n].booted <= bn[n].desired
    /\ bn[n].desired <= pool.target
    /\ rec.pc # "idle" => bn[n].desired <= rec.target
    /\ host[n].staged # NoImage => /\ host[n].booted < host[n].staged
                                   /\ host[n].staged <= bn[n].desired
    /\ host[n].stage # NoImage => /\ host[n].booted < host[n].stage
                                  /\ host[n].stage <= bn[n].desired
    /\ bn[n].booted # NoImage => bn[n].booted <= host[n].booted
    /\ rec.pc # "idle" /\ rec.bn[n].booted # NoImage => rec.bn[n].booted <= host[n].booted

ImagesForward ==
    /\ rec.pc # "idle" => rec.target <= pool.target
    /\ \A n \in Node : ForwardAt(n)

\* Every stage of an update that leads to a reboot, or that the reboot relies
\* on, keeps the node out of service.
StagesAt(n) ==
    /\ bn[n].state = "Booted" /\ host[n].booted # bn[n].desired => OutOfService(n)
    /\ host[n].phase # "up" => /\ OutOfService(n)
                               /\ host[n].booted # bn[n].desired
                               /\ bn[n].idle = "Rebooting"
    /\ drains[n] # "none" => /\ bn[n].inSlot /\ node[n].cordoned
                             /\ bn[n].state = "Staged"
                             /\ host[n].phase = "up"
                             /\ host[n].booted # bn[n].desired
    /\ drains[n] = "ok" => ~pods[n]
    /\ bn[n].idle # "Rebooting" => bn[n].booted \in {NoImage, host[n].booted}

UpdateStages == \A n \in Node : StagesAt(n)

\* What a pass concluded from its working copies still holds when it acts on it.
ConclusionsAt(n) ==
    /\ rec.pc # "idle" /\ rec.bn[n].idle = "Staged" /\ bn[n].state = "Staged" =>
          host[n].phase = "up" /\ rec.bn[n].booted \in {NoImage, host[n].booted}
    /\ rec.pc = "collect" /\ n \in rec.todo => drains[n] \in {"ok", "failed"}
    /\ rec.pc \in {"free", "freed"} /\ n \in rec.todo \cup rec.cur =>
          rec.bn[n].booted = bn[n].desired
    /\ /\ rec.pc \in {"free", "freed", "assign", "cordon"}
       /\ rec.class[n] = "Staged" /\ bn[n].state = "Staged"
       => host[n].phase = "up" /\ host[n].booted # bn[n].desired
    /\ /\ rec.pc \in {"assign", "cordon"}
       /\ rec.class[n] = "Staged" /\ bn[n].inSlot /\ n \notin rec.todo
       => node[n].cordoned
    /\ rec.pc = "cordon" /\ n \in rec.cur /\ rec.node.cordoned => node[n].cordoned

PassConclusions == \A n \in Node : ConclusionsAt(n)

\* With fresh caches, images that only move forward, no power loss and no
\* administrator at work, a host reboots only out of service.
RebootInv == WorkingCopies /\ ImagesForward /\ UpdateStages /\ PassConclusions
=============================================================================
