----------------------------- MODULE Membership -----------------------------
(***************************************************************************)
(* Which pool manages a node: the head of the pool reconciler's Reconcile,  *)
(* handlePoolDeletion, syncMembership, createBootcNode, ensureManagedLabel, *)
(* removeBootcNode and the removal of the startup taint, with the watches   *)
(* that queue pools (internal/controller/bootcnodepool_controller.go).      *)
(*                                                                         *)
(* One worker reconciles the pools in turn.  Its pass is split at every     *)
(* write; the user, the daemons and the informers move in between.          *)
(*                                                                         *)
(* Scope: the pools' images are digest references, so no timer queues a     *)
(* pool; nodes are Ready; the rollout of the image (module Rollout) is one  *)
(* step of the host, and the cordon and the Karpenter annotations that      *)
(* restoreNodeState removes are left out.                                   *)
(***************************************************************************)
EXTENDS Naturals, FiniteSets

CONSTANTS
    Pool,        \* names of BootcNodePools
    NoPool,      \* no owner: the node has no BootcNode
    Node,        \* names of nodes
    Tainted,     \* do nodes register with the os-not-ready taint?
    Replaced,    \* may a node that was deleted be registered again?
    Lagging,     \* may a pass begin before the informers have seen the latest writes?
    Faults,      \* the calls that may fail
    MaxChanges,  \* bound: changes by the user and the infrastructure
    MaxFaults    \* bound: failed calls

ASSUME MembershipAssumption ==
    /\ NoPool \notin Pool
    /\ Tainted \in BOOLEAN /\ Replaced \in BOOLEAN /\ Lagging \in BOOLEAN
    /\ Faults \subseteq {"finalizer", "create", "node", "delete", "own"}
    /\ MaxChanges \in Nat /\ MaxFaults \in Nat

VARIABLES
    pool,      \* the life of every pool; a finalizer holds it while "live" or "deleting"
    conflict,  \* the pools its NodeConflict condition names
    node,      \* the Node objects
    image,     \* the pool whose image the host runs
    bn,        \* the BootcNodes
    nodeSeen,  \* the informer's cache of the Nodes
    bnSeen,    \* the informer's cache of the BootcNodes
    queue,     \* the queued pools
    rec,       \* the local variables of the reconcile in progress
    changes,   \* changes so far
    faults     \* faults so far

vars == <<pool, conflict, node, image, bn, nodeSeen, bnSeen, queue, rec, changes, faults>>

-----------------------------------------------------------------------------

\* labels: the pools whose nodeSelector the node's labels match.
NodeObject == [phase : {"absent", "present", "terminating"}, labels : SUBSET Pool,
               managed : BOOLEAN, taint : BOOLEAN]
NoNode == [phase |-> "absent", labels |-> {}, managed |-> FALSE, taint |-> FALSE]

\* upToDate: the daemon reported the desired image as booted.
BootcNode == [owner : Pool \cup {NoPool}, upToDate : BOOLEAN, ownsTaint : BOOLEAN]
NoBN == [owner |-> NoPool, upToDate |-> FALSE, ownsTaint |-> FALSE]

\* The pass: the Nodes and BootcNodes it listed, the nodes left to visit in the
\* current loop, the node between two writes, and the conflicts found.
NoRec == [pc |-> "idle", pool |-> NoPool, deleting |-> FALSE, node |-> [n \in Node |-> NoNode],
          bn |-> [n \in Node |-> NoBN], todo |-> {}, cur |-> {}, conflict |-> {}]

TypeOK ==
    /\ pool \in [Pool -> {"unborn", "new", "live", "deleting", "gone"}]
    /\ conflict \in [Pool -> SUBSET Pool]
    /\ node \in [Node -> NodeObject] /\ nodeSeen \in [Node -> NodeObject]
    /\ image \in [Node -> Pool \cup {NoPool}]
    /\ bn \in [Node -> BootcNode] /\ bnSeen \in [Node -> BootcNode]
    /\ queue \subseteq Pool
    /\ rec \in [pc : {"idle", "sync", "label", "remove", "delete", "taint", "own"},
                pool : Pool \cup {NoPool}, deleting : BOOLEAN,
                node : [Node -> NodeObject], bn : [Node -> BootcNode],
                todo : SUBSET Node, cur : SUBSET Node, conflict : SUBSET Pool]
    /\ changes \in 0 .. MaxChanges /\ faults \in 0 .. MaxFaults

Registered(L) == [phase |-> "present", labels |-> L, managed |-> FALSE, taint |-> Tainted]

\* A cluster without pools, its nodes labelled at will.
Init ==
    /\ pool = [p \in Pool |-> "unborn"]
    /\ conflict = [p \in Pool |-> {}]
    /\ node \in [Node -> {Registered(L) : L \in SUBSET Pool}] /\ nodeSeen = node
    /\ image \in [Node -> Pool \cup {NoPool}]
    /\ bn = [n \in Node |-> NoBN] /\ bnSeen = bn
    /\ queue = {} /\ rec = NoRec
    /\ changes = 0 /\ faults = 0

-----------------------------------------------------------------------------
(* The user and the infrastructure.                                        *)

Change == changes < MaxChanges /\ changes' = changes + 1

CreatePool(p) ==
    /\ pool[p] = "unborn" /\ Change
    /\ pool' = [pool EXCEPT ![p] = "new"]
    /\ queue' = queue \cup {p}
    /\ UNCHANGED <<conflict, node, image, bn, nodeSeen, bnSeen, rec, faults>>

\* Without the finalizer the pool is gone at once.
DeletePool(p) ==
    /\ pool[p] \in {"new", "live"} /\ Change
    /\ pool' = [pool EXCEPT ![p] = IF @ = "new" THEN "gone" ELSE "deleting"]
    /\ queue' = queue \cup {p}
    /\ UNCHANGED <<conflict, node, image, bn, nodeSeen, bnSeen, rec, faults>>

Relabel(n) ==
    /\ node[n].phase # "absent" /\ Change
    /\ \E L \in SUBSET Pool \ {node[n].labels} : node' = [node EXCEPT ![n].labels = L]
    /\ UNCHANGED <<pool, conflict, image, bn, nodeSeen, bnSeen, queue, rec, faults>>

DeleteNode(n) ==
    /\ node[n].phase = "present" /\ Change
    /\ node' = [node EXCEPT ![n].phase = "terminating"]
    /\ UNCHANGED <<pool, conflict, image, bn, nodeSeen, bnSeen, queue, rec, faults>>

NodeGone(n) ==
    /\ node[n].phase = "terminating"
    /\ node' = [node EXCEPT ![n] = NoNode]
    /\ UNCHANGED <<pool, conflict, image, bn, nodeSeen, bnSeen, queue, rec, changes, faults>>

\* A machine registers under the name of one that was deleted.
RegisterNode(n) ==
    /\ Replaced /\ node[n].phase = "absent" /\ Change
    /\ \E L \in SUBSET Pool : node' = [node EXCEPT ![n] = Registered(L)]
    /\ \E p \in Pool \cup {NoPool} : image' = [image EXCEPT ![n] = p]
    /\ UNCHANGED <<pool, conflict, bn, nodeSeen, bnSeen, queue, rec, faults>>

\* The garbage collector removes the BootcNodes of a pool that is gone.
CollectGarbage(n) ==
    /\ bn[n].owner # NoPool /\ pool[bn[n].owner] = "gone"
    /\ bn' = [bn EXCEPT ![n] = NoBN]
    /\ UNCHANGED <<pool, conflict, node, image, nodeSeen, bnSeen, queue, rec, changes, faults>>

\* The daemon, which runs on managed nodes, reports what is booted.
Report(n) ==
    /\ node[n].phase # "absent" /\ node[n].managed /\ bn[n].owner # NoPool
    /\ bn[n].upToDate # (image[n] = bn[n].owner)
    /\ bn' = [bn EXCEPT ![n].upToDate = ~@]
    /\ UNCHANGED <<pool, conflict, node, image, nodeSeen, bnSeen, queue, rec, changes, faults>>

\* The rollout brings the host to the pool's image.
Update(n) ==
    /\ node[n].phase # "absent" /\ node[n].managed /\ bn[n].owner # NoPool
    /\ image[n] # bn[n].owner
    /\ image' = [image EXCEPT ![n] = bn[n].owner]
    /\ UNCHANGED <<pool, conflict, node, bn, nodeSeen, bnSeen, queue, rec, changes, faults>>

-----------------------------------------------------------------------------
(* The watches.                                                            *)

Matching(nd) == {p \in Pool : nd.phase # "absent" /\ p \in nd.labels}
Exists(p) == pool[p] \notin {"unborn", "gone"}

nodePredicates_noLabels(old, new) ==
    (old.phase = "absent") # (new.phase = "absent") \/ old.taint # new.taint

\* nodePredicates; bootc.dev/managed is a label too.
nodePredicates(old, new) ==
    \/ (old.phase = "absent") # (new.phase = "absent")
    \/ old.labels # new.labels \/ old.managed # new.managed
    \/ old.taint # new.taint

\* The pools that select the node, and the one that owns its BootcNode.
mapNodeToPoolRequests(n, nd) ==
    {p \in Matching(nd) : Exists(p)} \cup ({bnSeen[n].owner} \ {NoPool})

\* The handler maps the old and the new object of an update.
SeeNode(n) ==
    /\ nodeSeen[n] # node[n]
    /\ nodeSeen' = [nodeSeen EXCEPT ![n] = node[n]]
    /\ queue' = queue \cup IF nodePredicates(nodeSeen[n], node[n])
                           THEN mapNodeToPoolRequests(n, nodeSeen[n])
                                    \cup mapNodeToPoolRequests(n, node[n])
                           ELSE {}
    /\ UNCHANGED <<pool, conflict, node, image, bn, bnSeen, rec, changes, faults>>

\* Owns: the owner of a BootcNode is queued, also when it is deleted.
SeeBootcNode(n) ==
    /\ bnSeen[n] # bn[n]
    /\ bnSeen' = [bnSeen EXCEPT ![n] = bn[n]]
    /\ queue' = queue \cup ({bnSeen[n].owner, bn[n].owner} \ {NoPool})
    /\ UNCHANGED <<pool, conflict, node, image, bn, nodeSeen, rec, changes, faults>>

-----------------------------------------------------------------------------
(* Reconcile.                                                              *)

Fault(call) == call \in Faults /\ faults < MaxFaults /\ faults' = faults + 1

\* An error ends the pass and queues the pool again.
Abort ==
    /\ rec' = NoRec
    /\ queue' = queue \cup {rec.pool}

Owned_any(bns, p) == {n \in Node : bns[n].owner # NoPool}
Owned(bns, p) == {n \in Node : bns[n].owner = p}
Member(n) == rec.bn[n].owner = rec.pool
Matched(n) == rec.pool \in Matching(rec.node[n])

Begin(p) ==
    /\ rec.pc = "idle" /\ p \in queue
    /\ Lagging \/ (nodeSeen = node /\ bnSeen = bn)

\* A request for a pool that is gone, and the pass that adds the finalizer.
ReconcileNew(p) ==
    /\ Begin(p) /\ pool[p] \in {"new", "gone"}
    /\ pool' = [pool EXCEPT ![p] = IF @ = "new" THEN "live" ELSE @]
    /\ queue' = IF pool[p] = "new" THEN queue ELSE queue \ {p}
    /\ UNCHANGED <<conflict, node, image, bn, nodeSeen, bnSeen, rec, changes, faults>>

addFinalizerFails(p) ==
    /\ Begin(p) /\ pool[p] = "new"
    /\ Fault("finalizer")
    /\ UNCHANGED <<pool, conflict, node, image, bn, nodeSeen, bnSeen, queue, rec, changes>>

\* listMatchingNodes and listAllBootcNodes, or the list of handlePoolDeletion.
StartReconcile(p) ==
    /\ Begin(p) /\ pool[p] \in {"live", "deleting"}
    /\ queue' = queue \ {p}
    /\ rec' = [NoRec EXCEPT !.pool = p, !.deleting = pool[p] = "deleting",
                  !.node = nodeSeen, !.bn = bnSeen,
                  !.pc = IF pool[p] = "live" THEN "sync" ELSE "remove",
                  !.todo = IF pool[p] = "live" THEN {n \in Node : p \in Matching(nodeSeen[n])}
                           ELSE Owned(bnSeen, p)]
    /\ UNCHANGED <<pool, conflict, node, image, bn, nodeSeen, bnSeen, changes, faults>>

\* ensureManagedLabel: the patch carries the resource version of the copy.
ensureManagedLabel(n, copy, managed) ==
    \/ copy.managed = managed /\ node' = node
    \/ copy.managed # managed /\ copy = node[n] /\ node' = [node EXCEPT ![n].managed = managed]

\* The patch is refused, because the copy is stale or for another reason.
labelFails(n, copy, managed) ==
    /\ copy.managed # managed
    /\ \/ copy # node[n] /\ UNCHANGED faults
       \/ Fault("node")
    /\ Abort
    /\ UNCHANGED <<pool, conflict, node, image, bn, nodeSeen, bnSeen, changes>>

\* A BootcNode that exists already has its label repaired.
repairLabel(n) ==
    /\ rec.pc = "sync" /\ n \in rec.todo /\ Member(n)
    /\ ensureManagedLabel(n, rec.node[n], TRUE)
    /\ rec' = [rec EXCEPT !.todo = @ \ {n}]
    /\ UNCHANGED <<pool, conflict, image, bn, nodeSeen, bnSeen, queue, changes, faults>>

repairLabelFails(n) ==
    /\ rec.pc = "sync" /\ n \in rec.todo /\ Member(n)
    /\ labelFails(n, rec.node[n], TRUE)

\* The BootcNode records whether the node came with the startup taint.
NewBN(p, nd) == [owner |-> p, upToDate |-> FALSE, ownsTaint |-> nd.taint]

createBootcNode(n) ==
    /\ rec.pc = "sync" /\ n \in rec.todo /\ ~Member(n)
    /\ bn[n].owner = NoPool
    /\ bn' = [bn EXCEPT ![n] = NewBN(rec.pool, rec.node[n])]
    /\ rec' = [rec EXCEPT !.pc = "label", !.todo = @ \ {n}, !.cur = {n}]
    /\ UNCHANGED <<pool, conflict, node, image, nodeSeen, bnSeen, queue, changes, faults>>

createConflicts_asError(n) ==
    /\ rec.pc = "sync" /\ n \in rec.todo /\ ~Member(n)
    /\ bn[n].owner # NoPool
    /\ Abort
    /\ UNCHANGED <<pool, conflict, node, image, bn, nodeSeen, bnSeen, changes, faults>>

conflictingPools_unchecked(n) == {rec.bn[n].owner}

\* The owner of the BootcNode, if the list showed one.
conflictingPools(n) == {rec.bn[n].owner} \ {NoPool}

\* AlreadyExists is a conflict, not an error.
createConflicts(n) ==
    /\ rec.pc = "sync" /\ n \in rec.todo /\ ~Member(n)
    /\ bn[n].owner # NoPool
    /\ rec' = [rec EXCEPT !.todo = @ \ {n}, !.conflict = @ \cup conflictingPools(n)]
    /\ UNCHANGED <<pool, conflict, node, image, bn, nodeSeen, bnSeen, queue, changes, faults>>

createFails(n) ==
    /\ rec.pc = "sync" /\ n \in rec.todo /\ ~Member(n)
    /\ Fault("create")
    /\ Abort
    /\ UNCHANGED <<pool, conflict, node, image, bn, nodeSeen, bnSeen, changes>>

labelCreated(n) ==
    /\ rec.pc = "label" /\ n \in rec.cur
    /\ ensureManagedLabel(n, rec.node[n], TRUE)
    /\ rec' = [rec EXCEPT !.pc = "sync", !.cur = {},
                          !.bn[n] = NewBN(rec.pool, rec.node[n])]
    /\ UNCHANGED <<pool, conflict, image, bn, nodeSeen, bnSeen, queue, changes, faults>>

labelCreatedFails(n) ==
    /\ rec.pc = "label" /\ n \in rec.cur
    /\ labelFails(n, rec.node[n], TRUE)

Departed == {n \in Owned(rec.bn, rec.pool) : ~Matched(n)}

StartRemove ==
    /\ rec.pc = "sync" /\ rec.todo = {}
    /\ rec' = [rec EXCEPT !.pc = "remove", !.todo = Departed]
    /\ UNCHANGED <<pool, conflict, node, image, bn, nodeSeen, bnSeen, queue, changes, faults>>

\* removeBootcNode: the Node is cleaned up first, unless it is going away.
removeBootcNode(n) ==
    /\ rec.pc = "remove" /\ n \in rec.todo
    /\ IF nodeSeen[n].phase = "present" THEN ensureManagedLabel(n, nodeSeen[n], FALSE)
                                        ELSE node' = node
    /\ rec' = [rec EXCEPT !.pc = "delete", !.todo = @ \ {n}, !.cur = {n}]
    /\ UNCHANGED <<pool, conflict, image, bn, nodeSeen, bnSeen, queue, changes, faults>>

unlabelFails(n) ==
    /\ rec.pc = "remove" /\ n \in rec.todo
    /\ nodeSeen[n].phase = "present"
    /\ labelFails(n, nodeSeen[n], FALSE)

\* The BootcNode is deleted by name; NotFound is fine.
deleteBootcNode(n) ==
    /\ rec.pc = "delete" /\ n \in rec.cur
    /\ bn' = [bn EXCEPT ![n] = NoBN]
    /\ rec' = [rec EXCEPT !.pc = "remove", !.cur = {}, !.bn[n] = NoBN]
    /\ UNCHANGED <<pool, conflict, node, image, nodeSeen, bnSeen, queue, changes, faults>>

deleteFails(n) ==
    /\ rec.pc = "delete" /\ n \in rec.cur
    /\ Fault("delete")
    /\ Abort
    /\ UNCHANGED <<pool, conflict, node, image, bn, nodeSeen, bnSeen, changes>>

Removed_early == rec.pc = "remove"
Removed == rec.pc = "remove" /\ rec.todo = {}

\* The pass over a deleted pool ends with its finalizer.
removeFinalizer ==
    /\ Removed /\ rec.deleting
    /\ pool' = [pool EXCEPT ![rec.pool] = "gone"]
    /\ queue' = queue \cup {rec.pool}
    /\ rec' = NoRec
    /\ UNCHANGED <<conflict, node, image, bn, nodeSeen, bnSeen, changes, faults>>

removeFinalizerFails ==
    /\ Removed /\ rec.deleting
    /\ Fault("finalizer")
    /\ Abort
    /\ UNCHANGED <<pool, conflict, node, image, bn, nodeSeen, bnSeen, changes>>

Verified_joined(b) == b.ownsTaint
Verified(b) == b.upToDate /\ b.ownsTaint

\* freeCompletedSlots over the nodes that are up to date.
StartTaints ==
    /\ Removed /\ ~rec.deleting
    /\ rec' = [rec EXCEPT !.pc = "taint",
                          !.todo = {n \in Owned(rec.bn, rec.pool) : Verified(rec.bn[n])}]
    /\ UNCHANGED <<pool, conflict, node, image, bn, nodeSeen, bnSeen, queue, changes, faults>>

\* The first write of removeOsNotReadyTaintAndAnnotation.
removeOsNotReadyTaint(n) ==
    /\ rec.pc = "taint" /\ n \in rec.todo
    /\ nodeSeen[n].phase # "absent"
    /\ nodeSeen[n].taint => nodeSeen[n] = node[n]
    /\ node' = [node EXCEPT ![n].taint = IF nodeSeen[n].taint THEN FALSE ELSE @]
    /\ rec' = [rec EXCEPT !.pc = "own", !.todo = @ \ {n}, !.cur = {n}]
    /\ UNCHANGED <<pool, conflict, image, bn, nodeSeen, bnSeen, queue, changes, faults>>

removeTaintFails(n) ==
    /\ rec.pc = "taint" /\ n \in rec.todo
    /\ \/ nodeSeen[n].phase = "absent" /\ UNCHANGED faults
       \/ nodeSeen[n].taint /\ nodeSeen[n] # node[n] /\ UNCHANGED faults
       \/ Fault("node")
    /\ Abort
    /\ UNCHANGED <<pool, conflict, node, image, bn, nodeSeen, bnSeen, changes>>

\* The second write, a merge patch of whatever BootcNode has the name.
clearTaintOwnership(n) ==
    /\ rec.pc = "own" /\ n \in rec.cur
    /\ bn[n].owner # NoPool
    /\ bn' = [bn EXCEPT ![n].ownsTaint = FALSE]
    /\ rec' = [rec EXCEPT !.pc = "taint", !.cur = {}]
    /\ UNCHANGED <<pool, conflict, node, image, nodeSeen, bnSeen, queue, changes, faults>>

clearTaintOwnershipFails(n) ==
    /\ rec.pc = "own" /\ n \in rec.cur
    /\ \/ bn[n].owner = NoPool /\ UNCHANGED faults
       \/ Fault("own")
    /\ Abort
    /\ UNCHANGED <<pool, conflict, node, image, bn, nodeSeen, bnSeen, changes>>

\* The status: NodeConflict is set by what this pass found, else cleared.
updatePoolStatus ==
    /\ rec.pc = "taint" /\ rec.todo = {}
    /\ conflict' = [conflict EXCEPT ![rec.pool] = rec.conflict]
    /\ rec' = NoRec
    /\ UNCHANGED <<pool, node, image, bn, nodeSeen, bnSeen, queue, changes, faults>>

-----------------------------------------------------------------------------

Sync(n) ==
    \/ repairLabel(n) \/ repairLabelFails(n) \/ createBootcNode(n) \/ createConflicts(n)
    \/ createFails(n) \/ labelCreated(n) \/ labelCreatedFails(n)

Remove(n) == removeBootcNode(n) \/ unlabelFails(n) \/ deleteBootcNode(n) \/ deleteFails(n)

Untaint(n) ==
    \/ removeOsNotReadyTaint(n) \/ removeTaintFails(n) \/ clearTaintOwnership(n)
    \/ clearTaintOwnershipFails(n)

Controller ==
    \/ \E p \in Pool : ReconcileNew(p) \/ addFinalizerFails(p) \/ StartReconcile(p)
    \/ \E n \in Node : Sync(n) \/ Remove(n) \/ Untaint(n)
    \/ StartRemove \/ removeFinalizer \/ removeFinalizerFails \/ StartTaints \/ updatePoolStatus

Cluster ==
    \/ \E p \in Pool : CreatePool(p) \/ DeletePool(p)
    \/ \E n \in Node : Relabel(n) \/ DeleteNode(n) \/ RegisterNode(n)

Background(n) ==
    \/ SeeNode(n) \/ SeeBootcNode(n) \/ NodeGone(n) \/ CollectGarbage(n) \/ Report(n) \/ Update(n)

Next == Controller \/ Cluster \/ \E n \in Node : Background(n)

Spec == Init /\ [][Next]_vars

\* The worker, the watches, the garbage collector, the daemons and the hosts go on.
Fairness ==
    /\ WF_vars(Controller)
    /\ \A n \in Node :
          /\ WF_vars(SeeNode(n)) /\ WF_vars(SeeBootcNode(n)) /\ WF_vars(NodeGone(n))
          /\ WF_vars(CollectGarbage(n)) /\ WF_vars(Report(n)) /\ WF_vars(Update(n))

FairSpec == Spec /\ Fairness

-----------------------------------------------------------------------------
(* Properties.                                                             *)

Selecting(n) == {p \in Matching(node[n]) : pool[p] = "live"}

\* A node that a live pool selects has a BootcNode of such a pool and the managed
\* label; any other node has neither.
RightMember(n) ==
    IF Selecting(n) # {} THEN bn[n].owner \in Selecting(n) /\ node[n].managed
                         ELSE bn[n].owner = NoPool /\ ~node[n].managed

\* The owner of the BootcNode removed the taint it is responsible for.
RightTaint(n) == bn[n].upToDate => ~node[n].taint

\* NodeConflict names the pools that hold the nodes this pool selects too.
RightConflict(p) ==
    pool[p] = "live" =>
        conflict[p] = {bn[n].owner : n \in {m \in Node : p \in Selecting(m)}} \ {p}

AllRight ==
    /\ \A n \in Node : RightMember(n) /\ RightTaint(n)
    /\ \A p \in Pool : RightConflict(p) /\ pool[p] # "deleting"

\* No event is on its way, no pool is queued and no pass is under way, and nothing
\* goes on in the background: until something else changes the controller does
\* nothing more.
Quiet ==
    /\ rec.pc = "idle" /\ queue = {}
    /\ \A n \in Node :
          /\ nodeSeen[n] = node[n] /\ bnSeen[n] = bn[n]
          /\ node[n].phase # "terminating"
          /\ bn[n].owner # NoPool =>
                /\ pool[bn[n].owner] # "gone"
                /\ node[n].phase # "absent" /\ node[n].managed =>
                      bn[n].upToDate /\ image[n] = bn[n].owner

\* The watches lose nothing: when the controller comes to rest every node has
\* the owner, the label and the taint it should have, every conflict is
\* reported and every deleted pool is gone.
RestsRight == Quiet => AllRight

\* The pool reports a conflict over the node that it may have won meanwhile: the
\* one thing a pool is not woken for is the end of another pool's BootcNode.
LostTo(n) ==
    /\ bn[n].owner = NoPool /\ ~node[n].managed
    /\ \E p \in Selecting(n) : conflict[p] # {}

\* Also when two pools compete, the controller rests only where every BootcNode
\* belongs to a pool that selects its node, exactly these nodes are labelled, a
\* selected node without one belongs to a pool that still reports a conflict,
\* and no conflict goes unreported.
RestsTidy ==
    Quiet => /\ \A n \in Node : (RightMember(n) \/ LostTo(n)) /\ RightTaint(n)
             /\ \A p \in Pool : RightConflict(p) \/ conflict[p] # {}
             /\ \A p \in Pool : pool[p] # "deleting"

\* When the cluster stops changing the controller comes to rest: pools that
\* compete for a node do not undo each other's work for ever.
ComesToRest == <>[]Quiet

\* handlePoolDeletion "removes the bootc.dev/managed label from all member nodes
\* and deletes the owned BootcNode objects, then removes the cleanup finalizer".
CleanedUp ==
    [][\A p \in Pool : pool[p] = "deleting" /\ pool'[p] = "gone" =>
          \A n \in Node : bn[n].owner # p]_vars

\* A pool deletes only BootcNodes that it owns.
DeletesItsOwn ==
    [][\A n \in Node : rec.pc = "delete" /\ bn[n] # NoBN /\ bn'[n] = NoBN =>
          bn[n].owner \in {rec.pool} \cup {p \in Pool : pool[p] = "gone"}]_vars

\* "The operator removes the taint only after the node is ... UpToDate": the host
\* runs the image of the pool that owns it.
TaintKeptUntilVerified ==
    [][\A n \in Node : node[n].taint /\ ~node'[n].taint /\ node'[n].phase # "absent" =>
          image[n] = bn[n].owner]_vars

=============================================================================
