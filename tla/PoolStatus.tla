------------------------------ MODULE PoolStatus ------------------------------
(***************************************************************************)
(* What a pool says of itself: the status and the events that one           *)
(* reconciliation after another derives from the pull secret, the registry,  *)
(* the pool's spec and the nodes.  The pool is read from the informer's      *)
(* cache, its status is written once at the end of a pass, under the lock of *)
(* the version read, and every write wakes the pool again.                   *)
(*                                                                         *)
(* Scope: one pool and the nodes it owns; the rollout itself is in Rollout,  *)
(* the membership in Membership.  Here nodes move from state to state as     *)
(* their daemons report, and the BootcNodes, unlike the pool, are read fresh.*)
(***************************************************************************)
EXTENDS Naturals, FiniteSets

CONSTANTS
    Node,        \* the nodes of the pool
    Reporting,   \* those whose daemon is running
    Digest,      \* image digests; a digest is also a reference to itself
    Tag,         \* references that the registry resolves
    FirstImage,  \* what the nodes run at first
    NoDigest,    \* nothing resolved, or nothing to resolve to
    Troubles,    \* what may go wrong: "secret", "ref", "selector", "max", "conflict", "health"
    MaxChanges,  \* bound: steps of the user, of the registry and of the infrastructure
    MaxFaults    \* bound: failed calls and crashes

ASSUME PoolAssumption ==
    /\ IsFiniteSet(Node) /\ Reporting \subseteq Node
    /\ Tag \cap Digest = {} /\ NoDigest \notin Digest /\ FirstImage \in Digest
    /\ Troubles \subseteq {"secret", "ref", "selector", "max", "conflict", "health"}
    /\ MaxChanges \in Nat /\ MaxFaults \in Nat

VARIABLES
    spec,        \* the pool's spec: the reference, paused, and what is wrong with it
    trouble,     \* what else is wrong: the pull secret, a conflict over a node
    registry,    \* what each tag resolves to
    node,        \* the BootcNodes
    status,      \* the pool's status
    cache,       \* the pool as the informer has it: spec, status and if that is the latest
    queued,      \* is the pool in the work queue?
    timer,       \* does a RequeueAfter wait for the next tag resolution?
    rec,         \* the pass in progress
    out,         \* what has been announced: events of the pool and of its nodes
    lost,        \* has a crash or a failed write come between an event and its record?
    resolved,    \* the outcome of the last look at the reference that was recorded
    changes, faults

vars == <<spec, trouble, registry, node, status, cache, queued, timer, rec, out, lost,
          resolved, changes, faults>>
world == <<spec, trouble, registry, changes>>
news == <<out, lost>>

-----------------------------------------------------------------------------

poolDegradedPrecedence ==
    [Healthy |-> 0, NodeDegraded |-> 1, SecretError |-> 2, NodeConflict |-> 3,
     RolloutHalted |-> 4, InvalidSpec |-> 5, TagResolutionError |-> 6]
Reason == DOMAIN poolDegradedPrecedence

\* idle: the reason of the Idle condition.  about: the image it is about.  sick:
\* degraded on the target in a slot.  unready: in a slot on the target, and the Node
\* is not Ready.  seen: the last-observed-state annotation.
Active == {"Staging", "Staged", "Rebooting"}
Observation == (Active \cup {"Idle", "none"}) \X (Digest \cup {NoDigest})
BootcNode == [desired : Digest \cup {NoDigest}, booted : Digest, idle : Active \cup {"Idle"},
              about : Digest \cup {NoDigest}, health : {"ok", "degraded", "sick", "unready"},
              seen : Observation]

\* next: NextTagResolutionTime lies ahead, or has passed.
PoolStatus == [target : Digest \cup {NoDigest}, next : {"none", "later", "due"},
               deployed : Digest \cup {NoDigest}, updated : 0 .. Cardinality(Node),
               updating : 0 .. Cardinality(Node), degraded : 0 .. Cardinality(Node),
               reason : Reason,
               upToDate : {"none", "AllUpdated", "RolloutInProgress", "Paused"}]

PoolSpec == [ref : Tag \cup Digest, paused : BOOLEAN, bad : {"none", "ref", "selector", "max"}]

\* orig: the status read.  status: the status so far.  lock: the version read is
\* still the latest.  requeue: the pass asks for a RequeueAfter.
Pass == [spec : PoolSpec, orig : PoolStatus, status : PoolStatus, lock : BOOLEAN,
         requeue : BOOLEAN, resolved : Digest \cup {NoDigest}, nodes : [Node -> BootcNode]]
NoPass == [idle |-> TRUE]

\* rollout: the target of the last RolloutStarted, until the rollout is completed.
\* degraded: the reason of the last warning, until the pool is healthy.  node: the
\* last event of each node.  again: one said what the one before it had said.
Announced == [rollout : Digest \cup {NoDigest}, degraded : Reason,
              node : [Node -> Observation], again : BOOLEAN]

NoNews == [rollout |-> NoDigest, degraded |-> "Healthy",
           node |-> [n \in Node |-> <<"none", NoDigest>>], again |-> FALSE]

TypeOK ==
    /\ spec \in PoolSpec
    /\ trouble \subseteq {"secret", "conflict"}
    /\ registry \in [Tag -> Digest \cup {NoDigest}]
    /\ node \in [Node -> BootcNode]
    /\ status \in PoolStatus
    /\ cache \in [spec : PoolSpec, status : PoolStatus, latest : BOOLEAN]
    /\ queued \in BOOLEAN /\ timer \in BOOLEAN
    /\ rec \in Pass \cup {NoPass}
    /\ out \in Announced /\ lost \in BOOLEAN
    /\ resolved \in Digest \cup {NoDigest}
    /\ changes \in 0 .. MaxChanges /\ faults \in 0 .. MaxFaults

NoStatus == [target |-> NoDigest, next |-> "none", deployed |-> NoDigest, updated |-> 0,
             updating |-> 0, degraded |-> 0, reason |-> "Healthy", upToDate |-> "none"]

\* A new pool with a tag that stands for the image its nodes run, until it moves.
Init ==
    /\ spec \in [ref : Tag, paused : {FALSE}, bad : {"none"}]
    /\ trouble = {}
    /\ registry = [t \in Tag |-> FirstImage]
    /\ node = [n \in Node |-> [desired |-> NoDigest, booted |-> FirstImage, idle |-> "Idle",
                               about |-> FirstImage, health |-> "ok",
                               seen |-> <<"none", NoDigest>>]]
    /\ status = NoStatus
    /\ cache = [spec |-> spec, status |-> NoStatus, latest |-> TRUE]
    /\ queued = TRUE /\ timer = FALSE
    /\ rec = NoPass
    /\ out = NoNews /\ lost = FALSE
    /\ resolved = NoDigest
    /\ changes = 0 /\ faults = 0

-----------------------------------------------------------------------------
(* Conditions, counts and events.                                          *)

setPoolDegraded_latest(s, r) == [s EXCEPT !.reason = r]

setPoolDegraded(s, r) ==
    IF poolDegradedPrecedence[r] < poolDegradedPrecedence[s.reason] THEN s
    ELSE [s EXCEPT !.reason = r]

clearPoolDegradedReason(s, r) == IF s.reason = r THEN [s EXCEPT !.reason = "Healthy"] ELSE s

classifyNode(b) ==
    IF b.health \in {"degraded", "sick"} THEN "Degraded"
    ELSE IF b.booted = b.desired THEN "UpToDate"
    ELSE IF b.idle \in Active THEN b.idle
    ELSE "Pending"

\* The nodes of a state.
InState(nodes, states) == {n \in Node : classifyNode(nodes[n]) \in states}

findUnhealthySlots(nodes, target) ==
    {n \in Node : \/ nodes[n].health = "sick" /\ nodes[n].booted = target
                  \/ nodes[n].health = "unready" /\ classifyNode(nodes[n]) = "UpToDate"}

\* maxUnavailable is not looked at when the rollout is halted or paused.
halted(nodes, s) == Cardinality(findUnhealthySlots(nodes, s.target)) >= 2
badMax(sp, nodes, s) == sp.bad = "max" /\ ~sp.paused /\ ~halted(nodes, s)

syncUpToDateCondition(sp, nodes) ==
    IF InState(nodes, {"UpToDate"}) = Node THEN "AllUpdated"
    ELSE IF sp.paused THEN "Paused" ELSE "RolloutInProgress"

syncPoolStatus_addsUp(s, sp, nodes) ==
    [s EXCEPT !.updated = @ + Cardinality(InState(nodes, {"UpToDate"})),
              !.updating = @ + Cardinality(InState(nodes, {"Pending"} \cup Active)),
              !.degraded = @ + Cardinality(InState(nodes, {"Degraded"})),
              !.deployed = IF InState(nodes, {"UpToDate"}) = Node THEN s.target ELSE @,
              !.upToDate = syncUpToDateCondition(sp, nodes)]

syncPoolStatus_keepsDeployed(s, sp, nodes) ==
    [s EXCEPT !.updated = Cardinality(InState(nodes, {"UpToDate"})),
              !.updating = Cardinality(InState(nodes, {"Pending"} \cup Active)),
              !.degraded = Cardinality(InState(nodes, {"Degraded"})),
              !.upToDate = syncUpToDateCondition(sp, nodes)]

syncPoolStatus(s, sp, nodes) ==
    [s EXCEPT !.updated = Cardinality(InState(nodes, {"UpToDate"})),
              !.updating = Cardinality(InState(nodes, {"Pending"} \cup Active)),
              !.degraded = Cardinality(InState(nodes, {"Degraded"})),
              !.deployed = IF InState(nodes, {"UpToDate"}) = Node THEN s.target ELSE @,
              !.upToDate = syncUpToDateCondition(sp, nodes)]

\* A RolloutStarted is due when the condition turns, or the target changes under it.
RolloutStarts_onEntry(old, new) ==
    new.upToDate = "RolloutInProgress" /\ old.upToDate # "RolloutInProgress"

RolloutStarts(old, new) ==
    /\ new.upToDate = "RolloutInProgress"
    /\ \/ old.upToDate # "RolloutInProgress"
       \/ old.target # NoDigest /\ old.target # new.target /\ new.target # NoDigest

RolloutEnds(old, new) ==
    old.upToDate \notin {"none", "AllUpdated"} /\ new.upToDate = "AllUpdated"

nodeObservation(b) == <<b.idle, b.desired>>

\* An event tells of every active state, and of the return from one to idle.
nodeEvent(b) == b.idle \in Active \/ b.seen[1] \in Active

-----------------------------------------------------------------------------
(* The pass, in two steps: up to the events of the nodes, and from the      *)
(* rollout to the write of the status.  In between the nodes and the pool    *)
(* may change; what the pass reads before is read once.                      *)

recordPoolEvents(old, new) ==
    [out EXCEPT
        !.rollout = IF RolloutStarts(old, new) THEN new.target
                    ELSE IF RolloutEnds(old, new) THEN NoDigest ELSE @,
        !.degraded = IF new.reason # old.reason THEN new.reason ELSE @]

\* Events after one was lost are not kept track of.
Events(new) == lost' = lost /\ out' = IF lost THEN out ELSE new
EventLost == lost' = TRUE /\ out' = NoNews

Fault == faults < MaxFaults /\ faults' = faults + 1

Unchanged_never(p, s) == FALSE
Unchanged(p, s) == s = p.orig

\* updatePoolStatus at the end of pass p: a status that has changed is written if
\* nobody has written the pool since it was read, and then come the events, unless
\* the controller crashes in between.  A refused write queues the pool again.
updatePoolStatus(p, s, requeue) ==
    /\ rec' = NoPass
    /\ \/ /\ Unchanged(p, s)
          /\ timer' = (timer \/ requeue) /\ resolved' = p.resolved
          /\ queued' = (queued /\ rec # NoPass)
          /\ UNCHANGED <<status, cache, news, faults>>
       \/ /\ ~Unchanged(p, s) /\ p.lock
          /\ status' = s /\ cache' = [cache EXCEPT !.latest = FALSE] /\ resolved' = p.resolved
          /\ \/ /\ timer' = (timer \/ requeue)
                /\ queued' = (queued /\ rec # NoPass)
                /\ Events(recordPoolEvents(p.orig, s))
                /\ UNCHANGED faults
             \/ Fault /\ timer' = FALSE /\ queued' = TRUE /\ EventLost
       \/ /\ ~Unchanged(p, s) /\ ~p.lock
          /\ queued' = TRUE
          /\ UNCHANGED <<status, cache, timer, news, resolved, faults>>

setInvalidSpecCondition(p, s) == updatePoolStatus(p, setPoolDegraded(s, "InvalidSpec"), FALSE)

\* The reasons that the rest of the pass decides anew.
Cleared(s) ==
    clearPoolDegradedReason(clearPoolDegradedReason(clearPoolDegradedReason(
        clearPoolDegradedReason(s, "NodeConflict"), "NodeDegraded"), "RolloutHalted"),
        "InvalidSpec")

Marked_never(b) == b

\* The last-observed-state annotation.
Marked(b) == [b EXCEPT !.seen = nodeObservation(b)]

\* recordNodeEvents: the events come first, then the annotations that keep them
\* from being repeated.
recordNodeEvents(nodes) ==
    LET T == {n \in Node : nodeObservation(nodes[n]) # nodes[n].seen /\ nodeEvent(nodes[n])}
    IN  [out EXCEPT
            !.node = [n \in Node |-> IF n \in T THEN nodeObservation(nodes[n]) ELSE @[n]],
            !.again = @ \/ \E n \in T : out.node[n] = nodeObservation(nodes[n])]

\* syncMembership tells every node the target; the nodes in F are those whose
\* annotation cannot be written, which is only logged.  When the patch of a node
\* fails, the pass ends with the nodes in S told.
syncMembership(p, s) ==
    LET nodes == [n \in Node |-> [node[n] EXCEPT !.desired = s.target]]
    IN  \/ /\ p.spec.bad = "selector"
           /\ setInvalidSpecCondition(p, s)
           /\ UNCHANGED node
        \/ \E F \in SUBSET Node :
           /\ p.spec.bad # "selector"
           /\ node' = [n \in Node |-> IF n \in F THEN nodes[n] ELSE Marked(nodes[n])]
           /\ queued' = (node' # node)
           /\ rec' = [p EXCEPT !.nodes = nodes,
                        !.status = IF "conflict" \in trouble
                                   THEN setPoolDegraded(s, "NodeConflict") ELSE s]
           /\ IF F = {} THEN Events(recordNodeEvents(nodes)) /\ UNCHANGED faults
              ELSE EventLost /\ Fault
           /\ UNCHANGED <<status, cache, timer, resolved>>
        \/ \E S \in SUBSET Node :
           /\ p.spec.bad # "selector"
           /\ Fault
           /\ node' = [n \in Node |-> IF n \in S THEN nodes[n] ELSE node[n]]
           /\ rec' = NoPass /\ queued' = TRUE
           /\ UNCHANGED <<status, cache, timer, news, resolved>>

Resolve_keepsTarget(s, d) ==
    IF d = NoDigest THEN [setPoolDegraded(s, "TagResolutionError") EXCEPT !.next = "later"]
    ELSE [clearPoolDegradedReason(s, "TagResolutionError") EXCEPT
             !.target = IF @ = NoDigest THEN d ELSE @, !.next = "later"]

Resolve_failsUnscheduled(s, d) ==
    IF d = NoDigest THEN setPoolDegraded(s, "TagResolutionError")
    ELSE [clearPoolDegradedReason(s, "TagResolutionError") EXCEPT
             !.target = d, !.next = "later"]

\* What a lookup makes of the status: one that fails leaves the target.
Resolve(s, d) ==
    IF d = NoDigest THEN [setPoolDegraded(s, "TagResolutionError") EXCEPT !.next = "later"]
    ELSE [clearPoolDegradedReason(s, "TagResolutionError") EXCEPT
             !.target = d, !.next = "later"]

\* Without a target there is nothing to roll out.
Proceed(p, s, requeue, d) ==
    LET q == [p EXCEPT !.requeue = requeue, !.resolved = d]
    IN  IF s.target = NoDigest THEN updatePoolStatus(q, s, requeue) /\ UNCHANGED node
        ELSE syncMembership(q, Cleared(s))

\* A digest is its own target; a tag is looked up when that is due.
resolveTargetDigest(p, s) ==
    LET ref == p.spec.ref
    IN  \/ p.spec.bad = "ref" /\ setInvalidSpecCondition(p, s) /\ UNCHANGED node
        \/ /\ p.spec.bad # "ref" /\ ref \in Digest
           /\ Proceed(p, [clearPoolDegradedReason(s, "TagResolutionError") EXCEPT
                             !.target = ref, !.next = "none"], FALSE, ref)
        \/ /\ p.spec.bad # "ref" /\ ref \in Tag /\ s.next = "later"
           /\ Proceed(p, s, TRUE, resolved)
        \/ /\ p.spec.bad # "ref" /\ ref \in Tag /\ s.next # "later"
           /\ Proceed(p, Resolve(s, registry[ref]), TRUE, registry[ref])

\* Reconcile reads the pool and fetches the pull secret.
Reconcile ==
    /\ rec = NoPass /\ queued
    /\ LET s == cache.status
           p == [spec |-> cache.spec, orig |-> s, status |-> s,
                 lock |-> cache.latest, requeue |-> FALSE, resolved |-> resolved,
                 nodes |-> node]
       IN  IF "secret" \in trouble
           THEN /\ updatePoolStatus(p, setPoolDegraded(s, "SecretError"), FALSE)
                /\ UNCHANGED node
           ELSE resolveTargetDigest(p, clearPoolDegradedReason(s, "SecretError"))
    /\ UNCHANGED world

\* What driveRollout reports of the nodes, and the status that follows.
driveRollout ==
    /\ rec # NoPass
    /\ LET nodes == rec.nodes
           s == IF InState(nodes, {"Degraded"}) # {}
                THEN setPoolDegraded(rec.status, "NodeDegraded") ELSE rec.status
           h == IF halted(nodes, s) THEN setPoolDegraded(s, "RolloutHalted") ELSE s
       IN  IF badMax(rec.spec, nodes, s) THEN setInvalidSpecCondition(rec, s)
           ELSE updatePoolStatus(rec, syncPoolStatus(h, rec.spec, nodes), rec.requeue)
    /\ UNCHANGED <<world, node>>

\* A call of the rollout fails, or the write of the status, and the pass ends with
\* an error.
ApiError ==
    /\ rec # NoPass
    /\ Fault
    /\ rec' = NoPass /\ queued' = TRUE
    /\ UNCHANGED <<world, node, status, cache, timer, news, resolved>>

\* A new process starts from a fresh list and queues every pool.
ControllerCrash ==
    /\ Fault
    /\ rec' = NoPass /\ queued' = TRUE /\ timer' = FALSE
    /\ cache' = [spec |-> spec, status |-> status, latest |-> TRUE]
    /\ UNCHANGED <<world, node, status, news, resolved>>

-----------------------------------------------------------------------------
(* The watches, the clock, the daemons and the world.                      *)

\* There is no predicate on the pools: every version of the pool queues it.
SeePool ==
    /\ ~cache.latest
    /\ cache' = [spec |-> spec, status |-> status, latest |-> TRUE]
    /\ queued' = TRUE
    /\ UNCHANGED <<world, node, status, timer, rec, news, resolved, faults>>

\* Nothing is queued, no pass is under way, and the informer is up to date.
Rest == ~queued /\ rec = NoPass /\ cache.latest

\* The next resolution becomes due; the passes at hand do not last that long.
TagResolutionDue ==
    /\ Rest /\ status.next = "later"
    /\ status' = [status EXCEPT !.next = "due"]
    /\ cache' = [cache EXCEPT !.status = status']
    /\ queued' = timer
    /\ timer' = FALSE
    /\ UNCHANGED <<world, node, rec, news, resolved, faults>>

Reports(n, b) ==
    /\ node' = [node EXCEPT ![n] = b]
    /\ queued' = TRUE
    /\ UNCHANGED <<spec, trouble, registry, status, cache, timer, rec, news, resolved, faults>>

\* The daemon stages the image it is told, and boots it.
DaemonReports(n) ==
    LET b == node[n]
        step == [Idle |-> "Staging", Staging |-> "Staged", Staged |-> "Rebooting",
                 Rebooting |-> "Idle"]
    IN  /\ b.desired # NoDigest
        /\ \/ /\ b.booted = b.desired /\ b.idle # "Idle"
              /\ Reports(n, [b EXCEPT !.idle = "Idle", !.about = b.desired])
           \/ /\ b.booted # b.desired /\ b.about # b.desired
              /\ Reports(n, [b EXCEPT !.idle = "Staging", !.about = b.desired])
           \/ /\ b.booted # b.desired /\ b.about = b.desired
              /\ Reports(n, [b EXCEPT !.idle = step[b.idle],
                               !.booted = IF b.idle = "Rebooting" THEN b.desired ELSE @])
        /\ UNCHANGED changes

Changed == changes < MaxChanges /\ changes' = changes + 1

\* What a pass reads once may as well change before it or after it.
ChangedBetween == Changed /\ rec = NoPass

\* Some nodes turn unhealthy together, or recover.
HealthChanges(S, h) ==
    /\ ChangedBetween
    /\ "health" \in Troubles
    /\ \A n \in S : /\ h # node[n].health
                    /\ h \in {"sick", "unready"} => node[n].booted = node[n].desired
    /\ node' = [n \in Node |-> IF n \in S THEN [node[n] EXCEPT !.health = h] ELSE node[n]]
    /\ queued' = TRUE
    /\ UNCHANGED <<spec, trouble, registry, status, cache, timer, rec, news, resolved, faults>>

Edit(new) ==
    /\ Changed
    /\ new # spec
    /\ spec' = new
    /\ cache' = [cache EXCEPT !.latest = FALSE]
    /\ rec' = IF rec = NoPass THEN rec ELSE [rec EXCEPT !.lock = FALSE]
    /\ UNCHANGED <<trouble, registry, node, status, queued, timer, news, resolved, faults>>

\* The user edits one field of the pool.
UserEdits ==
    \/ \E r \in Tag \cup Digest : Edit([spec EXCEPT !.ref = r])
    \/ Edit([spec EXCEPT !.paused = ~@])
    \/ \E w \in {"none"} \cup (Troubles \cap {"ref", "selector", "max"}) :
          Edit([spec EXCEPT !.bad = w])

\* The Secret breaks or is repaired, a node is disputed with another pool or no
\* longer: the watches on Secrets and Nodes queue the pool.
TroubleChanges(t) ==
    /\ ChangedBetween
    /\ t \in Troubles
    /\ trouble' = IF t \in trouble THEN trouble \ {t} ELSE trouble \cup {t}
    /\ queued' = TRUE
    /\ UNCHANGED <<spec, registry, node, status, cache, timer, rec, news, resolved, faults>>

\* A tag moves, or cannot be resolved for a while.
RegistryChanges(t, d) ==
    /\ ChangedBetween
    /\ d # registry[t]
    /\ registry' = [registry EXCEPT ![t] = d]
    /\ UNCHANGED <<spec, trouble, node, status, cache, queued, timer, rec, news, resolved, faults>>

-----------------------------------------------------------------------------

Controller == Reconcile \/ driveRollout

World ==
    \/ TagResolutionDue \/ UserEdits
    \/ \E n \in Reporting : DaemonReports(n)
    \/ \E S \in SUBSET Node \ {{}}, h \in {"ok", "degraded", "sick", "unready"} :
          HealthChanges(S, h)
    \/ \E t \in {"secret", "conflict"} : TroubleChanges(t)
    \/ \E t \in Tag, d \in Digest \cup {NoDigest} : RegistryChanges(t, d)

Next == Controller \/ SeePool \/ ApiError \/ ControllerCrash \/ World

Spec == Init /\ [][Next]_vars

\* The work queue is served and the watch delivers: weak fairness of Controller and
\* of SeePool, with their guards in place of ENABLED.
Fairness ==
    /\ []<>(~queued /\ rec = NoPass) \/ []<><<Controller>>_vars
    /\ []<>cache.latest

FairSpec == Spec /\ Fairness

-----------------------------------------------------------------------------
(* Properties.                                                             *)

\* The pass that led here went past the early returns of Reconcile.
WentThrough ==
    /\ Rest /\ "secret" \notin trouble
    /\ spec.bad \notin {"ref", "selector"} /\ status.target # NoDigest

\* What is wrong with a pool whose pull secret and reference are in order.
Wrong ==
    (IF resolved = NoDigest THEN {"TagResolutionError"} ELSE {})
    \cup (IF spec.bad = "selector" THEN {"InvalidSpec"}
          ELSE (IF "conflict" \in trouble THEN {"NodeConflict"} ELSE {})
               \cup (IF InState(node, {"Degraded"}) # {} THEN {"NodeDegraded"} ELSE {})
               \cup (IF halted(node, status) THEN {"RolloutHalted"} ELSE {})
               \cup (IF badMax(spec, node, status) THEN {"InvalidSpec"} ELSE {}))

\* At rest the Degraded condition gives the gravest of the reasons that hold, and
\* Healthy if there is none, whatever was reported before, whichever write was
\* refused and however old the copy of the pool was: no reason outlives its cause,
\* none hides a graver one.  Only the early returns for a missing pull secret and
\* a malformed reference may leave a graver reason standing.
GravestReported ==
    Rest =>
        IF "secret" \in trouble
        THEN poolDegradedPrecedence[status.reason] >= poolDegradedPrecedence["SecretError"]
        ELSE IF spec.bad = "ref" THEN status.reason \in {"InvalidSpec", "TagResolutionError"}
        ELSE IF status.target = NoDigest THEN status.reason = "TagResolutionError"
        ELSE \/ Wrong = {} /\ status.reason = "Healthy"
             \/ /\ status.reason \in Wrong
                /\ \A r \in Wrong : poolDegradedPrecedence[r]
                                       <= poolDegradedPrecedence[status.reason]

\* At rest the counts, the deployed digest and the UpToDate condition are those of
\* the nodes as they are, unless maxUnavailable is malformed.
CountsRight ==
    WentThrough /\ ~badMax(spec, node, status) =>
        /\ status.updated = Cardinality(InState(node, {"UpToDate"}))
        /\ status.updated + status.updating + status.degraded = Cardinality(Node)
        /\ status.upToDate = syncUpToDateCondition(spec, node)
        /\ status.upToDate = "AllUpdated" =>
              /\ status.deployed = status.target
              /\ \A n \in Node : node[n].booted = status.target

\* At rest every node has been told the target, which is the reference itself or
\* the last digest that the registry gave.
TargetFollows ==
    WentThrough =>
        /\ \A n \in Node : node[n].desired = status.target
        /\ spec.ref \in Digest => status.target = spec.ref
        /\ resolved # NoDigest => status.target = resolved

\* A tag does not stop being looked up: at rest the next lookup lies ahead and a
\* RequeueAfter waits for it, whatever cut short a pass, unless maxUnavailable is
\* malformed.
TagPolled ==
    WentThrough /\ spec.ref \in Tag /\ ~badMax(spec, node, status) =>
        timer /\ status.next = "later"

\* The events keep up with the status: a rollout in progress was announced with
\* its present target, and so was the present Degraded reason, but for a crash
\* between the write and the event.
StatusAnnounced ==
    ~lost =>
        /\ status.upToDate = "RolloutInProgress" => out.rollout = status.target
        /\ status.reason # "Healthy" => out.degraded = status.reason

\* At rest the state that a node is in has been announced, and no event repeats
\* the one before it, but for a crash or a failed write between the event and its
\* record.
AnnouncedOnce ==
    ~lost =>
        /\ ~out.again
        /\ WentThrough => \A n \in Node : node[n].idle \in Active =>
                                             out.node[n] = nodeObservation(node[n])

\* Although every write of the status queues the pool again, the passes come to an
\* end: again and again there is nothing to do.
PassesEnd == []<>Rest
=============================================================================
