--------------------------- MODULE PoolStatusProofs ---------------------------
(***************************************************************************)
(* Proofs about PoolStatus, for any pool, any images and tags and any number *)
(* of changes and faults, with copies of the pool of any age.                *)
(***************************************************************************)
EXTENDS PoolStatus, TLAPS, FiniteSetTheorems

USE SMTT(30), ZenonT(30)

-----------------------------------------------------------------------------
(* Conditions and counts.                                                  *)

\* A status that says a rollout is in progress names its target.
Fits(s) == s \in PoolStatus /\ (s.upToDate = "RolloutInProgress" => s.target # NoDigest)

\* The Degraded condition is all that distinguishes two statuses.
SameButReason(s, t) ==
    /\ t \in PoolStatus
    /\ t.target = s.target /\ t.next = s.next /\ t.upToDate = s.upToDate

LEMMA ReasonSet ==
    Reason = {"Healthy", "NodeDegraded", "SecretError", "NodeConflict", "RolloutHalted",
              "InvalidSpec", "TagResolutionError"}
  BY DEF Reason, poolDegradedPrecedence

LEMMA DegradedKeeps ==
    ASSUME NEW s \in PoolStatus, NEW r \in Reason
    PROVE  /\ SameButReason(s, setPoolDegraded(s, r))
           /\ SameButReason(s, clearPoolDegradedReason(s, r))
  <1>1. "Healthy" \in Reason
    BY ReasonSet
  <1>2. ASSUME NEW q \in Reason PROVE SameButReason(s, [s EXCEPT !.reason = q])
    BY <1>2 DEF SameButReason, PoolStatus
  <1>3. SameButReason(s, s)
    BY DEF SameButReason
  <1> QED
    BY <1>1, <1>2, <1>3 DEF setPoolDegraded, clearPoolDegradedReason

LEMMA ClearedKeeps ==
    ASSUME NEW s \in PoolStatus
    PROVE  SameButReason(s, Cleared(s))
  <1> DEFINE a == clearPoolDegradedReason(s, "NodeConflict")
             b == clearPoolDegradedReason(a, "NodeDegraded")
             c == clearPoolDegradedReason(b, "RolloutHalted")
             d == clearPoolDegradedReason(c, "InvalidSpec")
  <1>1. SameButReason(s, a)
    BY DegradedKeeps, ReasonSet
  <1>2. SameButReason(a, b)
    BY <1>1, DegradedKeeps, ReasonSet DEF SameButReason
  <1>3. SameButReason(b, c)
    BY <1>2, DegradedKeeps, ReasonSet DEF SameButReason
  <1>4. SameButReason(c, d)
    BY <1>3, DegradedKeeps, ReasonSet DEF SameButReason
  <1>5. Cleared(s) = d
    BY DEF Cleared
  <1> HIDE DEF a, b, c, d
  <1> QED
    BY <1>1, <1>2, <1>3, <1>4, <1>5 DEF SameButReason

LEMMA FitsKept ==
    ASSUME NEW s, NEW t, Fits(s), SameButReason(s, t)
    PROVE  Fits(t)
  BY DEF Fits, SameButReason

LEMMA CountType ==
    ASSUME NEW nodes, NEW states
    PROVE  Cardinality(InState(nodes, states)) \in 0 .. Cardinality(Node)
  <1>1. InState(nodes, states) \subseteq Node
    BY DEF InState
  <1> QED
    BY <1>1, PoolAssumption, FS_Subset, FS_CardinalityType

\* syncPoolStatus counts, and leaves the target alone.
LEMMA SyncKeeps ==
    ASSUME NEW s \in PoolStatus, NEW sp, NEW nodes, s.target # NoDigest
    PROVE  Fits(syncPoolStatus(s, sp, nodes))
  <1> DEFINE u == Cardinality(InState(nodes, {"UpToDate"}))
             v == Cardinality(InState(nodes, {"Pending"} \cup Active))
             w == Cardinality(InState(nodes, {"Degraded"}))
             c == syncUpToDateCondition(sp, nodes)
             e == IF InState(nodes, {"UpToDate"}) = Node THEN s.target ELSE s.deployed
  <1>1. u \in 0 .. Cardinality(Node) /\ v \in 0 .. Cardinality(Node) /\ w \in 0 .. Cardinality(Node)
    BY CountType
  <1>2. c \in {"none", "AllUpdated", "RolloutInProgress", "Paused"}
    BY DEF syncUpToDateCondition
  <1>3. e \in Digest \cup {NoDigest}
    BY DEF PoolStatus
  <1>4. syncPoolStatus(s, sp, nodes) =
          [s EXCEPT !.updated = u, !.updating = v, !.degraded = w, !.deployed = e,
                    !.upToDate = c]
    BY DEF syncPoolStatus, PoolStatus
  <1> HIDE DEF u, v, w, c, e
  <1> QED
    BY ZenonT(30), <1>1, <1>2, <1>3, <1>4 DEF Fits, PoolStatus

-----------------------------------------------------------------------------
(* The inductive invariant.                                                *)

\* A pass works from a status that was written, and one that still has the lock
\* from the latest.
FreshPass(p) ==
    /\ p \in Pass
    /\ Fits(p.orig)
    /\ p.lock => p.orig = status

\* The informer's copy and the pass in progress against the status.
Copies ==
    /\ Fits(status) /\ Fits(cache.status)
    /\ cache.latest => cache.status = status
    /\ rec # NoPass => FreshPass(rec) /\ Fits(rec.status) /\ rec.status.target # NoDigest

Inv == TypeOK /\ Copies /\ StatusAnnounced

LEMMA InitInv == Init => Inv
  <1> SUFFICES ASSUME Init PROVE Inv
    OBVIOUS
  <1>0. Cardinality(Node) \in Nat
    BY PoolAssumption, FS_CardinalityType
  <1>1. NoStatus \in PoolStatus
    BY <1>0, ReasonSet DEF NoStatus, PoolStatus
  <1>2. Fits(NoStatus)
    BY <1>1 DEF Fits, NoStatus
  <1>3. spec \in PoolSpec
    BY ZenonT(30) DEF Init, PoolSpec
  <1>4. node \in [Node -> BootcNode]
    BY PoolAssumption DEF Init, BootcNode, Observation, Active
  <1>5. out \in Announced
    BY ReasonSet DEF Init, NoNews, Announced, Observation
  <1>a. cache \in [spec : PoolSpec, status : PoolStatus, latest : BOOLEAN]
    BY <1>1, <1>3 DEF Init
  <1>b. registry \in [Tag -> Digest \cup {NoDigest}]
    BY PoolAssumption DEF Init
  <1>c. changes \in 0 .. MaxChanges /\ faults \in 0 .. MaxFaults
    BY PoolAssumption DEF Init
  <1>6. TypeOK
    BY ZenonT(30), <1>1, <1>3, <1>4, <1>5, <1>a, <1>b, <1>c DEF Init, TypeOK
  <1>7. Copies
    BY <1>2 DEF Init, Copies
  <1>8. StatusAnnounced
    BY DEF Init, StatusAnnounced, NoStatus
  <1> QED
    BY <1>6, <1>7, <1>8 DEF Inv

\* What a write announces is what it writes.
LEMMA EventsFollow ==
    ASSUME NEW old, NEW new, Fits(old), Fits(new), out \in Announced,
           old.upToDate = "RolloutInProgress" => out.rollout = old.target,
           old.reason # "Healthy" => out.degraded = old.reason
    PROVE  LET o == recordPoolEvents(old, new)
           IN  /\ o \in Announced
               /\ new.upToDate = "RolloutInProgress" => o.rollout = new.target
               /\ new.reason # "Healthy" => o.degraded = new.reason
  <1> DEFINE r == IF RolloutStarts(old, new) THEN new.target
                  ELSE IF RolloutEnds(old, new) THEN NoDigest ELSE out.rollout
             d == IF new.reason # old.reason THEN new.reason ELSE out.degraded
             o == recordPoolEvents(old, new)
  <1>1. o = [out EXCEPT !.rollout = r, !.degraded = d]
    BY DEF recordPoolEvents, Announced
  <1>2. r \in Digest \cup {NoDigest}
    BY DEF Fits, PoolStatus, Announced
  <1>3. d \in Reason
    BY DEF Fits, PoolStatus, Announced
  <1>4. new.upToDate = "RolloutInProgress" => r = new.target
    BY DEF Fits, RolloutStarts, RolloutEnds
  <1>5. new.reason # "Healthy" => d = new.reason
    OBVIOUS
  <1> HIDE DEF r, d
  <1>6. o \in Announced /\ o.rollout = r /\ o.degraded = d
    BY ZenonT(30), <1>1, <1>2, <1>3 DEF Announced
  <1> QED
    BY <1>4, <1>5, <1>6

\* A pass that ends in updatePoolStatus keeps the invariant.
LEMMA UpdateStep ==
    ASSUME Inv, NEW p, FreshPass(p), NEW s, Fits(s), NEW requeue \in BOOLEAN,
           updatePoolStatus(p, s, requeue),
           UNCHANGED world, node' \in [Node -> BootcNode]
    PROVE  Inv'
  <1> USE DEF Inv
  <1>1. rec' = NoPass
    BY DEF updatePoolStatus
  <1>2. faults' \in 0 .. MaxFaults
    BY PoolAssumption DEF TypeOK, updatePoolStatus, Fault
  <1>3. queued' \in BOOLEAN /\ timer' \in BOOLEAN
    BY ZenonT(30) DEF TypeOK, updatePoolStatus
  <1>4. resolved' \in Digest \cup {NoDigest}
    BY DEF TypeOK, updatePoolStatus, FreshPass, Pass
  <1>5. status' \in PoolStatus /\ Fits(status')
    BY DEF TypeOK, updatePoolStatus, Fits, Copies
  <1>6. /\ cache' \in [spec : PoolSpec, status : PoolStatus, latest : BOOLEAN]
        /\ cache'.status = cache.status
        /\ cache'.latest => cache.latest /\ status' = status
    BY ZenonT(30) DEF TypeOK, updatePoolStatus
  <1>7. out' \in Announced /\ lost' \in BOOLEAN /\ StatusAnnounced'
    <2>1. CASE UNCHANGED <<status, news>>
      BY <2>1 DEF TypeOK, StatusAnnounced, news
    <2>2. CASE EventLost
      <3>1. NoNews \in Announced
        BY ReasonSet DEF NoNews, Announced, Observation
      <3> QED
        BY <2>2, <3>1 DEF EventLost, StatusAnnounced
    <2>3. CASE status' = s /\ p.lock /\ Events(recordPoolEvents(p.orig, s))
      <3>1. CASE lost
        BY <2>3, <3>1 DEF Events, StatusAnnounced, TypeOK
      <3>2. CASE ~lost
        BY <2>3, <3>2, EventsFollow DEF Events, StatusAnnounced, TypeOK, FreshPass
      <3> QED
        BY <3>1, <3>2
    <2> QED
      BY <2>1, <2>2, <2>3 DEF updatePoolStatus, news
  <1>8. TypeOK'
    BY <1>1, <1>2, <1>3, <1>4, <1>5, <1>6, <1>7 DEF TypeOK, world
  <1>9. Copies'
    BY <1>1, <1>5, <1>6 DEF Copies
  <1> QED
    BY <1>7, <1>8, <1>9

-----------------------------------------------------------------------------
(* The first half of a pass.                                               *)

LEMMA ObservationType ==
    ASSUME NEW b \in BootcNode, b.desired # NoDigest
    PROVE  nodeObservation(b) \in Observation
  BY DEF nodeObservation, Observation, BootcNode, Active

LEMMA MarkedType ==
    ASSUME NEW b \in BootcNode, b.desired # NoDigest
    PROVE  Marked(b) \in BootcNode
  BY ObservationType DEF Marked, BootcNode

LEMMA NodeEventsType ==
    ASSUME out \in Announced, NEW nodes \in [Node -> BootcNode],
           \A n \in Node : nodes[n].desired # NoDigest
    PROVE  LET o == recordNodeEvents(nodes)
           IN  o \in Announced /\ o.rollout = out.rollout /\ o.degraded = out.degraded
  <1> DEFINE T == {n \in Node : nodeObservation(nodes[n]) # nodes[n].seen /\ nodeEvent(nodes[n])}
             f == [n \in Node |-> IF n \in T THEN nodeObservation(nodes[n]) ELSE out.node[n]]
             a == out.again \/ \E n \in T : out.node[n] = nodeObservation(nodes[n])
             o == recordNodeEvents(nodes)
  <1>1. o = [out EXCEPT !.node = f, !.again = a]
    BY DEF recordNodeEvents, Announced
  <1>2. f \in [Node -> Observation]
    BY ObservationType DEF Announced
  <1>3. a \in BOOLEAN
    BY DEF Announced
  <1> HIDE DEF f, a
  <1> QED
    BY ZenonT(30), <1>1, <1>2, <1>3 DEF Announced

LEMMA SyncStep ==
    ASSUME Inv, NEW p, FreshPass(p), NEW s, Fits(s), s.target # NoDigest,
           syncMembership(p, s), UNCHANGED world
    PROVE  Inv'
  <1> USE DEF Inv
  <1> DEFINE nodes == [n \in Node |-> [node[n] EXCEPT !.desired = s.target]]
  <1>1. nodes \in [Node -> BootcNode] /\ \A n \in Node : nodes[n].desired # NoDigest
    BY DEF TypeOK, BootcNode, Fits, PoolStatus
  <1>2. CASE setInvalidSpecCondition(p, s) /\ UNCHANGED node
    <2>1. Fits(setPoolDegraded(s, "InvalidSpec"))
      BY DegradedKeeps, FitsKept, ReasonSet DEF Fits
    <2>2. node' \in [Node -> BootcNode]
      BY <1>2 DEF TypeOK
    <2> QED
      BY ZenonT(30), <1>2, <2>1, <2>2, UpdateStep DEF setInvalidSpecCondition
  <1>3. ASSUME NEW F \in SUBSET Node,
               node' = [n \in Node |-> IF n \in F THEN nodes[n] ELSE Marked(nodes[n])],
               queued' = (node' # node),
               rec' = [p EXCEPT !.nodes = nodes,
                          !.status = IF "conflict" \in trouble
                                     THEN setPoolDegraded(s, "NodeConflict") ELSE s],
               IF F = {} THEN Events(recordNodeEvents(nodes)) /\ UNCHANGED faults
               ELSE EventLost /\ Fault,
               UNCHANGED <<status, cache, timer, resolved>>
        PROVE  Inv'
    <2> DEFINE t == IF "conflict" \in trouble THEN setPoolDegraded(s, "NodeConflict") ELSE s
    <2>1. Fits(t) /\ t.target # NoDigest
      BY DegradedKeeps, FitsKept, ReasonSet DEF Fits, SameButReason
    <2>2. rec' = [p EXCEPT !.nodes = nodes, !.status = t]
      BY <1>3
    <2> HIDE DEF t
    <2>3. node' \in [Node -> BootcNode]
      <3> HIDE DEF nodes
      <3> QED
        BY <1>1, <1>3, MarkedType
    <2> HIDE DEF nodes
    <2>4. /\ rec' \in Pass /\ rec'.status = t /\ rec'.orig = p.orig /\ rec'.lock = p.lock
      BY ZenonT(30), <1>1, <2>1, <2>2 DEF FreshPass, Pass, Fits
    <2>5. out' \in Announced /\ lost' \in BOOLEAN /\ StatusAnnounced'
      <3>1. CASE F = {}
        <4>1. Events(recordNodeEvents(nodes))
          BY <1>3, <3>1
        <4>2. CASE lost
          BY <1>3, <4>1, <4>2 DEF Events, StatusAnnounced, TypeOK
        <4>3. CASE ~lost
          BY <1>1, <1>3, <4>1, <4>3, NodeEventsType DEF Events, StatusAnnounced, TypeOK
        <4> QED
          BY <4>2, <4>3
      <3>2. CASE F # {}
        <4>1. NoNews \in Announced
          BY ReasonSet DEF NoNews, Announced, Observation
        <4> QED
          BY ZenonT(30), <1>3, <3>2, <4>1 DEF EventLost, StatusAnnounced
      <3> QED
        BY <3>1, <3>2
    <2>6. faults' \in 0 .. MaxFaults
      BY <1>3, PoolAssumption DEF TypeOK, Fault
    <2>7. queued' \in BOOLEAN
      BY <1>3
    <2>8. TypeOK'
      BY <1>3, <2>3, <2>4, <2>5, <2>6, <2>7 DEF TypeOK, world
    <2>9. Copies'
      BY <1>3, <2>1, <2>4 DEF Copies, FreshPass
    <2> QED
      BY <2>5, <2>8, <2>9
  <1>4. ASSUME NEW S \in SUBSET Node, Fault,
               node' = [n \in Node |-> IF n \in S THEN nodes[n] ELSE node[n]],
               rec' = NoPass, queued' = TRUE,
               UNCHANGED <<status, cache, timer, news, resolved>>
        PROVE  Inv'
    <2> HIDE DEF nodes
    <2>1. node' \in [Node -> BootcNode]
      BY <1>1, <1>4 DEF TypeOK
    <2>2. faults' \in 0 .. MaxFaults
      BY <1>4, PoolAssumption DEF TypeOK, Fault
    <2>3. TypeOK'
      BY <1>4, <2>1, <2>2 DEF TypeOK, world, news
    <2>4. Copies' /\ StatusAnnounced'
      BY <1>4 DEF Copies, StatusAnnounced, news
    <2> QED
      BY <2>3, <2>4
  <1> QED
    BY ZenonT(30), <1>2, <1>3, <1>4 DEF syncMembership

LEMMA ProceedStep ==
    ASSUME Inv, NEW p, FreshPass(p), NEW s, Fits(s), NEW requeue \in BOOLEAN,
           NEW d \in Digest \cup {NoDigest}, Proceed(p, s, requeue, d), UNCHANGED world
    PROVE  Inv'
  <1> DEFINE q == [p EXCEPT !.requeue = requeue, !.resolved = d]
  <1>1. FreshPass(q)
    BY ZenonT(30) DEF FreshPass, Pass
  <1>2. CASE s.target = NoDigest
    <2>1. updatePoolStatus(q, s, requeue) /\ UNCHANGED node
      BY <1>2 DEF Proceed
    <2>2. node' \in [Node -> BootcNode]
      BY <2>1 DEF Inv, TypeOK
    <2> HIDE DEF q
    <2> QED
      BY <1>1, <2>1, <2>2, UpdateStep
  <1>3. CASE s.target # NoDigest
    <2>1. syncMembership(q, Cleared(s))
      BY <1>3 DEF Proceed
    <2>2. Fits(Cleared(s)) /\ Cleared(s).target # NoDigest
      BY <1>3, ClearedKeeps, FitsKept DEF Fits, SameButReason
    <2> HIDE DEF q
    <2> QED
      BY <1>1, <2>1, <2>2, SyncStep
  <1> QED
    BY <1>2, <1>3

LEMMA ResolveFits ==
    ASSUME NEW s, Fits(s), NEW d \in Digest \cup {NoDigest}
    PROVE  Fits(Resolve(s, d))
  <1>1. ASSUME NEW t, Fits(t), NEW e \in Digest
        PROVE  /\ Fits([t EXCEPT !.next = "later"])
               /\ Fits([t EXCEPT !.target = e, !.next = "later"])
    BY ZenonT(30), <1>1, PoolAssumption DEF Fits, PoolStatus
  <1>2. /\ Fits(setPoolDegraded(s, "TagResolutionError"))
        /\ Fits(clearPoolDegradedReason(s, "TagResolutionError"))
    BY DegradedKeeps, FitsKept, ReasonSet DEF Fits
  <1>3. CASE d = NoDigest
    BY ZenonT(30), <1>1, <1>2, <1>3, PoolAssumption DEF Resolve
  <1>4. CASE d \in Digest /\ d # NoDigest
    BY ZenonT(30), <1>1, <1>2, <1>4 DEF Resolve
  <1> QED
    BY <1>3, <1>4

LEMMA ReconcileStep ==
    ASSUME Inv, Reconcile
    PROVE  Inv'
  <1> USE DEF Inv
  <1> DEFINE s == cache.status
             p == [spec |-> cache.spec, orig |-> s, status |-> s, lock |-> cache.latest,
                   requeue |-> FALSE, resolved |-> resolved, nodes |-> node]
             c == clearPoolDegradedReason(s, "SecretError")
  <1>1. FreshPass(p) /\ p.spec = cache.spec
    BY DEF FreshPass, Pass, TypeOK, Copies, Fits
  <1>2. UNCHANGED world
    BY DEF Reconcile
  <1>3. Fits(setPoolDegraded(s, "SecretError")) /\ Fits(c)
    BY ZenonT(30), DegradedKeeps, FitsKept, ReasonSet DEF Fits, Copies
  <1>4. \/ updatePoolStatus(p, setPoolDegraded(s, "SecretError"), FALSE) /\ UNCHANGED node
        \/ resolveTargetDigest(p, c)
    BY ZenonT(30) DEF Reconcile
  <1>5. p.spec \in PoolSpec
    BY <1>1 DEF TypeOK
  <1> HIDE DEF p, c
  <1>6. CASE updatePoolStatus(p, setPoolDegraded(s, "SecretError"), FALSE) /\ UNCHANGED node
    <2>1. node' \in [Node -> BootcNode]
      BY <1>6 DEF TypeOK
    <2> QED
      BY ZenonT(30), <1>1, <1>2, <1>3, <1>6, <2>1, UpdateStep
  <1>7. CASE resolveTargetDigest(p, c)
    <2> DEFINE ref == p.spec.ref
    <2>1. CASE setInvalidSpecCondition(p, c) /\ UNCHANGED node
      <3>1. Fits(setPoolDegraded(c, "InvalidSpec"))
        BY <1>3, DegradedKeeps, FitsKept, ReasonSet DEF Fits
      <3>2. node' \in [Node -> BootcNode]
        BY <2>1 DEF TypeOK
      <3> QED
        BY ZenonT(30), <1>1, <1>2, <2>1, <3>1, <3>2, UpdateStep DEF setInvalidSpecCondition
    <2>2. CASE /\ ref \in Digest
               /\ Proceed(p, [clearPoolDegradedReason(c, "TagResolutionError") EXCEPT
                                 !.target = ref, !.next = "none"], FALSE, ref)
      <3> DEFINE t == clearPoolDegradedReason(c, "TagResolutionError")
      <3>1. Fits(t)
        BY <1>3, DegradedKeeps, FitsKept, ReasonSet DEF Fits
      <3> HIDE DEF t
      <3>2. Fits([t EXCEPT !.target = ref, !.next = "none"])
        BY ZenonT(30), <2>2, <3>1, PoolAssumption DEF Fits, PoolStatus
      <3> QED
        BY ZenonT(30), <1>1, <1>2, <2>2, <3>2, ProceedStep DEF t
    <2>3. CASE Proceed(p, c, TRUE, resolved)
      BY ZenonT(30), <1>1, <1>2, <1>3, <2>3, ProceedStep DEF TypeOK
    <2>4. CASE ref \in Tag /\ Proceed(p, Resolve(c, registry[ref]), TRUE, registry[ref])
      <3>1. registry[ref] \in Digest \cup {NoDigest}
        BY <2>4 DEF TypeOK
      <3>2. Fits(Resolve(c, registry[ref]))
        BY <1>3, <3>1, ResolveFits
      <3> QED
        BY ZenonT(30), <1>1, <1>2, <2>4, <3>1, <3>2, ProceedStep
    <2> QED
      BY ZenonT(30), <1>7, <2>1, <2>2, <2>3, <2>4 DEF resolveTargetDigest
  <1> QED
    BY ZenonT(30), <1>4, <1>6, <1>7

LEMMA DriveStep ==
    ASSUME Inv, driveRollout
    PROVE  Inv'
  <1> USE DEF Inv
  <1> DEFINE nodes == rec.nodes
             s == IF InState(nodes, {"Degraded"}) # {}
                  THEN setPoolDegraded(rec.status, "NodeDegraded") ELSE rec.status
             h == IF halted(nodes, s) THEN setPoolDegraded(s, "RolloutHalted") ELSE s
             t == syncPoolStatus(h, rec.spec, nodes)
  <1>1. FreshPass(rec) /\ Fits(rec.status) /\ rec.status.target # NoDigest
    BY DEF driveRollout, Copies
  <1>2. UNCHANGED world /\ node' \in [Node -> BootcNode]
    BY DEF driveRollout, TypeOK
  <1>3. Fits(s) /\ s.target # NoDigest
    BY <1>1, DegradedKeeps, FitsKept, ReasonSet DEF Fits, SameButReason
  <1>4. \/ setInvalidSpecCondition(rec, s)
        \/ updatePoolStatus(rec, t, rec.requeue)
    BY DEF driveRollout
  <1> HIDE DEF s
  <1>5. Fits(h) /\ h.target # NoDigest
    BY <1>3, DegradedKeeps, FitsKept, ReasonSet DEF Fits, SameButReason
  <1> HIDE DEF h
  <1>6. Fits(t)
    BY <1>5, SyncKeeps DEF Fits
  <1> HIDE DEF t
  <1>7. CASE setInvalidSpecCondition(rec, s)
    <2>1. Fits(setPoolDegraded(s, "InvalidSpec"))
      BY <1>3, DegradedKeeps, FitsKept, ReasonSet DEF Fits
    <2> QED
      BY ZenonT(30), <1>1, <1>2, <1>7, <2>1, UpdateStep DEF setInvalidSpecCondition
  <1>8. CASE updatePoolStatus(rec, t, rec.requeue)
    <2>1. rec.requeue \in BOOLEAN
      BY <1>1 DEF FreshPass, Pass
    <2> QED
      BY <1>1, <1>2, <1>6, <1>8, <2>1, UpdateStep
  <1> QED
    BY <1>4, <1>7, <1>8

-----------------------------------------------------------------------------
(* The rest of the world.                                                  *)

\* Steps that leave status, copies and events alone.
LEMMA QuietStep ==
    ASSUME Inv, TypeOK', UNCHANGED <<status, news>>,
           cache'.status = cache.status, cache'.latest => cache.latest,
           \/ rec' = NoPass
           \/ rec' = rec
           \/ rec # NoPass /\ rec' = [rec EXCEPT !.lock = FALSE]
    PROVE  Inv'
  <1> USE DEF Inv
  <1>1. StatusAnnounced'
    BY DEF StatusAnnounced, news
  <1>2. rec' # NoPass => (FreshPass(rec) /\ Fits(rec.status) /\ rec.status.target # NoDigest)'
    BY ZenonT(30) DEF Copies, FreshPass, Pass
  <1>3. Copies'
    BY <1>2 DEF Copies
  <1> QED
    BY <1>1, <1>3

LEMMA StepInv == Inv /\ [Next]_vars => Inv'
  <1> SUFFICES ASSUME Inv, [Next]_vars PROVE Inv'
    OBVIOUS
  <1> USE DEF Inv
  <1>1. CASE Controller
    BY <1>1, ReconcileStep, DriveStep DEF Controller
  <1>2. CASE SeePool \/ ControllerCrash
    <2>1. faults' \in 0 .. MaxFaults
      BY <1>2, PoolAssumption DEF SeePool, ControllerCrash, Fault, TypeOK
    <2>2. cache' = [spec |-> spec, status |-> status, latest |-> TRUE] /\ status' = status
      BY <1>2 DEF SeePool, ControllerCrash
    <2>3. TypeOK'
      BY ZenonT(30), <1>2, <2>1, <2>2 DEF SeePool, ControllerCrash, TypeOK, world, news
    <2>4. Copies'
      BY <1>2, <2>2 DEF SeePool, ControllerCrash, Copies, FreshPass
    <2>5. StatusAnnounced'
      BY <1>2 DEF SeePool, ControllerCrash, StatusAnnounced, news
    <2> QED
      BY <2>3, <2>4, <2>5
  <1>3. CASE ApiError
    <2>1. TypeOK'
      BY <1>3, PoolAssumption DEF ApiError, Fault, TypeOK, world, news
    <2> QED
      BY <1>3, <2>1, QuietStep DEF ApiError, news
  <1>4. CASE TagResolutionDue
    <2>1. status' \in PoolStatus /\ Fits(status')
      BY <1>4 DEF TagResolutionDue, Fits, PoolStatus, Copies
    <2>2. /\ status'.upToDate = status.upToDate /\ status'.target = status.target
          /\ status'.reason = status.reason
      BY <1>4 DEF TagResolutionDue, TypeOK, PoolStatus
    <2>3. /\ cache' \in [spec : PoolSpec, status : PoolStatus, latest : BOOLEAN]
          /\ cache'.status = status'
      BY <1>4, <2>1 DEF TagResolutionDue, TypeOK
    <2>4. TypeOK'
      BY ZenonT(30), <1>4, <2>1, <2>3 DEF TagResolutionDue, TypeOK, world, news
    <2>5. Copies'
      BY <1>4, <2>1, <2>3 DEF TagResolutionDue, Rest, Copies
    <2>6. StatusAnnounced'
      BY <1>4, <2>2 DEF TagResolutionDue, StatusAnnounced, news
    <2> QED
      BY <2>4, <2>5, <2>6
  <1>5. ASSUME NEW n \in Reporting, DaemonReports(n) PROVE Inv'
    <2> DEFINE c == node[n]
               phase == {"Idle", "Staging", "Staged", "Rebooting"}
               step == [Idle |-> "Staging", Staging |-> "Staged", Staged |-> "Rebooting",
                        Rebooting |-> "Idle"]
    <2>1. c \in BootcNode
      BY PoolAssumption DEF TypeOK
    <2>2. ASSUME NEW i \in phase, NEW a \in Digest \cup {NoDigest},
                 NEW d \in Digest
          PROVE  [c EXCEPT !.idle = i, !.about = a] \in BootcNode
                 /\ [c EXCEPT !.idle = i, !.booted = d] \in BootcNode
      BY ZenonT(30), <2>1, <2>2 DEF BootcNode, Active
    <2>3. c.desired \in Digest /\ c.booted \in Digest /\ c.idle \in phase
      BY <1>5, <2>1 DEF BootcNode, Active, DaemonReports
    <2>4. step[c.idle] \in phase
      BY <2>3
    <2>5. PICK b \in BootcNode : Reports(n, b)
      <3> HIDE DEF c, phase, step
      <3>1. "Idle" \in phase /\ "Staging" \in phase
        BY DEF phase
      <3> QED
        BY ZenonT(30), <1>5, <2>2, <2>3, <2>4, <3>1 DEF DaemonReports, c, step
    <2>6. node' \in [Node -> BootcNode]
      BY ZenonT(30), <2>5 DEF Reports, TypeOK
    <2>7. TypeOK'
      BY <1>5, <2>5, <2>6 DEF DaemonReports, Reports, TypeOK, news
    <2> QED
      BY <2>5, <2>7, QuietStep DEF Reports, news
  <1>6. ASSUME NEW S \in SUBSET Node, NEW h \in {"ok", "degraded", "sick", "unready"},
               HealthChanges(S, h)
        PROVE  Inv'
    <2>1. node' \in [Node -> BootcNode]
      BY <1>6 DEF HealthChanges, TypeOK, BootcNode
    <2>2. changes' \in 0 .. MaxChanges
      BY <1>6, PoolAssumption DEF HealthChanges, ChangedBetween, Changed, TypeOK
    <2>3. TypeOK'
      BY <1>6, <2>1, <2>2 DEF HealthChanges, TypeOK, news
    <2> QED
      BY <1>6, <2>3, QuietStep DEF HealthChanges, news
  <1>7. ASSUME NEW new \in PoolSpec, Edit(new) PROVE Inv'
    <2>1. changes' \in 0 .. MaxChanges
      BY <1>7, PoolAssumption DEF Edit, Changed, TypeOK
    <2>2. /\ cache' \in [spec : PoolSpec, status : PoolStatus, latest : BOOLEAN]
          /\ cache'.status = cache.status /\ ~cache'.latest
      BY ZenonT(30), <1>7 DEF Edit, TypeOK
    <2>3. rec' \in Pass \cup {NoPass}
      BY ZenonT(30), <1>7 DEF Edit, TypeOK, Pass
    <2>4. TypeOK'
      BY <1>7, <2>1, <2>2, <2>3 DEF Edit, TypeOK, news
    <2> QED
      BY <1>7, <2>2, <2>4, QuietStep DEF Edit, news
  <1>8. CASE UserEdits
    <2>1. ASSUME NEW r \in Tag \cup Digest PROVE [spec EXCEPT !.ref = r] \in PoolSpec
      BY <2>1 DEF TypeOK, PoolSpec
    <2>2. [spec EXCEPT !.paused = ~@] \in PoolSpec
      BY ZenonT(30) DEF TypeOK, PoolSpec
    <2>3. ASSUME NEW w \in {"none", "ref", "selector", "max"}
          PROVE  [spec EXCEPT !.bad = w] \in PoolSpec
      BY <2>3 DEF TypeOK, PoolSpec
    <2> QED
      BY ZenonT(30), <1>7, <1>8, <2>1, <2>2, <2>3 DEF UserEdits
  <1>9. ASSUME NEW t \in {"secret", "conflict"}, TroubleChanges(t) PROVE Inv'
    <2>1. changes' \in 0 .. MaxChanges
      BY <1>9, PoolAssumption DEF TroubleChanges, ChangedBetween, Changed, TypeOK
    <2>2. TypeOK'
      BY <1>9, <2>1 DEF TroubleChanges, TypeOK, news
    <2> QED
      BY <1>9, <2>2, QuietStep DEF TroubleChanges, news
  <1>10. ASSUME NEW t \in Tag, NEW d \in Digest \cup {NoDigest}, RegistryChanges(t, d) PROVE Inv'
    <2>1. changes' \in 0 .. MaxChanges
      BY <1>10, PoolAssumption DEF RegistryChanges, ChangedBetween, Changed, TypeOK
    <2>2. registry' \in [Tag -> Digest \cup {NoDigest}]
      BY <1>10 DEF RegistryChanges, TypeOK
    <2>3. TypeOK'
      BY <1>10, <2>1, <2>2 DEF RegistryChanges, TypeOK, news
    <2> QED
      BY <1>10, <2>3, QuietStep DEF RegistryChanges, news
  <1>11. CASE UNCHANGED vars
    <2>1. TypeOK'
      BY <1>11 DEF vars, TypeOK
    <2> QED
      BY <1>11, <2>1, QuietStep DEF vars, news
  <1>12. CASE World
    BY <1>4, <1>5, <1>6, <1>8, <1>9, <1>10, <1>12 DEF World
  <1> QED
    BY <1>1, <1>2, <1>3, <1>11, <1>12 DEF Next

LEMMA PoolInvariant == Spec => []Inv
  BY InitInv, StepInv, PTL DEF Spec

\* The type invariant of the pool's status, whatever is edited or fails.
THEOREM PoolTypeCorrect == Spec => []TypeOK
  <1>1. Inv => TypeOK
    BY DEF Inv
  <1> QED
    BY <1>1, PoolInvariant, PTL

\* recordPoolEvents keeps up with updatePoolStatus: a rollout in progress was
\* announced with its present target, and the Degraded condition with its present
\* reason, however old the copies are that the passes read, unless a crash came
\* between a write and its event.
THEOREM EventsKeepUp == Spec => []StatusAnnounced
  <1>1. Inv => StatusAnnounced
    BY DEF Inv
  <1> QED
    BY <1>1, PoolInvariant, PTL

-----------------------------------------------------------------------------
(* What a pass leaves behind: the invariant behind the properties at rest. *)

TRE == "TagResolutionError"

\* resolved against the status: a lookup that failed is reported until one succeeds,
\* and one that succeeded gave the target.
Recorded ==
    /\ resolved = NoDigest =>
          status.reason = TRE \/ (status.target = NoDigest /\ status.next = "none")
    /\ resolved # NoDigest => status.reason # TRE /\ status.target = resolved

\* What the passes that started from this copy of the pool have written since: none
\* of them moved the target away from a digest reference, or reported a failed lookup.
Source(sp, old) ==
    sp.ref \in Digest =>
        /\ old.target = sp.ref => status.target = sp.ref
        /\ old.reason # TRE => status.reason # TRE

\* The status s of pass p and the outcome it will record: it did not look, the
\* reference is a digest, or it looked up a tag that was due.
Outcome(p, s) ==
    \/ /\ p.resolved = resolved
       /\ s.target = p.orig.target /\ s.next = p.orig.next
       /\ s.reason = TRE <=> p.orig.reason = TRE
    \/ p.spec.ref \in Digest /\ p.resolved = p.spec.ref /\ s.target = p.spec.ref /\ s.reason # TRE
    \/ /\ p.spec.ref \in Tag /\ p.orig.next # "later" /\ s.next = "later"
       /\ IF p.resolved = NoDigest THEN s.reason = TRE /\ s.target = p.orig.target
          ELSE s.reason # TRE /\ s.target = p.resolved

\* A pass that still has the lock works from the informer's copy, which is the latest.
Locked(p) == p.lock => cache.latest /\ p.spec = cache.spec /\ p.orig = cache.status

\* All but the annotation.
SameNode(b, c) ==
    /\ b.desired = c.desired /\ b.booted = c.booted /\ b.idle = c.idle /\ b.health = c.health

\* A pass between its two halves.  As long as nothing queued the pool again, what it
\* read is what there is.
Halfway ==
    /\ "secret" \notin trouble /\ rec.spec.bad \notin {"ref", "selector"}
    /\ rec.status.reason \in {TRE, IF "conflict" \in trouble THEN "NodeConflict" ELSE "Healthy"}
    /\ rec.requeue = (rec.spec.ref \in Tag) /\ (rec.requeue => rec.status.next = "later")
    /\ rec.spec.ref \in Digest => rec.status.target = rec.spec.ref
    /\ \A n \in Node : rec.nodes[n].desired = rec.status.target
    /\ Source(rec.spec, rec.orig) /\ Outcome(rec, rec.status) /\ Locked(rec)
    /\ ~queued => /\ rec.spec = cache.spec /\ rec.orig = cache.status
                  /\ \A n \in Node : SameNode(node[n], rec.nodes[n])
                  /\ ~lost => \A n \in Node : node[n].seen = nodeObservation(node[n])

\* The last event of a node is the one its annotation stands for, or neither is
\* about an active state.
Told ==
    ~lost =>
        /\ ~out.again
        /\ \A n \in Node : \/ out.node[n] = node[n].seen
                           \/ out.node[n][1] \notin Active /\ node[n].seen[1] \notin Active

Noted == ~lost /\ WentThrough => \A n \in Node : node[n].seen = nodeObservation(node[n])

\* The properties at rest.
Right == GravestReported /\ CountsRight /\ TargetFollows /\ TagPolled /\ Noted

Settled ==
    /\ Recorded
    /\ cache.latest => cache.spec = spec
    /\ Source(cache.spec, cache.status)
    /\ rec # NoPass => Halfway
    /\ Told
    /\ Right

LEMMA InitSettled == Init => Settled
  <1> SUFFICES ASSUME Init PROVE Settled
    OBVIOUS
  <1>1. status = NoStatus /\ resolved = NoDigest /\ rec = NoPass /\ ~Rest
    BY DEF Init, Rest
  <1>2. Recorded /\ cache.spec = spec /\ Source(cache.spec, cache.status)
    BY <1>1 DEF Init, Recorded, Source, NoStatus, TRE
  <1>3. Told
    BY DEF Init, Told, NoNews, Active
  <1>4. Right
    BY <1>1 DEF Right, GravestReported, CountsRight, TargetFollows, TagPolled, Noted, WentThrough
  <1> QED
    BY <1>1, <1>2, <1>3, <1>4 DEF Settled

-----------------------------------------------------------------------------
(* Reasons.                                                                *)

LEMMA Precedence ==
    /\ poolDegradedPrecedence["Healthy"] = 0 /\ poolDegradedPrecedence["NodeDegraded"] = 1
    /\ poolDegradedPrecedence["SecretError"] = 2 /\ poolDegradedPrecedence["NodeConflict"] = 3
    /\ poolDegradedPrecedence["RolloutHalted"] = 4 /\ poolDegradedPrecedence["InvalidSpec"] = 5
    /\ poolDegradedPrecedence["TagResolutionError"] = 6
  BY DEF poolDegradedPrecedence

LEMMA ReasonSetTo ==
    ASSUME NEW s \in PoolStatus, NEW r \in Reason
    PROVE  /\ setPoolDegraded(s, r).reason =
                 IF poolDegradedPrecedence[r] < poolDegradedPrecedence[s.reason]
                 THEN s.reason ELSE r
           /\ clearPoolDegradedReason(s, r).reason =
                 IF s.reason = r THEN "Healthy" ELSE s.reason
  BY DEF setPoolDegraded, clearPoolDegradedReason, PoolStatus

LEMMA ReasonCleared ==
    ASSUME NEW s \in PoolStatus
    PROVE  Cleared(s).reason =
               IF s.reason \in {"NodeConflict", "NodeDegraded", "RolloutHalted", "InvalidSpec"}
               THEN "Healthy" ELSE s.reason
  <1> DEFINE a == clearPoolDegradedReason(s, "NodeConflict")
             b == clearPoolDegradedReason(a, "NodeDegraded")
             c == clearPoolDegradedReason(b, "RolloutHalted")
             d == clearPoolDegradedReason(c, "InvalidSpec")
  <1>1. a \in PoolStatus /\ a.reason = IF s.reason = "NodeConflict" THEN "Healthy" ELSE s.reason
    BY DegradedKeeps, ReasonSetTo, ReasonSet DEF SameButReason
  <1>2. b \in PoolStatus /\ b.reason = IF a.reason = "NodeDegraded" THEN "Healthy" ELSE a.reason
    BY <1>1, DegradedKeeps, ReasonSetTo, ReasonSet DEF SameButReason
  <1>3. c \in PoolStatus /\ c.reason = IF b.reason = "RolloutHalted" THEN "Healthy" ELSE b.reason
    BY <1>2, DegradedKeeps, ReasonSetTo, ReasonSet DEF SameButReason
  <1>4. d.reason = IF c.reason = "InvalidSpec" THEN "Healthy" ELSE c.reason
    BY <1>3, ReasonSetTo, ReasonSet
  <1>5. Cleared(s) = d
    BY DEF Cleared
  <1> HIDE DEF a, b, c, d
  <1> QED
    BY <1>1, <1>2, <1>3, <1>4, <1>5

\* Only a lookup sets TagResolutionError or takes it away.
LEMMA LookupReasonKept ==
    ASSUME NEW s \in PoolStatus
    PROVE  /\ \A r \in Reason \ {TRE} :
                 /\ setPoolDegraded(s, r).reason = TRE <=> s.reason = TRE
                 /\ clearPoolDegradedReason(s, r).reason = TRE <=> s.reason = TRE
           /\ Cleared(s).reason = TRE <=> s.reason = TRE
  <1>1. s.reason \in Reason
    BY DEF PoolStatus
  <1>2. ASSUME NEW r \in Reason \ {TRE}
        PROVE  /\ setPoolDegraded(s, r).reason = TRE <=> s.reason = TRE
               /\ clearPoolDegradedReason(s, r).reason = TRE <=> s.reason = TRE
    BY <1>1, <1>2, ReasonSetTo, ReasonSet, Precedence DEF TRE
  <1>3. Cleared(s).reason = TRE <=> s.reason = TRE
    BY ReasonCleared DEF TRE
  <1> QED
    BY <1>2, <1>3

LEMMA OutcomeKept ==
    ASSUME NEW p, NEW s, NEW t, Outcome(p, s), t.target = s.target, t.next = s.next,
           t.reason = TRE <=> s.reason = TRE
    PROVE  Outcome(p, t)
  BY DEF Outcome

\* The nodes of a state do not depend on the annotations.
LEMMA SameNodes ==
    ASSUME NEW f, NEW g, \A n \in Node : SameNode(f[n], g[n])
    PROVE  /\ \A states : InState(f, states) = InState(g, states)
           /\ \A t : findUnhealthySlots(f, t) = findUnhealthySlots(g, t)
  <1>1. \A n \in Node : classifyNode(f[n]) = classifyNode(g[n])
    BY DEF SameNode, classifyNode
  <1>2. \A states : InState(f, states) = InState(g, states)
    BY <1>1 DEF InState
  <1>3. \A t : findUnhealthySlots(f, t) = findUnhealthySlots(g, t)
    BY <1>1 DEF findUnhealthySlots, SameNode
  <1> QED
    BY <1>2, <1>3

\* Every node is counted once.
LEMMA CountsAddUp ==
    ASSUME NEW nodes
    PROVE  Cardinality(InState(nodes, {"UpToDate"}))
             + Cardinality(InState(nodes, {"Pending"} \cup Active))
             + Cardinality(InState(nodes, {"Degraded"})) = Cardinality(Node)
  <1> DEFINE A == InState(nodes, {"UpToDate"})
             B == InState(nodes, {"Pending"} \cup Active)
             C == InState(nodes, {"Degraded"})
  <1>1. \A n \in Node : classifyNode(nodes[n])
                            \in {"Degraded", "UpToDate", "Pending"} \cup Active
    BY DEF classifyNode
  <1>2. /\ A \cap B = {} /\ (A \cup B) \cap C = {} /\ (A \cup B) \cup C = Node
    BY <1>1 DEF InState, Active
  <1>3. IsFiniteSet(A) /\ IsFiniteSet(B) /\ IsFiniteSet(C)
    BY <1>2, PoolAssumption, FS_Subset DEF InState
  <1> HIDE DEF A, B, C
  <1>4. IsFiniteSet(A \cup B) /\ Cardinality(A \cup B) = Cardinality(A) + Cardinality(B)
    <2>1. /\ IsFiniteSet(A \cup B)
          /\ Cardinality(A \cup B) = Cardinality(A) + Cardinality(B) - Cardinality(A \cap B)
      BY ZenonT(30), <1>3, FS_Union
    <2>2. Cardinality(A \cap B) = 0
      BY <1>2, FS_EmptySet
    <2>3. Cardinality(A) \in Nat /\ Cardinality(B) \in Nat
      BY <1>3, FS_CardinalityType
    <2> QED
      BY <2>1, <2>2, <2>3
  <1>5. Cardinality(Node) = Cardinality(A \cup B) + Cardinality(C)
    <2>1. Cardinality((A \cup B) \cup C)
             = Cardinality(A \cup B) + Cardinality(C) - Cardinality((A \cup B) \cap C)
      BY ZenonT(30), <1>3, <1>4, FS_Union
    <2>2. Cardinality((A \cup B) \cap C) = 0
      BY <1>2, FS_EmptySet
    <2>3. Cardinality(A \cup B) \in Nat /\ Cardinality(C) \in Nat
      BY <1>3, <1>4, FS_CardinalityType
    <2>4. Cardinality((A \cup B) \cup C) = Cardinality(Node)
      BY <1>2
    <2> QED
      BY <2>1, <2>2, <2>3, <2>4
  <1> QED
    BY <1>3, <1>4, <1>5, FS_CardinalityType DEF A, B, C

-----------------------------------------------------------------------------
(* The end of a pass.                                                      *)

\* What updatePoolStatus does to the outcome and to the copies.
LEMMA UpdateRecords ==
    ASSUME Inv, Settled, NEW p, FreshPass(p), Locked(p), Source(p.spec, p.orig),
           NEW s, Fits(s), Outcome(p, s), NEW requeue \in BOOLEAN,
           updatePoolStatus(p, s, requeue), UNCHANGED <<world, node>>
    PROVE  /\ Recorded'
           /\ (cache.latest => cache.spec = spec)'
           /\ Source(cache.spec, cache.status)'
           /\ Told'
           /\ rec' = NoPass
  <1>1. rec' = NoPass
    BY DEF updatePoolStatus
  <1>2. cache'.spec = cache.spec /\ cache'.status = cache.status /\ (cache'.latest => cache.latest)
    BY DEF updatePoolStatus, Inv, TypeOK
  <1>3. (cache.latest => cache.spec = spec)'
    BY <1>2 DEF Settled, world
  <1>4. Told'
    <2>1. CASE UNCHANGED news
      BY <2>1 DEF Settled, Told, news
    <2>2. CASE EventLost
      BY <2>2 DEF EventLost, Told
    <2>3. CASE Events(recordPoolEvents(p.orig, s))
      <3>1. recordPoolEvents(p.orig, s).node = out.node
            /\ recordPoolEvents(p.orig, s).again = out.again
        BY DEF recordPoolEvents, Inv, TypeOK, Announced
      <3> QED
        BY <2>3, <3>1 DEF Settled, Told, Events
    <2> QED
      BY <2>1, <2>2, <2>3 DEF updatePoolStatus, news
  <1>5. CASE s = p.orig /\ UNCHANGED <<status, cache>> /\ resolved' = p.resolved
    <2>1. p.resolved = resolved => Recorded'
      BY <1>5 DEF Recorded, Settled
    <2>2. /\ p.spec.ref \in Digest /\ p.resolved = p.spec.ref /\ s.target = p.spec.ref
          /\ s.reason # TRE
          => Recorded'
      BY <1>5, PoolAssumption DEF Recorded, Source
    <2>3. Recorded'
      BY <1>5, <2>1, <2>2 DEF Outcome
    <2>4. Source(cache.spec, cache.status)'
      BY <1>5 DEF Settled, Source
    <2> QED
      BY <1>1, <1>3, <1>4, <2>3, <2>4
  <1>6. CASE p.lock /\ status' = s /\ resolved' = p.resolved
    <2>1. p.orig = status /\ p.spec = cache.spec /\ p.orig = cache.status
      BY <1>6 DEF FreshPass, Locked
    <2>2. Recorded'
      BY <1>6, <2>1, PoolAssumption DEF Outcome, Recorded, Settled
    <2>3. Source(cache.spec, cache.status)'
      BY <1>2, <1>6, <2>1, PoolAssumption DEF Outcome, Source, Settled
    <2> QED
      BY <1>1, <1>3, <1>4, <2>2, <2>3
  <1>7. CASE UNCHANGED <<status, cache, resolved>>
    BY <1>1, <1>3, <1>4, <1>7 DEF Recorded, Settled, Source
  <1> QED
    BY <1>5, <1>6, <1>7 DEF updatePoolStatus, Unchanged

\* The pool comes to rest only after a pass that found nothing to write.
LEMMA UpdateRests ==
    ASSUME Inv, Settled, NEW p, FreshPass(p), NEW s, NEW requeue \in BOOLEAN,
           updatePoolStatus(p, s, requeue), UNCHANGED <<world, node>>, Rest'
    PROVE  /\ s = p.orig /\ UNCHANGED <<status, cache, news>>
           /\ timer' = (timer \/ requeue) /\ resolved' = p.resolved
           /\ rec = NoPass \/ ~queued
           /\ cache.latest /\ spec' = cache.spec /\ status = cache.status
  <1>1. ~queued' /\ cache'.latest
    BY DEF Rest
  <1>2. p.lock => cache'.latest = FALSE \/ UNCHANGED <<status, cache, news>>
    BY DEF updatePoolStatus, Inv, TypeOK, FreshPass
  <1>3. /\ s = p.orig /\ UNCHANGED <<status, cache, news>>
        /\ timer' = (timer \/ requeue) /\ resolved' = p.resolved
        /\ queued' = (queued /\ rec # NoPass)
    BY <1>1, ZenonT(30) DEF updatePoolStatus, Unchanged, Inv, TypeOK
  <1>4. cache.latest
    BY <1>1, <1>3
  <1>5. spec' = cache.spec /\ status = cache.status
    BY ZenonT(30), <1>4 DEF Settled, Inv, Copies, world
  <1> QED
    BY ZenonT(60), <1>1, <1>3, <1>4, <1>5

LEMMA NotRestNext ==
    ASSUME ~Rest'
    PROVE  Right'
  BY DEF Right, GravestReported, CountsRight, TargetFollows, TagPolled, Noted, WentThrough

\* Without the early returns the pass left nothing to say but the Degraded reason.
LEMMA RightEarly ==
    ASSUME GravestReported', ~WentThrough'
    PROVE  Right'
  BY DEF Right, CountsRight, TargetFollows, TagPolled, Noted

-----------------------------------------------------------------------------
(* The steps of a pass.                                                    *)

\* A pass as Reconcile starts it, up to the reference.
Begun(p) ==
    /\ FreshPass(p) /\ p.lock = cache.latest
    /\ p.spec = cache.spec /\ p.orig = cache.status
    /\ "secret" \notin trouble /\ p.spec.bad # "ref"

LEMMA BegunFacts ==
    ASSUME Settled, NEW p, Begun(p)
    PROVE  Locked(p) /\ Source(p.spec, p.orig)
  BY DEF Begun, Locked, Settled

\* recordNodeEvents tells of nothing twice and keeps up with the annotations.
LEMMA NodesTold ==
    ASSUME Inv, Told, ~lost, NEW nodes \in [Node -> BootcNode],
           \A n \in Node : nodes[n].seen = node[n].seen,
           \A n \in Node : nodes[n].desired # NoDigest,
           node' = [n \in Node |-> Marked(nodes[n])],
           out' = recordNodeEvents(nodes)
    PROVE  /\ ~out'.again
           /\ \A n \in Node : \/ out'.node[n] = node'[n].seen
                              \/ out'.node[n][1] \notin Active /\ node'[n].seen[1] \notin Active
  <1> DEFINE T == {n \in Node : nodeObservation(nodes[n]) # nodes[n].seen /\ nodeEvent(nodes[n])}
             f == [n \in Node |-> IF n \in T THEN nodeObservation(nodes[n]) ELSE out.node[n]]
             a == out.again \/ \E n \in T : out.node[n] = nodeObservation(nodes[n])
  <1>1. out' = [out EXCEPT !.node = f, !.again = a]
    BY DEF recordNodeEvents, Inv, TypeOK, Announced
  <1>2. out'.node = f /\ out'.again = a
    BY <1>1 DEF Inv, TypeOK, Announced
  <1>3. \A n \in Node : /\ node'[n].seen = nodeObservation(nodes[n])
                        /\ nodeObservation(nodes[n])[1] = nodes[n].idle
    BY DEF Marked, nodeObservation, BootcNode
  <1>4. \A n \in Node : \/ out.node[n] = nodes[n].seen
                        \/ out.node[n][1] \notin Active /\ nodes[n].seen[1] \notin Active
    BY DEF Told
  <1>5. ASSUME NEW n \in T PROVE out.node[n] # nodeObservation(nodes[n])
    BY <1>3, <1>4, <1>5 DEF nodeEvent
  <1>6. ~a
    BY <1>5 DEF Told
  <1>7. ASSUME NEW n \in Node
        PROVE  \/ f[n] = nodeObservation(nodes[n])
               \/ f[n][1] \notin Active /\ nodeObservation(nodes[n])[1] \notin Active
    <2>1. CASE n \in T
      BY <2>1
    <2>2. CASE nodeObservation(nodes[n]) = nodes[n].seen
      BY <1>4, <2>2
    <2>3. CASE ~nodeEvent(nodes[n])
      BY <1>3, <1>4, <2>3 DEF nodeEvent
    <2> QED
      BY ZenonT(60), <2>1, <2>2, <2>3
  <1> HIDE DEF f, a
  <1> QED
    BY <1>2, <1>3, <1>6, <1>7

LEMMA SyncSettles ==
    ASSUME Inv, Inv', Settled, rec = NoPass, NEW p, Begun(p),
           NEW t, Fits(t), t.target # NoDigest, t.reason \in {"Healthy", TRE}, Outcome(p, t),
           p.requeue = (p.spec.ref \in Tag), p.requeue => t.next = "later",
           p.spec.ref \in Digest => t.target = p.spec.ref,
           syncMembership(p, t), UNCHANGED world
    PROVE  Settled'
  <1> DEFINE nodes == [n \in Node |-> [node[n] EXCEPT !.desired = t.target]]
  <1>0. node \in [Node -> BootcNode] /\ out \in Announced /\ lost \in BOOLEAN
    BY DEF Inv, TypeOK
  <1>1. /\ nodes \in [Node -> BootcNode]
        /\ \A n \in Node : /\ nodes[n].desired = t.target
                           /\ nodes[n].seen = node[n].seen
    BY <1>0 DEF BootcNode, Fits, PoolStatus
  <1>2. CASE /\ p.spec.bad = "selector" /\ setInvalidSpecCondition(p, t) /\ UNCHANGED node
    <2> DEFINE u == setPoolDegraded(t, "InvalidSpec")
    <2>1. /\ Fits(u) /\ u.target = t.target /\ u.next = t.next
      BY DegradedKeeps, FitsKept, ReasonSet DEF Fits, SameButReason
    <2>2. u.reason = IF t.reason = TRE THEN TRE ELSE "InvalidSpec"
      BY ReasonSetTo, ReasonSet, Precedence DEF Fits, TRE
    <2>3. Outcome(p, u)
      BY <2>1, <2>2, OutcomeKept DEF TRE
    <2>4. updatePoolStatus(p, u, FALSE)
      BY ZenonT(60), <1>2 DEF setInvalidSpecCondition
    <2> HIDE DEF u
    <2>5. FreshPass(p)
      BY DEF Begun
    <2>6. /\ Recorded' /\ (cache.latest => cache.spec = spec)'
          /\ Source(cache.spec, cache.status)' /\ Told' /\ rec' = NoPass
      BY ZenonT(60), <1>2, <2>1, <2>3, <2>4, <2>5, BegunFacts, UpdateRecords
    <2>7. Right'
      <3> SUFFICES ASSUME Rest' PROVE Right'
        BY NotRestNext
      <3>1. u = p.orig /\ status' = status /\ status = cache.status /\ spec' = cache.spec
        BY ZenonT(60), <1>2, <2>4, <2>5, UpdateRests
      <3>2. status' = u /\ spec'.bad = "selector" /\ "secret" \notin trouble'
        BY <1>2, <3>1 DEF Begun, world
      <3>3. Wrong' = IF resolved' = NoDigest THEN {TRE, "InvalidSpec"} ELSE {"InvalidSpec"}
        BY <3>2 DEF Wrong, TRE
      <3>4. status'.reason = IF resolved' = NoDigest THEN TRE ELSE "InvalidSpec"
        BY <2>1, <2>2, <2>6, <3>2 DEF Recorded, TRE
      <3>5. GravestReported'
        BY <2>1, <3>2, <3>3, <3>4, Precedence DEF GravestReported, TRE
      <3> QED
        BY <3>2, <3>5, RightEarly DEF WentThrough
    <2> QED
      BY <2>6, <2>7 DEF Settled
  <1>3. ASSUME NEW F \in SUBSET Node, p.spec.bad # "selector",
               node' = [n \in Node |-> IF n \in F THEN nodes[n] ELSE Marked(nodes[n])],
               queued' = (node' # node),
               rec' = [p EXCEPT !.nodes = nodes,
                          !.status = IF "conflict" \in trouble
                                     THEN setPoolDegraded(t, "NodeConflict") ELSE t],
               IF F = {} THEN Events(recordNodeEvents(nodes)) /\ UNCHANGED faults
               ELSE EventLost /\ Fault,
               UNCHANGED <<status, cache, timer, resolved>>
        PROVE  Settled'
    <2> DEFINE u == IF "conflict" \in trouble THEN setPoolDegraded(t, "NodeConflict") ELSE t
    <2>1. Fits(u) /\ u.target = t.target /\ u.next = t.next
      BY DegradedKeeps, FitsKept, ReasonSet DEF Fits, SameButReason
    <2>2. /\ (u.reason = TRE <=> t.reason = TRE)
          /\ u.reason \in {TRE, IF "conflict" \in trouble THEN "NodeConflict" ELSE "Healthy"}
      BY ReasonSetTo, ReasonSet, Precedence DEF Fits, TRE
    <2>3. rec' = [p EXCEPT !.nodes = nodes, !.status = u]
      BY <1>3
    <2> HIDE DEF u, nodes
    <2>4. /\ rec'.status = u /\ rec'.orig = p.orig /\ rec'.lock = p.lock /\ rec'.spec = p.spec
          /\ rec'.requeue = p.requeue /\ rec'.resolved = p.resolved /\ rec'.nodes = nodes
      BY <2>3 DEF Begun, FreshPass, Pass
    <2>5. \A n \in Node : SameNode(node'[n], nodes[n]) /\ node'[n].seen =
             IF n \in F THEN node[n].seen ELSE nodeObservation(nodes[n])
      BY <1>1, <1>3 DEF SameNode, Marked, BootcNode
    <2>6. \A n \in Node : nodeObservation(node'[n]) = nodeObservation(nodes[n])
      BY ZenonT(60), <2>5 DEF SameNode, nodeObservation
    <2>7. F # {} => lost'
      BY <1>3 DEF EventLost
    <2>8. Outcome(p, u)
      BY <2>1, <2>2, OutcomeKept
    <2>9. Outcome(rec, rec.status)'
      BY <1>3, <2>4, <2>8 DEF Outcome
    <2>10. Source(rec.spec, rec.orig)' /\ Locked(rec)'
      BY <1>3, <2>4, BegunFacts DEF Source, Locked
    <2>11. Halfway'
      <3>1. "secret" \notin trouble' /\ rec'.spec.bad \notin {"ref", "selector"}
        BY <1>3, <2>4 DEF Begun, world
      <3>2. rec'.status.reason
               \in {TRE, IF "conflict" \in trouble' THEN "NodeConflict" ELSE "Healthy"}
        BY ZenonT(60), <2>2, <2>4 DEF world
      <3>3. /\ rec'.requeue = (rec'.spec.ref \in Tag)
            /\ rec'.requeue => rec'.status.next = "later"
            /\ rec'.spec.ref \in Digest => rec'.status.target = rec'.spec.ref
        BY <2>1, <2>4
      <3>4. \A n \in Node : rec'.nodes[n].desired = rec'.status.target
        BY <1>1, <2>1, <2>4
      <3>5. /\ rec'.spec = cache'.spec /\ rec'.orig = cache'.status
            /\ \A n \in Node : SameNode(node'[n], rec'.nodes[n])
            /\ ~lost' => \A n \in Node : node'[n].seen = nodeObservation(node'[n])
        BY <1>3, <2>4, <2>5, <2>6, <2>7 DEF Begun
      <3> QED
        BY <2>9, <2>10, <3>1, <3>2, <3>3, <3>4, <3>5 DEF Halfway
    <2>12. Told'
      <3>1. CASE lost'
        BY <3>1 DEF Told
      <3>2. CASE ~lost'
        <4>1. F = {} /\ ~lost /\ out' = recordNodeEvents(nodes)
          BY <1>3, <2>7, <3>2 DEF Events
        <4>2. node' = [n \in Node |-> Marked(nodes[n])]
          BY <1>3, <4>1
        <4> QED
          BY ZenonT(60), <1>1, <4>1, <4>2, NodesTold DEF Told, Settled
      <3> QED
        BY <3>1, <3>2
    <2>13. rec' # NoPass
      <3>1. rec'.spec.bad # "ref" /\ rec' \in Pass
        BY <2>3, <1>1, <2>1, ZenonT(30) DEF Begun, FreshPass, Pass, Fits
      <3> QED
        BY <3>1 DEF NoPass, Pass
    <2>14. Recorded' /\ (cache.latest => cache.spec = spec)' /\ Source(cache.spec, cache.status)'
      BY <1>3 DEF Settled, Recorded, Source, world
    <2>15. Right'
      BY <2>13, NotRestNext DEF Rest
    <2> QED
      BY <2>11, <2>12, <2>14, <2>15 DEF Settled
  <1>4. ASSUME NEW S \in SUBSET Node,
               node' = [n \in Node |-> IF n \in S THEN nodes[n] ELSE node[n]],
               rec' = NoPass, queued' = TRUE,
               UNCHANGED <<status, cache, timer, news, resolved>>
        PROVE  Settled'
    <2> HIDE DEF nodes
    <2>1. Told'
      BY <1>1, <1>4 DEF Settled, Told, news
    <2>2. Recorded' /\ (cache.latest => cache.spec = spec)' /\ Source(cache.spec, cache.status)'
      BY ZenonT(60), <1>4 DEF Settled, Recorded, Source, world
    <2>3. Right'
      BY ZenonT(60), <1>4, NotRestNext DEF Rest
    <2> QED
      BY <1>4, <2>1, <2>2, <2>3 DEF Settled
  <1> QED
    BY ZenonT(30), <1>2, <1>3, <1>4 DEF syncMembership

LEMMA ProceedSettles ==
    ASSUME Inv, Inv', Settled, rec = NoPass, NEW p, Begun(p),
           NEW s, Fits(s), s.reason # "SecretError",
           NEW d \in Digest \cup {NoDigest}, NEW requeue \in BOOLEAN,
           Outcome([p EXCEPT !.requeue = requeue, !.resolved = d], s),
           requeue = (p.spec.ref \in Tag), requeue => s.next = "later",
           requeue \/ s.target # NoDigest,
           p.spec.ref \in Digest => s.target = p.spec.ref,
           Proceed(p, s, requeue, d), UNCHANGED world
    PROVE  Settled'
  <1> DEFINE q == [p EXCEPT !.requeue = requeue, !.resolved = d]
  <1>1. Begun(q) /\ q.requeue = requeue /\ q.resolved = d /\ q.spec = p.spec /\ q.orig = p.orig
    BY ZenonT(30) DEF Begun, FreshPass, Pass
  <1>2. Outcome(q, s)
    OBVIOUS
  <1>3. CASE s.target = NoDigest
    <2>1. updatePoolStatus(q, s, requeue) /\ UNCHANGED node
      BY <1>3 DEF Proceed
    <2> HIDE DEF q
    <2>2. /\ Recorded' /\ (cache.latest => cache.spec = spec)'
          /\ Source(cache.spec, cache.status)' /\ Told' /\ rec' = NoPass
      BY ZenonT(60), <1>1, <1>2, <2>1, BegunFacts, UpdateRecords DEF Begun
    <2>3. Right'
      <3> SUFFICES ASSUME Rest' PROVE Right'
        BY NotRestNext
      <3>1. s = q.orig /\ status' = status /\ status = cache.status /\ spec' = cache.spec
        BY ZenonT(60), <1>1, <2>1, UpdateRests DEF Begun
      <3>2. status' = s /\ spec'.bad # "ref" /\ "secret" \notin trouble'
        BY <1>1, <3>1 DEF Begun, world
      <3>3. status'.reason = TRE
        BY <1>3, <2>2, <3>2 DEF Recorded
      <3>4. GravestReported' /\ ~WentThrough'
        BY <1>3, <3>2, <3>3 DEF GravestReported, WentThrough, TRE
      <3> QED
        BY <3>4, RightEarly
    <2> QED
      BY <2>2, <2>3 DEF Settled
  <1>4. CASE s.target # NoDigest
    <2> DEFINE t == Cleared(s)
    <2>1. syncMembership(q, t)
      BY <1>4 DEF Proceed
    <2>2. Fits(t) /\ t.target = s.target /\ t.next = s.next
      BY ClearedKeeps, FitsKept DEF Fits, SameButReason
    <2>3. t.reason = TRE <=> s.reason = TRE
      BY LookupReasonKept DEF Fits
    <2>4. s.reason \in Reason
      BY DEF Fits, PoolStatus
    <2>5. t.reason \in {"Healthy", TRE}
      BY <2>4, ReasonCleared, ReasonSet DEF Fits, TRE
    <2> HIDE DEF q, t
    <2>6. Outcome(q, t)
      BY <1>2, <2>2, <2>3, OutcomeKept
    <2> QED
      BY <1>1, <1>4, <2>1, <2>2, <2>5, <2>6, SyncSettles
  <1> QED
    BY <1>3, <1>4

LEMMA ReconcileSettles ==
    ASSUME Inv, Inv', Settled, Reconcile
    PROVE  Settled'
  <1> DEFINE s == cache.status
             p == [spec |-> cache.spec, orig |-> s, status |-> s, lock |-> cache.latest,
                   requeue |-> FALSE, resolved |-> resolved, nodes |-> node]
             c == clearPoolDegradedReason(s, "SecretError")
             x == setPoolDegraded(s, "SecretError")
  <1>1. /\ FreshPass(p) /\ p.lock = cache.latest /\ p.spec = cache.spec /\ p.orig = s
        /\ p.resolved = resolved /\ p.spec \in PoolSpec
    BY ZenonT(60) DEF FreshPass, Pass, Inv, TypeOK, Copies, Fits
  <1>2. UNCHANGED world /\ rec = NoPass /\ Fits(s) /\ s \in PoolStatus
    BY ZenonT(60) DEF Reconcile, Inv, Copies, Fits
  <1>3. /\ Fits(x) /\ x.target = s.target /\ x.next = s.next /\ (x.reason = TRE <=> s.reason = TRE)
        /\ Fits(c) /\ c.target = s.target /\ c.next = s.next /\ (c.reason = TRE <=> s.reason = TRE)
    <2>1. "SecretError" \in Reason \ {TRE}
      BY ReasonSet DEF TRE
    <2>2. SameButReason(s, x) /\ SameButReason(s, c)
      BY <1>2, <2>1, DegradedKeeps
    <2>3. Fits(x) /\ Fits(c)
      BY <1>2, <2>2, FitsKept
    <2>4. (x.reason = TRE <=> s.reason = TRE) /\ (c.reason = TRE <=> s.reason = TRE)
      BY <1>2, <2>1, LookupReasonKept
    <2> QED
      BY <2>2, <2>3, <2>4 DEF SameButReason
  <1>4. /\ c.reason # "SecretError"
        /\ poolDegradedPrecedence[x.reason] >= poolDegradedPrecedence["SecretError"]
    <2>1. s.reason \in Reason
      BY <1>2 DEF PoolStatus
    <2> QED
      BY <1>2, <2>1, ReasonSetTo, ReasonSet, Precedence
  <1>5. \/ "secret" \in trouble /\ updatePoolStatus(p, x, FALSE) /\ UNCHANGED node
        \/ "secret" \notin trouble /\ resolveTargetDigest(p, c)
    BY ZenonT(30) DEF Reconcile
  <1>6. Locked(p) /\ Source(p.spec, p.orig)
    BY <1>1 DEF Locked, Settled
  <1> HIDE DEF p, c, x
  <1>7. Outcome(p, x) /\ Outcome(p, c)
    BY <1>1, <1>3 DEF Outcome
  <1>8. CASE "secret" \in trouble /\ updatePoolStatus(p, x, FALSE) /\ UNCHANGED node
    <2>1. /\ Recorded' /\ (cache.latest => cache.spec = spec)'
          /\ Source(cache.spec, cache.status)' /\ Told' /\ rec' = NoPass
      BY ZenonT(60), <1>1, <1>2, <1>3, <1>6, <1>7, <1>8, UpdateRecords
    <2>2. Right'
      <3> SUFFICES ASSUME Rest' PROVE Right'
        BY NotRestNext
      <3>1. x = p.orig /\ status' = status /\ status = cache.status
        BY ZenonT(60), <1>1, <1>2, <1>8, UpdateRests
      <3>2. status' = x /\ "secret" \in trouble'
        BY <1>1, <1>2, <1>8, <3>1 DEF world
      <3>3. GravestReported' /\ ~WentThrough'
        BY <1>4, <3>2 DEF GravestReported, WentThrough
      <3> QED
        BY <3>3, RightEarly
    <2> QED
      BY <2>1, <2>2 DEF Settled
  <1>9. CASE "secret" \notin trouble /\ resolveTargetDigest(p, c)
    <2> DEFINE ref == p.spec.ref
    <2>1. CASE p.spec.bad = "ref" /\ setInvalidSpecCondition(p, c) /\ UNCHANGED node
      <3> DEFINE u == setPoolDegraded(c, "InvalidSpec")
      <3>1. /\ Fits(u) /\ u.target = c.target /\ u.next = c.next /\ (u.reason = TRE <=> c.reason = TRE)
        BY ZenonT(60), <1>3, DegradedKeeps, FitsKept, ReasonSet, LookupReasonKept DEF SameButReason, TRE, Fits
      <3>2. u.reason \in {"InvalidSpec", "TagResolutionError"}
        <4>1. c.reason \in Reason /\ c \in PoolStatus
          BY <1>3 DEF Fits, PoolStatus
        <4> QED
          BY <4>1, ReasonSetTo, ReasonSet, Precedence
      <3>3. updatePoolStatus(p, u, FALSE)
        BY ZenonT(60), <2>1 DEF setInvalidSpecCondition
      <3> HIDE DEF u
      <3>4. Outcome(p, u)
        BY <1>7, <3>1, OutcomeKept
      <3>5. /\ Recorded' /\ (cache.latest => cache.spec = spec)'
            /\ Source(cache.spec, cache.status)' /\ Told' /\ rec' = NoPass
        BY ZenonT(60), <1>1, <1>2, <1>6, <2>1, <3>1, <3>3, <3>4, UpdateRecords
      <3>6. Right'
        <4> SUFFICES ASSUME Rest' PROVE Right'
          BY NotRestNext
        <4>1. u = p.orig /\ status' = status /\ status = cache.status /\ spec' = cache.spec
          BY ZenonT(60), <1>1, <1>2, <2>1, <3>3, UpdateRests
        <4>2. status' = u /\ spec'.bad = "ref" /\ "secret" \notin trouble'
          BY ZenonT(60), <1>1, <1>2, <1>9, <2>1, <4>1 DEF world
        <4>3. GravestReported' /\ ~WentThrough'
          BY <3>2, <4>2 DEF GravestReported, WentThrough
        <4> QED
          BY <4>3, RightEarly
      <3> QED
        BY <3>5, <3>6 DEF Settled
    <2>2. ASSUME p.spec.bad # "ref" PROVE Begun(p)
      BY <1>1, <1>9, <2>2 DEF Begun
    <2>3. /\ ref \in Tag \cup Digest /\ (ref \in Digest => ref \notin Tag)
          /\ ref \in Tag => ref \notin Digest
      BY <1>1, PoolAssumption DEF PoolSpec
    <2>4. ASSUME NEW d, NEW r PROVE LET q == [p EXCEPT !.requeue = r, !.resolved = d]
                                    IN  q.orig = s /\ q.resolved = d /\ q.spec.ref = ref
      BY <1>1 DEF FreshPass, Pass
    <2>5. CASE /\ p.spec.bad # "ref" /\ ref \in Digest
               /\ Proceed(p, [clearPoolDegradedReason(c, "TagResolutionError") EXCEPT
                                 !.target = ref, !.next = "none"], FALSE, ref)
      <3> DEFINE t == clearPoolDegradedReason(c, "TagResolutionError")
                 u == [t EXCEPT !.target = ref, !.next = "none"]
      <3>1. Fits(t) /\ t.reason \notin {TRE, "SecretError"}
        <4>1. TRE \in Reason /\ TRE = "TagResolutionError" /\ c \in PoolStatus
          BY <1>3, ReasonSet DEF TRE, Fits
        <4>2. Fits(t)
          BY <1>3, <4>1, DegradedKeeps, FitsKept
        <4>3. t.reason = IF c.reason = TRE THEN "Healthy" ELSE c.reason
          BY <4>1, ReasonSetTo
        <4> QED
          BY <1>4, <4>1, <4>2, <4>3
      <3> HIDE DEF t
      <3>2. Fits(u) /\ u.target = ref /\ u.reason = t.reason
        BY ZenonT(30), <2>5, <3>1, PoolAssumption DEF Fits, PoolStatus
      <3>3. Proceed(p, u, FALSE, ref)
        BY ZenonT(60), <2>5 DEF t
      <3> HIDE DEF u
      <3>4. Outcome([p EXCEPT !.requeue = FALSE, !.resolved = ref], u)
        BY <2>4, <2>5, <3>1, <3>2 DEF Outcome
      <3>5. ref # NoDigest /\ ref \in Digest \cup {NoDigest} /\ (ref \in Tag) = FALSE
        BY <2>3, <2>5, PoolAssumption
      <3>6. u.reason # "SecretError" /\ u.target # NoDigest
        BY <3>1, <3>2, <3>5
      <3> QED
        BY ZenonT(60), <1>2, <2>2, <2>3, <2>5, <3>2, <3>3, <3>4, <3>5, <3>6, ProceedSettles
    <2>6. CASE /\ p.spec.bad # "ref" /\ ref \in Tag /\ c.next = "later"
               /\ Proceed(p, c, TRUE, resolved)
      <3>1. Outcome([p EXCEPT !.requeue = TRUE, !.resolved = resolved], c)
        BY <1>3, <2>4 DEF Outcome
      <3>2. resolved \in Digest \cup {NoDigest}
        BY DEF Inv, TypeOK
      <3> QED
        BY ZenonT(60), <1>2, <1>3, <1>4, <2>2, <2>3, <2>6, <3>1, <3>2, ProceedSettles
    <2>7. CASE /\ p.spec.bad # "ref" /\ ref \in Tag /\ c.next # "later"
               /\ Proceed(p, Resolve(c, registry[ref]), TRUE, registry[ref])
      <3> DEFINE d == registry[ref]
                 u == Resolve(c, d)
      <3>1. d \in Digest \cup {NoDigest}
        BY <2>7 DEF Inv, TypeOK
      <3>2. Fits(u)
        BY <1>3, <3>1, ResolveFits
      <3>3. c \in PoolStatus /\ c.reason \in Reason
        BY <1>3 DEF Fits, PoolStatus
      <3>4. /\ u.next = "later"
            /\ IF d = NoDigest THEN u.reason = TRE /\ u.target = c.target
               ELSE u.reason \notin {TRE, "SecretError"} /\ u.target = d
        <4>1. CASE d = NoDigest
          <5> DEFINE v == setPoolDegraded(c, "TagResolutionError")
          <5>1. v \in PoolStatus /\ v.target = c.target /\ v.reason = TRE
            <6>1. TRE \in Reason /\ TRE = "TagResolutionError"
              BY ReasonSet DEF TRE
            <6>2. v \in PoolStatus /\ v.target = c.target
              BY <3>3, <6>1, DegradedKeeps DEF SameButReason
            <6>3. ~(poolDegradedPrecedence[TRE] < poolDegradedPrecedence[c.reason])
              BY <3>3, ReasonSet, Precedence DEF TRE
            <6>4. v.reason = TRE
              BY <3>3, <6>1, <6>3, ReasonSetTo
            <6> QED
              BY <6>2, <6>4
          <5>2. u = [v EXCEPT !.next = "later"]
            BY <4>1 DEF Resolve
          <5> HIDE DEF v, u
          <5> QED
            BY <4>1, <5>1, <5>2 DEF PoolStatus
        <4>2. CASE d # NoDigest
          <5> DEFINE v == clearPoolDegradedReason(c, "TagResolutionError")
          <5>1. v \in PoolStatus /\ v.reason \notin {TRE, "SecretError"}
            BY ZenonT(60), <1>4, <3>3, DegradedKeeps, ReasonSetTo, ReasonSet DEF SameButReason, TRE
          <5>2. u = [v EXCEPT !.target = d, !.next = "later"]
            BY <4>2 DEF Resolve
          <5> HIDE DEF v, u
          <5> QED
            BY <4>2, <5>1, <5>2 DEF PoolStatus
        <4> QED
          BY <4>1, <4>2
      <3>5. Proceed(p, u, TRUE, d)
        BY ZenonT(60), <2>7
      <3> HIDE DEF u, d
      <3>6. Outcome([p EXCEPT !.requeue = TRUE, !.resolved = d], u)
        BY <1>3, <2>4, <2>7, <3>4 DEF Outcome
      <3>7. u.reason # "SecretError"
        BY <3>4 DEF TRE
      <3> QED
        BY ZenonT(60), <1>2, <2>2, <2>3, <2>7, <3>1, <3>2, <3>4, <3>5, <3>6, <3>7, ProceedSettles
    <2> QED
      BY ZenonT(30), <1>9, <2>1, <2>5, <2>6, <2>7 DEF resolveTargetDigest
  <1> QED
    BY ZenonT(30), <1>5, <1>8, <1>9

LEMMA DriveSettles ==
    ASSUME Inv, Inv', Settled, driveRollout
    PROVE  Settled'
  <1> DEFINE nodes == rec.nodes
             deg == InState(nodes, {"Degraded"}) # {}
             s == IF deg THEN setPoolDegraded(rec.status, "NodeDegraded") ELSE rec.status
             hal == halted(nodes, s)
             h == IF hal THEN setPoolDegraded(s, "RolloutHalted") ELSE s
             bad == badMax(rec.spec, nodes, s)
             t == syncPoolStatus(h, rec.spec, nodes)
             u == setPoolDegraded(s, "InvalidSpec")
             base == IF "conflict" \in trouble THEN "NodeConflict" ELSE "Healthy"
  <1>1. /\ rec # NoPass /\ FreshPass(rec) /\ Fits(rec.status) /\ rec.status.target # NoDigest
        /\ Halfway /\ rec.status.reason \in {TRE, base}
    BY ZenonT(60) DEF driveRollout, Inv, Copies, Settled, Halfway
  <1>2. UNCHANGED <<world, node>> /\ rec.requeue \in BOOLEAN
    BY ZenonT(60), <1>1 DEF driveRollout, FreshPass, Pass
  <1>3. \/ bad /\ updatePoolStatus(rec, u, FALSE)
        \/ ~bad /\ updatePoolStatus(rec, t, rec.requeue)
    BY ZenonT(60) DEF driveRollout, setInvalidSpecCondition
  <1>4. bad => ~hal
    BY DEF badMax
  <1>5. /\ Fits(s) /\ s.target = rec.status.target /\ s.next = rec.status.next
        /\ s.reason = IF deg /\ rec.status.reason = "Healthy" THEN "NodeDegraded"
                      ELSE rec.status.reason
    <2>1. "NodeDegraded" \in Reason /\ rec.status \in PoolStatus
      BY <1>1, ReasonSet DEF Fits
    <2>2. CASE deg
      <3>1. s = setPoolDegraded(rec.status, "NodeDegraded")
        BY <2>2
      <3>2. SameButReason(rec.status, s)
        BY <2>1, <3>1, DegradedKeeps
      <3>3. s.reason = IF poolDegradedPrecedence["NodeDegraded"]
                               < poolDegradedPrecedence[rec.status.reason]
                       THEN rec.status.reason ELSE "NodeDegraded"
        BY <2>1, <3>1, ReasonSetTo
      <3> HIDE DEF s, deg
      <3>4. Fits(s)
        BY <1>1, <3>2, FitsKept
      <3> QED
        BY <1>1, <2>2, <3>2, <3>3, <3>4, Precedence DEF SameButReason, TRE
    <2>3. CASE ~deg
      BY <1>1, <2>3
    <2> QED
      BY <2>2, <2>3
  <1> HIDE DEF s
  <1>6. /\ Fits(h) /\ h.target = s.target /\ h.next = s.next
        /\ h.reason = IF hal /\ s.reason # TRE THEN "RolloutHalted" ELSE s.reason
    <2>1. "RolloutHalted" \in Reason /\ s \in PoolStatus
      BY <1>5, ReasonSet DEF Fits
    <2>2. CASE hal
      <3>1. h = setPoolDegraded(s, "RolloutHalted")
        BY <2>2
      <3>2. SameButReason(s, h)
        BY <2>1, <3>1, DegradedKeeps
      <3>3. h.reason = IF poolDegradedPrecedence["RolloutHalted"]
                               < poolDegradedPrecedence[s.reason]
                       THEN s.reason ELSE "RolloutHalted"
        BY <2>1, <3>1, ReasonSetTo
      <3> HIDE DEF h, hal, deg
      <3>4. Fits(h)
        BY <1>5, <3>2, FitsKept
      <3> QED
        BY <1>1, <1>5, <2>2, <3>2, <3>3, <3>4, Precedence DEF SameButReason, TRE
    <2>3. CASE ~hal
      BY <1>5, <2>3
    <2> QED
      BY <2>2, <2>3
  <1> HIDE DEF h
  <1>7. /\ Fits(u) /\ u.target = s.target /\ u.next = s.next
        /\ u.reason = IF s.reason = TRE THEN TRE ELSE "InvalidSpec"
    <2>1. "InvalidSpec" \in Reason /\ s \in PoolStatus
      BY <1>5, ReasonSet DEF Fits
    <2>2. SameButReason(s, u)
      BY <2>1, DegradedKeeps
    <2>3. u.reason = IF poolDegradedPrecedence["InvalidSpec"] < poolDegradedPrecedence[s.reason]
                     THEN s.reason ELSE "InvalidSpec"
      BY <2>1, ReasonSetTo
    <2> HIDE DEF u, deg
    <2>4. Fits(u)
      BY <1>5, <2>2, FitsKept
    <2> QED
      BY <1>1, <1>5, <2>2, <2>3, <2>4, Precedence DEF SameButReason, TRE
  <1> HIDE DEF u
  <1>8. /\ Fits(t) /\ t.target = h.target /\ t.next = h.next /\ t.reason = h.reason
        /\ t.updated = Cardinality(InState(nodes, {"UpToDate"}))
        /\ t.updating = Cardinality(InState(nodes, {"Pending"} \cup Active))
        /\ t.degraded = Cardinality(InState(nodes, {"Degraded"}))
        /\ t.upToDate = syncUpToDateCondition(rec.spec, nodes)
        /\ InState(nodes, {"UpToDate"}) = Node => t.deployed = h.target
    <2>1. Fits(t)
      BY <1>1, <1>5, <1>6, SyncKeeps DEF Fits
    <2> QED
      BY <1>6, <2>1 DEF syncPoolStatus, Fits, PoolStatus
  <1> HIDE DEF t, deg, hal, bad
  <1>9. Outcome(rec, u) /\ Outcome(rec, t)
    <2>1. (u.reason = TRE <=> rec.status.reason = TRE) /\ (t.reason = TRE <=> rec.status.reason = TRE)
      BY <1>1, <1>5, <1>6, <1>7, <1>8 DEF TRE
    <2> QED
      BY ZenonT(60), <1>1, <1>5, <1>6, <1>7, <1>8, <2>1, OutcomeKept DEF Halfway
  <1>10. PICK v \in {u, t}, rq \in BOOLEAN :
            /\ updatePoolStatus(rec, v, rq)
            /\ \/ bad /\ v = u
               \/ ~bad /\ v = t /\ rq = rec.requeue
    <2>1. CASE bad /\ updatePoolStatus(rec, u, FALSE)
      <3>1. FALSE \in BOOLEAN
        OBVIOUS
      <3> QED
        BY ZenonT(30), <2>1, <3>1
    <2>2. CASE ~bad /\ updatePoolStatus(rec, t, rec.requeue)
      BY ZenonT(30), <1>2, <2>2
    <2> QED
      BY ZenonT(60), <1>3, <2>1, <2>2
  <1>11. /\ Recorded' /\ (cache.latest => cache.spec = spec)'
         /\ Source(cache.spec, cache.status)' /\ Told' /\ rec' = NoPass
    BY ZenonT(60), <1>1, <1>2, <1>7, <1>8, <1>9, <1>10, UpdateRecords DEF Halfway
  <1>12. Right'
    <2> SUFFICES ASSUME Rest' PROVE Right'
      BY NotRestNext
    <2>1. /\ v = rec.orig /\ UNCHANGED <<status, cache, news>>
          /\ timer' = (timer \/ rq) /\ resolved' = rec.resolved
          /\ ~queued /\ spec' = cache.spec /\ status = cache.status
      BY <1>1, <1>2, <1>10, UpdateRests
    <2>2. /\ rec.spec = cache.spec /\ rec.orig = cache.status
          /\ \A n \in Node : SameNode(node[n], rec.nodes[n])
          /\ ~lost => \A n \in Node : node[n].seen = nodeObservation(node[n])
      BY ZenonT(60), <1>1, <2>1 DEF Halfway
    <2>3. status' = v /\ spec' = rec.spec /\ status'.target = s.target
      BY ZenonT(60), <1>6, <1>7, <1>8, <1>10, <2>1, <2>2
    <2>4. /\ \A states : InState(node', states) = InState(nodes, states)
          /\ \A x : findUnhealthySlots(node', x) = findUnhealthySlots(nodes, x)
      BY ZenonT(60), <1>2, <2>2, SameNodes
    <2>5. halted(node', status') = hal
      BY ZenonT(60), <2>3, <2>4 DEF halted, hal
    <2>6. badMax(spec', node', status') = bad
      BY <2>3, <2>5 DEF badMax, bad, hal
    <2>7. "secret" \notin trouble' /\ spec'.bad \notin {"ref", "selector"}
      BY ZenonT(60), <1>1, <1>2, <2>3 DEF Halfway, world
    <2>8. status'.target # NoDigest /\ status'.target = rec.status.target
      BY <1>1, <1>5, <2>3
    <2>9. GravestReported'
      <3> DEFINE W == (IF resolved' = NoDigest THEN {TRE} ELSE {})
                      \cup (IF "conflict" \in trouble THEN {"NodeConflict"} ELSE {})
                      \cup (IF deg THEN {"NodeDegraded"} ELSE {})
                      \cup (IF hal THEN {"RolloutHalted"} ELSE {})
                      \cup (IF bad THEN {"InvalidSpec"} ELSE {})
      <3>1. Wrong' = W
        BY <1>2, <2>4, <2>5, <2>6, <2>7 DEF Wrong, deg, world, TRE
      <3>2. status'.reason = TRE <=> resolved' = NoDigest
        BY <1>11, <2>8 DEF Recorded
      <3>3. status'.reason = IF rec.status.reason = TRE THEN TRE
                             ELSE IF bad THEN "InvalidSpec"
                             ELSE IF hal THEN "RolloutHalted"
                             ELSE IF rec.status.reason = "NodeConflict" THEN "NodeConflict"
                             ELSE IF deg THEN "NodeDegraded" ELSE "Healthy"
        BY ZenonT(60), <1>1, <1>5, <1>6, <1>7, <1>8, <1>10, <2>3 DEF TRE
      <3>4. \/ W = {} /\ status'.reason = "Healthy"
            \/ /\ status'.reason \in W
               /\ \A r \in W : poolDegradedPrecedence[r] <= poolDegradedPrecedence[status'.reason]
        BY <1>1, <1>4, <3>2, <3>3, Precedence DEF TRE
      <3> HIDE DEF W
      <3> QED
        BY <2>7, <2>8, <3>1, <3>4 DEF GravestReported
    <2>10. CountsRight'
      <3> SUFFICES ASSUME ~bad PROVE CountsRight'
        BY <2>6 DEF CountsRight
      <3>1. status' = t
        BY <1>10, <2>3
      <3>2. syncUpToDateCondition(spec', node') = syncUpToDateCondition(rec.spec, nodes)
        BY <2>3, <2>4 DEF syncUpToDateCondition
      <3>3. /\ status'.updated = Cardinality(InState(node', {"UpToDate"}))
            /\ status'.updated + status'.updating + status'.degraded = Cardinality(Node)
            /\ status'.upToDate = syncUpToDateCondition(spec', node')
        BY <1>8, <2>4, <3>1, <3>2, CountsAddUp
      <3>4. ASSUME status'.upToDate = "AllUpdated"
            PROVE  /\ status'.deployed = status'.target
                   /\ \A n \in Node : node'[n].booted = status'.target
        <4>1. InState(nodes, {"UpToDate"}) = Node
          BY <1>8, <3>1, <3>4 DEF syncUpToDateCondition
        <4>2. \A n \in Node : classifyNode(nodes[n]) = "UpToDate"
          BY <4>1 DEF InState
        <4>3. \A n \in Node : nodes[n].booted = nodes[n].desired
          BY <4>2, <1>1 DEF classifyNode, FreshPass, Pass, BootcNode, Active
        <4>4. \A n \in Node : nodes[n].desired = rec.status.target
          BY ZenonT(60), <1>1 DEF Halfway
        <4>5. \A n \in Node : node'[n].booted = nodes[n].booted
          BY <1>2, <2>2 DEF SameNode
        <4> QED
          BY <1>8, <2>8, <3>1, <4>1, <4>3, <4>4, <4>5
      <3> QED
        BY <3>3, <3>4 DEF CountsRight
    <2>11. TargetFollows'
      <3>1. \A n \in Node : node'[n].desired = status'.target
        BY ZenonT(60), <1>1, <1>2, <2>2, <2>8 DEF Halfway, SameNode
      <3>2. resolved' # NoDigest => status'.target = resolved'
        BY <1>11 DEF Recorded
      <3>3. spec'.ref \in Digest => status'.target = spec'.ref
        BY ZenonT(60), <1>1, <2>3, <2>8 DEF Halfway
      <3> QED
        BY <3>1, <3>2, <3>3 DEF TargetFollows
    <2>12. TagPolled'
      <3>1. ASSUME spec'.ref \in Tag, ~bad PROVE timer' /\ status'.next = "later"
        <4>1. rec.requeue = TRUE /\ rec.status.next = "later"
          BY ZenonT(60), <1>1, <2>3, <3>1 DEF Halfway
        <4>2. v = t /\ rq = TRUE
          BY <1>10, <3>1, <4>1
        <4> QED
          BY ZenonT(60), <1>5, <1>6, <1>8, <2>1, <2>3, <4>1, <4>2
      <3> QED
        BY <2>6, <3>1 DEF TagPolled
    <2>13. Noted'
      BY ZenonT(60), <1>2, <2>1, <2>2 DEF Noted, news
    <2> QED
      BY <2>9, <2>10, <2>11, <2>12, <2>13 DEF Right
  <1> QED
    BY <1>11, <1>12 DEF Settled

-----------------------------------------------------------------------------
(* The rest of the world.                                                  *)

\* Steps that leave status, outcome, events and annotations alone.
LEMMA QuietSettles ==
    ASSUME Settled, UNCHANGED <<status, resolved, news>>,
           cache'.spec = cache.spec, cache'.status = cache.status,
           cache'.latest => cache.latest /\ spec' = spec,
           \A n \in Node : node'[n].seen = node[n].seen,
           rec' # NoPass => Halfway', Right'
    PROVE  Settled'
  <1>1. Recorded' /\ Source(cache.spec, cache.status)' /\ (cache.latest => cache.spec = spec)'
    BY DEF Settled, Recorded, Source
  <1>2. Told'
    BY DEF Settled, Told, news
  <1> QED
    BY <1>1, <1>2 DEF Settled

\* A pass goes on while the pool is queued again.
LEMMA HalfwayQueued ==
    ASSUME Settled, rec # NoPass, UNCHANGED <<status, resolved, trouble, rec>>, queued' = TRUE,
           rec.lock => UNCHANGED cache
    PROVE  Halfway'
  BY ZenonT(60) DEF Settled, Halfway, Source, Outcome, Locked

LEMMA StepSettled == Inv /\ Inv' /\ Settled /\ [Next]_vars => Settled'
  <1> SUFFICES ASSUME Inv, Inv', Settled, [Next]_vars PROVE Settled'
    OBVIOUS
  <1>1. CASE Controller
    BY <1>1, ReconcileSettles, DriveSettles DEF Controller
  <1>2. CASE SeePool \/ ControllerCrash
    <2>1. /\ cache' = [spec |-> spec, status |-> status, latest |-> TRUE]
          /\ queued' = TRUE /\ UNCHANGED <<world, node, status, news, resolved>>
      BY <1>2 DEF SeePool, ControllerCrash
    <2>2. Right'
      BY <2>1, NotRestNext DEF Rest
    <2>3. /\ Recorded' /\ (cache.latest => cache.spec = spec)' /\ Source(cache.spec, cache.status)'
          /\ Told'
      BY ZenonT(60), <2>1 DEF Settled, Recorded, Source, Told, world, news
    <2>4. rec' # NoPass => Halfway'
      <3>1. CASE ControllerCrash
        BY <3>1 DEF ControllerCrash
      <3>2. CASE SeePool
        <4> SUFFICES ASSUME rec # NoPass PROVE Halfway'
          BY <3>2 DEF SeePool
        <4>1. ~rec.lock
          BY ZenonT(60), <3>2 DEF SeePool, Settled, Halfway, Locked
        <4> QED
          BY <2>1, <3>2, <4>1, HalfwayQueued DEF SeePool, world
      <3> QED
        BY <1>2, <3>1, <3>2
    <2> QED
      BY <2>2, <2>3, <2>4 DEF Settled
  <1>3. CASE ApiError
    <2>1. Right'
      BY <1>3, NotRestNext DEF ApiError, Rest
    <2> QED
      BY <1>3, <2>1, QuietSettles DEF ApiError, world
  <1>4. CASE TagResolutionDue
    <2>1. /\ rec = NoPass /\ rec' = NoPass /\ Rest /\ status.next = "later"
          /\ UNCHANGED <<world, node, news, resolved>>
      BY <1>4 DEF TagResolutionDue, Rest
    <2>2. /\ status'.next = "due" /\ status'.target = status.target
          /\ status'.reason = status.reason /\ status'.upToDate = status.upToDate
          /\ status'.updated = status.updated /\ status'.updating = status.updating
          /\ status'.degraded = status.degraded /\ status'.deployed = status.deployed
      BY <1>4 DEF TagResolutionDue, Inv, TypeOK, PoolStatus
    <2>3. cache'.spec = cache.spec /\ cache'.status = status' /\ cache'.latest = cache.latest
      BY <1>4 DEF TagResolutionDue, Inv, TypeOK
    <2>4. Recorded' /\ (cache.latest => cache.spec = spec)' /\ Source(cache.spec, cache.status)'
      BY <2>1, <2>2, <2>3 DEF Settled, Recorded, Source, world
    <2>5. Told'
      BY <2>1 DEF Settled, Told, news
    <2>6. Right'
      <3> SUFFICES ASSUME Rest' PROVE Right'
        BY NotRestNext
      <3>1. /\ halted(node', status') = halted(node, status)
            /\ badMax(spec', node', status') = badMax(spec, node, status)
            /\ syncUpToDateCondition(spec', node') = syncUpToDateCondition(spec, node)
            /\ spec' = spec /\ trouble' = trouble /\ node' = node /\ resolved' = resolved
        BY <2>1, <2>2 DEF halted, badMax, world
      <3>2. Wrong' = Wrong
        BY <3>1 DEF Wrong
      <3>3. WentThrough' => WentThrough
        BY <2>1, <2>2, <3>1 DEF WentThrough
      <3>4. GravestReported'
        BY ZenonT(60), <2>1, <2>2, <3>1, <3>2 DEF GravestReported, Settled, Right
      <3>5. CountsRight'
        BY ZenonT(60), <2>2, <3>1, <3>3 DEF CountsRight, Settled, Right
      <3>6. TargetFollows'
        BY ZenonT(60), <2>2, <3>1, <3>3 DEF TargetFollows, Settled, Right
      <3>7. TagPolled'
        <4>1. ~timer
          BY <1>4 DEF TagResolutionDue, Rest
        <4> QED
          BY <3>1, <3>3, <4>1 DEF TagPolled, Settled, Right
      <3>8. Noted'
        BY <2>1, <3>1, <3>3 DEF Noted, Settled, Right, news
      <3> QED
        BY <3>4, <3>5, <3>6, <3>7, <3>8 DEF Right
    <2> QED
      BY <2>1, <2>4, <2>5, <2>6 DEF Settled
  <1>5. ASSUME NEW n \in Reporting, DaemonReports(n) PROVE Settled'
    <2>1. PICK b : Reports(n, b) /\ b.seen = node[n].seen
      <3>1. node[n] \in BootcNode
        BY PoolAssumption DEF Inv, TypeOK
      <3>2. \A i, a, o : /\ [node[n] EXCEPT !.idle = i, !.about = a].seen = node[n].seen
                         /\ [node[n] EXCEPT !.idle = i, !.booted = o].seen = node[n].seen
        BY <3>1 DEF BootcNode
      <3>3. PICK i, a, o : \/ Reports(n, [node[n] EXCEPT !.idle = i, !.about = a])
                           \/ Reports(n, [node[n] EXCEPT !.idle = i, !.booted = o])
        BY <1>5, ZenonT(60) DEF DaemonReports
      <3> QED
        BY ZenonT(60), <3>2, <3>3
    <2>2. \A m \in Node : node'[m].seen = node[m].seen
      BY <2>1, PoolAssumption DEF Reports, Inv, TypeOK
    <2>3. Right'
      BY <2>1, NotRestNext DEF Reports, Rest
    <2>4. rec' # NoPass => Halfway'
      BY <2>1, HalfwayQueued DEF Reports
    <2> QED
      BY <2>1, <2>2, <2>3, <2>4, QuietSettles DEF Reports
  <1>6. ASSUME NEW S \in SUBSET Node, NEW h \in {"ok", "degraded", "sick", "unready"},
               HealthChanges(S, h)
        PROVE  Settled'
    <2>1. \A m \in Node : node'[m].seen = node[m].seen
      BY <1>6 DEF HealthChanges, Inv, TypeOK, BootcNode
    <2>2. Right'
      BY <1>6, NotRestNext DEF HealthChanges, Rest
    <2> QED
      BY <1>6, <2>1, <2>2, QuietSettles DEF HealthChanges, ChangedBetween
  <1>7. ASSUME NEW new, Edit(new) PROVE Settled'
    <2>1. /\ cache'.spec = cache.spec /\ cache'.status = cache.status /\ ~cache'.latest
      BY <1>7 DEF Edit, Inv, TypeOK
    <2>2. Right'
      BY <2>1, NotRestNext DEF Rest
    <2>3. rec' # NoPass => Halfway'
      <3> SUFFICES ASSUME rec # NoPass PROVE Halfway'
        BY <1>7 DEF Edit
      <3>1. rec \in Pass /\ rec' = [rec EXCEPT !.lock = FALSE]
        BY <1>7 DEF Edit, Inv, TypeOK
      <3>2. /\ rec'.spec = rec.spec /\ rec'.orig = rec.orig /\ rec'.status = rec.status
            /\ rec'.requeue = rec.requeue /\ rec'.resolved = rec.resolved
            /\ rec'.nodes = rec.nodes /\ ~rec'.lock
        BY <3>1 DEF Pass
      <3>3. Halfway
        BY DEF Settled
      <3>4. UNCHANGED <<trouble, node, status, queued, lost, resolved>>
        BY <1>7 DEF Edit, news
      <3>5. Source(rec.spec, rec.orig)' /\ Outcome(rec, rec.status)' /\ Locked(rec)'
        BY ZenonT(60), <3>2, <3>3, <3>4 DEF Halfway, Source, Outcome, Locked
      <3> QED
        BY ZenonT(60), <2>1, <3>2, <3>3, <3>4, <3>5 DEF Halfway
    <2> QED
      BY <1>7, <2>1, <2>2, <2>3, QuietSettles DEF Edit
  <1>8. CASE UserEdits
    BY ZenonT(60), <1>7, <1>8 DEF UserEdits
  <1>9. ASSUME NEW t \in {"secret", "conflict"}, TroubleChanges(t) PROVE Settled'
    <2>1. Right'
      BY <1>9, NotRestNext DEF TroubleChanges, Rest
    <2> QED
      BY <1>9, <2>1, QuietSettles DEF TroubleChanges, ChangedBetween
  <1>10. CASE \/ \E t \in Tag, d \in Digest \cup {NoDigest} : RegistryChanges(t, d)
              \/ UNCHANGED vars
    <2>1. /\ UNCHANGED <<spec, trouble, node, status, cache, queued, timer, rec, news, resolved>>
          /\ UNCHANGED <<out, lost>>
      BY <1>10 DEF RegistryChanges, vars, news
    <2>2. Right'
      BY ZenonT(60), <2>1 DEF Settled, Right, GravestReported, CountsRight, TargetFollows, TagPolled, Noted,
                  WentThrough, Rest, Wrong
    <2>3. rec' # NoPass => Halfway'
      BY ZenonT(60), <2>1 DEF Settled, Halfway, Source, Outcome, Locked
    <2> QED
      BY <2>1, <2>2, <2>3, QuietSettles
  <1>11. CASE World
    BY <1>4, <1>5, <1>6, <1>8, <1>9, <1>10, <1>11 DEF World
  <1> QED
    BY <1>1, <1>2, <1>3, <1>10, <1>11 DEF Next

LEMMA PoolSettles == Spec => []Settled
  BY InitSettled, StepSettled, PoolInvariant, PTL DEF Spec

\* At rest the Degraded condition gives the gravest of the reasons that hold, for any
\* pool and nodes, however old the copies are that the passes read and whichever
\* write was refused: setPoolDegraded hides no graver reason, and no reason outlives
\* its cause.
THEOREM ReportsGravest == Spec => []GravestReported
  <1>1. Settled => GravestReported
    BY DEF Settled, Right
  <1> QED
    BY <1>1, PoolSettles, PTL

\* At rest syncPoolStatus has counted every node once, and the deployed digest is
\* the one they all run.
THEOREM CountsAreRight == Spec => []CountsRight
  <1>1. Settled => CountsRight
    BY DEF Settled, Right
  <1> QED
    BY <1>1, PoolSettles, PTL

\* At rest syncMembership has told every node the target, and resolveTargetDigest took
\* it from the reference or from the last lookup that succeeded.
THEOREM TargetsFollow == Spec => []TargetFollows
  <1>1. Settled => TargetFollows
    BY DEF Settled, Right
  <1> QED
    BY <1>1, PoolSettles, PTL

\* At rest a RequeueAfter waits for the next lookup of a tag, whatever cut a pass
\* short.
THEOREM TagsArePolled == Spec => []TagPolled
  <1>1. Settled => TagPolled
    BY DEF Settled, Right
  <1> QED
    BY <1>1, PoolSettles, PTL

\* recordNodeEvents announces every active state of a node, and none twice in a row,
\* unless a write failed or a crash came between the event and its annotation.
THEOREM EventsOnce == Spec => []AnnouncedOnce
  <1>1. Inv /\ Settled => AnnouncedOnce
    <2> SUFFICES ASSUME Inv, Settled, ~lost
                 PROVE  /\ ~out.again
                        /\ WentThrough => \A n \in Node : node[n].idle \in Active =>
                                                out.node[n] = nodeObservation(node[n])
      BY DEF AnnouncedOnce
    <2>1. \A n \in Node : nodeObservation(node[n])[1] = node[n].idle
      BY DEF nodeObservation
    <2> QED
      BY <2>1 DEF Settled, Right, Noted, Told
  <1> QED
    BY <1>1, PoolInvariant, PoolSettles, PTL
=============================================================================
