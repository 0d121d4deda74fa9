--------------------------- MODULE MembershipProofs ---------------------------
(***************************************************************************)
(* Proofs about Membership, for any pools and nodes and any number of        *)
(* changes and failed calls.                                                 *)
(***************************************************************************)
EXTENDS Membership, TLAPS

USE SMTT(30), ZenonT(30)

Phase == {"unborn", "new", "live", "deleting", "gone"}
Rec_ == [pc : {"idle", "sync", "label", "remove", "delete", "taint", "own"},
         pool : Pool \cup {NoPool}, deleting : BOOLEAN,
         node : [Node -> NodeObject], bn : [Node -> BootcNode],
         todo : SUBSET Node, cur : SUBSET Node, conflict : SUBSET Pool]

-----------------------------------------------------------------------------
(* Types.                                                                  *)

\* The objects of the cluster, and the pass.
Objects ==
    /\ pool \in [Pool -> Phase] /\ conflict \in [Pool -> SUBSET Pool]
    /\ node \in [Node -> NodeObject] /\ nodeSeen \in [Node -> NodeObject]
    /\ image \in [Node -> Pool \cup {NoPool}]
    /\ bn \in [Node -> BootcNode] /\ bnSeen \in [Node -> BootcNode]
    /\ queue \subseteq Pool
    /\ changes \in 0 .. MaxChanges /\ faults \in 0 .. MaxFaults

Types == Objects /\ rec \in Rec_

LEMMA TypesAgree == Types <=> TypeOK
  BY ZenonT(30) DEF Types, Objects, TypeOK, Phase, Rec_

LEMMA Constants == NoNode \in NodeObject /\ NoBN \in BootcNode /\ NoRec \in Rec_
  <1>1. NoNode \in NodeObject
    BY ZenonT(30) DEF NoNode, NodeObject
  <1>2. NoBN \in BootcNode
    BY ZenonT(30) DEF NoBN, BootcNode
  <1> DEFINE f == [n \in Node |-> NoNode]
             g == [n \in Node |-> NoBN]
  <1>3. f \in [Node -> NodeObject] /\ g \in [Node -> BootcNode]
    BY <1>1, <1>2
  <1>4. NoRec = [pc |-> "idle", pool |-> NoPool, deleting |-> FALSE, node |-> f, bn |-> g,
                 todo |-> {}, cur |-> {}, conflict |-> {}]
    BY DEF NoRec
  <1> HIDE DEF f, g
  <1>5. NoRec \in Rec_
    BY <1>3, <1>4 DEF Rec_
  <1> QED
    BY <1>1, <1>2, <1>5

LEMMA RegisteredType == ASSUME NEW L \in SUBSET Pool PROVE Registered(L) \in NodeObject
  BY ZenonT(30), MembershipAssumption DEF Registered, NodeObject

LEMMA InitTypes == Init => Types
  <1> SUFFICES ASSUME Init PROVE Types
    OBVIOUS
  <1>1. node \in [Node -> NodeObject]
    BY RegisteredType DEF Init
  <1>2. pool \in [Pool -> Phase] /\ conflict \in [Pool -> SUBSET Pool]
    BY DEF Init, Phase
  <1>3. bn \in [Node -> BootcNode]
    BY Constants DEF Init
  <1>4. changes \in 0 .. MaxChanges /\ faults \in 0 .. MaxFaults
    BY MembershipAssumption DEF Init
  <1> QED
    BY ZenonT(30), <1>1, <1>2, <1>3, <1>4, Constants DEF Init, Types, Objects

LEMMA CountTypes ==
    ASSUME Types
    PROVE  /\ Change => changes' \in 0 .. MaxChanges
           /\ \A c : Fault(c) => faults' \in 0 .. MaxFaults
  BY MembershipAssumption DEF Change, Fault, Types, Objects

\* What the steps write into one object.
LEMMA NodeTypes ==
    ASSUME Types, NEW n \in Node
    PROVE  /\ \A L \in SUBSET Pool : [node EXCEPT ![n].labels = L] \in [Node -> NodeObject]
           /\ [node EXCEPT ![n].phase = "terminating"] \in [Node -> NodeObject]
           /\ \A k \in NodeObject : [node EXCEPT ![n] = k] \in [Node -> NodeObject]
           /\ \A m \in BOOLEAN : [node EXCEPT ![n].managed = m] \in [Node -> NodeObject]
           /\ \A t \in BOOLEAN : [node EXCEPT ![n].taint = t] \in [Node -> NodeObject]
  <1>1. node \in [Node -> NodeObject]
    BY DEF Types, Objects
  <1>2. \A k \in NodeObject : [node EXCEPT ![n] = k] \in [Node -> NodeObject]
    BY <1>1
  <1>3. node[n] \in NodeObject
    BY <1>1
  <1>4. \A L \in SUBSET Pool : [node[n] EXCEPT !.labels = L] \in NodeObject
    BY ZenonT(30), <1>3 DEF NodeObject
  <1>5. [node[n] EXCEPT !.phase = "terminating"] \in NodeObject
    BY ZenonT(30), <1>3 DEF NodeObject
  <1>6. \A m \in BOOLEAN : [node[n] EXCEPT !.managed = m] \in NodeObject
    BY ZenonT(30), <1>3 DEF NodeObject
  <1>7. \A t \in BOOLEAN : [node[n] EXCEPT !.taint = t] \in NodeObject
    BY ZenonT(30), <1>3 DEF NodeObject
  <1> QED
    BY ZenonT(30), <1>2, <1>4, <1>5, <1>6, <1>7

LEMMA BNTypes ==
    ASSUME Types, NEW n \in Node
    PROVE  /\ \A b \in BootcNode : [bn EXCEPT ![n] = b] \in [Node -> BootcNode]
           /\ [bn EXCEPT ![n].upToDate = ~@] \in [Node -> BootcNode]
           /\ [bn EXCEPT ![n].ownsTaint = FALSE] \in [Node -> BootcNode]
           /\ rec.pool \in Pool => NewBN(rec.pool, rec.node[n]) \in BootcNode
  <1>1. bn \in [Node -> BootcNode] /\ bn[n] \in BootcNode
    BY DEF Types, Objects
  <1>2. \A b \in BootcNode : [bn EXCEPT ![n] = b] \in [Node -> BootcNode]
    BY <1>1
  <1>3. [bn[n] EXCEPT !.upToDate = ~@] \in BootcNode
    BY ZenonT(30), <1>1 DEF BootcNode
  <1>4. [bn[n] EXCEPT !.ownsTaint = FALSE] \in BootcNode
    BY ZenonT(30), <1>1 DEF BootcNode
  <1>5. rec.node[n].taint \in BOOLEAN
    <2>1. rec.node \in [Node -> NodeObject]
      BY DEF Types, Rec_
    <2>2. rec.node[n] \in NodeObject
      BY <2>1
    <2> QED
      BY <2>2 DEF NodeObject
  <1>6. rec.pool \in Pool => NewBN(rec.pool, rec.node[n]) \in BootcNode
    BY ZenonT(30), <1>5 DEF NewBN, BootcNode
  <1> QED
    BY ZenonT(30), <1>2, <1>3, <1>4, <1>6

\* The pool of a pass keeps its finalizer, so that it is not gone before the pass ends.
Running == rec.pc # "idle" => rec.pool \in Pool /\ pool[rec.pool] \in {"live", "deleting"}

\* The user, the infrastructure and the watches leave the pass alone.
LEMMA ClusterStep ==
    ASSUME Types, Running, Cluster \/ \E n \in Node : Background(n)
    PROVE  /\ Types' /\ Running' /\ rec' = rec
           /\ \A p \in Pool : pool[p] = "deleting" => pool'[p] = "deleting"
           /\ \A p \in Pool : pool'[p] = "gone" => pool[p] \in {"new", "gone"}
  <1> USE DEF Types, Objects
  <1>0. ASSUME NEW p \in Pool, NEW k \in Phase, pool' = [pool EXCEPT ![p] = k]
        PROVE  pool' \in [Pool -> Phase]
    BY <1>0
  <1>1. ASSUME NEW p \in Pool, CreatePool(p) \/ DeletePool(p)
        PROVE  /\ Types' /\ Running' /\ rec' = rec
               /\ \A q \in Pool : pool[q] = "deleting" => pool'[q] = "deleting"
               /\ \A q \in Pool : pool'[q] = "gone" => pool[q] \in {"new", "gone"}
    <2>1. PICK k \in Phase : /\ pool' = [pool EXCEPT ![p] = k]
                             /\ pool[p] \in {"unborn", "new", "live"}
                             /\ k = "gone" => pool[p] = "new"
                             /\ pool[p] = "live" => k = "deleting"
      BY <1>1 DEF CreatePool, DeletePool, Phase
    <2>2. changes' \in 0 .. MaxChanges
      BY <1>1, CountTypes DEF CreatePool, DeletePool
    <2>3. /\ queue' \subseteq Pool
          /\ UNCHANGED <<conflict, node, image, bn, nodeSeen, bnSeen, rec, faults>>
      BY <1>1 DEF CreatePool, DeletePool
    <2>4. Types'
      BY ZenonT(30), <1>0, <2>1, <2>2, <2>3
    <2> QED
      BY <2>1, <2>3, <2>4 DEF Running
  <1>2. ASSUME NEW n \in Node, Relabel(n) \/ DeleteNode(n) \/ RegisterNode(n) \/ Background(n)
        PROVE  Types' /\ UNCHANGED <<pool, rec>>
    <2>0. /\ \A L \in SUBSET Pool : [node EXCEPT ![n].labels = L] \in [Node -> NodeObject]
          /\ [node EXCEPT ![n].phase = "terminating"] \in [Node -> NodeObject]
          /\ \A k \in NodeObject : [node EXCEPT ![n] = k] \in [Node -> NodeObject]
      BY ZenonT(30), NodeTypes
    <2>1. CASE Relabel(n) \/ DeleteNode(n) \/ NodeGone(n)
      <3>1. node' \in [Node -> NodeObject]
        <4>1. CASE Relabel(n)
          <5>1. PICK L \in SUBSET Pool : node' = [node EXCEPT ![n].labels = L]
            BY ZenonT(30), <4>1 DEF Relabel
          <5> QED
            BY ZenonT(30), <2>0, <5>1
        <4>2. CASE DeleteNode(n)
          BY <2>0, <4>2 DEF DeleteNode
        <4>3. CASE NodeGone(n)
          BY <2>0, <4>3, Constants DEF NodeGone
        <4> QED
          BY <2>1, <4>1, <4>2, <4>3
      <3>2. changes' \in 0 .. MaxChanges
        BY <2>1, CountTypes DEF Relabel, DeleteNode, NodeGone
      <3> QED
        BY ZenonT(30), <2>1, <3>1, <3>2 DEF Relabel, DeleteNode, NodeGone
    <2>2. CASE RegisterNode(n)
      <3>1. node' \in [Node -> NodeObject]
        BY <2>0, <2>2, RegisteredType DEF RegisterNode
      <3>2. image' \in [Node -> Pool \cup {NoPool}]
        BY <2>2 DEF RegisterNode
      <3>3. changes' \in 0 .. MaxChanges
        BY <2>2, CountTypes DEF RegisterNode
      <3> QED
        BY ZenonT(30), <2>2, <3>1, <3>2, <3>3 DEF RegisterNode
    <2>3. CASE CollectGarbage(n) \/ Report(n)
      <3>1. bn' \in [Node -> BootcNode]
        <4>0. /\ \A b \in BootcNode : [bn EXCEPT ![n] = b] \in [Node -> BootcNode]
              /\ [bn EXCEPT ![n].upToDate = ~@] \in [Node -> BootcNode]
          BY ZenonT(30), BNTypes
        <4> QED
          BY <2>3, <4>0, Constants DEF CollectGarbage, Report
      <3> QED
        BY ZenonT(30), <2>3, <3>1 DEF CollectGarbage, Report
    <2>4. CASE Update(n)
      <3>1. bn[n] \in BootcNode
        OBVIOUS
      <3>2. image' \in [Node -> Pool \cup {NoPool}]
        BY <2>4, <3>1 DEF Update, BootcNode
      <3> QED
        BY ZenonT(30), <2>4, <3>2 DEF Update
    <2>5. CASE SeeNode(n)
      <3>1. nodeSeen' \in [Node -> NodeObject]
        BY <2>5 DEF SeeNode
      <3>2. bnSeen[n].owner \in Pool \cup {NoPool}
        BY DEF BootcNode
      <3>3. \A k : mapNodeToPoolRequests(n, k) \subseteq Pool
        BY <3>2 DEF mapNodeToPoolRequests, Matching
      <3>4. queue' \subseteq Pool
        BY <2>5, <3>3 DEF SeeNode
      <3> QED
        BY ZenonT(30), <2>5, <3>1, <3>4 DEF SeeNode
    <2>6. CASE SeeBootcNode(n)
      <3>1. bnSeen' \in [Node -> BootcNode]
        BY <2>6 DEF SeeBootcNode
      <3>2. bnSeen[n].owner \in Pool \cup {NoPool} /\ bn[n].owner \in Pool \cup {NoPool}
        BY DEF BootcNode
      <3>3. queue' \subseteq Pool
        BY <2>6, <3>2 DEF SeeBootcNode
      <3> QED
        BY ZenonT(30), <2>6, <3>1, <3>3 DEF SeeBootcNode
    <2> QED
      BY ZenonT(30), <1>2, <2>1, <2>2, <2>3, <2>4, <2>5, <2>6 DEF Background
  <1>3. CASE \E n \in Node : Relabel(n) \/ DeleteNode(n) \/ RegisterNode(n) \/ Background(n)
    BY <1>2, <1>3 DEF Running
  <1> QED
    BY ZenonT(30), <1>1, <1>3 DEF Cluster

\* A pass that ends with the pools as they are.
LEMMA EndTypes ==
    ASSUME Types, Running, rec' = NoRec, queue' \subseteq Pool, faults' \in 0 .. MaxFaults,
           conflict' \in [Pool -> SUBSET Pool],
           UNCHANGED <<pool, node, image, bn, nodeSeen, bnSeen, changes>>
    PROVE  Types' /\ Running'
  <1>1. Types'
    BY ZenonT(30), Constants DEF Types, Objects
  <1>2. Running'
    BY DEF Running, NoRec
  <1> QED
    BY <1>1, <1>2

\* The calls that fail, and the end of a pass.
Ends ==
    \/ \E n \in Node : \/ repairLabelFails(n) \/ createFails(n) \/ labelCreatedFails(n)
                       \/ unlabelFails(n) \/ deleteFails(n) \/ removeTaintFails(n)
                       \/ clearTaintOwnershipFails(n)
    \/ removeFinalizerFails \/ updatePoolStatus

LEMMA EndsStep ==
    ASSUME Types, Running, Ends
    PROVE  /\ Types' /\ Running' /\ rec' = NoRec
           /\ UNCHANGED <<pool, node, image, bn, bnSeen>>
  <1>1. CASE updatePoolStatus
    <2>1. conflict' \in [Pool -> SUBSET Pool]
      BY ZenonT(60), <1>1 DEF updatePoolStatus, Types, Objects, Rec_
    <2> QED
      BY ZenonT(60), <1>1, <2>1, EndTypes DEF updatePoolStatus, Types, Objects
  <1>2. CASE Ends /\ ~updatePoolStatus
    <2>1. /\ Abort /\ rec.pc # "idle"
          /\ UNCHANGED <<pool, conflict, node, image, bn, nodeSeen, bnSeen, changes>>
      BY ZenonT(30), <1>2 DEF Ends, repairLabelFails, createFails, labelCreatedFails,
         unlabelFails, deleteFails, removeTaintFails, clearTaintOwnershipFails,
         removeFinalizerFails, labelFails, Removed
    <2>2. faults' = faults \/ \E c : Fault(c)
      BY ZenonT(30), <1>2 DEF Ends, repairLabelFails, createFails, labelCreatedFails,
         unlabelFails, deleteFails, removeTaintFails, clearTaintOwnershipFails,
         removeFinalizerFails, labelFails
    <2>3. faults' \in 0 .. MaxFaults
      BY <2>2, CountTypes DEF Types, Objects
    <2>4. queue' \subseteq Pool /\ rec' = NoRec
      BY <2>1 DEF Abort, Running, Types, Objects
    <2>5. conflict' \in [Pool -> SUBSET Pool]
      BY <2>1 DEF Types, Objects
    <2> QED
      BY <2>1, <2>3, <2>4, <2>5, EndTypes
  <1> QED
    BY <1>1, <1>2

-----------------------------------------------------------------------------
(* The pass.                                                               *)

\* The node between two writes is the only one, and has left the loop's list.
OneAtATime ==
    /\ rec.pc \in {"sync", "remove", "taint"} => rec.cur = {}
    /\ \A a, b \in rec.cur : a = b
    /\ rec.cur \cap rec.todo = {}

\* What the pass listed as its pool's is its pool's until the pass gives it up,
\* and the pass over a deleted pool has all of it before it.
Holds ==
    /\ \A n \in Node : rec.bn[n].owner = rec.pool => bn[n].owner = rec.pool
    /\ rec.pc = "label" => \A n \in rec.cur : bn[n].owner = rec.pool
    /\ rec.pc \in {"remove", "delete"} =>
          \A n \in rec.todo \cup rec.cur : rec.bn[n].owner = rec.pool
    /\ rec.pc \in {"taint", "own"} =>
          \A n \in rec.todo : rec.bn[n].owner = rec.pool /\ rec.bn[n].upToDate
    /\ rec.deleting => /\ rec.pc \in {"remove", "delete"} /\ pool[rec.pool] = "deleting"
                       /\ \A n \in Node : bn[n].owner = rec.pool => n \in rec.todo \cup rec.cur

Pass == rec.pc # "idle" => OneAtATime /\ Holds

\* A BootcNode is reported, and was listed, up to date on the image of its pool only.
Booted ==
    /\ \A n \in Node : bn[n].upToDate => image[n] = bn[n].owner
    /\ rec.pc # "idle" =>
          \A n \in Node : rec.bn[n].owner = rec.pool /\ rec.bn[n].upToDate => image[n] = rec.pool

\* The steps of a pass that go on.
Goes(n) ==
    \/ repairLabel(n) \/ createBootcNode(n) \/ createConflicts(n) \/ labelCreated(n)
    \/ removeBootcNode(n) \/ deleteBootcNode(n) \/ removeOsNotReadyTaint(n)
    \/ clearTaintOwnership(n)

LEMMA ControllerSteps ==
    ASSUME Controller
    PROVE  \/ \E p \in Pool : ReconcileNew(p) \/ addFinalizerFails(p) \/ StartReconcile(p)
           \/ \E n \in Node : Goes(n)
           \/ StartRemove \/ StartTaints \/ removeFinalizer \/ Ends
  BY ZenonT(60) DEF Controller, Sync, Remove, Untaint, Goes, Ends

\* The first steps of a request.
LEMMA BeginStep ==
    ASSUME Types, Running, NEW p \in Pool,
           ReconcileNew(p) \/ addFinalizerFails(p) \/ StartReconcile(p)
    PROVE  /\ Types' /\ Running' /\ UNCHANGED <<node, image, bn>>
           /\ \A q \in Pool : pool[q] \in {"deleting", "gone"} => pool'[q] = pool[q]
           /\ rec.pc = "idle" /\ (~StartReconcile(p) => rec'.pc = "idle")
  <1>1. CASE ReconcileNew(p)
    <2>1. pool' \in [Pool -> Phase] /\ queue' \subseteq Pool
      BY <1>1 DEF ReconcileNew, Types, Objects, Phase
    <2>2. UNCHANGED <<conflict, node, image, bn, nodeSeen, bnSeen, rec, changes, faults>>
      BY <1>1 DEF ReconcileNew
    <2>3. Types'
      BY ZenonT(30), <2>1, <2>2 DEF Types, Objects
    <2>4. \A q \in Pool : pool[q] \in {"deleting", "gone"} => pool'[q] = pool[q]
      BY <1>1 DEF ReconcileNew, Types, Objects
    <2>5. rec.pc = "idle"
      BY <1>1 DEF ReconcileNew, Begin
    <2> QED
      BY <2>2, <2>3, <2>4, <2>5 DEF Running
  <1>2. CASE addFinalizerFails(p)
    <2>1. faults' \in 0 .. MaxFaults
      BY <1>2, CountTypes DEF addFinalizerFails
    <2>2. /\ UNCHANGED <<pool, conflict, node, image, bn, nodeSeen, bnSeen, queue, rec, changes>>
          /\ rec.pc = "idle"
      BY <1>2 DEF addFinalizerFails, Begin
    <2>3. Types'
      BY ZenonT(30), <2>1, <2>2 DEF Types, Objects
    <2> QED
      BY <2>2, <2>3 DEF Running
  <1>3. CASE StartReconcile(p)
    <2>1. {n \in Node : p \in Matching(nodeSeen[n])} \in SUBSET Node /\ Owned(bnSeen, p) \in SUBSET Node
      BY DEF Owned
    <2>2. PICK T \in SUBSET Node, k \in {"sync", "remove"}, d \in BOOLEAN :
             rec' = [NoRec EXCEPT !.pool = p, !.deleting = d, !.node = nodeSeen, !.bn = bnSeen,
                                  !.pc = k, !.todo = T]
      BY ZenonT(30), <1>3, <2>1 DEF StartReconcile
    <2>3. rec' = [pc |-> k, pool |-> p, deleting |-> d, node |-> nodeSeen, bn |-> bnSeen,
                  todo |-> T, cur |-> {}, conflict |-> {}]
      BY ZenonT(60), <2>2 DEF NoRec
    <2>4. rec' \in Rec_
      BY <2>3 DEF Rec_, Types, Objects
    <2>5. /\ UNCHANGED <<pool, conflict, node, image, bn, nodeSeen, bnSeen, changes, faults>>
          /\ queue' \subseteq Pool
      BY <1>3 DEF StartReconcile, Types, Objects
    <2>6. Types'
      BY ZenonT(30), <2>4, <2>5 DEF Types, Objects
    <2>7. Running'
      BY ZenonT(60), <1>3, <2>3, <2>5 DEF Running, StartReconcile
    <2> QED
      BY <1>3, <2>5, <2>6, <2>7 DEF StartReconcile, Begin
  <1> QED
    BY <1>1, <1>2, <1>3

\* A pass begins with what the informers show, which is the truth when they do not lag.
LEMMA BeginPass ==
    ASSUME ~Lagging, Types, NEW p \in Pool, StartReconcile(p)
    PROVE  Pass' /\ (Booted => Booted')
  <1>1. /\ bnSeen = bn /\ UNCHANGED <<pool, image, bn>>
        /\ pool[p] \in {"live", "deleting"}
    BY DEF StartReconcile, Begin
  <1>2. /\ rec'.pool = p /\ rec'.cur = {} /\ rec'.bn = bn
        /\ rec'.pc = IF pool[p] = "live" THEN "sync" ELSE "remove"
        /\ rec'.deleting = (pool[p] = "deleting")
        /\ pool[p] # "live" => rec'.todo = Owned(bn, p)
    BY <1>1 DEF StartReconcile, NoRec
  <1>3. OneAtATime'
    BY <1>2 DEF OneAtATime
  <1>4. Holds'
    BY ZenonT(60), <1>1, <1>2 DEF Holds, Owned
  <1>5. Booted => Booted'
    BY <1>1, <1>2 DEF Booted
  <1> QED
    BY <1>3, <1>4, <1>5 DEF Pass

\* The steps between: the pass keeps its pool, and writes what has the right type.
LEMMA NodeWrites ==
    ASSUME Types, NEW n \in Node, NEW copy, NEW m \in BOOLEAN, ensureManagedLabel(n, copy, m)
    PROVE  node' \in [Node -> NodeObject] /\ \A k \in Node : node'[k].taint = node[k].taint
  <1>1. [node EXCEPT ![n].managed = m] \in [Node -> NodeObject]
    BY ZenonT(30), NodeTypes
  <1>2. node \in [Node -> NodeObject]
    BY DEF Types, Objects
  <1>3. node' = node \/ node' = [node EXCEPT ![n].managed = m]
    BY ZenonT(30) DEF ensureManagedLabel
  <1>4. node' \in [Node -> NodeObject]
    BY ZenonT(30), <1>1, <1>2, <1>3
  <1>5. \A k \in Node : node'[k].taint = node[k].taint
    BY <1>2, <1>3 DEF NodeObject
  <1> QED
    BY <1>4, <1>5

LEMMA GoesStep ==
    ASSUME Types, Running, NEW n \in Node, Goes(n)
    PROVE  /\ Types' /\ Running' /\ rec.pc # "idle"
           /\ UNCHANGED <<pool, image>>
           /\ \A k \in Node : node[k].taint /\ ~node'[k].taint => removeOsNotReadyTaint(n) /\ k = n
  <1> USE DEF Types, Objects
  <1>1. /\ UNCHANGED <<pool, conflict, image, nodeSeen, bnSeen, queue, changes, faults>>
        /\ rec.pc # "idle"
    BY ZenonT(60) DEF Goes, repairLabel, createBootcNode, createConflicts, labelCreated,
       removeBootcNode, deleteBootcNode, removeOsNotReadyTaint, clearTaintOwnership
  <1>2. rec.pool \in Pool
    BY <1>1 DEF Running
  <1>3. /\ rec \in Rec_ /\ NoBN \in BootcNode /\ NewBN(rec.pool, rec.node[n]) \in BootcNode
        /\ rec.todo \ {n} \in SUBSET Node /\ {n} \in SUBSET Node /\ {} \in SUBSET Node
    <2>1. NewBN(rec.pool, rec.node[n]) \in BootcNode
      BY ZenonT(30), <1>2, BNTypes
    <2> QED
      BY <2>1, Constants DEF Rec_
  <1>4. rec' \in Rec_ /\ rec'.pool = rec.pool
    <2>1. CASE repairLabel(n)
      BY <1>3, <2>1 DEF repairLabel, Rec_
    <2>2. CASE createBootcNode(n)
      BY ZenonT(60), <1>3, <2>2 DEF createBootcNode, Rec_
    <2>3. CASE createConflicts(n)
      <3>1. conflictingPools(n) \subseteq Pool
        BY <1>3 DEF conflictingPools, Rec_, BootcNode
      <3> QED
        BY ZenonT(60), <1>3, <2>3, <3>1 DEF createConflicts, Rec_
    <2>4. CASE labelCreated(n)
      <3> DEFINE f == [rec.bn EXCEPT ![n] = NewBN(rec.pool, rec.node[n])]
      <3>1. f \in [Node -> BootcNode]
        BY <1>3 DEF Rec_
      <3>2. rec' = [rec EXCEPT !.pc = "sync", !.cur = {}, !.bn = f]
        BY <1>3, <2>4 DEF labelCreated, Rec_
      <3> HIDE DEF f
      <3> QED
        BY ZenonT(60), <1>3, <3>1, <3>2 DEF Rec_
    <2>5. CASE removeBootcNode(n)
      BY ZenonT(60), <1>3, <2>5 DEF removeBootcNode, Rec_
    <2>6. CASE deleteBootcNode(n)
      <3> DEFINE f == [rec.bn EXCEPT ![n] = NoBN]
      <3>1. f \in [Node -> BootcNode]
        BY <1>3 DEF Rec_
      <3>2. rec' = [rec EXCEPT !.pc = "remove", !.cur = {}, !.bn = f]
        BY <1>3, <2>6 DEF deleteBootcNode, Rec_
      <3> HIDE DEF f
      <3> QED
        BY ZenonT(60), <1>3, <3>1, <3>2 DEF Rec_
    <2>7. CASE removeOsNotReadyTaint(n)
      BY ZenonT(60), <1>3, <2>7 DEF removeOsNotReadyTaint, Rec_
    <2>8. CASE clearTaintOwnership(n)
      BY ZenonT(60), <1>3, <2>8 DEF clearTaintOwnership, Rec_
    <2> QED
      BY ZenonT(30), <2>1, <2>2, <2>3, <2>4, <2>5, <2>6, <2>7, <2>8 DEF Goes
  <1>5. /\ node' \in [Node -> NodeObject]
        /\ \A k \in Node : node[k].taint /\ ~node'[k].taint => removeOsNotReadyTaint(n) /\ k = n
    <2>1. CASE removeOsNotReadyTaint(n)
      <3>1. PICK t \in BOOLEAN : node' = [node EXCEPT ![n].taint = t]
        BY ZenonT(60), <2>1 DEF removeOsNotReadyTaint, NodeObject
      <3>2. [node EXCEPT ![n].taint = t] \in [Node -> NodeObject]
        BY ZenonT(30), NodeTypes
      <3>3. \A k \in Node : k # n => node'[k] = node[k]
        BY <3>1
      <3> QED
        BY <2>1, <3>1, <3>2, <3>3
    <2>2. CASE repairLabel(n) \/ labelCreated(n)
      <3>1. ensureManagedLabel(n, rec.node[n], TRUE)
        BY ZenonT(60), <2>2 DEF repairLabel, labelCreated
      <3> QED
        BY ZenonT(60), <3>1, NodeWrites
    <2>3. CASE removeBootcNode(n) \/ createBootcNode(n) \/ createConflicts(n)
               \/ deleteBootcNode(n) \/ clearTaintOwnership(n)
      <3>1. node' = node \/ ensureManagedLabel(n, nodeSeen[n], FALSE)
        BY ZenonT(30), <2>3 DEF removeBootcNode, createBootcNode, createConflicts, deleteBootcNode,
           clearTaintOwnership
      <3> QED
        BY ZenonT(60), <3>1, NodeWrites
    <2> QED
      BY ZenonT(30), <2>1, <2>2, <2>3 DEF Goes
  <1>6. bn' \in [Node -> BootcNode]
    <2>1. \/ bn' = bn \/ bn' = [bn EXCEPT ![n].ownsTaint = FALSE]
          \/ \E b \in BootcNode : bn' = [bn EXCEPT ![n] = b]
      BY ZenonT(60), <1>3 DEF Goes, repairLabel, createBootcNode, createConflicts, labelCreated,
         removeBootcNode, deleteBootcNode, removeOsNotReadyTaint, clearTaintOwnership
    <2>2. /\ [bn EXCEPT ![n].ownsTaint = FALSE] \in [Node -> BootcNode]
          /\ \A b \in BootcNode : [bn EXCEPT ![n] = b] \in [Node -> BootcNode]
      BY ZenonT(30), BNTypes
    <2> QED
      BY ZenonT(30), <2>1, <2>2
  <1>7. Types'
    BY ZenonT(30), <1>1, <1>4, <1>5, <1>6
  <1> QED
    BY ZenonT(30), <1>1, <1>4, <1>5, <1>7 DEF Running

\* The steps from one loop of the pass to the next, and the end of a pool.
LEMMA TurnStep ==
    ASSUME Types, Running, StartRemove \/ StartTaints \/ removeFinalizer
    PROVE  /\ Types' /\ Running' /\ UNCHANGED <<node, image, bn>>
           /\ ~removeFinalizer => UNCHANGED pool
           /\ \A p \in Pool : pool[p] = "gone" => pool'[p] = "gone"
  <1> USE DEF Types, Objects
  <1>1. CASE StartRemove \/ StartTaints
    <2>1. /\ UNCHANGED <<pool, conflict, node, image, bn, nodeSeen, bnSeen, queue, changes, faults>>
          /\ rec.pc # "idle"
      BY ZenonT(30), <1>1 DEF StartRemove, StartTaints, Removed
    <2>2. PICK T \in SUBSET Node, k \in {"remove", "taint"} : rec' = [rec EXCEPT !.pc = k, !.todo = T]
      BY ZenonT(60), <1>1 DEF StartRemove, StartTaints, Departed, Owned
    <2>3. rec' \in Rec_ /\ rec'.pool = rec.pool
      BY ZenonT(60), <2>2 DEF Rec_
    <2>4. Types'
      BY ZenonT(30), <2>1, <2>3
    <2> QED
      BY ZenonT(30), <2>1, <2>3, <2>4 DEF Running
  <1>2. CASE removeFinalizer
    <2>1. /\ UNCHANGED <<conflict, node, image, bn, nodeSeen, bnSeen, changes, faults>>
          /\ rec' = NoRec /\ rec.pc # "idle"
          /\ pool' = [pool EXCEPT ![rec.pool] = "gone"] /\ queue' = queue \cup {rec.pool}
      BY <1>2 DEF removeFinalizer, Removed
    <2>2. rec.pool \in Pool
      BY <2>1 DEF Running
    <2>3. pool' \in [Pool -> Phase] /\ queue' \subseteq Pool
      BY <2>1, <2>2 DEF Phase
    <2>4. Types'
      BY ZenonT(30), <2>1, <2>3, Constants
    <2>5. Running'
      BY <2>1 DEF Running, NoRec
    <2> QED
      BY <1>2, <2>1, <2>2, <2>4, <2>5
  <1> QED
    BY <1>1, <1>2

-----------------------------------------------------------------------------
(* The theorems.                                                           *)

\* Types and the pool of the pass, in one step of the whole system.
LEMMA TypesStep ==
    ASSUME Types, Running, [Next]_vars
    PROVE  Types' /\ Running'
  <1>1. CASE Controller
    BY ZenonT(30), <1>1, ControllerSteps, BeginStep, GoesStep, TurnStep, EndsStep
  <1>2. CASE Cluster \/ \E n \in Node : Background(n)
    BY ZenonT(30), <1>2, ClusterStep
  <1>3. CASE UNCHANGED vars
    <2>1. UNCHANGED <<pool, conflict, node, image, bn, nodeSeen, bnSeen, queue, rec, changes, faults>>
      BY <1>3 DEF vars
    <2> QED
      BY ZenonT(30), <2>1 DEF Types, Objects, Running
  <1> QED
    BY ZenonT(30), <1>1, <1>2, <1>3 DEF Next

\* All objects, caches, queued pools and locals of a pass stay in their types,
\* for any pools, nodes, changes and failed calls, and with stale caches too:
\* no pass goes on for a pool that is gone.
THEOREM MembershipTypeCorrect == Spec => []TypeOK
  <1>1. Init => Types /\ Running
    <2>1. Init => Types
      BY InitTypes
    <2>2. Init => Running
      BY DEF Init, Running, NoRec
    <2> QED
      BY <2>1, <2>2
  <1>2. Types /\ Running /\ [Next]_vars => (Types /\ Running)'
    BY TypesStep
  <1>3. Types /\ Running => TypeOK
    BY TypesAgree
  <1> QED
    BY <1>1, <1>2, <1>3, PTL DEF Spec

\* What the steps outside the controller do to BootcNodes and images.
LEMMA ClusterKeeps ==
    ASSUME Types, Running, NEW n \in Node,
           Cluster \/ \E m \in Node : Background(m)
    PROVE  /\ rec.pc # "idle" => (bn'[n].owner = rec.pool <=> bn[n].owner = rec.pool)
           /\ bn[n] # NoBN /\ bn'[n] = NoBN => pool[bn[n].owner] = "gone" /\ bn[n].owner \in Pool
           /\ node[n].taint /\ ~node'[n].taint /\ ~Replaced => node'[n].phase = "absent"
  <1> USE DEF Types, Objects
  <1>0. ASSUME NEW p \in Pool, CreatePool(p) \/ DeletePool(p)
        PROVE  UNCHANGED <<node, bn>>
    BY ZenonT(30), <1>0 DEF CreatePool, DeletePool
  <1>1. ASSUME NEW m \in Node, SeeNode(m) \/ SeeBootcNode(m) \/ Update(m)
        PROVE  UNCHANGED <<node, bn>>
    BY ZenonT(30), <1>1 DEF SeeNode, SeeBootcNode, Update
  <1>2. ASSUME NEW m \in Node, Relabel(m) \/ DeleteNode(m) \/ NodeGone(m)
        PROVE  bn' = bn /\ (node'[n].taint = node[n].taint \/ node'[n].phase = "absent")
    <2>1. CASE Relabel(m)
      BY <2>1 DEF Relabel, NodeObject
    <2>2. CASE DeleteNode(m)
      BY <2>2 DEF DeleteNode, NodeObject
    <2>3. CASE NodeGone(m)
      BY ZenonT(60), <2>3 DEF NodeGone, NoNode
    <2> QED
      BY <1>2, <2>1, <2>2, <2>3
  <1>3. ASSUME NEW m \in Node, RegisterNode(m)
        PROVE  bn' = bn /\ Replaced
    BY <1>3 DEF RegisterNode
  <1>4. ASSUME NEW m \in Node, CollectGarbage(m)
        PROVE  /\ rec.pc # "idle" => (bn'[n].owner = rec.pool <=> bn[n].owner = rec.pool)
               /\ bn[n] # NoBN /\ bn'[n] = NoBN => pool[bn[n].owner] = "gone" /\ bn[n].owner \in Pool
               /\ node' = node
    BY <1>4, MembershipAssumption DEF CollectGarbage, Running, NoBN, BootcNode
  <1>5. ASSUME NEW m \in Node, Report(m)
        PROVE  bn'[n].owner = bn[n].owner /\ node' = node /\ (bn[n] # NoBN => bn'[n] # NoBN)
    <2>1. /\ bn' = [bn EXCEPT ![m].upToDate = ~@] /\ bn[m].owner # NoPool /\ node' = node
      BY ZenonT(30), <1>5 DEF Report
    <2>2. bn'[n].owner = bn[n].owner
      BY <2>1 DEF BootcNode
    <2>3. n = m => bn'[n] # NoBN
      BY <2>1, <2>2 DEF NoBN
    <2>4. n # m => bn'[n] = bn[n]
      BY <2>1
    <2> QED
      BY <2>1, <2>2, <2>3, <2>4
  <1>6. CASE Cluster
    BY ZenonT(30), <1>0, <1>2, <1>3, <1>6 DEF Cluster
  <1>7. CASE \E m \in Node : Background(m)
    BY ZenonT(30), <1>1, <1>2, <1>4, <1>5, <1>7 DEF Background
  <1> QED
    BY <1>6, <1>7

LEMMA PassGoes ==
    ASSUME Types, Running, Pass, NEW n \in Node, Goes(n)
    PROVE  Pass'
  <1>0. /\ OneAtATime /\ Holds /\ pool' = pool /\ rec \in Rec_ /\ rec.pc # "idle"
        /\ bn \in [Node -> BootcNode] /\ rec.pool \in Pool /\ rec.bn \in [Node -> BootcNode]
    <2>1. pool' = pool /\ rec.pc # "idle"
      BY GoesStep
    <2>2. rec \in Rec_ /\ bn \in [Node -> BootcNode]
      BY DEF Types, Objects
    <2> QED
      BY <2>1, <2>2 DEF Pass, Running, Rec_
  <1> USE <1>0 DEF OneAtATime, Holds
  <1>1. CASE repairLabel(n)
    <2>1. /\ bn' = bn /\ rec.pc = "sync"
          /\ rec'.pc = "sync" /\ rec'.cur = rec.cur /\ rec'.todo = rec.todo \ {n}
          /\ rec'.bn = rec.bn /\ rec'.pool = rec.pool /\ rec'.deleting = rec.deleting
      BY <1>1 DEF repairLabel, Rec_
    <2> QED
      BY <2>1 DEF Pass
  <1>2. CASE createConflicts(n)
    <2>1. /\ bn' = bn /\ rec.pc = "sync"
          /\ rec'.pc = "sync" /\ rec'.cur = rec.cur /\ rec'.todo = rec.todo \ {n}
          /\ rec'.bn = rec.bn /\ rec'.pool = rec.pool /\ rec'.deleting = rec.deleting
      BY <1>2 DEF createConflicts, Rec_
    <2> QED
      BY <2>1 DEF Pass
  <1>3. CASE createBootcNode(n)
    <2>1. /\ bn' = [bn EXCEPT ![n] = NewBN(rec.pool, rec.node[n])] /\ rec.pc = "sync"
          /\ rec'.pc = "label" /\ rec'.cur = {n} /\ rec'.todo = rec.todo \ {n}
          /\ rec'.bn = rec.bn /\ rec'.pool = rec.pool /\ rec'.deleting = rec.deleting
      BY <1>3 DEF createBootcNode, Rec_
    <2>2. bn'[n].owner = rec.pool /\ \A k \in Node : k # n => bn'[k] = bn[k]
      BY <2>1 DEF NewBN
    <2> QED
      BY <2>1, <2>2 DEF Pass
  <1>4. CASE labelCreated(n)
    <2>1. /\ bn' = bn /\ rec.pc = "label" /\ n \in rec.cur
          /\ rec'.pc = "sync" /\ rec'.cur = {} /\ rec'.todo = rec.todo
          /\ rec'.bn = [rec.bn EXCEPT ![n] = NewBN(rec.pool, rec.node[n])]
          /\ rec'.pool = rec.pool /\ rec'.deleting = rec.deleting
      BY <1>4 DEF labelCreated, Rec_
    <2>2. \A k \in Node : k # n => rec'.bn[k] = rec.bn[k]
      BY <2>1
    <2> QED
      BY <2>1, <2>2 DEF Pass
  <1>5. CASE removeBootcNode(n)
    <2>1. /\ bn' = bn /\ rec.pc = "remove" /\ n \in rec.todo
          /\ rec'.pc = "delete" /\ rec'.cur = {n} /\ rec'.todo = rec.todo \ {n}
          /\ rec'.bn = rec.bn /\ rec'.pool = rec.pool /\ rec'.deleting = rec.deleting
      BY <1>5 DEF removeBootcNode, Rec_
    <2> QED
      BY <2>1 DEF Pass
  <1>6. CASE deleteBootcNode(n)
    <2>1. /\ bn' = [bn EXCEPT ![n] = NoBN] /\ rec.pc = "delete" /\ n \in rec.cur
          /\ rec'.pc = "remove" /\ rec'.cur = {} /\ rec'.todo = rec.todo
          /\ rec'.bn = [rec.bn EXCEPT ![n] = NoBN]
          /\ rec'.pool = rec.pool /\ rec'.deleting = rec.deleting
      BY <1>6 DEF deleteBootcNode, Rec_
    <2>2. /\ \A k \in Node : k # n => rec'.bn[k] = rec.bn[k] /\ bn'[k] = bn[k]
          /\ rec'.bn[n].owner = NoPool /\ bn'[n].owner = NoPool /\ rec.pool # NoPool
      BY <2>1, MembershipAssumption DEF NoBN
    <2>3. n \notin rec.todo /\ rec.cur = {n}
      BY <2>1
    <2> QED
      BY <2>1, <2>2, <2>3 DEF Pass
  <1>7. CASE removeOsNotReadyTaint(n)
    <2>1. /\ bn' = bn /\ rec.pc = "taint" /\ n \in rec.todo
          /\ rec'.pc = "own" /\ rec'.cur = {n} /\ rec'.todo = rec.todo \ {n}
          /\ rec'.bn = rec.bn /\ rec'.pool = rec.pool /\ rec'.deleting = rec.deleting
      BY <1>7 DEF removeOsNotReadyTaint, Rec_
    <2> QED
      BY <2>1 DEF Pass
  <1>8. CASE clearTaintOwnership(n)
    <2>1. /\ bn' = [bn EXCEPT ![n].ownsTaint = FALSE] /\ rec.pc = "own"
          /\ rec'.pc = "taint" /\ rec'.cur = {} /\ rec'.todo = rec.todo
          /\ rec'.bn = rec.bn /\ rec'.pool = rec.pool /\ rec'.deleting = rec.deleting
      BY <1>8 DEF clearTaintOwnership, Rec_
    <2>2. \A k \in Node : bn'[k].owner = bn[k].owner
      BY <2>1 DEF BootcNode
    <2> QED
      BY <2>1, <2>2 DEF Pass
  <1> QED
    BY ZenonT(30), <1>1, <1>2, <1>3, <1>4, <1>5, <1>6, <1>7, <1>8 DEF Goes

LEMMA PassTurns ==
    ASSUME Types, Running, Pass, StartRemove \/ StartTaints \/ removeFinalizer
    PROVE  Pass'
  <1>0. /\ rec \in Rec_ /\ UNCHANGED bn
    BY TurnStep DEF Types
  <1>1. CASE StartRemove
    <2>1. /\ rec.pc = "sync" /\ pool' = pool
          /\ rec'.pc = "remove" /\ rec'.cur = rec.cur /\ rec'.todo = Departed
          /\ rec'.bn = rec.bn /\ rec'.pool = rec.pool /\ rec'.deleting = rec.deleting
      BY <1>0, <1>1 DEF StartRemove, Rec_
    <2> QED
      BY <1>0, <2>1 DEF Pass, OneAtATime, Holds, Departed, Owned
  <1>2. CASE StartTaints
    <2>1. /\ rec.pc = "remove" /\ ~rec.deleting /\ pool' = pool
          /\ rec'.pc = "taint" /\ rec'.cur = rec.cur
          /\ rec'.todo = {n \in Owned(rec.bn, rec.pool) : Verified(rec.bn[n])}
          /\ rec'.bn = rec.bn /\ rec'.pool = rec.pool /\ rec'.deleting = rec.deleting
      BY <1>0, <1>2 DEF StartTaints, Removed, Rec_
    <2> QED
      BY <1>0, <2>1 DEF Pass, OneAtATime, Holds, Owned, Verified
  <1>3. CASE removeFinalizer
    BY <1>3 DEF removeFinalizer, NoRec, Pass
  <1> QED
    BY <1>1, <1>2, <1>3

LEMMA PassStep ==
    ASSUME ~Lagging, Types, Running, Pass, [Next]_vars
    PROVE  Pass'
  <1>1. CASE Controller
    <2>1. ASSUME NEW p \in Pool, ReconcileNew(p) \/ addFinalizerFails(p) \/ StartReconcile(p)
          PROVE  Pass'
      <3>1. CASE StartReconcile(p)
        BY <3>1, BeginPass
      <3>2. CASE ~StartReconcile(p)
        BY <2>1, <3>2, BeginStep DEF Pass
      <3> QED
        BY <3>1, <3>2
    <2>2. CASE Ends
      BY <2>2, EndsStep DEF Pass, NoRec
    <2> QED
      BY ZenonT(30), <1>1, <2>1, <2>2, ControllerSteps, PassGoes, PassTurns
  <1>2. CASE Cluster \/ \E n \in Node : Background(n)
    <2>1. /\ rec' = rec /\ \A p \in Pool : pool[p] = "deleting" => pool'[p] = "deleting"
      BY ZenonT(30), <1>2, ClusterStep
    <2>2. \A n \in Node : rec.pc # "idle" => (bn'[n].owner = rec.pool <=> bn[n].owner = rec.pool)
      BY ZenonT(30), <1>2, ClusterKeeps
    <2>3. rec.pc # "idle" => rec.pool \in Pool /\ rec \in Rec_
      BY DEF Running, Types
    <2>4. rec.pc # "idle" => OneAtATime'
      BY <2>1 DEF Pass, OneAtATime
    <2>5. rec.pc # "idle" => Holds'
      BY <2>1, <2>2, <2>3 DEF Pass, Holds, Rec_
    <2> QED
      BY <2>1, <2>4, <2>5 DEF Pass
  <1>3. CASE UNCHANGED vars
    BY <1>3 DEF vars, Pass, OneAtATime, Holds
  <1> QED
    BY ZenonT(30), <1>1, <1>2, <1>3 DEF Next

LEMMA PassAlways ==
    ASSUME ~Lagging
    PROVE  Spec => [](Types /\ Running /\ Pass)
  <1>1. Init => Types /\ Running /\ Pass
    <2>1. Init => Types
      BY InitTypes
    <2>2. Init => Running /\ Pass
      BY DEF Init, Running, Pass, NoRec
    <2> QED
      BY <2>1, <2>2
  <1>2. Types /\ Running /\ Pass /\ [Next]_vars => (Types /\ Running /\ Pass)'
    BY TypesStep, PassStep
  <1> QED
    BY <1>1, <1>2, PTL DEF Spec

\* With caches up to date, a deleted pool loses its finalizer only when no BootcNode
\* of it is left: handlePoolDeletion leaves nothing to the garbage collector,
\* whichever of its calls failed on the way and however nodes came and went.
THEOREM DeletedPoolsAreClean == ASSUME ~Lagging PROVE Spec => CleanedUp
  <1>1. Types /\ Running /\ Pass /\ [Next]_vars =>
          [\A p \in Pool : pool[p] = "deleting" /\ pool'[p] = "gone" =>
              \A n \in Node : bn[n].owner # p]_vars
    <2> SUFFICES ASSUME Types, Running, Pass, Next, NEW p \in Pool,
                        pool[p] = "deleting", pool'[p] = "gone"
                 PROVE  \A n \in Node : bn[n].owner # p
      BY DEF vars
    <2>1. ~Cluster /\ ~\E n \in Node : Background(n)
      BY ZenonT(30), ClusterStep
    <2>2. Controller
      BY ZenonT(30), <2>1 DEF Next
    <2>3. removeFinalizer
      <3>1. ASSUME NEW q \in Pool, ReconcileNew(q) \/ addFinalizerFails(q) \/ StartReconcile(q)
            PROVE  FALSE
        BY <3>1, BeginStep
      <3>2. ASSUME NEW n \in Node, Goes(n)
            PROVE  FALSE
        BY <3>2, GoesStep
      <3>3. ~Ends
        BY EndsStep
      <3> QED
        BY <2>2, <3>1, <3>2, <3>3, ControllerSteps, TurnStep
    <2>4. /\ rec.pc = "remove" /\ rec.todo = {} /\ rec.deleting
          /\ pool' = [pool EXCEPT ![rec.pool] = "gone"]
      BY <2>3 DEF removeFinalizer, Removed
    <2>5. p = rec.pool
      BY <2>4 DEF Types, Objects
    <2> QED
      BY <2>4, <2>5 DEF Pass, OneAtATime, Holds
  <1> QED
    BY <1>1, PassAlways, PTL DEF CleanedUp, Spec

\* With caches up to date, a pass deletes a BootcNode by its name only while it is
\* the pool's own: removeBootcNode never takes a node away from another pool.
THEOREM DeletesOnlyItsOwn == ASSUME ~Lagging PROVE Spec => DeletesItsOwn
  <1>1. Types /\ Running /\ Pass /\ [Next]_vars =>
          [\A n \in Node : rec.pc = "delete" /\ bn[n] # NoBN /\ bn'[n] = NoBN =>
              bn[n].owner \in {rec.pool} \cup {p \in Pool : pool[p] = "gone"}]_vars
    <2> SUFFICES ASSUME Types, Running, Pass, Next, NEW n \in Node,
                        rec.pc = "delete", bn[n] # NoBN, bn'[n] = NoBN
                 PROVE  bn[n].owner \in {rec.pool} \cup {p \in Pool : pool[p] = "gone"}
      BY DEF vars
    <2>1. CASE Cluster \/ \E m \in Node : Background(m)
      BY <2>1, ClusterKeeps
    <2>2. CASE Controller
      <3>1. ASSUME NEW q \in Pool, ReconcileNew(q) \/ addFinalizerFails(q) \/ StartReconcile(q)
            PROVE  FALSE
        BY <3>1, BeginStep
      <3>2. ~Ends /\ ~StartRemove /\ ~StartTaints /\ ~removeFinalizer
        BY EndsStep, TurnStep
      <3>3. PICK m \in Node : Goes(m)
        BY <2>2, <3>1, <3>2, ControllerSteps
      <3>4. deleteBootcNode(m)
        BY <3>3 DEF Goes, repairLabel, createBootcNode, createConflicts, labelCreated,
           removeBootcNode, removeOsNotReadyTaint, clearTaintOwnership
      <3>5. m \in rec.cur /\ m = n
        BY <3>4 DEF deleteBootcNode, Types, Objects
      <3> QED
        BY <3>5 DEF Pass, Holds
    <2> QED
      BY <2>1, <2>2 DEF Next
  <1> QED
    BY <1>1, PassAlways, PTL DEF DeletesItsOwn, Spec

\* What is reported and listed as up to date stays so while machines keep their names.
LEMMA BootedStep ==
    ASSUME ~Lagging, ~Replaced, Types, Running, Pass, Booted, [Next]_vars
    PROVE  Booted'
  <1>0. /\ bn \in [Node -> BootcNode] /\ rec \in Rec_ /\ image \in [Node -> Pool \cup {NoPool}]
        /\ rec.bn \in [Node -> BootcNode]
    BY DEF Types, Objects, Rec_
  <1>1. ASSUME UNCHANGED <<rec, bn, image>>
        PROVE  Booted'
    BY <1>1 DEF Booted
  <1>2. ASSUME UNCHANGED <<bn, image>>, rec'.pc = "idle"
        PROVE  Booted'
    BY <1>2 DEF Booted
  <1>3. CASE Cluster
    <2>1. UNCHANGED <<rec, bn, image>>
      BY ZenonT(30), <1>3 DEF Cluster, CreatePool, DeletePool, Relabel, DeleteNode, RegisterNode
    <2> QED
      BY <1>1, <2>1
  <1>4. ASSUME NEW m \in Node, Background(m)
        PROVE  Booted'
    <2>1. CASE SeeNode(m) \/ SeeBootcNode(m) \/ NodeGone(m)
      <3>1. UNCHANGED <<rec, bn, image>>
        BY ZenonT(30), <2>1 DEF SeeNode, SeeBootcNode, NodeGone
      <3> QED
        BY <1>1, <3>1
    <2>2. CASE CollectGarbage(m)
      BY <1>0, <2>2 DEF CollectGarbage, Booted, NoBN
    <2>3. CASE Report(m)
      <3>1. /\ bn' = [bn EXCEPT ![m].upToDate = ~@] /\ UNCHANGED <<image, rec>>
            /\ bn[m].upToDate # (image[m] = bn[m].owner)
        BY ZenonT(30), <2>3 DEF Report
      <3>2. bn'[m].owner = bn[m].owner /\ bn'[m].upToDate = ~bn[m].upToDate
        BY <1>0, <3>1 DEF BootcNode
      <3>3. \A k \in Node : k # m => bn'[k] = bn[k]
        BY <1>0, <3>1
      <3>4. bn'[m].upToDate => image[m] = bn[m].owner
        <4>1. bn[m].upToDate \in BOOLEAN
          BY <1>0 DEF BootcNode
        <4>2. CASE bn[m].upToDate = TRUE
          BY ZenonT(60), <3>2, <4>2
        <4>3. CASE bn[m].upToDate = FALSE
          BY ZenonT(60), <3>1, <4>3
        <4> QED
          BY ZenonT(60), <4>1, <4>2, <4>3
      <3> QED
        BY <3>1, <3>2, <3>3, <3>4 DEF Booted
    <2>4. CASE Update(m)
      <3>1. /\ image' = [image EXCEPT ![m] = bn[m].owner] /\ UNCHANGED <<bn, rec>>
            /\ image[m] # bn[m].owner
        BY ZenonT(30), <2>4 DEF Update
      <3>2. image'[m] = bn[m].owner /\ \A k \in Node : k # m => image'[k] = image[k]
        BY <1>0, <3>1
      <3> QED
        BY <3>1, <3>2 DEF Booted, Pass, Holds
    <2> QED
      BY ZenonT(30), <1>4, <2>1, <2>2, <2>3, <2>4 DEF Background
  <1>5. CASE Controller
    <2>1. ASSUME NEW p \in Pool, ReconcileNew(p) \/ addFinalizerFails(p) \/ StartReconcile(p)
          PROVE  Booted'
      <3>1. CASE StartReconcile(p)
        BY <3>1, BeginPass
      <3>2. CASE ~StartReconcile(p)
        BY <1>2, <2>1, <3>2, BeginStep
      <3> QED
        BY <3>1, <3>2
    <2>2. CASE Ends
      BY <1>2, <2>2, EndsStep DEF NoRec
    <2>3. CASE StartRemove \/ StartTaints \/ removeFinalizer
      <3>1. UNCHANGED <<bn, image>>
        BY <2>3, TurnStep
      <3>2. CASE removeFinalizer
        BY <1>2, <3>1, <3>2 DEF removeFinalizer, NoRec
      <3>3. CASE StartRemove \/ StartTaints
        <4>1. rec'.bn = rec.bn /\ rec'.pool = rec.pool /\ rec.pc # "idle"
          BY ZenonT(60), <1>0, <3>3 DEF StartRemove, StartTaints, Removed, Rec_
        <4> QED
          BY <3>1, <4>1 DEF Booted
      <3> QED
        BY <2>3, <3>2, <3>3
    <2>4. ASSUME NEW n \in Node, Goes(n)
          PROVE  Booted'
      <3>0. rec.pc # "idle" /\ image' = image
        BY <2>4, GoesStep
      <3>1. CASE repairLabel(n) \/ createConflicts(n) \/ removeBootcNode(n) \/ removeOsNotReadyTaint(n)
        <4>1. bn' = bn /\ rec'.bn = rec.bn /\ rec'.pool = rec.pool
          BY ZenonT(60), <1>0, <3>1 DEF repairLabel, createConflicts, removeBootcNode, removeOsNotReadyTaint, Rec_
        <4> QED
          BY <3>0, <4>1 DEF Booted
      <3>2. CASE createBootcNode(n)
        <4>1. /\ bn' = [bn EXCEPT ![n] = NewBN(rec.pool, rec.node[n])]
              /\ rec'.bn = rec.bn /\ rec'.pool = rec.pool
          BY <1>0, <3>2 DEF createBootcNode, Rec_
        <4> QED
          BY <1>0, <3>0, <4>1 DEF Booted, NewBN
      <3>3. CASE labelCreated(n)
        <4>1. /\ bn' = bn /\ rec'.bn = [rec.bn EXCEPT ![n] = NewBN(rec.pool, rec.node[n])]
              /\ rec'.pool = rec.pool
          BY <1>0, <3>3 DEF labelCreated, Rec_
        <4> QED
          BY <1>0, <3>0, <4>1 DEF Booted, NewBN
      <3>4. CASE deleteBootcNode(n)
        <4>1. /\ bn' = [bn EXCEPT ![n] = NoBN] /\ rec'.bn = [rec.bn EXCEPT ![n] = NoBN]
              /\ rec'.pool = rec.pool
          BY <1>0, <3>4 DEF deleteBootcNode, Rec_
        <4> QED
          BY <1>0, <3>0, <4>1 DEF Booted, NoBN
      <3>5. CASE clearTaintOwnership(n)
        <4>1. /\ bn' = [bn EXCEPT ![n].ownsTaint = FALSE]
              /\ rec'.bn = rec.bn /\ rec'.pool = rec.pool
          BY <1>0, <3>5 DEF clearTaintOwnership, Rec_
        <4>2. \A k \in Node : bn'[k].owner = bn[k].owner /\ bn'[k].upToDate = bn[k].upToDate
          BY <1>0, <4>1 DEF BootcNode
        <4> QED
          BY <3>0, <4>1, <4>2 DEF Booted
      <3> QED
        BY ZenonT(30), <2>4, <3>1, <3>2, <3>3, <3>4, <3>5 DEF Goes
    <2> QED
      BY ZenonT(30), <1>5, <2>1, <2>2, <2>3, <2>4, ControllerSteps
  <1>6. CASE UNCHANGED vars
    BY <1>1, <1>6 DEF vars
  <1> QED
    BY ZenonT(30), <1>3, <1>4, <1>5, <1>6 DEF Next

\* With caches up to date and machines that keep their names, the startup taint is
\* taken off a node only while its host runs the image of the pool that owns it.
THEOREM TaintsAreKept == ASSUME ~Lagging, ~Replaced PROVE Spec => TaintKeptUntilVerified
  <1>1. Types /\ Running /\ Pass /\ Booted /\ [Next]_vars => Booted'
    BY BootedStep
  <1>2. Init => Booted
    BY DEF Init, Booted, NoBN, NoRec
  <1>3. Types /\ Running /\ Pass /\ Booted /\ [Next]_vars =>
          [\A n \in Node : node[n].taint /\ ~node'[n].taint /\ node'[n].phase # "absent" =>
              image[n] = bn[n].owner]_vars
    <2> SUFFICES ASSUME Types, Running, Pass, Booted, Next, NEW n \in Node,
                        node[n].taint, ~node'[n].taint, node'[n].phase # "absent"
                 PROVE  image[n] = bn[n].owner
      BY DEF vars
    <2>1. ~Cluster /\ ~\E m \in Node : Background(m)
      BY ZenonT(30), ClusterKeeps
    <2>2. Controller
      BY ZenonT(30), <2>1 DEF Next
    <2>3. ASSUME NEW q \in Pool, ReconcileNew(q) \/ addFinalizerFails(q) \/ StartReconcile(q)
          PROVE  FALSE
      BY <2>3, BeginStep
    <2>4. ~Ends /\ ~StartRemove /\ ~StartTaints /\ ~removeFinalizer
      BY EndsStep, TurnStep
    <2>5. PICK m \in Node : Goes(m)
      BY <2>2, <2>3, <2>4, ControllerSteps
    <2>6. removeOsNotReadyTaint(m) /\ n = m
      BY <2>5, GoesStep
    <2>7. rec.pc = "taint" /\ n \in rec.todo
      BY <2>6 DEF removeOsNotReadyTaint
    <2> QED
      BY <2>7 DEF Pass, Holds, Booted
  <1> QED
    BY <1>1, <1>2, <1>3, PassAlways, PTL DEF TaintKeptUntilVerified, Spec

-----------------------------------------------------------------------------
(* The controller at rest.                                                 *)

\* Machines keep their names: a node that is going or gone does not come back and a
\* taint that was removed stays away, so that whoever holds an older copy of a
\* tainted node or of its BootcNode has seen the taint and its ownership.
History(n) ==
    /\ node[n].phase = "absent" => ~node[n].managed /\ ~node[n].taint
    /\ nodeSeen[n].phase = "absent" => node[n].phase = "absent"
    /\ nodeSeen[n].phase # "present" => node[n].phase # "present"
    /\ bn[n].owner = NoPool => ~bn[n].upToDate
    /\ node[n].taint =>
          /\ nodeSeen[n].taint
          /\ bn[n].owner # NoPool => bn[n].ownsTaint
          /\ bnSeen[n].owner # NoPool => bnSeen[n].ownsTaint
          /\ rec.pc # "idle" => /\ rec.node[n].taint
                                /\ rec.bn[n].owner # NoPool => rec.bn[n].ownsTaint

\* A node without a BootcNode has no label, unless it is going, and no BootcNode
\* outlives its pool.
Labelled(n) ==
    /\ bn[n].owner = NoPool /\ node[n].managed => node[n].phase = "terminating"
    /\ bn[n].owner # NoPool => pool[bn[n].owner] \in {"live", "deleting"}

\* A deleted pool is queued until the pass that removes it.
Attended(p) ==
    pool[p] = "deleting" => p \in queue \/ (rec.pc # "idle" /\ rec.pool = p /\ rec.deleting)

\* The pool has nothing to do.
Resting(p) == pool[p] = "live" /\ p \notin queue /\ ~(rec.pc # "idle" /\ rec.pool = p)

\* What a pool with nothing to do has done about a node, as the informers show it.
Tended(p, n) ==
    /\ p \in Matching(nodeSeen[n]) => bn[n].owner = p \/ conflict[p] # {}
    /\ bn[n].owner = p =>
          /\ p \in Matching(nodeSeen[n])
          /\ node[n].managed \/ node[n].phase = "absent"
          /\ bnSeen[n].owner = p /\ bnSeen[n].upToDate => ~node[n].taint

\* The three loops of a pass.
Syncing == rec.pc \in {"sync", "label"}
Removing == rec.pc \in {"remove", "delete"}
Tainting == rec.pc \in {"taint", "own"}

Ahead(n) == Syncing /\ n \in rec.todo \cup rec.cur

\* How the copies of a pass relate to the objects: nobody else creates or removes
\* BootcNodes and labels meanwhile.
Copies(n) ==
    /\ Syncing /\ n \in rec.todo => rec.bn[n].owner = bn[n].owner
    /\ rec.pc = "label" /\ n \in rec.cur => rec.bn[n].owner # rec.pool
    /\ Ahead(n) => /\ Matched(n)
                   /\ rec.node[n].managed => node[n].managed \/ node[n].phase = "absent"
    /\ (Syncing /\ ~Matched(n)) \/ (Removing /\ n \in rec.todo) =>
          (node[n].managed => nodeSeen[n].managed)
    /\ Removing /\ n \in rec.todo \cup rec.cur => rec.deleting \/ ~Matched(n)
    /\ rec.pc = "delete" /\ n \in rec.cur /\ node[n].managed => node[n].phase = "terminating"
    /\ rec.pc = "own" /\ n \in rec.cur => ~node[n].taint
    /\ bn[n].owner = rec.pool => rec.bn[n].owner = rec.pool \/ (rec.pc = "label" /\ n \in rec.cur)

\* What a pass whose pool was not queued again has done about a node so far.
Visited(n) ==
    /\ Matched(n) <=> rec.pool \in Matching(nodeSeen[n])
    /\ Matched(n) /\ ~Ahead(n) => rec.conflict # {} \/ bn[n].owner = rec.pool
    /\ bn[n].owner = rec.pool /\ Matched(n) /\ ~Ahead(n) =>
          node[n].managed \/ node[n].phase = "absent"
    /\ rec.bn[n].owner = rec.pool /\ ~Matched(n) =>
          Syncing \/ (Removing /\ n \in rec.todo \cup rec.cur)
    /\ bnSeen[n].owner = rec.pool /\ (Syncing \/ bn[n].owner = rec.pool) =>
          rec.bn[n] = bnSeen[n]
    /\ Tainting /\ rec.bn[n].owner = rec.pool /\ Verified(rec.bn[n]) /\ n \notin rec.todo =>
          ~node[n].taint

Undisturbed == ~rec.deleting /\ rec.pool \notin queue

\* The inductive invariant: what happens to a node reaches the pools that have to
\* act on it, through the queue or through an event that is still on its way.
RestInv ==
    /\ \A n \in Node : History(n) /\ Labelled(n)
    /\ \A p \in Pool : Attended(p) /\ (Resting(p) => \A n \in Node : Tended(p, n))
    /\ rec.pc # "idle" => \A n \in Node : Copies(n) /\ (Undisturbed => Visited(n))

\* What the user, the infrastructure, the daemons and the watches do to a node, its
\* BootcNode and their copies.
Aged(n) ==
    /\ node'[n].managed => node[n].managed
    /\ node'[n].taint => node[n].taint
    /\ node[n].managed => node'[n].managed \/ node'[n].phase = "absent"
    /\ node'[n].phase = "absent" /\ node[n].phase # "absent" => ~node'[n].managed /\ ~node'[n].taint
    /\ node[n].phase = "absent" => node'[n].phase = "absent"
    /\ node[n].phase # "present" => node'[n].phase # "present"
    /\ node[n].phase = "terminating" => node'[n].phase \in {"terminating", "absent"}

Kept(n) ==
    /\ bn'[n].owner = bn[n].owner /\ bn'[n].ownsTaint = bn[n].ownsTaint
    /\ bn[n].owner = NoPool => bn'[n].upToDate = bn[n].upToDate

Shown(n) ==
    /\ \/ nodeSeen'[n] = nodeSeen[n]
       \/ /\ nodeSeen'[n] = node[n] /\ node'[n] = node[n]
          /\ \A p \in Pool : Exists(p) /\ (p \in Matching(nodeSeen[n])) # (p \in Matching(node[n]))
                                => p \in queue'
    /\ \/ bnSeen'[n] = bnSeen[n]
       \/ /\ bnSeen'[n] = bn[n] /\ bn'[n] = bn[n]
          /\ bn[n].owner # NoPool => bn[n].owner \in queue'

\* A pool that exists stays as it is, or is deleted and queued.
Lives(p) ==
    \/ pool'[p] = pool[p]
    \/ pool[p] \notin {"live", "deleting"} /\ pool'[p] \notin {"live", "deleting"}
    \/ pool[p] = "live" /\ pool'[p] = "deleting" /\ p \in queue'

LEMMA Outside ==
    ASSUME Types, ~Replaced, \A n \in Node : Labelled(n),
           Cluster \/ \E n \in Node : Background(n)
    PROVE  /\ rec' = rec /\ conflict' = conflict /\ queue \subseteq queue'
           /\ \A n \in Node : Aged(n) /\ Kept(n) /\ Shown(n)
           /\ \A p \in Pool : Lives(p)
  <1> USE DEF Types, Objects
  <1>1. ASSUME NEW p \in Pool, CreatePool(p) \/ DeletePool(p)
        PROVE  /\ rec' = rec /\ conflict' = conflict /\ queue \subseteq queue'
               /\ \A n \in Node : Aged(n) /\ Kept(n) /\ Shown(n)
               /\ \A q \in Pool : Lives(q)
    <2>1. UNCHANGED <<conflict, node, bn, nodeSeen, bnSeen, rec>> /\ queue' = queue \cup {p}
      BY ZenonT(30), <1>1 DEF CreatePool, DeletePool
    <2>2. \A n \in Node : Aged(n) /\ Kept(n) /\ Shown(n)
      BY <2>1 DEF Aged, Kept, Shown, NodeObject
    <2>3. \A q \in Pool : Lives(q)
      BY <1>1, <2>1 DEF Lives, CreatePool, DeletePool
    <2> QED
      BY <2>1, <2>2, <2>3
  <1>2. ASSUME NEW m \in Node, Relabel(m) \/ DeleteNode(m) \/ NodeGone(m)
        PROVE  /\ UNCHANGED <<rec, conflict, queue, pool>>
               /\ \A n \in Node : Aged(n) /\ Kept(n) /\ Shown(n)
    <2>1. UNCHANGED <<pool, conflict, queue, bn, nodeSeen, bnSeen, rec>>
      BY ZenonT(30), <1>2 DEF Relabel, DeleteNode, NodeGone
    <2>2. \A n \in Node : Aged(n)
      <3>1. CASE Relabel(m)
        BY <3>1 DEF Relabel, Aged, NodeObject
      <3>2. CASE DeleteNode(m)
        BY <3>2 DEF DeleteNode, Aged, NodeObject
      <3>3. CASE NodeGone(m)
        BY <3>3 DEF NodeGone, Aged, NodeObject, NoNode
      <3> QED
        BY <1>2, <3>1, <3>2, <3>3
    <2> QED
      BY <2>1, <2>2 DEF Kept, Shown
  <1>3. ASSUME NEW m \in Node, CollectGarbage(m)
        PROVE  FALSE
    BY <1>3 DEF CollectGarbage, Labelled
  <1>4. ASSUME NEW m \in Node, Report(m) \/ Update(m)
        PROVE  /\ UNCHANGED <<rec, conflict, queue, pool>>
               /\ \A n \in Node : Aged(n) /\ Kept(n) /\ Shown(n)
    <2>1. UNCHANGED <<pool, conflict, node, queue, nodeSeen, bnSeen, rec>>
      BY ZenonT(30), <1>4 DEF Report, Update
    <2>2. \A n \in Node : Kept(n)
      BY <1>4 DEF Report, Update, Kept, BootcNode
    <2> QED
      BY <2>1, <2>2 DEF Aged, Shown, NodeObject
  <1>5. ASSUME NEW m \in Node, SeeNode(m)
        PROVE  /\ UNCHANGED <<rec, conflict, pool>> /\ queue \subseteq queue'
               /\ \A n \in Node : Aged(n) /\ Kept(n) /\ Shown(n)
    <2>1. /\ UNCHANGED <<pool, conflict, node, bn, bnSeen, rec>>
          /\ nodeSeen' = [nodeSeen EXCEPT ![m] = node[m]]
          /\ queue \subseteq queue'
      BY <1>5 DEF SeeNode
    <2>2. ASSUME NEW p \in Pool, Exists(p),
                 (p \in Matching(nodeSeen[m])) # (p \in Matching(node[m]))
          PROVE  p \in queue'
      <3>1. nodePredicates(nodeSeen[m], node[m])
        BY <2>2 DEF Matching, nodePredicates
      <3>2. p \in mapNodeToPoolRequests(m, nodeSeen[m]) \cup mapNodeToPoolRequests(m, node[m])
        BY <2>2 DEF mapNodeToPoolRequests
      <3> QED
        BY <1>5, <3>1, <3>2 DEF SeeNode
    <2>3. \A n \in Node : Shown(n)
      BY <2>1, <2>2 DEF Shown
    <2> QED
      BY <2>1, <2>3 DEF Aged, Kept, NodeObject
  <1>6. ASSUME NEW m \in Node, SeeBootcNode(m)
        PROVE  /\ UNCHANGED <<rec, conflict, pool>> /\ queue \subseteq queue'
               /\ \A n \in Node : Aged(n) /\ Kept(n) /\ Shown(n)
    <2>1. /\ UNCHANGED <<pool, conflict, node, bn, nodeSeen, rec>>
          /\ bnSeen' = [bnSeen EXCEPT ![m] = bn[m]]
          /\ queue' = queue \cup ({bnSeen[m].owner, bn[m].owner} \ {NoPool})
      BY <1>6 DEF SeeBootcNode
    <2> QED
      BY <2>1 DEF Aged, Kept, Shown, NodeObject
  <1>7. CASE \E p \in Pool : CreatePool(p) \/ DeletePool(p)
    BY <1>1, <1>7
  <1>8. CASE \E m \in Node : Relabel(m) \/ DeleteNode(m) \/ RegisterNode(m) \/ Background(m)
    <2>1. PICK m \in Node : Relabel(m) \/ DeleteNode(m) \/ RegisterNode(m) \/ Background(m)
      BY <1>8
    <2>2. ~RegisterNode(m)
      BY DEF RegisterNode
    <2>3. /\ UNCHANGED <<rec, conflict, pool>> /\ queue \subseteq queue'
          /\ \A n \in Node : Aged(n) /\ Kept(n) /\ Shown(n)
      BY ZenonT(60), <1>2, <1>3, <1>4, <1>5, <1>6, <2>1, <2>2 DEF Background
    <2> QED
      BY <2>3 DEF Lives
  <1> QED
    BY ZenonT(30), <1>7, <1>8 DEF Cluster

LEMMA OutsideRest ==
    ASSUME Types, Running, ~Replaced, RestInv, Cluster \/ \E n \in Node : Background(n)
    PROVE  RestInv'
  <1>0. /\ rec' = rec /\ conflict' = conflict /\ queue \subseteq queue'
        /\ \A n \in Node : Aged(n) /\ Kept(n) /\ Shown(n)
        /\ \A p \in Pool : Lives(p)
    BY ZenonT(30), Outside DEF RestInv
  <1>1. ASSUME NEW n \in Node PROVE History(n)'
    <2>1. History(n) /\ Aged(n) /\ Kept(n) /\ Shown(n)
      BY <1>0 DEF RestInv
    <2> QED
      BY ZenonT(60), <1>0, <2>1 DEF History, Aged, Kept, Shown
  <1>2. ASSUME NEW n \in Node PROVE Labelled(n)'
    <2>1. Labelled(n) /\ Aged(n) /\ Kept(n)
      BY <1>0 DEF RestInv
    <2>2. bn[n].owner \in Pool \cup {NoPool}
      BY DEF Types, Objects, BootcNode
    <2>3. bn[n].owner # NoPool => Lives(bn[n].owner)
      BY <1>0, <2>2
    <2> QED
      BY <2>1, <2>3 DEF Labelled, Aged, Kept, Lives
  <1>3. ASSUME NEW p \in Pool PROVE Attended(p)'
    <2>1. Attended(p) /\ Lives(p)
      BY <1>0 DEF RestInv
    <2> QED
      BY <1>0, <2>1 DEF Attended, Lives
  <1>4. ASSUME NEW p \in Pool, Resting(p)', NEW n \in Node PROVE Tended(p, n)'
    <2>1. Resting(p)
      BY <1>0, <1>4 DEF Resting, Lives
    <2>2. Tended(p, n) /\ Aged(n) /\ Kept(n) /\ Shown(n) /\ Exists(p) /\ p # NoPool /\ p \notin queue'
      BY <1>0, <1>4, <2>1, MembershipAssumption DEF RestInv, Resting, Exists
    <2>3. p \in Matching(nodeSeen'[n]) <=> p \in Matching(nodeSeen[n])
      BY <2>2 DEF Shown
    <2>4. bn'[n].owner = p /\ bnSeen'[n].owner = p => bnSeen'[n] = bnSeen[n]
      BY ZenonT(60), <2>2 DEF Shown, Kept
    <2> QED
      BY <1>0, <2>2, <2>3, <2>4 DEF Tended, Aged, Kept
  <1>5. ASSUME rec.pc # "idle", NEW n \in Node PROVE Copies(n)'
    <2>1. Copies(n) /\ Aged(n) /\ Kept(n) /\ Shown(n)
      BY <1>0, <1>5 DEF RestInv
    <2> QED
      BY ZenonT(60), <1>0, <2>1 DEF Copies, Ahead, Matched, Syncing, Removing, Aged, Kept, Shown
  <1>6. ASSUME rec.pc # "idle", NEW n \in Node, Undisturbed' PROVE Visited(n)'
    <2>1. Undisturbed
      BY <1>0, <1>6 DEF Undisturbed
    <2>2. Visited(n) /\ Aged(n) /\ Kept(n) /\ Shown(n)
      BY <1>0, <1>6, <2>1 DEF RestInv
    <2>3. /\ rec.pool \in Pool /\ rec.pool # NoPool /\ rec.pool \notin queue' /\ Exists(rec.pool)
      BY <1>0, <1>6, MembershipAssumption DEF Running, Undisturbed, Exists
    <2>4. rec.pool \in Matching(nodeSeen'[n]) <=> rec.pool \in Matching(nodeSeen[n])
      BY <2>2, <2>3 DEF Shown
    <2>5. bnSeen'[n].owner = rec.pool => bnSeen'[n] = bnSeen[n]
      BY <2>2, <2>3 DEF Shown
    <2> QED
      BY ZenonT(60), <1>0, <2>2, <2>4, <2>5
         DEF Visited, Ahead, Matched, Syncing, Removing, Tainting, Aged, Kept
  <1> QED
    BY <1>0, <1>1, <1>2, <1>3, <1>4, <1>5, <1>6 DEF RestInv

\* A request that begins: the informers show the truth.
LEMMA BeginRest ==
    ASSUME ~Lagging, Types, Running, RestInv, NEW q \in Pool,
           ReconcileNew(q) \/ addFinalizerFails(q) \/ StartReconcile(q)
    PROVE  RestInv'
  <1>0. /\ UNCHANGED <<conflict, node, bn, nodeSeen, bnSeen>> /\ rec.pc = "idle"
        /\ nodeSeen = node /\ bnSeen = bn
    BY ZenonT(30) DEF ReconcileNew, addFinalizerFails, StartReconcile, Begin
  <1>1. CASE ReconcileNew(q) \/ addFinalizerFails(q)
    <2>1. /\ rec' = rec
          /\ pool' = pool \/ (pool[q] = "new" /\ q \in queue' /\ pool' = [pool EXCEPT ![q] = "live"])
          /\ queue \ {q} \subseteq queue'
          /\ q \notin queue' => pool[q] = "gone"
      BY <1>1 DEF ReconcileNew, addFinalizerFails, Begin, Types, Objects
    <2>2. ASSUME NEW p \in Pool
          PROVE  /\ pool[p] \in {"live", "deleting"} => pool'[p] = pool[p]
                 /\ pool'[p] # pool[p] => p = q /\ pool'[p] = "live" /\ p \in queue'
      BY <2>1 DEF Types, Objects
    <2>3. ASSUME NEW n \in Node PROVE History(n)' /\ Labelled(n)'
      <3>1. bn[n].owner \in Pool \cup {NoPool} /\ History(n) /\ Labelled(n)
        BY DEF Types, Objects, BootcNode, RestInv
      <3> QED
        BY ZenonT(60), <1>0, <2>1, <2>2, <3>1 DEF History, Labelled
    <2>4. ASSUME NEW p \in Pool PROVE Attended(p)' /\ (Resting(p)' => Resting(p))
      <3>1. Attended(p)
        BY DEF RestInv
      <3> QED
        BY <1>0, <2>1, <2>2, <3>1 DEF Attended, Resting
    <2>5. ASSUME NEW p \in Pool, Resting(p)', NEW n \in Node PROVE Tended(p, n)'
      <3>1. Tended(p, n)
        BY <2>4, <2>5 DEF RestInv
      <3> QED
        BY <1>0, <3>1 DEF Tended
    <2> QED
      BY <1>0, <2>1, <2>3, <2>4, <2>5 DEF RestInv
  <1>2. CASE StartReconcile(q)
    <2>1. /\ pool' = pool /\ queue' = queue \ {q} /\ pool[q] \in {"live", "deleting"}
          /\ rec'.pool = q /\ rec'.deleting = (pool[q] = "deleting")
          /\ rec'.node = node /\ rec'.bn = bn /\ rec'.cur = {} /\ rec'.conflict = {}
          /\ rec'.pc = IF pool[q] = "live" THEN "sync" ELSE "remove"
          /\ rec'.todo = IF pool[q] = "live" THEN {n \in Node : q \in Matching(node[n])}
                         ELSE Owned(bn, q)
      BY <1>0, <1>2 DEF StartReconcile, NoRec
    <2>2. ASSUME NEW n \in Node PROVE History(n)' /\ Labelled(n)'
      <3>1. History(n) /\ Labelled(n)
        BY DEF RestInv
      <3> QED
        BY ZenonT(60), <1>0, <2>1, <3>1 DEF History, Labelled
    <2>3. ASSUME NEW p \in Pool PROVE Attended(p)' /\ (Resting(p)' => Resting(p))
      <3>1. Attended(p)
        BY DEF RestInv
      <3> QED
        BY ZenonT(60), <1>0, <2>1, <3>1 DEF Attended, Resting
    <2>4. ASSUME NEW p \in Pool, Resting(p)', NEW n \in Node PROVE Tended(p, n)'
      <3>1. Tended(p, n)
        BY <2>3, <2>4 DEF RestInv
      <3> QED
        BY <1>0, <3>1 DEF Tended
    <2>5. ASSUME NEW n \in Node PROVE Copies(n)'
      BY ZenonT(60), <1>0, <2>1 DEF Copies, Ahead, Matched, Syncing, Removing
    <2>6. ASSUME NEW n \in Node, Undisturbed' PROVE Visited(n)'
      BY ZenonT(60), <1>0, <2>1, <2>6
         DEF Visited, Ahead, Matched, Syncing, Removing, Tainting, Undisturbed
    <2> QED
      BY <2>2, <2>3, <2>4, <2>5, <2>6 DEF RestInv
  <1> QED
    BY <1>1, <1>2

\* A step of a pass about one node leaves the others alone.
Elsewhere(n) ==
    /\ UNCHANGED <<pool, conflict, nodeSeen, bnSeen, queue>>
    /\ rec.pc # "idle" /\ rec'.pc # "idle"
    /\ rec'.pool = rec.pool /\ rec'.deleting = rec.deleting /\ rec'.node = rec.node
    /\ rec.conflict \subseteq rec'.conflict
    /\ Syncing' = Syncing /\ Removing' = Removing /\ Tainting' = Tainting
    /\ node'[n].phase = node[n].phase
    /\ \A k \in Node \ {n} :
          /\ node'[k] = node[k] /\ bn'[k] = bn[k] /\ rec'.bn[k] = rec.bn[k]
          /\ k \in rec'.todo <=> k \in rec.todo
          /\ k \notin rec.cur /\ k \notin rec'.cur

LEMMA GoesElsewhere ==
    ASSUME Types, Running, Pass, NEW n \in Node, Goes(n)
    PROVE  Elsewhere(n)
  <1>0. /\ OneAtATime /\ rec \in Rec_ /\ rec.pc # "idle" /\ rec.pool \in Pool
        /\ node \in [Node -> NodeObject] /\ bn \in [Node -> BootcNode]
    <2>1. rec.pc # "idle"
      BY GoesStep
    <2> QED
      BY <2>1 DEF Types, Objects, Pass, Running
  <1>1. UNCHANGED <<pool, conflict, nodeSeen, bnSeen, queue>>
    BY ZenonT(60) DEF Goes, repairLabel, createBootcNode, createConflicts, labelCreated,
       removeBootcNode, deleteBootcNode, removeOsNotReadyTaint, clearTaintOwnership
  <1>2. ASSUME NEW copy, NEW m \in BOOLEAN, ensureManagedLabel(n, copy, m)
        PROVE  node'[n].phase = node[n].phase /\ \A k \in Node \ {n} : node'[k] = node[k]
    BY <1>0, <1>2 DEF ensureManagedLabel, NodeObject
  <1> USE DEF Syncing, Removing, Tainting, OneAtATime
  <1>3. CASE repairLabel(n)
    <2>1. /\ rec.pc = "sync" /\ bn' = bn /\ rec' = [rec EXCEPT !.todo = @ \ {n}]
          /\ ensureManagedLabel(n, rec.node[n], TRUE)
      BY ZenonT(60), <1>3 DEF repairLabel
    <2> QED
      BY ZenonT(60), <1>0, <1>1, <1>2, <2>1 DEF Elsewhere, Rec_
  <1>4. CASE createBootcNode(n)
    <2>1. /\ rec.pc = "sync" /\ node' = node
          /\ \A k \in Node \ {n} : bn'[k] = bn[k]
          /\ rec' = [rec EXCEPT !.pc = "label", !.todo = @ \ {n}, !.cur = {n}]
      BY <1>0, <1>4 DEF createBootcNode
    <2> QED
      BY <1>0, <1>1, <2>1 DEF Elsewhere, Rec_
  <1>5. CASE createConflicts(n)
    <2>1. /\ rec.pc = "sync" /\ node' = node /\ bn' = bn
          /\ rec' = [rec EXCEPT !.todo = @ \ {n}, !.conflict = @ \cup conflictingPools(n)]
      BY <1>5 DEF createConflicts
    <2> QED
      BY <1>0, <1>1, <2>1 DEF Elsewhere, Rec_
  <1>6. CASE labelCreated(n)
    <2>1. /\ rec.pc = "label" /\ n \in rec.cur /\ bn' = bn
          /\ rec' = [rec EXCEPT !.pc = "sync", !.cur = {},
                                !.bn[n] = NewBN(rec.pool, rec.node[n])]
          /\ ensureManagedLabel(n, rec.node[n], TRUE)
      BY ZenonT(60), <1>6 DEF labelCreated
    <2>2. node'[n].phase = node[n].phase /\ \A k \in Node \ {n} : node'[k] = node[k]
      BY ZenonT(60), <1>2, <2>1
    <2> QED
      BY <1>0, <1>1, <2>1, <2>2 DEF Elsewhere, Rec_
  <1>7. CASE removeBootcNode(n)
    <2>1. /\ rec.pc = "remove" /\ bn' = bn
          /\ rec' = [rec EXCEPT !.pc = "delete", !.todo = @ \ {n}, !.cur = {n}]
          /\ node' = node \/ ensureManagedLabel(n, nodeSeen[n], FALSE)
      BY ZenonT(60), <1>7 DEF removeBootcNode
    <2>2. node'[n].phase = node[n].phase /\ \A k \in Node \ {n} : node'[k] = node[k]
      BY ZenonT(60), <1>2, <2>1
    <2> QED
      BY <1>0, <1>1, <2>1, <2>2 DEF Elsewhere, Rec_
  <1>8. CASE deleteBootcNode(n)
    <2>1. /\ rec.pc = "delete" /\ n \in rec.cur /\ node' = node
          /\ bn' = [bn EXCEPT ![n] = NoBN]
          /\ rec' = [rec EXCEPT !.pc = "remove", !.cur = {}, !.bn[n] = NoBN]
      BY <1>8 DEF deleteBootcNode
    <2> QED
      BY <1>0, <1>1, <2>1 DEF Elsewhere, Rec_
  <1>9. CASE removeOsNotReadyTaint(n)
    <2>1. /\ rec.pc = "taint" /\ bn' = bn
          /\ rec' = [rec EXCEPT !.pc = "own", !.todo = @ \ {n}, !.cur = {n}]
          /\ node'[n].phase = node[n].phase /\ \A k \in Node \ {n} : node'[k] = node[k]
      BY <1>0, <1>9 DEF removeOsNotReadyTaint, NodeObject
    <2> QED
      BY <1>0, <1>1, <2>1 DEF Elsewhere, Rec_
  <1>10. CASE clearTaintOwnership(n)
    <2>1. /\ rec.pc = "own" /\ n \in rec.cur /\ node' = node
          /\ \A k \in Node \ {n} : bn'[k] = bn[k]
          /\ rec' = [rec EXCEPT !.pc = "taint", !.cur = {}]
      BY <1>0, <1>10 DEF clearTaintOwnership
    <2> QED
      BY <1>0, <1>1, <2>1 DEF Elsewhere, Rec_
  <1> QED
    BY ZenonT(30), <1>3, <1>4, <1>5, <1>6, <1>7, <1>8, <1>9, <1>10 DEF Goes

\* What the invariant says of one node during a pass.
Here(n) ==
    /\ History(n) /\ Labelled(n)
    /\ \A p \in Pool : Resting(p) => Tended(p, n)
    /\ Copies(n) /\ (Undisturbed => Visited(n))

LEMMA ThereRest ==
    ASSUME NEW n \in Node, Elsewhere(n), NEW k \in Node, k # n, Here(k)
    PROVE  Here(k)'
  <1>0. /\ UNCHANGED <<pool, conflict, nodeSeen, bnSeen, queue>>
        /\ rec.pc # "idle" /\ rec'.pc # "idle"
        /\ rec'.pool = rec.pool /\ rec'.deleting = rec.deleting /\ rec'.node = rec.node
        /\ rec.conflict \subseteq rec'.conflict
        /\ Syncing' = Syncing /\ Removing' = Removing /\ Tainting' = Tainting
        /\ node'[k] = node[k] /\ bn'[k] = bn[k] /\ rec'.bn[k] = rec.bn[k]
        /\ k \in rec'.todo <=> k \in rec.todo
        /\ k \notin rec.cur /\ k \notin rec'.cur
    BY DEF Elsewhere
  <1>1. History(k)' /\ Labelled(k)'
    BY ZenonT(60), <1>0 DEF Here, History, Labelled
  <1>2. ASSUME NEW p \in Pool, Resting(p)' PROVE Tended(p, k)'
    BY <1>0, <1>2 DEF Here, Tended, Resting
  <1>3. Matched(k)' = Matched(k) /\ Ahead(k)' = Ahead(k) /\ Undisturbed' = Undisturbed
    BY <1>0 DEF Matched, Ahead, Undisturbed
  <1>4. Copies(k)'
    BY ZenonT(60), <1>0, <1>3 DEF Here, Copies
  <1>5. Undisturbed => Visited(k)'
    BY <1>0, <1>3 DEF Here, Visited
  <1> QED
    BY <1>1, <1>2, <1>3, <1>4, <1>5 DEF Here

\* The invariant is what it says of every node, and what it says of the pools.
LEMMA HereRest ==
    /\ RestInv /\ rec.pc # "idle" => \A n \in Node : Here(n)
    /\ (\A n \in Node : Here(n)) /\ (\A p \in Pool : Attended(p)) => RestInv
  BY DEF RestInv, Here

\* Which facts about the node of a step are left to prove.
LEMMA GoesRest ==
    ASSUME Types, Running, Pass, RestInv, NEW n \in Node, Goes(n),
           Here(n) => Here(n)'
    PROVE  RestInv'
  <1>1. Elsewhere(n)
    BY GoesElsewhere
  <1>2. rec.pc # "idle" /\ UNCHANGED <<pool, queue>> /\ rec'.pool = rec.pool
        /\ rec'.deleting = rec.deleting /\ rec'.pc # "idle"
    BY ZenonT(60), <1>1 DEF Elsewhere
  <1>3. \A k \in Node : Here(k)
    BY ZenonT(30), <1>2, HereRest
  <1>4. \A k \in Node : Here(k)'
    BY ZenonT(30), <1>1, <1>3, ThereRest
  <1>5. \A p \in Pool : Attended(p)'
    BY <1>2 DEF RestInv, Attended
  <1> QED
    BY <1>4, <1>5 DEF RestInv, Here

LEMMA LabelEffect ==
    ASSUME Types, NEW n \in Node, NEW copy, NEW m \in BOOLEAN, ensureManagedLabel(n, copy, m)
    PROVE  /\ node'[n].phase = node[n].phase /\ node'[n].taint = node[n].taint
           /\ \/ node'[n] = node[n] /\ copy.managed = m
              \/ copy = node[n] /\ node'[n].managed = m
  BY DEF ensureManagedLabel, Types, Objects, NodeObject

\* What a step of a pass about a node may rely on.
LEMMA GoesFacts ==
    ASSUME Types, Running, Pass, NEW n \in Node, Goes(n)
    PROVE  /\ UNCHANGED <<pool, conflict, nodeSeen, bnSeen, queue>>
           /\ rec'.pool = rec.pool /\ rec'.deleting = rec.deleting /\ rec'.node = rec.node
           /\ rec.pc # "idle" /\ rec'.pc # "idle"
           /\ OneAtATime /\ Holds /\ rec \in Rec_ /\ rec.pool \in Pool /\ rec.pool # NoPool
           /\ pool[rec.pool] \in {"live", "deleting"}
           /\ Matched(n)' = Matched(n) /\ Undisturbed' = Undisturbed
           /\ \A p \in Pool : Resting(p)' => Resting(p) /\ p # rec.pool
  <1>1. /\ UNCHANGED <<pool, conflict, nodeSeen, bnSeen, queue>>
        /\ rec'.pool = rec.pool /\ rec'.deleting = rec.deleting /\ rec'.node = rec.node
        /\ rec.pc # "idle" /\ rec'.pc # "idle"
    BY ZenonT(60), GoesElsewhere DEF Elsewhere
  <1>2. /\ OneAtATime /\ Holds /\ rec \in Rec_ /\ rec.pool \in Pool /\ rec.pool # NoPool
        /\ pool[rec.pool] \in {"live", "deleting"}
    BY <1>1, MembershipAssumption DEF Types, Running, Pass
  <1> QED
    BY <1>1, <1>2 DEF Matched, Undisturbed, Resting

LEMMA RepairRest ==
    ASSUME Types, Running, Pass, NEW n \in Node, repairLabel(n), Here(n)
    PROVE  Here(n)'
  <1>0. /\ UNCHANGED <<pool, conflict, nodeSeen, bnSeen, queue>>
        /\ rec'.pool = rec.pool /\ rec'.deleting = rec.deleting /\ rec'.node = rec.node
        /\ rec.pc # "idle" /\ rec'.pc # "idle"
        /\ Holds /\ rec \in Rec_ /\ rec.pool # NoPool /\ OneAtATime
        /\ Matched(n)' = Matched(n) /\ Undisturbed' = Undisturbed
        /\ \A p \in Pool : Resting(p)' => Resting(p) /\ p # rec.pool
    BY ZenonT(30), GoesFacts DEF Goes
  <1>1. /\ rec.pc = "sync" /\ n \in rec.todo /\ rec.bn[n].owner = rec.pool
        /\ ensureManagedLabel(n, rec.node[n], TRUE) /\ bn' = bn
        /\ rec'.pc = "sync" /\ rec'.bn = rec.bn /\ n \notin rec'.todo /\ rec'.cur = {}
        /\ rec'.conflict = rec.conflict
    BY ZenonT(60), <1>0 DEF repairLabel, Member, Rec_, OneAtATime
  <1>2. /\ bn[n].owner = rec.pool /\ Ahead(n) /\ ~Ahead(n)' /\ Syncing /\ Syncing' /\ Matched(n)
    BY ZenonT(60), <1>0, <1>1 DEF Here, Holds, Copies, Ahead, Syncing
  <1>3. /\ node'[n].phase = node[n].phase /\ node'[n].taint = node[n].taint
        /\ node[n].managed => node'[n].managed
        /\ node'[n].managed \/ node'[n].phase = "absent"
        /\ node'[n].managed => node'[n].phase # "absent"
    <2>1. /\ node'[n].phase = node[n].phase /\ node'[n].taint = node[n].taint
          /\ \/ node'[n] = node[n] /\ rec.node[n].managed = TRUE
             \/ rec.node[n] = node[n] /\ node'[n].managed = TRUE
      BY ZenonT(60), <1>1, LabelEffect
    <2>2. /\ rec.node[n].phase # "absent"
          /\ rec.node[n].managed => node[n].managed \/ node[n].phase = "absent"
          /\ node[n].phase = "absent" => ~node[n].managed
      BY ZenonT(60), <1>2 DEF Here, History, Copies, Matched, Matching
    <2> QED
      BY <2>1, <2>2
  <1>4. History(n)' /\ Labelled(n)'
    BY ZenonT(60), <1>0, <1>1, <1>2, <1>3 DEF Here, History, Labelled
  <1>5. ASSUME NEW p \in Pool, Resting(p)' PROVE Tended(p, n)'
    BY ZenonT(60), <1>0, <1>1, <1>2, <1>5 DEF Here, Tended
  <1>6. Copies(n)'
    BY <1>0, <1>1, <1>2 DEF Copies, Removing
  <1>7. Undisturbed => Visited(n)'
    BY ZenonT(60), <1>0, <1>1, <1>2, <1>3 DEF Here, Visited, Removing, Tainting
  <1> QED
    BY ZenonT(60), <1>0, <1>4, <1>5, <1>6, <1>7 DEF Here

LEMMA CreateRest ==
    ASSUME Types, Running, Pass, NEW n \in Node, createBootcNode(n), Here(n)
    PROVE  Here(n)'
  <1>0. /\ UNCHANGED <<pool, conflict, nodeSeen, bnSeen, queue>>
        /\ rec'.pool = rec.pool /\ rec'.deleting = rec.deleting /\ rec'.node = rec.node
        /\ rec.pc # "idle" /\ rec'.pc # "idle" /\ rec \in Rec_ /\ rec.pool # NoPool
        /\ pool[rec.pool] \in {"live", "deleting"}
        /\ Matched(n)' = Matched(n) /\ Undisturbed' = Undisturbed
        /\ \A p \in Pool : Resting(p)' => Resting(p) /\ p # rec.pool
    BY ZenonT(30), GoesFacts DEF Goes
  <1>1. /\ rec.pc = "sync" /\ n \in rec.todo /\ rec.bn[n].owner # rec.pool
        /\ bn[n].owner = NoPool /\ node' = node
        /\ bn'[n].owner = rec.pool /\ bn'[n].upToDate = FALSE
        /\ bn'[n].ownsTaint = rec.node[n].taint
        /\ rec'.pc = "label" /\ rec'.bn = rec.bn /\ n \notin rec'.todo /\ rec'.cur = {n}
        /\ rec'.conflict = rec.conflict
    BY <1>0 DEF createBootcNode, Member, NewBN, Rec_, Types, Objects
  <1>2. Ahead(n) /\ Ahead(n)' /\ Syncing /\ Syncing' /\ Matched(n)
    BY ZenonT(60), <1>0, <1>1 DEF Here, Copies, Ahead, Syncing
  <1>3. History(n)' /\ Labelled(n)'
    BY ZenonT(60), <1>0, <1>1 DEF Here, History, Labelled
  <1>4. ASSUME NEW p \in Pool, Resting(p)' PROVE Tended(p, n)'
    <2>1. Tended(p, n) /\ p # rec.pool /\ p # NoPool
      BY <1>0, <1>4, MembershipAssumption DEF Here
    <2> QED
      BY ZenonT(60), <1>0, <1>1, <2>1 DEF Tended
  <1>5. Copies(n)'
    BY ZenonT(60), <1>0, <1>1, <1>2 DEF Here, Copies, Removing
  <1>6. Undisturbed => Visited(n)'
    BY ZenonT(60), <1>0, <1>1, <1>2 DEF Here, Visited, Removing, Tainting
  <1> QED
    BY ZenonT(60), <1>0, <1>3, <1>4, <1>5, <1>6 DEF Here

LEMMA ConflictRest ==
    ASSUME Types, Running, Pass, NEW n \in Node, createConflicts(n), Here(n)
    PROVE  Here(n)'
  <1>0. /\ UNCHANGED <<pool, conflict, nodeSeen, bnSeen, queue>>
        /\ rec'.pool = rec.pool /\ rec'.deleting = rec.deleting /\ rec'.node = rec.node
        /\ rec.pc # "idle" /\ rec'.pc # "idle" /\ rec \in Rec_ /\ OneAtATime
        /\ Matched(n)' = Matched(n) /\ Undisturbed' = Undisturbed
        /\ \A p \in Pool : Resting(p)' => Resting(p) /\ p # rec.pool
    BY ZenonT(30), GoesFacts DEF Goes
  <1>1. /\ rec.pc = "sync" /\ n \in rec.todo /\ rec.bn[n].owner # rec.pool
        /\ bn[n].owner # NoPool /\ node' = node /\ bn' = bn
        /\ rec'.pc = "sync" /\ rec'.bn = rec.bn /\ n \notin rec'.todo /\ rec'.cur = {}
        /\ rec'.conflict = rec.conflict \cup conflictingPools(n)
    BY <1>0 DEF createConflicts, Member, Rec_, OneAtATime
  <1>2. /\ Ahead(n) /\ ~Ahead(n)' /\ Syncing /\ Syncing' /\ Matched(n)
        /\ rec.bn[n].owner = bn[n].owner
    BY ZenonT(60), <1>0, <1>1 DEF Here, Copies, Ahead, Syncing
  <1>3. rec'.conflict # {}
    BY <1>1, <1>2 DEF conflictingPools
  <1>4. History(n)' /\ Labelled(n)'
    BY ZenonT(60), <1>0, <1>1 DEF Here, History, Labelled
  <1>5. ASSUME NEW p \in Pool, Resting(p)' PROVE Tended(p, n)'
    BY ZenonT(60), <1>0, <1>1, <1>5 DEF Here, Tended
  <1>6. Copies(n)'
    BY ZenonT(60), <1>0, <1>1, <1>2 DEF Here, Copies, Removing
  <1>7. Undisturbed => Visited(n)'
    BY ZenonT(60), <1>0, <1>1, <1>2, <1>3 DEF Here, Visited, Removing, Tainting
  <1> QED
    BY ZenonT(60), <1>0, <1>4, <1>5, <1>6, <1>7 DEF Here

LEMMA LabelledRest ==
    ASSUME Types, Running, Pass, NEW n \in Node, labelCreated(n), Here(n)
    PROVE  Here(n)'
  <1>0. /\ UNCHANGED <<pool, conflict, nodeSeen, bnSeen, queue>>
        /\ rec'.pool = rec.pool /\ rec'.deleting = rec.deleting /\ rec'.node = rec.node
        /\ rec.pc # "idle" /\ rec'.pc # "idle"
        /\ Holds /\ rec \in Rec_ /\ rec.pool # NoPool /\ OneAtATime
        /\ Matched(n)' = Matched(n) /\ Undisturbed' = Undisturbed
        /\ \A p \in Pool : Resting(p)' => Resting(p) /\ p # rec.pool
    BY ZenonT(30), GoesFacts DEF Goes
  <1>1. /\ rec.pc = "label" /\ n \in rec.cur
        /\ ensureManagedLabel(n, rec.node[n], TRUE) /\ bn' = bn
        /\ rec'.pc = "sync" /\ rec'.todo = rec.todo /\ rec'.cur = {}
        /\ rec'.conflict = rec.conflict
        /\ rec'.bn[n].owner = rec.pool /\ rec'.bn[n].ownsTaint = rec.node[n].taint
    BY ZenonT(60), <1>0 DEF labelCreated, NewBN, Rec_
  <1>2. /\ bn[n].owner = rec.pool /\ rec.bn[n].owner # rec.pool /\ n \notin rec.todo
        /\ Ahead(n) /\ ~Ahead(n)' /\ Syncing /\ Syncing' /\ Matched(n)
    BY ZenonT(60), <1>0, <1>1 DEF Here, Holds, OneAtATime, Copies, Ahead, Syncing
  <1>3. /\ node'[n].phase = node[n].phase /\ node'[n].taint = node[n].taint
        /\ node[n].managed => node'[n].managed
        /\ node'[n].managed \/ node'[n].phase = "absent"
        /\ node'[n].managed => node'[n].phase # "absent"
    <2>1. /\ node'[n].phase = node[n].phase /\ node'[n].taint = node[n].taint
          /\ \/ node'[n] = node[n] /\ rec.node[n].managed = TRUE
             \/ rec.node[n] = node[n] /\ node'[n].managed = TRUE
      BY ZenonT(60), <1>1, LabelEffect
    <2>2. /\ rec.node[n].phase # "absent"
          /\ rec.node[n].managed => node[n].managed \/ node[n].phase = "absent"
          /\ node[n].phase = "absent" => ~node[n].managed
      BY ZenonT(60), <1>2 DEF Here, History, Copies, Matched, Matching
    <2> QED
      BY <2>1, <2>2
  <1>4. History(n)' /\ Labelled(n)'
    BY ZenonT(60), <1>0, <1>1, <1>2, <1>3 DEF Here, History, Labelled
  <1>5. ASSUME NEW p \in Pool, Resting(p)' PROVE Tended(p, n)'
    BY ZenonT(60), <1>0, <1>1, <1>2, <1>5 DEF Here, Tended
  <1>6. Copies(n)'
    BY ZenonT(60), <1>0, <1>1, <1>2 DEF Copies, Removing
  <1>7. Undisturbed => Visited(n)'
    BY ZenonT(60), <1>0, <1>1, <1>2, <1>3 DEF Here, Visited, Removing, Tainting
  <1> QED
    BY ZenonT(60), <1>0, <1>4, <1>5, <1>6, <1>7 DEF Here

LEMMA RemoveRest ==
    ASSUME Types, Running, Pass, NEW n \in Node, removeBootcNode(n), Here(n)
    PROVE  Here(n)'
  <1>0. /\ UNCHANGED <<pool, conflict, nodeSeen, bnSeen, queue>>
        /\ rec'.pool = rec.pool /\ rec'.deleting = rec.deleting /\ rec'.node = rec.node
        /\ rec.pc # "idle" /\ rec'.pc # "idle"
        /\ Holds /\ rec \in Rec_ /\ rec.pool # NoPool
        /\ Matched(n)' = Matched(n) /\ Undisturbed' = Undisturbed
        /\ \A p \in Pool : Resting(p)' => Resting(p) /\ p # rec.pool
    BY ZenonT(30), GoesFacts DEF Goes
  <1>1. /\ rec.pc = "remove" /\ n \in rec.todo /\ bn' = bn
        /\ rec'.pc = "delete" /\ rec'.bn = rec.bn /\ n \notin rec'.todo /\ rec'.cur = {n}
        /\ rec'.conflict = rec.conflict
        /\ IF nodeSeen[n].phase = "present" THEN ensureManagedLabel(n, nodeSeen[n], FALSE)
                                            ELSE node' = node
    BY ZenonT(60), <1>0 DEF removeBootcNode, Rec_
  <1>2. /\ rec.bn[n].owner = rec.pool /\ bn[n].owner = rec.pool
        /\ ~Ahead(n)' /\ ~Ahead(n) /\ ~Syncing /\ ~Syncing' /\ Removing /\ Removing'
    BY ZenonT(60), <1>0, <1>1 DEF Holds, Ahead, Syncing, Removing
  <1>3. /\ node'[n].phase = node[n].phase /\ node'[n].taint = node[n].taint
        /\ node'[n].managed => node[n].managed /\ node'[n].phase = "terminating"
    <2>1. /\ node[n].managed => nodeSeen[n].managed /\ node[n].phase # "absent"
          /\ nodeSeen[n].phase # "present" => node[n].phase # "present"
          /\ node[n].phase \in {"absent", "present", "terminating"}
      BY ZenonT(60), <1>1, <1>2 DEF Here, History, Copies, Types, Objects, NodeObject
    <2>2. CASE nodeSeen[n].phase = "present"
      <3>1. /\ node'[n].phase = node[n].phase /\ node'[n].taint = node[n].taint
            /\ \/ node'[n] = node[n] /\ nodeSeen[n].managed = FALSE
               \/ node'[n].managed = FALSE
        BY ZenonT(60), <1>1, <2>2, LabelEffect
      <3> QED
        BY <2>1, <3>1
    <2>3. CASE nodeSeen[n].phase # "present"
      BY ZenonT(60), <1>1, <2>1, <2>3
    <2> QED
      BY <2>2, <2>3
  <1>4. History(n)' /\ Labelled(n)'
    BY ZenonT(60), <1>0, <1>1, <1>2, <1>3 DEF Here, History, Labelled
  <1>5. ASSUME NEW p \in Pool, Resting(p)' PROVE Tended(p, n)'
    BY ZenonT(60), <1>0, <1>1, <1>2, <1>5 DEF Here, Tended
  <1>6. Copies(n)'
    BY ZenonT(60), <1>0, <1>1, <1>2, <1>3 DEF Here, Copies
  <1>7. Undisturbed => Visited(n)'
    <2>1. Undisturbed => ~Matched(n)
      BY ZenonT(60), <1>1, <1>2 DEF Here, Copies, Undisturbed
    <2> QED
      BY ZenonT(60), <1>0, <1>1, <1>2, <2>1 DEF Here, Visited, Tainting
  <1> QED
    BY ZenonT(60), <1>0, <1>4, <1>5, <1>6, <1>7 DEF Here

LEMMA DeleteRest ==
    ASSUME Types, Running, Pass, NEW n \in Node, deleteBootcNode(n), Here(n)
    PROVE  Here(n)'
  <1>0. /\ UNCHANGED <<pool, conflict, nodeSeen, bnSeen, queue>>
        /\ rec'.pool = rec.pool /\ rec'.deleting = rec.deleting /\ rec'.node = rec.node
        /\ rec.pc # "idle" /\ rec'.pc # "idle"
        /\ Holds /\ rec \in Rec_ /\ rec.pool # NoPool /\ OneAtATime
        /\ Matched(n)' = Matched(n) /\ Undisturbed' = Undisturbed
        /\ \A p \in Pool : Resting(p)' => Resting(p) /\ p # rec.pool
    BY ZenonT(30), GoesFacts DEF Goes
  <1>1. /\ rec.pc = "delete" /\ n \in rec.cur /\ node' = node
        /\ rec'.pc = "remove" /\ rec'.todo = rec.todo /\ rec'.cur = {}
        /\ rec'.conflict = rec.conflict
        /\ bn'[n] = NoBN /\ rec'.bn[n] = NoBN
    BY <1>0 DEF deleteBootcNode, Rec_, Types, Objects
  <1>2. /\ rec.bn[n].owner = rec.pool /\ bn[n].owner = rec.pool /\ n \notin rec.todo
        /\ ~Ahead(n)' /\ ~Syncing /\ ~Syncing' /\ Removing /\ Removing'
        /\ NoBN.owner = NoPool /\ ~NoBN.upToDate
    BY <1>0, <1>1 DEF Holds, OneAtATime, Ahead, Syncing, Removing, NoBN
  <1>3. History(n)' /\ Labelled(n)'
    BY ZenonT(60), <1>0, <1>1, <1>2 DEF Here, History, Labelled, Copies
  <1>4. ASSUME NEW p \in Pool, Resting(p)' PROVE Tended(p, n)'
    <2>1. Tended(p, n) /\ p # rec.pool /\ p # NoPool
      BY ZenonT(60), <1>0, <1>4, MembershipAssumption DEF Here
    <2> QED
      BY ZenonT(60), <1>0, <1>1, <1>2, <2>1 DEF Tended
  <1>5. Copies(n)'
    BY ZenonT(60), <1>0, <1>1, <1>2 DEF Copies
  <1>6. Undisturbed => Visited(n)'
    <2>1. Undisturbed => ~Matched(n)
      BY ZenonT(60), <1>1, <1>2 DEF Here, Copies, Undisturbed
    <2> QED
      BY ZenonT(60), <1>0, <1>1, <1>2, <2>1 DEF Here, Visited, Tainting
  <1> QED
    BY <1>0, <1>3, <1>4, <1>5, <1>6 DEF Here

LEMMA UntaintRest ==
    ASSUME Types, Running, Pass, NEW n \in Node, removeOsNotReadyTaint(n), Here(n)
    PROVE  Here(n)'
  <1>0. /\ UNCHANGED <<pool, conflict, nodeSeen, bnSeen, queue>>
        /\ rec'.pool = rec.pool /\ rec'.deleting = rec.deleting /\ rec'.node = rec.node
        /\ rec.pc # "idle" /\ rec'.pc # "idle" /\ rec \in Rec_
        /\ Matched(n)' = Matched(n) /\ Undisturbed' = Undisturbed
        /\ \A p \in Pool : Resting(p)' => Resting(p) /\ p # rec.pool
    BY ZenonT(30), GoesFacts DEF Goes
  <1>1. /\ rec.pc = "taint" /\ n \in rec.todo /\ bn' = bn
        /\ rec'.pc = "own" /\ rec'.bn = rec.bn /\ n \notin rec'.todo /\ rec'.cur = {n}
        /\ rec'.conflict = rec.conflict
    BY <1>0 DEF removeOsNotReadyTaint, Rec_
  <1>2. /\ node'[n].phase = node[n].phase /\ node'[n].managed = node[n].managed
        /\ ~node'[n].taint
    <2>1. /\ node'[n].phase = node[n].phase /\ node'[n].managed = node[n].managed
          /\ node'[n].taint = IF nodeSeen[n].taint THEN FALSE ELSE node[n].taint
      BY DEF removeOsNotReadyTaint, Types, Objects, NodeObject
    <2> QED
      BY ZenonT(60), <2>1 DEF Here, History
  <1>3. /\ ~Ahead(n)' /\ ~Ahead(n) /\ ~Syncing /\ ~Syncing' /\ ~Removing /\ ~Removing'
        /\ Tainting /\ Tainting'
    BY <1>1 DEF Ahead, Syncing, Removing, Tainting
  <1>4. History(n)' /\ Labelled(n)'
    BY ZenonT(60), <1>0, <1>1, <1>2 DEF Here, History, Labelled
  <1>5. ASSUME NEW p \in Pool, Resting(p)' PROVE Tended(p, n)'
    BY ZenonT(60), <1>0, <1>1, <1>2, <1>5 DEF Here, Tended
  <1>6. Copies(n)'
    BY ZenonT(60), <1>0, <1>1, <1>2, <1>3 DEF Here, Copies
  <1>7. Undisturbed => Visited(n)'
    BY ZenonT(60), <1>0, <1>1, <1>2, <1>3 DEF Here, Visited
  <1> QED
    BY ZenonT(60), <1>0, <1>4, <1>5, <1>6, <1>7 DEF Here

LEMMA DisownRest ==
    ASSUME Types, Running, Pass, NEW n \in Node, clearTaintOwnership(n), Here(n)
    PROVE  Here(n)'
  <1>0. /\ UNCHANGED <<pool, conflict, nodeSeen, bnSeen, queue>>
        /\ rec'.pool = rec.pool /\ rec'.deleting = rec.deleting /\ rec'.node = rec.node
        /\ rec.pc # "idle" /\ rec'.pc # "idle" /\ rec \in Rec_
        /\ Matched(n)' = Matched(n) /\ Undisturbed' = Undisturbed
        /\ \A p \in Pool : Resting(p)' => Resting(p) /\ p # rec.pool
    BY ZenonT(30), GoesFacts DEF Goes
  <1>1. /\ rec.pc = "own" /\ n \in rec.cur /\ node' = node
        /\ rec'.pc = "taint" /\ rec'.bn = rec.bn /\ rec'.todo = rec.todo /\ rec'.cur = {}
        /\ rec'.conflict = rec.conflict
        /\ bn'[n].owner = bn[n].owner /\ bn'[n].upToDate = bn[n].upToDate
    BY <1>0 DEF clearTaintOwnership, Rec_, Types, Objects, BootcNode
  <1>2. /\ ~Ahead(n)' /\ ~Ahead(n) /\ ~Syncing /\ ~Syncing' /\ ~Removing /\ ~Removing'
        /\ Tainting /\ Tainting'
    BY <1>1 DEF Ahead, Syncing, Removing, Tainting
  <1>3. ~node[n].taint
    BY ZenonT(60), <1>1 DEF Here, Copies
  <1>4. History(n)' /\ Labelled(n)'
    BY ZenonT(60), <1>0, <1>1, <1>3 DEF Here, History, Labelled
  <1>5. ASSUME NEW p \in Pool, Resting(p)' PROVE Tended(p, n)'
    BY ZenonT(60), <1>0, <1>1, <1>5 DEF Here, Tended
  <1>6. Copies(n)'
    BY ZenonT(60), <1>0, <1>1, <1>2 DEF Here, Copies
  <1>7. Undisturbed => Visited(n)'
    BY ZenonT(60), <1>0, <1>1, <1>2 DEF Here, Visited
  <1> QED
    BY <1>0, <1>4, <1>5, <1>6, <1>7 DEF Here

\* The steps of a pass about one node.
LEMMA GoesOnRest ==
    ASSUME Types, Running, Pass, RestInv, NEW n \in Node, Goes(n)
    PROVE  RestInv'
  <1>1. Here(n) => Here(n)'
    BY ZenonT(30), RepairRest, CreateRest, ConflictRest, LabelledRest, RemoveRest, DeleteRest,
       UntaintRest, DisownRest DEF Goes
  <1> QED
    BY <1>1, GoesRest

\* From one loop of a pass to the next.
LEMMA TurnsRest ==
    ASSUME Types, Running, Pass, RestInv, StartRemove \/ StartTaints
    PROVE  RestInv'
  <1>0. /\ UNCHANGED <<pool, conflict, node, bn, nodeSeen, bnSeen, queue>>
        /\ rec'.pool = rec.pool /\ rec'.deleting = rec.deleting /\ rec'.node = rec.node
        /\ rec'.bn = rec.bn /\ rec'.conflict = rec.conflict /\ rec'.cur = {}
        /\ rec.pc # "idle" /\ rec'.pc # "idle" /\ rec.cur = {} /\ Holds
        /\ \/ rec.pc = "sync" /\ rec.todo = {} /\ rec'.pc = "remove" /\ rec'.todo = Departed
           \/ /\ rec.pc = "remove" /\ rec.todo = {} /\ ~rec.deleting /\ rec'.pc = "taint"
              /\ rec'.todo = {n \in Owned(rec.bn, rec.pool) : Verified(rec.bn[n])}
    <2>1. rec \in Rec_ /\ (rec.pc # "idle" => OneAtATime /\ Holds)
      BY DEF Types, Pass
    <2>2. CASE StartRemove
      BY <2>1, <2>2 DEF StartRemove, Rec_, OneAtATime
    <2>3. CASE StartTaints
      BY <2>1, <2>3 DEF StartTaints, Removed, Rec_, OneAtATime
    <2> QED
      BY ZenonT(60), <2>2, <2>3
  <1>1. ASSUME NEW n \in Node PROVE Here(n)'
    <2>0. Here(n)
      BY ZenonT(30), <1>0, HereRest
    <2>1. Matched(n)' = Matched(n) /\ Undisturbed' = Undisturbed /\ ~Ahead(n) /\ ~Ahead(n)'
      BY <1>0 DEF Matched, Undisturbed, Ahead, Syncing
    <2>2. History(n)' /\ Labelled(n)'
      BY ZenonT(60), <1>0, <2>0 DEF Here, History, Labelled
    <2>3. ASSUME NEW p \in Pool, Resting(p)' PROVE Tended(p, n)'
      BY <1>0, <2>0, <2>3 DEF Here, Tended, Resting
    <2>4. Copies(n)'
      <3>1. CASE rec.pc = "sync"
        <4>1. n \in rec'.todo => ~Matched(n)
          BY <1>0, <3>1 DEF Departed
        <4> QED
          BY ZenonT(60), <1>0, <2>0, <2>1, <3>1, <4>1 DEF Here, Copies, Syncing, Removing
      <3>2. CASE rec.pc = "remove"
        BY ZenonT(60), <1>0, <2>0, <2>1, <3>2 DEF Here, Copies, Syncing, Removing
      <3> QED
        BY ZenonT(60), <1>0, <3>1, <3>2
    <2>5. Undisturbed => Visited(n)'
      <3>1. CASE rec.pc = "sync"
        <4>1. rec.bn[n].owner = rec.pool /\ ~Matched(n) => n \in rec'.todo
          BY <1>0, <3>1 DEF Departed, Owned
        <4> QED
          BY ZenonT(60), <1>0, <2>0, <2>1, <3>1, <4>1 DEF Here, Visited, Syncing, Removing, Tainting
      <3>2. CASE rec.pc = "remove"
        <4>1. rec.bn[n].owner = rec.pool /\ Verified(rec.bn[n]) => n \in rec'.todo
          BY ZenonT(60), <1>0, <3>2 DEF Owned
        <4> QED
          BY ZenonT(60), <1>0, <2>0, <2>1, <3>2, <4>1 DEF Here, Visited, Syncing, Removing, Tainting
      <3> QED
        BY ZenonT(60), <1>0, <3>1, <3>2
    <2> QED
      BY <2>1, <2>2, <2>3, <2>4, <2>5 DEF Here
  <1>2. \A p \in Pool : Attended(p)'
    BY <1>0 DEF RestInv, Attended
  <1> QED
    BY <1>1, <1>2 DEF RestInv, Here

\* The end of a pass: with an error, with the pool, or with its status.
LEMMA EndRest ==
    ASSUME Types, Running, Pass, RestInv, Ends \/ removeFinalizer
    PROVE  RestInv'
  <1>0. UNCHANGED <<node, bn, nodeSeen, bnSeen>> /\ rec' = NoRec /\ rec'.pc = "idle"
        /\ rec.pc # "idle" /\ rec.pool \in Pool
    <2>1. UNCHANGED <<node, bn, nodeSeen, bnSeen>> /\ rec' = NoRec /\ rec.pc # "idle"
      BY ZenonT(60) DEF Ends, repairLabelFails, createFails, labelCreatedFails, unlabelFails,
         deleteFails, removeTaintFails, clearTaintOwnershipFails, removeFinalizerFails,
         updatePoolStatus, removeFinalizer, labelFails, Removed, Abort
    <2> QED
      BY <2>1 DEF NoRec, Running
  <1>1. \A n \in Node : History(n)'
    BY <1>0 DEF RestInv, History
  <1>2. CASE updatePoolStatus
    <2>1. /\ rec.pc = "taint" /\ rec.todo = {} /\ UNCHANGED <<pool, queue>>
          /\ conflict' = [conflict EXCEPT ![rec.pool] = rec.conflict]
      BY <1>2 DEF updatePoolStatus
    <2>2. ~rec.deleting
      BY <1>0, <2>1 DEF Pass, Holds
    <2>3. \A n \in Node : Labelled(n)'
      BY <1>0, <2>1 DEF RestInv, Labelled
    <2>4. \A p \in Pool : Attended(p)'
      BY <2>1, <2>2 DEF RestInv, Attended
    <2>5. ASSUME NEW p \in Pool, Resting(p)', NEW n \in Node PROVE Tended(p, n)'
      <3>1. CASE p = rec.pool
        <4>1. /\ History(n) /\ Copies(n) /\ Visited(n) /\ Undisturbed
              /\ conflict'[p] = rec.conflict /\ p # NoPool
          BY ZenonT(60), <1>0, <2>1, <2>2, <2>5, <3>1, MembershipAssumption
             DEF RestInv, Resting, Undisturbed, Types, Objects
        <4>2. ~Ahead(n) /\ ~Syncing /\ ~Removing /\ Tainting /\ n \notin rec.todo
          BY <2>1 DEF Ahead, Syncing, Removing, Tainting
        <4>3. p \in Matching(nodeSeen[n]) => bn[n].owner = p \/ conflict'[p] # {}
          BY <3>1, <4>1, <4>2 DEF Visited
        <4>4. ASSUME bn[n].owner = p
              PROVE  /\ p \in Matching(nodeSeen[n])
                     /\ node[n].managed \/ node[n].phase = "absent"
                     /\ bnSeen[n].owner = p /\ bnSeen[n].upToDate => ~node[n].taint
          <5>1. rec.bn[n].owner = p
            BY ZenonT(60), <2>1, <3>1, <4>1, <4>4 DEF Copies
          <5>2. Matched(n)
            BY <3>1, <4>1, <4>2, <5>1 DEF Visited
          <5>3. p \in Matching(nodeSeen[n]) /\ (node[n].managed \/ node[n].phase = "absent")
            BY <3>1, <4>1, <4>2, <4>4, <5>2 DEF Visited
          <5>4. ASSUME bnSeen[n].owner = p, bnSeen[n].upToDate PROVE ~node[n].taint
            <6>1. rec.bn[n] = bnSeen[n]
              BY <3>1, <4>1, <4>4, <5>4 DEF Visited
            <6>2. node[n].taint => Verified(rec.bn[n])
              BY <4>1, <5>4, <6>1 DEF History, Verified
            <6> QED
              BY <3>1, <4>1, <4>2, <5>1, <6>2 DEF Visited
          <5> QED
            BY <5>3, <5>4
        <4> QED
          BY <1>0, <4>3, <4>4 DEF Tended
      <3>2. CASE p # rec.pool
        <4>1. Tended(p, n) /\ conflict'[p] = conflict[p]
          BY ZenonT(60), <2>1, <2>5, <3>2 DEF RestInv, Resting, Types, Objects
        <4> QED
          BY <1>0, <4>1 DEF Tended
      <3> QED
        BY <3>1, <3>2
    <2> QED
      BY <1>0, <1>1, <2>3, <2>4, <2>5 DEF RestInv
  <1>3. CASE ~updatePoolStatus
    <2>1. /\ conflict' = conflict /\ queue' = queue \cup {rec.pool}
          /\ \/ pool' = pool
             \/ removeFinalizer /\ pool' = [pool EXCEPT ![rec.pool] = "gone"]
      BY ZenonT(60), <1>3 DEF Ends, repairLabelFails, createFails, labelCreatedFails,
         unlabelFails, deleteFails, removeTaintFails, clearTaintOwnershipFails,
         removeFinalizerFails, removeFinalizer, labelFails, Abort
    <2>2. ASSUME NEW n \in Node PROVE Labelled(n)'
      <3>1. Labelled(n) /\ bn[n].owner \in Pool \cup {NoPool}
        BY DEF RestInv, Types, Objects, BootcNode
      <3>2. removeFinalizer => bn[n].owner # rec.pool
        BY <1>0 DEF removeFinalizer, Removed, Pass, Holds, OneAtATime
      <3>3. bn[n].owner # NoPool => pool'[bn[n].owner] = pool[bn[n].owner]
        BY <2>1, <3>1, <3>2 DEF Types, Objects
      <3> QED
        BY <1>0, <3>1, <3>3 DEF Labelled
    <2>3. ASSUME NEW p \in Pool
          PROVE  Attended(p)' /\ (Resting(p)' => Resting(p))
      <3>1. Attended(p) /\ (pool'[p] = pool[p] \/ (p = rec.pool /\ pool'[p] = "gone"))
        BY <1>0, <2>1 DEF RestInv, Types, Objects
      <3> QED
        BY <1>0, <2>1, <3>1 DEF Attended, Resting
    <2>4. ASSUME NEW p \in Pool, Resting(p)', NEW n \in Node PROVE Tended(p, n)'
      <3>1. Tended(p, n)
        BY <2>3, <2>4 DEF RestInv
      <3> QED
        BY ZenonT(60), <1>0, <2>1, <3>1 DEF Tended
    <2> QED
      BY <1>0, <1>1, <2>2, <2>3, <2>4 DEF RestInv
  <1> QED
    BY <1>2, <1>3

LEMMA RestStep ==
    ASSUME ~Lagging, ~Replaced, Types, Running, Pass, RestInv, [Next]_vars
    PROVE  RestInv'
  <1>1. CASE Controller
    BY ZenonT(30), <1>1, ControllerSteps, BeginRest, GoesOnRest, TurnsRest, EndRest
  <1>2. CASE Cluster \/ \E n \in Node : Background(n)
    BY ZenonT(30), <1>2, OutsideRest
  <1>3. CASE UNCHANGED vars
    <2>1. UNCHANGED <<pool, conflict, node, bn, nodeSeen, bnSeen, queue, rec>>
      BY <1>3 DEF vars
    <2>2. \A n \in Node : History(n)' /\ Labelled(n)'
      BY ZenonT(60), <2>1 DEF RestInv, History, Labelled
    <2>3. \A p \in Pool : Attended(p)' /\ (Resting(p)' => \A n \in Node : Tended(p, n)')
      BY <2>1 DEF RestInv, Attended, Resting, Tended
    <2>4. ASSUME rec.pc # "idle", NEW n \in Node PROVE Copies(n)' /\ (Undisturbed' => Visited(n)')
      <3>1. Copies(n) /\ (Undisturbed => Visited(n))
        BY <2>4 DEF RestInv
      <3>2. /\ Ahead(n)' = Ahead(n) /\ Matched(n)' = Matched(n) /\ Undisturbed' = Undisturbed
            /\ Syncing' = Syncing /\ Removing' = Removing /\ Tainting' = Tainting
        BY <2>1 DEF Ahead, Matched, Undisturbed, Syncing, Removing, Tainting
      <3>3. Copies(n)'
        BY ZenonT(60), <2>1, <3>1, <3>2 DEF Copies
      <3>4. Undisturbed' => Visited(n)'
        BY ZenonT(60), <2>1, <3>1, <3>2 DEF Visited
      <3> QED
        BY <3>3, <3>4
    <2> QED
      BY <2>1, <2>2, <2>3, <2>4 DEF RestInv
  <1> QED
    BY ZenonT(30), <1>1, <1>2, <1>3 DEF Next

LEMMA InitRest == Init => RestInv
  <1> SUFFICES ASSUME Init PROVE RestInv
    OBVIOUS
  <1>1. rec.pc = "idle" /\ \A p \in Pool : pool[p] = "unborn"
    BY DEF Init, NoRec
  <1>2. ASSUME NEW n \in Node PROVE History(n) /\ Labelled(n)
    <2>1. bn[n] = NoBN /\ bnSeen[n] = NoBN /\ nodeSeen[n] = node[n]
      BY DEF Init
    <2>2. PICK L \in SUBSET Pool : node[n] = Registered(L)
      BY DEF Init
    <2> QED
      BY <1>1, <2>1, <2>2 DEF History, Labelled, Registered, NoBN
  <1> QED
    BY <1>1, <1>2 DEF RestInv, Attended, Resting

LEMMA RestAlways ==
    ASSUME ~Lagging, ~Replaced
    PROVE  Spec => [](Types /\ RestInv)
  <1>1. Init => RestInv
    BY InitRest
  <1>2. Types /\ Running /\ Pass /\ RestInv /\ [Next]_vars => RestInv'
    BY RestStep
  <1> QED
    BY <1>1, <1>2, PassAlways, PTL DEF Spec

\* With caches that are up to date when a pass begins, and machines that keep their
\* names: whichever calls failed, in whatever order pools and nodes came, went
\* and were relabelled, and whenever their events arrived, the watches and the
\* queue of the pool reconciler forget nobody.  Where nothing is left to do, every
\* BootcNode belongs to a pool that selects its node, exactly these nodes carry the
\* managed label, no verified node keeps its taint, no deleted pool is left, and a
\* node that nobody took or a conflict that changed is still reported by a pool.
THEOREM RestsAreTidy == ASSUME ~Lagging, ~Replaced PROVE Spec => []RestsTidy
  <1>1. Types /\ RestInv => RestsTidy
    <2> SUFFICES ASSUME Types, RestInv, Quiet
                 PROVE  /\ \A n \in Node : (RightMember(n) \/ LostTo(n)) /\ RightTaint(n)
                        /\ \A p \in Pool : RightConflict(p) \/ conflict[p] # {}
                        /\ \A p \in Pool : pool[p] # "deleting"
      BY DEF RestsTidy
    <2>1. rec.pc = "idle" /\ queue = {}
      BY DEF Quiet
    <2>2. \A p \in Pool : pool[p] # "deleting"
      BY <2>1 DEF RestInv, Attended
    <2>3. ASSUME NEW p \in Pool, pool[p] = "live", NEW n \in Node PROVE Tended(p, n)
      BY <2>1, <2>3 DEF RestInv, Resting
    <2>4. ASSUME NEW n \in Node PROVE (RightMember(n) \/ LostTo(n)) /\ RightTaint(n)
      <3>1. /\ History(n) /\ Labelled(n) /\ bn[n].owner \in Pool \cup {NoPool}
            /\ nodeSeen[n] = node[n] /\ bnSeen[n] = bn[n] /\ node[n].phase # "terminating"
        BY DEF RestInv, Quiet, Types, Objects, BootcNode
      <3>2. CASE bn[n].owner = NoPool
        <4>1. ~node[n].managed /\ ~bn[n].upToDate
          BY <3>1, <3>2 DEF History, Labelled
        <4>2. ASSUME NEW p \in Selecting(n) PROVE p \in Pool /\ conflict[p] # {}
          <5>1. p \in Pool /\ pool[p] = "live" /\ p \in Matching(nodeSeen[n])
            BY <3>1 DEF Selecting, Matching
          <5> QED
            BY <2>3, <3>2, <5>1, MembershipAssumption DEF Tended
        <4> QED
          BY <3>2, <4>1, <4>2 DEF RightMember, LostTo, RightTaint
      <3>3. CASE bn[n].owner # NoPool
        <4>1. bn[n].owner \in Pool /\ pool[bn[n].owner] = "live"
          BY <2>2, <3>1, <3>3 DEF Labelled
        <4>2. Tended(bn[n].owner, n)
          BY <2>3, <4>1
        <4>3. bn[n].owner \in Matching(node[n]) /\ node[n].managed /\ RightTaint(n)
          BY <3>1, <4>2 DEF Tended, Matching, RightTaint
        <4> QED
          BY <4>1, <4>3 DEF RightMember, Selecting
      <3> QED
        BY <3>2, <3>3
    <2>5. ASSUME NEW p \in Pool PROVE RightConflict(p) \/ conflict[p] # {}
      <3> SUFFICES ASSUME pool[p] = "live", conflict[p] = {}
                   PROVE  {bn[m].owner : m \in {k \in Node : p \in Selecting(k)}} \ {p} = {}
        BY DEF RightConflict
      <3>1. ASSUME NEW m \in Node, p \in Selecting(m) PROVE bn[m].owner = p
        <4>1. p \in Matching(nodeSeen[m])
          BY <3>1 DEF Selecting, Quiet
        <4> QED
          BY <2>3, <4>1 DEF Tended
      <3> QED
        BY <3>1
    <2> QED
      BY ZenonT(60), <2>2, <2>4, <2>5
  <1> QED
    BY <1>1, RestAlways, PTL
=============================================================================
