------------------------------ MODULE NodeFence ------------------------------
(***************************************************************************)
(* What the operator puts on one node for the time of an update, and takes  *)
(* away again: the cordon, and, when a Karpenter NodeClaim owns the node,    *)
(* the do-not-repair and do-not-disrupt annotations on the Node and on the   *)
(* NodeClaim.  assignRebootSlot, freeRebootSlot, removeBootcNode,            *)
(* restoreNodeState and restoreNodeClaimState, between the disruption checks *)
(* of driveRollout, against other users of the same marks, Karpenter, the    *)
(* user who moves the node and the target, crashes and refused writes.       *)
(*                                                                         *)
(* Scope: one node, which exists throughout; the controller's reads are      *)
(* fresh.  The startup taint is modelled in Membership, the rest of the pass *)
(* and the other nodes in Rollout.                                           *)
(***************************************************************************)
EXTENDS Naturals

CONSTANTS
    Key,         \* the annotation keys: do-not-repair and do-not-disrupt
    Claims,      \* how the node may start: subset of {"noRef", "noCRD", "found"}
    MaxChanges,  \* bound: steps of the user, of Karpenter and of other controllers
    MaxFaults    \* bound: refused writes, failed drains and crashes

ASSUME FenceAssumption ==
    /\ "cordon" \notin Key
    /\ Claims \subseteq {"noRef", "noCRD", "found"}
    /\ MaxChanges \in Nat /\ MaxFaults \in Nat

VARIABLES
    ann,         \* the marks as they are in the cluster
    by,          \* who gave a mark its value
    foreign,     \* marks that others set to "true" before the operator came, and left alone
    claim,       \* the NodeClaim, as getKarpenterNodeClaim finds it
    disrupted,   \* a taint, a condition or a deletion says that Karpenter is at work
    ready,       \* the Node's Ready condition
    update,      \* the node's update: done, staged, or approved to reboot
    member,      \* does the node match the pool's selector?
    bn,          \* the BootcNode's record
    drain,       \* the entry of r.drains
    rec,         \* the pass in progress
    changes, faults

vars == <<ann, by, foreign, claim, disrupted, ready, update, member, bn, drain, rec,
          changes, faults>>
marks == <<ann, by, foreign>>
others == <<claim, disrupted, ready, update, member, changes>>

-----------------------------------------------------------------------------

NodeMark == {"node"} \X Key
ClaimMark == {"claim"} \X Key
Cordon == <<"node", "cordon">>      \* "true" when the node is unschedulable
Mark == NodeMark \cup ClaimMark \cup {Cordon}

\* An annotation is absent, has the value Karpenter honours, or another one.
Value == {"none", "true", "other"}

\* owns: the marks whose ownership is recorded in annotations; was-cordoned =
\* "false" is the record for the cordon.
BootcNode == [exists : BOOLEAN, inSlot : BOOLEAN, owns : SUBSET Mark]
NoBN == [exists |-> FALSE, inSlot |-> FALSE, owns |-> {}]
NewBN == [NoBN EXCEPT !.exists = TRUE]

\* ann and claim: the copies read.  stale: the Node has changed since.  touched:
\* the marks others have changed since.  deferred: the assignment was put off.
Pass == [pc : {"idle", "collect", "rollout", "record", "claim", "node", "drain",
               "restoreNode", "restoreClaim", "forget"},
         ann : [Mark -> Value], claim : {"noRef", "noCRD", "found", "absent"},
         leaving : BOOLEAN, deferred : BOOLEAN, stale : BOOLEAN, touched : SUBSET Mark]

NoPass == [pc |-> "idle", ann |-> [m \in Mark |-> "none"], claim |-> "noRef",
           leaving |-> FALSE, deferred |-> FALSE, stale |-> FALSE, touched |-> {}]

TypeOK ==
    /\ ann \in [Mark -> Value]
    /\ by \in [Mark -> {"none", "op", "ext"}]
    /\ foreign \in SUBSET Mark
    /\ claim \in {"noRef", "noCRD", "found", "absent"}
    /\ disrupted \in BOOLEAN /\ ready \in BOOLEAN /\ member \in BOOLEAN
    /\ update \in {"UpToDate", "Staged", "Approved"}
    /\ bn \in BootcNode
    /\ drain \in {"none", "running", "ok", "failed"}
    /\ rec \in Pass
    /\ changes \in 0 .. MaxChanges /\ faults \in 0 .. MaxFaults

\* The node runs the target; others may have marked it already.
Init ==
    /\ claim \in Claims
    /\ ann \in [Mark -> Value]
    /\ ann[Cordon] # "other"
    /\ claim # "found" => \A m \in ClaimMark : ann[m] = "none"
    /\ by = [m \in Mark |-> IF ann[m] = "none" THEN "none" ELSE "ext"]
    /\ foreign = {m \in Mark : ann[m] = "true"}
    /\ disrupted = FALSE /\ ready = TRUE /\ update = "UpToDate" /\ member = TRUE
    /\ bn = NewBN
    /\ drain = "none"
    /\ rec = NoPass
    /\ changes = 0 /\ faults = 0

-----------------------------------------------------------------------------
(* Karpenter and the marks.                                                *)

isKarpenterDisruptionActive == disrupted \/ claim = "absent"

\* What an assignment marks: the Node of any NodeClaim, the NodeClaim it found.
Fence(c) ==
    {Cordon} \cup (IF c = "noRef" THEN {} ELSE NodeMark)
             \cup (IF c = "found" THEN ClaimMark ELSE {})

Missing_any(c, a) == {m \in Fence(c) : a[m] = "none"}

\* ensureOwnedAnnotation acts where the copy does not have the value "true".
Missing(c, a) == {m \in Fence(c) : a[m] # "true"}

\* The operator gives the marks in S the value v.
Writes(S, v, who) ==
    /\ ann' = [m \in Mark |-> IF m \in S THEN v ELSE ann[m]]
    /\ by' = [m \in Mark |-> IF m \in S THEN who ELSE by[m]]
    /\ foreign' = foreign

Abort == rec' = NoPass

-----------------------------------------------------------------------------
(* The pass.                                                               *)

\* The node left the pool: removeBootcNode cancels the drain and reads the Node.
\* It joined: createBootcNode.  Otherwise the pass goes on to the rollout.
StartReconcile ==
    /\ rec.pc = "idle"
    /\ \/ /\ bn.exists /\ ~member
          /\ drain' = "none"
          /\ rec' = [NoPass EXCEPT !.pc = "restoreNode", !.leaving = TRUE, !.ann = ann]
          /\ bn' = bn
       \/ /\ ~bn.exists /\ member
          /\ bn' = NewBN
          /\ UNCHANGED <<drain, rec>>
       \/ /\ bn.exists /\ member
          /\ rec' = [NoPass EXCEPT !.pc = "collect"]
          /\ UNCHANGED <<bn, drain>>
    /\ UNCHANGED <<marks, others, faults>>

Collected_kept == IF drain = "running" THEN drain ELSE "closed"

\* The entry of a drain that has ended is deleted.
Collected == IF drain = "running" THEN drain ELSE "none"

\* A drain that succeeded approves the reboot.
collectDrainResults ==
    /\ rec.pc = "collect"
    /\ rec' = [rec EXCEPT !.pc = "rollout"]
    /\ drain' = Collected
    /\ update' = IF drain = "ok" /\ update = "Staged" THEN "Approved" ELSE update
    /\ UNCHANGED <<marks, claim, disrupted, ready, member, changes, bn, faults>>

\* freeCompletedSlot: the node runs the target and is back.
Released == update = "UpToDate" /\ bn.inSlot /\ ready

\* freeCompletedSlot reads the Node; processCandidate checks for a disruption
\* and reads the Node and the NodeClaim, or puts the assignment off.  A node
\* without a slot may find none free, and one approved to reboot is a candidate
\* until its daemon reports that it is rebooting.
driveRollout ==
    /\ rec.pc = "rollout"
    /\ \/ /\ Released
          /\ rec' = [rec EXCEPT !.pc = "restoreNode", !.ann = ann]
       \/ /\ update # "UpToDate"
          /\ isKarpenterDisruptionActive
          /\ rec' = [rec EXCEPT !.pc = "drain", !.deferred = TRUE]
       \/ /\ update # "UpToDate"
          /\ ~isKarpenterDisruptionActive
          /\ rec' = [rec EXCEPT !.pc = "record", !.ann = ann, !.claim = claim]
       \/ /\ ~Released
          /\ update = "Staged" => ~bn.inSlot
          /\ Abort
    /\ UNCHANGED <<marks, others, bn, drain, faults>>

Recorded_slotOnly(b, S) == [b EXCEPT !.inSlot = TRUE]

\* The annotations assignRebootSlot wants on the BootcNode: the cordon found is
\* recorded on the first assignment only.
Recorded(b, S) ==
    [b EXCEPT !.inSlot = TRUE,
              !.owns = @ \cup {m \in S : m = Cordon => ~b.inSlot}]

\* assignRebootSlot records what it is going to write, ...
assignRebootSlot ==
    /\ rec.pc = "record"
    /\ bn' = Recorded(bn, Missing(rec.claim, rec.ann))
    /\ rec' = [rec EXCEPT !.pc = "claim"]
    /\ UNCHANGED <<marks, others, drain, faults>>

\* ... patches the NodeClaim, without a lock; a NodeClaim that is gone is an error ...
patchNodeClaim ==
    /\ rec.pc = "claim"
    /\ LET S == Missing(rec.claim, rec.ann) \cap ClaimMark
       IN  \/ /\ S = {} \/ claim = "found"
              /\ Writes(S, "true", "op")
              /\ rec' = [rec EXCEPT !.pc = "node"]
           \/ /\ S # {} /\ claim # "found"
              /\ Abort
              /\ UNCHANGED marks
    /\ UNCHANGED <<others, bn, drain, faults>>

\* ... and patches the Node, with a lock.
patchNode ==
    /\ rec.pc = "node"
    /\ LET S == Missing(rec.claim, rec.ann) \ ClaimMark
       IN  \/ /\ S = {} \/ ~rec.stale
              /\ Writes(S, "true", "op")
              /\ rec' = [rec EXCEPT !.pc = "drain"]
           \/ /\ S # {} /\ rec.stale
              /\ Abort
              /\ UNCHANGED marks
    /\ UNCHANGED <<others, bn, drain, faults>>

\* The drain loop checks for a disruption again.
ensureDrain ==
    /\ rec.pc = "drain"
    /\ drain' = IF /\ bn.inSlot /\ update = "Staged" /\ drain = "none"
                   /\ ~isKarpenterDisruptionActive
                THEN "running" ELSE drain
    /\ Abort
    /\ UNCHANGED <<marks, others, bn, faults>>

Restored_everything == Mark
Restored_nodeOnly == bn.owns \ ClaimMark

\* removeOwnedAnnotation goes by the record, whatever the value is by now.
Restored == bn.owns

\* restoreNodeState removes the marks on the Node that the record claims, in one
\* locked patch, and then reads the NodeClaim.
restoreNodeState ==
    /\ rec.pc = "restoreNode"
    /\ LET S == {m \in Restored \ ClaimMark : m = Cordon \/ rec.ann[m] # "none"}
       IN  \/ /\ S = {} \/ ~rec.stale
              /\ Writes(S, "none", "none")
              /\ rec' = [rec EXCEPT !.pc = "restoreClaim", !.ann = ann, !.claim = claim]
           \/ /\ S # {} /\ rec.stale
              /\ Abort
              /\ UNCHANGED marks
    /\ UNCHANGED <<others, bn, drain, faults>>

\* A NodeClaim that was not found needs nothing; one that goes now is an error.
restoreNodeClaimState ==
    /\ rec.pc = "restoreClaim"
    /\ LET S == IF rec.claim # "found" THEN {}
                ELSE {m \in Restored \cap ClaimMark : rec.ann[m] # "none"}
       IN  \/ /\ S = {} \/ claim = "found"
              /\ Writes(S, "none", "none")
              /\ rec' = [rec EXCEPT !.pc = "forget"]
           \/ /\ S # {} /\ claim # "found"
              /\ Abort
              /\ UNCHANGED marks
    /\ UNCHANGED <<others, bn, drain, faults>>

\* freeRebootSlot clears the record; removeBootcNode deletes the BootcNode.
freeRebootSlot ==
    /\ rec.pc = "forget"
    /\ bn' = IF rec.leaving THEN NoBN ELSE NewBN
    /\ Abort
    /\ UNCHANGED <<marks, others, drain, faults>>

\* Any call may fail, and the pass ends; a drain's result was taken already.
ApiError ==
    /\ rec.pc # "idle"
    /\ faults < MaxFaults
    /\ faults' = faults + 1
    /\ drain' = IF rec.pc = "collect" THEN Collected ELSE drain
    /\ Abort
    /\ UNCHANGED <<marks, others, bn>>

ControllerCrash ==
    /\ faults < MaxFaults
    /\ faults' = faults + 1
    /\ drain' = "none"
    /\ Abort
    /\ UNCHANGED <<marks, others, bn>>

-----------------------------------------------------------------------------
(* The drain and the machine.                                              *)

DrainFinishes ==
    /\ drain = "running"
    /\ \/ drain' = "ok" /\ faults' = faults
       \/ faults < MaxFaults /\ faults' = faults + 1 /\ drain' = "failed"
    /\ UNCHANGED <<marks, others, bn, rec>>

\* Any change of the Node, or of a mark, that the operator did not make.
Seen(S, changed) ==
    rec' = IF rec.pc = "idle" THEN rec
           ELSE [rec EXCEPT !.stale = @ \/ changed, !.touched = @ \cup S]

\* The host reboots into the image it was approved for.
Reboots ==
    /\ update = "Approved"
    /\ update' = "UpToDate"
    /\ ready' = FALSE
    /\ Seen({}, TRUE)
    /\ UNCHANGED <<marks, claim, disrupted, member, changes, bn, drain, faults>>

KubeletReady ==
    /\ ~ready
    /\ ready' = TRUE
    /\ Seen({}, TRUE)
    /\ UNCHANGED <<marks, claim, disrupted, update, member, changes, bn, drain, faults>>

-----------------------------------------------------------------------------
(* The user, Karpenter and whoever else writes these annotations.          *)

Changed == changes < MaxChanges /\ changes' = changes + 1

\* The user moves the node out of the pool or back, or edits the target, which
\* the next pass copies: nothing to do, or a new image to boot.
UserActs ==
    /\ Changed
    /\ rec.pc = "idle"
    /\ \/ member' = ~member /\ update' = update
       \/ /\ update' = IF update = "Staged" THEN "UpToDate" ELSE "Staged"
          /\ member' = member
    /\ UNCHANGED <<marks, claim, disrupted, ready, bn, drain, rec, faults>>

\* Somebody sets or removes an annotation, or cordons or uncordons the node.
OthersMark(m, v) ==
    /\ Changed
    /\ v # ann[m]
    /\ m = Cordon => v # "other"
    /\ m \in ClaimMark => claim = "found"
    /\ ann' = [ann EXCEPT ![m] = v]
    /\ by' = [by EXCEPT ![m] = IF v = "none" THEN "none" ELSE "ext"]
    /\ foreign' = IF v = "true" /\ rec.pc = "idle" /\ ~bn.inSlot
                  THEN foreign \cup {m} ELSE foreign \ {m}
    /\ Seen({m}, m \notin ClaimMark)
    /\ UNCHANGED <<claim, disrupted, ready, update, member, bn, drain, faults>>

\* Karpenter starts or ends a disruption of a node it owns.
KarpenterDisrupts ==
    /\ Changed
    /\ claim # "noRef"
    /\ disrupted' = ~disrupted
    /\ \E changed \in BOOLEAN : Seen({}, changed)
    /\ UNCHANGED <<marks, claim, ready, update, member, bn, drain, faults>>

NodeClaimGoes ==
    /\ Changed
    /\ claim = "found"
    /\ claim' = "absent"
    /\ ann' = [m \in Mark |-> IF m \in ClaimMark THEN "none" ELSE ann[m]]
    /\ by' = [m \in Mark |-> IF m \in ClaimMark THEN "none" ELSE by[m]]
    /\ foreign' = foreign \ ClaimMark
    /\ Seen(ClaimMark, FALSE)
    /\ UNCHANGED <<disrupted, ready, update, member, bn, drain, faults>>

-----------------------------------------------------------------------------

Controller ==
    \/ StartReconcile \/ collectDrainResults \/ driveRollout \/ assignRebootSlot
    \/ patchNodeClaim \/ patchNode \/ ensureDrain \/ restoreNodeState
    \/ restoreNodeClaimState \/ freeRebootSlot

Machine == DrainFinishes \/ Reboots \/ KubeletReady

Disturbance ==
    \/ ApiError \/ ControllerCrash \/ UserActs \/ KarpenterDisrupts \/ NodeClaimGoes
    \/ \E m \in Mark, v \in Value : OthersMark(m, v)

Next == Controller \/ Machine \/ Disturbance

Spec == Init /\ [][Next]_vars

\* Every change queues the pool, and a deferral queues it after
\* karpenterRequeueInterval; drains end and hosts come back.
Fairness ==
    /\ WF_vars(Controller) /\ WF_vars(DrainFinishes) /\ WF_vars(Reboots)
    /\ WF_vars(KubeletReady)

FairSpec == Spec /\ Fairness

-----------------------------------------------------------------------------
(* Properties.                                                             *)

\* Every annotation the operator has put on the Node or on the NodeClaim is in
\* the BootcNode's record, whatever write failed and wherever the controller
\* crashed: assignRebootSlot records first, freeRebootSlot and removeBootcNode
\* forget last.  (The cordon is recorded once, and is not an annotation.)
FenceRecorded ==
    \A m \in NodeMark \cup ClaimMark : by[m] = "op" => m \in bn.owns

\* A mark that somebody else had set to "true" while the node was in no slot is
\* still there, for a cordon and for each of the annotations: no release, and no
\* removal from the pool, takes away what the operator did not bring.
ForeignKept == \A m \in foreign : ann[m] = "true" /\ by[m] = "ext"

\* A drain starts on a node that is cordoned and carries the whole fence, but for
\* the marks that others have touched since the pass read them, and unless the
\* pass put the assignment off and the disruption ended before the drain loop.
DrainFenced ==
    [][drain = "none" /\ drain' = "running" =>
         \/ rec.deferred
         \/ \A m \in Fence(rec.claim) \ rec.touched : ann[m] = "true"]_vars

\* The fence is for the time of an update only: again and again there is nothing
\* of it left, unless Karpenter's disruption keeps the update from going on.
FenceTemporary ==
    \/ <>[]isKarpenterDisruptionActive
    \/ []<>(\A m \in NodeMark \cup ClaimMark : by[m] # "op")
=============================================================================
