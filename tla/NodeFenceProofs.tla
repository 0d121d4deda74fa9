--------------------------- MODULE NodeFenceProofs ---------------------------
(***************************************************************************)
(* What the operator's record of its marks is worth, proved for any keys,   *)
(* any number of changes by others and any number of faults.                *)
(***************************************************************************)
EXTENDS NodeFence, TLAPS

USE SMTT(30), ZenonT(30)

Annotation == NodeMark \cup ClaimMark

\* What a pass knows of the marks at each of its steps.
KnowsAt(m) ==
    /\ by[m] = "op" => /\ m \in bn.owns
                       /\ m \in ClaimMark => claim = "found"
                       /\ ann[m] # "none"
    /\ rec.pc \in {"claim", "node"} /\ m \in Missing(rec.claim, rec.ann) => m \in bn.owns
    /\ rec.pc = "restoreNode" /\ by[m] = "op" => rec.ann[m] # "none"
    /\ rec.pc = "restoreClaim" /\ by[m] = "op" =>
          m \in ClaimMark /\ rec.claim = "found" /\ rec.ann[m] # "none"
    /\ rec.pc = "forget" => by[m] # "op"

\* What keeps the operator's hands off a mark of others.
OffLimits(m) ==
    /\ ann[m] = "true" /\ by[m] = "ext"
    /\ m \notin bn.owns
    /\ rec.pc \in {"record", "claim", "node"} => rec.ann[m] = "true"

\* What the pass has seen to by the time it gets to the drain.
FencedAt(m) ==
    m \in Fence(rec.claim) \ rec.touched =>
        /\ rec.pc \in {"record", "claim", "node"} /\ rec.ann[m] = "true" => ann[m] = "true"
        /\ rec.pc = "node" /\ m \in ClaimMark => ann[m] = "true"
        /\ rec.pc = "drain" /\ ~rec.deferred => ann[m] = "true"

FenceInv ==
    /\ ~bn.inSlot => bn.owns = {}
    /\ ~bn.exists => ~bn.inSlot /\ rec.pc = "idle"
    /\ \A m \in Annotation : KnowsAt(m)
    /\ \A m \in foreign : OffLimits(m)
    /\ \A m \in Mark : FencedAt(m)

LEMMA MarksApart ==
    /\ NodeMark \cap ClaimMark = {} /\ Cordon \in Mark
    /\ Cordon \notin NodeMark /\ Cordon \notin ClaimMark
    /\ \A c : Fence(c) \subseteq Mark
    /\ \A c, a : Missing(c, a) \subseteq Fence(c)
  BY FenceAssumption DEF NodeMark, ClaimMark, Cordon, Mark, Fence, Missing

LEMMA NoPassType == NoPass \in Pass /\ NoBN \in BootcNode /\ NewBN \in BootcNode
  BY ZenonT(60) DEF NoPass, Pass, Value, NoBN, NewBN, BootcNode

LEMMA InitInv == Init => TypeOK /\ FenceInv
  <1> SUFFICES ASSUME Init PROVE TypeOK /\ FenceInv
    OBVIOUS
  <1>1. TypeOK
    <2>1. changes \in 0 .. MaxChanges /\ faults \in 0 .. MaxFaults
      BY FenceAssumption DEF Init
    <2>2. by \in [Mark -> {"none", "op", "ext"}] /\ foreign \in SUBSET Mark
      BY DEF Init
    <2>3. claim \in {"noRef", "noCRD", "found", "absent"}
      BY FenceAssumption DEF Init
    <2> QED
      BY <2>1, <2>2, <2>3, NoPassType, ZenonT(60) DEF Init, TypeOK
  <1>2. rec.pc = "idle" /\ bn.owns = {} /\ bn.exists
    BY DEF Init, NoPass, NewBN, NoBN
  <1>3. \A m \in Mark : by[m] # "op"
    BY DEF Init
  <1>4. \A m \in foreign : ann[m] = "true" /\ by[m] = "ext"
    BY DEF Init
  <1> QED
    BY <1>1, <1>2, <1>3, <1>4 DEF FenceInv, KnowsAt, OffLimits, FencedAt, Annotation, Mark

\* What Writes does to one mark.
LEMMA WritesAt ==
    ASSUME TypeOK, NEW S, NEW v \in Value, NEW who \in {"none", "op"}, Writes(S, v, who)
    PROVE  /\ \A m \in Mark : /\ ann'[m] = IF m \in S THEN v ELSE ann[m]
                              /\ by'[m] = IF m \in S THEN who ELSE by[m]
           /\ foreign' = foreign
           /\ ann' \in [Mark -> Value] /\ by' \in [Mark -> {"none", "op", "ext"}]
  BY DEF Writes, TypeOK

LEMMA NextType == TypeOK /\ [Next]_vars => TypeOK'
  <1> SUFFICES ASSUME TypeOK, [Next]_vars PROVE TypeOK'
    OBVIOUS
  <1> USE NoPassType DEF marks, others, Abort
  <1>1. CASE StartReconcile
    BY ZenonT(60), <1>1 DEF StartReconcile, TypeOK, NoPass, Pass
  <1>2. CASE collectDrainResults
    BY <1>2 DEF collectDrainResults, Collected, TypeOK, Pass
  <1>3. CASE driveRollout
    BY ZenonT(60), <1>3 DEF driveRollout, TypeOK, Pass
  <1>4. CASE assignRebootSlot
    <2>1. bn' \in BootcNode
      BY ZenonT(60), <1>4, MarksApart DEF assignRebootSlot, Recorded, TypeOK, BootcNode
    <2> QED
      BY <1>4, <2>1 DEF assignRebootSlot, TypeOK, Pass
  <1>5. ASSUME NEW S, NEW v \in Value, NEW who \in {"none", "op"}, Writes(S, v, who),
               rec' \in Pass, UNCHANGED <<others, bn, drain, faults>>
        PROVE  TypeOK'
    <2>1. ann' \in [Mark -> Value] /\ by' \in [Mark -> {"none", "op", "ext"}] /\ foreign' = foreign
      BY <1>5, WritesAt
    <2> QED
      BY <1>5, <2>1 DEF TypeOK
  <1>6. ASSUME Abort, UNCHANGED <<marks, others, bn>>,
               drain' \in {"none", "running", "ok", "failed"}, faults' \in 0 .. MaxFaults
        PROVE  TypeOK'
    BY <1>6 DEF TypeOK
  <1>7. CASE patchNodeClaim
    <2>1. [rec EXCEPT !.pc = "node"] \in Pass
      BY DEF TypeOK, Pass
    <2> QED
      BY <1>5, <1>6, <1>7, <2>1 DEF patchNodeClaim, TypeOK, Value
  <1>8. CASE patchNode
    <2>1. [rec EXCEPT !.pc = "drain"] \in Pass
      BY DEF TypeOK, Pass
    <2> QED
      BY <1>5, <1>6, <1>8, <2>1 DEF patchNode, TypeOK, Value
  <1>9. CASE ensureDrain
    BY <1>9 DEF ensureDrain, TypeOK
  <1>10. CASE restoreNodeState
    <2>1. [rec EXCEPT !.pc = "restoreClaim", !.ann = ann, !.claim = claim] \in Pass
      BY ZenonT(60) DEF TypeOK, Pass
    <2> QED
      BY <1>5, <1>6, <1>10, <2>1 DEF restoreNodeState, TypeOK, Value
  <1>11. CASE restoreNodeClaimState
    <2>1. [rec EXCEPT !.pc = "forget"] \in Pass
      BY DEF TypeOK, Pass
    <2> QED
      BY <1>5, <1>6, <1>11, <2>1 DEF restoreNodeClaimState, TypeOK, Value
  <1>12. CASE freeRebootSlot
    BY <1>12 DEF freeRebootSlot, TypeOK
  <1>13. CASE ApiError \/ ControllerCrash
    BY <1>13, FenceAssumption DEF ApiError, ControllerCrash, Collected, TypeOK
  <1>14. ASSUME NEW S \in SUBSET Mark, NEW c \in BOOLEAN, Seen(S, c) PROVE rec' \in Pass
    BY ZenonT(60), <1>14 DEF Seen, TypeOK, Pass
  <1>15. CASE Machine
    <2>1. faults' \in 0 .. MaxFaults
      <3>1. faults' = faults \/ (faults < MaxFaults /\ faults' = faults + 1)
        BY <1>15, ZenonT(60) DEF Machine, DrainFinishes, Reboots, KubeletReady
      <3>2. faults \in 0 .. MaxFaults /\ MaxFaults \in Nat
        BY FenceAssumption DEF TypeOK
      <3> QED
        BY <3>1, <3>2
    <2>2. rec' \in Pass
      BY <1>14, <1>15, ZenonT(60) DEF Machine, DrainFinishes, Reboots, KubeletReady, TypeOK
    <2> QED
      BY <1>15, <2>1, <2>2, ZenonT(60) DEF Machine, DrainFinishes, Reboots, KubeletReady, TypeOK
  <1>16. CASE UserActs
    <2>1. changes' \in 0 .. MaxChanges
      BY <1>16, FenceAssumption DEF UserActs, Changed, TypeOK
    <2>2. member' \in BOOLEAN /\ update' \in {"UpToDate", "Staged", "Approved"}
      BY <1>16, ZenonT(60) DEF UserActs, TypeOK
    <2> QED
      BY <1>16, <2>1, <2>2, ZenonT(60) DEF UserActs, TypeOK
  <1>17. CASE KarpenterDisrupts
    BY <1>14, <1>17, FenceAssumption DEF KarpenterDisrupts, Changed, TypeOK
  <1>18. CASE NodeClaimGoes
    <2>1. rec' \in Pass
      BY ZenonT(60), <1>14, <1>18 DEF NodeClaimGoes, Mark
    <2> QED
      BY <1>18, <2>1, FenceAssumption DEF NodeClaimGoes, Changed, TypeOK, Value
  <1>19. ASSUME NEW m \in Mark, NEW v \in Value, OthersMark(m, v) PROVE TypeOK'
    <2>1. rec' \in Pass
      BY ZenonT(60), <1>14, <1>19 DEF OthersMark
    <2> QED
      BY <1>19, <2>1, FenceAssumption DEF OthersMark, Changed, TypeOK, Value
  <1>20. CASE UNCHANGED vars
    BY <1>20 DEF vars, TypeOK
  <1> QED
    BY <1>1, <1>2, <1>3, <1>4, <1>7, <1>8, <1>9, <1>10, <1>11, <1>12, <1>13, <1>15, <1>16, <1>17,
       <1>18, <1>19, <1>20, ZenonT(60) DEF Next, Controller, Disturbance

(***************************************************************************)
(* The marks, step by step.                                                *)
(***************************************************************************)

\* What the others' steps do to the pass.
LEMMA SeenAt ==
    ASSUME TypeOK, NEW S \in SUBSET Mark, NEW c, Seen(S, c)
    PROVE  /\ rec'.pc = rec.pc /\ rec'.ann = rec.ann /\ rec'.claim = rec.claim
           /\ rec'.deferred = rec.deferred
           /\ rec.pc # "idle" => rec'.touched = rec.touched \cup S
           /\ rec.pc = "idle" => rec' = rec
  <1> DEFINE st == rec.stale \/ c
  <1>1. rec \in Pass
    BY DEF TypeOK
  <1>2. CASE rec.pc = "idle"
    BY <1>2, ZenonT(60) DEF Seen
  <1>3. CASE rec.pc # "idle"
    <2>1. rec' = [rec EXCEPT !.stale = st, !.touched = @ \cup S]
      BY <1>3, ZenonT(60) DEF Seen
    <2> HIDE DEF st
    <2> QED
      BY <1>1, <1>3, <2>1 DEF Pass
  <1> QED
    BY <1>2, <1>3

\* A step that writes nothing but the pass keeps what is known of the marks, if
\* the new pass knows nothing more.
Quiet == UNCHANGED <<marks, claim, bn>>

LEMMA ForgetsPass ==
    ASSUME FenceInv, Quiet, rec'.pc \in {"idle", "collect", "rollout"},
           rec'.pc = "idle" \/ bn.exists
    PROVE  FenceInv'
  BY DEF FenceInv, Quiet, KnowsAt, OffLimits, FencedAt, marks

\* Nor does a step of the machine, of the user or of Karpenter that leaves the
\* marks and the NodeClaim alone.
LEMMA BystanderStep ==
    ASSUME TypeOK, FenceInv, Quiet, NEW c, rec' = rec \/ Seen({}, c) PROVE FenceInv'
  <1>1. /\ rec'.pc = rec.pc /\ rec'.ann = rec.ann /\ rec'.claim = rec.claim
        /\ rec'.touched = rec.touched /\ rec'.deferred = rec.deferred
    BY SeenAt
  <1>2. Missing(rec.claim, rec.ann)' = Missing(rec.claim, rec.ann)
    BY <1>1 DEF Missing, Fence
  <1>3. Fence(rec.claim)' = Fence(rec.claim)
    BY <1>1 DEF Fence
  <1> QED
    BY <1>1, <1>2, <1>3 DEF FenceInv, Quiet, KnowsAt, OffLimits, FencedAt, marks

\* Every step keeps the record ahead of the marks.
LEMMA FenceStep == ASSUME TypeOK, FenceInv, [Next]_vars PROVE FenceInv'
  <1> USE MarksApart DEF Quiet, Annotation, Abort
  <1>0. /\ rec \in Pass /\ bn \in BootcNode /\ NoPass.pc = "idle"
        /\ NodeMark \subseteq Mark /\ ClaimMark \subseteq Mark /\ foreign \subseteq Mark
    BY DEF TypeOK, NoPass, Mark
  <1>1. CASE StartReconcile
    <2>1. CASE bn.exists /\ ~member
      <3>1. /\ Quiet /\ rec'.pc = "restoreNode" /\ rec'.ann = ann
        BY <1>1, <2>1, ZenonT(60) DEF StartReconcile, NoPass, marks, others
      <3> QED
        BY <2>1, <3>1 DEF FenceInv, KnowsAt, OffLimits, FencedAt, marks
    <2>2. CASE ~bn.exists /\ member
      <3>1. /\ UNCHANGED <<marks, claim, rec>> /\ rec.pc = "idle"
            /\ bn'.exists /\ bn'.owns = {} /\ ~bn'.inSlot /\ bn.owns = {}
        BY <1>1, <2>2 DEF StartReconcile, NewBN, NoBN, others, FenceInv
      <3> QED
        BY <3>1 DEF FenceInv, KnowsAt, OffLimits, FencedAt, marks
    <2>3. CASE bn.exists /\ member
      <3>1. Quiet /\ rec'.pc = "collect"
        BY <1>1, <2>3 DEF StartReconcile, NoPass, others
      <3> QED
        BY <2>3, <3>1, ForgetsPass
    <2> QED
      BY <1>1, <2>1, <2>2, <2>3 DEF StartReconcile
  <1>2. CASE collectDrainResults
    <2>1. Quiet /\ rec'.pc = "rollout" /\ bn.exists
      BY <1>0, <1>2 DEF collectDrainResults, Pass, FenceInv
    <2> QED
      BY <2>1, ForgetsPass
  <1>3. CASE driveRollout
    <2>0. Quiet /\ bn.exists
      BY <1>3 DEF driveRollout, others, FenceInv
    <2>1. CASE rec' = [rec EXCEPT !.pc = "restoreNode", !.ann = ann]
      <3>1. rec'.pc = "restoreNode" /\ rec'.ann = ann
        BY <1>0, <2>1 DEF Pass
      <3> QED
        BY <2>0, <3>1 DEF FenceInv, KnowsAt, OffLimits, FencedAt, marks
    <2>2. CASE rec' = [rec EXCEPT !.pc = "drain", !.deferred = TRUE]
      <3>1. rec'.pc = "drain" /\ rec'.deferred = TRUE
        BY <1>0, <2>2 DEF Pass
      <3> QED
        BY <2>0, <3>1 DEF FenceInv, KnowsAt, OffLimits, FencedAt, marks
    <2>3. CASE rec' = [rec EXCEPT !.pc = "record", !.ann = ann, !.claim = claim]
      <3>1. rec'.pc = "record" /\ rec'.ann = ann
        BY <1>0, <2>3 DEF Pass
      <3> QED
        BY <2>0, <3>1 DEF FenceInv, KnowsAt, OffLimits, FencedAt, marks
    <2>4. CASE rec' = NoPass
      BY <1>0, <2>0, <2>4, ForgetsPass
    <2> QED
      BY <1>3, <2>1, <2>2, <2>3, <2>4 DEF driveRollout
  <1>4. CASE assignRebootSlot
    <2> DEFINE S == Missing(rec.claim, rec.ann)
    <2>1. /\ rec.pc = "record" /\ rec'.pc = "claim" /\ rec'.ann = rec.ann
          /\ rec'.claim = rec.claim /\ rec'.touched = rec.touched /\ UNCHANGED <<marks, claim>>
          /\ bn.exists
      BY <1>0, <1>4 DEF assignRebootSlot, Pass, others, FenceInv
    <2>2. /\ bn'.inSlot = TRUE /\ bn'.exists = bn.exists
          /\ bn'.owns = bn.owns \cup {m \in S : m = Cordon => ~bn.inSlot}
      BY <1>0, <1>4 DEF assignRebootSlot, Recorded, BootcNode
    <2>3. Fence(rec'.claim) = Fence(rec.claim) /\ Missing(rec'.claim, rec'.ann) = S
      BY <2>1
    <2>4. ASSUME NEW m \in foreign PROVE m \notin S
      BY <2>1, <2>4 DEF FenceInv, OffLimits, Missing
    <2> HIDE DEF S
    <2> QED
      BY <2>1, <2>2, <2>3, <2>4 DEF FenceInv, KnowsAt, OffLimits, FencedAt, marks
  <1>5. CASE rec' = NoPass /\ Quiet
    BY <1>0, <1>5, ForgetsPass
  <1>6. CASE patchNodeClaim
    <2> DEFINE S == Missing(rec.claim, rec.ann) \cap ClaimMark
    <2>1. CASE (S = {} \/ claim = "found") /\ Writes(S, "true", "op")
               /\ rec' = [rec EXCEPT !.pc = "node"]
      <3>1. /\ \A m \in Mark : /\ ann'[m] = IF m \in S THEN "true" ELSE ann[m]
                               /\ by'[m] = IF m \in S THEN "op" ELSE by[m]
            /\ foreign' = foreign
        BY <2>1, WritesAt DEF Value
      <3>2. /\ rec.pc = "claim" /\ rec'.pc = "node" /\ rec'.ann = rec.ann
            /\ rec'.claim = rec.claim /\ rec'.touched = rec.touched /\ UNCHANGED <<claim, bn>>
        BY <1>0, <1>6, <2>1 DEF patchNodeClaim, Pass, others
      <3>3. ASSUME NEW m \in foreign PROVE m \notin S
        BY <3>2, <3>3 DEF FenceInv, OffLimits, Missing
      <3>4. ASSUME NEW m \in S PROVE m \in bn.owns /\ m \in ClaimMark /\ claim = "found"
        BY <2>1, <3>2, <3>4 DEF FenceInv, KnowsAt
      <3>5. /\ Fence(rec'.claim) = Fence(rec.claim)
            /\ Missing(rec'.claim, rec'.ann) = Missing(rec.claim, rec.ann)
        BY <3>2
      <3>6. ASSUME NEW m \in Mark, m \in ClaimMark, m \in Fence(rec.claim) \ rec.touched
            PROVE  m \in S \/ ann[m] = "true"
        BY <3>2, <3>6 DEF FenceInv, FencedAt, Missing
      <3> HIDE DEF S
      <3>7. \A m \in Annotation : KnowsAt(m)'
        BY <1>0, <3>1, <3>2, <3>4, <3>5 DEF FenceInv, KnowsAt
      <3>8. \A m \in foreign' : OffLimits(m)'
        BY <1>0, <3>1, <3>2, <3>3 DEF FenceInv, OffLimits
      <3>9. \A m \in Mark : FencedAt(m)'
        BY <3>1, <3>2, <3>5, <3>6 DEF FenceInv, FencedAt
      <3> QED
        BY <3>2, <3>7, <3>8, <3>9 DEF FenceInv
    <2> QED
      BY <1>5, <1>6, <2>1 DEF patchNodeClaim, others
  <1>7. CASE patchNode
    <2> DEFINE S == Missing(rec.claim, rec.ann) \ ClaimMark
    <2>1. CASE Writes(S, "true", "op") /\ rec' = [rec EXCEPT !.pc = "drain"]
      <3>1. /\ \A m \in Mark : /\ ann'[m] = IF m \in S THEN "true" ELSE ann[m]
                               /\ by'[m] = IF m \in S THEN "op" ELSE by[m]
            /\ foreign' = foreign
        BY <2>1, WritesAt DEF Value
      <3>2. /\ rec.pc = "node" /\ rec'.pc = "drain" /\ rec'.claim = rec.claim
            /\ rec'.touched = rec.touched /\ UNCHANGED <<claim, bn>>
        BY <1>0, <1>7, <2>1 DEF patchNode, Pass, others
      <3>3. ASSUME NEW m \in foreign PROVE m \notin S
        BY <3>2, <3>3 DEF FenceInv, OffLimits, Missing
      <3>4. ASSUME NEW m \in S PROVE m \notin ClaimMark /\ (m \in Annotation => m \in bn.owns)
        BY <3>2, <3>4 DEF FenceInv, KnowsAt
      <3>5. Fence(rec'.claim) = Fence(rec.claim)
        BY <3>2
      <3>6. ASSUME NEW m \in Mark, m \in Fence(rec.claim) \ rec.touched
            PROVE  m \in S \/ ann[m] = "true"
        BY <3>2, <3>6 DEF FenceInv, FencedAt, Missing
      <3> HIDE DEF S
      <3>7. \A m \in Annotation : KnowsAt(m)'
        BY <1>0, <3>1, <3>2, <3>4 DEF FenceInv, KnowsAt
      <3>8. \A m \in foreign' : OffLimits(m)'
        BY <1>0, <3>1, <3>2, <3>3 DEF FenceInv, OffLimits
      <3>9. \A m \in Mark : FencedAt(m)'
        BY <3>1, <3>2, <3>5, <3>6 DEF FenceInv, FencedAt
      <3> QED
        BY <3>2, <3>7, <3>8, <3>9 DEF FenceInv
    <2> QED
      BY <1>5, <1>7, <2>1 DEF patchNode, others
  <1>8. CASE restoreNodeState
    <2> DEFINE S == {m \in Restored \ ClaimMark : m = Cordon \/ rec.ann[m] # "none"}
    <2>1. CASE Writes(S, "none", "none")
               /\ rec' = [rec EXCEPT !.pc = "restoreClaim", !.ann = ann, !.claim = claim]
      <3>1. /\ \A m \in Mark : /\ ann'[m] = IF m \in S THEN "none" ELSE ann[m]
                               /\ by'[m] = IF m \in S THEN "none" ELSE by[m]
            /\ foreign' = foreign
        BY <2>1, WritesAt DEF Value
      <3>2. /\ rec.pc = "restoreNode" /\ rec'.pc = "restoreClaim" /\ rec'.claim = claim
            /\ rec'.ann = ann /\ UNCHANGED <<claim, bn>>
        BY <1>0, <1>8, <2>1 DEF restoreNodeState, Pass, others
      <3>3. S \subseteq bn.owns \ ClaimMark
        BY DEF Restored
      <3>4. ASSUME NEW m \in NodeMark, by[m] = "op" PROVE m \in S
        BY <3>2, <3>4 DEF FenceInv, KnowsAt, Restored
      <3> HIDE DEF S
      <3>5. \A m \in Annotation : KnowsAt(m)'
        BY <1>0, <3>1, <3>2, <3>3, <3>4 DEF FenceInv, KnowsAt
      <3>6. \A m \in foreign' : OffLimits(m)'
        BY <1>0, <3>1, <3>2, <3>3 DEF FenceInv, OffLimits
      <3> QED
        BY <3>2, <3>5, <3>6 DEF FenceInv, FencedAt
    <2> QED
      BY <1>5, <1>8, <2>1 DEF restoreNodeState, others
  <1>9. CASE restoreNodeClaimState
    <2> DEFINE S == IF rec.claim # "found" THEN {}
                    ELSE {m \in Restored \cap ClaimMark : rec.ann[m] # "none"}
    <2>1. CASE Writes(S, "none", "none") /\ rec' = [rec EXCEPT !.pc = "forget"]
      <3>1. /\ \A m \in Mark : /\ ann'[m] = IF m \in S THEN "none" ELSE ann[m]
                               /\ by'[m] = IF m \in S THEN "none" ELSE by[m]
            /\ foreign' = foreign
        BY <2>1, WritesAt DEF Value
      <3>2. /\ rec.pc = "restoreClaim" /\ rec'.pc = "forget" /\ UNCHANGED <<claim, bn>>
        BY <1>0, <1>9, <2>1 DEF restoreNodeClaimState, Pass, others
      <3>3. S \subseteq bn.owns
        BY DEF Restored
      <3>4. ASSUME NEW m \in Annotation, by[m] = "op" PROVE m \in S
        BY <3>2, <3>4 DEF FenceInv, KnowsAt, Restored
      <3> HIDE DEF S
      <3>5. \A m \in Annotation : KnowsAt(m)'
        BY <1>0, <3>1, <3>2, <3>3, <3>4 DEF FenceInv, KnowsAt
      <3>6. \A m \in foreign' : OffLimits(m)'
        BY <1>0, <3>1, <3>2, <3>3 DEF FenceInv, OffLimits
      <3> QED
        BY <3>2, <3>5, <3>6 DEF FenceInv, FencedAt
    <2> QED
      BY <1>5, <1>9, <2>1 DEF restoreNodeClaimState, others
  <1>10. CASE freeRebootSlot
    <2>1. /\ rec.pc = "forget" /\ rec' = NoPass /\ UNCHANGED <<marks, claim>>
          /\ bn'.owns = {} /\ ~bn'.inSlot
      BY <1>10 DEF freeRebootSlot, NoBN, NewBN, others
    <2> QED
      BY <1>0, <2>1 DEF FenceInv, KnowsAt, OffLimits, FencedAt, marks
  <1>11. CASE ensureDrain \/ ApiError \/ ControllerCrash
    BY <1>5, <1>11 DEF ensureDrain, ApiError, ControllerCrash, others
  <1>12. CASE Machine \/ UserActs \/ KarpenterDisrupts \/ UNCHANGED vars
    <2>1. Quiet /\ (rec' = rec \/ \E c : Seen({}, c))
      BY <1>12, ZenonT(60) DEF Machine, DrainFinishes, Reboots, KubeletReady, UserActs,
         KarpenterDisrupts, vars, marks, others
    <2> QED
      BY <2>1, BystanderStep
  <1>13. CASE NodeClaimGoes
    <2>1. /\ \A m \in ClaimMark : ann'[m] = "none" /\ by'[m] = "none"
          /\ \A m \in Mark \ ClaimMark : ann'[m] = ann[m] /\ by'[m] = by[m]
          /\ foreign' = foreign \ ClaimMark /\ bn' = bn
      BY <1>0, <1>13 DEF NodeClaimGoes
    <2>2. /\ rec'.pc = rec.pc /\ rec'.ann = rec.ann /\ rec'.claim = rec.claim
          /\ rec'.deferred = rec.deferred
          /\ rec.pc # "idle" => rec'.touched = rec.touched \cup ClaimMark
          /\ rec.pc = "idle" => rec' = rec
      BY ZenonT(60), <1>0, <1>13, SeenAt DEF NodeClaimGoes
    <2>3. /\ Fence(rec'.claim) = Fence(rec.claim)
          /\ Missing(rec'.claim, rec'.ann) = Missing(rec.claim, rec.ann)
      BY <2>2
    <2>4. \A m \in Annotation : KnowsAt(m)'
      BY <1>0, <2>1, <2>2, <2>3 DEF FenceInv, KnowsAt
    <2>5. \A m \in foreign' : OffLimits(m)'
      BY <1>0, <2>1, <2>2 DEF FenceInv, OffLimits
    <2>6. \A m \in Mark : FencedAt(m)'
      BY <1>0, <2>1, <2>2, <2>3 DEF FenceInv, FencedAt
    <2> QED
      BY <2>1, <2>2, <2>4, <2>5, <2>6 DEF FenceInv
  <1>14. ASSUME NEW k \in Mark, NEW v \in Value, OthersMark(k, v) PROVE FenceInv'
    <2>1. /\ ann'[k] = v /\ by'[k] \in {"none", "ext"} /\ (v = "true" => by'[k] = "ext")
          /\ \A m \in Mark \ {k} : ann'[m] = ann[m] /\ by'[m] = by[m]
          /\ bn' = bn /\ claim' = claim
      BY <1>14 DEF OthersMark, TypeOK
    <2>2. /\ rec'.pc = rec.pc /\ rec'.ann = rec.ann /\ rec'.claim = rec.claim
          /\ rec'.deferred = rec.deferred
          /\ rec.pc # "idle" => rec'.touched = rec.touched \cup {k}
          /\ rec.pc = "idle" => rec' = rec
      BY <1>0, <1>14, SeenAt DEF OthersMark
    <2>3. /\ Fence(rec'.claim) = Fence(rec.claim)
          /\ Missing(rec'.claim, rec'.ann) = Missing(rec.claim, rec.ann)
      BY <2>2
    <2>4. /\ foreign' \ {k} \subseteq foreign
          /\ k \in foreign' => v = "true" /\ rec.pc = "idle" /\ ~bn.inSlot
      BY <1>14 DEF OthersMark
    <2>5. \A m \in Annotation : KnowsAt(m)'
      BY <1>0, <2>1, <2>2, <2>3 DEF FenceInv, KnowsAt
    <2>6. \A m \in foreign' : OffLimits(m)'
      BY <1>0, <2>1, <2>2, <2>4 DEF FenceInv, OffLimits
    <2>7. \A m \in Mark : FencedAt(m)'
      BY <1>0, <2>1, <2>2, <2>3 DEF FenceInv, FencedAt
    <2> QED
      BY <2>1, <2>2, <2>5, <2>6, <2>7 DEF FenceInv
  <1> QED
    BY <1>1, <1>2, <1>3, <1>4, <1>6, <1>7, <1>8, <1>9, <1>10, <1>11, <1>12, <1>13, <1>14,
       ZenonT(60) DEF Next, Controller, Disturbance

\* The types and the bookkeeping hold together of every reachable state.
LEMMA FenceInvariant == Spec => [](TypeOK /\ FenceInv)
  <1>1. ASSUME TypeOK, FenceInv, [Next]_vars PROVE (TypeOK /\ FenceInv)'
    BY <1>1, NextType, FenceStep
  <1> QED
    BY <1>1, InitInv, PTL DEF Spec

\* Type correctness of the fence, for any set of fence annotations, any number of
\* changes by others and any faults.
THEOREM FenceTypeCorrect == Spec => []TypeOK
  BY FenceInvariant, PTL

\* However the writes of assignRebootSlot, freeRebootSlot and removeBootcNode fail
\* or a crash cuts them short, for any set of fence annotations: what the operator
\* has put on the Node and on the NodeClaim is recorded in the BootcNode.
THEOREM AlwaysRecorded == Spec => []FenceRecorded
  <1>1. FenceInv => FenceRecorded
    BY DEF FenceInv, KnowsAt, FenceRecorded, Annotation
  <1> QED
    BY <1>1, FenceInvariant, PTL

\* Whatever the operator does, for any set of fence annotations, a cordon or an
\* annotation that others had put on before the slot was assigned stays.
THEOREM ForeignAlwaysKept == Spec => []ForeignKept
  <1>1. FenceInv => ForeignKept
    BY DEF FenceInv, OffLimits, ForeignKept
  <1> QED
    BY <1>1, FenceInvariant, PTL

\* ensureDrain, the one place where a drain starts, comes after the pass has seen
\* to the cordon and to every annotation of the fence.
THEOREM DrainsFenced == Spec => DrainFenced
  <1> DEFINE A == drain = "none" /\ drain' = "running" =>
                    \/ rec.deferred
                    \/ \A m \in Fence(rec.claim) \ rec.touched : ann[m] = "true"
  <1>1. ASSUME TypeOK, FenceInv, [Next]_vars PROVE A \/ UNCHANGED vars
    <2>1. CASE ensureDrain
      <3>1. rec.pc = "drain"
        BY <2>1 DEF ensureDrain
      <3> QED
        BY <1>1, <3>1, MarksApart DEF FenceInv, FencedAt
    <2>2. CASE Next /\ ~ensureDrain
      <3>1. drain' = drain \/ drain' # "running"
        BY <2>2, ZenonT(60) DEF Next, Controller, Machine, Disturbance, StartReconcile,
           collectDrainResults, Collected, driveRollout, assignRebootSlot, patchNodeClaim,
           patchNode, restoreNodeState, restoreNodeClaimState, freeRebootSlot, ApiError,
           ControllerCrash, DrainFinishes, Reboots, KubeletReady, UserActs, OthersMark,
           KarpenterDisrupts, NodeClaimGoes, Abort
      <3> QED
        BY <3>1
    <2> QED
      BY <1>1, <2>1, <2>2
  <1>2. TypeOK /\ FenceInv /\ [Next]_vars => [A]_vars
    BY <1>1
  <1> QED
    BY <1>2, FenceInvariant, PTL DEF Spec, DrainFenced

=============================================================================
