----------------------------- MODULE DaemonProofs -----------------------------
(***************************************************************************)
(* Proofs about Daemon, for any images, any number of staging goroutines,    *)
(* changes and faults.                                                       *)
(***************************************************************************)
EXTENDS Daemon, TLAPS

USE SMTT(30), ZenonT(30)

Gen == 0 .. 2 * MaxChanges + 1
Idle_ == {"Idle", "Staging", "Staged", "Rebooting"}
Op_ == [image : Image \cup {NoImage}, cancel : Task \cup {NoTask}, err : BOOLEAN,
        retries : 0 .. stageMaxBackoffExponent]
Task_ == [pc : {"gone", "wait", "stage", "send"}, image : Image \cup {NoImage},
          cancelled : BOOLEAN, result : {"none", "ok", "failed"}]
Host_ == [booted : Image, staged : Image \cup {NoImage}, unit : Image \cup {NoImage},
          stopping : BOOLEAN]
Watcher_ == [cached : BootcStatus \cup {NoStatus}, started : BOOLEAN, polling : BOOLEAN,
             event : BOOLEAN, missed : BOOLEAN]
Rec_ == [pc : {"idle", "classify", "patch", "reboot"}, desired : Image \cup {NoImage},
         state : {"Staged", "Booted"}, read : BootcStatus \cup {NoStatus}, gen : Gen,
         idle : Idle_, degraded : BOOLEAN, known : BOOLEAN, delay : 0 .. NoDelay,
         rebootIssued : BOOLEAN]

-----------------------------------------------------------------------------
(* Types.                                                                  *)

\* An approval follows each change of the image at most once.
Generations == spec.gen <= 2 * changes + (IF spec.state = "Booted" THEN 1 ELSE 0)

Types ==
    /\ spec \in Spec_ /\ seen \in Spec_ /\ status \in Report_
    /\ view \in {"healthy", "degraded", "other"}
    /\ host \in Host_ /\ watcher \in Watcher_ /\ op \in Op_ /\ tasks \in [Task -> Task_]
    /\ done \in BOOLEAN /\ queue \in BOOLEAN /\ timer \in BOOLEAN
    /\ rec \in Rec_
    /\ changes \in 0 .. MaxChanges /\ faults \in 0 .. MaxFaults

LEMMA TypesAgree == Types <=> TypeOK
  BY ZenonT(30) DEF Types, TypeOK, Host_, Watcher_, Op_, Task_, Rec_, Gen, Idle_

LEMMA Constants ==
    /\ 0 \in Image /\ NoImage \notin Image /\ 0 \in Gen
    /\ NoOp \in Op_ /\ Gone \in Task_ /\ NoWatcher \in Watcher_ /\ NoRec \in Rec_
  <1>1. 0 \in Image /\ NoImage \notin Image /\ 0 \in Gen
    BY DaemonAssumption DEF Image, Gen
  <1>2. 0 \in 0 .. stageMaxBackoffExponent /\ NoDelay \in 0 .. NoDelay
    BY DaemonAssumption DEF NoDelay
  <1>3. NoOp \in Op_
    BY ZenonT(30), <1>2 DEF NoOp, Op_
  <1>4. Gone \in Task_
    BY ZenonT(30) DEF Gone, Task_
  <1>5. NoWatcher \in Watcher_
    BY ZenonT(30), DaemonAssumption DEF NoWatcher, Watcher_
  <1>6. NoRec \in Rec_
    BY ZenonT(30), <1>1, <1>2 DEF NoRec, Rec_, Idle_
  <1> QED
    BY <1>1, <1>3, <1>4, <1>5, <1>6

LEMMA InitTypes == Init => Types /\ Generations
  <1> SUFFICES ASSUME Init PROVE Types /\ Generations
    OBVIOUS
  <1>1. spec \in Spec_ /\ seen \in Spec_ /\ status \in Report_
    BY ZenonT(30), Constants DEF Init, Spec_, Report_, Gen
  <1>2. host \in Host_
    BY ZenonT(30), Constants DEF Init, Host_
  <1>3. changes \in 0 .. MaxChanges /\ faults \in 0 .. MaxFaults
    BY DaemonAssumption DEF Init
  <1>4. tasks \in [Task -> Task_]
    BY Constants DEF Init
  <1>5. Types
    BY ZenonT(30), <1>1, <1>2, <1>3, <1>4, Constants DEF Init, Types
  <1>6. Generations
    BY DEF Init, Generations
  <1> QED
    BY <1>5, <1>6

LEMMA FaultType ==
    ASSUME faults \in 0 .. MaxFaults, NEW k, Fault(k)
    PROVE  faults' \in 0 .. MaxFaults
  BY DaemonAssumption DEF Fault

LEMMA ReadTypes ==
    ASSUME Types
    PROVE  /\ HostStatus \in BootcStatus
           /\ GetStatus \in BootcStatus
           /\ takeErr \in Op_ /\ reset \in Op_ /\ backoff \in 0 .. NoDelay
  <1>1. HostStatus \in BootcStatus
    BY ZenonT(30) DEF Types, Host_, HostStatus, BootcStatus
  <1>2. GetStatus \in BootcStatus
    BY ZenonT(30), <1>1 DEF Types, Watcher_, GetStatus
  <1>3. op.retries \in 0 .. stageMaxBackoffExponent
    BY DEF Types, Op_
  <1> DEFINE n == IF op.retries < stageMaxBackoffExponent THEN op.retries + 1 ELSE op.retries
  <1>4. n \in 0 .. stageMaxBackoffExponent /\ n - 1 \in 0 .. NoDelay
    BY <1>3, DaemonAssumption DEF NoDelay
  <1>5. takeErr = [op EXCEPT !.err = FALSE, !.retries = n] /\ takeErr.retries = n
    BY DEF takeErr, Types, Op_
  <1> HIDE DEF n
  <1>6. takeErr \in Op_
    BY ZenonT(30), <1>4, <1>5 DEF Types, Op_
  <1>7. reset \in Op_
    <2>1. 0 \in 0 .. stageMaxBackoffExponent
      BY DaemonAssumption
    <2> QED
      BY ZenonT(30), <2>1 DEF reset, Types, Op_
  <1> QED
    BY <1>1, <1>2, <1>4, <1>5, <1>6, <1>7 DEF backoff

\* Types of the steps that touch the API objects.
LEMMA ObjectTypes ==
    ASSUME Types, Generations, ChangeDesired \/ Approve \/ SeeBootcNode \/ PatchStatus
    PROVE  Types' /\ Generations'
  <1>0. Shown \in {"healthy", "degraded", "other"}
    BY DEF Shown, Shown_anyGeneration
  <1>1. CASE ChangeDesired
    <2>1. PICK i \in Image : spec' = [desired |-> i, state |-> "Staged", gen |-> spec.gen + 1]
      BY <1>1 DEF ChangeDesired
    <2>2. changes' = changes + 1 /\ changes < MaxChanges /\ changes \in Nat /\ changes' \in 0 .. MaxChanges
      BY <1>1, DaemonAssumption DEF ChangeDesired, Types
    <2>3. spec.gen \in Nat /\ spec.gen <= 2 * changes + 1
      BY <2>2 DEF Generations, Types, Spec_
    <2>4. spec.gen + 1 \in Gen /\ spec.gen + 1 <= 2 * changes'
      BY <2>2, <2>3, DaemonAssumption DEF Gen
    <2>5. spec' \in Spec_ /\ spec'.state = "Staged" /\ spec'.gen = spec.gen + 1
      BY ZenonT(30), <2>1, <2>4 DEF Spec_, Gen
    <2>6. Generations'
      BY <2>2, <2>4, <2>5 DEF Generations
    <2>7. Types'
      BY ZenonT(30), <1>1, <2>2, <2>5 DEF ChangeDesired, Types
    <2> QED
      BY <2>6, <2>7
  <1>2. CASE Approve
    <2>1. spec' = [spec EXCEPT !.state = "Booted", !.gen = @ + 1] /\ spec.state = "Staged"
      BY <1>2 DEF Approve, Approvable
    <2>2. spec.gen \in Nat /\ spec.gen <= 2 * changes /\ changes \in 0 .. MaxChanges
      BY <2>1 DEF Generations, Types, Spec_
    <2>3. spec.gen + 1 \in Gen
      BY <2>2, DaemonAssumption DEF Gen
    <2>4. spec' \in Spec_ /\ spec'.state = "Booted" /\ spec'.gen = spec.gen + 1
      BY ZenonT(30), <2>1, <2>3 DEF Types, Spec_, Gen
    <2>5. Generations'
      BY <1>2, <2>2, <2>4 DEF Approve, Generations
    <2>6. Types'
      BY ZenonT(30), <1>2, <2>4 DEF Approve, Types
    <2> QED
      BY <2>5, <2>6
  <1>3. CASE SeeBootcNode
    <2>1. Types'
      BY ZenonT(30), <1>0, <1>3 DEF SeeBootcNode, Types
    <2> QED
      BY <1>3, <2>1 DEF SeeBootcNode, Generations
  <1>4. CASE PatchStatus
    <2> DEFINE b == IF rec.read = NoStatus THEN status.booted ELSE rec.read.booted
    <2>1. b \in Image
      BY ZenonT(30) DEF Types, Rec_, Report_, BootcStatus
    <2>2. status' = IF rec.known THEN [status EXCEPT !.booted = b]
                    ELSE [booted |-> b, idle |-> rec.idle, degraded |-> rec.degraded,
                          gen |-> rec.gen]
      BY <1>4 DEF PatchStatus
    <2> HIDE DEF b
    <2>3. status' \in Report_
      BY ZenonT(30), <2>1, <2>2 DEF Types, Report_, Rec_, Idle_, Gen
    <2>4. rec' \in Rec_
      BY ZenonT(30), <1>4, Constants DEF PatchStatus, Types, Rec_
    <2>5. timer' \in BOOLEAN
      BY ZenonT(30), <1>4 DEF PatchStatus, Types
    <2>6. Types'
      BY ZenonT(30), <1>4, <2>3, <2>4, <2>5 DEF PatchStatus, Types
    <2> QED
      BY <1>4, <2>6 DEF PatchStatus, Generations
  <1> QED
    BY <1>1, <1>2, <1>3, <1>4

\* The locals of a reconcile.
LEMMA ReconcileTypes ==
    ASSUME Types, Skip \/ Reconcile \/ ReconcileNoStatus \/ PatchFails \/ Reboot \/ RebootFails
    PROVE  Types'
  <1> DEFINE read == [NoRec EXCEPT !.desired = seen.desired, !.state = seen.state,
                                   !.gen = seen.gen, !.read = GetStatus]
  <1>1. read \in Rec_ /\ seen.gen \in Gen
    BY ZenonT(30), Constants, ReadTypes DEF Types, Rec_, Spec_, Gen
  <1>2. CASE Skip
    BY ZenonT(30), <1>2 DEF Skip, Types
  <1>3. CASE Reconcile
    <2>1. watcher' \in Watcher_ /\ queue' \in BOOLEAN
      BY ZenonT(30), <1>3, ReadTypes DEF Reconcile, Types, Watcher_
    <2>2. op' \in Op_
      BY ZenonT(30), <1>3, ReadTypes DEF Reconcile, Types
    <2>3. \/ rec' = [read EXCEPT !.pc = "patch", !.known = (view = "healthy")]
          \/ \E same \in BOOLEAN :
                rec' = [read EXCEPT !.pc = "patch", !.degraded = TRUE,
                                    !.known = same /\ view = "degraded", !.delay = backoff]
          \/ rec' = [read EXCEPT !.pc = "classify"]
      BY ZenonT(30), <1>3 DEF Reconcile
    <2> HIDE DEF read
    <2>4. rec' \in Rec_
      <3>1. CASE rec' = [read EXCEPT !.pc = "patch", !.known = (view = "healthy")]
        BY ZenonT(30), <1>1, <3>1 DEF Rec_
      <3>2. CASE \E same \in BOOLEAN :
                    rec' = [read EXCEPT !.pc = "patch", !.degraded = TRUE,
                                        !.known = same /\ view = "degraded", !.delay = backoff]
        BY ZenonT(30), <1>1, <3>2, ReadTypes DEF Rec_
      <3>3. CASE rec' = [read EXCEPT !.pc = "classify"]
        BY ZenonT(30), <1>1, <3>3 DEF Rec_
      <3> QED
        BY ZenonT(30), <2>3, <3>1, <3>2, <3>3
    <2> QED
      BY ZenonT(30), <1>3, <2>1, <2>2, <2>4 DEF Reconcile, Types
  <1>4. CASE ReconcileNoStatus
    <2>1. rec' \in Rec_
      BY ZenonT(30), <1>1, <1>4, Constants DEF ReconcileNoStatus, Rec_
    <2>2. faults' \in 0 .. MaxFaults
      BY ZenonT(30), <1>4, FaultType DEF ReconcileNoStatus, Types
    <2> QED
      BY ZenonT(30), <1>4, <2>1, <2>2 DEF ReconcileNoStatus, Types
  <1>5. CASE PatchFails \/ RebootFails
    <2>1. faults' \in 0 .. MaxFaults
      BY <1>5, FaultType DEF PatchFails, RebootFails, Types
    <2> QED
      BY ZenonT(30), <1>5, <2>1, Constants DEF PatchFails, RebootFails, Types
  <1>6. CASE Reboot
    <2>1. rec' \in Rec_ /\ host' \in Host_
      BY ZenonT(30), <1>6, Constants DEF Reboot, Types, Rec_, Host_
    <2> QED
      BY ZenonT(30), <1>6, <2>1 DEF Reboot, Types
  <1> QED
    BY <1>2, <1>3, <1>4, <1>5, <1>6

LEMMA ActTypes ==
    ASSUME Types, NEW i \in Idle_, Act(i), op' \in Op_, tasks' \in [Task -> Task_]
    PROVE  Types'
  <1>1. rec' \in Rec_
    BY ZenonT(30) DEF Act, Types, Rec_
  <1> QED
    BY ZenonT(30), <1>1 DEF Act, Types

\* acquire(t) of a goroutine that has ended.
LEMMA AcquireTypes ==
    ASSUME Types, NEW t \in Task, acquire(t)
    PROVE  op' \in Op_ /\ tasks' \in [Task -> Task_]
  <1>1. rec.desired \in Image \cup {NoImage}
    BY DEF Types, Rec_
  <1> DEFINE r == IF op.cancel # NoTask THEN 0 ELSE op.retries
  <1>2. r \in 0 .. stageMaxBackoffExponent
    BY DaemonAssumption DEF Types, Op_
  <1>3. op' = [image |-> rec.desired, cancel |-> t, err |-> FALSE, retries |-> r]
    BY DEF acquire
  <1> HIDE DEF r
  <1>4. op' \in Op_
    BY ZenonT(30), <1>1, <1>2, <1>3 DEF Op_
  <1> DEFINE new == [Gone EXCEPT !.pc = "wait", !.image = rec.desired]
  <1>5. new \in Task_
    BY ZenonT(30), <1>1, Constants DEF Task_
  <1>6. \A u \in Task : [tasks[u] EXCEPT !.cancelled = TRUE] \in Task_ /\ tasks[u] \in Task_
    BY ZenonT(30) DEF Types, Task_
  <1>7. tasks' = [u \in Task |-> IF u = t THEN new
                                ELSE IF u = op.cancel THEN [tasks[u] EXCEPT !.cancelled = TRUE]
                                ELSE tasks[u]]
    BY DEF acquire
  <1> HIDE DEF new
  <1>8. tasks' \in [Task -> Task_]
    BY <1>5, <1>6, <1>7
  <1> QED
    BY <1>4, <1>8

\* The goroutine that Stage starts had ended.
LEMMA StageTask ==
    ASSUME Stage
    PROVE  \E t \in Task : tasks[t].pc = "gone" /\ acquire(t)
  <1>1. \E t \in Task : tasks[t].pc = "gone"
    BY DEF Stage
  <1> DEFINE t == CHOOSE u \in Task : tasks[u].pc = "gone"
  <1>2. t \in Task /\ tasks[t].pc = "gone"
    BY <1>1
  <1>3. acquire(t)
    BY DEF Stage
  <1> QED
    BY <1>2, <1>3

LEMMA ActionTypes ==
    ASSUME Types, Stage \/ AwaitStage \/ AwaitBooted \/ DecideReboot
    PROVE  Types'
  <1>1. CASE Stage
    <2>1. op' \in Op_ /\ tasks' \in [Task -> Task_]
      BY ZenonT(30), <1>1, StageTask, AcquireTypes
    <2>2. Act("Staging")
      BY <1>1 DEF Stage
    <2> QED
      BY ZenonT(30), <2>1, <2>2, ActTypes DEF Idle_
  <1>2. CASE AwaitStage \/ AwaitBooted \/ DecideReboot
    <2>1. op' \in Op_ /\ tasks' \in [Task -> Task_]
      BY <1>2 DEF AwaitStage, AwaitBooted, DecideReboot, Types
    <2>2. \E i \in Idle_ : Act(i)
      BY ZenonT(30), <1>2 DEF AwaitStage, AwaitBooted, DecideReboot, Idle_
    <2> QED
      BY ZenonT(30), <2>1, <2>2, ActTypes
  <1> QED
    BY <1>1, <1>2

\* The goroutines and the unit.
LEMMA RunTypes ==
    ASSUME Types, UnitSucceeds \/ UnitFails \/ \E t \in Task : Run(t)
    PROVE  Types'
  <1>1. ASSUME NEW r \in {"ok", "failed"}, UnitResult(r) PROVE tasks' \in [Task -> Task_]
    <2>1. \A u \in Task : [tasks[u] EXCEPT !.result = r] \in Task_ /\ tasks[u] \in Task_
      BY ZenonT(30) DEF Types, Task_
    <2> QED
      BY <1>1, <2>1 DEF UnitResult
  <1>2. ASSUME NEW t \in Task, NEW k \in Task_, SetTask(t, k) PROVE tasks' \in [Task -> Task_]
    BY <1>2 DEF SetTask, Types
  <1>3. CASE UnitSucceeds
    <2>1. tasks' \in [Task -> Task_]
      BY <1>1, <1>3 DEF UnitSucceeds
    <2>2. host' \in Host_
      BY ZenonT(30), <1>3 DEF UnitSucceeds, Types, Host_
    <2>3. watcher' \in Watcher_
      BY ZenonT(30), <1>3 DEF UnitSucceeds, Types, Watcher_
    <2> QED
      BY ZenonT(30), <1>3, <2>1, <2>2, <2>3 DEF UnitSucceeds, Types
  <1>4. CASE UnitFails
    <2>1. tasks' \in [Task -> Task_]
      BY <1>1, <1>4 DEF UnitFails
    <2>2. host' \in Host_
      BY ZenonT(30), <1>4 DEF UnitFails, Types, Host_
    <2>3. faults' \in 0 .. MaxFaults
      BY ZenonT(30), <1>4, FaultType DEF UnitFails, Types
    <2> QED
      BY ZenonT(30), <1>4, <2>1, <2>2, <2>3 DEF UnitFails, Types
  <1>5. ASSUME NEW t \in Task, Run(t) PROVE Types'
    <2>1. tasks[t] \in Task_
      BY DEF Types
    <2>2. tasks' \in [Task -> Task_]
      <3>1. [tasks[t] EXCEPT !.pc = "stage"] \in Task_ /\ Report(t) \in Task_
        BY ZenonT(30), <2>1 DEF Report, Task_
      <3> QED
        BY ZenonT(30), <1>2, <1>5, <3>1, Constants
           DEF Run, RunSkipped, RunStage, RunReturns, RunCancelled, SendDone
    <2>3. host' \in Host_
      BY ZenonT(30), <1>5, <2>1
         DEF Run, RunSkipped, RunStage, RunReturns, RunCancelled, SendDone, Types, Host_, Task_
    <2>4. op' \in Op_
      BY ZenonT(30), <1>5
         DEF Run, RunSkipped, RunStage, RunReturns, RunCancelled, SendDone, Types, Op_
    <2>5. done' \in BOOLEAN
      BY ZenonT(30), <1>5 DEF Run, RunSkipped, RunStage, RunReturns, RunCancelled, SendDone, Types
    <2> QED
      BY ZenonT(30), <1>5, <2>2, <2>3, <2>4, <2>5
         DEF Run, RunSkipped, RunStage, RunReturns, RunCancelled, SendDone, Types
  <1> QED
    BY <1>3, <1>4, <1>5

\* The watcher, timers, events and restarts.
LEMMA OtherTypes ==
    ASSUME Types, \/ TimerFires \/ ReceiveDone \/ WatcherStarts \/ refreshAndNotify
                  \/ refreshFails \/ WatchBreaks \/ DaemonRestarts \/ HostBoots
    PROVE  Types'
  <1>1. CASE TimerFires \/ ReceiveDone
    BY ZenonT(30), <1>1 DEF TimerFires, ReceiveDone, Types
  <1>2. CASE WatcherStarts \/ refreshAndNotify \/ refreshFails \/ WatchBreaks
    <2>1. watcher' \in Watcher_
      BY ZenonT(30), <1>2, ReadTypes
         DEF WatcherStarts, refreshAndNotify, refreshFails, WatchBreaks, DegradeToPolling, Types,
             Watcher_
    <2>2. faults' \in 0 .. MaxFaults
      BY ZenonT(30), <1>2, FaultType
         DEF WatcherStarts, refreshAndNotify, refreshFails, WatchBreaks, Types
    <2>3. queue' \in BOOLEAN
      BY ZenonT(30), <1>2 DEF WatcherStarts, refreshAndNotify, refreshFails, WatchBreaks, Types
    <2> QED
      BY ZenonT(30), <1>2, <2>1, <2>2, <2>3
         DEF WatcherStarts, refreshAndNotify, refreshFails, WatchBreaks, Types
  <1>3. CASE DaemonRestarts \/ HostBoots
    <2>1. NewDaemon /\ UNCHANGED <<spec, status, changes>>
      BY <1>3 DEF DaemonRestarts, HostBoots
    <2>2. Shown \in {"healthy", "degraded", "other"}
      BY DEF Shown, Shown_anyGeneration
    <2>3. tasks' \in [Task -> Task_]
      BY <2>1, Constants DEF NewDaemon
    <2>4. faults' \in 0 .. MaxFaults
      BY ZenonT(30), <1>3, FaultType DEF DaemonRestarts, HostBoots, Types
    <2>5. host' \in Host_
      <3> DEFINE b == IF host.staged = NoImage THEN host.booted ELSE host.staged
      <3>1. host' = host \/ host' = [booted |-> b, staged |-> NoImage, unit |-> NoImage,
                                    stopping |-> FALSE]
        BY <1>3 DEF DaemonRestarts, HostBoots
      <3>2. b \in Image /\ host \in Host_
        BY DEF Types, Host_
      <3> HIDE DEF b
      <3>3. [booted |-> b, staged |-> NoImage, unit |-> NoImage, stopping |-> FALSE] \in Host_
        BY <3>2 DEF Host_
      <3> QED
        BY ZenonT(30), <3>1, <3>2, <3>3
    <2> QED
      BY ZenonT(30), <2>1, <2>2, <2>3, <2>4, <2>5, Constants DEF NewDaemon, Types
  <1> QED
    BY <1>1, <1>2, <1>3

LEMMA TypesStep == Types /\ Generations /\ [Next]_vars => Types' /\ Generations'
  <1> SUFFICES ASSUME Types, Generations, [Next]_vars PROVE Types' /\ Generations'
    OBVIOUS
  <1>1. CASE ChangeDesired \/ Approve \/ SeeBootcNode \/ PatchStatus
    BY ZenonT(30), <1>1, ObjectTypes
  <1>2. CASE Skip \/ Reconcile \/ ReconcileNoStatus \/ PatchFails \/ Reboot \/ RebootFails
    <2>1. UNCHANGED <<spec, changes>>
      BY ZenonT(30), <1>2 DEF Skip, Reconcile, ReconcileNoStatus, PatchFails, Reboot, RebootFails
    <2> QED
      BY ZenonT(30), <1>2, <2>1, ReconcileTypes DEF Generations
  <1>3. CASE Stage \/ AwaitStage \/ AwaitBooted \/ DecideReboot
    <2>1. UNCHANGED <<spec, changes>>
      BY ZenonT(30), <1>3 DEF Stage, AwaitStage, AwaitBooted, DecideReboot, Act
    <2> QED
      BY ZenonT(30), <1>3, <2>1, ActionTypes DEF Generations
  <1>4. CASE UnitSucceeds \/ UnitFails \/ \E t \in Task : Run(t)
    <2>1. UNCHANGED <<spec, changes>>
      BY ZenonT(30), <1>4 DEF UnitSucceeds, UnitFails, Run, RunSkipped, RunStage, RunReturns,
         RunCancelled, SendDone
    <2> QED
      BY ZenonT(30), <1>4, <2>1, RunTypes DEF Generations
  <1>5. CASE \/ TimerFires \/ ReceiveDone \/ WatcherStarts \/ refreshAndNotify
             \/ refreshFails \/ WatchBreaks \/ DaemonRestarts \/ HostBoots
    <2>1. UNCHANGED <<spec, changes>>
      BY ZenonT(30), <1>5 DEF TimerFires, ReceiveDone, WatcherStarts, refreshAndNotify,
         refreshFails, WatchBreaks, DaemonRestarts, HostBoots
    <2> QED
      BY ZenonT(30), <1>5, <2>1, OtherTypes DEF Generations
  <1>6. CASE UNCHANGED vars
    BY ZenonT(30), <1>6 DEF vars, Types, Generations
  <1> QED
    BY ZenonT(30), <1>1, <1>2, <1>3, <1>4, <1>5, <1>6 DEF Next, Worker, Failure

\* The type invariant of the daemon: among others, the shift of the backoff is
\* never negative and never above stageMaxBackoffExponent.
THEOREM DaemonTypeCorrect == Spec => []TypeOK
  <1>1. Types => TypeOK
    BY TypesAgree
  <1> QED
    BY <1>1, InitTypes, TypesStep, PTL DEF Spec

-----------------------------------------------------------------------------
(* Staging.                                                                *)

\* runMu: one goroutine at a time stages or sends its event.
MuHeld ==
    \A t, u \in Task : tasks[t].pc \in {"stage", "send"} /\ tasks[u].pc \in {"stage", "send"}
                          => t = u

\* A goroutine that may still count.
Live(k) == k.pc \in {"wait", "stage"} /\ ~k.cancelled

\* stageOp knows the one goroutine that may still count, and what it stages.
Owner ==
    /\ op.image # NoImage => op.cancel # NoTask
    /\ \A t \in Task : Live(tasks[t]) <=> op.cancel = t
    /\ \A t \in Task : op.cancel = t => op.image = tasks[t].image

StageInv == Types /\ Owner /\ UnitIsOwn /\ MuHeld

LEMMA OwnerTracks == Owner => StageTracked
  BY DEF Owner, StageTracked, Live

LEMMA Ended == ~Live(Gone) /\ Gone.pc = "gone"
  BY DEF Live, Gone

\* Steps that neither start nor end a goroutine or a unit.
LEMMA QuietStage ==
    ASSUME StageInv, Types', UNCHANGED tasks, op'.image = op.image, op'.cancel = op.cancel,
           host'.unit = host.unit
    PROVE  StageInv'
  BY DEF StageInv, Owner, UnitIsOwn, MuHeld

LEMMA AcquireStage ==
    ASSUME StageInv, Types', UNCHANGED host, NEW t \in Task, tasks[t].pc = "gone", acquire(t)
    PROVE  StageInv'
  <1> USE DEF StageInv
  <1> DEFINE new == [Gone EXCEPT !.pc = "wait", !.image = rec.desired]
  <1>1. /\ op'.image = rec.desired /\ op'.cancel = t
        /\ tasks' = [u \in Task |-> IF u = t THEN new
                                   ELSE IF u = op.cancel THEN [tasks[u] EXCEPT !.cancelled = TRUE]
                                   ELSE tasks[u]]
    BY DEF acquire
  <1>2. new.pc = "wait" /\ new.image = rec.desired /\ ~new.cancelled
    BY DEF Gone
  <1> HIDE DEF new
  <1>3. tasks'[t].pc = "wait" /\ tasks'[t].image = rec.desired /\ ~tasks'[t].cancelled
    BY <1>1, <1>2
  <1>4. ASSUME NEW u \in Task, u # t
        PROVE  /\ tasks'[u].pc = tasks[u].pc /\ tasks'[u].image = tasks[u].image
               /\ tasks'[u].result = tasks[u].result
               /\ tasks'[u].cancelled = (tasks[u].cancelled \/ u = op.cancel)
    <2>1. tasks[u] \in Task_ /\ tasks'[u] = IF u = op.cancel THEN [tasks[u] EXCEPT !.cancelled = TRUE]
                                            ELSE tasks[u]
      BY <1>1, <1>4 DEF Types
    <2> QED
      BY ZenonT(30), <2>1 DEF Task_
  <1>5. Owner'
    <2>1. op'.image # NoImage => op'.cancel # NoTask
      BY <1>1, DaemonAssumption
    <2>2. ASSUME NEW u \in Task PROVE Live(tasks'[u]) <=> u = t
      <3>1. CASE u = t
        BY <1>3, <3>1 DEF Live
      <3>2. CASE u # t
        BY ZenonT(30), <1>4, <3>2 DEF Owner, Live
      <3> QED
        BY <3>1, <3>2
    <2> QED
      BY <1>1, <1>3, <2>1, <2>2 DEF Owner
  <1>6. UnitIsOwn'
    <2> SUFFICES ASSUME NEW u \in Task, tasks'[u].pc = "stage", tasks'[u].result = "none",
                        ~tasks'[u].cancelled
                 PROVE  host'.unit = tasks'[u].image
      BY DEF UnitIsOwn
    <2>1. u # t
      BY <1>3
    <2> QED
      BY ZenonT(30), <1>4, <2>1 DEF UnitIsOwn
  <1>7. MuHeld'
    BY <1>3, <1>4 DEF MuHeld
  <1> QED
    BY <1>5, <1>6, <1>7

\* The unit ends, and whoever waits for it hears of it.
LEMMA UnitStage ==
    ASSUME StageInv, Types', UNCHANGED op, NEW r \in {"ok", "failed"}, UnitResult(r)
    PROVE  StageInv'
  <1> USE DEF StageInv
  <1>1. ASSUME NEW u \in Task
        PROVE  /\ tasks'[u].pc = tasks[u].pc /\ tasks'[u].image = tasks[u].image
               /\ tasks'[u].cancelled = tasks[u].cancelled
               /\ tasks'[u].pc = "stage" => tasks'[u].result # "none"
    <2>1. tasks[u] \in Task_
          /\ tasks'[u] = IF tasks[u].pc = "stage" /\ tasks[u].result = "none"
                         THEN [tasks[u] EXCEPT !.result = r] ELSE tasks[u]
      BY DEF UnitResult, Types
    <2> QED
      BY ZenonT(30), <2>1 DEF Task_
  <1>2. Owner'
    BY <1>1 DEF Owner, Live
  <1>3. UnitIsOwn'
    BY <1>1 DEF UnitIsOwn
  <1>4. MuHeld'
    BY <1>1 DEF MuHeld
  <1> QED
    BY <1>2, <1>3, <1>4

\* The steps of one goroutine.
LEMMA RunStageInv ==
    ASSUME StageInv, Types', NEW t \in Task, Run(t)
    PROVE  StageInv'
  <1> USE DEF StageInv
  <1>0. ASSUME NEW k, SetTask(t, k)
        PROVE  tasks'[t] = k /\ \A u \in Task \ {t} : tasks'[u] = tasks[u]
    BY <1>0 DEF SetTask, Types
  <1>1. CASE RunSkipped(t) \/ SendDone(t)
    <2>1. tasks'[t] = Gone /\ \A u \in Task \ {t} : tasks'[u] = tasks[u]
      BY <1>0, <1>1 DEF RunSkipped, SendDone
    <2>2. ~Live(tasks[t]) /\ op' = op /\ host' = host
      BY <1>1 DEF RunSkipped, SendDone, Live
    <2>3. Owner'
      BY <2>1, <2>2, Ended DEF Owner
    <2>4. UnitIsOwn' /\ MuHeld'
      BY <2>1, <2>2, Ended DEF UnitIsOwn, MuHeld
    <2> QED
      BY <2>3, <2>4
  <1>2. CASE RunStage(t)
    <2> DEFINE k == [tasks[t] EXCEPT !.pc = "stage"]
    <2>1. tasks'[t] = k /\ \A u \in Task \ {t} : tasks'[u] = tasks[u]
      BY <1>0, <1>2 DEF RunStage
    <2>2. /\ k.pc = "stage" /\ k.image = tasks[t].image /\ k.cancelled = tasks[t].cancelled
          /\ Live(k) /\ Live(tasks[t])
      BY <1>2 DEF RunStage, Types, Task_, Live
    <2> HIDE DEF k
    <2>3. op' = op /\ host'.unit = tasks[t].image
      BY <1>2 DEF RunStage, Types, Host_
    <2>4. \A u \in Task : tasks[u].pc \notin {"stage", "send"}
      BY <1>2 DEF RunStage, runMuFree
    <2>5. Owner'
      BY <2>1, <2>2, <2>3 DEF Owner
    <2>6. UnitIsOwn' /\ MuHeld'
      BY <2>1, <2>2, <2>3, <2>4 DEF UnitIsOwn, MuHeld
    <2> QED
      BY <2>5, <2>6
  <1>3. CASE RunReturns(t)
    <2>1. tasks'[t] = Report(t) /\ \A u \in Task \ {t} : tasks'[u] = tasks[u]
      BY <1>0, <1>3 DEF RunReturns
    <2>2. Report(t).pc = "send" /\ ~Live(Report(t)) /\ tasks[t].pc = "stage"
      BY <1>3 DEF RunReturns, Report, Types, Task_, Live
    <2>3. op.cancel = t
      BY <1>3 DEF RunReturns, Returned, Owner, Live
    <2>4. op'.image = NoImage /\ op'.cancel = NoTask /\ host' = host
      BY <1>3 DEF RunReturns, Types, Op_
    <2>5. Owner'
      BY <2>1, <2>2, <2>3, <2>4, DaemonAssumption DEF Owner
    <2>6. UnitIsOwn' /\ MuHeld'
      BY <2>1, <2>2, <2>4 DEF UnitIsOwn, MuHeld
    <2> QED
      BY <2>5, <2>6
  <1>4. CASE RunCancelled(t)
    <2>1. tasks'[t] = Gone /\ \A u \in Task \ {t} : tasks'[u] = tasks[u]
      BY <1>0, <1>4 DEF RunCancelled
    <2>2. ~Live(tasks[t]) /\ tasks[t].pc = "stage" /\ op' = op
      BY <1>4 DEF RunCancelled, Live
    <2>3. \A u \in Task \ {t} : tasks[u].pc # "stage"
      BY <2>2 DEF MuHeld
    <2>4. Owner'
      BY <2>1, <2>2, Ended DEF Owner
    <2>5. UnitIsOwn' /\ MuHeld'
      BY <2>1, <2>3, Ended DEF UnitIsOwn, MuHeld
    <2> QED
      BY <2>4, <2>5
  <1> QED
    BY <1>1, <1>2, <1>3, <1>4 DEF Run

LEMMA StageInvStep ==
    ASSUME StageInv, Types', [Next]_vars
    PROVE  StageInv'
  <1>1. CASE Stage
    <2>1. PICK t \in Task : tasks[t].pc = "gone" /\ acquire(t)
      BY <1>1, StageTask
    <2>2. UNCHANGED host
      BY <1>1 DEF Stage, Act
    <2> QED
      BY <2>1, <2>2, AcquireStage
  <1>2. CASE UnitSucceeds \/ UnitFails
    <2>1. UNCHANGED op /\ \E r \in {"ok", "failed"} : UnitResult(r)
      BY <1>2 DEF UnitSucceeds, UnitFails
    <2> QED
      BY <2>1, UnitStage
  <1>3. CASE \E t \in Task : Run(t)
    BY <1>3, RunStageInv
  <1>4. CASE DaemonRestarts \/ HostBoots
    <2>1. op' = NoOp /\ \A t \in Task : tasks'[t] = Gone
      BY <1>4 DEF DaemonRestarts, HostBoots, NewDaemon
    <2>2. Owner'
      BY <2>1, Ended, DaemonAssumption DEF Owner, NoOp
    <2>3. UnitIsOwn' /\ MuHeld'
      BY <2>1, Ended DEF UnitIsOwn, MuHeld
    <2> QED
      BY <2>2, <2>3 DEF StageInv
  <1>5. CASE \/ Skip \/ Reconcile \/ ReconcileNoStatus \/ AwaitStage \/ AwaitBooted
             \/ DecideReboot \/ PatchStatus \/ PatchFails \/ Reboot \/ RebootFails
             \/ ChangeDesired \/ Approve \/ SeeBootcNode \/ TimerFires \/ ReceiveDone
             \/ WatcherStarts \/ refreshAndNotify \/ refreshFails \/ WatchBreaks \/ UNCHANGED vars
    <2>1. tasks' = tasks
      BY ZenonT(30), <1>5 DEF Skip, Reconcile, ReconcileNoStatus, AwaitStage, AwaitBooted,
         DecideReboot, Act, PatchStatus, PatchFails, Reboot, RebootFails, ChangeDesired, Approve,
         SeeBootcNode, TimerFires, ReceiveDone, WatcherStarts, refreshAndNotify, refreshFails,
         WatchBreaks, vars
    <2>2. op' \in {op, reset, takeErr}
      BY ZenonT(30), <1>5 DEF Skip, Reconcile, ReconcileNoStatus, AwaitStage, AwaitBooted,
         DecideReboot, Act, PatchStatus, PatchFails, Reboot, RebootFails, ChangeDesired, Approve,
         SeeBootcNode, TimerFires, ReceiveDone, WatcherStarts, refreshAndNotify, refreshFails,
         WatchBreaks, vars
    <2>3. op'.image = op.image /\ op'.cancel = op.cancel
      BY ZenonT(30), <2>2 DEF StageInv, Types, Op_, reset, takeErr
    <2>4. host' = host \/ host' = [host EXCEPT !.stopping = TRUE]
      BY ZenonT(30), <1>5 DEF Skip, Reconcile, ReconcileNoStatus, AwaitStage, AwaitBooted,
         DecideReboot, Act, PatchStatus, PatchFails, Reboot, RebootFails, ChangeDesired, Approve,
         SeeBootcNode, TimerFires, ReceiveDone, WatcherStarts, refreshAndNotify, refreshFails,
         WatchBreaks, vars
    <2>5. host'.unit = host.unit
      BY <2>4 DEF StageInv, Types, Host_
    <2> QED
      BY <2>1, <2>3, <2>5, QuietStage
  <1> QED
    BY ZenonT(30), <1>1, <1>2, <1>3, <1>4, <1>5 DEF Next, Worker, Failure

LEMMA InitStage == Init => StageInv
  <1> SUFFICES ASSUME Init PROVE StageInv
    OBVIOUS
  <1>1. op = NoOp /\ \A t \in Task : tasks[t] = Gone
    BY DEF Init
  <1>2. Owner
    BY <1>1, Ended, DaemonAssumption DEF Owner, NoOp
  <1>3. UnitIsOwn /\ MuHeld
    BY <1>1, Ended DEF UnitIsOwn, MuHeld
  <1> QED
    BY <1>2, <1>3, InitTypes DEF StageInv

LEMMA StageInvariant == Spec => [](StageInv /\ Generations)
  <1>1. Init => StageInv /\ Generations
    BY InitStage, InitTypes
  <1>2. StageInv /\ Generations /\ [Next]_vars => StageInv' /\ Generations'
    BY StageInvStep, TypesStep DEF StageInv
  <1> QED
    BY <1>1, <1>2, PTL DEF Spec

\* stageOp never loses track: it names the one goroutine of run that was not
\* cancelled, and the image that this one stages, however changes of the image,
\* failures and restarts follow each other.
THEOREM StagesAreTracked == Spec => []StageTracked
  <1>1. StageInv => StageTracked
    BY OwnerTracks DEF StageInv
  <1> QED
    BY <1>1, StageInvariant, PTL

\* A stage that was not cancelled waits for its own unit, for any number of
\* goroutines: runMu keeps the others from Executor.Stage, which replaces the unit.
THEOREM UnitsAreOwn == Spec => []UnitIsOwn
  <1>1. StageInv => UnitIsOwn
    BY DEF StageInv
  <1> QED
    BY <1>1, StageInvariant, PTL

-----------------------------------------------------------------------------
(* What the daemon reports.                                                *)

\* bootc status has failed at some time.
StatusFault == "status" \in Faults /\ faults > 0

\* The conditions of a daemon that has nothing to do.
ReportsHealthy == status.idle = "Idle" /\ (status.degraded => StatusFault)

\* A goroutine of stageOp.run will send its event, or a request is queued.
Coming == queue \/ done \/ \E t \in Task : Live(tasks[t]) \/ tasks[t].pc = "send"

\* Generations only grow, and reports are of generations that the daemon has seen.
Ages ==
    /\ status.gen <= seen.gen /\ seen.gen <= spec.gen
    /\ seen.gen = spec.gen => seen = spec
    /\ rec.pc # "idle" => /\ status.gen <= rec.gen /\ rec.gen <= seen.gen
                          /\ rec.gen # seen.gen => queue /\ view = "other"

\* The booted image changes with the daemon: no reading of it is out of date.
Readings ==
    /\ watcher.cached # NoStatus => watcher.cached.booted = host.booted
    /\ rec.pc # "idle" /\ rec.read # NoStatus =>
          /\ rec.read.booted = host.booted
          /\ rec.desired \in Image
          /\ rec.gen = seen.gen => rec.desired = seen.desired
    /\ rec.rebootIssued => host.stopping

\* What a pass has found out, and why another one follows if it is not the last.
PassReport ==
    /\ rec.pc = "classify" =>
          /\ rec.read # NoStatus /\ rec.read.booted # rec.desired
          /\ ~rec.known /\ ~rec.degraded
    /\ rec.pc = "patch" =>
          \/ /\ rec.read = NoStatus /\ queue
             /\ rec.idle = "Idle" /\ rec.degraded /\ StatusFault
          \/ /\ rec.read # NoStatus /\ rec.read.booted = rec.desired
             /\ rec.idle = "Idle" /\ ~rec.degraded /\ (rec.known => ReportsHealthy)
          \/ /\ rec.read # NoStatus /\ rec.read.booted # rec.desired
             /\ rec.idle = "Idle" /\ rec.degraded /\ rec.delay # NoDelay
          \/ /\ rec.read # NoStatus /\ rec.read.booted # rec.desired
             /\ ~rec.degraded /\ ~rec.known
             /\ \/ rec.idle = "Staging" /\ Coming
                \/ rec.idle \in {"Staged", "Rebooting"}

\* A copy that shows a healthy daemon is as good as the status itself, as long as
\* the desired image is booted.
CopyRight == view = "healthy" /\ host.booted = seen.desired => ReportsHealthy

\* Unless a pass is under way or will follow, the status is that of the host.
Reported ==
    rec.pc = "idle" /\ ~rec.rebootIssued /\ ~Coming /\ ~timer =>
        /\ status.booted = host.booted
        /\ host.booted = seen.desired => ReportsHealthy
        /\ host.booted # seen.desired => status.idle = "Staged" /\ ~status.degraded

ReportInv == Ages /\ Readings /\ PassReport /\ CopyRight /\ Reported

LEMMA ReadBooted ==
    ASSUME Types, Readings
    PROVE  GetStatus # NoStatus /\ GetStatus.booted = host.booted
  <1>1. GetStatus \in BootcStatus /\ host \in Host_
    BY ReadTypes DEF Types
  <1>2. GetStatus # NoStatus
    BY <1>1, DaemonAssumption DEF BootcStatus, NoStatus
  <1>3. HostStatus.booted = host.booted
    BY DEF HostStatus
  <1> QED
    BY ZenonT(60), <1>2, <1>3 DEF GetStatus, Readings

LEMMA GenTypes ==
    ASSUME Types
    PROVE  spec.gen \in Int /\ seen.gen \in Int /\ status.gen \in Int /\ rec.gen \in Int
  BY DEF Types, Spec_, Report_, Rec_, Gen

\* A failure of bootc status is not forgotten.
LEMMA HealthKept ==
    ASSUME Types, Types', faults <= faults', UNCHANGED status
    PROVE  /\ StatusFault => StatusFault'
           /\ ReportsHealthy => ReportsHealthy'
  <1>1. faults \in Int /\ faults' \in Int
    BY DEF Types
  <1>2. StatusFault => StatusFault'
    BY <1>1 DEF StatusFault
  <1> QED
    BY <1>2 DEF ReportsHealthy

\* Steps that leave the objects and the pass alone and lose no event.
LEMMA QuietReport ==
    ASSUME ReportInv, Types, Types', UNCHANGED <<spec, seen, status, view, rec>>,
           host'.booted = host.booted, host.stopping => host'.stopping,
           watcher'.cached \in {watcher.cached, HostStatus},
           queue => queue', Coming => Coming', timer => timer' \/ queue', faults <= faults'
    PROVE  ReportInv'
  <1> USE DEF ReportInv
  <1>1. Ages'
    BY ZenonT(60) DEF Ages
  <1>2. Readings'
    <2>1. HostStatus.booted = host.booted
      BY DEF HostStatus
    <2> QED
      BY ZenonT(60), <2>1 DEF Readings
  <1>3. /\ StatusFault => StatusFault'
        /\ ReportsHealthy => ReportsHealthy'
    BY HealthKept
  <1>4. PassReport'
    BY ZenonT(60), <1>3 DEF PassReport
  <1>5. CopyRight'
    BY ZenonT(60), <1>3 DEF CopyRight
  <1>6. Reported'
    <2>1. queue' => Coming'
      BY DEF Coming
    <2> QED
      BY ZenonT(60), <1>3, <2>1 DEF Reported
  <1> QED
    BY <1>1, <1>2, <1>4, <1>5, <1>6

\* The goroutines, the unit, the watcher and the timer.
LEMMA BackgroundReport ==
    ASSUME ReportInv, Types, Types',
           \/ TimerFires \/ ReceiveDone \/ WatcherStarts \/ refreshAndNotify \/ refreshFails
           \/ WatchBreaks \/ UnitSucceeds \/ UnitFails \/ (\E t \in Task : Run(t))
           \/ UNCHANGED vars
    PROVE  ReportInv'
  <1>1. UNCHANGED <<spec, seen, status, view, rec>>
    BY ZenonT(60) DEF TimerFires, ReceiveDone, WatcherStarts, refreshAndNotify, refreshFails,
       WatchBreaks, UnitSucceeds, UnitFails, Run, RunSkipped, RunStage, RunReturns, RunCancelled,
       SendDone, vars
  <1>2. faults <= faults'
    <2>1. faults' = faults \/ faults' = faults + 1
      BY ZenonT(60) DEF TimerFires, ReceiveDone, WatcherStarts, refreshAndNotify, refreshFails,
         WatchBreaks, UnitSucceeds, UnitFails, Run, RunSkipped, RunStage, RunReturns, RunCancelled,
         SendDone, vars, Fault
    <2> QED
      BY <2>1 DEF Types
  <1>3. host'.booted = host.booted /\ (host.stopping => host'.stopping)
    <2>1. host' = host \/ \E s, u \in Image \cup {NoImage} :
                              host' = [host EXCEPT !.staged = s, !.unit = u]
      <3>1. CASE UnitSucceeds \/ UnitFails
        <4>1. host.staged \in Image \cup {NoImage} /\ host.unit \in Image \cup {NoImage}
          BY DEF Types, Host_
        <4>2. host = [host EXCEPT !.staged = host.staged]
          BY ZenonT(60) DEF Types, Host_
        <4> QED
          BY ZenonT(60), <3>1, <4>1, <4>2 DEF UnitSucceeds, UnitFails, Types, Host_
      <3>2. CASE \E t \in Task : Run(t)
        <4>1. host' = host \/ \E u : host' = [host EXCEPT !.unit = u]
          BY ZenonT(60), <3>2 DEF Run, RunSkipped, RunStage, RunReturns, RunCancelled, SendDone
        <4> QED
          BY ZenonT(60), <4>1 DEF Types, Host_
      <3> QED
        BY ZenonT(60), <3>1, <3>2 DEF TimerFires, ReceiveDone, WatcherStarts, refreshAndNotify,
           refreshFails, WatchBreaks, vars
    <2> QED
      BY ZenonT(60), <2>1 DEF Types, Host_
  <1>4. watcher'.cached \in {watcher.cached, HostStatus}
    BY ZenonT(60) DEF TimerFires, ReceiveDone, WatcherStarts, refreshAndNotify, refreshFails,
       WatchBreaks, DegradeToPolling, UnitSucceeds, UnitFails, Run, RunSkipped, RunStage,
       RunReturns, RunCancelled, SendDone, vars, Types, Watcher_
  <1>5. (queue => queue') /\ (timer => timer' \/ queue')
    BY ZenonT(60) DEF TimerFires, ReceiveDone, WatcherStarts, refreshAndNotify, refreshFails,
       WatchBreaks, UnitSucceeds, UnitFails, Run, RunSkipped, RunStage, RunReturns, RunCancelled,
       SendDone, vars, Types
  <1>6. Coming => Coming'
    <2>1. CASE UNCHANGED <<done, tasks>>
      BY ZenonT(60), <1>5, <2>1 DEF Coming
    <2>2. CASE ReceiveDone
      BY <2>2 DEF ReceiveDone, Coming
    <2>3. CASE UnitSucceeds \/ UnitFails
      <3>1. done' = done /\ \E r \in {"ok", "failed"} : UnitResult(r)
        BY <2>3 DEF UnitSucceeds, UnitFails
      <3>2. ASSUME NEW u \in Task
            PROVE  tasks'[u].pc = tasks[u].pc /\ tasks'[u].cancelled = tasks[u].cancelled
        <4>1. PICK r \in {"ok", "failed"} : UnitResult(r)
          BY <3>1
        <4>2. tasks[u] \in Task_ /\ tasks'[u] \in {tasks[u], [tasks[u] EXCEPT !.result = r]}
          BY <4>1 DEF UnitResult, Types
        <4> QED
          BY ZenonT(60), <4>2 DEF Task_
      <3> QED
        BY ZenonT(60), <1>5, <3>1, <3>2 DEF Coming, Live
    <2>4. ASSUME NEW t \in Task, Run(t), Coming PROVE Coming'
      <3>0. queue' = queue
        BY ZenonT(60), <2>4 DEF Run, RunSkipped, RunStage, RunReturns, RunCancelled, SendDone
      <3>1. \A u \in Task \ {t} : tasks'[u] = tasks[u]
        BY ZenonT(60), <2>4 DEF Run, RunSkipped, RunStage, RunReturns, RunCancelled, SendDone, SetTask, Types
      <3>2. CASE RunSkipped(t) \/ RunCancelled(t)
        <4>1. ~Live(tasks[t]) /\ tasks[t].pc # "send" /\ done' = done
          BY <3>2 DEF RunSkipped, RunCancelled, Live
        <4> QED
          BY ZenonT(60), <2>4, <3>0, <3>1, <4>1 DEF Coming
      <3>3. CASE RunStage(t)
        <4>1. tasks'[t] = [tasks[t] EXCEPT !.pc = "stage"] /\ ~tasks[t].cancelled
              /\ tasks[t] \in Task_
          BY <3>3 DEF RunStage, SetTask, Types
        <4>2. Live(tasks'[t])
          BY ZenonT(60), <4>1 DEF Live, Task_
        <4> QED
          BY <4>2 DEF Coming
      <3>4. CASE RunReturns(t)
        <4>1. tasks'[t] = Report(t) /\ tasks[t] \in Task_
          BY <3>4 DEF RunReturns, SetTask, Types
        <4>2. tasks'[t].pc = "send"
          BY <4>1 DEF Report, Task_
        <4> QED
          BY <4>2 DEF Coming
      <3>5. CASE SendDone(t)
        BY <3>5 DEF SendDone, Coming
      <3> QED
        BY <2>4, <3>2, <3>3, <3>4, <3>5 DEF Run
    <2> QED
      BY ZenonT(60), <2>1, <2>2, <2>3, <2>4 DEF TimerFires, WatcherStarts, refreshAndNotify,
         refreshFails, WatchBreaks, vars
  <1> QED
    BY ZenonT(60), <1>1, <1>2, <1>3, <1>4, <1>5, <1>6, QuietReport

\* A copy of a status that is older than the BootcNode's spec shows nothing.
LEMMA OldShown == status.gen # spec.gen => Shown = "other"
  BY DEF Shown

LEMMA HealthyShown == Shown = "healthy" => ReportsHealthy
  BY DEF Shown, Shown_anyGeneration, ReportsHealthy

\* The controller writes the spec, and the informer brings it.
LEMMA ObjectReport ==
    ASSUME ReportInv, Types, Types', ChangeDesired \/ Approve \/ SeeBootcNode
    PROVE  ReportInv'
  <1> USE DEF ReportInv
  <1>0. UNCHANGED <<status, host, watcher, op, tasks, done, timer, rec, faults>>
    BY DEF ChangeDesired, Approve, SeeBootcNode
  <1>1. (StatusFault' <=> StatusFault) /\ (ReportsHealthy' <=> ReportsHealthy)
    BY ZenonT(60), <1>0 DEF StatusFault, ReportsHealthy
  <1>2. CASE ChangeDesired \/ Approve
    <2>1. UNCHANGED <<seen, view, queue>>
      BY <1>2 DEF ChangeDesired, Approve
    <2>2. Coming' <=> Coming
      BY ZenonT(60), <1>0, <2>1 DEF Coming
    <2>3. spec'.gen = spec.gen + 1
      <3>1. CASE ChangeDesired
        BY <3>1 DEF ChangeDesired
      <3>2. CASE Approve
        BY <3>2 DEF Approve, Types, Spec_
      <3> QED
        BY <1>2, <3>1, <3>2
    <2>4. seen.gen <= spec'.gen /\ seen.gen # spec'.gen
      BY <2>3, GenTypes DEF Ages
    <2>5. Ages'
      BY ZenonT(60), <1>0, <2>1, <2>4 DEF Ages
    <2>6. Readings' /\ PassReport'
      BY ZenonT(60), <1>0, <1>1, <2>1, <2>2 DEF Readings, PassReport
    <2>7. CopyRight' /\ Reported'
      BY ZenonT(60), <1>0, <1>1, <2>1, <2>2 DEF CopyRight, Reported
    <2> QED
      BY <2>5, <2>6, <2>7
  <1>3. CASE SeeBootcNode
    <2>1. /\ seen' = spec /\ view' = Shown /\ spec' = spec
          /\ queue => queue'
          /\ seen # spec => queue'
      BY ZenonT(60), <1>3 DEF SeeBootcNode, Types
    <2>2. Coming => Coming'
      BY ZenonT(60), <1>0, <2>1 DEF Coming
    <2>3. Ages'
      <3>1. /\ status.gen <= spec.gen /\ spec.gen <= spec.gen
            /\ rec.pc # "idle" => rec.gen <= spec.gen
        BY GenTypes DEF Ages
      <3>2. ASSUME rec.pc # "idle", rec.gen # spec.gen PROVE queue' /\ Shown = "other"
        <4>1. queue'
          <5>1. CASE seen = spec
            BY ZenonT(60), <2>1, <3>2, <5>1 DEF Ages
          <5> QED
            BY <2>1, <5>1
        <4>2. status.gen # spec.gen
          BY <3>1, <3>2, GenTypes DEF Ages
        <4> QED
          BY <4>1, <4>2, OldShown
      <3> QED
        BY ZenonT(60), <1>0, <2>1, <3>1, <3>2 DEF Ages
    <2>4. Readings'
      <3>1. ASSUME rec.pc # "idle", rec.read # NoStatus, rec.gen = spec.gen
            PROVE  rec.desired = spec.desired
        <4>1. seen = spec
          BY <3>1, GenTypes DEF Ages
        <4> QED
          BY <3>1, <4>1 DEF Readings
      <3> QED
        BY ZenonT(60), <1>0, <2>1, <3>1 DEF Readings
    <2>5. PassReport'
      BY ZenonT(60), <1>0, <1>1, <2>1, <2>2 DEF PassReport
    <2>6. CopyRight'
      BY ZenonT(60), <1>1, <2>1, HealthyShown DEF CopyRight
    <2>7. Reported'
      <3>1. queue' => Coming'
        BY DEF Coming
      <3> QED
        BY ZenonT(60), <1>0, <1>1, <2>1, <2>2, <3>1 DEF Reported
    <2> QED
      BY <2>3, <2>4, <2>5, <2>6, <2>7
  <1> QED
    BY <1>2, <1>3

\* A new daemon starts from the objects as they are.
LEMMA RestartReport ==
    ASSUME ReportInv, Types, Types', DaemonRestarts \/ HostBoots
    PROVE  ReportInv'
  <1> USE DEF ReportInv
  <1>1. /\ seen' = spec /\ view' = Shown /\ watcher'.cached = NoStatus /\ queue'
        /\ rec'.pc = "idle" /\ ~rec'.rebootIssued
        /\ UNCHANGED <<spec, status>>
    BY DEF DaemonRestarts, HostBoots, NewDaemon, NoWatcher, NoRec
  <1>2. faults <= faults'
    BY DEF DaemonRestarts, HostBoots, Fault, Types
  <1>3. ReportsHealthy => ReportsHealthy'
    BY <1>1, <1>2, HealthKept
  <1>4. Ages'
    <2>1. status.gen <= spec.gen
      BY GenTypes DEF Ages
    <2>2. spec.gen <= spec.gen
      BY GenTypes
    <2> QED
      BY ZenonT(60), <1>1, <2>1, <2>2 DEF Ages
  <1>5. Readings' /\ PassReport'
    BY ZenonT(60), <1>1 DEF Readings, PassReport
  <1>6. CopyRight'
    BY ZenonT(60), <1>1, <1>3, HealthyShown DEF CopyRight
  <1>7. Reported'
    BY <1>1 DEF Reported, Coming
  <1> QED
    BY <1>4, <1>5, <1>6, <1>7

\* The beginning of a pass.
LEMMA ReconcileReport ==
    ASSUME ReportInv, Types, Types', Skip \/ Reconcile \/ ReconcileNoStatus
    PROVE  ReportInv'
  <1> USE DEF ReportInv
  <1>0. UNCHANGED <<spec, seen, status, view, host, tasks, done, timer>>
    BY ZenonT(60) DEF Skip, Reconcile, ReconcileNoStatus
  <1>1. faults <= faults'
    <2>1. faults' = faults \/ faults' = faults + 1
      BY ZenonT(60) DEF Skip, Reconcile, ReconcileNoStatus, Fault
    <2> QED
      BY <2>1 DEF Types
  <1>2. /\ StatusFault => StatusFault'
        /\ ReportsHealthy => ReportsHealthy'
    BY <1>0, <1>1, HealthKept
  <1>3. CopyRight'
    BY ZenonT(60), <1>0, <1>2 DEF CopyRight
  <1>4. CASE Skip
    <2>1. rec' = rec /\ rec.pc = "idle" /\ rec.rebootIssued /\ watcher' = watcher
      BY <1>4 DEF Skip
    <2>2. Ages' /\ Readings' /\ PassReport' /\ Reported'
      BY ZenonT(60), <1>0, <2>1 DEF Ages, Readings, PassReport, Reported
    <2> QED
      BY <1>3, <2>2
  <1>5. CASE Reconcile
    <2> DEFINE r == [NoRec EXCEPT !.desired = seen.desired, !.state = seen.state,
                                  !.gen = seen.gen, !.read = GetStatus]
    <2>1. GetStatus # NoStatus /\ GetStatus.booted = host.booted /\ seen.desired \in Image
      BY ReadBooted DEF Types, Spec_
    <2>2. /\ r.desired = seen.desired /\ r.gen = seen.gen /\ r.read = GetStatus
          /\ r.idle = "Idle" /\ ~r.known /\ ~r.degraded /\ ~r.rebootIssued /\ r \in Rec_
      <3>1. r \in Rec_
        BY ZenonT(60), Constants, ReadTypes DEF Types, Rec_, Spec_, Gen
      <3> QED
        BY <3>1 DEF NoRec
    <2>3. \/ /\ GetStatus.booted = seen.desired
             /\ rec' = [r EXCEPT !.pc = "patch", !.known = (view = "healthy")]
          \/ /\ GetStatus.booted # seen.desired
             /\ \E same \in BOOLEAN :
                   rec' = [r EXCEPT !.pc = "patch", !.degraded = TRUE,
                                    !.known = same /\ view = "degraded", !.delay = backoff]
          \/ /\ GetStatus.booted # seen.desired
             /\ rec' = [r EXCEPT !.pc = "classify"]
      BY ZenonT(60), <1>5 DEF Reconcile
    <2>4. backoff # NoDelay
      BY DEF backoff, takeErr, NoDelay, Types, Op_
    <2> HIDE DEF r
    <2>5. /\ rec'.desired = seen.desired /\ rec'.gen = seen.gen /\ rec'.read = GetStatus
          /\ rec'.idle = "Idle" /\ ~rec'.rebootIssued /\ rec'.pc \in {"patch", "classify"}
          /\ rec'.pc = "classify" =>
                ~rec'.known /\ ~rec'.degraded /\ GetStatus.booted # seen.desired
          /\ rec'.pc = "patch" =>
                \/ GetStatus.booted = seen.desired /\ ~rec'.degraded
                   /\ (rec'.known => view = "healthy")
                \/ GetStatus.booted # seen.desired /\ rec'.degraded /\ rec'.delay # NoDelay
      <3>1. CASE rec' = [r EXCEPT !.pc = "patch", !.known = (view = "healthy")]
                 /\ GetStatus.booted = seen.desired
        BY ZenonT(60), <2>2, <3>1 DEF Rec_
      <3>2. ASSUME NEW same \in BOOLEAN,
                   rec' = [r EXCEPT !.pc = "patch", !.degraded = TRUE,
                                    !.known = same /\ view = "degraded", !.delay = backoff],
                   GetStatus.booted # seen.desired
            PROVE  /\ rec'.desired = seen.desired /\ rec'.gen = seen.gen /\ rec'.read = GetStatus
                   /\ rec'.idle = "Idle" /\ ~rec'.rebootIssued /\ rec'.pc = "patch"
                   /\ rec'.degraded /\ rec'.delay # NoDelay
        BY ZenonT(60), <2>2, <2>4, <3>2 DEF Rec_
      <3>3. CASE rec' = [r EXCEPT !.pc = "classify"] /\ GetStatus.booted # seen.desired
        BY ZenonT(60), <2>2, <3>3 DEF Rec_
      <3> QED
        BY ZenonT(60), <2>3, <3>1, <3>2, <3>3
    <2>6. Ages'
      <3>1. seen.gen <= seen.gen
        BY GenTypes
      <3> QED
        BY ZenonT(60), <1>0, <2>5, <3>1 DEF Ages
    <2>7. Readings'
      <3>1. watcher'.cached = GetStatus
        BY ZenonT(60), <1>5 DEF Reconcile, Types, Watcher_
      <3> QED
        BY ZenonT(60), <1>0, <2>1, <2>5, <3>1 DEF Readings
    <2>8. PassReport'
      BY ZenonT(60), <1>2, <2>1, <2>5 DEF PassReport, CopyRight
    <2>9. Reported'
      BY ZenonT(60), <2>5 DEF Reported
    <2> QED
      BY <1>3, <2>6, <2>7, <2>8, <2>9
  <1>6. CASE ReconcileNoStatus
    <2>1. queue' /\ watcher' = watcher
      BY ZenonT(60), <1>6 DEF ReconcileNoStatus
    <2>2. /\ rec'.pc = "patch" /\ rec'.gen = seen.gen /\ rec'.read = NoStatus
          /\ rec'.idle = "Idle" /\ rec'.degraded /\ ~rec'.rebootIssued
      <3>1. PICK k \in BOOLEAN : rec' = [NoRec EXCEPT !.pc = "patch", !.gen = seen.gen,
                                                     !.degraded = TRUE, !.known = k]
        BY ZenonT(60), <1>6 DEF ReconcileNoStatus
      <3> QED
        BY <3>1 DEF NoRec
    <2>3. StatusFault'
      <3>1. "status" \in Faults /\ faults' = faults + 1
        BY ZenonT(60), <1>6 DEF ReconcileNoStatus, Fault
      <3>2. faults' > 0
        BY <3>1 DEF Types
      <3> QED
        BY <3>1, <3>2 DEF StatusFault
    <2>4. Ages'
      <3>1. seen.gen <= seen.gen
        BY GenTypes
      <3> QED
        BY ZenonT(60), <1>0, <2>2, <3>1 DEF Ages
    <2>5. Readings' /\ PassReport' /\ Reported'
      BY ZenonT(60), <1>0, <2>1, <2>2, <2>3 DEF Readings, PassReport, Reported
    <2> QED
      BY <1>3, <2>4, <2>5
  <1> QED
    BY <1>4, <1>5, <1>6

\* classifyAction and the action that it chose.
LEMMA ActReport ==
    ASSUME ReportInv, StageInv, Types', Stage \/ AwaitStage \/ AwaitBooted \/ DecideReboot
    PROVE  ReportInv'
  <1> USE DEF ReportInv
  <1>0. Types
    BY DEF StageInv
  <1>1. UNCHANGED <<spec, seen, status, view, host, watcher, done, queue, timer, faults>>
    BY DEF Stage, AwaitStage, AwaitBooted, DecideReboot, Act
  <1>2. rec.pc = "classify" /\ rec \in Rec_
    BY <1>0 DEF Stage, AwaitStage, AwaitBooted, DecideReboot, Types
  <1>3. PICK i \in {"Staging", "Staged", "Rebooting"} :
            /\ rec' = [rec EXCEPT !.pc = "patch", !.idle = i]
            /\ i = "Staging" => Stage \/ AwaitStage
    BY ZenonT(60) DEF Stage, AwaitStage, AwaitBooted, DecideReboot, Act
  <1>4. /\ rec'.pc = "patch" /\ rec'.idle = i /\ rec'.read = rec.read /\ rec'.gen = rec.gen
        /\ rec'.desired = rec.desired /\ rec'.known = rec.known /\ rec'.degraded = rec.degraded
        /\ rec'.rebootIssued = rec.rebootIssued
    BY ZenonT(60), <1>2, <1>3 DEF Rec_
  <1>5. i = "Staging" => Coming'
    <2>1. ASSUME Stage PROVE Coming'
      <3>1. PICK t \in Task : acquire(t)
        BY <2>1, StageTask
      <3>2. tasks'[t] = [Gone EXCEPT !.pc = "wait", !.image = rec.desired]
        BY <3>1 DEF acquire
      <3>3. Live(tasks'[t])
        BY <3>2 DEF Live, Gone
      <3> QED
        BY <3>3 DEF Coming
    <2>2. ASSUME AwaitStage PROVE Coming'
      <3>1. op.image = rec.desired /\ rec.desired \in Image /\ tasks' = tasks
        BY <1>2, <2>2 DEF AwaitStage, isInFlight, PassReport, Readings
      <3>2. op.cancel \in Task
        BY <1>0, <3>1, DaemonAssumption DEF StageInv, Owner, Types, Op_
      <3>3. Live(tasks'[op.cancel])
        BY <3>1, <3>2 DEF StageInv, Owner
      <3> QED
        BY <3>2, <3>3 DEF Coming
    <2> QED
      BY <1>3, <2>1, <2>2
  <1>6. Ages'
    BY ZenonT(60), <1>1, <1>2, <1>4 DEF Ages
  <1>7. Readings'
    BY ZenonT(60), <1>1, <1>2, <1>4 DEF Readings
  <1>8. PassReport'
    BY ZenonT(60), <1>1, <1>2, <1>4, <1>5 DEF PassReport
  <1>9. CopyRight'
    BY ZenonT(60), <1>1 DEF CopyRight, ReportsHealthy, StatusFault
  <1>10. Reported'
    BY <1>4 DEF Reported
  <1> QED
    BY <1>6, <1>7, <1>8, <1>9, <1>10

\* The end of a pass: the patch, the reboot and their failures.
LEMMA EndReport ==
    ASSUME ReportInv, Types, Types', PatchFails \/ Reboot \/ RebootFails
    PROVE  ReportInv'
  <1> USE DEF ReportInv
  <1>0. UNCHANGED <<spec, seen, status, view, watcher>>
    BY DEF PatchFails, Reboot, RebootFails
  <1>1. faults <= faults'
    <2>1. faults' = faults \/ faults' = faults + 1
      BY ZenonT(60) DEF PatchFails, Reboot, RebootFails, Fault
    <2> QED
      BY <2>1 DEF Types
  <1>2. ReportsHealthy => ReportsHealthy'
    BY <1>0, <1>1, HealthKept
  <1>3. /\ rec'.pc = "idle" /\ host'.booted = host.booted
        /\ (rec'.rebootIssued => host'.stopping) /\ (rec'.rebootIssued \/ queue')
    <2>1. CASE PatchFails \/ RebootFails
      <3>1. rec' = NoRec /\ queue' /\ host' = host
        BY <2>1 DEF PatchFails, RebootFails
      <3> QED
        BY <3>1 DEF NoRec
    <2>2. CASE Reboot
      <3>1. rec'.pc = "idle" /\ rec'.rebootIssued
        BY <2>2 DEF Reboot, NoRec
      <3>2. host'.booted = host.booted /\ host'.stopping
        BY ZenonT(60), <2>2 DEF Reboot, Types, Host_
      <3> QED
        BY <3>1, <3>2
    <2> QED
      BY <2>1, <2>2
  <1>5. Ages' /\ Readings' /\ PassReport'
    BY ZenonT(60), <1>0, <1>3 DEF Ages, Readings, PassReport
  <1>6. CopyRight'
    BY ZenonT(60), <1>0, <1>2, <1>3 DEF CopyRight
  <1>7. Reported'
    BY ZenonT(60), <1>3 DEF Reported, Coming
  <1> QED
    BY <1>5, <1>6, <1>7

LEMMA PatchReport ==
    ASSUME ReportInv, Types, Types', PatchStatus
    PROVE  ReportInv'
  <1> USE DEF ReportInv
  <1>0. UNCHANGED <<spec, seen, view, host, watcher, tasks, done, queue, faults>>
    BY DEF PatchStatus
  <1>1. rec.pc = "patch" /\ (StatusFault' <=> StatusFault) /\ (Coming' <=> Coming)
    <2>1. rec.pc = "patch"
      BY DEF PatchStatus
    <2>2. StatusFault' <=> StatusFault
      BY <1>0 DEF StatusFault
    <2>3. Coming' <=> Coming
      BY <1>0 DEF Coming
    <2> QED
      BY <2>1, <2>2, <2>3
  <1> DEFINE b == IF rec.read = NoStatus THEN status.booted ELSE rec.read.booted
  <1>2. /\ ~rec.known => /\ status'.booted = b /\ status'.idle = rec.idle
                         /\ status'.degraded = rec.degraded /\ status'.gen = rec.gen
        /\ rec.known => /\ status'.booted = b /\ status'.idle = status.idle
                        /\ status'.degraded = status.degraded /\ status'.gen = status.gen
    <2>1. status' = IF rec.known THEN [status EXCEPT !.booted = b]
                    ELSE [booted |-> b, idle |-> rec.idle, degraded |-> rec.degraded,
                          gen |-> rec.gen]
      BY DEF PatchStatus
    <2> HIDE DEF b
    <2> QED
      BY ZenonT(60), <2>1 DEF Types, Report_
  <1>3. /\ rec.idle = "Rebooting" => rec' = [rec EXCEPT !.pc = "reboot"]
        /\ rec.idle # "Rebooting" => rec'.pc = "idle" /\ ~rec'.rebootIssued
        /\ rec.delay # NoDelay => timer'
    BY ZenonT(60) DEF PatchStatus, NoRec, Types
  <1>4. rec'.pc # "idle" =>
            /\ rec.idle = "Rebooting" /\ rec'.pc = "reboot"
            /\ rec'.gen = rec.gen /\ rec'.read = rec.read /\ rec'.desired = rec.desired
    BY ZenonT(60), <1>3 DEF Types, Rec_
  <1>5. Ages'
    <2>1. status'.gen <= rec.gen /\ status'.gen <= seen.gen /\ rec.gen <= seen.gen
      <3>1. status'.gen \in {status.gen, rec.gen}
        BY <1>2
      <3> QED
        BY <1>1, <3>1, GenTypes DEF Ages
    <2> QED
      BY ZenonT(60), <1>0, <1>1, <1>4, <2>1 DEF Ages
  <1>6. Readings'
    <2>1. rec'.rebootIssued => host'.stopping
      <3>1. rec'.rebootIssued => rec.rebootIssued
        BY ZenonT(60), <1>3 DEF Types, Rec_
      <3> QED
        BY <1>0, <3>1 DEF Readings
    <2> QED
      BY ZenonT(60), <1>0, <1>1, <1>4, <2>1 DEF Readings
  <1>7. PassReport'
    BY ZenonT(60), <1>4 DEF PassReport
  <1>8. ASSUME host.booted = seen.desired, view = "healthy" \/ ~queue PROVE ReportsHealthy'
    <2>1. rec.gen = seen.gen
      BY ZenonT(60), <1>1, <1>8 DEF Ages
    <2> QED
      BY ZenonT(60), <1>1, <1>2, <1>8, <2>1 DEF PassReport, Readings, ReportsHealthy, CopyRight
  <1>9. CopyRight'
    BY ZenonT(60), <1>0, <1>8 DEF CopyRight
  <1>10. Reported'
    <2> SUFFICES ASSUME rec'.pc = "idle", ~Coming, ~timer'
                 PROVE  /\ status'.booted = host.booted
                        /\ host.booted = seen.desired => ReportsHealthy'
                        /\ host.booted # seen.desired =>
                              status'.idle = "Staged" /\ ~status'.degraded
      BY ZenonT(60), <1>0, <1>1 DEF Reported
    <2>1. ~queue /\ rec.gen = seen.gen /\ rec.delay = NoDelay /\ rec.read # NoStatus
      BY ZenonT(60), <1>1, <1>3 DEF Coming, Ages, PassReport
    <2>2. rec.read.booted = host.booted /\ rec.desired = seen.desired
      BY ZenonT(60), <1>1, <2>1 DEF Readings
    <2>3. rec.idle # "Rebooting"
      BY ZenonT(60), <1>3 DEF Types, Rec_
    <2>4. host.booted # seen.desired => ~rec.degraded /\ ~rec.known /\ rec.idle = "Staged"
      BY ZenonT(60), <1>1, <2>1, <2>2, <2>3 DEF PassReport
    <2> QED
      BY ZenonT(60), <1>2, <1>8, <2>1, <2>2, <2>4
  <1> QED
    BY <1>5, <1>6, <1>7, <1>9, <1>10

LEMMA InitReport == Init => ReportInv
  <1> SUFFICES ASSUME Init PROVE ReportInv
    OBVIOUS
  <1>1. /\ rec.pc = "idle" /\ ~rec.rebootIssued /\ watcher.cached = NoStatus /\ queue
        /\ status.idle = "Idle" /\ ~status.degraded
        /\ status.gen = 0 /\ seen.gen = 0 /\ spec.gen = 0 /\ seen = spec
    BY DEF Init, NoRec, NoWatcher
  <1>2. Ages
    BY <1>1 DEF Ages
  <1>3. Readings /\ PassReport
    BY ZenonT(60), <1>1 DEF Readings, PassReport
  <1>4. CopyRight /\ Reported
    BY ZenonT(60), <1>1 DEF CopyRight, ReportsHealthy, Reported, Coming
  <1> QED
    BY <1>2, <1>3, <1>4 DEF ReportInv

LEMMA ReportStep ==
    ASSUME ReportInv, StageInv, Types', [Next]_vars
    PROVE  ReportInv'
  <1>0. Types
    BY DEF StageInv
  <1>1. CASE Stage \/ AwaitStage \/ AwaitBooted \/ DecideReboot
    BY <1>1, ActReport
  <1>2. CASE Skip \/ Reconcile \/ ReconcileNoStatus
    BY <1>0, <1>2, ReconcileReport
  <1>3. CASE PatchStatus
    BY <1>0, <1>3, PatchReport
  <1>4. CASE PatchFails \/ Reboot \/ RebootFails
    BY <1>0, <1>4, EndReport
  <1>5. CASE ChangeDesired \/ Approve \/ SeeBootcNode
    BY <1>0, <1>5, ObjectReport
  <1>6. CASE DaemonRestarts \/ HostBoots
    BY <1>0, <1>6, RestartReport
  <1>7. CASE \/ TimerFires \/ ReceiveDone \/ WatcherStarts \/ refreshAndNotify \/ refreshFails
             \/ WatchBreaks \/ UnitSucceeds \/ UnitFails \/ (\E t \in Task : Run(t))
             \/ UNCHANGED vars
    BY <1>0, <1>7, BackgroundReport
  <1> QED
    BY ZenonT(60), <1>1, <1>2, <1>3, <1>4, <1>5, <1>6, <1>7 DEF Next, Worker, Failure

\* Whenever the daemon has come to rest, the status it reported is that of its host,
\* for any images, changes, faults and restarts: no pass compares with a copy that
\* hides a difference, and each that reports something passing is followed by another.
THEOREM ReportsAreRight == Spec => []ReportRight
  <1>1. Init => StageInv /\ Generations /\ ReportInv
    BY InitStage, InitTypes, InitReport
  <1>2. StageInv /\ Generations /\ ReportInv /\ [Next]_vars
           => StageInv' /\ Generations' /\ ReportInv'
    BY StageInvStep, TypesStep, ReportStep DEF StageInv
  <1>3. StageInv /\ ReportInv => ReportRight
    <2> SUFFICES ASSUME StageInv, ReportInv, Rest PROVE ReportRight
      BY DEF ReportRight
    <2>1. /\ rec.pc = "idle" /\ ~timer /\ seen = spec /\ ~host.stopping
          /\ ~queue /\ ~done /\ \A t \in Task : tasks[t].pc = "gone"
      BY DEF Rest
    <2>2. ~Coming
      BY <2>1 DEF Coming, Live
    <2>3. ~rec.rebootIssued
      BY <2>1 DEF ReportInv, Readings
    <2> QED
      BY ZenonT(60), <2>1, <2>2, <2>3
         DEF ReportInv, Reported, ReportsHealthy, StatusFault, ReportRight
  <1> QED
    BY <1>1, <1>2, <1>3, PTL DEF Spec

-----------------------------------------------------------------------------
(* The image that a reboot boots, when no image is desired again.          *)

AtMost(i, j) == i # NoImage => i <= j

\* No image is desired, staged or being staged that is newer than the daemon knows,
\* and a pass knows all there are.
Newest ==
    /\ seen.desired <= spec.desired
    /\ AtMost(rec.desired, seen.desired)
    /\ AtMost(host.staged, seen.desired) /\ AtMost(host.unit, seen.desired)
    /\ \A t \in Task : AtMost(tasks[t].image, seen.desired)
    /\ rec.desired # NoImage =>
          /\ AtMost(host.staged, rec.desired) /\ AtMost(host.unit, rec.desired)
          /\ \A t \in Task : AtMost(tasks[t].image, rec.desired)

\* What is staged is never replaced by something older, and no reading of it is
\* ahead of the host.
Forward ==
    /\ host.unit # NoImage => AtMost(host.staged, host.unit)
    /\ \A t \in Task : Live(tasks[t]) =>
          /\ tasks[t].image \in Image
          /\ AtMost(host.staged, tasks[t].image) /\ AtMost(host.unit, tasks[t].image)
    /\ watcher.cached.staged # NoImage =>
          host.staged # NoImage /\ watcher.cached.staged <= host.staged
    /\ rec.read.staged # NoImage =>
          host.staged # NoImage /\ rec.read.staged <= host.staged

\* A pass that reboots has found the desired image staged, and it still is when the
\* host goes down.
RebootsRight ==
    /\ rec.pc = "classify" => rec.idle = "Idle"
    /\ rec.pc # "idle" /\ rec.idle = "Rebooting" =>
          rec.desired \in Image /\ rec.read.staged = rec.desired
    /\ rec.pc = "reboot" => rec.idle = "Rebooting"
    /\ host.stopping => /\ rec.rebootIssued /\ rec.pc = "idle"
                        /\ rec.desired \in Image /\ host.staged = rec.desired

BootInv == Newest /\ Forward /\ RebootsRight

LEMMA ImageOrder ==
    /\ \A i, j, k \in Image : i <= j /\ j <= k => i <= k
    /\ \A i, j \in Image : i <= j /\ j <= i => i = j
    /\ \A i \in Image : i <= i /\ i # NoImage
  BY DaemonAssumption DEF Image

LEMMA FieldTypes ==
    ASSUME Types
    PROVE  /\ spec.desired \in Image /\ seen.desired \in Image
           /\ rec.desired \in Image \cup {NoImage}
           /\ host.staged \in Image \cup {NoImage} /\ host.unit \in Image \cup {NoImage}
           /\ \A t \in Task : tasks[t].image \in Image \cup {NoImage}
           /\ watcher.cached.staged \in Image \cup {NoImage}
           /\ rec.read.staged \in Image \cup {NoImage}
  <1>1. NoStatus.staged = NoImage
    BY DEF NoStatus
  <1>2. /\ spec \in Spec_ /\ seen \in Spec_ /\ rec \in Rec_ /\ host \in Host_
        /\ watcher \in Watcher_ /\ tasks \in [Task -> Task_]
    BY DEF Types
  <1>3. /\ spec.desired \in Image /\ seen.desired \in Image
        /\ rec.desired \in Image \cup {NoImage}
        /\ host.staged \in Image \cup {NoImage} /\ host.unit \in Image \cup {NoImage}
    BY <1>2 DEF Spec_, Rec_, Host_
  <1>4. ASSUME NEW t \in Task PROVE tasks[t].image \in Image \cup {NoImage}
    BY <1>2 DEF Task_
  <1>5. watcher.cached \in BootcStatus \cup {NoStatus} /\ rec.read \in BootcStatus \cup {NoStatus}
    BY <1>2 DEF Watcher_, Rec_
  <1> QED
    BY <1>1, <1>3, <1>4, <1>5 DEF BootcStatus

\* The steps that concern neither what is staged nor what a pass has read.
LEMMA QuietBoot ==
    ASSUME BootInv, UNCHANGED <<spec, seen, rec, tasks, host>>,
           watcher'.cached.staged \in {watcher.cached.staged, host.staged},
           Types
    PROVE  BootInv'
  <1> USE DEF BootInv
  <1>1. Newest'
    BY ZenonT(60) DEF Newest
  <1>2. Forward'
    <2>1. host.staged # NoImage => host.staged <= host.staged
      BY FieldTypes, ImageOrder
    <2> QED
      BY ZenonT(60), <2>1 DEF Forward
  <1>3. RebootsRight'
    BY ZenonT(60) DEF RebootsRight
  <1> QED
    BY <1>1, <1>2, <1>3

\* The controller names newer images only, and the informer brings them.
LEMMA ObjectBoot ==
    ASSUME BootInv, Types, Types', ~Rollback, ChangeDesired \/ Approve \/ SeeBootcNode
    PROVE  BootInv'
  <1> USE DEF BootInv
  <1>1. UNCHANGED <<rec, tasks, host, watcher>>
    BY DEF ChangeDesired, Approve, SeeBootcNode
  <1>2. seen.desired <= seen'.desired /\ seen'.desired <= spec'.desired
    <2>1. CASE ChangeDesired
      <3>1. PICK i \in Image : i > spec.desired /\ spec'.desired = i
        BY <2>1 DEF ChangeDesired
      <3>2. seen' = seen /\ seen.desired \in Int /\ spec.desired \in Int /\ i \in Int
        BY <2>1, FieldTypes DEF ChangeDesired, Image
      <3> QED
        BY <3>1, <3>2 DEF Newest
    <2>2. CASE Approve
      <3>1. seen' = seen /\ spec'.desired = spec.desired
        BY <2>2 DEF Approve, Types, Spec_
      <3> QED
        BY <3>1, FieldTypes, ImageOrder DEF Newest
    <2>3. CASE SeeBootcNode
      <3>1. seen' = spec /\ spec' = spec
        BY <2>3 DEF SeeBootcNode
      <3> QED
        BY <3>1, FieldTypes, ImageOrder DEF Newest
    <2> QED
      BY <2>1, <2>2, <2>3
  <1>3. seen.desired \in Image /\ seen'.desired \in Image
    BY FieldTypes DEF Types, Spec_
  <1>4. ASSUME NEW i \in Image \cup {NoImage}, AtMost(i, seen.desired)
        PROVE  AtMost(i, seen'.desired)
    BY ZenonT(60), <1>2, <1>3, <1>4, ImageOrder DEF AtMost
  <1>5. Newest'
    <2>1. AtMost(rec.desired, seen'.desired)
      BY ZenonT(60), <1>4, FieldTypes DEF Newest
    <2>2. AtMost(host.staged, seen'.desired) /\ AtMost(host.unit, seen'.desired)
      BY ZenonT(60), <1>4, FieldTypes DEF Newest
    <2>3. \A t \in Task : AtMost(tasks[t].image, seen'.desired)
      BY ZenonT(60), <1>4, FieldTypes DEF Newest
    <2> QED
      BY ZenonT(60), <1>1, <1>2, <2>1, <2>2, <2>3 DEF Newest, AtMost
  <1>6. Forward'
    BY ZenonT(60), <1>1 DEF Forward, AtMost, Live
  <1>7. RebootsRight'
    BY ZenonT(60), <1>1 DEF RebootsRight
  <1> QED
    BY <1>5, <1>6, <1>7

\* The unit ends: what it staged is not older than what was staged before.
LEMMA UnitBoot ==
    ASSUME BootInv, Types, Types', UnitSucceeds \/ UnitFails
    PROVE  BootInv'
  <1> USE DEF BootInv
  <1>1. UNCHANGED <<spec, seen, rec>> /\ watcher'.cached = watcher.cached
    BY ZenonT(60) DEF UnitSucceeds, UnitFails, Types, Watcher_
  <1>2. \A u \in Task : tasks'[u].image = tasks[u].image /\ (Live(tasks'[u]) <=> Live(tasks[u]))
    <2> SUFFICES ASSUME NEW u \in Task
                 PROVE  tasks'[u].image = tasks[u].image /\ (Live(tasks'[u]) <=> Live(tasks[u]))
      OBVIOUS
    <2>1. PICK r \in {"ok", "failed"} : UnitResult(r)
      BY DEF UnitSucceeds, UnitFails
    <2>2. tasks[u] \in Task_ /\ tasks'[u] \in {tasks[u], [tasks[u] EXCEPT !.result = r]}
      BY <2>1 DEF UnitResult, Types
    <2> QED
      BY ZenonT(60), <2>2 DEF Task_, Live
  <1>3. /\ host'.unit = NoImage /\ host'.stopping = host.stopping
        /\ \/ host'.staged = host.staged
           \/ host.unit # NoImage /\ host'.staged = host.unit
    <2>1. CASE UnitSucceeds
      BY ZenonT(60), <2>1 DEF UnitSucceeds, Types, Host_
    <2>2. CASE UnitFails
      BY ZenonT(60), <2>2 DEF UnitFails, Types, Host_
    <2> QED
      BY <2>1, <2>2
  <1>4. host.staged # NoImage => host'.staged # NoImage /\ host.staged <= host'.staged
    BY ZenonT(60), <1>3, FieldTypes, ImageOrder DEF Forward, AtMost
  <1>5. host'.staged \in Image \cup {NoImage}
    BY FieldTypes DEF Types, Host_
  <1>6. Newest'
    BY ZenonT(60), <1>1, <1>2, <1>3 DEF Newest, AtMost
  <1>7. Forward'
    <2>1. ASSUME NEW i \in Image, i <= host.staged, host.staged # NoImage
          PROVE  host'.staged # NoImage /\ i <= host'.staged
      BY ZenonT(60), <1>4, <1>5, <2>1, FieldTypes, ImageOrder
    <2>2. \A t \in Task : Live(tasks'[t]) =>
              /\ tasks'[t].image \in Image
              /\ AtMost(host'.staged, tasks'[t].image) /\ AtMost(host'.unit, tasks'[t].image)
      BY ZenonT(60), <1>2, <1>3 DEF Forward, AtMost
    <2> QED
      BY ZenonT(60), <1>1, <1>3, <2>1, <2>2, FieldTypes DEF Forward
  <1>8. RebootsRight'
    <2>1. ASSUME host.stopping PROVE host'.staged = rec.desired
      <3>1. host.staged = rec.desired /\ rec.desired \in Image
        BY <2>1 DEF RebootsRight
      <3>2. AtMost(host'.staged, rec.desired)
        BY ZenonT(60), <1>3, <3>1, ImageOrder DEF Newest, AtMost
      <3> QED
        BY ZenonT(60), <1>4, <1>5, <3>1, <3>2, ImageOrder DEF AtMost
    <2> QED
      BY ZenonT(60), <1>1, <1>3, <2>1 DEF RebootsRight
  <1> QED
    BY <1>6, <1>7, <1>8

\* The goroutine that starts its unit is the one that counts, with the newest image.
LEMMA RunBoot ==
    ASSUME BootInv, StageInv, Types', NEW t \in Task, Run(t)
    PROVE  BootInv'
  <1> USE DEF BootInv
  <1>0. Types
    BY DEF StageInv
  <1>1. UNCHANGED <<spec, seen, rec, watcher>>
    BY ZenonT(60) DEF Run, RunSkipped, RunStage, RunReturns, RunCancelled, SendDone
  <1>2. \A u \in Task :
            /\ tasks'[u].image \in {tasks[u].image, NoImage}
            /\ Live(tasks'[u]) => Live(tasks[u]) /\ tasks'[u].image = tasks[u].image
    <2>1. \A u \in Task \ {t} : tasks'[u] = tasks[u]
      BY <1>0 DEF Run, RunSkipped, RunStage, RunReturns, RunCancelled, SendDone, SetTask, Types
    <2>2. tasks[t] \in Task_
      BY <1>0 DEF Types
    <2>3. CASE RunSkipped(t) \/ RunCancelled(t) \/ SendDone(t)
      <3>1. tasks'[t] = Gone
        BY <1>0, <2>3 DEF RunSkipped, RunCancelled, SendDone, SetTask, Types
      <3> QED
        BY <2>1, <3>1 DEF Gone, Live
    <2>4. CASE RunStage(t)
      <3>1. tasks'[t] = [tasks[t] EXCEPT !.pc = "stage"] /\ tasks[t].pc = "wait"
        BY <1>0, <2>4 DEF RunStage, SetTask, Types
      <3>2. /\ tasks'[t].image = tasks[t].image /\ tasks'[t].cancelled = tasks[t].cancelled
        BY ZenonT(60), <2>2, <3>1 DEF Task_
      <3> QED
        BY ZenonT(60), <2>1, <3>1, <3>2 DEF Live
    <2>5. CASE RunReturns(t)
      <3>1. tasks'[t] = Report(t)
        BY <1>0, <2>5 DEF RunReturns, SetTask, Types
      <3>2. tasks'[t].image = tasks[t].image /\ tasks'[t].pc = "send"
        BY ZenonT(60), <2>2, <3>1 DEF Report, Task_
      <3> QED
        BY ZenonT(60), <2>1, <3>2 DEF Live
    <2> QED
      BY <2>3, <2>4, <2>5 DEF Run
  <1>3. /\ host'.staged = host.staged /\ host'.stopping = host.stopping
        /\ \/ host'.unit \in {host.unit, NoImage}
           \/ host'.unit = tasks[t].image /\ Live(tasks[t])
    <2>1. CASE RunStage(t)
      BY ZenonT(60), <1>0, <2>1 DEF RunStage, Types, Host_, Live
    <2>2. CASE RunCancelled(t)
      BY ZenonT(60), <1>0, <2>2 DEF RunCancelled, Types, Host_
    <2>3. CASE RunSkipped(t) \/ RunReturns(t) \/ SendDone(t)
      BY <2>3 DEF RunSkipped, RunReturns, SendDone
    <2> QED
      BY <2>1, <2>2, <2>3 DEF Run
  <1>4. Newest'
    BY ZenonT(60), <1>1, <1>2, <1>3 DEF Newest, AtMost
  <1>5. Forward'
    <2>1. host'.unit # NoImage => AtMost(host.staged, host'.unit)
      BY ZenonT(60), <1>3 DEF Forward
    <2>2. ASSUME NEW u \in Task, Live(tasks'[u])
          PROVE  /\ tasks'[u].image \in Image
                 /\ AtMost(host.staged, tasks'[u].image) /\ AtMost(host'.unit, tasks'[u].image)
      <3>1. Live(tasks[u]) /\ tasks'[u].image = tasks[u].image
        BY <1>2, <2>2
      <3>2. Live(tasks[t]) => t = u
        BY <3>1 DEF StageInv, Owner
      <3> QED
        BY ZenonT(60), <1>3, <3>1, <3>2, ImageOrder DEF Forward, AtMost
    <2> QED
      BY ZenonT(60), <1>1, <1>3, <2>1, <2>2 DEF Forward
  <1>6. RebootsRight'
    BY ZenonT(60), <1>1, <1>3 DEF RebootsRight
  <1> QED
    BY <1>4, <1>5, <1>6

\* A pass, from its readings to the reboot.
LEMMA PassBoot ==
    ASSUME BootInv, ReportInv, StageInv, StageInv',
           \/ Reconcile \/ ReconcileNoStatus \/ Stage \/ AwaitStage \/ AwaitBooted \/ DecideReboot
           \/ PatchStatus \/ PatchFails \/ Reboot \/ RebootFails
    PROVE  BootInv'
  <1> USE DEF BootInv
  <1>0. Types /\ Types' /\ rec \in Rec_
    BY DEF StageInv, Types
  <1>1. UNCHANGED <<spec, seen>> /\ host'.staged = host.staged /\ host'.unit = host.unit
    <2>1. UNCHANGED <<spec, seen>> /\ host' \in {host, [host EXCEPT !.stopping = TRUE]}
      BY ZenonT(60) DEF Reconcile, ReconcileNoStatus, Stage, AwaitStage, AwaitBooted,
         DecideReboot, Act, PatchStatus, PatchFails, Reboot, RebootFails
    <2> QED
      BY ZenonT(60), <1>0, <2>1 DEF Types, Host_
  <1>2. CASE Reconcile
    <2> DEFINE r == [NoRec EXCEPT !.desired = seen.desired, !.state = seen.state,
                                  !.gen = seen.gen, !.read = GetStatus]
    <2>1. tasks' = tasks /\ host' = host /\ watcher'.cached = GetStatus /\ ~rec.rebootIssued
      BY ZenonT(60), <1>0, <1>2 DEF Reconcile, Types, Watcher_
    <2>2. /\ r.desired = seen.desired /\ r.read = GetStatus /\ r.idle = "Idle" /\ r \in Rec_
      <3>1. r \in Rec_
        BY ZenonT(60), <1>0, Constants, ReadTypes DEF Types, Rec_, Spec_, Gen
      <3> QED
        BY <3>1 DEF NoRec
    <2>3. \/ rec' = [r EXCEPT !.pc = "patch", !.known = (view = "healthy")]
          \/ \E same \in BOOLEAN :
                rec' = [r EXCEPT !.pc = "patch", !.degraded = TRUE,
                                 !.known = same /\ view = "degraded", !.delay = backoff]
          \/ rec' = [r EXCEPT !.pc = "classify"]
      BY ZenonT(60), <1>2 DEF Reconcile
    <2> HIDE DEF r
    <2>4. /\ rec'.desired = seen.desired /\ rec'.read = GetStatus /\ rec'.idle = "Idle"
          /\ rec'.pc \in {"patch", "classify"}
      BY ZenonT(60), <2>2, <2>3 DEF Rec_
    <2>5. GetStatus.staged # NoImage =>
              host.staged # NoImage /\ GetStatus.staged <= host.staged
      <3>1. HostStatus.staged = host.staged
        BY DEF HostStatus
      <3>2. host.staged # NoImage => host.staged <= host.staged
        BY <1>0, FieldTypes, ImageOrder
      <3> QED
        BY ZenonT(60), <3>1, <3>2 DEF GetStatus, Forward
    <2>6. Newest'
      <3>1. seen.desired <= seen.desired
        BY <1>0, FieldTypes, ImageOrder
      <3> QED
        BY ZenonT(60), <1>1, <2>1, <2>4, <3>1 DEF Newest, AtMost
    <2>7. Forward'
      BY ZenonT(60), <2>1, <2>4, <2>5 DEF Forward
    <2>8. RebootsRight'
      BY ZenonT(60), <2>1, <2>4 DEF RebootsRight
    <2> QED
      BY <2>6, <2>7, <2>8
  <1>3. CASE ReconcileNoStatus \/ PatchFails \/ RebootFails \/ (PatchStatus /\ rec.idle # "Rebooting")
    <2>1. UNCHANGED <<tasks, host, watcher>> /\ ~host.stopping
      <3>1. UNCHANGED <<tasks, host, watcher>>
        BY ZenonT(60), <1>3 DEF ReconcileNoStatus, PatchFails, RebootFails, PatchStatus
      <3>2. ~rec.rebootIssued \/ rec.pc # "idle"
        BY ZenonT(60), <1>3 DEF ReconcileNoStatus, PatchFails, RebootFails, PatchStatus
      <3> QED
        BY ZenonT(60), <3>1, <3>2 DEF RebootsRight
    <2>2. rec'.desired = NoImage /\ rec'.read.staged = NoImage /\ rec'.idle = "Idle"
          /\ rec'.pc \in {"idle", "patch"}
      <3>1. \/ rec' = NoRec
            \/ \E k \in BOOLEAN : rec' = [NoRec EXCEPT !.pc = "patch", !.gen = seen.gen,
                                                       !.degraded = TRUE, !.known = k]
        BY ZenonT(60), <1>3 DEF ReconcileNoStatus, PatchFails, RebootFails, PatchStatus
      <3>2. CASE rec' = NoRec
        BY <3>2 DEF NoRec, NoStatus
      <3>3. ASSUME NEW k, rec' = [NoRec EXCEPT !.pc = "patch", !.gen = seen.gen,
                                              !.degraded = TRUE, !.known = k]
            PROVE  rec'.desired = NoImage /\ rec'.read.staged = NoImage /\ rec'.idle = "Idle"
                   /\ rec'.pc \in {"idle", "patch"}
        BY <3>3 DEF NoRec, NoStatus
      <3> QED
        BY ZenonT(60), <3>1, <3>2, <3>3
    <2>3. Newest' /\ Forward' /\ RebootsRight'
      BY ZenonT(60), <1>1, <2>1, <2>2 DEF Newest, AtMost, Forward, RebootsRight
    <2> QED
      BY <2>3
  <1>4. CASE PatchStatus /\ rec.idle = "Rebooting"
    <2>1. UNCHANGED <<tasks, host, watcher>> /\ rec' = [rec EXCEPT !.pc = "reboot"]
          /\ rec.pc = "patch"
      BY <1>4 DEF PatchStatus
    <2>2. rec'.desired = rec.desired /\ rec'.read = rec.read /\ rec'.idle = rec.idle
          /\ rec'.pc = "reboot"
      BY ZenonT(60), <1>0, <2>1 DEF Rec_
    <2>3. Newest' /\ Forward' /\ RebootsRight'
      BY ZenonT(60), <1>1, <1>4, <2>1, <2>2 DEF Newest, AtMost, Forward, RebootsRight
    <2> QED
      BY <2>3
  <1>5. CASE Reboot
    <2>1. UNCHANGED <<tasks, watcher>> /\ rec.pc = "reboot"
          /\ rec' = [NoRec EXCEPT !.desired = rec.desired, !.rebootIssued = TRUE]
      BY <1>5 DEF Reboot
    <2>2. rec'.desired = rec.desired /\ rec'.read.staged = NoImage /\ rec'.pc = "idle"
          /\ rec'.rebootIssued
      BY <2>1 DEF NoRec, NoStatus
    <2>3. rec.desired \in Image /\ host.staged = rec.desired
      <3>1. rec.desired \in Image /\ rec.read.staged = rec.desired
        BY <2>1 DEF RebootsRight
      <3>2. host.staged # NoImage /\ rec.desired <= host.staged /\ host.staged <= rec.desired
        BY ZenonT(60), <3>1, ImageOrder DEF Forward, Newest, AtMost
      <3> QED
        BY <1>0, <3>1, <3>2, FieldTypes, ImageOrder
    <2>4. Newest' /\ Forward' /\ RebootsRight'
      BY ZenonT(60), <1>1, <2>1, <2>2, <2>3 DEF Newest, AtMost, Forward, RebootsRight
    <2> QED
      BY <2>4
  <1>6. CASE Stage \/ AwaitStage \/ AwaitBooted \/ DecideReboot
    <2>1. UNCHANGED <<host, watcher>> /\ rec.pc = "classify"
      BY <1>6 DEF Stage, AwaitStage, AwaitBooted, DecideReboot, Act
    <2>2. PICK i \in Idle_ :
              /\ rec' = [rec EXCEPT !.pc = "patch", !.idle = i]
              /\ i = "Rebooting" => DecideReboot
      BY ZenonT(60), <1>6 DEF Stage, AwaitStage, AwaitBooted, DecideReboot, Act, Idle_
    <2>3. rec'.desired = rec.desired /\ rec'.read = rec.read /\ rec'.idle = i /\ rec'.pc = "patch"
      BY ZenonT(60), <1>0, <2>2 DEF Rec_
    <2>4. rec.desired \in Image /\ rec.desired <= seen.desired
      BY ZenonT(60), <2>1, ImageOrder DEF ReportInv, PassReport, Readings, Newest, AtMost
    <2>5. RebootsRight'
      <3>1. i = "Rebooting" => rec.read.staged = rec.desired
        BY <2>2 DEF DecideReboot, alreadyStaged
      <3> QED
        BY ZenonT(60), <2>1, <2>3, <2>4, <3>1 DEF RebootsRight
    <2>6. ASSUME NEW u \in Task
          PROVE  \/ /\ tasks'[u].image = tasks[u].image
                    /\ Live(tasks'[u]) => Live(tasks[u])
                 \/ tasks'[u].image = rec.desired
      <3>1. CASE Stage
        <4>1. PICK t \in Task : acquire(t)
          BY <3>1, StageTask
        <4>2. tasks'[u] = IF u = t THEN [Gone EXCEPT !.pc = "wait", !.image = rec.desired]
                          ELSE IF u = op.cancel THEN [tasks[u] EXCEPT !.cancelled = TRUE]
                          ELSE tasks[u]
          BY <4>1 DEF acquire
        <4>3. tasks[u] \in Task_
          BY <1>0 DEF Types
        <4>4. CASE u = t
          BY <4>2, <4>4 DEF Gone
        <4>5. CASE u # t
          BY ZenonT(60), <4>2, <4>3, <4>5 DEF Task_, Live
        <4> QED
          BY <4>4, <4>5
      <3>2. CASE AwaitStage \/ AwaitBooted \/ DecideReboot
        BY <3>2 DEF AwaitStage, AwaitBooted, DecideReboot
      <3> QED
        BY <1>6, <3>1, <3>2
    <2>7. rec.desired <= rec.desired /\ rec.desired # NoImage
      BY <2>4, ImageOrder
    <2>8. Newest'
      BY ZenonT(60), <1>1, <2>3, <2>4, <2>6, <2>7 DEF Newest, AtMost
    <2>9. Forward'
      <3>1. ASSUME NEW u \in Task, Live(tasks'[u])
            PROVE  /\ tasks'[u].image \in Image
                   /\ AtMost(host.staged, tasks'[u].image) /\ AtMost(host.unit, tasks'[u].image)
        BY ZenonT(60), <2>4, <2>6, <2>7, <3>1 DEF Newest, Forward
      <3> QED
        BY ZenonT(60), <2>1, <2>3, <3>1 DEF Forward
    <2> QED
      BY <2>5, <2>8, <2>9
  <1> QED
    BY ZenonT(60), <1>2, <1>3, <1>4, <1>5, <1>6

\* A new daemon: nothing is staged on a host that has booted.
LEMMA RestartBoot ==
    ASSUME BootInv, Types, DaemonRestarts \/ HostBoots
    PROVE  BootInv'
  <1> USE DEF BootInv
  <1>1. /\ seen' = spec /\ spec' = spec /\ rec' = NoRec /\ watcher' = NoWatcher
        /\ \A t \in Task : tasks'[t] = Gone
    BY DEF DaemonRestarts, HostBoots, NewDaemon
  <1>2. /\ rec'.desired = NoImage /\ rec'.read.staged = NoImage /\ rec'.idle = "Idle"
        /\ rec'.pc = "idle" /\ watcher'.cached.staged = NoImage
        /\ \A t \in Task : tasks'[t].image = NoImage /\ ~Live(tasks'[t])
    BY <1>1 DEF NoRec, NoWatcher, NoStatus, Gone, Live
  <1>3. ~host'.stopping
    BY DEF DaemonRestarts, HostBoots
  <1>4. host' = host \/ (host'.staged = NoImage /\ host'.unit = NoImage)
    BY DEF DaemonRestarts, HostBoots
  <1>5. Newest'
    <2>1. spec.desired <= spec.desired
      BY FieldTypes, ImageOrder
    <2>2. AtMost(host.staged, spec.desired) /\ AtMost(host.unit, spec.desired)
      BY ZenonT(60), FieldTypes, ImageOrder DEF Newest, AtMost
    <2> QED
      BY ZenonT(60), <1>1, <1>2, <1>4, <2>1, <2>2 DEF Newest, AtMost
  <1>6. Forward'
    BY ZenonT(60), <1>2, <1>4 DEF Forward
  <1>7. RebootsRight'
    BY ZenonT(60), <1>2, <1>3 DEF RebootsRight
  <1> QED
    BY <1>5, <1>6, <1>7

LEMMA InitBoot == Init => BootInv
  <1> SUFFICES ASSUME Init PROVE BootInv
    OBVIOUS
  <1>1. /\ spec.desired = 0 /\ seen.desired = 0 /\ rec.desired = NoImage /\ rec.pc = "idle"
        /\ rec.read.staged = NoImage /\ watcher.cached.staged = NoImage
        /\ host.staged = NoImage /\ host.unit = NoImage /\ ~host.stopping
    BY DEF Init, NoRec, NoWatcher, NoStatus
  <1>2. \A t \in Task : tasks[t].image = NoImage /\ ~Live(tasks[t])
    BY DEF Init, Gone, Live
  <1>3. Newest
    BY <1>1, <1>2 DEF Newest, AtMost
  <1>4. Forward /\ RebootsRight
    BY ZenonT(60), <1>1, <1>2 DEF Forward, RebootsRight
  <1> QED
    BY <1>3, <1>4 DEF BootInv

LEMMA BootStep ==
    ASSUME BootInv, ReportInv, StageInv, StageInv', ~Rollback, [Next]_vars
    PROVE  BootInv'
  <1>0. Types /\ Types'
    BY DEF StageInv
  <1>1. CASE ChangeDesired \/ Approve \/ SeeBootcNode
    BY <1>0, <1>1, ObjectBoot
  <1>2. CASE UnitSucceeds \/ UnitFails
    BY <1>0, <1>2, UnitBoot
  <1>3. CASE \E t \in Task : Run(t)
    BY <1>0, <1>3, RunBoot
  <1>4. CASE \/ Reconcile \/ ReconcileNoStatus \/ Stage \/ AwaitStage \/ AwaitBooted
             \/ DecideReboot \/ PatchStatus \/ PatchFails \/ Reboot \/ RebootFails
    BY <1>4, PassBoot
  <1>5. CASE DaemonRestarts \/ HostBoots
    BY <1>0, <1>5, RestartBoot
  <1>6. CASE \/ Skip \/ TimerFires \/ ReceiveDone \/ WatcherStarts \/ refreshAndNotify
             \/ refreshFails \/ WatchBreaks \/ UNCHANGED vars
    <2>1. UNCHANGED <<spec, seen, rec, tasks, host>>
      BY ZenonT(60), <1>6 DEF Skip, TimerFires, ReceiveDone, WatcherStarts, refreshAndNotify,
         refreshFails, WatchBreaks, vars
    <2>2. watcher'.cached \in {watcher.cached, HostStatus}
      BY ZenonT(60), <1>0, <1>6 DEF Skip, TimerFires, ReceiveDone, WatcherStarts,
         refreshAndNotify, refreshFails, WatchBreaks, DegradeToPolling, vars, Types, Watcher_
    <2>3. HostStatus.staged = host.staged
      BY DEF HostStatus
    <2> QED
      BY <1>0, <2>1, <2>2, <2>3, QuietBoot
  <1> QED
    BY ZenonT(60), <1>1, <1>2, <1>3, <1>4, <1>5, <1>6 DEF Next, Worker, Failure

\* The host boots an image only when it goes down.
LEMMA BootedKept ==
    ASSUME Types, [Next]_vars, ~HostBoots
    PROVE  host'.booted = host.booted
  <1>1. \/ host' = host \/ host' = [host EXCEPT !.stopping = TRUE]
        \/ \E s, u : host' \in {[host EXCEPT !.staged = s, !.unit = u], [host EXCEPT !.unit = u]}
    BY ZenonT(60) DEF Next, Worker, Failure, Skip, Reconcile, Stage, AwaitStage, AwaitBooted,
       DecideReboot, Act, PatchStatus, Reboot, ReconcileNoStatus, PatchFails, RebootFails,
       UnitFails, refreshFails, WatchBreaks, DaemonRestarts, ChangeDesired, Approve, SeeBootcNode,
       TimerFires, UnitSucceeds, ReceiveDone, WatcherStarts, refreshAndNotify, Run, RunSkipped,
       RunStage, RunReturns, RunCancelled, SendDone, vars
  <1> QED
    BY ZenonT(60), <1>1 DEF Types, Host_

\* Unless an image is desired again after it was replaced, the host boots nothing but
\* the image that the pass which issued the reboot was told to boot, whatever is
\* staged, cancelled or left running when it decides: "verifies staged.imageDigest ==
\* desiredImage before proceeding".
THEOREM BootsWhatIsDesired ==
    ASSUME ~Rollback
    PROVE  Spec => BootsDesired
  <1>1. Init => StageInv /\ Generations /\ ReportInv /\ BootInv
    BY InitStage, InitTypes, InitReport, InitBoot
  <1>2. StageInv /\ Generations /\ ReportInv /\ BootInv /\ [Next]_vars
           => StageInv' /\ Generations' /\ ReportInv' /\ BootInv'
    BY StageInvStep, TypesStep, ReportStep, BootStep DEF StageInv
  <1>3. StageInv /\ BootInv /\ [Next]_vars
           => [host'.booted # host.booted => host'.booted = rec.desired]_vars
    <2> SUFFICES ASSUME StageInv, BootInv, [Next]_vars, host'.booted # host.booted
                 PROVE  host'.booted = rec.desired
      OBVIOUS
    <2>1. HostBoots
      BY BootedKept DEF StageInv
    <2>2. host.stopping /\ host'.booted = IF host.staged = NoImage THEN host.booted ELSE host.staged
      BY <2>1 DEF HostBoots
    <2>3. host.staged = rec.desired
      BY <2>2 DEF BootInv, RebootsRight
    <2> QED
      BY <2>2, <2>3
  <1> QED
    BY <1>1, <1>2, <1>3, PTL DEF Spec, BootsDesired
=============================================================================
