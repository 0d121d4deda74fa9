-------------------------------- MODULE Daemon --------------------------------
(***************************************************************************)
(* The daemon on one node: BootcNodeReconciler with its stageOp             *)
(* (internal/daemon/reconciler.go), StatusWatcher (internal/daemon/         *)
(* watcher.go) and HostExecutor (internal/bootc/executor.go), against the   *)
(* host's bootc, a controller that sets and approves the desired image, and *)
(* restarts of the daemon.                                                  *)
(*                                                                         *)
(* A reconcile is split where other goroutines or the host may move: it     *)
(* reads the cached BootcNode and bootc status, takes the result of the     *)
(* last stage, fetches the pull secret, chooses and starts an action,       *)
(* patches the status, and reboots.  The goroutines of stageOp.run, the     *)
(* systemd unit they wait for and the watcher run concurrently.             *)
(*                                                                         *)
(* Images are digests; the checks of a malformed image reference and of a   *)
(* host without a booted entry are left out, as is the pull secret, whose   *)
(* failures syncPullSecret ignores.  A soft reboot ends the daemon and      *)
(* applies the staged image as a reboot does.                               *)
(***************************************************************************)
EXTENDS Integers, FiniteSets

CONSTANTS
    LastImage,                \* images are the digests 0 .. LastImage; the host starts on 0
    NoImage,                  \* "no such deployment", the empty stageOp.image
    Task,                     \* bound: goroutines of stageOp.run alive at one time
    NoTask,                   \* a nil stageOp.cancel
    stageMaxBackoffExponent,  \* 7 in the code
    MaxChanges,               \* bound: changes of the desired image
    MaxFaults,                \* bound: faults
    Faults,                   \* the faults that may happen
    Rollback,                 \* may an image be desired again after it was replaced?
    Polling,                  \* is fsnotify unavailable from the start?
    LateWatcher               \* may bootc stage an image before the watcher has started?

Image == 0 .. LastImage
FaultKind == {"stage", "patch", "reboot", "status", "watch", "restart"}

ASSUME DaemonAssumption ==
    /\ LastImage \in Nat /\ NoImage \notin Image
    /\ NoTask \notin Task
    /\ stageMaxBackoffExponent \in Nat \ {0}
    /\ MaxChanges \in Nat /\ MaxFaults \in Nat
    /\ Faults \subseteq FaultKind
    /\ Rollback \in BOOLEAN /\ Polling \in BOOLEAN /\ LateWatcher \in BOOLEAN

VARIABLES
    spec,     \* the BootcNode's spec, as the API server holds it
    seen,     \* the daemon's informer cache of it
    status,   \* the booted image and the conditions the daemon reported
    view,     \* what the informer's copy, of the same age as seen, shows of them
    host,     \* what bootc has booted and staged, the switch unit, is a reboot under way?
    watcher,  \* StatusWatcher: the cached status, started, polling, a pending fsnotify event,
              \* and (history) whether a change of the host went by without one
    op,       \* stageOp
    tasks,    \* the goroutines of stageOp.run
    done,     \* is an event in the stageDone channel?
    queue,    \* is a reconcile request queued?
    timer,    \* is a delayed request pending (RequeueAfter)?
    rec,      \* the local variables of Reconcile, and rebootIssued
    changes,  \* changes of the desired image so far
    faults    \* faults so far

vars == <<spec, seen, status, view, host, watcher, op, tasks, done, queue, timer, rec, changes, faults>>

-----------------------------------------------------------------------------

Spec_ == [desired : Image, state : {"Staged", "Booted"}, gen : 0 .. 2 * MaxChanges + 1]
Report_ == [booted : Image, idle : {"Idle", "Staging", "Staged", "Rebooting"},
            degraded : BOOLEAN, gen : 0 .. 2 * MaxChanges + 1]
BootcStatus == [booted : Image, staged : Image \cup {NoImage}]
NoStatus == [booted |-> NoImage, staged |-> NoImage]

NoOp == [image |-> NoImage, cancel |-> NoTask, err |-> FALSE, retries |-> 0]
Gone == [pc |-> "gone", image |-> NoImage, cancelled |-> FALSE, result |-> "none"]
NoWatcher == [cached |-> NoStatus, started |-> FALSE, polling |-> Polling, event |-> FALSE,
              missed |-> FALSE]

\* delay is the exponent of the backoff: the code shifts by at most 6.
NoDelay == stageMaxBackoffExponent

NoRec == [pc |-> "idle", desired |-> NoImage, state |-> "Staged", read |-> NoStatus,
          gen |-> 0, idle |-> "Idle", degraded |-> FALSE, known |-> FALSE, delay |-> NoDelay,
          rebootIssued |-> FALSE]

TypeOK ==
    /\ spec \in Spec_ /\ seen \in Spec_
    /\ status \in Report_ /\ view \in {"healthy", "degraded", "other"}
    /\ host \in [booted : Image, staged : Image \cup {NoImage}, unit : Image \cup {NoImage},
                 stopping : BOOLEAN]
    /\ watcher \in [cached : BootcStatus \cup {NoStatus}, started : BOOLEAN, polling : BOOLEAN,
                    event : BOOLEAN, missed : BOOLEAN]
    /\ op \in [image : Image \cup {NoImage}, cancel : Task \cup {NoTask}, err : BOOLEAN,
               retries : 0 .. stageMaxBackoffExponent]
    /\ tasks \in [Task -> [pc : {"gone", "wait", "stage", "send"}, image : Image \cup {NoImage},
                           cancelled : BOOLEAN, result : {"none", "ok", "failed"}]]
    /\ done \in BOOLEAN /\ queue \in BOOLEAN /\ timer \in BOOLEAN
    /\ rec \in [pc : {"idle", "classify", "patch", "reboot"}, desired : Image \cup {NoImage},
                state : {"Staged", "Booted"}, read : BootcStatus \cup {NoStatus},
                gen : 0 .. 2 * MaxChanges + 1, idle : {"Idle", "Staging", "Staged", "Rebooting"},
                degraded : BOOLEAN, known : BOOLEAN, delay : 0 .. NoDelay,
                rebootIssued : BOOLEAN]
    /\ changes \in 0 .. MaxChanges /\ faults \in 0 .. MaxFaults

Init ==
    /\ spec = [desired |-> 0, state |-> "Staged", gen |-> 0] /\ seen = spec
    /\ status = [booted |-> 0, idle |-> "Idle", degraded |-> FALSE, gen |-> 0] /\ view = "healthy"
    /\ host = [booted |-> 0, staged |-> NoImage, unit |-> NoImage, stopping |-> FALSE]
    /\ watcher = NoWatcher
    /\ op = NoOp
    /\ tasks = [t \in Task |-> Gone]
    /\ done = FALSE /\ queue = TRUE /\ timer = FALSE
    /\ rec = NoRec
    /\ changes = 0 /\ faults = 0

Shown_anyGeneration ==
    IF status.idle # "Idle" THEN "other" ELSE IF status.degraded THEN "degraded" ELSE "healthy"

\* The conditions of an idle daemon, if they are of this generation: a report that
\* finds them in the informer's copy leaves them out of its patch.  Other conditions
\* always differ from the copy, in the time at which Idle became False, because
\* every reconcile sets Idle to True first.
Shown == IF status.gen = spec.gen THEN Shown_anyGeneration ELSE "other"

Fault(kind) == kind \in Faults /\ faults < MaxFaults /\ faults' = faults + 1

\* What bootc status prints.
HostStatus == [booted |-> host.booted, staged |-> host.staged]

-----------------------------------------------------------------------------
(* The controller and the API server, seen from the daemon.                *)

\* syncBootcNodeSpec of the controller.
ChangeDesired ==
    /\ changes < MaxChanges
    /\ changes' = changes + 1
    /\ \E i \in Image \ {spec.desired} :
          /\ Rollback \/ i > spec.desired
          /\ spec' = [desired |-> i, state |-> "Staged", gen |-> spec.gen + 1]
    /\ UNCHANGED <<seen, status, view, host, watcher, op, tasks, done, queue, timer, rec, faults>>

\* The controller approves the reboot of a node that classifyNode finds staged.
Approvable ==
    /\ spec.state = "Staged"
    /\ ~status.degraded /\ status.booted # spec.desired /\ status.idle = "Staged"

Approve ==
    /\ Approvable
    /\ spec' = [spec EXCEPT !.state = "Booted", !.gen = @ + 1]
    /\ UNCHANGED <<seen, status, view, host, watcher, op, tasks, done, queue, timer, rec, changes, faults>>

\* The watch of the BootcNode: only a new generation queues a reconcile.
SeeBootcNode ==
    /\ seen # spec \/ view # Shown
    /\ seen' = spec /\ view' = Shown
    /\ queue' = (queue \/ seen # spec)
    /\ UNCHANGED <<spec, status, host, watcher, op, tasks, done, timer, rec, changes, faults>>

-----------------------------------------------------------------------------
(* Reconcile.                                                              *)

\* GetStatus: the cache once the watcher loop runs, else a fresh read.
GetStatus ==
    IF watcher.started /\ watcher.cached # NoStatus THEN watcher.cached ELSE HostStatus

takeErr_uncounted == [op EXCEPT !.err = FALSE]

takeErr ==
    [op EXCEPT !.err = FALSE,
               !.retries = IF @ < stageMaxBackoffExponent THEN @ + 1 ELSE @]

backoff == takeErr.retries - 1

reset == [op EXCEPT !.retries = 0]

Skip ==
    /\ queue /\ rec.pc = "idle" /\ rec.rebootIssued
    /\ queue' = FALSE
    /\ UNCHANGED <<spec, seen, status, view, host, watcher, op, tasks, done, timer, rec, changes, faults>>

\* The beginning of reconcileBootcNode: nothing to do, the last stage failed,
\* or an action to choose.  same: the Degraded message is that of the last time.
Reconcile ==
    /\ queue /\ rec.pc = "idle" /\ ~rec.rebootIssued
    /\ queue' = FALSE
    /\ watcher' = [watcher EXCEPT !.cached = GetStatus]
    /\ LET read == [NoRec EXCEPT !.desired = seen.desired, !.state = seen.state,
                                 !.gen = seen.gen, !.read = GetStatus]
       IN  \/ /\ GetStatus.booted = seen.desired
              /\ op' = reset
              /\ rec' = [read EXCEPT !.pc = "patch", !.known = (view = "healthy")]
           \/ /\ GetStatus.booted # seen.desired /\ op.err
              /\ op' = takeErr
              /\ \E same \in BOOLEAN :
                    rec' = [read EXCEPT !.pc = "patch", !.degraded = TRUE,
                                        !.known = same /\ view = "degraded", !.delay = backoff]
           \/ /\ GetStatus.booted # seen.desired /\ ~op.err
              /\ op' = op
              /\ rec' = [read EXCEPT !.pc = "classify"]
    /\ UNCHANGED <<spec, seen, status, view, host, tasks, done, timer, changes, faults>>

\* bootc status fails when there is no cache to read: Degraded, and an error
\* that queues the request again.
ReconcileNoStatus ==
    /\ queue /\ rec.pc = "idle" /\ ~rec.rebootIssued
    /\ ~(watcher.started /\ watcher.cached # NoStatus)
    /\ Fault("status")
    /\ \E same \in BOOLEAN :
          rec' = [NoRec EXCEPT !.pc = "patch", !.gen = seen.gen, !.degraded = TRUE,
                               !.known = same /\ view = "degraded"]
    /\ UNCHANGED <<spec, seen, status, view, host, watcher, op, tasks, done, queue, timer, changes>>

alreadyStaged_anything == rec.read.staged # NoImage
alreadyStaged == rec.read.staged = rec.desired
isInFlight(image) == op.image = image

\* acquire: cancel the stage in flight and record the new one, run by t.
acquire(t) ==
    /\ op' = [image |-> rec.desired, cancel |-> t, err |-> FALSE,
              retries |-> IF op.cancel # NoTask THEN 0 ELSE op.retries]
    /\ tasks' = [u \in Task |->
                    IF u = t THEN [Gone EXCEPT !.pc = "wait", !.image = rec.desired]
                    ELSE IF u = op.cancel THEN [tasks[u] EXCEPT !.cancelled = TRUE]
                    ELSE tasks[u]]

\* classifyAction and the action it chose.
Act(idle) ==
    /\ rec' = [rec EXCEPT !.pc = "patch", !.idle = idle]
    /\ UNCHANGED <<spec, seen, status, view, host, watcher, done, queue, timer, changes, faults>>

Stage ==
    /\ rec.pc = "classify" /\ ~alreadyStaged /\ ~isInFlight(rec.desired)
    /\ \E t \in Task : tasks[t].pc = "gone"
    /\ acquire(CHOOSE t \in Task : tasks[t].pc = "gone")
    /\ Act("Staging")

AwaitStage ==
    /\ rec.pc = "classify" /\ ~alreadyStaged /\ isInFlight(rec.desired)
    /\ Act("Staging")
    /\ UNCHANGED <<op, tasks>>

AwaitBooted ==
    /\ rec.pc = "classify" /\ alreadyStaged /\ rec.state # "Booted"
    /\ Act("Staged")
    /\ UNCHANGED <<op, tasks>>

DecideReboot ==
    /\ rec.pc = "classify" /\ alreadyStaged /\ rec.state = "Booted"
    /\ Act("Rebooting")
    /\ UNCHANGED <<op, tasks>>

\* The status patch, of what differs from the copy that was read; a reboot follows.
PatchStatus ==
    /\ rec.pc = "patch"
    /\ LET booted == IF rec.read = NoStatus THEN status.booted ELSE rec.read.booted
       IN  status' = IF rec.known THEN [status EXCEPT !.booted = booted]
                     ELSE [booted |-> booted, idle |-> rec.idle, degraded |-> rec.degraded,
                           gen |-> rec.gen]
    /\ rec' = IF rec.idle = "Rebooting" THEN [rec EXCEPT !.pc = "reboot"] ELSE NoRec
    /\ timer' = (timer \/ rec.delay # NoDelay)
    /\ UNCHANGED <<spec, seen, view, host, watcher, op, tasks, done, queue, changes, faults>>

\* An error queues the request again.
PatchFails ==
    /\ rec.pc = "patch"
    /\ Fault("patch")
    /\ rec' = NoRec
    /\ queue' = TRUE
    /\ UNCHANGED <<spec, seen, status, view, host, watcher, op, tasks, done, timer, changes>>

\* systemctl reboot returns before the host goes down.
Reboot ==
    /\ rec.pc = "reboot"
    /\ host' = [host EXCEPT !.stopping = TRUE]
    /\ rec' = [NoRec EXCEPT !.desired = rec.desired, !.rebootIssued = TRUE]
    /\ UNCHANGED <<spec, seen, status, view, watcher, op, tasks, done, queue, timer, changes, faults>>

RebootFails ==
    /\ rec.pc = "reboot"
    /\ Fault("reboot")
    /\ rec' = NoRec
    /\ queue' = TRUE
    /\ UNCHANGED <<spec, seen, status, view, host, watcher, op, tasks, done, timer, changes>>

TimerFires ==
    /\ timer
    /\ timer' = FALSE
    /\ queue' = TRUE
    /\ UNCHANGED <<spec, seen, status, view, host, watcher, op, tasks, done, rec, changes, faults>>

-----------------------------------------------------------------------------
(* stageOp.run and the systemd unit in which bootc switch runs.            *)

runMuFree_always == TRUE

\* runMu is held from the start of a stage until its event has been sent.
runMuFree == \A t \in Task : tasks[t].pc \notin {"stage", "send"}

SetTask(t, task) == tasks' = [tasks EXCEPT ![t] = task]

\* A goroutine that was cancelled before it got runMu does nothing.
RunSkipped(t) ==
    /\ tasks[t].pc = "wait" /\ runMuFree /\ tasks[t].cancelled
    /\ SetTask(t, Gone)
    /\ UNCHANGED <<spec, seen, status, view, host, watcher, op, done, queue, timer, rec, changes, faults>>

\* Executor.Stage stops a unit that is left over and starts its own.
RunStage(t) ==
    /\ tasks[t].pc = "wait" /\ runMuFree /\ ~tasks[t].cancelled
    /\ SetTask(t, [tasks[t] EXCEPT !.pc = "stage"])
    /\ host' = [host EXCEPT !.unit = tasks[t].image]
    /\ UNCHANGED <<spec, seen, status, view, watcher, op, done, queue, timer, rec, changes, faults>>

\* Whoever waits for the unit (systemd-run --wait) gets its result.
UnitResult(result) ==
    tasks' = [t \in Task |-> IF tasks[t].pc = "stage" /\ tasks[t].result = "none"
                             THEN [tasks[t] EXCEPT !.result = result] ELSE tasks[t]]

\* bootc switch stages its image; fsnotify tells unless it was staged already.
UnitSucceeds ==
    /\ host.unit # NoImage
    /\ LateWatcher \/ watcher.started
    /\ host' = [host EXCEPT !.staged = host.unit, !.unit = NoImage]
    /\ watcher' = [watcher EXCEPT
                      !.event = @ \/ (/\ watcher.started /\ ~watcher.polling
                                       /\ host.staged # host.unit),
                      !.missed = @ \/ ~watcher.started]
    /\ UnitResult("ok")
    /\ UNCHANGED <<spec, seen, status, view, op, done, queue, timer, rec, changes, faults>>

UnitFails ==
    /\ host.unit # NoImage
    /\ Fault("stage")
    /\ host' = [host EXCEPT !.unit = NoImage]
    /\ UnitResult("failed")
    /\ UNCHANGED <<spec, seen, status, view, watcher, op, done, queue, timer, rec, changes>>

Returned_unchecked(t) == tasks[t].result # "none"

\* The stage ended before it was cancelled.
Returned(t) == tasks[t].result # "none" /\ ~tasks[t].cancelled

\* Both outcomes send an event.
Report(t) == [tasks[t] EXCEPT !.pc = "send"]

\* run records the outcome under mu, then sends its event.
RunReturns(t) ==
    /\ tasks[t].pc = "stage" /\ Returned(t)
    /\ op' = [op EXCEPT !.image = NoImage, !.cancel = NoTask,
                        !.err = @ \/ tasks[t].result = "failed"]
    /\ SetTask(t, Report(t))
    /\ UNCHANGED <<spec, seen, status, view, host, watcher, done, queue, timer, rec, changes, faults>>

\* A cancelled stage stops its unit, if it still runs, and leaves no trace.
RunCancelled(t) ==
    /\ tasks[t].pc = "stage" /\ tasks[t].cancelled
    /\ host' = [host EXCEPT !.unit = IF tasks[t].result = "none" THEN NoImage ELSE @]
    /\ SetTask(t, Gone)
    /\ UNCHANGED <<spec, seen, status, view, watcher, op, done, queue, timer, rec, changes, faults>>

\* The channel holds one event.
SendDone(t) ==
    /\ tasks[t].pc = "send" /\ ~done
    /\ done' = TRUE
    /\ SetTask(t, Gone)
    /\ UNCHANGED <<spec, seen, status, view, host, watcher, op, queue, timer, rec, changes, faults>>

ReceiveDone ==
    /\ done
    /\ done' = FALSE
    /\ queue' = TRUE
    /\ UNCHANGED <<spec, seen, status, view, host, watcher, op, tasks, timer, rec, changes, faults>>

-----------------------------------------------------------------------------
(* StatusWatcher.                                                          *)

\* Start installs the fsnotify watch and only then lets GetStatus use the cache.
WatcherStarts ==
    /\ ~watcher.started
    /\ watcher' = [watcher EXCEPT !.started = TRUE]
    /\ UNCHANGED <<spec, seen, status, view, host, op, tasks, done, queue, timer, rec, changes, faults>>

\* An fsnotify event, or a tick that finds a change.
Refreshable ==
    watcher.started /\ (watcher.event \/ (watcher.polling /\ watcher.cached # HostStatus))

\* sendEvent drops its event when one is pending already.
refreshAndNotify ==
    /\ Refreshable
    /\ watcher' = [watcher EXCEPT !.event = FALSE, !.cached = HostStatus]
    /\ queue' = (queue \/ watcher.cached # HostStatus)
    /\ UNCHANGED <<spec, seen, status, view, host, op, tasks, done, timer, rec, changes, faults>>

\* bootc status fails: the event is forgotten.
refreshFails ==
    /\ watcher.event
    /\ Fault("status")
    /\ watcher' = [watcher EXCEPT !.event = FALSE, !.missed = TRUE]
    /\ UNCHANGED <<spec, seen, status, view, host, op, tasks, done, queue, timer, rec, changes>>

watchBreaks_quietly == [watcher EXCEPT !.event = FALSE]

\* An fsnotify error: from now on the watcher polls.
DegradeToPolling == [watcher EXCEPT !.event = FALSE, !.polling = TRUE]

WatchBreaks ==
    /\ watcher.started /\ ~watcher.polling
    /\ Fault("watch")
    /\ watcher' = DegradeToPolling
    /\ UNCHANGED <<spec, seen, status, view, host, op, tasks, done, queue, timer, rec, changes>>

-----------------------------------------------------------------------------
(* Restarts.                                                               *)

\* A new daemon process: its informer queues the BootcNode.
NewDaemon ==
    /\ seen' = spec /\ view' = Shown
    /\ watcher' = NoWatcher
    /\ op' = NoOp
    /\ tasks' = [t \in Task |-> Gone]
    /\ done' = FALSE /\ queue' = TRUE /\ timer' = FALSE
    /\ rec' = NoRec

\* The switch unit is the host's and outlives the daemon.
DaemonRestarts ==
    /\ ~host.stopping
    /\ Fault("restart")
    /\ NewDaemon
    /\ UNCHANGED <<spec, status, host, changes>>

HostBoots ==
    /\ host.stopping
    /\ host' = [booted |-> IF host.staged = NoImage THEN host.booted ELSE host.staged,
                staged |-> NoImage, unit |-> NoImage, stopping |-> FALSE]
    /\ NewDaemon
    /\ UNCHANGED <<spec, status, changes, faults>>

-----------------------------------------------------------------------------

Run(t) == RunSkipped(t) \/ RunStage(t) \/ RunReturns(t) \/ RunCancelled(t) \/ SendDone(t)

Worker ==
    \/ Skip \/ Reconcile \/ Stage \/ AwaitStage \/ AwaitBooted \/ DecideReboot \/ PatchStatus
    \/ Reboot

Failure ==
    \/ ReconcileNoStatus \/ PatchFails \/ RebootFails \/ UnitFails \/ refreshFails \/ WatchBreaks
    \/ DaemonRestarts

Next ==
    \/ Worker \/ Failure \/ ChangeDesired \/ Approve \/ SeeBootcNode \/ TimerFires \/ UnitSucceeds
    \/ ReceiveDone \/ WatcherStarts \/ refreshAndNotify \/ HostBoots
    \/ \E t \in Task : Run(t)

Spec == Init /\ [][Next]_vars

\* What the steps of the environment and of the goroutines wait for.
Runnable(t) ==
    \/ tasks[t].pc = "wait" /\ runMuFree
    \/ tasks[t].pc = "stage" /\ (Returned(t) \/ tasks[t].cancelled)
    \/ tasks[t].pc = "send" /\ ~done

\* Every goroutine, the informer, the timer, the unit and the host keep going, and
\* the controller approves what was staged: weak fairness, with guards in place of
\* ENABLED.  But for the worker, whose queue may fill again meanwhile, each guard
\* is false once the step that waits for it has been taken.
Fairness ==
    /\ []<>(~queue /\ rec.pc = "idle") \/ []<><<Worker>>_vars
    /\ []<>(seen = spec /\ view = Shown) /\ []<>~Approvable /\ []<>~timer /\ []<>~done
    /\ []<>~(host.unit # NoImage /\ (LateWatcher \/ watcher.started))
    /\ []<>watcher.started /\ []<>~Refreshable /\ []<>~host.stopping
    /\ \A t \in Task : []<>~Runnable(t)

FairSpec == Spec /\ Fairness

-----------------------------------------------------------------------------
(* Properties.                                                             *)

\* stageOp names the one stage that counts: actionAwaitStage never waits for a
\* goroutine that will not report, and no goroutine that is to report is forgotten
\* (it could not be cancelled when the desired image changes).
StageTracked ==
    /\ op.image # NoImage => op.cancel # NoTask
    /\ \A t \in Task : (tasks[t].pc \in {"wait", "stage"} /\ ~tasks[t].cancelled) <=>
                         (op.cancel = t /\ op.image = tasks[t].image)

\* A stage that was not cancelled waits for its own unit: no other goroutine,
\* not even one that is still being cancelled, stops or replaces it.
UnitIsOwn ==
    \A t \in Task :
        tasks[t].pc = "stage" /\ tasks[t].result = "none" /\ ~tasks[t].cancelled =>
            host.unit = tasks[t].image

\* The daemon has nothing left to do, and its informer is up to date.
Rest ==
    /\ ~queue /\ ~done /\ ~timer /\ ~watcher.event /\ watcher.started /\ rec.pc = "idle"
    /\ ~host.stopping /\ host.unit = NoImage
    /\ \A t \in Task : tasks[t].pc = "gone"
    /\ seen = spec /\ view = Shown

\* At rest the status that the daemon reported is that of its host, although it was
\* compared with copies of any age.  One case is excepted: the Degraded of a failed
\* bootc status on a host that runs the desired image, when the next report came
\* before the informer's copy.
ReportRight ==
    Rest =>
        /\ status.booted = host.booted
        /\ status.idle = IF host.booted = spec.desired THEN "Idle" ELSE "Staged"
        /\ status.degraded => /\ host.booted = spec.desired
                              /\ "status" \in Faults /\ faults > 0

\* The daemon reboots the host into the image it was told to boot: it "verifies
\* staged.imageDigest == desiredImage before proceeding".
BootsDesired ==
    [][host'.booted # host.booted => host'.booted = rec.desired]_vars

\* When the desired image stops changing the host ends up running it: failed
\* stages, patches, reboots and restarts of the daemon are retried, and no event
\* that the daemon waits for is lost.  The exception is a change of the host that
\* the watcher missed, because bootc status failed on the event or the watch was
\* not installed yet: next to fsnotify nothing polls.
Converges == <>watcher.missed \/ <>[](host.booted = spec.desired)

=============================================================================
