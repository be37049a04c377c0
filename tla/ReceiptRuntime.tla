---------------------------- MODULE ReceiptRuntime ----------------------------
(***************************************************************************)
(* crates/unica-execution/src/receipt_runtime.rs, one accepted invocation:   *)
(* the session handler that answers it, the pipeline worker that admits and   *)
(* runs it, the inline worker that executes it inside the response budget,    *)
(* and a cancel by exact key or by Task id.  The handler and the worker share *)
(* a PipelineSlot, everybody shares the receipt row, the lifecycle link and   *)
(* the Task, and each durable write is a step of its own.  Crashes and the    *)
(* startup reconciliation are in ReceiptRecovery, which extends this module.  *)
(*                                                                          *)
(* Test hooks are off, as in the product build.  The lifecycle link carries    *)
(* its own version in the code; nobody but the thread that owns the Task's     *)
(* attempt rewrites a link, so it is left out and a write that would store    *)
(* the same projection again (authorize_not_begun_bound_task_start) too.      *)
(***************************************************************************)
EXTENDS TaskRecords

CONSTANTS
    MaxCancels,      \* bound: cancel commands
    MaxFaults,       \* bound: failed store calls
    MaxCrashes       \* bound: crashes of the process

ASSUME RuntimeAssumption == MaxCancels \in Nat /\ MaxFaults \in Nat /\ MaxCrashes \in Nat

VARIABLES
    row,             \* the receipt row of the invocation
    link,            \* its lifecycle link
    task,            \* its Task
    pc,              \* pc[t]: what thread t does next
    ver,             \* ver[t]: the row version thread t expects
    rec,             \* rec[t]: the Task as thread t last saw it
    mode,            \* how the worker came to its handoff
    slot,            \* the PipelineSlot: decision, begun (cutoff claimed), stash
    inline,          \* the inline worker: idle, running, executing, reported
    out,             \* the outcome of the attempt, once there is one
    token,           \* the active cancellation token: off, on, cancelled
    lock,            \* the key's stripe of submit_fences
    cancel,          \* the cancel command: its step, its route, what it read
    reply,           \* what the handler answered
    proc,            \* the process: up, stopping (fail-stop), startup, refused
    why,             \* history: why the process stopped or refused to start
    ran,             \* history: how often the operation was entered
    authority,       \* factual_outcome_authority of the execution that returned, else none
    staged,          \* history: the terminal ever staged in the row
    counts           \* history: cancels, faults, crashes so far; early: a cancel came before
                     \* the attempt was marked begun

stores == <<row, link, task>>
attempt == <<pc, ver, rec, mode, slot, inline, out, reply>>
control == <<token, lock, cancel, proc, why>>
history == <<ran, authority, staged, counts>>
vars == <<stores, attempt, control, history>>

Threads == {"handler", "worker", "startup"}
Modes == {"none", "cutoff", "long", "owner", "bound", "promised"}
Decisions == {"Waiting", "HandoffInProgress", "HandlerOwns", "PromotedByOwner"}
NoCancel == [pc |-> "idle", by |-> "key", ver |-> 0, live |-> FALSE]

Init ==
    /\ row = NewRow /\ link = NoLink /\ task = NoTask
    /\ pc = [handler |-> "Wait", worker |-> "Admit", startup |-> "Idle"]
    /\ ver = [t \in Threads |-> 1] /\ rec = [t \in Threads |-> NoTask]
    /\ mode = "none" /\ slot = [decision |-> "Waiting", begun |-> FALSE, stash |-> FALSE]
    /\ inline = "idle" /\ out = NoEnd /\ token = "on" /\ lock = "free"
    /\ cancel = NoCancel /\ reply = "none" /\ proc = "up" /\ why = "none"
    /\ ran = 0 /\ authority = "none" /\ staged = NoEnd
    /\ counts = [cancels |-> 0, faults |-> 0, crashes |-> 0, early |-> FALSE]

Alive == proc \in {"up", "stopping"}
Stopping == proc = "stopping"
Settled == slot.decision # "HandoffInProgress"   \* what promoted_by_owner waits for
Promoted == slot.decision = "PromotedByOwner"

Goto(t, p) == pc' = [pc EXCEPT ![t] = p]
At(t, p) == pc[t] = p /\ (IF t = "startup" THEN proc = "startup" ELSE Alive)
Release(t) == lock' = IF lock = t THEN "free" ELSE lock
Latch(reason) == /\ proc' = IF proc = "up" THEN "stopping" ELSE proc
                 /\ why' = IF proc = "up" THEN reason ELSE why

(***************************************************************************)
(* An error on thread t.  The startup refuses to open; the handler takes the  *)
(* invocation back and answers with the error; the worker goes on to settle   *)
(* what it leaves behind.  stop: the error also latches the fail-stop.        *)
(***************************************************************************)
Fail(t, stop, reason) ==
    /\ Release(t)
    /\ CASE t = "startup" ->
              /\ proc' = "refused" /\ why' = reason
              /\ Goto(t, "Idle") /\ UNCHANGED <<slot, reply, token>>
         [] t = "handler" ->
              /\ Goto(t, "Replied") /\ reply' = "error"
              /\ slot' = [slot EXCEPT !.decision = "HandlerOwns"]
              /\ IF stop THEN Latch(reason) ELSE UNCHANGED <<proc, why>>
              /\ UNCHANGED token
         [] t = "worker" ->
              /\ Goto(t, "Error") /\ token' = "off" /\ UNCHANGED <<slot, reply>>
              /\ IF stop THEN Latch(reason) ELSE UNCHANGED <<proc, why>>
    /\ UNCHANGED <<stores, ver, rec, mode, inline, out, cancel, ran, authority, staged>>

\* The steps at which a thread calls a store.
StoreSteps == {"PreEnd", "PreEndWrite", "BindWrite", "BindPromised", "MarkBegun", "Direct",
               "Handoff", "Stage", "Promote", "Reserve", "Create", "CancelNew", "BindLink",
               "Complete", "PublishStaged", "LinkStaged", "CompleteStaged", "Start", "Refresh",
               "MarkLink", "CancelLocal", "Reread", "PublishLocal", "Publish", "LinkEnd"}

\* A store call of a live thread fails before its write is visible: its deadline
\* passed, or (stop) its failure is one that needs a restart, as every failure to
\* publish the outcome of a detached execution does.
StoreFault(t, stop) ==
    /\ counts.faults < MaxFaults /\ Alive /\ pc[t] \in StoreSteps
    /\ t = "worker" /\ mode \in {"cutoff", "long"} /\ pc[t] \in {"Publish", "LinkEnd"} => stop
    /\ Fail(t, stop, "fault")
    /\ counts' = [counts EXCEPT !.faults = @ + 1]

(***************************************************************************)
(* Admission and actor bind on the pipeline worker (run_reserved_pipeline).   *)
(***************************************************************************)
\* The actor bind returned with its token still clear.  Reading the slot for the
\* next deadline waits out a promotion in progress.
AdmitEnds(ok) ==
    /\ At("worker", "Admit") /\ token = "on" /\ Settled
    /\ token' = "off"
    /\ Goto("worker", IF ok THEN "BindActor" ELSE "PreEnd")
    /\ out' = IF ok THEN out ELSE "Rejected"
    /\ UNCHANGED <<stores, ver, rec, mode, slot, inline, reply, lock, cancel, proc, why, history>>

\* The workspace registry failed: the refusal is published, the process stops.
AdmitRegistryFails ==
    /\ At("worker", "Admit") /\ token = "on" /\ Settled
    /\ token' = "off" /\ Goto("worker", "PreEnd") /\ out' = "Failed" /\ Latch("fault")
    /\ counts.faults < MaxFaults /\ counts' = [counts EXCEPT !.faults = @ + 1]
    /\ UNCHANGED <<stores, ver, rec, mode, slot, inline, reply, lock, cancel, ran, authority,
                   staged>>

\* The token was signalled during the bind: end the attempt if it is still unbound.
AdmitCancelled ==
    /\ At("worker", "Admit") /\ token = "cancelled"
    /\ token' = "off"
    /\ IF row.kind \in {"Unbound", "PromisedUnbound"}
       THEN Goto("worker", "PreEnd") /\ out' = IF Stopping THEN "Interrupted" ELSE "Cancelled"
       ELSE Goto("worker", "Done") /\ UNCHANGED out
    /\ UNCHANGED <<stores, ver, rec, mode, slot, inline, reply, lock, cancel, proc, why, history>>

\* publish_pre_actor_terminal reads the row again, then publishes at its version.
PreEnd ==
    /\ At("worker", "PreEnd")
    /\ IF row.kind \in ReservedPhases \cup {"PromisedUnbound"}
       THEN /\ Goto("worker", "PreEndWrite") /\ ver' = [ver EXCEPT !["worker"] = row.ver]
            /\ UNCHANGED <<stores, rec, mode, slot, inline, out, reply, control, history>>
       ELSE Fail("worker", FALSE, "none") /\ UNCHANGED counts

PreEndWrite ==
    /\ At("worker", "PreEndWrite")
    /\ IF row.ver = ver["worker"]
       THEN /\ row' = RowEnded(row, IF row.kind = "PromisedUnbound" THEN "TaskTerminal"
                                    ELSE "DirectTerminal", out)
            /\ Goto("worker", "Done")
            /\ UNCHANGED <<link, task, ver, rec, mode, slot, inline, out, reply, control, history>>
       ELSE Fail("worker", FALSE, "none") /\ UNCHANGED counts

\* Read the row once the actor is bound: a promised row is continued as a Task.
BindActor ==
    /\ At("worker", "BindActor")
    /\ Goto("worker", IF row.kind = "PromisedUnbound" THEN "BindPromised" ELSE "BindWrite")
    /\ ver' = [ver EXCEPT !["worker"] = IF row.kind = "PromisedUnbound" THEN row.ver ELSE 1]
    /\ UNCHANGED <<stores, rec, mode, slot, inline, out, reply, control, history>>

\* Variant: neither the version nor the cancel of the row is compared.
MayAdvanceUnchecked(kind) == row.kind = kind

\* transition_reserved_phase: the exact version, and no cancel on the row.
MayAdvance(kind) == row.kind = kind /\ row.ver = ver["worker"] /\ ~row.cancel

\* bind_reserved_actor at the version of the reservation.
BindWrite ==
    /\ At("worker", "BindWrite")
    /\ IF MayAdvance("Unbound")
       THEN /\ row' = RowStep(row, "ActorBound") /\ Goto("worker", "MarkBegun")
            /\ ver' = [ver EXCEPT !["worker"] = row.ver + 1]
       ELSE Goto("worker", "BindLost") /\ UNCHANGED <<row, ver>>
    /\ UNCHANGED <<link, task, rec, mode, slot, inline, out, reply, control, history>>

\* The bind failed: only a promotion by the handler explains it away.
BindLost ==
    /\ At("worker", "BindLost") /\ Settled
    /\ IF Promoted /\ row.kind = "PromisedUnbound"
       THEN /\ Goto("worker", "BindPromised") /\ ver' = [ver EXCEPT !["worker"] = row.ver]
            /\ UNCHANGED <<stores, rec, mode, slot, inline, out, reply, control, history>>
       ELSE Fail("worker", FALSE, "none") /\ UNCHANGED counts

\* continue_promised: bind_promised_task_actor.
BindPromised ==
    /\ At("worker", "BindPromised")
    /\ IF row.kind = "PromisedUnbound" /\ row.ver = ver["worker"]
       THEN /\ row' = RowStep(row, "PromisedBound") /\ mode' = "promised"
            /\ Goto("worker", "Handoff") /\ ver' = [ver EXCEPT !["worker"] = row.ver + 1]
            /\ UNCHANGED <<link, task, rec, slot, inline, out, reply, control, history>>
       ELSE Fail("worker", FALSE, "none") /\ UNCHANGED counts

MarkBegun ==
    /\ At("worker", "MarkBegun")
    /\ IF MayAdvance("ActorBound")
       THEN /\ row' = RowStep(row, "Begun") /\ Goto("worker", "Claim")
            /\ ver' = [ver EXCEPT !["worker"] = row.ver + 1]
       ELSE Goto("worker", "BegunLost") /\ UNCHANGED <<row, ver>>
    /\ UNCHANGED <<link, task, rec, mode, slot, inline, out, reply, control, history>>

\* The begun mark failed: continue_handoff if the handler committed a handoff.
BegunLost ==
    /\ At("worker", "BegunLost") /\ Settled
    /\ IF Promoted /\ row.kind = "Handoff"
       THEN /\ Goto("worker", "Lock") /\ mode' = "bound"
            /\ UNCHANGED <<stores, ver, rec, slot, inline, out, reply, control, history>>
       ELSE Fail("worker", FALSE, "none") /\ UNCHANGED counts

\* take_owner_materialized and claim_cutoff: execute the Task the handler left in
\* the slot, or take the cutoff over and start the inline worker.
Claim ==
    /\ At("worker", "Claim") /\ (slot.stash \/ Settled)
    /\ IF slot.stash
       THEN /\ slot' = [slot EXCEPT !.stash = FALSE] /\ mode' = "owner"
            /\ rec' = [rec EXCEPT !["worker"] = rec["handler"]]
            /\ Goto("worker", "Register") /\ UNCHANGED <<inline, token>>
       ELSE /\ slot' = [slot EXCEPT !.begun = TRUE] /\ inline' = "running"
            /\ token' = "on" /\ Goto("worker", "Drive") /\ UNCHANGED <<mode, rec>>
    /\ UNCHANGED <<stores, ver, out, reply, lock, cancel, proc, why, history>>

(***************************************************************************)
(* The inline worker and the drive that waits for it until the cutoff         *)
(* (drive_inline_invocation, commit_cutoff_handoff).                          *)
(***************************************************************************)
\* Variant: what was started or committed is not asked for.
ReturnedUnasked(fact) ==
    IF token # "cancelled" THEN "Done" ELSE IF Stopping THEN "Interrupted" ELSE "Cancelled"

\* provider_outcome, the end of an execution: a signalled token makes it cancelled, or
\* interrupted when the process is stopping by now, unless an external process started
\* or a change was committed (fact).
Returned(fact) ==
    IF fact \/ token # "cancelled" THEN "Done"
    ELSE IF Stopping THEN "Interrupted" ELSE "Cancelled"

\* An execution returns; its authority says whether it left facts behind.
Returns(fact) ==
    /\ out' = Returned(fact) /\ authority' = IF fact THEN "Factual" ELSE "Cancellable"
    /\ UNCHANGED <<ran, staged, counts>>

\* run_inline_worker up to the provider: refuse to run in a stopping process, be
\* rejected or classified as long by prepare, or enter the provider.  The stop is asked
\* for before prepare and again before the provider, so prepare may see it come.
InlineStart ==
    /\ Alive /\ inline = "running"
    /\ \/ Stopping /\ inline' = "reported" /\ out' = "Interrupted" /\ UNCHANGED ran
       \/ inline' = "reported" /\ out' \in {"Rejected", "Long"} /\ UNCHANGED ran
       \/ ~Stopping /\ inline' = "executing" /\ ran' = ran + 1 /\ UNCHANGED out
    /\ UNCHANGED <<stores, pc, ver, rec, mode, slot, reply, control, authority, staged, counts>>

\* run_inline_worker, the provider returned: the process may be stopping by now.
InlineReturn(fact) ==
    /\ Alive /\ inline = "executing"
    /\ inline' = "reported" /\ Returns(fact)
    /\ UNCHANGED <<stores, pc, ver, rec, mode, slot, reply, control>>

\* A report inside the budget: publish it directly, or hand a long operation off.
DriveReport ==
    /\ At("worker", "Drive") /\ inline = "reported"
    /\ token' = "off"
    /\ IF out = "Long" THEN Goto("worker", "Handoff") /\ mode' = "long"
                       ELSE Goto("worker", "Direct") /\ UNCHANGED mode
    /\ UNCHANGED <<stores, ver, rec, slot, inline, out, reply, lock, cancel, proc, why, history>>

\* The response budget is over and the inline worker has not reported.
DriveCutoff ==
    /\ At("worker", "Drive") /\ inline \in {"running", "executing"}
    /\ Goto("worker", "Handoff") /\ mode' = "cutoff"
    /\ UNCHANGED <<stores, ver, rec, slot, inline, out, reply, control, history>>

\* publish_direct_terminal at the version the begun mark returned.
Direct ==
    /\ At("worker", "Direct")
    /\ IF row.kind \in ReservedPhases /\ row.ver = ver["worker"]
       THEN /\ row' = RowEnded(row, "DirectTerminal", out) /\ Goto("worker", "Done")
            /\ UNCHANGED <<link, task, ver, rec, mode, slot, inline, out, reply, control, history>>
       ELSE Fail("worker", FALSE, "none") /\ UNCHANGED counts

\* begin_bound_task_handoff at the version this attempt last wrote.
Handoff ==
    /\ At("worker", "Handoff")
    /\ IF row.kind \in {"Begun", "PromisedBound"} /\ row.ver = ver["worker"]
       THEN /\ row' = [RowStep(row, "Handoff") EXCEPT !.begun = row.kind = "Begun"]
            /\ ver' = [ver EXCEPT !["worker"] = row.ver + 1]
            /\ Goto("worker", IF mode = "cutoff" THEN "Look" ELSE "Reserve")
            /\ UNCHANGED <<link, task, rec, mode, slot, inline, out, reply, control, history>>
       ELSE Fail("worker", FALSE, "none") /\ UNCHANGED counts

\* Does the inline slot hold an outcome by now?
LookForOutcome ==
    /\ At("worker", "Look")
    /\ Goto("worker", IF out \in Ends \ {"Rejected"} THEN "Stage" ELSE "Reserve")
    /\ UNCHANGED <<stores, ver, rec, mode, slot, inline, out, reply, control, history>>

\* stage_bound_task_handoff_terminal: an outcome found in the inline slot goes into
\* the row before any Task exists.
Stage ==
    /\ At("worker", "Stage")
    /\ IF row.kind = "Handoff" /\ row.ver = ver["worker"]
       THEN /\ row' = RowStaged(row, out) /\ staged' = out
            /\ ver' = [ver EXCEPT !["worker"] = row.ver + 1] /\ Goto("worker", "Reserve")
            /\ UNCHANGED <<link, task, rec, mode, slot, inline, out, reply, control, ran, authority,
                           counts>>
       ELSE Fail("worker", FALSE, "none") /\ UNCHANGED counts

(***************************************************************************)
(* The handler at the cutoff (execute_reserved_invocation, promote_at_cutoff).*)
(***************************************************************************)
\* Variant: a worker that fails makes no report.
WorkerReportsReplies ==
    \/ pc["worker"] = "Done"
    \/ /\ mode \in {"cutoff", "long"}
       /\ pc["worker"] \in {"Await", "Execute", "Executing", "Publish", "LinkEnd"}

\* Has the worker reported?  A long or handed-off attempt reports with its Task.
WorkerReported ==
    \/ pc["worker"] \in {"Done", "Failed"}
    \/ /\ mode \in {"cutoff", "long"}
       /\ pc["worker"] \in {"Await", "Execute", "Executing", "Publish", "LinkEnd"}

HandlerReply ==
    /\ At("handler", "Wait") /\ WorkerReported
    /\ Goto("handler", "Replied")
    /\ reply' = CASE pc["worker"] = "Failed" -> "error"
                  [] row.kind = "DirectTerminal" -> "direct"
                  [] OTHER -> "task"
    /\ slot' = [slot EXCEPT !.decision = "HandlerOwns"]
    /\ UNCHANGED <<stores, ver, rec, mode, inline, out, control, history>>

\* The cutoff passed before the drive claimed it: read the row, and promote it if it
\* is still reserved.
HandlerCutoff ==
    /\ At("handler", "Wait") /\ ~WorkerReported /\ ~slot.begun /\ slot.decision = "Waiting"
    /\ row.kind \in ReservedPhases
    /\ slot' = [slot EXCEPT !.decision = "HandoffInProgress"]
    /\ ver' = [ver EXCEPT !["handler"] = row.ver] /\ Goto("handler", "Promote")
    /\ UNCHANGED <<stores, rec, mode, inline, out, reply, control, history>>

\* promise_task_unbound or begin_bound_task_handoff at the version just read; the
\* Task of a begun attempt is materialized before the handler answers.
HandlerPromote ==
    /\ At("handler", "Promote")
    /\ IF row.ver = ver["handler"] /\ row.kind \in ReservedPhases
       THEN /\ row' = [RowStep(row, IF row.kind = "Unbound" THEN "PromisedUnbound" ELSE "Handoff")
                       EXCEPT !.begun = row.kind = "Begun"]
            /\ ver' = [ver EXCEPT !["handler"] = row.ver + 1]
            /\ IF row.kind = "Begun"
               THEN Goto("handler", "Lock") /\ UNCHANGED <<slot, reply>>
               ELSE /\ Goto("handler", "Replied") /\ reply' = "task"
                    /\ slot' = [slot EXCEPT !.decision = "PromotedByOwner"]
            /\ UNCHANGED <<link, task, rec, mode, inline, out, control, history>>
       ELSE Fail("handler", FALSE, "none") /\ UNCHANGED counts

\* stash_owner_materialized, then the decision, then the answer.
HandlerStash ==
    /\ At("handler", "Stash")
    /\ slot' = [slot EXCEPT !.stash = TRUE] /\ Goto("handler", "Answer")
    /\ UNCHANGED <<stores, ver, rec, mode, inline, out, reply, control, history>>

HandlerAnswer ==
    /\ At("handler", "Answer")
    /\ slot' = [slot EXCEPT !.decision = "PromotedByOwner"] /\ reply' = "task"
    /\ Goto("handler", "Replied")
    /\ UNCHANGED <<stores, ver, rec, mode, inline, out, control, history>>

(***************************************************************************)
(* A committed handoff becomes a Task (complete_handoff_into_task), on the     *)
(* worker, on the handler of a begun attempt, or at startup.                  *)
(***************************************************************************)
\* Does t reserve the link before it takes the key's lock?
ReservesFirst(t) == t = "worker" /\ mode \in {"cutoff", "long", "promised"}

ReserveLink(t) ==
    /\ At(t, "Reserve")
    /\ IF link.kind \in {"None", "Reservation"}
       THEN /\ link' = Reservation /\ Goto(t, IF ReservesFirst(t) THEN "Lock" ELSE "Create")
            /\ UNCHANGED <<row, task, ver, rec, mode, slot, inline, out, reply, control, history>>
       ELSE Fail(t, TRUE, "materialized") /\ UNCHANGED counts

\* reread_handoff_under_lock: the row as it is under the key's lock.
TakeKeyLock(t) ==
    /\ At(t, "Lock") /\ lock = "free"
    /\ lock' = t
    /\ ver' = [ver EXCEPT ![t] = IF row.kind = "Handoff" THEN row.ver ELSE @]
    /\ Goto(t, IF ReservesFirst(t) THEN "Create" ELSE "Reserve")
    /\ UNCHANGED <<stores, rec, mode, slot, inline, out, reply, token, cancel, proc, why, history>>

\* create_exact and the read back.
CreateTask(t) ==
    /\ At(t, "Create")
    /\ IF task = NoTask \/ CreateMatches(row, task)
       THEN /\ task' = IF task = NoTask THEN NewTask(row) ELSE task
            /\ rec' = [rec EXCEPT ![t] = task']
            /\ Goto(t, IF row.cancel /\ ~task'.cancel THEN "CancelNew" ELSE "BindLink")
            /\ UNCHANGED <<row, link, ver, mode, slot, inline, out, reply, control, history>>
       ELSE Fail(t, TRUE, "created") /\ UNCHANGED counts

\* The cancel the row carries is copied to the Task before the link exists.
CancelNewTask(t) ==
    /\ At(t, "CancelNew")
    /\ IF task.ver = rec[t].ver
       THEN /\ task' = TaskCancelled(task) /\ rec' = [rec EXCEPT ![t] = task']
            /\ Goto(t, "BindLink")
            /\ UNCHANGED <<row, link, ver, mode, slot, inline, out, reply, control, history>>
       ELSE Fail(t, TRUE, "version") /\ UNCHANGED counts

\* Where a thread goes on once its Task is bound and the row is gone.
AfterHandoff(t) ==
    CASE t = "startup" -> "Terminalize"
      [] t = "handler" -> "Stash"
      [] t = "worker" -> CASE mode = "cutoff" -> "Await"
                           [] mode = "long" -> "Register"
                           [] OTHER -> "Start"

\* Variant: the row is deleted before its link is bound.
BindLinkLate(t) ==
    /\ At(t, "BindLink")
    /\ row' = RowStep(row, "Gone") /\ Release(t) /\ Goto(t, AfterHandoff(t))
    /\ UNCHANGED <<link, task, ver, rec, mode, slot, inline, out, reply, token, cancel, proc, why,
                   history>>

\* materialize_task_bound: the reservation becomes the link of the Task.
BindLink(t) ==
    /\ At(t, "BindLink")
    /\ IF link.kind = "Reservation"
       THEN /\ link' = Bound(rec[t], row.begun)
            /\ Goto(t, IF row.kind = "Handoff" /\ row.end # NoEnd THEN "PublishStaged"
                       ELSE "Complete")
            /\ UNCHANGED <<row, task, ver, rec, mode, slot, inline, out, reply, control, history>>
       ELSE Fail(t, TRUE, "link") /\ UNCHANGED counts

\* complete_bound_task_handoff: the row is deleted, the link owns the invocation.
CompleteHandoff(t) ==
    /\ At(t, "Complete")
    /\ IF /\ row.kind \in ActorBoundTask /\ row.end = NoEnd /\ CompletesRow(row, link)
          /\ (t = "startup" \/ row.ver = ver[t])
       THEN /\ row' = RowStep(row, "Gone") /\ Release(t) /\ Goto(t, AfterHandoff(t))
            /\ UNCHANGED <<link, task, ver, rec, mode, slot, inline, out, reply, token, cancel,
                           proc, why, history>>
       ELSE Fail(t, TRUE, "complete") /\ UNCHANGED counts

\* Variant: a staged handoff ends as an uncertain one.
PublishStagedUncertain(t) ==
    /\ At(t, "PublishStaged")
    /\ task' = EndedTask(rec[t], "Uncertain") /\ Goto(t, "LinkStaged")
    /\ UNCHANGED <<row, link, ver, rec, mode, slot, inline, out, reply, control, history>>

\* publish_staged_terminal_against_exact_provisional: the provisional Task, or its
\* terminal successor from before a crash.
PublishStaged(t) ==
    /\ At(t, "PublishStaged")
    /\ IF rec[t].cancel = row.cancel /\ link.ver = rec[t].ver
            /\ task \in {rec[t], EndedTask(rec[t], row.end)}
       THEN /\ task' = EndedTask(rec[t], row.end) /\ Goto(t, "LinkStaged")
            /\ UNCHANGED <<row, link, ver, rec, mode, slot, inline, out, reply, control, history>>
       ELSE Fail(t, TRUE, "staged") /\ UNCHANGED counts

LinkStaged(t) ==
    /\ At(t, "LinkStaged")
    /\ link' = TerminalBound(link, task) /\ Goto(t, "CompleteStaged")
    /\ UNCHANGED <<row, task, ver, rec, mode, slot, inline, out, reply, control, history>>

\* complete_staged_task_handoff: only a terminal link lets the staged row go.
CompleteStaged(t) ==
    /\ At(t, "CompleteStaged")
    /\ IF link.kind = "TerminalBound" /\ link.end = row.end
       THEN /\ row' = RowStep(row, "Gone") /\ Release(t)
            /\ Goto(t, IF t = "startup" THEN "Tasks" ELSE "Done")
            /\ token' = IF t = "worker" THEN "off" ELSE token
            /\ UNCHANGED <<link, task, ver, rec, mode, slot, inline, out, reply, cancel, proc, why,
                           history>>
       ELSE Fail(t, TRUE, "staged") /\ UNCHANGED counts

(***************************************************************************)
(* A bound Task on the thread that holds its attempt                          *)
(* (continue_into_bound_task, drive_prepared_bound_task).                     *)
(***************************************************************************)
\* start_working_if_not_cancel_requested: a cancel that came first wins.
StartTask ==
    /\ At("worker", "Start")
    /\ IF task.cancel \/ TaskEnded(task)
       THEN /\ rec' = [rec EXCEPT !["worker"] = task] /\ Goto("worker", "Refresh")
            /\ UNCHANGED <<stores, ver, mode, slot, inline, out, reply, control, history>>
       ELSE IF task.ver = rec["worker"].ver
       THEN /\ task' = TaskWorking(task) /\ rec' = [rec EXCEPT !["worker"] = task']
            /\ Goto("worker", "MarkLink")
            /\ UNCHANGED <<row, link, ver, mode, slot, inline, out, reply, control, history>>
       ELSE Fail("worker", TRUE, "version") /\ UNCHANGED counts

\* refresh_task_bound_projection after a cancel won.
RefreshLink ==
    /\ At("worker", "Refresh")
    /\ link' = Bound(rec["worker"], link.begun) /\ Goto("worker", "CancelLocal")
    /\ UNCHANGED <<row, task, ver, rec, mode, slot, inline, out, reply, control, history>>

\* mark_task_bound_begun, with the Task as StartTask left it.
MarkLinkBegun ==
    /\ At("worker", "MarkLink")
    /\ link' = Bound(rec["worker"], TRUE) /\ Goto("worker", "Register")
    /\ UNCHANGED <<row, task, ver, rec, mode, slot, inline, out, reply, control, history>>

\* publish_terminal_exact at the version of the Task this thread saw last.
PublishSeen(end, next) ==
    IF task.ver = rec["worker"].ver /\ AcceptsEnd(task, end)
    THEN /\ task' = EndedTask(task, end) /\ Goto("worker", next)
         /\ UNCHANGED <<row, link, ver, rec, mode, slot, inline, out, reply, control, history>>
    ELSE Fail("worker", TRUE, "version") /\ UNCHANGED counts

CancelLocal == At("worker", "CancelLocal") /\ PublishSeen("Cancelled", "LinkEnd")

\* register_bound_task_cancellation: the token first, then the Task is read again.
RegisterToken ==
    /\ At("worker", "Register")
    /\ token' = "on" /\ Goto("worker", "Reread")
    /\ UNCHANGED <<stores, ver, rec, mode, slot, inline, out, reply, lock, cancel, proc, why,
                   history>>

\* Variant: the Task is not read again once the token is registered.
RereadSkipped ==
    /\ At("worker", "Reread")
    /\ Goto("worker", IF mode = "long" THEN "Execute" ELSE "Prepare")
    /\ UNCHANGED <<stores, ver, rec, mode, slot, inline, out, reply, control, history>>

\* A cancel that is already on the Task ends it unstarted.
RereadCancel ==
    /\ At("worker", "Reread")
    /\ IF task.cancel
       THEN Goto("worker", "Publish") /\ out' = "Cancelled"
       ELSE Goto("worker", IF mode = "long" THEN "Execute" ELSE "Prepare") /\ UNCHANGED out
    /\ UNCHANGED <<stores, ver, rec, mode, slot, inline, reply, control, history>>

\* prepare: the operation goes on, is rejected, or meets a stopping process.
Prepare(verdict) ==
    /\ At("worker", "Prepare")
    /\ verdict = "Interrupted" => Stopping
    /\ IF verdict = "run" THEN Goto("worker", "Execute") /\ UNCHANGED out
                          ELSE Goto("worker", "PublishLocal") /\ out' = verdict
    /\ UNCHANGED <<stores, ver, rec, mode, slot, inline, reply, control, history>>

PublishLocal == At("worker", "PublishLocal") /\ PublishSeen(out, "LinkEnd")

\* provider_outcome on this thread or on the long one spawned for it: interrupted
\* unentered in a stopping process, else entered.
Execute ==
    /\ At("worker", "Execute")
    /\ IF Stopping THEN Goto("worker", "Publish") /\ out' = "Interrupted" /\ UNCHANGED ran
                   ELSE Goto("worker", "Executing") /\ ran' = ran + 1 /\ UNCHANGED out
    /\ UNCHANGED <<stores, ver, rec, mode, slot, inline, reply, control, authority, staged, counts>>

ExecuteReturn(fact) ==
    /\ At("worker", "Executing") /\ Goto("worker", "Publish") /\ Returns(fact)
    /\ UNCHANGED <<stores, ver, rec, mode, slot, inline, reply, control>>

\* Variant: whatever the inline worker reported is executed by the Task.
AwaitReportExecutes ==
    /\ At("worker", "Await") /\ inline = "reported"
    /\ Goto("worker", "Execute")
    /\ UNCHANGED <<stores, ver, rec, mode, slot, inline, out, reply, control, history>>

\* The inline report of an attempt that is a Task by now.
AwaitReport ==
    /\ At("worker", "Await") /\ inline = "reported"
    /\ Goto("worker", IF out = "Long" THEN "Execute" ELSE "Publish")
    /\ UNCHANGED <<stores, ver, rec, mode, slot, inline, out, reply, control, history>>

\* task_outcome_after_cancel: a recorded cancel replaces an outcome that no started
\* process and no committed change stands behind.
FinalEnd == IF task.cancel /\ authority # "Factual" THEN "Cancelled" ELSE out

\* publish_task_execution_outcome: under the terminal gate, which a cancel holds until
\* it has signalled or ended the Task, on the Task as it is now.
PublishOutcome ==
    /\ At("worker", "Publish") /\ cancel.pc \notin {"signal", "taskend", "linkend"}
    /\ IF TaskEnded(task) \/ link.kind = "TerminalBound"
       THEN /\ Goto("worker", "Done") /\ token' = "off"
            /\ UNCHANGED <<stores, ver, rec, mode, slot, inline, out, reply, lock, cancel, proc, why,
                           history>>
       ELSE IF AcceptsEnd(task, FinalEnd)
       THEN /\ task' = EndedTask(task, FinalEnd) /\ Goto("worker", "LinkEnd")
            /\ UNCHANGED <<row, link, ver, rec, mode, slot, inline, out, reply, control, history>>
       ELSE Fail("worker", TRUE, "outcome") /\ UNCHANGED counts

\* publish_task_terminal_bound.
LinkEnd(t) ==
    /\ At(t, "LinkEnd")
    /\ link' = TerminalBound(link, task)
    /\ Goto(t, IF t = "startup" THEN "Tasks" ELSE "Done")
    /\ token' = "off"
    /\ UNCHANGED <<row, task, ver, rec, mode, slot, inline, out, reply, lock, cancel, proc, why,
                   history>>

(***************************************************************************)
(* What a failed attempt leaves behind (settle_abandoned_promotion).           *)
(***************************************************************************)
Settle ==
    /\ At("worker", "Error") /\ Settled
    /\ CASE Promoted /\ ~Stopping /\ row.kind = "PromisedUnbound" ->
              /\ Goto("worker", "SettleEnd") /\ ver' = [ver EXCEPT !["worker"] = row.ver]
              /\ UNCHANGED <<proc, why>>
         [] Promoted /\ ~Stopping /\ row.kind \in ActorBoundTask ->
              Goto("worker", "Failed") /\ Latch("abandoned") /\ UNCHANGED ver
         [] OTHER -> Goto("worker", "Failed") /\ UNCHANGED <<ver, proc, why>>
    /\ UNCHANGED <<stores, rec, mode, slot, inline, out, reply, token, lock, cancel, history>>

SettleEnd ==
    /\ At("worker", "SettleEnd")
    /\ IF row.kind = "PromisedUnbound" /\ row.ver = ver["worker"]
       THEN row' = RowEnded(row, "TaskTerminal", "Failed") /\ UNCHANGED <<proc, why>>
       ELSE Latch("abandoned") /\ UNCHANGED row
    /\ Goto("worker", "Failed")
    /\ UNCHANGED <<link, task, ver, rec, mode, slot, inline, out, reply, token, lock, cancel,
                   history>>

\* The fail-stop is one flag of the process: a failed store call of another invocation
\* latches it under this one's feet.
StopElsewhere ==
    /\ proc = "up" /\ counts.faults < MaxFaults
    /\ Latch("elsewhere") /\ counts' = [counts EXCEPT !.faults = @ + 1]
    /\ UNCHANGED <<stores, attempt, token, lock, cancel, ran, authority, staged>>

\* cancel_active_attempts_after_fail_stop.
FailStopCancels ==
    /\ Stopping /\ token = "on" /\ token' = "cancelled"
    /\ UNCHANGED <<stores, attempt, lock, cancel, proc, why, history>>

(***************************************************************************)
(* A cancel by exact key (cancel_invocation_canonical) or by Task id           *)
(* (cancel_stored_task).  It holds the key's lock from its first read on.      *)
(***************************************************************************)
CancelUnchanged == UNCHANGED <<attempt, ran, authority, staged>>
CancelDone == cancel' = NoCancel /\ lock' = "free"

\* live_attempts: the pipeline thread of this invocation has not returned.
AttemptLive == pc["worker"] \notin {"Done", "Failed", "Dead"}

CancelArrives(by) ==
    /\ proc = "up" /\ cancel.pc = "idle" /\ counts.cancels < MaxCancels
    /\ cancel' = [NoCancel EXCEPT !.pc = "wait", !.by = by]
    /\ counts' = [counts EXCEPT !.cancels = @ + 1]
    /\ UNCHANGED <<stores, attempt, token, lock, proc, why, ran, authority, staged>>

\* Under the key's lock: the Task through its link, else the row.  A reserved row is
\* only cancelled by its key, in any phase; between bind and Begun no token exists.
CancelTake ==
    /\ Alive /\ cancel.pc = "wait" /\ lock = "free"
    /\ LET next(p) == /\ cancel' = [cancel EXCEPT !.pc = p, !.ver = row.ver, !.live = AttemptLive]
                      /\ lock' = "cancel" IN
       CASE link.kind \in LinkRecords ->
              /\ next("signal") /\ task' = TaskCancelled(task) /\ UNCHANGED row
              /\ counts' = [counts EXCEPT !.early = @ \/ ~link.begun]
         [] link.kind \notin LinkRecords /\ row.kind \in ReservedPhases /\ cancel.by = "key" ->
              /\ IF row.kind = "ActorBound" THEN CancelDone ELSE next("signal")
              /\ row' = RowCancelled(row) /\ UNCHANGED task
              /\ counts' = [counts EXCEPT !.early = @ \/ row.kind # "Begun"]
         [] link.kind \notin LinkRecords /\ row.kind \in ActorBoundTask \cup {"PromisedUnbound"} ->
              next("mark") /\ UNCHANGED <<row, task, counts>>
         [] OTHER -> CancelDone /\ UNCHANGED <<row, task, counts>>
    /\ UNCHANGED <<link, token, proc, why>> /\ CancelUnchanged

\* request_task_cancel on the state just read; the row may have moved on.
CancelMark ==
    /\ Alive /\ cancel.pc = "mark"
    /\ IF row.ver = cancel.ver
       THEN /\ row' = RowCancelled(row) /\ UNCHANGED lock
            /\ cancel' = [cancel EXCEPT !.ver = row'.ver, !.pc =
                 IF \/ row.kind = "PromisedUnbound"
                    \/ cancel.by = "id" /\ ~cancel.live /\ ~row.begun
                 THEN "end" ELSE "signal"]
            /\ counts' = [counts EXCEPT !.early = @ \/ ~row.begun]
       ELSE CancelDone /\ UNCHANGED <<row, counts>>
    /\ UNCHANGED <<link, task, token, proc, why>> /\ CancelUnchanged

\* publish_receipt_backed_task_terminal: no attempt is left to end this Task.
CancelEnd ==
    /\ Alive /\ cancel.pc = "end"
    /\ IF row.ver = cancel.ver
       THEN /\ row' = RowEnded(row, "TaskTerminal", "Cancelled") /\ UNCHANGED lock
            /\ cancel' = [cancel EXCEPT !.pc = "signal"]
       ELSE CancelDone /\ UNCHANGED row
    /\ UNCHANGED <<link, task, token, proc, why, counts>> /\ CancelUnchanged

\* Signal the token; a bound Task that never began and has no attempt is ended here.
CancelSignal ==
    /\ Alive /\ cancel.pc = "signal"
    /\ token' = IF token = "on" THEN "cancelled" ELSE token
    /\ IF /\ cancel.by = "id" /\ ~cancel.live
          /\ link.kind = "TaskBound" /\ ~link.begun /\ task.cancel
       THEN cancel' = [cancel EXCEPT !.pc = "taskend"] /\ UNCHANGED lock
       ELSE CancelDone
    /\ UNCHANGED <<stores, proc, why, counts>> /\ CancelUnchanged

CancelTaskEnd ==
    /\ Alive /\ cancel.pc = "taskend"
    /\ IF AcceptsEnd(task, "Cancelled")
       THEN /\ task' = EndedTask(task, "Cancelled") /\ UNCHANGED <<lock, proc, why>>
            /\ cancel' = [cancel EXCEPT !.pc = "linkend"]
       ELSE CancelDone /\ Latch("version") /\ UNCHANGED task
    /\ UNCHANGED <<row, link, token, counts>> /\ CancelUnchanged

CancelLinkEnd ==
    /\ Alive /\ cancel.pc = "linkend"
    /\ link' = TerminalBound(link, task) /\ CancelDone
    /\ UNCHANGED <<row, task, token, proc, why, counts>> /\ CancelUnchanged

(***************************************************************************)
(* The steps of a live process, by thread.                                    *)
(***************************************************************************)
Materialize(t) ==
    \/ ReserveLink(t) \/ TakeKeyLock(t) \/ CreateTask(t) \/ CancelNewTask(t) \/ BindLink(t)
    \/ CompleteHandoff(t) \/ PublishStaged(t) \/ LinkStaged(t) \/ CompleteStaged(t)

Worker ==
    \/ \E ok \in BOOLEAN : AdmitEnds(ok)
    \/ AdmitRegistryFails \/ AdmitCancelled \/ PreEnd \/ PreEndWrite
    \/ BindActor \/ BindWrite \/ BindLost \/ BindPromised \/ MarkBegun \/ BegunLost \/ Claim
    \/ DriveReport \/ DriveCutoff \/ Direct \/ Handoff \/ LookForOutcome \/ Stage
    \/ Materialize("worker")
    \/ StartTask \/ RefreshLink \/ MarkLinkBegun \/ CancelLocal \/ RegisterToken \/ RereadCancel
    \/ \E verdict \in {"run", "Rejected", "Interrupted"} : Prepare(verdict)
    \/ PublishLocal \/ Execute \/ AwaitReport \/ PublishOutcome \/ LinkEnd("worker")
    \/ \E fact \in BOOLEAN : ExecuteReturn(fact)
    \/ Settle \/ SettleEnd

Handler ==
    \/ HandlerReply \/ HandlerCutoff \/ HandlerPromote \/ HandlerStash \/ HandlerAnswer
    \/ Materialize("handler")

Canceller ==
    \/ CancelTake \/ CancelMark \/ CancelEnd \/ CancelSignal \/ CancelTaskEnd \/ CancelLinkEnd

InlineWorker == InlineStart \/ \E fact \in BOOLEAN : InlineReturn(fact)

Live ==
    \/ Worker \/ Handler \/ InlineWorker \/ Canceller \/ StopElsewhere \/ FailStopCancels
    \/ \E by \in {"key", "id"} : CancelArrives(by)
    \/ \E t \in {"worker", "handler"}, stop \in BOOLEAN : StoreFault(t, stop)
=============================================================================
