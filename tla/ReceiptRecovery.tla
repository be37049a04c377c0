--------------------------- MODULE ReceiptRecovery ---------------------------
(***************************************************************************)
(* receipt_runtime.rs, the other half of ReceiptRuntime: the process crashes   *)
(* or stops after a fail-stop, and its successor reconciles the three stores    *)
(* before it listens: it inspects the Tasks of handoffs without writing, ends   *)
(* the receipt row, then ends every Task the row no longer owns.  Every write   *)
(* of the startup is a step, so a second crash can come between any two.        *)
(***************************************************************************)
EXTENDS ReceiptRuntime

(***************************************************************************)
(* The process goes; what is durable stays.                                   *)
(***************************************************************************)
Restarted ==
    /\ proc' = "startup" /\ token' = "off" /\ lock' = "free" /\ cancel' = NoCancel
    /\ pc' = [handler |-> "Dead", worker |-> "Dead", startup |-> "Preflight"]
    /\ slot' = [decision |-> "Waiting", begun |-> FALSE, stash |-> FALSE]
    /\ inline' = "idle" /\ out' = NoEnd /\ mode' = "none"
    /\ ver' = [t \in Threads |-> 0] /\ rec' = [t \in Threads |-> NoTask]
    /\ UNCHANGED <<stores, reply, why, ran, authority, staged>>

Crash ==
    /\ proc # "refused" /\ counts.crashes < MaxCrashes
    /\ Restarted /\ counts' = [counts EXCEPT !.crashes = @ + 1]

\* A process that latched its fail-stop exits and is started again.
Exit == Stopping /\ Restarted /\ UNCHANGED counts

(***************************************************************************)
(* preflight_existing_handoff_tasks.                                          *)
(***************************************************************************)
\* staged_handoff_startup_plan: the Task a staged row may find behind its link.
StagedPlan ==
    LET provisional == [status |-> "Working", ver |-> link.ver, cancel |-> row.cancel] IN
    \/ link.kind \notin LinkRecords
    \/ link.kind = "TaskBound" /\ link.begun = row.begun
         /\ task \in {provisional, EndedTask(provisional, row.end)}
    \/ TerminalMatches(link, task) /\ link.end = row.end

\* A link that became TaskBound before its row went: adopted as it is.
Adopted ==
    /\ link.kind = "TaskBound" /\ link.begun = row.begun /\ BoundMatches(link, task)
    /\ task.status = IF row.begun THEN "Working" ELSE "Queued"
    /\ (task.cancel = row.cancel \/ ~task.cancel \/ task.ver = link.ver + 1)

\* A Task whose link is still a reservation.
Unlinked ==
    /\ link.kind = "Reservation"
    /\ IF row.begun THEN task.status = "Working" /\ task.cancel = row.cancel
       ELSE task.status = "Queued" /\ (task.cancel => row.cancel)

\* Variant: a Task behind a reservation is refused.
PreflightNoReservation ==
    /\ At("startup", "Preflight")
    /\ IF row.kind = "Handoff" => task = NoTask \/ Adopted
       THEN /\ Goto("startup", "Row")
            /\ UNCHANGED <<stores, ver, rec, mode, slot, inline, out, reply, control, history>>
       ELSE Fail("startup", FALSE, "preflight") /\ UNCHANGED counts

Preflight ==
    /\ At("startup", "Preflight")
    /\ IF row.kind = "Handoff" =>
            \/ row.end # NoEnd /\ link.kind \in LinkRecords /\ StagedPlan
            \/ (row.end # NoEnd => link.kind \notin LinkRecords)
               /\ (task = NoTask \/ Adopted \/ Unlinked)
       THEN /\ Goto("startup", "Row")
            /\ UNCHANGED <<stores, ver, rec, mode, slot, inline, out, reply, control, history>>
       ELSE Fail("startup", FALSE, "preflight") /\ UNCHANGED counts

(***************************************************************************)
(* reconcile_pre_task_startup: the receipt row.                                *)
(***************************************************************************)
\* What recovery makes of an attempt without a saved terminal.
RecoveryEnd(begun, cancelled) ==
    IF begun THEN "Uncertain" ELSE IF cancelled THEN "Cancelled" ELSE "Interrupted"

StartupNext(p) ==
    /\ Goto("startup", p)
    /\ UNCHANGED <<ver, mode, slot, inline, out, reply, control, history>>

\* A reserved or promised row ends in place, a Task that has an actor is
\* materialized, a staged terminal is published where its link says it got to.
RecoverRow ==
    /\ At("startup", "Row")
    /\ CASE row.kind \in ReservedPhases ->
              /\ row' = RowEnded(row, "DirectTerminal", RecoveryEnd(row.kind = "Begun", row.cancel))
              /\ StartupNext("Tasks") /\ UNCHANGED rec
         [] row.kind = "PromisedUnbound" ->
              /\ row' = RowEnded(row, "TaskTerminal", RecoveryEnd(FALSE, row.cancel))
              /\ StartupNext("Tasks") /\ UNCHANGED rec
         [] row.kind = "PromisedBound" -> StartupNext("Reserve") /\ UNCHANGED <<row, rec>>
         [] row.kind = "Handoff" ->
              /\ StartupNext(IF link.kind \notin LinkRecords THEN "Reserve"
                             ELSE IF row.end = NoEnd THEN "Complete"
                             ELSE IF link.kind = "TaskBound" THEN "PublishStaged"
                             ELSE "CompleteStaged")
              /\ rec' = [rec EXCEPT !["startup"] =
                    IF row.end = NoEnd THEN task
                    ELSE [status |-> "Working", ver |-> link.ver, cancel |-> row.cancel]]
              /\ UNCHANGED row
         [] OTHER -> StartupNext("Tasks") /\ UNCHANGED <<row, rec>>
    /\ UNCHANGED <<link, task>>

\* terminalize_recovered_exact.
Terminalize ==
    /\ At("startup", "Terminalize")
    /\ task' = EndedTask(task, RecoveryEnd(link.begun, task.cancel)) /\ UNCHANGED <<row, link, rec>>
    /\ StartupNext("LinkEnd")

(***************************************************************************)
(* reconcile_materialized_startup: every Task the links own.                   *)
(***************************************************************************)
\* Variant: the startup leaves a Task alone that already ended.
RecoverTasksSkip ==
    /\ At("startup", "Tasks")
    /\ IF BoundMatches(link, task) /\ ~TaskEnded(task)
       THEN Goto("startup", "Terminalize") /\ UNCHANGED <<proc, why>>
       ELSE proc' = "up" /\ Goto("startup", "Idle") /\ UNCHANGED why
    /\ UNCHANGED <<stores, ver, rec, mode, slot, inline, out, reply, token, lock, cancel, history>>

RecoverTasks ==
    /\ At("startup", "Tasks")
    /\ CASE link.kind \notin LinkRecords /\ task = NoTask ->
              /\ proc' = "up" /\ Goto("startup", "Idle") /\ UNCHANGED why
         [] TerminalMatches(link, task) ->
              /\ proc' = "up" /\ Goto("startup", "Idle") /\ UNCHANGED why
         [] BoundMatches(link, task) /\ TaskEnded(task) ->
              Goto("startup", "LinkEnd") /\ UNCHANGED <<proc, why>>
         [] BoundMatches(link, task) /\ ~TaskEnded(task)
              /\ (link.begun => task.status = "Working") ->
              Goto("startup", "Terminalize") /\ UNCHANGED <<proc, why>>
         [] OTHER ->
              /\ proc' = "refused" /\ Goto("startup", "Idle")
              /\ why' = IF link.kind \in LinkRecords THEN "lag" ELSE "orphan"
    /\ UNCHANGED <<stores, ver, rec, mode, slot, inline, out, reply, token, lock, cancel, history>>

Startup ==
    \/ Preflight \/ RecoverRow \/ Materialize("startup") \/ Terminalize
    \/ LinkEnd("startup") \/ RecoverTasks

Next == Live \/ Crash \/ Exit \/ Startup

Spec == Init /\ [][Next]_vars

\* Every thread goes on while it can; an executing operation and a cancelled bind
\* return (the code gives them no deadline of its own and relies on it).
Fairness == WF_vars(Worker) /\ WF_vars(Handler) /\ WF_vars(InlineWorker)
            /\ WF_vars(Canceller) /\ WF_vars(Startup) /\ WF_vars(Exit)
LiveSpec == Spec /\ Fairness

(***************************************************************************)
(* Properties.                                                               *)
(***************************************************************************)
\* The state is well typed.
TypeOK ==
    /\ row \in Rows /\ link \in Links /\ task \in Tasks
    /\ DOMAIN pc = Threads /\ DOMAIN ver = Threads /\ rec \in [Threads -> Tasks]
    /\ mode \in Modes /\ slot.decision \in Decisions
    /\ inline \in {"idle", "running", "executing", "reported"} /\ out \in Ends \cup {NoEnd, "Long"}
    /\ token \in {"off", "on", "cancelled"}
    /\ lock \in {"free", "cancel", "worker", "handler"}
    /\ reply \in {"none", "direct", "task", "error"}
    /\ proc \in {"up", "stopping", "startup", "refused"} /\ ran \in Nat
    /\ authority \in {"none", "Cancellable", "Factual"}

RowEnd == row.kind \in {"DirectTerminal", "TaskTerminal"}
Ended == (IF RowEnd THEN {row.end} ELSE {}) \cup ({task.status} \cap Ends)

\* An invocation never loses its record while it moves between the stores, and never
\* ends in two of them: once the row is deleted its Task exists and the lifecycle link
\* leads to it (complete_bound_task_handoff comes after materialize_task_bound), and
\* while the row holds a terminal the Task holds none.
OneHome ==
    /\ row.kind = "Gone" => task # NoTask /\ link.kind \in LinkRecords
    /\ RowEnd => ~TaskEnded(task)

\* The operation is executed at most once, whichever of the inline worker, the
\* promoted attempt and the long thread gets it, and never again after a restart.
RunsOnce == ran <= 1

\* The reported end tells what happened to the operation, through handoffs, fail-stop
\* and recovery.  An operation that was entered ends with its own result or as
\* uncertain; it ends as cancelled or interrupted only if the provider returned without
\* having started a process or committed a change, and as interrupted only if its
\* process latched the fail-stop (provider_outcome).  One that was never entered never
\* ends with a result.
HonestEnds ==
    /\ ran > 0 => Ended \subseteq {"Done", "Uncertain"} \cup
                    (IF authority = "Cancellable" THEN {"Cancelled", "Interrupted"} ELSE {})
    /\ ran > 0 /\ "Interrupted" \in Ended => why # "none"
    /\ ran = 0 => "Done" \notin Ended

\* A terminal staged in the receipt before its Task existed is the terminal the Task
\* ends with, by the process that staged it or by its successor.
StagedWins == staged # NoEnd /\ TaskEnded(task) => task.status = staged

\* While a bound Task is prepared or executed, a cancel recorded on it has reached
\* the attempt's token, or its command is just about to signal it: registering the
\* token and then reading the Task again leaves no gap.
CancelReachesTask ==
    /\ Alive /\ task.cancel
    /\ \/ pc["worker"] \in {"Prepare", "Execute", "Executing"}
       \/ pc["worker"] = "Await" /\ inline \in {"running", "executing"}
    => token = "cancelled" \/ cancel.pc = "signal"

\* A cancel accepted before the attempt was marked begun keeps the operation from
\* being executed, wherever the invocation is on its way into a Task.
EarlyCancelHolds == counts.early => ran = 0

\* A daemon that accepts work after a restart has left nothing of its predecessor
\* working: the invocation ended in its receipt, or in its Task and its link.
RecoverySettles ==
    proc = "up" /\ pc["worker"] = "Dead" =>
        RowEnd \/ (row.kind = "Gone" /\ TerminalMatches(link, task))

\* Without a failed store call, a startup refuses the stores of its predecessor in two
\* situations only: the Task is two writes ahead of its link, or an earlier startup
\* died after it bound the Task of a promised row.
RefusalsKnown ==
    proc = "refused" /\ counts.faults = 0 =>
        \/ link.kind = "TaskBound" /\ task.ver = link.ver + 2
        \/ row.kind = "PromisedBound" /\ link.kind = "TaskBound"

\* The handler of an accepted call answers it, unless its process dies.
CallAnswered == <>(pc["handler"] \in {"Replied", "Dead"})

\* Without cancels and failed store calls an accepted call comes to its end in its
\* receipt or its Task, through every handoff and through a crash at any step; only
\* the startup after a second crash may refuse instead (RefusalsKnown says when).
CallSettles ==
    [](counts.cancels = 0 /\ counts.faults = 0) =>
        <>(\/ Ended # {} /\ (row.kind = "Gone" => link.kind = "TerminalBound")
           \/ proc = "refused" /\ counts.crashes > 1)

(***************************************************************************)
(* What the documentation says and the code does not do.                      *)
(***************************************************************************)
\* task-terminal-reconciliation: a crash between saving the result and updating the
\* link loses nothing, the startup brings both to one terminal.
TerminalReconciles == ~(proc = "refused" /\ TaskEnded(task) /\ counts.faults = 0)

\* task-recovery: a saved intent to hand the call to a Task restores that Task.
PromiseRecovers == ~(proc = "refused" /\ row.kind = "PromisedBound" /\ counts.faults = 0)

\* settle_abandoned_promotion: a still-unbound promise gets a failed terminal.
UnboundPromiseEnds ==
    ~(Stopping /\ why = "abandoned" /\ row.kind = "PromisedUnbound" /\ counts.faults = 0)

\* admission-failure-isolation: a Task that is refused or cancelled stops itself only,
\* here one whose prepare is rejected while it is cancelled.
RejectionStopsNobodyElse == ~(Stopping /\ why = "version" /\ counts.faults = 0)

\* admission-failure-isolation: a cancel that stops the admission ends the call, here
\* one that comes between the bind of the actor and the Begun mark.
CancelEndsAdmission ==
    proc = "up" /\ pc["worker"] = "Failed" /\ counts.faults = 0 =>
        ~(row.cancel /\ row.kind = "ActorBound")

\* invocation-handoff: the outcome of the attempt becomes the terminal of the Task.
HandoffOutcomeKept ==
    proc = "up" /\ pc["worker"] = "Failed" /\ counts.faults = 0 =>
        ~(row.kind = "Handoff" /\ out = "Done")

\* drive_inline_invocation: a running attempt is cancellable from Begun on.
BegunIsCancellable ==
    Alive /\ inline \in {"running", "executing"} /\ pc["worker"] = "Drive" /\ row.cancel =>
        token = "cancelled" \/ cancel.pc = "signal"
=============================================================================
