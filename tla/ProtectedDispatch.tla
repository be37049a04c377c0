------------------------- MODULE ProtectedDispatch -------------------------
(***************************************************************************)
(* crates/unica-work-control/src/cancellation.rs and the callers that make *)
(* it matter: the spawn and the poll loop of a managed process             *)
(* (unica-process), the handoff of a launched client (v13_client_run.rs),  *)
(* the execution of a saved apply plan (unica-workspace/src/actor.rs) and  *)
(* the classification of the outcome (receipt_runtime.rs).                 *)
(*                                                                         *)
(* A cancellation token is a signal, a gate shared with its linked         *)
(* children, and two facts: "a protected process started" and "an apply    *)
(* committed". Raising the signal and crossing the dispatch boundary take  *)
(* the same gate, so that each dispatch is either before or after a        *)
(* cancel, and the facts decide which of the two the client is told.       *)
(***************************************************************************)
EXTENDS Naturals

CONSTANTS
    Calls,      \* executing calls, each with its own token
    NoCall      \* nobody holds the lane

ASSUME NoCallAssumption == NoCall \notin Calls

VARIABLES
    kind,       \* what the call runs (chosen at the start)
    own,        \* own_signal of the call's token
    linked,     \* own_signal of the linked child an analysis runs under
    gate,       \* dispatch_gate of the token, held by the dispatching call
    started,    \* protected_started
    fact,       \* factual_outcome: CommittedWorkspaceApply was recorded
    proc,       \* the process tree of the call
    pc,         \* where the thread of the call stands
    result,     \* what the provider returned
    outcome,    \* the published terminal outcome
    asked,      \* cancel_requested of the task record
    stopping,   \* the process latched fail-stop (restart_required)
    lane,       \* the call that holds the execution lane of the saved plan
    saved,      \* SavedApplyState of the plan
    applied     \* history: what the publication by this call did

vars == <<kind, own, linked, gate, started, fact, proc, pc, result, outcome,
          asked, stopping, lane, saved, applied>>

Kinds == {"read", "analysis", "mutation", "launch", "apply"}

(* The thread of a call. "gated" and "spawned" hold the gate of a protected *)
(* spawn, "release" and "released" that of a handoff.                       *)
PCs == {"ready", "gated", "spawned", "poll", "reap", "verify", "release", "released",
        "publish", "record", "answered", "judge", "settle", "done"}

(* How publish_prepared_apply_under_lane ends: the plan is committed, it has *)
(* nothing to change, it is refused and everything taken back, or the       *)
(* rollback of the refused plan leaves something behind.                    *)
Publications == {"Committed", "Unchanged", "Refused", "RollbackIncomplete"}

TypeOK ==
    /\ kind \in [Calls -> Kinds]
    /\ own \in [Calls -> BOOLEAN] /\ linked \in [Calls -> BOOLEAN]
    /\ gate \in [Calls -> BOOLEAN]
    /\ started \in [Calls -> BOOLEAN] /\ fact \in [Calls -> BOOLEAN]
    /\ proc \in [Calls -> {"none", "running", "exited", "killed", "released"}]
    /\ pc \in [Calls -> PCs]
    /\ result \in [Calls -> {"none", "Completed", "Failed", "Interrupted", "Cancelled"}]
    /\ outcome \in [Calls -> {"none", "Completed", "Failed", "Interrupted", "Cancelled"}]
    /\ asked \in [Calls -> BOOLEAN] /\ stopping \in BOOLEAN
    /\ lane \in Calls \cup {NoCall}
    /\ saved \in {"Pending", "Running"} \cup Publications
    /\ applied \in [Calls -> Publications]

\* CancellationToken::new of every call, and a plan nobody has executed.
Init ==
    /\ kind \in [Calls -> Kinds]
    /\ own = [c \in Calls |-> FALSE] /\ linked = [c \in Calls |-> FALSE]
    /\ gate = [c \in Calls |-> FALSE]
    /\ started = [c \in Calls |-> FALSE] /\ fact = [c \in Calls |-> FALSE]
    /\ proc = [c \in Calls |-> "none"] /\ pc = [c \in Calls |-> "ready"]
    /\ result = [c \in Calls |-> "none"] /\ outcome = [c \in Calls |-> "none"]
    /\ asked = [c \in Calls |-> FALSE] /\ stopping = FALSE
    /\ lane = NoCall /\ saved = "Pending"
    /\ applied = [c \in Calls |-> "Unchanged"]

-----------------------------------------------------------------------------
(* The token.                                                               *)

\* is_cancelled of the call's token: its only observed signal is its own.
IsCancelled(c) == own[c]

\* Variant: the work of every call runs under a new token.
WorkCancelledDetached(c) == kind[c] = "analysis" /\ linked[c]

(* is_cancelled of the token the work of a call runs under: an analysis runs *)
(* under a linked child, a protected process under the new token            *)
(* spawn_with_gate returns, which nobody cancels.                           *)
WorkCancelled(c) ==
    CASE kind[c] = "analysis" -> own[c] \/ linked[c]
      [] kind[c] = "mutation" -> FALSE
      [] OTHER -> own[c]

\* factual_outcome_authority: a committed apply outweighs a started process.
Authority(c) ==
    IF fact[c] THEN "CommittedWorkspaceApply"
    ELSE IF started[c] THEN "StartedExternalProcess"
    ELSE "Cancellable"

\* The token's signal is stored under the gate: cancel waits for a dispatch.
Raise(c) == ~gate[c] /\ own' = [own EXCEPT ![c] = TRUE]

-----------------------------------------------------------------------------
(* Who cancels.                                                             *)

\* The cancel request is first recorded in the task ...
RequestCancel(c) ==
    /\ ~asked[c] /\ pc[c] # "done"
    /\ asked' = [asked EXCEPT ![c] = TRUE]
    /\ UNCHANGED <<kind, own, linked, gate, started, fact, proc, pc, result, outcome,
                   stopping, lane, saved, applied>>

\* ... and then signalled to the registered token.
SignalCancel(c) ==
    /\ asked[c] /\ ~own[c] /\ pc[c] # "done"
    /\ Raise(c)
    /\ UNCHANGED <<kind, linked, gate, started, fact, proc, pc, result, outcome, asked,
                   stopping, lane, saved, applied>>

\* A store fault latches fail-stop ...
LatchStop ==
    /\ ~stopping
    /\ stopping' = TRUE
    /\ UNCHANGED <<kind, own, linked, gate, started, fact, proc, pc, result, outcome, asked,
                   lane, saved, applied>>

\* ... and cancel_all then asks every active attempt to stop.
SignalStop(c) ==
    /\ stopping /\ ~own[c] /\ pc[c] # "done"
    /\ Raise(c)
    /\ UNCHANGED <<kind, linked, gate, started, fact, proc, pc, result, outcome, asked,
                   stopping, lane, saved, applied>>

\* A call that does not yield cancels the linked child of a yielding analysis.
Preempt(c) ==
    /\ kind[c] = "analysis" /\ pc[c] \in {"poll", "reap"} /\ ~linked[c] /\ ~gate[c]
    /\ linked' = [linked EXCEPT ![c] = TRUE]
    /\ UNCHANGED <<kind, own, gate, started, fact, proc, pc, result, outcome, asked,
                   stopping, lane, saved, applied>>

-----------------------------------------------------------------------------
(* A managed process.                                                       *)

\* The provider returned `r` with the process tree in state `p`.
Answer(c, r, p) ==
    /\ result' = [result EXCEPT ![c] = r]
    /\ proc' = [proc EXCEPT ![c] = p]
    /\ pc' = [pc EXCEPT ![c] = "answered"]

\* spawn_with_gate without protection: no gate, and a refused launch is an error.
Spawn(c) ==
    /\ kind[c] \in {"read", "analysis", "launch"} /\ pc[c] = "ready"
    /\ \/ /\ proc' = [proc EXCEPT ![c] = "running"]
          /\ pc' = [pc EXCEPT ![c] = "poll"]
          /\ UNCHANGED result
       \/ Answer(c, "Failed", "none")
    /\ UNCHANGED <<kind, own, linked, gate, started, fact, outcome, asked, stopping,
                   lane, saved, applied>>

\* Variant: the signal is read before the gate is taken.
EnterSpawnUnchecked(c) ==
    /\ kind[c] = "mutation" /\ pc[c] = "ready" /\ ~gate[c]
    /\ gate' = [gate EXCEPT ![c] = TRUE]
    /\ pc' = [pc EXCEPT ![c] = "gated"]
    /\ UNCHANGED <<kind, own, linked, started, fact, proc, result, outcome, asked, stopping,
                   lane, saved, applied>>

\* spawn_with_gate under protection: take the gate, then look at the signal.
EnterSpawn(c) ==
    /\ kind[c] = "mutation" /\ pc[c] = "ready" /\ ~gate[c]
    /\ \/ /\ IsCancelled(c)
          /\ Answer(c, "Failed", "none")
          /\ UNCHANGED gate
       \/ /\ ~IsCancelled(c)
          /\ gate' = [gate EXCEPT ![c] = TRUE]
          /\ pc' = [pc EXCEPT ![c] = "gated"]
          /\ UNCHANGED <<proc, result>>
    /\ UNCHANGED <<kind, own, linked, started, fact, outcome, asked, stopping,
                   lane, saved, applied>>

\* The launch under the gate succeeds, or fails and claims nothing.
Launch(c) ==
    /\ pc[c] = "gated"
    /\ \/ /\ proc' = [proc EXCEPT ![c] = "running"]
          /\ pc' = [pc EXCEPT ![c] = "spawned"]
          /\ UNCHANGED <<gate, result>>
       \/ /\ Answer(c, "Failed", "none")
          /\ gate' = [gate EXCEPT ![c] = FALSE]
    /\ UNCHANGED <<kind, own, linked, started, fact, outcome, asked, stopping,
                   lane, saved, applied>>

\* Variant: the start is not recorded in the original token.
LeaveSpawnUnrecorded(c) ==
    /\ pc[c] = "spawned"
    /\ gate' = [gate EXCEPT ![c] = FALSE]
    /\ pc' = [pc EXCEPT ![c] = "poll"]
    /\ UNCHANGED <<kind, own, linked, started, fact, proc, result, outcome, asked, stopping,
                   lane, saved, applied>>

\* protected_started is stored before the gate is released.
LeaveSpawn(c) ==
    /\ pc[c] = "spawned"
    /\ started' = [started EXCEPT ![c] = TRUE]
    /\ gate' = [gate EXCEPT ![c] = FALSE]
    /\ pc' = [pc EXCEPT ![c] = "poll"]
    /\ UNCHANGED <<kind, own, linked, fact, proc, result, outcome, asked, stopping,
                   lane, saved, applied>>

\* One turn of the wait: a cancelled tree is terminated, otherwise it is reaped.
Poll(c) ==
    /\ pc[c] = "poll"
    /\ \/ WorkCancelled(c) /\ Answer(c, "Failed", "killed")
       \/ /\ ~WorkCancelled(c)
          /\ pc' = [pc EXCEPT ![c] = "reap"]
          /\ UNCHANGED <<proc, result>>
    /\ UNCHANGED <<kind, own, linked, gate, started, fact, outcome, asked, stopping,
                   lane, saved, applied>>

\* try_reap_leader finds the process still running and the loop turns ...
StillRunning(c) ==
    /\ pc[c] = "reap"
    /\ pc' = [pc EXCEPT ![c] = "poll"]
    /\ UNCHANGED <<kind, own, linked, gate, started, fact, proc, result, outcome, asked,
                   stopping, lane, saved, applied>>

\* ... or exited; the tree of a launched client outlives its runner.
Exited(c) ==
    /\ pc[c] = "reap"
    /\ \/ kind[c] # "launch" /\ \E r \in {"Completed", "Failed"} : Answer(c, r, "exited")
       \/ /\ kind[c] = "launch"
          /\ pc' = [pc EXCEPT ![c] = "verify"]
          /\ UNCHANGED <<proc, result>>
    /\ UNCHANGED <<kind, own, linked, gate, started, fact, outcome, asked, stopping,
                   lane, saved, applied>>

(* client_run: a launch receipt that is not valid drops the tree;           *)
(* handoff_with_gate looks at the signal under the gate.                    *)
EnterHandoff(c) ==
    /\ pc[c] = "verify"
    /\ \/ /\ Answer(c, "Failed", "killed")
          /\ UNCHANGED gate
       \/ /\ ~gate[c] /\ IsCancelled(c)
          /\ Answer(c, "Failed", "killed")
          /\ UNCHANGED gate
       \/ /\ ~gate[c] /\ ~IsCancelled(c)
          /\ gate' = [gate EXCEPT ![c] = TRUE]
          /\ pc' = [pc EXCEPT ![c] = "release"]
          /\ UNCHANGED <<proc, result>>
    /\ UNCHANGED <<kind, own, linked, started, fact, outcome, asked, stopping,
                   lane, saved, applied>>

\* The release succeeds, or fails and the caller drops the tree it still owns.
Release(c) ==
    /\ pc[c] = "release"
    /\ \/ /\ proc' = [proc EXCEPT ![c] = "released"]
          /\ pc' = [pc EXCEPT ![c] = "released"]
          /\ UNCHANGED <<gate, result>>
       \/ /\ Answer(c, "Failed", "killed")
          /\ gate' = [gate EXCEPT ![c] = FALSE]
    /\ UNCHANGED <<kind, own, linked, started, fact, outcome, asked, stopping,
                   lane, saved, applied>>

\* The end of handoff_with_gate.
LeaveHandoff(c) ==
    /\ pc[c] = "released"
    /\ started' = [started EXCEPT ![c] = TRUE]
    /\ gate' = [gate EXCEPT ![c] = FALSE]
    /\ Answer(c, "Completed", "released")
    /\ UNCHANGED <<kind, own, linked, fact, outcome, asked, stopping, lane, saved, applied>>

-----------------------------------------------------------------------------
(* The execution of a saved apply plan.                                     *)

\* The result the plan keeps for its publication.
Kept(publication) ==
    IF publication \in {"Committed", "Unchanged"} THEN "Completed" ELSE "Failed"

(* execute_saved_apply: a lane wait ends by its deadline or by the signal;  *)
(* a completed plan answers its first result, with its authority.           *)
EnterApply(c) ==
    /\ kind[c] = "apply" /\ pc[c] = "ready"
    /\ \/ /\ Answer(c, "Failed", "none")
          /\ UNCHANGED <<fact, lane, saved>>
       \/ /\ lane = NoCall /\ saved \in Publications
          /\ fact' = [fact EXCEPT ![c] = saved = "Committed"]
          /\ Answer(c, Kept(saved), "none")
          /\ UNCHANGED <<lane, saved>>
       \/ /\ lane = NoCall /\ saved = "Pending" /\ ~IsCancelled(c)
          /\ lane' = c
          /\ saved' = "Running"
          /\ pc' = [pc EXCEPT ![c] = "publish"]
          /\ UNCHANGED <<fact, proc, result>>
    /\ UNCHANGED <<kind, own, linked, gate, started, outcome, asked, stopping, applied>>

\* The publication ends; a conflict, the deadline or the signal refuses it.
PublishApply(c) ==
    /\ pc[c] = "publish"
    /\ \E publication \in Publications : applied' = [applied EXCEPT ![c] = publication]
    /\ pc' = [pc EXCEPT ![c] = "record"]
    /\ UNCHANGED <<kind, own, linked, gate, started, fact, proc, result, outcome, asked,
                   stopping, lane, saved>>

(* record_committed_apply is unconditional; the plan keeps result and       *)
(* authority.  Everything but a commit stays cancellable, a publication     *)
(* whose rollback was incomplete included.                                  *)
RecordApply(c) ==
    /\ pc[c] = "record"
    /\ fact' = [fact EXCEPT ![c] = applied[c] = "Committed"]
    /\ saved' = applied[c]
    /\ lane' = NoCall
    /\ Answer(c, Kept(applied[c]), "none")
    /\ UNCHANGED <<kind, own, linked, gate, started, outcome, asked, stopping, applied>>

-----------------------------------------------------------------------------
(* The outcome.                                                             *)

\* provider_outcome: a cancelled call without a fact is not what it returned.
Observe(c) ==
    /\ pc[c] = "answered"
    /\ pc' = [pc EXCEPT ![c] =
                IF IsCancelled(c) /\ Authority(c) = "Cancellable" THEN "judge" ELSE "settle"]
    /\ UNCHANGED <<kind, own, linked, gate, started, fact, proc, result, outcome, asked,
                   stopping, lane, saved, applied>>

\* Variant: a stop the process asked for is reported as a cancel.
JudgeAlways(c) ==
    /\ pc[c] = "judge"
    /\ result' = [result EXCEPT ![c] = "Cancelled"]
    /\ pc' = [pc EXCEPT ![c] = "settle"]
    /\ UNCHANGED <<kind, own, linked, gate, started, fact, proc, outcome, asked,
                   stopping, lane, saved, applied>>

\* A stop the process asked for on fail-stop is no cancel the client requested.
Judge(c) ==
    /\ pc[c] = "judge"
    /\ result' = [result EXCEPT ![c] = IF stopping THEN "Interrupted" ELSE "Cancelled"]
    /\ pc' = [pc EXCEPT ![c] = "settle"]
    /\ UNCHANGED <<kind, own, linked, gate, started, fact, proc, outcome, asked,
                   stopping, lane, saved, applied>>

\* task_outcome_after_cancel: a recorded request turns a candidate without a fact.
OutcomeAfterCancel(c) ==
    IF asked[c] /\ Authority(c) = "Cancellable" THEN "Cancelled" ELSE result[c]

\* publish_task_execution_outcome.
Settle(c) ==
    /\ pc[c] = "settle"
    /\ outcome' = [outcome EXCEPT ![c] = OutcomeAfterCancel(c)]
    /\ pc' = [pc EXCEPT ![c] = "done"]
    /\ UNCHANGED <<kind, own, linked, gate, started, fact, proc, result, asked,
                   stopping, lane, saved, applied>>

-----------------------------------------------------------------------------
\* A step of the thread that runs the call.
CallStep(c) ==
    \/ Spawn(c) \/ EnterSpawn(c) \/ Launch(c) \/ LeaveSpawn(c)
    \/ Poll(c) \/ StillRunning(c) \/ Exited(c)
    \/ EnterHandoff(c) \/ Release(c) \/ LeaveHandoff(c)
    \/ EnterApply(c) \/ PublishApply(c) \/ RecordApply(c)
    \/ Observe(c) \/ Judge(c) \/ Settle(c)

\* A step of somebody who cancels.
CancelStep(c) == RequestCancel(c) \/ SignalCancel(c) \/ SignalStop(c) \/ Preempt(c)

Next == LatchStop \/ \E c \in Calls : CallStep(c) \/ CancelStep(c)

Spec == Init /\ [][Next]_vars

(* The threads are scheduled; that a process exits is not assumed: a step   *)
(* that finds it still running is as fair as one that finds it gone.        *)
Fairness == \A c \in Calls : WF_vars(CallStep(c)) /\ WF_vars(SignalCancel(c))

LiveSpec == Spec /\ Fairness

-----------------------------------------------------------------------------
\* What the call changed outside: a mutation ran, a client runs on, a plan committed.
Effect(c) ==
    \/ kind[c] = "mutation" /\ proc[c] # "none"
    \/ proc[c] = "released"
    \/ applied[c] = "Committed"

(* A call that changed something outside is never reported Cancelled,       *)
(* however late the cancel request or the stop came, and a mutating process *)
(* that started is never terminated because of one: spawn_with_gate,        *)
(* handoff_with_gate and record_committed_apply record the fact before the  *)
(* classification in provider_outcome and task_outcome_after_cancel.  What  *)
(* an incomplete rollback leaves behind is no recorded fact, and a cancel   *)
(* does replace that error.                                                 *)
EffectKept ==
    \A c \in Calls :
        Effect(c) => /\ result[c] # "Cancelled" /\ outcome[c] # "Cancelled"
                     /\ kind[c] = "mutation" => proc[c] # "killed"

(* Once cancel() has returned for a token, no protected process is launched *)
(* and no client is handed off under it: the dispatch gate orders the two.  *)
NoStartAfterCancel ==
    [][\A c \in Calls :
          own[c] /\ proc'[c] # proc[c] =>
              /\ kind[c] = "mutation" => proc'[c] # "running"
              /\ proc'[c] # "released"]_vars

(* Cancelled is told only to a client that asked: neither a stop of the     *)
(* whole process, whichever way it races the classification, nor the        *)
(* preemption of an analysis by a call that does not yield is reported so.  *)
CancelledOnlyIfAsked ==
    \A c \in Calls : outcome[c] = "Cancelled" => asked[c]

(* A requested cancel ends a read, a preview or a launch that was not       *)
(* handed off even when its process hangs: the poll loop terminates it.     *)
CancelEndsReads ==
    \A c \in Calls : kind[c] # "mutation" /\ own[c] ~> pc[c] = "done"
=============================================================================
