----------------------------- MODULE TaskRecords -----------------------------
(***************************************************************************)
(* The three durable records of one invocation and the writes their stores   *)
(* accept: the receipt row (receipt_store.rs), the Task (task_store.rs) and   *)
(* the lifecycle link between them (lifecycle_link_store.rs).  Every write    *)
(* compares the version it expects with the stored one; versions only grow.  *)
(* Exact-key identity fields, epochs and TTLs never change and are left out. *)
(***************************************************************************)
EXTENDS Naturals

\* How an attempt or a recovery can end.  "Done" is the operation's own success
\* or error, "Rejected" a refusal before it started, "Interrupted" an attempt ended by
\* the fail-stop of its process or found unstarted by recovery, "Failed" an abandoned
\* promotion; "Uncertain" is written by recovery alone.
Ends == {"Done", "Rejected", "Cancelled", "Failed", "Interrupted", "Uncertain"}
NoEnd == "none"

\* ReservedPhase, and the other states of a row.
ReservedPhases == {"Unbound", "ActorBound", "Begun"}
ActorBoundTask == {"PromisedBound", "Handoff"}
RowKinds == ReservedPhases \cup ActorBoundTask
            \cup {"PromisedUnbound", "DirectTerminal", "TaskTerminal", "Gone"}

\* begun is the AttemptPhase of a handoff, end its staged terminal or the terminal
\* of a DirectTerminal or TaskTerminal (receipt-backed) row.
Rows == [kind : RowKinds, ver : Nat, cancel : BOOLEAN, begun : BOOLEAN, end : Ends \cup {NoEnd}]
NewRow == [kind |-> "Unbound", ver |-> 1, cancel |-> FALSE, begun |-> FALSE, end |-> NoEnd]

RowStep(r, kind) == [r EXCEPT !.kind = kind, !.ver = @ + 1]
\* commit_reserved_cancel and request_task_cancel: a row that already carries the
\* cancel is returned as it is.
RowCancelled(r) == IF r.cancel THEN r ELSE [r EXCEPT !.cancel = TRUE, !.ver = @ + 1]
RowEnded(r, kind, end) == [RowStep(r, kind) EXCEPT !.end = end]
RowStaged(r, end) == [r EXCEPT !.end = end, !.ver = @ + 1]

Statuses == {"Absent", "Queued", "Working"} \cup Ends
Tasks == [status : Statuses, ver : Nat, cancel : BOOLEAN]
NoTask == [status |-> "Absent", ver |-> 0, cancel |-> FALSE]
TaskEnded(t) == t.status \in Ends

\* A begun handoff is created working with the cancel of its row, any other queued.
NewTask(r) == [status |-> IF r.begun THEN "Working" ELSE "Queued", ver |-> 1,
               cancel |-> r.begun /\ r.cancel]

\* matches_record: may create_exact return the Task that exists?
CreateMatches(r, t) == r.begun => t.status = "Working" /\ t.cancel = r.cancel

TaskCancelled(t) ==
    IF t.cancel \/ TaskEnded(t) THEN t ELSE [t EXCEPT !.cancel = TRUE, !.ver = @ + 1]
TaskWorking(t) == [t EXCEPT !.status = "Working", !.ver = @ + 1]
EndedTask(t, end) == [t EXCEPT !.status = end, !.ver = @ + 1]

\* Does publish_terminal_exact accept `end` for a Task in this state?
AcceptsEnd(t, end) ==
    IF end = "Cancelled" THEN t.cancel /\ t.status \in {"Queued", "Working"}
    ELSE t.status = "Working"

LinkKinds == {"None", "Reservation", "TaskBound", "TerminalBound"}
Links == [kind : LinkKinds, ver : Nat, begun : BOOLEAN, end : Ends \cup {NoEnd}]
NoLink == [kind |-> "None", ver |-> 0, begun |-> FALSE, end |-> NoEnd]
Reservation == [NoLink EXCEPT !.kind = "Reservation"]
LinkRecords == {"TaskBound", "TerminalBound"}
Bound(t, begun) == [kind |-> "TaskBound", ver |-> t.ver, begun |-> begun, end |-> NoEnd]
TerminalBound(l, t) == [l EXCEPT !.kind = "TerminalBound", !.ver = t.ver, !.end = t.status]

\* task_matches of complete_bound_task_handoff: the version a link may have when
\* its row is deleted.
CompletesRow(r, l) ==
    /\ l.kind = "TaskBound" /\ l.begun = r.begun
    /\ l.ver \in IF ~r.cancel THEN {1} ELSE IF r.begun THEN {1, 2} ELSE {2}

\* task_bound_matches_record: the Task the link describes, or its successor by the
\* one write that the process may have made after the link's last one.
BoundMatches(l, t) ==
    /\ l.kind = "TaskBound"
    /\ \/ t.ver = l.ver
       \/ /\ t.ver = l.ver + 1
          /\ t.cancel \/ (~l.begun /\ t.status = "Working") \/ TaskEnded(t)

TerminalMatches(l, t) == l.kind = "TerminalBound" /\ l.end = t.status /\ l.ver = t.ver
=============================================================================
