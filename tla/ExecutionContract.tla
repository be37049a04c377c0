------------------------- MODULE ExecutionContract -------------------------
(***************************************************************************)
(* The pure decisions of crates/unica-execution-contract: what one event    *)
(* does to the record of one accepted invocation and to the volatile group  *)
(* of readers that joined it.  A decision authorizes nothing: persistence   *)
(* and the rights that follow it are ExecutionCoordinator's.                *)
(*                                                                          *)
(* Data kept: identities, owner, read authority, outcomes (a digest is the  *)
(* outcome it stands for).  Times are one fact per join, `timely': observed *)
(* not before the owner's window ended and within 30 s of the start.        *)
(***************************************************************************)
EXTENDS Naturals

CONSTANTS
    Key,         \* complete invocation keys
    Inv,         \* Inv[k]: the invocation id of key k
    Task,        \* Task[k]: the task id of key k
    Request,     \* Request[k]: core, tool, arguments and scope, compared by same_request
    ReadTool,    \* the keys whose tool only reads
    Owner,       \* owner capabilities of Submit
    Authority    \* read authorities a source adapter can present

ASSUME KeyAssumption ==
    /\ ReadTool \subseteq Key
    /\ Inv \in [Key -> Nat] /\ Task \in [Key -> Nat] /\ Request \in [Key -> Nat]

None == "none"
NoAuthority == "private"

\* "none" stands for an absent owner or begin, "private" for a begin that no reader can join.
ASSUME NoneAssumption ==
    None \notin Owner /\ None \notin Authority /\ NoAuthority \notin Authority

\* Completed{ok: true}, Completed{ok: false}, the two failures recovery invents
\* and Cancelled.
Outcome == {"ok", "rejected", "uncertain", "interrupted", "cancelled"}

TaskId == {Task[k] : k \in Key}
NoHolder == [generation |-> 0, cancelled |-> FALSE]

Record ==
    [revision : Nat, accepted : Owner \cup {None},
     begun : Authority \cup {NoAuthority, None}, cancel_requested : BOOLEAN,
     producer : Outcome \cup {None}, primary_override : {"cancelled", None},
     primary : Outcome \cup {None}, acknowledgement : Outcome \cup {None},
     public_task : BOOLEAN, compacted : BOOLEAN]

State ==
    [record : Record, holders : [TaskId -> [generation : Nat, cancelled : BOOLEAN]],
     membership_generation : Nat, joins_closed : BOOLEAN]

EmptyRecord ==
    [revision |-> 0, accepted |-> None, begun |-> None, cancel_requested |-> FALSE,
     producer |-> None, primary_override |-> None, primary |-> None,
     acknowledgement |-> None, public_task |-> FALSE, compacted |-> FALSE]

Empty ==
    [record |-> EmptyRecord, holders |-> [t \in TaskId |-> NoHolder],
     membership_generation |-> 0, joins_closed |-> FALSE]

\* Holders are volatile and a restored group accepts no new ones.
FromRecord(r) == [Empty EXCEPT !.record = r, !.joins_closed = TRUE]

HoldersOf(s) == {t \in TaskId : s.holders[t] # NoHolder}
AllCancelled(s) == \A t \in HoldersOf(s) : s.holders[t].cancelled

Primary(r) == IF r.primary_override # None THEN r.primary_override ELSE r.producer

\* Record::validate.
Valid(k, r) ==
    /\ r.revision > 0
    /\ r.accepted = None =>
           r = [EmptyRecord EXCEPT !.revision = r.revision, !.cancel_requested = TRUE]
    /\ r.begun \in Authority => k \in ReadTool
    /\ r.primary_override # None => k \in ReadTool /\ r.begun # None
    /\ r.primary = Primary(r)
    /\ r.begun = None /\ r.producer # None =>
           \/ r.producer \in {"interrupted", "rejected"}
           \/ r.producer = "cancelled" /\ r.cancel_requested
    /\ r.acknowledgement # None => r.acknowledgement = r.primary
    /\ r.compacted =>
           /\ r.primary = r.producer \/ (k \in ReadTool /\ r.primary = "cancelled")
           /\ r.acknowledgement # None /\ ~r.public_task /\ r.producer # None

(***************************************************************************)
(* Events (the constructors of Event) and the three results of decide.      *)
(***************************************************************************)
Event(type) == [type |-> type]
SubmitBy(o) == [type |-> "Submit", owner |-> o]
BeginWith(a) == [type |-> "Begin", authority |-> a]
OutcomeIs(o) == [type |-> "Outcome", outcome |-> o]
AcknowledgeOf(o, d) == [type |-> "Acknowledge", owner |-> o, digest |-> d]
AttachBy(j, a, t) == [type |-> "Attach", request |-> j, authority |-> a, timely |-> t]
HolderEvent(type, t, g) == [type |-> type, alias |-> t, generation |-> g]

Events ==
    [type : {"Cancel", "AdmissionRejected", "ExposeTask", "Recover"}]
        \cup [type : {"Submit"}, owner : Owner]
        \cup [type : {"Begin"}, authority : Authority \cup {NoAuthority}]
        \cup [type : {"Outcome"}, outcome : Outcome]
        \cup [type : {"Acknowledge"}, owner : Owner, digest : Outcome]
        \cup [type : {"Attach"}, request : Key, authority : Authority, timely : BOOLEAN]
        \cup [type : {"CancelHolder", "RetireHolder"}, alias : TaskId, generation : Nat]

Same == [kind |-> "same"]
Refused == [kind |-> "error"]

\* The common end of decide: compaction once nobody can ask for the body any
\* more, the next revision, and validation of the candidate.
Commit(k, s, intent, payloads) ==
    LET r == s.record
        compact == /\ r.acknowledgement # None /\ ~r.public_task
                   /\ r.producer # None /\ HoldersOf(s) = {}
        next == [s EXCEPT !.record.compacted = @ \/ compact, !.record.revision = @ + 1]
    IN  IF Valid(k, next.record)
        THEN [kind |-> "step", state |-> next, intent |-> intent,
              payloads |-> IF compact THEN [producer |-> "Drop", primary_override |-> "Drop"]
                                      ELSE payloads]
        ELSE Refused

Keep == [producer |-> "Keep", primary_override |-> "Keep"]
SetProducer(o) == [Keep EXCEPT !.producer = o]

\* A first final outcome; a personal cancellation of the primary survives it.
Finished(r, o) ==
    [r EXCEPT !.producer = o, !.primary = IF r.primary_override = None THEN o ELSE @]

\* Variant: a repeated Submit under another capability takes the record over.
DecideSubmitTakesOver(k, s, e) ==
    LET r == [s.record EXCEPT !.accepted = e.owner]
    IN  CASE s.record.accepted = e.owner -> Same
          [] s.record.accepted # e.owner /\ r.cancel_requested /\ r.producer = None ->
                 Commit(k, [s EXCEPT !.record = Finished(r, "cancelled")], None,
                        SetProducer("cancelled"))
          [] OTHER -> Commit(k, [s EXCEPT !.record = r],
                             IF s.record.accepted = None THEN "Accepted" ELSE None, Keep)

DecideSubmit(k, s, e) ==
    LET r == [s.record EXCEPT !.accepted = e.owner]
    IN  CASE s.record.accepted = e.owner -> Same
          [] s.record.accepted \notin {e.owner, None} -> Refused
          [] s.record.accepted = None /\ r.cancel_requested ->
                 Commit(k, [s EXCEPT !.record = Finished(r, "cancelled")], None,
                        SetProducer("cancelled"))
          [] OTHER -> Commit(k, [s EXCEPT !.record = r], "Accepted", Keep)

\* Cancelling a running producer: the worker is told and nobody may join.
CancelRun(s) == [s EXCEPT !.record.cancel_requested = TRUE, !.joins_closed = TRUE]

DecideCancel(k, s) ==
    LET r == s.record
        overridden == [s EXCEPT !.record.primary_override = "cancelled",
                                !.record.primary = "cancelled"]
    IN  CASE r.compacted \/ r.producer # None -> Same
          [] r.producer = None /\ r.accepted = None ->
                 IF r.cancel_requested THEN Same
                 ELSE Commit(k, [s EXCEPT !.record.cancel_requested = TRUE], None, Keep)
          [] r.producer = None /\ r.accepted # None /\ r.begun = None ->
                 Commit(k, [s EXCEPT !.record = Finished([r EXCEPT !.cancel_requested = TRUE],
                                                         "cancelled")],
                        None, SetProducer("cancelled"))
          [] r.producer = None /\ r.begun # None /\ k \in ReadTool /\ HoldersOf(s) # {} ->
                 IF r.primary_override # None THEN Same
                 ELSE Commit(k, IF AllCancelled(s) THEN CancelRun(overridden) ELSE overridden,
                             IF AllCancelled(s) THEN "Cancel" ELSE None,
                             [Keep EXCEPT !.primary_override = "cancelled"])
          [] OTHER -> IF r.cancel_requested THEN Same
                      ELSE Commit(k, CancelRun(s), "Cancel", Keep)

DecideBegin(k, s, e) ==
    IF \/ s.record.accepted = None \/ s.record.cancel_requested
       \/ s.record.producer # None \/ s.record.begun # None
       \/ k \notin ReadTool /\ e.authority # NoAuthority
    THEN Refused
    ELSE Commit(k, [s EXCEPT !.record.begun = e.authority], "Run", Keep)

DecideOutcome(k, s, e) ==
    CASE s.record.begun = None -> Refused
      [] s.record.begun # None /\ s.record.producer # None ->
             IF s.record.producer = e.outcome THEN Same ELSE Refused
      [] OTHER -> Commit(k, [s EXCEPT !.record = Finished(@, e.outcome), !.joins_closed = TRUE],
                         None, SetProducer(e.outcome))

DecideAdmissionRejected(k, s) ==
    CASE s.record.accepted = None \/ s.record.begun # None -> Refused
      [] s.record.accepted # None /\ s.record.begun = None /\ s.record.producer # None -> Same
      [] OTHER -> Commit(k, [s EXCEPT !.record.producer = "rejected",
                                      !.record.primary = "rejected"],
                         None, SetProducer("rejected"))

DecideExposeTask(k, s) ==
    CASE s.record.accepted = None \/ s.record.compacted -> Refused
      [] s.record.accepted # None /\ ~s.record.compacted /\ s.record.public_task -> Same
      [] OTHER -> Commit(k, [s EXCEPT !.record.public_task = TRUE], "Task", Keep)

DecideAcknowledge(k, s, e) ==
    CASE s.record.accepted # e.owner \/ s.record.primary # e.digest -> Refused
      [] s.record.accepted = e.owner /\ s.record.primary = e.digest
         /\ s.record.acknowledgement # None -> Same
      [] OTHER -> Commit(k, [s EXCEPT !.record.acknowledgement = e.digest], None, Keep)

\* Variant: a join is not refused once the run is being cancelled.
JoinableLate(k, s, e) ==
    /\ s.record.begun # None /\ s.record.accepted # None
    /\ s.record.producer = None
    /\ k \in ReadTool /\ Request[k] = Request[e.request]
    /\ s.record.begun = e.authority
    /\ e.timely
    /\ Task[e.request] # Task[k] /\ Task[e.request] \notin HoldersOf(s)

Joinable(k, s, e) ==
    /\ s.record.begun # None /\ s.record.accepted # None
    /\ ~s.joins_closed /\ ~s.record.cancel_requested /\ s.record.producer = None
    /\ k \in ReadTool /\ Request[k] = Request[e.request]
    /\ s.record.begun = e.authority
    /\ e.timely
    /\ Task[e.request] # Task[k] /\ Task[e.request] \notin HoldersOf(s)

DecideAttach(k, s, e) ==
    LET g == s.membership_generation + 1
    IN  IF Joinable(k, s, e)
        THEN Commit(k, [s EXCEPT !.membership_generation = g,
                                 !.holders[Task[e.request]] =
                                     [generation |-> g, cancelled |-> FALSE]],
                    "Attached", Keep)
        ELSE Refused

\* Variant: the last holder leaves and nobody tells the worker.
DecideHolderSilent(k, s, e) ==
    LET h == s.holders[e.alias]
        left == IF e.type = "RetireHolder" THEN [s EXCEPT !.holders[e.alias] = NoHolder]
                                           ELSE [s EXCEPT !.holders[e.alias].cancelled = TRUE]
        last == /\ s.record.primary_override # None /\ AllCancelled(left)
                /\ s.record.producer = None
    IN  CASE e.alias \notin HoldersOf(s) \/ h.generation # e.generation -> Refused
          [] e.alias \in HoldersOf(s) /\ h.generation = e.generation /\ e.type = "CancelHolder"
             /\ (h.cancelled \/ s.record.producer # None) -> Same
          [] OTHER -> Commit(k, IF last THEN CancelRun(left) ELSE left, None, Keep)

\* CancelHolder and RetireHolder: the producer is cancelled with its last holder.
DecideHolder(k, s, e) ==
    LET h == s.holders[e.alias]
        left == IF e.type = "RetireHolder" THEN [s EXCEPT !.holders[e.alias] = NoHolder]
                                           ELSE [s EXCEPT !.holders[e.alias].cancelled = TRUE]
        last == /\ s.record.primary_override # None /\ AllCancelled(left)
                /\ s.record.producer = None
    IN  CASE e.alias \notin HoldersOf(s) \/ h.generation # e.generation -> Refused
          [] e.alias \in HoldersOf(s) /\ h.generation = e.generation /\ e.type = "CancelHolder"
             /\ (h.cancelled \/ s.record.producer # None) -> Same
          [] OTHER -> Commit(k, IF last THEN CancelRun(left) ELSE left,
                             IF last THEN "Cancel" ELSE None, Keep)

\* Recovery invents no execution: a begun run without a result is uncertain.
RecoveredOutcome(r) ==
    CASE r.begun # None -> "uncertain"
      [] r.begun = None /\ r.cancel_requested -> "cancelled"
      [] OTHER -> "interrupted"

\* Variant: recovery finishes only what had begun.
DecideRecoverBegun(k, s) ==
    IF s.record.begun = None \/ s.record.producer # None THEN Same
    ELSE Commit(k, [s EXCEPT !.record = Finished(@, RecoveredOutcome(@)),
                             !.joins_closed = TRUE],
                None, SetProducer(RecoveredOutcome(s.record)))

DecideRecover(k, s) ==
    IF s.record.accepted = None \/ s.record.producer # None THEN Same
    ELSE Commit(k, [s EXCEPT !.record = Finished(@, RecoveredOutcome(@)),
                             !.joins_closed = TRUE],
                None, SetProducer(RecoveredOutcome(s.record)))

Decide(k, s, e) ==
    CASE e.type = "Submit" -> DecideSubmit(k, s, e)
      [] e.type = "Cancel" -> DecideCancel(k, s)
      [] e.type = "Begin" -> DecideBegin(k, s, e)
      [] e.type = "Outcome" -> DecideOutcome(k, s, e)
      [] e.type = "AdmissionRejected" -> DecideAdmissionRejected(k, s)
      [] e.type = "ExposeTask" -> DecideExposeTask(k, s)
      [] e.type = "Acknowledge" -> DecideAcknowledge(k, s, e)
      [] e.type = "Attach" -> DecideAttach(k, s, e)
      [] e.type \in {"CancelHolder", "RetireHolder"} -> DecideHolder(k, s, e)
      [] e.type = "Recover" -> DecideRecover(k, s)

(***************************************************************************)
(* Readback after a lost conflict, and the complete stored aggregate.       *)
(***************************************************************************)
\* State::with_readback accepts r: no confirmed fact is taken back.
Extends(k, s, r) ==
    LET old == s.record
        kept(f) == old[f] # None => r[f] = old[f]
    IN  /\ Valid(k, r)
        /\ r.revision >= old.revision /\ (r.revision = old.revision => r = old)
        /\ \A f \in {"accepted", "begun", "producer", "primary_override", "primary",
                     "acknowledgement"} : kept(f)
        /\ \A f \in {"cancel_requested", "public_task", "compacted"} : old[f] => r[f]
        /\ r.compacted => HoldersOf(s) = {}

\* PayloadDelta::assemble over the bodies of the previous aggregate.
Assemble(payloads, bodies) ==
    [f \in {"producer", "primary_override"} |->
        CASE payloads[f] = "Keep" -> bodies[f]
          [] payloads[f] = "Drop" -> None
          [] OTHER -> payloads[f]]

\* StoredRecord::new: every role's body is present and is the described one.
Complete(k, stored) ==
    /\ Valid(k, stored.record)
    /\ \A f \in {"producer", "primary_override"} :
           stored.bodies[f] = IF stored.record.compacted THEN None ELSE stored.record[f]
=============================================================================
