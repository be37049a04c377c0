------------------------- MODULE ExecutionDelivery -------------------------
(***************************************************************************)
(* Delivery of results: the body reads of coordinator/hydration.rs, which    *)
(* leave the decision loop between prepare and complete, and the frontend's  *)
(* DeliveryChoice between a built Direct response and a returned Task.       *)
(* Composed with ExecutionCoordinator; the frontend is another process and   *)
(* its choice outlives the owner.                                            *)
(***************************************************************************)
EXTENDS ExecutionCoordinator

VARIABLES
    reads,           \* body reads in flight
    direct_permit,   \* direct_permit[k]: outcome of a DirectPublicationPermit, or None
    choice,          \* choice[k]: None, "task" or the outcome built as Direct
    shown,           \* history: outcomes given to task observers of k
    joined           \* history: outcomes given to the joined readers of k

delivery == <<reads, direct_permit, choice, shown, joined>>
dvars == <<vars, delivery>>

DeliveryInit ==
    /\ Init
    /\ reads = {}
    /\ direct_permit = [k \in Key |-> None] /\ choice = [k \in Key |-> None]
    /\ shown = [k \in Key |-> {}] /\ joined = [k \in Key |-> {}]

Nobody == [request |-> None, group |-> None, generation |-> 0]

\* Variant: a joined reader is given the primary's view.
RoleResultPrimary(role, f) == Primary(f)

\* What a role may see, of a record's descriptors or of the stored bodies: the
\* primary's view, and for a joined reader the producer's outcome.
RoleResult(role, f) == IF role = "Holder" THEN f.producer ELSE Primary(f)

\* observe_holder finds a terminal outcome for membership m.
HolderTerminal(k, m) ==
    LET h == confirmed[k].holders[Task[m.request]]
    IN  /\ m.group = k /\ h # NoHolder
        /\ h.generation = m.generation /\ ~h.cancelled

\* read_descriptor: the descriptor of the result, None when it is refused.
ReadDescriptor(k, role, o, m) ==
    LET r == confirmed[k].record
        allowed ==
            /\ ~unavailable /\ ~recovering
            /\ r.revision > 0 /\ ~r.compacted
            /\ CASE role = "Direct" -> r.accepted = o /\ r.acknowledgement = None
                 [] role = "Task" -> r.accepted # None
                 [] role = "Holder" -> HolderTerminal(k, m)
    IN  IF allowed THEN RoleResult(role, r) ELSE None

\* prepare_direct, prepare_task and prepare_holder.  Bound: one read of a key at a time.
Prepare(k, role, o, m) ==
    /\ \A rd \in reads : rd.key # k
    /\ ReadDescriptor(k, role, o, m) # None
    /\ reads' = reads \cup {[key |-> k, role |-> role, owner |-> o, member |-> m,
                             epoch |-> epoch, record |-> confirmed[k].record,
                             descriptor |-> ReadDescriptor(k, role, o, m), outcome |-> None]}
    /\ UNCHANGED <<vars, direct_permit, choice, shown, joined>>

\* The store reads the aggregate: a body for exactly the record that was asked
\* about, or nothing (obsolete, foreign epoch).
Load(rd) ==
    LET stored == durable[rd.key]
        body == RoleResult(rd.role, stored.bodies)
    IN  /\ rd.outcome = None
        /\ \/ /\ rd.epoch = epoch /\ ~unavailable
              /\ stored.record = rd.record /\ body = rd.descriptor
              /\ reads' = (reads \ {rd}) \cup {[rd EXCEPT !.outcome = body]}
           \/ /\ rd.epoch # epoch \/ stored.record # rd.record
              /\ reads' = reads \ {rd}
        /\ UNCHANGED <<vars, direct_permit, choice, shown, joined>>

\* Variant: complete_read trusts the record it was prepared for.
CurrentAsPrepared(rd) == ~unavailable /\ ~recovering /\ rd.epoch = epoch

\* complete_read publishes only what is still the confirmed record's result.
Current(rd) ==
    /\ ~unavailable /\ ~recovering /\ rd.epoch = epoch
    /\ confirmed[rd.key].record = rd.record
    /\ ReadDescriptor(rd.key, rd.role, rd.owner, rd.member) = rd.descriptor

CompleteRead(rd) ==
    /\ rd.outcome # None
    /\ reads' = reads \ {rd}
    /\ direct_permit' = IF Current(rd) /\ rd.role = "Direct"
                        THEN [direct_permit EXCEPT ![rd.key] = rd.outcome] ELSE direct_permit
    /\ shown' = IF Current(rd) /\ rd.role = "Task"
                THEN [shown EXCEPT ![rd.key] = @ \cup {rd.outcome}] ELSE shown
    /\ joined' = IF Current(rd) /\ rd.role = "Holder"
                 THEN [joined EXCEPT ![rd.key] = @ \cup {rd.outcome}] ELSE joined
    /\ UNCHANGED <<vars, choice>>

(***************************************************************************)
(* The frontend: the first choice is final, and only a built Direct result   *)
(* is acknowledged.                                                          *)
(***************************************************************************)
BuildDirect(k) ==
    /\ direct_permit[k] # None
    /\ direct_permit' = [direct_permit EXCEPT ![k] = None]
    /\ choice' = [choice EXCEPT ![k] = IF @ = None THEN direct_permit[k] ELSE @]
    /\ UNCHANGED <<vars, reads, shown, joined>>

ReturnTask(k) ==
    /\ k \in promised /\ choice[k] = None
    /\ choice' = [choice EXCEPT ![k] = "task"]
    /\ UNCHANGED <<vars, reads, direct_permit, shown, joined>>

AcknowledgeDirect(k, o) ==
    /\ choice[k] \in Outcome
    /\ Acknowledge(k, o, choice[k]) /\ UNCHANGED delivery

\* The owner's process dies with its reads and permits; a quiescent close waits
\* for loaded reads, and its remaining requests belong to the old epoch.
CrashWithReads ==
    /\ Crash
    /\ reads' = {} /\ direct_permit' = [k \in Key |-> None]
    /\ UNCHANGED <<choice, shown, joined>>

ReopenWithReads == (\A rd \in reads : rd.outcome = None) /\ Reopen /\ UNCHANGED delivery

DeliveryNext ==
    \/ \E k \in Submitted : Caller(k) /\ UNCHANGED delivery
    \/ \E k \in Key : (Worker(k) \/ Adapter(k)) /\ UNCHANGED delivery
    \/ \E m \in members : (Holder("CancelHolder", m) \/ Holder("RetireHolder", m))
                          /\ UNCHANGED delivery
    \/ AuthorityFailure /\ UNCHANGED delivery
    \/ CrashWithReads \/ ReopenWithReads
    \/ \E k \in Submitted :
           \/ \E o \in Owner : Prepare(k, "Direct", o, Nobody) \/ AcknowledgeDirect(k, o)
           \/ Prepare(k, "Task", None, Nobody)
           \/ \E m \in members : Prepare(k, "Holder", None, m)
           \/ BuildDirect(k) \/ ReturnTask(k)
    \/ \E rd \in reads : Load(rd) \/ CompleteRead(rd)

DeliverySpec == DeliveryInit /\ [][DeliveryNext]_dvars

(***************************************************************************)
(* Properties.                                                              *)
(***************************************************************************)
\* Everyone who is told the result of an invocation is told the same one, before
\* and after restarts: task observers and the built Direct response agree with the
\* stored primary view, joined readers with the stored producer outcome, also when
\* the primary's personal cancellation makes the two differ.
ResultsAgree ==
    \A k \in Key :
        /\ shown[k] \subseteq {durable[k].record.primary}
        /\ joined[k] \subseteq {durable[k].record.producer}
        /\ choice[k] \in Outcome => durable[k].record.primary = choice[k]

\* No right to build a Direct response is issued for an acknowledged record, by a
\* body read that was prepared before the acknowledgement either.
NoDirectAfterAck ==
    [][\A k \in Key : direct_permit'[k] \notin {direct_permit[k], None} =>
           confirmed[k].record.acknowledgement = None]_dvars
=============================================================================
