----------------------- MODULE ExecutionCoordinator -----------------------
(***************************************************************************)
(* crates/unica-execution/src/coordinator.rs: the one owner of every        *)
(* accepted attempt, with the rights it hands out, the store its adapter    *)
(* writes and the restarts between two authority epochs.                    *)
(*                                                                          *)
(* The coordinator is single threaded: a public method is one step.  What   *)
(* runs beside it is the storage adapter (Publish, then one of the          *)
(* completions), the workers holding permits, the callers, and the crash.   *)
(***************************************************************************)
EXTENDS ExecutionContract, FiniteSets, Sequences

CONSTANTS
    Submitted,       \* keys that callers submit and cancel
    Joining,         \* keys that callers attach to a running read
    Reported,        \* outcomes a worker reports
    Acknowledged,    \* digests an owner acknowledges
    AliasCapacity,   \* alias_capacity
    MaxQueue,        \* bound: events waiting behind one pending commit
    MaxGeneration,   \* bound: joins of one group in one epoch
    MaxEpoch         \* bound: authority epochs

ASSUME CoordinatorAssumption ==
    /\ Submitted \subseteq Key /\ Joining \subseteq Key
    /\ Reported \subseteq Outcome /\ Acknowledged \subseteq Outcome
    /\ AliasCapacity \in Nat /\ MaxQueue \in Nat /\ MaxGeneration \in Nat
    /\ MaxEpoch \in Nat \ {0}

VARIABLES
    epoch,           \* the authority epoch of this coordinator
    unavailable,     \* fail-stop
    recovering,
    groups,          \* keys claimed by both indexes, one slot each
    confirmed,       \* confirmed[k]: the State of slot k
    pending,         \* pending[k]: the transition being committed, or NoPending
    queue,           \* queue[k]: the events behind it
    aliases,         \* join requests whose task and invocation ids are claimed
    durable,         \* durable[k]: the stored aggregate, or NoStored
    accepted_permit, \* epoch of the AcceptedPermit a caller holds, 0 when none
    run_permit,      \* epoch of the RunPermit a worker holds, 0 when none
    members,         \* memberships handed out: [request, group, generation]
    promised,        \* keys whose task publication was permitted
    signalled,       \* keys whose worker received a CancellationPermit
    runs,            \* history: RunPermits ever issued
    reported         \* history: the outcome the worker of k reported

rights == <<accepted_permit, run_permit, members, promised, signalled, runs, reported>>
vars == <<epoch, unavailable, recovering, groups, confirmed, pending, queue, aliases,
          durable, accepted_permit, run_permit, members, promised, signalled, runs, reported>>

NoPending == [event |-> Event(None)]
NoStored == [record |-> EmptyRecord,
             bodies |-> [producer |-> None, primary_override |-> None]]
Stored(k) == durable[k] # NoStored

\* Pending, from the result of a decision; published: its aggregate is on disk.
Proposal(e, result) ==
    [event |-> e, candidate |-> result.state, intent |-> result.intent,
     payloads |-> result.payloads, published |-> FALSE]

Init ==
    /\ epoch = 1 /\ unavailable = FALSE /\ recovering = FALSE
    /\ groups = {} /\ aliases = {}
    /\ confirmed = [k \in Key |-> Empty]
    /\ pending = [k \in Key |-> NoPending]
    /\ queue = [k \in Key |-> <<>>]
    /\ durable = [k \in Key |-> NoStored]
    /\ accepted_permit = [k \in Key |-> 0] /\ run_permit = [k \in Key |-> 0]
    /\ members = {} /\ promised = {} /\ signalled = {}
    /\ runs = [k \in Key |-> 0]
    /\ reported = [k \in Key |-> None]

(***************************************************************************)
(* claim, enqueue and drive.                                                *)
(***************************************************************************)
SharesId(k, j) == Inv[k] = Inv[j] \/ Task[k] = Task[j]

\* Variant: only the invocation index is consulted.
ClaimableByInvocation(k) ==
    /\ \A j \in groups \ {k} : Inv[k] # Inv[j]
    /\ \A j \in aliases : ~SharesId(k, j)

\* claim: no other group and no joined request may own either id.
Claimable(k) ==
    /\ \A j \in groups \ {k} : ~SharesId(k, j)
    /\ \A j \in aliases : ~SharesId(k, j)

\* drive on slot k whose confirmed state is s and whose queue is q: events that
\* change nothing are answered and dropped (n - 1 of them), the first that changes
\* the record becomes the pending commit, and an Outcome that does not apply stops
\* the owner and stays in the queue.
Drive(k, s, q, held, tasks) ==
    LET result(m) == Decide(k, s, q[m])
        fails(m) == result(m).kind = "error"
        stops(m) == result(m).kind = "step" \/ (fails(m) /\ q[m].type = "Outcome")
    IN  \E n \in 1 .. Len(q) + 1 :
            LET commits == n <= Len(q) /\ ~fails(n)
                skipped == 1 .. (n - 1)
            IN  /\ \A m \in skipped : ~stops(m)
                /\ n <= Len(q) => stops(n)
                /\ queue' = [queue EXCEPT ![k] = SubSeq(q, IF commits THEN n + 1 ELSE n, Len(q))]
                /\ pending' = [pending EXCEPT ![k] =
                       IF commits THEN Proposal(q[n], result(n)) ELSE NoPending]
                /\ unavailable' = (n <= Len(q) /\ fails(n))
                /\ aliases' = {j \in held : \A m \in skipped :
                       ~(q[m].type = "Attach" /\ fails(m) /\ Task[q[m].request] = Task[j])}
                /\ promised' = tasks \cup {j \in {k} : \E m \in skipped :
                       q[m].type = "ExposeTask" /\ ~fails(m)}

\* enqueue, with the aliases claimed for the event.
EnqueueHolding(k, e, held) ==
    /\ ~unavailable /\ ~recovering
    /\ k \in groups \/ e.type \in {"Submit", "Cancel"}
    /\ Claimable(k)
    /\ pending[k] # NoPending => Len(queue[k]) < MaxQueue
    /\ groups' = groups \cup {k}
    /\ IF pending[k] = NoPending
       THEN Drive(k, confirmed[k], Append(queue[k], e), held, promised)
       ELSE /\ queue' = [queue EXCEPT ![k] = Append(@, e)]
            /\ aliases' = held
            /\ UNCHANGED <<pending, unavailable, promised>>
    /\ UNCHANGED <<epoch, recovering, confirmed, durable>>

Enqueue(k, e) == EnqueueHolding(k, e, aliases)
Refuses(k) == unavailable \/ recovering \/ k \notin groups \/ ~Claimable(k)

others == <<epoch, unavailable, recovering, groups, confirmed, pending, queue, aliases,
            durable, promised>>

(***************************************************************************)
(* The callers and the workers.                                             *)
(***************************************************************************)
Submit(k, o) ==
    /\ Enqueue(k, SubmitBy(o))
    /\ UNCHANGED <<accepted_permit, run_permit, members, signalled, runs, reported>>

Cancel(k) ==
    /\ Enqueue(k, Event("Cancel"))
    /\ UNCHANGED <<accepted_permit, run_permit, members, signalled, runs, reported>>

\* begin and reject_admission consume the permit even when they are refused.
Spend(k, e) ==
    /\ accepted_permit[k] # 0
    /\ accepted_permit' = [accepted_permit EXCEPT ![k] = 0]
    /\ \/ accepted_permit[k] = epoch /\ Enqueue(k, e)
       \/ (accepted_permit[k] # epoch \/ Refuses(k)) /\ UNCHANGED others
    /\ UNCHANGED <<run_permit, members, signalled, runs, reported>>

Begin(k, a) == (k \in ReadTool \/ a = NoAuthority) /\ Spend(k, BeginWith(a))
RejectAdmission(k) == Spend(k, Event("AdmissionRejected"))

\* Variant: a fact reported under fail-stop is dropped.
ReportDropped(k, o) ==
    /\ run_permit[k] # 0
    /\ run_permit' = [run_permit EXCEPT ![k] = 0]
    /\ reported' = [reported EXCEPT ![k] = o]
    /\ \/ (run_permit[k] # epoch \/ unavailable) /\ UNCHANGED others
       \/ run_permit[k] = epoch /\ Enqueue(k, OutcomeIs(o))
    /\ UNCHANGED <<accepted_permit, members, signalled, runs>>

\* RunPermit::finish and report; under fail-stop the fact is kept, not driven.
Report(k, o) ==
    /\ run_permit[k] # 0
    /\ run_permit' = [run_permit EXCEPT ![k] = 0]
    /\ reported' = [reported EXCEPT ![k] = o]
    /\ \/ run_permit[k] # epoch /\ UNCHANGED others
       \/ /\ run_permit[k] = epoch /\ unavailable
          /\ confirmed[k].record.begun # None
          /\ queue' = [queue EXCEPT ![k] = Append(@, OutcomeIs(o))]
          /\ UNCHANGED <<epoch, unavailable, recovering, groups, confirmed, pending,
                         aliases, durable, promised>>
       \/ run_permit[k] = epoch /\ Enqueue(k, OutcomeIs(o))
    /\ UNCHANGED <<accepted_permit, members, signalled, runs>>

ExposeTask(k) ==
    /\ Enqueue(k, Event("ExposeTask"))
    /\ UNCHANGED <<accepted_permit, run_permit, members, signalled, runs, reported>>

Acknowledge(k, o, d) ==
    /\ Enqueue(k, AcknowledgeOf(o, d))
    /\ UNCHANGED <<accepted_permit, run_permit, members, signalled, runs, reported>>

Attach(k, j, a, timely) ==
    /\ \A g \in groups \cup aliases : ~SharesId(g, j)
    /\ Cardinality(aliases) < AliasCapacity
    /\ confirmed[k].membership_generation < MaxGeneration
    /\ EnqueueHolding(k, AttachBy(j, a, timely), aliases \cup {j})
    /\ UNCHANGED <<accepted_permit, run_permit, members, signalled, runs, reported>>

\* cancel_holder and retire_holder: a Membership is Copy and may be replayed.
Holder(type, m) ==
    /\ Enqueue(m.group, HolderEvent(type, Task[m.request], m.generation))
    /\ UNCHANGED <<accepted_permit, run_permit, members, signalled, runs, reported>>

(***************************************************************************)
(* The storage adapter and complete.                                        *)
(***************************************************************************)
\* The aggregate is replaced in one atomic publication.
Publish(k) ==
    /\ pending[k] # NoPending /\ ~pending[k].published
    /\ pending' = [pending EXCEPT ![k].published = TRUE]
    /\ durable' = [durable EXCEPT ![k] =
           [record |-> pending[k].candidate.record,
            bodies |-> Assemble(pending[k].payloads, @.bodies)]]
    /\ UNCHANGED <<epoch, unavailable, recovering, groups, confirmed, queue, aliases, rights>>

\* Variant: no completion ends recovery.
FinishRecoveryNever == recovering' = recovering

\* finish_recovery.
FinishRecovery ==
    recovering' = (recovering /\ \E k \in Key : pending'[k] # NoPending \/ queue'[k] # <<>>)

\* The effects of the intents of a confirmed transition.
Grant(k, p) ==
    /\ accepted_permit' = IF p.intent = "Accepted" THEN [accepted_permit EXCEPT ![k] = epoch]
                          ELSE accepted_permit
    /\ run_permit' = IF p.intent = "Run" THEN [run_permit EXCEPT ![k] = epoch] ELSE run_permit
    /\ runs' = IF p.intent = "Run" THEN [runs EXCEPT ![k] = @ + 1] ELSE runs
    /\ members' = IF p.intent = "Attached"
                  THEN members \cup {[request |-> p.event.request, group |-> k,
                                      generation |-> p.candidate.membership_generation]}
                  ELSE members
    /\ signalled' = IF p.intent = "Cancel" THEN signalled \cup {k} ELSE signalled

Confirm(k) ==
    LET p == pending[k]
        released == {j \in aliases : p.event.type = "RetireHolder" /\ Task[j] = p.event.alias}
    IN  /\ confirmed' = [confirmed EXCEPT ![k] = p.candidate]
        /\ Grant(k, p)
        /\ Drive(k, p.candidate, queue[k], aliases \ released,
                 promised \cup {j \in {k} : p.intent = "Task"})
        /\ FinishRecovery
        /\ UNCHANGED <<epoch, groups, durable, reported>>

\* Variant: the effects of a transition are emitted before its commit is known.
RetryGranting(k, s) ==
    /\ confirmed' = [confirmed EXCEPT ![k] = s]
    /\ Grant(k, pending[k])
    /\ Drive(k, s, <<pending[k].event>> \o queue[k], aliases,
             promised \cup {j \in {k} : pending[k].intent = "Task"})
    /\ FinishRecovery
    /\ UNCHANGED <<epoch, groups, durable, reported>>

\* Variant: a rolled back event is forgotten.
RetryForgets(k, s) ==
    /\ confirmed' = [confirmed EXCEPT ![k] = s]
    /\ Drive(k, s, queue[k], aliases, promised)
    /\ FinishRecovery
    /\ UNCHANGED <<epoch, groups, durable, accepted_permit, run_permit, members, signalled,
                   runs, reported>>

\* Retry the semantic fact on top of what the store holds.
Retry(k, s) ==
    /\ confirmed' = [confirmed EXCEPT ![k] = s]
    /\ Drive(k, s, <<pending[k].event>> \o queue[k], aliases, promised)
    /\ FinishRecovery
    /\ UNCHANGED <<epoch, groups, durable, accepted_permit, run_permit, members, signalled,
                   runs, reported>>

FailStop ==
    /\ unavailable' = TRUE
    /\ UNCHANGED <<epoch, recovering, groups, confirmed, pending, queue, aliases, durable, rights>>

Completes(k) == ~unavailable /\ pending[k] # NoPending

CompleteCommitted(k) == Completes(k) /\ pending[k].published /\ Confirm(k)

CompleteRolledBack(k) == Completes(k) /\ ~pending[k].published /\ Retry(k, confirmed[k])

\* Readback of what is stored now: the candidate after all, or what preceded it.
CompleteReadback(k) ==
    LET actual == durable[k].record
    IN  /\ Completes(k) /\ Stored(k)
        /\ \/ actual = pending[k].candidate.record /\ Confirm(k)
           \/ /\ actual # pending[k].candidate.record
              /\ IF Extends(k, confirmed[k], actual)
                 THEN Retry(k, [confirmed[k] EXCEPT !.record = actual])
                 ELSE FailStop

\* FailedBeforePublication, Unknown, and a physical failure of the authority.
CompleteFailed(k) == Completes(k) /\ ~pending[k].published /\ FailStop

\* Variant: an uncertain commit is taken for a committed one.
CompleteUnknownConfirms(k) == Completes(k) /\ Confirm(k)

CompleteUnknown(k) == Completes(k) /\ FailStop
AuthorityFailure == ~unavailable /\ FailStop

(***************************************************************************)
(* Restarts.                                                                *)
(***************************************************************************)
\* restore over the scanned catalog: every slot first recovers.
Restore ==
    LET recover(k) == Decide(k, FromRecord(durable[k].record), Event("Recover"))
    IN  /\ epoch < MaxEpoch
        /\ epoch' = epoch + 1
        /\ unavailable' = FALSE
        /\ groups' = {k \in Key : Stored(k)}
        /\ aliases' = {}
        /\ confirmed' = [k \in Key |-> IF Stored(k) THEN FromRecord(durable[k].record) ELSE Empty]
        /\ queue' = [k \in Key |-> <<>>]
        /\ pending' = [k \in Key |->
               IF Stored(k) /\ recover(k).kind = "step"
               THEN Proposal(Event("Recover"), recover(k)) ELSE NoPending]
        /\ recovering' = \E k \in Key : pending'[k] # NoPending
        /\ signalled' = {}
        /\ UNCHANGED <<durable, promised, runs, reported>>

\* The process dies with every permit in it.
Crash ==
    /\ Restore
    /\ accepted_permit' = [k \in Key |-> 0] /\ run_permit' = [k \in Key |-> 0]
    /\ members' = {}

\* close_quiescent and a new owner in the same process: old permits survive.
storage_is_quiescent ==
    /\ ~unavailable /\ ~recovering
    /\ \A k \in groups : /\ pending[k] = NoPending /\ queue[k] = <<>>
                         /\ confirmed[k].record.begun = None \/ confirmed[k].record.producer # None

Reopen == storage_is_quiescent /\ Restore /\ UNCHANGED <<accepted_permit, run_permit, members>>

Caller(k) ==
    \/ \E o \in Owner : Submit(k, o) \/ \E d \in Acknowledged : Acknowledge(k, o, d)
    \/ Cancel(k) \/ ExposeTask(k)
    \/ \E j \in Joining, a \in Authority, t \in BOOLEAN : Attach(k, j, a, t)
Worker(k) ==
    \/ \E a \in Authority \cup {NoAuthority} : Begin(k, a)
    \/ RejectAdmission(k)
    \/ \E o \in Reported : Report(k, o)
Adapter(k) ==
    \/ Publish(k) \/ CompleteCommitted(k) \/ CompleteRolledBack(k) \/ CompleteReadback(k)
    \/ CompleteFailed(k) \/ CompleteUnknown(k)

Next ==
    \/ \E k \in Submitted : Caller(k)
    \/ \E k \in Key : Worker(k) \/ Adapter(k)
    \/ \E m \in members : Holder("CancelHolder", m) \/ Holder("RetireHolder", m)
    \/ AuthorityFailure \/ Crash \/ Reopen

Spec == Init /\ [][Next]_vars

\* The adapter's worker serves every commit it was given.
AdapterProgress(k) == Publish(k) \/ CompleteCommitted(k)
FairSpec == Spec /\ \A k \in Key : WF_vars(AdapterProgress(k))

(***************************************************************************)
(* Properties.                                                              *)
(***************************************************************************)
\* The events a slot still owns.
Owned(k) == {queue[k][n] : n \in 1 .. Len(queue[k])} \cup {pending[k].event}

\* Types of the coordinator, of its slots, of the store and of the rights.
TypeOK ==
    /\ epoch \in 1 .. MaxEpoch /\ unavailable \in BOOLEAN /\ recovering \in BOOLEAN
    /\ groups \subseteq Key /\ aliases \subseteq Key
    /\ confirmed \in [Key -> State]
    /\ \A k \in Key : pending[k] = NoPending \/ pending[k].candidate \in State
    /\ \A k \in Key : durable[k].record \in Record
    /\ accepted_permit \in [Key -> 0 .. MaxEpoch] /\ run_permit \in [Key -> 0 .. MaxEpoch]
    /\ promised \subseteq Key /\ signalled \subseteq Key
    /\ runs \in [Key -> Nat] /\ reported \in [Key -> Reported \cup {None}]

\* An attempt is started at most once over all epochs, and only after its begin
\* is durable: complete hands out Run for a confirmed Begin and for nothing else.
AtMostOnceRun ==
    \A k \in Key : runs[k] <= 1 /\ (runs[k] = 1 => durable[k].record.begun # None)

\* A confirmed record is exactly the stored one, unless the adapter has already
\* published the pending candidate that the coordinator has not heard about.
ConfirmedIsDurable ==
    \A k \in Key : LET p == pending[k] IN
        durable[k].record = IF p # NoPending /\ p.published THEN p.candidate.record
                            ELSE confirmed[k].record

\* No step and no crash takes back a stored fact: acceptance, begin, outcome, the
\* primary's view of it, acknowledgement, cancellation and the task promise stand.
StoredFactsStand ==
    [][\A k \in Key : Stored(k) =>
           Extends(k, FromRecord(durable[k].record), durable'[k].record)]_vars

\* Two stored keys never share an invocation or a task id, so a restart can
\* always rebuild the catalog (RecoveryBuilder refuses the whole store otherwise).
CatalogRecovers ==
    \A k, j \in Key : Stored(k) /\ Stored(j) /\ k # j => ~SharesId(k, j)

\* The outcome of a run that began is the one its worker reported; only a restart
\* may put "uncertain" in its place.  Until then the fact is with the worker, in
\* the slot or confirmed, even under fail-stop.
OutcomeKept ==
    \A k \in Key : runs[k] = 1 =>
        LET producer == confirmed[k].record.producer
        IN  \/ producer = "uncertain" /\ epoch > 1
            \/ producer # None /\ producer = reported[k]
            \/ /\ producer = None
               /\ \/ run_permit[k] = epoch
                  \/ OutcomeIs(reported[k]) \in Owned(k)
                  \/ Event("Recover") \in Owned(k)

\* An available owner has no orphan: somebody in this epoch holds the right or the
\* queued fact that will finish every accepted record without an outcome.
NoOrphan ==
    ~unavailable /\ ~recovering =>
        \A k \in groups : LET r == confirmed[k].record IN
            r.accepted # None /\ r.producer = None =>
                \/ epoch \in {accepted_permit[k], run_permit[k]}
                \/ \E e \in Owned(k) :
                       e.type \in {"Begin", "AdmissionRejected", "Outcome"}

\* A shared run is cancelled only when every joined reader has cancelled too, and
\* nobody joins a cancelled run.
CancelNeedsEveryHolder ==
    \A k \in Key : LET s == confirmed[k] IN
        s.record.begun # None /\ s.record.cancel_requested => AllCancelled(s)

\* The cancellation of a running attempt reaches its worker in the same epoch.
CancelReachesWorker ==
    \A k \in Key : LET r == confirmed[k].record IN
        r.cancel_requested /\ run_permit[k] = epoch => k \in signalled

\* An outcome handed to report becomes durable unless the owner stops: rolled back
\* commits and the events queued ahead of it do not starve it.
FactsBecomeDurable ==
    \A k \in Key :
        reported[k] # None ~> durable[k].record.producer # None \/ unavailable

\* Recovery ends unless the owner stops: every recovered group falls quiet, so
\* finish_recovery opens admission although commits are retried meanwhile.
RecoveryEnds == recovering ~> ~recovering \/ unavailable
=============================================================================
