--------------------- MODULE ExecutionCoordinatorProofs ---------------------
(***************************************************************************)
(* What a decision may do to a record, and what the coordinator promises,  *)
(* for any keys, ids, queues, joins and epochs.                            *)
(*                                                                         *)
(* The first part is about one decision, for every state and every event:  *)
(* the candidate is valid, one revision further, and takes no fact back;   *)
(* the right to run comes only with the first begin.  The second part is   *)
(* about every step: an attempt starts once, a confirmed record is the     *)
(* stored one, stored facts stand, and the stored catalog can be recovered.*)
(***************************************************************************)
EXTENDS ExecutionCoordinator, SequenceTheorems, TLAPS

\* No fact of old is taken back in r.
KeepsFacts(old, r) ==
    /\ old.accepted # None => r.accepted = old.accepted
    /\ old.begun # None => r.begun = old.begun
    /\ old.producer # None => r.producer = old.producer
    /\ old.primary_override # None => r.primary_override = old.primary_override
    /\ old.primary # None => r.primary = old.primary
    /\ old.acknowledgement # None => r.acknowledgement = old.acknowledgement
    /\ old.cancel_requested => r.cancel_requested
    /\ old.public_task => r.public_task
    /\ old.compacted => r.compacted

\* r is the valid successor of old.
Grows(k, old, r) == Valid(k, r) /\ r.revision = old.revision + 1 /\ KeepsFacts(old, r)

\* A record that decide may be given: stored, or of a slot just claimed.
Sound(k, r) == r = EmptyRecord \/ Valid(k, r)

Intents == {None, "Accepted", "Run", "Task", "Attached", "Cancel"}
Payloads == [producer : Outcome \cup {"Keep", "Drop"},
             primary_override : {"Keep", "Drop", "cancelled"}]

\* result is a transition from s by an event of the given type that keeps to the rules.
Follows(k, s, type, result) ==
    /\ result.state \in State /\ result.intent \in Intents /\ result.payloads \in Payloads
    /\ Grows(k, s.record, result.state.record)
    /\ result.intent = "Run" => s.record.begun = None /\ result.state.record.begun # None
    /\ result.intent = "Attached" => type = "Attach"

\* What Sound says of the facts that decide consults before it adds one.
LEMMA SoundFacts ==
    ASSUME NEW k, NEW r \in Record, Sound(k, r)
    PROVE  /\ r.primary = Primary(r)
           /\ r.accepted = None => /\ r.begun = None /\ r.producer = None
                                   /\ r.primary_override = None /\ r.primary = None
           /\ r.primary_override # None => r.begun # None
           /\ r.producer = None /\ r.primary_override = None => r.primary = None
           /\ r.compacted => r.producer # None
  <1>1. CASE r = EmptyRecord
    BY <1>1 DEF EmptyRecord, Primary, None
  <1>2. CASE Valid(k, r)
    BY ZenonT(30), <1>2 DEF EmptyRecord, Valid, Primary, None
  <1> QED BY <1>1, <1>2 DEF Sound

\* Records are closed under the updates that decide makes.
LEMMA RecordWith ==
    ASSUME NEW r \in Record
    PROVE  /\ \A n \in Nat : [r EXCEPT !.revision = n] \in Record
           /\ \A b \in BOOLEAN : /\ [r EXCEPT !.compacted = b] \in Record
                                 /\ [r EXCEPT !.cancel_requested = b] \in Record
                                 /\ [r EXCEPT !.public_task = b] \in Record
           /\ \A o \in Owner : [r EXCEPT !.accepted = o] \in Record
           /\ \A a \in Authority \cup {NoAuthority} : [r EXCEPT !.begun = a] \in Record
           /\ \A o \in Outcome : /\ [r EXCEPT !.producer = o] \in Record
                                 /\ [r EXCEPT !.primary = o] \in Record
                                 /\ [r EXCEPT !.acknowledgement = o] \in Record
           /\ [r EXCEPT !.primary_override = "cancelled"] \in Record
  <1>1. \A n \in Nat : [r EXCEPT !.revision = n] \in Record
    BY DEF Record
  <1>2. \A b \in BOOLEAN : /\ [r EXCEPT !.compacted = b] \in Record
                           /\ [r EXCEPT !.cancel_requested = b] \in Record
                           /\ [r EXCEPT !.public_task = b] \in Record
    BY DEF Record
  <1>3. /\ \A o \in Owner : [r EXCEPT !.accepted = o] \in Record
        /\ \A a \in Authority \cup {NoAuthority} : [r EXCEPT !.begun = a] \in Record
    BY DEF Record
  <1>4. /\ \A o \in Outcome : /\ [r EXCEPT !.producer = o] \in Record
                              /\ [r EXCEPT !.primary = o] \in Record
                              /\ [r EXCEPT !.acknowledgement = o] \in Record
        /\ [r EXCEPT !.primary_override = "cancelled"] \in Record
    BY DEF Record
  <1> QED BY <1>1, <1>2, <1>3, <1>4

\* The arguments of an event, by its type.
LEMMA EventFacts ==
    ASSUME NEW e \in Events
    PROVE  /\ e.type \in {"Cancel", "AdmissionRejected", "ExposeTask", "Recover", "Submit", "Begin",
                          "Outcome", "Acknowledge", "Attach", "CancelHolder", "RetireHolder"}
           /\ e.type = "Submit" => e.owner \in Owner
           /\ e.type = "Begin" => e.authority \in Authority \cup {NoAuthority}
           /\ e.type = "Outcome" => e.outcome \in Outcome
           /\ e.type = "Acknowledge" => e.owner \in Owner /\ e.digest \in Outcome
           /\ e.type = "Attach" => e.request \in Key
           /\ e.type \in {"CancelHolder", "RetireHolder"} => e.alias \in TaskId
  BY DEF Events

\* States are closed under a new record, with joining closed or not.
LEMMA StateWith ==
    ASSUME NEW s \in State, NEW r \in Record
    PROVE  /\ s.record \in Record
           /\ [s EXCEPT !.record = r] \in State /\ [s EXCEPT !.record = r].record = r
           /\ /\ [s EXCEPT !.record = r, !.joins_closed = TRUE] \in State
              /\ [s EXCEPT !.record = r, !.joins_closed = TRUE].record = r
  BY ZenonT(30) DEF State

\* A first outcome takes no fact back.
LEMMA FinishedKeeps ==
    ASSUME NEW r \in Record, NEW o \in Outcome, r.producer = None,
           r.primary_override = None => r.primary = None
    PROVE  /\ Finished(r, o) \in Record /\ Finished(r, o).revision = r.revision
           /\ Finished(r, o).begun = r.begun /\ KeepsFacts(r, Finished(r, o))
  <1> DEFINE p == IF r.primary_override = None THEN o ELSE r.primary
             f == Finished(r, o)
  <1>1. p \in Outcome \cup {None} /\ (r.primary # None => p = r.primary)
    BY DEF Record
  <1>2. f = [r EXCEPT !.producer = o, !.primary = p]
    BY DEF Finished
  <1> HIDE DEF p, f
  <1>3. f \in Record
    BY ZenonT(30), <1>1, <1>2 DEF Record
  <1>4. /\ f.revision = r.revision /\ f.accepted = r.accepted /\ f.begun = r.begun
        /\ f.primary_override = r.primary_override /\ f.primary = p
        /\ f.acknowledgement = r.acknowledgement /\ f.compacted = r.compacted
        /\ f.cancel_requested = r.cancel_requested /\ f.public_task = r.public_task
    BY <1>2 DEF Record
  <1>5. KeepsFacts(r, f)
    BY <1>1, <1>4 DEF KeepsFacts
  <1> QED BY <1>3, <1>4, <1>5 DEF f

\* Whatever the event, a transition of decide is to a valid record one revision on
\* that takes back no owner, begin, outcome, primary view, acknowledgement,
\* cancellation, task promise or compaction; it grants the run only with the first
\* begin.
THEOREM DecideFollows ==
    \A k \in Key, s \in State, e \in Events :
        Sound(k, s.record) /\ Decide(k, s, e).kind = "step" =>
            Follows(k, s, e.type, Decide(k, s, e))
  \* The common end of every decision turns a state that keeps the facts into a successor.
  <1>CommitGrows.
      ASSUME NEW k, NEW old \in Record, NEW s \in State, NEW intent, NEW payloads \in Payloads,
             KeepsFacts(old, s.record), s.record.revision = old.revision,
             Commit(k, s, intent, payloads).kind = "step"
      PROVE  LET result == Commit(k, s, intent, payloads)
             IN  /\ result.state \in State /\ result.intent = intent
                 /\ result.payloads \in Payloads
                 /\ Grows(k, old, result.state.record)
                 /\ result.state.record.begun = s.record.begun
    <2> USE <1>CommitGrows
    <2> DEFINE r == s.record
               compact == /\ r.acknowledgement # None /\ ~r.public_task
                          /\ r.producer # None /\ HoldersOf(s) = {}
               done == r.compacted \/ compact
               rec == [r EXCEPT !.compacted = done, !.revision = @ + 1]
               next == [s EXCEPT !.record.compacted = @ \/ compact, !.record.revision = @ + 1]
               kept == IF compact THEN [producer |-> "Drop", primary_override |-> "Drop"]
                       ELSE payloads
    <2>1. r \in Record /\ done \in BOOLEAN
      BY DEF State, Record
    <2>2. /\ rec \in Record /\ rec.revision = r.revision + 1 /\ rec.begun = r.begun
          /\ KeepsFacts(r, rec)
      <3>1. r.compacted => done
        OBVIOUS
      <3> HIDE DEF done, r
      <3>2. rec \in Record
        <4>1. r.revision + 1 \in Nat
          BY <2>1 DEF Record
        <4> QED BY ZenonT(30), <4>1, <2>1, RecordWith
      <3>3. /\ rec.revision = r.revision + 1 /\ rec.compacted = done
            /\ rec.accepted = r.accepted /\ rec.begun = r.begun /\ rec.producer = r.producer
            /\ rec.primary_override = r.primary_override /\ rec.primary = r.primary
            /\ rec.acknowledgement = r.acknowledgement
            /\ rec.cancel_requested = r.cancel_requested /\ rec.public_task = r.public_task
        BY <2>1 DEF Record
      <3> HIDE DEF rec
      <3> QED BY <3>1, <3>2, <3>3 DEF KeepsFacts
    <2>3. next \in State /\ next.record = rec
      <3>1. next = [s EXCEPT !.record = rec]
        BY ZenonT(30), <2>1 DEF State, Record
      <3>2. [s EXCEPT !.record = rec] \in State /\ [s EXCEPT !.record = rec].record = rec
        <4> HIDE DEF rec
        <4> QED BY <2>2 DEF State
      <3> QED BY <3>1, <3>2
    <2>4. KeepsFacts(old, rec)
      BY <2>2 DEF KeepsFacts
    <2>5. kept \in Payloads
      BY DEF Payloads
    <2>6. /\ Valid(k, next.record)
          /\ Commit(k, s, intent, payloads)
               = [kind |-> "step", state |-> next, intent |-> intent, payloads |-> kept]
      BY DEF Commit, Refused
    <2> QED
      <3> HIDE DEF next, rec, kept
      <3> QED BY <2>1, <2>2, <2>3, <2>4, <2>5, <2>6 DEF Grows
  <1>PayloadFacts.
      /\ Keep \in Payloads
      /\ \A o \in Outcome : SetProducer(o) \in Payloads
      /\ [Keep EXCEPT !.primary_override = "cancelled"] \in Payloads
    BY DEF Keep, SetProducer, Payloads
  \* Facts that are kept step by step are kept.
  <1>KeepsTransitive.
      ASSUME NEW a, NEW b, NEW c, KeepsFacts(a, b), KeepsFacts(b, c)
      PROVE  KeepsFacts(a, c)
    BY <1>KeepsTransitive DEF KeepsFacts
  \* A decision that ends in Commit follows the rules when the state it commits does.
  <1>CommitFollows.
      ASSUME NEW k, NEW s \in State, NEW type, NEW t \in State, NEW intent \in Intents,
             NEW payloads \in Payloads,
             KeepsFacts(s.record, t.record), t.record.revision = s.record.revision,
             intent = "Run" => s.record.begun = None /\ t.record.begun # None,
             intent = "Attached" => type = "Attach",
             Commit(k, t, intent, payloads).kind = "step"
      PROVE  Follows(k, s, type, Commit(k, t, intent, payloads))
    <2> USE <1>CommitFollows
    <2>1. s.record \in Record
      BY DEF State
    <2> QED BY <2>1, <1>CommitGrows DEF Follows
  \* decide follows the rules, one event at a time.
  <1>SubmitFollows.
      ASSUME NEW k, NEW s \in State, NEW e, e.owner \in Owner, Sound(k, s.record),
             DecideSubmit(k, s, e).kind = "step"
      PROVE  Follows(k, s, "Submit", DecideSubmit(k, s, e))
    <2> USE <1>SubmitFollows
    <2> DEFINE r == [s.record EXCEPT !.accepted = e.owner]
    <2>1. s.record \in Record
      BY DEF State
    <2>2. s.record.accepted = None
      BY DEF DecideSubmit, Same, Refused
    <2>3. /\ s.record.begun = None /\ s.record.producer = None
          /\ s.record.primary_override = None /\ s.record.primary = None
      BY <2>1, <2>2, SoundFacts
    <2>4. /\ r \in Record /\ r.revision = s.record.revision /\ KeepsFacts(s.record, r)
          /\ r.producer = None /\ r.primary = None
      <3>1. r \in Record
        BY ZenonT(30), <2>1, RecordWith
      <3> QED BY <2>1, <2>2, <2>3, <3>1 DEF Record, KeepsFacts
    <2>5. CASE r.cancel_requested
      <3> DEFINE f == Finished(r, "cancelled")
      <3>1. f \in Record /\ f.revision = r.revision /\ KeepsFacts(r, f)
        BY ZenonT(30), <2>4, FinishedKeeps DEF Outcome
      <3>2. KeepsFacts(s.record, f)
        BY <2>4, <3>1, <1>KeepsTransitive
      <3>3. DecideSubmit(k, s, e) = Commit(k, [s EXCEPT !.record = f], None, SetProducer("cancelled"))
        BY <2>2, <2>5, NoneAssumption DEF DecideSubmit
      <3>4. SetProducer("cancelled") \in Payloads
        BY SMTT(30), <1>PayloadFacts DEF Outcome
      <3> HIDE DEF f, r
      <3>5. [s EXCEPT !.record = f] \in State /\ [s EXCEPT !.record = f].record = f
        BY ZenonT(30), <3>1, StateWith
      <3> QED BY ZenonT(30), <2>4, <3>1, <3>2, <3>3, <3>4, <3>5, <1>CommitFollows DEF Intents, None
    <2>6. CASE ~r.cancel_requested
      <3>1. DecideSubmit(k, s, e) = Commit(k, [s EXCEPT !.record = r], "Accepted", Keep)
        BY <2>2, <2>6, NoneAssumption DEF DecideSubmit
      <3> HIDE DEF r
      <3>2. [s EXCEPT !.record = r] \in State /\ [s EXCEPT !.record = r].record = r
        BY ZenonT(30), <2>4, StateWith
      <3> QED BY ZenonT(30), <2>4, <3>1, <3>2, <1>PayloadFacts, <1>CommitFollows DEF Intents
    <2> QED BY <2>5, <2>6
  <1>BeginFollows.
      ASSUME NEW k, NEW s \in State, NEW e, e.authority \in Authority \cup {NoAuthority},
             DecideBegin(k, s, e).kind = "step"
      PROVE  Follows(k, s, "Begin", DecideBegin(k, s, e))
    <2> USE <1>BeginFollows
    <2> DEFINE r == [s.record EXCEPT !.begun = e.authority]
    <2>1. s.record \in Record
      BY DEF State
    <2>2. /\ s.record.begun = None
          /\ DecideBegin(k, s, e) = Commit(k, [s EXCEPT !.record.begun = e.authority], "Run", Keep)
      BY DEF DecideBegin, Refused
    <2>3. [s EXCEPT !.record.begun = e.authority] = [s EXCEPT !.record = r]
      BY DEF State
    <2>4. r \in Record /\ r.revision = s.record.revision /\ KeepsFacts(s.record, r) /\ r.begun # None
      <3>1. r \in Record
        BY ZenonT(30), <2>1, RecordWith
      <3> QED BY <2>1, <2>2, <3>1, NoneAssumption DEF Record, KeepsFacts, None, NoAuthority
    <2> DEFINE t == [s EXCEPT !.record = r]
    <2>5. t \in State /\ t.record = r
      BY ZenonT(30), <2>4, StateWith
    <2>6. DecideBegin(k, s, e) = Commit(k, t, "Run", Keep)
      BY <2>2, <2>3
    <2> HIDE DEF t, r
    <2>7. "Run" \in Intents /\ Keep \in Payloads
      BY <1>PayloadFacts DEF Intents
    <2> QED BY <2>2, <2>4, <2>5, <2>6, <2>7, <1>CommitFollows
  \* Outcome and Recover: a first outcome, and joining ends.
  <1>FinishFollows.
      ASSUME NEW k, NEW s \in State, NEW type, NEW o \in Outcome, Sound(k, s.record),
             s.record.producer = None,
             Commit(k, [s EXCEPT !.record = Finished(@, o), !.joins_closed = TRUE], None,
                    SetProducer(o)).kind = "step"
      PROVE  Follows(k, s, type, Commit(k, [s EXCEPT !.record = Finished(@, o), !.joins_closed = TRUE],
                                        None, SetProducer(o)))
    <2> USE <1>FinishFollows
    <2> DEFINE f == Finished(s.record, o)
               t == [s EXCEPT !.record = f, !.joins_closed = TRUE]
    <2>1. s.record \in Record
      BY DEF State
    <2>2. f \in Record /\ f.revision = s.record.revision /\ KeepsFacts(s.record, f)
      BY <2>1, SoundFacts, FinishedKeeps
    <2>3. t \in State /\ t.record = f
      <3> HIDE DEF f
      <3> QED BY ZenonT(30), <2>2, StateWith
    <2>4. t = [s EXCEPT !.record = Finished(@, o), !.joins_closed = TRUE]
      BY DEF State
    <2>5. SetProducer(o) \in Payloads
      BY <1>PayloadFacts
    <2> HIDE DEF t, f
    <2> QED BY ZenonT(30), <2>2, <2>3, <2>4, <2>5, <1>CommitFollows DEF Intents, None
  <1>OutcomeFollows.
      ASSUME NEW k, NEW s \in State, NEW e, e.outcome \in Outcome, Sound(k, s.record),
             DecideOutcome(k, s, e).kind = "step"
      PROVE  Follows(k, s, "Outcome", DecideOutcome(k, s, e))
    <2> USE <1>OutcomeFollows
    <2>1. /\ s.record.producer = None
          /\ DecideOutcome(k, s, e)
               = Commit(k, [s EXCEPT !.record = Finished(@, e.outcome), !.joins_closed = TRUE],
                        None, SetProducer(e.outcome))
      BY DEF DecideOutcome, Same, Refused
    <2> QED BY ZenonT(30), <2>1, <1>FinishFollows
  <1>RecoverFollows.
      ASSUME NEW k, NEW s \in State, Sound(k, s.record), DecideRecover(k, s).kind = "step"
      PROVE  Follows(k, s, "Recover", DecideRecover(k, s))
    <2> USE <1>RecoverFollows
    <2> DEFINE o == RecoveredOutcome(s.record)
    <2>1. /\ s.record.producer = None
          /\ DecideRecover(k, s)
               = Commit(k, [s EXCEPT !.record = Finished(@, o), !.joins_closed = TRUE],
                        None, SetProducer(o))
      BY DEF DecideRecover, Same
    <2>2. o \in Outcome
      BY DEF RecoveredOutcome, Outcome
    <2> HIDE DEF o
    <2> QED BY ZenonT(30), <2>1, <2>2, <1>FinishFollows
  \* An update of the record alone.
  <1>RecordFollows.
      ASSUME NEW k, NEW s \in State, NEW type, NEW r \in Record, NEW intent \in Intents,
             NEW payloads \in Payloads, intent \notin {"Run", "Attached"},
             r.revision = s.record.revision, KeepsFacts(s.record, r),
             Commit(k, [s EXCEPT !.record = r], intent, payloads).kind = "step"
      PROVE  Follows(k, s, type, Commit(k, [s EXCEPT !.record = r], intent, payloads))
    <2> USE <1>RecordFollows
    <2> DEFINE t == [s EXCEPT !.record = r]
    <2>1. t \in State /\ t.record = r
      BY ZenonT(30), StateWith
    <2> HIDE DEF t
    <2>2. Commit(k, t, intent, payloads).kind = "step"
      BY DEF t
    <2>3. Follows(k, s, type, Commit(k, t, intent, payloads))
      BY <2>1, <2>2, <1>CommitFollows
    <2> QED BY SMTT(30), <2>3 DEF t
  <1>AdmissionRejectedFollows.
      ASSUME NEW k, NEW s \in State, Sound(k, s.record),
             DecideAdmissionRejected(k, s).kind = "step"
      PROVE  Follows(k, s, "AdmissionRejected", DecideAdmissionRejected(k, s))
    <2> USE <1>AdmissionRejectedFollows
    <2> DEFINE r == [s.record EXCEPT !.producer = "rejected", !.primary = "rejected"]
    <2>1. s.record \in Record
      BY DEF State
    <2>2. /\ s.record.begun = None /\ s.record.producer = None
          /\ DecideAdmissionRejected(k, s)
               = Commit(k, [s EXCEPT !.record.producer = "rejected", !.record.primary = "rejected"],
                        None, SetProducer("rejected"))
      BY DEF DecideAdmissionRejected, Same, Refused
    <2>3. [s EXCEPT !.record.producer = "rejected", !.record.primary = "rejected"]
            = [s EXCEPT !.record = r]
      BY ZenonT(30), <2>1 DEF State, Record
    <2>4. s.record.primary = None
      BY <2>1, <2>2, SoundFacts
    <2>5. r \in Record /\ r.revision = s.record.revision /\ KeepsFacts(s.record, r)
      <3>1. r \in Record
        BY ZenonT(30), <2>1, RecordWith DEF Outcome
      <3> QED BY <2>1, <2>2, <2>4, <3>1 DEF Record, KeepsFacts
    <2>6. SetProducer("rejected") \in Payloads /\ None \in Intents
      BY <1>PayloadFacts DEF Outcome, Intents
    <2> HIDE DEF r
    <2> QED BY <2>2, <2>3, <2>5, <2>6, <1>RecordFollows DEF None
  <1>ExposeTaskFollows.
      ASSUME NEW k, NEW s \in State, DecideExposeTask(k, s).kind = "step"
      PROVE  Follows(k, s, "ExposeTask", DecideExposeTask(k, s))
    <2> USE <1>ExposeTaskFollows
    <2> DEFINE r == [s.record EXCEPT !.public_task = TRUE]
    <2>1. s.record \in Record
      BY DEF State
    <2>2. DecideExposeTask(k, s) = Commit(k, [s EXCEPT !.record.public_task = TRUE], "Task", Keep)
      BY DEF DecideExposeTask, Same, Refused
    <2>3. [s EXCEPT !.record.public_task = TRUE] = [s EXCEPT !.record = r]
      BY DEF State
    <2>4. r \in Record /\ r.revision = s.record.revision /\ KeepsFacts(s.record, r)
      <3>1. r \in Record
        BY ZenonT(30), <2>1, RecordWith
      <3> QED BY <2>1, <3>1 DEF Record, KeepsFacts
    <2>5. Keep \in Payloads /\ "Task" \in Intents
      BY <1>PayloadFacts DEF Intents
    <2> HIDE DEF r
    <2> QED BY <2>2, <2>3, <2>4, <2>5, <1>RecordFollows
  <1>AcknowledgeFollows.
      ASSUME NEW k, NEW s \in State, NEW e, e.digest \in Outcome,
             DecideAcknowledge(k, s, e).kind = "step"
      PROVE  Follows(k, s, "Acknowledge", DecideAcknowledge(k, s, e))
    <2> USE <1>AcknowledgeFollows
    <2> DEFINE r == [s.record EXCEPT !.acknowledgement = e.digest]
    <2>1. s.record \in Record
      BY DEF State
    <2>2. /\ s.record.acknowledgement = None
          /\ DecideAcknowledge(k, s, e)
               = Commit(k, [s EXCEPT !.record.acknowledgement = e.digest], None, Keep)
      BY DEF DecideAcknowledge, Same, Refused
    <2>3. [s EXCEPT !.record.acknowledgement = e.digest] = [s EXCEPT !.record = r]
      BY DEF State
    <2>4. r \in Record /\ r.revision = s.record.revision /\ KeepsFacts(s.record, r)
      <3>1. r \in Record
        BY ZenonT(30), <2>1, RecordWith
      <3> QED BY <2>1, <2>2, <3>1 DEF Record, KeepsFacts
    <2>5. Keep \in Payloads /\ None \in Intents
      BY <1>PayloadFacts DEF Intents
    <2> HIDE DEF r
    <2> QED BY <2>2, <2>3, <2>4, <2>5, <1>RecordFollows DEF None
  \* Requesting the cancellation of a run takes no fact back.
  <1>CancelRunKeeps.
      ASSUME NEW s \in State
      PROVE  /\ CancelRun(s) \in State /\ CancelRun(s).record.revision = s.record.revision
             /\ KeepsFacts(s.record, CancelRun(s).record)
    <2> USE <1>CancelRunKeeps
    <2> DEFINE r == [s.record EXCEPT !.cancel_requested = TRUE]
               t == [s EXCEPT !.record = r, !.joins_closed = TRUE]
    <2>1. s.record \in Record
      BY DEF State
    <2>2. r \in Record /\ r.revision = s.record.revision /\ KeepsFacts(s.record, r)
      <3>1. r \in Record
        BY ZenonT(30), <2>1, RecordWith
      <3> QED BY <2>1, <3>1 DEF Record, KeepsFacts
    <2>3. CancelRun(s) = t
      BY <2>1 DEF CancelRun, State
    <2>4. t \in State /\ t.record = r
      BY ZenonT(30), <2>2, StateWith
    <2> HIDE DEF r, t
    <2> QED BY <2>2, <2>3, <2>4
  <1>CancelFollows.
      ASSUME NEW k, NEW s \in State, Sound(k, s.record), DecideCancel(k, s).kind = "step"
      PROVE  Follows(k, s, "Cancel", DecideCancel(k, s))
    <2> USE <1>CancelFollows
    <2> DEFINE r == s.record
               c == [r EXCEPT !.cancel_requested = TRUE]
               v == [r EXCEPT !.primary_override = "cancelled", !.primary = "cancelled"]
               overridden == [s EXCEPT !.record.primary_override = "cancelled",
                                       !.record.primary = "cancelled"]
    <2>1. r \in Record
      BY DEF State
    <2>2. r.producer = None /\ ~r.compacted
      <3>1. r.producer = None
        BY DEF DecideCancel, Same
      <3> QED BY <2>1, <3>1, SoundFacts
    <2>3. /\ c \in Record /\ c.revision = r.revision /\ KeepsFacts(r, c)
          /\ c.producer = r.producer /\ c.primary = r.primary
          /\ c.primary_override = r.primary_override
      <3>1. c \in Record
        BY ZenonT(30), <2>1, RecordWith
      <3> HIDE DEF r
      <3> QED BY <2>1, <3>1 DEF Record, KeepsFacts
    <2>4. /\ None \in Intents /\ "Cancel" \in Intents /\ Keep \in Payloads
          /\ SetProducer("cancelled") \in Payloads
          /\ [Keep EXCEPT !.primary_override = "cancelled"] \in Payloads
      BY <1>PayloadFacts DEF Intents, Outcome
    <2>5. CASE r.accepted = None
      <3> DEFINE t == [s EXCEPT !.record.cancel_requested = TRUE]
      <3>1. DecideCancel(k, s) = IF r.cancel_requested THEN Same ELSE Commit(k, t, None, Keep)
        <4>1. r.begun = None
          BY <2>1, <2>5, SoundFacts
        <4> QED BY <2>2, <2>5, <4>1 DEF DecideCancel
      <3>3. DecideCancel(k, s) = Commit(k, t, None, Keep)
        BY <3>1 DEF Same
      <3>2. [s EXCEPT !.record.cancel_requested = TRUE] = [s EXCEPT !.record = c]
        BY DEF State
      <3> HIDE DEF c
      <3> QED BY <2>3, <2>4, <3>2, <3>3, <1>RecordFollows DEF None
    <2>6. CASE r.accepted # None /\ r.begun = None
      <3> DEFINE f == Finished(c, "cancelled")
      <3>1. f \in Record /\ f.revision = c.revision /\ KeepsFacts(c, f)
        <4>1. c.producer = None /\ (c.primary_override = None => c.primary = None)
          BY <2>1, <2>2, <2>3, SoundFacts
        <4>2. "cancelled" \in Outcome
          BY DEF Outcome
        <4> HIDE DEF c
        <4> QED BY <2>3, <4>1, <4>2, FinishedKeeps
      <3>2. DecideCancel(k, s) = Commit(k, [s EXCEPT !.record = f], None, SetProducer("cancelled"))
        BY <2>2, <2>6 DEF DecideCancel, Same
      <3> HIDE DEF f, c
      <3>3. KeepsFacts(r, f)
        BY <2>3, <3>1, <1>KeepsTransitive
      <3> QED BY <2>3, <2>4, <3>1, <3>2, <3>3, <1>RecordFollows DEF None
    <2>7. CASE r.accepted # None /\ r.begun # None /\ k \in ReadTool /\ HoldersOf(s) # {}
      <3> DEFINE t == IF AllCancelled(s) THEN CancelRun(overridden) ELSE overridden
                 i == IF AllCancelled(s) THEN "Cancel" ELSE None
      <3>1. /\ r.primary_override = None
            /\ DecideCancel(k, s) = Commit(k, t, i, [Keep EXCEPT !.primary_override = "cancelled"])
        BY <2>2, <2>7 DEF DecideCancel, Same
      <3>2. r.primary = None
        BY <2>1, <2>2, <3>1, SoundFacts
      <3>3. v \in Record /\ v.revision = r.revision /\ KeepsFacts(r, v)
        <4>1. v \in Record
          BY ZenonT(30), <2>1, RecordWith DEF Outcome
        <4> HIDE DEF r
        <4> QED BY <2>1, <3>1, <3>2, <4>1 DEF Record, KeepsFacts
      <3>4. overridden = [s EXCEPT !.record = v]
        BY ZenonT(30), <2>1 DEF State, Record
      <3>5. overridden \in State /\ overridden.record = v
        <4> HIDE DEF v, overridden
        <4> QED BY ZenonT(30), <3>3, <3>4, StateWith
      <3> HIDE DEF overridden, v
      <3>6. t \in State /\ t.record.revision = r.revision /\ KeepsFacts(r, t.record)
        BY <3>3, <3>5, <1>CancelRunKeeps, <1>KeepsTransitive
      <3>7. i \in Intents /\ i \notin {"Run", "Attached"}
        BY DEF Intents, None
      <3> HIDE DEF t, i
      <3> QED BY <2>4, <3>1, <3>6, <3>7, <1>CommitFollows
    <2>8. CASE r.accepted # None /\ r.begun # None /\ ~(k \in ReadTool /\ HoldersOf(s) # {})
      <3>1. DecideCancel(k, s) = Commit(k, CancelRun(s), "Cancel", Keep)
        BY <2>2, <2>8 DEF DecideCancel, Same
      <3>2. /\ CancelRun(s) \in State /\ CancelRun(s).record.revision = r.revision
            /\ KeepsFacts(r, CancelRun(s).record)
        BY <1>CancelRunKeeps
      <3> QED BY <2>4, <3>1, <3>2, <1>CommitFollows
    <2> QED BY <2>5, <2>6, <2>7, <2>8
  <1>AttachFollows.
      ASSUME NEW k, NEW s \in State, NEW e, e.request \in Key, DecideAttach(k, s, e).kind = "step"
      PROVE  Follows(k, s, "Attach", DecideAttach(k, s, e))
    <2> USE <1>AttachFollows
    <2> DEFINE g == s.membership_generation + 1
               t == [s EXCEPT !.membership_generation = g,
                              !.holders[Task[e.request]] = [generation |-> g, cancelled |-> FALSE]]
    <2>1. DecideAttach(k, s, e) = Commit(k, t, "Attached", Keep)
      BY DEF DecideAttach, Refused
    <2>2. Task[e.request] \in TaskId /\ g \in Nat
      BY DEF TaskId, State
    <2>3. t \in State /\ t.record = s.record
      <3> HIDE DEF g
      <3> QED BY ZenonT(30), <2>2 DEF State
    <2>4. "Attached" \in Intents /\ Keep \in Payloads /\ KeepsFacts(s.record, s.record)
      BY <1>PayloadFacts DEF Intents, KeepsFacts
    <2> HIDE DEF t
    <2> QED BY <2>1, <2>3, <2>4, <1>CommitFollows
  <1>HolderFollows.
      ASSUME NEW k, NEW s \in State, NEW e, e.alias \in TaskId, DecideHolder(k, s, e).kind = "step"
      PROVE  Follows(k, s, e.type, DecideHolder(k, s, e))
    <2> USE <1>HolderFollows
    <2> DEFINE left == IF e.type = "RetireHolder" THEN [s EXCEPT !.holders[e.alias] = NoHolder]
                       ELSE [s EXCEPT !.holders[e.alias].cancelled = TRUE]
               last == /\ s.record.primary_override # None /\ AllCancelled(left)
                       /\ s.record.producer = None
               t == IF last THEN CancelRun(left) ELSE left
               i == IF last THEN "Cancel" ELSE None
    <2>1. DecideHolder(k, s, e) = Commit(k, t, i, Keep)
      BY DEF DecideHolder, Same, Refused
    <2>2. left \in State /\ left.record = s.record
      BY ZenonT(30) DEF State, NoHolder
    <2> HIDE DEF left
    <2>3. KeepsFacts(s.record, s.record)
      BY DEF KeepsFacts
    <2>4. t \in State /\ t.record.revision = s.record.revision /\ KeepsFacts(s.record, t.record)
      BY <2>2, <2>3, <1>CancelRunKeeps
    <2>5. i \in Intents /\ i \notin {"Run", "Attached"} /\ Keep \in Payloads
      BY <1>PayloadFacts DEF Intents, None
    <2> HIDE DEF t, i
    <2> QED BY ZenonT(30), <2>1, <2>4, <2>5, <1>CommitFollows
  <1> SUFFICES ASSUME NEW k \in Key, NEW s \in State, NEW e \in Events,
                      Sound(k, s.record), Decide(k, s, e).kind = "step"
               PROVE  Follows(k, s, e.type, Decide(k, s, e))
    OBVIOUS
  <1>1. CASE e.type = "Submit"
    BY <1>1, EventFacts, <1>SubmitFollows DEF Decide
  <1>2. CASE e.type = "Cancel"
    BY <1>2, <1>CancelFollows DEF Decide
  <1>3. CASE e.type = "Begin"
    BY <1>3, EventFacts, <1>BeginFollows DEF Decide
  <1>4. CASE e.type = "Outcome"
    BY <1>4, EventFacts, <1>OutcomeFollows DEF Decide
  <1>5. CASE e.type = "AdmissionRejected"
    BY <1>5, <1>AdmissionRejectedFollows DEF Decide
  <1>6. CASE e.type = "ExposeTask"
    BY <1>6, <1>ExposeTaskFollows DEF Decide
  <1>7. CASE e.type = "Acknowledge"
    BY <1>7, EventFacts, <1>AcknowledgeFollows DEF Decide
  <1>8. CASE e.type = "Attach"
    BY <1>8, EventFacts, <1>AttachFollows DEF Decide
  <1>9. CASE e.type \in {"CancelHolder", "RetireHolder"}
    BY <1>9, EventFacts, <1>HolderFollows DEF Decide
  <1>10. CASE e.type = "Recover"
    BY ZenonT(30), <1>10, <1>RecoverFollows DEF Decide
  <1> QED BY <1>1, <1>2, <1>3, <1>4, <1>5, <1>6, <1>7, <1>8, <1>9, <1>10, EventFacts

-----------------------------------------------------------------------------
(***************************************************************************)
(* What a decision does to the rights over an attempt.                        *)
(***************************************************************************)
\* A state in which an accepted attempt that was cancelled before it began has its
\* outcome, a running one was cancelled by all of its holders, and only a read is held.
Settled(k, s) ==
    /\ s.record.accepted # None /\ s.record.begun = None /\ s.record.cancel_requested =>
           s.record.producer # None
    /\ s.record.begun # None /\ s.record.cancel_requested => AllCancelled(s)
    /\ HoldersOf(s) # {} => k \in ReadTool

\* How the event e may move s to t, and which right comes with it.
Advances(k, s, e, t, intent) ==
    LET old == s.record
        r == t.record
    IN  /\ Settled(k, t)
        /\ old.begun # None /\ old.producer = None /\ r.producer # None =>
               \/ e.type = "Outcome" /\ r.producer = e.outcome
               \/ e.type = "Recover" /\ r.producer = "uncertain"
        /\ old.accepted = None /\ r.accepted # None /\ r.producer = None => intent = "Accepted"
        /\ old.begun = None /\ r.begun # None => intent = "Run"
        /\ old.begun # None /\ ~old.cancel_requested /\ r.cancel_requested => intent = "Cancel"
        /\ intent = "Accepted" => e.type = "Submit" /\ r.accepted # None
        /\ intent = "Run" => e.type = "Begin" /\ ~r.cancel_requested /\ r.producer = None
        /\ e.type = "Begin" => r.begun # None
        /\ e.type \in {"AdmissionRejected", "Outcome", "Recover"} => r.producer # None

\* Whatever the event, a transition of decide moves the facts as Advances says.
THEOREM DecideAdvances ==
    \A k \in Key, s \in State, e \in Events :
        Sound(k, s.record) /\ Settled(k, s) /\ Decide(k, s, e).kind = "step" =>
            Advances(k, s, e, Decide(k, s, e).state, Decide(k, s, e).intent)
  \* Settled and Advances read only these parts of a state.
  <1>SameFacts.
      ASSUME NEW k, NEW s, NEW e, NEW t, NEW u, NEW intent, u.holders = t.holders,
             u.record.accepted = t.record.accepted, u.record.begun = t.record.begun,
             u.record.producer = t.record.producer,
             u.record.cancel_requested = t.record.cancel_requested,
             Advances(k, s, e, t, intent)
      PROVE  Advances(k, s, e, u, intent)
    <2> USE <1>SameFacts
    <2>1. HoldersOf(u) = HoldersOf(t) /\ (AllCancelled(u) <=> AllCancelled(t))
      BY DEF HoldersOf, AllCancelled
    <2> QED BY <2>1 DEF Advances, Settled
  \* What the common end of every decision leaves as it was.
  <1>CommitAdvances.
      ASSUME NEW k, NEW s, NEW e, NEW t \in State, NEW intent, NEW payloads,
             Commit(k, t, intent, payloads).kind = "step",
             Advances(k, s, e, t, intent)
      PROVE  Advances(k, s, e, Commit(k, t, intent, payloads).state,
                      Commit(k, t, intent, payloads).intent)
    <2> USE <1>CommitAdvances
    <2> DEFINE r == t.record
               compact == /\ r.acknowledgement # None /\ ~r.public_task
                          /\ r.producer # None /\ HoldersOf(t) = {}
               next == [t EXCEPT !.record.compacted = @ \/ compact, !.record.revision = @ + 1]
    <2>1. /\ Commit(k, t, intent, payloads).state = next
          /\ Commit(k, t, intent, payloads).intent = intent
      BY DEF Commit, Refused
    <2>2. /\ next.holders = t.holders
          /\ next.record = [r EXCEPT !.compacted = @ \/ compact, !.revision = @ + 1]
      BY DEF State, Record
    <2>3. /\ next.record.accepted = r.accepted /\ next.record.begun = r.begun
          /\ next.record.producer = r.producer
          /\ next.record.cancel_requested = r.cancel_requested
      <3> HIDE DEF next, compact
      <3> QED BY <2>2 DEF State, Record
    <2> HIDE DEF next
    <2>4. Advances(k, s, e, next, intent)
      BY ZenonT(30), <2>2, <2>3, <1>SameFacts
    <2> QED BY ZenonT(30), <2>1, <2>4
  \* An update of the record alone, seen through the four facts.
  <1>RecordAdvances.
      ASSUME NEW k, NEW s \in State, NEW e, NEW r \in Record, NEW intent, NEW payloads,
             NEW d, d = Commit(k, [s EXCEPT !.record = r], intent, payloads), d.kind = "step",
             \A t \in State : t.record = r /\ t.holders = s.holders => Advances(k, s, e, t, intent)
      PROVE  Advances(k, s, e, d.state, d.intent)
    <2> USE <1>RecordAdvances
    <2> DEFINE t == [s EXCEPT !.record = r]
    <2>1. t \in State /\ t.record = r /\ t.holders = s.holders
      BY ZenonT(30) DEF State
    <2> HIDE DEF t
    <2>2. Advances(k, s, e, Commit(k, t, intent, payloads).state, Commit(k, t, intent, payloads).intent)
      <3>1. Commit(k, t, intent, payloads).kind = "step"
        BY DEF t
      <3> QED BY <2>1, <3>1, <1>CommitAdvances
    <2> QED BY <2>2 DEF t
  \* A first outcome, and what it leaves alone.
  <1>FinishedFacts.
      ASSUME NEW r \in Record, NEW o \in Outcome
      PROVE  /\ Finished(r, o).producer = o /\ Finished(r, o).accepted = r.accepted
             /\ Finished(r, o).begun = r.begun
             /\ Finished(r, o).cancel_requested = r.cancel_requested
             /\ o # None
    BY <1>FinishedFacts DEF Finished, Record, Outcome, None
  \* Holders are a matter of one field.
  <1>SameHolders.
      ASSUME NEW s, NEW t, t.holders = s.holders
      PROVE  HoldersOf(t) = HoldersOf(s) /\ (AllCancelled(t) <=> AllCancelled(s))
    BY <1>SameHolders DEF HoldersOf, AllCancelled
  <1>SubmitAdvances.
      ASSUME NEW k, NEW s \in State, NEW e, e.type = "Submit", e.owner \in Owner,
             Sound(k, s.record), Settled(k, s), DecideSubmit(k, s, e).kind = "step"
      PROVE  Advances(k, s, e, DecideSubmit(k, s, e).state, DecideSubmit(k, s, e).intent)
    <2> USE <1>SubmitAdvances
    <2> DEFINE r == [s.record EXCEPT !.accepted = e.owner]
               f == Finished(r, "cancelled")
    <2>1. s.record \in Record
      BY DEF State
    <2>2. s.record.accepted = None
      BY DEF DecideSubmit, Same, Refused
    <2>3. s.record.begun = None /\ s.record.producer = None /\ s.record.primary_override = None
          /\ s.record.primary = None
      BY <2>1, <2>2, SoundFacts
    <2>4. /\ r \in Record /\ r.producer = None /\ r.begun = None /\ r.accepted # None
          /\ r.accepted = e.owner /\ r.primary = None /\ r.revision = s.record.revision
          /\ r.cancel_requested = s.record.cancel_requested
      <3>1. r \in Record
        BY ZenonT(30), <2>1, RecordWith
      <3> QED BY <2>1, <2>3, <3>1, NoneAssumption DEF Record
    <2>5. CASE r.cancel_requested
      <3>1. /\ f \in Record /\ f.producer # None /\ f.begun = None
        BY ZenonT(30), <2>4, FinishedKeeps, <1>FinishedFacts DEF Outcome
      <3>2. DecideSubmit(k, s, e) = Commit(k, [s EXCEPT !.record = f], None, SetProducer("cancelled"))
        BY <2>2, <2>5, NoneAssumption DEF DecideSubmit
      <3> HIDE DEF f, r
      <3>3. \A t \in State : t.record = f /\ t.holders = s.holders => Advances(k, s, e, t, None)
        BY <2>3, <3>1, <1>SameHolders DEF Advances, Settled, None
      <3>4. f \in Record
        BY <3>1
      <3>5. PICK d : d = DecideSubmit(k, s, e)
        BY ZenonT(30)
      <3>6. /\ d = Commit(k, [s EXCEPT !.record = f], None, SetProducer("cancelled"))
            /\ d.kind = "step"
        BY ZenonT(30), <3>2, <3>5
      <3>7. Advances(k, s, e, d.state, d.intent)
        BY ZenonT(30), <3>3, <3>4, <3>6, <1>RecordAdvances
      <3> QED BY ZenonT(30), <3>5, <3>7
    <2>6. CASE ~r.cancel_requested
      <3>1. DecideSubmit(k, s, e) = Commit(k, [s EXCEPT !.record = r], "Accepted", Keep)
        BY <2>2, <2>6, NoneAssumption DEF DecideSubmit
      <3> HIDE DEF r
      <3>2. \A t \in State : t.record = r /\ t.holders = s.holders => Advances(k, s, e, t, "Accepted")
        BY <2>3, <2>4, <2>6, <1>SameHolders DEF Advances, Settled, None
      <3> QED BY ZenonT(30), <2>4, <3>1, <3>2, <1>RecordAdvances
    <2> QED BY <2>5, <2>6
  <1>BeginAdvances.
      ASSUME NEW k, NEW s \in State, NEW e, e.type = "Begin",
             e.authority \in Authority \cup {NoAuthority},
             Settled(k, s), DecideBegin(k, s, e).kind = "step"
      PROVE  Advances(k, s, e, DecideBegin(k, s, e).state, DecideBegin(k, s, e).intent)
    <2> USE <1>BeginAdvances
    <2> DEFINE r == [s.record EXCEPT !.begun = e.authority]
    <2>1. s.record \in Record
      BY DEF State
    <2>2. /\ s.record.begun = None /\ ~s.record.cancel_requested /\ s.record.producer = None
          /\ s.record.accepted # None
          /\ DecideBegin(k, s, e) = Commit(k, [s EXCEPT !.record.begun = e.authority], "Run", Keep)
      BY DEF DecideBegin, Refused
    <2>3. [s EXCEPT !.record.begun = e.authority] = [s EXCEPT !.record = r]
      BY DEF State
    <2>4. /\ r \in Record /\ r.begun # None /\ r.producer = None /\ ~r.cancel_requested
          /\ r.accepted = s.record.accepted
      <3>1. r \in Record
        BY ZenonT(30), <2>1, RecordWith
      <3> QED BY <2>1, <2>2, <3>1, NoneAssumption DEF Record, None, NoAuthority
    <2> HIDE DEF r
    <2>5. \A t \in State : t.record = r /\ t.holders = s.holders => Advances(k, s, e, t, "Run")
      BY <2>2, <2>4, <1>SameHolders DEF Advances, Settled, None
    <2>6. DecideBegin(k, s, e) = Commit(k, [s EXCEPT !.record = r], "Run", Keep)
      BY <2>2, <2>3
    <2> QED BY ZenonT(30), <2>4, <2>5, <2>6, <1>RecordAdvances
  \* Outcome and Recover.
  <1>FinishAdvances.
      ASSUME NEW k, NEW s \in State, NEW e, NEW o \in Outcome, Sound(k, s.record), Settled(k, s),
             s.record.producer = None,
             \/ e.type = "Outcome" /\ e.outcome = o
             \/ e.type = "Recover" /\ (s.record.begun # None => o = "uncertain"),
             s.record.accepted # None,
             Commit(k, [s EXCEPT !.record = Finished(@, o), !.joins_closed = TRUE], None,
                    SetProducer(o)).kind = "step"
      PROVE  LET result == Commit(k, [s EXCEPT !.record = Finished(@, o), !.joins_closed = TRUE],
                                  None, SetProducer(o))
             IN  Advances(k, s, e, result.state, result.intent)
    <2> USE <1>FinishAdvances
    <2> DEFINE f == Finished(s.record, o)
               t == [s EXCEPT !.record = f, !.joins_closed = TRUE]
    <2>1. s.record \in Record
      BY DEF State
    <2>2. /\ f \in Record /\ f.producer = o /\ o # None /\ f.begun = s.record.begun
          /\ f.cancel_requested = s.record.cancel_requested /\ f.accepted = s.record.accepted
      BY <2>1, SoundFacts, FinishedKeeps, <1>FinishedFacts
    <2>3. t \in State /\ t.record = f /\ t.holders = s.holders
      <3> HIDE DEF f
      <3>1. t \in State /\ t.record = f
        BY ZenonT(30), <2>2, StateWith
      <3> QED BY <3>1 DEF State
    <2>4. t = [s EXCEPT !.record = Finished(@, o), !.joins_closed = TRUE]
      BY DEF State
    <2> HIDE DEF f, t
    <2>5. Advances(k, s, e, t, None)
      BY <2>2, <2>3, <1>SameHolders DEF Advances, Settled, None
    <2> QED BY <2>3, <2>4, <2>5, <1>CommitAdvances
  <1>OutcomeAdvances.
      ASSUME NEW k, NEW s \in State, NEW e, e.type = "Outcome", e.outcome \in Outcome,
             Sound(k, s.record), Settled(k, s), DecideOutcome(k, s, e).kind = "step"
      PROVE  Advances(k, s, e, DecideOutcome(k, s, e).state, DecideOutcome(k, s, e).intent)
    <2> USE <1>OutcomeAdvances
    <2>1. /\ s.record.producer = None /\ s.record.begun # None
          /\ DecideOutcome(k, s, e)
               = Commit(k, [s EXCEPT !.record = Finished(@, e.outcome), !.joins_closed = TRUE],
                        None, SetProducer(e.outcome))
      BY DEF DecideOutcome, Same, Refused
    <2>2. s.record.accepted # None
      BY <2>1, SoundFacts DEF State
    <2> QED BY ZenonT(30), <2>1, <2>2, <1>FinishAdvances
  <1>RecoverAdvances.
      ASSUME NEW k, NEW s \in State, NEW e, e.type = "Recover", Sound(k, s.record), Settled(k, s),
             DecideRecover(k, s).kind = "step"
      PROVE  Advances(k, s, e, DecideRecover(k, s).state, DecideRecover(k, s).intent)
    <2> USE <1>RecoverAdvances
    <2> DEFINE o == RecoveredOutcome(s.record)
    <2>1. /\ s.record.producer = None /\ s.record.accepted # None
          /\ DecideRecover(k, s)
               = Commit(k, [s EXCEPT !.record = Finished(@, o), !.joins_closed = TRUE],
                        None, SetProducer(o))
      BY DEF DecideRecover, Same
    <2>2. o \in Outcome /\ (s.record.begun # None => o = "uncertain")
      BY DEF RecoveredOutcome, Outcome
    <2> HIDE DEF o
    <2> QED BY ZenonT(30), <2>1, <2>2, <1>FinishAdvances
  <1>AdmissionRejectedAdvances.
      ASSUME NEW k, NEW s \in State, NEW e, e.type = "AdmissionRejected", Settled(k, s),
             DecideAdmissionRejected(k, s).kind = "step"
      PROVE  Advances(k, s, e, DecideAdmissionRejected(k, s).state,
                      DecideAdmissionRejected(k, s).intent)
    <2> USE <1>AdmissionRejectedAdvances
    <2> DEFINE r == [s.record EXCEPT !.producer = "rejected", !.primary = "rejected"]
    <2>1. s.record \in Record
      BY DEF State
    <2>2. /\ s.record.begun = None /\ s.record.accepted # None
          /\ DecideAdmissionRejected(k, s)
               = Commit(k, [s EXCEPT !.record.producer = "rejected", !.record.primary = "rejected"],
                        None, SetProducer("rejected"))
      BY DEF DecideAdmissionRejected, Same, Refused
    <2>3. [s EXCEPT !.record.producer = "rejected", !.record.primary = "rejected"]
            = [s EXCEPT !.record = r]
      BY ZenonT(30), <2>1 DEF State, Record
    <2>4. r \in Record /\ r.producer # None /\ r.begun = None
      <3>1. r \in Record
        BY ZenonT(30), <2>1, RecordWith DEF Outcome
      <3> QED BY <2>1, <2>2, <3>1 DEF Record, None
    <2> HIDE DEF r
    <2>5. \A t \in State : t.record = r /\ t.holders = s.holders => Advances(k, s, e, t, None)
      BY <2>2, <2>4, <1>SameHolders DEF Advances, Settled, None
    <2>6. DecideAdmissionRejected(k, s)
            = Commit(k, [s EXCEPT !.record = r], None, SetProducer("rejected"))
      BY <2>2, <2>3
    <2>7. r \in Record
      BY <2>4
    <2> QED BY ZenonT(30), <2>5, <2>6, <2>7, <1>RecordAdvances
  \* An event that touches none of the four facts.
  <1>QuietAdvances.
      ASSUME NEW k, NEW s \in State, NEW e, NEW r \in Record, NEW intent \in {None, "Task"},
             e.type \in {"ExposeTask", "Acknowledge"}, Settled(k, s),
             r.accepted = s.record.accepted, r.begun = s.record.begun,
             r.producer = s.record.producer, r.cancel_requested = s.record.cancel_requested,
             NEW d, d = Commit(k, [s EXCEPT !.record = r], intent, Keep), d.kind = "step",
             s.record.accepted = None => s.record.begun = None
      PROVE  Advances(k, s, e, d.state, d.intent)
    <2> USE <1>QuietAdvances
    <2>1. \A t \in State : t.record = r /\ t.holders = s.holders => Advances(k, s, e, t, intent)
      BY <1>SameHolders DEF Advances, Settled, None
    <2> QED BY ZenonT(30), <2>1, <1>RecordAdvances
  <1>ExposeTaskAdvances.
      ASSUME NEW k, NEW s \in State, NEW e, e.type = "ExposeTask", Settled(k, s),
             DecideExposeTask(k, s).kind = "step"
      PROVE  Advances(k, s, e, DecideExposeTask(k, s).state, DecideExposeTask(k, s).intent)
    <2> USE <1>ExposeTaskAdvances
    <2> DEFINE r == [s.record EXCEPT !.public_task = TRUE]
    <2>1. s.record \in Record
      BY DEF State
    <2>2. /\ s.record.accepted # None
          /\ DecideExposeTask(k, s) = Commit(k, [s EXCEPT !.record.public_task = TRUE], "Task", Keep)
      BY DEF DecideExposeTask, Same, Refused
    <2>3. [s EXCEPT !.record.public_task = TRUE] = [s EXCEPT !.record = r]
      BY DEF State
    <2>4. /\ r \in Record /\ r.accepted = s.record.accepted /\ r.begun = s.record.begun
          /\ r.producer = s.record.producer /\ r.cancel_requested = s.record.cancel_requested
      <3>1. r \in Record
        BY ZenonT(30), <2>1, RecordWith
      <3> QED BY <2>1, <3>1 DEF Record
    <2> HIDE DEF r
    <2>5. DecideExposeTask(k, s) = Commit(k, [s EXCEPT !.record = r], "Task", Keep)
      BY <2>2, <2>3
    <2> QED BY <2>2, <2>4, <2>5, <1>QuietAdvances
  <1>AcknowledgeAdvances.
      ASSUME NEW k, NEW s \in State, NEW e, e.type = "Acknowledge", e.owner \in Owner,
             e.digest \in Outcome, Settled(k, s), DecideAcknowledge(k, s, e).kind = "step"
      PROVE  Advances(k, s, e, DecideAcknowledge(k, s, e).state, DecideAcknowledge(k, s, e).intent)
    <2> USE <1>AcknowledgeAdvances
    <2> DEFINE r == [s.record EXCEPT !.acknowledgement = e.digest]
    <2>1. s.record \in Record
      BY DEF State
    <2>2. /\ s.record.accepted # None
          /\ DecideAcknowledge(k, s, e)
               = Commit(k, [s EXCEPT !.record.acknowledgement = e.digest], None, Keep)
      BY NoneAssumption DEF DecideAcknowledge, Same, Refused
    <2>3. [s EXCEPT !.record.acknowledgement = e.digest] = [s EXCEPT !.record = r]
      BY DEF State
    <2>4. /\ r \in Record /\ r.accepted = s.record.accepted /\ r.begun = s.record.begun
          /\ r.producer = s.record.producer /\ r.cancel_requested = s.record.cancel_requested
      <3>1. r \in Record
        BY ZenonT(30), <2>1, RecordWith
      <3> QED BY <2>1, <3>1 DEF Record
    <2> HIDE DEF r
    <2>5. DecideAcknowledge(k, s, e) = Commit(k, [s EXCEPT !.record = r], None, Keep)
      BY <2>2, <2>3
    <2> QED BY <2>2, <2>4, <2>5, <1>QuietAdvances
  \* Requesting the cancellation of a run: the worker is told.
  <1>CancelRunFacts.
      ASSUME NEW s \in State
      PROVE  /\ CancelRun(s) \in State /\ CancelRun(s).holders = s.holders
             /\ CancelRun(s).record.cancel_requested
             /\ CancelRun(s).record.accepted = s.record.accepted
             /\ CancelRun(s).record.begun = s.record.begun
             /\ CancelRun(s).record.producer = s.record.producer
    <2> USE <1>CancelRunFacts
    <2> DEFINE r == [s.record EXCEPT !.cancel_requested = TRUE]
               t == [s EXCEPT !.record = r, !.joins_closed = TRUE]
    <2>1. s.record \in Record
      BY DEF State
    <2>2. /\ r \in Record /\ r.cancel_requested /\ r.accepted = s.record.accepted
          /\ r.begun = s.record.begun /\ r.producer = s.record.producer
      <3>1. r \in Record
        BY ZenonT(30), <2>1, RecordWith
      <3> QED BY <2>1, <3>1 DEF Record
    <2>3. CancelRun(s) = t
      BY <2>1 DEF CancelRun, State
    <2>4. t \in State /\ t.record = r /\ t.holders = s.holders
      BY ZenonT(30), <2>2 DEF State
    <2> HIDE DEF r, t
    <2> QED BY <2>2, <2>3, <2>4
  <1>CancelAdvances.
      ASSUME NEW k, NEW s \in State, NEW e, e.type = "Cancel", Sound(k, s.record), Settled(k, s),
             DecideCancel(k, s).kind = "step"
      PROVE  Advances(k, s, e, DecideCancel(k, s).state, DecideCancel(k, s).intent)
    <2> USE <1>CancelAdvances
    <2> DEFINE r == s.record
               c == [r EXCEPT !.cancel_requested = TRUE]
               overridden == [s EXCEPT !.record.primary_override = "cancelled",
                                       !.record.primary = "cancelled"]
    <2>1. r \in Record
      BY DEF State
    <2>2. r.producer = None /\ ~r.compacted
      <3>1. r.producer = None
        BY DEF DecideCancel, Same
      <3> QED BY <2>1, <3>1, SoundFacts
    <2>3. /\ c \in Record /\ c.producer = r.producer /\ c.accepted = r.accepted
          /\ c.begun = r.begun /\ c.cancel_requested /\ c.primary = r.primary
          /\ c.primary_override = r.primary_override
      <3>1. c \in Record
        BY ZenonT(30), <2>1, RecordWith
      <3> HIDE DEF r
      <3> QED BY <2>1, <3>1 DEF Record
    <2>4. CASE r.accepted = None
      <3>1. r.begun = None
        BY <2>1, <2>4, SoundFacts
      <3>2. DecideCancel(k, s) = Commit(k, [s EXCEPT !.record.cancel_requested = TRUE], None, Keep)
        BY <2>2, <2>4, <3>1 DEF DecideCancel, Same
      <3>3. [s EXCEPT !.record.cancel_requested = TRUE] = [s EXCEPT !.record = c]
        BY ZenonT(30) DEF State
      <3> HIDE DEF c
      <3>4. \A t \in State : t.record = c /\ t.holders = s.holders => Advances(k, s, e, t, None)
        BY <2>3, <2>4, <3>1, <1>SameHolders DEF Advances, Settled, None
      <3>5. DecideCancel(k, s) = Commit(k, [s EXCEPT !.record = c], None, Keep)
        BY <3>2, <3>3
      <3> QED BY ZenonT(30), <2>3, <3>4, <3>5, <1>RecordAdvances
    <2>5. CASE r.accepted # None /\ r.begun = None
      <3> DEFINE f == Finished(c, "cancelled")
      <3>1. f \in Record /\ f.producer # None /\ f.begun = None
        <4>1. c.producer = None /\ (c.primary_override = None => c.primary = None)
          BY <2>1, <2>2, <2>3, SoundFacts
        <4>2. "cancelled" \in Outcome
          BY DEF Outcome
        <4> HIDE DEF c
        <4> QED BY <2>3, <2>5, <4>1, <4>2, FinishedKeeps, <1>FinishedFacts
      <3>2. DecideCancel(k, s) = Commit(k, [s EXCEPT !.record = f], None, SetProducer("cancelled"))
        BY ZenonT(30), <2>2, <2>5 DEF DecideCancel, Same
      <3> HIDE DEF f, c
      <3>3. \A t \in State : t.record = f /\ t.holders = s.holders => Advances(k, s, e, t, None)
        BY ZenonT(30), <2>5, <3>1, <1>SameHolders DEF Advances, Settled, None
      <3>4. f \in Record
        BY <3>1
      <3>5. PICK d : d = DecideCancel(k, s)
        BY ZenonT(30)
      <3>6. /\ d = Commit(k, [s EXCEPT !.record = f], None, SetProducer("cancelled"))
            /\ d.kind = "step"
        BY ZenonT(30), <3>2, <3>5
      <3>7. Advances(k, s, e, d.state, d.intent)
        BY ZenonT(30), <3>3, <3>4, <3>6, <1>RecordAdvances
      <3> QED BY ZenonT(30), <3>5, <3>7
    <2>6. CASE r.accepted # None /\ r.begun # None /\ k \in ReadTool /\ HoldersOf(s) # {}
      <3> DEFINE t == IF AllCancelled(s) THEN CancelRun(overridden) ELSE overridden
                 i == IF AllCancelled(s) THEN "Cancel" ELSE None
      <3>1. DecideCancel(k, s) = Commit(k, t, i, [Keep EXCEPT !.primary_override = "cancelled"])
        BY <2>2, <2>6 DEF DecideCancel, Same
      <3>2. /\ overridden \in State /\ overridden.holders = s.holders
            /\ overridden.record.accepted = r.accepted /\ overridden.record.begun = r.begun
            /\ overridden.record.producer = r.producer
            /\ overridden.record.cancel_requested = r.cancel_requested
        <4> DEFINE v == [r EXCEPT !.primary_override = "cancelled", !.primary = "cancelled"]
        <4>1. v \in Record
          BY ZenonT(30), <2>1, RecordWith DEF Outcome
        <4>2. overridden = [s EXCEPT !.record = v]
          BY ZenonT(30), <2>1 DEF State, Record
        <4>3. /\ v.accepted = r.accepted /\ v.begun = r.begun /\ v.producer = r.producer
              /\ v.cancel_requested = r.cancel_requested
          <5> HIDE DEF r
          <5> QED BY <2>1 DEF Record
        <4> HIDE DEF v, overridden
        <4>4. overridden \in State /\ overridden.record = v /\ overridden.holders = s.holders
          BY ZenonT(30), <4>1, <4>2 DEF State
        <4> QED BY <4>3, <4>4
      <3> HIDE DEF overridden
      <3>3. t \in State /\ Advances(k, s, e, t, i)
        <4>1. CASE AllCancelled(s)
          <5>1. /\ t.holders = s.holders /\ t \in State /\ i = "Cancel"
                /\ t.record.accepted = r.accepted /\ t.record.begun = r.begun
                /\ t.record.producer = r.producer
            BY ZenonT(30), <3>2, <4>1, <1>CancelRunFacts
          <5> HIDE DEF t, i
          <5> QED BY ZenonT(30), <2>2, <2>6, <4>1, <5>1, <1>SameHolders DEF Advances, Settled, None
        <4>2. CASE ~AllCancelled(s)
          <5>1. t = overridden /\ i = None
            BY <4>2
          <5> HIDE DEF t, i
          <5> QED BY ZenonT(30), <2>2, <2>6, <3>2, <4>2, <5>1, <1>SameHolders DEF Advances, Settled, None
        <4> QED BY ZenonT(30), <4>1, <4>2
      <3> HIDE DEF t, i
      <3> QED BY <3>1, <3>3, <1>CommitAdvances
    <2>7. CASE r.accepted # None /\ r.begun # None /\ ~(k \in ReadTool /\ HoldersOf(s) # {})
      <3> DEFINE t == CancelRun(s)
                 i == "Cancel"
      <3>1. DecideCancel(k, s) = Commit(k, t, i, Keep)
        BY <2>2, <2>7 DEF DecideCancel, Same
      <3>2. /\ t \in State /\ t.holders = s.holders
            /\ t.record.accepted = r.accepted /\ t.record.begun = r.begun
            /\ t.record.producer = r.producer
        BY <1>CancelRunFacts
      <3>3. AllCancelled(s)
        BY ZenonT(30), <2>7 DEF Settled, AllCancelled
      <3> HIDE DEF t
      <3>4. Advances(k, s, e, t, i)
        BY ZenonT(30), <2>2, <2>7, <3>2, <3>3, <1>SameHolders DEF Advances, Settled, None
      <3> HIDE DEF i
      <3> QED BY ZenonT(30), <3>1, <3>2, <3>4, <1>CommitAdvances
    <2> QED BY <2>4, <2>5, <2>6, <2>7
  \* A new holder: only of a read that runs and is not being cancelled.
  <1>AttachAdvances.
      ASSUME NEW k, NEW s \in State, NEW e, e.type = "Attach", e.request \in Key, Settled(k, s),
             DecideAttach(k, s, e).kind = "step"
      PROVE  Advances(k, s, e, DecideAttach(k, s, e).state, DecideAttach(k, s, e).intent)
    <2> USE <1>AttachAdvances
    <2> DEFINE g == s.membership_generation + 1
               t == [s EXCEPT !.membership_generation = g,
                              !.holders[Task[e.request]] = [generation |-> g, cancelled |-> FALSE]]
               i == "Attached"
    <2>1. /\ DecideAttach(k, s, e) = Commit(k, t, i, Keep)
          /\ s.record.begun # None /\ s.record.accepted # None /\ ~s.record.cancel_requested
          /\ s.record.producer = None /\ k \in ReadTool
      BY DEF DecideAttach, Joinable, Refused
    <2>2. Task[e.request] \in TaskId /\ g \in Nat
      BY DEF TaskId, State
    <2>3. t \in State /\ t.record = s.record
      <3> HIDE DEF g
      <3> QED BY ZenonT(30), <2>2 DEF State
    <2> HIDE DEF t
    <2>4. Advances(k, s, e, t, i)
      BY <2>1, <2>3 DEF Advances, Settled, None
    <2> HIDE DEF i
    <2> QED BY ZenonT(30), <2>1, <2>3, <2>4, <1>CommitAdvances
  \* A holder cancels or leaves: those that stay are among those that were there.
  <1>HolderAdvances.
      ASSUME NEW k, NEW s \in State, NEW e, e.type \in {"CancelHolder", "RetireHolder"},
             e.alias \in TaskId, Sound(k, s.record), Settled(k, s),
             DecideHolder(k, s, e).kind = "step"
      PROVE  Advances(k, s, e, DecideHolder(k, s, e).state, DecideHolder(k, s, e).intent)
    <2> USE <1>HolderAdvances
    <2> DEFINE left == IF e.type = "RetireHolder" THEN [s EXCEPT !.holders[e.alias] = NoHolder]
                       ELSE [s EXCEPT !.holders[e.alias].cancelled = TRUE]
               last == /\ s.record.primary_override # None /\ AllCancelled(left)
                       /\ s.record.producer = None
               t == IF last THEN CancelRun(left) ELSE left
               i == IF last THEN "Cancel" ELSE None
    <2>1. /\ DecideHolder(k, s, e) = Commit(k, t, i, Keep)
          /\ e.alias \in HoldersOf(s)
      BY DEF DecideHolder, Same, Refused
    <2>2. left \in State /\ left.record = s.record
      BY ZenonT(30) DEF State, NoHolder
    <2>3. /\ \A a \in TaskId \ {e.alias} : left.holders[a] = s.holders[a]
          /\ left.holders[e.alias] = NoHolder \/ left.holders[e.alias].cancelled
      BY DEF State, NoHolder
    <2> HIDE DEF left
    <2>4. /\ HoldersOf(left) # {} => HoldersOf(s) # {}
          /\ AllCancelled(s) => AllCancelled(left)
      BY ZenonT(30), <2>1, <2>3 DEF HoldersOf, AllCancelled
    <2>5. s.record \in Record
      BY DEF State
    <2>6. last => s.record.begun # None /\ s.record.accepted # None
      BY ZenonT(30), <2>5, SoundFacts
    <2>7. t \in State /\ Advances(k, s, e, t, i)
      <3>1. CASE last
        <4>1. /\ t.holders = left.holders /\ t \in State /\ i = "Cancel" /\ AllCancelled(left)
              /\ t.record.accepted = s.record.accepted /\ t.record.begun = s.record.begun
              /\ t.record.producer = s.record.producer
          BY ZenonT(30), <2>2, <3>1, <1>CancelRunFacts
        <4> HIDE DEF t, i, last
        <4> QED BY ZenonT(30), <2>4, <2>6, <3>1, <4>1, <1>SameHolders DEF Advances, Settled, None
      <3>2. CASE ~last
        <4>1. t = left /\ i = None
          BY <3>2
        <4> HIDE DEF t, i, last
        <4> QED BY ZenonT(30), <2>2, <2>4, <4>1 DEF Advances, Settled, None
      <3> QED BY <3>1, <3>2
    <2> HIDE DEF t, i
    <2> QED BY ZenonT(30), <2>1, <2>7, <1>CommitAdvances
  <1> SUFFICES ASSUME NEW k \in Key, NEW s \in State, NEW e \in Events,
                      Sound(k, s.record), Settled(k, s), Decide(k, s, e).kind = "step"
               PROVE  Advances(k, s, e, Decide(k, s, e).state, Decide(k, s, e).intent)
    OBVIOUS
  <1>1. CASE e.type = "Submit"
    BY <1>1, EventFacts, <1>SubmitAdvances DEF Decide
  <1>2. CASE e.type = "Cancel"
    BY <1>2, <1>CancelAdvances DEF Decide
  <1>3. CASE e.type = "Begin"
    BY <1>3, EventFacts, <1>BeginAdvances DEF Decide
  <1>4. CASE e.type = "Outcome"
    BY <1>4, EventFacts, <1>OutcomeAdvances DEF Decide
  <1>5. CASE e.type = "AdmissionRejected"
    BY <1>5, <1>AdmissionRejectedAdvances DEF Decide
  <1>6. CASE e.type = "ExposeTask"
    BY <1>6, <1>ExposeTaskAdvances DEF Decide
  <1>7. CASE e.type = "Acknowledge"
    BY ZenonT(30), <1>7, EventFacts, <1>AcknowledgeAdvances DEF Decide
  <1>8. CASE e.type = "Attach"
    BY <1>8, EventFacts, <1>AttachAdvances DEF Decide
  <1>9. CASE e.type \in {"CancelHolder", "RetireHolder"}
    BY <1>9, EventFacts, <1>HolderAdvances DEF Decide
  <1>10. CASE e.type = "Recover"
    BY <1>10, <1>RecoverAdvances DEF Decide
  <1> QED BY ZenonT(30), <1>1, <1>2, <1>3, <1>4, <1>5, <1>6, <1>7, <1>8, <1>9, <1>10, EventFacts

\* An accepted record that Commit takes, with its body still kept.
Acceptable(k, r) ==
    /\ r.accepted # None /\ ~r.compacted /\ r.primary = Primary(r)
    /\ r.begun \in Authority => k \in ReadTool
    /\ r.primary_override # None => k \in ReadTool /\ r.begun # None
    /\ r.begun = None /\ r.producer # None =>
           \/ r.producer \in {"interrupted", "rejected"}
           \/ r.producer = "cancelled" /\ r.cancel_requested
    /\ r.acknowledgement # None => r.acknowledgement = r.primary

LEMMA CommitSure ==
    ASSUME NEW k, NEW t \in State, NEW intent, NEW payloads, Acceptable(k, t.record)
    PROVE  Commit(k, t, intent, payloads).kind = "step"
  <1> DEFINE r == t.record
             compact == /\ r.acknowledgement # None /\ ~r.public_task
                        /\ r.producer # None /\ HoldersOf(t) = {}
             next == [t EXCEPT !.record.compacted = @ \/ compact, !.record.revision = @ + 1]
  <1>1. r \in Record
    BY DEF State
  <1>2. next.record = [r EXCEPT !.compacted = @ \/ compact, !.revision = @ + 1]
    BY DEF State, Record
  <1>3. /\ next.record.revision = r.revision + 1 /\ next.record.accepted = r.accepted
        /\ next.record.compacted = (r.compacted \/ compact)
        /\ next.record.begun = r.begun /\ next.record.producer = r.producer
        /\ next.record.primary_override = r.primary_override /\ next.record.primary = r.primary
        /\ next.record.acknowledgement = r.acknowledgement
        /\ next.record.cancel_requested = r.cancel_requested
        /\ next.record.public_task = r.public_task
    <2> HIDE DEF next, compact
    <2> QED BY <1>1, <1>2 DEF Record
  <1>4. Valid(k, next.record)
    <2>1. r.revision + 1 > 0 /\ r.primary_override \in {"cancelled", None}
      BY <1>1 DEF Record
    <2>2. compact => /\ r.primary = r.producer \/ (k \in ReadTool /\ r.primary = "cancelled")
                     /\ r.acknowledgement # None /\ ~r.public_task /\ r.producer # None
      BY <2>1 DEF Acceptable, Primary
    <2>3. /\ r.accepted # None /\ ~r.compacted /\ r.primary = Primary(r)
          /\ r.begun \in Authority => k \in ReadTool
          /\ r.primary_override # None => k \in ReadTool /\ r.begun # None
          /\ r.begun = None /\ r.producer # None =>
                 \/ r.producer \in {"interrupted", "rejected"}
                 \/ r.producer = "cancelled" /\ r.cancel_requested
          /\ r.acknowledgement # None => r.acknowledgement = r.primary
      BY DEF Acceptable
    <2> HIDE DEF next, compact, r
    <2> QED BY ZenonT(30), <1>3, <2>1, <2>2, <2>3 DEF Valid, Primary
  <1> HIDE DEF next
  <1> QED BY <1>4 DEF Commit, next

\* What a valid record without an outcome offers to the events that end or start it.
LEMMA OpenFacts ==
    ASSUME NEW k, NEW r \in Record, Sound(k, r), r.accepted # None, r.producer = None
    PROVE  /\ ~r.compacted /\ r.primary = Primary(r)
           /\ r.begun \in Authority => k \in ReadTool
           /\ r.primary_override # None => k \in ReadTool /\ r.begun # None
           /\ r.acknowledgement # None => r.acknowledgement = r.primary
           /\ r.begun = None =>
                  /\ r.primary_override = None /\ r.primary = None /\ r.acknowledgement = None
  <1>1. Valid(k, r)
    BY DEF Sound, EmptyRecord
  <1> QED BY <1>1 DEF Valid, Primary

\* Recovery of an accepted record without an outcome is never refused.
LEMMA RecoverSure ==
    ASSUME NEW k, NEW s \in State, Sound(k, s.record), s.record.accepted # None,
           s.record.producer = None
    PROVE  DecideRecover(k, s).kind = "step"
  <1> DEFINE r == s.record
             o == RecoveredOutcome(r)
             f == Finished(r, o)
             t == [s EXCEPT !.record = f, !.joins_closed = TRUE]
  <1>1. r \in Record
    BY DEF State
  <1>2. /\ o \in Outcome /\ o # None
        /\ r.begun = None => o = "interrupted" \/ (o = "cancelled" /\ r.cancel_requested)
    BY DEF RecoveredOutcome, Outcome, None
  <1>3. /\ f \in Record /\ f.producer = o /\ f.accepted = r.accepted /\ f.begun = r.begun
        /\ f.cancel_requested = r.cancel_requested /\ f.compacted = r.compacted
        /\ f.primary_override = r.primary_override /\ f.acknowledgement = r.acknowledgement
        /\ f.primary = IF r.primary_override = None THEN o ELSE r.primary
    <2>1. f \in Record
      BY ZenonT(30), <1>1, <1>2, SoundFacts, FinishedKeeps
    <2> HIDE DEF r, o
    <2> QED BY <1>1, <2>1 DEF Finished, Record
  <1>4. Acceptable(k, f)
    <2>1. /\ ~r.compacted /\ r.primary = Primary(r)
          /\ r.begun \in Authority => k \in ReadTool
          /\ r.primary_override # None => k \in ReadTool /\ r.begun # None
          /\ r.acknowledgement # None => r.acknowledgement = r.primary
      BY <1>1, OpenFacts
    <2>2. r.accepted # None /\ r.producer = None
      OBVIOUS
    <2> HIDE DEF f, r, o
    <2> QED BY ZenonT(30), <1>2, <1>3, <2>1, <2>2 DEF Acceptable, Primary
  <1>5. t \in State /\ t.record = f
    <2> HIDE DEF f
    <2> QED BY ZenonT(30), <1>3, StateWith
  <1>6. DecideRecover(k, s) = Commit(k, t, None, SetProducer(o))
    BY ZenonT(30) DEF DecideRecover, State
  <1> HIDE DEF t, f, o
  <1> QED BY <1>4, <1>5, <1>6, CommitSure

\* A begin that the tool allows, of an accepted attempt that is still open.
LEMMA BeginSure ==
    ASSUME NEW k, NEW s \in State, NEW e, e.authority \in Authority \cup {NoAuthority},
           k \in ReadTool \/ e.authority = NoAuthority, Sound(k, s.record), Settled(k, s),
           s.record.accepted # None, s.record.begun = None, s.record.producer = None
    PROVE  DecideBegin(k, s, e).kind = "step"
  <1> DEFINE r == [s.record EXCEPT !.begun = e.authority]
             t == [s EXCEPT !.record = r]
  <1>1. s.record \in Record
    BY DEF State
  <1>2. ~s.record.cancel_requested
    BY DEF Settled
  <1>3. DecideBegin(k, s, e) = Commit(k, t, "Run", Keep)
    <2>1. t = [s EXCEPT !.record.begun = e.authority]
      BY DEF State
    <2> QED BY <1>2, <2>1 DEF DecideBegin
  <1>4. /\ r \in Record /\ r.begun = e.authority /\ r.accepted # None /\ r.producer = None
        /\ r.primary_override = s.record.primary_override /\ r.primary = s.record.primary
        /\ r.acknowledgement = s.record.acknowledgement /\ r.compacted = s.record.compacted
    <2>1. r \in Record
      BY ZenonT(30), <1>1, RecordWith
    <2> QED BY <1>1, <2>1 DEF Record
  <1>5. Acceptable(k, r)
    <2>1. /\ ~s.record.compacted /\ s.record.primary_override = None
          /\ s.record.primary = None /\ s.record.acknowledgement = None
      BY <1>1, OpenFacts
    <2>2. e.authority # None /\ (e.authority \in Authority => k \in ReadTool)
      BY NoneAssumption, <1>1, OpenFacts DEF None, NoAuthority
    <2> HIDE DEF r
    <2> QED BY <1>4, <2>1, <2>2 DEF Acceptable, Primary
  <1>6. t \in State /\ t.record = r
    BY ZenonT(30), <1>4, StateWith
  <1> HIDE DEF t, r
  <1> QED BY <1>3, <1>5, <1>6, CommitSure

\* The refusal of an accepted attempt that has not begun.
LEMMA RejectSure ==
    ASSUME NEW k, NEW s \in State, Sound(k, s.record),
           s.record.accepted # None, s.record.begun = None, s.record.producer = None
    PROVE  DecideAdmissionRejected(k, s).kind = "step"
  <1> DEFINE r == [s.record EXCEPT !.producer = "rejected", !.primary = "rejected"]
             t == [s EXCEPT !.record = r]
  <1>1. s.record \in Record
    BY DEF State
  <1>2. DecideAdmissionRejected(k, s) = Commit(k, t, None, SetProducer("rejected"))
    <2>1. [s EXCEPT !.record.producer = "rejected", !.record.primary = "rejected"] = t
      BY ZenonT(30), <1>1 DEF State, Record
    <2> QED BY <2>1 DEF DecideAdmissionRejected
  <1>3. /\ r \in Record /\ r.begun = None /\ r.accepted # None
        /\ r.producer = "rejected" /\ r.primary = "rejected"
        /\ r.primary_override = s.record.primary_override
        /\ r.acknowledgement = s.record.acknowledgement /\ r.compacted = s.record.compacted
    <2>1. r \in Record
      BY ZenonT(30), <1>1, RecordWith DEF Outcome
    <2> QED BY <1>1, <2>1 DEF Record
  <1>4. Acceptable(k, r)
    <2>1. /\ ~s.record.compacted /\ s.record.primary_override = None
          /\ s.record.acknowledgement = None
      BY <1>1, OpenFacts
    <2> HIDE DEF r
    <2> QED BY ZenonT(30), <1>3, <2>1, NoneAssumption DEF Acceptable, Primary, None
  <1>5. t \in State /\ t.record = r
    BY ZenonT(30), <1>3, StateWith
  <1> HIDE DEF t, r
  <1> QED BY <1>2, <1>4, <1>5, CommitSure

\* An outcome is answered without effect only when it is already recorded.
LEMMA OutcomeAnswered ==
    ASSUME NEW k, NEW s, NEW e, s.record.begun # None, s.record.producer = None
    PROVE  DecideOutcome(k, s, e).kind \in {"step", "error"}
  BY ZenonT(30) DEF DecideOutcome, Commit, Refused

-----------------------------------------------------------------------------
Pending == [event : Events, candidate : State, intent : Intents, payloads : Payloads,
            published : BOOLEAN]

\* The types of what the argument is about.
Typed ==
    /\ groups \subseteq Key
    /\ confirmed \in [Key -> State]
    /\ pending \in [Key -> Pending \cup {NoPending}]
    /\ queue \in [Key -> Seq(Events)]
    /\ DOMAIN durable = Key
    /\ members \subseteq [request : Key, group : Key, generation : Nat]
    /\ runs \in [Key -> Nat]

\* p is a transition that decide allows from the state s of slot k.
Proposed(k, s, p) ==
    /\ p \in Pending
    /\ Grows(k, s.record, p.candidate.record)
    /\ p.intent = "Run" => s.record.begun = None /\ p.candidate.record.begun # None
    /\ p.intent = "Attached" => p.event.type = "Attach"

\* A slot: its pending transition starts from the confirmed state, the store holds the
\* one or the other end of it, and a run that was granted is recorded as begun.
SlotInv(k) ==
    /\ Sound(k, confirmed[k].record)
    /\ pending[k] # NoPending => Proposed(k, confirmed[k], pending[k]) /\ k \in groups
    /\ durable[k] # NoStored => Valid(k, durable[k].record) /\ k \in groups
    /\ durable[k].record = IF pending[k] # NoPending /\ pending[k].published
                           THEN pending[k].candidate.record ELSE confirmed[k].record
    /\ runs[k] \in {0, 1} /\ (runs[k] = 1 => confirmed[k].record.begun # None)

\* No two claimed keys share an id.
GroupsApart == \A k, j \in groups : k # j => ~SharesId(k, j)

IInv == Typed /\ (\A k \in Key : SlotInv(k)) /\ GroupsApart

-----------------------------------------------------------------------------
\* A slot that a step leaves alone.
LEMMA OtherSlot ==
    ASSUME NEW j \in Key, SlotInv(j), groups \subseteq groups',
           confirmed'[j] = confirmed[j], pending'[j] = pending[j],
           durable'[j] = durable[j], runs'[j] = runs[j]
    PROVE  SlotInv(j)'
  BY DEF SlotInv, NoPending, NoStored

\* A pending transition is not the absence of one.
LEMMA PendingIsSome == NoPending \notin Pending
  <1> SUFFICES ASSUME NoPending \in Pending PROVE FALSE
    OBVIOUS
  <1>1. NoPending.event \in Events
    BY DEF Pending
  <1>2. NoPending.event.type = "none"
    BY ZenonT(30) DEF NoPending, Event, None
  <1> QED BY <1>1, <1>2, EventFacts

\* drive proposes only what decide allows, and has published nothing yet.
LEMMA DriveSlot ==
    ASSUME Typed, NEW k \in Key, NEW s \in State, Sound(k, s.record), NEW q \in Seq(Events),
           NEW held, NEW tasks, Drive(k, s, q, held, tasks)
    PROVE  /\ queue' \in [Key -> Seq(Events)]
           /\ pending' \in [Key -> Pending \cup {NoPending}]
           /\ \A j \in Key \ {k} : pending'[j] = pending[j]
           /\ pending'[k] # NoPending => Proposed(k, s, pending'[k]) /\ ~pending'[k].published
  <1>1. PICK n \in 1 .. Len(q) + 1 :
          LET fails(m) == Decide(k, s, q[m]).kind = "error"
              commits == n <= Len(q) /\ ~fails(n)
          IN  /\ n <= Len(q) =>
                    Decide(k, s, q[n]).kind = "step" \/ (fails(n) /\ q[n].type = "Outcome")
              /\ queue' = [queue EXCEPT ![k] = SubSeq(q, IF commits THEN n + 1 ELSE n, Len(q))]
              /\ pending' = [pending EXCEPT ![k] =
                    IF commits THEN Proposal(q[n], Decide(k, s, q[n])) ELSE NoPending]
    BY ZenonT(30) DEF Drive
  <1> DEFINE result == Decide(k, s, q[n])
             commits == n <= Len(q) /\ ~(result.kind = "error")
             from == IF commits THEN n + 1 ELSE n
             p == Proposal(q[n], result)
  <1>2. queue' \in [Key -> Seq(Events)]
    <2>1. from \in Int /\ Len(q) \in Int /\ \A i \in from .. Len(q) : q[i] \in Events
      OBVIOUS
    <2>2. SubSeq(q, from, Len(q)) \in Seq(Events)
      BY <2>1, SubSeqProperties
    <2> QED BY <1>1, <2>2 DEF Typed
  <1>3. CASE ~commits
    <2>1. pending' = [pending EXCEPT ![k] = NoPending]
      BY ZenonT(30), <1>1, <1>3
    <2> QED BY <1>2, <2>1 DEF Typed
  <1>4. CASE commits
    <2>1. q[n] \in Events /\ result.kind = "step"
      BY <1>1, <1>4
    <2>2. Follows(k, s, q[n].type, result)
      BY ZenonT(30), <2>1, DecideFollows
    <2> HIDE DEF result
    <2>3. p \in Pending /\ Proposed(k, s, p) /\ ~p.published
      BY ZenonT(30), <2>1, <2>2 DEF Proposal, Pending, Proposed, Follows
    <2>4. pending' = [pending EXCEPT ![k] = p]
      BY ZenonT(30), <1>1, <1>4 DEF result
    <2> HIDE DEF p
    <2> QED BY ZenonT(30), <1>2, <2>3, <2>4 DEF Typed
  <1> QED BY <1>3, <1>4

\* What a step of slot k must show; the other slots stay as they are.
LEMMA SlotStep ==
    ASSUME IInv, NEW k \in Key, Typed', SlotInv(k)', GroupsApart', groups \subseteq groups',
           \A j \in Key \ {k} : /\ confirmed'[j] = confirmed[j] /\ pending'[j] = pending[j]
                                /\ durable'[j] = durable[j] /\ runs'[j] = runs[j]
    PROVE  IInv'
  <1>1. \A j \in Key \ {k} : SlotInv(j)'
    BY OtherSlot DEF IInv
  <1> QED BY <1>1 DEF IInv

\* enqueue, whatever the event: the key may be claimed, and the slot may be driven.
LEMMA EnqueueStep ==
    ASSUME IInv, NEW k \in Key, NEW e \in Events, NEW held, EnqueueHolding(k, e, held),
           UNCHANGED <<members, runs>>
    PROVE  IInv'
  <1>1. /\ groups' = groups \cup {k} /\ Claimable(k)
        /\ UNCHANGED <<confirmed, durable>>
    BY DEF EnqueueHolding
  <1>2. GroupsApart'
    BY <1>1 DEF IInv, GroupsApart, Claimable, SharesId
  <1>3. SlotInv(k) /\ confirmed[k] \in State /\ queue[k] \in Seq(Events)
    BY DEF IInv, Typed
  <1>4. Append(queue[k], e) \in Seq(Events)
    BY <1>3
  <1>5. CASE pending[k] = NoPending
    <2>1. Drive(k, confirmed[k], Append(queue[k], e), held, promised)
      BY SMTT(30), <1>5 DEF EnqueueHolding
    <2>2. /\ queue' \in [Key -> Seq(Events)]
          /\ pending' \in [Key -> Pending \cup {NoPending}]
          /\ \A j \in Key \ {k} : pending'[j] = pending[j]
          /\ pending'[k] # NoPending =>
                Proposed(k, confirmed[k], pending'[k]) /\ ~pending'[k].published
      BY ZenonT(30), <1>3, <1>4, <2>1, DriveSlot DEF IInv, SlotInv
    <2>3. Typed'
      BY ZenonT(30), <1>1, <2>2 DEF IInv, Typed
    <2>4. SlotInv(k)'
      BY ZenonT(30), <1>1, <1>3, <1>5, <2>2 DEF SlotInv, NoPending, NoStored
    <2> QED BY ZenonT(30), <1>1, <1>2, <2>2, <2>3, <2>4, SlotStep
  <1>6. CASE pending[k] # NoPending
    <2>1. queue' = [queue EXCEPT ![k] = Append(@, e)] /\ pending' = pending
      BY ZenonT(30), <1>6 DEF EnqueueHolding
    <2>2. Typed'
      BY <1>1, <1>4, <2>1 DEF IInv, Typed
    <2>3. SlotInv(k)'
      BY ZenonT(30), <1>1, <1>3, <2>1, OtherSlot
    <2> QED BY <1>1, <1>2, <2>1, <2>2, <2>3, SlotStep
  <1> QED BY ZenonT(30), <1>5, <1>6

\* The state a restart gives to a stored record, and to a key without one.
LEMMA Restored ==
    /\ Empty \in State /\ Empty.record = EmptyRecord
    /\ \A r \in Record : /\ FromRecord(r) \in State /\ FromRecord(r).record = r
                         /\ HoldersOf(FromRecord(r)) = {}
  <1>1. EmptyRecord \in Record
    BY DEF EmptyRecord, Record
  <1>2. Empty \in State /\ Empty.record = EmptyRecord
    <2> HIDE DEF EmptyRecord
    <2> QED BY <1>1 DEF Empty, State, NoHolder
  <1>3. ASSUME NEW r \in Record
        PROVE  /\ FromRecord(r) \in State /\ FromRecord(r).record = r
               /\ FromRecord(r).holders = Empty.holders
    BY ZenonT(30), <1>2 DEF FromRecord, State
  <1>4. \A t \in TaskId : Empty.holders[t] = NoHolder
    BY ZenonT(30) DEF Empty
  <1> QED BY ZenonT(30), <1>2, <1>3, <1>4 DEF HoldersOf

\* The stored record is a record.
LEMMA StoredRecord ==
    ASSUME IInv, NEW k \in Key
    PROVE  durable[k].record \in Record
  <1>1. SlotInv(k) /\ confirmed[k] \in State /\ pending[k] \in Pending \cup {NoPending}
    BY ZenonT(30) DEF IInv, Typed
  <1>2. confirmed[k].record \in Record
    BY ZenonT(30), <1>1 DEF State
  <1>3. pending[k] # NoPending => pending[k].candidate.record \in Record
    BY <1>1 DEF Pending, State
  <1> QED BY <1>1, <1>2, <1>3 DEF SlotInv

\* Initially nothing is claimed, stored or granted.
LEMMA InitInv == Init => IInv
  <1> SUFFICES ASSUME Init PROVE IInv
    OBVIOUS
  <1>1. Typed
    <2>1. <<>> \in Seq(Events)
      OBVIOUS
    <2>2. queue \in [Key -> Seq(Events)]
      BY ZenonT(30), <2>1 DEF Init
    <2> QED BY ZenonT(30), <2>2, Restored DEF Init, Typed
  <1>2. ASSUME NEW k \in Key PROVE SlotInv(k)
    <2>1. /\ confirmed[k] = Empty /\ pending[k] = NoPending /\ durable[k] = NoStored
          /\ runs[k] = 0
      BY DEF Init
    <2> QED BY <2>1, Restored DEF SlotInv, Sound, NoStored
  <1>3. GroupsApart
    BY DEF Init, GroupsApart
  <1> QED BY <1>1, <1>2, <1>3 DEF IInv

\* Every step of the coordinator, its callers, its store and its restarts keeps IInv.
LEMMA NextInv == IInv /\ [Next]_vars => IInv'
  \* The variables the invariant speaks of.
  <1>Untouched.
      ASSUME IInv, UNCHANGED <<groups, confirmed, pending, queue, durable, members, runs>>
      PROVE  IInv'
    <2> USE <1>Untouched
    <2>1. Typed'
      BY DEF IInv, Typed
    <2>2. \A j \in Key : SlotInv(j)'
      BY ZenonT(30), OtherSlot DEF IInv
    <2>3. GroupsApart'
      BY DEF IInv, GroupsApart, SharesId
    <2> QED BY ZenonT(30), <2>1, <2>2, <2>3 DEF IInv
  \* The publication makes the candidate the stored record.
  <1>PublishStep.
      ASSUME IInv, NEW k \in Key, Publish(k)
      PROVE  IInv'
    <2> USE <1>PublishStep
    <2> DEFINE p == pending[k]
    <2>1. /\ p # NoPending /\ ~p.published
          /\ pending' = [pending EXCEPT ![k].published = TRUE]
          /\ UNCHANGED <<groups, confirmed, queue, members, runs>>
      BY DEF Publish, rights
    <2>2. SlotInv(k) /\ p \in Pending
      BY <2>1 DEF IInv, Typed
    <2>3. durable' = [durable EXCEPT ![k] = [record |-> p.candidate.record,
                                             bodies |-> Assemble(p.payloads, durable[k].bodies)]]
      BY DEF Publish
    <2>4. /\ pending'[k] \in Pending /\ pending'[k].published
          /\ pending'[k].event = p.event /\ pending'[k].candidate = p.candidate
          /\ pending'[k].intent = p.intent
      BY ZenonT(30), <2>1, <2>2 DEF IInv, Typed, Pending
    <2>5. /\ durable'[k].record = p.candidate.record
          /\ DOMAIN durable' = Key /\ \A j \in Key \ {k} : durable'[j] = durable[j]
      BY <2>3 DEF IInv, Typed
    <2>6. pending' \in [Key -> Pending \cup {NoPending}]
          /\ \A j \in Key \ {k} : pending'[j] = pending[j]
      BY <2>1, <2>4 DEF IInv, Typed
    <2>7. Typed'
      BY <2>1, <2>5, <2>6 DEF IInv, Typed
    <2>8. SlotInv(k)'
      <3>1. Proposed(k, confirmed[k], p) /\ k \in groups
        BY ZenonT(30), <2>1, <2>2 DEF SlotInv
      <3>2. Proposed(k, confirmed[k], pending'[k])
        BY ZenonT(30), <2>4, <3>1 DEF Proposed
      <3>3. Valid(k, p.candidate.record) /\ pending'[k] # NoPending
        BY <2>4, <3>1, PendingIsSome DEF Proposed, Grows
      <3> QED BY ZenonT(30), <2>1, <2>2, <2>4, <2>5, <3>1, <3>2, <3>3 DEF SlotInv, NoPending, NoStored
    <2>9. GroupsApart'
      BY ZenonT(30), <2>1 DEF IInv, GroupsApart, SharesId
    <2> QED BY ZenonT(30), <2>1, <2>5, <2>6, <2>7, <2>8, <2>9, SlotStep
  \* A confirmed transition: the store holds the candidate, and its intent is granted.
  <1>ConfirmStep.
      ASSUME IInv, NEW k \in Key, pending[k] # NoPending,
             durable[k].record = pending[k].candidate.record, Confirm(k)
      PROVE  IInv'
    <2> USE <1>ConfirmStep
    <2> DEFINE p == pending[k]
               released == {j \in aliases : p.event.type = "RetireHolder" /\ Task[j] = p.event.alias}
    <2>1. /\ confirmed' = [confirmed EXCEPT ![k] = p.candidate]
          /\ runs' = IF p.intent = "Run" THEN [runs EXCEPT ![k] = @ + 1] ELSE runs
          /\ members' = IF p.intent = "Attached"
                        THEN members \cup {[request |-> p.event.request, group |-> k,
                                            generation |-> p.candidate.membership_generation]}
                        ELSE members
          /\ Drive(k, p.candidate, queue[k], aliases \ released,
                   promised \cup {j \in {k} : p.intent = "Task"})
          /\ UNCHANGED <<groups, durable>>
      BY ZenonT(30) DEF Confirm, Grant
    <2>2. /\ SlotInv(k) /\ p \in Pending /\ Proposed(k, confirmed[k], p) /\ k \in groups
          /\ p.candidate \in State /\ queue[k] \in Seq(Events)
      BY ZenonT(30) DEF IInv, Typed, SlotInv, Proposed, Pending
    <2>3. Valid(k, p.candidate.record) /\ Sound(k, p.candidate.record)
      BY ZenonT(30), <2>2 DEF Proposed, Grows, Sound
    <2>4. /\ queue' \in [Key -> Seq(Events)]
          /\ pending' \in [Key -> Pending \cup {NoPending}]
          /\ \A j \in Key \ {k} : pending'[j] = pending[j]
          /\ pending'[k] # NoPending =>
                Proposed(k, p.candidate, pending'[k]) /\ ~pending'[k].published
      BY ZenonT(30), <2>1, <2>2, <2>3, DriveSlot DEF IInv
    <2>5. confirmed' \in [Key -> State] /\ confirmed'[k] = p.candidate
          /\ \A j \in Key \ {k} : confirmed'[j] = confirmed[j]
      BY ZenonT(30), <2>1, <2>2 DEF IInv, Typed
    <2>6. /\ runs' \in [Key -> Nat] /\ \A j \in Key \ {k} : runs'[j] = runs[j]
          /\ runs'[k] = IF p.intent = "Run" THEN runs[k] + 1 ELSE runs[k]
      <3>1. runs \in [Key -> Nat]
        BY ZenonT(30) DEF IInv, Typed
      <3>2. runs' = IF p.intent = "Run" THEN [runs EXCEPT ![k] = @ + 1] ELSE runs
        BY ZenonT(30), <2>1
      <3> HIDE DEF p
      <3> QED BY <3>1, <3>2
    <2>7. members' \subseteq [request : Key, group : Key, generation : Nat]
      <3>1. p.candidate.membership_generation \in Nat
        BY ZenonT(30), <2>2 DEF State
      <3>2. p.intent = "Attached" => p.event.request \in Key
        BY ZenonT(30), <2>2, EventFacts DEF Proposed, Pending
      <3>3. members \subseteq [request : Key, group : Key, generation : Nat]
        BY ZenonT(30) DEF IInv, Typed
      <3> HIDE DEF p
      <3>4. CASE p.intent = "Attached"
        <4>1. [request |-> p.event.request, group |-> k,
               generation |-> p.candidate.membership_generation]
                 \in [request : Key, group : Key, generation : Nat]
          BY <3>1, <3>2, <3>4
        <4> QED BY ZenonT(30), <2>1, <3>3, <3>4, <4>1
      <3>5. CASE p.intent # "Attached"
        BY ZenonT(30), <2>1, <3>3, <3>5
      <3> QED BY <3>4, <3>5
    <2>8. Typed'
      BY ZenonT(30), <2>1, <2>4, <2>5, <2>6, <2>7 DEF IInv, Typed
    <2>9. runs'[k] \in {0, 1} /\ (runs'[k] = 1 => p.candidate.record.begun # None)
      <3>1. runs[k] \in {0, 1} /\ (runs[k] = 1 => confirmed[k].record.begun # None)
        BY ZenonT(30), <2>2 DEF SlotInv
      <3>2. p.intent = "Run" => confirmed[k].record.begun = None /\ p.candidate.record.begun # None
        BY ZenonT(30), <2>2 DEF Proposed
      <3>3. confirmed[k].record.begun # None => p.candidate.record.begun = confirmed[k].record.begun
        BY ZenonT(30), <2>2 DEF Proposed, Grows, KeepsFacts
      <3>4. runs'[k] = IF p.intent = "Run" THEN runs[k] + 1 ELSE runs[k]
        BY ZenonT(30), <2>6
      <3>5. CASE p.intent = "Run"
        <4>1. runs[k] = 0 /\ runs'[k] = runs[k] + 1
          BY ZenonT(30), <3>1, <3>2, <3>4, <3>5
        <4>2. runs'[k] = 1
          BY <4>1
        <4> QED BY ZenonT(30), <3>2, <3>5, <4>2
      <3>6. CASE p.intent # "Run"
        BY ZenonT(30), <3>1, <3>3, <3>4, <3>6
      <3> QED BY <3>5, <3>6
    <2>10. SlotInv(k)'
      BY ZenonT(30), <2>1, <2>2, <2>3, <2>4, <2>5, <2>9 DEF SlotInv, NoPending, NoStored
    <2>11. GroupsApart'
      BY ZenonT(30), <2>1 DEF IInv, GroupsApart, SharesId
    <2> QED BY ZenonT(30), <2>1, <2>4, <2>5, <2>6, <2>8, <2>10, <2>11, SlotStep
  \* A retried event: the store still holds the confirmed record.
  <1>RetryStep.
      ASSUME IInv, NEW k \in Key, NEW s \in State, pending[k] # NoPending,
             s.record = confirmed[k].record, durable[k].record = confirmed[k].record, Retry(k, s)
      PROVE  IInv'
    <2> USE <1>RetryStep
    <2> DEFINE q == <<pending[k].event>> \o queue[k]
    <2>1. /\ confirmed' = [confirmed EXCEPT ![k] = s] /\ Drive(k, s, q, aliases, promised)
          /\ UNCHANGED <<groups, durable, members, runs>>
      BY ZenonT(30) DEF Retry
    <2>2. /\ SlotInv(k) /\ k \in groups /\ pending[k].event \in Events
          /\ queue[k] \in Seq(Events)
      BY ZenonT(30) DEF IInv, Typed, SlotInv, Pending
    <2>3. q \in Seq(Events)
      <3>1. <<pending[k].event>> \in Seq(Events)
        BY SMTT(30), <2>2
      <3> QED BY ZenonT(30), <2>2, <3>1, ConcatProperties
    <2>4. /\ queue' \in [Key -> Seq(Events)]
          /\ pending' \in [Key -> Pending \cup {NoPending}]
          /\ \A j \in Key \ {k} : pending'[j] = pending[j]
          /\ pending'[k] # NoPending => Proposed(k, s, pending'[k]) /\ ~pending'[k].published
      <3> HIDE DEF q
      <3> QED BY ZenonT(30), <2>1, <2>2, <2>3, DriveSlot DEF IInv, SlotInv
    <2>5. confirmed' \in [Key -> State] /\ confirmed'[k] = s
          /\ \A j \in Key \ {k} : confirmed'[j] = confirmed[j]
      BY ZenonT(30), <2>1 DEF IInv, Typed
    <2>6. Typed'
      BY ZenonT(30), <2>1, <2>4, <2>5 DEF IInv, Typed
    <2>7. SlotInv(k)'
      BY ZenonT(30), <2>1, <2>2, <2>4, <2>5 DEF SlotInv, NoPending, NoStored
    <2>8. GroupsApart'
      BY ZenonT(30), <2>1 DEF IInv, GroupsApart, SharesId
    <2> QED BY ZenonT(30), <2>1, <2>4, <2>5, <2>6, <2>7, <2>8, SlotStep
  \* A restart claims what is stored and proposes its recovery.
  <1>RestoreStep.
      ASSUME IInv, Restore, members' \subseteq members
      PROVE  IInv'
    <2> USE <1>RestoreStep
    <2> DEFINE start(k) == FromRecord(durable[k].record)
               recover(k) == Decide(k, start(k), Event("Recover"))
               proposal(k) == Proposal(Event("Recover"), recover(k))
    <2>1. /\ groups' = {k \in Key : Stored(k)}
          /\ confirmed' = [k \in Key |-> IF Stored(k) THEN start(k) ELSE Empty]
          /\ queue' = [k \in Key |-> <<>>]
          /\ pending' = [k \in Key |-> IF Stored(k) /\ recover(k).kind = "step"
                                       THEN proposal(k) ELSE NoPending]
          /\ UNCHANGED <<durable, runs>>
      BY ZenonT(30) DEF Restore
    <2>2. ASSUME NEW k \in Key
          PROVE  /\ start(k) \in State /\ start(k).record = durable[k].record
                 /\ Stored(k) => Sound(k, start(k).record) /\ k \in groups
      <3>1. durable[k].record \in Record /\ SlotInv(k)
        BY ZenonT(30), StoredRecord DEF IInv
      <3>2. start(k) \in State /\ start(k).record = durable[k].record
        BY ZenonT(30), <3>1, Restored
      <3> QED BY ZenonT(30), <3>1, <3>2 DEF SlotInv, Stored, Sound
    <2>3. ASSUME NEW k \in Key, Stored(k), recover(k).kind = "step"
          PROVE  /\ proposal(k) \in Pending /\ ~proposal(k).published
                 /\ Proposed(k, start(k), proposal(k))
      <3>1. Event("Recover") \in Events /\ Event("Recover").type = "Recover"
        BY ZenonT(30) DEF Event, Events
      <3>2. Follows(k, start(k), "Recover", recover(k))
        BY ZenonT(30), <2>2, <2>3, <3>1, DecideFollows
      <3> HIDE DEF start, recover
      <3> QED BY ZenonT(30), <3>1, <3>2 DEF Proposal, Pending, Proposed, Follows
    <2> HIDE DEF start, recover, proposal
    <2>4. confirmed' \in [Key -> State]
      BY ZenonT(30), <2>1, <2>2, Restored
    <2>5. pending' \in [Key -> Pending \cup {NoPending}]
      BY ZenonT(30), <2>1, <2>3
    <2>6. Typed'
      <3>1. queue' \in [Key -> Seq(Events)]
        BY SMTT(30), <2>1
      <3> QED BY ZenonT(30), <2>1, <2>4, <2>5, <3>1 DEF IInv, Typed
    <2>7. ASSUME NEW k \in Key PROVE SlotInv(k)'
      <3>1. SlotInv(k)
        BY ZenonT(30) DEF IInv
      <3>2. /\ confirmed'[k].record = durable[k].record /\ Sound(k, confirmed'[k].record)
        <4>1. CASE Stored(k)
          BY ZenonT(30), <2>1, <2>2, <4>1
        <4>2. CASE ~Stored(k)
          <5>1. confirmed'[k] = Empty
            BY ZenonT(30), <2>1, <4>2
          <5>2. durable[k].record = EmptyRecord
            BY <4>2 DEF Stored, NoStored
          <5> QED BY ZenonT(30), <5>1, <5>2, Restored DEF Sound
        <4> QED BY ZenonT(30), <4>1, <4>2
      <3>3. pending'[k] # NoPending =>
              Proposed(k, confirmed'[k], pending'[k]) /\ ~pending'[k].published /\ Stored(k)
        BY ZenonT(30), <2>1, <2>3
      <3>4. runs'[k] \in {0, 1} /\ (runs'[k] = 1 => durable[k].record.begun # None)
        <4>1. confirmed[k].record.begun # None => durable[k].record.begun # None
          BY ZenonT(30), <3>1 DEF SlotInv, Proposed, Grows, KeepsFacts
        <4> QED BY ZenonT(30), <2>1, <3>1, <4>1 DEF SlotInv
      <3>5. Stored(k) => k \in groups'
        BY <2>1
      <3> QED BY ZenonT(30), <2>1, <3>1, <3>2, <3>3, <3>4, <3>5 DEF SlotInv, Stored, NoPending, NoStored
    <2>8. GroupsApart'
      <3>1. groups' \subseteq groups
        BY <2>1, <2>2
      <3> QED BY ZenonT(30), <3>1 DEF IInv, GroupsApart, SharesId
    <2> QED BY ZenonT(30), <2>6, <2>7, <2>8 DEF IInv
  \* The steps of callers and workers enqueue an event, or change nothing of the slots.
  <1>CallerStep.
      ASSUME IInv, NEW k \in Submitted, Caller(k)
      PROVE  IInv'
    <2> USE <1>CallerStep
    <2>1. k \in Key
      BY CoordinatorAssumption
    <2>2. CASE \E o \in Owner : Submit(k, o)
      <3>1. PICK o \in Owner : Submit(k, o)
        BY ZenonT(30), <2>2
      <3>2. SubmitBy(o) \in Events
        BY DEF SubmitBy, Events
      <3> QED BY ZenonT(30), <2>1, <3>1, <3>2, EnqueueStep DEF Submit, Enqueue
    <2>3. CASE \E o \in Owner, d \in Acknowledged : Acknowledge(k, o, d)
      <3>1. PICK o \in Owner, d \in Acknowledged : Acknowledge(k, o, d)
        BY ZenonT(30), <2>3
      <3>2. AcknowledgeOf(o, d) \in Events
        BY CoordinatorAssumption DEF AcknowledgeOf, Events
      <3> QED BY ZenonT(30), <2>1, <3>1, <3>2, EnqueueStep DEF Acknowledge, Enqueue
    <2>4. CASE Cancel(k) \/ ExposeTask(k)
      <3>1. Event("Cancel") \in Events /\ Event("ExposeTask") \in Events
        BY ZenonT(30) DEF Event, Events
      <3> QED BY ZenonT(30), <2>1, <2>4, <3>1, EnqueueStep DEF Cancel, ExposeTask, Enqueue
    <2>5. CASE \E j \in Joining, a \in Authority, t \in BOOLEAN : Attach(k, j, a, t)
      <3>1. PICK j \in Joining, a \in Authority, t \in BOOLEAN : Attach(k, j, a, t)
        BY ZenonT(30), <2>5
      <3>2. AttachBy(j, a, t) \in Events
        BY CoordinatorAssumption DEF AttachBy, Events
      <3> QED BY <2>1, <3>1, <3>2, EnqueueStep DEF Attach
    <2> QED BY ZenonT(30), <2>2, <2>3, <2>4, <2>5 DEF Caller
  <1>SpendStep.
      ASSUME IInv, NEW k \in Key, NEW e \in Events, Spend(k, e)
      PROVE  IInv'
    <2> USE <1>SpendStep
    <2>1. CASE Enqueue(k, e)
      BY ZenonT(30), <2>1, EnqueueStep DEF Spend, Enqueue
    <2>2. CASE UNCHANGED others
      BY <2>2, <1>Untouched DEF Spend, others
    <2> QED BY <2>1, <2>2 DEF Spend
  <1>WorkerStep.
      ASSUME IInv, NEW k \in Key, Worker(k)
      PROVE  IInv'
    <2> USE <1>WorkerStep
    <2>1. CASE \E a \in Authority \cup {NoAuthority} : Begin(k, a)
      <3>1. PICK a \in Authority \cup {NoAuthority} : Begin(k, a)
        BY ZenonT(30), <2>1
      <3>2. BeginWith(a) \in Events
        BY DEF BeginWith, Events
      <3> QED BY <3>1, <3>2, <1>SpendStep DEF Begin
    <2>2. CASE RejectAdmission(k)
      <3>1. Event("AdmissionRejected") \in Events
        BY ZenonT(30) DEF Event, Events
      <3> QED BY <2>2, <3>1, <1>SpendStep DEF RejectAdmission
    <2>3. CASE \E o \in Reported : Report(k, o)
      <3>1. PICK o \in Reported : Report(k, o)
        BY <2>3
      <3>2. OutcomeIs(o) \in Events
        BY ZenonT(30), CoordinatorAssumption DEF OutcomeIs, Events
      <3>3. CASE Enqueue(k, OutcomeIs(o))
        BY ZenonT(30), <3>1, <3>2, <3>3, EnqueueStep DEF Report, Enqueue
      <3>4. CASE UNCHANGED others
        BY <3>1, <3>4, <1>Untouched DEF Report, others
      <3>5. CASE /\ queue' = [queue EXCEPT ![k] = Append(@, OutcomeIs(o))]
                 /\ UNCHANGED <<groups, confirmed, pending, durable>>
        <4>1. UNCHANGED <<members, runs>>
          BY <3>1 DEF Report
        <4>2. Append(queue[k], OutcomeIs(o)) \in Seq(Events)
          BY <3>2 DEF IInv, Typed
        <4>3. Typed'
          BY ZenonT(30), <3>5, <4>1, <4>2 DEF IInv, Typed
        <4>4. \A j \in Key : SlotInv(j)'
          BY ZenonT(30), <3>5, <4>1, OtherSlot DEF IInv
        <4>5. GroupsApart'
          BY ZenonT(30), <3>5 DEF IInv, GroupsApart, SharesId
        <4> QED BY ZenonT(30), <4>3, <4>4, <4>5 DEF IInv
      <3> QED BY ZenonT(30), <3>1, <3>3, <3>4, <3>5 DEF Report
    <2> QED BY ZenonT(30), <2>1, <2>2, <2>3 DEF Worker
  <1>FailStopStep.
      ASSUME IInv, FailStop
      PROVE  IInv'
    BY <1>FailStopStep, <1>Untouched DEF FailStop, rights
  <1>AdapterStep.
      ASSUME IInv, NEW k \in Key, Adapter(k)
      PROVE  IInv'
    <2> USE <1>AdapterStep
    <2>1. SlotInv(k) /\ confirmed[k] \in State
      BY DEF IInv, Typed
    <2>2. CASE Publish(k)
      BY ZenonT(30), <2>2, <1>PublishStep
    <2>3. CASE CompleteCommitted(k)
      BY ZenonT(30), <2>1, <2>3, <1>ConfirmStep DEF CompleteCommitted, Completes, SlotInv
    <2>4. CASE CompleteRolledBack(k)
      BY <2>1, <2>4, <1>RetryStep DEF CompleteRolledBack, Completes, SlotInv
    <2>5. CASE CompleteReadback(k)
      <3> DEFINE actual == durable[k].record
      <3>1. pending[k] # NoPending
        BY ZenonT(30), <2>5 DEF CompleteReadback, Completes
      <3>2. CASE actual = pending[k].candidate.record /\ Confirm(k)
        BY <3>1, <3>2, <1>ConfirmStep
      <3>3. CASE /\ actual # pending[k].candidate.record
                 /\ Retry(k, [confirmed[k] EXCEPT !.record = actual])
        <4>1. actual = confirmed[k].record
          BY <2>1, <3>3 DEF SlotInv
        <4>2. /\ [confirmed[k] EXCEPT !.record = actual] \in State
              /\ [confirmed[k] EXCEPT !.record = actual].record = actual
          BY ZenonT(30), <2>1, StoredRecord, StateWith
        <4> QED BY ZenonT(30), <3>1, <3>3, <4>1, <4>2, <1>RetryStep
      <3>4. CASE FailStop
        BY <3>4, <1>FailStopStep
      <3> QED BY <2>5, <3>2, <3>3, <3>4 DEF CompleteReadback
    <2>6. CASE CompleteFailed(k) \/ CompleteUnknown(k)
      BY ZenonT(30), <2>6, <1>FailStopStep DEF CompleteFailed, CompleteUnknown
    <2> QED BY ZenonT(30), <2>2, <2>3, <2>4, <2>5, <2>6 DEF Adapter
  <1>HolderStep.
      ASSUME IInv, NEW m \in members, NEW type \in {"CancelHolder", "RetireHolder"}, Holder(type, m)
      PROVE  IInv'
    <2> USE <1>HolderStep
    <2>1. m.request \in Key /\ m.group \in Key /\ m.generation \in Nat
      BY ZenonT(30) DEF IInv, Typed
    <2>2. HolderEvent(type, Task[m.request], m.generation) \in Events
      BY <2>1 DEF HolderEvent, Events, TaskId
    <2> QED BY <2>1, <2>2, EnqueueStep DEF Holder, Enqueue
  <1> SUFFICES ASSUME IInv, [Next]_vars PROVE IInv'
    OBVIOUS
  <1>1. CASE \E k \in Submitted : Caller(k)
    BY <1>1, <1>CallerStep
  <1>2. CASE \E k \in Key : Worker(k) \/ Adapter(k)
    BY <1>2, <1>WorkerStep, <1>AdapterStep
  <1>3. CASE \E m \in members : Holder("CancelHolder", m) \/ Holder("RetireHolder", m)
    BY <1>3, <1>HolderStep
  <1>4. CASE AuthorityFailure
    BY <1>4, <1>FailStopStep DEF AuthorityFailure
  <1>5. CASE Crash \/ Reopen
    BY <1>5, <1>RestoreStep DEF Crash, Reopen
  <1>6. CASE UNCHANGED vars
    BY <1>6, <1>Untouched DEF vars
  <1> QED BY ZenonT(30), <1>1, <1>2, <1>3, <1>4, <1>5, <1>6 DEF Next

\* The invariant holds in every reachable state of every instance.
THEOREM Inductive == Spec => []IInv
  <1>1. Init => IInv
    BY InitInv
  <1>2. IInv /\ [Next]_vars => IInv'
    BY ZenonT(30), NextInv
  <1> QED BY <1>1, <1>2, PTL DEF Spec

\* A confirmed begin is in the store.
LEMMA BegunIsStored ==
    ASSUME IInv, NEW k \in Key, confirmed[k].record.begun # None
    PROVE  durable[k].record.begun # None
  <1>1. SlotInv(k)
    BY DEF IInv
  <1> QED BY ZenonT(30), <1>1 DEF SlotInv, Proposed, Grows, KeepsFacts

\* RunPermits: complete hands out at most one for a key over all restarts, rollbacks
\* and readbacks, and the begin it rests on is in the store.
THEOREM RunsAtMostOnce == Spec => []AtMostOnceRun
  <1>1. IInv => AtMostOnceRun
    <2> SUFFICES ASSUME IInv, NEW k \in Key
                 PROVE  runs[k] <= 1 /\ (runs[k] = 1 => durable[k].record.begun # None)
      BY ZenonT(30) DEF AtMostOnceRun
    <2>1. SlotInv(k)
      BY ZenonT(30) DEF IInv
    <2>2. runs[k] \in {0, 1}
      BY ZenonT(30), <2>1 DEF SlotInv
    <2>3. runs[k] = 1 => durable[k].record.begun # None
      BY ZenonT(30), <2>1, BegunIsStored DEF SlotInv
    <2> QED BY <2>2, <2>3
  <1> QED BY <1>1, Inductive, PTL

\* The coordinator's confirmed record is the stored one, up to the one commit whose
\* publication complete has not heard about yet.
THEOREM ConfirmedMatchesStore == Spec => []ConfirmedIsDurable
  <1>1. IInv => ConfirmedIsDurable
    BY ZenonT(30) DEF IInv, SlotInv, ConfirmedIsDurable
  <1> QED BY <1>1, Inductive, PTL

\* claim keeps both ids of stored keys apart, so RecoveryBuilder accepts the store.
THEOREM CatalogAlwaysRecovers == Spec => []CatalogRecovers
  <1>1. IInv => CatalogRecovers
    <2> SUFFICES ASSUME IInv, NEW k \in Key, NEW j \in Key, Stored(k), Stored(j), k # j
                 PROVE  ~SharesId(k, j)
      BY ZenonT(30) DEF CatalogRecovers
    <2>1. k \in groups /\ j \in groups
      BY ZenonT(30) DEF IInv, SlotInv, Stored
    <2> QED BY ZenonT(30), <2>1 DEF IInv, GroupsApart
  <1> QED BY <1>1, Inductive, PTL

\* Only the adapter's publication writes the store.
LEMMA OnlyPublishWrites ==
    ASSUME [Next]_vars
    PROVE  UNCHANGED durable \/ \E k \in Key : Publish(k)
  <1>1. CASE \E k \in Submitted : Caller(k)
    <2>1. PICK k \in Submitted : Caller(k)
      BY SMTT(30), <1>1
    <2>2. \E e, held : EnqueueHolding(k, e, held)
      BY ZenonT(30), <2>1 DEF Caller, Submit, Acknowledge, Cancel, ExposeTask, Attach, Enqueue
    <2> QED BY <2>2 DEF EnqueueHolding
  <1>2. CASE \E k \in Key : Worker(k)
    <2>1. ASSUME NEW k, NEW e, Spend(k, e) PROVE UNCHANGED durable
      BY ZenonT(30), <2>1 DEF Spend, Enqueue, EnqueueHolding, others
    <2>2. ASSUME NEW k, NEW o, Report(k, o) PROVE UNCHANGED durable
      BY ZenonT(30), <2>2 DEF Report, Enqueue, EnqueueHolding, others
    <2> QED BY <1>2, <2>1, <2>2 DEF Worker, Begin, RejectAdmission
  <1>3. CASE \E k \in Key : Adapter(k)
    <2>1. PICK k \in Key : Adapter(k)
      BY <1>3
    <2>2. Publish(k) \/ Confirm(k) \/ (\E s : Retry(k, s)) \/ FailStop
      BY SMTT(30), <2>1 DEF Adapter, CompleteCommitted, CompleteRolledBack, CompleteReadback,
                  CompleteFailed, CompleteUnknown
    <2> QED BY ZenonT(30), <2>2 DEF Confirm, Retry, FailStop
  <1>4. CASE \E m \in members : Holder("CancelHolder", m) \/ Holder("RetireHolder", m)
    BY ZenonT(30), <1>4 DEF Holder, Enqueue, EnqueueHolding
  <1>5. CASE AuthorityFailure \/ Crash \/ Reopen
    BY ZenonT(30), <1>5 DEF AuthorityFailure, Crash, Reopen, FailStop, Restore
  <1>6. CASE UNCHANGED vars
    BY ZenonT(30), <1>6 DEF vars
  <1> QED BY ZenonT(30), <1>1, <1>2, <1>3, <1>4, <1>5, <1>6 DEF Next

\* No publication, rollback, readback, fail-stop or restart takes a stored fact back:
\* every aggregate written over another one extends it.
THEOREM StoredFactsAlwaysStand == Spec => StoredFactsStand
  \* A valid record extends itself, and its valid successor extends it.
  <1>SelfExtends.
      ASSUME NEW k \in Key, NEW r \in Record, Valid(k, r)
      PROVE  Extends(k, FromRecord(r), r)
    <2> USE <1>SelfExtends
    <2>1. FromRecord(r).record = r /\ HoldersOf(FromRecord(r)) = {}
      BY ZenonT(30), Restored
    <2>2. r.revision >= r.revision
      BY SMTT(30) DEF Record
    <2> HIDE DEF FromRecord
    <2> QED BY ZenonT(30), <2>1, <2>2 DEF Extends
  <1>SuccessorExtends.
      ASSUME NEW k \in Key, NEW old \in Record, NEW r \in Record, Grows(k, old, r)
      PROVE  Extends(k, FromRecord(old), r)
    <2> USE <1>SuccessorExtends
    <2>1. FromRecord(old).record = old /\ HoldersOf(FromRecord(old)) = {}
      BY Restored
    <2>2. Valid(k, r) /\ r.revision = old.revision + 1 /\ KeepsFacts(old, r)
      BY ZenonT(30) DEF Grows
    <2>3. r.revision >= old.revision /\ r.revision # old.revision
      BY <2>2 DEF Record
    <2>4. /\ \A f \in {"accepted", "begun", "producer", "primary_override", "primary",
                       "acknowledgement"} : old[f] # None => r[f] = old[f]
          /\ \A f \in {"cancel_requested", "public_task", "compacted"} : old[f] => r[f]
      BY ZenonT(30), <2>2 DEF KeepsFacts
    <2> QED BY ZenonT(30), <2>1, <2>2, <2>3, <2>4 DEF Extends
  <1> DEFINE stands == \A k \in Key : Stored(k) =>
                 Extends(k, FromRecord(durable[k].record), durable'[k].record)
  <1>1. IInv /\ [Next]_vars => [stands]_vars
    <2> SUFFICES ASSUME IInv, [Next]_vars, NEW k \in Key, Stored(k)
                 PROVE  Extends(k, FromRecord(durable[k].record), durable'[k].record)
      OBVIOUS
    <2>1. /\ SlotInv(k) /\ durable[k].record \in Record /\ Valid(k, durable[k].record)
      BY ZenonT(30), StoredRecord DEF IInv, SlotInv, Stored
    <2>2. CASE durable'[k] = durable[k]
      BY ZenonT(30), <2>1, <2>2, <1>SelfExtends
    <2>3. CASE Publish(k)
      <3>1. /\ pending[k] # NoPending /\ ~pending[k].published
            /\ durable'[k].record = pending[k].candidate.record
        BY SMTT(30), <2>3 DEF Publish, IInv, Typed
      <3>2. /\ Grows(k, durable[k].record, pending[k].candidate.record)
            /\ pending[k].candidate.record \in Record
        BY ZenonT(30), <2>1, <3>1 DEF SlotInv, Proposed, Pending, State
      <3> QED BY <2>1, <3>1, <3>2, <1>SuccessorExtends
    <2>4. CASE \E j \in Key \ {k} : Publish(j)
      <3>1. durable'[k] = durable[k]
        BY <2>4 DEF Publish, IInv, Typed
      <3> QED BY <2>2, <3>1
    <2> QED BY ZenonT(30), <2>2, <2>3, <2>4, OnlyPublishWrites
  <1> QED BY <1>1, Inductive, PTL DEF Spec, StoredFactsStand

=============================================================================
