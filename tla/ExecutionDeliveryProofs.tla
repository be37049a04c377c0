----------------------- MODULE ExecutionDeliveryProofs ----------------------
(***************************************************************************)
(* The rights that the coordinator hands out and the results it delivers.  *)
(*                                                                         *)
(* The first part ends the induction of ExecutionRightsProofs with the steps*)
(* that retry, publish, fail-stop and restart.  The second part carries both*)
(* invariants over to the composition with body reads and the frontend's   *)
(* choice, and adds what was told to whom.                                 *)
(***************************************************************************)
EXTENDS ExecutionDelivery, ExecutionRightsProofs

LEMMA FirstAndRest ==
    ASSUME NEW e \in Events, NEW q \in Seq(Events)
    PROVE  InQueue(<<e>> \o q) = InQueue(q) \cup {e} /\ <<e>> \o q \in Seq(Events)
  <1> DEFINE a == <<e>> \o q
  <1>1. /\ a \in Seq(Events) /\ Len(a) = Len(q) + 1 /\ Len(q) \in Nat /\ a[1] = e
        /\ \A m \in 1 .. Len(q) : a[m + 1] = q[m]
        /\ \A m \in 2 .. Len(a) : a[m] = q[m - 1]
    <2>1. <<e>> \in Seq(Events) /\ Len(<<e>>) = 1 /\ <<e>>[1] = e
      BY SMTT(30)
    <2> QED BY <2>1, ConcatProperties
  <1> HIDE DEF a
  <1>2. ASSUME NEW x \in InQueue(a) PROVE x \in InQueue(q) \cup {e}
    <2>1. PICK m \in 1 .. Len(a) : x = a[m]
      BY <1>2 DEF InQueue
    <2>2. CASE m = 1
      BY ZenonT(30), <1>1, <2>1, <2>2
    <2>3. CASE m # 1
      <3>1. m \in 2 .. Len(a) /\ m - 1 \in 1 .. Len(q)
        BY <1>1, <2>3
      <3> QED BY ZenonT(30), <1>1, <2>1, <3>1 DEF InQueue
    <2> QED BY <2>2, <2>3
  <1>3. ASSUME NEW x \in InQueue(q) \cup {e} PROVE x \in InQueue(a)
    <2>1. CASE x = e
      <3>1. 1 \in 1 .. Len(a)
        BY <1>1
      <3> QED BY ZenonT(30), <1>1, <2>1, <3>1 DEF InQueue
    <2>2. CASE x # e
      <3>1. PICK m \in 1 .. Len(q) : x = q[m]
        BY <1>3, <2>2 DEF InQueue
      <3>2. m + 1 \in 1 .. Len(a)
        BY <1>1
      <3> QED BY ZenonT(30), <1>1, <3>1, <3>2 DEF InQueue
    <2> QED BY <2>1, <2>2
  <1> QED BY <1>1, <1>2, <1>3 DEF a

\* A rolled back transition is decided again with everything the slot owned.
LEMMA RetryRights ==
    ASSUME IInv, RInv, NEW k \in Key, pending[k] # NoPending, ~unavailable,
           NEW s \in State, s = confirmed[k], Retry(k, s)
    PROVE  RInv'
  <1> DEFINE q == <<pending[k].event>> \o queue[k]
  <1>1. /\ confirmed' = [confirmed EXCEPT ![k] = s] /\ Drive(k, s, q, aliases, promised)
        /\ FinishRecovery
        /\ UNCHANGED <<epoch, groups, accepted_permit, run_permit, signalled, reported>>
    BY DEF Retry
  <1>2. /\ RightsInv(k) /\ SlotInv(k) /\ TypedRights /\ Claims /\ Typed
        /\ queue[k] \in Seq(Events) /\ pending[k].event \in Events /\ Sound(k, s.record)
    BY ZenonT(30) DEF IInv, RInv, Typed, Pending, SlotInv
  <1>3. q \in Seq(Events) /\ InQueue(q) = Owned(k)
    BY ZenonT(30), <1>2, FirstAndRest, OwnedIs
  <1>4. recovering => q = <<Event("Recover")>>
    <2> SUFFICES ASSUME recovering PROVE q = <<Event("Recover")>>
      OBVIOUS
    <2>1. queue[k] = <<>> /\ pending[k].event = Event("Recover")
      BY <1>2 DEF RightsInv, Recovering
    <2>2. <<Event("Recover")>> \in Seq({Event("Recover")})
      OBVIOUS
    <2> QED BY <2>1, <2>2, ConcatEmptySeq
  <1> HIDE DEF q
  <1>5. PICK given : given = Owned(k)
    BY ZenonT(30)
  <1>6. Core(k, s, given)' /\ (~recovering => Held(k, s, given)')
    BY ZenonT(30), <1>1, <1>2, <1>5 DEF RightsInv, Core, Held
  <1>7. PICK w : w = Owned(k)'
    OBVIOUS
  <1>8. Core(k, s, w)' /\ (~recovering => Held(k, s, w)')
    BY ZenonT(30), <1>1, <1>2, <1>3, <1>5, <1>6, <1>7, DrivenRights
  <1>9. Settled(k, s)
    BY ZenonT(30), <1>6 DEF Core
  <1>10. /\ pending'[k] # NoPending =>
                  Advances(k, s, pending'[k].event, pending'[k].candidate, pending'[k].intent)
         /\ \A x \in Owned(k)' : x \in InQueue(q) \/ x = Event(None)
         /\ \A m \in 1 .. Len(q) : q[m] \in Owned(k)' \/ Decide(k, s, q[m]).kind # "step"
         /\ pending'[k] = NoPending /\ ~unavailable' => queue'[k] = <<>>
         /\ Len(q) = 1 /\ q[1].type # "Outcome" => queue'[k] = <<>>
         /\ aliases' \subseteq aliases
         /\ \A j \in Key \ {k} : queue'[j] = queue[j] /\ pending'[j] = pending[j]
    BY <1>1, <1>2, <1>3, <1>9, DriveEvents
  <1>11. pending'[k] \in Pending \cup {NoPending}
    BY ZenonT(30), <1>1, <1>2, <1>3, DriveSlot
  <1>12. confirmed'[k] = s /\ \A j \in Key \ {k} : confirmed'[j] = confirmed[j]
    BY ZenonT(30), <1>1, <1>2 DEF Typed
  <1>13. /\ recovering' => recovering
         /\ recovering /\ ~recovering' =>
                \A j \in Key : pending'[j] = NoPending /\ queue'[j] = <<>>
    BY ZenonT(30), <1>1 DEF FinishRecovery
  <1>14. ASSUME recovering
         PROVE  /\ queue'[k] = <<>>
                /\ pending'[k] # NoPending => pending'[k].event = Event("Recover")
                /\ s.record.accepted # None /\ s.record.producer = None =>
                       pending'[k] # NoPending
    <2>1. /\ Len(q) = 1 /\ q[1] = Event("Recover") /\ q[1].type = "Recover"
          /\ InQueue(q) = {Event("Recover")}
      <3>1. Event("Recover").type = "Recover"
        BY DEF Event
      <3>2. q = <<Event("Recover")>>
        BY ZenonT(30), <1>4, <1>14
      <3> QED BY <3>1, <3>2 DEF InQueue
    <2>2. queue'[k] = <<>>
      BY ZenonT(30), <1>10, <2>1
    <2>3. Owned(k)' = {pending'[k].event}
      BY <2>2 DEF Owned
    <2>4. ASSUME pending'[k] # NoPending PROVE pending'[k].event = Event("Recover")
      <3>1. pending'[k].event \in Events
        BY ZenonT(30), <1>11, <2>4 DEF Pending
      <3>2. pending'[k].event # Event(None)
        BY ZenonT(30), <3>1, EventFacts, PlainEvent
      <3> QED BY ZenonT(30), <1>10, <2>1, <2>3, <3>2
    <2>5. ASSUME s.record.accepted # None, s.record.producer = None
          PROVE  pending'[k] # NoPending
      <3>1. Decide(k, s, q[1]).kind = "step"
        BY ZenonT(30), <1>2, <2>1, <2>5, RecoverSure DEF Decide
      <3>2. q[1] \in Owned(k)'
        BY <1>10, <2>1, <3>1
      <3> QED BY ZenonT(30), <2>1, <2>3, <3>2, PlainEvent
    <2> QED BY ZenonT(30), <2>2, <2>4, <2>5
  <1>15. RightsInv(k)'
    <2>1. Core(k, confirmed[k], Owned(k))'
      BY ZenonT(30), <1>7, <1>8, <1>12
    <2>2. ~recovering' => Held(k, confirmed[k], Owned(k))'
      <3>1. CASE recovering
        BY ZenonT(30), <1>12, <1>13, <1>14, <3>1 DEF Held
      <3>2. CASE ~recovering
        BY ZenonT(30), <1>7, <1>8, <1>12, <3>2
      <3> QED BY ZenonT(30), <3>1, <3>2
    <2>3. recovering' => Recovering(k)'
      <3>1. NoPending' = NoPending
        BY ZenonT(30) DEF NoPending
      <3>2. recovering => run_permit[k] = 0 /\ accepted_permit[k] # epoch
        BY <1>2 DEF RightsInv, Recovering
      <3> QED BY ZenonT(30), <1>1, <1>12, <1>13, <1>14, <3>1, <3>2 DEF Recovering
    <2>4. ~recovering' => Event("Recover") \notin Owned(k)'
      <3>1. Event("Recover") # Event(None)
        BY DEF Event, None
      <3>2. CASE recovering
        BY <1>13, <3>1, <3>2, PlainEvent DEF Owned
      <3>3. CASE ~recovering
        BY ZenonT(30), <1>2, <1>3, <1>10, <3>1, <3>3 DEF RightsInv
      <3> QED BY <3>2, <3>3
    <2>5. pending'[k] # NoPending => Advances(k, confirmed'[k], pending'[k].event,
                                              pending'[k].candidate, pending'[k].intent)
      BY ZenonT(30), <1>10, <1>12
    <2>6. NoPending' = NoPending
      BY DEF NoPending
    <2> QED BY ZenonT(30), <1>10, <2>1, <2>2, <2>3, <2>4, <2>5, <2>6 DEF RightsInv
  <1>16. TypedRights' /\ Claims'
    BY ZenonT(30), <1>1, <1>2, <1>10 DEF TypedRights, Claims, SharesId
  <1> QED BY ZenonT(30), <1>1, <1>10, <1>12, <1>13, <1>15, <1>16, RightsStep

LEMMA PublishRights ==
    ASSUME IInv, RInv, NEW k \in Key, Publish(k)
    PROVE  RInv'
  <1>1. /\ pending[k] # NoPending /\ pending' = [pending EXCEPT ![k].published = TRUE]
        /\ UNCHANGED <<epoch, unavailable, recovering, groups, confirmed, queue, aliases,
                       accepted_permit, run_permit, signalled, reported>>
    BY DEF Publish, rights
  <1>2. RightsInv(k) /\ Typed /\ TypedRights /\ Claims /\ pending[k] \in Pending
    BY <1>1 DEF IInv, RInv, Typed
  <1>3. /\ pending'[k] \in Pending /\ pending'[k].event = pending[k].event
        /\ pending'[k].candidate = pending[k].candidate
        /\ pending'[k].intent = pending[k].intent
        /\ \A j \in Key \ {k} : pending'[j] = pending[j]
    BY ZenonT(30), <1>1, <1>2 DEF Typed, Pending
  <1>4. pending'[k] # NoPending
    BY <1>3, PendingIsSome
  <1>5. RightsInv(k)'
    <2>1. PICK s \in State : s = confirmed[k]
      BY <1>2 DEF Typed
    <2>2. PICK ev : ev = Owned(k)
      OBVIOUS
    <2>3. Owned(k)' = ev /\ confirmed'[k] = s
      BY ZenonT(30), <1>1, <1>3, <2>1, <2>2 DEF Owned
    <2>4. Core(k, s, ev)' /\ (~unavailable /\ ~recovering => Held(k, s, ev)')
      BY ZenonT(30), <1>1, <1>2, <2>1, <2>2 DEF RightsInv, Core, Held
    <2>5. Core(k, confirmed[k], Owned(k))'
          /\ (~unavailable' /\ ~recovering' => Held(k, confirmed[k], Owned(k))')
      BY ZenonT(30), <1>1, <2>3, <2>4
    <2>6. recovering' => Recovering(k)'
      BY ZenonT(30), <1>1, <1>2, <1>3, <1>4 DEF RightsInv, Recovering, NoPending
    <2>7. Advances(k, confirmed'[k], pending'[k].event, pending'[k].candidate,
                   pending'[k].intent)
      BY ZenonT(30), <1>1, <1>2, <1>3 DEF RightsInv
    <2>8. NoPending' = NoPending
      BY DEF NoPending
    <2> QED BY ZenonT(30), <1>1, <1>2, <1>4, <2>2, <2>3, <2>5, <2>6, <2>7, <2>8 DEF RightsInv
  <1>6. TypedRights' /\ Claims'
    BY <1>1, <1>2 DEF TypedRights, Claims, SharesId
  <1> QED BY ZenonT(30), <1>1, <1>3, <1>5, <1>6, RightsStep

LEMMA FailStopRights ==
    ASSUME RInv, FailStop
    PROVE  RInv'
  <1>1. /\ unavailable' = TRUE
        /\ UNCHANGED <<epoch, recovering, groups, confirmed, pending, queue, aliases,
                       accepted_permit, run_permit, signalled, reported>>
    BY DEF FailStop, rights
  <1>2. ASSUME NEW j \in Key PROVE RightsInv(j)'
    BY ZenonT(30), <1>1, OtherRights DEF RInv
  <1>3. TypedRights' /\ Claims'
    BY <1>1 DEF RInv, TypedRights, Claims, SharesId
  <1> QED BY <1>2, <1>3 DEF RInv

LEMMA AdapterRights ==
    ASSUME IInv, RInv, NEW k \in Key, Adapter(k)
    PROVE  RInv'
  <1>1. SlotInv(k) /\ confirmed[k] \in State
    BY DEF IInv, Typed
  <1>2. PICK s \in State : s = confirmed[k]
    BY <1>1
  <1>3. CASE Publish(k)
    BY ZenonT(30), <1>3, PublishRights
  <1>4. CASE CompleteCommitted(k)
    BY ZenonT(30), <1>4, ConfirmRights DEF CompleteCommitted, Completes
  <1>5. CASE CompleteRolledBack(k)
    BY ZenonT(30), <1>2, <1>5, RetryRights DEF CompleteRolledBack, Completes
  <1>6. CASE CompleteReadback(k)
    <2> DEFINE actual == durable[k].record
    <2>1. pending[k] # NoPending /\ ~unavailable
      BY ZenonT(30), <1>6 DEF CompleteReadback, Completes
    <2>2. CASE Confirm(k)
      BY <2>1, <2>2, ConfirmRights
    <2>3. CASE /\ actual # pending[k].candidate.record
               /\ Retry(k, [confirmed[k] EXCEPT !.record = actual])
      <3>1. actual = s.record
        BY <1>1, <1>2, <2>3 DEF SlotInv
      <3>2. [s EXCEPT !.record = s.record] = s
        BY ZenonT(30) DEF State
      <3>3. Retry(k, s)
        BY ZenonT(30), <1>2, <2>3, <3>1, <3>2
      <3> QED BY ZenonT(30), <1>2, <2>1, <3>3, RetryRights
    <2>4. CASE FailStop
      BY <2>4, FailStopRights
    <2> QED BY ZenonT(30), <1>6, <2>2, <2>3, <2>4 DEF CompleteReadback
  <1>7. CASE CompleteFailed(k) \/ CompleteUnknown(k)
    BY <1>7, FailStopRights DEF CompleteFailed, CompleteUnknown
  <1> QED BY ZenonT(30), <1>3, <1>4, <1>5, <1>6, <1>7 DEF Adapter

\* A restart gives every slot its stored record, and the recovery that record needs.
LEMMA RestoreRights ==
    ASSUME IInv, RInv, Restore, accepted_permit' \in [Key -> Nat],
           \A k \in Key : accepted_permit'[k] \in 0 .. epoch,
           run_permit' = [k \in Key |-> 0]
    PROVE  RInv'
  <1> DEFINE start(k) == FromRecord(durable[k].record)
             recover(k) == Decide(k, start(k), Event("Recover"))
             proposal(k) == Proposal(Event("Recover"), recover(k))
  <1>1. /\ epoch' = epoch + 1 /\ ~unavailable' /\ aliases' = {} /\ reported' = reported
        /\ confirmed' = [k \in Key |-> IF Stored(k) THEN start(k) ELSE Empty]
        /\ queue' = [k \in Key |-> <<>>]
        /\ pending' = [k \in Key |-> IF Stored(k) /\ recover(k).kind = "step"
                                     THEN proposal(k) ELSE NoPending]
        /\ recovering' = \E k \in Key : pending'[k] # NoPending
    BY ZenonT(30) DEF Restore
  <1>2. TypedRights' /\ Claims'
    <2>1. run_permit' \in [Key -> Nat]
      BY ZenonT(30)
    <2> QED BY <1>1, <2>1 DEF RInv, TypedRights, Claims
  <1>3. ASSUME NEW k \in Key PROVE RightsInv(k)'
    <2>1. PICK r \in Record : r = durable[k].record
      BY ZenonT(30), StoredRecord
    <2>2. PICK s \in State : s = confirmed'[k]
      <3>1. start(k) \in State /\ Empty \in State
        BY ZenonT(30), <2>1, Restored
      <3> HIDE DEF start
      <3> QED BY ZenonT(30), <1>1, <3>1
    <2>3. /\ s.record = r /\ HoldersOf(s) = {} /\ Sound(k, r)
          /\ Stored(k) => s = start(k)
      <3>1. SlotInv(k)
        BY DEF IInv
      <3>2. CASE Stored(k)
        <4>1. s = FromRecord(r)
          BY ZenonT(30), <1>1, <2>1, <2>2, <3>2
        <4>2. Valid(k, r)
          BY ZenonT(30), <2>1, <3>1, <3>2 DEF SlotInv, Stored
        <4> QED BY ZenonT(30), <2>1, <4>1, <4>2, Restored DEF Sound
      <3>3. CASE ~Stored(k)
        <4>1. s = Empty /\ r = EmptyRecord
          <5>1. durable[k] = NoStored /\ s = Empty
            BY ZenonT(30), <1>1, <2>2, <3>3 DEF Stored
          <5>2. NoStored.record = EmptyRecord
            BY ZenonT(30) DEF NoStored
          <5> QED BY ZenonT(30), <2>1, <5>1, <5>2
        <4>2. HoldersOf(Empty) = {}
          BY DEF HoldersOf, Empty
        <4> QED BY ZenonT(30), <3>3, <4>1, <4>2, Restored DEF Sound
      <3> QED BY ZenonT(30), <3>2, <3>3
    <2>4. /\ r.begun # None /\ r.producer # None =>
                 (r.producer = "uncertain" /\ epoch > 1) \/ r.producer = reported[k]
          /\ r.accepted # None /\ r.begun = None /\ r.cancel_requested => r.producer # None
      <3>1. SlotInv(k) /\ RightsInv(k)
        BY DEF IInv, RInv
      <3>2. CASE r = confirmed[k].record
        BY ZenonT(30), <3>1, <3>2 DEF RightsInv, Core, Settled
      <3>3. CASE pending[k] # NoPending /\ r = pending[k].candidate.record
        <4>1. Settled(k, pending[k].candidate)
          BY ZenonT(30), <3>1, <3>3 DEF RightsInv, Advances
        <4> QED BY ZenonT(30), <3>3, <4>1, RecordedOutcome DEF Settled
      <3> QED BY ZenonT(30), <2>1, <3>1, <3>2, <3>3 DEF SlotInv
    <2>5. Settled(k, s)
      BY ZenonT(30), <2>3, <2>4 DEF Settled, AllCancelled
    <2>6. /\ queue'[k] = <<>> /\ run_permit'[k] = 0 /\ accepted_permit'[k] \in 0 .. epoch
          /\ epoch \in Nat \ {0} /\ epoch' = epoch + 1 /\ reported'[k] = reported[k]
          /\ confirmed'[k] = s /\ NoPending' = NoPending
      BY ZenonT(30), <1>1, <2>2 DEF RInv, TypedRights, NoPending
    <2>7. Owned(k)' = {pending'[k].event}
      BY <2>6 DEF Owned
    <2>8. Event("Recover") \in Events /\ Event("Recover").type = "Recover"
          /\ Event("Recover") # Event(None)
      BY ZenonT(30) DEF Event, Events, None
    <2>9. ASSUME pending'[k] # NoPending
          PROVE  /\ pending'[k].event = Event("Recover")
                 /\ Advances(k, s, pending'[k].event, pending'[k].candidate, pending'[k].intent)
      <3>1. Stored(k) /\ recover(k).kind = "step" /\ pending'[k] = proposal(k)
        BY ZenonT(30), <1>1, <2>9
      <3>2. Decide(k, s, Event("Recover")) = recover(k)
        BY ZenonT(30), <2>3, <3>1
      <3>3. Advances(k, s, Event("Recover"), recover(k).state, recover(k).intent)
        <4>1. Decide(k, s, Event("Recover")).kind = "step"
          BY <3>1, <3>2
        <4> HIDE DEF recover
        <4> QED BY ZenonT(30), <2>3, <2>5, <2>8, <3>2, <4>1, DecideAdvances
      <3> HIDE DEF recover
      <3> QED BY <3>1, <3>3 DEF Proposal
    <2>10. ASSUME r.accepted # None, r.producer = None
           PROVE  pending'[k] # NoPending /\ pending'[k].event = Event("Recover")
      <3>1. Stored(k)
        BY <2>1, <2>10 DEF Stored, NoStored, EmptyRecord
      <3>2. Decide(k, s, Event("Recover")).kind = "step"
        BY ZenonT(30), <2>3, <2>8, <2>10, RecoverSure DEF Decide
      <3>3. recover(k).kind = "step"
        BY ZenonT(30), <2>3, <3>1, <3>2
      <3>4. pending'[k] = proposal(k)
        BY ZenonT(30), <1>1, <3>1, <3>3
      <3>5. proposal(k).event = Event("Recover")
        BY DEF Proposal
      <3> HIDE DEF proposal
      <3> QED BY ZenonT(30), <2>8, <3>4, <3>5, PlainEvent
    <2>11. /\ \A x \in Owned(k)' : x = Event("Recover") \/ x.type = "none"
           /\ r.begun # None /\ r.producer = None => Event("Recover") \in Owned(k)'
      <3>1. pending'[k] = NoPending \/ pending'[k].event = Event("Recover")
        BY ZenonT(30), <2>9
      <3>2. r.begun # None => r.accepted # None
        BY ZenonT(30), <2>3, SoundFacts
      <3> QED BY ZenonT(30), <2>7, <2>10, <3>1, <3>2, PlainEvent
    <2>12. PICK w : w = Owned(k)'
      OBVIOUS
    <2>13. Core(k, s, w)'
      <3>1. \A x \in w : x.type \in {"Recover", "none"}
        BY ZenonT(30), <2>8, <2>11, <2>12
      <3>2. accepted_permit'[k] # epoch' /\ accepted_permit'[k] \in 0 .. epoch' /\ epoch' > 1
            /\ run_permit'[k] # epoch'
        BY <2>6
      <3>3. r.begun # None /\ r.producer # None =>
                 (r.producer = "uncertain" /\ epoch' > 1) \/ r.producer = reported'[k]
        BY ZenonT(30), <2>4, <2>6, <3>2
      <3> QED BY ZenonT(30), <2>3, <2>5, <2>6, <2>11, <2>12, <3>1, <3>2, <3>3 DEF Core
    <2>14. Core(k, confirmed[k], Owned(k))'
      BY ZenonT(30), <2>6, <2>12, <2>13
    <2>15. ~recovering' => Held(k, confirmed[k], Owned(k))' /\ Event("Recover") \notin Owned(k)'
      <3> SUFFICES ASSUME ~recovering'
                   PROVE  Held(k, confirmed[k], Owned(k))' /\ Event("Recover") \notin Owned(k)'
        OBVIOUS
      <3>1. pending'[k] = NoPending
        BY ZenonT(30), <1>1
      <3> QED BY ZenonT(30), <2>3, <2>6, <2>7, <2>8, <2>10, <3>1, PlainEvent DEF Held
    <2>16. Recovering(k)'
      BY <2>3, <2>6, <2>9, <2>10 DEF Recovering
    <2>17. pending'[k] # NoPending => Advances(k, confirmed'[k], pending'[k].event,
                                               pending'[k].candidate, pending'[k].intent)
      BY ZenonT(30), <2>6, <2>9
    <2> QED BY ZenonT(30), <2>6, <2>14, <2>15, <2>16, <2>17 DEF RightsInv
  <1> QED BY ZenonT(30), <1>2, <1>3 DEF RInv

\* Initially nobody holds anything.
LEMMA InitRights == Init => RInv
  <1> SUFFICES ASSUME Init PROVE RInv
    OBVIOUS
  <1>1. TypedRights /\ Claims
    BY DEF Init, TypedRights, Claims
  <1>2. ASSUME NEW k \in Key PROVE RightsInv(k)
    <2>1. /\ confirmed[k] = Empty /\ pending[k] = NoPending /\ queue[k] = <<>> /\ epoch = 1
          /\ accepted_permit[k] = 0 /\ run_permit[k] = 0 /\ ~recovering
      BY DEF Init
    <2>2. Owned(k) = {Event(None)}
      BY <2>1, PlainEvent DEF Owned
    <2>3. /\ Empty.record.accepted = None /\ Empty.record.begun = None
          /\ Empty.record.producer = None /\ ~Empty.record.cancel_requested
      BY Restored DEF EmptyRecord
    <2>4. HoldersOf(Empty) = {}
      BY ZenonT(30) DEF HoldersOf, Empty
    <2>5. Settled(k, Empty)
      BY ZenonT(30), <2>3, <2>4 DEF Settled
    <2>6. Core(k, confirmed[k], Owned(k))
      <3>1. \A x \in Owned(k) : x.type = "none"
        BY <2>2, PlainEvent
      <3> QED BY <2>1, <2>3, <2>5, <3>1 DEF Core
    <2>7. Event("Recover") \notin Owned(k)
      BY ZenonT(30), <2>2 DEF Event, None
    <2>8. Held(k, confirmed[k], Owned(k))
      BY <2>1, <2>3 DEF Held
    <2> QED BY ZenonT(30), <2>1, <2>6, <2>7, <2>8 DEF RightsInv
  <1> QED BY <1>1, <1>2 DEF RInv

\* Every step keeps the rights where they are needed.
LEMMA NextRights == IInv /\ RInv /\ [Next]_vars => RInv'
  <1> SUFFICES ASSUME IInv, RInv, [Next]_vars PROVE RInv'
    OBVIOUS
  <1>1. CASE \E k \in Submitted : Caller(k)
    BY <1>1, CallerRights
  <1>2. CASE \E k \in Key : Worker(k) \/ Adapter(k)
    BY <1>2, WorkerRights, AdapterRights
  <1>3. CASE \E m \in members : Holder("CancelHolder", m) \/ Holder("RetireHolder", m)
    BY <1>3, HolderRights
  <1>4. CASE AuthorityFailure
    BY <1>4, FailStopRights DEF AuthorityFailure
  <1>5. CASE Crash
    <2>1. /\ Restore /\ accepted_permit' = [k \in Key |-> 0] /\ run_permit' = [k \in Key |-> 0]
      BY <1>5 DEF Crash
    <2>2. epoch \in Nat
      BY DEF RInv, TypedRights
    <2> QED BY <2>1, <2>2, RestoreRights
  <1>6. CASE Reopen
    <2>1. storage_is_quiescent /\ Restore /\ UNCHANGED <<accepted_permit, run_permit>>
      BY <1>6 DEF Reopen
    <2>2. ASSUME NEW k \in Key PROVE run_permit[k] = 0 /\ accepted_permit[k] \in 0 .. epoch
      <3>1. RightsInv(k) /\ SlotInv(k) /\ confirmed[k].record \in Record
        BY DEF RInv, IInv, Typed, State
      <3>2. accepted_permit[k] \in 0 .. epoch
        BY ZenonT(30), <3>1 DEF RightsInv, Core
      <3>3. ASSUME run_permit[k] # 0 PROVE FALSE
        <4>1. confirmed[k].record.begun # None /\ confirmed[k].record.producer = None
          BY ZenonT(30), <3>1, <3>3 DEF RightsInv, Core
        <4>2. confirmed[k].record.accepted # None
          BY ZenonT(30), <3>1, <4>1, SoundFacts DEF SlotInv
        <4> QED BY ZenonT(30), <2>1, <4>1, <4>2, AcceptedIsClaimed DEF storage_is_quiescent
      <3> QED BY ZenonT(30), <3>2, <3>3
    <2>3. run_permit \in [Key -> Nat] /\ accepted_permit \in [Key -> Nat]
      BY DEF RInv, TypedRights
    <2>4. run_permit' = [k \in Key |-> 0]
      BY <2>1, <2>2, <2>3
    <2>5. accepted_permit' \in [Key -> Nat] /\ \A k \in Key : accepted_permit'[k] \in 0 .. epoch
      BY ZenonT(30), <2>1, <2>2, <2>3
    <2> QED BY ZenonT(30), <2>1, <2>4, <2>5, RestoreRights
  <1>7. CASE UNCHANGED vars
    BY <1>7, RightsUntouched DEF vars
  <1> QED BY ZenonT(30), <1>1, <1>2, <1>3, <1>4, <1>5, <1>6, <1>7 DEF Next

\* The rights are where they are needed in every reachable state of every instance.
THEOREM RightsInductive == Spec => [](IInv /\ RInv)
  <1>1. Init => IInv /\ RInv
    BY InitInv, InitRights
  <1>2. IInv /\ RInv /\ [Next]_vars => (IInv /\ RInv)'
    BY NextInv, NextRights
  <1> QED BY <1>1, <1>2, PTL DEF Spec

\* cancel_holder: the record of a begun read asks for cancellation only when all of its
\* holders have cancelled, over joins, retirements and replayed memberships.
THEOREM CancelAlwaysNeedsEveryHolder == Spec => []CancelNeedsEveryHolder
  <1>1. RInv => CancelNeedsEveryHolder
    BY ZenonT(30) DEF RInv, RightsInv, Core, Settled, CancelNeedsEveryHolder
  <1> QED BY <1>1, RightsInductive, PTL

\* A worker with a RunPermit of this epoch has the CancellationPermit of its cancelled
\* record, whatever was rolled back, read back or queued in between.
THEOREM CancelAlwaysReachesWorker == Spec => []CancelReachesWorker
  <1>1. RInv => CancelReachesWorker
    BY ZenonT(30) DEF RInv, RightsInv, Core, CancelReachesWorker
  <1> QED BY <1>1, RightsInductive, PTL

\* A begun run keeps its worker, the reported fact or its recovery until an outcome is
\* confirmed, and the confirmed outcome is the reported one or a restart's "uncertain".
THEOREM OutcomeAlwaysKept == Spec => []OutcomeKept
  <1>1. IInv /\ RInv => OutcomeKept
    <2> SUFFICES ASSUME IInv, RInv, NEW k \in Key, runs[k] = 1,
                        NEW producer, producer = confirmed[k].record.producer
                 PROVE  \/ producer = "uncertain" /\ epoch > 1
                        \/ producer # None /\ producer = reported[k]
                        \/ /\ producer = None
                           /\ \/ run_permit[k] = epoch
                              \/ OutcomeIs(reported[k]) \in Owned(k)
                              \/ Event("Recover") \in Owned(k)
      BY ZenonT(30) DEF OutcomeKept
    <2>1. confirmed[k].record.begun # None
      BY ZenonT(30) DEF IInv, SlotInv
    <2>2. Core(k, confirmed[k], Owned(k))
      BY ZenonT(30) DEF RInv, RightsInv
    <2> QED BY ZenonT(30), <2>1, <2>2 DEF Core
  <1> QED BY <1>1, RightsInductive, PTL

\* An open owner has handed somebody the right, or holds the event, that will end each
\* accepted record: no permit is lost to a refusal, a rollback or a restart.
THEOREM NeverOrphaned == Spec => []NoOrphan
  <1>1. IInv /\ RInv => NoOrphan
    <2> SUFFICES ASSUME IInv, RInv, ~unavailable, ~recovering, NEW k \in groups,
                        confirmed[k].record.accepted # None, confirmed[k].record.producer = None
                 PROVE  \/ epoch \in {accepted_permit[k], run_permit[k]}
                        \/ \E e \in Owned(k) :
                               e.type \in {"Begin", "AdmissionRejected", "Outcome"}
      BY ZenonT(30) DEF NoOrphan
    <2>1. k \in Key
      BY DEF IInv, Typed
    <2>2. /\ Core(k, confirmed[k], Owned(k)) /\ Held(k, confirmed[k], Owned(k))
          /\ Event("Recover") \notin Owned(k)
      BY ZenonT(30), <2>1 DEF RInv, RightsInv
    <2>3. OutcomeIs(reported[k]).type = "Outcome"
      BY ZenonT(30) DEF OutcomeIs
    <2>4. CASE confirmed[k].record.begun = None
      BY <2>2, <2>4 DEF Held
    <2>5. CASE confirmed[k].record.begun # None
      BY ZenonT(30), <2>2, <2>3, <2>5 DEF Core
    <2> QED BY ZenonT(30), <2>4, <2>5
  <1> QED BY <1>1, RightsInductive, PTL

-----------------------------------------------------------------------------
Member == [request : Key \cup {None}, group : Key \cup {None}, generation : Nat]
Role == {"Direct", "Task", "Holder"}
Read == [key : Key, role : Role, owner : Owner \cup {None}, member : Member, epoch : Nat,
         record : Record, descriptor : Outcome, outcome : Outcome \cup {None}]

\* What was told of slot k is what the store says.
Told(k) ==
    LET r == durable[k].record
    IN  /\ \A o \in shown[k] : o # None /\ o = r.primary
        /\ \A o \in joined[k] : o # None /\ o = r.producer
        /\ direct_permit[k] # None => direct_permit[k] = r.primary
        /\ choice[k] \in Outcome => choice[k] = r.primary

\* A read in flight carries the result it was prepared for, or none yet.
DInv ==
    /\ reads \subseteq Read /\ \A rd \in reads : rd.outcome \in {None, rd.descriptor}
    /\ DOMAIN direct_permit = Key /\ DOMAIN choice = Key
    /\ DOMAIN shown = Key /\ DOMAIN joined = Key
    /\ \A k \in Key : Told(k)

LEMMA OutcomeIsNoMark == None \notin Outcome /\ "task" \notin Outcome
  BY ZenonT(30) DEF Outcome, None

\* The coordinator's own steps, and the acknowledgement of a built response.
LEMMA DeliveryStep ==
    ASSUME IInv, RInv, [DeliveryNext]_dvars
    PROVE  /\ IInv' /\ RInv'
           /\ \/ UNCHANGED durable
              \/ (\E k \in Key : Publish(k)) /\ UNCHANGED delivery
  <1>1. CASE [Next]_vars /\ (UNCHANGED durable \/ UNCHANGED delivery)
    BY ZenonT(30), <1>1, NextInv, NextRights, OnlyPublishWrites
  <1>2. CASE \E k \in Submitted, o \in Owner : AcknowledgeDirect(k, o)
    <2>1. PICK k \in Submitted, o \in Owner : AcknowledgeDirect(k, o)
      BY <1>2
    <2>2. PICK d \in Outcome : Acknowledge(k, o, d)
      BY <2>1 DEF AcknowledgeDirect
    <2>3. k \in Key
      BY ZenonT(30), CoordinatorAssumption
    <2>4. AcknowledgeOf(o, d) \in Events /\ AcknowledgeOf(o, d).type = "Acknowledge"
      BY DEF AcknowledgeOf, Events
    <2>5. /\ EnqueueHolding(k, AcknowledgeOf(o, d), aliases) /\ Claimable(k) /\ UNCHANGED durable
          /\ UNCHANGED <<accepted_permit, run_permit, members, signalled, runs, reported>>
      BY ZenonT(30), <2>2 DEF Acknowledge, Enqueue, EnqueueHolding
    <2>6. \A j \in aliases, g \in groups \cup {k} : ~SharesId(g, j)
      BY ZenonT(30), <2>5 DEF RInv, Claims, Claimable
    <2>7. IInv'
      BY ZenonT(30), <2>3, <2>4, <2>5, EnqueueStep
    <2>8. RInv'
      BY ZenonT(30), <2>3, <2>4, <2>5, <2>6, PlainEnqueueRights
    <2> QED BY ZenonT(30), <2>5, <2>7, <2>8
  <1>3. CASE CrashWithReads \/ ReopenWithReads
    <2>1. Next
      BY <1>3 DEF CrashWithReads, ReopenWithReads, Next
    <2>2. UNCHANGED durable
      BY ZenonT(30), <1>3 DEF CrashWithReads, ReopenWithReads, Crash, Reopen, Restore
    <2> QED BY ZenonT(30), <1>1, <2>1, <2>2
  <1>4. CASE \E k \in Submitted :
                \/ \E o \in Owner : Prepare(k, "Direct", o, Nobody)
                \/ Prepare(k, "Task", None, Nobody)
                \/ \E m \in members : Prepare(k, "Holder", None, m)
                \/ BuildDirect(k) \/ ReturnTask(k)
    <2>1. UNCHANGED vars
      BY ZenonT(30), <1>4 DEF Prepare, BuildDirect, ReturnTask
    <2> QED BY <1>1, <2>1 DEF vars
  <1>5. CASE \E rd \in reads : Load(rd) \/ CompleteRead(rd)
    <2>1. UNCHANGED vars
      BY ZenonT(30), <1>5 DEF Load, CompleteRead
    <2> QED BY <1>1, <2>1 DEF vars
  <1>6. CASE UNCHANGED dvars
    BY ZenonT(30), <1>1, <1>6 DEF dvars, vars
  <1>7. CASE \/ \E k \in Submitted : Caller(k) /\ UNCHANGED delivery
             \/ \E k \in Key : (Worker(k) \/ Adapter(k)) /\ UNCHANGED delivery
             \/ \E m \in members : (Holder("CancelHolder", m) \/ Holder("RetireHolder", m))
                                   /\ UNCHANGED delivery
             \/ AuthorityFailure /\ UNCHANGED delivery
    BY ZenonT(30), <1>1, <1>7 DEF Next
  <1> QED BY ZenonT(30), <1>2, <1>3, <1>4, <1>5, <1>6, <1>7 DEF DeliveryNext

\* The stored record of a slot keeps its facts, whatever is published.
LEMMA StoredStands ==
    ASSUME IInv, NEW k \in Key, UNCHANGED durable \/ \E j \in Key : Publish(j)
    PROVE  KeepsFacts(durable[k].record, durable'[k].record)
  <1>1. CASE durable'[k] = durable[k]
    BY <1>1 DEF KeepsFacts
  <1>2. CASE Publish(k)
    <2>1. /\ pending[k] # NoPending /\ ~pending[k].published
          /\ durable'[k].record = pending[k].candidate.record
      BY <1>2 DEF Publish, IInv, Typed
    <2> QED BY ZenonT(30), <2>1 DEF IInv, SlotInv, Proposed, Grows
  <1>3. CASE \E j \in Key \ {k} : Publish(j)
    <2>1. durable'[k] = durable[k]
      BY <1>3 DEF Publish, IInv, Typed
    <2> QED BY ZenonT(30), <1>1, <2>1
  <1> QED BY ZenonT(30), <1>1, <1>2, <1>3

\* What was told stays true while the store only grows.
LEMMA ToldStands ==
    ASSUME NEW k \in Key, Told(k), KeepsFacts(durable[k].record, durable'[k].record),
           shown'[k] = shown[k], joined'[k] = joined[k],
           direct_permit'[k] \in {direct_permit[k], None}, choice'[k] = choice[k]
    PROVE  Told(k)'
  BY ZenonT(30), OutcomeIsNoMark DEF Told, KeepsFacts

\* The confirmed result of a role is the stored one.
LEMMA ConfirmedResult ==
    ASSUME IInv, NEW k \in Key, NEW role \in Role, RoleResult(role, confirmed[k].record) # None
    PROVE  /\ RoleResult(role, confirmed[k].record) \in Outcome
           /\ RoleResult(role, confirmed[k].record) =
                  IF role = "Holder" THEN durable[k].record.producer ELSE durable[k].record.primary
  <1>1. PICK r : r = confirmed[k].record
    OBVIOUS
  <1>2. SlotInv(k) /\ r \in Record /\ Sound(k, r)
    BY ZenonT(30), <1>1 DEF IInv, Typed, State, SlotInv
  <1>3. KeepsFacts(r, durable[k].record)
    BY ZenonT(30), <1>1, <1>2 DEF SlotInv, Proposed, Grows, KeepsFacts
  <1>4. r.primary = Primary(r)
    BY ZenonT(30), <1>2, SoundFacts
  <1>5. r.producer \in Outcome \cup {None} /\ r.primary \in Outcome \cup {None}
    BY <1>2 DEF Record
  <1> QED BY ZenonT(30), <1>1, <1>3, <1>4, <1>5 DEF RoleResult, KeepsFacts

LEMMA PrepareStep ==
    ASSUME IInv, RInv, DInv, NEW k \in Key, NEW role \in Role, NEW o \in Owner \cup {None},
           NEW m \in Member, Prepare(k, role, o, m)
    PROVE  DInv'
  <1> DEFINE d == ReadDescriptor(k, role, o, m)
             rd == [key |-> k, role |-> role, owner |-> o, member |-> m, epoch |-> epoch,
                    record |-> confirmed[k].record, descriptor |-> d, outcome |-> None]
  <1>1. /\ d # None /\ reads' = reads \cup {rd}
        /\ UNCHANGED <<vars, direct_permit, choice, shown, joined>>
    BY ZenonT(30) DEF Prepare
  <1>2. d = RoleResult(role, confirmed[k].record)
    BY ZenonT(30), <1>1 DEF ReadDescriptor
  <1>3. d \in Outcome
    BY ZenonT(30), <1>1, <1>2, ConfirmedResult
  <1>4. epoch \in Nat /\ confirmed[k].record \in Record
    BY ZenonT(30) DEF IInv, Typed, State, RInv, TypedRights
  <1> HIDE DEF d
  <1>5. rd \in Read /\ rd.outcome = None
    BY <1>3, <1>4 DEF Read
  <1>6. \A j \in Key : Told(j)'
    BY ZenonT(30), <1>1 DEF DInv, Told, vars
  <1> HIDE DEF rd
  <1> QED BY ZenonT(30), <1>1, <1>5, <1>6 DEF DInv

LEMMA LoadStep ==
    ASSUME DInv, NEW rd \in reads, Load(rd)
    PROVE  DInv'
  <1>1. UNCHANGED <<vars, direct_permit, choice, shown, joined>>
    BY DEF Load
  <1>2. \A j \in Key : Told(j)'
    BY ZenonT(30), <1>1 DEF DInv, Told, vars
  <1>3. CASE reads' = reads \ {rd}
    BY ZenonT(30), <1>1, <1>2, <1>3 DEF DInv
  <1>4. CASE reads' = (reads \ {rd}) \cup {[rd EXCEPT !.outcome = rd.descriptor]}
    <2>1. rd \in Read
      BY DEF DInv
    <2> DEFINE new == [rd EXCEPT !.outcome = rd.descriptor]
    <2>2. new \in Read /\ new.outcome = new.descriptor
      BY <2>1 DEF Read
    <2> HIDE DEF new
    <2>3. reads' = (reads \ {rd}) \cup {new}
      BY ZenonT(30), <1>4 DEF new
    <2> QED BY ZenonT(30), <1>1, <1>2, <2>2, <2>3 DEF DInv
  <1> QED BY ZenonT(30), <1>3, <1>4 DEF Load

\* A result is handed out only while it is the confirmed record's.
LEMMA CompleteReadStep ==
    ASSUME IInv, DInv, NEW rd \in reads, CompleteRead(rd)
    PROVE  DInv'
  <1>1. PICK k \in Key, role \in Role, o \in Outcome :
            rd.key = k /\ rd.role = role /\ rd.outcome = o /\ rd.descriptor = o
    BY DEF CompleteRead, DInv, Read
  <1>2. /\ reads' = reads \ {rd} /\ UNCHANGED <<vars, choice>>
        /\ direct_permit' = IF Current(rd) /\ role = "Direct"
                            THEN [direct_permit EXCEPT ![k] = o] ELSE direct_permit
        /\ shown' = IF Current(rd) /\ role = "Task"
                    THEN [shown EXCEPT ![k] = @ \cup {o}] ELSE shown
        /\ joined' = IF Current(rd) /\ role = "Holder"
                     THEN [joined EXCEPT ![k] = @ \cup {o}] ELSE joined
    BY ZenonT(30), <1>1 DEF CompleteRead
  <1>3. Current(rd) =>
            o = IF role = "Holder" THEN durable[k].record.producer ELSE durable[k].record.primary
    <2> SUFFICES ASSUME Current(rd)
                 PROVE  o = IF role = "Holder" THEN durable[k].record.producer
                            ELSE durable[k].record.primary
      BY ZenonT(30)
    <2>1. ReadDescriptor(k, role, rd.owner, rd.member) = o /\ o # None
      BY <1>1, OutcomeIsNoMark DEF Current
    <2>2. o = RoleResult(role, confirmed[k].record)
      BY ZenonT(30), <2>1 DEF ReadDescriptor
    <2> QED BY ZenonT(30), <2>1, <2>2, ConfirmedResult
  <1>4. /\ DOMAIN direct_permit' = Key /\ DOMAIN shown' = Key /\ DOMAIN joined' = Key
        /\ DOMAIN choice' = Key /\ UNCHANGED durable
    BY ZenonT(30), <1>2 DEF DInv, vars
  <1>5. ASSUME NEW j \in Key PROVE Told(j)'
    <2>1. Told(j)
      BY ZenonT(30) DEF DInv
    <2>2. CASE j # k \/ ~Current(rd)
      <3>1. /\ shown'[j] = shown[j] /\ joined'[j] = joined[j]
            /\ direct_permit'[j] = direct_permit[j] /\ choice'[j] = choice[j]
        BY ZenonT(30), <1>2, <2>2 DEF DInv
      <3> QED BY ZenonT(30), <1>4, <2>1, <3>1 DEF Told
    <2>3. CASE j = k /\ Current(rd)
      <3>1. /\ shown'[k] \subseteq shown[k] \cup {o} /\ joined'[k] \subseteq joined[k] \cup {o}
            /\ role = "Holder" => shown'[k] = shown[k]
            /\ role # "Holder" => joined'[k] = joined[k]
            /\ direct_permit'[k] = direct_permit[k] \/ (direct_permit'[k] = o /\ role = "Direct")
            /\ choice'[k] = choice[k]
        BY ZenonT(30), <1>2 DEF DInv
      <3>2. o # None
        BY ZenonT(30), OutcomeIsNoMark
      <3> QED BY ZenonT(30), <1>3, <1>4, <2>1, <2>3, <3>1, <3>2 DEF Told
    <2> QED BY ZenonT(30), <2>2, <2>3
  <1> QED BY ZenonT(30), <1>2, <1>4, <1>5 DEF DInv

LEMMA BuildDirectStep ==
    ASSUME DInv, NEW k \in Key, BuildDirect(k)
    PROVE  DInv'
  <1>1. /\ direct_permit[k] # None /\ direct_permit' = [direct_permit EXCEPT ![k] = None]
        /\ choice' = [choice EXCEPT ![k] = IF @ = None THEN direct_permit[k] ELSE @]
        /\ UNCHANGED <<durable, reads, shown, joined>>
    BY ZenonT(30) DEF BuildDirect, vars
  <1>2. ASSUME NEW j \in Key PROVE Told(j)'
    <2>1. Told(j)
      BY DEF DInv
    <2>2. /\ direct_permit'[j] \in {direct_permit[j], None}
          /\ choice'[j] = choice[j] \/ (choice'[j] = direct_permit[j] /\ direct_permit[j] # None)
      BY ZenonT(30), <1>1 DEF DInv
    <2> QED BY ZenonT(30), <1>1, <2>1, <2>2 DEF Told
  <1> QED BY ZenonT(30), <1>1, <1>2 DEF DInv

LEMMA ReturnTaskStep ==
    ASSUME DInv, NEW k \in Key, ReturnTask(k)
    PROVE  DInv'
  <1>1. choice' = [choice EXCEPT ![k] = "task"]
        /\ UNCHANGED <<durable, reads, direct_permit, shown, joined>>
    BY ZenonT(30) DEF ReturnTask, vars
  <1>2. ASSUME NEW j \in Key PROVE Told(j)'
    <2>1. Told(j)
      BY DEF DInv
    <2>2. choice'[j] = choice[j] \/ choice'[j] \notin Outcome
      BY ZenonT(30), <1>1, OutcomeIsNoMark DEF DInv
    <2> QED BY ZenonT(30), <1>1, <2>1, <2>2 DEF Told
  <1> QED BY ZenonT(30), <1>1, <1>2 DEF DInv

\* The owner's own steps tell nobody anything; a crash takes reads and permits along.
LEMMA OwnerStep ==
    ASSUME IInv, DInv, UNCHANGED durable \/ \E j \in Key : Publish(j),
           \/ UNCHANGED <<reads, direct_permit>>
           \/ reads' = {} /\ direct_permit' = [k \in Key |-> None],
           UNCHANGED <<choice, shown, joined>>
    PROVE  DInv'
  <1>1. ASSUME NEW j \in Key PROVE Told(j)'
    <2>1. direct_permit'[j] \in {direct_permit[j], None}
      OBVIOUS
    <2>2. KeepsFacts(durable[j].record, durable'[j].record)
      BY ZenonT(30), StoredStands
    <2> QED BY ZenonT(30), <2>1, <2>2, ToldStands DEF DInv
  <1>2. DOMAIN direct_permit' = Key /\ reads' \subseteq reads
    BY ZenonT(30) DEF DInv
  <1> QED BY ZenonT(30), <1>1, <1>2 DEF DInv

LEMMA DeliveryInvStep == IInv /\ RInv /\ DInv /\ [DeliveryNext]_dvars => DInv'
  <1> SUFFICES ASSUME IInv, RInv, DInv, [DeliveryNext]_dvars PROVE DInv'
    OBVIOUS
  <1>1. ASSUME NEW k \in Submitted PROVE k \in Key
    BY CoordinatorAssumption
  <1>2. CASE UNCHANGED delivery
    <2>1. UNCHANGED durable \/ \E j \in Key : Publish(j)
      BY DeliveryStep
    <2> QED BY ZenonT(30), <1>2, <2>1, OwnerStep DEF delivery
  <1>3. CASE CrashWithReads
    <2>1. UNCHANGED durable
      BY ZenonT(30), <1>3 DEF CrashWithReads, Crash, Restore
    <2> QED BY ZenonT(30), <1>3, <2>1, OwnerStep DEF CrashWithReads
  <1>4. CASE \E k \in Submitted :
                \/ \E o \in Owner : Prepare(k, "Direct", o, Nobody)
                \/ Prepare(k, "Task", None, Nobody)
                \/ \E m \in members : Prepare(k, "Holder", None, m)
    <2>1. Nobody \in Member /\ members \subseteq Member
      BY DEF Nobody, Member, IInv, Typed
    <2>2. "Direct" \in Role /\ "Task" \in Role /\ "Holder" \in Role
      BY DEF Role
    <2> QED BY ZenonT(30), <1>1, <1>4, <2>1, <2>2, PrepareStep
  <1>5. CASE \E k \in Submitted : BuildDirect(k) \/ ReturnTask(k)
    BY ZenonT(30), <1>1, <1>5, BuildDirectStep, ReturnTaskStep
  <1>6. CASE \E rd \in reads : Load(rd) \/ CompleteRead(rd)
    BY ZenonT(30), <1>6, LoadStep, CompleteReadStep
  <1> QED BY ZenonT(30), <1>2, <1>3, <1>4, <1>5, <1>6
          DEF DeliveryNext, AcknowledgeDirect, ReopenWithReads, dvars

\* The coordinator keeps its invariants under its readers and its frontend, and what
\* they were told is what the store says.
THEOREM DeliveryInductive == DeliverySpec => [](IInv /\ RInv /\ DInv)
  <1>1. DeliveryInit => IInv /\ RInv /\ DInv
    <2> SUFFICES ASSUME DeliveryInit PROVE IInv /\ RInv /\ DInv
      OBVIOUS
    <2>1. IInv /\ RInv
      BY ZenonT(30), InitInv, InitRights DEF DeliveryInit
    <2>2. DInv
      BY ZenonT(30), OutcomeIsNoMark DEF DeliveryInit, DInv, Told
    <2> QED BY <2>1, <2>2
  <1>2. IInv /\ RInv /\ DInv /\ [DeliveryNext]_dvars => (IInv /\ RInv /\ DInv)'
    BY DeliveryStep, DeliveryInvStep
  <1> QED BY <1>1, <1>2, PTL DEF DeliverySpec

\* Task observers, joined readers and the built Direct response are told what the store
\* says, although reads leave the decision loop and restarts fall in between.
THEOREM ResultsAlwaysAgree == DeliverySpec => []ResultsAgree
  <1>1. DInv => ResultsAgree
    BY ZenonT(30) DEF DInv, Told, ResultsAgree
  <1> QED BY <1>1, DeliveryInductive, PTL

\* complete_read issues no DirectPublicationPermit once the record is acknowledged.
THEOREM NeverDirectAfterAck == DeliverySpec => NoDirectAfterAck
  <1> DEFINE late == \A k \in Key : direct_permit'[k] \notin {direct_permit[k], None} =>
                         confirmed[k].record.acknowledgement = None
  <1>1. DInv /\ [DeliveryNext]_dvars => [late]_dvars
    <2> SUFFICES ASSUME DInv, DeliveryNext, NEW k \in Key,
                        direct_permit'[k] \notin {direct_permit[k], None}
                 PROVE  confirmed[k].record.acknowledgement = None
      OBVIOUS
    <2>1. CASE \E rd \in reads : CompleteRead(rd)
      <3>1. PICK rd \in reads : CompleteRead(rd)
        BY <2>1
      <3>2. Current(rd) /\ rd.role = "Direct" /\ rd.key = k /\ rd.descriptor # None
        BY ZenonT(30), <3>1, OutcomeIsNoMark DEF CompleteRead, DInv, Read
      <3>3. ReadDescriptor(k, "Direct", rd.owner, rd.member) # None
        BY <3>2 DEF Current
      <3> QED BY ZenonT(30), <3>3 DEF ReadDescriptor
    <2>2. ASSUME direct_permit' = direct_permit \/ direct_permit' = [j \in Key |-> None]
          PROVE FALSE
      BY <2>2
    <2>3. ASSUME NEW j \in Key, BuildDirect(j) PROVE FALSE
      BY ZenonT(30), <2>3 DEF BuildDirect, DInv
    <2>4. ASSUME NEW j \in Submitted PROVE j \in Key
      BY CoordinatorAssumption
    <2> QED BY ZenonT(30), <2>1, <2>2, <2>3, <2>4
            DEF DeliveryNext, delivery, Prepare, AcknowledgeDirect, ReturnTask, Load,
                CrashWithReads, ReopenWithReads
  <1> QED BY <1>1, DeliveryInductive, PTL DEF DeliverySpec, NoDirectAfterAck

=============================================================================
