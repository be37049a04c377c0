------------------------ MODULE ExecutionRightsProofs -----------------------
(***************************************************************************)
(* Where the right to finish an attempt is: with a permit holder, in an    *)
(* event that its slot owns, or in its recovery.  RInv says so, next to the*)
(* invariant IInv of ExecutionCoordinatorProofs.                           *)
(*                                                                         *)
(* Here are the invariant and the steps that use a permit, queue an event, *)
(* or confirm a decision; the other steps, and the theorems, are in        *)
(* ExecutionDeliveryProofs.                                                *)
(***************************************************************************)
EXTENDS ExecutionCoordinatorProofs

\* The rights over slot k when its state is s and it owns the events ev: a RunPermit is
\* held for a run without an outcome, a reported outcome is the only one in the slot, and
\* a run without an outcome has its permit, its report or its recovery.
Core(k, s, ev) ==
    LET r == s.record
    IN  /\ Settled(k, s)
        /\ run_permit[k] \in {0, epoch} /\ accepted_permit[k] \in 0 .. epoch
        /\ run_permit[k] # 0 => r.begun # None /\ r.producer = None
        /\ accepted_permit[k] = epoch => r.accepted # None
        /\ \A e \in ev :
               /\ e.type = "Outcome" =>
                      r.begun # None /\ e = OutcomeIs(reported[k]) /\ run_permit[k] = 0
               /\ e.type = "Begin" => k \in ReadTool \/ e.authority = NoAuthority
               /\ e.type = "Recover" => epoch > 1
        /\ r.begun # None /\ r.producer = None =>
               \/ run_permit[k] = epoch \/ OutcomeIs(reported[k]) \in ev
               \/ Event("Recover") \in ev
        /\ r.begun # None /\ r.producer # None =>
               \/ r.producer = "uncertain" /\ epoch > 1
               \/ r.producer = reported[k]
        /\ r.cancel_requested /\ run_permit[k] = epoch => k \in signalled

\* Somebody may still begin or reject the accepted attempt.
Held(k, s, ev) ==
    s.record.accepted # None /\ s.record.begun = None /\ s.record.producer = None =>
        accepted_permit[k] = epoch \/ \E e \in ev : e.type \in {"Begin", "AdmissionRejected"}

\* A slot before recovery has ended.
Recovering(k) ==
    /\ queue[k] = <<>> /\ run_permit[k] = 0 /\ accepted_permit[k] # epoch
    /\ pending[k] # NoPending => pending[k].event = Event("Recover")
    /\ confirmed[k].record.accepted # None /\ confirmed[k].record.producer = None =>
           pending[k] # NoPending

RightsInv(k) ==
    /\ Core(k, confirmed[k], Owned(k))
    /\ ~unavailable /\ ~recovering => Held(k, confirmed[k], Owned(k))
    /\ pending[k] # NoPending => Advances(k, confirmed[k], pending[k].event,
                                          pending[k].candidate, pending[k].intent)
    /\ ~unavailable /\ pending[k] = NoPending => queue[k] = <<>>
    /\ recovering => Recovering(k)
    /\ ~recovering => Event("Recover") \notin Owned(k)

TypedRights ==
    /\ epoch \in Nat \ {0}
    /\ accepted_permit \in [Key -> Nat] /\ run_permit \in [Key -> Nat]
    /\ reported \in [Key -> Outcome \cup {None}]

\* The ids of joined requests are claimed by nobody else.
Claims == \A j \in aliases, g \in groups : ~SharesId(g, j)

RInv == TypedRights /\ Claims /\ \A k \in Key : RightsInv(k)

-----------------------------------------------------------------------------
\* The events of a queue.
InQueue(q) == {q[m] : m \in 1 .. Len(q)}

LEMMA OwnedIs == \A k : Owned(k) = InQueue(queue[k]) \cup {pending[k].event}
  BY ZenonT(30) DEF Owned, InQueue

\* What drive does with the events it is given: nothing else is owned afterwards, only an
\* answered event leaves, and only a stopped owner keeps a queue behind no commit.
LEMMA DriveEvents ==
    ASSUME Typed, NEW k \in Key, NEW s \in State, Sound(k, s.record), Settled(k, s),
           NEW q \in Seq(Events), NEW held, NEW tasks, Drive(k, s, q, held, tasks)
    PROVE  /\ pending'[k] # NoPending =>
                  Advances(k, s, pending'[k].event, pending'[k].candidate, pending'[k].intent)
           /\ \A e \in Owned(k)' : e \in InQueue(q) \/ e = Event(None)
           /\ \A m \in 1 .. Len(q) :
                  \/ q[m] \in Owned(k)'
                  \/ /\ Decide(k, s, q[m]).kind # "step"
                     /\ q[m].type = "Outcome" => Decide(k, s, q[m]).kind # "error"
           /\ pending'[k] = NoPending /\ ~unavailable' => queue'[k] = <<>>
           /\ q = <<>> => pending'[k] = NoPending /\ queue'[k] = <<>>
           /\ Len(q) = 1 /\ q[1].type # "Outcome" => queue'[k] = <<>>
           /\ aliases' \subseteq held
           /\ \A j \in Key \ {k} : queue'[j] = queue[j] /\ pending'[j] = pending[j]
  <1> DEFINE result(m) == Decide(k, s, q[m])
             fails(m) == result(m).kind = "error"
             stops(m) == result(m).kind = "step" \/ (fails(m) /\ q[m].type = "Outcome")
  <1>1. PICK n \in 1 .. Len(q) + 1 :
              /\ \A m \in 1 .. (n - 1) : ~stops(m)
              /\ n <= Len(q) => stops(n)
              /\ queue' = [queue EXCEPT ![k] =
                     SubSeq(q, IF n <= Len(q) /\ ~fails(n) THEN n + 1 ELSE n, Len(q))]
              /\ pending' = [pending EXCEPT ![k] =
                     IF n <= Len(q) /\ ~fails(n) THEN Proposal(q[n], result(n)) ELSE NoPending]
              /\ unavailable' = (n <= Len(q) /\ fails(n))
              /\ aliases' \subseteq held
    BY ZenonT(30), ZenonT(60) DEF Drive
  <1> DEFINE commits == n <= Len(q) /\ ~fails(n)
             from == IF commits THEN n + 1 ELSE n
             rest == SubSeq(q, from, Len(q))
  <1>2. queue'[k] = rest /\ pending'[k] = IF commits THEN Proposal(q[n], result(n)) ELSE NoPending
    BY ZenonT(30), <1>1 DEF Typed
  <1>3. \A j \in Key \ {k} : queue'[j] = queue[j] /\ pending'[j] = pending[j]
    BY <1>1 DEF Typed
  <1>4. /\ from \in 1 .. Len(q) + 2 /\ Len(q) \in Nat /\ from >= n
        /\ from <= Len(q) + 1
        /\ commits => from = n + 1
        /\ ~commits => from = n
    OBVIOUS
  <1> HIDE DEF from
  <1>5. /\ Len(rest) = (Len(q) + 1) - from /\ rest \in Seq(Events)
        /\ \A i \in 1 .. Len(rest) : rest[i] = q[from + i - 1]
    <2>1. \A i \in from .. Len(q) : q[i] \in Events
      BY <1>4
    <2> QED BY <1>4, <2>1, SubSeqProperties
  <1> HIDE DEF rest
  <1>6. /\ InQueue(rest) = {q[m] : m \in from .. Len(q)}
    <2>1. ASSUME NEW i \in 1 .. Len(rest) PROVE \E m \in from .. Len(q) : rest[i] = q[m]
      <3> Len(rest) = (Len(q) + 1) - from /\ from \in 1 .. Len(q) + 2 /\ Len(q) \in Nat
        BY ZenonT(30), <1>4, <1>5
      <3>1. from + i - 1 \in from .. Len(q)
        OBVIOUS
      <3>2. rest[i] = q[from + i - 1]
        BY ZenonT(30), <1>5
      <3> QED BY ZenonT(30), <3>1, <3>2
    <2>2. ASSUME NEW m \in from .. Len(q) PROVE \E i \in 1 .. Len(rest) : rest[i] = q[m]
      <3>1. m - from + 1 \in 1 .. Len(rest) /\ from + (m - from + 1) - 1 = m
        BY <1>4, <1>5
      <3> QED BY <1>5, <3>1
    <2>3. InQueue(rest) \subseteq {q[m] : m \in from .. Len(q)}
      BY <2>1 DEF InQueue
    <2>4. {q[m] : m \in from .. Len(q)} \subseteq InQueue(rest)
      BY <2>2 DEF InQueue
    <2> QED BY <2>3, <2>4
  <1>7. commits => /\ q[n] \in Events /\ result(n).kind = "step"
                   /\ pending'[k].event = q[n] /\ pending'[k].candidate = result(n).state
                   /\ pending'[k].intent = result(n).intent
    <2> SUFFICES ASSUME commits PROVE /\ q[n] \in Events /\ result(n).kind = "step"
                   /\ pending'[k].event = q[n] /\ pending'[k].candidate = result(n).state
                   /\ pending'[k].intent = result(n).intent
      OBVIOUS
    <2>1. q[n] \in Events /\ result(n).kind = "step"
      BY <1>1
    <2>2. pending'[k] = Proposal(q[n], result(n))
      BY <1>2
    <2> HIDE DEF result
    <2> QED BY <2>1, <2>2 DEF Proposal
  <1>8. pending'[k] # NoPending =>
            Advances(k, s, pending'[k].event, pending'[k].candidate, pending'[k].intent)
    BY <1>2, <1>7, DecideAdvances
  <1>9. Owned(k)' = {q[m] : m \in from .. Len(q)} \cup {IF commits THEN q[n] ELSE Event(None)}
    <2>1. pending'[k].event = IF commits THEN q[n] ELSE Event(None)
      <3>1. CASE commits
        BY <1>7, <3>1
      <3>2. CASE ~commits
        BY <1>2, <3>2 DEF NoPending
      <3> QED BY <3>1, <3>2
    <2> QED BY ZenonT(30), <1>2, <1>6, <2>1 DEF Owned, InQueue
  <1>10. \A e \in Owned(k)' : e \in InQueue(q) \/ e = Event(None)
    BY <1>4, <1>9 DEF InQueue
  <1>11. ASSUME NEW m \in 1 .. Len(q), q[m] \notin Owned(k)'
         PROVE  /\ result(m).kind # "step"
                /\ q[m].type = "Outcome" => result(m).kind # "error"
    <2>1. m \notin from .. Len(q) /\ (commits => m # n)
      BY <1>9, <1>11
    <2>2. m \in 1 .. (n - 1)
      BY <1>4, <2>1
    <2> QED BY <1>1, <2>2
  <1>12. pending'[k] = NoPending /\ ~unavailable' => queue'[k] = <<>>
    <2> SUFFICES ASSUME pending'[k] = NoPending, ~unavailable' PROVE queue'[k] = <<>>
      OBVIOUS
    <2>1. ~commits
      <3>1. NoPending.event \notin Events
        <4>1. NoPending.event.type = "none"
          BY DEF NoPending, Event, None
        <4> QED BY ZenonT(30), <4>1, EventFacts
      <3> QED BY <1>7, <3>1
    <2>2. ~(n <= Len(q) /\ fails(n))
      BY ZenonT(30), <1>1
    <2>3. from = Len(q) + 1
      BY <1>4, <2>1, <2>2
    <2>4. Len(rest) = 0
      BY <1>4, <1>5, <2>3
    <2> QED BY ZenonT(30), <1>2, <1>5, <2>4, EmptySeq
  <1>13. q = <<>> => pending'[k] = NoPending /\ queue'[k] = <<>>
    <2> SUFFICES ASSUME q = <<>> PROVE pending'[k] = NoPending /\ queue'[k] = <<>>
      OBVIOUS
    <2>1. Len(q) = 0 /\ ~commits
      OBVIOUS
    <2>2. Len(rest) = 0
      BY <1>4, <1>5, <2>1
    <2> QED BY ZenonT(30), <1>2, <1>5, <2>1, <2>2, EmptySeq
  <1>14. Len(q) = 1 /\ q[1].type # "Outcome" => queue'[k] = <<>>
    <2> SUFFICES ASSUME Len(q) = 1, q[1].type # "Outcome" PROVE queue'[k] = <<>>
      OBVIOUS
    <2>1. from = 2
      <3>1. CASE n = 1
        <4>1. stops(1) /\ ~fails(1)
          BY <1>1, <3>1
        <4> QED BY <1>4, <3>1, <4>1
      <3>2. CASE n = 2
        BY <1>4, <3>2
      <3> QED BY <1>1, <3>1, <3>2
    <2>2. Len(rest) = 0
      BY <1>4, <1>5, <2>1
    <2> QED BY ZenonT(30), <1>2, <1>5, <2>2, EmptySeq
  <1> QED BY ZenonT(30), <1>1, <1>3, <1>8, <1>10, <1>11, <1>12, <1>13, <1>14

\* Driving loses none of the events that carry a right.
LEMMA DrivenRights ==
    ASSUME Typed, NEW k \in Key, NEW s \in State, Sound(k, s.record),
           NEW q \in Seq(Events), NEW held, NEW tasks, Drive(k, s, q, held, tasks),
           NEW given, \A e \in given : e \in InQueue(q) \/ e = Event(None),
           InQueue(q) \subseteq given,
           NEW ev, ev = Owned(k)', Core(k, s, given)'
    PROVE  Core(k, s, ev)' /\ (Held(k, s, given)' => Held(k, s, ev)')
  <1>1. Settled(k, s)
    BY ZenonT(30) DEF Core
  <1>2. /\ \A e \in ev : e \in InQueue(q) \/ e = Event(None)
        /\ \A m \in 1 .. Len(q) :
               \/ q[m] \in ev
               \/ /\ Decide(k, s, q[m]).kind # "step"
                  /\ q[m].type = "Outcome" => Decide(k, s, q[m]).kind # "error"
    BY <1>1, DriveEvents
  <1>3. Event(None).type = "none" /\ \A m \in 1 .. Len(q) : q[m] \in Events
    BY DEF Event, None
  <1>4. ASSUME s.record.begun # None, s.record.producer = None,
               OutcomeIs(reported'[k]) \in given
        PROVE  OutcomeIs(reported'[k]) \in ev
    <2>1. PICK m \in 1 .. Len(q) : q[m] = OutcomeIs(reported'[k])
      BY <1>3, <1>4 DEF InQueue, OutcomeIs
    <2>2. q[m].type = "Outcome"
      BY <2>1 DEF OutcomeIs
    <2>3. Decide(k, s, q[m]).kind \in {"step", "error"}
      BY ZenonT(30), <1>4, <2>2, OutcomeAnswered DEF Decide
    <2> QED BY ZenonT(30), <1>2, <2>1, <2>2, <2>3
  <1>5. ASSUME s.record.begun # None, s.record.producer = None, Event("Recover") \in given
        PROVE  Event("Recover") \in ev
    <2>1. PICK m \in 1 .. Len(q) : q[m] = Event("Recover")
      BY ZenonT(30), <1>3, <1>5 DEF InQueue, Event, None
    <2>2. q[m].type = "Recover"
      BY <2>1 DEF Event
    <2>3. s.record.accepted # None
      BY <1>5, SoundFacts DEF State
    <2>4. Decide(k, s, q[m]).kind = "step"
      BY ZenonT(30), <1>5, <2>2, <2>3, RecoverSure DEF Decide
    <2> QED BY ZenonT(30), <1>2, <2>1, <2>4
  <1>6. Core(k, s, ev)'
    <2>1. \A e \in ev : e \in given \/ e.type = "none"
      BY <1>2, <1>3
    <2> QED BY ZenonT(30), <1>4, <1>5, <2>1 DEF Core
  <1>7. ASSUME Held(k, s, given)' PROVE Held(k, s, ev)'
    <2> SUFFICES ASSUME s.record.accepted # None, s.record.begun = None,
                        s.record.producer = None, accepted_permit'[k] # epoch'
                 PROVE  \E e \in ev : e.type \in {"Begin", "AdmissionRejected"}
      BY DEF Held
    <2>1. PICK e \in given : e.type \in {"Begin", "AdmissionRejected"}
      BY <1>7 DEF Held
    <2>2. PICK m \in 1 .. Len(q) : q[m] = e
      BY ZenonT(30), <1>3, <2>1 DEF InQueue
    <2>3. e \in Events
      BY ZenonT(30), <1>3, <2>2
    <2>4. Decide(k, s, e).kind = "step"
      <3>1. CASE e.type = "Begin"
        <4>1. k \in ReadTool \/ e.authority = NoAuthority
          BY <3>1 DEF Core
        <4> QED BY ZenonT(30), <1>1, <2>3, <3>1, <4>1, EventFacts, BeginSure DEF Decide
      <3>2. CASE e.type = "AdmissionRejected"
        BY ZenonT(30), <3>2, RejectSure DEF Decide
      <3> QED BY <2>1, <3>1, <3>2
    <2> QED BY ZenonT(30), <1>2, <2>1, <2>2, <2>4
  <1> QED BY ZenonT(30), <1>6, <1>7

\* A slot that a step leaves alone keeps its rights, also when the step ends recovery.
LEMMA OtherRights ==
    ASSUME NEW j \in Key, RightsInv(j), epoch' = epoch, unavailable => unavailable',
           recovering' => recovering,
           recovering /\ ~recovering' => pending'[j] = NoPending /\ queue'[j] = <<>>,
           confirmed'[j] = confirmed[j], pending'[j] = pending[j], queue'[j] = queue[j],
           accepted_permit'[j] = accepted_permit[j], run_permit'[j] = run_permit[j],
           reported'[j] = reported[j], signalled \subseteq signalled'
    PROVE  RightsInv(j)'
  <1>1. Owned(j)' = Owned(j)
    BY DEF Owned
  <1>2. Core(j, confirmed[j], Owned(j))'
    BY ZenonT(30), <1>1 DEF RightsInv, Core
  <1>3. ASSUME ~unavailable', ~recovering' PROVE Held(j, confirmed[j], Owned(j))'
    <2>1. CASE recovering
      BY ZenonT(30), <1>3, <2>1 DEF RightsInv, Recovering, Held
    <2>2. CASE ~recovering
      BY ZenonT(30), <1>1, <1>3, <2>2 DEF RightsInv, Held
    <2> QED BY ZenonT(30), <2>1, <2>2
  <1>4. ASSUME ~recovering' PROVE Event("Recover") \notin Owned(j)'
    <2>1. CASE recovering
      <3>1. Owned(j)' = {Event(None)}
        BY <1>4, <2>1 DEF Owned, NoPending
      <3> QED BY ZenonT(30), <3>1 DEF Event, None
    <2>2. CASE ~recovering
      BY ZenonT(30), <1>1, <2>2 DEF RightsInv
    <2> QED BY ZenonT(30), <2>1, <2>2
  <1>5. recovering' => Recovering(j)'
    BY DEF RightsInv, Recovering, NoPending
  <1>6. pending'[j] # NoPending => Advances(j, confirmed'[j], pending'[j].event,
                                            pending'[j].candidate, pending'[j].intent)
    BY ZenonT(30) DEF RightsInv
  <1> QED BY ZenonT(30), <1>2, <1>3, <1>4, <1>5, <1>6 DEF RightsInv, NoPending

\* What a step of slot k must show.
LEMMA RightsStep ==
    ASSUME RInv, NEW k \in Key, TypedRights', Claims', RightsInv(k)',
           epoch' = epoch, unavailable => unavailable', recovering' => recovering,
           recovering /\ ~recovering' =>
               \A j \in Key : pending'[j] = NoPending /\ queue'[j] = <<>>,
           \A j \in Key \ {k} :
               /\ confirmed'[j] = confirmed[j] /\ pending'[j] = pending[j]
               /\ queue'[j] = queue[j] /\ accepted_permit'[j] = accepted_permit[j]
               /\ run_permit'[j] = run_permit[j] /\ reported'[j] = reported[j],
           signalled \subseteq signalled'
    PROVE  RInv'
  <1>1. ASSUME NEW j \in Key \ {k} PROVE RightsInv(j)'
    BY OtherRights DEF RInv
  <1> QED BY ZenonT(30), <1>1 DEF RInv

\* The variables this invariant speaks of.
LEMMA RightsUntouched ==
    ASSUME RInv, UNCHANGED <<epoch, unavailable, recovering, groups, confirmed, pending, queue,
                             aliases, accepted_permit, run_permit, reported, signalled>>
    PROVE  RInv'
  <1>1. ASSUME NEW j \in Key PROVE RightsInv(j)'
    BY ZenonT(30), OtherRights DEF RInv
  <1>2. TypedRights' /\ Claims'
    BY DEF RInv, TypedRights, Claims, SharesId
  <1> QED BY <1>1, <1>2 DEF RInv

LEMMA AppendedEvents ==
    ASSUME NEW q \in Seq(Events), NEW e \in Events
    PROVE  InQueue(Append(q, e)) = InQueue(q) \cup {e}
  <1> DEFINE a == Append(q, e)
  <1>1. /\ Len(a) = Len(q) + 1 /\ Len(q) \in Nat /\ a[Len(q) + 1] = e
        /\ \A m \in 1 .. Len(q) : a[m] = q[m]
    OBVIOUS
  <1> HIDE DEF a
  <1>2. ASSUME NEW x \in InQueue(a) PROVE x \in InQueue(q) \cup {e}
    BY <1>1, <1>2 DEF InQueue
  <1>3. ASSUME NEW x \in InQueue(q) \cup {e} PROVE x \in InQueue(a)
    <2>1. CASE x = e
      <3>1. Len(q) + 1 \in 1 .. Len(a)
        BY <1>1
      <3> QED BY <1>1, <2>1, <3>1 DEF InQueue
    <2>2. CASE x # e
      <3>1. PICK m \in 1 .. Len(q) : x = q[m]
        BY <1>3, <2>2 DEF InQueue
      <3>2. m \in 1 .. Len(a)
        BY <1>1
      <3> QED BY <1>1, <3>1, <3>2 DEF InQueue
    <2> QED BY <2>1, <2>2
  <1> QED BY <1>2, <1>3 DEF a

LEMMA PlainEvent == Event(None).type = "none" /\ NoPending.event = Event(None)
  BY ZenonT(30) DEF Event, None, NoPending

\* enqueue keeps the rights when the new event brings one along, or none was given up.
LEMMA EnqueueRights ==
    ASSUME IInv, RInv, NEW k \in Key, NEW e \in Events, e.type # "Recover",
           NEW held, EnqueueHolding(k, e, held),
           \A j \in held, g \in groups \cup {k} : ~SharesId(g, j),
           TypedRights', signalled' = signalled,
           \A j \in Key \ {k} : /\ accepted_permit'[j] = accepted_permit[j]
                                /\ run_permit'[j] = run_permit[j] /\ reported'[j] = reported[j],
           NEW s \in State, s = confirmed[k],
           NEW ev, ev = Owned(k) \cup {e}, Core(k, s, ev)', Held(k, s, ev)'
    PROVE  RInv'
  <1>1. /\ ~unavailable /\ ~recovering /\ ~recovering' /\ epoch' = epoch
        /\ groups' = groups \cup {k} /\ UNCHANGED confirmed
    BY DEF EnqueueHolding
  <1>2. /\ RightsInv(k) /\ SlotInv(k) /\ Typed /\ queue[k] \in Seq(Events)
        /\ Sound(k, s.record)
    BY ZenonT(30) DEF IInv, RInv, Typed, SlotInv
  <1>3. Settled(k, s)
    BY ZenonT(30) DEF Core
  <1>4. confirmed'[k] = s
    BY ZenonT(30), <1>1
  <1>5. Event("Recover") \notin ev
    <2>1. Event("Recover").type = "Recover"
      BY DEF Event
    <2> QED BY ZenonT(30), <1>1, <1>2, <2>1 DEF RightsInv
  <1>6. CASE pending[k] = NoPending
    <2> DEFINE q == Append(queue[k], e)
    <2>1. queue[k] = <<>>
      BY ZenonT(30), <1>1, <1>2, <1>6 DEF RightsInv
    <2>2. q = <<e>> /\ q \in Seq(Events) /\ Len(q) = 1
      BY <2>1
    <2>3. Drive(k, s, q, held, promised)
      <3>1. Drive(k, confirmed[k], Append(queue[k], e), held, promised)
        BY ZenonT(30), <1>6 DEF EnqueueHolding
      <3> QED BY ZenonT(30), <1>2, <3>1
    <2> HIDE DEF q
    <2>4. InQueue(q) = {e}
      BY <2>2 DEF InQueue
    <2>5. ev = {e, Event(None)}
      BY <1>6, <2>1, PlainEvent DEF Owned
    <2>6. PICK w : w = Owned(k)'
      BY ZenonT(30)
    <2>7. Core(k, s, w)' /\ Held(k, s, w)'
      BY ZenonT(30), <1>2, <2>2, <2>3, <2>4, <2>5, <2>6, DrivenRights
    <2>8. /\ pending'[k] # NoPending =>
                  Advances(k, s, pending'[k].event, pending'[k].candidate, pending'[k].intent)
          /\ \A x \in Owned(k)' : x \in InQueue(q) \/ x = Event(None)
          /\ pending'[k] = NoPending /\ ~unavailable' => queue'[k] = <<>>
          /\ aliases' \subseteq held
          /\ \A j \in Key \ {k} : queue'[j] = queue[j] /\ pending'[j] = pending[j]
      BY ZenonT(30), <1>2, <1>3, <2>2, <2>3, DriveEvents
    <2>9. RightsInv(k)'
      <3>1. Event("Recover") \notin Owned(k)'
        BY ZenonT(30), <1>5, <2>4, <2>5, <2>8
      <3>2. Core(k, confirmed[k], Owned(k))' /\ Held(k, confirmed[k], Owned(k))'
        BY ZenonT(30), <1>4, <2>6, <2>7
      <3>3. pending'[k] # NoPending => Advances(k, confirmed'[k], pending'[k].event,
                                               pending'[k].candidate, pending'[k].intent)
        BY ZenonT(30), <1>4, <2>8
      <3>4. NoPending' = NoPending
        BY ZenonT(30) DEF NoPending
      <3> QED BY ZenonT(30), <1>1, <2>8, <3>1, <3>2, <3>3, <3>4 DEF RightsInv
    <2>10. Claims'
      BY ZenonT(30), <1>1, <2>8 DEF Claims, SharesId
    <2> QED BY ZenonT(30), <1>1, <2>8, <2>9, <2>10, RightsStep
  <1>7. CASE pending[k] # NoPending
    <2>1. /\ queue' = [queue EXCEPT ![k] = Append(@, e)]
          /\ aliases' = held /\ UNCHANGED <<pending, unavailable>>
      BY ZenonT(30), <1>7 DEF EnqueueHolding
    <2>2. queue'[k] = Append(queue[k], e) /\ \A j \in Key \ {k} : queue'[j] = queue[j]
      BY <1>2, <2>1 DEF Typed
    <2>3. Owned(k)' = ev
      <3>1. Owned(k)' = InQueue(Append(queue[k], e)) \cup {pending[k].event}
        BY <2>1, <2>2 DEF Owned, InQueue
      <3> QED BY ZenonT(30), <1>2, <3>1, AppendedEvents, OwnedIs
    <2>4. RightsInv(k)'
      <3>1. Core(k, confirmed[k], Owned(k))' /\ Held(k, confirmed[k], Owned(k))'
        BY Zenon, <1>4, <2>3
      <3>2. Advances(k, confirmed'[k], pending'[k].event, pending'[k].candidate,
                     pending'[k].intent)
        BY ZenonT(30), <1>1, <1>2, <1>7, <2>1 DEF RightsInv
      <3>3. NoPending' = NoPending
        BY ZenonT(30) DEF NoPending
      <3> QED BY ZenonT(30), <1>1, <1>5, <1>7, <2>1, <2>3, <3>1, <3>2, <3>3 DEF RightsInv
    <2>5. Claims'
      BY ZenonT(30), <1>1, <2>1 DEF Claims, SharesId
    <2> QED BY ZenonT(30), <1>1, <2>1, <2>2, <2>4, <2>5, RightsStep
  <1> QED BY ZenonT(30), <1>6, <1>7

\* An event that brings no right, from somebody who gives none up.
LEMMA PlainEnqueueRights ==
    ASSUME IInv, RInv, NEW k \in Key, NEW e \in Events,
           e.type \notin {"Recover", "Outcome", "Begin"},
           NEW held, EnqueueHolding(k, e, held),
           \A j \in held, g \in groups \cup {k} : ~SharesId(g, j),
           UNCHANGED <<accepted_permit, run_permit, signalled, reported>>
    PROVE  RInv'
  <1>1. ~unavailable /\ ~recovering /\ epoch' = epoch
    BY ZenonT(30) DEF EnqueueHolding
  <1>2. RightsInv(k) /\ confirmed[k] \in State
    BY DEF IInv, RInv, Typed
  <1>3. PICK s \in State : s = confirmed[k]
    BY <1>2
  <1>4. PICK ev : ev = Owned(k) \cup {e}
    BY ZenonT(30)
  <1>5. Core(k, s, ev)'
    <2>1. Core(k, s, Owned(k))
      BY ZenonT(30), <1>2, <1>3 DEF RightsInv
    <2> QED BY ZenonT(30), <1>1, <1>4, <2>1 DEF Core
  <1>6. Held(k, s, ev)'
    BY <1>1, <1>2, <1>3, <1>4 DEF RightsInv, Held
  <1>7. TypedRights'
    BY <1>1 DEF RInv, TypedRights
  <1> QED BY ZenonT(30), <1>3, <1>4, <1>5, <1>6, <1>7, EnqueueRights

\* A slot with an accepted record is claimed, and nobody else claims its ids.
LEMMA AcceptedIsClaimed ==
    ASSUME IInv, RInv, NEW k \in Key, confirmed[k].record.accepted # None
    PROVE  k \in groups /\ Claimable(k)
  <1>1. SlotInv(k)
    BY DEF IInv
  <1>2. k \in groups
    <2>1. CASE pending[k] # NoPending
      BY ZenonT(30), <1>1, <2>1 DEF SlotInv
    <2>2. CASE pending[k] = NoPending
      <3>1. durable[k].record.accepted # None
        BY ZenonT(30), <1>1, <2>2 DEF SlotInv
      <3>2. durable[k] # NoStored
        BY <3>1 DEF NoStored, EmptyRecord
      <3> QED BY ZenonT(30), <1>1, <3>2 DEF SlotInv
    <2> QED BY ZenonT(30), <2>1, <2>2
  <1>3. Claimable(k)
    BY <1>2 DEF IInv, GroupsApart, RInv, Claims, Claimable
  <1> QED BY <1>2, <1>3

\* begin and reject_admission turn the AcceptedPermit into the event they enqueue; a
\* refused one was no right of this epoch.
LEMMA SpendRights ==
    ASSUME IInv, RInv, NEW k \in Key, NEW e \in Events,
           e.type \in {"Begin", "AdmissionRejected"},
           e.type = "Begin" => k \in ReadTool \/ e.authority = NoAuthority, Spend(k, e)
    PROVE  RInv'
  <1>1. /\ accepted_permit[k] # 0 /\ accepted_permit' = [accepted_permit EXCEPT ![k] = 0]
        /\ UNCHANGED <<run_permit, signalled, reported>>
    BY DEF Spend
  <1>2. /\ RightsInv(k) /\ confirmed[k] \in State /\ epoch \in Nat \ {0}
        /\ accepted_permit \in [Key -> Nat]
    BY DEF IInv, RInv, Typed, TypedRights
  <1>3. /\ accepted_permit'[k] = 0 /\ accepted_permit' \in [Key -> Nat]
        /\ \A j \in Key \ {k} : accepted_permit'[j] = accepted_permit[j]
    BY <1>1, <1>2
  <1>4. PICK s \in State : s = confirmed[k]
    BY ZenonT(30), <1>2
  <1>5. ASSUME epoch' = epoch, NEW ev, ev \subseteq Owned(k) \cup {e}, Owned(k) \subseteq ev
        PROVE  Core(k, s, ev)'
    <2>1. Core(k, s, Owned(k))
      BY ZenonT(30), <1>2, <1>4 DEF RightsInv
    <2>2. /\ \A x \in ev : x \in Owned(k) \/ x = e
          /\ \A x \in Owned(k) : x \in ev
      BY ZenonT(30), <1>5
    <2>3. /\ run_permit' = run_permit /\ signalled' = signalled /\ reported' = reported
          /\ epoch' = epoch
      BY ZenonT(30), <1>1, <1>5
    <2>4. 0 \in 0 .. epoch /\ 0 # epoch
      BY <1>2
    <2>5. Settled(k, s)' = Settled(k, s)
      BY ZenonT(30) DEF Settled
    <2>6. e.type # "Outcome" /\ e.type # "Recover"
      OBVIOUS
    <2> QED BY ZenonT(30), <1>3, <2>1, <2>2, <2>3, <2>4, <2>5, <2>6 DEF Core
  <1>6. CASE Enqueue(k, e)
    <2>1. epoch' = epoch /\ Claimable(k) /\ EnqueueHolding(k, e, aliases)
      BY ZenonT(30), <1>6 DEF Enqueue, EnqueueHolding
    <2>2. PICK ev : ev = Owned(k) \cup {e}
      BY ZenonT(30)
    <2>3. Core(k, s, ev)' /\ Held(k, s, ev)'
      BY <1>5, <2>1, <2>2 DEF Held
    <2>4. TypedRights'
      BY <1>1, <1>3, <2>1 DEF RInv, TypedRights
    <2>5. \A j \in aliases, g \in groups \cup {k} : ~SharesId(g, j)
      BY ZenonT(30), <2>1 DEF RInv, Claims, Claimable
    <2> QED BY ZenonT(30), <1>1, <1>3, <1>4, <2>1, <2>2, <2>3, <2>4, <2>5, EnqueueRights
  <1>7. CASE (accepted_permit[k] # epoch \/ Refuses(k)) /\ UNCHANGED others
    <2>1. UNCHANGED <<epoch, unavailable, recovering, groups, confirmed, pending, queue, aliases>>
      BY <1>7 DEF others
    <2>2. Owned(k)' = Owned(k) /\ confirmed'[k] = s /\ NoPending' = NoPending
      BY ZenonT(30), <1>4, <2>1 DEF Owned, NoPending
    <2>3. PICK ev : ev = Owned(k)
      OBVIOUS
    <2>4. Core(k, s, ev)'
      BY <1>5, <2>1, <2>3
    <2>5. ASSUME ~unavailable, ~recovering PROVE Held(k, s, ev)'
      <3>1. CASE accepted_permit[k] # epoch
        BY ZenonT(30), <1>2, <1>4, <2>1, <2>3, <2>5, <3>1 DEF RightsInv, Held
      <3>2. CASE Refuses(k)
        BY <1>4, <2>5, <3>2, AcceptedIsClaimed DEF Refuses, Held
      <3> QED BY <1>7, <3>1, <3>2
    <2>6. RightsInv(k)'
      <3>1. Core(k, confirmed[k], Owned(k))'
        BY ZenonT(30), <2>2, <2>3, <2>4
      <3>2. ~unavailable' /\ ~recovering' => Held(k, confirmed[k], Owned(k))'
        BY <2>1, <2>2, <2>3, <2>5
      <3>3. recovering' => Recovering(k)'
        BY ZenonT(30), <1>1, <1>2, <1>3, <2>1 DEF RightsInv, Recovering, NoPending
      <3>4. pending'[k] # NoPending => Advances(k, confirmed'[k], pending'[k].event,
                                               pending'[k].candidate, pending'[k].intent)
        BY ZenonT(30), <1>2, <2>1 DEF RightsInv
      <3> QED BY ZenonT(30), <1>2, <2>1, <2>2, <3>1, <3>2, <3>3, <3>4 DEF RightsInv
    <2>7. TypedRights' /\ Claims'
      BY ZenonT(30), <1>1, <1>3, <2>1 DEF RInv, TypedRights, Claims, SharesId
    <2> QED BY ZenonT(30), <1>1, <1>3, <2>1, <2>6, <2>7, RightsStep
  <1> QED BY <1>6, <1>7 DEF Spend

\* report turns the RunPermit into the outcome it enqueues, also under fail-stop.
LEMMA ReportRights ==
    ASSUME IInv, RInv, NEW k \in Key, NEW o \in Reported, Report(k, o)
    PROVE  RInv'
  <1> DEFINE e == OutcomeIs(o)
  <1>1. /\ run_permit[k] # 0 /\ run_permit' = [run_permit EXCEPT ![k] = 0]
        /\ reported' = [reported EXCEPT ![k] = o]
        /\ UNCHANGED <<accepted_permit, signalled>>
    BY DEF Report
  <1>2. /\ RightsInv(k) /\ confirmed[k] \in State /\ epoch \in Nat \ {0}
        /\ run_permit \in [Key -> Nat] /\ reported \in [Key -> Outcome \cup {None}]
        /\ queue[k] \in Seq(Events) /\ Typed
    BY ZenonT(30) DEF IInv, RInv, Typed, TypedRights
  <1>3. /\ run_permit'[k] = 0 /\ run_permit' \in [Key -> Nat]
        /\ reported'[k] = o /\ reported' \in [Key -> Outcome \cup {None}]
        /\ \A j \in Key \ {k} : run_permit'[j] = run_permit[j] /\ reported'[j] = reported[j]
    BY ZenonT(30), <1>1, <1>2, CoordinatorAssumption
  <1>4. e \in Events /\ e.type = "Outcome"
    BY CoordinatorAssumption DEF OutcomeIs, Events
  <1>5. PICK s \in State : s = confirmed[k]
    BY <1>2
  <1>6. PICK ev : ev = Owned(k) \cup {e}
    BY ZenonT(30)
  <1>7. Core(k, s, Owned(k))
    BY ZenonT(30), <1>2, <1>5 DEF RightsInv
  <1>8. run_permit[k] = epoch /\ s.record.begun # None /\ s.record.producer = None
    BY <1>1, <1>7 DEF Core
  <1>9. ASSUME epoch' = epoch PROVE Core(k, s, ev)'
    <2>1. \A x \in Owned(k) : x.type # "Outcome"
      BY ZenonT(30), <1>2, <1>7, <1>8 DEF Core
    <2>2. OutcomeIs(reported'[k]) = e
      BY ZenonT(30), <1>3
    <2> HIDE DEF e
    <2> QED BY ZenonT(30), <1>1, <1>2, <1>3, <1>4, <1>6, <1>7, <1>8, <1>9, <2>1, <2>2 DEF Core
  <1>10. Held(k, s, ev)'
    BY <1>8 DEF Held
  <1>11. CASE Enqueue(k, e)
    <2>1. epoch' = epoch /\ Claimable(k) /\ EnqueueHolding(k, e, aliases)
      BY ZenonT(30), <1>11 DEF Enqueue, EnqueueHolding
    <2>2. TypedRights'
      BY ZenonT(30), <1>1, <1>3, <2>1 DEF RInv, TypedRights
    <2>3. \A j \in aliases, g \in groups \cup {k} : ~SharesId(g, j)
      BY ZenonT(30), <2>1 DEF RInv, Claims, Claimable
    <2> HIDE DEF e
    <2> QED BY ZenonT(30), <1>1, <1>3, <1>4, <1>5, <1>6, <1>9, <1>10, <2>1, <2>2, <2>3, EnqueueRights
  <1>12. CASE /\ unavailable /\ queue' = [queue EXCEPT ![k] = Append(@, e)]
              /\ UNCHANGED <<epoch, unavailable, recovering, groups, confirmed, pending, aliases>>
    <2>1. queue'[k] = Append(queue[k], e) /\ \A j \in Key \ {k} : queue'[j] = queue[j]
      BY ZenonT(30), <1>2, <1>12 DEF Typed
    <2>2. Owned(k)' = ev
      <3>1. Owned(k)' = InQueue(Append(queue[k], e)) \cup {pending[k].event}
        BY ZenonT(30), <1>12, <2>1 DEF Owned, InQueue
      <3> HIDE DEF e
      <3> QED BY ZenonT(30), <1>2, <1>4, <1>6, <3>1, AppendedEvents, OwnedIs
    <2>3. ~recovering
      BY ZenonT(30), <1>1, <1>2 DEF RightsInv, Recovering
    <2>4. RightsInv(k)'
      <3>1. Core(k, confirmed[k], Owned(k))'
        BY ZenonT(30), <1>5, <1>9, <1>12, <2>2
      <3>2. pending'[k] # NoPending => Advances(k, confirmed'[k], pending'[k].event,
                                               pending'[k].candidate, pending'[k].intent)
        BY ZenonT(30), <1>2, <1>12 DEF RightsInv
      <3>3. Event("Recover") \notin ev
        <4>1. Event("Recover").type = "Recover"
          BY DEF Event
        <4> HIDE DEF e
        <4> QED BY ZenonT(30), <1>2, <1>4, <1>6, <2>3, <4>1 DEF RightsInv
      <3>4. NoPending' = NoPending
        BY ZenonT(30) DEF NoPending
      <3> QED BY ZenonT(30), <1>12, <2>2, <2>3, <3>1, <3>2, <3>3, <3>4 DEF RightsInv
    <2>5. TypedRights' /\ Claims'
      BY ZenonT(30), <1>1, <1>3, <1>12 DEF RInv, TypedRights, Claims, SharesId
    <2> QED BY ZenonT(30), <1>1, <1>3, <1>12, <2>1, <2>4, <2>5, RightsStep
  <1> QED BY ZenonT(30), <1>8, <1>5, <1>11, <1>12 DEF Report

\* The steps of callers.
LEMMA CallerRights ==
    ASSUME IInv, RInv, NEW k \in Submitted, Caller(k)
    PROVE  RInv'
  <1>1. k \in Key
    BY CoordinatorAssumption
  <1>2. ASSUME NEW e \in Events, e.type \notin {"Recover", "Outcome", "Begin"}, Enqueue(k, e),
               UNCHANGED <<accepted_permit, run_permit, signalled, reported>>
        PROVE  RInv'
    <2>1. EnqueueHolding(k, e, aliases) /\ Claimable(k)
      BY ZenonT(30), <1>2 DEF Enqueue, EnqueueHolding
    <2>2. \A j \in aliases, g \in groups \cup {k} : ~SharesId(g, j)
      BY <2>1 DEF RInv, Claims, Claimable
    <2> QED BY <1>1, <1>2, <2>1, <2>2, PlainEnqueueRights
  <1>3. CASE \E o \in Owner : Submit(k, o)
    <2>1. PICK o \in Owner : Submit(k, o)
      BY ZenonT(30), <1>3
    <2>2. SubmitBy(o) \in Events /\ SubmitBy(o).type = "Submit"
      BY DEF SubmitBy, Events
    <2> QED BY <1>2, <2>1, <2>2 DEF Submit
  <1>4. CASE \E o \in Owner, d \in Acknowledged : Acknowledge(k, o, d)
    <2>1. PICK o \in Owner, d \in Acknowledged : Acknowledge(k, o, d)
      BY ZenonT(30), <1>4
    <2>2. AcknowledgeOf(o, d) \in Events /\ AcknowledgeOf(o, d).type = "Acknowledge"
      BY ZenonT(30), CoordinatorAssumption DEF AcknowledgeOf, Events
    <2> QED BY ZenonT(30), <1>2, <2>1, <2>2 DEF Acknowledge
  <1>5. CASE Cancel(k) \/ ExposeTask(k)
    <2>1. /\ Event("Cancel") \in Events /\ Event("ExposeTask") \in Events
          /\ Event("Cancel").type = "Cancel" /\ Event("ExposeTask").type = "ExposeTask"
      BY DEF Event, Events
    <2> QED BY ZenonT(30), <1>2, <1>5, <2>1 DEF Cancel, ExposeTask
  <1>6. CASE \E j \in Joining, a \in Authority, t \in BOOLEAN : Attach(k, j, a, t)
    <2>1. PICK j \in Joining, a \in Authority, t \in BOOLEAN : Attach(k, j, a, t)
      BY ZenonT(30), <1>6
    <2>2. AttachBy(j, a, t) \in Events /\ AttachBy(j, a, t).type = "Attach"
      BY CoordinatorAssumption DEF AttachBy, Events
    <2>3. /\ EnqueueHolding(k, AttachBy(j, a, t), aliases \cup {j}) /\ Claimable(k)
          /\ UNCHANGED <<accepted_permit, run_permit, signalled, reported>>
          /\ \A g \in groups \cup aliases : ~SharesId(g, j)
      BY ZenonT(30), <2>1 DEF Attach, EnqueueHolding
    <2>4. k \in groups
      BY ZenonT(30), <2>2, <2>3 DEF EnqueueHolding
    <2>5. \A i \in aliases \cup {j}, g \in groups \cup {k} : ~SharesId(g, i)
      BY ZenonT(30), <2>3, <2>4 DEF RInv, Claims
    <2> QED BY ZenonT(30), <1>1, <2>2, <2>3, <2>5, PlainEnqueueRights
  <1> QED BY <1>3, <1>4, <1>5, <1>6 DEF Caller

LEMMA HolderRights ==
    ASSUME IInv, RInv, NEW m \in members, NEW type \in {"CancelHolder", "RetireHolder"},
           Holder(type, m)
    PROVE  RInv'
  <1> DEFINE e == HolderEvent(type, Task[m.request], m.generation)
  <1>1. m.request \in Key /\ m.group \in Key /\ m.generation \in Nat
    BY ZenonT(30) DEF IInv, Typed
  <1>2. e \in Events /\ e.type = type
    BY <1>1 DEF HolderEvent, Events, TaskId
  <1>3. /\ EnqueueHolding(m.group, e, aliases) /\ Claimable(m.group)
        /\ UNCHANGED <<accepted_permit, run_permit, signalled, reported>>
    BY ZenonT(30) DEF Holder, Enqueue, EnqueueHolding
  <1>4. \A j \in aliases, g \in groups \cup {m.group} : ~SharesId(g, j)
    BY ZenonT(30), <1>3 DEF RInv, Claims, Claimable
  <1>5. PICK g \in Key : g = m.group
    BY <1>1
  <1> HIDE DEF e
  <1> QED BY ZenonT(30), <1>2, <1>3, <1>4, <1>5, PlainEnqueueRights

LEMMA WorkerRights ==
    ASSUME IInv, RInv, NEW k \in Key, Worker(k)
    PROVE  RInv'
  <1>1. CASE \E a \in Authority \cup {NoAuthority} : Begin(k, a)
    <2>1. PICK a \in Authority \cup {NoAuthority} : Begin(k, a)
      BY ZenonT(30), <1>1
    <2>2. BeginWith(a) \in Events /\ BeginWith(a).type = "Begin" /\ BeginWith(a).authority = a
      BY DEF BeginWith, Events
    <2> QED BY <2>1, <2>2, SpendRights DEF Begin
  <1>2. CASE RejectAdmission(k)
    <2>1. Event("AdmissionRejected") \in Events
          /\ Event("AdmissionRejected").type = "AdmissionRejected"
      BY DEF Event, Events
    <2> QED BY ZenonT(30), <1>2, <2>1, SpendRights DEF RejectAdmission
  <1>3. CASE \E o \in Reported : Report(k, o)
    BY <1>3, ReportRights
  <1> QED BY ZenonT(30), <1>1, <1>2, <1>3 DEF Worker

LEMMA RecoverIs ==
    ASSUME NEW e \in Events, e.type = "Recover"
    PROVE  e = Event("Recover")
  <1>1. e \in [type : {"Cancel", "AdmissionRejected", "ExposeTask", "Recover"}]
    BY DEF Events
  <1> QED BY <1>1 DEF Event

\* The transition a slot is committing, and what its confirmed state owns.
LEMMA Committing ==
    ASSUME IInv, RInv, NEW k \in Key, pending[k] # NoPending,
           NEW s \in State, s = confirmed[k], NEW c, c = pending[k].candidate,
           NEW e, e = pending[k].event, NEW i, i = pending[k].intent
    PROVE  /\ c \in State /\ e \in Events /\ e \in Owned(k) /\ Core(k, s, Owned(k))
           /\ Advances(k, s, e, c, i) /\ KeepsFacts(s.record, c.record) /\ Sound(k, c.record)
           /\ i = "Run" => s.record.begun = None /\ c.record.begun # None
           /\ e.type = "Recover" => e = Event("Recover")
  <1>1. RightsInv(k) /\ SlotInv(k) /\ pending[k] \in Pending
    BY ZenonT(30) DEF IInv, RInv, Typed
  <1>2. c \in State /\ e \in Events /\ e \in Owned(k)
    BY <1>1 DEF Pending, Owned
  <1>3. Core(k, s, Owned(k)) /\ Advances(k, s, e, c, i)
    BY ZenonT(30), <1>1 DEF RightsInv
  <1>4. Proposed(k, s, pending[k])
    BY ZenonT(30), <1>1 DEF SlotInv
  <1>5. /\ KeepsFacts(s.record, c.record) /\ Sound(k, c.record)
        /\ i = "Run" => s.record.begun = None /\ c.record.begun # None
    BY ZenonT(30), <1>4 DEF Proposed, Grows, Sound
  <1>6. e.type = "Recover" => e = Event("Recover")
    BY ZenonT(30), <1>2, RecoverIs
  <1> QED BY ZenonT(30), <1>2, <1>3, <1>5, <1>6

\* The outcome a transition records is the reported one, or the uncertain one of a restart.
LEMMA RecordedOutcome ==
    ASSUME IInv, RInv, NEW k \in Key, pending[k] # NoPending,
           NEW r, r = pending[k].candidate.record, r.begun # None, r.producer # None
    PROVE  (r.producer = "uncertain" /\ epoch > 1) \/ r.producer = reported[k]
  <1>1. PICK s \in State : s = confirmed[k]
    BY ZenonT(30) DEF IInv, Typed
  <1>2. PICK c, e, i : c = pending[k].candidate /\ e = pending[k].event /\ i = pending[k].intent
    BY ZenonT(30)
  <1>3. /\ e \in Owned(k) /\ Core(k, s, Owned(k)) /\ Advances(k, s, e, c, i)
        /\ KeepsFacts(s.record, c.record) /\ c.record = r
    BY ZenonT(30), <1>1, <1>2, Committing
  <1>4. s.record.begun # None
    BY ZenonT(30), <1>3 DEF Advances
  <1>5. CASE s.record.producer # None
    BY ZenonT(30), <1>3, <1>4, <1>5 DEF Core, KeepsFacts
  <1>6. CASE s.record.producer = None
    <2>1. CASE e.type = "Outcome" /\ r.producer = e.outcome
      <3>1. e = OutcomeIs(reported[k])
        BY ZenonT(30), <1>3, <2>1 DEF Core
      <3> QED BY <2>1, <3>1 DEF OutcomeIs
    <2>2. CASE e.type = "Recover" /\ r.producer = "uncertain"
      BY ZenonT(30), <1>3, <2>2 DEF Core
    <2> QED BY ZenonT(30), <1>3, <1>4, <1>6, <2>1, <2>2 DEF Advances
  <1> QED BY ZenonT(30), <1>5, <1>6

\* The rights after the effects of a confirmed transition, before the queue is driven.
LEMMA GrantRights ==
    ASSUME IInv, RInv, NEW k \in Key, pending[k] # NoPending, Grant(k, pending[k]),
           epoch' = epoch, reported' = reported,
           NEW c, c = pending[k].candidate,
           NEW given, given = InQueue(queue[k]) \cup {Event(None)}
    PROVE  /\ Core(k, c, given)'
           /\ ~unavailable /\ ~recovering => Held(k, c, given)'
  <1>1. PICK s \in State : s = confirmed[k]
    BY DEF IInv, Typed
  <1>2. PICK e, i : e = pending[k].event /\ i = pending[k].intent
    BY ZenonT(30)
  <1>3. /\ c \in State /\ e \in Events /\ e \in Owned(k) /\ Core(k, s, Owned(k))
        /\ Advances(k, s, e, c, i) /\ KeepsFacts(s.record, c.record)
        /\ i = "Run" => s.record.begun = None /\ c.record.begun # None
        /\ e.type = "Recover" => e = Event("Recover")
    BY ZenonT(30), <1>1, <1>2, Committing
  <1>4. RightsInv(k) /\ TypedRights
    BY ZenonT(30) DEF RInv
  <1>5. /\ accepted_permit'[k] = IF i = "Accepted" THEN epoch ELSE accepted_permit[k]
        /\ run_permit'[k] = IF i = "Run" THEN epoch ELSE run_permit[k]
        /\ signalled \subseteq signalled' /\ (i = "Cancel" => k \in signalled')
        /\ reported'[k] = reported[k]
    BY ZenonT(30), <1>2, <1>4 DEF Grant, TypedRights
  <1>6. epoch \in Nat \ {0}
    BY ZenonT(30), <1>4 DEF TypedRights
  <1>7. /\ \A x \in given : x \in Owned(k) \/ x.type = "none"
        /\ \A x \in Owned(k) : x \in given \/ x = e
    BY <1>2, OwnedIs, PlainEvent
  <1> DEFINE old == s.record
             r == c.record
  <1>8. /\ old.accepted # None => r.accepted = old.accepted
        /\ old.begun # None => r.begun = old.begun
        /\ old.producer # None => r.producer = old.producer
    BY ZenonT(30), <1>3 DEF KeepsFacts
  <1>9. run_permit'[k] # 0 => r.begun # None /\ r.producer = None
    <2>1. CASE i = "Run"
      BY ZenonT(30), <1>3, <2>1 DEF Advances
    <2>2. CASE i # "Run" /\ run_permit[k] # 0
      <3>1. old.begun # None /\ old.producer = None
        BY ZenonT(30), <1>3, <2>2 DEF Core
      <3>2. e.type # "Outcome"
        BY ZenonT(30), <1>3, <2>2 DEF Core
      <3>3. e.type # "Recover"
        <4>1. CASE recovering
          BY ZenonT(30), <1>4, <2>2, <4>1 DEF RightsInv, Recovering
        <4>2. CASE ~recovering
          BY ZenonT(30), <1>3, <1>4, <4>2 DEF RightsInv
        <4> QED BY <4>1, <4>2
      <3> QED BY ZenonT(30), <1>3, <1>8, <3>1, <3>2, <3>3 DEF Advances
    <2> QED BY ZenonT(30), <1>5, <2>1, <2>2
  <1>10. accepted_permit'[k] = epoch => r.accepted # None
    <2>1. CASE i = "Accepted"
      BY ZenonT(30), <1>3, <2>1 DEF Advances
    <2>2. CASE i # "Accepted"
      BY ZenonT(30), <1>3, <1>5, <1>8, <2>2 DEF Core
    <2> QED BY ZenonT(30), <2>1, <2>2
  <1>11. ASSUME NEW x \in given, x.type = "Outcome"
         PROVE  r.begun # None /\ x = OutcomeIs(reported[k]) /\ run_permit'[k] = 0
    BY ZenonT(30), <1>3, <1>5, <1>7, <1>8, <1>11 DEF Core
  <1>12. \A x \in given : /\ x.type = "Begin" => k \in ReadTool \/ x.authority = NoAuthority
                          /\ x.type = "Recover" => epoch > 1
    BY ZenonT(30), <1>3, <1>7 DEF Core
  <1>13. ASSUME r.begun # None, r.producer = None
         PROVE  \/ run_permit'[k] = epoch \/ OutcomeIs(reported[k]) \in given
                \/ Event("Recover") \in given
    <2>1. CASE old.begun = None
      BY ZenonT(30), <1>3, <1>5, <1>13, <2>1 DEF Advances
    <2>2. CASE old.begun # None
      <3>1. old.producer = None
        BY ZenonT(30), <1>8, <1>13
      <3>2. e.type # "Outcome" /\ e.type # "Recover"
        BY ZenonT(30), <1>3, <1>13 DEF Advances
      <3>3. OutcomeIs(reported[k]).type = "Outcome" /\ Event("Recover").type = "Recover"
        BY ZenonT(30) DEF OutcomeIs, Event
      <3> QED BY ZenonT(30), <1>3, <1>5, <1>7, <2>2, <3>1, <3>2, <3>3 DEF Core
    <2> QED BY <2>1, <2>2
  <1>14. r.begun # None /\ r.producer # None =>
             (r.producer = "uncertain" /\ epoch > 1) \/ r.producer = reported[k]
    BY ZenonT(30), RecordedOutcome
  <1>15. r.cancel_requested /\ run_permit'[k] = epoch => k \in signalled'
    <2>1. CASE i = "Run"
      BY ZenonT(30), <1>3, <2>1 DEF Advances
    <2>2. CASE i # "Run"
      <3> SUFFICES ASSUME r.cancel_requested, run_permit[k] = epoch PROVE k \in signalled'
        BY <1>5, <2>2
      <3>1. old.begun # None
        BY ZenonT(30), <1>3, <1>6 DEF Core
      <3> QED BY ZenonT(30), <1>3, <1>5, <3>1 DEF Core, Advances
    <2> QED BY <2>1, <2>2
  <1>16. Settled(k, c) /\ run_permit'[k] \in {0, epoch} /\ accepted_permit'[k] \in 0 .. epoch
    <2>1. Settled(k, c)
      BY Zenon, <1>3 DEF Advances
    <2>2. /\ run_permit[k] \in {0, epoch} /\ accepted_permit[k] \in 0 .. epoch
      BY Zenon, <1>3 DEF Core
    <2>3. epoch \in Nat
      BY <1>4 DEF TypedRights
    <2> QED BY <1>5, <2>1, <2>2, <2>3
  <1>17. Core(k, c, given)'
    BY ZenonT(30), <1>5, <1>9, <1>10, <1>11, <1>12, <1>13, <1>14, <1>15, <1>16 DEF Core
  <1>18. ASSUME ~unavailable, ~recovering PROVE Held(k, c, given)'
    <2> SUFFICES ASSUME r.accepted # None, r.begun = None, r.producer = None,
                        accepted_permit'[k] # epoch
                 PROVE  \E x \in given : x.type \in {"Begin", "AdmissionRejected"}
      BY ZenonT(30) DEF Held
    <2>1. old.begun = None /\ old.producer = None
      BY ZenonT(30), <1>8
    <2>2. old.accepted # None
      BY ZenonT(30), <1>3, <1>5 DEF Advances
    <2>3. accepted_permit[k] # epoch
      BY ZenonT(30), <1>5
    <2>4. Held(k, s, Owned(k))
      BY ZenonT(30), <1>1, <1>4, <1>18 DEF RightsInv
    <2>5. PICK x \in Owned(k) : x.type \in {"Begin", "AdmissionRejected"}
      BY ZenonT(30), <2>1, <2>2, <2>3, <2>4 DEF Held
    <2>6. x # e
      BY ZenonT(30), <1>3, <2>5 DEF Advances
    <2> QED BY ZenonT(30), <1>7, <2>5, <2>6
  <1> QED BY ZenonT(30), <1>17, <1>18

\* A confirmed transition turns its event into the right that comes with it.
LEMMA ConfirmRights ==
    ASSUME IInv, RInv, NEW k \in Key, pending[k] # NoPending, ~unavailable, Confirm(k)
    PROVE  RInv'
  <1>1. PICK s \in State : s = confirmed[k]
    BY DEF IInv, Typed
  <1>2. PICK c, e, i : c = pending[k].candidate /\ e = pending[k].event /\ i = pending[k].intent
    OBVIOUS
  <1>3. /\ c \in State /\ Advances(k, s, e, c, i) /\ Sound(k, c.record)
    BY ZenonT(30), <1>1, <1>2, Committing
  <1>4. /\ confirmed' = [confirmed EXCEPT ![k] = c] /\ Grant(k, pending[k]) /\ FinishRecovery
        /\ \E held, tasks : held \subseteq aliases /\ Drive(k, c, queue[k], held, tasks)
        /\ UNCHANGED <<epoch, groups, reported>>
    BY ZenonT(30), <1>2 DEF Confirm
  <1>5. PICK held, tasks : held \subseteq aliases /\ Drive(k, c, queue[k], held, tasks)
    BY ZenonT(30), <1>4
  <1>6. /\ RightsInv(k) /\ TypedRights /\ Claims /\ Typed /\ queue[k] \in Seq(Events)
    BY DEF IInv, RInv, Typed
  <1>7. PICK given : given = InQueue(queue[k]) \cup {Event(None)}
    BY ZenonT(30)
  <1>8. Core(k, c, given)' /\ (~recovering => Held(k, c, given)')
    BY ZenonT(30), <1>2, <1>4, <1>7, GrantRights
  <1>9. PICK w : w = Owned(k)'
    OBVIOUS
  <1>10. Core(k, c, w)' /\ (~recovering => Held(k, c, w)')
    BY ZenonT(30), <1>3, <1>5, <1>6, <1>7, <1>8, <1>9, DrivenRights
  <1>11. Settled(k, c)
    BY <1>3 DEF Advances
  <1>12. /\ pending'[k] # NoPending =>
                  Advances(k, c, pending'[k].event, pending'[k].candidate, pending'[k].intent)
         /\ \A x \in Owned(k)' : x \in InQueue(queue[k]) \/ x = Event(None)
         /\ pending'[k] = NoPending /\ ~unavailable' => queue'[k] = <<>>
         /\ queue[k] = <<>> => pending'[k] = NoPending /\ queue'[k] = <<>>
         /\ aliases' \subseteq held
         /\ \A j \in Key \ {k} : queue'[j] = queue[j] /\ pending'[j] = pending[j]
    BY ZenonT(30), <1>3, <1>5, <1>6, <1>11, DriveEvents
  <1>13. confirmed'[k] = c /\ \A j \in Key \ {k} : confirmed'[j] = confirmed[j]
    BY <1>4, <1>6 DEF Typed
  <1>14. /\ accepted_permit' \in [Key -> Nat] /\ run_permit' \in [Key -> Nat]
         /\ accepted_permit'[k] = IF i = "Accepted" THEN epoch ELSE accepted_permit[k]
         /\ run_permit'[k] = IF i = "Run" THEN epoch ELSE run_permit[k]
         /\ \A j \in Key \ {k} : /\ accepted_permit'[j] = accepted_permit[j]
                                 /\ run_permit'[j] = run_permit[j]
         /\ signalled \subseteq signalled'
    BY ZenonT(30), <1>2, <1>4, <1>6 DEF Grant, TypedRights
  <1>15. /\ recovering' => recovering
         /\ recovering /\ ~recovering' =>
                \A j \in Key : pending'[j] = NoPending /\ queue'[j] = <<>>
    BY ZenonT(30), <1>4 DEF FinishRecovery
  <1>16. recovering => /\ queue[k] = <<>> /\ c.record.producer # None
                       /\ run_permit'[k] = 0 /\ accepted_permit'[k] # epoch
    <2> SUFFICES ASSUME recovering
                 PROVE  /\ queue[k] = <<>> /\ c.record.producer # None
                        /\ run_permit'[k] = 0 /\ accepted_permit'[k] # epoch
      OBVIOUS
    <2>1. /\ queue[k] = <<>> /\ e = Event("Recover")
          /\ run_permit[k] = 0 /\ accepted_permit[k] # epoch
      BY ZenonT(30), <1>2, <1>6 DEF RightsInv, Recovering
    <2>2. e.type = "Recover"
      BY <2>1 DEF Event
    <2> QED BY ZenonT(30), <1>3, <1>14, <2>1, <2>2 DEF Advances
  <1>17. RightsInv(k)'
    <2>1. Core(k, confirmed[k], Owned(k))'
      BY ZenonT(30), <1>9, <1>10, <1>13
    <2>2. Held(k, confirmed[k], Owned(k))'
      <3>1. CASE recovering
        BY ZenonT(30), <1>13, <1>16, <3>1 DEF Held
      <3>2. CASE ~recovering
        BY ZenonT(30), <1>9, <1>10, <1>13, <3>2
      <3> QED BY <3>1, <3>2
    <2>3. recovering' => Recovering(k)'
      <3>1. NoPending' = NoPending
        BY ZenonT(30) DEF NoPending
      <3> QED BY ZenonT(30), <1>4, <1>12, <1>13, <1>15, <1>16, <3>1 DEF Recovering
    <2>4. Event("Recover") \notin Owned(k)'
      <3>1. Event("Recover") # Event(None)
        BY ZenonT(30) DEF Event, None
      <3>2. Event("Recover") \notin InQueue(queue[k])
        <4>1. CASE recovering
          BY <1>16, <4>1 DEF InQueue
        <4>2. CASE ~recovering
          BY ZenonT(30), <1>6, <4>2, OwnedIs DEF RightsInv
        <4> QED BY ZenonT(30), <4>1, <4>2
      <3> QED BY <1>12, <3>1, <3>2
    <2>5. pending'[k] # NoPending => Advances(k, confirmed'[k], pending'[k].event,
                                              pending'[k].candidate, pending'[k].intent)
      BY ZenonT(30), <1>12, <1>13
    <2>6. NoPending' = NoPending
      BY DEF NoPending
    <2> QED BY ZenonT(30), <1>12, <2>1, <2>2, <2>3, <2>4, <2>5, <2>6 DEF RightsInv
  <1>18. TypedRights' /\ Claims'
    BY ZenonT(30), <1>4, <1>5, <1>6, <1>12, <1>14 DEF TypedRights, Claims, SharesId
  <1> QED BY ZenonT(30), <1>4, <1>12, <1>13, <1>14, <1>15, <1>17, <1>18, RightsStep

=============================================================================
