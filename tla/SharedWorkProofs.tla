-------------------------- MODULE SharedWorkProofs --------------------------
(***************************************************************************)
(* What SharedWork promises, for any number of clients, keys and entries   *)
(* and for both lifetimes, and that it implements SharedFlight.            *)
(*                                                                         *)
(* The invariants of SharedWork.tla are not inductive one by one.  The     *)
(* argument needs, together: who holds the registry mutex (LockHeld); that *)
(* a running entry has its producer thread, or the one client about to     *)
(* spawn it (RunningHasProducer), so an entry with a running producer can  *)
(* always be upgraded; that an actor past the terminal check stands on a   *)
(* finished entry (PastTerminalCheck); and that the owner counter is exact,*)
(* which turns "owners = 0" under both mutexes into "nobody holds a lease".*)
(*                                                                         *)
(* The refinement adds one fact, that a wait which has returned stands on a*)
(* finished entry: every step of the registry then maps to one step of the *)
(* abstract service or leaves its state alone.                             *)
(***************************************************************************)
EXTENDS SharedWorkRefinement, FiniteSetTheorems, TLAPS

OwnerSet(e) == {c \in Client : Owns(c, e)}

\* An actor holds an Arc exactly while it is inside the registry's code.
HoldsArc == /\ \A c \in Client : pc[c] = "idle" <=> at[c] = NoEntry
            /\ \A e \in Entry : at[e] = IF pc[e] = "dead" THEN NoEntry ELSE e

LockHeld == \A a \in Actor :
    pc[a] \in {"attach", "retireRecheck"} <=> lock = a

\* Whoever is inside the registry's critical section stands on the entry the
\* registry names.
LockedCurrent == \A a \in Actor :
    pc[a] \in {"attach", "retireRecheck"} => entries[key[at[a]]] = at[a]

Working(e) == pc[e] \in {"run", "asleep"}
Spawning(c, e) == pc[c] = "spawn" /\ at[c] = e

RunningHasProducer == \A e \in Entry :
    Attempt(e) => Working(e) \/ \E c \in Client : Spawning(c, e)

ProducerRunning == \A e \in Entry :
    Working(e) => state[e] = "running" /\ entries[key[e]] = e

SpawnOnce == \A c \in Client, e \in Entry : Spawning(c, e) =>
    /\ state[e] = "running"
    /\ pc[e] = "dead"
    /\ \A d \in Client : Spawning(d, e) => d = c

PastTerminalCheck == \A a \in Actor :
    pc[a] \in {"notify", "failNotify", "failRetire", "retireOwners",
               "retireLock", "retireRecheck"}
    => state[at[a]] \in Outcome

ProducerTerminal == \A e \in Entry : pc[e] = "retire" => state[e] \in Outcome

OwnersCounted == \A e \in Entry :
    Strong(e) # {} => owners[e] = Cardinality(OwnerSet(e))

IInv == /\ TypeOK /\ HoldsArc /\ LockHeld /\ LockedCurrent
        /\ RunningHasProducer /\ ProducerRunning /\ SpawnOnce
        /\ PastTerminalCheck /\ ProducerTerminal
        /\ OwnersCounted /\ LeaseKeepsEntry /\ NoStaleRegistration

-----------------------------------------------------------------------------

LEMMA InitInv == Init => IInv
<1> SUFFICES ASSUME Init PROVE IInv
  OBVIOUS
<1> USE ActorsDistinct, SomeKey DEF Init, Actor
<1>1. TypeOK
  BY DEF TypeOK, ClientPC, ProducerPC, RetirePC, Outcome
<1>2. HoldsArc
  BY DEF HoldsArc
<1>3. LockHeld /\ LockedCurrent
  BY DEF LockHeld, LockedCurrent
<1>4. \A e \in Entry : Strong(e) = {}
  BY DEF Strong
<1>5. RunningHasProducer /\ OwnersCounted
  BY <1>4 DEF RunningHasProducer, OwnersCounted, Attempt
<1>6. ProducerRunning /\ SpawnOnce /\ PastTerminalCheck /\ ProducerTerminal
  BY DEF ProducerRunning, SpawnOnce, PastTerminalCheck, ProducerTerminal,
         Working, Spawning
<1>7. LeaseKeepsEntry /\ NoStaleRegistration
  BY DEF LeaseKeepsEntry, NoStaleRegistration, Owns
<1> QED
  BY <1>1, <1>2, <1>3, <1>5, <1>6, <1>7 DEF IInv

\* Every registered entry is alive, so purging the registry changes nothing.
LEMMA RetainedSame == ASSUME IInv PROVE Retained = entries
  BY DEF IInv, Retained, NoStaleRegistration, TypeOK

LEMMA NextInv == IInv /\ [Next]_vars => IInv'
  <1>JoinAttachInv.
    ASSUME IInv, NEW c \in Client, JoinAttach(c)
    PROVE  IInv'
    <2> USE <1>JoinAttachInv
    <2> USE ActorsDistinct DEF IInv, JoinAttach, Goto, Actor
    <2>1. at[c] \in Entry /\ at' = at
      BY DEF TypeOK, HoldsArc
    <2>2. TypeOK'
      BY <2>1 DEF TypeOK, ClientPC, ProducerPC, RetirePC, Outcome
    <2>3. HoldsArc'
      BY DEF HoldsArc, TypeOK
    <2>4. (LockHeld /\ LockedCurrent)'
      BY DEF LockHeld, LockedCurrent, TypeOK
    <2>5. \A e : Strong(e)' = Strong(e)
      BY DEF Strong
    <2>6. (RunningHasProducer /\ ProducerRunning /\ SpawnOnce)'
      BY <2>5 DEF RunningHasProducer, ProducerRunning, SpawnOnce, Attempt, Working,
                  Spawning, TypeOK
    <2>7. (PastTerminalCheck /\ ProducerTerminal)'
      BY DEF PastTerminalCheck, ProducerTerminal, TypeOK
    <2>8. (LeaseKeepsEntry /\ NoStaleRegistration)'
      BY <2>1, <2>5 DEF LeaseKeepsEntry, NoStaleRegistration, Owns, TypeOK, LockedCurrent
    <2>9. OwnersCounted'
      <3>1. \A e \in Entry : OwnerSet(e)' = IF e = at[c] THEN OwnerSet(e) \cup {c} ELSE OwnerSet(e)
        BY <2>1 DEF OwnerSet, Owns, TypeOK
      <3>2. c \notin OwnerSet(at[c])
        BY DEF OwnerSet, Owns
      <3>3. IsFiniteSet(OwnerSet(at[c]))
        BY FinitelyManyClients, FS_Subset DEF OwnerSet
      <3>4. Cardinality(OwnerSet(at[c]) \cup {c}) = Cardinality(OwnerSet(at[c])) + 1
        BY ZenonT(30), <3>2, <3>3, FS_AddElement
      <3> QED
        BY ZenonT(30), <2>1, <2>5, <3>1, <3>4 DEF OwnersCounted, TypeOK, Strong
    <2> QED
      BY <2>2, <2>3, <2>4, <2>6, <2>7, <2>8, <2>9
  <1>SpawnFailsInv.
    ASSUME IInv, NEW c \in Client, SpawnFails(c)
    PROVE  IInv'
    <2> USE <1>SpawnFailsInv
    <2> USE ActorsDistinct DEF IInv, SpawnFails, Goto, Actor
    <2>1. at[c] \in Entry /\ at' = at
      BY DEF TypeOK, HoldsArc
    <2>2. TypeOK'
      BY <2>1 DEF TypeOK, ClientPC, ProducerPC, RetirePC, Outcome
    <2>3. HoldsArc'
      BY <2>1 DEF HoldsArc, TypeOK
    <2>4. (LockHeld /\ LockedCurrent)'
      BY <2>1 DEF LockHeld, LockedCurrent, TypeOK
    <2>5. \A f : Strong(f)' = Strong(f)
      BY <2>1 DEF Strong, TypeOK
    <2>6. (RunningHasProducer /\ ProducerRunning /\ SpawnOnce)'
      BY <2>1, <2>5 DEF RunningHasProducer, ProducerRunning, SpawnOnce, Attempt,
                        Working, Spawning, TypeOK, Outcome
    <2>7. (PastTerminalCheck /\ ProducerTerminal)'
      BY <2>1 DEF PastTerminalCheck, ProducerTerminal, TypeOK, Outcome
    <2>8. (LeaseKeepsEntry /\ NoStaleRegistration)'
      BY <2>1, <2>5 DEF LeaseKeepsEntry, NoStaleRegistration, Owns, TypeOK, SpawnOnce, Spawning
    <2>9. OwnersCounted'
      <3>1. \A f \in Entry : OwnerSet(f)' = OwnerSet(f)
        BY <2>1 DEF OwnerSet, Owns, TypeOK, Sleepers
      <3> QED
        BY <2>1, <2>5, <3>1 DEF OwnersCounted, TypeOK
    <2> QED
      BY <2>2, <2>3, <2>4, <2>6, <2>7, <2>8, <2>9
  <1>FailRetireInv.
    ASSUME IInv, NEW c \in Client, FailRetire(c)
    PROVE  IInv'
    <2> USE <1>FailRetireInv
    <2> USE ActorsDistinct DEF IInv, FailRetire, Goto, Actor
    <2>1. at[c] \in Entry /\ at' = at
      BY DEF TypeOK, HoldsArc
    <2>2. TypeOK'
      BY <2>1 DEF TypeOK, ClientPC, ProducerPC, RetirePC, Outcome
    <2>3. HoldsArc'
      BY <2>1 DEF HoldsArc, TypeOK
    <2>4. (LockHeld /\ LockedCurrent)'
      BY <2>1 DEF LockHeld, LockedCurrent, TypeOK
    <2>5. \A f : Strong(f)' = Strong(f)
      BY <2>1 DEF Strong, TypeOK
    <2>6. (RunningHasProducer /\ ProducerRunning /\ SpawnOnce)'
      BY <2>1, <2>5 DEF RunningHasProducer, ProducerRunning, SpawnOnce, Attempt,
                        Working, Spawning, TypeOK
    <2>7. (PastTerminalCheck /\ ProducerTerminal)'
      BY <2>1 DEF PastTerminalCheck, ProducerTerminal, TypeOK
    <2>8. (LeaseKeepsEntry /\ NoStaleRegistration)'
      BY <2>1, <2>5 DEF LeaseKeepsEntry, NoStaleRegistration, Owns, TypeOK
    <2>9. OwnersCounted'
      <3>1. \A f \in Entry : OwnerSet(f)' = OwnerSet(f)
        BY <2>1 DEF OwnerSet, Owns, TypeOK, Sleepers
      <3> QED
        BY <2>1, <2>5, <3>1 DEF OwnersCounted, TypeOK
    <2> QED
      BY <2>2, <2>3, <2>4, <2>6, <2>7, <2>8, <2>9
  <1>WaitInv.
    ASSUME IInv, NEW c \in Client, Wait(c)
    PROVE  IInv'
    <2> USE <1>WaitInv
    <2> USE ActorsDistinct DEF IInv, Wait, Goto, Actor
    <2>1. at[c] \in Entry /\ at' = at
      BY DEF TypeOK, HoldsArc
    <2>2. TypeOK'
      BY <2>1 DEF TypeOK, ClientPC, ProducerPC, RetirePC, Outcome
    <2>3. HoldsArc'
      BY <2>1 DEF HoldsArc, TypeOK
    <2>4. (LockHeld /\ LockedCurrent)'
      BY <2>1 DEF LockHeld, LockedCurrent, TypeOK
    <2>5. \A f : Strong(f)' = Strong(f)
      BY <2>1 DEF Strong, TypeOK
    <2>6. (RunningHasProducer /\ ProducerRunning /\ SpawnOnce)'
      BY <2>1, <2>5 DEF RunningHasProducer, ProducerRunning, SpawnOnce, Attempt,
                        Working, Spawning, TypeOK
    <2>7. (PastTerminalCheck /\ ProducerTerminal)'
      BY <2>1 DEF PastTerminalCheck, ProducerTerminal, TypeOK
    <2>8. (LeaseKeepsEntry /\ NoStaleRegistration)'
      BY <2>1, <2>5 DEF LeaseKeepsEntry, NoStaleRegistration, Owns, TypeOK
    <2>9. OwnersCounted'
      <3>1. \A f \in Entry : OwnerSet(f)' = OwnerSet(f)
        BY <2>1 DEF OwnerSet, Owns, TypeOK, Sleepers
      <3> QED
        BY <2>1, <2>5, <3>1 DEF OwnersCounted, TypeOK
    <2> QED
      BY <2>2, <2>3, <2>4, <2>6, <2>7, <2>8, <2>9
  <1>WaitTimeoutInv.
    ASSUME IInv, NEW c \in Client, WaitTimeout(c)
    PROVE  IInv'
    <2> USE <1>WaitTimeoutInv
    <2> USE ActorsDistinct DEF IInv, WaitTimeout, Goto, Actor
    <2>1. at[c] \in Entry /\ at' = at
      BY DEF TypeOK, HoldsArc
    <2>2. TypeOK'
      BY <2>1 DEF TypeOK, ClientPC, ProducerPC, RetirePC, Outcome
    <2>3. HoldsArc'
      BY <2>1 DEF HoldsArc, TypeOK
    <2>4. (LockHeld /\ LockedCurrent)'
      BY <2>1 DEF LockHeld, LockedCurrent, TypeOK
    <2>5. \A f : Strong(f)' = Strong(f)
      BY <2>1 DEF Strong, TypeOK
    <2>6. (RunningHasProducer /\ ProducerRunning /\ SpawnOnce)'
      BY <2>1, <2>5 DEF RunningHasProducer, ProducerRunning, SpawnOnce, Attempt,
                        Working, Spawning, TypeOK
    <2>7. (PastTerminalCheck /\ ProducerTerminal)'
      BY <2>1 DEF PastTerminalCheck, ProducerTerminal, TypeOK
    <2>8. (LeaseKeepsEntry /\ NoStaleRegistration)'
      BY <2>1, <2>5 DEF LeaseKeepsEntry, NoStaleRegistration, Owns, TypeOK
    <2>9. OwnersCounted'
      <3>1. \A f \in Entry : OwnerSet(f)' = OwnerSet(f)
        BY <2>1 DEF OwnerSet, Owns, TypeOK, Sleepers
      <3> QED
        BY <2>1, <2>5, <3>1 DEF OwnersCounted, TypeOK
    <2> QED
      BY ZenonT(30), <2>2, <2>3, <2>4, <2>6, <2>7, <2>8, <2>9
  <1>SignalCancelInv.
    ASSUME IInv, NEW c \in Client, SignalCancel(c)
    PROVE  IInv'
    <2> USE <1>SignalCancelInv
    <2> USE ActorsDistinct DEF IInv, SignalCancel, Goto, Actor
    <2>1. at[c] \in Entry /\ at' = at
      BY DEF TypeOK, HoldsArc
    <2>2. TypeOK'
      BY <2>1 DEF TypeOK, ClientPC, ProducerPC, RetirePC, Outcome
    <2>3. HoldsArc'
      BY <2>1 DEF HoldsArc, TypeOK
    <2>4. (LockHeld /\ LockedCurrent)'
      BY <2>1 DEF LockHeld, LockedCurrent, TypeOK
    <2>5. \A f : Strong(f)' = Strong(f)
      BY <2>1 DEF Strong, TypeOK
    <2>6. (RunningHasProducer /\ ProducerRunning /\ SpawnOnce)'
      BY <2>1, <2>5 DEF RunningHasProducer, ProducerRunning, SpawnOnce, Attempt,
                        Working, Spawning, TypeOK
    <2>7. (PastTerminalCheck /\ ProducerTerminal)'
      BY <2>1 DEF PastTerminalCheck, ProducerTerminal, TypeOK
    <2>8. (LeaseKeepsEntry /\ NoStaleRegistration)'
      BY <2>1, <2>5 DEF LeaseKeepsEntry, NoStaleRegistration, Owns, TypeOK
    <2>9. OwnersCounted'
      <3>1. \A f \in Entry : OwnerSet(f)' = OwnerSet(f)
        BY <2>1 DEF OwnerSet, Owns, TypeOK, Sleepers
      <3> QED
        BY <2>1, <2>5, <3>1 DEF OwnersCounted, TypeOK
    <2> QED
      BY ZenonT(30), <2>2, <2>3, <2>4, <2>6, <2>7, <2>8, <2>9
  <1>FinishInv.
    ASSUME IInv, NEW e \in Entry, Finish(e)
    PROVE  IInv'
    <2> USE <1>FinishInv
    <2> USE ActorsDistinct DEF IInv, Finish, Goto, Actor
    <2>1. at[e] = e /\ at' = at
      BY DEF TypeOK, HoldsArc
    <2>2. TypeOK'
      BY <2>1 DEF TypeOK, ClientPC, ProducerPC, RetirePC, Outcome
    <2>3. HoldsArc'
      BY <2>1 DEF HoldsArc, TypeOK
    <2>4. (LockHeld /\ LockedCurrent)'
      BY <2>1 DEF LockHeld, LockedCurrent, TypeOK
    <2>5. \A f : Strong(f)' = Strong(f)
      BY <2>1 DEF Strong, TypeOK
    <2>6. (RunningHasProducer /\ ProducerRunning /\ SpawnOnce)'
      BY <2>1, <2>5 DEF RunningHasProducer, ProducerRunning, SpawnOnce, Attempt,
                        Working, Spawning, TypeOK, HoldsArc, Outcome
    <2>7. (PastTerminalCheck /\ ProducerTerminal)'
      BY <2>1 DEF PastTerminalCheck, ProducerTerminal, TypeOK, Outcome
    <2>8. (LeaseKeepsEntry /\ NoStaleRegistration)'
      BY <2>1, <2>5 DEF LeaseKeepsEntry, NoStaleRegistration, Owns, TypeOK
    <2>9. OwnersCounted'
      <3>1. \A f \in Entry : OwnerSet(f)' = OwnerSet(f)
        BY <2>1 DEF OwnerSet, Owns, TypeOK, Sleepers
      <3> QED
        BY <2>1, <2>5, <3>1 DEF OwnersCounted, TypeOK
    <2> QED
      BY <2>2, <2>3, <2>4, <2>6, <2>7, <2>8, <2>9
  <1>WaitCancelledInv.
    ASSUME IInv, NEW e \in Entry, WaitCancelled(e)
    PROVE  IInv'
    <2> USE <1>WaitCancelledInv
    <2> USE ActorsDistinct DEF IInv, WaitCancelled, Goto, Actor
    <2>1. at[e] = e /\ at' = at
      BY DEF TypeOK, HoldsArc
    <2>2. TypeOK'
      BY <2>1 DEF TypeOK, ClientPC, ProducerPC, RetirePC, Outcome
    <2>3. HoldsArc'
      BY <2>1 DEF HoldsArc, TypeOK
    <2>4. (LockHeld /\ LockedCurrent)'
      BY <2>1 DEF LockHeld, LockedCurrent, TypeOK
    <2>5. \A f : Strong(f)' = Strong(f)
      BY <2>1 DEF Strong, TypeOK
    <2>6. (RunningHasProducer /\ ProducerRunning /\ SpawnOnce)'
      BY <2>1, <2>5 DEF RunningHasProducer, ProducerRunning, SpawnOnce, Attempt,
                        Working, Spawning, TypeOK, HoldsArc, Outcome
    <2>7. (PastTerminalCheck /\ ProducerTerminal)'
      BY <2>1 DEF PastTerminalCheck, ProducerTerminal, TypeOK, Outcome
    <2>8. (LeaseKeepsEntry /\ NoStaleRegistration)'
      BY <2>1, <2>5 DEF LeaseKeepsEntry, NoStaleRegistration, Owns, TypeOK
    <2>9. OwnersCounted'
      <3>1. \A f \in Entry : OwnerSet(f)' = OwnerSet(f)
        BY <2>1 DEF OwnerSet, Owns, TypeOK, Sleepers
      <3> QED
        BY <2>1, <2>5, <3>1 DEF OwnersCounted, TypeOK
    <2> QED
      BY ZenonT(30), <2>2, <2>3, <2>4, <2>6, <2>7, <2>8, <2>9
  <1>NotifyInv.
    ASSUME IInv, NEW a \in Actor, Notify(a)
    PROVE  IInv'
    <2> USE <1>NotifyInv
    <2> USE ActorsDistinct DEF IInv, Notify, Goto, Actor, Sleepers
    <2>1. at[a] \in Entry /\ at' = at
      BY DEF TypeOK, HoldsArc
    <2>2. TypeOK'
      BY <2>1 DEF TypeOK, ClientPC, ProducerPC, RetirePC, Outcome
    <2>3. HoldsArc'
      BY <2>1 DEF HoldsArc, TypeOK
    <2>4. (LockHeld /\ LockedCurrent)'
      BY <2>1 DEF LockHeld, LockedCurrent, TypeOK
    <2>5. \A f : Strong(f)' = Strong(f)
      BY ZenonT(30), <2>1 DEF Strong, TypeOK
    <2>6. (RunningHasProducer /\ ProducerRunning /\ SpawnOnce)'
      BY <2>1, <2>5 DEF RunningHasProducer, ProducerRunning, SpawnOnce, Attempt,
                        Working, Spawning, TypeOK
    <2>7. (PastTerminalCheck /\ ProducerTerminal)'
      BY <2>1 DEF PastTerminalCheck, ProducerTerminal, TypeOK, HoldsArc
    <2>8. (LeaseKeepsEntry /\ NoStaleRegistration)'
      BY <2>1, <2>5 DEF LeaseKeepsEntry, NoStaleRegistration, Owns, TypeOK
    <2>9. OwnersCounted'
      <3>1. \A f \in Entry : OwnerSet(f)' = OwnerSet(f)
        BY <2>1 DEF OwnerSet, Owns, TypeOK, Sleepers
      <3> QED
        BY ZenonT(30), <2>1, <2>5, <3>1 DEF OwnersCounted, TypeOK
    <2> QED
      BY ZenonT(30), <2>2, <2>3, <2>4, <2>6, <2>7, <2>8, <2>9
  <1>JoinLookupInv.
    ASSUME IInv, NEW c \in Client, NEW k \in Key, JoinLookup(c, k)
    PROVE  IInv'
    <2> USE <1>JoinLookupInv
    <2> USE ActorsDistinct DEF IInv, JoinLookup, Goto, Actor
    <2> DEFINE e == entries[k]
    <2>1. /\ e \in Entry /\ entries' = entries /\ key[e] = k /\ Strong(e) # {}
          /\ at' = [at EXCEPT ![c] = e] /\ at[c] = NoEntry
      <3>1. Retained = entries
        BY RetainedSame
      <3> QED
        BY <3>1 DEF TypeOK, HoldsArc, NoStaleRegistration
    <2> HIDE DEF e
    <2>2. TypeOK'
      BY <2>1 DEF TypeOK, ClientPC, ProducerPC, RetirePC, Outcome
    <2>3. HoldsArc'
      BY <2>1 DEF HoldsArc, TypeOK
    <2>4. (LockHeld /\ LockedCurrent)'
      BY <2>1 DEF LockHeld, LockedCurrent, TypeOK, e
    <2>5. \A f \in Entry : Strong(f)' = IF f = e THEN Strong(f) \cup {c} ELSE Strong(f)
      BY <2>1 DEF Strong, TypeOK
    <2>6. (RunningHasProducer /\ ProducerRunning /\ SpawnOnce)'
      BY <2>1, <2>5 DEF RunningHasProducer, ProducerRunning, SpawnOnce, Attempt,
                        Working, Spawning, TypeOK
    <2>7. (PastTerminalCheck /\ ProducerTerminal)'
      BY <2>1 DEF PastTerminalCheck, ProducerTerminal, TypeOK
    <2>8. (LeaseKeepsEntry /\ NoStaleRegistration)'
      BY <2>1, <2>5 DEF LeaseKeepsEntry, NoStaleRegistration, Owns, TypeOK
    <2>9. OwnersCounted'
      <3>1. \A f \in Entry : OwnerSet(f)' = OwnerSet(f)
        BY <2>1 DEF OwnerSet, Owns, TypeOK
      <3> QED
        BY <2>1, <2>5, <3>1 DEF OwnersCounted, TypeOK
    <2> QED
      BY ZenonT(30), <2>2, <2>3, <2>4, <2>6, <2>7, <2>8, <2>9
  <1>JoinStartInv.
    ASSUME IInv, NEW c \in Client, NEW k \in Key, JoinStart(c, k)
    PROVE  IInv'
    <2> USE <1>JoinStartInv
    <2> USE ActorsDistinct DEF IInv, Goto, Actor
    <2> PICK e \in Entry :
             /\ Fresh(e)
             /\ entries' = [Retained EXCEPT ![k] = e]
             /\ key' = [key EXCEPT ![e] = k]
             /\ owners' = [owners EXCEPT ![e] = 1]
             /\ requested' = [requested EXCEPT ![e] = FALSE]
             /\ cancelled' = [cancelled EXCEPT ![e] = FALSE]
             /\ state' = [state EXCEPT ![e] = "running"]
             /\ at' = [at EXCEPT ![c] = e]
      BY Zenon DEF JoinStart
    <2>1. /\ entries[k] = NoEntry /\ at[c] = NoEntry
          /\ entries' = [entries EXCEPT ![k] = e]
          /\ Strong(e) = {} /\ pc[e] = "dead"
          /\ \A f \in Entry : at[f] # e
          /\ pc[c] = "idle" /\ pc' = [pc EXCEPT ![c] = "spawn"]
          /\ lock = Unlocked /\ lock' = lock
      <3>1. Retained = entries
        BY ZenonT(30), RetainedSame
      <3> QED
        BY <3>1 DEF JoinStart, TypeOK, HoldsArc, Fresh, Strong
    <2>2. TypeOK'
      <3>1. /\ entries' \in [Key -> Entry \cup {NoEntry}]
            /\ at' \in [Actor -> Entry \cup {NoEntry}]
            /\ lock' \in Actor \cup {Unlocked}
        BY ZenonT(30), <2>1 DEF TypeOK
      <3>2. /\ key' \in [Entry -> Key]
            /\ owners' \in [Entry -> Nat]
            /\ requested' \in [Entry -> BOOLEAN]
            /\ cancelled' \in [Entry -> BOOLEAN]
            /\ state' \in [Entry -> {"running"} \cup Outcome]
        BY DEF TypeOK
      <3>3. /\ pc' \in [Actor -> ClientPC \cup ProducerPC]
            /\ \A d \in Client : pc'[d] \in ClientPC
            /\ \A f \in Entry : pc'[f] \in ProducerPC
        BY <2>1 DEF TypeOK, ClientPC
      <3> QED
        BY <3>1, <3>2, <3>3 DEF TypeOK
    <2>3. HoldsArc'
      BY ZenonT(30), <2>1 DEF HoldsArc, TypeOK
    <2>4. (LockHeld /\ LockedCurrent)'
      BY <2>1 DEF LockHeld, LockedCurrent, TypeOK
    <2>5. \A f \in Entry : Strong(f)' = IF f = e THEN {c} ELSE Strong(f)
      BY <2>1 DEF Strong, TypeOK
    <2>6. (RunningHasProducer /\ ProducerRunning /\ SpawnOnce)'
      BY <2>1, <2>5 DEF RunningHasProducer, ProducerRunning, SpawnOnce, Attempt,
                        Working, Spawning, TypeOK, Strong
    <2>7. (PastTerminalCheck /\ ProducerTerminal)'
      BY <2>1 DEF PastTerminalCheck, ProducerTerminal, TypeOK, Strong
    <2>8. (LeaseKeepsEntry /\ NoStaleRegistration)'
      BY <2>1, <2>5 DEF LeaseKeepsEntry, NoStaleRegistration, Owns, TypeOK, Fresh, Strong
    <2>9. OwnersCounted'
      <3>1. \A f \in Entry : OwnerSet(f)' = IF f = e THEN {c} ELSE OwnerSet(f)
        BY <2>1 DEF OwnerSet, Owns, TypeOK, Strong
      <3>2. Cardinality({c}) = 1
        BY Zenon, FS_Singleton
      <3> QED
        BY ZenonT(30), <2>1, <2>5, <3>1, <3>2 DEF OwnersCounted, TypeOK
    <2> QED
      BY <2>2, <2>3, <2>4, <2>6, <2>7, <2>8, <2>9
  <1>SpawnProducerInv.
    ASSUME IInv, NEW c \in Client, SpawnProducer(c)
    PROVE  IInv'
    <2> USE <1>SpawnProducerInv
    <2> USE ActorsDistinct DEF IInv, SpawnProducer, Actor
    <2> DEFINE e == at[c]
    <2>1. /\ e \in Entry /\ Spawning(c, e) /\ pc[e] = "dead" /\ at[e] = NoEntry
          /\ at' = [at EXCEPT ![e] = e] /\ state[e] = "running"
          /\ pc' = [pc EXCEPT ![c] = "leased", ![e] = "run"]
          /\ \A d \in Client : Spawning(d, e) => d = c
          /\ entries[key[e]] = e
      BY DEF TypeOK, HoldsArc, SpawnOnce, Spawning, LeaseKeepsEntry, Owns
    <2> HIDE DEF e
    <2>2. TypeOK'
      BY <2>1 DEF TypeOK, ClientPC, ProducerPC, RetirePC, Outcome
    <2>3. HoldsArc'
      BY <2>1 DEF HoldsArc, TypeOK
    <2>4. (LockHeld /\ LockedCurrent)'
      BY <2>1 DEF LockHeld, LockedCurrent, TypeOK
    <2>5. \A f \in Entry : Strong(f)' = IF f = e THEN Strong(f) \cup {e} ELSE Strong(f)
      BY <2>1 DEF Strong, TypeOK
    <2>6. (RunningHasProducer /\ ProducerRunning /\ SpawnOnce)'
      <3>1. /\ state' = state /\ entries' = entries /\ key' = key /\ c \notin Entry /\ c # e
            /\ pc'[c] = "leased" /\ pc'[e] = "run" /\ pc[c] = "spawn" /\ at[c] = e
            /\ \A b \in Actor \ {c, e} : pc'[b] = pc[b]
            /\ \A d \in Client : at'[d] = at[d]
        BY <2>1 DEF TypeOK, Spawning
      <3>2. /\ \A d \in Client, f \in Entry : Spawning(d, f)' <=> Spawning(d, f) /\ f # e
            /\ \A f \in Entry : Working(f)' <=> Working(f) \/ f = e
        BY ZenonT(30), <2>1, <3>1 DEF Spawning, Working
      <3>3. \A f \in Entry : f # e => (Attempt(f)' <=> Attempt(f))
        BY ZenonT(30), <2>5, <3>1 DEF Attempt
      <3>4. RunningHasProducer'
        BY ZenonT(30), <3>2, <3>3 DEF RunningHasProducer
      <3>5. ProducerRunning'
        BY <2>1, <3>1, <3>2 DEF ProducerRunning
      <3>6. SpawnOnce'
        <4> SUFFICES ASSUME NEW d \in Client, NEW f \in Entry, Spawning(d, f)'
                     PROVE  /\ state'[f] = "running" /\ pc'[f] = "dead"
                            /\ \A b \in Client : Spawning(b, f)' => b = d
          BY ZenonT(30) DEF SpawnOnce
        <4>1. Spawning(d, f) /\ f # e /\ f # c /\ f \in Actor
          BY ZenonT(30), <3>1, <3>2
        <4>2. state[f] = "running" /\ pc[f] = "dead" /\ \A b \in Client : Spawning(b, f) => b = d
          BY ZenonT(30), <4>1 DEF SpawnOnce
        <4>3. pc'[f] = pc[f]
          BY ZenonT(30), <3>1, <4>1
        <4> QED
          BY ZenonT(30), <3>1, <3>2, <4>2, <4>3
      <3> QED
        BY ZenonT(30), <3>4, <3>5, <3>6
    <2>7. (PastTerminalCheck /\ ProducerTerminal)'
      BY <2>1 DEF PastTerminalCheck, ProducerTerminal, TypeOK
    <2>8. (LeaseKeepsEntry /\ NoStaleRegistration)'
      BY <2>1, <2>5 DEF LeaseKeepsEntry, NoStaleRegistration, Owns, TypeOK, Spawning
    <2>9. OwnersCounted'
      <3>1. \A f \in Entry : OwnerSet(f)' = OwnerSet(f)
        BY <2>1 DEF OwnerSet, Owns, TypeOK, Spawning
      <3>2. Strong(e) # {}
        BY <2>1 DEF Strong, Spawning
      <3> QED
        BY <2>1, <2>5, <3>1, <3>2 DEF OwnersCounted, TypeOK
    <2> QED
      BY <2>2, <2>3, <2>4, <2>6, <2>7, <2>8, <2>9
  <1>DropLeaseInv.
    ASSUME IInv, NEW c \in Client, DropLease(c)
    PROVE  IInv'
    <2> USE <1>DropLeaseInv
    <2> USE ActorsDistinct DEF IInv, DropLease, Goto, Actor
    <2>1. at[c] \in Entry /\ at' = at /\ Owns(c, at[c])
      BY DEF TypeOK, HoldsArc, Owns
    <2>2. \A f \in Entry : Strong(f)' = Strong(f)
      BY DEF Strong
    <2>3. \A f \in Entry :
            OwnerSet(f)' = IF f = at[c] THEN OwnerSet(f) \ {c} ELSE OwnerSet(f)
      BY <2>1 DEF OwnerSet, Owns, TypeOK
    <2>4. /\ owners[at[c]] = Cardinality(OwnerSet(at[c]))
          /\ Cardinality(OwnerSet(at[c])) \in Nat \ {0}
          /\ Cardinality(OwnerSet(at[c]) \ {c}) = Cardinality(OwnerSet(at[c])) - 1
      <3>1. IsFiniteSet(OwnerSet(at[c])) /\ c \in OwnerSet(at[c])
        BY ZenonT(30), <2>1, FinitelyManyClients, FS_Subset DEF OwnerSet
      <3>2. Strong(at[c]) # {}
        BY ZenonT(30) DEF Strong
      <3> QED
        BY ZenonT(30), <2>1, <3>1, <3>2, FS_RemoveElement, FS_CardinalityType, FS_EmptySet
        DEF OwnersCounted
    <2>5. TypeOK'
      <3>1. owners[at[c]] - 1 \in Nat
        BY <2>4
      <3>2. owners' \in [Entry -> Nat]
        BY <2>1, <3>1 DEF TypeOK
      <3>3. requested' \in [Entry -> BOOLEAN]
        BY ZenonT(30), <2>1 DEF TypeOK
      <3>4. /\ pc' \in [Actor -> ClientPC \cup ProducerPC]
            /\ \A d \in Client : pc'[d] \in ClientPC
            /\ \A f \in Entry : pc'[f] \in ProducerPC
        BY DEF TypeOK, ClientPC, ProducerPC, RetirePC
      <3> QED
        BY ZenonT(30), <2>1, <3>2, <3>3, <3>4 DEF TypeOK
    <2>6. HoldsArc'
      BY <2>1 DEF HoldsArc, TypeOK
    <2>7. (LockHeld /\ LockedCurrent)'
      BY <2>1 DEF LockHeld, LockedCurrent, TypeOK
    <2>8. (RunningHasProducer /\ ProducerRunning /\ SpawnOnce)'
      BY <2>1, <2>2 DEF RunningHasProducer, ProducerRunning, SpawnOnce, Attempt,
                        Working, Spawning, TypeOK
    <2>9. (PastTerminalCheck /\ ProducerTerminal)'
      BY <2>1 DEF PastTerminalCheck, ProducerTerminal, TypeOK
    <2>10. (LeaseKeepsEntry /\ NoStaleRegistration)'
      BY <2>1, <2>2 DEF LeaseKeepsEntry, NoStaleRegistration, Owns, TypeOK
    <2>11. OwnersCounted'
      BY ZenonT(30), <2>1, <2>2, <2>3, <2>4 DEF OwnersCounted, TypeOK
    <2> QED
      BY ZenonT(30), <2>5, <2>6, <2>7, <2>8, <2>9, <2>10, <2>11
  \* An actor that leaves a finished or running entry is not the last one to
  \* hold it, as long as the entry stays registered.
  <1>LeaveInv.
    ASSUME IInv, NEW a \in Actor, Leave(a),
           pc[a] \in RetirePC,
           UNCHANGED <<key, owners, requested, cancelled, state>>,
           lock' = IF pc[a] = "retireRecheck" THEN Unlocked ELSE lock,
           NEW removed \in {0, 1},
           removed = 1 => pc[a] = "retireRecheck" /\ owners[at[a]] = 0,
           entries' = IF removed = 1 THEN [entries EXCEPT ![key[at[a]]] = NoEntry]
                      ELSE entries,
           \/ removed = 1
           \/ owners[at[a]] # 0
           \/ state[at[a]] = "running"
           \/ entries[key[at[a]]] # at[a]
    PROVE  IInv'
    <2> USE <1>LeaveInv
    <2> USE ActorsDistinct DEF IInv, Leave, Actor
    <2> DEFINE e == at[a]
    <2>1. /\ e \in Entry /\ at' = [at EXCEPT ![a] = NoEntry]
          /\ pc' = [pc EXCEPT ![a] = IF a \in Client THEN "idle" ELSE "dead"]
          /\ a \in Entry => a = e
      BY ZenonT(30) DEF TypeOK, HoldsArc, RetirePC
    <2>2. TypeOK'
      <3>1. /\ entries' \in [Key -> Entry \cup {NoEntry}]
            /\ at' \in [Actor -> Entry \cup {NoEntry}]
            /\ lock' \in Actor \cup {Unlocked}
        BY ZenonT(30), <2>1 DEF TypeOK
      <3>2. /\ pc' \in [Actor -> ClientPC \cup ProducerPC]
            /\ \A d \in Client : pc'[d] \in ClientPC
            /\ \A f \in Entry : pc'[f] \in ProducerPC
        BY <2>1 DEF TypeOK, ClientPC, ProducerPC
      <3> QED
        BY ZenonT(30), <3>1, <3>2 DEF TypeOK
    <2>3. HoldsArc'
      <3>1. /\ \A b \in Actor \ {a} : pc'[b] = pc[b] /\ at'[b] = at[b]
            /\ at'[a] = NoEntry
            /\ a \in Client => pc'[a] = "idle"
            /\ a \notin Client => pc'[a] = "dead"
        BY ZenonT(30), <2>1 DEF TypeOK
      <3>2. \A d \in Client : pc'[d] = "idle" <=> at'[d] = NoEntry
        BY ZenonT(30), <3>1 DEF HoldsArc
      <3>3. \A f \in Entry : at'[f] = IF pc'[f] = "dead" THEN NoEntry ELSE f
        <4>1. ASSUME NEW f \in Entry, f # a PROVE at'[f] = at[f] /\ pc'[f] = pc[f]
          BY ZenonT(30), <3>1, <4>1
        <4> QED
          BY ZenonT(30), <3>1, <4>1 DEF HoldsArc
      <3> QED
        BY ZenonT(30), <3>2, <3>3 DEF HoldsArc
    <2>4. \A f \in Entry : Strong(f)' = Strong(f) \ {a}
      BY <2>1 DEF Strong, TypeOK
    <2>5. \A f \in Entry : OwnerSet(f)' = OwnerSet(f)
      BY <2>1 DEF OwnerSet, Owns, TypeOK, RetirePC
    <2>6. (LockHeld /\ LockedCurrent)'
      BY <2>1 DEF LockHeld, LockedCurrent, TypeOK, RetirePC
    <2>7. OwnersCounted'
      BY ZenonT(30), <2>4, <2>5 DEF OwnersCounted
    <2>8. removed = 1 => OwnerSet(e) = {} /\ state[e] \in Outcome
      <3>1. Strong(e) # {}
        BY ZenonT(30), <2>1 DEF Strong
      <3>2. IsFiniteSet(OwnerSet(e))
        BY ZenonT(30), FinitelyManyClients, FS_Subset DEF OwnerSet
      <3> QED
        BY ZenonT(30), <2>1, <3>1, <3>2, FS_EmptySet DEF OwnersCounted, PastTerminalCheck, TypeOK
    <2>9. \A k \in Key : \/ entries'[k] = entries[k]
                         \/ removed = 1 /\ k = key[e] /\ entries'[k] = NoEntry
      <3>1. CASE removed = 1
        BY ZenonT(30), <3>1, <2>1 DEF TypeOK
      <3>2. CASE removed # 1
        BY ZenonT(30), <3>2
      <3> QED
        BY ZenonT(30), <3>1, <3>2
    <2>10. \A f \in Entry : key[f] \in Key /\ key'[f] = key[f]
      BY ZenonT(30) DEF TypeOK
    <2>11. (RunningHasProducer /\ SpawnOnce)'
      <3>1. \A f \in Entry : Working(f)' <=> Working(f)
        BY ZenonT(30), <2>1 DEF Working, TypeOK, RetirePC
      <3>2. \A c \in Client, f \in Entry : Spawning(c, f)' <=> Spawning(c, f)
        BY ZenonT(30), <2>1 DEF Spawning, TypeOK, RetirePC
      <3>3. \A f \in Entry : Attempt(f)' => Attempt(f)
        BY ZenonT(30), <2>4 DEF Attempt
      <3>4. \A f \in Entry : pc[f] = "dead" => pc'[f] = "dead"
        BY <2>1 DEF TypeOK
      <3> QED
        BY ZenonT(30), <3>1, <3>2, <3>3, <3>4 DEF RunningHasProducer, SpawnOnce
    <2>12. ProducerRunning'
      <3> SUFFICES ASSUME NEW f \in Entry, Working(f)'
                   PROVE  state[f] = "running" /\ entries'[key[f]] = f
        BY ZenonT(30) DEF ProducerRunning
      <3>1. Working(f) /\ state[f] = "running" /\ entries[key[f]] = f
        BY ZenonT(30), <2>1 DEF Working, ProducerRunning, TypeOK
      <3>2. ~ (removed = 1 /\ key[f] = key[e])
        BY ZenonT(30), <2>8, <3>1, <2>1 DEF LockedCurrent, Outcome
      <3> QED
        BY ZenonT(30), <3>1, <3>2, <2>9, <2>10
    <2>13. (PastTerminalCheck /\ ProducerTerminal)'
      BY ZenonT(30), <2>1 DEF PastTerminalCheck, ProducerTerminal, TypeOK
    <2>14. LeaseKeepsEntry'
      <3> SUFFICES ASSUME NEW c \in Client, NEW f \in Entry, Owns(c, f)'
                   PROVE  entries'[key[f]] = f
        BY ZenonT(30) DEF LeaseKeepsEntry
      <3>1. Owns(c, f) /\ entries[key[f]] = f
        BY ZenonT(30), <2>1 DEF Owns, LeaseKeepsEntry, TypeOK
      <3>2. ~ (removed = 1 /\ key[f] = key[e])
        BY ZenonT(30), <2>8, <3>1, <2>1 DEF LockedCurrent, OwnerSet
      <3> QED
        BY ZenonT(30), <3>1, <3>2, <2>9, <2>10
    <2>15. NoStaleRegistration'
      <3> SUFFICES ASSUME NEW k \in Key, NEW f \in Entry, entries'[k] = f
                   PROVE  Strong(f)' # {} /\ key[f] = k
        BY <2>2 DEF NoStaleRegistration, Strong, TypeOK
      <3>1. entries[k] = f /\ key[f] = k /\ Strong(f) # {}
        BY ZenonT(30), <2>9 DEF NoStaleRegistration
      <3>2. CASE f # e
        BY ZenonT(30), <3>1, <3>2, <2>1, <2>4 DEF Strong
      <3>3. CASE f = e
        <4>1. removed # 1
          BY ZenonT(30), <3>1, <3>3, <2>9, <2>1 DEF TypeOK
        <4>2. CASE owners[e] # 0
          <5>1. OwnerSet(e) # {}
            BY ZenonT(30), <2>1, <3>1, <3>3, <4>2, FS_EmptySet DEF OwnersCounted
          <5>2. PICK c \in Client : Owns(c, e)
            BY <5>1 DEF OwnerSet
          <5>3. c \in Strong(e) /\ c # a
            BY ZenonT(30), <5>2 DEF Strong, Owns, RetirePC
          <5> QED
            BY SMTT(30), <5>3, <3>1, <3>3, <2>1, <2>4
        <4>3. CASE state[e] = "running"
          <5>1. Working(e) \/ \E c \in Client : Spawning(c, e)
            BY ZenonT(30), <4>3, <3>1, <3>3, <2>1 DEF RunningHasProducer, Attempt
          <5>2. CASE Working(e)
            <6>1. e \in Strong(e) /\ e # a
              BY ZenonT(30), <5>2, <2>1 DEF Working, Strong, HoldsArc, RetirePC
            <6> QED
              BY <6>1, <3>1, <3>3, <2>1, <2>4
          <5>3. CASE \E c \in Client : Spawning(c, e)
            <6>1. PICK c \in Client : Spawning(c, e)
              BY ZenonT(30), <5>3
            <6>2. c \in Strong(e) /\ c # a
              BY ZenonT(30), <6>1 DEF Spawning, Strong, RetirePC
            <6> QED
              BY <6>2, <3>1, <3>3, <2>1, <2>4
          <5> QED
            BY ZenonT(30), <5>1, <5>2, <5>3
        <4> QED
          BY ZenonT(30), <4>1, <4>2, <4>3, <3>1, <3>3
      <3> QED
        BY ZenonT(30), <3>2, <3>3
    <2> QED
      BY <2>2, <2>3, <2>6, <2>7, <2>11, <2>12, <2>13, <2>14, <2>15
  \* The same for an actor that removes no registration.
  <1>LeaveRegistered.
    ASSUME IInv, NEW a \in Actor, Leave(a),
           pc[a] \in RetirePC,
           UNCHANGED <<key, owners, requested, cancelled, state, entries>>,
           lock' = IF pc[a] = "retireRecheck" THEN Unlocked ELSE lock,
           \/ owners[at[a]] # 0
           \/ state[at[a]] = "running"
           \/ entries[key[at[a]]] # at[a]
    PROVE  IInv'
    <2> USE <1>LeaveRegistered
    <2>1. PICK removed \in {0, 1} : removed = 0
      BY ZenonT(30)
    <2>2. /\ removed # 1
          /\ entries' = IF removed = 1 THEN [entries EXCEPT ![key[at[a]]] = NoEntry]
                        ELSE entries
          /\ UNCHANGED <<key, owners, requested, cancelled, state>>
      BY <2>1
    <2> QED
      BY ZenonT(30), <2>2, <1>LeaveInv
  <1>RetireTerminalInv.
    ASSUME IInv, NEW a \in Actor, RetireTerminal(a)
    PROVE  IInv'
    <2> USE <1>RetireTerminalInv
    <2> USE ActorsDistinct DEF IInv, RetireTerminal, Goto, Actor
    <2>1. CASE state[at[a]] \in Outcome
      <3>1. at[a] \in Entry /\ at' = at
        BY ZenonT(30), <2>1 DEF TypeOK, HoldsArc
      <3>2. TypeOK'
        BY <2>1, <3>1 DEF TypeOK, ClientPC, ProducerPC, RetirePC
      <3>3. HoldsArc'
        BY <2>1, <3>1 DEF HoldsArc, TypeOK
      <3>4. (LockHeld /\ LockedCurrent)'
        BY SMTT(30), <2>1, <3>1 DEF LockHeld, LockedCurrent, TypeOK
      <3>5. \A f \in Entry : Strong(f)' = Strong(f)
        BY ZenonT(30), <3>1 DEF Strong
      <3>6. (RunningHasProducer /\ ProducerRunning /\ SpawnOnce)'
        BY <2>1, <3>1, <3>5 DEF RunningHasProducer, ProducerRunning, SpawnOnce,
                                Attempt, Working, Spawning, TypeOK
      <3>7. (PastTerminalCheck /\ ProducerTerminal)'
        BY ZenonT(30), <2>1, <3>1 DEF PastTerminalCheck, ProducerTerminal, TypeOK
      <3>8. (LeaseKeepsEntry /\ NoStaleRegistration)'
        BY SMTT(30), <2>1, <3>1, <3>5 DEF LeaseKeepsEntry, NoStaleRegistration, Owns, TypeOK
      <3>9. OwnersCounted'
        <4>1. \A f \in Entry : OwnerSet(f)' = OwnerSet(f)
          BY ZenonT(30), <2>1, <3>1 DEF OwnerSet, Owns, TypeOK
        <4> QED
          BY ZenonT(30), <3>5, <4>1 DEF OwnersCounted
      <3> QED
        BY ZenonT(30), <3>2, <3>3, <3>4, <3>6, <3>7, <3>8, <3>9
    <2>2. CASE state[at[a]] \notin Outcome
      <3>1. at[a] \in Entry
        BY DEF TypeOK, HoldsArc
      <3>2. state[at[a]] = "running"
        BY <2>2, <3>1 DEF TypeOK
      <3> QED
        BY ZenonT(30), <2>2, <3>2, <1>LeaveRegistered DEF RetirePC
    <2> QED
      BY ZenonT(30), <2>1, <2>2
  <1>RetireUnownedInv.
    ASSUME IInv, NEW a \in Actor, RetireUnowned(a)
    PROVE  IInv'
    <2> USE <1>RetireUnownedInv
    <2> USE ActorsDistinct DEF IInv, RetireUnowned, Goto, Actor
    <2>1. CASE owners[at[a]] = 0
      <3>1. at[a] \in Entry /\ at' = at
        BY ZenonT(30), <2>1 DEF TypeOK, HoldsArc
      <3>2. TypeOK'
        BY <2>1, <3>1 DEF TypeOK, ClientPC, ProducerPC, RetirePC
      <3>3. HoldsArc'
        BY <2>1, <3>1 DEF HoldsArc, TypeOK
      <3>4. (LockHeld /\ LockedCurrent)'
        BY SMTT(30), <2>1, <3>1 DEF LockHeld, LockedCurrent, TypeOK
      <3>5. \A f \in Entry : Strong(f)' = Strong(f)
        BY ZenonT(30), <3>1 DEF Strong
      <3>6. (RunningHasProducer /\ ProducerRunning /\ SpawnOnce)'
        BY <2>1, <3>1, <3>5 DEF RunningHasProducer, ProducerRunning, SpawnOnce,
                                Attempt, Working, Spawning, TypeOK
      <3>7. (PastTerminalCheck /\ ProducerTerminal)'
        BY ZenonT(30), <2>1, <3>1 DEF PastTerminalCheck, ProducerTerminal, TypeOK
      <3>8. (LeaseKeepsEntry /\ NoStaleRegistration)'
        BY <2>1, <3>1, <3>5 DEF LeaseKeepsEntry, NoStaleRegistration, Owns, TypeOK
      <3>9. OwnersCounted'
        <4>1. \A f \in Entry : OwnerSet(f)' = OwnerSet(f)
          BY ZenonT(30), <2>1, <3>1 DEF OwnerSet, Owns, TypeOK
        <4> QED
          BY ZenonT(30), <3>5, <4>1 DEF OwnersCounted
      <3> QED
        BY ZenonT(30), <3>2, <3>3, <3>4, <3>6, <3>7, <3>8, <3>9
    <2>2. CASE owners[at[a]] # 0
      BY ZenonT(30), <2>2, <1>LeaveRegistered DEF RetirePC
    <2> QED
      BY ZenonT(30), <2>1, <2>2
  <1>RetireCurrentInv.
    ASSUME IInv, NEW a \in Actor, RetireCurrent(a)
    PROVE  IInv'
    <2> USE <1>RetireCurrentInv
    <2> USE ActorsDistinct DEF IInv, RetireCurrent, Goto, Actor
    <2>1. CASE entries[key[at[a]]] = at[a]
      <3>1. at[a] \in Entry /\ at' = at
        BY ZenonT(30), <2>1 DEF TypeOK, HoldsArc
      <3>2. TypeOK'
        BY <2>1, <3>1 DEF TypeOK, ClientPC, ProducerPC, RetirePC
      <3>3. HoldsArc'
        <4>1. /\ \A b \in Actor \ {a} : pc'[b] = pc[b]
              /\ pc[a] = "retireLock" /\ pc'[a] = "retireRecheck"
          BY ZenonT(30), <2>1 DEF TypeOK
        <4> QED
          BY ZenonT(30), <3>1, <4>1 DEF HoldsArc
      <3>4. (LockHeld /\ LockedCurrent)'
        BY SMTT(30), <2>1, <3>1 DEF LockHeld, LockedCurrent, TypeOK
      <3>5. \A f \in Entry : Strong(f)' = Strong(f)
        BY ZenonT(30), <3>1 DEF Strong
      <3>6. (RunningHasProducer /\ ProducerRunning /\ SpawnOnce)'
        BY <2>1, <3>1, <3>5 DEF RunningHasProducer, ProducerRunning, SpawnOnce,
                                Attempt, Working, Spawning, TypeOK
      <3>7. (PastTerminalCheck /\ ProducerTerminal)'
        BY ZenonT(30), <2>1, <3>1 DEF PastTerminalCheck, ProducerTerminal, TypeOK
      <3>8. (LeaseKeepsEntry /\ NoStaleRegistration)'
        BY <2>1, <3>1, <3>5 DEF LeaseKeepsEntry, NoStaleRegistration, Owns, TypeOK
      <3>9. OwnersCounted'
        <4>1. \A f \in Entry : OwnerSet(f)' = OwnerSet(f)
          BY SMTT(30), <2>1, <3>1 DEF OwnerSet, Owns, TypeOK
        <4> QED
          BY ZenonT(30), <3>5, <4>1 DEF OwnersCounted
      <3> QED
        BY ZenonT(30), <3>2, <3>3, <3>4, <3>6, <3>7, <3>8, <3>9
    <2>2. CASE entries[key[at[a]]] # at[a]
      BY ZenonT(30), <2>2, <1>LeaveRegistered DEF RetirePC
    <2> QED
      BY ZenonT(30), <2>1, <2>2
  <1>RetireRecheckInv.
    ASSUME IInv, NEW a \in Actor, RetireRecheck(a)
    PROVE  IInv'
    <2> USE <1>RetireRecheckInv
    <2> DEFINE removed == IF owners[at[a]] = 0 THEN 1 ELSE 0
    <2>1. removed \in {0, 1}
      BY ZenonT(30)
    <2>2. /\ pc[a] \in RetirePC
          /\ entries' = IF removed = 1 THEN [entries EXCEPT ![key[at[a]]] = NoEntry]
                        ELSE entries
          /\ lock' = IF pc[a] = "retireRecheck" THEN Unlocked ELSE lock
          /\ removed = 1 => pc[a] = "retireRecheck" /\ owners[at[a]] = 0
          /\ removed = 1 \/ owners[at[a]] # 0
          /\ Leave(a)
          /\ UNCHANGED <<key, owners, requested, cancelled, state>>
      BY DEF RetireRecheck, RetirePC
    <2> HIDE DEF removed
    <2> QED
      BY <2>1, <2>2, <1>LeaveInv
  <1> SUFFICES ASSUME IInv, [Next]_vars PROVE IInv'
    OBVIOUS
  <1>1. ASSUME NEW c \in Client, ClientStep(c) PROVE IInv'
    BY ZenonT(30), <1>1, <1>JoinLookupInv, <1>JoinStartInv, <1>JoinAttachInv, <1>SpawnProducerInv,
       <1>SpawnFailsInv, <1>FailRetireInv, <1>WaitInv, <1>WaitTimeoutInv, <1>DropLeaseInv,
       <1>SignalCancelInv
    DEF ClientStep, Join
  <1>2. ASSUME NEW e \in Entry, ProducerStep(e) PROVE IInv'
    BY <1>2, <1>FinishInv, <1>WaitCancelledInv DEF ProducerStep
  <1>3. ASSUME NEW a \in Actor, Retire(a) PROVE IInv'
    BY ZenonT(30), <1>3, <1>NotifyInv, <1>RetireTerminalInv, <1>RetireUnownedInv, <1>RetireCurrentInv,
       <1>RetireRecheckInv
    DEF Retire
  <1>4. CASE UNCHANGED vars
    BY <1>4 DEF vars, IInv, TypeOK, HoldsArc, LockHeld, LockedCurrent,
       RunningHasProducer, ProducerRunning, SpawnOnce, PastTerminalCheck,
       ProducerTerminal, OwnersCounted, LeaseKeepsEntry, NoStaleRegistration,
       Attempt, Working, Spawning, Strong, OwnerSet, Owns
  <1> QED
    BY <1>1, <1>2, <1>3, <1>4 DEF Next

LEMMA InductiveInvariant == Spec => []IInv
  BY InitInv, NextInv, PTL DEF Spec

-----------------------------------------------------------------------------

\* The state of the registry keeps its types; in particular the owner counter
\* of SharedWorkOwnership never underflows in Drop.
THEOREM TypeCorrect == Spec => []TypeOK
<1>1. IInv => TypeOK
  BY DEF IInv
<1> QED
  BY <1>1, InductiveInvariant, PTL

\* For every number of clients, keys and entries: join_or_start never has two
\* unfinished attempts of one exact key.
THEOREM SingleFlightHolds == Spec => []SingleFlight
<1>1. IInv => SingleFlight
  <2> SUFFICES ASSUME IInv, NEW e \in Entry, Attempt(e)
               PROVE  entries[key[e]] = e
    BY DEF SingleFlight
  <2>1. CASE Working(e)
    BY <2>1 DEF IInv, ProducerRunning
  <2>2. CASE \E c \in Client : Spawning(c, e)
    BY <2>2 DEF IInv, LeaseKeepsEntry, Owns, Spawning
  <2> QED
    BY <2>1, <2>2 DEF IInv, RunningHasProducer
<1> QED
  BY <1>1, InductiveInvariant, PTL

\* The owner counter equals the number of leases.
THEOREM OwnersExactHolds == Spec => []OwnersExact
<1>1. IInv => OwnersExact
  BY DEF IInv, OwnersExact, OwnersCounted, OwnerSet
<1> QED
  BY <1>1, InductiveInvariant, PTL

\* A leased entry stays the registered one, and the registry never names an
\* entry that nobody keeps alive.
THEOREM RegistrationHolds == Spec => [](LeaseKeepsEntry /\ NoStaleRegistration)
<1>1. IInv => LeaseKeepsEntry /\ NoStaleRegistration
  BY DEF IInv
<1> QED
  BY <1>1, InductiveInvariant, PTL

\* No step requests cancellation while some consumer holds a lease.
THEOREM CancelSparesOwnersHolds == Spec => CancelSparesOwners
<1>1. ASSUME IInv, [Next]_vars, NEW e \in Entry, requested'[e], ~requested[e],
             NEW c \in Client, Owns(c, e)'
      PROVE  FALSE
  <2>1. \E d \in Client : DropLease(d)
    <3>1. ASSUME NEW d \in Client, ClientStep(d) PROVE DropLease(d)
      <4>1. CASE Join(d)
        BY ZenonT(30), <1>1, <4>1 DEF IInv, TypeOK, Join, JoinLookup, JoinStart
      <4> QED
        BY ZenonT(30), <1>1, <3>1, <4>1
        DEF ClientStep, JoinAttach, SpawnProducer, SpawnFails, FailRetire, Wait,
            WaitTimeout, SignalCancel
    <3>2. ASSUME NEW f \in Entry, ProducerStep(f) PROVE FALSE
      BY ZenonT(30), <1>1, <3>2 DEF ProducerStep, Finish, WaitCancelled
    <3>3. ASSUME NEW a \in Actor, Retire(a) PROVE FALSE
      BY Zenon, <1>1, <3>3 DEF Retire, Notify, RetireTerminal, RetireUnowned,
                        RetireCurrent, RetireRecheck
    <3> QED
      BY ZenonT(30), <1>1, <3>1, <3>2, <3>3 DEF Next, vars
  <2> PICK d \in Client : DropLease(d)
    BY ZenonT(30), <2>1
  <2>2. owners'[e] = 0 /\ Strong(e)' # {} /\ IInv'
    <3>1. at[d] = e /\ owners[e] = 1 /\ at' = at
      BY ZenonT(30), <1>1 DEF DropLease, IInv, TypeOK, HoldsArc, Actor
    <3>2. owners'[e] = 0
      BY <1>1, <3>1 DEF DropLease, IInv, TypeOK
    <3>3. d \in Strong(e)'
      BY <3>1 DEF Strong, Actor
    <3> QED
      BY ZenonT(30), <3>2, <3>3, <1>1, NextInv
  <2>3. OwnerSet(e)' = {}
    BY Zenon, <2>2, FinitelyManyClients, FS_Subset, FS_EmptySet
    DEF IInv, OwnersCounted, OwnerSet
  <2> QED
    BY <1>1, <2>3 DEF OwnerSet
<1>2. IInv /\ [Next]_vars =>
        [\A e \in Entry : requested'[e] /\ ~requested[e]
                            => \A c \in Client : ~Owns(c, e)']_vars
  BY <1>1
<1> QED
  BY <1>2, InductiveInvariant, PTL DEF Spec, CancelSparesOwners

-----------------------------------------------------------------------------
WaitedSettled == \A c \in Client : pc[c] = "waited" => state[at[c]] \in Outcome

RInv == IInv /\ WaitedSettled

\* A step seen from the abstract service.
FlightStep == [Abstract!FlightNext]_(Abstract!flightVars)

\* The abstract state as functions, for the equalities below.
SameFlights == \A k \in Key : FlightOf(k)' = FlightOf(k)
SameSharers == \A k \in Key : SharersOf(k)' = SharersOf(k)
SameStops == \A k \in Key : StopOf(k)' = StopOf(k)
SameOutcomes == \A c \in Client : OutcomeOf(c)' = OutcomeOf(c)

-----------------------------------------------------------------------------

LEMMA Stutter ==
  ASSUME SameFlights, SameSharers, SameStops, SameOutcomes
  PROVE  FlightStep
BY DEF FlightStep, SameFlights, SameSharers, SameStops, SameOutcomes, Abstract!flightVars

LEMMA ShareStep ==
  ASSUME NEW c \in Client, NEW k \in Key,
         \A j \in Key : c \notin SharersOf(j), FlightOf(k) # "idle",
         \A j \in Key : SharersOf(j)' = IF j = k THEN SharersOf(j) \cup {c} ELSE SharersOf(j),
         SameFlights, SameStops, SameOutcomes
  PROVE  FlightStep
<1>1. Abstract!Share(c, k)
  BY Zenon DEF Abstract!Share, Abstract!Free, SameFlights, SameStops, SameOutcomes
<1> QED
  BY Zenon, <1>1 DEF FlightStep, Abstract!FlightNext

LEMMA StartStep ==
  ASSUME NEW c \in Client, NEW k \in Key,
         \A j \in Key : c \notin SharersOf(j), FlightOf(k) = "idle",
         \A j \in Key : FlightOf(j)' = IF j = k THEN "running" ELSE FlightOf(j),
         \A j \in Key : SharersOf(j)' = IF j = k THEN {c} ELSE SharersOf(j),
         \A j \in Key : StopOf(j)' = IF j = k THEN FALSE ELSE StopOf(j),
         SameOutcomes
  PROVE  FlightStep
<1>1. Abstract!Start(c, k)
  BY Zenon DEF Abstract!Start, Abstract!Free, SameOutcomes
<1> QED
  BY Zenon, <1>1 DEF FlightStep, Abstract!FlightNext

LEMMA SettleStep ==
  ASSUME NEW k \in Key, NEW outcome \in Outcome, FlightOf(k) = "running",
         \A j \in Key : FlightOf(j)' = IF j = k THEN outcome ELSE FlightOf(j),
         SameSharers, SameStops, SameOutcomes
  PROVE  FlightStep
<1>1. Abstract!Settle(k)
  BY Zenon DEF Abstract!Settle, Abstract!Settled, Outcome, SameSharers, SameStops, SameOutcomes
<1> QED
  BY Zenon, <1>1 DEF FlightStep, Abstract!FlightNext

LEMMA ReceiveStep ==
  ASSUME NEW c \in Client, NEW k \in Key, c \in SharersOf(k), FlightOf(k) \in Outcome,
         \A d \in Client : OutcomeOf(d)' = IF d = c THEN FlightOf(k) ELSE OutcomeOf(d),
         SameFlights, SameSharers, SameStops
  PROVE  FlightStep
<1>1. Abstract!Receive(c, k)
  BY Zenon DEF Abstract!Receive, Abstract!Settled, Outcome, SameFlights, SameSharers, SameStops
<1> QED
  BY Zenon, <1>1 DEF FlightStep, Abstract!FlightNext

LEMMA DepartStep ==
  ASSUME NEW c \in Client, NEW k \in Key, c \in SharersOf(k),
         \A j \in Key : SharersOf(j)' = IF j = k THEN SharersOf(j) \ {c} ELSE SharersOf(j),
         \A j \in Key : StopOf(j)' =
             IF j = k THEN StopOf(j) \/ (OwnerBound /\ SharersOf(k) = {c}) ELSE StopOf(j),
         \A d \in Client : OutcomeOf(d)' = IF d = c THEN "none" ELSE OutcomeOf(d),
         SameFlights
  PROVE  FlightStep
<1>1. Abstract!Depart(c, k)
  BY Zenon DEF Abstract!Depart, SameFlights
<1> QED
  BY Zenon, <1>1 DEF FlightStep, Abstract!FlightNext

LEMMA ForgetStep ==
  ASSUME NEW k \in Key, FlightOf(k) \in Outcome, SharersOf(k) = {},
         \A j \in Key : FlightOf(j)' = IF j = k THEN "idle" ELSE FlightOf(j),
         \A j \in Key : StopOf(j)' = IF j = k THEN FALSE ELSE StopOf(j),
         SameSharers, SameOutcomes
  PROVE  FlightStep
<1>1. Abstract!Forget(k)
  BY Zenon DEF Abstract!Forget, Abstract!Settled, Outcome, SameSharers, SameOutcomes
<1> QED
  BY Zenon, <1>1 DEF FlightStep, Abstract!FlightNext

-----------------------------------------------------------------------------
\* One lemma per action.

LEMMA WaitedSettledInv == RInv /\ [Next]_vars => WaitedSettled'
<1> SUFFICES ASSUME RInv, [Next]_vars, NEW c \in Client, pc'[c] = "waited"
             PROVE  state'[at'[c]] \in Outcome
  BY ZenonT(30) DEF WaitedSettled
<1> USE ActorsDistinct DEF RInv, IInv, Actor
<1>1. ASSUME NEW d \in Client, ClientStep(d) PROVE state'[at'[c]] \in Outcome
  <2>1. ASSUME NEW k \in Key, JoinStart(d, k) PROVE state'[at'[c]] \in Outcome
    <3>1. PICK e \in Entry : Fresh(e) /\ state' = [state EXCEPT ![e] = "running"]
                             /\ at' = [at EXCEPT ![d] = e]
      BY Zenon, <2>1 DEF JoinStart
    <3>2. c # d /\ pc[c] = "waited"
      BY ZenonT(30), <2>1 DEF JoinStart, Goto, TypeOK
    <3>3. at[c] # e /\ at[c] \in Entry
      BY ZenonT(30), <3>1, <3>2 DEF Fresh, Strong, HoldsArc, TypeOK
    <3> QED
      BY <3>1, <3>2, <3>3 DEF WaitedSettled, TypeOK
  <2>2. CASE JoinAttach(d) \/ FailRetire(d) \/ WaitTimeout(d) \/ DropLease(d)
    BY <2>2 DEF JoinAttach, FailRetire, WaitTimeout, DropLease, Goto, TypeOK, WaitedSettled
  <2>3. ASSUME NEW k \in Key, JoinLookup(d, k) PROVE state'[at'[c]] \in Outcome
    BY ZenonT(30), <2>3 DEF JoinLookup, Goto, TypeOK, WaitedSettled
  <2>4. CASE SpawnProducer(d) \/ SignalCancel(d)
    BY <2>4 DEF SpawnProducer, SignalCancel, TypeOK, HoldsArc, WaitedSettled
  <2>5. CASE SpawnFails(d)
    BY ZenonT(30), <2>5 DEF SpawnFails, Goto, TypeOK, HoldsArc, WaitedSettled, Outcome
  <2>6. CASE Wait(d)
    BY <2>6 DEF Wait, Goto, TypeOK, HoldsArc, WaitedSettled, Outcome
  <2> QED
    BY ZenonT(30), <1>1, <2>1, <2>2, <2>3, <2>4, <2>5, <2>6 DEF ClientStep, Join
<1>2. ASSUME NEW e \in Entry, ProducerStep(e) PROVE state'[at'[c]] \in Outcome
  <2>1. pc[c] = "waited" /\ at' = at /\ at[c] \in Entry
    <3>1. at' = at /\ \E w : pc' = [pc EXCEPT ![e] = w]
      BY ZenonT(30), <1>2 DEF ProducerStep, Finish, WaitCancelled, Goto
    <3>2. pc'[c] = pc[c]
      BY ZenonT(30), <3>1 DEF TypeOK
    <3> QED
      BY ZenonT(30), <3>1, <3>2 DEF TypeOK, HoldsArc
  <2>2. CASE Finish(e)
    BY <2>1, <2>2 DEF Finish, TypeOK, WaitedSettled
  <2>3. CASE WaitCancelled(e)
    BY ZenonT(30), <2>1, <2>3 DEF WaitCancelled, WaitedSettled
  <2> QED
    BY ZenonT(30), <1>2, <2>2, <2>3 DEF ProducerStep
<1>3. ASSUME NEW a \in Actor, Retire(a) PROVE state'[at'[c]] \in Outcome
  <2>1. pc[c] = "waited" /\ at'[c] = at[c] /\ state' = state
    BY ZenonT(30), <1>3 DEF Retire, Notify, RetireTerminal, RetireUnowned, RetireCurrent,
                RetireRecheck, Leave, Goto, TypeOK
  <2> QED
    BY ZenonT(30), <2>1 DEF WaitedSettled
<1>4. CASE UNCHANGED vars
  BY <1>4 DEF vars, WaitedSettled
<1> QED
  BY ZenonT(30), <1>1, <1>2, <1>3, <1>4 DEF Next

LEMMA JoinLookupFlight ==
  ASSUME RInv, NEW c \in Client, NEW k \in Key, JoinLookup(c, k)
  PROVE  FlightStep
<1> USE ActorsDistinct DEF RInv, IInv, Actor
<1>1. entries' = entries /\ state' = state /\ requested' = requested
  BY ZenonT(30), RetainedSame DEF JoinLookup
<1>2. \A d \in Client : \A e : Owns(d, e)' = Owns(d, e)
  BY ZenonT(30) DEF JoinLookup, Goto, Owns, TypeOK
<1>3. SameFlights /\ SameStops
  BY <1>1 DEF SameFlights, SameStops, FlightOf, StopOf
<1>4. SameSharers
  BY ZenonT(30), <1>1, <1>2 DEF SameSharers, SharersOf
<1>5. SameOutcomes
  BY ZenonT(30), <1>1 DEF SameOutcomes, OutcomeOf, JoinLookup, Goto, TypeOK
<1> QED
  BY ZenonT(30), <1>3, <1>4, <1>5, Stutter

LEMMA JoinAttachFlight ==
  ASSUME RInv, NEW c \in Client, JoinAttach(c)
  PROVE  FlightStep
<1> USE ActorsDistinct DEF RInv, IInv, Actor, JoinAttach
<1> DEFINE e == at[c]
           k == key[e]
<1>1. e \in Entry /\ k \in Key /\ entries[k] = e
  BY ZenonT(30) DEF TypeOK, HoldsArc, LockedCurrent
<1>2. \A f : ~Owns(c, f)
  BY DEF Owns
<1>3. \A j \in Key : entries[j] = e => j = k
  BY ZenonT(30), <1>1 DEF NoStaleRegistration
<1>4. \A j \in Key : SharersOf(j)' = IF j = k THEN SharersOf(j) \cup {c} ELSE SharersOf(j)
  <2>1. entries' = entries
    BY ZenonT(30) DEF Goto
  <2>2. \A d \in Client, f \in Entry \cup {NoEntry} :
            Owns(d, f)' <=> Owns(d, f) \/ (d = c /\ f = e)
    BY DEF Owns, Goto, TypeOK
  <2>3. \A j \in Key : entries[j] \in Entry \cup {NoEntry}
    BY ZenonT(30) DEF TypeOK
  <2>4. ASSUME NEW j \in Key
        PROVE  SharersOf(j)' = IF j = k THEN SharersOf(j) \cup {c} ELSE SharersOf(j)
    <3>1. SharersOf(j)' = {d \in Client : Owns(d, entries[j]) \/ (d = c /\ entries[j] = e)}
      BY ZenonT(30), <2>1, <2>2, <2>3 DEF SharersOf
    <3> HIDE DEF e, k
    <3> QED BY <1>1, <1>3, <3>1 DEF SharersOf
  <2> QED
    BY <2>4
<1>5. SameFlights /\ SameStops
  BY DEF SameFlights, SameStops, FlightOf, StopOf
<1>6. SameOutcomes
  BY ZenonT(30) DEF SameOutcomes, OutcomeOf, Goto, TypeOK
<1>7. FlightOf(k) # "idle" /\ \A j \in Key : c \notin SharersOf(j)
  BY <1>1, <1>2 DEF FlightOf, SharersOf, TypeOK, Outcome
<1> QED
  BY <1>1, <1>4, <1>5, <1>6, <1>7, ShareStep

LEMMA JoinStartFlight ==
  ASSUME RInv, NEW c \in Client, NEW k \in Key, JoinStart(c, k)
  PROVE  FlightStep
<1> USE ActorsDistinct DEF RInv, IInv, Actor
<1>1. PICK e \in Entry :
        /\ Fresh(e)
        /\ entries' = [entries EXCEPT ![k] = e]
        /\ requested' = [requested EXCEPT ![e] = FALSE]
        /\ state' = [state EXCEPT ![e] = "running"]
        /\ at' = [at EXCEPT ![c] = e]
  BY Zenon, RetainedSame DEF JoinStart
<1>2. /\ pc[c] = "idle" /\ entries[k] = NoEntry /\ pc' = [pc EXCEPT ![c] = "spawn"]
  BY RetainedSame DEF JoinStart, Goto
<1>3. /\ \A j \in Key : entries[j] # e
      /\ \A d \in Client : at[d] # e
  BY <1>1 DEF Fresh, Strong
<1>4. \A d \in Client : \A f : Owns(d, f)' = IF d = c THEN f = e ELSE Owns(d, f)
  BY Zenon, <1>1, <1>2 DEF Owns, TypeOK
<1>5. /\ FlightOf(k) = "idle"
      /\ \A j \in Key : FlightOf(j)' = IF j = k THEN "running" ELSE FlightOf(j)
  BY <1>1, <1>2, <1>3 DEF FlightOf, TypeOK
<1>6. \A j \in Key : StopOf(j)' = IF j = k THEN FALSE ELSE StopOf(j)
  BY Zenon, <1>1, <1>2, <1>3 DEF StopOf, TypeOK
<1>7. \A j \in Key : entries'[j] = IF j = k THEN e ELSE entries[j]
  BY ZenonT(30), <1>1 DEF TypeOK
<1>8. \A j \in Key : SharersOf(j)' = IF j = k THEN {c} ELSE SharersOf(j)
  <2>1. ASSUME NEW j \in Key, NEW d \in Client
        PROVE  d \in SharersOf(j)' <=> d \in (IF j = k THEN {c} ELSE SharersOf(j))
    <3>1. CASE d = c
      BY ZenonT(30), <1>1, <1>2, <1>3, <1>7, <3>1 DEF SharersOf, Owns, TypeOK
    <3>2. CASE d # c
      <4>1. at'[d] = at[d] /\ pc'[d] = pc[d] /\ at[d] # e
        BY ZenonT(30), <1>1, <1>2, <1>3, <3>2 DEF TypeOK
      <4> QED
        BY ZenonT(30), <1>7, <3>2, <4>1 DEF SharersOf, Owns
    <3> QED
      BY ZenonT(30), <3>1, <3>2
  <2>2. \A j \in Key : SharersOf(j) \subseteq Client /\ SharersOf(j)' \subseteq Client
    BY ZenonT(30) DEF SharersOf
  <2> QED
    BY ZenonT(30), <2>1, <2>2
<1>9. \A j \in Key : c \notin SharersOf(j)
  BY ZenonT(30), <1>2 DEF SharersOf, Owns
<1>10. SameOutcomes
  BY <1>1, <1>2, <1>3 DEF SameOutcomes, OutcomeOf, TypeOK
<1> QED
  BY Zenon, <1>5, <1>6, <1>8, <1>9, <1>10, StartStep

\* Steps inside the registry's own code: no lease and no result changes hands.
SameLeases ==
    /\ entries' = entries /\ state' = state /\ requested' = requested
    /\ \A d \in Client :
         /\ \A e \in Entry \cup {NoEntry} : Owns(d, e)' <=> Owns(d, e)
         /\ pc'[d] = "waited" <=> pc[d] = "waited"
         /\ pc[d] = "waited" => at'[d] = at[d]

LEMMA QuietStep ==
  ASSUME RInv, SameLeases
  PROVE  FlightStep
<1>1. SameFlights /\ SameStops
  BY ZenonT(30) DEF SameLeases, SameFlights, SameStops, FlightOf, StopOf
<1>2. SameSharers
  <2> SUFFICES ASSUME NEW k \in Key PROVE SharersOf(k)' = SharersOf(k)
    BY ZenonT(30) DEF SameSharers
  <2>1. entries[k] \in Entry \cup {NoEntry} /\ entries' = entries
    BY ZenonT(30) DEF RInv, IInv, TypeOK, SameLeases
  <2>2. \A d \in Client : Owns(d, entries[k])' <=> Owns(d, entries[k])
    BY ZenonT(30), <2>1 DEF SameLeases, Owns
  <2> QED
    BY <2>2 DEF SharersOf
<1>3. SameOutcomes
  BY DEF SameLeases, SameOutcomes, OutcomeOf
<1> QED
  BY ZenonT(30), <1>1, <1>2, <1>3, Stutter

LEMMA QuietClientFlight ==
  ASSUME RInv, NEW c \in Client,
         FailRetire(c) \/ WaitTimeout(c) \/ SpawnProducer(c) \/ SignalCancel(c)
  PROVE  FlightStep
<1> USE ActorsDistinct DEF RInv, IInv, Actor
<1>1. CASE FailRetire(c)
  BY ZenonT(30), <1>1, QuietStep DEF FailRetire, Goto, SameLeases, Owns, TypeOK
<1>2. CASE WaitTimeout(c)
  BY ZenonT(30), <1>2, QuietStep DEF WaitTimeout, Goto, SameLeases, Owns, TypeOK
<1>3. CASE SpawnProducer(c)
  <2>1. /\ pc[c] = "spawn" /\ pc' = [pc EXCEPT ![c] = "leased", ![at[c]] = "run"]
        /\ at' = [at EXCEPT ![at[c]] = at[c]]
        /\ entries' = entries /\ state' = state /\ requested' = requested
    BY ZenonT(30), <1>3 DEF SpawnProducer
  <2>2. at[c] \in Entry
    BY ZenonT(30), <2>1 DEF TypeOK, HoldsArc
  <2>3. /\ pc'[c] = "leased" /\ at'[c] = at[c]
        /\ \A d \in Client \ {c} : pc'[d] = pc[d] /\ at'[d] = at[d]
    BY <2>1, <2>2 DEF TypeOK
  <2>4. SameLeases
    BY ZenonT(30), <2>1, <2>3 DEF SameLeases, Owns
  <2> QED
    BY ZenonT(30), <2>4, QuietStep
<1>4. CASE SignalCancel(c)
  BY <1>4, QuietStep DEF SignalCancel, SameLeases, Owns, TypeOK, HoldsArc
<1> QED
  BY ZenonT(30), <1>1, <1>2, <1>3, <1>4

LEMMA WaitCancelledFlight ==
  ASSUME RInv, NEW e \in Entry, WaitCancelled(e)
  PROVE  FlightStep
BY ZenonT(30), QuietStep, ActorsDistinct
DEF RInv, IInv, Actor, WaitCancelled, Goto, SameLeases, Owns, TypeOK

LEMMA NotifyFlight ==
  ASSUME RInv, NEW a \in Actor, Notify(a)
  PROVE  FlightStep
BY QuietStep, ActorsDistinct
DEF RInv, IInv, Actor, Notify, Sleepers, SameLeases, Owns, TypeOK

LEMMA LeaveQuietly ==
  ASSUME RInv, NEW a \in Actor, pc[a] \in RetirePC, Leave(a),
         entries' = entries, state' = state, requested' = requested
  PROVE  FlightStep
BY ZenonT(30), QuietStep, ActorsDistinct
DEF RInv, IInv, Actor, Leave, RetirePC, SameLeases, Owns, TypeOK

LEMMA GotoQuietly ==
  ASSUME RInv, NEW a \in Actor, pc[a] \in RetirePC, NEW w \in RetirePC, Goto(a, w),
         at' = at, entries' = entries, state' = state, requested' = requested
  PROVE  FlightStep
BY ZenonT(30), QuietStep, ActorsDistinct
DEF RInv, IInv, Actor, Goto, RetirePC, SameLeases, Owns, TypeOK

LEMMA RetireReadFlight ==
  ASSUME RInv, NEW a \in Actor,
         RetireTerminal(a) \/ RetireUnowned(a) \/ RetireCurrent(a)
  PROVE  FlightStep
<1>1. pc[a] \in RetirePC
  BY ZenonT(30) DEF RetireTerminal, RetireUnowned, RetireCurrent, RetirePC
<1>2. entries' = entries /\ state' = state /\ requested' = requested
  BY ZenonT(30) DEF RetireTerminal, RetireUnowned, RetireCurrent
<1>3. \/ Leave(a)
      \/ at' = at /\ \E w \in RetirePC : Goto(a, w)
  BY ZenonT(30) DEF RetireTerminal, RetireUnowned, RetireCurrent, RetirePC
<1> QED
  BY ZenonT(30), <1>1, <1>2, <1>3, LeaveQuietly, GotoQuietly

LEMMA RetireRecheckFlight ==
  ASSUME RInv, NEW a \in Actor, RetireRecheck(a)
  PROVE  FlightStep
<1> USE ActorsDistinct DEF RInv, IInv, Actor
<1> DEFINE e == at[a]
           k == key[e]
<1>1. /\ e \in Entry /\ k \in Key /\ entries[k] = e /\ state[e] \in Outcome
      /\ pc[a] = "retireRecheck" /\ Leave(a) /\ state' = state /\ requested' = requested
  BY ZenonT(30) DEF RetireRecheck, TypeOK, HoldsArc, LockedCurrent, PastTerminalCheck
<1>2. CASE owners[e] # 0
  BY <1>1, <1>2, LeaveQuietly DEF RetireRecheck, RetirePC
<1>3. CASE owners[e] = 0
  <2>1. entries' = [entries EXCEPT ![k] = NoEntry]
    BY ZenonT(30), <1>3 DEF RetireRecheck
  <2>2. \A j \in Key : entries'[j] = IF j = k THEN NoEntry ELSE entries[j]
    BY ZenonT(30), <1>1, <2>1 DEF TypeOK
  <2>3. OwnerSet(e) = {}
    <3>1. a \in Strong(e)
      BY ZenonT(30) DEF Strong
    <3>2. Cardinality(OwnerSet(e)) = 0
      BY ZenonT(30), <1>1, <1>3, <3>1 DEF OwnersCounted
    <3> QED
      BY ZenonT(30), <3>2, FinitelyManyClients, FS_Subset, FS_EmptySet DEF OwnerSet
  <2>4. SharersOf(k) = {}
    BY ZenonT(30), <1>1, <2>3 DEF SharersOf, OwnerSet
  <2>5. \A d \in Client : /\ \A f \in Entry : Owns(d, f)' <=> Owns(d, f)
                          /\ ~Owns(d, NoEntry)'
    BY ZenonT(30), <1>1 DEF Leave, Owns, TypeOK, HoldsArc
  <2>6. SameSharers
    <3> SUFFICES ASSUME NEW j \in Key PROVE SharersOf(j)' = SharersOf(j)
      BY ZenonT(30) DEF SameSharers
    <3>1. CASE j = k
      BY ZenonT(30), <2>2, <2>4, <2>5, <3>1 DEF SharersOf, Owns
    <3>2. CASE j # k /\ entries[j] = NoEntry
      BY <2>2, <2>5, <3>2 DEF SharersOf, Owns, HoldsArc
    <3>3. CASE j # k /\ entries[j] # NoEntry
      <4>1. entries[j] \in Entry /\ entries'[j] = entries[j]
        BY ZenonT(30), <2>2, <3>3 DEF TypeOK
      <4> QED
        BY ZenonT(30), <4>1, <2>5 DEF SharersOf, Owns
    <3> QED
      BY <3>1, <3>2, <3>3
  <2>7. /\ FlightOf(k) \in Outcome
        /\ \A j \in Key : FlightOf(j)' = IF j = k THEN "idle" ELSE FlightOf(j)
    BY <1>1, <2>2 DEF FlightOf
  <2>8. \A j \in Key : StopOf(j)' = IF j = k THEN FALSE ELSE StopOf(j)
    BY Zenon, <1>1, <2>2 DEF StopOf
  <2>9. SameOutcomes
    BY ZenonT(30), <1>1 DEF SameOutcomes, OutcomeOf, Leave, TypeOK
  <2> QED
    BY ZenonT(30), <1>1, <2>4, <2>6, <2>7, <2>8, <2>9, ForgetStep
<1> QED
  BY ZenonT(30), <1>2, <1>3

\* The outcome of an entry that runs: the wait of nobody has returned on it.
LEMMA SettleEntry ==
  ASSUME RInv, NEW e \in Entry, NEW outcome \in Outcome, NEW a \in Actor,
         state[e] = "running", entries[key[e]] = e,
         state' = [state EXCEPT ![e] = outcome],
         entries' = entries, requested' = requested, at' = at,
         NEW w, Goto(a, w),
         a \in Client => pc[a] = "spawn" /\ w = "failNotify"
  PROVE  FlightStep
<1> USE ActorsDistinct DEF RInv, IInv, Actor
<1> DEFINE k == key[e]
<1>1. k \in Key /\ \A j \in Key : entries[j] = e => j = k
  BY ZenonT(30) DEF TypeOK, NoStaleRegistration
<1>2. /\ FlightOf(k) = "running"
      /\ \A j \in Key : FlightOf(j)' = IF j = k THEN outcome ELSE FlightOf(j)
  BY ZenonT(30), <1>1 DEF FlightOf, TypeOK
<1>3. SameStops
  BY DEF SameStops, StopOf
<1>4. \A d \in Client : /\ \A f : Owns(d, f)' <=> Owns(d, f)
                        /\ pc'[d] = "waited" <=> pc[d] = "waited"
  BY ZenonT(30) DEF Owns, Goto, TypeOK
<1>5. SameSharers
  BY ZenonT(30), <1>4 DEF SameSharers, SharersOf, Owns
<1>6. \A d \in Client : pc[d] = "waited" => at[d] # e /\ at[d] \in Entry
  BY ZenonT(30) DEF WaitedSettled, HoldsArc, TypeOK, Outcome
<1>7. SameOutcomes
  BY ZenonT(30), <1>4, <1>6 DEF SameOutcomes, OutcomeOf, TypeOK
<1> QED
  BY ZenonT(30), <1>1, <1>2, <1>3, <1>5, <1>7, SettleStep

LEMMA SpawnFailsFlight ==
  ASSUME RInv, NEW c \in Client, SpawnFails(c)
  PROVE  FlightStep
<1> USE DEF RInv, IInv, Actor, SpawnFails
<1>1. at[c] \in Entry /\ state[at[c]] = "running" /\ entries[key[at[c]]] = at[c]
  BY DEF TypeOK, HoldsArc, SpawnOnce, Spawning, LeaseKeepsEntry, Owns
<1>2. "failed" \in Outcome
  BY DEF Outcome
<1> QED
  BY Zenon, <1>1, <1>2, SettleEntry

LEMMA FinishFlight ==
  ASSUME RInv, NEW e \in Entry, Finish(e)
  PROVE  FlightStep
<1> USE DEF RInv, IInv, Actor
<1>1. state[e] = "running" /\ entries[key[e]] = e
  BY DEF Finish, ProducerRunning, Working
<1>2. PICK outcome \in Outcome : state' = [state EXCEPT ![e] = outcome]
  BY Zenon DEF Finish
<1>3. e \notin Client /\ Goto(e, "notify") /\ entries' = entries
      /\ requested' = requested /\ at' = at
  BY ZenonT(30), ActorsDistinct DEF Finish
<1> QED
  BY Zenon, <1>1, <1>2, <1>3, SettleEntry

LEMMA WaitFlight ==
  ASSUME RInv, NEW c \in Client, Wait(c)
  PROVE  FlightStep
<1> USE ActorsDistinct DEF RInv, IInv, Actor
<1> DEFINE e == at[c]
           k == key[e]
<1>1. /\ e \in Entry /\ k \in Key /\ entries[k] = e /\ Owns(c, e)
      /\ entries' = entries /\ state' = state /\ requested' = requested /\ at' = at
  BY SMTT(30) DEF Wait, TypeOK, HoldsArc, LeaseKeepsEntry, Owns
<1>2. CASE state[e] \notin Outcome
  BY ZenonT(30), <1>1, <1>2, QuietStep DEF Wait, Goto, SameLeases, Owns, TypeOK
<1>3. CASE state[e] \in Outcome
  <2>1. pc' = [pc EXCEPT ![c] = "waited"] /\ pc[c] \in {"leased", "woken"}
    BY ZenonT(30), <1>3 DEF Wait, Goto
  <2>2. \A d \in Client : \A f : Owns(d, f)' <=> Owns(d, f)
    BY ZenonT(30), <1>1, <2>1 DEF Owns, TypeOK
  <2>3. SameFlights /\ SameStops
    BY <1>1 DEF SameFlights, SameStops, FlightOf, StopOf
  <2>4. SameSharers
    BY ZenonT(30), <1>1, <2>2 DEF SameSharers, SharersOf, Owns
  <2>5. c \in SharersOf(k) /\ FlightOf(k) = state[e]
    BY ZenonT(30), <1>1 DEF SharersOf, FlightOf
  <2>6. \A d \in Client : OutcomeOf(d)' = IF d = c THEN state[e] ELSE OutcomeOf(d)
    BY ZenonT(30), <1>1, <2>1 DEF OutcomeOf, TypeOK
  <2> QED
    BY <1>1, <1>3, <2>3, <2>4, <2>5, <2>6, ReceiveStep
<1> QED
  BY ZenonT(30), <1>2, <1>3

LEMMA DropLeaseFlight ==
  ASSUME RInv, NEW c \in Client, DropLease(c)
  PROVE  FlightStep
<1> USE ActorsDistinct DEF RInv, IInv, Actor
<1> DEFINE e == at[c]
           k == key[e]
<1>1. /\ e \in Entry /\ k \in Key /\ entries[k] = e /\ Owns(c, e)
      /\ entries' = entries /\ state' = state /\ at' = at
      /\ \A j \in Key : entries[j] = e => j = k
  <2>1. pc[c] \in {"leased", "waited"} /\ entries' = entries /\ state' = state /\ at' = at
    BY ZenonT(30) DEF DropLease
  <2>2. e \in Entry /\ Owns(c, e)
    BY ZenonT(30), <2>1 DEF TypeOK, HoldsArc, Owns
  <2>3. k \in Key /\ e # NoEntry
    BY ZenonT(30), <2>2 DEF TypeOK
  <2>4. entries[k] = e
    BY ZenonT(30), <2>2 DEF LeaseKeepsEntry
  <2>5. \A j \in Key : entries[j] = e => j = k
    BY ZenonT(30), <2>3 DEF NoStaleRegistration
  <2> QED
    BY ZenonT(30), <2>1, <2>2, <2>3, <2>4, <2>5
<1>2. \E w \in {"signal", "retire"} : pc' = [pc EXCEPT ![c] = w]
  BY DEF DropLease, Goto
<1>3. /\ \A f : ~Owns(c, f)'
      /\ \A d \in Client : d # c => \A f : Owns(d, f)' <=> Owns(d, f)
  BY ZenonT(30), <1>1, <1>2 DEF Owns, TypeOK
<1>4. c \in SharersOf(k) /\ SharersOf(k) = OwnerSet(e)
  BY <1>1 DEF SharersOf, OwnerSet
<1>5. \A j \in Key : SharersOf(j)' = IF j = k THEN SharersOf(j) \ {c} ELSE SharersOf(j)
  <2>1. ASSUME NEW j \in Key, NEW d \in Client
        PROVE  d \in SharersOf(j)' <=>
                 d \in (IF j = k THEN SharersOf(j) \ {c} ELSE SharersOf(j))
    <3>1. CASE d = c
      BY ZenonT(30), <1>1, <1>3, <3>1 DEF SharersOf, Owns
    <3>2. CASE d # c
      BY ZenonT(30), <1>1, <1>3, <3>2 DEF SharersOf, Owns
    <3> QED
      BY ZenonT(30), <3>1, <3>2
  <2>2. \A j \in Key : SharersOf(j) \subseteq Client /\ SharersOf(j)' \subseteq Client
    BY ZenonT(30) DEF SharersOf
  <2> QED
    BY ZenonT(30), <2>1, <2>2
<1>6. owners[e] = 1 <=> OwnerSet(e) = {c}
  <2>1. owners[e] = Cardinality(OwnerSet(e)) /\ IsFiniteSet(OwnerSet(e)) /\ c \in OwnerSet(e)
    BY Zenon, <1>1, <1>4, FinitelyManyClients, FS_Subset DEF OwnersCounted, Strong, OwnerSet
  <2>2. Cardinality({c}) = 1 /\ IsFiniteSet({c})
    BY Zenon, FS_Singleton
  <2>3. ASSUME owners[e] = 1 PROVE OwnerSet(e) = {c}
    <3>1. PICK x : OwnerSet(e) = {x}
      BY Zenon, <2>1, <2>3, FS_Singleton
    <3> QED
      BY Zenon, <2>1, <3>1
  <2> QED
    BY <2>1, <2>2, <2>3
<1>7. \A j \in Key : StopOf(j)' =
          IF j = k THEN StopOf(j) \/ (OwnerBound /\ SharersOf(k) = {c}) ELSE StopOf(j)
  <2>1. \A f \in Entry : f # e => requested'[f] = requested[f]
    BY ZenonT(30) DEF DropLease, TypeOK
  <2>2. requested'[e] <=> requested[e] \/ (OwnerBound /\ owners[e] = 1)
    BY ZenonT(30), <1>1 DEF DropLease, TypeOK
  <2>3. ASSUME NEW j \in Key, j # k PROVE StopOf(j)' = StopOf(j)
    BY ZenonT(30), <1>1, <2>1, <2>3 DEF StopOf, TypeOK
  <2>4. ASSUME NEW j \in Key, j = k
        PROVE  StopOf(j)' = (StopOf(j) \/ (OwnerBound /\ SharersOf(k) = {c}))
    <3>1. entries[j] = e /\ entries'[j] = e /\ e # NoEntry
      BY <1>1, <2>4
    <3>2. requested \in [Entry -> BOOLEAN] /\ requested' \in [Entry -> BOOLEAN]
      BY ZenonT(30) DEF DropLease, TypeOK
    <3>3. StopOf(j) = requested[e] /\ StopOf(j)' = requested'[e]
      BY ZenonT(30), <1>1, <3>1, <3>2 DEF StopOf
    <3> QED
      BY ZenonT(30), <1>1, <1>4, <1>6, <2>2, <3>2, <3>3
  <2> QED
    BY ZenonT(30), <2>3, <2>4
<1>8. SameFlights
  BY ZenonT(30), <1>1 DEF SameFlights, FlightOf
<1>9. \A d \in Client : OutcomeOf(d)' = IF d = c THEN "none" ELSE OutcomeOf(d)
  BY <1>1, <1>2 DEF OutcomeOf, TypeOK
<1> QED
  BY ZenonT(30), <1>1, <1>4, <1>5, <1>7, <1>8, <1>9, DepartStep

-----------------------------------------------------------------------------

LEMMA InitFlight == Init => Abstract!FlightInit
<1> SUFFICES ASSUME Init PROVE Abstract!FlightInit
  OBVIOUS
<1>1. \A k \in Key : FlightOf(k) = "idle" /\ SharersOf(k) = {} /\ StopOf(k) = FALSE
  BY DEF Init, FlightOf, SharersOf, StopOf, Owns, Actor
<1>2. \A c \in Client : OutcomeOf(c) = "none"
  BY DEF Init, OutcomeOf, Actor
<1> QED
  BY Zenon, <1>1, <1>2 DEF Abstract!FlightInit

LEMMA NextFlight == RInv /\ [Next]_vars => FlightStep
<1> SUFFICES ASSUME RInv, [Next]_vars PROVE FlightStep
  OBVIOUS
<1>1. ASSUME NEW c \in Client, ClientStep(c) PROVE FlightStep
  BY ZenonT(30), <1>1, JoinLookupFlight, JoinStartFlight, JoinAttachFlight, QuietClientFlight,
     SpawnFailsFlight, WaitFlight, DropLeaseFlight
  DEF ClientStep, Join
<1>2. ASSUME NEW e \in Entry, ProducerStep(e) PROVE FlightStep
  BY <1>2, FinishFlight, WaitCancelledFlight DEF ProducerStep
<1>3. ASSUME NEW a \in Actor, Retire(a) PROVE FlightStep
  BY ZenonT(30), <1>3, NotifyFlight, RetireReadFlight, RetireRecheckFlight DEF Retire
<1>4. CASE UNCHANGED vars
  BY <1>4, QuietStep DEF vars, SameLeases, Owns
<1> QED
  BY <1>1, <1>2, <1>3, <1>4 DEF Next

\* For every number of clients, keys and entries and for both lifetimes, the
\* registry of shared_work.rs implements the abstract single-flight service.
THEOREM ImplementsSharedFlightHolds == Spec => ImplementsSharedFlight
<1>1. Init => RInv
  BY InitInv DEF RInv, WaitedSettled, Init, Actor
<1>2. RInv /\ [Next]_vars => RInv'
  BY NextInv, WaitedSettledInv DEF RInv
<1>3. RInv /\ [Next]_vars => [Abstract!FlightNext]_(Abstract!flightVars)
  BY NextFlight DEF FlightStep
<1> QED
  BY <1>1, <1>2, <1>3, InitFlight, PTL DEF Spec, ImplementsSharedFlight, Abstract!FlightSpec

=============================================================================
