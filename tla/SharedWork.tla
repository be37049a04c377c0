----------------------------- MODULE SharedWork -----------------------------
(***************************************************************************)
(* The exact-key single-flight registry of unica-work-control              *)
(* (shared_work.rs).  Consumers join the running producer of their key or  *)
(* start one, receive a lease at once, and wait on it, or leave, later.    *)
(*                                                                         *)
(* A step is one critical section of the code: the registry mutex, the     *)
(* ownership mutex, the state mutex with its condition variable `settled`, *)
(* and the producer's signal mutex with its condition variable `wake`.     *)
(* The registry mutex is held across steps where the code nests another    *)
(* mutex inside it (joining and the retirement recheck), so it is explicit.*)
(*                                                                         *)
(* An actor is a client thread or the producer thread of an entry; the     *)
(* producer thread is named by its entry.  `at[a]` is the entry whose Arc  *)
(* the actor holds; the registry itself holds Weak references only.        *)
(***************************************************************************)
EXTENDS Naturals, FiniteSets

CONSTANTS Client,      \* threads that join, wait and leave
          Key,         \* exact work identities
          Entry,       \* identities of live entries; reused once freed
          NoEntry,     \* "no entry"
          Unlocked,    \* the registry mutex is free
          OwnerBound   \* SharedWorkLifetime: TRUE OwnerBound, FALSE ProducerBound

ASSUME ActorsDistinct == /\ Client \cap Entry = {}
                         /\ NoEntry \notin Entry
                         /\ Unlocked \notin Client \cup Entry
ASSUME LifetimeIsBoolean == OwnerBound \in BOOLEAN
ASSUME FinitelyManyClients == IsFiniteSet(Client)
ASSUME SomeKey == Key # {}

VARIABLES entries,    \* registry: key -> Weak entry, or NoEntry
          lock,       \* holder of the registry mutex across steps
          key,        \* key of each entry
          owners,     \* SharedWorkOwnership.owners
          requested,  \* SharedWorkOwnership.cancellation_requested
          cancelled,  \* ProducerSignal.cancelled
          state,      \* "running" or how the entry finished
          pc,         \* where each actor is
          at          \* the entry whose Arc each actor holds

vars == <<entries, lock, key, owners, requested, cancelled, state, pc, at>>

Actor == Client \cup Entry
Outcome == {"ready", "failed"}

\* Where an actor can be inside finish and retire_if_terminal_and_unowned.
RetirePC == {"retire", "retireOwners", "retireLock", "retireRecheck"}
ClientPC == {"idle", "attach", "spawn", "failNotify", "failRetire", "leased",
             "asleep", "woken", "timed", "waited", "signal"} \cup RetirePC
ProducerPC == {"dead", "run", "asleep", "notify"} \cup RetirePC

TypeOK == /\ entries \in [Key -> Entry \cup {NoEntry}]
          /\ lock \in Actor \cup {Unlocked}
          /\ key \in [Entry -> Key]
          /\ owners \in [Entry -> Nat]
          /\ requested \in [Entry -> BOOLEAN]
          /\ cancelled \in [Entry -> BOOLEAN]
          /\ state \in [Entry -> {"running"} \cup Outcome]
          /\ pc \in [Actor -> ClientPC \cup ProducerPC]
          /\ \A c \in Client : pc[c] \in ClientPC
          /\ \A e \in Entry : pc[e] \in ProducerPC
          /\ at \in [Actor -> Entry \cup {NoEntry}]

-----------------------------------------------------------------------------

\* The actors that keep an entry's Arc alive (Weak::upgrade succeeds iff any).
Strong(e) == {a \in Actor : at[a] = e}

\* The registry after `entries.retain(|_, entry| entry.strong_count() > 0)`.
Retained ==
    [k \in Key |-> IF entries[k] # NoEntry /\ Strong(entries[k]) # {}
                   THEN entries[k] ELSE NoEntry]

\* An entry identity that no Arc holds and no registry slot names.
Fresh(e) == Strong(e) = {} /\ \A k \in Key : entries[k] # e

Init == /\ entries = [k \in Key |-> NoEntry]
        /\ lock = Unlocked
        /\ key = [e \in Entry |-> CHOOSE k \in Key : TRUE]
        /\ owners = [e \in Entry |-> 0]
        /\ requested = [e \in Entry |-> FALSE]
        /\ cancelled = [e \in Entry |-> FALSE]
        /\ state = [e \in Entry |-> "running"]
        /\ pc = [a \in Actor |-> IF a \in Client THEN "idle" ELSE "dead"]
        /\ at = [a \in Actor |-> NoEntry]

\* Move one actor; a woken set of actors moves with it.
Goto(a, where) == pc' = [pc EXCEPT ![a] = where]

\* join_or_start finds a live entry: it upgrades the Weak reference and goes
\* for the ownership mutex with the registry mutex still held.
JoinLookup(c, k) ==
    /\ pc[c] = "idle" /\ lock = Unlocked
    /\ Retained[k] # NoEntry
    /\ entries' = Retained
    /\ at' = [at EXCEPT ![c] = Retained[k]]
    /\ lock' = c
    /\ Goto(c, "attach")
    /\ UNCHANGED <<key, owners, requested, cancelled, state>>

\* ... and becomes one more owner of it.
JoinAttach(c) ==
    /\ pc[c] = "attach"
    /\ owners' = [owners EXCEPT ![at[c]] = @ + 1]
    /\ lock' = Unlocked
    /\ Goto(c, "leased")
    /\ UNCHANGED <<entries, key, requested, cancelled, state, at>>

\* join_or_start finds none: it registers a new entry with one owner.
JoinStart(c, k) ==
    /\ pc[c] = "idle" /\ lock = Unlocked
    /\ Retained[k] = NoEntry
    /\ \E e \in Entry :
         /\ Fresh(e)
         /\ entries' = [Retained EXCEPT ![k] = e]
         /\ key' = [key EXCEPT ![e] = k]
         /\ owners' = [owners EXCEPT ![e] = 1]
         /\ requested' = [requested EXCEPT ![e] = FALSE]
         /\ cancelled' = [cancelled EXCEPT ![e] = FALSE]
         /\ state' = [state EXCEPT ![e] = "running"]
         /\ at' = [at EXCEPT ![c] = e]
    /\ Goto(c, "spawn")
    /\ UNCHANGED lock

\* The producer thread starts; its closure holds the entry.
SpawnProducer(c) ==
    /\ pc[c] = "spawn"
    /\ pc' = [pc EXCEPT ![c] = "leased", ![at[c]] = "run"]
    /\ at' = [at EXCEPT ![at[c]] = at[c]]
    /\ UNCHANGED <<entries, lock, key, owners, requested, cancelled, state>>

\* The thread cannot be created: the joining client itself finishes the entry.
SpawnFails(c) ==
    /\ pc[c] = "spawn"
    /\ state' = [state EXCEPT ![at[c]] = "failed"]
    /\ Goto(c, "failNotify")
    /\ UNCHANGED <<entries, lock, key, owners, requested, cancelled, at>>

\* finish: the work returned, failed or panicked; the result is published.
Finish(e) ==
    /\ pc[e] = "run"
    /\ \E outcome \in Outcome : state' = [state EXCEPT ![e] = outcome]
    /\ Goto(e, "notify")
    /\ UNCHANGED <<entries, lock, key, owners, requested, cancelled, at>>

\* The clients that sleep on the entry's condition variable `settled`.
Sleepers(e) == {c \in Client : at[c] = e /\ pc[c] \in {"asleep", "timed"}}

\* Variant: notify_one in place of notify_all.
NotifyOne(a) ==
    /\ pc[a] \in {"notify", "failNotify"}
    /\ LET woken == IF Sleepers(at[a]) = {} THEN {}
                    ELSE {CHOOSE c \in Sleepers(at[a]) : TRUE}
       IN pc' = [b \in Actor |->
                   IF b = a THEN IF pc[a] = "notify" THEN "retire" ELSE "failRetire"
                   ELSE IF b \notin woken THEN pc[b]
                   ELSE IF pc[b] = "asleep" THEN "woken" ELSE "leased"]
    /\ UNCHANGED <<entries, lock, key, owners, requested, cancelled, state, at>>

\* finish, second half: settled.notify_all(), outside the state mutex.
Notify(a) ==
    /\ pc[a] \in {"notify", "failNotify"}
    /\ pc' = [b \in Actor |->
                IF b = a THEN IF pc[a] = "notify" THEN "retire" ELSE "failRetire"
                ELSE IF b \notin Sleepers(at[a]) THEN pc[b]
                ELSE IF pc[b] = "asleep" THEN "woken" ELSE "leased"]
    /\ UNCHANGED <<entries, lock, key, owners, requested, cancelled, state, at>>

\* SharedWorkProducer::wait_cancelled checks and sleeps under one mutex.
WaitCancelled(e) ==
    /\ pc[e] = "run" /\ ~cancelled[e]
    /\ Goto(e, "asleep")
    /\ UNCHANGED <<entries, lock, key, owners, requested, cancelled, state, at>>

\* SharedWorkLease::wait: return if finished, otherwise sleep; a woken
\* client checks again.
Wait(c) ==
    /\ pc[c] \in {"leased", "woken"}
    /\ Goto(c, IF state[at[c]] \in Outcome THEN "waited" ELSE "asleep")
    /\ UNCHANGED <<entries, lock, key, owners, requested, cancelled, state, at>>

\* SharedWorkLease::wait_timeout sleeps at most once and keeps the lease.
WaitTimeout(c) ==
    /\ \/ pc[c] = "leased" /\ state[at[c]] = "running" /\ Goto(c, "timed")
       \/ pc[c] = "timed" /\ Goto(c, "leased")
    /\ UNCHANGED <<entries, lock, key, owners, requested, cancelled, state, at>>

\* Variant: every departing owner cancels, not only the last one.
DropLeaseCancels(c) ==
    /\ pc[c] \in {"leased", "waited"}
    /\ owners' = [owners EXCEPT ![at[c]] = @ - 1]
    /\ IF OwnerBound /\ ~requested[at[c]]
       THEN /\ requested' = [requested EXCEPT ![at[c]] = TRUE]
            /\ Goto(c, "signal")
       ELSE /\ Goto(c, "retire")
            /\ UNCHANGED requested
    /\ UNCHANGED <<entries, lock, key, cancelled, state, at>>

\* Drop of a lease: one owner less; the last one of an owner-bound entry
\* claims the duty to cancel its producer.
DropLease(c) ==
    /\ pc[c] \in {"leased", "waited"}
    /\ owners' = [owners EXCEPT ![at[c]] = @ - 1]
    /\ IF owners[at[c]] = 1 /\ OwnerBound /\ ~requested[at[c]]
       THEN /\ requested' = [requested EXCEPT ![at[c]] = TRUE]
            /\ Goto(c, "signal")
       ELSE /\ Goto(c, "retire")
            /\ UNCHANGED requested
    /\ UNCHANGED <<entries, lock, key, cancelled, state, at>>

\* Variant: the flag is set without waking the producer.
SignalCancelSilently(c) ==
    /\ pc[c] = "signal"
    /\ cancelled' = [cancelled EXCEPT ![at[c]] = TRUE]
    /\ Goto(c, "retire")
    /\ UNCHANGED <<entries, lock, key, owners, requested, state, at>>

\* ProducerSignal::cancel sets the flag and wakes the producer, under the
\* mutex the producer sleeps with.
SignalCancel(c) ==
    /\ pc[c] = "signal"
    /\ cancelled' = [cancelled EXCEPT ![at[c]] = TRUE]
    /\ pc' = [pc EXCEPT ![c] = "retire",
                        ![at[c]] = IF @ = "asleep" THEN "run" ELSE @]
    /\ UNCHANGED <<entries, lock, key, owners, requested, state, at>>

-----------------------------------------------------------------------------
\* retire_if_terminal_and_unowned, run by a client that dropped its lease and
\* by a producer that finished.  Leaving it releases the actor's Arc.

Leave(a) == /\ pc' = [pc EXCEPT ![a] = IF a \in Client THEN "idle" ELSE "dead"]
            /\ at' = [at EXCEPT ![a] = NoEntry]

\* Variant: an unowned entry retires although its producer still runs.
RetireTerminalUnchecked(a) ==
    /\ pc[a] = "retire"
    /\ Goto(a, "retireOwners")
    /\ UNCHANGED <<entries, lock, key, owners, requested, cancelled, state, at>>

\* The terminal flag is read under the state mutex.
RetireTerminal(a) ==
    /\ pc[a] = "retire"
    /\ IF state[at[a]] \in Outcome
       THEN Goto(a, "retireOwners") /\ UNCHANGED at
       ELSE Leave(a)
    /\ UNCHANGED <<entries, lock, key, owners, requested, cancelled, state>>

\* The owner count is read under the ownership mutex: the fast path.
RetireUnowned(a) ==
    /\ pc[a] = "retireOwners"
    /\ IF owners[at[a]] = 0
       THEN Goto(a, "retireLock") /\ UNCHANGED at
       ELSE Leave(a)
    /\ UNCHANGED <<entries, lock, key, owners, requested, cancelled, state>>

\* Under the registry mutex: is this entry still the registered one?
RetireCurrent(a) ==
    /\ pc[a] = "retireLock" /\ lock = Unlocked
    /\ IF entries[key[at[a]]] = at[a]
       THEN lock' = a /\ Goto(a, "retireRecheck") /\ UNCHANGED at
       ELSE Leave(a) /\ UNCHANGED lock
    /\ UNCHANGED <<entries, key, owners, requested, cancelled, state>>

\* Registry, then ownership: the recheck that decides the removal.
RetireRecheck(a) ==
    /\ pc[a] = "retireRecheck"
    /\ entries' = IF owners[at[a]] = 0
                  THEN [entries EXCEPT ![key[at[a]]] = NoEntry] ELSE entries
    /\ lock' = Unlocked
    /\ Leave(a)
    /\ UNCHANGED <<key, owners, requested, cancelled, state>>

\* The client whose spawn failed still owns the entry it finished, so the
\* retirement attempt inside finish returns at the owner count.
FailRetire(c) ==
    /\ pc[c] = "failRetire"
    /\ owners[at[c]] # 0
    /\ Goto(c, "leased")
    /\ UNCHANGED <<entries, lock, key, owners, requested, cancelled, state, at>>

-----------------------------------------------------------------------------

Join(c) == \E k \in Key : JoinLookup(c, k) \/ JoinStart(c, k)

ClientStep(c) == \/ Join(c) \/ JoinAttach(c)
                 \/ SpawnProducer(c) \/ SpawnFails(c) \/ FailRetire(c)
                 \/ Wait(c) \/ WaitTimeout(c)
                 \/ DropLease(c) \/ SignalCancel(c)

ProducerStep(e) == Finish(e) \/ WaitCancelled(e)

Retire(a) == \/ Notify(a) \/ RetireTerminal(a) \/ RetireUnowned(a)
             \/ RetireCurrent(a) \/ RetireRecheck(a)

Next == \/ \E c \in Client : ClientStep(c)
        \/ \E e \in Entry : ProducerStep(e)
        \/ \E a \in Actor : Retire(a)

Spec == Init /\ [][Next]_vars

\* A client thread inside a call goes on; whether it joins, waits or leaves
\* is its caller's choice.
ClientProgress(c) ==
    \/ JoinAttach(c) \/ SpawnProducer(c) \/ SpawnFails(c) \/ FailRetire(c)
    \/ pc[c] = "woken" /\ Wait(c)
    \/ pc[c] = "waited" /\ DropLease(c)
    \/ SignalCancel(c)

\* Threads inside the registry's own code are scheduled.  Nothing is assumed
\* of the work closure: a producer need not ever finish.
Fairness == /\ \A c \in Client : WF_vars(ClientProgress(c))
            /\ \A a \in Actor : WF_vars(Retire(a))

FairSpec == Spec /\ Fairness

-----------------------------------------------------------------------------
\* Properties.

\* A client whose lease counts in `owners`.
Owns(c, e) == /\ at[c] = e
              /\ pc[c] \in {"spawn", "failNotify", "failRetire", "leased",
                            "asleep", "woken", "timed", "waited"}

\* An attempt exists from its registration until its outcome is published.
Attempt(e) == Strong(e) # {} /\ state[e] = "running"

\* At most one attempt per exact key at any time, so a new attempt starts only
\* after the previous one finished: join_or_start reuses every entry that a
\* running producer keeps alive, and retirement never unregisters one.
SingleFlight == \A e1, e2 \in Entry :
    Attempt(e1) /\ Attempt(e2) /\ key[e1] = key[e2] => e1 = e2

\* The owner counter equals the number of leases at every step, through joins
\* that race drops and through a failed spawn (it never underflows either).
OwnersExact == \A e \in Entry :
    Strong(e) # {} => owners[e] = Cardinality({c \in Client : Owns(c, e)})

\* As long as a consumer holds a lease its entry stays the registered one, so
\* everybody who joins meanwhile shares its result: the retirement recheck
\* under registry and ownership mutexes never loses to an attaching owner.
LeaseKeepsEntry == \A c \in Client, e \in Entry :
    Owns(c, e) => entries[key[e]] = e

\* The registry never names an entry nobody keeps alive: whoever releases the
\* last Arc has retired the entry first, whatever the order of the last drop,
\* of finish and of a late join.
NoStaleRegistration == \A k \in Key :
    entries[k] # NoEntry => Strong(entries[k]) # {} /\ key[entries[k]] = k

\* Cancellation is requested only at a moment when no consumer holds a lease:
\* one consumer's departure never cancels work another one needs.
CancelSparesOwners ==
    [][\A e \in Entry : requested'[e] /\ ~requested[e]
                          => \A c \in Client : ~Owns(c, e)']_vars

\* A producer asleep in wait_cancelled is woken once the last owner left: the
\* wake-up is not lost between its check and its sleep.
LastOwnerWakesProducer == \A e \in Entry :
    OwnerBound /\ pc[e] = "asleep" /\ owners[e] = 0 ~> pc[e] # "asleep"

\* A consumer asleep in wait on a finished entry returns: notify_all, sent
\* after the state mutex is released, misses nobody.
WaitersReturn == \A c \in Client :
    pc[c] = "asleep" /\ state[at[c]] \in Outcome ~> pc[c] = "waited"

=============================================================================
