------------------------ MODULE SharedWorkRefinement ------------------------
(***************************************************************************)
(* SharedWork implements SharedFlight.  A key's flight is the entry the    *)
(* registry names; its sharers are the clients whose lease counts, which a *)
(* joining client is not until it has passed the ownership mutex.          *)
(***************************************************************************)
EXTENDS SharedWork

FlightOf(k) == IF entries[k] = NoEntry THEN "idle" ELSE state[entries[k]]
SharersOf(k) == {c \in Client : Owns(c, entries[k])}
StopOf(k) == entries[k] # NoEntry /\ requested[entries[k]]
OutcomeOf(c) == IF pc[c] = "waited" THEN state[at[c]] ELSE "none"

Abstract == INSTANCE SharedFlight WITH
    flight <- [k \in Key |-> FlightOf(k)],
    sharers <- [k \in Key |-> SharersOf(k)],
    stop <- [k \in Key |-> StopOf(k)],
    got <- [c \in Client |-> OutcomeOf(c)]

\* The registry with its threads, three mutexes, Weak references and racing
\* retirements behaves as the abstract service: one flight per key, one outcome
\* for all its sharers, a stop only after the last of them left, and no flight
\* forgotten while it runs or is shared (join_or_start, finish, drop of a lease
\* and retire_if_terminal_and_unowned).
ImplementsSharedFlight == Abstract!FlightSpec
=============================================================================
