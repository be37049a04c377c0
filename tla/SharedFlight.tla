---------------------------- MODULE SharedFlight ----------------------------
(***************************************************************************)
(* What the single-flight registry promises its consumers, with no threads,*)
(* mutexes, reference counts or retirement in it.  A key has at most one   *)
(* flight.  Whoever asks for the key while a flight exists shares it, all  *)
(* sharers get the one outcome, the flight is told to stop only when the   *)
(* last sharer has left, and it is forgotten only when it has settled and  *)
(* nobody shares it.  SharedWork is shown to implement this.               *)
(***************************************************************************)
CONSTANTS Client, Key, OwnerBound

VARIABLES flight,   \* key -> "idle", "running" or the outcome
          sharers,  \* key -> the clients that hold a lease on its flight
          stop,     \* key -> its flight has been told to stop
          got       \* client -> the outcome its wait returned

flightVars == <<flight, sharers, stop, got>>

Settled == {"ready", "failed"}

FlightInit == /\ flight = [k \in Key |-> "idle"]
              /\ sharers = [k \in Key |-> {}]
              /\ stop = [k \in Key |-> FALSE]
              /\ got = [c \in Client |-> "none"]

Free(c) == \A k \in Key : c \notin sharers[k]

\* Nobody flies for the key: the client starts a flight and shares it.
Start(c, k) == /\ Free(c) /\ flight[k] = "idle"
               /\ flight' = [flight EXCEPT ![k] = "running"]
               /\ sharers' = [sharers EXCEPT ![k] = {c}]
               /\ stop' = [stop EXCEPT ![k] = FALSE]
               /\ UNCHANGED got

\* A flight exists, settled or not: the client shares it.
Share(c, k) == /\ Free(c) /\ flight[k] # "idle"
               /\ sharers' = [sharers EXCEPT ![k] = @ \cup {c}]
               /\ UNCHANGED <<flight, stop, got>>

Settle(k) == /\ flight[k] = "running"
             /\ \E outcome \in Settled : flight' = [flight EXCEPT ![k] = outcome]
             /\ UNCHANGED <<sharers, stop, got>>

\* A sharer learns the outcome of its flight, which is everybody's.
Receive(c, k) == /\ c \in sharers[k] /\ flight[k] \in Settled
                 /\ got' = [got EXCEPT ![c] = flight[k]]
                 /\ UNCHANGED <<flight, sharers, stop>>

\* The last sharer to leave an owner-bound flight stops it.
Depart(c, k) == /\ c \in sharers[k]
                /\ sharers' = [sharers EXCEPT ![k] = @ \ {c}]
                /\ stop' = [stop EXCEPT ![k] = @ \/ (OwnerBound /\ sharers[k] = {c})]
                /\ got' = [got EXCEPT ![c] = "none"]
                /\ UNCHANGED flight

Forget(k) == /\ flight[k] \in Settled /\ sharers[k] = {}
             /\ flight' = [flight EXCEPT ![k] = "idle"]
             /\ stop' = [stop EXCEPT ![k] = FALSE]
             /\ UNCHANGED <<sharers, got>>

FlightNext == \E k \in Key :
    \/ Settle(k) \/ Forget(k)
    \/ \E c \in Client : Start(c, k) \/ Share(c, k) \/ Receive(c, k) \/ Depart(c, k)

FlightSpec == FlightInit /\ [][FlightNext]_flightVars
=============================================================================
