----------------------- MODULE ProtectedDispatchProofs -----------------------
(***************************************************************************)
(* Machine-checked proofs for ProtectedDispatch, for any number of calls.  *)
(*                                                                         *)
(* No property is inductive by itself.  The argument follows one call: who *)
(* stands inside the gate saw the signal down, and it stays down while the *)
(* gate is held (GateOrders); past the gate the fact is recorded           *)
(* (FactRecorded); the facts of a call no longer change once its provider  *)
(* answered, so what provider_outcome saw is what the publication sees     *)
(* (Classified); and a raised signal has one of two authors (SignalHasAuthor).*)
(***************************************************************************)
EXTENDS ProtectedDispatch, TLAPS

\* The gate is held exactly inside a dispatch, and nobody cancels there.
GateOrders(c) ==
    /\ gate[c] <=> pc[c] \in {"gated", "spawned", "release", "released"}
    /\ pc[c] \in {"gated", "release"} => ~own[c]

\* Where a call stands tells what it runs and what its process does.
Placed(c) ==
    /\ pc[c] \in {"gated", "spawned"} => kind[c] = "mutation"
    /\ pc[c] \in {"verify", "release", "released"} => kind[c] = "launch"
    /\ pc[c] \in {"publish", "record"} => kind[c] = "apply"
    /\ pc[c] \in {"ready", "gated", "publish", "record"} => proc[c] = "none"
    /\ pc[c] \in {"spawned", "poll", "reap", "verify", "release"} => proc[c] = "running"
    /\ pc[c] = "released" => proc[c] = "released"
    /\ proc[c] = "released" => kind[c] = "launch"
    /\ applied[c] = "Committed" => pc[c] \in {"record", "answered", "judge", "settle", "done"}
    /\ kind[c] = "mutation" => proc[c] # "killed"

\* An effect outside is recorded in the token when the gate is released.
FactRecorded(c) ==
    Effect(c) /\ pc[c] \notin {"spawned", "released", "record"} => fact[c] \/ started[c]

\* A call without a fact keeps none until it is published.
Classified(c) ==
    /\ pc[c] = "judge" => own[c] /\ ~fact[c] /\ ~started[c]
    /\ result[c] = "Cancelled" =>
          asked[c] /\ pc[c] \in {"settle", "done"} /\ ~fact[c] /\ ~started[c]
    /\ outcome[c] = "Cancelled" =>
          asked[c] /\ pc[c] = "done" /\ ~fact[c] /\ ~started[c]

\* The signal was raised for a client that asked, or for the stop.
SignalHasAuthor(c) == own[c] => asked[c] \/ stopping

CallInv(c) ==
    GateOrders(c) /\ Placed(c) /\ FactRecorded(c) /\ Classified(c) /\ SignalHasAuthor(c)

IInv == TypeOK /\ \A c \in Calls : CallInv(c)

-----------------------------------------------------------------------------
\* The tokens, the processes and the threads keep their types.
THEOREM TypeCorrect == Spec => []TypeOK
<1>1. ASSUME Init PROVE TypeOK
  BY <1>1, Zenon DEF Init, TypeOK, PCs, Publications
<1>2. TypeOK /\ [Next]_vars => TypeOK'
  <2> SUFFICES ASSUME TypeOK, [Next]_vars PROVE TypeOK'
    OBVIOUS
  <2> USE DEF TypeOK, PCs
  <2>1. CASE UNCHANGED vars
    BY <2>1 DEF vars
  <2>2. CASE LatchStop
    BY <2>2 DEF LatchStop
  <2>3. ASSUME NEW d \in Calls, RequestCancel(d) PROVE TypeOK'
    BY <2>3 DEF RequestCancel
  <2>4. ASSUME NEW d \in Calls, SignalCancel(d) PROVE TypeOK'
    BY <2>4 DEF SignalCancel, Raise
  <2>5. ASSUME NEW d \in Calls, SignalStop(d) PROVE TypeOK'
    BY <2>5 DEF SignalStop, Raise
  <2>6. ASSUME NEW d \in Calls, Preempt(d) PROVE TypeOK'
    BY <2>6 DEF Preempt
  <2>7. ASSUME NEW d \in Calls, Spawn(d) PROVE TypeOK'
    BY <2>7 DEF Spawn, Answer
  <2>8. ASSUME NEW d \in Calls, EnterSpawn(d) PROVE TypeOK'
    BY <2>8, ZenonT(30) DEF EnterSpawn, Answer
  <2>9. ASSUME NEW d \in Calls, Launch(d) PROVE TypeOK'
    BY <2>9, ZenonT(30) DEF Launch, Answer
  <2>10. ASSUME NEW d \in Calls, LeaveSpawn(d) PROVE TypeOK'
    BY <2>10 DEF LeaveSpawn
  <2>11. ASSUME NEW d \in Calls, Poll(d) PROVE TypeOK'
    BY ZenonT(30), <2>11 DEF Poll, Answer
  <2>12. ASSUME NEW d \in Calls, StillRunning(d) PROVE TypeOK'
    BY <2>12 DEF StillRunning
  <2>13. ASSUME NEW d \in Calls, Exited(d) PROVE TypeOK'
    BY <2>13 DEF Exited, Answer
  <2>14. ASSUME NEW d \in Calls, EnterHandoff(d) PROVE TypeOK'
    BY <2>14, ZenonT(30) DEF EnterHandoff, Answer
  <2>15. ASSUME NEW d \in Calls, Release(d) PROVE TypeOK'
    BY <2>15, ZenonT(30) DEF Release, Answer
  <2>16. ASSUME NEW d \in Calls, LeaveHandoff(d) PROVE TypeOK'
    BY <2>16 DEF LeaveHandoff, Answer
  <2>17. ASSUME NEW d \in Calls, EnterApply(d) PROVE TypeOK'
    <3>1. fact' \in [Calls -> BOOLEAN]
      BY <2>17, Zenon DEF EnterApply
    <3>2. result' \in [Calls -> {"none", "Completed", "Failed", "Interrupted", "Cancelled"}]
      <4>1. Kept(saved) \in {"Completed", "Failed"}
        BY Zenon DEF Kept
      <4> QED
        BY <2>17, <4>1, ZenonT(30) DEF EnterApply, Answer
    <3>3. proc' \in [Calls -> {"none", "running", "exited", "killed", "released"}]
      BY <2>17, SMT DEF EnterApply, Answer
    <3>4. pc' \in [Calls -> PCs]
      BY <2>17, SMT DEF EnterApply, Answer
    <3>5. /\ lane' \in Calls \cup {NoCall}
          /\ saved' \in {"Pending", "Running"} \cup Publications
      BY <2>17, Zenon DEF EnterApply
    <3> QED
      BY <2>17, <3>1, <3>2, <3>3, <3>4, <3>5, Zenon DEF EnterApply
  <2>18. ASSUME NEW d \in Calls, PublishApply(d) PROVE TypeOK'
    BY <2>18 DEF PublishApply
  <2>19. ASSUME NEW d \in Calls, RecordApply(d) PROVE TypeOK'
    BY <2>19 DEF RecordApply, Answer, Kept
  <2>20. ASSUME NEW d \in Calls, Observe(d) PROVE TypeOK'
    BY <2>20 DEF Observe
  <2>21. ASSUME NEW d \in Calls, Judge(d) PROVE TypeOK'
    BY <2>21 DEF Judge
  <2>22. ASSUME NEW d \in Calls, Settle(d) PROVE TypeOK'
    BY <2>22, Zenon DEF Settle, OutcomeAfterCancel
  <2> QED
    BY <2>1, <2>2, <2>3, <2>4, <2>5, <2>6, <2>7, <2>8, <2>9, <2>10, <2>11, <2>12, <2>13,
       <2>14, <2>15, <2>16, <2>17, <2>18, <2>19, <2>20, <2>21, <2>22, Zenon DEF Next,
       CallStep, CancelStep
<1> QED
  BY <1>1, <1>2, PTL DEF Spec

\* The invariant of one call is preserved by every step, its own or another's.
LEMMA CallInvStep ==
    ASSUME TypeOK, [Next]_vars, NEW c \in Calls, CallInv(c)
    PROVE  CallInv(c)'
<1> USE DEF TypeOK, PCs, CallInv, GateOrders, Placed, FactRecorded, Effect, Classified,
            SignalHasAuthor
<1>1. CASE UNCHANGED vars
  BY <1>1 DEF vars
<1>2. CASE LatchStop
  BY <1>2 DEF LatchStop
<1>3. ASSUME NEW d \in Calls, RequestCancel(d) PROVE CallInv(c)'
  <2>1. CASE d = c
    BY <1>3, <2>1 DEF RequestCancel
  <2>2. CASE d # c
    BY <1>3, <2>2 DEF RequestCancel
  <2> QED
    BY <2>1, <2>2
<1>4. ASSUME NEW d \in Calls, SignalCancel(d) PROVE CallInv(c)'
  <2>1. CASE d = c
    BY <1>4, <2>1 DEF SignalCancel, Raise
  <2>2. CASE d # c
    BY <1>4, <2>2 DEF SignalCancel, Raise
  <2> QED
    BY <2>1, <2>2
<1>5. ASSUME NEW d \in Calls, SignalStop(d) PROVE CallInv(c)'
  <2>1. CASE d = c
    BY <1>5, <2>1 DEF SignalStop, Raise
  <2>2. CASE d # c
    BY <1>5, <2>2 DEF SignalStop, Raise
  <2> QED
    BY <2>1, <2>2
<1>6. ASSUME NEW d \in Calls, Preempt(d) PROVE CallInv(c)'
  <2>1. CASE d = c
    BY <1>6, <2>1 DEF Preempt
  <2>2. CASE d # c
    BY <1>6, <2>2 DEF Preempt
  <2> QED
    BY <2>1, <2>2
<1>7. ASSUME NEW d \in Calls, Spawn(d) PROVE CallInv(c)'
  <2>1. CASE d = c
    BY <1>7, <2>1 DEF Spawn, Answer
  <2>2. CASE d # c
    BY <1>7, <2>2 DEF Spawn, Answer
  <2> QED
    BY <2>1, <2>2
<1>8. ASSUME NEW d \in Calls, EnterSpawn(d) PROVE CallInv(c)'
  <2>1. CASE d = c
    BY <1>8, <2>1 DEF EnterSpawn, Answer, IsCancelled
  <2>2. CASE d # c
    BY <1>8, <2>2 DEF EnterSpawn, Answer, IsCancelled
  <2> QED
    BY <2>1, <2>2
<1>9. ASSUME NEW d \in Calls, Launch(d) PROVE CallInv(c)'
  <2>1. CASE d = c
    BY <1>9, <2>1 DEF Launch, Answer
  <2>2. CASE d # c
    BY <1>9, <2>2 DEF Launch, Answer
  <2> QED
    BY <2>1, <2>2
<1>10. ASSUME NEW d \in Calls, LeaveSpawn(d) PROVE CallInv(c)'
  <2>1. CASE d = c
    BY <1>10, <2>1 DEF LeaveSpawn
  <2>2. CASE d # c
    BY <1>10, <2>2 DEF LeaveSpawn
  <2> QED
    BY <2>1, <2>2
<1>11. ASSUME NEW d \in Calls, Poll(d) PROVE CallInv(c)'
  <2>1. CASE d = c
    BY <1>11, <2>1 DEF Poll, Answer, WorkCancelled
  <2>2. CASE d # c
    BY <1>11, <2>2 DEF Poll, Answer, WorkCancelled
  <2> QED
    BY <2>1, <2>2
<1>12. ASSUME NEW d \in Calls, StillRunning(d) PROVE CallInv(c)'
  <2>1. CASE d = c
    BY <1>12, <2>1 DEF StillRunning
  <2>2. CASE d # c
    BY <1>12, <2>2 DEF StillRunning
  <2> QED
    BY <2>1, <2>2
<1>13. ASSUME NEW d \in Calls, Exited(d) PROVE CallInv(c)'
  <2>1. CASE d = c
    BY <1>13, <2>1 DEF Exited, Answer
  <2>2. CASE d # c
    BY <1>13, <2>2 DEF Exited, Answer
  <2> QED
    BY <2>1, <2>2
<1>14. ASSUME NEW d \in Calls, EnterHandoff(d) PROVE CallInv(c)'
  <2>1. CASE d = c
    BY <1>14, <2>1 DEF EnterHandoff, Answer, IsCancelled
  <2>2. CASE d # c
    BY <1>14, <2>2 DEF EnterHandoff, Answer, IsCancelled
  <2> QED
    BY <2>1, <2>2
<1>15. ASSUME NEW d \in Calls, Release(d) PROVE CallInv(c)'
  <2>1. CASE d = c
    BY <1>15, <2>1 DEF Release, Answer
  <2>2. CASE d # c
    BY <1>15, <2>2 DEF Release, Answer
  <2> QED
    BY <2>1, <2>2
<1>16. ASSUME NEW d \in Calls, LeaveHandoff(d) PROVE CallInv(c)'
  <2>1. CASE d = c
    BY <1>16, <2>1 DEF LeaveHandoff, Answer
  <2>2. CASE d # c
    BY <1>16, <2>2 DEF LeaveHandoff, Answer
  <2> QED
    BY <2>1, <2>2
<1>17. ASSUME NEW d \in Calls, EnterApply(d) PROVE CallInv(c)'
  <2>1. CASE d = c
    BY <1>17, <2>1 DEF EnterApply, Answer, IsCancelled, Kept, Publications
  <2>2. CASE d # c
    BY <1>17, <2>2 DEF EnterApply, Answer, IsCancelled, Kept, Publications
  <2> QED
    BY <2>1, <2>2
<1>18. ASSUME NEW d \in Calls, PublishApply(d) PROVE CallInv(c)'
  <2>1. CASE d = c
    BY <1>18, <2>1 DEF PublishApply, Publications
  <2>2. CASE d # c
    BY <1>18, <2>2 DEF PublishApply, Publications
  <2> QED
    BY <2>1, <2>2
<1>19. ASSUME NEW d \in Calls, RecordApply(d) PROVE CallInv(c)'
  <2>1. CASE d = c
    BY ZenonT(30), <1>19, <2>1 DEF RecordApply, Answer, Kept
  <2>2. CASE d # c
    BY ZenonT(30), <1>19, <2>2 DEF RecordApply, Answer
  <2> QED
    BY <2>1, <2>2
<1>20. ASSUME NEW d \in Calls, Observe(d) PROVE CallInv(c)'
  <2>1. CASE d = c
    BY <1>20, <2>1 DEF Observe, IsCancelled, Authority
  <2>2. CASE d # c
    BY <1>20, <2>2 DEF Observe, IsCancelled, Authority
  <2> QED
    BY <2>1, <2>2
<1>21. ASSUME NEW d \in Calls, Judge(d) PROVE CallInv(c)'
  <2>1. CASE d = c
    BY <1>21, <2>1 DEF Judge
  <2>2. CASE d # c
    BY <1>21, <2>2 DEF Judge
  <2> QED
    BY <2>1, <2>2
<1>22. ASSUME NEW d \in Calls, Settle(d) PROVE CallInv(c)'
  <2>1. CASE d = c
    BY <1>22, <2>1 DEF Settle, OutcomeAfterCancel, Authority
  <2>2. CASE d # c
    BY <1>22, <2>2 DEF Settle, OutcomeAfterCancel, Authority
  <2> QED
    BY <2>1, <2>2
<1> QED
  BY <1>1, <1>2, <1>3, <1>4, <1>5, <1>6, <1>7, <1>8, <1>9, <1>10, <1>11, <1>12, <1>13,
     <1>14, <1>15, <1>16, <1>17, <1>18, <1>19, <1>20, <1>21, <1>22, Zenon DEF Next,
     CallStep, CancelStep

\* The strengthened invariant holds in every reachable state.
THEOREM Invariance == Spec => []IInv
<1>1. Init => IInv
  <2> SUFFICES ASSUME Init PROVE IInv
    OBVIOUS
  <2>1. TypeOK
    BY Zenon DEF Init, TypeOK, PCs, Publications
  <2>2. ASSUME NEW c \in Calls PROVE CallInv(c)
    BY DEF Init, CallInv, GateOrders, Placed, FactRecorded, Effect, Classified, SignalHasAuthor
  <2> QED
    BY <2>1, <2>2 DEF IInv
<1>2. IInv /\ TypeOK' /\ [Next]_vars => IInv'
  BY CallInvStep DEF IInv
<1> QED
  BY <1>1, <1>2, TypeCorrect, PTL DEF Spec

(* Whatever a call changed outside, it is never reported Cancelled, and a   *)
(* mutating process is never terminated by a cancel.                        *)
THEOREM EffectAlwaysKept == Spec => []EffectKept
<1>1. IInv => EffectKept
  BY DEF IInv, EffectKept, CallInv, Placed, FactRecorded, Effect, Classified
<1> QED
  BY <1>1, Invariance, PTL

(* Cancelled is told only to a client that asked: a stop of the process and *)
(* the preemption of an analysis end otherwise.                             *)
THEOREM CancelledOnlyToAskers == Spec => []CancelledOnlyIfAsked
<1>1. IInv => CancelledOnlyIfAsked
  BY DEF IInv, CancelledOnlyIfAsked, CallInv, Classified
<1> QED
  BY <1>1, Invariance, PTL

(* A protected process starts, and a client is handed off, only under a     *)
(* signal that is down: the gate orders dispatch and cancel.                *)
THEOREM NeverStartsAfterCancel == Spec => NoStartAfterCancel
<1> DEFINE Untouched(c) == own[c] /\ proc'[c] # proc[c] =>
                          /\ kind[c] = "mutation" => proc'[c] # "running"
                          /\ proc'[c] # "released"
<1>1. ASSUME IInv, [Next]_vars, NEW c \in Calls PROVE Untouched(c)
  <2> USE DEF TypeOK, PCs, IInv, CallInv, GateOrders, Placed
  <2>1. CASE UNCHANGED vars
    BY <1>1, <2>1 DEF vars
  <2>2. CASE LatchStop
    BY <1>1, <2>2 DEF LatchStop
  <2>3. ASSUME NEW d \in Calls, RequestCancel(d) PROVE Untouched(c)
    BY <1>1, <2>3 DEF RequestCancel
  <2>4. ASSUME NEW d \in Calls, SignalCancel(d) PROVE Untouched(c)
    BY <1>1, <2>4 DEF SignalCancel, Raise
  <2>5. ASSUME NEW d \in Calls, SignalStop(d) PROVE Untouched(c)
    BY <1>1, <2>5 DEF SignalStop, Raise
  <2>6. ASSUME NEW d \in Calls, Preempt(d) PROVE Untouched(c)
    BY <1>1, <2>6 DEF Preempt
  <2>7. ASSUME NEW d \in Calls, Spawn(d) PROVE Untouched(c)
    BY <1>1, <2>7 DEF Spawn, Answer
  <2>8. ASSUME NEW d \in Calls, EnterSpawn(d) PROVE Untouched(c)
    BY <1>1, <2>8 DEF EnterSpawn, Answer, IsCancelled
  <2>9. ASSUME NEW d \in Calls, Launch(d) PROVE Untouched(c)
    BY <1>1, <2>9 DEF Launch, Answer
  <2>10. ASSUME NEW d \in Calls, LeaveSpawn(d) PROVE Untouched(c)
    BY <1>1, <2>10 DEF LeaveSpawn
  <2>11. ASSUME NEW d \in Calls, Poll(d) PROVE Untouched(c)
    BY <1>1, <2>11 DEF Poll, Answer, WorkCancelled
  <2>12. ASSUME NEW d \in Calls, StillRunning(d) PROVE Untouched(c)
    BY <1>1, <2>12 DEF StillRunning
  <2>13. ASSUME NEW d \in Calls, Exited(d) PROVE Untouched(c)
    BY <1>1, <2>13 DEF Exited, Answer
  <2>14. ASSUME NEW d \in Calls, EnterHandoff(d) PROVE Untouched(c)
    BY <1>1, <2>14 DEF EnterHandoff, Answer, IsCancelled
  <2>15. ASSUME NEW d \in Calls, Release(d) PROVE Untouched(c)
    BY <1>1, <2>15 DEF Release, Answer
  <2>16. ASSUME NEW d \in Calls, LeaveHandoff(d) PROVE Untouched(c)
    BY <1>1, <2>16 DEF LeaveHandoff, Answer
  <2>17. ASSUME NEW d \in Calls, EnterApply(d) PROVE Untouched(c)
    BY <1>1, <2>17 DEF EnterApply, Answer, IsCancelled, Kept, Publications
  <2>18. ASSUME NEW d \in Calls, PublishApply(d) PROVE Untouched(c)
    BY <1>1, <2>18 DEF PublishApply, Publications
  <2>19. ASSUME NEW d \in Calls, RecordApply(d) PROVE Untouched(c)
    BY <1>1, <2>19 DEF RecordApply, Answer, Kept
  <2>20. ASSUME NEW d \in Calls, Observe(d) PROVE Untouched(c)
    BY <1>1, <2>20 DEF Observe, IsCancelled, Authority
  <2>21. ASSUME NEW d \in Calls, Judge(d) PROVE Untouched(c)
    BY <1>1, <2>21 DEF Judge
  <2>22. ASSUME NEW d \in Calls, Settle(d) PROVE Untouched(c)
    BY <1>1, <2>22 DEF Settle, OutcomeAfterCancel, Authority
  <2> QED
    BY <1>1, <2>1, <2>2, <2>3, <2>4, <2>5, <2>6, <2>7, <2>8, <2>9, <2>10, <2>11, <2>12,
       <2>13, <2>14, <2>15, <2>16, <2>17, <2>18, <2>19, <2>20, <2>21, <2>22 DEF Next,
       CallStep, CancelStep
<1>2. IInv /\ [Next]_vars => [\A c \in Calls : Untouched(c)]_vars
  BY <1>1
<1> QED
  BY <1>2, Invariance, PTL DEF Spec, NoStartAfterCancel
=============================================================================
