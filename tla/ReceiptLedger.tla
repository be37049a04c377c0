---------------------------- MODULE ReceiptLedger ----------------------------
(***************************************************************************)
(* crates/unica-execution/src/receipt_store.rs: the receipt store behind    *)
(* every daemon invocation.  One row file per exact key and one generation  *)
(* file are on disk, a catalog of the rows is in memory.  Every operation   *)
(* runs under the writer mutex and takes several durable steps (row, then    *)
(* generation, then for some rows a second row change), so what interleaves  *)
(* with it is a storage failure, a crash, and the recovery by the next open. *)
(*                                                                          *)
(* A row is published by an atomic rename followed by a directory sync.  A   *)
(* crash between the two leaves the old or the new row; here the pair is one *)
(* step and the crash comes before or after it.                             *)
(***************************************************************************)
EXTENDS Integers, FiniteSets, FiniteSetsExt

CONSTANTS
    Key,             \* exact receipt keys
    Inv,             \* Inv[k]: the invocation id of k
    Task,            \* Task[k]: the task id reserved for k
    Digest,          \* digests of terminal results
    Retained,        \* keys whose task meets an exhausted link pool
    TaskTtl,         \* keys whose receipt-backed task outlives its TTL
    MaxGeneration,   \* bound: mutations
    MaxCrashes       \* bound: crashes

ASSUME LedgerAssumption ==
    /\ "none" \notin Digest
    /\ MaxGeneration \in Nat /\ MaxCrashes \in Nat

VARIABLES
    disk,            \* disk[k]: the row file of k
    generation,      \* the generation file
    catalog,         \* ReceiptCatalog::records
    unavailable,     \* ReceiptCatalog::unavailable
    op,              \* the operation holding the writer mutex
    crashes,         \* history: crashes so far
    issued,          \* history: the highest mutation sequence ever on disk
    answered,        \* history: the row the last completed operation on k left
    inflight         \* history: the row the operation begun on k would leave

vars == <<disk, generation, catalog, unavailable, op, crashes, issued, answered, inflight>>

(***************************************************************************)
(* Rows.                                                                    *)
(***************************************************************************)
None == "none"
Reserved == {"ReservedUnbound", "ReservedActorBound", "ReservedBegun"}
Promised == {"TaskPromisedUnbound", "TaskPromisedActorBound"}
Deletion == {"ExpiredTombstoneDeletion", "ExpiredDirectDeletion",
             "ExpiredTaskReceiptDeletion", "CompletedTaskHandoffDeletion"}
Terminal == {"DirectTerminalUnacked", "TaskTerminalReceiptBacked",
             "AcknowledgementCommit", "AcknowledgedTombstone"}
Lifecycle == {"CancelReserved", "TaskHandoffActorBound", "TaskReceiptOwnedActorBound"}
             \cup Reserved \cup Promised \cup Deletion \cup Terminal

NoRow == [kind |-> None, version |-> 0, seq |-> 0, cancel |-> FALSE, begun |-> FALSE,
          digest |-> None]
Row == [kind : Lifecycle, version : Nat \ {0}, seq : Nat, cancel : BOOLEAN,
        begun : BOOLEAN, digest : Digest \cup {None}]

Present(row) == row.kind # None

\* The row that a replacement of `row` by lifecycle `kind` publishes: the next
\* version under the next mutation sequence.
Successor(row, kind) ==
    [row EXCEPT !.kind = kind, !.version = @ + 1, !.seq = generation + 1]

Fresh(kind, cancel) ==
    [kind |-> kind, version |-> 1, seq |-> generation + 1, cancel |-> cancel,
     begun |-> FALSE, digest |-> None]

\* The compact row left by an acknowledgement; it carries no mutation sequence.
Tombstone(witness) == [witness EXCEPT !.kind = "AcknowledgedTombstone", !.seq = 0]

DeletionOf(row) ==
    [kind |-> CASE row.kind = "AcknowledgedTombstone" -> "ExpiredTombstoneDeletion"
                [] row.kind = "DirectTerminalUnacked" -> "ExpiredDirectDeletion"
                [] row.kind = "TaskTerminalReceiptBacked" -> "ExpiredTaskReceiptDeletion"
                [] OTHER -> "CompletedTaskHandoffDeletion",
     version |-> IF row.kind = "AcknowledgedTombstone" THEN 4 ELSE row.version + 1,
     seq |-> generation + 1, cancel |-> FALSE, begun |-> FALSE, digest |-> None]

\* What a published row stands for once the operation that wrote it is complete.
Settled(row) ==
    CASE row.kind \in Deletion -> NoRow
      [] row.kind = "AcknowledgementCommit" -> Tombstone(row)
      [] OTHER -> row

(***************************************************************************)
(* The operation under the mutex.  "work": rows are still to be reclaimed    *)
(* or inserted; "row": the row of op.key is published, its generation is     *)
(* not; "committed": the generation is.  "closed" and the "heal" phases are  *)
(* those of a store being opened.                                           *)
(***************************************************************************)
Phase == {"idle", "work", "row", "committed", "closed", "heal_ack", "heal_deletion"}
NoInsert == [key |-> None, kind |-> None]
Idle == [phase |-> "idle", key |-> None, reclaim |-> {}, insert |-> NoInsert]

Init ==
    /\ disk = [k \in Key |-> NoRow] /\ generation = 0
    /\ catalog = [k \in Key |-> NoRow] /\ unavailable = FALSE
    /\ op = Idle /\ crashes = 0 /\ issued = 0
    /\ answered = [k \in Key |-> NoRow] /\ inflight = [k \in Key |-> NoRow]

Ready == op.phase = "idle" /\ ~unavailable

\* The catalog after `row` became visible (on_visible).
Visible(old, row) ==
    CASE row.kind \in Deletion -> NoRow
      [] row.kind = "AcknowledgementCommit" -> old
      [] OTHER -> row

PublishRow(k, row, reclaim, insert) ==
    /\ generation < MaxGeneration
    /\ disk' = [disk EXCEPT ![k] = row]
    /\ catalog' = [catalog EXCEPT ![k] = Visible(@, row)]
    /\ op' = [phase |-> "row", key |-> k, reclaim |-> reclaim, insert |-> insert]
    /\ inflight' = [inflight EXCEPT ![k] = Settled(row)]
    /\ issued' = IF row.seq > issued THEN row.seq ELSE issued
    /\ UNCHANGED <<generation, unavailable, crashes, answered>>

Replace(k, row) == Ready /\ PublishRow(k, row, {}, NoInsert)

\* The mutex stays taken while expired rows are reclaimed, then one is inserted.
Enter(reclaim, insert) ==
    /\ Ready
    /\ op' = [phase |-> "work", key |-> None, reclaim |-> reclaim, insert |-> insert]
    /\ UNCHANGED <<disk, generation, catalog, unavailable, crashes, issued, answered, inflight>>

(***************************************************************************)
(* Admission: a submit or an early cancellation.  Times are not modelled: a  *)
(* caller passes the epoch it observes, so an acknowledged or Direct row may *)
(* or may not be expired for it.                                            *)
(***************************************************************************)
Expirable == {"AcknowledgedTombstone", "DirectTerminalUnacked"}
SharesId(k, j) == Inv[k] = Inv[j] \/ Task[k] = Task[j]

\* prepare_new_admission: the other rows that hold an id of k.
Holders(k) == {j \in Key \ {k} : Present(catalog[j]) /\ SharesId(k, j)}

\* Variant: an unexpired holder of an id does not stop the admission.
AdmitOverHolders(k, kind) ==
    /\ ~Present(catalog[k]) \/ catalog[k].kind \in Expirable
    /\ Enter({j \in {k} : Present(catalog[j])}, [key |-> k, kind |-> kind])

Admit(k, kind) ==
    /\ ~Present(catalog[k]) \/ catalog[k].kind \in Expirable
    /\ \A j \in Holders(k) : catalog[j].kind \in Expirable
    /\ Enter({j \in Holders(k) \cup {k} : Present(catalog[j])}, [key |-> k, kind |-> kind])

ConvertCancelReservedToSubmit(k) ==
    /\ catalog[k].kind = "CancelReserved"
    /\ Replace(k, Successor(catalog[k], "ReservedUnbound"))

Reserve(k) == Admit(k, "ReservedUnbound") \/ ConvertCancelReservedToSubmit(k)

CommitReservedCancel(k) ==
    /\ catalog[k].kind \in Reserved /\ ~catalog[k].cancel
    /\ Replace(k, [Successor(catalog[k], catalog[k].kind) EXCEPT !.cancel = TRUE])

RequestCancelOrReserve(k) == Admit(k, "CancelReserved") \/ CommitReservedCancel(k)

\* Variant: the expired row is unlinked without a deletion witness.
WorkUnwitnessed ==
    /\ op.phase = "work" /\ ~unavailable
    /\ \/ \E j \in op.reclaim :
              /\ disk' = [disk EXCEPT ![j] = NoRow]
              /\ catalog' = [catalog EXCEPT ![j] = NoRow]
              /\ op' = [op EXCEPT !.reclaim = @ \ {j}]
              /\ UNCHANGED <<generation, unavailable, crashes, issued, answered, inflight>>
       \/ /\ op.reclaim = {} /\ op.insert # NoInsert
          /\ PublishRow(op.insert.key, Fresh(op.insert.kind, op.insert.kind = "CancelReserved"),
                        {}, NoInsert)

\* One row of the work under the mutex: a reclamation, or the insertion at the end.
Work ==
    /\ op.phase = "work" /\ ~unavailable
    /\ \/ \E j \in op.reclaim :
              PublishRow(j, DeletionOf(catalog[j]), op.reclaim \ {j}, op.insert)
       \/ /\ op.reclaim = {} /\ op.insert # NoInsert
          /\ PublishRow(op.insert.key, Fresh(op.insert.kind, op.insert.kind = "CancelReserved"),
                        {}, NoInsert)

\* The deadline passes before the next row is visible: the operation returns.
GiveUp ==
    /\ op.phase = "work"
    /\ op' = Idle
    /\ UNCHANGED <<disk, generation, catalog, unavailable, crashes, issued, answered, inflight>>

(***************************************************************************)
(* The operations on one row.  Each compares the caller's expected version    *)
(* with the row and refuses a mismatch without a change: the guards below    *)
(* are those of the caller whose version is current.                         *)
(***************************************************************************)
\* Variant: the phase advances although a cancellation is recorded.
TransitionReservedPhaseCancelled(k, from, to) ==
    /\ catalog[k].kind = from
    /\ Replace(k, [Successor(catalog[k], to) EXCEPT !.begun = (to = "ReservedBegun")])

TransitionReservedPhase(k, from, to) ==
    /\ catalog[k].kind = from /\ ~catalog[k].cancel
    /\ Replace(k, [Successor(catalog[k], to) EXCEPT !.begun = (to = "ReservedBegun")])

BindReservedActor(k) == TransitionReservedPhase(k, "ReservedUnbound", "ReservedActorBound")
MarkReservedBegun(k) == TransitionReservedPhase(k, "ReservedActorBound", "ReservedBegun")

PromiseTaskUnbound(k) ==
    /\ catalog[k].kind = "ReservedUnbound"
    /\ Replace(k, Successor(catalog[k], "TaskPromisedUnbound"))

BindPromisedTaskActor(k) ==
    /\ catalog[k].kind = "TaskPromisedUnbound"
    /\ Replace(k, Successor(catalog[k], "TaskPromisedActorBound"))

\* The phase of the attempt is that of the reservation: begun only from ReservedBegun.
BeginBoundTaskHandoff(k) ==
    /\ catalog[k].kind \in {"ReservedActorBound", "ReservedBegun", "TaskPromisedActorBound"}
    /\ Replace(k, Successor(catalog[k], "TaskHandoffActorBound"))

StageBoundTaskHandoffTerminal(k, d) ==
    /\ catalog[k].kind = "TaskHandoffActorBound" /\ catalog[k].digest = None
    /\ Replace(k, [Successor(catalog[k], "TaskHandoffActorBound") EXCEPT !.digest = d])

\* The task store holds the task, or its staged terminal: the receipt is deleted.
CompleteBoundTaskHandoff(k) ==
    /\ \/ catalog[k].kind = "TaskPromisedActorBound"
       \/ catalog[k].kind = "TaskHandoffActorBound" /\ catalog[k].digest = None
    /\ Replace(k, DeletionOf(catalog[k]))

CompleteStagedTaskHandoff(k) ==
    /\ catalog[k].kind = "TaskHandoffActorBound" /\ catalog[k].digest # None
    /\ Replace(k, DeletionOf(catalog[k]))

\* retain_begun_task_after_link_capacity builds the receipt-owned row from every field
\* of the handoff except its terminal_stage.
RetainBegunTaskAfterLinkCapacity(k) ==
    /\ k \in Retained
    /\ catalog[k].kind = "TaskHandoffActorBound" /\ catalog[k].begun
    /\ Replace(k, [Successor(catalog[k], "TaskReceiptOwnedActorBound") EXCEPT !.digest = None])

RequestTaskCancel(k) ==
    /\ catalog[k].kind \in Promised \cup {"TaskHandoffActorBound"} /\ ~catalog[k].cancel
    /\ Replace(k, [Successor(catalog[k], catalog[k].kind) EXCEPT !.cancel = TRUE])

\* Variant: any terminal may be published over a staged one.
TerminalAdmittedAny(row, d) ==
    row.kind \in Promised \/ (row.kind = "TaskHandoffActorBound" /\ (~row.begun \/ row.digest # None))

\* A begun handoff publishes only the terminal it has staged.
TerminalAdmitted(row, d) ==
    \/ row.kind \in Promised
    \/ /\ row.kind = "TaskHandoffActorBound"
       /\ IF row.digest = None THEN ~row.begun ELSE row.digest = d

PublishReceiptBackedTaskTerminal(k, d) ==
    /\ TerminalAdmitted(catalog[k], d)
    /\ Replace(k, [Successor(catalog[k], "TaskTerminalReceiptBacked")
                       EXCEPT !.begun = FALSE, !.digest = d])

PublishDirectTerminal(k, d) ==
    /\ catalog[k].kind \in Reserved
    /\ Replace(k, [Successor(catalog[k], "DirectTerminalUnacked")
                       EXCEPT !.begun = FALSE, !.cancel = FALSE, !.digest = d])

AcknowledgeDirect(k, d) ==
    /\ catalog[k].kind = "DirectTerminalUnacked" /\ catalog[k].digest = d
    /\ Replace(k, Successor(catalog[k], "AcknowledgementCommit"))

\* reclaim_expired_tombstones over the rows whose retention has passed; an exact
\* acknowledgement or recovery that finds its row expired reclaims that one.
ReclaimExpired ==
    \E expired \in SUBSET {k \in Key : \/ catalog[k].kind \in Expirable
                                       \/ /\ catalog[k].kind = "TaskTerminalReceiptBacked"
                                          /\ k \in TaskTtl} :
        expired # {} /\ Enter(expired, NoInsert)

\* An operation reads a row that has no live state: the store latches unavailable.
ReadDeadRow(k) ==
    /\ Ready /\ catalog[k].kind \in Deletion
    /\ unavailable' = TRUE
    /\ UNCHANGED <<disk, generation, catalog, op, crashes, issued, answered, inflight>>

(***************************************************************************)
(* The durable steps after the row.                                         *)
(***************************************************************************)
PublishGeneration ==
    /\ op.phase = "row"
    /\ generation' = disk[op.key].seq
    /\ op' = [op EXCEPT !.phase = "committed"]
    /\ UNCHANGED <<disk, catalog, unavailable, crashes, issued, answered, inflight>>

\* The row as read back is the answer, or the acknowledgement is compacted, or the
\* deletion witness is unlinked.  The mutex is released when no work is left.
Settle ==
    LET k == op.key IN
    /\ op.phase = "committed"
    /\ disk' = [disk EXCEPT ![k] = Settled(@)]
    /\ catalog' = IF disk[k].kind = "AcknowledgementCommit"
                  THEN [catalog EXCEPT ![k] = Settled(disk[k])] ELSE catalog
    /\ answered' = [answered EXCEPT ![k] = Settled(disk[k])]
    /\ op' = IF op.reclaim = {} /\ op.insert = NoInsert THEN Idle
             ELSE [op EXCEPT !.phase = "work", !.key = None]
    /\ UNCHANGED <<generation, unavailable, crashes, issued, inflight>>

\* A storage or authority failure at any step: the operation ends with an error and
\* the store refuses everything until it is reopened.
Fail ==
    /\ op.phase \in {"idle", "work", "row", "committed"} /\ ~unavailable
    /\ unavailable' = TRUE /\ op' = Idle
    /\ UNCHANGED <<disk, generation, catalog, crashes, issued, answered, inflight>>

Crash ==
    /\ op.phase # "closed" /\ crashes < MaxCrashes
    /\ crashes' = crashes + 1
    /\ op' = [Idle EXCEPT !.phase = "closed"]
    /\ catalog' = [k \in Key |-> NoRow] /\ unavailable' = FALSE
    /\ UNCHANGED <<disk, generation, issued, answered, inflight>>

(***************************************************************************)
(* open_retained_directory: validate the rows, then publish the generation,  *)
(* compact the acknowledgement, unlink the deletion witnesses, in this order.*)
(***************************************************************************)
Rows == {k \in Key : Present(disk[k])}
Sequenced == {k \in Rows : disk[k].kind # "AcknowledgedTombstone"}
MutationSequences == {disk[k].seq : k \in Sequenced}
MaximumMutationSequence == Max(MutationSequences \cup {0})

IsExpiredDeletion(row) ==
    row.kind \in {"ExpiredTombstoneDeletion", "ExpiredDirectDeletion",
                  "CompletedTaskHandoffDeletion"}
Witnesses == {k \in Rows : IsExpiredDeletion(disk[k]) \/ disk[k].kind = "AcknowledgementCommit"}

\* Variant: a witness whose generation was not published yet is refused.
AcceptableCurrent ==
    /\ \A j, k \in Sequenced : disk[j].seq = disk[k].seq => j = k
    /\ \A j, k \in Rows : SharesId(j, k) => j = k
    /\ \A j, k \in Witnesses : j = k
    /\ \A k \in Witnesses : disk[k].seq = generation /\ disk[k].seq = MaximumMutationSequence

\* What recovery accepts; anything else is Corrupt and the store does not open.
Acceptable ==
    /\ \A j, k \in Sequenced : disk[j].seq = disk[k].seq => j = k
    /\ \A j, k \in Rows : SharesId(j, k) => j = k
    /\ \A j, k \in Witnesses : j = k
    /\ \A k \in Witnesses : /\ disk[k].seq \in {generation, generation + 1}
                            /\ disk[k].seq = MaximumMutationSequence

\* Variant: the witnesses are unlinked before their sequence is published.
HealGenerationLate ==
    /\ op.phase = "closed" /\ Acceptable
    /\ disk' = [k \in Key |-> IF IsExpiredDeletion(disk[k]) THEN NoRow ELSE disk[k]]
    /\ op' = [op EXCEPT !.phase = "heal_ack"]
    /\ UNCHANGED <<generation, catalog, unavailable, crashes, issued, answered, inflight>>

HealGeneration ==
    /\ op.phase = "closed" /\ Acceptable
    /\ generation' = Max(MutationSequences \cup {generation})
    /\ op' = [op EXCEPT !.phase = "heal_ack"]
    /\ UNCHANGED <<disk, catalog, unavailable, crashes, issued, answered, inflight>>

HealAcknowledgement ==
    /\ op.phase = "heal_ack"
    /\ disk' = [k \in Key |-> IF disk[k].kind = "AcknowledgementCommit"
                              THEN Tombstone(disk[k]) ELSE disk[k]]
    /\ op' = [op EXCEPT !.phase = "heal_deletion"]
    /\ UNCHANGED <<generation, catalog, unavailable, crashes, issued, answered, inflight>>

\* The last recovery step: the catalog holds every row that is not unlinked.
HealDeletion ==
    LET rows == [k \in Key |-> IF IsExpiredDeletion(disk[k]) THEN NoRow ELSE disk[k]] IN
    /\ op.phase = "heal_deletion"
    /\ disk' = rows /\ catalog' = rows
    /\ op' = Idle
    /\ answered' = [k \in Key |-> Settled(rows[k])]
    /\ inflight' = [k \in Key |-> Settled(rows[k])]
    /\ UNCHANGED <<generation, unavailable, crashes, issued>>

Recover == HealGeneration \/ HealAcknowledgement \/ HealDeletion

Next ==
    \/ \E k \in Key :
        \/ Reserve(k) \/ RequestCancelOrReserve(k)
        \/ BindReservedActor(k) \/ MarkReservedBegun(k)
        \/ PromiseTaskUnbound(k) \/ BindPromisedTaskActor(k)
        \/ BeginBoundTaskHandoff(k)
        \/ CompleteBoundTaskHandoff(k) \/ CompleteStagedTaskHandoff(k)
        \/ RetainBegunTaskAfterLinkCapacity(k) \/ RequestTaskCancel(k)
        \/ ReadDeadRow(k)
        \/ \E d \in Digest :
            \/ StageBoundTaskHandoffTerminal(k, d) \/ PublishDirectTerminal(k, d)
            \/ PublishReceiptBackedTaskTerminal(k, d) \/ AcknowledgeDirect(k, d)
    \/ ReclaimExpired \/ Work \/ GiveUp \/ PublishGeneration \/ Settle
    \/ Fail \/ Crash \/ Recover

Spec == Init /\ [][Next]_vars

\* The process that opens the store runs recovery to its end unless it crashes.
FairSpec == Spec /\ WF_vars(Recover)

(***************************************************************************)
(* Properties.                                                              *)
(***************************************************************************)
\* The state has its types.
TypeOK ==
    /\ disk \in [Key -> Row \cup {NoRow}] /\ catalog \in [Key -> Row \cup {NoRow}]
    /\ answered \in [Key -> Row \cup {NoRow}] /\ inflight \in [Key -> Row \cup {NoRow}]
    /\ generation \in Nat /\ issued \in Nat /\ crashes \in 0..MaxCrashes
    /\ unavailable \in BOOLEAN
    /\ op \in [phase : Phase, key : Key \cup {None}, reclaim : SUBSET Key,
               insert : {NoInsert} \cup [key : Key, kind : {"ReservedUnbound", "CancelReserved"}]]

\* Wherever an operation or a recovery is cut off, the rows on disk are ones that the
\* next open accepts: no two rows under one sequence or one id, at most one pending
\* witness, and that one the last mutation.  (recover_existing_catalog refuses the rest
\* as Corrupt, and the daemon then does not start.)
RecoveryAccepts == Acceptable

\* Between operations the catalog in memory is exactly what is on disk, so the byte
\* comparison each operation begins with never latches the store.
CatalogMirrorsDisk == Ready => catalog = disk

\* The next mutation sequence was never on disk before, not even in a row that was
\* deleted or in an operation that was cut off before its generation was published.
SequenceFresh == Ready => issued <= generation

\* A reopened store holds for every key what the last completed operation left, or what
\* the operation that was cut off would have left; there is no third row.
SurvivesReopen ==
    [][op.phase = "heal_deletion" /\ op'.phase = "idle" =>
           \A k \in Key : Settled(catalog'[k]) \in {answered[k], inflight[k]}]_vars

\* Along the life of a receipt, across crashes: a version names one row, versions grow,
\* a recorded cancellation and the Begun mark stay until a terminal, a receipt that is
\* neither terminal nor handed to the task store is never deleted, and a new one starts
\* at version 1.
FactsStand ==
    [][\A k \in Key :
           LET a == Settled(disk[k])
               b == Settled(disk[k])' IN
           /\ Present(a) /\ Present(b) =>
                  /\ b.version >= a.version /\ (a.version = b.version => a = b)
                  /\ a.cancel => b.cancel \/ b.kind = "DirectTerminalUnacked"
                  /\ a.begun => b.begun \/ b.kind \in Terminal
           /\ Present(a) /\ ~Present(b) =>
                  a.kind \in Terminal \cup {"TaskPromisedActorBound", "TaskHandoffActorBound"}
           /\ ~Present(a) /\ Present(b) => b.version = 1]_vars

\* A cancellation recorded before the Begun mark keeps the attempt from beginning: no
\* row that is cancelled and not begun is followed by a begun one.
CancelStopsBegin ==
    [][\A k \in Key :
           LET a == Settled(disk[k])
               b == Settled(disk[k])' IN
           a.cancel /\ ~a.begun /\ Present(b) => ~b.begun]_vars

\* A terminal result, once staged or published, is the one every later row of that
\* receipt carries ("the prepared final result is removed from the receipt only after
\* the matching task record is confirmed", task-terminal-reconciliation.md).
TerminalStands ==
    [][\A k \in Key :
           LET a == Settled(disk[k])
               b == Settled(disk[k])' IN
           a.digest # None /\ Present(b) => b.digest = a.digest]_vars

\* A deletion witness is never a live row of an opened store ("expired deletion witness
\* is not a live receipt state", CatalogEntry::state).
NoLiveWitness == \A k \in Key : catalog[k].kind \notin Deletion

\* A store that crashed opens again, whatever operation or recovery was cut off.
ReopenCompletes == (op.phase = "closed") ~> (op.phase = "idle")
=============================================================================
