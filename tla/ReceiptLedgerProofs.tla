------------------------ MODULE ReceiptLedgerProofs ------------------------
(***************************************************************************)
(* Machine-checked proofs for ReceiptLedger, for any finite set of keys, any *)
(* sharing of ids, and any number of mutations and crashes.                 *)
(*                                                                          *)
(* Every operation that changes a row does so by PublishRow.  Each is shown  *)
(* once to publish an Admissible row, and PublishRow of an Admissible row to *)
(* keep the inductive invariant; the other steps leave what the rows stand   *)
(* for (Settled) as it is.  The invariant says, for every point at which a   *)
(* step may be cut off, which sequences may be on disk: none beyond the      *)
(* generation file between operations, one just beyond it while a row waits  *)
(* for its generation.                                                      *)
(***************************************************************************)
EXTENDS ReceiptLedger, TLAPS

Quiet == op.phase \in {"idle", "work"} /\ ~unavailable
Cutting == op.phase \in {"row", "committed"}
Clean == catalog = disk /\ Witnesses = {} /\ issued <= generation
         /\ \A k \in Key : disk[k].seq <= generation

SequencesDistinct == \A j, k \in Sequenced : disk[j].seq = disk[k].seq => j = k
SequencesBounded == \A k \in Key : disk[k].seq <= generation + 1
IdsDistinct == \A j, k \in Rows : SharesId(j, k) => j = k

WitnessLast == \A k \in Witnesses :
    /\ disk[k].seq \in {generation, generation + 1}
    /\ \A j \in Key : disk[j].seq <= disk[k].seq

\* A sequence past the generation file is still on disk.
IssuedOnDisk ==
    issued <= generation \/ (issued = generation + 1 /\ \E k \in Sequenced : disk[k].seq = issued)

QuietClean == Quiet => Clean

\* While op.key's row waits to be settled every other row is as between operations.
CuttingClean == Cutting =>
    /\ ~unavailable /\ op.key \in Key
    /\ Present(disk[op.key]) /\ disk[op.key].kind # "AcknowledgedTombstone"
    /\ disk[op.key].seq = IF op.phase = "row" THEN generation + 1 ELSE generation
    /\ issued = disk[op.key].seq
    /\ \A j \in Key \ {op.key} : /\ catalog[j] = disk[j] /\ j \notin Witnesses
                                 /\ disk[j].seq <= generation
    /\ disk[op.key].kind # "AcknowledgementCommit" => catalog[op.key] = Settled(disk[op.key])

HealingClean == op.phase \in {"heal_ack", "heal_deletion"} =>
    /\ issued <= generation
    /\ \A k \in Key : disk[k].seq <= generation
    /\ op.phase = "heal_deletion" =>
           \A k \in Key : disk[k].kind # "AcknowledgementCommit"

\* The rows still to be reclaimed are terminal, and with them go all the rows that
\* share an id with the row to be inserted.
WorkPlanned == op.phase = "work" \/ Cutting =>
    /\ \A j \in op.reclaim : /\ disk[j].kind \in Expirable \cup {"TaskTerminalReceiptBacked"}
                             /\ Cutting => j # op.key
    /\ op.insert # NoInsert =>
           /\ Cutting => disk[op.key].kind \in Deletion
           /\ \A j \in Key : Present(disk[j]) /\ SharesId(op.insert.key, j) =>
                  j \in op.reclaim \/ (Cutting /\ j = op.key)

\* The begun mark and a terminal digest are carried by these kinds only; a tombstone
\* has no sequence.
KindFits(row) ==
    /\ row.begun => row.kind \in {"ReservedBegun", "TaskHandoffActorBound",
                                  "TaskReceiptOwnedActorBound"}
    /\ row.digest # None => row.kind \in {"TaskHandoffActorBound"} \cup Terminal
    /\ row.kind \in {None, "AcknowledgedTombstone"} => row.seq = 0

KindsFit == \A k \in Key : KindFits(disk[k])

Remembered == \A k \in Key : Settled(disk[k]) \in {answered[k], inflight[k]}

IInv == /\ TypeOK /\ SequencesDistinct /\ SequencesBounded /\ IdsDistinct /\ WitnessLast
        /\ IssuedOnDisk /\ QuietClean /\ CuttingClean /\ HealingClean /\ WorkPlanned
        /\ KindsFit /\ Remembered

\* What a receipt may become in one operation (the body of FactsStand and of
\* CancelStopsBegin for one key).
Follows(a, b) ==
    /\ Present(a) /\ Present(b) =>
           /\ b.version >= a.version /\ (a.version = b.version => a = b)
           /\ a.cancel => b.cancel \/ b.kind = "DirectTerminalUnacked"
           /\ a.begun => b.begun \/ b.kind \in Terminal
    /\ Present(a) /\ ~Present(b) =>
           a.kind \in Terminal \cup {"TaskPromisedActorBound", "TaskHandoffActorBound"}
    /\ ~Present(a) /\ Present(b) => b.version = 1
    /\ a.cancel /\ ~a.begun /\ Present(b) => ~b.begun

TerminalKept(a, b) == a.digest # None /\ Present(b) => b.digest = a.digest

\* A row that an operation may publish over disk[k].
Admissible(k, row) ==
    /\ row \in Row /\ row.seq = generation + 1 /\ row.kind # "AcknowledgedTombstone"
    /\ KindFits(row)
    /\ Follows(Settled(disk[k]), Settled(row))
    /\ Retained = {} => TerminalKept(Settled(disk[k]), Settled(row))

\* One operation on a present row, as seen from the disk.
Operates(k) == \E row \in Row :
    Ready /\ Present(disk[k]) /\ Admissible(k, row) /\ PublishRow(k, row, {}, NoInsert)
-----------------------------------------------------------------------------
LEMMA InitHolds == Init => IInv
  <1> SUFFICES ASSUME Init PROVE IInv
    OBVIOUS
  <1>1. TypeOK
    <2>1. Idle \in [phase : Phase, key : Key \cup {None}, reclaim : SUBSET Key,
                    insert : {NoInsert} \cup [key : Key, kind : {"ReservedUnbound", "CancelReserved"}]]
      BY DEF Idle, Phase
    <2>2. NoRow \in Row \cup {NoRow} /\ crashes \in 0..MaxCrashes
      BY LedgerAssumption DEF Init
    <2>3. op = Idle /\ unavailable \in BOOLEAN /\ generation \in Nat /\ issued \in Nat
      BY Zenon DEF Init
    <2>4. /\ disk \in [Key -> Row \cup {NoRow}] /\ catalog \in [Key -> Row \cup {NoRow}]
          /\ answered \in [Key -> Row \cup {NoRow}] /\ inflight \in [Key -> Row \cup {NoRow}]
      BY <2>2 DEF Init
    <2> QED
      BY <2>1, <2>2, <2>3, <2>4 DEF TypeOK
  <1>2. /\ \A k \in Key : disk[k] = NoRow
        /\ Rows = {} /\ Sequenced = {} /\ Witnesses = {}
    BY DEF Init, Rows, Sequenced, Witnesses, Present, NoRow
  <1>3. \A k \in Key : disk[k].seq = 0 /\ ~disk[k].begun /\ disk[k].digest = None
    BY <1>2 DEF NoRow
  <1>4. Remembered
    BY DEF Remembered, Init, Settled, NoRow, Deletion, None
  <1> QED
    BY <1>1, <1>2, <1>3, <1>4
    DEF Init, IInv, SequencesDistinct, SequencesBounded, IdsDistinct, WitnessLast, IssuedOnDisk,
        QuietClean, CuttingClean, HealingClean, WorkPlanned, KindsFit, Quiet, Cutting, Clean,
        Idle, KindFits

\* An invariant state is one that recovery accepts.
LEMMA InvAccepts == IInv => Acceptable
  <1> SUFFICES ASSUME IInv PROVE Acceptable
    OBVIOUS
  <1>1. ASSUME NEW k \in Witnesses PROVE disk[k].seq = MaximumMutationSequence
    <2> DEFINE S == MutationSequences \cup {0}
    <2>1. k \in Sequenced
      BY DEF Witnesses, Sequenced, IsExpiredDeletion
    <2>2. disk[k].seq \in S /\ \A x \in S : disk[k].seq >= x
      BY <2>1 DEF IInv, WitnessLast, MutationSequences, Sequenced, Rows, TypeOK, Row, NoRow
    <2>3. S \subseteq Nat
      BY DEF IInv, MutationSequences, Sequenced, Rows, TypeOK, Row, NoRow
    <2> QED
      BY <2>2, <2>3 DEF MaximumMutationSequence, Max
  <1>2. \A j, k \in Witnesses : j = k
    <2> SUFFICES ASSUME NEW j \in Witnesses, NEW k \in Witnesses PROVE j = k
      OBVIOUS
    <2>1. j \in Sequenced /\ k \in Sequenced /\ j \in Key /\ k \in Key
      BY DEF Witnesses, Sequenced, Rows, IsExpiredDeletion
    <2>2. disk[j].seq <= disk[k].seq /\ disk[k].seq <= disk[j].seq
      BY <2>1 DEF IInv, WitnessLast
    <2>3. disk[j].seq \in Nat /\ disk[k].seq \in Nat
      BY <2>1 DEF IInv, TypeOK, Row, NoRow
    <2> QED
      BY <2>1, <2>2, <2>3 DEF IInv, SequencesDistinct
  <1> QED
    BY <1>1, <1>2 DEF Acceptable, IInv, SequencesDistinct, IdsDistinct, WitnessLast

(***************************************************************************)
(* Each operation publishes an admissible row.                              *)
(***************************************************************************)
\* The row that Successor makes of a row.
LEMMA SuccessorRow ==
  ASSUME NEW r \in Row, NEW kind \in Lifecycle, generation \in Nat
  PROVE  LET s == Successor(r, kind) IN
         /\ s \in Row /\ s.kind = kind /\ s.version = r.version + 1 /\ s.seq = generation + 1
         /\ s.cancel = r.cancel /\ s.begun = r.begun /\ s.digest = r.digest
  <1>1. PICK v \in Nat \ {0}, g \in Nat : v = r.version + 1 /\ g = generation + 1
    BY DEF Row
  <1>2. Successor(r, kind) = [r EXCEPT !.kind = kind, !.version = v, !.seq = g]
    BY <1>1 DEF Successor, Row
  <1> QED
    BY Zenon, <1>1, <1>2 DEF Row

\* The row an operation finds.
LEMMA FoundRow ==
  ASSUME IInv, Ready, NEW k \in Key, Present(catalog[k])
  PROVE  /\ catalog[k] = disk[k] /\ disk[k] \in Row /\ KindFits(disk[k])
         /\ generation \in Nat
  <1>1. catalog = disk /\ generation \in Nat /\ disk[k] \in Row \cup {NoRow} /\ KindFits(disk[k])
    BY DEF IInv, QuietClean, Quiet, Clean, Ready, TypeOK, KindsFit
  <1> QED
    BY <1>1 DEF Present, NoRow

LEMMA TransitionOperates ==
  ASSUME IInv, NEW k \in Key, BindReservedActor(k) \/ MarkReservedBegun(k)
  PROVE  Operates(k)
  <1>1. Ready /\ Present(catalog[k])
    BY DEF BindReservedActor, MarkReservedBegun, TransitionReservedPhase, Replace, Present, None
  <1>2. PICK from \in Reserved, t \in {"ReservedActorBound", "ReservedBegun"} :
            /\ catalog[k].kind = from /\ ~catalog[k].cancel
            /\ from = IF t = "ReservedBegun" THEN "ReservedActorBound" ELSE "ReservedUnbound"
            /\ Replace(k, [Successor(catalog[k], t) EXCEPT !.begun = (t = "ReservedBegun")])
    BY DEF BindReservedActor, MarkReservedBegun, TransitionReservedPhase, Reserved
  <1> DEFINE s == Successor(disk[k], t)
             row == [s EXCEPT !.begun = (t = "ReservedBegun")]
  <1>3. /\ s \in Row /\ s.kind = t /\ s.version = disk[k].version + 1 /\ s.seq = generation + 1
        /\ s.cancel = disk[k].cancel /\ s.begun = disk[k].begun /\ s.digest = disk[k].digest
    BY <1>1, <1>2, FoundRow, SuccessorRow DEF Lifecycle, Reserved
  <1> HIDE DEF s
  <1>4. /\ row \in Row /\ row.kind = t /\ row.version = s.version /\ row.seq = s.seq
        /\ row.cancel = s.cancel /\ row.digest = s.digest
        /\ row.begun => t = "ReservedBegun"
    BY Zenon, <1>3 DEF Row
  <1> HIDE DEF row
  <1>5. Admissible(k, row)
    BY <1>1, <1>2, <1>3, <1>4, FoundRow
    DEF Admissible, KindFits, Follows, TerminalKept, Settled, Present, Row, Deletion, Reserved,
        Terminal, None
  <1> QED
    BY <1>1, <1>2, <1>4, <1>5, FoundRow DEF Operates, Replace, s, row

LEMMA ConvertOperates ==
  ASSUME IInv, NEW k \in Key, ConvertCancelReservedToSubmit(k)
  PROVE  Operates(k)
  <1>1. /\ Ready /\ Present(catalog[k]) /\ catalog[k].kind \in {"CancelReserved"}
        /\ PublishRow(k, Successor(catalog[k], "ReservedUnbound"), {}, NoInsert)
    BY DEF ConvertCancelReservedToSubmit, Replace, Present, None
  <1> DEFINE row == Successor(disk[k], "ReservedUnbound")
  <1>2. /\ row \in Row /\ row.kind = "ReservedUnbound" /\ row.version = disk[k].version + 1
        /\ row.seq = generation + 1
        /\ row.cancel = disk[k].cancel /\ row.begun = disk[k].begun /\ row.digest = disk[k].digest
    BY <1>1, FoundRow, SuccessorRow DEF Lifecycle, Reserved, Promised, Terminal
  <1> HIDE DEF row
  <1>3. Admissible(k, row)
    BY <1>1, <1>2, FoundRow
    DEF Admissible, KindFits, Follows, TerminalKept, Settled, Present, Row, Deletion, Reserved,
        Promised, Terminal, None
  <1> QED
    BY <1>1, <1>2, <1>3, FoundRow DEF Operates, row

LEMMA PromiseOperates ==
  ASSUME IInv, NEW k \in Key, PromiseTaskUnbound(k)
  PROVE  Operates(k)
  <1>1. /\ Ready /\ Present(catalog[k]) /\ catalog[k].kind \in {"ReservedUnbound"}
        /\ PublishRow(k, Successor(catalog[k], "TaskPromisedUnbound"), {}, NoInsert)
    BY DEF PromiseTaskUnbound, Replace, Present, None
  <1> DEFINE row == Successor(disk[k], "TaskPromisedUnbound")
  <1>2. /\ row \in Row /\ row.kind = "TaskPromisedUnbound" /\ row.version = disk[k].version + 1
        /\ row.seq = generation + 1
        /\ row.cancel = disk[k].cancel /\ row.begun = disk[k].begun /\ row.digest = disk[k].digest
    BY <1>1, FoundRow, SuccessorRow DEF Lifecycle, Reserved, Promised, Terminal
  <1> HIDE DEF row
  <1>3. Admissible(k, row)
    BY <1>1, <1>2, FoundRow
    DEF Admissible, KindFits, Follows, TerminalKept, Settled, Present, Row, Deletion, Reserved,
        Promised, Terminal, None
  <1> QED
    BY <1>1, <1>2, <1>3, FoundRow DEF Operates, row

LEMMA BindPromisedOperates ==
  ASSUME IInv, NEW k \in Key, BindPromisedTaskActor(k)
  PROVE  Operates(k)
  <1>1. /\ Ready /\ Present(catalog[k]) /\ catalog[k].kind \in {"TaskPromisedUnbound"}
        /\ PublishRow(k, Successor(catalog[k], "TaskPromisedActorBound"), {}, NoInsert)
    BY DEF BindPromisedTaskActor, Replace, Present, None
  <1> DEFINE row == Successor(disk[k], "TaskPromisedActorBound")
  <1>2. /\ row \in Row /\ row.kind = "TaskPromisedActorBound" /\ row.version = disk[k].version + 1
        /\ row.seq = generation + 1
        /\ row.cancel = disk[k].cancel /\ row.begun = disk[k].begun /\ row.digest = disk[k].digest
    BY <1>1, FoundRow, SuccessorRow DEF Lifecycle, Reserved, Promised, Terminal
  <1> HIDE DEF row
  <1>3. Admissible(k, row)
    BY <1>1, <1>2, FoundRow
    DEF Admissible, KindFits, Follows, TerminalKept, Settled, Present, Row, Deletion, Reserved,
        Promised, Terminal, None
  <1> QED
    BY <1>1, <1>2, <1>3, FoundRow DEF Operates, row

LEMMA BeginHandoffOperates ==
  ASSUME IInv, NEW k \in Key, BeginBoundTaskHandoff(k)
  PROVE  Operates(k)
  <1>1. /\ Ready /\ Present(catalog[k]) /\ catalog[k].kind \in {"ReservedActorBound", "ReservedBegun", "TaskPromisedActorBound"}
        /\ PublishRow(k, Successor(catalog[k], "TaskHandoffActorBound"), {}, NoInsert)
    BY DEF BeginBoundTaskHandoff, Replace, Present, None
  <1> DEFINE row == Successor(disk[k], "TaskHandoffActorBound")
  <1>2. /\ row \in Row /\ row.kind = "TaskHandoffActorBound" /\ row.version = disk[k].version + 1
        /\ row.seq = generation + 1
        /\ row.cancel = disk[k].cancel /\ row.begun = disk[k].begun /\ row.digest = disk[k].digest
    BY <1>1, FoundRow, SuccessorRow DEF Lifecycle, Reserved, Promised, Terminal
  <1> HIDE DEF row
  <1>3. Admissible(k, row)
    BY <1>1, <1>2, FoundRow
    DEF Admissible, KindFits, Follows, TerminalKept, Settled, Present, Row, Deletion, Reserved,
        Promised, Terminal, None
  <1> QED
    BY <1>1, <1>2, <1>3, FoundRow DEF Operates, row

LEMMA CancelReservedOperates ==
  ASSUME IInv, NEW k \in Key, CommitReservedCancel(k)
  PROVE  Operates(k)
  <1>1. /\ Ready /\ Present(catalog[k]) /\ catalog[k].kind \in Reserved
        /\ PublishRow(k, [Successor(catalog[k], catalog[k].kind) EXCEPT !.cancel = TRUE], {}, NoInsert)
    BY DEF CommitReservedCancel, Reserved, Replace, Present, None
  <1>2. catalog[k] = disk[k]
    BY <1>1, FoundRow
  <1> DEFINE kind == catalog[k].kind
             s == Successor(disk[k], kind)
             row == [s EXCEPT !.cancel = TRUE]
  <1>3. /\ s \in Row /\ s.kind = kind /\ s.version = disk[k].version + 1 /\ s.seq = generation + 1
        /\ s.cancel = disk[k].cancel /\ s.begun = disk[k].begun /\ s.digest = disk[k].digest
    BY <1>1, <1>2, FoundRow, SuccessorRow DEF Lifecycle, Reserved, Promised, Terminal
  <1> HIDE DEF s
  <1>4. /\ row \in Row /\ row.kind = kind /\ row.version = s.version /\ row.seq = s.seq
        /\ row.cancel /\ row.begun = s.begun /\ row.digest = s.digest
    BY Zenon, <1>3 DEF Row
  <1> HIDE DEF row
  <1>5. Admissible(k, row)
    BY <1>1, <1>2, <1>3, <1>4, FoundRow
    DEF Admissible, KindFits, Follows, TerminalKept, Settled, Present, Row, Deletion, Reserved,
        Promised, Terminal, None
  <1> QED
    BY <1>1, <1>2, <1>4, <1>5 DEF Operates, s, row

LEMMA TaskCancelOperates ==
  ASSUME IInv, NEW k \in Key, RequestTaskCancel(k)
  PROVE  Operates(k)
  <1>1. /\ Ready /\ Present(catalog[k]) /\ catalog[k].kind \in Promised \cup {"TaskHandoffActorBound"}
        /\ PublishRow(k, [Successor(catalog[k], catalog[k].kind) EXCEPT !.cancel = TRUE], {}, NoInsert)
    BY DEF RequestTaskCancel, Promised, Replace, Present, None
  <1>2. catalog[k] = disk[k]
    BY <1>1, FoundRow
  <1> DEFINE kind == catalog[k].kind
             s == Successor(disk[k], kind)
             row == [s EXCEPT !.cancel = TRUE]
  <1>3. /\ s \in Row /\ s.kind = kind /\ s.version = disk[k].version + 1 /\ s.seq = generation + 1
        /\ s.cancel = disk[k].cancel /\ s.begun = disk[k].begun /\ s.digest = disk[k].digest
    BY ZenonT(30), <1>1, <1>2, FoundRow, SuccessorRow DEF Lifecycle, Reserved, Promised, Terminal
  <1> HIDE DEF s
  <1>4. /\ row \in Row /\ row.kind = kind /\ row.version = s.version /\ row.seq = s.seq
        /\ row.cancel /\ row.begun = s.begun /\ row.digest = s.digest
    BY Zenon, <1>3 DEF Row
  <1> HIDE DEF row
  <1>5. Admissible(k, row)
    BY <1>1, <1>2, <1>3, <1>4, FoundRow
    DEF Admissible, KindFits, Follows, TerminalKept, Settled, Present, Row, Deletion, Reserved,
        Promised, Terminal, None
  <1> QED
    BY <1>1, <1>2, <1>4, <1>5 DEF Operates, s, row

LEMMA StageOperates ==
  ASSUME IInv, NEW k \in Key, NEW d \in Digest, StageBoundTaskHandoffTerminal(k, d)
  PROVE  Operates(k)
  <1>1. /\ Ready /\ Present(catalog[k]) /\ catalog[k].kind \in {"TaskHandoffActorBound"} /\ catalog[k].digest = None
        /\ PublishRow(k, [Successor(catalog[k], "TaskHandoffActorBound") EXCEPT !.digest = d], {}, NoInsert)
    BY DEF StageBoundTaskHandoffTerminal, Replace, Present, None
  <1>2. catalog[k] = disk[k]
    BY <1>1, FoundRow
  <1> DEFINE kind == "TaskHandoffActorBound"
             s == Successor(disk[k], kind)
             row == [s EXCEPT !.digest = d]
  <1>3. /\ s \in Row /\ s.kind = kind /\ s.version = disk[k].version + 1 /\ s.seq = generation + 1
        /\ s.cancel = disk[k].cancel /\ s.begun = disk[k].begun /\ s.digest = disk[k].digest
    BY <1>1, <1>2, FoundRow, SuccessorRow DEF Lifecycle, Reserved, Promised, Terminal
  <1> HIDE DEF s
  <1>4. /\ row \in Row /\ row.kind = kind /\ row.version = s.version /\ row.seq = s.seq
        /\ row.cancel = s.cancel /\ row.begun = s.begun /\ row.digest = d
    BY <1>3 DEF Row
  <1> HIDE DEF row
  <1>5. Admissible(k, row)
    BY <1>1, <1>2, <1>3, <1>4, FoundRow
    DEF Admissible, KindFits, Follows, TerminalKept, Settled, Present, Row, Deletion, Reserved,
        Promised, Terminal, None
  <1> QED
    BY <1>1, <1>2, <1>4, <1>5 DEF Operates, s, row

LEMMA RetainOperates ==
  ASSUME IInv, NEW k \in Key, RetainBegunTaskAfterLinkCapacity(k)
  PROVE  Operates(k)
  <1>1. /\ Ready /\ Present(catalog[k]) /\ catalog[k].kind \in {"TaskHandoffActorBound"} /\ k \in Retained
        /\ PublishRow(k, [Successor(catalog[k], "TaskReceiptOwnedActorBound") EXCEPT !.digest = None], {}, NoInsert)
    BY DEF RetainBegunTaskAfterLinkCapacity, Replace, Present, None
  <1>2. catalog[k] = disk[k]
    BY <1>1, FoundRow
  <1> DEFINE kind == "TaskReceiptOwnedActorBound"
             s == Successor(disk[k], kind)
             row == [s EXCEPT !.digest = None]
  <1>3. /\ s \in Row /\ s.kind = kind /\ s.version = disk[k].version + 1 /\ s.seq = generation + 1
        /\ s.cancel = disk[k].cancel /\ s.begun = disk[k].begun /\ s.digest = disk[k].digest
    BY <1>1, <1>2, FoundRow, SuccessorRow DEF Lifecycle, Reserved, Promised, Terminal
  <1> HIDE DEF s
  <1>4. /\ row \in Row /\ row.kind = kind /\ row.version = s.version /\ row.seq = s.seq
        /\ row.cancel = s.cancel /\ row.begun = s.begun /\ row.digest = None
    BY <1>3 DEF Row
  <1> HIDE DEF row
  <1>5. Admissible(k, row)
    BY <1>1, <1>2, <1>3, <1>4, FoundRow
    DEF Admissible, KindFits, Follows, TerminalKept, Settled, Present, Row, Deletion, Reserved,
        Promised, Terminal, None
  <1> QED
    BY <1>1, <1>2, <1>4, <1>5 DEF Operates, s, row

LEMMA TaskTerminalOperates ==
  ASSUME IInv, NEW k \in Key, NEW d \in Digest, PublishReceiptBackedTaskTerminal(k, d)
  PROVE  Operates(k)
  <1>1. /\ Ready /\ Present(catalog[k]) /\ catalog[k].kind \in Promised \cup {"TaskHandoffActorBound"} /\ TerminalAdmitted(catalog[k], d)
        /\ PublishRow(k, [Successor(catalog[k], "TaskTerminalReceiptBacked") EXCEPT !.begun = FALSE, !.digest = d], {}, NoInsert)
    BY DEF PublishReceiptBackedTaskTerminal, TerminalAdmitted, Promised, Replace, Present, None
  <1>2. catalog[k] = disk[k]
    BY <1>1, FoundRow
  <1> DEFINE kind == "TaskTerminalReceiptBacked"
             s == Successor(disk[k], kind)
             row == [s EXCEPT !.begun = FALSE, !.digest = d]
  <1>3. /\ s \in Row /\ s.kind = kind /\ s.version = disk[k].version + 1 /\ s.seq = generation + 1
        /\ s.cancel = disk[k].cancel /\ s.begun = disk[k].begun /\ s.digest = disk[k].digest
    BY <1>1, <1>2, FoundRow, SuccessorRow DEF Lifecycle, Reserved, Promised, Terminal
  <1> HIDE DEF s
  <1>4. /\ row \in Row /\ row.kind = kind /\ row.version = s.version /\ row.seq = s.seq
        /\ row.cancel = s.cancel /\ ~row.begun /\ row.digest = d
    BY Zenon, <1>3 DEF Row
  <1> HIDE DEF row
  <1>5. Admissible(k, row)
    BY <1>1, <1>2, <1>3, <1>4, FoundRow
    DEF Admissible, KindFits, Follows, TerminalKept, Settled, Present, Row, Deletion, Reserved,
        Promised, Terminal, None, TerminalAdmitted
  <1> QED
    BY <1>1, <1>2, <1>4, <1>5 DEF Operates, s, row

LEMMA DirectTerminalOperates ==
  ASSUME IInv, NEW k \in Key, NEW d \in Digest, PublishDirectTerminal(k, d)
  PROVE  Operates(k)
  <1>1. /\ Ready /\ Present(catalog[k]) /\ catalog[k].kind \in Reserved
        /\ PublishRow(k, [Successor(catalog[k], "DirectTerminalUnacked") EXCEPT !.begun = FALSE, !.cancel = FALSE, !.digest = d], {}, NoInsert)
    BY DEF PublishDirectTerminal, Reserved, Replace, Present, None
  <1>2. catalog[k] = disk[k]
    BY <1>1, FoundRow
  <1> DEFINE kind == "DirectTerminalUnacked"
             s == Successor(disk[k], kind)
             row == [s EXCEPT !.begun = FALSE, !.cancel = FALSE, !.digest = d]
  <1>3. /\ s \in Row /\ s.kind = kind /\ s.version = disk[k].version + 1 /\ s.seq = generation + 1
        /\ s.cancel = disk[k].cancel /\ s.begun = disk[k].begun /\ s.digest = disk[k].digest
    BY <1>1, <1>2, FoundRow, SuccessorRow DEF Lifecycle, Reserved, Promised, Terminal
  <1> HIDE DEF s
  <1>4. /\ row \in Row /\ row.kind = kind /\ row.version = s.version /\ row.seq = s.seq
        /\ ~row.cancel /\ ~row.begun /\ row.digest = d
    BY Zenon, <1>3 DEF Row
  <1> HIDE DEF row
  <1>5. Admissible(k, row)
    BY <1>1, <1>2, <1>3, <1>4, FoundRow
    DEF Admissible, KindFits, Follows, TerminalKept, Settled, Present, Row, Deletion, Reserved,
        Promised, Terminal, None
  <1> QED
    BY <1>1, <1>2, <1>4, <1>5 DEF Operates, s, row

LEMMA AcknowledgeOperates ==
  ASSUME IInv, NEW k \in Key, NEW d \in Digest, AcknowledgeDirect(k, d)
  PROVE  Operates(k)
  <1>1. /\ Ready /\ Present(catalog[k]) /\ catalog[k].kind = "DirectTerminalUnacked"
        /\ PublishRow(k, Successor(catalog[k], "AcknowledgementCommit"), {}, NoInsert)
    BY DEF AcknowledgeDirect, Replace, Present, None
  <1> DEFINE row == Successor(disk[k], "AcknowledgementCommit")
  <1>2. /\ row \in Row /\ row.kind = "AcknowledgementCommit" /\ row.version = disk[k].version + 1
        /\ row.seq = generation + 1
        /\ row.cancel = disk[k].cancel /\ row.begun = disk[k].begun /\ row.digest = disk[k].digest
    BY <1>1, FoundRow, SuccessorRow DEF Lifecycle, Terminal
  <1> HIDE DEF row
  <1>3. Settled(row) = Tombstone(row) /\ Settled(disk[k]) = disk[k]
    BY <1>1, <1>2, FoundRow DEF Settled, Deletion
  <1>4. LET t == Tombstone(row) IN
        /\ t.kind = "AcknowledgedTombstone" /\ t.version = row.version
        /\ t.cancel = row.cancel /\ t.begun = row.begun /\ t.digest = row.digest
    BY <1>2 DEF Tombstone, Row
  <1>5. Admissible(k, row)
    BY <1>1, <1>2, <1>3, <1>4, FoundRow
    DEF Admissible, KindFits, Follows, TerminalKept, Present, Row, Terminal, None
  <1> QED
    BY <1>1, <1>2, <1>5, FoundRow DEF Operates, row

\* A receipt that is terminal or handed over may be deleted.
LEMMA DeletionAdmissible ==
  ASSUME IInv, NEW k \in Key, disk[k] \in Row, generation \in Nat,
         disk[k].kind \in Expirable \cup {"TaskTerminalReceiptBacked", "TaskPromisedActorBound",
                                         "TaskHandoffActorBound"}
  PROVE  /\ Admissible(k, DeletionOf(disk[k])) /\ DeletionOf(disk[k]).kind \in Deletion
         /\ DeletionOf(disk[k]) \in Row
  <1> DEFINE row == DeletionOf(disk[k])
  <1>1. /\ row.kind \in Deletion /\ row.seq = generation + 1 /\ ~row.begun /\ row.digest = None
        /\ row \in Row
    BY DEF DeletionOf, Row, Deletion, Lifecycle, None
  <1> HIDE DEF row
  <1>2. Settled(row) = NoRow /\ Settled(disk[k]) = disk[k]
    BY <1>1 DEF Settled, Deletion, Expirable
  <1> QED
    BY <1>1, <1>2
    DEF Admissible, KindFits, Follows, TerminalKept, Present, NoRow, Row, Terminal, Expirable,
        Deletion, None, row

LEMMA CompleteOperates ==
  ASSUME IInv, NEW k \in Key, CompleteBoundTaskHandoff(k) \/ CompleteStagedTaskHandoff(k)
  PROVE  Operates(k)
  <1>1. /\ Ready /\ Present(catalog[k])
        /\ catalog[k].kind \in {"TaskPromisedActorBound", "TaskHandoffActorBound"}
        /\ PublishRow(k, DeletionOf(catalog[k]), {}, NoInsert)
    BY DEF CompleteBoundTaskHandoff, CompleteStagedTaskHandoff, Replace, Present, None
  <1> QED
    BY <1>1, FoundRow, DeletionAdmissible DEF Operates

\* A new row over an absent one.
LEMMA FreshAdmissible ==
  ASSUME IInv, NEW k \in Key, ~Present(disk[k]), NEW kind \in {"ReservedUnbound", "CancelReserved"},
         NEW c \in BOOLEAN
  PROVE  Admissible(k, Fresh(kind, c)) /\ Fresh(kind, c) \in Row /\ Fresh(kind, c).kind = kind
  <1> DEFINE row == Fresh(kind, c)
  <1>1. disk[k] = NoRow /\ generation \in Nat
    BY DEF IInv, TypeOK, Present, Row, Lifecycle, Reserved, Promised, Deletion, Terminal, None
  <1>2. row = [kind |-> kind, version |-> 1, seq |-> generation + 1, cancel |-> c,
               begun |-> FALSE, digest |-> None]
    BY DEF Fresh
  <1> HIDE DEF row
  <1>3. Settled(row) = row /\ Settled(disk[k]) = NoRow
    BY <1>1, <1>2 DEF Settled, Deletion, NoRow, None
  <1>4. row \in Row
    BY <1>1, <1>2 DEF Row, Lifecycle, Reserved
  <1> QED
    BY <1>1, <1>2, <1>3, <1>4
    DEF Admissible, KindFits, Follows, TerminalKept, Present, NoRow, None, row

(***************************************************************************)
(* Publishing an admissible row keeps the invariant.                        *)
(***************************************************************************)
Insert == {NoInsert} \cup [key : Key, kind : {"ReservedUnbound", "CancelReserved"}]

\* What a row stands for is a row, and stands for itself.
LEMMA SettledRow ==
  ASSUME NEW row \in Row \cup {NoRow}
  PROVE  /\ Settled(row) \in Row \cup {NoRow}
         /\ Settled(Settled(row)) = Settled(row)
         /\ Settled(row).kind # "AcknowledgementCommit"
         /\ Settled(row).kind \notin Deletion
         /\ row.kind \notin Deletion \cup {"AcknowledgementCommit"} => Settled(row) = row
         /\ KindFits(row) => KindFits(Settled(row))
         /\ Settled(row).seq <= row.seq
  <1>1. CASE row = NoRow
    BY <1>1 DEF Settled, NoRow, Deletion, None
  <1>2. CASE row \in Row /\ row.kind \in Deletion
    BY <1>2 DEF Settled, NoRow, Deletion, None, KindFits, Row
  <1>3. CASE row \in Row /\ row.kind = "AcknowledgementCommit"
    <2> DEFINE t == Tombstone(row)
    <2>1. /\ t \in Row /\ t.kind = "AcknowledgedTombstone" /\ t.seq = 0 /\ t.begun = row.begun
      BY Zenon, <1>3 DEF Tombstone, Row, Lifecycle, Terminal
    <2>2. Settled(row) = t
      BY <1>3 DEF Settled, Deletion
    <2> HIDE DEF t
    <2> QED
      BY <1>3, <2>1, <2>2 DEF Settled, Deletion, KindFits, Terminal, Row
  <1>4. CASE row \in Row /\ row.kind \notin Deletion \cup {"AcknowledgementCommit"}
    BY <1>4 DEF Settled, Row
  <1> QED
    BY <1>1, <1>2, <1>3, <1>4

LEMMA PublishKeeps ==
  ASSUME IInv, Quiet, NEW k \in Key, NEW row \in Row, NEW reclaim \in SUBSET Key,
         NEW insert \in Insert,
         PublishRow(k, row, reclaim, insert), Admissible(k, row),
         \A j \in Key \ {k} : Present(disk[j]) => ~SharesId(j, k) /\ ~SharesId(k, j),
         \A j \in reclaim :
             j # k /\ disk[j].kind \in Expirable \cup {"TaskTerminalReceiptBacked"},
         insert # NoInsert =>
             /\ row.kind \in Deletion
             /\ \A j \in Key : Present(disk[j]) /\ SharesId(insert.key, j) => j \in reclaim \cup {k}
  PROVE  IInv'
  <1>1. /\ disk' = [disk EXCEPT ![k] = row]
        /\ catalog' = [catalog EXCEPT ![k] = Visible(catalog[k], row)]
        /\ op' = [phase |-> "row", key |-> k, reclaim |-> reclaim, insert |-> insert]
        /\ inflight' = [inflight EXCEPT ![k] = Settled(row)]
        /\ issued' = IF row.seq > issued THEN row.seq ELSE issued
        /\ UNCHANGED <<generation, unavailable, crashes, answered>>
    BY DEF PublishRow
  <1>2. /\ TypeOK /\ catalog = disk /\ Witnesses = {} /\ issued <= generation
        /\ \A j \in Key : disk[j].seq <= generation
    BY DEF IInv, QuietClean, Clean
  <1>3. /\ row.seq = generation + 1 /\ row.kind # "AcknowledgedTombstone" /\ KindFits(row)
        /\ row.kind \in Lifecycle /\ Present(row) /\ row.seq \in Nat /\ generation \in Nat
        /\ issued \in Nat
    BY <1>2 DEF Admissible, Row, Lifecycle, Reserved, Promised, Deletion, Terminal, Present, None,
                TypeOK
  <1>4. /\ \A j \in Key : disk'[j] = IF j = k THEN row ELSE disk[j]
        /\ \A j \in Key : catalog'[j] = IF j = k THEN Visible(catalog[k], row) ELSE disk[j]
        /\ \A j \in Key : inflight'[j] = IF j = k THEN Settled(row) ELSE inflight[j]
        /\ op'.phase = "row" /\ op'.key = k /\ op'.reclaim = reclaim /\ op'.insert = insert
        /\ issued' = generation + 1 /\ generation' = generation /\ unavailable' = unavailable
        /\ answered' = answered
    BY <1>1, <1>2, <1>3 DEF TypeOK
  <1>5. Visible(catalog[k], row) \in Row \cup {NoRow} /\ Settled(row) \in Row \cup {NoRow}
    BY ZenonT(30), <1>2, SettledRow DEF Visible, TypeOK
  <1>6. TypeOK'
    <2>1. op' \in [phase : Phase, key : Key \cup {None}, reclaim : SUBSET Key, insert : Insert]
      BY ZenonT(30), <1>1 DEF Phase
    <2> QED
      BY <1>1, <1>2, <1>3, <1>4, <1>5, <2>1 DEF TypeOK, Insert
  <1>7. SequencesDistinct' /\ SequencesBounded'
    <2>1. \A j \in Key : disk[j].seq \in Nat
      BY <1>2 DEF TypeOK, Row, NoRow
    <2>2. \A j \in Sequenced' : j \in Key /\ (j # k => j \in Sequenced)
      BY <1>4 DEF Sequenced, Rows
    <2> QED
      <3>1. \A j \in Key \ {k} : disk'[j].seq = disk[j].seq /\ disk[j].seq <= generation
        BY ZenonT(30), <1>2, <1>4
      <3>2. disk'[k].seq = generation + 1
        BY ZenonT(30), <1>3, <1>4
      <3>3. \A j \in Key \ {k} : disk'[j].seq # disk'[k].seq /\ disk'[j].seq <= generation + 1
        BY <1>3, <2>1, <3>1, <3>2
      <3>4. disk'[k].seq <= generation + 1
        BY <1>3, <3>2
      <3>5. SequencesBounded'
        BY ZenonT(30), <1>4, <3>3, <3>4 DEF SequencesBounded
      <3> QED
        BY ZenonT(30), <2>2, <3>1, <3>3, <3>5 DEF IInv, SequencesDistinct
  <1>8. IdsDistinct'
    <2> SUFFICES ASSUME NEW i \in Rows', NEW j \in Rows', SharesId(i, j), i # j
                 PROVE  FALSE
      BY ZenonT(30) DEF IdsDistinct
    <2>1. /\ i \in Key /\ j \in Key
          /\ i # k => Present(disk[i])
          /\ j # k => Present(disk[j])
      BY ZenonT(30), <1>4 DEF Rows
    <2> QED
      BY ZenonT(30), <2>1 DEF IInv, IdsDistinct, Rows
  <1>9. WitnessLast'
    <2>1. \A j \in Witnesses' : j = k
      BY <1>2, <1>4 DEF Witnesses, Rows
    <2> QED
      <3>1. /\ disk'[k].seq = generation + 1 /\ generation' = generation
            /\ \A j \in Key \ {k} : disk'[j].seq = disk[j].seq /\ disk[j].seq <= generation
        BY ZenonT(30), <1>2, <1>3, <1>4
      <3>2. \A j \in Key : disk[j].seq \in Nat
        BY <1>2 DEF TypeOK, Row, NoRow
      <3>3. \A j \in Key : disk'[j].seq <= disk'[k].seq
        BY <1>3, <3>1, <3>2
      <3> QED
        BY ZenonT(30), <2>1, <3>1, <3>3 DEF WitnessLast
  <1>10. IssuedOnDisk'
    BY <1>3, <1>4 DEF IssuedOnDisk, Sequenced, Rows
  <1>11. QuietClean' /\ HealingClean'
    BY ZenonT(30), <1>4 DEF QuietClean, HealingClean, Quiet
  <1>12. CuttingClean'
    <2>1. row.kind # "AcknowledgementCommit" => Visible(catalog[k], row) = Settled(row)
      BY DEF Visible, Settled
    <2>2. ~unavailable
      BY ZenonT(30) DEF Quiet
    <2>3. \A j \in Key \ {k} : j \notin Witnesses'
      BY <1>2, <1>4 DEF Witnesses, Rows
    <2> QED
      BY <1>2, <1>3, <1>4, <2>1, <2>2, <2>3 DEF CuttingClean
  <1>13. WorkPlanned'
    BY ZenonT(30), <1>4 DEF WorkPlanned, Cutting
  <1>14. KindsFit' /\ Remembered'
    BY ZenonT(30), <1>3, <1>4 DEF IInv, KindsFit, Remembered
  <1> QED
    BY <1>6, <1>7, <1>8, <1>9, <1>10, <1>11, <1>12, <1>13, <1>14 DEF IInv

(***************************************************************************)
(* The steps.  Besides the invariant, each lets every receipt only follow    *)
(* what it was.                                                             *)
(***************************************************************************)
AllFollow == \A k \in Key :
    /\ Follows(Settled(disk[k]), Settled(disk'[k]))
    /\ Retained = {} => TerminalKept(Settled(disk[k]), Settled(disk'[k]))

\* A row that is not published over stands for what it stood for.
LEMMA FollowsSelf ==
  ASSUME NEW row \in Row \cup {NoRow}, NEW other, Settled(other) = Settled(row)
  PROVE  Follows(Settled(row), Settled(other)) /\ TerminalKept(Settled(row), Settled(other))
  <1>1. Settled(row) \in Row \cup {NoRow}
    BY SettledRow
  <1> QED
    BY <1>1 DEF Follows, TerminalKept, Row, NoRow, Present

LEMMA UnchangedFollows ==
  ASSUME TypeOK, \A k \in Key : Settled(disk'[k]) = Settled(disk[k])
  PROVE  AllFollow
  BY FollowsSelf DEF AllFollow, TypeOK

LEMMA PublishFollows ==
  ASSUME TypeOK, NEW k \in Key, NEW row, NEW reclaim, NEW insert,
         PublishRow(k, row, reclaim, insert), Admissible(k, row)
  PROVE  AllFollow
  <1>1. \A j \in Key : disk'[j] = IF j = k THEN row ELSE disk[j]
    BY DEF PublishRow, TypeOK
  <1>2. \A j \in Key : disk[j] \in Row \cup {NoRow}
    BY DEF TypeOK
  <1> QED
    BY <1>1, <1>2, FollowsSelf DEF AllFollow, Admissible

LEMMA OperatesKeeps ==
  ASSUME IInv, NEW k \in Key, Operates(k)
  PROVE  IInv' /\ AllFollow
  <1>1. PICK row \in Row :
            Ready /\ Present(disk[k]) /\ Admissible(k, row) /\ PublishRow(k, row, {}, NoInsert)
    BY DEF Operates
  <1>2. \A j \in Key \ {k} : Present(disk[j]) => ~SharesId(j, k) /\ ~SharesId(k, j)
    BY <1>1 DEF IInv, IdsDistinct, Rows
  <1>3. Quiet /\ NoInsert \in Insert
    BY <1>1 DEF Ready, Quiet, Insert
  <1>4. IInv'
    BY <1>1, <1>2, <1>3, PublishKeeps
  <1> QED
    BY <1>1, <1>4, PublishFollows DEF IInv

\* The steps of this kind leave the rows, the generation and the history alone.
LEMMA BookkeepingKeeps ==
  ASSUME IInv, UNCHANGED <<disk, generation, catalog, issued, answered, inflight>>
  PROVE  /\ (SequencesDistinct /\ SequencesBounded /\ IdsDistinct /\ WitnessLast)'
         /\ (IssuedOnDisk /\ KindsFit /\ Remembered)'
         /\ Clean => Clean'
         /\ AllFollow
  <1>1. AllFollow
    BY ZenonT(30), UnchangedFollows DEF IInv
  <1> QED
    BY <1>1
    DEF IInv, SequencesDistinct, SequencesBounded, IdsDistinct, WitnessLast, IssuedOnDisk,
        KindsFit, Remembered, Clean, Witnesses, Rows, Sequenced

LEMMA EnterKeeps ==
  ASSUME IInv, NEW reclaim \in SUBSET Key, NEW insert \in Insert, Enter(reclaim, insert),
         \A j \in reclaim : catalog[j].kind \in Expirable \cup {"TaskTerminalReceiptBacked"},
         insert # NoInsert =>
             \A j \in Key : Present(catalog[j]) /\ SharesId(insert.key, j) => j \in reclaim
  PROVE  IInv' /\ AllFollow
  <1>1. /\ Quiet /\ Clean /\ TypeOK
        /\ op' = [phase |-> "work", key |-> None, reclaim |-> reclaim, insert |-> insert]
        /\ UNCHANGED <<disk, generation, catalog, unavailable, crashes, issued, answered, inflight>>
    BY DEF Enter, Ready, Quiet, IInv, QuietClean
  <1>2. /\ (SequencesDistinct /\ SequencesBounded /\ IdsDistinct /\ WitnessLast)'
        /\ (IssuedOnDisk /\ KindsFit /\ Remembered)' /\ Clean' /\ AllFollow
    BY <1>1, BookkeepingKeeps
  <1>3. TypeOK'
    BY ZenonT(30), <1>1 DEF TypeOK, Phase, Insert
  <1>4. (QuietClean /\ CuttingClean /\ HealingClean)'
    BY ZenonT(30), <1>1, <1>2 DEF QuietClean, CuttingClean, HealingClean, Cutting
  <1>5. WorkPlanned'
    BY ZenonT(30), <1>1 DEF WorkPlanned, Cutting, Clean
  <1> QED
    BY ZenonT(30), <1>2, <1>3, <1>4, <1>5 DEF IInv

LEMMA AdmitKeeps ==
  ASSUME IInv, NEW k \in Key, NEW kind \in {"ReservedUnbound", "CancelReserved"}, Admit(k, kind)
  PROVE  IInv' /\ AllFollow
  <1> DEFINE reclaim == {j \in Holders(k) \cup {k} : Present(catalog[j])}
             insert == [key |-> k, kind |-> kind]
  <1>1. /\ Enter(reclaim, insert) /\ reclaim \in SUBSET Key /\ insert \in Insert
        /\ insert.key = k
    BY DEF Admit, Holders, Insert
  <1>2. \A j \in reclaim : catalog[j].kind \in Expirable
    BY DEF Admit
  <1>3. \A j \in Key : Present(catalog[j]) /\ SharesId(k, j) => j \in reclaim
    BY DEF Holders
  <1> HIDE DEF reclaim, insert
  <1> QED
    BY <1>1, <1>2, <1>3, EnterKeeps

LEMMA ReclaimKeeps ==
  ASSUME IInv, ReclaimExpired
  PROVE  IInv' /\ AllFollow
  BY EnterKeeps DEF ReclaimExpired, Insert

LEMMA WorkKeeps ==
  ASSUME IInv, Work
  PROVE  IInv' /\ AllFollow
  <1>1. /\ Quiet /\ Clean /\ TypeOK /\ op.phase = "work" /\ op.insert \in Insert
        /\ op.reclaim \in SUBSET Key /\ generation \in Nat
    BY DEF Work, Quiet, IInv, QuietClean, TypeOK, Insert
  <1>2. /\ \A j \in op.reclaim : disk[j].kind \in Expirable \cup {"TaskTerminalReceiptBacked"}
        /\ op.insert # NoInsert =>
               \A j \in Key : Present(disk[j]) /\ SharesId(op.insert.key, j) => j \in op.reclaim
    BY <1>1 DEF IInv, WorkPlanned, Cutting
  <1>3. CASE \E j \in op.reclaim :
                 PublishRow(j, DeletionOf(catalog[j]), op.reclaim \ {j}, op.insert)
    <2>1. PICK k \in op.reclaim :
              PublishRow(k, DeletionOf(disk[k]), op.reclaim \ {k}, op.insert)
      BY Zenon, <1>1, <1>3 DEF Clean
    <2>2. k \in Key /\ Present(disk[k]) /\ disk[k] \in Row
      BY <1>1, <1>2 DEF TypeOK, Present, NoRow, Expirable, None
    <2>3. /\ Admissible(k, DeletionOf(disk[k])) /\ DeletionOf(disk[k]).kind \in Deletion
          /\ DeletionOf(disk[k]) \in Row
      BY <1>1, <1>2, <2>2, DeletionAdmissible
    <2>4. \A j \in Key \ {k} : Present(disk[j]) => ~SharesId(j, k) /\ ~SharesId(k, j)
      BY <2>2 DEF IInv, IdsDistinct, Rows
    <2>5. op.reclaim \ {k} \in SUBSET Key
      BY ZenonT(30), <1>1
    <2>6. IInv'
      BY ZenonT(30), <1>1, <1>2, <2>1, <2>2, <2>3, <2>4, <2>5, PublishKeeps
    <2> QED
      BY <1>1, <2>1, <2>2, <2>3, <2>6, PublishFollows
  <1>4. CASE /\ op.reclaim = {} /\ op.insert # NoInsert
             /\ PublishRow(op.insert.key, Fresh(op.insert.kind, op.insert.kind = "CancelReserved"),
                           {}, NoInsert)
    <2> DEFINE k == op.insert.key
               c == op.insert.kind = "CancelReserved"
               row == Fresh(op.insert.kind, c)
    <2>1. k \in Key /\ op.insert.kind \in {"ReservedUnbound", "CancelReserved"}
      BY <1>1, <1>4 DEF Insert
    <2>2. \A j \in Key : Present(disk[j]) => ~SharesId(k, j) /\ ~SharesId(j, k)
      BY <1>2, <1>4 DEF SharesId
    <2>3. ~Present(disk[k])
      BY <2>1, <2>2 DEF SharesId
    <2>4. Admissible(k, row) /\ row \in Row
      BY Zenon, <2>1, <2>3, FreshAdmissible
    <2>5. PublishRow(k, row, {}, NoInsert) /\ NoInsert \in Insert
      BY ZenonT(30), <1>4 DEF Insert
    <2> HIDE DEF k, row
    <2>6. IInv'
      BY <1>1, <2>1, <2>2, <2>4, <2>5, PublishKeeps
    <2> QED
      BY ZenonT(30), <1>1, <2>1, <2>4, <2>5, <2>6, PublishFollows
  <1> QED
    BY <1>3, <1>4 DEF Work

Operation == [phase : Phase, key : Key \cup {None}, reclaim : SUBSET Key, insert : Insert]

LEMMA IdleOperation == Idle \in Operation /\ Idle.phase = "idle"
  BY DEF Idle, Operation, Phase, Insert

\* An operation ends without a further step on disk.
LEMMA StopKeeps ==
  ASSUME IInv, Fail \/ GiveUp \/ \E k \in Key : ReadDeadRow(k)
  PROVE  IInv' /\ AllFollow
  <1>1. /\ op' \in Operation /\ op'.phase = "idle" /\ unavailable' \in BOOLEAN
        /\ UNCHANGED <<disk, generation, catalog, crashes, issued, answered, inflight>>
        /\ ~unavailable' => Quiet
    <2>1. CASE Fail
      BY <2>1, IdleOperation DEF Fail
    <2>2. CASE GiveUp
      BY <2>2, IdleOperation DEF GiveUp, IInv, TypeOK, Quiet
    <2>3. CASE \E k \in Key : ReadDeadRow(k)
      BY <2>3 DEF ReadDeadRow, Ready, IInv, TypeOK, Operation, Insert
    <2> QED
      BY <2>1, <2>2, <2>3
  <1>2. /\ (SequencesDistinct /\ SequencesBounded /\ IdsDistinct /\ WitnessLast)'
        /\ (IssuedOnDisk /\ KindsFit /\ Remembered)' /\ AllFollow
        /\ Clean => Clean'
    BY <1>1, BookkeepingKeeps
  <1>3. TypeOK'
    BY <1>1 DEF IInv, TypeOK, Operation, Insert
  <1>4. QuietClean'
    BY ZenonT(30), <1>1, <1>2 DEF IInv, QuietClean, Quiet
  <1>5. (CuttingClean /\ HealingClean /\ WorkPlanned)'
    BY <1>1 DEF CuttingClean, HealingClean, WorkPlanned, Cutting
  <1> QED
    BY <1>2, <1>3, <1>4, <1>5 DEF IInv

LEMMA CrashKeeps ==
  ASSUME IInv, Crash
  PROVE  IInv' /\ AllFollow
  <1>1. /\ op' = [Idle EXCEPT !.phase = "closed"] /\ crashes' = crashes + 1 /\ crashes < MaxCrashes
        /\ catalog' = [k \in Key |-> NoRow] /\ unavailable' = FALSE
        /\ UNCHANGED <<disk, generation, issued, answered, inflight>>
    BY DEF Crash
  <1>2. op' \in Operation /\ op'.phase = "closed"
    BY <1>1 DEF Idle, Operation, Phase, Insert
  <1>3. TypeOK'
    <2>1. catalog' \in [Key -> Row \cup {NoRow}]
      BY <1>1
    <2>2. crashes' \in 0..MaxCrashes
      BY <1>1, LedgerAssumption DEF IInv, TypeOK
    <2> QED
      BY Zenon, <1>1, <1>2, <2>1, <2>2 DEF IInv, TypeOK, Operation, Insert
  <1>4. /\ (SequencesDistinct /\ SequencesBounded /\ IdsDistinct /\ WitnessLast)'
        /\ (IssuedOnDisk /\ KindsFit /\ Remembered)'
    BY ZenonT(30), <1>1
    DEF IInv, SequencesDistinct, SequencesBounded, IdsDistinct, WitnessLast, IssuedOnDisk,
        KindsFit, Remembered, Witnesses, Rows, Sequenced
  <1>5. (QuietClean /\ CuttingClean /\ HealingClean /\ WorkPlanned)'
    BY <1>2 DEF QuietClean, CuttingClean, HealingClean, WorkPlanned, Cutting, Quiet
  <1>6. AllFollow
    BY <1>1, UnchangedFollows DEF IInv
  <1> QED
    BY <1>3, <1>4, <1>5, <1>6 DEF IInv

LEMMA GenerationKeeps ==
  ASSUME IInv, PublishGeneration
  PROVE  IInv' /\ AllFollow
  <1>1. /\ op.phase = "row" /\ generation' = disk[op.key].seq
        /\ op' = [op EXCEPT !.phase = "committed"]
        /\ UNCHANGED <<disk, catalog, unavailable, crashes, issued, answered, inflight>>
    BY DEF PublishGeneration
  <1>2. /\ op' \in Operation /\ op'.phase = "committed" /\ op'.key = op.key
        /\ op'.reclaim = op.reclaim /\ op'.insert = op.insert
    BY <1>1 DEF IInv, TypeOK, Operation, Insert, Phase
  <1>3. CuttingClean /\ Cutting /\ generation \in Nat /\ issued \in Nat
    BY <1>1 DEF IInv, Cutting, TypeOK
  <1>4. /\ generation' = generation + 1 /\ op.key \in Key /\ issued = generation + 1
        /\ disk[op.key].seq = generation + 1
        /\ \A j \in Key \ {op.key} : disk[j].seq <= generation /\ j \notin Witnesses
        /\ \A j \in Key : disk[j].seq \in Nat
    BY <1>1, <1>3 DEF CuttingClean, IInv, TypeOK, Row, NoRow
  <1>5. TypeOK'
    BY <1>1, <1>2, <1>3, <1>4 DEF IInv, TypeOK, Operation, Insert
  <1>6. (SequencesDistinct /\ IdsDistinct /\ KindsFit /\ Remembered)'
    BY <1>1 DEF IInv, SequencesDistinct, IdsDistinct, KindsFit, Remembered, Rows, Sequenced
  <1>7. (SequencesBounded /\ IssuedOnDisk)'
    BY <1>1, <1>3, <1>4 DEF SequencesBounded, IssuedOnDisk
  <1>8. WitnessLast'
    <2>1. \A k \in Witnesses' : k = op.key
      BY <1>1, <1>4 DEF Witnesses, Rows
    <2> QED
      BY <1>1, <1>3, <1>4, <2>1 DEF WitnessLast
  <1>9. CuttingClean'
    <2>1. \A j \in Key \ {op.key} : j \notin Witnesses'
      BY <1>1, <1>4 DEF Witnesses, Rows
    <2> QED
      BY <1>1, <1>2, <1>3, <1>4, <2>1 DEF CuttingClean
  <1>10. (QuietClean /\ HealingClean)'
    BY <1>2 DEF QuietClean, HealingClean, Quiet
  <1>11. WorkPlanned'
    BY <1>1, <1>2, <1>3 DEF IInv, WorkPlanned, Cutting
  <1>12. AllFollow
    BY <1>1, UnchangedFollows DEF IInv
  <1> QED
    BY <1>5, <1>6, <1>7, <1>8, <1>9, <1>10, <1>11, <1>12 DEF IInv

LEMMA SettleKeeps ==
  ASSUME IInv, Settle
  PROVE  IInv' /\ AllFollow
  <1> DEFINE k == op.key
             row == disk[k]
             more == ~(op.reclaim = {} /\ op.insert = NoInsert)
  <1>1. /\ op.phase = "committed"
        /\ disk' = [disk EXCEPT ![k] = Settled(row)]
        /\ catalog' = IF row.kind = "AcknowledgementCommit"
                      THEN [catalog EXCEPT ![k] = Settled(row)] ELSE catalog
        /\ answered' = [answered EXCEPT ![k] = Settled(row)]
        /\ op' = IF more THEN [op EXCEPT !.phase = "work", !.key = None] ELSE Idle
        /\ UNCHANGED <<generation, unavailable, crashes, issued, inflight>>
    BY DEF Settle
  <1>2. CuttingClean /\ Cutting /\ TypeOK /\ generation \in Nat /\ issued \in Nat
    BY <1>1 DEF IInv, Cutting, TypeOK
  <1>3. /\ k \in Key /\ issued = generation /\ row.seq = generation /\ ~unavailable
        /\ \A j \in Key \ {k} : catalog[j] = disk[j] /\ j \notin Witnesses /\ disk[j].seq <= generation
        /\ row.kind # "AcknowledgementCommit" => catalog[k] = Settled(row)
        /\ row \in Row \cup {NoRow}
        /\ KindFits(row)
    BY ZenonT(30), <1>1, <1>2 DEF CuttingClean, IInv, TypeOK, KindsFit
  <1> DEFINE settled == Settled(row)
  <1>4. /\ settled \in Row \cup {NoRow} /\ Settled(settled) = settled
        /\ settled.kind # "AcknowledgementCommit" /\ settled.kind \notin Deletion
        /\ KindFits(settled) /\ settled.seq <= row.seq
    BY <1>3, SettledRow
  <1>5. /\ row.kind \in Deletion => settled.kind = None
        /\ row.kind \in Deletion \cup {"AcknowledgementCommit"} \/ settled = row
        /\ settled.seq \in Nat
        /\ row.kind = "AcknowledgementCommit" =>
               settled.kind = "AcknowledgedTombstone"
    BY <1>3 DEF Settled, NoRow, Tombstone, Row, Deletion
  <1> HIDE DEF settled, more
  <1>6. /\ \A j \in Key : disk'[j] = IF j = k THEN settled ELSE disk[j]
        /\ \A j \in Key : answered'[j] = IF j = k THEN settled ELSE answered[j]
        /\ generation' = generation /\ issued' = issued /\ unavailable' = unavailable
        /\ inflight' = inflight /\ crashes' = crashes
        /\ op' \in Operation /\ op'.phase = IF more THEN "work" ELSE "idle"
        /\ more => op'.reclaim = op.reclaim /\ op'.insert = op.insert
    BY Zenon, <1>1, <1>2, IdleOperation DEF TypeOK, Operation, Insert, Phase, settled
  <1>7. catalog' = disk'
    <2>1. \A j \in Key : catalog'[j] = disk'[j]
      BY <1>1, <1>2, <1>3, <1>6 DEF TypeOK, settled
    <2>2. /\ catalog' \in [Key -> Row \cup {NoRow}]
          /\ disk' \in [Key -> Row \cup {NoRow}]
      BY <1>1, <1>2, <1>3, <1>4 DEF TypeOK, settled
    <2> QED
      BY <2>1, <2>2
  <1>8. TypeOK'
    <2>1. disk' \in [Key -> Row \cup {NoRow}] /\ answered' \in [Key -> Row \cup {NoRow}]
      BY ZenonT(30), <1>1, <1>2, <1>3, <1>4 DEF TypeOK, settled
    <2> QED
      BY <1>2, <1>6, <1>7, <2>1 DEF TypeOK, Operation, Insert
  <1>9. \A j \in Key : disk'[j].seq <= generation
    BY <1>2, <1>3, <1>4, <1>5, <1>6
  <1>10. Witnesses' = {}
    <2>1. k \notin Witnesses'
      BY ZenonT(30), <1>3, <1>4, <1>6 DEF Witnesses, Rows, IsExpiredDeletion, Deletion
    <2>2. \A j \in Key \ {k} : j \notin Witnesses'
      BY ZenonT(30), <1>3, <1>6 DEF Witnesses, Rows
    <2> QED
      BY ZenonT(30), <2>1, <2>2 DEF Witnesses, Rows
  <1>11. (SequencesBounded /\ WitnessLast /\ IssuedOnDisk /\ QuietClean /\ CuttingClean
          /\ HealingClean)'
    <2>1. \A j \in Key : disk'[j].seq \in Nat
      BY <1>8 DEF TypeOK, Row, NoRow
    <2>2. SequencesBounded'
      BY <1>2, <1>6, <1>9, <2>1 DEF SequencesBounded
    <2>3. issued' <= generation'
      BY <1>2, <1>3, <1>6
    <2>4. Clean'
      BY ZenonT(30), <1>6, <1>7, <1>9, <1>10, <2>3 DEF Clean
    <2>5. op'.phase \in {"idle", "work"}
      BY ZenonT(30), <1>6
    <2> QED
      BY ZenonT(30), <1>10, <2>2, <2>3, <2>4, <2>5 DEF WitnessLast, IssuedOnDisk, QuietClean,
         CuttingClean, HealingClean, Cutting
  <1>12. SequencesDistinct' /\ IdsDistinct'
    <2>1. \A j \in Rows' : j \in Rows
      BY ZenonT(30), <1>5, <1>6 DEF Rows, Present, Deletion, None
    <2>2. \A j \in Sequenced' : j \in Sequenced /\ disk'[j] = disk[j]
      BY ZenonT(30), <1>4, <1>5, <1>6, <2>1 DEF Sequenced, Rows, Present, settled, Deletion, None
    <2> QED
      BY <2>1, <2>2 DEF IInv, SequencesDistinct, IdsDistinct, Rows, SharesId
  <1>13. WorkPlanned'
    <2>1. /\ \A j \in op.reclaim : /\ disk[j].kind \in Expirable \cup {"TaskTerminalReceiptBacked"}
                                   /\ j # k
          /\ op.insert # NoInsert =>
                 /\ row.kind \in Deletion
                 /\ \A j \in Key : Present(disk[j]) /\ SharesId(op.insert.key, j) =>
                        j \in op.reclaim \/ j = k
      BY <1>2 DEF IInv, WorkPlanned
    <2>2. op.reclaim \subseteq Key
      BY ZenonT(30), <1>2 DEF TypeOK
    <2> QED
      BY ZenonT(30), <1>5, <1>6, <2>1, <2>2 DEF WorkPlanned, Cutting, Present
  <1>14. KindsFit' /\ Remembered'
    BY ZenonT(30), <1>4, <1>6 DEF IInv, KindsFit, Remembered
  <1>15. AllFollow
    BY <1>2, <1>4, <1>6, UnchangedFollows DEF settled
  <1> QED
    BY <1>8, <1>11, <1>12, <1>13, <1>14, <1>15 DEF IInv

LEMMA HealGenerationKeeps ==
  ASSUME IInv, HealGeneration
  PROVE  IInv' /\ AllFollow
  <1> DEFINE S == MutationSequences \cup {generation}
  <1>1. /\ generation' = Max(S) /\ op.phase = "closed" /\ op' = [op EXCEPT !.phase = "heal_ack"]
        /\ UNCHANGED <<disk, catalog, unavailable, crashes, issued, answered, inflight>>
    BY ZenonT(30) DEF HealGeneration
  <1>2. TypeOK /\ generation \in Nat /\ issued \in Nat /\ \A k \in Key : disk[k].seq \in Nat
    BY SMTT(30) DEF IInv, TypeOK, Row, NoRow
  <1>3. \A k \in Key : disk[k].seq \in S \/ disk[k].seq = 0
    BY ZenonT(30) DEF IInv, KindsFit, KindFits, MutationSequences, Sequenced, Rows, Present
  <1>4. S \subseteq {disk[k].seq : k \in Key} \cup {generation}
    BY ZenonT(30) DEF MutationSequences, Sequenced, Rows
  <1>5. \A x \in S : x \in Nat /\ x <= generation + 1
    BY <1>2, <1>4 DEF IInv, SequencesBounded
  <1>6. /\ generation' \in S /\ generation' \in {generation, generation + 1}
        /\ \A x \in S : x <= generation'
    <2> HIDE DEF S
    <2>1. generation \in S
      BY DEF S
    <2>2. \E x \in S : \A y \in S : x >= y
      <3>1. CASE generation + 1 \in S
        BY <1>2, <1>5, <3>1
      <3>2. CASE generation + 1 \notin S
        <4>1. \A y \in S : generation >= y
          BY <1>2, <1>5, <3>2
        <4> QED
          BY <2>1, <4>1
      <3> QED
        BY ZenonT(30), <3>1, <3>2
    <2>3. Max(S) \in S /\ \A y \in S : Max(S) >= y
      BY <2>2 DEF Max
    <2> QED
      BY <1>1, <1>2, <1>5, <2>1, <2>3
  <1>7. \A k \in Key : disk[k].seq <= generation'
    BY <1>2, <1>3, <1>6
  <1>8. issued <= generation'
    <2>1. CASE issued <= generation
      BY <1>2, <1>6, <2>1
    <2>2. CASE \E k \in Sequenced : disk[k].seq = issued
      BY <1>6, <2>2 DEF MutationSequences
    <2> QED
      BY <2>1, <2>2 DEF IInv, IssuedOnDisk
  <1> HIDE DEF S
  <1>9. op' \in Operation /\ op'.phase = "heal_ack"
    BY <1>1, <1>2 DEF TypeOK, Operation, Insert, Phase
  <1>10. TypeOK'
    BY <1>1, <1>2, <1>6, <1>9 DEF TypeOK, Operation, Insert
  <1>11. (SequencesDistinct /\ IdsDistinct /\ KindsFit /\ Remembered)'
    BY <1>1 DEF IInv, SequencesDistinct, IdsDistinct, KindsFit, Remembered, Rows, Sequenced
  <1>12. (SequencesBounded /\ IssuedOnDisk)'
    BY <1>1, <1>2, <1>6, <1>7, <1>8 DEF SequencesBounded, IssuedOnDisk
  <1>13. WitnessLast'
    <2>1. SUFFICES ASSUME NEW k \in Witnesses
                   PROVE  /\ disk[k].seq \in {generation', generation' + 1}
                          /\ \A j \in Key : disk[j].seq <= disk[k].seq
      BY <1>1 DEF WitnessLast, Witnesses, Rows
    <2>2. /\ disk[k].seq \in {generation, generation + 1} /\ k \in Key
          /\ \A j \in Key : disk[j].seq <= disk[k].seq
      BY DEF IInv, WitnessLast, Witnesses, Rows
    <2>3. \A x \in S : x <= disk[k].seq
      BY <1>2, <1>4, <2>2
    <2>4. generation' = disk[k].seq
      BY <1>2, <1>6, <1>7, <2>2, <2>3
    <2> QED
      BY <2>2, <2>4
  <1>14. (QuietClean /\ CuttingClean /\ HealingClean /\ WorkPlanned)'
    BY <1>1, <1>7, <1>8, <1>9 DEF QuietClean, CuttingClean, HealingClean, WorkPlanned, Quiet, Cutting
  <1>15. AllFollow
    BY ZenonT(30), <1>1, <1>2, UnchangedFollows
  <1> QED
    BY <1>10, <1>11, <1>12, <1>13, <1>14, <1>15 DEF IInv

\* Recovery settles some of the rows and changes no other.
LEMMA SettlingKeeps ==
  ASSUME IInv, op.phase \in {"heal_ack", "heal_deletion"}, generation' = generation,
         issued' = issued, disk' \in [Key -> Row \cup {NoRow}],
         \A k \in Key : disk'[k] \in {disk[k], Settled(disk[k])}
  PROVE  /\ (SequencesDistinct /\ SequencesBounded /\ IdsDistinct /\ WitnessLast)'
         /\ (IssuedOnDisk /\ KindsFit)'
         /\ issued' <= generation' /\ \A k \in Key : disk'[k].seq <= generation'
         /\ \A k \in Key : Settled(disk'[k]) = Settled(disk[k])
         /\ AllFollow
  <1>1. /\ generation \in Nat /\ issued \in Nat /\ issued <= generation
        /\ \A k \in Key : /\ disk[k].seq <= generation /\ disk[k].seq \in Nat
                          /\ disk[k] \in Row \cup {NoRow} /\ KindFits(disk[k])
    BY SMTT(30) DEF IInv, HealingClean, TypeOK, Row, NoRow, KindsFit
  <1>2. ASSUME NEW k \in Key
        PROVE  /\ disk'[k].seq <= disk[k].seq /\ KindFits(disk'[k])
               /\ disk'[k].seq \in Nat
               /\ Settled(disk'[k]) = Settled(disk[k])
               /\ Present(disk'[k]) => Present(disk[k])
               /\ disk'[k] = disk[k] \/ disk'[k].kind \in {None, "AcknowledgedTombstone"}
    <2>1. CASE disk'[k] = disk[k]
      BY <1>1, <2>1
    <2>2. CASE disk'[k] = Settled(disk[k]) /\ disk'[k] # disk[k]
      <3>1. /\ Settled(Settled(disk[k])) = Settled(disk[k])
            /\ KindFits(Settled(disk[k])) /\ Settled(disk[k]).seq <= disk[k].seq
            /\ disk[k].kind \in Deletion \cup {"AcknowledgementCommit"}
            /\ Settled(disk[k]) \in Row \cup {NoRow}
        BY <1>1, <2>2, SettledRow
      <3>2. Settled(disk[k]).kind \in {None, "AcknowledgedTombstone"} /\ Present(disk[k])
        BY ZenonT(30), <1>1, <3>1 DEF Settled, Tombstone, NoRow, Row, Deletion, Present, None
      <3>3. Settled(disk[k]).seq \in Nat
        BY <3>1 DEF Row, NoRow
      <3> QED
        BY ZenonT(30), <2>2, <3>1, <3>2, <3>3
    <2> QED
      BY ZenonT(30), <2>1, <2>2
  <1>3. \A k \in Rows' : k \in Rows
    BY ZenonT(30), <1>2 DEF Rows
  <1>4. \A k \in Sequenced' : k \in Sequenced /\ disk'[k] = disk[k]
    BY ZenonT(30), <1>2, <1>3 DEF Sequenced, Rows, Present
  <1>5. \A k \in Witnesses' : k \in Witnesses /\ disk'[k] = disk[k] /\ k \in Key
    BY ZenonT(30), <1>2, <1>3 DEF Witnesses, Rows, IsExpiredDeletion, Present
  <1>6. SequencesDistinct' /\ IdsDistinct'
    BY ZenonT(30), <1>3, <1>4 DEF IInv, SequencesDistinct, IdsDistinct, SharesId
  <1>7. \A k \in Key : disk'[k].seq <= generation'
    BY <1>1, <1>2
  <1>8. (SequencesBounded /\ IssuedOnDisk /\ KindsFit)'
    BY <1>1, <1>2, <1>7 DEF SequencesBounded, IssuedOnDisk, KindsFit
  <1>9. WitnessLast'
    <2>1. SUFFICES ASSUME NEW k \in Witnesses'
                   PROVE  /\ disk'[k].seq \in {generation', generation' + 1}
                          /\ \A j \in Key : disk'[j].seq <= disk'[k].seq
      BY DEF WitnessLast
    <2>2. disk[k].seq \in {generation, generation + 1} /\ \A j \in Key : disk[j].seq <= disk[k].seq
      BY <1>5 DEF IInv, WitnessLast
    <2> QED
      BY <1>1, <1>2, <1>5, <2>2
  <1>10. AllFollow
    BY ZenonT(30), <1>2, UnchangedFollows DEF IInv
  <1> QED
    BY ZenonT(30), <1>1, <1>2, <1>6, <1>7, <1>8, <1>9, <1>10

LEMMA HealAcknowledgementKeeps ==
  ASSUME IInv, HealAcknowledgement
  PROVE  IInv' /\ AllFollow
  <1>1. /\ op.phase = "heal_ack" /\ op' = [op EXCEPT !.phase = "heal_deletion"]
        /\ disk' = [k \in Key |-> IF disk[k].kind = "AcknowledgementCommit"
                                  THEN Tombstone(disk[k]) ELSE disk[k]]
        /\ UNCHANGED <<generation, catalog, unavailable, crashes, issued, answered, inflight>>
    BY DEF HealAcknowledgement
  <1>2. TypeOK
    BY DEF IInv
  <1>3. op' \in Operation /\ op'.phase = "heal_deletion"
    BY <1>1, <1>2 DEF TypeOK, Operation, Insert, Phase
  <1>4. \A k \in Key :
            /\ disk'[k] = IF disk[k].kind = "AcknowledgementCommit"
                          THEN Settled(disk[k]) ELSE disk[k]
            /\ Settled(disk[k]) \in Row \cup {NoRow}
            /\ Settled(disk[k]).kind # "AcknowledgementCommit"
    BY <1>1, <1>2, SettledRow DEF TypeOK, Settled, Deletion
  <1>5. disk' \in [Key -> Row \cup {NoRow}]
    BY <1>1, <1>2, <1>4 DEF TypeOK
  <1>6. /\ (SequencesDistinct /\ SequencesBounded /\ IdsDistinct /\ WitnessLast)'
        /\ (IssuedOnDisk /\ KindsFit)'
        /\ issued' <= generation' /\ \A k \in Key : disk'[k].seq <= generation'
        /\ \A k \in Key : Settled(disk'[k]) = Settled(disk[k])
        /\ AllFollow
    BY <1>1, <1>4, <1>5, SettlingKeeps
  <1>7. TypeOK'
    BY ZenonT(30), <1>1, <1>2, <1>3, <1>5 DEF TypeOK, Operation, Insert
  <1>8. (QuietClean /\ CuttingClean /\ HealingClean /\ WorkPlanned)'
    BY <1>3, <1>4, <1>6 DEF QuietClean, CuttingClean, HealingClean, WorkPlanned, Quiet, Cutting
  <1>9. Remembered'
    BY ZenonT(30), <1>1, <1>6 DEF IInv, Remembered
  <1> QED
    BY <1>6, <1>7, <1>8, <1>9 DEF IInv

LEMMA HealDeletionKeeps ==
  ASSUME IInv, HealDeletion
  PROVE  /\ IInv' /\ AllFollow
         /\ \A k \in Key : Settled(catalog'[k]) = Settled(disk[k])
  <1>1. /\ op.phase = "heal_deletion" /\ op' = Idle
        /\ disk' = [k \in Key |-> IF IsExpiredDeletion(disk[k]) THEN NoRow ELSE disk[k]]
        /\ catalog' = disk'
        /\ answered' = [k \in Key |-> Settled(disk'[k])]
        /\ inflight' = [k \in Key |-> Settled(disk'[k])]
        /\ UNCHANGED <<generation, unavailable, crashes, issued>>
    BY DEF HealDeletion
  <1>2. TypeOK /\ \A k \in Key : disk[k].kind # "AcknowledgementCommit"
    BY <1>1 DEF IInv, HealingClean
  <1>3. op' \in Operation /\ op'.phase = "idle"
    BY <1>1, IdleOperation
  <1>4. \A k \in Key :
            /\ disk'[k] = IF IsExpiredDeletion(disk[k]) THEN Settled(disk[k]) ELSE disk[k]
            /\ Settled(disk[k]) \in Row \cup {NoRow}
            /\ Settled(disk[k]).kind # "AcknowledgementCommit"
            /\ ~IsExpiredDeletion(disk'[k])
    BY <1>1, <1>2, SettledRow DEF TypeOK, Settled, Deletion, IsExpiredDeletion, NoRow, None
  <1>5. disk' \in [Key -> Row \cup {NoRow}]
    BY ZenonT(30), <1>1, <1>2 DEF TypeOK
  <1>6. /\ (SequencesDistinct /\ SequencesBounded /\ IdsDistinct /\ WitnessLast)'
        /\ (IssuedOnDisk /\ KindsFit)'
        /\ issued' <= generation' /\ \A k \in Key : disk'[k].seq <= generation'
        /\ \A k \in Key : Settled(disk'[k]) = Settled(disk[k])
        /\ AllFollow
    BY ZenonT(30), <1>1, <1>4, <1>5, SettlingKeeps
  <1>7. TypeOK'
    <2>1. \A k \in Key : Settled(disk'[k]) \in Row \cup {NoRow}
      BY <1>4, <1>6
    <2>2. answered' \in [Key -> Row \cup {NoRow}] /\ inflight' \in [Key -> Row \cup {NoRow}]
      BY <1>1, <2>1
    <2> QED
      BY ZenonT(30), <1>1, <1>2, <1>3, <1>5, <2>2 DEF TypeOK, Operation, Insert
  <1>8. Witnesses' = {}
    BY <1>2, <1>4 DEF Witnesses, Rows
  <1>9. (QuietClean /\ CuttingClean /\ HealingClean /\ WorkPlanned)'
    BY Zenon, <1>1, <1>3, <1>6, <1>8
    DEF QuietClean, CuttingClean, HealingClean, WorkPlanned, Cutting, Clean
  <1>10. Remembered'
    BY <1>1 DEF Remembered
  <1> QED
    BY <1>1, <1>6, <1>7, <1>9, <1>10 DEF IInv

LEMMA NextKeeps ==
  ASSUME IInv, Next
  PROVE  IInv' /\ AllFollow
  <1>1. ASSUME NEW k \in Key, Reserve(k) \/ RequestCancelOrReserve(k)
        PROVE  IInv' /\ AllFollow
    BY <1>1, AdmitKeeps, ConvertOperates, CancelReservedOperates, OperatesKeeps
    DEF Reserve, RequestCancelOrReserve
  <1>2. ASSUME NEW k \in Key,
               \/ BindReservedActor(k) \/ MarkReservedBegun(k)
               \/ PromiseTaskUnbound(k) \/ BindPromisedTaskActor(k)
               \/ BeginBoundTaskHandoff(k)
               \/ CompleteBoundTaskHandoff(k) \/ CompleteStagedTaskHandoff(k)
               \/ RetainBegunTaskAfterLinkCapacity(k) \/ RequestTaskCancel(k)
        PROVE  IInv' /\ AllFollow
    BY <1>2, OperatesKeeps, TransitionOperates, PromiseOperates, BindPromisedOperates,
       BeginHandoffOperates, CompleteOperates, RetainOperates, TaskCancelOperates
  <1>3. ASSUME NEW k \in Key, NEW d \in Digest,
               \/ StageBoundTaskHandoffTerminal(k, d) \/ PublishDirectTerminal(k, d)
               \/ PublishReceiptBackedTaskTerminal(k, d) \/ AcknowledgeDirect(k, d)
        PROVE  IInv' /\ AllFollow
    BY <1>3, OperatesKeeps, StageOperates, DirectTerminalOperates, TaskTerminalOperates,
       AcknowledgeOperates
  <1>4. ASSUME Fail \/ GiveUp \/ \E k \in Key : ReadDeadRow(k) PROVE IInv' /\ AllFollow
    BY <1>4, StopKeeps
  <1>5. ASSUME ReclaimExpired \/ Work \/ PublishGeneration \/ Settle \/ Crash
        PROVE  IInv' /\ AllFollow
    BY <1>5, ReclaimKeeps, WorkKeeps, GenerationKeeps, SettleKeeps, CrashKeeps
  <1>6. ASSUME Recover PROVE IInv' /\ AllFollow
    BY <1>6, HealGenerationKeeps, HealAcknowledgementKeeps, HealDeletionKeeps DEF Recover
  <1> QED
    BY <1>1, <1>2, <1>3, <1>4, <1>5, <1>6 DEF Next

LEMMA StutterKeeps ==
  ASSUME IInv, UNCHANGED vars
  PROVE  IInv'
  <1>1. TypeOK'
    BY ZenonT(30) DEF vars, IInv, TypeOK
  <1>2. Rows' = Rows /\ Sequenced' = Sequenced /\ Witnesses' = Witnesses
    BY DEF vars, Sequenced, Rows, Witnesses
  <1>3. SequencesDistinct' /\ SequencesBounded' /\ IdsDistinct'
    BY <1>2 DEF vars, IInv, SequencesDistinct, SequencesBounded, IdsDistinct, Quiet, Cutting
  <1>4. WitnessLast' /\ IssuedOnDisk'
    BY ZenonT(30), <1>2 DEF vars, IInv, WitnessLast, IssuedOnDisk, Quiet, Cutting
  <1>5. QuietClean' /\ CuttingClean' /\ HealingClean'
    BY ZenonT(30), <1>2 DEF vars, IInv, QuietClean, CuttingClean, HealingClean, Quiet, Cutting, Clean
  <1>6. WorkPlanned' /\ KindsFit' /\ Remembered'
    BY <1>2 DEF vars, IInv, WorkPlanned, KindsFit, Remembered, Quiet, Cutting, Clean
  <1> QED
    BY ZenonT(30), <1>1, <1>3, <1>4, <1>5, <1>6 DEF IInv

LEMMA Inductive == Spec => []IInv
  <1>1. IInv /\ [Next]_vars => IInv'
    BY NextKeeps, StutterKeeps
  <1> QED
    BY <1>1, InitHolds, PTL DEF Spec

\* The variables of the store keep their types.
THEOREM TypeCorrect == Spec => []TypeOK
  <1>1. IInv => TypeOK
    BY DEF IInv
  <1> QED
    BY <1>1, Inductive, PTL

\* Whatever step of an operation or of a recovery is the last before a crash, the next
\* open of the store accepts the rows it finds.
THEOREM RecoveryAlwaysAccepts == Spec => []RecoveryAccepts
  <1>1. IInv => RecoveryAccepts
    BY InvAccepts DEF RecoveryAccepts
  <1> QED
    BY <1>1, Inductive, PTL

\* Between operations the catalog equals the rows on disk.
THEOREM CatalogAlwaysMirrors == Spec => []CatalogMirrorsDisk
  <1>1. IInv => CatalogMirrorsDisk
    BY DEF IInv, CatalogMirrorsDisk, QuietClean, Quiet, Clean, Ready
  <1> QED
    BY <1>1, Inductive, PTL

\* No mutation sequence is issued twice, across deletions, failures and crashes.
THEOREM SequenceAlwaysFresh == Spec => []SequenceFresh
  <1>1. IInv => SequenceFresh
    BY DEF IInv, SequenceFresh, QuietClean, Quiet, Clean, Ready
  <1> QED
    BY <1>1, Inductive, PTL

\* Versions, cancellations, Begun marks and undelivered receipts stand through every
\* operation, failure, crash and recovery.
THEOREM FactsAlwaysStand == Spec => FactsStand
  <1>1. IInv /\ [Next]_vars =>
            [\A k \in Key :
               LET a == Settled(disk[k])
                   b == Settled(disk[k])' IN
               /\ Present(a) /\ Present(b) =>
                      /\ b.version >= a.version /\ (a.version = b.version => a = b)
                      /\ a.cancel => b.cancel \/ b.kind = "DirectTerminalUnacked"
                      /\ a.begun => b.begun \/ b.kind \in Terminal
               /\ Present(a) /\ ~Present(b) =>
                      a.kind \in Terminal \cup {"TaskPromisedActorBound", "TaskHandoffActorBound"}
               /\ ~Present(a) /\ Present(b) => b.version = 1]_vars
    BY Zenon, NextKeeps DEF AllFollow, Follows
  <1> QED
    BY <1>1, Inductive, PTL DEF Spec, FactsStand

\* A cancellation recorded before the Begun mark keeps the attempt from beginning.
THEOREM CancelAlwaysStopsBegin == Spec => CancelStopsBegin
  <1>1. IInv /\ [Next]_vars =>
            [\A k \in Key :
               LET a == Settled(disk[k])
                   b == Settled(disk[k])' IN
               a.cancel /\ ~a.begun /\ Present(b) => ~b.begun]_vars
    BY Zenon, NextKeeps DEF AllFollow, Follows
  <1> QED
    BY <1>1, Inductive, PTL DEF Spec, CancelStopsBegin

\* Where no task is retained in its receipt, a staged or published terminal is never
\* replaced or lost while the receipt exists.
THEOREM TerminalAlwaysStands ==
  ASSUME Retained = {}
  PROVE  Spec => TerminalStands
  <1>1. IInv /\ [Next]_vars =>
            [\A k \in Key :
               LET a == Settled(disk[k])
                   b == Settled(disk[k])' IN
               a.digest # None /\ Present(b) => b.digest = a.digest]_vars
    BY NextKeeps DEF AllFollow, TerminalKept
  <1> QED
    BY <1>1, Inductive, PTL DEF Spec, TerminalStands

\* A reopened store holds what the last completed operation left, or what the operation
\* that was cut off would have left.
THEOREM ReopenAlwaysExact == Spec => SurvivesReopen
  <1>1. IInv /\ [Next]_vars =>
            [op.phase = "heal_deletion" /\ op'.phase = "idle" =>
               \A k \in Key : Settled(catalog'[k]) \in {answered[k], inflight[k]}]_vars
    <2> SUFFICES ASSUME IInv, Next, op.phase = "heal_deletion", op'.phase = "idle"
                 PROVE  \A k \in Key : Settled(catalog'[k]) \in {answered[k], inflight[k]}
      BY ZenonT(30) DEF vars
    <2>1. HealDeletion
      BY DEF Next, Reserve, RequestCancelOrReserve, Admit, Enter, Replace, Ready, BindReservedActor,
             MarkReservedBegun, TransitionReservedPhase, PromiseTaskUnbound, BindPromisedTaskActor,
             BeginBoundTaskHandoff, CompleteBoundTaskHandoff, CompleteStagedTaskHandoff,
             RetainBegunTaskAfterLinkCapacity, ConvertCancelReservedToSubmit, CommitReservedCancel,
             RequestTaskCancel, ReadDeadRow, StageBoundTaskHandoffTerminal, PublishDirectTerminal,
             PublishReceiptBackedTaskTerminal, AcknowledgeDirect, ReclaimExpired, Work, GiveUp,
             PublishGeneration, Settle, Fail, Crash, Idle, Recover, HealGeneration,
             HealAcknowledgement
    <2> QED
      BY <2>1, HealDeletionKeeps DEF IInv, Remembered
  <1> QED
    BY <1>1, Inductive, PTL DEF Spec, SurvivesReopen
=============================================================================
