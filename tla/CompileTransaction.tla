--------------------------- MODULE CompileTransaction ---------------------------
(***************************************************************************)
(* One compile transaction (unica-workspace, compile_transaction.rs): the  *)
(* files a metadata compile plans are published one by one, each by one    *)
(* atomic file-system call, and a reported failure takes the published     *)
(* ones back.  The publication lock is advisory, so an editor that knows   *)
(* nothing of it may write, replace or delete any planned path between two *)
(* steps.  Every step may also meet an I/O error.                          *)
(*                                                                         *)
(* A path has four names: the target itself, and in private places next to *)
(* it the recovery copy, the rollback quarantine and a stage that could    *)
(* not be removed.  A name holds an inode, and the inode the bytes: a hard *)
(* link gives one inode two names, and a write through one of them is seen *)
(* through the other.  A removed tree is one file here, its snapshot the   *)
(* bytes.                                                                  *)
(***************************************************************************)
EXTENDS Naturals, Sequences, Functions

CONSTANTS Creates, Registrations, Removals,  \* the planned paths, in order
          Guards,                            \* the read guards
          MaxEdits, MaxFaults                \* bounds on the environment

Order == Creates \o Registrations \o Removals

Paths == Range(Order \o Guards)

ASSUME PlanAssumption ==
    /\ \A plan \in {Creates, Registrations, Removals, Guards} : plan \in Seq(Range(plan))
    /\ Order # <<>> /\ IsInjective(Order \o Guards)
    /\ MaxEdits \in Nat /\ MaxFaults \in Nat

Names == {"target", "recovery", "quarantine", "stage"}
Inodes == {"orig", "stage", "copy", "edit"}
Contents == {"old", "new", "edit"}

VARIABLES phase,      \* prepare, publish, validate, finalize, rollback or done
          todo,       \* the paths the phase has still to visit
          step,       \* how far the visit of the current path has come
          names,      \* path -> name -> the inode it holds, or "none"
          inode,      \* path -> inode -> its bytes
          published,  \* the paths recorded in PublishState, newest first
          errors,     \* rollback diagnostics: "conflict", "io", "leftover"
          outcome,    \* what commit returns
          left,       \* path -> what the editor left there since the plan was read
          overwrote,  \* paths whose original bytes the editor itself destroyed
          clobbered,  \* paths edited between the last recheck and the rename
          edits, faults

vars == <<phase, todo, step, names, inode, published, errors, outcome,
          left, overwrote, clobbered, edits, faults>>

disk == <<names, inode>>
history == <<left, overwrote, clobbered, edits>>

\* The bytes a name of a path holds.
At(p, n) == IF names[p][n] = "none" THEN "none" ELSE inode[p][names[p][n]]

\* The bytes the plan was made from, and the ones it publishes.
Preimage(p) == IF p \in Range(Creates) THEN "none" ELSE "old"
Postimage(p) == CASE p \in Range(Removals) -> "none"
                  [] p \in Range(Guards) -> "old"
                  [] OTHER -> "new"

\* The name still holds the file this transaction published, bytes included,
\* and is its only link.
Matches(p, n) == /\ names[p][n] = "stage" /\ inode[p]["stage"] = "new"
                 /\ \A m \in Names \ {n} : names[p][m] # "stage"

Current(p) == todo # <<>> /\ p = Head(todo)

\* rename_no_replace and a hard link, once their conditions hold.
Move(p, from, to) ==
    names' = [names EXCEPT ![p] = [@ EXCEPT ![to] = names[p][from], ![from] = "none"]]
Link(p, n, i) == names' = [names EXCEPT ![p][n] = i]
Unlink(p, n) == Link(p, n, "none")

Init ==
    /\ phase = "prepare"
    /\ todo = Guards \o Removals \o Creates \o Registrations
    /\ step = "start"
    /\ names = [p \in Paths |->
                  [n \in Names |-> IF n = "target" /\ Preimage(p) = "old"
                                   THEN "orig" ELSE "none"]]
    /\ inode = [p \in Paths |-> [i \in Inodes |-> CASE i = "stage" -> "new"
                                                    [] i = "edit" -> "edit"
                                                    [] OTHER -> "old"]]
    /\ published = <<>> /\ errors = {} /\ outcome = "none"
    /\ left = [p \in Paths |-> "untouched"]
    /\ overwrote = {} /\ clobbered = {} /\ edits = 0 /\ faults = 0

-----------------------------------------------------------------------------
(* The environment: I/O errors and an editor outside the lock.             *)

Fault == faults < MaxFaults /\ faults' = faults + 1
NoFault == UNCHANGED faults

\* A cleanup of what the transaction itself made (staged files, recovery
\* directories, the parent directories created before the lock was taken): it is
\* removed, or it stays and is reported.
Clean(errs) == \/ NoFault /\ errors' = errs
               \/ Fault /\ errors' = errs \cup {"leftover"}

Edited(p, bytes) ==
    /\ phase # "done" /\ edits < MaxEdits
    /\ edits' = edits + 1
    /\ left' = [left EXCEPT ![p] = bytes]
    /\ overwrote' = IF At(p, "target") = "old" THEN overwrote \cup {p} ELSE overwrote
    /\ UNCHANGED <<phase, todo, step, published, errors, outcome, clobbered, faults>>

\* The editor writes the file in place, replaces it by a new one, deletes it.
EditInPlace(p) ==
    /\ names[p]["target"] # "none"
    /\ inode' = [inode EXCEPT ![p][names[p]["target"]] = "edit"]
    /\ Edited(p, "edit") /\ UNCHANGED names

EditReplace(p) ==
    /\ Link(p, "target", "edit")
    /\ Edited(p, "edit") /\ UNCHANGED inode

EditDelete(p) ==
    /\ names[p]["target"] # "none"
    /\ Unlink(p, "target")
    /\ Edited(p, "none") /\ UNCHANGED inode

-----------------------------------------------------------------------------
(* Publication                                                             *)

NextPath == todo' = Tail(todo) /\ step' = "start"

\* A step of the operation returns an error: the prepared files are discarded
\* and the rollback visits what has been recorded, newest first.
Fail ==
    /\ phase' = "rollback" /\ todo' = published /\ step' = "start"
    /\ UNCHANGED published

\* The guards and the planned files are read once under the lock; creates and
\* registrations are staged, removals get their recovery directory.
Prepare(p) ==
    /\ phase = "prepare" /\ Current(p)
    /\ \/ At(p, "target") = Preimage(p) /\ NoFault
          /\ NextPath /\ UNCHANGED <<phase, published, errors>>
       \/ At(p, "target") # Preimage(p) /\ Fail /\ Clean(errors)
       \/ Fault /\ Fail /\ UNCHANGED errors
    /\ UNCHANGED <<disk, outcome, history>>

StartPublication ==
    /\ phase = "prepare" /\ todo = <<>>
    /\ phase' = "publish" /\ todo' = Order
    /\ UNCHANGED <<step, disk, published, errors, outcome, history, faults>>

\* The transaction writes a path: what the editor had left there is superseded
\* if it was the preimage, and lost with the name otherwise.
Supersede(p) ==
    IF At(p, "target") = Preimage(p)
    THEN left' = [left EXCEPT ![p] = "untouched"] /\ UNCHANGED clobbered
    ELSE clobbered' = clobbered \cup {p} /\ UNCHANGED left

\* PreparedCreate::commit: a hard link, which fails when the name exists; the
\* stage's own name goes afterwards, or stays and is reported.
InstallCreate(p) ==
    /\ phase = "publish" /\ Current(p) /\ p \in Range(Creates)
    /\ \/ /\ At(p, "target") = "none"
          /\ \/ Link(p, "target", "stage") /\ NoFault /\ UNCHANGED errors
             \/ /\ names' = [names EXCEPT ![p] = [@ EXCEPT !["target"] = "stage",
                                                           !["stage"] = "stage"]]
                /\ Fault /\ errors' = errors \cup {"leftover"}
          /\ Supersede(p) /\ published' = <<p>> \o published
          /\ NextPath /\ UNCHANGED phase
       \/ /\ At(p, "target") # "none"
          /\ Fail /\ Clean(errors) /\ UNCHANGED <<names, left, clobbered>>
       \/ /\ Fault /\ Fail /\ UNCHANGED <<errors, names, left, clobbered>>
    /\ UNCHANGED <<inode, outcome, overwrote, edits>>

\* The original bytes are written to the recovery file before the replacement.
BackUp(p) ==
    /\ phase = "publish" /\ Current(p) /\ step = "start"
    /\ p \in Range(Registrations)
    /\ \/ /\ Link(p, "recovery", "copy") /\ step' = "backed" /\ NoFault
          /\ UNCHANGED <<phase, todo, published>>
       \/ /\ Fault /\ Fail /\ UNCHANGED names
    /\ UNCHANGED <<inode, errors, outcome, history>>

\* A refused replacement drops its recovery file; one that stays is reported.
RefuseReplace(p) ==
    /\ Fail
    /\ \/ Unlink(p, "recovery") /\ NoFault /\ UNCHANGED errors
       \/ Fault /\ errors' = errors \cup {"leftover"} /\ UNCHANGED names

\* PreparedReplace::commit: the target is read again ...
RecheckReplace(p) ==
    /\ phase = "publish" /\ Current(p) /\ step = "backed"
    /\ \/ /\ At(p, "target") = "old" /\ step' = "checked"
          /\ UNCHANGED <<phase, todo, published, errors, names, faults>>
       \/ At(p, "target") # "old" /\ RefuseReplace(p)
       \/ Fault /\ Fail /\ Unlink(p, "recovery") /\ UNCHANGED errors
    /\ UNCHANGED <<inode, outcome, history>>

\* ... and the stage renamed over it.
ReplaceTarget(p) ==
    /\ phase = "publish" /\ Current(p) /\ step = "checked"
    /\ p \in Range(Registrations)
    /\ \/ /\ Link(p, "target", "stage") /\ Supersede(p)
          /\ published' = <<p>> \o published
          /\ NextPath /\ NoFault /\ UNCHANGED <<phase, errors>>
       \/ /\ Fault /\ Fail /\ Unlink(p, "recovery")
          /\ UNCHANGED <<errors, left, clobbered>>
    /\ UNCHANGED <<inode, outcome, overwrote, edits>>

\* A removal is read again, moved aside without replacing anything, recorded,
\* and the moved tree compared with its snapshot.
RecheckRemoval(p) ==
    /\ phase = "publish" /\ Current(p) /\ step = "start" /\ p \in Range(Removals)
    /\ \/ /\ At(p, "target") = "old" /\ step' = "checked" /\ NoFault
          /\ UNCHANGED <<phase, todo, published, errors>>
       \/ At(p, "target") # "old" /\ Fail /\ Clean(errors)
       \/ Fault /\ Fail /\ UNCHANGED errors
    /\ UNCHANGED <<disk, outcome, history>>

\* Variant: the removal is recorded only once its snapshot has been compared.
MoveAsideUnrecorded(p) ==
    /\ phase = "publish" /\ Current(p) /\ step = "checked" /\ p \in Range(Removals)
    /\ \/ /\ names[p]["target"] # "none"
          /\ Move(p, "target", "recovery")
          /\ step' = "moved" /\ NoFault /\ UNCHANGED <<phase, todo, errors, published>>
       \/ names[p]["target"] = "none" /\ Fail /\ Clean(errors) /\ UNCHANGED names
    /\ UNCHANGED <<inode, outcome, history>>

MoveAside(p) ==
    /\ phase = "publish" /\ Current(p) /\ step = "checked" /\ p \in Range(Removals)
    /\ \/ /\ names[p]["target"] # "none"
          /\ Move(p, "target", "recovery")
          /\ left' = [left EXCEPT ![p] = IF At(p, "target") = "old" THEN "untouched" ELSE @]
          /\ published' = <<p>> \o published
          /\ step' = "moved" /\ NoFault /\ UNCHANGED <<phase, todo, errors>>
       \/ /\ names[p]["target"] = "none"
          /\ Fail /\ Clean(errors) /\ UNCHANGED <<names, left>>
       \/ /\ Fault /\ Fail /\ UNCHANGED <<errors, names, left>>
    /\ UNCHANGED <<inode, outcome, overwrote, clobbered, edits>>

CompareMoved(p) ==
    /\ phase = "publish" /\ Current(p) /\ step = "moved"
    /\ \/ /\ At(p, "recovery") = "old" /\ NextPath /\ NoFault
          /\ UNCHANGED <<phase, published>>
       \/ At(p, "recovery") # "old" /\ Fail /\ NoFault
       \/ Fault /\ Fail
    /\ UNCHANGED <<disk, errors, outcome, history>>

StartValidation ==
    /\ phase = "publish" /\ todo = <<>>
    /\ phase' = "validate" /\ todo' = Order \o Guards
    /\ UNCHANGED <<step, disk, published, errors, outcome, history, faults>>

\* post_validate reads every published path back, the caller's own validation
\* may refuse, and the guards are read a second time.
Validate(p) ==
    /\ phase = "validate" /\ Current(p)
    /\ \/ /\ At(p, "target") = Postimage(p) /\ NextPath /\ NoFault
          /\ UNCHANGED <<phase, published>>
       \/ At(p, "target") # Postimage(p) /\ Fail /\ NoFault
       \/ Fault /\ Fail
    /\ UNCHANGED <<disk, errors, outcome, history>>

\* The operation has returned its report; what remains is the cleanup.
Succeed ==
    /\ phase = "validate" /\ todo = <<>>
    /\ phase' = "finalize" /\ outcome' = "ok"
    /\ todo' = SelectSeq(Order, LAMBDA p : names[p]["recovery"] # "none")
    /\ UNCHANGED <<step, disk, published, errors, history, faults>>

\* finalize_success: a recovery that cannot be removed is only a warning.
Finalize(p) ==
    /\ phase = "finalize" /\ Current(p) /\ NextPath
    /\ \/ Unlink(p, "recovery") /\ NoFault
       \/ Fault /\ UNCHANGED names
    /\ UNCHANGED <<phase, published, inode, errors, outcome, history>>

Return ==
    /\ phase = "finalize" /\ todo = <<>>
    /\ phase' = "done"
    /\ UNCHANGED <<todo, step, disk, published, errors, outcome, history, faults>>

-----------------------------------------------------------------------------
(* Rollback                                                                *)

Visiting(p, at) == phase = "rollback" /\ Current(p) /\ step = at

Report(e) == errors' = errors \cup {e}

\* The visit ends with a diagnostic, everything left where it is.
GiveUp(e) == Report(e) /\ NextPath /\ UNCHANGED names

StepIO == Fault /\ GiveUp("io")

\* A restored file takes a free name: one the editor created and deleted while
\* the name was vacant leaves nothing to respect.
Reoccupy(p) == left' = [left EXCEPT ![p] = IF @ = "none" THEN "untouched" ELSE @]

\* A removal is restored only to a free name.
LookRemoved(p) ==
    /\ Visiting(p, "start") /\ p \in Range(Removals)
    /\ \/ /\ names[p]["target"] = "none" /\ step' = "inspected" /\ NoFault
          /\ UNCHANGED <<todo, errors, names>>
       \/ names[p]["target"] # "none" /\ GiveUp("conflict") /\ NoFault
       \/ StepIO
    /\ UNCHANGED <<phase, published, inode, outcome, history>>

RestoreRemoved(p) ==
    /\ Visiting(p, "inspected") /\ p \in Range(Removals)
    /\ \/ /\ names[p]["target"] = "none"
          /\ Move(p, "recovery", "target") /\ step' = "restored" /\ NoFault
          /\ Reoccupy(p) /\ UNCHANGED <<todo, errors>>
       \/ names[p]["target"] # "none" /\ GiveUp("conflict") /\ NoFault /\ UNCHANGED left
       \/ StepIO /\ UNCHANGED left
    /\ UNCHANGED <<phase, published, inode, outcome, overwrote, clobbered, edits>>

VerifyRestored(p) ==
    /\ Visiting(p, "restored")
    /\ NextPath
    /\ Clean(errors \cup IF At(p, "target") = "old" THEN {} ELSE {"conflict"})
    /\ UNCHANGED <<phase, published, disk, outcome, history>>

\* inspect_published_target: a foreign file stays; a deleted registration keeps
\* its recovery, a deleted create has nothing left to undo.
InspectPublished(p) ==
    /\ Visiting(p, "start") /\ p \notin Range(Removals)
    /\ \/ /\ Matches(p, "target") /\ step' = "inspected" /\ NoFault
          /\ UNCHANGED <<todo, errors, names>>
       \/ /\ names[p]["target"] = "none" /\ p \in Range(Creates)
          /\ NextPath /\ NoFault /\ UNCHANGED <<errors, names>>
       \/ /\ ~Matches(p, "target")
          /\ names[p]["target"] # "none" \/ p \in Range(Registrations)
          /\ GiveUp("conflict") /\ NoFault
       \/ StepIO
    /\ UNCHANGED <<phase, published, inode, outcome, history>>

\* The file is moved to quarantine by name and inspected again there, where
\* no editor reaches it.
Quarantine(p) ==
    /\ Visiting(p, "inspected") /\ p \notin Range(Removals)
    /\ \/ /\ names[p]["target"] # "none"
          /\ Move(p, "target", "quarantine") /\ step' = "quarantined" /\ NoFault
          /\ UNCHANGED <<todo, errors>>
       \/ names[p]["target"] = "none" /\ GiveUp("conflict") /\ NoFault
       \/ StepIO
    /\ UNCHANGED <<phase, published, inode, outcome, history>>

\* An inspection that meets an error counts as a conflict; without a handle on
\* the directories the file stays in quarantine.
InspectQuarantined(p) ==
    /\ Visiting(p, "quarantined")
    /\ \/ /\ step' = IF Matches(p, "quarantine") THEN "confirmed" ELSE "foreign"
          /\ NoFault /\ UNCHANGED <<todo, errors, names>>
       \/ step' = "foreign" /\ Fault /\ UNCHANGED <<todo, errors, names>>
       \/ StepIO
    /\ UNCHANGED <<phase, published, inode, outcome, history>>

\* restore_quarantined_file_no_clobber: a file not confirmed goes back to its
\* name when that is free, and stays in quarantine otherwise; both are reported.
PutBack(p) ==
    /\ Visiting(p, "foreign")
    /\ Report("conflict") /\ NextPath
    /\ \/ names[p]["target"] = "none" /\ Move(p, "quarantine", "target") /\ NoFault
       \/ names[p]["target"] # "none" /\ UNCHANGED names /\ NoFault
       \/ Fault /\ UNCHANGED names
    /\ UNCHANGED <<phase, published, inode, outcome, history>>

\* Variant: the recovery is renamed over whatever holds the target name.
LinkBackClobbering(p) ==
    /\ Visiting(p, "confirmed") /\ p \in Range(Registrations)
    /\ Move(p, "recovery", "target") /\ step' = "linked"
    /\ UNCHANGED <<todo, errors, phase, published, inode, outcome, history, faults>>

\* The recovery is hard-linked to the target name, never over another file; one
\* that cannot be verified is not used, and the published file goes back ...
LinkBack(p) ==
    /\ Visiting(p, "confirmed") /\ p \in Range(Registrations)
    /\ \/ /\ names[p]["target"] = "none"
          /\ Link(p, "target", names[p]["recovery"]) /\ step' = "linked" /\ NoFault
          /\ Reoccupy(p) /\ UNCHANGED <<todo, errors>>
       \/ names[p]["target"] # "none" /\ GiveUp("conflict") /\ NoFault /\ UNCHANGED left
       \/ step' = "foreign" /\ Fault /\ UNCHANGED <<todo, errors, names, left>>
       \/ StepIO /\ UNCHANGED left
    /\ UNCHANGED <<phase, published, inode, outcome, overwrote, clobbered, edits>>

\* ... and read back before either copy is dropped.
VerifyLinked(p) ==
    /\ Visiting(p, "linked")
    /\ \/ /\ At(p, "target") = "old" /\ step' = "verified" /\ NoFault
          /\ UNCHANGED <<todo, errors, names>>
       \/ At(p, "target") # "old" /\ GiveUp("conflict") /\ NoFault
       \/ StepIO
    /\ UNCHANGED <<phase, published, inode, outcome, history>>

\* Recovery and quarantine are removed; one that stays is reported.
DropCopies(p) ==
    /\ Visiting(p, "verified") /\ NextPath
    /\ \E kept \in SUBSET {"recovery", "quarantine"} :
          /\ IF kept = {} THEN NoFault /\ UNCHANGED errors
                          ELSE Fault /\ Report("leftover")
          /\ names' = [names EXCEPT ![p] =
                         [n \in Names |-> IF n \in kept \cup {"target", "stage"}
                                          THEN @[n] ELSE "none"]]
    /\ UNCHANGED <<phase, published, inode, outcome, history>>

\* A quarantined create is removed; a file that took its name is reported, and
\* so is the file or its directory when it stays.
DropCreated(p) ==
    /\ Visiting(p, "confirmed") /\ p \in Range(Creates) /\ NextPath
    /\ \/ /\ Unlink(p, "quarantine") /\ NoFault
          /\ errors' = errors \cup IF names[p]["target"] = "none" THEN {} ELSE {"conflict"}
       \/ Fault /\ Report("leftover") /\ (Unlink(p, "quarantine") \/ UNCHANGED names)
    /\ UNCHANGED <<phase, published, inode, outcome, history>>

\* Left-over private files are retried and the parent directories made before
\* the lock are removed, which may fail even when nothing was staged; any
\* diagnostic turns the primary failure into RollbackFailed.
FinishRollback ==
    /\ phase = "rollback" /\ todo = <<>>
    /\ Clean(errors)
    /\ phase' = "done"
    /\ outcome' = IF errors' = {} THEN "failed" ELSE "rollback_failed"
    /\ UNCHANGED <<todo, step, disk, published, history>>

-----------------------------------------------------------------------------
Publish(p) ==
    \/ Prepare(p) \/ InstallCreate(p) \/ BackUp(p) \/ RecheckReplace(p)
    \/ ReplaceTarget(p) \/ RecheckRemoval(p) \/ MoveAside(p) \/ CompareMoved(p)
    \/ Validate(p) \/ Finalize(p)

Undo(p) ==
    \/ LookRemoved(p) \/ RestoreRemoved(p) \/ VerifyRestored(p)
    \/ InspectPublished(p) \/ Quarantine(p) \/ InspectQuarantined(p)
    \/ PutBack(p) \/ LinkBack(p) \/ VerifyLinked(p) \/ DropCopies(p)
    \/ DropCreated(p)

Edit(p) == EditInPlace(p) \/ EditReplace(p) \/ EditDelete(p)

Terminated == phase = "done" /\ UNCHANGED vars

Next ==
    \/ \E p \in Paths : Publish(p) \/ Undo(p) \/ Edit(p)
    \/ StartPublication \/ StartValidation \/ Succeed \/ Return \/ FinishRollback
    \/ Terminated

Spec == Init /\ [][Next]_vars

-----------------------------------------------------------------------------
TypeOK ==
    /\ phase \in {"prepare", "publish", "validate", "finalize", "rollback", "done"}
    /\ todo \in Seq(Paths)
    /\ step \in {"start", "backed", "checked", "moved", "inspected", "restored",
                 "quarantined", "foreign", "confirmed", "linked", "verified"}
    /\ names \in [Paths -> [Names -> Inodes \cup {"none"}]]
    /\ inode \in [Paths -> [Inodes -> Contents]]
    /\ published \in Seq(Range(Order))
    /\ errors \subseteq {"conflict", "io", "leftover"}
    /\ outcome \in {"none", "ok", "failed", "rollback_failed"}
    /\ left \in [Paths -> {"untouched", "edit", "none"}]
    /\ overwrote \subseteq Paths /\ clobbered \subseteq Paths
    /\ edits \in 0..MaxEdits /\ faults \in 0..MaxFaults

\* Some name of the path leads to these bytes.
Has(p, bytes) == \E n \in Names : At(p, n) = bytes

\* Whatever the transaction publishes, quarantines, restores or drops, and
\* wherever an error stops it, the bytes of others survive: an edit the editor
\* has left at a planned path is under one of the path's names, and until the
\* commit has succeeded so is the original of every file the plan replaces or
\* removes, unless the editor itself overwrote it.  The one exception is an
\* edit that falls between the last read of a registration and the rename over
\* it (PreparedReplace::commit).
NothingLost ==
    \A p \in Paths :
        /\ left[p] = "edit" => Has(p, "edit") \/ p \in clobbered
        /\ outcome # "ok" /\ Preimage(p) = "old" => Has(p, "old") \/ p \in overwrote

\* The caller may believe the outcome.  After a success every planned path holds
\* its new bytes, and after a failure other than RollbackFailed the bytes it
\* held before the commit; where an editor worked meanwhile, it holds what the
\* editor left, as though the transaction had come first or never happened.
HonestOutcome ==
    phase = "done" /\ outcome \in {"ok", "failed"} =>
        \A p \in Paths \ clobbered :
            At(p, "target") = IF left[p] # "untouched" THEN left[p]
                              ELSE IF outcome = "ok" THEN Postimage(p) ELSE Preimage(p)

\* RollbackFailed says that a published change could not be taken back: a
\* private file, or a parent directory made for the plan, that could not be
\* removed does not change the kind of the error.
LeftoverKeepsKind ==
    outcome = "rollback_failed" =>
        \E p \in Range(published) : At(p, "target") # Preimage(p) \/ left[p] # "untouched"
=============================================================================
