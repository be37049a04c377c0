--------------------------- MODULE ExecutionFileStore ---------------------------
(***************************************************************************)
(* The file store behind the execution coordinator (unica-execution,       *)
(* store/namespace.rs, store/file.rs, store/owner.rs over unica-workspace, *)
(* platform/filesystem/execution_store.rs): the bootstrap of a namespace,  *)
(* the lease of its one owner, the scan, and the publication of a row by   *)
(* stage, sync, rename and directory sync.  Processes are killed, the      *)
(* power fails, and every call may return an I/O error.                    *)
(*                                                                         *)
(* A directory entry is what every process sees at once, and beside it the *)
(* set of entries a power loss may leave in its place: a rename or a new   *)
(* entry joins that set, and a sync of the directory empties it but for    *)
(* the entry seen.  A row holds the number of the commit that wrote it.    *)
(* The authority root is provisioned, and nobody but the store writes      *)
(* below it.                                                               *)
(***************************************************************************)
EXTENDS Integers, Sequences, FiniteSets

CONSTANTS Process, Key, None,
          MaxCommits, MaxBoots,             \* rows written, namespaces begun
          MaxKills, MaxOutages, MaxFaults   \* what the environment may do

ASSUME StoreAssumption ==
    /\ None \notin Process
    /\ {MaxCommits, MaxBoots, MaxKills, MaxOutages, MaxFaults} \subseteq Nat

\* What NamespaceAuthority::create makes, in its order, and where each part lies.
Parts == <<"ownership", "registration", "child", "records", "manifest">>
Part == {Parts[i] : i \in DOMAIN Parts}
DirOf == [ownership |-> "ownership", registration |-> "registrations",
          child |-> "namespaces", records |-> "child", manifest |-> "child"]

Torn == -1  \* a row whose bytes were lost: read_frame refuses it

VARIABLES boot,      \* part -> the attempt that made it, or 0
          bootMaybe, \* part -> what a power loss may leave of it
          rows,      \* key -> the commit its row holds, or 0
          rowsMaybe, \* key -> what a power loss may leave in the row
          synced,    \* commits whose bytes are on the device
          gate,      \* holder of registry.lock
          lease,     \* holder of the lock on the ownership file
          pc,        \* process -> what it is doing with the namespace
          at,        \* process -> the part its bootstrap is at
          nonce,     \* process -> the attempt its manifest names
          entries,   \* process -> its cache of the rows
          work,      \* process -> the commit in flight
          dropped,   \* processes whose owner went away during a commit
          kind,      \* commit -> the state of the execution it records
          confirmed, \* key -> the last commit answered as committed
          refused,   \* commits answered as failed before publication
          shown,     \* key -> the last commit a read was answered from
          counts     \* commits, boots, kills, outages and faults so far

disk == <<boot, bootMaybe, rows, rowsMaybe, synced>>
locks == <<gate, lease>>
answers == <<kind, confirmed, refused, shown>>
vars == <<disk, locks, pc, at, nonce, entries, work, dropped, answers, counts>>

NoRows == [k \in Key |-> 0]
NoWork == [key |-> None, n |-> 0, back |-> "Out"]

\* An execution accepted but not begun, one begun without an outcome, or one that
\* recovery leaves alone.
Kind == {"accepted", "running", "settled"}

Committing == {"Stage", "Sealed", "Renamed", "Synced"}

Init ==
    /\ boot = [x \in Part |-> 0] /\ bootMaybe = [x \in Part |-> {0}]
    /\ rows = NoRows /\ rowsMaybe = [k \in Key |-> {0}]
    /\ synced = {} /\ gate = None /\ lease = None
    /\ pc = [p \in Process |-> "Out"]
    /\ at = [p \in Process |-> 1] /\ nonce = [p \in Process |-> 0]
    /\ entries = [p \in Process |-> NoRows]
    /\ work = [p \in Process |-> NoWork]
    /\ dropped = {} /\ refused = {} /\ kind = [n \in 1 .. MaxCommits |-> "settled"]
    /\ confirmed = NoRows /\ shown = NoRows
    /\ counts = [commits |-> 0, boots |-> 0, kills |-> 0, outages |-> 0, faults |-> 0]

Go(p, where) == pc' = [pc EXCEPT ![p] = where]
Count(what, max) ==
    /\ counts[what] < max
    /\ counts' = [counts EXCEPT ![what] = @ + 1]

-----------------------------------------------------------------------------
(* Resolving, making and opening the namespace                             *)

\* resolve finds nothing, not even an ownership file: a fresh namespace.  Any other
\* missing part is IncompleteBootstrap and changes nothing.  The gate is kept until
\* the ticket has been used.
ResolveFresh(p) ==
    /\ pc[p] = "Out" /\ gate = None
    /\ boot.registration = 0 /\ boot.child = 0 /\ boot.ownership = 0
    /\ Count("boots", MaxBoots)
    /\ gate' = p /\ Go(p, "Place")
    /\ at' = [at EXCEPT ![p] = 1]
    /\ nonce' = [nonce EXCEPT ![p] = counts.boots + 1]
    /\ UNCHANGED <<disk, lease, entries, work, dropped, answers>>

ResolveExisting(p) ==
    /\ pc[p] = "Out" /\ gate = None
    /\ boot.registration # 0 /\ boot.child # 0
    /\ gate' = p /\ Go(p, "Open")
    /\ nonce' = [nonce EXCEPT ![p] = boot.registration]
    /\ UNCHANGED <<disk, lease, at, entries, work, dropped, answers, counts>>

\* The next part becomes visible: renamed from a synced stage, or a new directory.
Place(p) ==
    LET x == Parts[at[p]] IN
    /\ pc[p] = "Place"
    /\ boot' = [boot EXCEPT ![x] = nonce[p]]
    /\ bootMaybe' = [bootMaybe EXCEPT ![x] = @ \cup {nonce[p]}]
    /\ Go(p, "Flush")
    /\ UNCHANGED <<rows, rowsMaybe, synced, locks, at, nonce, entries, work, dropped,
                   answers, counts>>

\* The directory of the part is synced.  The lease is taken on the ownership file
\* before anything else is made, and the gate is let go after the last part.
Flush(p) ==
    LET x == Parts[at[p]] IN
    /\ pc[p] = "Flush"
    /\ bootMaybe' = [y \in Part |-> IF DirOf[y] = DirOf[x] THEN {boot[y]} ELSE bootMaybe[y]]
    /\ lease' = IF x = "ownership" THEN p ELSE lease
    /\ at' = [at EXCEPT ![p] = IF x = "manifest" THEN 1 ELSE @ + 1]
    /\ gate' = IF x = "manifest" THEN None ELSE gate
    /\ Go(p, IF x = "manifest" THEN "Scan" ELSE "Place")
    /\ UNCHANGED <<boot, rows, rowsMaybe, synced, nonce, entries, work, dropped, answers,
                   counts>>

\* An error of the bootstrap: a process that already has the lease keeps it, frozen.
BootFails(p) ==
    /\ pc[p] \in {"Place", "Flush"} /\ Count("faults", MaxFaults)
    /\ gate' = None
    /\ Go(p, IF lease = p THEN "Frozen" ELSE "Out")
    /\ at' = [at EXCEPT ![p] = 1]
    /\ nonce' = [nonce EXCEPT ![p] = 0]
    /\ UNCHANGED <<disk, lease, entries, work, dropped, answers>>

\* Keeper::acquire: the lock on the ownership file is free, and the file is there.
LeaseFree == lease = None /\ boot.ownership # 0

\* NamespaceAuthority::open.  A held lease is Busy; a part that is missing or of
\* another attempt freezes the lease just taken.
Open(p) ==
    /\ pc[p] = "Open"
    /\ gate' = None
    /\ lease' = IF LeaseFree THEN p ELSE lease
    /\ Go(p, IF ~LeaseFree THEN "Out"
             ELSE IF \A x \in Part : boot[x] = nonce[p] THEN "Scan" ELSE "Frozen")
    /\ UNCHANGED <<disk, at, nonce, entries, work, dropped, answers, counts>>

\* An error while opening: of the lock itself, or of what follows once it is taken.
OpenFails(p) ==
    /\ pc[p] = "Open" /\ Count("faults", MaxFaults)
    /\ gate' = None
    /\ \/ UNCHANGED lease /\ Go(p, "Out")
       \/ LeaseFree /\ lease' = p /\ Go(p, "Frozen")
    /\ UNCHANGED <<disk, at, nonce, entries, work, dropped, answers>>

\* OpeningStore::scan_next to the end, and finish.  Stages are skipped; nobody writes
\* below the lease meanwhile, so the scan is one step.
Scan(p) ==
    LET readable == \A k \in Key : rows[k] # Torn IN
    /\ pc[p] = "Scan"
    /\ entries' = IF readable THEN [entries EXCEPT ![p] = rows] ELSE entries
    /\ Go(p, IF readable THEN "Recover" ELSE "Frozen")
    /\ UNCHANGED <<disk, locks, at, nonce, work, dropped, answers, counts>>

-----------------------------------------------------------------------------
(* The owner and its worker                                                *)

\* The kind of the record the process has cached for a key.
KindOf(p, k) == IF entries[p][k] = 0 THEN "settled" ELSE kind[entries[p][k]]

\* finish_opening commits the recovery of every record that had not ended, and only
\* then hands out the owner.
Recovered(p) ==
    /\ pc[p] = "Recover" /\ \A k \in Key : KindOf(p, k) = "settled"
    /\ Go(p, "Serve")
    /\ UNCHANGED <<disk, locks, at, nonce, entries, work, dropped, answers, counts>>

\* A commit reaches the worker, which first loads the row it replaces: a row that is
\* not the cached one is an authority failure.
StartCommit(p, k, as) ==
    LET n == counts.commits + 1 IN
    /\ pc[p] \in {"Recover", "Serve"}
    /\ pc[p] = "Recover" => KindOf(p, k) # "settled" /\ as = "settled"
    /\ Count("commits", MaxCommits)
    /\ work' = [work EXCEPT ![p] = [key |-> k, n |-> n, back |-> pc[p]]]
    /\ kind' = [kind EXCEPT ![n] = as]
    /\ Go(p, IF rows[k] = entries[p][k] THEN "Stage" ELSE "Frozen")
    /\ UNCHANGED <<disk, locks, at, nonce, entries, dropped, confirmed, refused, shown>>

\* The stage is written and synced.
Seal(p) ==
    /\ pc[p] = "Stage"
    /\ synced' = synced \cup {work[p].n}
    /\ Go(p, "Sealed")
    /\ UNCHANGED <<boot, bootMaybe, rows, rowsMaybe, locks, at, nonce, entries, work,
                   dropped, answers, counts>>

\* publish, up to the rename: the row must still be the cached one.
Rename(p) ==
    LET k == work[p].key
        n == work[p].n
        same == rows[k] = entries[p][k] IN
    /\ pc[p] = "Sealed"
    /\ rows' = IF same THEN [rows EXCEPT ![k] = n] ELSE rows
    /\ rowsMaybe' = IF same THEN [rowsMaybe EXCEPT ![k] = @ \cup {n}] ELSE rowsMaybe
    /\ Go(p, IF same THEN "Renamed" ELSE "Frozen")
    /\ UNCHANGED <<boot, bootMaybe, synced, locks, at, nonce, entries, work, dropped,
                   answers, counts>>

\* Variant: the row is answered without a sync of its directory.
SyncRowFileOnly(p) ==
    LET own == rows[work[p].key] = work[p].n IN
    /\ pc[p] = "Renamed"
    /\ synced' = IF own THEN synced \cup {work[p].n} ELSE synced
    /\ Go(p, IF own THEN "Synced" ELSE "Frozen")
    /\ UNCHANGED <<boot, bootMaybe, rows, rowsMaybe, locks, at, nonce, entries, work,
                   dropped, answers, counts>>

\* publish, after the rename: the named file is still the candidate, its bytes and
\* then the directory are synced.
SyncRow(p) ==
    LET own == rows[work[p].key] = work[p].n IN
    /\ pc[p] = "Renamed"
    /\ synced' = IF own THEN synced \cup {work[p].n} ELSE synced
    /\ rowsMaybe' = IF own THEN [k \in Key |-> {rows[k]}] ELSE rowsMaybe
    /\ Go(p, IF own THEN "Synced" ELSE "Frozen")
    /\ UNCHANGED <<boot, bootMaybe, rows, locks, at, nonce, entries, work, dropped,
                   answers, counts>>

\* The worker caches the row and answers Committed.  With its owner gone there is
\* nobody to answer, and dropping the store freezes the lease.
Answer(p) ==
    LET k == work[p].key
        heard == p \notin dropped IN
    /\ pc[p] = "Synced"
    /\ entries' = [entries EXCEPT ![p][k] = work[p].n]
    /\ confirmed' = IF heard THEN [confirmed EXCEPT ![k] = work[p].n] ELSE confirmed
    /\ dropped' = dropped \ {p}
    /\ work' = [work EXCEPT ![p] = NoWork]
    /\ Go(p, IF heard THEN work[p].back ELSE "Frozen")
    /\ UNCHANGED <<disk, locks, at, nonce, kind, refused, shown, counts>>

\* A file cannot be read: by the scan, for a read, or by the load before a commit.
\* The authority fails and is frozen; nothing is said of the commit.
ReadFails(p) ==
    /\ pc[p] \in {"Scan", "Serve", "Stage"} /\ Count("faults", MaxFaults)
    /\ Go(p, "Frozen")
    /\ UNCHANGED <<disk, locks, at, nonce, entries, work, dropped, answers>>

\* An error before the rename is started: failed_before_publication, and frozen.
FailBefore(p) ==
    /\ pc[p] \in {"Stage", "Sealed"} /\ Count("faults", MaxFaults)
    /\ refused' = refused \cup {work[p].n}
    /\ Go(p, "Frozen")
    /\ UNCHANGED <<disk, locks, at, nonce, entries, work, dropped, kind, confirmed, shown>>

\* An error of the rename or after it: the result is unknown, and the store frozen.
FailAfter(p) ==
    /\ pc[p] \in {"Sealed", "Renamed", "Synced"} /\ Count("faults", MaxFaults)
    /\ Go(p, "Frozen")
    /\ UNCHANGED <<disk, locks, at, nonce, entries, work, dropped, answers>>

\* A read is answered from the row the cache names, and so is a commit that expected
\* another revision of it (Readback).
Show(p, k) ==
    /\ pc[p] = "Serve" /\ rows[k] = entries[p][k] /\ shown[k] # rows[k]
    /\ shown' = [shown EXCEPT ![k] = rows[k]]
    /\ UNCHANGED <<disk, locks, pc, at, nonce, entries, work, dropped, kind, confirmed,
                   refused, counts>>

\* Variant: a dropped owner gives the lease back while its worker may still publish.
DropReleases(p) ==
    /\ pc[p] \in {"Recover", "Serve"} \cup Committing /\ p \notin dropped
    /\ dropped' = IF pc[p] \in Committing THEN dropped \cup {p} ELSE dropped
    /\ lease' = None
    /\ Go(p, IF pc[p] \in Committing THEN pc[p] ELSE "Out")
    /\ UNCHANGED <<disk, gate, at, nonce, entries, work, answers, counts>>

\* The owner is dropped without close: an idle worker drops its store at once, a busy
\* one when its commit is over.  Either way the process keeps the lease.
Drop(p) ==
    /\ pc[p] \in {"Recover", "Serve"} \cup Committing /\ p \notin dropped
    /\ dropped' = IF pc[p] \in Committing THEN dropped \cup {p} ELSE dropped
    /\ Go(p, IF pc[p] \in Committing THEN pc[p] ELSE "Frozen")
    /\ UNCHANGED <<disk, locks, at, nonce, entries, work, answers, counts>>

\* close_quiescent: nothing in flight, no execution without an outcome.
Close(p) ==
    /\ pc[p] = "Serve" /\ \A k \in Key : KindOf(p, k) # "running"
    /\ lease' = None /\ Go(p, "Out")
    /\ nonce' = [nonce EXCEPT ![p] = 0]
    /\ entries' = [entries EXCEPT ![p] = NoRows]
    /\ UNCHANGED <<disk, gate, at, work, dropped, answers, counts>>

-----------------------------------------------------------------------------
(* The environment                                                         *)

Release(S) ==
    /\ gate' = IF gate \in S THEN None ELSE gate
    /\ lease' = IF lease \in S THEN None ELSE lease
    /\ pc' = [p \in Process |-> IF p \in S THEN "Out" ELSE pc[p]]
    /\ at' = [p \in Process |-> IF p \in S THEN 1 ELSE at[p]]
    /\ nonce' = [p \in Process |-> IF p \in S THEN 0 ELSE nonce[p]]
    /\ entries' = [p \in Process |-> IF p \in S THEN NoRows ELSE entries[p]]
    /\ work' = [p \in Process |-> IF p \in S THEN NoWork ELSE work[p]]
    /\ dropped' = dropped \ S
    /\ UNCHANGED answers

\* A process dies: its locks go, what it made visible stays.
Kill(p) ==
    /\ pc[p] # "Out" /\ Count("kills", MaxKills)
    /\ Release({p})
    /\ UNCHANGED disk

\* The power fails: of every entry not synced since, any version may be left, an
\* entry goes with its directory, and bytes never synced are lost.
PowerLoss ==
    /\ Count("outages", MaxOutages)
    /\ Release(Process)
    /\ \E b \in [Part -> 0 .. MaxBoots], r \in [Key -> 0 .. MaxCommits] :
        /\ \A x \in Part : b[x] \in IF DirOf[x] = "child" /\ b.child = 0
                                    THEN {0} ELSE bootMaybe[x]
        /\ \A k \in Key : r[k] \in IF b.records = 0 THEN {0} ELSE rowsMaybe[k]
        /\ boot' = b /\ bootMaybe' = [x \in Part |-> {b[x]}]
        /\ rows' = [k \in Key |-> IF r[k] \in synced \cup {0} THEN r[k] ELSE Torn]
        /\ rowsMaybe' = [k \in Key |-> {rows'[k]}]
    /\ UNCHANGED synced

Next ==
    \/ \E p \in Process :
        \/ ResolveFresh(p) \/ ResolveExisting(p) \/ Place(p) \/ Flush(p) \/ BootFails(p)
        \/ Open(p) \/ OpenFails(p) \/ Scan(p) \/ Recovered(p) \/ ReadFails(p)
        \/ \E k \in Key, as \in Kind : StartCommit(p, k, as)
        \/ Seal(p) \/ Rename(p) \/ SyncRow(p) \/ Answer(p) \/ FailBefore(p) \/ FailAfter(p)
        \/ \E k \in Key : Show(p, k)
        \/ Drop(p) \/ Close(p) \/ Kill(p)
    \/ PowerLoss

Spec == Init /\ [][Next]_vars

-----------------------------------------------------------------------------
TypeOK ==
    /\ boot \in [Part -> 0 .. MaxBoots] /\ bootMaybe \in [Part -> SUBSET (0 .. MaxBoots)]
    /\ rows \in [Key -> Torn .. MaxCommits]
    /\ rowsMaybe \in [Key -> SUBSET (Torn .. MaxCommits)]
    /\ synced \subseteq 1 .. MaxCommits /\ kind \in [1 .. MaxCommits -> Kind]
    /\ refused \subseteq 1 .. MaxCommits
    /\ gate \in Process \cup {None} /\ lease \in Process \cup {None}
    /\ pc \in [Process -> {"Out", "Place", "Flush", "Open", "Scan", "Recover", "Serve",
                           "Frozen"} \cup Committing]
    /\ at \in [Process -> DOMAIN Parts] /\ nonce \in [Process -> 0 .. MaxBoots]
    /\ entries \in [Process -> [Key -> 0 .. MaxCommits]]
    /\ work \in [Process -> [key : Key \cup {None}, n : 0 .. MaxCommits,
                             back : {"Out", "Recover", "Serve"}]]
    /\ dropped \subseteq Process
    /\ confirmed \in [Key -> 0 .. MaxCommits] /\ shown \in [Key -> 0 .. MaxCommits]

\* What commit answered holds through every kill and power loss that may still come:
\* a row answered as committed is never undone or unreadable, and one answered as
\* failed before publication is never found.
AnswersHold ==
    \A k \in Key : \A v \in rowsMaybe[k] : v >= confirmed[k] /\ v \notin refused

\* The owner's cache is the directory: a namespace is served by one process, and no
\* commit left behind by an owner that was dropped, frozen or replaced can change a row
\* under it (load would otherwise stop the store).
OwnerSeesDisk ==
    \A p \in Process : pc[p] \in {"Recover", "Serve", "Stage", "Sealed"} =>
        lease = p /\ entries[p] = rows

\* A namespace that answered a commit can be opened after any power loss.
ConfirmedReopens ==
    (\E k \in Key : confirmed[k] > 0) =>
        \A x \in Part : bootMaybe[x] = {boot[x]} /\ boot[x] = boot.registration

\* A read is answered only from a row that no power loss can undo.
ShownStands == \A k \in Key : \A v \in rowsMaybe[k] : v >= shown[k]
=============================================================================
