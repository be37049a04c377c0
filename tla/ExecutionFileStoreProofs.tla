---------------------- MODULE ExecutionFileStoreProofs ----------------------
(***************************************************************************)
(* What ExecutionFileStore promises, for any processes, keys and bounds.   *)
(*                                                                         *)
(* What an answer promises depends on four things that the steps keep      *)
(* together: the types, the two locks, the part of the bootstrap that must *)
(* be on the device before a row may be written, and the rows themselves.  *)
(***************************************************************************)
EXTENDS ExecutionFileStore, TLAPS

Pc == {"Out", "Place", "Flush", "Open", "Scan", "Recover", "Serve", "Frozen", "Stage",
       "Sealed", "Renamed", "Synced"}
Work == [key : Key \cup {None}, n : Nat, back : {"Out", "Recover", "Serve"}]

TypedDisk ==
    /\ boot \in [Part -> Nat] /\ bootMaybe \in [Part -> SUBSET Nat]
    /\ rows \in [Key -> Int] /\ rowsMaybe \in [Key -> SUBSET Int]

TypedProcess ==
    /\ pc \in [Process -> Pc] /\ at \in [Process -> 1 .. 5]
    /\ nonce \in [Process -> Nat]
    /\ entries \in [Process -> [Key -> Int]]
    /\ work \in [Process -> Work]

TypedAnswers ==
    /\ confirmed \in [Key -> Nat] /\ refused \subseteq Nat
    /\ counts \in [commits : Nat, boots : Nat, kills : Nat, outages : Nat, faults : Nat]

Typed == TypedDisk /\ TypedProcess /\ TypedAnswers

\* Processes that may read or write rows.
Holding == {"Scan", "Recover", "Serve"} \cup Committing

\* The gate covers resolve with create or open, the lease covers everything after, and
\* a lease needs an ownership file.
LockInv ==
    /\ lease \in Process \cup {None}
    /\ lease # None => boot["ownership"] # 0
    /\ \A p \in Process :
        /\ pc[p] \in {"Place", "Flush", "Open"} => gate = p
        /\ pc[p] \in Holding => lease = p
        /\ pc[p] \in {"Place", "Flush"} =>
            /\ nonce[p] # 0
            /\ at[p] = 1 => lease = None
            /\ at[p] # 1 => lease = p
        /\ pc[p] = "Flush" => boot[Parts[at[p]]] = nonce[p]

\* No power loss can take the part away.
Solid(x) == 0 \notin bootMaybe[x]

\* The namespace and its records directory are on the device before the manifest can
\* be seen, so before a row is written or a commit answered.
BootInv ==
    /\ \A x \in Part : boot[x] \in bootMaybe[x]
    /\ (\E v \in bootMaybe["manifest"] : v # 0) => Solid("child") /\ Solid("records")
    /\ \A p \in Process : pc[p] \in {"Place", "Flush"} =>
        /\ at[p] >= 4 => Solid("child")
        /\ at[p] = 5 => Solid("records")
    /\ \A p \in Process : pc[p] \in Holding => Solid("child") /\ Solid("records")
    /\ \A k \in Key : confirmed[k] # 0 => Solid("child") /\ Solid("records")

\* What a power loss may leave in a row: readable, numbered, and neither older than the
\* answer nor refused.
RowInv ==
    \A k \in Key :
        /\ rows[k] \in rowsMaybe[k]
        /\ \A v \in rowsMaybe[k] :
            /\ v >= 0 /\ v <= counts["commits"]
            /\ v = 0 \/ v \in synced
            /\ v >= confirmed[k] /\ v \notin refused

\* The cache of an owner, and the commit it has in flight: the last one begun, newer
\* than every answer, and in no row before the rename.
WorkOf(p) ==
    /\ pc[p] \in {"Recover", "Serve", "Stage", "Sealed"} => entries[p] = rows
    /\ pc[p] \in Committing =>
        /\ work[p].key \in Key
        /\ work[p].n = counts["commits"] /\ work[p].n # 0
        /\ work[p].n \notin refused
        /\ \A k \in Key : confirmed[k] <= work[p].n
    /\ pc[p] \in {"Stage", "Sealed"} => \A k \in Key : work[p].n \notin rowsMaybe[k]
    /\ pc[p] # "Stage" /\ pc[p] \in Committing => work[p].n \in synced
    /\ pc[p] \in {"Renamed", "Synced"} =>
        rows = [entries[p] EXCEPT ![work[p].key] = work[p].n]
    /\ pc[p] = "Synced" => rowsMaybe[work[p].key] = {work[p].n}

WorkInv == \A p \in Process : WorkOf(p)

RefusedInv == \A v \in refused : v # 0 /\ v <= counts["commits"]

IInv == Typed /\ LockInv /\ BootInv /\ RowInv /\ WorkInv /\ RefusedInv

-----------------------------------------------------------------------------
\* Where the parts of a namespace lie.
LEMMA PartFacts ==
    /\ Part = {"ownership", "registration", "child", "records", "manifest"}
    /\ Parts \in [1 .. 5 -> Part]
    /\ Parts[1] = "ownership" /\ Parts[2] = "registration" /\ Parts[3] = "child"
    /\ Parts[4] = "records" /\ Parts[5] = "manifest"
    /\ DirOf["child"] = "namespaces" /\ DirOf["records"] = "child"
    /\ DirOf["ownership"] = "ownership" /\ DirOf["registration"] = "registrations"
    /\ DirOf["manifest"] = "child"
  BY DEF Part, Parts, DirOf

\* A bounded counter goes up by one and leaves the others alone.
LEMMA CountFacts ==
    ASSUME TypedAnswers, NEW what \in {"commits", "boots", "kills", "outages", "faults"},
           NEW max, Count(what, max)
    PROVE  /\ counts' \in [commits : Nat, boots : Nat, kills : Nat, outages : Nat, faults : Nat]
           /\ what = "commits" => counts'["commits"] = counts["commits"] + 1
           /\ what # "commits" => counts'["commits"] = counts["commits"]
<1> USE DEF Count, TypedAnswers
<1>1. CASE what = "commits"
  BY <1>1
<1>2. CASE what = "boots"
  BY <1>2
<1>3. CASE what = "kills"
  BY <1>3
<1>4. CASE what = "outages"
  BY <1>4
<1>5. CASE what = "faults"
  BY <1>5
<1> QED
  BY <1>1, <1>2, <1>3, <1>4, <1>5

\* Every step keeps the types of what is on disk.
LEMMA TypedDiskStep ==
    ASSUME IInv, [Next]_vars
    PROVE  TypedDisk'
<1> USE DEF TypedDisk
<1>1. CASE UNCHANGED <<boot, bootMaybe, rows, rowsMaybe>>
  BY <1>1 DEF IInv, Typed
<1>2. ASSUME NEW p \in Process,
             ResolveFresh(p) \/ ResolveExisting(p) \/ BootFails(p) \/ Open(p) \/ OpenFails(p)
             \/ Scan(p)
      PROVE  TypedDisk'
  BY <1>1, <1>2, Zenon DEF ResolveFresh, ResolveExisting, BootFails, Open, OpenFails, Scan, disk
<1>3. ASSUME NEW p \in Process,
             Recovered(p) \/ (\E k \in Key, as \in Kind : StartCommit(p, k, as)) \/ Answer(p)
             \/ FailBefore(p) \/ ReadFails(p) \/ FailAfter(p) \/ Seal(p)
      PROVE  TypedDisk'
  BY <1>1, <1>3, Zenon
     DEF Recovered, StartCommit, Answer, FailBefore, ReadFails, FailAfter, Seal, disk
<1>4. ASSUME NEW p \in Process, (\E k \in Key : Show(p, k)) \/ Drop(p) \/ Close(p) \/ Kill(p)
      PROVE  TypedDisk'
  BY <1>1, <1>4, Zenon DEF Show, Drop, Close, Kill, disk
<1>5. ASSUME NEW p \in Process, Place(p) PROVE TypedDisk'
  BY <1>5, PartFacts DEF IInv, Typed, TypedProcess, Place
<1>6. ASSUME NEW p \in Process, Flush(p) PROVE TypedDisk'
  <2>1. /\ bootMaybe' = [y \in Part |-> IF DirOf[y] = DirOf[Parts[at[p]]]
                                        THEN {boot[y]} ELSE bootMaybe[y]]
        /\ UNCHANGED <<boot, rows, rowsMaybe>>
    BY ZenonT(30), <1>6 DEF Flush
  <2>2. TypedDisk
    BY ZenonT(30) DEF IInv, Typed
  <2> QED
    BY <2>1, <2>2
<1>7. ASSUME NEW p \in Process, Rename(p) PROVE TypedDisk'
  <2>1. work[p].key \in Key /\ work[p].n \in Nat
    BY <1>7 DEF IInv, Typed, TypedProcess, Work, WorkInv, WorkOf, Committing, Rename
  <2> QED
    BY <1>7, <2>1 DEF IInv, Typed, Rename
<1>8. ASSUME NEW p \in Process, SyncRow(p) PROVE TypedDisk'
  BY <1>8 DEF IInv, Typed, SyncRow
<1>9. ASSUME PowerLoss PROVE TypedDisk'
  BY <1>9, SMTT(30) DEF PowerLoss, Torn
<1>10. CASE UNCHANGED vars
  BY <1>1, <1>10 DEF vars, disk
<1> QED
  BY <1>2, <1>3, <1>4, <1>5, <1>6, <1>7, <1>8, <1>9, <1>10 DEF Next

\* Every step keeps the types of the processes.
LEMMA TypedProcessStep ==
    ASSUME IInv, [Next]_vars
    PROVE  TypedProcess'
<1> USE DEF IInv, Typed, TypedProcess, Pc, Go
<1>1. ASSUME NEW p \in Process, ResolveFresh(p) PROVE TypedProcess'
  BY <1>1 DEF TypedAnswers, ResolveFresh
<1>2. ASSUME NEW p \in Process, ResolveExisting(p) PROVE TypedProcess'
  BY <1>2, PartFacts DEF TypedDisk, ResolveExisting
<1>3. ASSUME NEW p \in Process, Place(p) PROVE TypedProcess'
  BY <1>3 DEF Place
<1>4. ASSUME NEW p \in Process, Flush(p) PROVE TypedProcess'
  BY <1>4, PartFacts DEF Flush
<1>5. ASSUME NEW p \in Process, BootFails(p) \/ OpenFails(p) PROVE TypedProcess'
  <2>1. CASE BootFails(p)
    BY <2>1 DEF BootFails
  <2>2. CASE OpenFails(p)
    BY <2>2 DEF OpenFails
  <2> QED
    BY <1>5, <2>1, <2>2
<1>6. ASSUME NEW p \in Process, Open(p) PROVE TypedProcess'
  BY <1>6 DEF Open
<1>7. ASSUME NEW p \in Process, Scan(p) PROVE TypedProcess'
  BY <1>7 DEF TypedDisk, Scan
<1>8. ASSUME NEW p \in Process, NEW k \in Key, NEW as \in Kind, StartCommit(p, k, as)
      PROVE  TypedProcess'
  BY <1>8 DEF TypedAnswers, Work, StartCommit
<1>9. ASSUME NEW p \in Process,
             Recovered(p) \/ Seal(p) \/ FailBefore(p) \/ ReadFails(p) \/ FailAfter(p)
      PROVE  TypedProcess'
  BY ZenonT(30), <1>9 DEF Recovered, Seal, FailBefore, ReadFails, FailAfter
<1>10. ASSUME NEW p \in Process, Rename(p) \/ SyncRow(p) PROVE TypedProcess'
  BY ZenonT(30), <1>10 DEF Rename, SyncRow
<1>11. ASSUME NEW p \in Process, Answer(p) PROVE TypedProcess'
  <2>1. work[p].key \in Key /\ work[p].n \in Nat /\ work[p].back \in Pc
    BY <1>11 DEF Answer, Work, WorkInv, WorkOf, Committing
  <2> QED
    BY <1>11, <2>1 DEF Answer, NoWork, Work
<1>12. ASSUME NEW p \in Process, NEW k \in Key, Show(p, k) PROVE TypedProcess'
  BY <1>12 DEF Show
<1>13. ASSUME NEW p \in Process, Drop(p) PROVE TypedProcess'
  BY <1>13 DEF Drop
<1>14. ASSUME NEW p \in Process, Close(p) PROVE TypedProcess'
  BY <1>14 DEF Close, NoRows
<1>15. ASSUME NEW p \in Process, Kill(p) PROVE TypedProcess'
  BY <1>15 DEF Kill, Release, NoWork, NoRows, Work
<1>16. ASSUME PowerLoss PROVE TypedProcess'
  BY <1>16, SMTT(30) DEF PowerLoss, Release, NoWork, NoRows, Work
<1>17. CASE UNCHANGED vars
  BY <1>17 DEF vars
<1> QED
  BY <1>1, <1>2, <1>3, <1>4, <1>5, <1>6, <1>7, <1>8, <1>9, <1>10, <1>11, <1>12, <1>13, <1>14,
     <1>15, <1>16, <1>17, Zenon DEF Next

\* Every step keeps the types of the answers.
LEMMA TypedAnswersStep ==
    ASSUME IInv, [Next]_vars
    PROVE  TypedAnswers'
<1> USE DEF TypedAnswers, IInv, Typed
<1>1. CASE UNCHANGED <<confirmed, refused, counts>>
  BY ZenonT(30), <1>1
<1>2. ASSUME NEW p \in Process,
             \/ ResolveFresh(p) \/ BootFails(p) \/ OpenFails(p) \/ ReadFails(p) \/ FailAfter(p)
             \/ Kill(p)
      PROVE  TypedAnswers'
  BY <1>2, CountFacts
     DEF ResolveFresh, BootFails, OpenFails, ReadFails, FailAfter, Kill, Release, answers
<1>3. ASSUME NEW p \in Process, NEW k \in Key, NEW as \in Kind, StartCommit(p, k, as)
      PROVE  TypedAnswers'
  BY <1>3, CountFacts DEF StartCommit
<1>4. ASSUME NEW p \in Process, FailBefore(p) PROVE TypedAnswers'
  BY Zenon, <1>4, CountFacts DEF TypedProcess, Work, FailBefore
<1>5. ASSUME NEW p \in Process, Answer(p) PROVE TypedAnswers'
  BY Zenon, <1>5 DEF TypedProcess, Work, Answer
<1>6. ASSUME NEW p \in Process,
             ResolveExisting(p) \/ Place(p) \/ Flush(p) \/ Open(p) \/ Scan(p) \/ Recovered(p)
      PROVE  TypedAnswers'
  BY <1>1, <1>6, Zenon DEF ResolveExisting, Place, Flush, Open, Scan, Recovered, answers
<1>7. ASSUME NEW p \in Process,
             Seal(p) \/ Rename(p) \/ SyncRow(p) \/ (\E k \in Key : Show(p, k)) \/ Drop(p)
             \/ Close(p)
      PROVE  TypedAnswers'
  BY <1>1, <1>7, Zenon DEF Seal, Rename, SyncRow, Show, Drop, Close, answers
<1>8. ASSUME PowerLoss PROVE TypedAnswers'
  BY <1>8, CountFacts DEF PowerLoss, Release, answers
<1>9. CASE UNCHANGED vars
  BY <1>1, <1>9 DEF vars, answers
<1> QED
  BY <1>2, <1>3, <1>4, <1>5, <1>6, <1>7, <1>8, <1>9 DEF Next

\* Every step keeps the locks.
LEMMA LockStep ==
    ASSUME IInv, [Next]_vars
    PROVE  LockInv'
<1> USE DEF IInv, Typed, TypedProcess, LockInv, Holding, Committing, Go
<1>1. ASSUME NEW p \in Process, ResolveFresh(p) PROVE LockInv'
  <2>1. lease = None /\ counts["boots"] + 1 # 0
    BY <1>1 DEF ResolveFresh, TypedAnswers
  <2> QED
    BY ZenonT(30), <1>1, <2>1, StoreAssumption DEF ResolveFresh, disk
<1>2. ASSUME NEW p \in Process, ResolveExisting(p) PROVE LockInv'
  BY <1>2, StoreAssumption DEF ResolveExisting, disk
<1>3. ASSUME NEW p \in Process, Place(p) PROVE LockInv'
  <2>1. /\ boot' = [boot EXCEPT ![Parts[at[p]]] = nonce[p]]
        /\ UNCHANGED <<gate, lease, at, nonce>> /\ pc[p] = "Place"
    BY ZenonT(30), <1>3 DEF Place, locks
  <2>2. pc'[p] = "Flush" /\ \A q \in Process \ {p} : pc'[q] = pc[q]
    BY ZenonT(30), <1>3 DEF Place
  <2>3. Parts[at[p]] \in Part /\ boot \in [Part -> Nat] /\ "ownership" \in Part
    BY PartFacts DEF TypedDisk
  <2>4. /\ boot'[Parts[at[p]]] = nonce[p]
        /\ boot'["ownership"] = boot["ownership"] \/ boot'["ownership"] = nonce[p]
    BY ZenonT(30), <2>1, <2>3
  <2>5. nonce[p] # 0 /\ gate = p
    BY ZenonT(30), <2>1
  <2>6. ASSUME NEW q \in Process \ {p}, pc'[q] = "Flush" PROVE FALSE
    BY ZenonT(30), <2>2, <2>5, <2>6
  <2>7. lease' \in Process \cup {None} /\ (lease' # None => boot'["ownership"] # 0)
    BY ZenonT(30), <2>1, <2>4, <2>5
  <2>8. ASSUME NEW q \in Process \ {p}
        PROVE  /\ pc'[q] \in {"Place", "Flush", "Open"} => gate' = q
               /\ pc'[q] \in Holding => lease' = q
               /\ pc'[q] \in {"Place", "Flush"} =>
                   /\ nonce'[q] # 0
                   /\ at'[q] = 1 => lease' = None
                   /\ at'[q] # 1 => lease' = q
    BY ZenonT(30), <2>1, <2>2
  <2>9. /\ gate' = p /\ nonce'[p] # 0 /\ (at'[p] = 1 => lease' = None) /\ (at'[p] # 1 => lease' = p)
        /\ boot'[Parts[at'[p]]] = nonce'[p] /\ pc'[p] \notin Holding
    BY ZenonT(30), <2>1, <2>2, <2>4
  <2> QED
    BY ZenonT(30), <2>2, <2>6, <2>7, <2>8, <2>9
<1>4. ASSUME NEW p \in Process, Flush(p) PROVE LockInv'
  <2>1. boot' = boot /\ nonce' = nonce /\ Parts \in [1 .. 5 -> Part]
    BY <1>4, PartFacts DEF Flush
  <2>2. pc'[p] # "Flush" /\ \A q \in Process \ {p} : pc'[q] = pc[q] /\ at'[q] = at[q]
    BY <1>4 DEF Flush
  <2>3. CASE at[p] = 1
    <3>1. pc[p] = "Flush" /\ lease' = p /\ gate' = gate /\ pc'[p] = "Place" /\ at'[p] # 1
      BY <1>4, <2>3, PartFacts DEF Flush
    <3>2. Parts[at[p]] = "ownership"
      BY ZenonT(30), <2>3, PartFacts
    <3>3. boot[Parts[at[p]]] = nonce[p] /\ nonce[p] # 0 /\ gate = p /\ lease = None
      BY ZenonT(30), <2>3, <3>1
    <3>4. boot'["ownership"] # 0 /\ nonce'[p] # 0
      BY ZenonT(30), <2>1, <3>2, <3>3
    <3> QED
      BY ZenonT(30), <2>1, <2>2, <3>1, <3>3, <3>4, StoreAssumption
  <2>4. CASE at[p] \in 2 .. 4
    <3>1. /\ pc[p] = "Flush" /\ lease' = lease /\ gate' = gate /\ pc'[p] = "Place"
          /\ at[p] # 1 /\ at'[p] # 1
      BY <1>4, <2>4, PartFacts DEF Flush
    <3> QED
      BY ZenonT(30), <2>1, <2>2, <3>1
  <2>5. CASE at[p] = 5
    BY <1>4, <2>1, <2>2, <2>5, PartFacts, StoreAssumption DEF Flush
  <2> QED
    BY SMTT(30), <2>3, <2>4, <2>5
<1>5. ASSUME NEW p \in Process, BootFails(p) PROVE LockInv'
  BY <1>5 DEF BootFails, disk
<1>6. ASSUME NEW p \in Process, Open(p) \/ OpenFails(p) PROVE LockInv'
  BY <1>6, StoreAssumption DEF Open, OpenFails, LeaseFree, disk
<1>7. ASSUME NEW p \in Process, Scan(p) \/ Recovered(p) PROVE LockInv'
  BY <1>7 DEF Scan, Recovered, disk, locks
<1>8. ASSUME NEW p \in Process, NEW k \in Key, NEW as \in Kind, StartCommit(p, k, as)
      PROVE  LockInv'
  BY <1>8 DEF StartCommit, disk, locks
<1>9. ASSUME NEW p \in Process, Seal(p) \/ Rename(p) \/ SyncRow(p) PROVE LockInv'
  BY <1>9 DEF Seal, Rename, SyncRow, locks
<1>10. ASSUME NEW p \in Process, Answer(p) PROVE LockInv'
  <2>1. work[p].back \in {"Out", "Recover", "Serve"}
    BY DEF Work
  <2> QED
    BY <1>10, <2>1 DEF Answer, disk, locks
<1>11. ASSUME NEW p \in Process, FailBefore(p) \/ ReadFails(p) \/ FailAfter(p) PROVE LockInv'
  BY <1>11 DEF FailBefore, ReadFails, FailAfter, disk, locks
<1>12. ASSUME NEW p \in Process, (\E k \in Key : Show(p, k)) \/ Drop(p) PROVE LockInv'
  BY <1>12 DEF Show, Drop, disk, locks
<1>13. ASSUME NEW p \in Process, Close(p) PROVE LockInv'
  BY <1>13 DEF Close, disk
<1>14. ASSUME NEW p \in Process, Kill(p) PROVE LockInv'
  BY SMTT(30), <1>14 DEF Kill, Release, disk
<1>15. ASSUME PowerLoss PROVE LockInv'
  <2>1. \A p \in Process : pc'[p] = "Out"
    BY <1>15 DEF PowerLoss, Release
  <2>2. lease' = None
    BY <1>15 DEF PowerLoss, Release
  <2> QED
    BY ZenonT(30), <2>1, <2>2
<1>16. CASE UNCHANGED vars
  BY <1>16, Zenon DEF vars, disk, locks
<1> QED
  BY <1>1, <1>2, <1>3, <1>4, <1>5, <1>6, <1>7, <1>8, <1>9, <1>10, <1>11, <1>12, <1>13, <1>14,
     <1>15, <1>16, Zenon DEF Next

-----------------------------------------------------------------------------
\* A step that leaves the rows, what may become of them and the answers alone.
Quiet ==
    /\ UNCHANGED <<rows, rowsMaybe, synced, confirmed, refused>>
    /\ counts'["commits"] = counts["commits"]

\* A step that makes no part, begins no bootstrap and lets nobody at the rows.
Settled ==
    /\ UNCHANGED <<boot, bootMaybe, confirmed>>
    /\ \A q \in Process :
        /\ pc'[q] \in {"Place", "Flush"} => pc[q] \in {"Place", "Flush"} /\ at'[q] = at[q]
        /\ pc'[q] \in Holding => pc[q] \in Holding

\* A step after which every owner stands where it stood.
Idle ==
    /\ Quiet
    /\ \A q \in Process : pc'[q] \in Holding \ {"Scan"} =>
        pc'[q] = pc[q] /\ entries'[q] = entries[q] /\ work'[q] = work[q]

-----------------------------------------------------------------------------
\* Which steps are quiet.
LEMMA QuietSteps ==
    ASSUME IInv, NEW p \in Process,
           \/ ResolveFresh(p) \/ ResolveExisting(p) \/ Place(p) \/ Flush(p) \/ BootFails(p)
           \/ Open(p) \/ OpenFails(p) \/ Scan(p) \/ Recovered(p) \/ ReadFails(p) \/ FailAfter(p)
           \/ (\E k \in Key : Show(p, k))
           \/ Drop(p) \/ Close(p) \/ Kill(p)
    PROVE  Quiet
<1> USE DEF Quiet, disk, answers
<1>1. CASE \/ ResolveFresh(p) \/ BootFails(p) \/ OpenFails(p) \/ ReadFails(p) \/ FailAfter(p)
            \/ Kill(p)
  BY ZenonT(30), <1>1, CountFacts
     DEF IInv, Typed, ResolveFresh, BootFails, OpenFails, ReadFails, FailAfter, Kill, Release
<1>2. CASE ResolveExisting(p) \/ Place(p) \/ Flush(p) \/ Open(p) \/ Scan(p) \/ Recovered(p)
  BY ZenonT(30), <1>2 DEF ResolveExisting, Place, Flush, Open, Scan, Recovered
<1>3. CASE (\E k \in Key : Show(p, k)) \/ Drop(p) \/ Close(p)
  BY ZenonT(30), <1>3 DEF Show, Drop, Close
<1> QED
  BY ZenonT(30), <1>1, <1>2, <1>3

\* Which steps leave the bootstrap as it is.
LEMMA SettledSteps ==
    ASSUME IInv, NEW p \in Process,
           \/ ResolveExisting(p) \/ BootFails(p) \/ OpenFails(p) \/ Scan(p) \/ Recovered(p)
           \/ (\E k \in Key, as \in Kind : StartCommit(p, k, as))
           \/ Seal(p) \/ Rename(p) \/ SyncRow(p) \/ FailBefore(p) \/ ReadFails(p) \/ FailAfter(p)
           \/ (\E k \in Key : Show(p, k)) \/ Drop(p) \/ Close(p) \/ Kill(p)
    PROVE  Settled
<1> USE DEF IInv, Typed, TypedProcess, Settled, Holding, Committing, disk, answers, Go
<1>1. CASE ResolveExisting(p) \/ BootFails(p) \/ OpenFails(p)
  BY ZenonT(30), <1>1 DEF ResolveExisting, BootFails, OpenFails
<1>2. CASE Scan(p) \/ Recovered(p) \/ (\E k \in Key, as \in Kind : StartCommit(p, k, as))
  BY ZenonT(30), <1>2 DEF Scan, Recovered, StartCommit
<1>3. CASE Seal(p) \/ Rename(p) \/ SyncRow(p)
  BY ZenonT(30), <1>3 DEF Seal, Rename, SyncRow
<1>4. CASE FailBefore(p) \/ ReadFails(p) \/ FailAfter(p) \/ (\E k \in Key : Show(p, k))
  BY ZenonT(30), <1>4 DEF FailBefore, ReadFails, FailAfter, Show
<1>5. CASE Drop(p) \/ Close(p)
  BY <1>5 DEF Drop, Close
<1>6. CASE Kill(p)
  BY ZenonT(30), <1>6 DEF Kill, Release
<1> QED
  BY ZenonT(30), <1>1, <1>2, <1>3, <1>4, <1>5, <1>6

\* Which steps leave every owner where it stood.
LEMMA IdleSteps ==
    ASSUME IInv, NEW p \in Process,
           \/ ResolveFresh(p) \/ ResolveExisting(p) \/ Place(p) \/ Flush(p) \/ BootFails(p)
           \/ Open(p) \/ OpenFails(p) \/ ReadFails(p) \/ FailAfter(p)
           \/ (\E k \in Key : Show(p, k)) \/ Drop(p) \/ Close(p) \/ Kill(p)
    PROVE  Idle
<1> USE DEF IInv, Typed, TypedProcess, Idle, Holding, Committing, Go
<1>1. Quiet
  BY ZenonT(30), QuietSteps
<1>2. CASE ResolveFresh(p) \/ ResolveExisting(p) \/ Place(p)
  BY ZenonT(30), <1>1, <1>2 DEF ResolveFresh, ResolveExisting, Place
<1>3. CASE Flush(p) \/ BootFails(p) \/ Open(p) \/ OpenFails(p)
  BY ZenonT(30), <1>1, <1>3 DEF Flush, BootFails, Open, OpenFails
<1>4. CASE ReadFails(p) \/ FailAfter(p) \/ (\E k \in Key : Show(p, k)) \/ Drop(p)
  BY <1>1, <1>4 DEF ReadFails, FailAfter, Show, Drop
<1>5. CASE Close(p)
  BY <1>1, <1>5 DEF Close
<1>6. CASE Kill(p)
  BY ZenonT(30), <1>1, <1>6 DEF Kill, Release
<1> QED
  BY ZenonT(30), <1>2, <1>3, <1>4, <1>5, <1>6

\* Every step keeps the bootstrap in order.
LEMMA BootStep ==
    ASSUME IInv, [Next]_vars
    PROVE  BootInv'
<1> USE DEF BootInv, Solid
<1>1. CASE Settled
  BY ZenonT(30), <1>1 DEF IInv, Settled
<1>2. ASSUME NEW p \in Process, ResolveFresh(p) PROVE BootInv'
  <2>1. UNCHANGED <<boot, bootMaybe, confirmed>>
    BY ZenonT(30), <1>2 DEF ResolveFresh, disk, answers
  <2>2. /\ pc'[p] = "Place" /\ at'[p] = 1
        /\ \A q \in Process \ {p} : pc'[q] = pc[q] /\ at'[q] = at[q]
    BY ZenonT(30), <1>2 DEF IInv, Typed, TypedProcess, ResolveFresh, Go
  <2>3. BootInv
    BY ZenonT(30) DEF IInv
  <2> QED
    BY <2>1, <2>2, <2>3 DEF Holding, Committing
<1>3. ASSUME NEW p \in Process, Place(p) PROVE BootInv'
  <2> DEFINE x == Parts[at[p]]
  <2>1. /\ boot' = [boot EXCEPT ![x] = nonce[p]]
        /\ bootMaybe' = [bootMaybe EXCEPT ![x] = @ \cup {nonce[p]}]
        /\ at' = at /\ confirmed' = confirmed
    BY ZenonT(30), <1>3 DEF Place, answers
  <2>2. /\ at[p] \in 1 .. 5 /\ pc[p] = "Place" /\ pc'[p] = "Flush"
        /\ \A q \in Process \ {p} : pc'[q] = pc[q]
    BY ZenonT(30), <1>3 DEF IInv, Typed, TypedProcess, Place, Go
  <2>3. nonce[p] # 0 /\ BootInv
    BY ZenonT(30), <2>2 DEF IInv, LockInv
  <2>4. x \in Part /\ (x = "manifest" => at[p] = 5)
    BY <2>2, PartFacts
  <2> HIDE DEF x
  <2>5. /\ \A y \in Part \ {x} : boot'[y] = boot[y] /\ bootMaybe'[y] = bootMaybe[y]
        /\ boot'[x] = nonce[p] /\ bootMaybe'[x] = bootMaybe[x] \cup {nonce[p]}
    BY ZenonT(30), <2>1, <2>4 DEF IInv, Typed, TypedDisk
  <2>6. \A y \in Part : Solid(y) => Solid(y)'
    BY ZenonT(30), <2>3, <2>5
  <2>7. (\E v \in bootMaybe'["manifest"] : v # 0) => Solid("child") /\ Solid("records")
    <3>1. CASE x = "manifest"
      BY <2>2, <2>3, <2>4, <3>1
    <3>2. CASE x # "manifest"
      BY ZenonT(30), <2>3, <2>5, <3>2, PartFacts
    <3> QED
      BY <3>1, <3>2
  <2>8. \A y \in Part : boot'[y] \in bootMaybe'[y]
    BY ZenonT(30), <2>3, <2>5
  <2>9. "child" \in Part /\ "records" \in Part
    BY ZenonT(30), PartFacts
  <2> HIDE DEF Solid
  <2>10. /\ \A q \in Process : pc'[q] \in {"Place", "Flush"} => pc[q] \in {"Place", "Flush"}
         /\ \A q \in Process : pc'[q] \in Holding => pc[q] \in Holding
    BY ZenonT(30), <2>2 DEF Holding, Committing
  <2> QED
    BY ZenonT(30), <2>1, <2>3, <2>6, <2>7, <2>8, <2>9, <2>10
<1>4. ASSUME NEW p \in Process, Flush(p) PROVE BootInv'
  <2> DEFINE x == Parts[at[p]]
  <2>1. /\ bootMaybe' = [y \in Part |-> IF DirOf[y] = DirOf[x] THEN {boot[y]} ELSE bootMaybe[y]]
        /\ at' = [at EXCEPT ![p] = IF x = "manifest" THEN 1 ELSE @ + 1]
        /\ boot' = boot /\ confirmed' = confirmed
    BY ZenonT(30), <1>4 DEF Flush, answers
  <2>2. /\ at[p] \in 1 .. 5 /\ pc[p] = "Flush"
        /\ pc'[p] = IF x = "manifest" THEN "Scan" ELSE "Place"
        /\ \A q \in Process \ {p} : pc'[q] = pc[q]
    BY ZenonT(30), <1>4 DEF IInv, Typed, TypedProcess, Flush, Go
  <2>3. boot[x] # 0 /\ BootInv
    BY ZenonT(30), <2>2 DEF IInv, LockInv
  <2>4. /\ at'[p] = IF x = "manifest" THEN 1 ELSE at[p] + 1
        /\ \A q \in Process \ {p} : at'[q] = at[q]
    BY ZenonT(30), <2>1 DEF IInv, Typed, TypedProcess
  <2>5. \A y \in Part : bootMaybe'[y] = bootMaybe[y] \/ bootMaybe'[y] = {boot[y]}
    BY ZenonT(30), <2>1
  <2>6. /\ \A y \in Part : boot'[y] \in bootMaybe'[y]
        /\ \A y \in Part : Solid(y) => Solid(y)'
        /\ \A y \in Part : \A v \in bootMaybe'[y] : v \in bootMaybe[y]
    BY ZenonT(30), <2>1, <2>3, <2>5
  <2>7. 0 \notin bootMaybe'[x]
    <3>1. x \in Part
      BY <2>2, PartFacts
    <3>2. bootMaybe'[x] = {boot[x]}
      BY ZenonT(30), <2>1, <3>1
    <3> QED
      BY <2>3, <3>2
  <2>8. /\ at[p] = 3 => x = "child"
        /\ at[p] = 4 => x = "records"
        /\ x = "manifest" => at[p] = 5
        /\ at[p] = 5 => x = "manifest"
        /\ "child" \in Part /\ "records" \in Part /\ "manifest" \in Part
    BY <2>2, PartFacts
  <2> HIDE DEF x
  <2>9. (\E v \in bootMaybe'["manifest"] : v # 0) => Solid("child")' /\ Solid("records")'
    BY ZenonT(30), <2>3, <2>6, <2>8
  <2> HIDE DEF Solid
  <2>10. pc'[p] \in Holding => Solid("child")' /\ Solid("records")'
    BY <2>2, <2>3, <2>6, <2>8 DEF Holding, Committing
  <2>11. pc'[p] \in {"Place", "Flush"} =>
           (at'[p] >= 4 => Solid("child")') /\ (at'[p] = 5 => Solid("records")')
    <3>1. CASE x = "manifest"
      BY ZenonT(30), <2>2, <3>1
    <3>2. CASE at[p] = 3 /\ x # "manifest"
      <4>1. at'[p] = 4
        BY <2>4, <3>2
      <4>2. Solid("child")'
        BY ZenonT(30), <2>7, <2>8, <3>2 DEF Solid
      <4> QED
        BY <4>1, <4>2
    <3>3. CASE at[p] = 4 /\ x # "manifest"
      <4>1. Solid("child")
        BY <2>2, <2>3, <3>3
      <4>2. Solid("child")'
        BY ZenonT(30), <2>6, <2>8, <4>1
      <4>3. Solid("records")'
        BY ZenonT(30), <2>7, <2>8, <3>3 DEF Solid
      <4> QED
        BY ZenonT(30), <4>2, <4>3
    <3>4. CASE at[p] \in 1 .. 2 /\ x # "manifest"
      <4>1. ~(at'[p] >= 4) /\ at'[p] # 5
        BY <2>4, <3>4
      <4> QED
        BY ZenonT(30), <4>1
    <3>5. at[p] \in 1 .. 2 \/ at[p] = 3 \/ at[p] = 4 \/ at[p] = 5
      BY <2>2
    <3> QED
      BY ZenonT(30), <2>8, <3>1, <3>2, <3>3, <3>4, <3>5
  <2>12. \A q \in Process \ {p} : pc'[q] = pc[q] /\ at'[q] = at[q]
    BY ZenonT(30), <2>2, <2>4
  <2> QED
    BY ZenonT(30), <2>1, <2>3, <2>6, <2>8, <2>9, <2>10, <2>11, <2>12
<1>5. ASSUME NEW p \in Process, Open(p) PROVE BootInv'
  <2>1. /\ UNCHANGED <<boot, bootMaybe, at, confirmed>> /\ pc[p] = "Open"
        /\ \A q \in Process \ {p} : pc'[q] = pc[q]
    BY ZenonT(30), <1>5 DEF IInv, Typed, TypedProcess, Open, Go, disk, answers
  <2>2. pc'[p] \in {"Out", "Frozen", "Scan"}
    BY ZenonT(30), <1>5 DEF IInv, Typed, TypedProcess, Open, Go
  <2>3. pc'[p] = "Scan" => boot["manifest"] # 0
    <3>1. pc'[p] = "Scan" => LeaseFree /\ \A x \in Part : boot[x] = nonce[p]
      BY ZenonT(30), <1>5 DEF IInv, Typed, TypedProcess, Open, Go
    <3> QED
      BY ZenonT(30), <3>1, PartFacts DEF LeaseFree
  <2>4. BootInv
    BY ZenonT(30) DEF IInv
  <2>5. pc'[p] = "Scan" => Solid("child") /\ Solid("records")
    BY ZenonT(30), <2>3, <2>4, PartFacts
  <2> QED
    BY ZenonT(30), <2>1, <2>2, <2>4, <2>5 DEF Holding, Committing
<1>6. ASSUME NEW p \in Process, Answer(p) PROVE BootInv'
  <2>1. Solid("child") /\ Solid("records")
    BY <1>6 DEF IInv, Answer, Holding, Committing
  <2>2. UNCHANGED <<boot, bootMaybe>>
    BY ZenonT(30), <1>6 DEF Answer, disk
  <2>3. \A q \in Process : pc'[q] \in {"Place", "Flush"} => pc[q] = pc'[q] /\ at'[q] = at[q]
    BY ZenonT(30), <1>6 DEF IInv, Typed, TypedProcess, Work, Answer, Go
  <2> QED
    BY <2>1, <2>2, <2>3 DEF IInv
<1>7. ASSUME PowerLoss PROVE BootInv'
  <2>1. \A p \in Process : pc'[p] = "Out"
    BY <1>7 DEF PowerLoss, Release
  <2>2. PICK b \in [Part -> 0 .. MaxBoots] :
          /\ \A x \in Part : b[x] \in IF DirOf[x] = "child" /\ b["child"] = 0
                                      THEN {0} ELSE bootMaybe[x]
          /\ boot' = b /\ bootMaybe' = [x \in Part |-> {b[x]}]
    BY <1>7 DEF PowerLoss
  <2>3. \A x \in Part : bootMaybe'[x] = {boot'[x]}
    BY <2>2
  <2>4. b["child"] \in bootMaybe["child"]
    BY <2>2, PartFacts
  <2>5. ASSUME Solid("child"), Solid("records") PROVE Solid("child")' /\ Solid("records")'
    BY ZenonT(30), <2>2, <2>3, <2>4, <2>5, PartFacts
  <2>6. ASSUME boot'["manifest"] # 0 PROVE Solid("child") /\ Solid("records")
    BY ZenonT(30), <2>2, <2>6, PartFacts DEF IInv
  <2>7. confirmed' = confirmed
    BY <1>7 DEF PowerLoss, Release, answers
  <2> QED
    <3>1. \A x \in Part : boot'[x] \in bootMaybe'[x]
      BY ZenonT(30), <2>3
    <3>2. (\E v \in bootMaybe'["manifest"] : v # 0) => Solid("child")' /\ Solid("records")'
      <4>1. "manifest" \in Part
        BY ZenonT(30), PartFacts
      <4>2. bootMaybe'["manifest"] = {boot'["manifest"]}
        BY ZenonT(30), <2>3, <4>1
      <4>3. ASSUME boot'["manifest"] # 0 PROVE Solid("child")' /\ Solid("records")'
        BY ZenonT(30), <2>5, <2>6, <4>3
      <4> QED
        BY ZenonT(30), <4>2, <4>3
    <3>3. \A p \in Process : pc'[p] \notin {"Place", "Flush"} \cup Holding
      BY ZenonT(30), <2>1 DEF Holding, Committing
    <3>4. \A k \in Key : confirmed'[k] # 0 => Solid("child")' /\ Solid("records")'
      BY ZenonT(30), <2>5, <2>7 DEF IInv
    <3> QED
      BY ZenonT(30), <3>1, <3>2, <3>3, <3>4
<1>8. CASE UNCHANGED vars
  BY ZenonT(30), <1>8 DEF vars, disk, answers, IInv, Settled
<1> QED
  BY ZenonT(30), <1>1, <1>2, <1>3, <1>4, <1>5, <1>6, <1>7, <1>8, SettledSteps DEF Next

\* Every step keeps the rows.
LEMMA RowStep ==
    ASSUME IInv, [Next]_vars
    PROVE  RowInv'
<1> USE DEF RowInv
<1>1. CASE Quiet
  BY ZenonT(30), <1>1 DEF IInv, Quiet
<1>2. ASSUME NEW p \in Process, NEW k \in Key, NEW as \in Kind, StartCommit(p, k, as)
      PROVE  RowInv'
  <2>1. counts'["commits"] = counts["commits"] + 1
    BY ZenonT(30), <1>2, CountFacts DEF IInv, Typed, StartCommit
  <2>2. UNCHANGED <<rows, rowsMaybe, synced, confirmed, refused>>
    BY <1>2 DEF StartCommit, disk
  <2>3. rowsMaybe \in [Key -> SUBSET Int] /\ counts["commits"] \in Nat
    BY ZenonT(30) DEF IInv, Typed, TypedDisk, TypedAnswers
  <2> QED
    BY <2>1, <2>2, <2>3 DEF IInv
<1>3. ASSUME NEW p \in Process, Seal(p) PROVE RowInv'
  BY ZenonT(30), <1>3 DEF IInv, Seal, answers
<1>4. ASSUME NEW p \in Process, Rename(p) PROVE RowInv'
  <2> DEFINE n == work[p].n
  <2>1. /\ rows' = rows \/ rows' = [rows EXCEPT ![work[p].key] = n]
        /\ rows' = rows =>
               \/ rowsMaybe' = rowsMaybe
               \/ rowsMaybe' = [rowsMaybe EXCEPT ![work[p].key] = @ \cup {n}]
        /\ rows' # rows => rowsMaybe' = [rowsMaybe EXCEPT ![work[p].key] = @ \cup {n}]
        /\ UNCHANGED <<synced, confirmed, refused, counts>>
    BY ZenonT(30), <1>4 DEF Rename, answers
  <2>2. /\ work[p].key \in Key /\ n = counts["commits"] /\ n \in synced /\ n \notin refused
        /\ \A k \in Key : confirmed[k] <= n
    BY ZenonT(30), <1>4 DEF IInv, WorkInv, WorkOf, Committing, Rename
  <2>3. n \in Nat /\ n >= 0 /\ n <= counts["commits"]
    BY <2>2 DEF IInv, Typed, TypedAnswers
  <2> HIDE DEF n
  <2>4. \A k \in Key :
          /\ rowsMaybe[k] \subseteq rowsMaybe'[k] /\ rowsMaybe'[k] \subseteq rowsMaybe[k] \cup {n}
          /\ rows'[k] \in rowsMaybe'[k]
    BY ZenonT(30), <2>1 DEF IInv, Typed, TypedDisk
  <2>5. ASSUME NEW k \in Key, NEW v \in rowsMaybe'[k]
        PROVE  /\ v >= 0 /\ v <= counts["commits"] /\ (v = 0 \/ v \in synced)
               /\ v >= confirmed[k] /\ v \notin refused
    <3>1. CASE v \in rowsMaybe[k]
      BY ZenonT(30), <3>1 DEF IInv
    <3>2. CASE v = n
      BY <2>2, <2>3, <3>2 DEF IInv, Typed, TypedAnswers
    <3> QED
      BY ZenonT(30), <2>4, <3>1, <3>2
  <2> QED
    BY ZenonT(30), <2>1, <2>4, <2>5
<1>5. ASSUME NEW p \in Process, SyncRow(p) PROVE RowInv'
  BY ZenonT(30), <1>5 DEF IInv, Typed, TypedDisk, SyncRow, answers
<1>6. ASSUME NEW p \in Process, Answer(p) PROVE RowInv'
  <2>1. work[p].key \in Key /\ rowsMaybe[work[p].key] = {work[p].n} /\ work[p].n \in Nat
    BY <1>6 DEF IInv, Typed, TypedProcess, Work, WorkInv, WorkOf, Committing, Answer
  <2>2. UNCHANGED <<rows, rowsMaybe, synced, refused, counts>>
    BY <1>6 DEF Answer, disk
  <2>3. \A k \in Key : confirmed'[k] = confirmed[k] \/ (k = work[p].key /\ confirmed'[k] = work[p].n)
    BY ZenonT(30), <1>6 DEF IInv, Typed, TypedAnswers, Answer
  <2> QED
    BY <2>1, <2>2, <2>3 DEF IInv
<1>7. ASSUME NEW p \in Process, FailBefore(p) PROVE RowInv'
  <2>1. \A k \in Key : work[p].n \notin rowsMaybe[k]
    BY <1>7 DEF IInv, WorkInv, WorkOf, FailBefore
  <2>2. counts'["commits"] = counts["commits"]
    BY <1>7, CountFacts DEF IInv, Typed, FailBefore
  <2> QED
    BY ZenonT(30), <1>7, <2>1, <2>2 DEF IInv, FailBefore, disk
<1>8. ASSUME PowerLoss PROVE RowInv'
  <2>1. confirmed' = confirmed /\ refused' = refused /\ synced' = synced
    BY <1>8 DEF PowerLoss, Release, answers
  <2>2. counts'["commits"] = counts["commits"]
    BY <1>8, CountFacts DEF IInv, Typed, PowerLoss
  <2>3. PICK b \in [Part -> 0 .. MaxBoots], r \in [Key -> 0 .. MaxCommits] :
          /\ \A x \in Part : b[x] \in IF DirOf[x] = "child" /\ b["child"] = 0
                                      THEN {0} ELSE bootMaybe[x]
          /\ \A k \in Key : r[k] \in IF b["records"] = 0 THEN {0} ELSE rowsMaybe[k]
          /\ rows' = [k \in Key |-> IF r[k] \in synced \cup {0} THEN r[k] ELSE Torn]
          /\ rowsMaybe' = [k \in Key |-> {rows'[k]}]
    BY ZenonT(30), <1>8 DEF PowerLoss
  <2>4. b["records"] = 0 => \A k \in Key : confirmed[k] = 0
    BY <2>3, PartFacts DEF IInv, Typed, TypedAnswers, BootInv, Solid
  <2>5. \A k \in Key : rows'[k] = r[k]
    BY <2>3 DEF IInv
  <2>6. \A k \in Key : rowsMaybe'[k] = {r[k]}
    BY <2>3, <2>5
  <2>7. ASSUME NEW k \in Key
        PROVE  /\ r[k] >= 0 /\ r[k] <= counts["commits"] /\ (r[k] = 0 \/ r[k] \in synced)
               /\ r[k] >= confirmed[k] /\ r[k] \notin refused
    <3>1. CASE b["records"] = 0
      <4>1. r[k] = 0 /\ confirmed[k] = 0
        BY ZenonT(30), <2>3, <2>4, <3>1
      <4> QED
        BY <4>1 DEF IInv, Typed, TypedAnswers, RefusedInv
    <3>2. CASE b["records"] # 0
      BY ZenonT(30), <2>3, <3>2 DEF IInv
    <3> QED
      BY <3>1, <3>2
  <2> QED
    BY ZenonT(30), <2>1, <2>2, <2>5, <2>6, <2>7
<1>9. CASE UNCHANGED vars
  BY <1>9 DEF vars, disk, answers, IInv
<1> QED
  BY ZenonT(30), <1>1, <1>2, <1>3, <1>4, <1>5, <1>6, <1>7, <1>8, <1>9, QuietSteps DEF Next

\* Every step numbers its refusals.
LEMMA RefusedStep ==
    ASSUME IInv, [Next]_vars
    PROVE  RefusedInv'
<1> USE DEF RefusedInv
<1>1. CASE Quiet
  BY <1>1 DEF IInv, Quiet
<1>2. ASSUME NEW p \in Process, NEW k \in Key, NEW as \in Kind, StartCommit(p, k, as)
      PROVE  RefusedInv'
  <2>1. counts'["commits"] = counts["commits"] + 1 /\ refused' = refused
    BY <1>2, CountFacts DEF IInv, Typed, StartCommit
  <2>2. refused \subseteq Nat /\ counts["commits"] \in Nat
    BY ZenonT(30) DEF IInv, Typed, TypedAnswers
  <2> QED
    BY <2>1, <2>2 DEF IInv
<1>3. ASSUME NEW p \in Process, Seal(p) \/ Rename(p) \/ SyncRow(p) \/ Answer(p)
      PROVE  RefusedInv'
  BY ZenonT(30), <1>3 DEF IInv, Seal, Rename, SyncRow, Answer, answers
<1>4. ASSUME NEW p \in Process, FailBefore(p) PROVE RefusedInv'
  <2>1. counts'["commits"] = counts["commits"]
    BY ZenonT(30), <1>4, CountFacts DEF IInv, Typed, FailBefore
  <2>2. work[p].n # 0 /\ work[p].n = counts["commits"] /\ counts["commits"] \in Nat
    BY ZenonT(30), <1>4 DEF IInv, Typed, TypedAnswers, WorkInv, WorkOf, Committing, FailBefore
  <2> QED
    BY <1>4, <2>1, <2>2 DEF IInv, FailBefore
<1>5. ASSUME PowerLoss PROVE RefusedInv'
  BY <1>5, CountFacts DEF IInv, Typed, PowerLoss, Release, answers
<1>6. CASE UNCHANGED vars
  BY ZenonT(30), <1>6 DEF vars, answers, IInv
<1> QED
  BY <1>1, <1>2, <1>3, <1>4, <1>5, <1>6, QuietSteps DEF Next

\* While a process works on the rows no other one does.
LEMMA Alone ==
    ASSUME IInv, NEW p \in Process, pc[p] \in Holding, NEW s \in Pc, Go(p, s), WorkOf(p)'
    PROVE  WorkInv'
<1>1. ASSUME NEW q \in Process \ {p} PROVE pc'[q] \notin Holding
  BY DEF IInv, Typed, TypedProcess, LockInv, Go
<1> QED
  BY <1>1 DEF WorkInv, WorkOf, Holding, Committing

\* Every step keeps the cache and the commit in flight.
LEMMA WorkStep ==
    ASSUME IInv, [Next]_vars
    PROVE  WorkInv'
<1>1. CASE Idle
  <2>1. WorkInv
    BY ZenonT(30) DEF IInv
  <2> SUFFICES ASSUME NEW p \in Process PROVE WorkOf(p)'
    BY ZenonT(30) DEF WorkInv
  <2>2. CASE pc'[p] \in Holding \ {"Scan"}
    BY ZenonT(30), <1>1, <2>1, <2>2 DEF WorkInv, WorkOf, Idle, Quiet
  <2>3. CASE pc'[p] \notin Holding \ {"Scan"}
    BY ZenonT(30), <2>3 DEF WorkOf, Holding, Committing
  <2> QED
    BY ZenonT(30), <2>2, <2>3
<1>2. ASSUME NEW p \in Process, Scan(p) PROVE WorkInv'
  <2>1. WorkOf(p)'
    BY <1>2 DEF IInv, Typed, TypedProcess, Scan, Go, WorkOf, Committing, disk
  <2> QED
    BY <1>2, <2>1, Alone DEF Scan, Holding, Pc
<1>3. ASSUME NEW p \in Process, Recovered(p) PROVE WorkInv'
  <2>1. WorkOf(p)'
    BY SMTT(30), <1>3 DEF IInv, Typed, TypedProcess, WorkInv, Recovered, Go, WorkOf, Committing, disk
  <2> QED
    BY ZenonT(30), <1>3, <2>1, Alone DEF Recovered, Holding, Pc
<1>4. ASSUME NEW p \in Process, NEW k \in Key, NEW as \in Kind, StartCommit(p, k, as)
      PROVE  WorkInv'
  <2>1. counts'["commits"] = counts["commits"] + 1 /\ counts["commits"] \in Nat
    BY ZenonT(30), <1>4, CountFacts DEF IInv, Typed, TypedAnswers, StartCommit
  <2>2. entries[p] = rows
    BY ZenonT(30), <1>4 DEF IInv, WorkInv, WorkOf, StartCommit
  <2>3. pc'[p] = "Stage" /\ Go(p, "Stage")
    BY ZenonT(30), <1>4, <2>2 DEF IInv, Typed, TypedProcess, StartCommit, Go
  <2>4. /\ work'[p].key = k /\ work'[p].n = counts["commits"] + 1
        /\ UNCHANGED <<entries, rows, rowsMaybe, refused, confirmed>>
    BY <1>4 DEF IInv, Typed, TypedProcess, StartCommit, disk
  <2>5. counts["commits"] + 1 \notin refused
    BY <2>1 DEF IInv, RefusedInv, Typed, TypedAnswers
  <2>6. \A l \in Key : confirmed[l] <= counts["commits"] + 1
    BY <2>1 DEF IInv, RowInv, Typed, TypedDisk, TypedAnswers
  <2>7. \A l \in Key : counts["commits"] + 1 \notin rowsMaybe[l]
    <3>1. RowInv
      BY ZenonT(30) DEF IInv
    <3>2. ASSUME NEW l \in Key, counts["commits"] + 1 \in rowsMaybe[l] PROVE FALSE
      <4>1. counts["commits"] + 1 <= counts["commits"]
        BY ZenonT(30), <3>1, <3>2 DEF RowInv
      <4> QED
        BY <2>1, <4>1
    <3> QED
      BY ZenonT(30), <3>2
  <2>8. WorkOf(p)'
    BY SMTT(30), <2>1, <2>2, <2>3, <2>4, <2>5, <2>6, <2>7 DEF WorkOf, Committing
  <2> QED
    BY ZenonT(30), <1>4, <2>3, <2>8, Alone DEF StartCommit, Holding, Pc
<1>5. ASSUME NEW p \in Process, Seal(p) PROVE WorkInv'
  <2>1. WorkOf(p)'
    BY ZenonT(30), <1>5 DEF IInv, Typed, TypedProcess, WorkInv, Seal, Go, WorkOf, Committing, answers
  <2> QED
    BY ZenonT(30), <1>5, <2>1, Alone DEF Seal, Holding, Committing, Pc
<1>6. ASSUME NEW p \in Process, Rename(p) PROVE WorkInv'
  <2>1. WorkOf(p)'
    BY ZenonT(30), <1>6 DEF IInv, Typed, TypedProcess, WorkInv, Rename, Go, WorkOf, Committing, answers
  <2> QED
    BY SMTT(30), <1>6, <2>1, Alone DEF Rename, Holding, Committing, Pc
<1>7. ASSUME NEW p \in Process, SyncRow(p) PROVE WorkInv'
  <2>1. work[p].key \in Key /\ rows = [entries[p] EXCEPT ![work[p].key] = work[p].n]
    BY <1>7 DEF IInv, WorkInv, WorkOf, SyncRow, Committing
  <2>2. rows[work[p].key] = work[p].n
    BY ZenonT(30), <2>1 DEF IInv, Typed, TypedProcess
  <2>3. pc'[p] = "Synced" /\ Go(p, "Synced")
    BY ZenonT(30), <1>7, <2>2 DEF IInv, Typed, TypedProcess, SyncRow, Go
  <2>4. /\ UNCHANGED <<rows, entries, work, refused, confirmed, counts>>
        /\ work[p].n \in synced' /\ rowsMaybe'[work[p].key] = {work[p].n}
    BY <1>7, <2>1, <2>2 DEF SyncRow, answers
  <2>5. WorkOf(p)
    BY SMTT(30) DEF IInv, WorkInv
  <2>6. WorkOf(p)'
    BY ZenonT(30), <1>7, <2>1, <2>3, <2>4, <2>5 DEF SyncRow, WorkOf, Committing
  <2> QED
    BY ZenonT(30), <1>7, <2>3, <2>6, Alone DEF SyncRow, Holding, Committing, Pc
<1>8. ASSUME NEW p \in Process, Answer(p) PROVE WorkInv'
  <2>1. work[p].key \in Key /\ rows = [entries[p] EXCEPT ![work[p].key] = work[p].n]
    BY <1>8 DEF IInv, WorkInv, WorkOf, Answer, Committing
  <2>2. rows' = rows /\ entries'[p] = [entries[p] EXCEPT ![work[p].key] = work[p].n]
    BY <1>8, <2>1 DEF IInv, Typed, TypedProcess, Answer, disk
  <2>3. PICK s \in {"Out", "Recover", "Serve", "Frozen"} : Go(p, s)
    BY ZenonT(30), <1>8 DEF IInv, Typed, TypedProcess, Work, Answer
  <2>4. pc'[p] = s
    BY <2>3 DEF IInv, Typed, TypedProcess, Go
  <2>5. WorkOf(p)'
    BY ZenonT(30), <2>1, <2>2, <2>4 DEF WorkOf, Committing
  <2> QED
    BY ZenonT(30), <1>8, <2>3, <2>5, Alone DEF Answer, Holding, Committing, Pc
<1>9. ASSUME NEW p \in Process, FailBefore(p) PROVE WorkInv'
  <2>1. WorkOf(p)'
    BY ZenonT(30), <1>9 DEF IInv, Typed, TypedProcess, FailBefore, Go, WorkOf, Committing
  <2> QED
    BY ZenonT(30), <1>9, <2>1, Alone DEF FailBefore, Holding, Committing, Pc
<1>10. ASSUME PowerLoss PROVE WorkInv'
  BY ZenonT(30), <1>10 DEF PowerLoss, Release, WorkInv, WorkOf, Committing
<1>11. CASE UNCHANGED vars
  <2>1. Idle
    BY ZenonT(30), <1>11 DEF vars, disk, answers, Idle, Quiet
  <2> QED
    BY ZenonT(30), <1>1, <2>1
<1> QED
  BY ZenonT(30), <1>1, <1>2, <1>3, <1>4, <1>5, <1>6, <1>7, <1>8, <1>9, <1>10, <1>11, IdleSteps DEF Next

\* The invariant holds of a store nobody has opened.
LEMMA InitInv == Init => IInv
<1> SUFFICES ASSUME Init PROVE IInv
  BY ZenonT(30)
<1>1. Typed
  BY PartFacts DEF Init, Typed, TypedDisk, TypedProcess, TypedAnswers, Pc, Work, NoRows, NoWork
<1>2. LockInv
  BY ZenonT(30), PartFacts DEF Init, LockInv, Holding, Committing
<1>3. BootInv
  BY ZenonT(30), PartFacts DEF Init, BootInv, Holding, Committing, Solid, NoRows
<1>4. RowInv
  <2>1. /\ counts["commits"] = 0 /\ refused = {}
        /\ \A k \in Key : rows[k] = 0 /\ rowsMaybe[k] = {0} /\ confirmed[k] = 0
    BY ZenonT(30) DEF Init, NoRows
  <2> QED
    BY <2>1 DEF RowInv
<1>5. WorkInv
  BY ZenonT(30) DEF Init, WorkInv, WorkOf, Committing
<1>6. RefusedInv
  BY DEF Init, RefusedInv
<1> QED
  BY <1>1, <1>2, <1>3, <1>4, <1>5, <1>6 DEF IInv

\* The inductive invariant holds in every state.
THEOREM Inductive == Spec => []IInv
<1>1. IInv /\ [Next]_vars => IInv'
  <2> SUFFICES ASSUME IInv, [Next]_vars PROVE IInv'
    OBVIOUS
  <2>1. Typed'
    BY TypedDiskStep, TypedProcessStep, TypedAnswersStep DEF Typed
  <2> QED
    BY <2>1, LockStep, BootStep, RowStep, WorkStep, RefusedStep DEF IInv
<1> QED
  BY InitInv, <1>1, PTL DEF Spec

\* What commit answered holds through every kill, power loss and I/O error, for any
\* number of processes, keys, commits and crashes.
THEOREM AnswersAlwaysHold == Spec => []AnswersHold
<1>1. IInv => AnswersHold
  BY ZenonT(30) DEF IInv, RowInv, AnswersHold
<1> QED
  BY Inductive, <1>1, PTL

\* One process at a time serves a namespace, and its cache is the directory.
THEOREM OwnerAlwaysSeesDisk == Spec => []OwnerSeesDisk
<1>1. IInv => OwnerSeesDisk
  BY DEF IInv, LockInv, WorkInv, WorkOf, OwnerSeesDisk, Holding, Committing
<1> QED
  BY Inductive, <1>1, PTL

=============================================================================
