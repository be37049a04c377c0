---------------------- MODULE CompileTransactionProofs ----------------------
(***************************************************************************)
(* What a compile transaction promises, for any plan: no bytes of the      *)
(* editor or of the original are lost, and the outcome it reports is the   *)
(* one on disk.                                                            *)
(*                                                                         *)
(* Neither promise is inductive.  CInv says where every path stands: not   *)
(* yet published, published, or at one step of its rollback (Visit), and   *)
(* which names must then hold which bytes.  Its control part keeps the     *)
(* publication record and the paths still to do apart, each without        *)
(* repetition, so that a path is published once and rolled back once.      *)
(***************************************************************************)
EXTENDS CompileTransaction, SequenceTheorems, TLAPS

\* The target holds what the editor left there, or else these bytes.
Holds(p, bytes) ==
    At(p, "target") = IF left[p] # "untouched" THEN left[p] ELSE bytes

Settled(p, bytes) == Holds(p, bytes) \/ p \in clobbered

Recorded == Range(published)

Typed ==
    /\ names \in [Paths -> [Names -> Inodes \cup {"none"}]]
    /\ inode \in [Paths -> [Inodes -> Contents]]
    /\ left \in [Paths -> {"untouched", "edit", "none"}]

\* Only the editor writes an inode.
InodesOK(p) ==
    /\ inode[p]["edit"] = "edit" /\ inode[p]["stage"] \in {"new", "edit"}
    /\ inode[p]["orig"] \in {"old", "edit"} /\ inode[p]["copy"] \in {"old", "edit"}

\* The original is at the target, or the editor overwrote it.
Original(p) == At(p, "target") = "old" \/ p \in overwrote

\* A path the transaction has not published.
Unpublished(p) ==
    /\ names[p]["target"] \in {"orig", "edit", "none"}
    /\ names[p]["recovery"] \in {"copy", "none"}
    /\ p \notin Range(Registrations) => names[p]["recovery"] = "none"
    /\ names[p]["quarantine"] = "none" /\ names[p]["stage"] = "none"
    /\ inode[p]["copy"] = "old" /\ inode[p]["stage"] = "new"
    /\ Holds(p, Preimage(p))
    /\ Preimage(p) = "old" /\ left[p] # "untouched" => p \in overwrote

\* A published registration has its backup, and a create needs none.
BackedUp(p) ==
    /\ p \in Range(Registrations) => names[p]["recovery"] = "copy" /\ inode[p]["copy"] = "old"
    /\ p \notin Range(Registrations) => names[p]["recovery"] = "none"

\* A removal that was moved aside, and may turn out not to be the planned one.
Removed(p) ==
    /\ names[p]["target"] \in {"edit", "none"} /\ names[p]["recovery"] \in {"orig", "edit"}
    /\ At(p, "recovery") = "old" => Holds(p, "none")
    /\ At(p, "recovery") = "old" \/ p \in overwrote

Installed(p) ==
    /\ names[p]["target"] \in {"stage", "edit", "none"} /\ names[p]["quarantine"] = "none"
    /\ BackedUp(p) /\ Settled(p, "new")

Published(p) == IF p \in Range(Removals) THEN Removed(p) ELSE Installed(p)

\* A published file on its way back.
Quarantined(p) ==
    /\ p \notin Range(Removals) /\ BackedUp(p)
    /\ names[p]["target"] \in {"edit", "none"} /\ names[p]["quarantine"] \in {"stage", "edit"}
    /\ At(p, "quarantine") = "new" => Settled(p, "none")

Linked(p) == p \in Range(Registrations) /\ Original(p) /\ Settled(p, "old")

Restored(p) == p \in Range(Removals) /\ (At(p, "target") = "old" => Holds(p, "old"))

\* The rollback of p has come to step s.
Visit(p, s) ==
    \/ s \in {"start", "inspected"} /\ Published(p)
    \/ s \in {"quarantined", "foreign"} /\ Quarantined(p)
    \/ s = "confirmed" /\ Quarantined(p) /\ At(p, "quarantine") = "new"
    \/ s \in {"linked", "verified"} /\ Linked(p)
    \/ s = "restored" /\ Restored(p)

\* NothingLost, of one path.
Kept(p) ==
    /\ left[p] = "edit" => Has(p, "edit") \/ p \in clobbered
    /\ outcome # "ok" /\ Preimage(p) = "old" => Has(p, "old") \/ p \in overwrote

PathInv(p) ==
    /\ InodesOK(p) /\ Kept(p)
    /\ phase \in {"prepare", "publish", "validate", "rollback"} /\ p \notin Recorded =>
           Unpublished(p)
    /\ phase \in {"publish", "validate"} /\ p \in Recorded =>
           Published(p) /\ (Settled(p, Postimage(p)) \/ (Current(p) /\ step = "moved"))
    /\ phase = "publish" /\ Current(p) /\ p \in Range(Registrations)
           /\ step \in {"backed", "checked"} => names[p]["recovery"] = "copy"
    /\ phase = "rollback" /\ p \in Range(todo) =>
           (IF Current(p) THEN Visit(p, step) ELSE Published(p))
    /\ phase = "rollback" /\ p \in Recorded \ Range(todo) /\ errors = {} =>
           Settled(p, Preimage(p))
    /\ outcome = "ok" => Settled(p, Postimage(p))
    /\ outcome = "failed" => Settled(p, Preimage(p))

\* Every path is visited once, in each direction.
ControlInv ==
    /\ phase \in {"prepare", "publish", "validate", "finalize", "rollback", "done"}
    /\ published \in Seq(Range(Order)) /\ IsInjective(published)
    /\ phase \in {"prepare", "publish", "validate", "rollback"} => outcome = "none"
    /\ phase = "finalize" => outcome = "ok"
    /\ phase = "prepare" => published = <<>> /\ step = "start"
    /\ phase = "publish" =>
           /\ todo \in Seq(Range(Order)) /\ IsInjective(todo)
           /\ Recorded \cup Range(todo) = Range(Order)
           /\ \A p \in Recorded \cap Range(todo) : Current(p) /\ step = "moved"
           /\ step = "moved" => todo # <<>> /\ Head(todo) \in Recorded \cap Range(Removals)
    /\ phase = "validate" => Recorded = Range(Order) /\ step # "moved"
    /\ phase = "rollback" =>
           /\ todo \in Seq(Range(Order)) /\ IsInjective(todo) /\ Range(todo) \subseteq Recorded

CInv == Typed /\ ControlInv /\ \A p \in Paths : PathInv(p)

-----------------------------------------------------------------------------
\* Sequences without repetition.
LEMMA ConcatSets ==
    ASSUME NEW S, NEW T, NEW s \in Seq(S), NEW t \in Seq(T)
    PROVE  /\ s \o t \in Seq(S \cup T) /\ Range(s \o t) = Range(s) \cup Range(t)
           /\ IsInjective(s \o t) => /\ IsInjective(s) /\ IsInjective(t)
                                     /\ Range(s) \cap Range(t) = {}
  <1> DEFINE u == s \o t
  <1>1. s \in Seq(S \cup T) /\ t \in Seq(S \cup T)
    OBVIOUS
  <1>2. /\ u \in Seq(S \cup T) /\ Len(u) = Len(s) + Len(t) /\ Len(s) \in Nat /\ Len(t) \in Nat
        /\ \A i \in 1 .. Len(s) : u[i] = s[i]
        /\ \A i \in 1 .. Len(t) : u[Len(s) + i] = t[i]
        /\ \A i \in 1 .. Len(u) : u[i] = IF i <= Len(s) THEN s[i] ELSE t[i - Len(s)]
        /\ DOMAIN u = 1 .. Len(u) /\ DOMAIN s = 1 .. Len(s) /\ DOMAIN t = 1 .. Len(t)
    <2>1. u \in Seq(S \cup T) /\ Len(u) = Len(s) + Len(t)
      BY <1>1, ConcatProperties
    <2>2. \A i \in 1 .. Len(u) : u[i] = IF i <= Len(s) THEN s[i] ELSE t[i - Len(s)]
      BY <1>1, <2>1, ConcatProperties
    <2> HIDE DEF u
    <2> QED BY <2>1, <2>2
  <1> HIDE DEF u
  <1>3. Range(u) = Range(s) \cup Range(t)
    <2>1. ASSUME NEW x \in Range(u) PROVE x \in Range(s) \cup Range(t)
      <3>1. PICK i \in 1 .. Len(u) : x = u[i]
        BY <1>2, <2>1 DEF Range
      <3>2. CASE i <= Len(s)
        <4>1. i \in 1 .. Len(s)
          BY <1>2, <3>2
        <4>2. x = s[i]
          BY <1>2, <3>1, <4>1
        <4> QED BY ZenonT(30), <1>2, <4>1, <4>2 DEF Range
      <3>3. CASE ~(i <= Len(s))
        <4>1. i - Len(s) \in 1 .. Len(t)
          BY <1>2, <3>3
        <4> QED BY ZenonT(30), <1>2, <3>1, <3>3, <4>1 DEF Range
      <3> QED BY <3>2, <3>3
    <2>2. ASSUME NEW x \in Range(s) PROVE x \in Range(u)
      <3>1. PICK i \in 1 .. Len(s) : x = s[i]
        BY <1>2, <2>2 DEF Range
      <3>2. i \in 1 .. Len(u)
        BY <1>2
      <3> QED BY <1>2, <3>1, <3>2 DEF Range
    <2>3. ASSUME NEW x \in Range(t) PROVE x \in Range(u)
      <3>1. PICK i \in 1 .. Len(t) : x = t[i]
        BY <1>2, <2>3 DEF Range
      <3>2. Len(s) + i \in 1 .. Len(u)
        BY <1>2
      <3> QED BY ZenonT(30), <1>2, <3>1, <3>2 DEF Range
    <2> QED BY <2>1, <2>2, <2>3
  <1>4. ASSUME IsInjective(u)
        PROVE  IsInjective(s) /\ IsInjective(t) /\ Range(s) \cap Range(t) = {}
    <2>1. ASSUME NEW i \in 1 .. Len(s), NEW j \in 1 .. Len(s), s[i] = s[j] PROVE i = j
      <3>1. i \in 1 .. Len(u) /\ j \in 1 .. Len(u)
        BY <1>2
      <3> QED BY ZenonT(30), <1>2, <1>4, <2>1, <3>1 DEF IsInjective
    <2>2. ASSUME NEW i \in 1 .. Len(t), NEW j \in 1 .. Len(t), t[i] = t[j] PROVE i = j
      <3>1. Len(s) + i \in 1 .. Len(u) /\ Len(s) + j \in 1 .. Len(u)
        BY <1>2
      <3>2. Len(s) + i = Len(s) + j
        BY ZenonT(30), <1>2, <1>4, <2>2, <3>1 DEF IsInjective
      <3> QED BY <1>2, <3>2
    <2>3. ASSUME NEW i \in 1 .. Len(s), NEW j \in 1 .. Len(t) PROVE s[i] # t[j]
      <3>1. i \in 1 .. Len(u) /\ Len(s) + j \in 1 .. Len(u) /\ i # Len(s) + j
        BY <1>2
      <3> QED BY ZenonT(30), <1>2, <1>4, <3>1 DEF IsInjective
    <2> QED BY <1>2, <2>1, <2>2, <2>3 DEF IsInjective, Range
  <1> QED BY <1>2, <1>3, <1>4 DEF u

LEMMA NoElements == Range(<<>>) = {} /\ IsInjective(<<>>)
  BY DEF Range, IsInjective

LEMMA Elements ==
    ASSUME NEW S, NEW s \in Seq(S)
    PROVE  Range(s) \subseteq S
  BY DEF Range

LEMMA TailSet ==
    ASSUME NEW S, NEW s \in Seq(S), s # <<>>, IsInjective(s)
    PROVE  /\ Tail(s) \in Seq(S) /\ IsInjective(Tail(s))
           /\ Range(Tail(s)) = Range(s) \ {Head(s)} /\ Head(s) \in Range(s)
  <1> DEFINE t == Tail(s)
  <1>1. /\ t \in Seq(S) /\ Len(s) \in Nat /\ Len(s) >= 1 /\ Len(t) = Len(s) - 1
        /\ \A i \in 1 .. Len(t) : t[i] = s[i + 1]
        /\ Head(s) = s[1] /\ DOMAIN s = 1 .. Len(s) /\ DOMAIN t = 1 .. Len(t)
    <2>1. Len(s) \in Nat /\ Len(s) >= 1
      BY EmptySeq
    <2> QED BY <2>1
  <1> HIDE DEF t
  <1>2. IsInjective(t)
    <2> SUFFICES ASSUME NEW i \in 1 .. Len(t), NEW j \in 1 .. Len(t), t[i] = t[j] PROVE i = j
      BY <1>1 DEF IsInjective
    <2>1. i + 1 \in 1 .. Len(s) /\ j + 1 \in 1 .. Len(s)
      BY <1>1
    <2>2. s[i + 1] = s[j + 1]
      BY ZenonT(30), <1>1
    <2>3. i + 1 = j + 1
      BY ZenonT(30), <1>1, <2>1, <2>2 DEF IsInjective
    <2> QED BY <1>1, <2>3
  <1>3. ASSUME NEW x \in Range(t) PROVE x \in Range(s) \ {Head(s)}
    <2>1. PICK i \in 1 .. Len(t) : x = t[i]
      BY <1>1, <1>3 DEF Range
    <2>2. i + 1 \in 1 .. Len(s) /\ i + 1 # 1 /\ 1 \in 1 .. Len(s)
      BY <1>1
    <2>3. x = s[i + 1]
      BY <1>1, <2>1
    <2>4. x # Head(s)
      BY <1>1, <2>2, <2>3 DEF IsInjective
    <2> QED BY <1>1, <2>2, <2>3, <2>4 DEF Range
  <1>4. ASSUME NEW x \in Range(s) \ {Head(s)} PROVE x \in Range(t)
    <2>1. PICK i \in 1 .. Len(s) : x = s[i]
      BY <1>1, <1>4 DEF Range
    <2>2. i - 1 \in 1 .. Len(t) /\ (i - 1) + 1 = i
      BY <1>1, <1>4, <2>1
    <2> QED BY ZenonT(30), <1>1, <2>1, <2>2 DEF Range
  <1>5. Head(s) \in Range(s)
    BY <1>1 DEF Range
  <1> QED BY <1>1, <1>2, <1>3, <1>4, <1>5 DEF t

LEMMA PrependSet ==
    ASSUME NEW S, NEW s \in Seq(S), IsInjective(s), NEW x \in S, x \notin Range(s)
    PROVE  /\ <<x>> \o s \in Seq(S) /\ IsInjective(<<x>> \o s)
           /\ Range(<<x>> \o s) = Range(s) \cup {x}
  <1> DEFINE t == <<x>> \o s
  <1>1. <<x>> \in Seq(S) /\ Len(<<x>>) = 1 /\ <<x>>[1] = x
    OBVIOUS
  <1>2. /\ t \in Seq(S) /\ Len(s) \in Nat /\ Len(t) = Len(s) + 1 /\ t[1] = x
        /\ \A i \in 2 .. Len(s) + 1 : t[i] = s[i - 1]
        /\ DOMAIN s = 1 .. Len(s) /\ DOMAIN t = 1 .. Len(s) + 1
    <2>1. t \in Seq(S) /\ Len(t) = 1 + Len(s)
      BY <1>1, ConcatProperties
    <2>2. \A i \in 1 .. 1 + Len(s) : t[i] = IF i <= 1 THEN <<x>>[i] ELSE s[i - 1]
      BY <1>1, ConcatProperties
    <2> HIDE DEF t
    <2> QED BY <1>1, <2>1, <2>2
  <1> HIDE DEF t
  <1>3. \A i \in 1 .. Len(s) : t[i + 1] = s[i] /\ s[i] # x
    BY <1>2 DEF Range
  <1>4. Range(t) = Range(s) \cup {x}
    <2>1. ASSUME NEW y \in Range(t) PROVE y \in Range(s) \cup {x}
      <3>1. PICK i \in 1 .. Len(s) + 1 : y = t[i]
        BY <1>2, <2>1 DEF Range
      <3>2. CASE i = 1
        BY <1>2, <3>1, <3>2
      <3>3. CASE i # 1
        <4>1. i - 1 \in 1 .. Len(s) /\ i \in 2 .. Len(s) + 1
          BY <1>2, <3>3
        <4>2. y = s[i - 1]
          BY <1>2, <3>1, <4>1
        <4> QED BY <1>2, <4>1, <4>2 DEF Range
      <3> QED BY <3>2, <3>3
    <2>2. ASSUME NEW y \in Range(s) PROVE y \in Range(t)
      <3>1. PICK i \in 1 .. Len(s) : y = s[i]
        BY <1>2, <2>2 DEF Range
      <3>2. i + 1 \in 1 .. Len(s) + 1
        BY <1>2
      <3> QED BY ZenonT(30), <1>2, <1>3, <3>1, <3>2 DEF Range
    <2>3. x \in Range(t)
      BY <1>2 DEF Range
    <2> QED BY <2>1, <2>2, <2>3
  <1>5. IsInjective(t)
    <2> SUFFICES ASSUME NEW i \in 1 .. Len(s) + 1, NEW j \in 1 .. Len(s) + 1, t[i] = t[j]
                 PROVE  i = j
      BY <1>2 DEF IsInjective
    <2>1. ASSUME NEW m \in 1 .. Len(s) + 1, m # 1
          PROVE  m - 1 \in 1 .. Len(s) /\ t[m] = s[m - 1] /\ t[m] # x
      <3>1. m - 1 \in 1 .. Len(s) /\ m \in 2 .. Len(s) + 1
        BY <1>2, <2>1
      <3> QED BY <1>2, <1>3, <3>1
    <2>2. CASE i = 1 \/ j = 1
      BY <1>2, <2>1, <2>2
    <2>3. CASE i # 1 /\ j # 1
      <3>1. i - 1 = j - 1
        BY ZenonT(30), <1>2, <2>1, <2>3 DEF IsInjective
      <3> QED BY <1>2, <3>1
    <2> QED BY <2>2, <2>3
  <1> QED BY <1>2, <1>4, <1>5 DEF t

LEMMA ConcatOwn ==
    ASSUME NEW s, NEW t, s \in Seq(Range(s)), t \in Seq(Range(t))
    PROVE  /\ s \o t \in Seq(Range(s \o t)) /\ Range(s \o t) = Range(s) \cup Range(t)
           /\ IsInjective(s \o t) => /\ IsInjective(s) /\ IsInjective(t)
                                     /\ Range(s) \cap Range(t) = {}
  <1>1. PICK S : S = Range(s)
    OBVIOUS
  <1>2. PICK T : T = Range(t)
    OBVIOUS
  <1>3. s \in Seq(S) /\ t \in Seq(T)
    BY <1>1, <1>2
  <1>4. /\ s \o t \in Seq(S \cup T) /\ Range(s \o t) = Range(s) \cup Range(t)
        /\ IsInjective(s \o t) => /\ IsInjective(s) /\ IsInjective(t)
                                  /\ Range(s) \cap Range(t) = {}
    BY ZenonT(30), <1>3, ConcatSets
  <1>5. s \o t \in Seq(Range(s \o t))
    BY <1>1, <1>2, <1>4
  <1> QED BY <1>4, <1>5

\* A planned path is of one kind, and Order names every path but the guards once.
LEMMA Plan ==
    /\ Order \in Seq(Range(Order)) /\ IsInjective(Order)
    /\ Paths = Range(Order) \cup Range(Guards) /\ Range(Order) \cap Range(Guards) = {}
    /\ Range(Order) = Range(Creates) \cup Range(Registrations) \cup Range(Removals)
    /\ Range(Creates) \cap Range(Registrations) = {} /\ Range(Creates) \cap Range(Removals) = {}
    /\ Range(Registrations) \cap Range(Removals) = {}
  <1>1. /\ Creates \in Seq(Range(Creates)) /\ Registrations \in Seq(Range(Registrations))
        /\ Removals \in Seq(Range(Removals)) /\ Guards \in Seq(Range(Guards))
        /\ IsInjective(Order \o Guards)
    BY PlanAssumption
  <1> DEFINE both == Creates \o Registrations
  <1>2. /\ both \in Seq(Range(both)) /\ Range(both) = Range(Creates) \cup Range(Registrations)
        /\ IsInjective(both) => Range(Creates) \cap Range(Registrations) = {}
    BY <1>1, ConcatOwn
  <1>3. Order = both \o Removals
    BY DEF Order
  <1> HIDE DEF both
  <1>4. /\ Order \in Seq(Range(Order)) /\ Range(Order) = Range(both) \cup Range(Removals)
        /\ IsInjective(Order) => IsInjective(both) /\ Range(both) \cap Range(Removals) = {}
    BY <1>1, <1>2, <1>3, ConcatOwn
  <1>5. /\ Range(Order \o Guards) = Range(Order) \cup Range(Guards)
        /\ IsInjective(Order) /\ Range(Order) \cap Range(Guards) = {}
    BY <1>1, <1>4, ConcatOwn
  <1> QED BY <1>2, <1>4, <1>5 DEF Paths

\* What Preimage and Postimage are, of a path of each kind.
LEMMA Images ==
    ASSUME NEW p \in Paths
    PROVE  /\ Preimage(p) \in {"none", "old"}
           /\ p \in Range(Creates) => Preimage(p) = "none" /\ Postimage(p) = "new"
           /\ p \in Range(Registrations) => Preimage(p) = "old" /\ Postimage(p) = "new"
           /\ p \in Range(Removals) => Preimage(p) = "old" /\ Postimage(p) = "none"
           /\ p \in Range(Guards) => Preimage(p) = "old" /\ Postimage(p) = "old"
           /\ p \notin Range(Order) => p \in Range(Guards)
           /\ p \in Range(Order) => \/ p \in Range(Creates) \/ p \in Range(Registrations)
                                    \/ p \in Range(Removals)
  BY Plan DEF Preimage, Postimage

\* A step that leaves the files of a path alone.
Same(p) ==
    /\ names'[p] = names[p] /\ inode'[p] = inode[p] /\ left'[p] = left[p]
    /\ p \in overwrote' <=> p \in overwrote
    /\ p \in clobbered' <=> p \in clobbered

LEMMA SameFiles ==
    ASSUME NEW p, Same(p)
    PROVE  /\ \A n : At(p, n)' = At(p, n)
           /\ \A b : Settled(p, b)' <=> Settled(p, b)
           /\ InodesOK(p)' <=> InodesOK(p)
           /\ Unpublished(p)' <=> Unpublished(p)
           /\ Published(p)' <=> Published(p)
           /\ \A b : Has(p, b)' <=> Has(p, b)
  <1>1. \A n : At(p, n)' = At(p, n)
    BY DEF Same, At
  <1>2. \A b : (Holds(p, b)' <=> Holds(p, b)) /\ (Settled(p, b)' <=> Settled(p, b))
    BY <1>1 DEF Same, Holds, Settled
  <1>3. InodesOK(p)' <=> InodesOK(p)
    BY DEF Same, InodesOK
  <1>4. Unpublished(p)' <=> Unpublished(p)
    BY <1>2 DEF Same, Unpublished, Preimage
  <1>5. Published(p)' <=> Published(p)
    <2>1. Removed(p)' <=> Removed(p)
      BY <1>1, <1>2 DEF Same, Removed
    <2>2. Installed(p)' <=> Installed(p)
      BY <1>1, <1>2 DEF Same, Installed, BackedUp
    <2> QED BY <2>1, <2>2 DEF Published
  <1>6. \A b : Has(p, b)' <=> Has(p, b)
    BY <1>1 DEF Has
  <1> QED BY <1>1, <1>2, <1>3, <1>4, <1>5, <1>6

LEMMA SameVisit ==
    ASSUME NEW p, NEW s, Same(p), Visit(p, s)
    PROVE  Visit(p, s)'
  <1>1. \A n : At(p, n)' = At(p, n)
    BY SameFiles
  <1>2. \A b : (Holds(p, b)' <=> Holds(p, b)) /\ (Settled(p, b)' <=> Settled(p, b))
    BY <1>1 DEF Same, Holds, Settled
  <1>3. Published(p)' <=> Published(p)
    BY SameFiles
  <1>4. Quarantined(p)' <=> Quarantined(p)
    BY <1>1, <1>2 DEF Same, Quarantined, BackedUp
  <1>5. Linked(p)' <=> Linked(p)
    BY <1>1, <1>2 DEF Same, Linked, Original
  <1>6. Restored(p)' <=> Restored(p)
    BY <1>1, <1>2 DEF Same, Restored
  <1> QED BY <1>1, <1>3, <1>4, <1>5, <1>6 DEF Visit

\* Renaming within a path: bytes that had a name keep one when their inode does.
LEMMA StillNamed ==
    ASSUME NEW p, NEW b, b # "none", Has(p, b), inode'[p] = inode[p],
           \A n \in Names : At(p, n) = b => \E m \in Names : names'[p][m] = names[p][n]
    PROVE  Has(p, b)'
  <1>1. PICK n \in Names : At(p, n) = b
    BY DEF Has
  <1>2. PICK m \in Names : names'[p][m] = names[p][n]
    BY <1>1
  <1>3. At(p, m)' = b
    BY ZenonT(30), <1>1, <1>2 DEF At
  <1> QED BY <1>2, <1>3 DEF Has

\* What an edit of a path does to its files.
LEMMA EditEffect ==
    ASSUME Typed, NEW p \in Paths, Edit(p)
    PROVE  /\ \A n \in Names \ {"target"} : names'[p][n] = names[p][n]
           /\ names'[p]["target"] \in {names[p]["target"], "edit", "none"}
           /\ \A i \in Inodes : \/ inode'[p][i] = inode[p][i]
                                \/ i = names[p]["target"] /\ inode'[p][i] = "edit"
           /\ left'[p] \in {"edit", "none"}
           /\ inode'[p]["edit"] \in {inode[p]["edit"], "edit"}
           /\ inode[p]["edit"] = "edit" => At(p, "target")' = left'[p]
           /\ p \in overwrote' <=> (p \in overwrote \/ At(p, "target") = "old")
           /\ clobbered' = clobbered
           /\ \A q \in Paths \ {p} : Same(q)
           /\ Typed'
           /\ UNCHANGED <<phase, todo, step, published, errors, outcome>>
  <1>1. CASE EditInPlace(p)
    <2>1. names[p]["target"] \in Inodes
      BY <1>1 DEF Typed, EditInPlace, Names
    <2>2. /\ names' = names /\ inode'[p] = [inode[p] EXCEPT ![names[p]["target"]] = "edit"]
          /\ \A q \in Paths \ {p} : inode'[q] = inode[q]
          /\ inode' \in [Paths -> [Inodes -> Contents]]
      BY <1>1, <2>1 DEF Typed, EditInPlace, Contents
    <2>3. /\ \A i \in Inodes : inode'[p][i] = IF i = names[p]["target"] THEN "edit" ELSE inode[p][i]
      BY <2>2 DEF Typed
    <2>4. At(p, "target")' = "edit"
      BY <2>1, <2>2, <2>3 DEF At, Inodes
    <2> QED BY <1>1, <2>1, <2>2, <2>3, <2>4 DEF EditInPlace, Edited, Typed, Same, Inodes
  <1>2. CASE EditReplace(p)
    <2>1. /\ inode' = inode /\ names'[p] = [names[p] EXCEPT !["target"] = "edit"]
          /\ \A q \in Paths \ {p} : names'[q] = names[q]
          /\ names' \in [Paths -> [Names -> Inodes \cup {"none"}]]
      BY <1>2 DEF Typed, EditReplace, Link, Inodes, Names
    <2>2. \A n \in Names : names'[p][n] = IF n = "target" THEN "edit" ELSE names[p][n]
      BY <2>1 DEF Typed
    <2>3. At(p, "target")' = inode[p]["edit"]
      BY <2>1, <2>2 DEF At, Names
    <2> QED BY ZenonT(30), <1>2, <2>1, <2>2, <2>3 DEF EditReplace, Edited, Typed, Same, Names
  <1>3. CASE EditDelete(p)
    <2>1. /\ inode' = inode /\ names'[p] = [names[p] EXCEPT !["target"] = "none"]
          /\ \A q \in Paths \ {p} : names'[q] = names[q]
          /\ names' \in [Paths -> [Names -> Inodes \cup {"none"}]]
      BY <1>3 DEF Typed, EditDelete, Unlink, Link, Names
    <2>2. \A n \in Names : names'[p][n] = IF n = "target" THEN "none" ELSE names[p][n]
      BY <2>1 DEF Typed
    <2>3. At(p, "target")' = "none"
      BY ZenonT(30), <2>1, <2>2 DEF At, Names
    <2> QED BY ZenonT(30), <1>3, <2>1, <2>2, <2>3 DEF EditDelete, Edited, Typed, Same, Names
  <1> QED BY ZenonT(30), <1>1, <1>2, <1>3 DEF Edit

\* The editor cannot break what holds of the path it edits.
LEMMA EditKeeps ==
    ASSUME Typed, NEW p \in Paths, Edit(p), InodesOK(p)
    PROVE  /\ InodesOK(p)'
           /\ \A b : Holds(p, b)'
           /\ Kept(p) => Kept(p)'
           /\ Unpublished(p) => Unpublished(p)'
           /\ Published(p) => Published(p)'
           /\ Quarantined(p) => Quarantined(p)' /\ At(p, "quarantine")' = At(p, "quarantine")
           /\ Linked(p) => Linked(p)'
           /\ Restored(p) => Restored(p)'
           /\ names'[p]["recovery"] = names[p]["recovery"]
  <1>1. /\ names'[p]["recovery"] = names[p]["recovery"] /\ names'[p]["stage"] = names[p]["stage"]
        /\ names'[p]["quarantine"] = names[p]["quarantine"]
        /\ names'[p]["target"] \in {names[p]["target"], "edit", "none"}
        /\ \A i \in Inodes : \/ inode'[p][i] = inode[p][i]
                             \/ i = names[p]["target"] /\ inode'[p][i] = "edit"
        /\ left'[p] \in {"edit", "none"}
        /\ At(p, "target")' = left'[p]
        /\ p \in overwrote' <=> (p \in overwrote \/ At(p, "target") = "old")
        /\ p \in clobbered' <=> p \in clobbered
        /\ outcome' = outcome
    BY EditEffect DEF Names, InodesOK
  <1>2. InodesOK(p)'
    BY <1>1, EditEffect DEF InodesOK, Inodes
  <1>3. \A b : Holds(p, b)'
    BY <1>1 DEF Holds
  <1>4. ASSUME Kept(p) PROVE Kept(p)'
    <2>1. left'[p] = "edit" => Has(p, "edit")'
      BY <1>1 DEF Has, Names
    <2>2. ASSUME Has(p, "old"), At(p, "target") # "old" PROVE Has(p, "old")'
      <3>1. PICK n \in Names : At(p, n) = "old"
        BY <2>2 DEF Has
      <3>2. n # "target" /\ names'[p][n] = names[p][n]
        BY <1>1, <2>2, <3>1 DEF Names
      <3>3. names[p][n] # names[p]["target"] /\ names[p][n] # "none"
        BY <2>2, <3>1 DEF At
      <3>4. names[p][n] \in Inodes
        BY <3>3 DEF Typed
      <3>5. At(p, n)' = "old"
        BY ZenonT(30), <1>1, <3>1, <3>2, <3>3, <3>4 DEF At
      <3> QED BY <3>5 DEF Has
    <2>3. Has(p, "old") => Has(p, "old")' \/ p \in overwrote'
      BY ZenonT(30), <1>1, <2>2
    <2> QED BY <1>1, <1>4, <2>1, <2>3 DEF Kept, Preimage
  <1>5. ASSUME Unpublished(p) PROVE Unpublished(p)'
    <2>1. inode'[p]["copy"] = "old" /\ inode'[p]["stage"] = "new"
      BY <1>1, <1>5 DEF Unpublished, Inodes
    <2>2. Preimage(p) = "old" => p \in overwrote'
      BY <1>1, <1>5 DEF Unpublished, Holds
    <2> QED BY ZenonT(30), <1>1, <1>3, <1>5, <2>1, <2>2 DEF Unpublished, Preimage
  <1>6. ASSUME BackedUp(p), names[p]["target"] # "copy" PROVE BackedUp(p)'
    BY ZenonT(30), <1>1, <1>6 DEF BackedUp, Inodes
  <1>7. ASSUME Removed(p) PROVE Removed(p)'
    <2>1. names[p]["target"] = "edit" \/ names[p]["target"] = "none"
      BY <1>7 DEF Removed
    <2>2. inode'[p]["orig"] = inode[p]["orig"] /\ inode'[p]["edit"] = inode[p]["edit"]
      BY <1>1, <1>2, <2>1 DEF InodesOK, Inodes
    <2>3. At(p, "recovery")' = At(p, "recovery")
      BY ZenonT(30), <1>1, <1>7, <2>2 DEF At, Removed
    <2> QED BY <1>1, <1>3, <1>7, <2>1, <2>3 DEF Removed
  <1>8. ASSUME Installed(p) PROVE Installed(p)'
    BY ZenonT(30), <1>1, <1>3, <1>6, <1>8 DEF Installed, Settled
  <1>9. ASSUME Quarantined(p)
        PROVE  Quarantined(p)' /\ At(p, "quarantine")' = At(p, "quarantine")
    <2>1. names[p]["target"] = "edit" \/ names[p]["target"] = "none"
      BY <1>9 DEF Quarantined
    <2>2. inode'[p]["stage"] = inode[p]["stage"] /\ inode'[p]["edit"] = inode[p]["edit"]
      BY ZenonT(30), <1>1, <1>2, <2>1 DEF InodesOK, Inodes
    <2>3. At(p, "quarantine")' = At(p, "quarantine")
      BY <1>1, <1>9, <2>2 DEF At, Quarantined
    <2> QED BY ZenonT(30), <1>1, <1>3, <1>6, <1>9, <2>1, <2>3 DEF Quarantined, Settled
  <1>10. ASSUME Linked(p) PROVE Linked(p)'
    BY <1>1, <1>3, <1>10 DEF Linked, Original, Settled
  <1>11. Restored(p) => Restored(p)'
    BY <1>3 DEF Restored
  <1> QED BY ZenonT(30), <1>1, <1>2, <1>3, <1>4, <1>5, <1>7, <1>8, <1>9, <1>10, <1>11 DEF Published

\* A path whose files and whose place in the transaction do not change.
LEMMA SameKeeps ==
    ASSUME NEW q, PathInv(q), Same(q), phase' = phase, todo' = todo, step' = step,
           published' = published, errors' = errors, outcome' = outcome
    PROVE  PathInv(q)'
  <1>1. /\ \A b : Settled(q, b)' <=> Settled(q, b)
        /\ InodesOK(q)' <=> InodesOK(q)
        /\ Unpublished(q)' <=> Unpublished(q)
        /\ Published(q)' <=> Published(q)
        /\ \A b : Has(q, b)' <=> Has(q, b)
    BY SameFiles
  <1>2. Visit(q, step) => Visit(q, step)'
    BY ZenonT(30), SameVisit
  <1>3. Kept(q)' /\ names'[q]["recovery"] = names[q]["recovery"]
    BY <1>1 DEF Kept, Same, PathInv, Preimage
  <1> QED BY <1>1, <1>2, <1>3 DEF PathInv, Recorded, Current, Preimage, Postimage

\* An edit of one path preserves the invariant.
LEMMA EditInv ==
    ASSUME CInv, NEW p \in Paths, Edit(p)
    PROVE  CInv'
  <1>1. /\ Typed' /\ \A q \in Paths \ {p} : Same(q)
        /\ phase' = phase /\ todo' = todo /\ step' = step /\ published' = published
        /\ errors' = errors /\ outcome' = outcome
    BY EditEffect DEF CInv
  <1>2. ControlInv'
    BY <1>1 DEF CInv, ControlInv, Recorded, Current
  <1>3. PathInv(p)'
    <2>1. InodesOK(p)' /\ Kept(p)' /\ \A b : Settled(p, b)'
      BY ZenonT(30), EditKeeps DEF CInv, PathInv, Settled
    <2>2. Unpublished(p) => Unpublished(p)'
      BY ZenonT(30), EditKeeps DEF CInv, PathInv
    <2>3. Published(p) => Published(p)'
      BY ZenonT(30), EditKeeps DEF CInv, PathInv
    <2>4. Visit(p, step) => Visit(p, step)'
      <3>1. InodesOK(p) /\ Typed
        BY ZenonT(30) DEF CInv, PathInv
      <3> QED BY ZenonT(30), <1>1, <2>3, <3>1, EditKeeps DEF Visit
    <2>5. names'[p]["recovery"] = names[p]["recovery"]
      BY ZenonT(30), EditKeeps DEF CInv, PathInv
    <2> QED BY ZenonT(30), <1>1, <2>1, <2>2, <2>3, <2>4, <2>5
            DEF CInv, PathInv, Recorded, Current, Preimage, Postimage
  <1>4. ASSUME NEW q \in Paths \ {p} PROVE PathInv(q)'
    BY <1>1, SameKeeps DEF CInv
  <1> QED BY <1>1, <1>2, <1>3, <1>4 DEF CInv

LEMMA LinkEffect ==
    ASSUME Typed, NEW p \in Paths, NEW n \in Names, NEW i \in Inodes \cup {"none"}, Link(p, n, i)
    PROVE  /\ names' \in [Paths -> [Names -> Inodes \cup {"none"}]]
           /\ \A m \in Names : names'[p][m] = IF m = n THEN i ELSE names[p][m]
           /\ \A q \in Paths \ {p} : names'[q] = names[q]
  <1>1. names' = [names EXCEPT ![p] = [names[p] EXCEPT ![n] = i]]
    BY DEF Link
  <1>2. [names[p] EXCEPT ![n] = i] \in [Names -> Inodes \cup {"none"}]
    BY DEF Typed
  <1> QED BY <1>1, <1>2 DEF Typed

LEMMA MoveEffect ==
    ASSUME Typed, NEW p \in Paths, NEW from \in Names, NEW to \in Names, from # to,
           Move(p, from, to)
    PROVE  /\ names' \in [Paths -> [Names -> Inodes \cup {"none"}]]
           /\ \A m \in Names : names'[p][m] = IF m = to THEN names[p][from]
                                              ELSE IF m = from THEN "none" ELSE names[p][m]
           /\ \A q \in Paths \ {p} : names'[q] = names[q]
  <1>1. names' = [names EXCEPT ![p] = [names[p] EXCEPT ![to] = names[p][from], ![from] = "none"]]
    BY DEF Move
  <1>2. [names[p] EXCEPT ![to] = names[p][from], ![from] = "none"] \in [Names -> Inodes \cup {"none"}]
    BY DEF Typed
  <1> QED BY <1>1, <1>2 DEF Typed

\* A path the transaction is not at keeps its invariant while the others move on.
LEMMA OtherKeeps ==
    ASSUME NEW q, PathInv(q), Same(q), ~Current(q), phase' = phase, outcome' = outcome,
           q \in Recorded' <=> q \in Recorded,
           phase = "rollback" => (q \in Range(todo') <=> q \in Range(todo)),
           errors \subseteq errors', Current(q)' => step' = "start"
    PROVE  PathInv(q)'
  <1>1. /\ \A b : Settled(q, b)' <=> Settled(q, b)
        /\ InodesOK(q)' <=> InodesOK(q)
        /\ Unpublished(q)' <=> Unpublished(q)
        /\ Published(q)' <=> Published(q)
        /\ \A b : Has(q, b)' <=> Has(q, b)
    BY ZenonT(30), SameFiles
  <1>2. Kept(q)'
    BY ZenonT(30), <1>1 DEF Kept, Same, PathInv, Preimage
  <1>3. Published(q) => Visit(q, "start")'
    BY <1>1 DEF Visit
  <1>4. phase' = "rollback" /\ q \in Range(todo') =>
            (IF Current(q)' THEN Visit(q, step)' ELSE Published(q)')
    <2> SUFFICES ASSUME phase = "rollback", q \in Range(todo)
                 PROVE  IF Current(q)' THEN Visit(q, step)' ELSE Published(q)'
      OBVIOUS
    <2>1. Published(q)
      BY DEF PathInv
    <2>2. ASSUME Current(q)' PROVE Visit(q, step)'
      BY <1>3, <2>1, <2>2 DEF Visit
    <2> QED BY <1>1, <2>1, <2>2
  <1>5. errors' = {} => errors = {}
    OBVIOUS
  <1> QED BY <1>1, <1>2, <1>4, <1>5 DEF PathInv, Preimage, Postimage

LEMMA OthersKeep ==
    ASSUME CInv, NEW p \in Paths, Current(p), \A q \in Paths \ {p} : Same(q),
           phase' = phase, outcome' = outcome, errors \subseteq errors',
           Recorded' = Recorded \/ Recorded' = Recorded \cup {p},
           todo' = todo \/ NextPath
    PROVE  \A q \in Paths \ {p} : PathInv(q)'
  <1> SUFFICES ASSUME NEW q \in Paths \ {p} PROVE PathInv(q)'
    OBVIOUS
  <1>1. PathInv(q) /\ Same(q) /\ ~Current(q) /\ (q \in Recorded' <=> q \in Recorded)
    BY DEF CInv, Current
  <1>2. Current(q)' => step' = "start"
    BY DEF Current, NextPath
  <1>3. phase = "rollback" => (q \in Range(todo') <=> q \in Range(todo))
    <2>1. CASE todo' = todo
      BY <2>1
    <2>2. CASE NextPath /\ phase = "rollback"
      <3>1. todo \in Seq(Range(Order)) /\ IsInjective(todo) /\ todo # <<>> /\ Head(todo) = p
        BY <2>2 DEF CInv, ControlInv, Current
      <3>2. Range(Tail(todo)) = Range(todo) \ {Head(todo)}
        BY <3>1, TailSet
      <3> QED BY <2>2, <3>1, <3>2 DEF NextPath
    <2> QED BY <2>1, <2>2
  <1> QED BY <1>1, <1>2, <1>3, OtherKeeps

\* A failure hands every recorded path to the rollback.
LEMMA FailControl ==
    ASSUME ControlInv, phase \in {"prepare", "publish", "validate"}, Fail, outcome' = outcome
    PROVE  ControlInv' /\ phase' = "rollback" /\ outcome' = "none" /\ step' = "start"
           /\ Recorded' = Recorded /\ Range(todo') = Recorded
  <1>1. published \in Seq(Range(Order)) /\ IsInjective(published) /\ published' = published
    BY DEF ControlInv, Fail
  <1>2. outcome = "none" /\ phase' = "rollback" /\ todo' = published /\ step' = "start"
    BY DEF ControlInv, Fail
  <1> QED BY <1>1, <1>2 DEF ControlInv, Recorded

LEMMA FailPath ==
    ASSUME NEW q, InodesOK(q)', Kept(q)', phase' = "rollback", outcome' = "none", step' = "start",
           Recorded' = Recorded, Range(todo') = Recorded,
           q \notin Recorded => Unpublished(q)', q \in Recorded => Published(q)'
    PROVE  PathInv(q)'
  <1>1. Published(q)' => Visit(q, step)'
    BY DEF Visit
  <1> QED BY <1>1 DEF PathInv

LEMMA FailInv ==
    ASSUME CInv, phase \in {"prepare", "publish", "validate"}, Fail, outcome' = outcome, Typed',
           NEW p \in Paths, \A q \in Paths \ {p} : Same(q),
           InodesOK(p)', Kept(p)', p \notin Recorded => Unpublished(p)', p \in Recorded => Published(p)'
    PROVE  CInv'
  <1>1. /\ ControlInv' /\ phase' = "rollback" /\ outcome' = "none" /\ step' = "start"
        /\ Recorded' = Recorded /\ Range(todo') = Recorded
    BY FailControl DEF CInv
  <1>2. PathInv(p)'
    BY <1>1, FailPath
  <1>3. ASSUME NEW q \in Paths \ {p} PROVE PathInv(q)'
    <2>1. /\ InodesOK(q)' <=> InodesOK(q)
          /\ Unpublished(q)' <=> Unpublished(q)
          /\ Published(q)' <=> Published(q)
          /\ \A b : Has(q, b)' <=> Has(q, b)
      BY ZenonT(30), SameFiles
    <2>2. InodesOK(q)' /\ Kept(q)'
      BY ZenonT(30), <2>1 DEF CInv, PathInv, Kept, Same, Preimage
    <2>3. (q \notin Recorded => Unpublished(q)') /\ (q \in Recorded => Published(q)')
      <3>1. phase = "prepare" => Recorded = {}
        BY DEF CInv, ControlInv, Recorded, Range
      <3> QED BY ZenonT(30), <2>1, <3>1 DEF CInv, PathInv
    <2> QED BY <1>1, <2>2, <2>3, FailPath
  <1> QED BY <1>1, <1>2, <1>3 DEF CInv

\* A failure before anything else was changed.
LEMMA FailSame ==
    ASSUME CInv, phase \in {"prepare", "publish", "validate"}, Fail, outcome' = outcome,
           names' = names, inode' = inode, left' = left, overwrote' = overwrote,
           clobbered' = clobbered, NEW p \in Paths
    PROVE  CInv'
  <1>1. \A q \in Paths : Same(q)
    BY DEF Same
  <1>2. /\ InodesOK(p)' <=> InodesOK(p)
        /\ Unpublished(p)' <=> Unpublished(p)
        /\ Published(p)' <=> Published(p)
        /\ \A b : Has(p, b)' <=> Has(p, b)
    BY <1>1, SameFiles
  <1>3. InodesOK(p)' /\ Kept(p)' /\ Typed'
    BY <1>2 DEF CInv, PathInv, Kept, Preimage, Typed
  <1>4. (p \notin Recorded => Unpublished(p)') /\ (p \in Recorded => Published(p)')
    <2>1. phase = "prepare" => Recorded = {}
      BY DEF CInv, ControlInv, Recorded, Range
    <2> QED BY ZenonT(30), <1>2, <2>1 DEF CInv, PathInv
  <1> QED BY <1>1, <1>3, <1>4, FailInv

\* The rollback moves on within the visit of p, or to the next path.
LEMMA RollbackInv ==
    ASSUME CInv, phase = "rollback", NEW p \in Paths, Current(p), Typed',
           \A q \in Paths \ {p} : Same(q), phase' = phase, outcome' = outcome,
           published' = published, errors \subseteq errors', InodesOK(p)', Kept(p)',
           \/ todo' = todo /\ Visit(p, step)'
           \/ NextPath /\ (errors' = {} => Settled(p, Preimage(p))')
    PROVE  CInv'
  <1>1. /\ todo \in Seq(Range(Order)) /\ IsInjective(todo) /\ todo # <<>> /\ Head(todo) = p
        /\ Range(todo) \subseteq Recorded /\ outcome = "none" /\ Recorded' = Recorded
    BY DEF CInv, ControlInv, Current, Recorded
  <1>2. /\ Tail(todo) \in Seq(Range(Order)) /\ IsInjective(Tail(todo))
        /\ Range(Tail(todo)) = Range(todo) \ {p} /\ p \in Range(todo)
    BY <1>1, TailSet
  <1>3. todo' = todo \/ todo' = Tail(todo)
    BY DEF NextPath
  <1>4. ControlInv'
    BY ZenonT(30), <1>1, <1>2, <1>3 DEF CInv, ControlInv
  <1>5. \A q \in Paths \ {p} : PathInv(q)'
    BY <1>1, OthersKeep
  <1>6. PathInv(p)'
    <2>1. CASE todo' = todo /\ Visit(p, step)'
      <3>1. Current(p)'
        BY ZenonT(30), <2>1 DEF Current
      <3> QED BY <1>1, <1>2, <2>1, <3>1 DEF PathInv
    <2>2. CASE NextPath /\ (errors' = {} => Settled(p, Preimage(p))')
      <3>1. p \notin Range(todo')
        BY <1>2, <2>2 DEF NextPath
      <3> QED BY <1>1, <1>2, <2>2, <3>1 DEF PathInv
    <2> QED BY ZenonT(30), <2>1, <2>2
  <1> QED BY ZenonT(30), <1>4, <1>5, <1>6 DEF CInv

\* A visit that gives up, or looks and changes no file.
LEMMA RollbackSame ==
    ASSUME CInv, phase = "rollback", NEW p \in Paths, Current(p),
           names' = names, inode' = inode, left' = left, overwrote' = overwrote,
           clobbered' = clobbered, phase' = phase, outcome' = outcome,
           published' = published, errors \subseteq errors',
           \/ todo' = todo /\ Visit(p, step')
           \/ NextPath /\ (errors' = {} => Settled(p, Preimage(p)))
    PROVE  CInv'
  <1>1. \A q \in Paths : Same(q)
    BY DEF Same
  <1>2. /\ InodesOK(p)' <=> InodesOK(p)
        /\ \A b : Settled(p, b)' <=> Settled(p, b)
        /\ \A b : Has(p, b)' <=> Has(p, b)
    BY ZenonT(30), <1>1, SameFiles
  <1>3. InodesOK(p)' /\ Kept(p)' /\ Typed'
    BY <1>2 DEF CInv, PathInv, Kept, Preimage, Typed
  <1>4. ASSUME Visit(p, step') PROVE Visit(p, step)'
    <2>1. PICK s : s = step'
      OBVIOUS
    <2>2. Visit(p, s)'
      BY <1>1, <1>4, <2>1, SameVisit
    <2> QED BY <2>1, <2>2 DEF Visit
  <1>5. Settled(p, Preimage(p)) => Settled(p, Preimage(p))'
    BY <1>2 DEF Preimage
  <1>6. \/ todo' = todo /\ Visit(p, step)'
        \/ NextPath /\ (errors' = {} => Settled(p, Preimage(p))')
    BY <1>4, <1>5
  <1> QED BY ZenonT(30), <1>1, <1>3, <1>6, RollbackInv

\* A path that was not published keeps everything by itself.
LEMMA UnpublishedKept ==
    ASSUME NEW p, Unpublished(p)
    PROVE  Kept(p)
  BY DEF Unpublished, Kept, Holds, Has, Names

\* The path being published is a planned one; it is not recorded yet unless it
\* is a removal that has just been moved aside.
LEMMA PublishingFacts ==
    ASSUME ControlInv, phase = "publish", NEW p \in Paths, Current(p)
    PROVE  /\ todo \in Seq(Range(Order)) /\ IsInjective(todo) /\ todo # <<>> /\ p = Head(todo)
           /\ p \in Range(todo) /\ p \in Range(Order) /\ Range(todo) \subseteq Range(Order)
           /\ Tail(todo) \in Seq(Range(Order)) /\ IsInjective(Tail(todo))
           /\ Range(Tail(todo)) = Range(todo) \ {p}
           /\ step # "moved" => p \notin Recorded /\ Recorded \cap Range(todo) = {}
           /\ step = "moved" => p \in Recorded \cap Range(Removals)
           /\ Recorded \cap Range(todo) \subseteq {p}
           /\ Recorded \cup Range(todo) = Range(Order) /\ outcome = "none"
  <1>1. /\ todo \in Seq(Range(Order)) /\ IsInjective(todo) /\ todo # <<>> /\ p = Head(todo)
        /\ Recorded \cup Range(todo) = Range(Order) /\ outcome = "none"
        /\ \A q \in Recorded \cap Range(todo) : q = p /\ step = "moved"
        /\ step = "moved" => p \in Recorded \cap Range(Removals)
    BY DEF ControlInv, Current
  <1>2. /\ p \in Range(todo) /\ Tail(todo) \in Seq(Range(Order)) /\ IsInjective(Tail(todo))
        /\ Range(Tail(todo)) = Range(todo) \ {p}
    BY <1>1, TailSet
  <1> QED BY <1>1, <1>2

\* The publication records p and moves on.
LEMMA RecordInv ==
    ASSUME CInv, phase = "publish", NEW p \in Paths, Current(p), step # "moved", Typed',
           \A q \in Paths \ {p} : Same(q), phase' = phase, outcome' = outcome,
           published' = <<p>> \o published, errors \subseteq errors', InodesOK(p)', Kept(p)',
           Published(p)',
           \/ NextPath /\ Settled(p, Postimage(p))'
           \/ todo' = todo /\ step' = "moved" /\ p \in Range(Removals)
    PROVE  CInv'
  <1>1. /\ todo \in Seq(Range(Order)) /\ IsInjective(todo) /\ todo # <<>> /\ p = Head(todo)
        /\ p \in Range(Order) /\ p \in Range(todo)
        /\ Tail(todo) \in Seq(Range(Order)) /\ IsInjective(Tail(todo))
        /\ Range(Tail(todo)) = Range(todo) \ {p}
        /\ p \notin Recorded /\ Recorded \cap Range(todo) = {}
        /\ Recorded \cup Range(todo) = Range(Order) /\ outcome = "none"
    BY PublishingFacts DEF CInv
  <1>2. published \in Seq(Range(Order)) /\ IsInjective(published)
    BY DEF CInv, ControlInv
  <1>3. /\ published' \in Seq(Range(Order)) /\ IsInjective(published')
        /\ Recorded' = Recorded \cup {p}
    BY <1>1, <1>2, PrependSet DEF Recorded
  <1>4. /\ todo' \in Seq(Range(Order)) /\ IsInjective(todo')
        /\ Recorded' \cup Range(todo') = Range(Order)
        /\ \A q \in Recorded' \cap Range(todo') : Current(q)' /\ step' = "moved"
        /\ step' = "moved" => todo' # <<>> /\ Head(todo') \in Recorded' \cap Range(Removals)
    <2>1. CASE NextPath
      BY <1>1, <1>3, <2>1 DEF NextPath
    <2>2. CASE todo' = todo /\ step' = "moved" /\ p \in Range(Removals)
      BY ZenonT(30), <1>1, <1>3, <2>2 DEF Current
    <2> QED BY ZenonT(30), <2>1, <2>2
  <1>5. ControlInv'
    BY ZenonT(30), <1>1, <1>3, <1>4 DEF CInv, ControlInv
  <1>6. \A q \in Paths \ {p} : PathInv(q)'
    BY <1>3, OthersKeep DEF NextPath
  <1>7. PathInv(p)'
    <2>1. Settled(p, Postimage(p))' \/ (Current(p)' /\ step' = "moved")
      BY DEF Current
    <2>2. p \in Range(Removals) => p \notin Range(Registrations)
      BY Plan
    <2>3. ~(p \in Range(Registrations) /\ Current(p)' /\ step' \in {"backed", "checked"})
      BY <2>2 DEF NextPath
    <2> QED BY ZenonT(30), <1>1, <1>3, <2>1, <2>3 DEF PathInv
  <1> QED BY <1>5, <1>6, <1>7 DEF CInv

\* The publication prepares p further without recording it.
LEMMA AdvanceInv ==
    ASSUME CInv, phase = "publish", NEW p \in Paths, Current(p), step # "moved", step' # "moved",
           Typed', \A q \in Paths \ {p} : Same(q), phase' = phase, outcome' = outcome,
           published' = published, errors' = errors, todo' = todo, InodesOK(p)', Unpublished(p)',
           p \in Range(Registrations) => names'[p]["recovery"] = "copy"
    PROVE  CInv'
  <1>1. p \notin Recorded /\ Recorded \cap Range(todo) = {} /\ outcome = "none"
        /\ Recorded' = Recorded
    BY ZenonT(30), PublishingFacts DEF CInv, Recorded
  <1>2. ControlInv'
    BY ZenonT(30), <1>1 DEF CInv, ControlInv
  <1>3. \A q \in Paths \ {p} : PathInv(q)'
    BY ZenonT(30), <1>1, OthersKeep
  <1>4. Kept(p)'
    <2>1. Unpublished(p)' => Kept(p)'
      BY ZenonT(30) DEF Unpublished, Kept, Holds, Has, Names, Preimage
    <2> QED BY ZenonT(30), <2>1
  <1>5. PathInv(p)'
    BY ZenonT(30), <1>1, <1>4 DEF PathInv
  <1> QED BY ZenonT(30), <1>2, <1>3, <1>5 DEF CInv

\* A path that has been read back, before or after the publication.
LEMMA IdleNext ==
    ASSUME CInv, phase \in {"prepare", "validate"}, NextPath,
           names' = names, inode' = inode, left' = left, overwrote' = overwrote,
           clobbered' = clobbered, phase' = phase, outcome' = outcome,
           published' = published, errors' = errors
    PROVE  CInv'
  <1>1. Typed' /\ Recorded' = Recorded /\ step' = "start"
    BY DEF CInv, Typed, Recorded, NextPath
  <1>2. ControlInv'
    BY <1>1 DEF CInv, ControlInv
  <1>3. ASSUME NEW q \in Paths PROVE PathInv(q)'
    <2>1. Same(q)
      BY DEF Same
    <2>2. /\ \A b : Settled(q, b)' <=> Settled(q, b)
          /\ InodesOK(q)' <=> InodesOK(q)
          /\ Unpublished(q)' <=> Unpublished(q)
          /\ Published(q)' <=> Published(q)
          /\ \A b : Has(q, b)' <=> Has(q, b)
      BY <2>1, SameFiles
    <2>3. Kept(q)'
      BY ZenonT(30), <2>2 DEF CInv, PathInv, Kept, Preimage
    <2>4. phase = "validate" => step # "moved"
      BY DEF CInv, ControlInv
    <2> QED BY <1>1, <2>2, <2>3, <2>4 DEF CInv, PathInv, Preimage, Postimage
  <1> QED BY <1>1, <1>2, <1>3 DEF CInv

LEMMA PrepareInv ==
    ASSUME CInv, NEW p \in Paths, Prepare(p)
    PROVE  CInv'
  <1>1. /\ names' = names /\ inode' = inode /\ left' = left /\ overwrote' = overwrote
        /\ clobbered' = clobbered /\ outcome' = outcome /\ phase = "prepare"
    BY DEF Prepare, disk, history
  <1>2. CASE Fail
    BY <1>1, <1>2, FailSame
  <1>3. CASE NextPath /\ phase' = phase /\ published' = published /\ errors' = errors
    BY <1>1, <1>3, IdleNext
  <1> QED BY <1>2, <1>3 DEF Prepare

LEMMA StartPublicationInv ==
    ASSUME CInv, StartPublication
    PROVE  CInv'
  <1>1. /\ names' = names /\ inode' = inode /\ left' = left /\ overwrote' = overwrote
        /\ clobbered' = clobbered /\ outcome' = outcome /\ phase = "prepare" /\ phase' = "publish"
        /\ step' = step /\ published' = published /\ errors' = errors /\ todo' = Order
    BY DEF StartPublication, disk, history
  <1>2. published = <<>> /\ step = "start" /\ outcome = "none"
    BY <1>1 DEF CInv, ControlInv
  <1>3. Recorded = {} /\ Recorded' = {}
    BY ZenonT(30), <1>1, <1>2, NoElements DEF Recorded
  <1>4. ControlInv' /\ Typed'
    BY <1>1, <1>2, <1>3, Plan DEF CInv, ControlInv, Typed
  <1>5. ASSUME NEW q \in Paths PROVE PathInv(q)'
    <2>1. Same(q)
      BY <1>1 DEF Same
    <2>2. /\ InodesOK(q)' <=> InodesOK(q)
          /\ Unpublished(q)' <=> Unpublished(q)
          /\ \A b : Has(q, b)' <=> Has(q, b)
      BY <2>1, SameFiles
    <2>3. Kept(q)'
      BY ZenonT(30), <1>1, <2>2 DEF CInv, PathInv, Kept, Preimage
    <2> QED BY ZenonT(30), <1>1, <1>2, <1>3, <2>2, <2>3 DEF CInv, PathInv
  <1> QED BY <1>4, <1>5 DEF CInv

\* What holds of the files of a path about to be published.
LEMMA PublishedNext ==
    ASSUME CInv, phase = "publish", NEW p \in Paths, Current(p), step # "moved"
    PROVE  Typed /\ InodesOK(p) /\ Unpublished(p) /\ Kept(p)
  <1>1. p \notin Recorded
    BY PublishingFacts DEF CInv
  <1> QED BY <1>1 DEF CInv, PathInv

LEMMA InstallCreateInv ==
    ASSUME CInv, NEW p \in Paths, InstallCreate(p)
    PROVE  CInv'
  <1>1. /\ inode' = inode /\ outcome' = outcome /\ overwrote' = overwrote /\ phase = "publish"
        /\ Current(p) /\ p \in Range(Creates)
    BY ZenonT(30) DEF InstallCreate
  <1>2. p \notin Range(Registrations) /\ p \notin Range(Removals)
        /\ Preimage(p) = "none" /\ Postimage(p) = "new"
    BY ZenonT(30), <1>1, Plan, Images
  <1>3. step # "moved"
    BY <1>1, <1>2, PublishingFacts DEF CInv
  <1>4. Typed /\ InodesOK(p) /\ Unpublished(p)
    BY <1>1, <1>3, PublishedNext
  <1>5. CASE Fail /\ names' = names /\ left' = left /\ clobbered' = clobbered
    BY <1>1, <1>5, FailSame
  <1>6. CASE /\ At(p, "target") = "none"
             /\ \/ Link(p, "target", "stage") /\ errors' = errors
                \/ /\ names' = [names EXCEPT ![p] = [@ EXCEPT !["target"] = "stage",
                                                              !["stage"] = "stage"]]
                   /\ errors' = errors \cup {"leftover"}
             /\ Supersede(p) /\ published' = <<p>> \o published
             /\ NextPath /\ phase' = phase
    <2>1. /\ names' \in [Paths -> [Names -> Inodes \cup {"none"}]]
          /\ names'[p]["target"] = "stage" /\ names'[p]["recovery"] = names[p]["recovery"]
          /\ names'[p]["quarantine"] = names[p]["quarantine"]
          /\ \A q \in Paths \ {p} : names'[q] = names[q]
      <3>1. CASE Link(p, "target", "stage")
        BY ZenonT(30), <1>4, <3>1, LinkEffect DEF Names, Inodes
      <3>2. CASE names' = [names EXCEPT ![p] = [names[p] EXCEPT !["target"] = "stage",
                                                                !["stage"] = "stage"]]
        <4>1. [names[p] EXCEPT !["target"] = "stage", !["stage"] = "stage"]
                  \in [Names -> Inodes \cup {"none"}]
          BY <1>4 DEF Typed, Names, Inodes
        <4> QED BY <1>4, <3>2, <4>1 DEF Typed, Names
      <3> QED BY ZenonT(30), <1>6, <3>1, <3>2
    <2>2. left' = [left EXCEPT ![p] = "untouched"] /\ clobbered' = clobbered
      BY ZenonT(30), <1>2, <1>6 DEF Supersede
    <2>3. Typed' /\ left'[p] = "untouched" /\ \A q \in Paths \ {p} : Same(q)
      BY ZenonT(30), <1>1, <1>4, <2>1, <2>2 DEF Typed, Same
    <2>4. InodesOK(p)'
      BY ZenonT(30), <1>1, <1>4 DEF InodesOK
    <2>5. At(p, "target")' = "new"
      BY ZenonT(30), <1>1, <1>4, <2>1 DEF At, Unpublished
    <2>6. Settled(p, "new")'
      BY ZenonT(30), <2>3, <2>5 DEF Settled, Holds
    <2>7. Published(p)'
      BY <1>2, <1>4, <2>1, <2>6 DEF Published, Installed, BackedUp, Unpublished
    <2>8. Kept(p)' /\ Settled(p, Postimage(p))'
      BY <1>2, <2>3, <2>6 DEF Kept, Preimage, Postimage
    <2>9. errors \subseteq errors'
      BY ZenonT(30), <1>6
    <2> QED BY ZenonT(30), <1>1, <1>3, <1>6, <2>3, <2>4, <2>7, <2>8, <2>9, RecordInv
  <1> QED BY <1>5, <1>6 DEF InstallCreate

LEMMA BackUpInv ==
    ASSUME CInv, NEW p \in Paths, BackUp(p)
    PROVE  CInv'
  <1>1. /\ inode' = inode /\ outcome' = outcome /\ overwrote' = overwrote /\ left' = left
        /\ clobbered' = clobbered /\ errors' = errors
        /\ phase = "publish" /\ Current(p) /\ step # "moved" /\ p \in Range(Registrations)
    BY DEF BackUp, history
  <1>2. CASE Fail /\ names' = names
    BY ZenonT(30), <1>1, <1>2, FailSame
  <1>3. CASE /\ Link(p, "recovery", "copy") /\ step' = "backed"
             /\ UNCHANGED <<phase, todo, published>>
    <2>1. Typed /\ InodesOK(p) /\ Unpublished(p)
      BY ZenonT(30), <1>1, PublishedNext
    <2>2. /\ names' \in [Paths -> [Names -> Inodes \cup {"none"}]]
          /\ names'[p]["target"] = names[p]["target"] /\ names'[p]["recovery"] = "copy"
          /\ names'[p]["quarantine"] = names[p]["quarantine"] /\ names'[p]["stage"] = names[p]["stage"]
          /\ \A q \in Paths \ {p} : names'[q] = names[q]
      BY ZenonT(30), <1>3, <2>1, LinkEffect DEF Names, Inodes
    <2>3. Typed' /\ InodesOK(p)' /\ \A q \in Paths \ {p} : Same(q)
      BY ZenonT(30), <1>1, <2>1, <2>2 DEF Typed, InodesOK, Same
    <2>4. Unpublished(p)'
      BY ZenonT(30), <1>1, <2>1, <2>2 DEF Unpublished, Holds, At, Preimage
    <2> QED BY ZenonT(30), <1>1, <1>3, <2>2, <2>3, <2>4, AdvanceInv
  <1> QED BY ZenonT(30), <1>2, <1>3 DEF BackUp

\* A refused replacement may drop its backup, which nothing depends on yet.
LEMMA RefuseInv ==
    ASSUME CInv, phase = "publish", NEW p \in Paths, Current(p), step # "moved", Fail,
           Unlink(p, "recovery"), inode' = inode, outcome' = outcome, left' = left,
           overwrote' = overwrote, clobbered' = clobbered
    PROVE  CInv'
  <1>1. Typed /\ InodesOK(p) /\ Unpublished(p) /\ p \notin Recorded
    BY ZenonT(30), PublishedNext, PublishingFacts DEF CInv
  <1>2. /\ names' \in [Paths -> [Names -> Inodes \cup {"none"}]]
        /\ names'[p]["target"] = names[p]["target"] /\ names'[p]["recovery"] = "none"
        /\ names'[p]["quarantine"] = names[p]["quarantine"] /\ names'[p]["stage"] = names[p]["stage"]
        /\ \A q \in Paths \ {p} : names'[q] = names[q]
    BY ZenonT(30), <1>1, LinkEffect DEF Names, Inodes, Unlink
  <1>3. Typed' /\ InodesOK(p)' /\ \A q \in Paths \ {p} : Same(q)
    BY <1>1, <1>2 DEF Typed, InodesOK, Same
  <1>4. Unpublished(p)'
    BY ZenonT(30), <1>1, <1>2 DEF Unpublished, Holds, At, Preimage
  <1>5. Kept(p)'
    BY <1>4 DEF Unpublished, Kept, Holds, Has, Names, Preimage
  <1> QED BY ZenonT(30), <1>1, <1>3, <1>4, <1>5, FailInv

LEMMA RecheckReplaceInv ==
    ASSUME CInv, NEW p \in Paths, RecheckReplace(p)
    PROVE  CInv'
  <1>1. /\ inode' = inode /\ outcome' = outcome /\ overwrote' = overwrote /\ left' = left
        /\ clobbered' = clobbered /\ phase = "publish" /\ Current(p) /\ step = "backed"
    BY DEF RecheckReplace, history
  <1>2. CASE Fail /\ names' = names
    BY <1>1, <1>2, FailSame
  <1>3. CASE Fail /\ Unlink(p, "recovery")
    BY ZenonT(30), <1>1, <1>3, RefuseInv
  <1>4. CASE step' = "checked" /\ UNCHANGED <<phase, todo, published, errors, names>>
    <2>1. Typed /\ InodesOK(p) /\ Unpublished(p)
      BY ZenonT(30), <1>1, PublishedNext
    <2>2. \A q \in Paths : Same(q)
      BY ZenonT(30), <1>1, <1>4 DEF Same
    <2>3. Typed' /\ InodesOK(p)' /\ Unpublished(p)'
      BY <1>1, <1>4, <2>1, <2>2, SameFiles DEF Typed
    <2>4. p \in Range(Registrations) => names'[p]["recovery"] = "copy"
      BY ZenonT(30), <1>1, <1>4 DEF CInv, PathInv
    <2> QED BY ZenonT(30), <1>1, <1>4, <2>2, <2>3, <2>4, AdvanceInv
  <1> QED BY ZenonT(30), <1>2, <1>3, <1>4 DEF RecheckReplace, RefuseReplace

LEMMA ReplaceTargetInv ==
    ASSUME CInv, NEW p \in Paths, ReplaceTarget(p)
    PROVE  CInv'
  <1>1. /\ inode' = inode /\ outcome' = outcome /\ overwrote' = overwrote
        /\ phase = "publish" /\ Current(p) /\ step = "checked" /\ p \in Range(Registrations)
    BY DEF ReplaceTarget
  <1>2. CASE Fail /\ Unlink(p, "recovery") /\ left' = left /\ clobbered' = clobbered
    BY ZenonT(30), <1>1, <1>2, RefuseInv
  <1>3. CASE /\ Link(p, "target", "stage") /\ Supersede(p)
             /\ published' = <<p>> \o published
             /\ NextPath /\ UNCHANGED <<phase, errors>>
    <2>1. Typed /\ InodesOK(p) /\ Unpublished(p)
      BY ZenonT(30), <1>1, PublishedNext
    <2>2. names[p]["recovery"] = "copy"
      BY <1>1 DEF CInv, PathInv
    <2>3. /\ names' \in [Paths -> [Names -> Inodes \cup {"none"}]]
          /\ names'[p]["target"] = "stage" /\ names'[p]["recovery"] = "copy"
          /\ names'[p]["quarantine"] = names[p]["quarantine"]
          /\ \A q \in Paths \ {p} : names'[q] = names[q]
      BY ZenonT(30), <1>3, <2>1, <2>2, LinkEffect DEF Names, Inodes
    <2>4. /\ left' \in [Paths -> {"untouched", "edit", "none"}]
          /\ left'[p] = "untouched" \/ p \in clobbered'
          /\ \A q \in Paths \ {p} : left'[q] = left[q] /\ (q \in clobbered' <=> q \in clobbered)
      BY ZenonT(30), <1>3, <2>1 DEF Supersede, Typed
    <2>5. Typed' /\ InodesOK(p)' /\ \A q \in Paths \ {p} : Same(q)
      BY ZenonT(30), <1>1, <2>1, <2>3, <2>4 DEF Typed, InodesOK, Same
    <2>6. At(p, "target")' = "new" /\ At(p, "recovery")' = "old"
      BY ZenonT(30), <1>1, <2>1, <2>3 DEF At, Unpublished
    <2>7. Settled(p, "new")'
      BY ZenonT(30), <2>4, <2>6 DEF Settled, Holds
    <2>8. p \notin Range(Removals) /\ Postimage(p) = "new"
      BY <1>1, Plan, Images
    <2>9. Published(p)'
      BY ZenonT(30), <1>1, <2>1, <2>3, <2>7, <2>8 DEF Published, Installed, BackedUp, Unpublished
    <2>10. Kept(p)' /\ Settled(p, Postimage(p))'
      BY ZenonT(30), <2>4, <2>6, <2>7, <2>8 DEF Kept, Postimage, Has, Names
    <2> QED BY <1>1, <1>3, <2>5, <2>9, <2>10, RecordInv
  <1> QED BY <1>2, <1>3 DEF ReplaceTarget

LEMMA RecheckRemovalInv ==
    ASSUME CInv, NEW p \in Paths, RecheckRemoval(p)
    PROVE  CInv'
  <1>1. /\ names' = names /\ inode' = inode /\ outcome' = outcome /\ overwrote' = overwrote
        /\ left' = left /\ clobbered' = clobbered
        /\ phase = "publish" /\ Current(p) /\ step = "start" /\ p \in Range(Removals)
    BY DEF RecheckRemoval, disk, history
  <1>2. CASE Fail
    BY <1>1, <1>2, FailSame
  <1>3. CASE step' = "checked" /\ UNCHANGED <<phase, todo, published, errors>>
    <2>1. Typed /\ InodesOK(p) /\ Unpublished(p)
      BY <1>1, PublishedNext
    <2>2. \A q \in Paths : Same(q)
      BY ZenonT(30), <1>1 DEF Same
    <2>3. Typed' /\ InodesOK(p)' /\ Unpublished(p)'
      BY <1>1, <2>1, <2>2, SameFiles DEF Typed
    <2>4. p \notin Range(Registrations)
      BY ZenonT(30), <1>1, Plan
    <2> QED BY ZenonT(30), <1>1, <1>3, <2>2, <2>3, <2>4, AdvanceInv
  <1> QED BY <1>2, <1>3 DEF RecheckRemoval

LEMMA MoveAsideInv ==
    ASSUME CInv, NEW p \in Paths, MoveAside(p)
    PROVE  CInv'
  <1>1. /\ inode' = inode /\ outcome' = outcome /\ overwrote' = overwrote
        /\ clobbered' = clobbered
        /\ phase = "publish" /\ Current(p) /\ step = "checked" /\ p \in Range(Removals)
    BY DEF MoveAside
  <1>2. CASE Fail /\ names' = names /\ left' = left
    BY <1>1, <1>2, FailSame
  <1>3. CASE /\ names[p]["target"] # "none"
             /\ Move(p, "target", "recovery")
             /\ left' = [left EXCEPT ![p] = IF At(p, "target") = "old" THEN "untouched" ELSE @]
             /\ published' = <<p>> \o published
             /\ step' = "moved" /\ UNCHANGED <<phase, todo, errors>>
    <2>1. Typed /\ InodesOK(p) /\ Unpublished(p) /\ Kept(p)
      BY ZenonT(30), <1>1, PublishedNext
    <2>2. p \notin Range(Registrations) /\ Preimage(p) = "old"
      BY ZenonT(30), <1>1, Plan, Images
    <2>3. /\ names' \in [Paths -> [Names -> Inodes \cup {"none"}]]
          /\ names'[p]["target"] = "none" /\ names'[p]["recovery"] = names[p]["target"]
          /\ names'[p]["quarantine"] = names[p]["quarantine"] /\ names'[p]["stage"] = names[p]["stage"]
          /\ \A q \in Paths \ {p} : names'[q] = names[q]
      BY ZenonT(30), <1>3, <2>1, MoveEffect DEF Names, Inodes
    <2>4. /\ left' \in [Paths -> {"untouched", "edit", "none"}]
          /\ left'[p] = IF At(p, "target") = "old" THEN "untouched" ELSE left[p]
          /\ \A q \in Paths \ {p} : left'[q] = left[q]
      BY ZenonT(30), <1>3, <2>1 DEF Typed
    <2>5. Typed' /\ InodesOK(p)' /\ \A q \in Paths \ {p} : Same(q)
      BY ZenonT(30), <1>1, <2>1, <2>3, <2>4 DEF Typed, InodesOK, Same
    <2>6. At(p, "recovery")' = At(p, "target") /\ At(p, "target")' = "none"
      BY ZenonT(30), <1>1, <2>3 DEF At
    <2>7. names[p]["recovery"] = "none" /\ names[p]["target"] \in {"orig", "edit"}
      BY ZenonT(30), <1>3, <2>1, <2>2 DEF Unpublished
    <2>8. At(p, "target") = "old" \/ p \in overwrote
      BY <2>1, <2>2 DEF Unpublished, Holds
    <2>9. Removed(p)'
      BY ZenonT(30), <1>1, <2>3, <2>4, <2>6, <2>7, <2>8 DEF Removed, Holds
    <2>10. Published(p)'
      BY ZenonT(30), <1>1, <2>9 DEF Published
    <2>11. ASSUME NEW b, b # "none", Has(p, b) PROVE Has(p, b)'
      <3>1. ASSUME NEW n \in Names, At(p, n) = b
            PROVE  \E m \in Names : names'[p][m] = names[p][n]
        BY ZenonT(30), <2>3, <2>7, <2>11, <3>1 DEF At, Names
      <3> QED BY ZenonT(30), <1>1, <2>11, <3>1, StillNamed
    <2>12. Kept(p)'
      BY ZenonT(30), <1>1, <2>1, <2>4, <2>11 DEF Kept, Preimage
    <2> QED BY ZenonT(30), <1>1, <1>3, <2>5, <2>10, <2>12, RecordInv
  <1> QED BY ZenonT(30), <1>2, <1>3 DEF MoveAside

LEMMA CompareMovedInv ==
    ASSUME CInv, NEW p \in Paths, CompareMoved(p)
    PROVE  CInv'
  <1>1. /\ names' = names /\ inode' = inode /\ outcome' = outcome /\ overwrote' = overwrote
        /\ left' = left /\ clobbered' = clobbered /\ errors' = errors
        /\ phase = "publish" /\ Current(p) /\ step = "moved"
    BY DEF CompareMoved, disk, history
  <1>2. CASE Fail
    BY <1>1, <1>2, FailSame
  <1>3. CASE At(p, "recovery") = "old" /\ NextPath /\ UNCHANGED <<phase, published>>
    <2>1. /\ p \in Recorded \cap Range(Removals) /\ outcome = "none"
          /\ Tail(todo) \in Seq(Range(Order)) /\ IsInjective(Tail(todo))
          /\ Range(Tail(todo)) = Range(todo) \ {p} /\ p \in Range(todo)
          /\ Recorded \cap Range(todo) \subseteq {p}
          /\ Recorded \cup Range(todo) = Range(Order)
      BY <1>1, PublishingFacts DEF CInv
    <2>2. Recorded' = Recorded /\ todo' = Tail(todo) /\ step' = "start" /\ Typed'
          /\ \A q \in Paths : Same(q)
      BY ZenonT(30), <1>1, <1>3 DEF Recorded, NextPath, CInv, Typed, Same
    <2>3. ControlInv'
      BY ZenonT(30), <1>1, <1>3, <2>1, <2>2 DEF CInv, ControlInv
    <2>4. \A q \in Paths \ {p} : PathInv(q)'
      BY ZenonT(30), <1>1, <1>3, <2>2, OthersKeep
    <2>5. /\ \A b : Settled(p, b)' <=> Settled(p, b)
          /\ InodesOK(p)' <=> InodesOK(p)
          /\ Published(p)' <=> Published(p)
          /\ \A b : Has(p, b)' <=> Has(p, b)
      BY <2>2, SameFiles
    <2>6. Published(p) /\ InodesOK(p) /\ Kept(p)
      BY ZenonT(30), <1>1, <2>1 DEF CInv, PathInv
    <2>7. Settled(p, "none") /\ Postimage(p) = "none"
      BY ZenonT(30), <1>3, <2>1, <2>6, Images DEF Published, Removed, Settled
    <2>8. Kept(p)' /\ Settled(p, Postimage(p))'
      BY ZenonT(30), <1>1, <2>5, <2>6, <2>7 DEF Kept, Preimage, Postimage
    <2>9. PathInv(p)'
      BY ZenonT(30), <1>1, <1>3, <2>1, <2>2, <2>5, <2>6, <2>8 DEF PathInv
    <2> QED BY ZenonT(30), <2>2, <2>3, <2>4, <2>9 DEF CInv
  <1> QED BY ZenonT(30), <1>2, <1>3 DEF CompareMoved

LEMMA ValidateInv ==
    ASSUME CInv, NEW p \in Paths, Validate(p)
    PROVE  CInv'
  <1>1. /\ names' = names /\ inode' = inode /\ left' = left /\ overwrote' = overwrote
        /\ clobbered' = clobbered /\ outcome' = outcome /\ phase = "validate" /\ errors' = errors
    BY DEF Validate, disk, history
  <1>2. CASE Fail
    BY <1>1, <1>2, FailSame
  <1>3. CASE NextPath /\ phase' = phase /\ published' = published
    BY ZenonT(30), <1>1, <1>3, IdleNext
  <1> QED BY <1>2, <1>3 DEF Validate

\* The last path of a phase has been visited: no file changes.
LEMMA StartValidationInv ==
    ASSUME CInv, StartValidation
    PROVE  CInv'
  <1>1. /\ names' = names /\ inode' = inode /\ left' = left /\ overwrote' = overwrote
        /\ clobbered' = clobbered /\ outcome' = outcome /\ phase = "publish" /\ phase' = "validate"
        /\ step' = step /\ published' = published /\ errors' = errors /\ todo = <<>>
    BY DEF StartValidation, disk, history
  <1>2. Recorded = Range(Order) /\ step # "moved" /\ outcome = "none"
    <2>1. Range(todo) = {}
      BY <1>1 DEF Range
    <2> QED BY ZenonT(30), <1>1, <2>1 DEF CInv, ControlInv
  <1>3. Recorded' = Recorded
    BY ZenonT(30), <1>1 DEF Recorded
  <1>4. ControlInv' /\ Typed'
    BY <1>1, <1>2, <1>3 DEF CInv, ControlInv, Typed
  <1>5. ASSUME NEW q \in Paths PROVE PathInv(q)'
    <2>1. Same(q)
      BY ZenonT(30), <1>1 DEF Same
    <2>2. /\ \A b : Settled(q, b)' <=> Settled(q, b)
          /\ InodesOK(q)' <=> InodesOK(q)
          /\ Unpublished(q)' <=> Unpublished(q)
          /\ Published(q)' <=> Published(q)
          /\ \A b : Has(q, b)' <=> Has(q, b)
      BY <2>1, SameFiles
    <2>3. Kept(q)'
      BY ZenonT(30), <1>1, <2>2 DEF CInv, PathInv, Kept, Preimage
    <2> QED BY ZenonT(30), <1>1, <1>2, <1>3, <2>2, <2>3 DEF CInv, PathInv, Postimage
  <1> QED BY <1>4, <1>5 DEF CInv

LEMMA SucceedInv ==
    ASSUME CInv, Succeed
    PROVE  CInv'
  <1>1. /\ names' = names /\ inode' = inode /\ left' = left /\ overwrote' = overwrote
        /\ clobbered' = clobbered /\ outcome' = "ok" /\ phase = "validate" /\ phase' = "finalize"
        /\ step' = step /\ published' = published
    BY DEF Succeed, disk, history
  <1>2. Recorded = Range(Order) /\ step # "moved"
    BY ZenonT(30), <1>1 DEF CInv, ControlInv
  <1>3. ControlInv' /\ Typed'
    BY ZenonT(30), <1>1 DEF CInv, ControlInv, Typed
  <1>4. ASSUME NEW q \in Paths PROVE PathInv(q)'
    <2>1. Same(q)
      BY ZenonT(30), <1>1 DEF Same
    <2>2. /\ \A b : Settled(q, b)' <=> Settled(q, b)
          /\ InodesOK(q)' <=> InodesOK(q)
          /\ \A b : Has(q, b)' <=> Has(q, b)
      BY <2>1, SameFiles
    <2>3. Kept(q)'
      BY ZenonT(30), <1>1, <2>2 DEF CInv, PathInv, Kept
    <2>4. Settled(q, Postimage(q))
      <3>1. CASE q \in Range(Order)
        BY ZenonT(30), <1>1, <1>2, <3>1 DEF CInv, PathInv
      <3>2. CASE q \notin Range(Order)
        <4>1. Preimage(q) = "old" /\ Postimage(q) = "old"
          BY <3>2, Images
        <4>2. Unpublished(q)
          BY ZenonT(30), <1>1, <1>2, <3>2 DEF CInv, PathInv
        <4> QED BY ZenonT(30), <4>1, <4>2 DEF Unpublished, Settled
      <3> QED BY ZenonT(30), <3>1, <3>2
    <2>5. Settled(q, Postimage(q))'
      BY <2>2, <2>4 DEF Postimage
    <2> QED BY ZenonT(30), <1>1, <2>2, <2>3, <2>5 DEF CInv, PathInv
  <1> QED BY <1>3, <1>4 DEF CInv

LEMMA FinalizeInv ==
    ASSUME CInv, NEW p \in Paths, Finalize(p)
    PROVE  CInv'
  <1>1. /\ inode' = inode /\ left' = left /\ overwrote' = overwrote /\ errors' = errors
        /\ clobbered' = clobbered /\ outcome' = outcome /\ phase = "finalize" /\ phase' = phase
        /\ published' = published /\ Current(p) /\ NextPath
        /\ Unlink(p, "recovery") \/ names' = names
    BY DEF Finalize, history
  <1>2. Typed /\ outcome = "ok" /\ InodesOK(p) /\ Kept(p) /\ Settled(p, Postimage(p))
    BY ZenonT(30), <1>1 DEF CInv, ControlInv, PathInv
  <1>3. /\ names' \in [Paths -> [Names -> Inodes \cup {"none"}]]
        /\ names'[p]["target"] = names[p]["target"]
        /\ \A q \in Paths \ {p} : names'[q] = names[q]
    <2>1. CASE Unlink(p, "recovery")
      BY ZenonT(30), <1>2, <2>1, LinkEffect DEF Names, Unlink
    <2>2. CASE names' = names
      BY ZenonT(30), <1>2, <2>2 DEF Typed
    <2> QED BY ZenonT(30), <1>1, <2>1, <2>2
  <1>4. Typed' /\ InodesOK(p)' /\ \A q \in Paths \ {p} : Same(q)
    BY ZenonT(30), <1>1, <1>2, <1>3 DEF Typed, InodesOK, Same
  <1>5. ControlInv' /\ Recorded' = Recorded
    BY <1>1 DEF CInv, ControlInv, Recorded
  <1>6. At(p, "target")' = At(p, "target")
    BY ZenonT(30), <1>1, <1>3 DEF At
  <1>7. Settled(p, Postimage(p))'
    BY ZenonT(30), <1>1, <1>2, <1>6 DEF Settled, Holds, Postimage
  <1>8. Kept(p)'
    BY ZenonT(30), <1>1, <1>2, <1>7 DEF Kept, Settled, Holds, Has, Names
  <1>9. PathInv(p)'
    BY ZenonT(30), <1>1, <1>2, <1>4, <1>7, <1>8 DEF PathInv
  <1>10. \A q \in Paths \ {p} : PathInv(q)'
    BY ZenonT(30), <1>1, <1>4, <1>5, OthersKeep
  <1> QED BY ZenonT(30), <1>4, <1>5, <1>9, <1>10 DEF CInv

LEMMA ReturnInv ==
    ASSUME CInv, Return
    PROVE  CInv'
  <1>1. /\ names' = names /\ inode' = inode /\ left' = left /\ overwrote' = overwrote
        /\ clobbered' = clobbered /\ outcome' = outcome /\ phase = "finalize" /\ phase' = "done"
        /\ published' = published
    BY ZenonT(30) DEF Return, disk, history
  <1>2. ControlInv' /\ Typed' /\ outcome = "ok"
    BY <1>1 DEF CInv, ControlInv, Typed
  <1>3. ASSUME NEW q \in Paths PROVE PathInv(q)'
    <2>1. Same(q)
      BY <1>1 DEF Same
    <2>2. /\ \A b : Settled(q, b)' <=> Settled(q, b)
          /\ InodesOK(q)' <=> InodesOK(q)
          /\ \A b : Has(q, b)' <=> Has(q, b)
      BY <2>1, SameFiles
    <2>3. Kept(q)'
      BY ZenonT(30), <1>1, <2>2 DEF CInv, PathInv, Kept, Preimage
    <2> QED BY ZenonT(30), <1>1, <1>2, <2>2, <2>3 DEF CInv, PathInv, Postimage
  <1> QED BY <1>2, <1>3 DEF CInv

\* The rollback has visited every recorded path.
LEMMA FinishRollbackInv ==
    ASSUME CInv, FinishRollback
    PROVE  CInv'
  <1>1. /\ names' = names /\ inode' = inode /\ left' = left /\ overwrote' = overwrote
        /\ clobbered' = clobbered /\ phase = "rollback" /\ phase' = "done" /\ todo = <<>>
        /\ published' = published /\ errors \subseteq errors'
        /\ outcome' = IF errors' = {} THEN "failed" ELSE "rollback_failed"
    BY DEF FinishRollback, disk, history, Clean
  <1>2. ControlInv' /\ Typed' /\ outcome = "none" /\ Range(todo) = {}
    BY ZenonT(30), <1>1, NoElements DEF CInv, ControlInv, Typed
  <1>3. ASSUME NEW q \in Paths PROVE PathInv(q)'
    <2>1. Same(q)
      BY ZenonT(30), <1>1 DEF Same
    <2>2. /\ \A b : Settled(q, b)' <=> Settled(q, b)
          /\ InodesOK(q)' <=> InodesOK(q)
          /\ \A b : Has(q, b)' <=> Has(q, b)
      BY <2>1, SameFiles
    <2>3. Kept(q)'
      BY ZenonT(30), <1>1, <1>2, <2>2 DEF CInv, PathInv, Kept, Preimage
    <2>4. errors' = {} => Settled(q, Preimage(q))
      <3>1. CASE q \in Recorded
        BY ZenonT(30), <1>1, <1>2, <3>1 DEF CInv, PathInv
      <3>2. CASE q \notin Recorded
        BY ZenonT(30), <1>1, <3>2 DEF CInv, PathInv, Unpublished, Settled
      <3> QED BY <3>1, <3>2
    <2>5. outcome' = "failed" => Settled(q, Preimage(q))'
      BY <1>1, <2>2, <2>4 DEF Preimage
    <2> QED BY ZenonT(30), <1>1, <2>2, <2>3, <2>5 DEF CInv, PathInv
  <1> QED BY ZenonT(30), <1>2, <1>3 DEF CInv

\* What the invariant says of the path a rollback is visiting.
LEMMA VisitFacts ==
    ASSUME CInv, NEW p \in Paths, NEW s, Visiting(p, s)
    PROVE  /\ phase = "rollback" /\ Current(p) /\ step = s /\ outcome = "none"
           /\ Typed /\ InodesOK(p) /\ Kept(p) /\ Visit(p, s) /\ p \in Range(Order)
  <1>1. /\ phase = "rollback" /\ Current(p) /\ step = s
        /\ todo \in Seq(Range(Order)) /\ IsInjective(todo) /\ todo # <<>> /\ Head(todo) = p
        /\ outcome = "none" /\ Range(todo) \subseteq Recorded /\ published \in Seq(Range(Order))
    BY DEF Visiting, CInv, ControlInv, Current
  <1>2. p \in Range(todo)
    BY ZenonT(30), <1>1, TailSet
  <1>3. p \in Range(Order)
    BY ZenonT(30), <1>1, <1>2, Elements
  <1> QED BY ZenonT(30), <1>1, <1>2, <1>3 DEF CInv, PathInv

LEMMA LookRemovedInv ==
    ASSUME CInv, NEW p \in Paths, LookRemoved(p)
    PROVE  CInv'
  <1>1. /\ inode' = inode /\ left' = left /\ overwrote' = overwrote /\ clobbered' = clobbered
        /\ phase' = phase /\ outcome' = outcome /\ published' = published /\ names' = names
    BY ZenonT(30) DEF LookRemoved, history, GiveUp, StepIO
  <1>2. Visiting(p, "start")
    BY ZenonT(30) DEF LookRemoved
  <1>3. phase = "rollback" /\ Current(p) /\ Visit(p, "start")
    BY ZenonT(30), <1>2, VisitFacts
  <1>4. Visit(p, "inspected")
    BY <1>3 DEF Visit
  <1>5. \/ todo' = todo /\ step' = "inspected" /\ errors' = errors
        \/ NextPath /\ errors \subseteq errors' /\ errors' # {}
    BY ZenonT(30) DEF LookRemoved, GiveUp, StepIO, Report
  <1> QED BY ZenonT(30), <1>1, <1>3, <1>4, <1>5, RollbackSame

LEMMA RestoreRemovedInv ==
    ASSUME CInv, NEW p \in Paths, RestoreRemoved(p)
    PROVE  CInv'
  <1>1. /\ inode' = inode /\ overwrote' = overwrote /\ clobbered' = clobbered
        /\ phase' = phase /\ outcome' = outcome /\ published' = published
        /\ p \in Range(Removals) /\ Visiting(p, "inspected")
    BY ZenonT(30) DEF RestoreRemoved
  <1>2. /\ phase = "rollback" /\ Current(p) /\ outcome = "none"
        /\ Typed /\ InodesOK(p) /\ Kept(p) /\ Visit(p, "inspected")
    BY <1>1, VisitFacts
  <1>3. Removed(p)
    BY ZenonT(30), <1>1, <1>2 DEF Visit, Published
  <1>4. CASE /\ NextPath /\ errors \subseteq errors' /\ errors' # {}
             /\ names' = names /\ left' = left
    BY <1>1, <1>2, <1>4, RollbackSame
  <1>5. CASE /\ names[p]["target"] = "none"
             /\ Move(p, "recovery", "target") /\ step' = "restored"
             /\ Reoccupy(p) /\ UNCHANGED <<todo, errors>>
    <2>1. /\ names' \in [Paths -> [Names -> Inodes \cup {"none"}]]
          /\ names'[p]["recovery"] = "none" /\ names'[p]["target"] = names[p]["recovery"]
          /\ names'[p]["quarantine"] = names[p]["quarantine"] /\ names'[p]["stage"] = names[p]["stage"]
          /\ \A q \in Paths \ {p} : names'[q] = names[q]
      BY ZenonT(30), <1>2, <1>5, MoveEffect DEF Names
    <2>2. /\ left' \in [Paths -> {"untouched", "edit", "none"}]
          /\ left'[p] = IF left[p] = "none" THEN "untouched" ELSE left[p]
          /\ \A q \in Paths \ {p} : left'[q] = left[q]
      BY ZenonT(30), <1>2, <1>5 DEF Typed, Reoccupy
    <2>3. Typed' /\ InodesOK(p)' /\ \A q \in Paths \ {p} : Same(q)
      BY ZenonT(30), <1>1, <1>2, <2>1, <2>2 DEF Typed, InodesOK, Same
    <2>4. At(p, "target")' = At(p, "recovery") /\ At(p, "target") = "none"
      BY ZenonT(30), <1>1, <1>5, <2>1 DEF At
    <2>5. Holds(p, "none") => left[p] # "edit"
      BY <2>4 DEF Holds
    <2>6. left[p] # "edit" => left'[p] = "untouched"
      BY ZenonT(30), <1>2, <2>2 DEF Typed
    <2>7. Restored(p)'
      BY ZenonT(30), <1>1, <1>3, <2>4, <2>5, <2>6 DEF Restored, Removed, Holds
    <2>8. Visit(p, step)'
      BY ZenonT(30), <1>5, <2>7 DEF Visit
    <2>9. ASSUME NEW b, b # "none", Has(p, b) PROVE Has(p, b)'
      <3>1. ASSUME NEW n \in Names, At(p, n) = b
            PROVE  \E m \in Names : names'[p][m] = names[p][n]
        BY ZenonT(30), <1>5, <2>1, <2>9, <3>1 DEF At, Names
      <3> QED BY ZenonT(30), <1>1, <2>9, <3>1, StillNamed
    <2>10. Kept(p)'
      BY ZenonT(30), <1>1, <1>2, <2>2, <2>9 DEF Kept, Preimage
    <2> QED BY ZenonT(30), <1>1, <1>2, <1>5, <2>3, <2>8, <2>10, RollbackInv
  <1>6. \/ /\ NextPath /\ errors \subseteq errors' /\ errors' # {}
           /\ names' = names /\ left' = left
        \/ /\ names[p]["target"] = "none"
           /\ Move(p, "recovery", "target") /\ step' = "restored"
           /\ Reoccupy(p) /\ UNCHANGED <<todo, errors>>
    BY DEF RestoreRemoved, GiveUp, StepIO, Report
  <1> QED BY ZenonT(30), <1>4, <1>5, <1>6

LEMMA VerifyRestoredInv ==
    ASSUME CInv, NEW p \in Paths, VerifyRestored(p)
    PROVE  CInv'
  <1>1. /\ inode' = inode /\ left' = left /\ overwrote' = overwrote /\ clobbered' = clobbered
        /\ phase' = phase /\ outcome' = outcome /\ published' = published /\ names' = names
        /\ Visiting(p, "restored") /\ NextPath /\ errors \subseteq errors'
        /\ errors' = {} => At(p, "target") = "old"
    BY ZenonT(30) DEF VerifyRestored, disk, history, Clean
  <1>2. phase = "rollback" /\ Current(p) /\ Visit(p, "restored")
    BY ZenonT(30), <1>1, VisitFacts
  <1>3. Restored(p)
    BY ZenonT(30), <1>2 DEF Visit
  <1>4. Preimage(p) = "old"
    BY ZenonT(30), <1>3, Images DEF Restored
  <1>5. errors' = {} => Settled(p, Preimage(p))
    BY ZenonT(30), <1>1, <1>3, <1>4 DEF Restored, Settled
  <1> QED BY ZenonT(30), <1>1, <1>2, <1>5, RollbackSame

LEMMA InspectPublishedInv ==
    ASSUME CInv, NEW p \in Paths, InspectPublished(p)
    PROVE  CInv'
  <1>1. /\ inode' = inode /\ left' = left /\ overwrote' = overwrote /\ clobbered' = clobbered
        /\ phase' = phase /\ outcome' = outcome /\ published' = published /\ names' = names
        /\ p \notin Range(Removals) /\ Visiting(p, "start")
    BY ZenonT(30) DEF InspectPublished, history, GiveUp, StepIO
  <1>2. phase = "rollback" /\ Current(p) /\ Visit(p, "start") /\ Typed
    BY ZenonT(30), <1>1, VisitFacts
  <1>3. Visit(p, "inspected") /\ Installed(p)
    BY <1>1, <1>2 DEF Visit, Published
  <1>4. CASE todo' = todo /\ step' = "inspected" /\ errors' = errors
    BY ZenonT(30), <1>1, <1>2, <1>3, <1>4, RollbackSame
  <1>5. CASE NextPath /\ errors \subseteq errors' /\ errors' # {}
    BY ZenonT(30), <1>1, <1>2, <1>5, RollbackSame
  <1>6. CASE names[p]["target"] = "none" /\ p \in Range(Creates) /\ NextPath /\ errors' = errors
    <2>1. Preimage(p) = "none"
      BY <1>6, Images
    <2>2. At(p, "target") = "none"
      BY ZenonT(30), <1>6 DEF At
    <2>3. Settled(p, "none")
      BY ZenonT(30), <1>3, <2>2 DEF Installed, Settled, Holds
    <2> QED BY ZenonT(30), <1>1, <1>2, <1>6, <2>1, <2>3, RollbackSame
  <1>7. \/ todo' = todo /\ step' = "inspected" /\ errors' = errors
        \/ NextPath /\ errors \subseteq errors' /\ errors' # {}
        \/ names[p]["target"] = "none" /\ p \in Range(Creates) /\ NextPath /\ errors' = errors
    BY ZenonT(30) DEF InspectPublished, GiveUp, StepIO, Report
  <1> QED BY <1>4, <1>5, <1>6, <1>7

LEMMA QuarantineInv ==
    ASSUME CInv, NEW p \in Paths, Quarantine(p)
    PROVE  CInv'
  <1>1. /\ inode' = inode /\ left' = left /\ overwrote' = overwrote /\ clobbered' = clobbered
        /\ phase' = phase /\ outcome' = outcome /\ published' = published
        /\ p \notin Range(Removals) /\ Visiting(p, "inspected")
    BY ZenonT(30) DEF Quarantine, history
  <1>2. /\ phase = "rollback" /\ Current(p) /\ Visit(p, "inspected")
        /\ Typed /\ InodesOK(p) /\ Kept(p)
    BY ZenonT(30), <1>1, VisitFacts
  <1>3. Installed(p)
    BY ZenonT(30), <1>1, <1>2 DEF Visit, Published
  <1>4. CASE NextPath /\ errors \subseteq errors' /\ errors' # {} /\ names' = names
    BY ZenonT(30), <1>1, <1>2, <1>4, RollbackSame
  <1>5. CASE /\ names[p]["target"] # "none"
             /\ Move(p, "target", "quarantine") /\ step' = "quarantined"
             /\ UNCHANGED <<todo, errors>>
    <2>1. /\ names' \in [Paths -> [Names -> Inodes \cup {"none"}]]
          /\ names'[p]["target"] = "none" /\ names'[p]["quarantine"] = names[p]["target"]
          /\ names'[p]["recovery"] = names[p]["recovery"] /\ names'[p]["stage"] = names[p]["stage"]
          /\ \A q \in Paths \ {p} : names'[q] = names[q]
      BY ZenonT(30), <1>2, <1>5, MoveEffect DEF Names
    <2>2. Typed' /\ InodesOK(p)' /\ \A q \in Paths \ {p} : Same(q)
      BY ZenonT(30), <1>1, <1>2, <2>1 DEF Typed, InodesOK, Same
    <2>3. At(p, "quarantine")' = At(p, "target") /\ At(p, "target")' = "none"
      BY <1>1, <2>1 DEF At
    <2>4. left[p] \in {"untouched", "edit", "none"}
      BY ZenonT(30), <1>2 DEF Typed
    <2>5. At(p, "target") = "new" /\ Settled(p, "new") => Settled(p, "none")'
      BY ZenonT(30), <1>1, <2>3, <2>4 DEF Settled, Holds
    <2>6. Quarantined(p)'
      BY ZenonT(30), <1>1, <1>3, <1>5, <2>1, <2>3, <2>5 DEF Quarantined, Installed, BackedUp
    <2>7. Visit(p, step)'
      BY <1>5, <2>6 DEF Visit
    <2>8. ASSUME NEW b, b # "none", Has(p, b) PROVE Has(p, b)'
      <3>1. ASSUME NEW n \in Names, At(p, n) = b
            PROVE  \E m \in Names : names'[p][m] = names[p][n]
        BY ZenonT(30), <1>3, <2>1, <2>8, <3>1 DEF At, Names, Installed
      <3> QED BY ZenonT(30), <1>1, <2>8, <3>1, StillNamed
    <2>9. Kept(p)'
      BY ZenonT(30), <1>1, <1>2, <2>8 DEF Kept, Preimage
    <2> QED BY ZenonT(30), <1>1, <1>2, <1>5, <2>2, <2>7, <2>9, RollbackInv
  <1>6. \/ NextPath /\ errors \subseteq errors' /\ errors' # {} /\ names' = names
        \/ /\ names[p]["target"] # "none"
           /\ Move(p, "target", "quarantine") /\ step' = "quarantined"
           /\ UNCHANGED <<todo, errors>>
    BY DEF Quarantine, GiveUp, StepIO, Report
  <1> QED BY ZenonT(30), <1>4, <1>5, <1>6

LEMMA InspectQuarantinedInv ==
    ASSUME CInv, NEW p \in Paths, InspectQuarantined(p)
    PROVE  CInv'
  <1>1. /\ inode' = inode /\ left' = left /\ overwrote' = overwrote /\ clobbered' = clobbered
        /\ phase' = phase /\ outcome' = outcome /\ published' = published /\ names' = names
        /\ Visiting(p, "quarantined")
    BY ZenonT(30) DEF InspectQuarantined, history, GiveUp, StepIO
  <1>2. phase = "rollback" /\ Current(p) /\ Visit(p, "quarantined")
    BY ZenonT(30), <1>1, VisitFacts
  <1>3. Quarantined(p)
    BY <1>2 DEF Visit
  <1>4. Matches(p, "quarantine") => At(p, "quarantine") = "new"
    BY ZenonT(30) DEF Matches, At
  <1>5. CASE /\ step' = (IF Matches(p, "quarantine") THEN "confirmed" ELSE "foreign")
                   \/ step' = "foreign"
             /\ UNCHANGED <<todo, errors>>
    <2>1. Visit(p, step')
      BY <1>3, <1>4, <1>5 DEF Visit
    <2> QED BY ZenonT(30), <1>1, <1>2, <1>5, <2>1, RollbackSame
  <1>6. CASE NextPath /\ errors \subseteq errors' /\ errors' # {}
    BY ZenonT(30), <1>1, <1>2, <1>6, RollbackSame
  <1> QED BY ZenonT(30), <1>5, <1>6 DEF InspectQuarantined, StepIO, GiveUp, Report

LEMMA PutBackInv ==
    ASSUME CInv, NEW p \in Paths, PutBack(p)
    PROVE  CInv'
  <1>1. /\ inode' = inode /\ left' = left /\ overwrote' = overwrote /\ clobbered' = clobbered
        /\ phase' = phase /\ outcome' = outcome /\ published' = published
        /\ Visiting(p, "foreign") /\ NextPath /\ errors \subseteq errors' /\ errors' # {}
    BY DEF PutBack, history, Report
  <1>2. phase = "rollback" /\ Current(p) /\ Typed /\ InodesOK(p) /\ Kept(p)
    BY ZenonT(30), <1>1, VisitFacts
  <1>3. CASE names' = names
    BY ZenonT(30), <1>1, <1>2, <1>3, RollbackSame
  <1>4. CASE names[p]["target"] = "none" /\ Move(p, "quarantine", "target")
    <2>1. /\ names' \in [Paths -> [Names -> Inodes \cup {"none"}]]
          /\ names'[p]["target"] = names[p]["quarantine"]
          /\ names'[p]["recovery"] = names[p]["recovery"] /\ names'[p]["stage"] = names[p]["stage"]
          /\ \A q \in Paths \ {p} : names'[q] = names[q]
      BY ZenonT(30), <1>2, <1>4, MoveEffect DEF Names
    <2>2. Typed' /\ InodesOK(p)' /\ \A q \in Paths \ {p} : Same(q)
      BY <1>1, <1>2, <2>1 DEF Typed, InodesOK, Same
    <2>3. ASSUME NEW b, b # "none", Has(p, b) PROVE Has(p, b)'
      <3>1. ASSUME NEW n \in Names, At(p, n) = b
            PROVE  \E m \in Names : names'[p][m] = names[p][n]
        BY ZenonT(30), <1>4, <2>1, <2>3, <3>1 DEF At, Names
      <3> QED BY ZenonT(30), <1>1, <2>3, <3>1, StillNamed
    <2>4. Kept(p)'
      BY <1>1, <1>2, <2>3 DEF Kept, Preimage
    <2> QED BY ZenonT(30), <1>1, <1>2, <2>2, <2>4, RollbackInv
  <1> QED BY ZenonT(30), <1>3, <1>4 DEF PutBack

LEMMA LinkBackInv ==
    ASSUME CInv, NEW p \in Paths, LinkBack(p)
    PROVE  CInv'
  <1>1. /\ inode' = inode /\ overwrote' = overwrote /\ clobbered' = clobbered
        /\ phase' = phase /\ outcome' = outcome /\ published' = published
        /\ p \in Range(Registrations) /\ Visiting(p, "confirmed")
    BY ZenonT(30) DEF LinkBack
  <1>2. /\ phase = "rollback" /\ Current(p) /\ Visit(p, "confirmed")
        /\ Typed /\ InodesOK(p) /\ Kept(p)
    BY <1>1, VisitFacts
  <1>3. Quarantined(p) /\ At(p, "quarantine") = "new"
    BY ZenonT(30), <1>2 DEF Visit
  <1>4. names[p]["recovery"] = "copy" /\ inode[p]["copy"] = "old" /\ Settled(p, "none")
    BY ZenonT(30), <1>1, <1>3 DEF Quarantined, BackedUp
  <1>5. CASE /\ NextPath /\ errors \subseteq errors' /\ errors' # {}
             /\ names' = names /\ left' = left
    BY <1>1, <1>2, <1>5, RollbackSame
  <1>6. CASE /\ names[p]["target"] = "none"
             /\ Link(p, "target", names[p]["recovery"]) /\ step' = "linked"
             /\ Reoccupy(p) /\ UNCHANGED <<todo, errors>>
    <2>1. Link(p, "target", "copy")
      BY <1>4, <1>6
    <2>2. /\ names' \in [Paths -> [Names -> Inodes \cup {"none"}]]
          /\ names'[p]["target"] = "copy" /\ names'[p]["quarantine"] = names[p]["quarantine"]
          /\ names'[p]["recovery"] = names[p]["recovery"] /\ names'[p]["stage"] = names[p]["stage"]
          /\ \A q \in Paths \ {p} : names'[q] = names[q]
      BY ZenonT(30), <1>2, <2>1, LinkEffect DEF Names, Inodes
    <2>3. /\ left' \in [Paths -> {"untouched", "edit", "none"}]
          /\ left'[p] = IF left[p] = "none" THEN "untouched" ELSE left[p]
          /\ \A q \in Paths \ {p} : left'[q] = left[q]
      BY ZenonT(30), <1>2, <1>6 DEF Typed, Reoccupy
    <2>4. Typed' /\ InodesOK(p)' /\ \A q \in Paths \ {p} : Same(q)
      BY ZenonT(30), <1>1, <1>2, <2>2, <2>3 DEF Typed, InodesOK, Same
    <2>5. At(p, "target")' = "old" /\ At(p, "target") = "none"
      BY ZenonT(30), <1>1, <1>4, <1>6, <2>2 DEF At
    <2>6. left[p] \in {"untouched", "edit", "none"}
      BY <1>2 DEF Typed
    <2>7. Settled(p, "old")'
      BY ZenonT(30), <1>1, <1>4, <2>3, <2>5, <2>6 DEF Settled, Holds
    <2>8. Visit(p, step)'
      BY ZenonT(30), <1>1, <1>6, <2>5, <2>7 DEF Visit, Linked, Original
    <2>9. ASSUME NEW b, b # "none", Has(p, b) PROVE Has(p, b)'
      <3>1. ASSUME NEW n \in Names, At(p, n) = b
            PROVE  \E m \in Names : names'[p][m] = names[p][n]
        BY ZenonT(30), <1>6, <2>2, <2>9, <3>1 DEF At, Names
      <3> QED BY ZenonT(30), <1>1, <2>9, <3>1, StillNamed
    <2>10. Kept(p)'
      BY ZenonT(30), <1>1, <1>2, <2>3, <2>9 DEF Kept, Preimage
    <2> QED BY ZenonT(30), <1>1, <1>2, <1>6, <2>4, <2>8, <2>10, RollbackInv
  <1>7. CASE step' = "foreign" /\ UNCHANGED <<todo, errors, names, left>>
    <2>1. Visit(p, step')
      BY ZenonT(30), <1>3, <1>7 DEF Visit
    <2> QED BY ZenonT(30), <1>1, <1>2, <1>7, <2>1, RollbackSame
  <1>8. \/ /\ NextPath /\ errors \subseteq errors' /\ errors' # {}
           /\ names' = names /\ left' = left
        \/ /\ names[p]["target"] = "none"
           /\ Link(p, "target", names[p]["recovery"]) /\ step' = "linked"
           /\ Reoccupy(p) /\ UNCHANGED <<todo, errors>>
        \/ step' = "foreign" /\ UNCHANGED <<todo, errors, names, left>>
    BY ZenonT(30) DEF LinkBack, GiveUp, StepIO, Report
  <1> QED BY ZenonT(30), <1>5, <1>6, <1>7, <1>8

LEMMA VerifyLinkedInv ==
    ASSUME CInv, NEW p \in Paths, VerifyLinked(p)
    PROVE  CInv'
  <1>1. /\ inode' = inode /\ left' = left /\ overwrote' = overwrote /\ clobbered' = clobbered
        /\ phase' = phase /\ outcome' = outcome /\ published' = published /\ names' = names
        /\ Visiting(p, "linked")
    BY ZenonT(30) DEF VerifyLinked, history, GiveUp, StepIO
  <1>2. phase = "rollback" /\ Current(p) /\ Visit(p, "linked")
    BY ZenonT(30), <1>1, VisitFacts
  <1>3. Visit(p, "verified")
    BY ZenonT(30), <1>2 DEF Visit
  <1>4. \/ todo' = todo /\ step' = "verified" /\ errors' = errors
        \/ NextPath /\ errors \subseteq errors' /\ errors' # {}
    BY ZenonT(30) DEF VerifyLinked, GiveUp, StepIO, Report
  <1> QED BY ZenonT(30), <1>1, <1>2, <1>3, <1>4, RollbackSame

LEMMA DropCopiesInv ==
    ASSUME CInv, NEW p \in Paths, DropCopies(p)
    PROVE  CInv'
  <1>1. /\ inode' = inode /\ left' = left /\ overwrote' = overwrote /\ clobbered' = clobbered
        /\ phase' = phase /\ outcome' = outcome /\ published' = published
        /\ Visiting(p, "verified") /\ NextPath
    BY DEF DropCopies, history
  <1>2. /\ phase = "rollback" /\ Current(p) /\ Visit(p, "verified")
        /\ Typed /\ InodesOK(p)
    BY ZenonT(30), <1>1, VisitFacts
  <1>3. Linked(p)
    BY ZenonT(30), <1>2 DEF Visit
  <1>4. PICK kept \in SUBSET {"recovery", "quarantine"} :
           /\ IF kept = {} THEN errors' = errors ELSE Report("leftover")
           /\ names' = [names EXCEPT ![p] =
                          [n \in Names |-> IF n \in kept \cup {"target", "stage"}
                                           THEN @[n] ELSE "none"]]
    BY ZenonT(30) DEF DropCopies
  <1>5. /\ names' \in [Paths -> [Names -> Inodes \cup {"none"}]]
        /\ names'[p]["target"] = names[p]["target"]
        /\ \A q \in Paths \ {p} : names'[q] = names[q]
    <2> DEFINE f == [n \in Names |-> IF n \in kept \cup {"target", "stage"}
                                     THEN names[p][n] ELSE "none"]
    <2>1. f \in [Names -> Inodes \cup {"none"}] /\ f["target"] = names[p]["target"]
      BY <1>2 DEF Typed, Names
    <2>2. names' = [names EXCEPT ![p] = f]
      BY ZenonT(30), <1>4
    <2> HIDE DEF f
    <2> QED BY ZenonT(30), <1>2, <2>1, <2>2 DEF Typed
  <1>6. Typed' /\ InodesOK(p)' /\ \A q \in Paths \ {p} : Same(q)
    BY ZenonT(30), <1>1, <1>2, <1>5 DEF Typed, InodesOK, Same
  <1>7. At(p, "target")' = At(p, "target")
    BY ZenonT(30), <1>1, <1>5 DEF At
  <1>8. Settled(p, "old")' /\ Preimage(p) = "old"
    BY ZenonT(30), <1>1, <1>3, <1>7, Images DEF Settled, Holds, Linked
  <1>9. Kept(p)'
    BY ZenonT(30), <1>1, <1>3, <1>7 DEF Kept, Linked, Original, Settled, Holds, Has, Names
  <1>10. Settled(p, Preimage(p))' /\ errors \subseteq errors'
    BY ZenonT(30), <1>4, <1>8 DEF Preimage, Report
  <1> QED BY ZenonT(30), <1>1, <1>2, <1>6, <1>9, <1>10, RollbackInv

LEMMA DropCreatedInv ==
    ASSUME CInv, NEW p \in Paths, DropCreated(p)
    PROVE  CInv'
  <1>1. /\ inode' = inode /\ left' = left /\ overwrote' = overwrote /\ clobbered' = clobbered
        /\ phase' = phase /\ outcome' = outcome /\ published' = published
        /\ Visiting(p, "confirmed") /\ NextPath /\ p \in Range(Creates)
        /\ errors \subseteq errors' /\ (Unlink(p, "quarantine") \/ names' = names)
    BY DEF DropCreated, history, Report
  <1>2. /\ phase = "rollback" /\ Current(p) /\ Visit(p, "confirmed")
        /\ Typed /\ InodesOK(p)
    BY ZenonT(30), <1>1, VisitFacts
  <1>3. Settled(p, "none")
    BY <1>2 DEF Visit, Quarantined
  <1>4. /\ names' \in [Paths -> [Names -> Inodes \cup {"none"}]]
        /\ names'[p]["target"] = names[p]["target"]
        /\ \A q \in Paths \ {p} : names'[q] = names[q]
    <2>1. CASE Unlink(p, "quarantine")
      BY <1>2, <2>1, LinkEffect DEF Names, Unlink
    <2>2. CASE names' = names
      BY ZenonT(30), <1>2, <2>2 DEF Typed
    <2> QED BY ZenonT(30), <1>1, <2>1, <2>2
  <1>5. Typed' /\ InodesOK(p)' /\ \A q \in Paths \ {p} : Same(q)
    BY <1>1, <1>2, <1>4 DEF Typed, InodesOK, Same
  <1>6. At(p, "target")' = At(p, "target")
    BY ZenonT(30), <1>1, <1>4 DEF At
  <1>7. Settled(p, "none")' /\ Preimage(p) = "none"
    BY ZenonT(30), <1>1, <1>3, <1>6, Images DEF Settled, Holds
  <1>8. Kept(p)' /\ Settled(p, Preimage(p))'
    BY <1>1, <1>3, <1>6, <1>7 DEF Kept, Settled, Holds, Has, Names, Preimage
  <1> QED BY ZenonT(30), <1>1, <1>2, <1>5, <1>8, RollbackInv

LEMMA InitInv ==
    ASSUME Init
    PROVE  CInv
  <1>1. /\ phase = "prepare" /\ step = "start" /\ published = <<>> /\ outcome = "none"
        /\ left = [p \in Paths |-> "untouched"]
    BY DEF Init
  <1>2. Typed
    BY DEF Init, Typed, Names, Inodes, Contents
  <1>3. Recorded = {} /\ published \in Seq(Range(Order)) /\ IsInjective(published)
    <2>1. <<>> \in Seq(Range(Order))
      OBVIOUS
    <2> QED BY ZenonT(30), <1>1, <2>1, NoElements DEF Recorded
  <1>4. ControlInv
    BY <1>1, <1>3 DEF ControlInv
  <1>5. ASSUME NEW p \in Paths PROVE PathInv(p)
    <2>1. /\ names[p] = [n \in Names |-> IF n = "target" /\ Preimage(p) = "old"
                                         THEN "orig" ELSE "none"]
          /\ inode[p] = [i \in Inodes |-> CASE i = "stage" -> "new"
                                            [] i = "edit" -> "edit" [] OTHER -> "old"]
          /\ left[p] = "untouched"
      BY DEF Init
    <2>2. /\ names[p]["target"] = IF Preimage(p) = "old" THEN "orig" ELSE "none"
          /\ names[p]["recovery"] = "none" /\ names[p]["quarantine"] = "none"
          /\ names[p]["stage"] = "none"
      BY <2>1 DEF Names
    <2>3. /\ inode[p]["stage"] = "new" /\ inode[p]["edit"] = "edit"
          /\ inode[p]["orig"] = "old" /\ inode[p]["copy"] = "old"
      BY <2>1 DEF Inodes
    <2>4. Preimage(p) \in {"none", "old"}
      BY ZenonT(30), Images
    <2>5. At(p, "target") = Preimage(p)
      BY <2>2, <2>3, <2>4 DEF At
    <2>6. Unpublished(p) /\ InodesOK(p)
      BY ZenonT(30), <2>1, <2>2, <2>3, <2>5 DEF Unpublished, InodesOK, Holds
    <2>7. Kept(p)
      BY <2>6, UnpublishedKept
    <2> QED BY ZenonT(30), <1>1, <1>3, <2>6, <2>7 DEF PathInv
  <1> QED BY ZenonT(30), <1>2, <1>4, <1>5 DEF CInv

LEMMA NextInv ==
    ASSUME CInv, [Next]_vars
    PROVE  CInv'
  <1>1. CASE UNCHANGED vars
    <2>1. /\ \A q \in Paths : Same(q)
          /\ phase' = phase /\ todo' = todo /\ step' = step /\ published' = published
          /\ errors' = errors /\ outcome' = outcome
      BY ZenonT(30), <1>1 DEF vars, Same
    <2>2. Typed' /\ ControlInv'
      BY <1>1 DEF vars, CInv, Typed, ControlInv, Recorded, Current
    <2>3. \A q \in Paths : PathInv(q)'
      BY ZenonT(30), <2>1, SameKeeps DEF CInv
    <2> QED BY ZenonT(30), <2>2, <2>3 DEF CInv
  <1>2. ASSUME NEW p \in Paths, Publish(p) PROVE CInv'
    BY ZenonT(30), <1>2, PrepareInv, InstallCreateInv, BackUpInv, RecheckReplaceInv, ReplaceTargetInv,
       RecheckRemovalInv, MoveAsideInv, CompareMovedInv, ValidateInv, FinalizeInv DEF Publish
  <1>3. ASSUME NEW p \in Paths, Undo(p) PROVE CInv'
    BY ZenonT(30), <1>3, LookRemovedInv, RestoreRemovedInv, VerifyRestoredInv, InspectPublishedInv,
       QuarantineInv, InspectQuarantinedInv, PutBackInv, LinkBackInv, VerifyLinkedInv,
       DropCopiesInv, DropCreatedInv DEF Undo
  <1>4. ASSUME NEW p \in Paths, Edit(p) PROVE CInv'
    BY <1>4, EditInv
  <1>5. CASE StartPublication \/ StartValidation \/ Succeed \/ Return \/ FinishRollback
    BY ZenonT(30), <1>5, StartPublicationInv, StartValidationInv, SucceedInv, ReturnInv, FinishRollbackInv
  <1> QED BY ZenonT(30), <1>1, <1>2, <1>3, <1>4, <1>5 DEF Next, Terminated

-----------------------------------------------------------------------------
\* For every plan, and any number of edits and I/O errors: each path is visited
\* once in each direction, and its four names are what its place in the
\* transaction says.
THEOREM TransactionInductive == Spec => []CInv
  <1>1. Init => CInv
    BY InitInv
  <1>2. CInv /\ [Next]_vars => CInv'
    BY NextInv
  <1> QED BY <1>1, <1>2, PTL DEF Spec

\* No step of publish, rollback or cleanup, and no error that ends one early,
\* destroys the last copy of bytes that are not the transaction's own.
THEOREM NothingEverLost == Spec => []NothingLost
  <1>1. CInv => NothingLost
    BY ZenonT(30) DEF CInv, PathInv, Kept, NothingLost
  <1> QED BY <1>1, TransactionInductive, PTL

\* commit's result may be believed: Ok means published, an error other than
\* RollbackFailed means as before.
THEOREM OutcomeHonest == Spec => []HonestOutcome
  <1>1. CInv => HonestOutcome
    BY ZenonT(30) DEF CInv, PathInv, Settled, Holds, HonestOutcome
  <1> QED BY <1>1, TransactionInductive, PTL
=============================================================================
