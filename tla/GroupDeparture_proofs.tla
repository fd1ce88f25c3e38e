------------------------ MODULE GroupDeparture_proofs ------------------------
(* For any members, any tree of commits, any number of queued departures and    *)
(* any failures: the roles of a group stay right, a timer removes only members   *)
(* of whose departure its device read, and no departure read is forgotten.      *)
EXTENDS GroupDeparture, FiniteSetTheorems, WellFoundedInduction, TLAPS

(* Commits refer to earlier ones, devices to commits that exist.                *)
LogInv ==
    /\ log \in Seq(Commit)
    /\ \A c \in 2..Len(log) : log[c].parent \in 1..c - 1
    /\ NobodyIsDemoted
HeadInv == \A d \in Member : dev[d].head <= Len(log)
JobsInv == \A d \in Member : IsFiniteSet(jobs[d])
DepartureInv == TypeOK /\ LogInv /\ HeadInv /\ JobsInv

(* The types of a device and of a running function.                             *)
Device == [head : 0..MaxCommits + 1, joined : 0..MaxCommits + 1, stored : BOOLEAN,
           handled : SUBSET Intent, queue : SUBSET Member, timer : BOOLEAN]
Queue == [live : BOOLEAN, entries : SUBSET Member]
Job == [n : Nat, at : {"group", "commit"}, gone : SUBSET Member, queue : Queue]

Seated(tree) == {p \in Member : \E i \in DOMAIN tree : tree[i] = p}

LEMMA TypeParts ==
    TypeOK <=> /\ \A c \in DOMAIN log : log[c].admins \subseteq MembersAt(c)
               /\ Len(log) \in 1..MaxCommits + 1 /\ \A c \in DOMAIN log : log[c] \in Commit
               /\ intents \subseteq Intent
               /\ dev \in [Member -> Device]
               /\ jobs \in [Member -> SUBSET Job]
               /\ hitches \subseteq Hitches /\ Cardinality(hitches) <= MaxHitches
  BY DEF TypeOK, Device, Job, Queue

LEMMA MembersAreSeated == \A c \in DOMAIN log : MembersAt(c) = Seated(log[c].tree)
  BY DEF MembersAt, Leaves, Seated

-----------------------------------------------------------------------------
(* Commits                                                                    *)

(* Whose device commits is in the tree and an admin of a state there is.        *)
LEMMA CommitterSeated ==
    ASSUME DepartureInv, NEW d \in Member, MayCommit(d)
    PROVE  /\ Group(d) \in 1..Len(log)
           /\ log[Group(d)] \in Commit
           /\ MembersOf(d) = Seated(log[Group(d)].tree)
<1>1. dev \in [Member -> Device] /\ dev[d].head <= Len(log) /\ log \in Seq(Commit)
  BY TypeParts DEF DepartureInv, HeadInv, LogInv
<1>2. Group(d) \in Nat /\ Group(d) # 0 /\ Group(d) <= Len(log)
  BY <1>1, GroupAssumption DEF Group, Device, MayCommit, MembersOf
<1>3. Group(d) \in 1..Len(log) /\ Group(d) \in DOMAIN log
  BY <1>1, <1>2
<1> QED
  BY <1>1, <1>2, <1>3, MembersAreSeated DEF MembersOf

(* A commit adds one state to the log and changes none.                         *)
LEMMA LogGrows ==
    ASSUME DepartureInv, NEW d \in Member, MayCommit(d),
           NEW tree \in Seq(Member \cup {Blank}), NEW admins \in SUBSET Member,
           NEW auto \in BOOLEAN, CommitWith(d, tree, admins, auto)
    PROVE  /\ log' \in Seq(Commit) /\ Len(log') = Len(log) + 1 /\ Len(log) <= MaxCommits
           /\ \A c \in 1..Len(log) : log'[c] = log[c]
           /\ log'[Len(log) + 1].tree = tree /\ log'[Len(log) + 1].admins = admins
           /\ log'[Len(log) + 1].parent = Group(d) /\ log'[Len(log) + 1].auto = auto
<1>1. PICK t \in Clocks : log' = Append(log, Child(Group(d), d, tree, admins, auto, t))
  BY DEF CommitWith
<1> DEFINE new == Child(Group(d), d, tree, admins, auto, t)
<1>2. Len(log) \in Nat /\ Len(log) <= MaxCommits /\ MaxCommits \in Nat /\ log \in Seq(Commit)
  BY GroupAssumption DEF CommitWith, DepartureInv, LogInv
<1>3. log[Group(d)].past \subseteq 1..MaxCommits + 1
  BY CommitterSeated DEF Commit
<1>4. log[Group(d)].past \cup {Len(log) + 1} \subseteq 1..MaxCommits + 1
  BY <1>2, <1>3
<1>5. Group(d) \in 0..MaxCommits
  BY <1>2, CommitterSeated
<1>6. new \in Commit
  BY <1>4, <1>5 DEF Child, Commit
<1>7. new.tree = tree /\ new.admins = admins /\ new.parent = Group(d) /\ new.auto = auto
  BY DEF Child
<1> HIDE DEF new
<1> QED
  BY <1>1, <1>2, <1>6, <1>7 DEF new

(* The roles stay right when the new admins have a leaf and are all the admins  *)
(* of the parent who keep theirs.                                               *)
LEMMA CommitSound ==
    ASSUME DepartureInv, NEW d \in Member, MayCommit(d),
           NEW tree \in Seq(Member \cup {Blank}), NEW admins \in SUBSET Member,
           NEW auto \in BOOLEAN, CommitWith(d, tree, admins, auto),
           admins \subseteq Seated(tree),
           log[Group(d)].admins \cap Seated(tree) \subseteq admins
    PROVE  /\ LogInv'
           /\ Len(log') \in 1..MaxCommits + 1 /\ \A c \in DOMAIN log' : log'[c] \in Commit
           /\ \A c \in DOMAIN log' : log'[c].admins \subseteq MembersAt(c)'
           /\ Len(log') = Len(log) + 1
           /\ Len(log) + 1 \in 0..MaxCommits + 1
<1>0. PICK new \in Nat : new = Len(log) + 1
  BY TypeParts DEF DepartureInv
<1>1. /\ log' \in Seq(Commit) /\ Len(log') = new /\ Len(log) <= MaxCommits
      /\ \A c \in 1..Len(log) : log'[c] = log[c]
      /\ log'[new].tree = tree /\ log'[new].admins = admins
      /\ log'[new].parent = Group(d)
  BY <1>0, LogGrows
<1>2. Len(log) \in Nat /\ Len(log) >= 1 /\ MaxCommits \in Nat /\ log \in Seq(Commit)
  BY TypeParts, GroupAssumption DEF DepartureInv, LogInv
<1>3. \A c \in 1..Len(log) : MembersAt(c)' = MembersAt(c)
  BY <1>1 DEF MembersAt, Leaves
<1>4. MembersAt(new)' = Seated(tree)
  BY <1>1 DEF MembersAt, Leaves, Seated
<1>5. Group(d) \in 1..Len(log)
  BY CommitterSeated
<1>6. \A c \in DOMAIN log' : log'[c].admins \subseteq MembersAt(c)'
  <2>1. \A c \in 1..Len(log) : log[c].admins \subseteq MembersAt(c)
    BY <1>2, TypeParts DEF DepartureInv
  <2>2. \A c \in 1..new : c = new \/ c \in 1..Len(log)
    BY <1>0, <1>2
  <2>3. DOMAIN log' = 1..new
    BY <1>1
  <2> QED
    BY <1>1, <1>3, <1>4, <2>1, <2>2, <2>3
<1>7. \A c \in 2..new : log'[c].parent \in 1..c - 1
  <2>1. \A c \in 2..new : c = new \/ c \in 2..Len(log)
    BY <1>0, <1>2
  <2>2. \A c \in 2..Len(log) : log'[c].parent \in 1..c - 1
    BY <1>1, <1>2 DEF DepartureInv, LogInv
  <2>3. log'[new].parent \in 1..new - 1
    BY <1>0, <1>1, <1>2, <1>5
  <2> QED
    BY <2>1, <2>2, <2>3
<1>8. NobodyIsDemoted'
  <2> SUFFICES ASSUME NEW c \in 2..new
               PROVE  log'[log'[c].parent].admins \cap MembersAt(c)' \subseteq log'[c].admins
    BY <1>1 DEF NobodyIsDemoted
  <2>1. CASE c = new
    <3>1. log'[log'[c].parent].admins = log[Group(d)].admins
      BY <1>1, <1>5, <2>1
    <3> QED
      BY <1>1, <1>4, <2>1, <3>1
  <2>2. CASE c \in 2..Len(log)
    <3>1. log[c].parent \in 1..Len(log)
      BY <1>2, <2>2 DEF DepartureInv, LogInv
    <3>2. c \in 1..Len(log) /\ log'[c] = log[c] /\ log'[log'[c].parent] = log[log[c].parent]
      BY <1>1, <1>2, <2>2, <3>1
    <3>3. log[log[c].parent].admins \cap MembersAt(c) \subseteq log[c].admins
      BY <2>2 DEF DepartureInv, LogInv, NobodyIsDemoted
    <3> QED
      BY <1>3, <3>2, <3>3
  <2> QED
    BY <1>0, <1>2, <2>1, <2>2
<1> QED
  BY <1>0, <1>1, <1>2, <1>6, <1>7, <1>8 DEF LogInv

-----------------------------------------------------------------------------
(* Trees                                                                      *)

(* A removal takes the leaves of those removed, and nobody else's.              *)
LEMMA BlankedSeats ==
    ASSUME NEW c \in DOMAIN log, log[c] \in Commit, NEW S \in SUBSET Member, NEW leaves,
           \A i \in DOMAIN log[c].tree : i \in leaves <=> log[c].tree[i] \in S
    PROVE  /\ Blanked(c, leaves) \in Seq(Member \cup {Blank})
           /\ Seated(Blanked(c, leaves)) = Seated(log[c].tree) \ S
<1> DEFINE tree == log[c].tree
<1>1. tree \in Seq(Member \cup {Blank})
  BY DEF Commit
<1>2. Blank \notin Member
  BY GroupAssumption
<1> HIDE DEF tree
<1>3. Blanked(c, leaves) = [i \in DOMAIN tree |-> IF i \in leaves THEN Blank ELSE tree[i]]
  BY DEF Blanked, tree
<1>4. Blanked(c, leaves) \in Seq(Member \cup {Blank})
  BY <1>1, <1>3
<1>5. \A i \in DOMAIN tree : i \in leaves <=> tree[i] \in S
  BY DEF tree
<1>6. Seated(Blanked(c, leaves)) = Seated(tree) \ S
  BY <1>2, <1>3, <1>5 DEF Seated
<1> QED
  BY <1>4, <1>6 DEF tree

(* Of the blank leaves one is the first.                                        *)
LEMMA FirstOf ==
    ASSUME NEW B, B \subseteq Nat, B # {}
    PROVE  \E i \in B : \A j \in 1..i - 1 : j \notin B
<1>1. PICK i \in B : \A j \in B : ~ (<<j, i>> \in OpToRel(<, Nat))
  BY NatLessThanWellFounded, WFMin, Zenon
<1>2. \A j \in B : ~ (j < i)
  BY <1>1, Zenon DEF OpToRel
<1> QED
  BY <1>2

(* An added member takes nobody's leaf.                                         *)
LEMMA AddedSeats ==
    ASSUME NEW c \in DOMAIN log, log[c] \in Commit, NEW p \in Member
    PROVE  /\ WithAdded(c, p) \in Seq(Member \cup {Blank})
           /\ Seated(log[c].tree) \subseteq Seated(WithAdded(c, p))
<1> DEFINE tree == log[c].tree
           blanks == {i \in DOMAIN tree : tree[i] = Blank}
           Is(i) == i \in DOMAIN tree /\ tree[i] = Blank /\ \A j \in 1..i - 1 : tree[j] # Blank
           first == CHOOSE i \in DOMAIN tree : tree[i] = Blank /\ \A j \in 1..i - 1 : tree[j] # Blank
<1>1. tree \in Seq(Member \cup {Blank}) /\ Blank \notin Member
  BY GroupAssumption DEF Commit
<1>2. CASE blanks = {}
  <2>1. WithAdded(c, p) = Append(tree, p)
    BY <1>2 DEF WithAdded
  <2> HIDE DEF tree
  <2>2. Append(tree, p) \in Seq(Member \cup {Blank})
    BY <1>1
  <2>3. \A i \in DOMAIN tree : i \in DOMAIN Append(tree, p) /\ Append(tree, p)[i] = tree[i]
    BY <1>1
  <2>4. Seated(tree) \subseteq Seated(Append(tree, p))
    BY <2>3 DEF Seated
  <2> QED
    BY <2>1, <2>2, <2>4 DEF tree
<1>3. CASE blanks # {}
  <2>1. WithAdded(c, p) = [tree EXCEPT ![first] = p]
    BY <1>3 DEF WithAdded
  <2>2. \E i \in DOMAIN tree : tree[i] = Blank /\ \A j \in 1..i - 1 : tree[j] # Blank
    <3>1. blanks \subseteq Nat
      <4> HIDE DEF tree
      <4> QED BY <1>1
    <3>2. PICK i \in blanks : \A j \in 1..i - 1 : j \notin blanks
      <4> HIDE DEF blanks
      <4> QED BY <1>3, <3>1, FirstOf
    <3>3. \A j \in 1..i - 1 : j \in DOMAIN tree
      <4> HIDE DEF tree
      <4> QED BY <1>1, <3>2
    <3> QED
      BY <3>2, <3>3
  <2>3. first \in DOMAIN tree /\ tree[first] = Blank
    BY <2>2
  <2> HIDE DEF first, tree
  <2>4. [tree EXCEPT ![first] = p] \in Seq(Member \cup {Blank})
    BY <1>1, <2>3
  <2>5. \A i \in DOMAIN tree : i # first => [tree EXCEPT ![first] = p][i] = tree[i]
    OBVIOUS
  <2>6. Seated(tree) \subseteq Seated([tree EXCEPT ![first] = p])
    BY <1>1, <2>3, <2>5 DEF Seated
  <2> QED
    BY <2>1, <2>4, <2>6 DEF tree
<1> QED
  BY <1>2, <1>3

-----------------------------------------------------------------------------
(* The steps of the admins                                                    *)

LogOK ==
    /\ LogInv
    /\ Len(log) \in 1..MaxCommits + 1 /\ \A c \in DOMAIN log : log[c] \in Commit
    /\ \A c \in DOMAIN log : log[c].admins \subseteq MembersAt(c)
DevOK == dev \in [Member -> Device] /\ HeadInv
JobsOK == jobs \in [Member -> SUBSET Job] /\ JobsInv
HitchesOK == hitches \subseteq Hitches /\ Cardinality(hitches) <= MaxHitches

LEMMA InvParts == DepartureInv <=> LogOK /\ DevOK /\ JobsOK /\ HitchesOK /\ intents \subseteq Intent
  BY TypeParts DEF DepartureInv, LogOK, DevOK, JobsOK, HitchesOK

LEMMA PartsMakeInv ==
    ASSUME LogOK', DevOK', JobsOK', HitchesOK', intents' \subseteq Intent
    PROVE  DepartureInv'
  BY DEF DepartureInv, TypeOK, LogOK, DevOK, JobsOK, HitchesOK, Device, Job, Queue

LEMMA LogKept == ASSUME LogOK, UNCHANGED log PROVE LogOK'
  BY DEF LogOK, LogInv, NobodyIsDemoted, MembersAt, Leaves

LEMMA JobsKept == ASSUME JobsOK, UNCHANGED jobs PROVE JobsOK'
  BY DEF JobsOK, JobsInv

LEMMA HitchesKept == ASSUME HitchesOK, UNCHANGED hitches PROVE HitchesOK'
  BY DEF HitchesOK

LEMMA HitchKept == ASSUME HitchesOK, NEW h, Hitch(h) PROVE HitchesOK'
<1>1. IsFiniteSet({"failed", "torn", "restarted"})
  <2>1. IsFiniteSet({"failed"})
    BY FS_Singleton
  <2>2. IsFiniteSet({"failed"} \cup {"torn"})
    BY <2>1, FS_AddElement
  <2>3. IsFiniteSet(({"failed"} \cup {"torn"}) \cup {"restarted"})
    BY <2>2, FS_AddElement
  <2>4. ({"failed"} \cup {"torn"}) \cup {"restarted"} = {"failed", "torn", "restarted"}
    OBVIOUS
  <2> QED
    BY <2>3, <2>4
<1>2. IsFiniteSet(hitches)
  BY <1>1, FS_Subset, GroupAssumption DEF HitchesOK
<1>3. Cardinality(hitches) \in Nat /\ MaxHitches \in Nat
  BY <1>2, FS_CardinalityType, GroupAssumption
<1>4. hitches' = hitches \cup {h} /\ h \in Hitches \ hitches /\ Cardinality(hitches) < MaxHitches
  BY DEF Hitch
<1>5. Cardinality(hitches \cup {h}) = Cardinality(hitches) + 1
  BY <1>2, <1>4, FS_AddElement
<1> QED
  BY <1>3, <1>4, <1>5 DEF HitchesOK

(* A device that moves to a state there is stays a device.                      *)
LEMMA MovedDevice ==
    ASSUME DevOK, NEW d \in Member, NEW c \in 0..MaxCommits + 1
    PROVE  /\ Moved(d, c) \in [Member -> Device]
           /\ \A x \in Member : Moved(d, c)[x].head = IF x = d THEN c ELSE dev[x].head
           /\ \A x \in Member : /\ Moved(d, c)[x].stored = dev[x].stored
                               /\ Moved(d, c)[x].queue = dev[x].queue
  BY DEF DevOK, Moved, Device

LEMMA LogOKFromCommit ==
    ASSUME DepartureInv, NEW d \in Member, MayCommit(d),
           NEW tree \in Seq(Member \cup {Blank}), NEW admins \in SUBSET Member,
           NEW auto \in BOOLEAN, CommitWith(d, tree, admins, auto),
           admins \subseteq Seated(tree),
           log[Group(d)].admins \cap Seated(tree) \subseteq admins
    PROVE  LogOK' /\ Len(log') = Len(log) + 1 /\ Len(log) + 1 \in 0..MaxCommits + 1
  BY CommitSound DEF LogOK

LEMMA CommitStep ==
    ASSUME DepartureInv, NEW d \in Member, MayCommit(d),
           NEW tree \in Seq(Member \cup {Blank}), NEW admins \in SUBSET Member,
           NEW auto \in BOOLEAN, CommitWith(d, tree, admins, auto),
           admins \subseteq Seated(tree),
           log[Group(d)].admins \cap Seated(tree) \subseteq admins,
           dev' = Moved(d, Len(log) + 1), UNCHANGED <<intents, jobs, hitches>>
    PROVE  DepartureInv'
<1>1. LogOK' /\ Len(log') = Len(log) + 1 /\ Len(log) + 1 \in 0..MaxCommits + 1
  BY LogOKFromCommit
<1>2. DevOK /\ JobsOK /\ HitchesOK /\ intents \subseteq Intent /\ Len(log) \in Nat
  BY InvParts DEF LogOK
<1>3. DevOK'
  <2>1. dev' \in [Member -> Device]
    BY <1>1, <1>2, MovedDevice
  <2>2. \A x \in Member : dev'[x].head = IF x = d THEN Len(log) + 1 ELSE dev[x].head
    BY <1>1, <1>2, MovedDevice
  <2>3. \A x \in Member : dev[x].head \in Nat /\ dev[x].head <= Len(log)
    BY <1>2, GroupAssumption DEF DevOK, HeadInv, Device
  <2>4. \A x \in Member : dev'[x].head <= Len(log')
    BY <1>1, <1>2, <2>2, <2>3
  <2> QED
    BY <2>1, <2>4 DEF DevOK, HeadInv
<1> QED
  BY <1>1, <1>2, <1>3, JobsKept, HitchesKept, PartsMakeInv

(* What a commit finds: the state it is made on, its tree and its admins.       *)
LEMMA CommitBase ==
    ASSUME DepartureInv, NEW d \in Member, MayCommit(d)
    PROVE  /\ Group(d) \in DOMAIN log /\ log[Group(d)] \in Commit
           /\ log[Group(d)].tree \in Seq(Member \cup {Blank})
           /\ log[Group(d)].admins \in SUBSET Member
           /\ log[Group(d)].admins \subseteq Seated(log[Group(d)].tree)
           /\ MembersOf(d) = Seated(log[Group(d)].tree)
<1>1. Group(d) \in 1..Len(log) /\ log[Group(d)] \in Commit /\ MembersOf(d) = Seated(log[Group(d)].tree)
  BY CommitterSeated
<1>2. log \in Seq(Commit) /\ LogOK
  BY InvParts DEF LogOK, LogInv
<1>3. Group(d) \in DOMAIN log
  BY <1>1, <1>2
<1> QED
  BY <1>1, <1>2, <1>3, MembersAreSeated DEF LogOK, Commit

LEMMA RenameStep == ASSUME DepartureInv, NEW d \in Member, Rename(d) PROVE DepartureInv'
  BY CommitBase, CommitStep DEF Rename

LEMMA GrantStep ==
    ASSUME DepartureInv, NEW d \in Member, NEW p \in Member, GrantAdmin(d, p)
    PROVE  DepartureInv'
<1>1. MayCommit(d) /\ p \in MembersOf(d)
  BY DEF GrantAdmin
<1>2. GrantedAdmins(Group(d), p) \in SUBSET Member
  BY <1>1, CommitBase DEF GrantedAdmins
<1>3. GrantedAdmins(Group(d), p) \subseteq Seated(log[Group(d)].tree)
  BY <1>1, CommitBase DEF GrantedAdmins
<1>4. log[Group(d)].admins \cap Seated(log[Group(d)].tree) \subseteq GrantedAdmins(Group(d), p)
  BY DEF GrantedAdmins
<1> QED
  BY <1>1, <1>2, <1>3, <1>4, CommitBase, CommitStep DEF GrantAdmin

LEMMA CancelStep ==
    ASSUME DepartureInv, NEW d \in Member, NEW p \in Member, CancelPendingInvitation(d, p)
    PROVE  DepartureInv'
<1> DEFINE tree == Blanked(Group(d), Leaves(Group(d), p))
<1>1. MayCommit(d)
  BY DEF CancelPendingInvitation
<1>2. tree \in Seq(Member \cup {Blank}) /\ Seated(tree) = Seated(log[Group(d)].tree) \ {p}
  <2>1. \A i \in DOMAIN log[Group(d)].tree :
           i \in Leaves(Group(d), p) <=> log[Group(d)].tree[i] \in {p}
    BY DEF Leaves
  <2>2. {p} \in SUBSET Member
    OBVIOUS
  <2>3. Group(d) \in DOMAIN log /\ log[Group(d)] \in Commit
    BY <1>1, CommitBase
  <2> QED
    BY <2>1, <2>2, <2>3, BlankedSeats
<1> HIDE DEF tree
<1>3. log[Group(d)].admins \ {p} \in SUBSET Member
  BY <1>1, CommitBase
<1>4. log[Group(d)].admins \ {p} \subseteq Seated(tree)
  BY <1>1, <1>2, CommitBase
<1>5. log[Group(d)].admins \cap Seated(tree) \subseteq log[Group(d)].admins \ {p}
  BY <1>2
<1>6. CommitWith(d, tree, log[Group(d)].admins \ {p}, FALSE)
  BY DEF CancelPendingInvitation, tree
<1>7. dev' = Moved(d, Len(log) + 1) /\ UNCHANGED <<intents, jobs, hitches>>
  BY DEF CancelPendingInvitation
<1> QED
  BY <1>1, <1>2, <1>3, <1>4, <1>5, <1>6, <1>7, CommitStep

(* A flag of a device changes; nothing else of it does.                         *)
TimerSet(D, p, b) == [D EXCEPT ![p].timer = b]
StoredSet(D, p, b) == [D EXCEPT ![p].stored = b]
LEMMA TimerSetDevice ==
    ASSUME NEW D \in [Member -> Device], NEW p \in Member, NEW b \in BOOLEAN
    PROVE  /\ TimerSet(D, p, b) \in [Member -> Device]
           /\ \A x \in Member : /\ TimerSet(D, p, b)[x].head = D[x].head
                               /\ TimerSet(D, p, b)[x].queue = D[x].queue
                               /\ TimerSet(D, p, b)[x].stored = D[x].stored
  BY DEF Device, TimerSet

LEMMA StoredSetDevice ==
    ASSUME NEW D \in [Member -> Device], NEW p \in Member, NEW b \in BOOLEAN
    PROVE  /\ StoredSet(D, p, b) \in [Member -> Device]
           /\ \A x \in Member : /\ StoredSet(D, p, b)[x].head = D[x].head
                               /\ StoredSet(D, p, b)[x].queue = D[x].queue
                               /\ (x # p => StoredSet(D, p, b)[x] = D[x])
  BY DEF Device, StoredSet

LEMMA StoredSetFlag ==
    ASSUME NEW D \in [Member -> Device], NEW p \in Member, NEW b \in BOOLEAN
    PROVE  StoredSet(D, p, b)[p].stored = b
  BY DEF Device, StoredSet

(* A device takes in a Welcome.                                                 *)
Joined(D, p, c) == [D EXCEPT ![p].head = c, ![p].joined = c, ![p].stored = TRUE]

LEMMA JoinedDevice ==
    ASSUME NEW D \in [Member -> Device], NEW p \in Member, NEW c \in 0..MaxCommits + 1
    PROVE  /\ Joined(D, p, c) \in [Member -> Device]
           /\ \A x \in Member : Joined(D, p, c)[x].head = IF x = p THEN c ELSE D[x].head
           /\ \A x \in Member : Joined(D, p, c)[x].queue = D[x].queue
           /\ \A x \in Member \ {p} : Joined(D, p, c)[x].stored = D[x].stored
<1> DEFINE D1 == [D EXCEPT ![p].head = c]
           D2 == [D1 EXCEPT ![p].joined = c]
           D3 == StoredSet(D2, p, TRUE)
<1>1. D1 \in [Member -> Device] /\ \A x \in Member :
        /\ D1[x].head = IF x = p THEN c ELSE D[x].head
        /\ D1[x].queue = D[x].queue /\ D1[x].stored = D[x].stored
  BY DEF Device
<1> HIDE DEF D1
<1>2. D2 \in [Member -> Device] /\ \A x \in Member :
        /\ D2[x].head = D1[x].head
        /\ D2[x].queue = D1[x].queue /\ D2[x].stored = D1[x].stored
  BY <1>1 DEF Device
<1> HIDE DEF D2
<1>3. D3 \in [Member -> Device] /\ \A x \in Member :
        /\ D3[x].head = D2[x].head
        /\ D3[x].queue = D2[x].queue /\ (x # p => D3[x] = D2[x])
  BY <1>2, StoredSetDevice, ZenonT(60)
<1>4. D3 = Joined(D, p, c)
  BY DEF D1, D2, D3, Joined, StoredSet
<1> HIDE DEF D3
<1> QED
  BY <1>1, <1>2, <1>3, <1>4

LEMMA JoinedKeeps ==
    ASSUME NEW D \in [Member -> Device], NEW p \in Member, NEW c \in 0..MaxCommits + 1
    PROVE  /\ \A x \in Member : Joined(D, p, c)[x].queue = D[x].queue
           /\ \A x \in Member \ {p} : Joined(D, p, c)[x].stored = D[x].stored
  BY JoinedDevice

LEMMA InviteStep ==
    ASSUME DepartureInv, NEW d \in Member, NEW p \in Member, InviteByNpub(d, p)
    PROVE  DepartureInv'
<1> DEFINE tree == WithAdded(Group(d), p)
<1>1. MayCommit(d) /\ Group(d) \in DOMAIN log /\ log[Group(d)] \in Commit
  BY CommitBase DEF InviteByNpub
<1>2. /\ log[Group(d)].admins \in SUBSET Member
      /\ log[Group(d)].admins \subseteq Seated(log[Group(d)].tree)
  BY <1>1, CommitBase
<1>3. tree \in Seq(Member \cup {Blank}) /\ Seated(log[Group(d)].tree) \subseteq Seated(tree)
  BY <1>1, AddedSeats
<1>4. CommitWith(d, tree, log[Group(d)].admins, FALSE)
  BY DEF InviteByNpub
<1> HIDE DEF tree
<1>5. LogOK' /\ Len(log') = Len(log) + 1 /\ Len(log) + 1 \in 0..MaxCommits + 1
  BY <1>1, <1>2, <1>3, <1>4, LogOKFromCommit
<1>6. DevOK /\ JobsOK /\ HitchesOK /\ intents \subseteq Intent /\ Len(log) \in Nat
  BY InvParts DEF LogOK
<1>7. DevOK'
  <2> DEFINE D == Moved(d, Len(log) + 1)
             n == Len(log) + 1
  <2>1. /\ D \in [Member -> Device]
        /\ \A x \in Member : D[x].head = IF x = d THEN Len(log) + 1 ELSE dev[x].head
    BY <1>5, <1>6, MovedDevice
  <2>2. dev' = Joined(D, p, n)
    BY DEF InviteByNpub, Joined
  <2>3. n \in 0..MaxCommits + 1
    BY <1>5
  <2> HIDE DEF D, n
  <2>4. /\ dev' \in [Member -> Device]
        /\ \A x \in Member : dev'[x].head = IF x = p THEN n ELSE D[x].head
    BY <2>1, <2>2, <2>3, JoinedDevice
  <2>5. \A x \in Member : dev[x].head \in Nat /\ dev[x].head <= Len(log)
    BY <1>6, GroupAssumption DEF DevOK, HeadInv, Device
  <2>6. \A x \in Member : dev'[x].head <= Len(log')
    BY <1>5, <1>6, <2>1, <2>4, <2>5 DEF n
  <2> QED
    BY <2>4, <2>6 DEF DevOK, HeadInv
<1>8. UNCHANGED <<intents, jobs, hitches>>
  BY DEF InviteByNpub
<1> QED
  BY <1>5, <1>6, <1>7, <1>8, JobsKept, HitchesKept, PartsMakeInv

-----------------------------------------------------------------------------
(* The steps of the devices                                                   *)

LEMMA HandleStep ==
    ASSUME DepartureInv, NEW d \in Member, NEW c \in 1..Len(log), HandleCommit(d, c)
    PROVE  DepartureInv'
<1>1. LogOK /\ DevOK /\ JobsOK /\ HitchesOK /\ intents \subseteq Intent
  BY InvParts
<1>2. c \in 0..MaxCommits + 1 /\ c <= Len(log)
  BY <1>1, GroupAssumption DEF LogOK
<1>3. dev' = Moved(d, c) /\ UNCHANGED <<log, intents, jobs, hitches>>
  BY DEF HandleCommit
<1>4. DevOK'
  BY <1>1, <1>2, <1>3, MovedDevice DEF DevOK, HeadInv
<1> QED
  BY <1>1, <1>3, <1>4, LogKept, JobsKept, HitchesKept, PartsMakeInv

LEMMA LeaveStep == ASSUME DepartureInv, NEW m \in Member, LeaveGroup(m) PROVE DepartureInv'
<1>1. LogOK /\ DevOK /\ JobsOK /\ HitchesOK /\ intents \subseteq Intent
  BY InvParts
<1>2. intents' \subseteq Intent
  <2>1. Group(m) \in Nat /\ Group(m) # 0 /\ Group(m) <= MaxCommits + 1
    BY <1>1, GroupAssumption DEF DevOK, Device, Group, LeaveGroup, Receives, MembersOf
  <2>2. [by |-> m, of |-> m, at |-> Group(m)] \in Intent
    BY <2>1, GroupAssumption DEF Intent
  <2> QED
    BY <1>1, <2>2 DEF LeaveGroup
<1>3. DevOK'
  <2> DEFINE D1 == StoredSet(dev, m, FALSE)
  <2>1. D1 \in [Member -> Device] /\ \A x \in Member : D1[x].head = dev[x].head
    BY <1>1, StoredSetDevice, ZenonT(60) DEF DevOK
  <2> HIDE DEF D1
  <2>2. /\ TimerSet(D1, m, FALSE) \in [Member -> Device]
        /\ \A x \in Member : TimerSet(D1, m, FALSE)[x].head = D1[x].head
    BY <2>1, TimerSetDevice, ZenonT(60)
  <2>3. dev' = TimerSet(D1, m, FALSE)
    BY DEF LeaveGroup, D1, StoredSet, TimerSet
  <2>4. UNCHANGED log
    BY DEF LeaveGroup
  <2> QED
    BY <1>1, <2>1, <2>2, <2>3, <2>4 DEF DevOK, HeadInv
<1>4. UNCHANGED <<log, jobs, hitches>>
  BY DEF LeaveGroup
<1> QED
  BY <1>1, <1>2, <1>3, <1>4, LogKept, JobsKept, HitchesKept, PartsMakeInv

LEMMA AnnounceStep ==
    ASSUME DepartureInv, NEW d \in Member, NEW p \in Member, Announce(d, p)
    PROVE  DepartureInv'
<1>1. LogOK /\ DevOK /\ JobsOK /\ HitchesOK /\ intents \subseteq Intent
  BY InvParts
<1>2. Group(d) \in Nat /\ Group(d) # 0 /\ Group(d) <= MaxCommits + 1
  BY <1>1, GroupAssumption DEF DevOK, Device, Group, Announce, Receives, MembersOf
<1>3. [by |-> d, of |-> p, at |-> Group(d)] \in Intent
  BY <1>2, GroupAssumption DEF Intent
<1>4. intents' \subseteq Intent /\ UNCHANGED log /\ UNCHANGED dev /\ UNCHANGED jobs /\ UNCHANGED hitches
  BY <1>1, <1>3 DEF Announce
<1>5. DevOK'
  BY <1>1, <1>4 DEF DevOK, HeadInv
<1> QED
  BY <1>1, <1>4, <1>5, LogKept, JobsKept, HitchesKept, PartsMakeInv

LEMMA EnqueueStep ==
    ASSUME DepartureInv, NEW d \in Member, NEW i \in intents, EnqueueLeave(d, i)
    PROVE  DepartureInv'
<1>1. LogOK /\ DevOK /\ JobsOK /\ HitchesOK /\ intents \subseteq Intent
  BY InvParts
<1>2. i \in Intent /\ i.of \in Member
  BY <1>1 DEF Intent
<1>3. DevOK'
  <2> DEFINE D1 == [dev EXCEPT ![d].handled = @ \cup {i}]
             D2 == [D1 EXCEPT ![d].queue = @ \cup {i.of}]
  <2>1. D1 \in [Member -> Device] /\ \A x \in Member : D1[x].head = dev[x].head
    BY <1>1, <1>2 DEF DevOK, Device
  <2> HIDE DEF D1
  <2>2. D2 \in [Member -> Device] /\ \A x \in Member : D2[x].head = D1[x].head
    BY <1>2, <2>1 DEF Device
  <2> HIDE DEF D2
  <2>3. /\ TimerSet(D2, d, TRUE) \in [Member -> Device]
        /\ \A x \in Member : TimerSet(D2, d, TRUE)[x].head = D2[x].head
    BY <2>2, TimerSetDevice, ZenonT(60)
  <2>4. dev' = TimerSet(D2, d, TRUE)
    BY DEF EnqueueLeave, D1, D2, TimerSet, ArmsTimer
  <2>5. UNCHANGED log
    BY DEF EnqueueLeave
  <2> QED
    BY <1>1, <2>1, <2>2, <2>3, <2>4, <2>5 DEF DevOK, HeadInv
<1>4. UNCHANGED <<log, intents, jobs, hitches>>
  BY DEF EnqueueLeave
<1> QED
  BY <1>1, <1>3, <1>4, LogKept, JobsKept, HitchesKept, PartsMakeInv

-----------------------------------------------------------------------------
(* The queues and the functions of fired timers                               *)

(* A number that no running function has: there are more numbers than functions. *)
LEMMA UnusedIsNew ==
    ASSUME NEW js, IsFiniteSet(js)
    PROVE  Unused(js) \in Nat
<1>1. Cardinality(js) \in Nat
  BY FS_CardinalityType
<1> DEFINE m == Cardinality(js)
           All == 0..m
<1>2. IsFiniteSet(All) /\ Cardinality(All) = m + 1
  BY <1>1, FS_Interval
<1>3. \E n \in All : \A j \in js : j.n # n
  <2> SUFFICES ASSUME \A n \in All : \E j \in js : j.n = n
               PROVE  FALSE
    OBVIOUS
  <2> DEFINE f == [n \in All |-> CHOOSE j \in js : j.n = n]
  <2>1. \A n \in All : f[n] \in js /\ f[n].n = n
    OBVIOUS
  <2>2. f \in [All -> js]
    BY <2>1
  <2>3. Cardinality(js) < Cardinality(All)
    BY <1>1, <1>2
  <2> HIDE DEF f, All
  <2>4. PICK x \in All, y \in All : x # y /\ f[x] = f[y]
    BY <1>2, <2>2, <2>3, FS_PigeonHole
  <2> QED
    BY <2>1, <2>4
<1>4. Unused(js) \in All
  BY <1>3 DEF Unused
<1> QED
  BY <1>1, <1>4

LEMMA JobsChange ==
    ASSUME JobsOK, NEW d \in Member, NEW js \in SUBSET Job, IsFiniteSet(js),
           jobs' = [jobs EXCEPT ![d] = js]
    PROVE  JobsOK'
  BY DEF JobsOK, JobsInv

LEMMA EntriesAreMembers ==
    ASSUME DevOK, NEW d \in Member, NEW j \in Job
    PROVE  EntriesOf(d, j) \in SUBSET Member
  BY DEF DevOK, Device, Job, Queue, EntriesOf

(* A queue that was replaced is kept by the functions that were given it.       *)
LEMMA DetachedJobs ==
    ASSUME DevOK, NEW d \in Member, NEW js \in SUBSET Job, IsFiniteSet(js)
    PROVE  Detached(d, js) \in SUBSET Job /\ IsFiniteSet(Detached(d, js))
<1> DEFINE f == [j \in js |-> [j EXCEPT !.queue = [live |-> FALSE, entries |-> EntriesOf(d, j)]]]
           R == {f[j] : j \in js}
<1>1. Detached(d, js) = R
  BY DEF Detached
<1>2. \A j \in js : f[j] \in Job
  <2> SUFFICES ASSUME NEW j \in js PROVE f[j] \in Job
    OBVIOUS
  <2>1. EntriesOf(d, j) \in SUBSET Member
    BY EntriesAreMembers
  <2>2. [live |-> FALSE, entries |-> EntriesOf(d, j)] \in Queue
    BY <2>1 DEF Queue
  <2>3. \A q \in Queue : [j EXCEPT !.queue = q] \in Job
    BY DEF Job
  <2> QED
    BY <2>2, <2>3
<1>3. f \in Surjection(js, R)
  BY DEF Surjection
<1> HIDE DEF f
<1>4. IsFiniteSet(R)
  BY <1>3, FS_Surjection
<1> QED
  BY <1>1, <1>2, <1>4

LEMMA FilteredJobs ==
    ASSUME DevOK, NEW d \in Member, NEW js \in SUBSET Job, IsFiniteSet(js), NEW gone
    PROVE  Filtered(d, js, gone) \in SUBSET Job /\ IsFiniteSet(Filtered(d, js, gone))
  BY DetachedJobs DEF Filtered

(* The queue of a device is replaced.                                           *)
QueueSet(D, p, q) == [D EXCEPT ![p].queue = q]
LEMMA QueueSetDevice ==
    ASSUME NEW D \in [Member -> Device], NEW p \in Member, NEW q \in SUBSET Member
    PROVE  /\ QueueSet(D, p, q) \in [Member -> Device]
           /\ \A x \in Member : /\ QueueSet(D, p, q)[x].head = D[x].head
                               /\ QueueSet(D, p, q)[x].stored = D[x].stored
                               /\ QueueSet(D, p, q)[x].queue = IF x = p THEN q ELSE D[x].queue
  BY DEF Device, QueueSet

LEMMA TimerStep == ASSUME DepartureInv, NEW d \in Member, TimerFires(d) PROVE DepartureInv'
<1>1. LogOK /\ DevOK /\ JobsOK /\ HitchesOK /\ intents \subseteq Intent
  BY InvParts
<1>2. DevOK'
  <2>1. dev' = TimerSet(dev, d, FALSE)
    BY DEF TimerFires, TimerSet
  <2>2. dev' \in [Member -> Device] /\ \A x \in Member : dev'[x].head = dev[x].head
    BY <1>1, <2>1, TimerSetDevice, ZenonT(60) DEF DevOK
  <2>3. UNCHANGED log
    BY DEF TimerFires
  <2> QED
    BY <1>1, <2>2, <2>3 DEF DevOK, HeadInv
<1>3. JobsOK'
  <2>1. CASE dev[d].queue = {}
    BY <1>1, <2>1, JobsKept DEF TimerFires
  <2>2. CASE dev[d].queue # {}
    <3> DEFINE j == [n |-> Unused(jobs[d]), at |-> "group", queue |-> Live, gone |-> {}]
    <3>1. jobs[d] \in SUBSET Job /\ IsFiniteSet(jobs[d])
      BY <1>1 DEF JobsOK, JobsInv
    <3>2. Live \in Queue
      BY DEF Live, Queue
    <3>3. j \in Job
      BY <3>1, <3>2, UnusedIsNew DEF Job
    <3>4. jobs' = [jobs EXCEPT ![d] = jobs[d] \cup {j}]
      BY <1>1, <2>2 DEF TimerFires, JobsOK
    <3> HIDE DEF j
    <3>5. jobs[d] \cup {j} \in SUBSET Job /\ IsFiniteSet(jobs[d] \cup {j})
      BY <3>1, <3>3, FS_AddElement
    <3> QED
      BY <1>1, <3>4, <3>5, JobsChange
  <2> QED
    BY <2>1, <2>2
<1>4. UNCHANGED <<log, intents, hitches>>
  BY DEF TimerFires
<1> QED
  BY <1>1, <1>2, <1>3, <1>4, LogKept, HitchesKept, PartsMakeInv

(* A queue of members shrinks, the functions that are left go on.               *)
LEMMA QueueStep ==
    ASSUME DepartureInv, NEW d \in Member, NEW q \in SUBSET Member,
           NEW js \in SUBSET Job, IsFiniteSet(js),
           dev' = [dev EXCEPT ![d].queue = q], jobs' = [jobs EXCEPT ![d] = js],
           UNCHANGED <<log, intents>>, HitchesOK'
    PROVE  DepartureInv'
<1>1. LogOK /\ DevOK /\ JobsOK /\ intents \subseteq Intent
  BY InvParts
<1>2. DevOK'
  <2>1. dev' = QueueSet(dev, d, q)
    BY DEF QueueSet
  <2>2. dev' \in [Member -> Device] /\ \A x \in Member : dev'[x].head = dev[x].head
    BY <1>1, <2>1, QueueSetDevice DEF DevOK
  <2> QED
    BY <1>1, <2>2 DEF DevOK, HeadInv
<1> QED
  BY <1>1, <1>2, LogKept, JobsChange, PartsMakeInv

LEMMA CommittedStep ==
    ASSUME DepartureInv, NEW d \in Member, NEW j \in jobs[d], AutoCommitted(d, j)
    PROVE  DepartureInv'
<1>1. DevOK /\ JobsOK /\ HitchesOK
  BY InvParts
<1>2. jobs[d] \in SUBSET Job /\ IsFiniteSet(jobs[d])
  BY <1>1 DEF JobsOK, JobsInv
<1>3. jobs[d] \ {j} \in SUBSET Job /\ IsFiniteSet(jobs[d] \ {j})
  BY <1>2, FS_RemoveElement
<1>4. OnCommitted(d, j.gone) \in SUBSET Member
  BY <1>1 DEF DevOK, Device, OnCommitted
<1>5. /\ Filtered(d, jobs[d] \ {j}, j.gone) \in SUBSET Job
      /\ IsFiniteSet(Filtered(d, jobs[d] \ {j}, j.gone))
  BY <1>1, <1>3, FilteredJobs
<1>6. /\ dev' = [dev EXCEPT ![d].queue = OnCommitted(d, j.gone)]
      /\ jobs' = [jobs EXCEPT ![d] = Filtered(d, jobs[d] \ {j}, j.gone)]
      /\ UNCHANGED <<log, intents, hitches>>
  BY <1>1 DEF AutoCommitted, JobsOK
<1>7. HitchesOK'
  BY <1>1, <1>6, HitchesKept
<1> QED
  BY <1>4, <1>5, <1>6, <1>7, QueueStep

LEMMA ResubscribeStep == ASSUME DepartureInv, NEW d \in Member, Resubscribe(d) PROVE DepartureInv'
<1>1. LogOK /\ DevOK /\ JobsOK /\ HitchesOK /\ intents \subseteq Intent
  BY InvParts
<1>2. HitchesOK' /\ UNCHANGED <<log, intents, jobs>>
  BY <1>1, HitchKept DEF Resubscribe
<1>3. DevOK'
  <2>1. dev' = TimerSet(dev, d, FALSE)
    BY DEF Resubscribe, TimerSet
  <2>2. dev' \in [Member -> Device] /\ \A x \in Member : dev'[x].head = dev[x].head
    BY <1>1, <2>1, TimerSetDevice, ZenonT(60) DEF DevOK
  <2> QED
    BY <1>1, <1>2, <2>2 DEF DevOK, HeadInv
<1> QED
  BY <1>1, <1>2, <1>3, LogKept, JobsKept, PartsMakeInv

LEMMA RestartStep == ASSUME DepartureInv, NEW d \in Member, Restart(d) PROVE DepartureInv'
<1>1. LogOK /\ DevOK /\ JobsOK /\ HitchesOK /\ intents \subseteq Intent
  BY InvParts
<1>2. HitchesOK' /\ UNCHANGED <<log, intents>>
  BY <1>1, HitchKept DEF Restart
<1>3. DevOK'
  <2> DEFINE D == QueueSet(dev, d, {})
  <2>1. D \in [Member -> Device] /\ \A x \in Member : D[x].head = dev[x].head
    BY <1>1, QueueSetDevice DEF DevOK
  <2>2. dev' = TimerSet(D, d, FALSE)
    BY DEF Restart, TimerSet, QueueSet
  <2> HIDE DEF D
  <2>3. dev' \in [Member -> Device] /\ \A x \in Member : dev'[x].head = D[x].head
    BY <2>1, <2>2, TimerSetDevice, ZenonT(60)
  <2> QED
    BY <1>1, <1>2, <2>1, <2>3 DEF DevOK, HeadInv
<1>4. JobsOK'
  <2>1. {} \in SUBSET Job /\ IsFiniteSet({})
    BY FS_EmptySet
  <2> QED
    BY <1>1, <2>1, JobsChange DEF Restart
<1> QED
  BY <1>1, <1>2, <1>3, <1>4, LogKept, PartsMakeInv

(* What a fired timer finds: whom it may remove, and what becomes of the queue. *)
LEMMA FireBase ==
    ASSUME DepartureInv, NEW d \in Member, NEW j \in jobs[d], NEW stale
    PROVE  /\ j \in Job
           /\ Departing(d, j) \in SUBSET Member
           /\ OnCommitted(d, stale) \in SUBSET Member
           /\ Filtered(d, jobs[d] \ {j}, stale) \in SUBSET Job
           /\ IsFiniteSet(Filtered(d, jobs[d] \ {j}, stale))
<1>1. DevOK /\ JobsOK
  BY InvParts
<1>2. jobs[d] \in SUBSET Job /\ IsFiniteSet(jobs[d])
  BY <1>1 DEF JobsOK, JobsInv
<1>3. jobs[d] \ {j} \in SUBSET Job /\ IsFiniteSet(jobs[d] \ {j})
  BY <1>2, FS_RemoveElement
<1>4. OnCommitted(d, stale) \in SUBSET Member
  BY <1>1 DEF DevOK, Device, OnCommitted
<1>5. j \in Job
  BY <1>2
<1>6. Departing(d, j) \in SUBSET Member
  BY <1>1, <1>5, EntriesAreMembers DEF Departing
<1> QED
  BY <1>1, <1>3, <1>4, <1>5, <1>6, FilteredJobs

(* A removal commits without those who go and leaves everyone else where they   *)
(* are, in the tree and among the admins.                                       *)
LEMMA RemovalSound ==
    ASSUME DepartureInv, NEW d \in Member, MayCommit(d), NEW gone \in SUBSET Member
    PROVE  LET tree == Blanked(Group(d), UNION {LeavesToRemove(Group(d), p) : p \in gone})
               rest == RemainingAdmins(Group(d), gone)
           IN  /\ tree \in Seq(Member \cup {Blank})
               /\ Seated(tree) = Seated(log[Group(d)].tree) \ gone
               /\ rest \in SUBSET Member /\ rest \subseteq Seated(tree)
               /\ log[Group(d)].admins \cap Seated(tree) \subseteq rest
<1> DEFINE leaves == UNION {LeavesToRemove(Group(d), p) : p \in gone}
           tree == Blanked(Group(d), leaves)
<1>1. \A i \in DOMAIN log[Group(d)].tree : i \in leaves <=> log[Group(d)].tree[i] \in gone
  BY DEF LeavesToRemove, Leaves
<1> HIDE DEF leaves
<1>2. Group(d) \in DOMAIN log /\ log[Group(d)] \in Commit
  BY CommitBase
<1>3. tree \in Seq(Member \cup {Blank}) /\ Seated(tree) = Seated(log[Group(d)].tree) \ gone
  BY <1>1, <1>2, BlankedSeats
<1> HIDE DEF tree
<1>4. RemainingAdmins(Group(d), gone) = log[Group(d)].admins \ gone
  BY DEF RemainingAdmins
<1>5. /\ log[Group(d)].admins \in SUBSET Member
      /\ log[Group(d)].admins \subseteq Seated(log[Group(d)].tree)
  BY CommitBase
<1>6. /\ RemainingAdmins(Group(d), gone) \in SUBSET Member
      /\ RemainingAdmins(Group(d), gone) \subseteq Seated(tree)
      /\ log[Group(d)].admins \cap Seated(tree) \subseteq RemainingAdmins(Group(d), gone)
  BY <1>3, <1>4, <1>5
<1> QED
  BY <1>3, <1>6 DEF tree, leaves

(* A function that awaits its commit.                                           *)
Awaiting(j, gone) == [j EXCEPT !.at = "commit", !.queue = Live, !.gone = gone]
LEMMA AwaitingJob ==
    ASSUME NEW j \in Job, NEW gone \in SUBSET Member
    PROVE  /\ Awaiting(j, gone) \in Job
           /\ Awaiting(j, gone).gone = gone /\ Awaiting(j, gone).queue = Live
<1> DEFINE j1 == [j EXCEPT !.at = "commit"]
           j2 == [j1 EXCEPT !.queue = Live]
<1>1. Live \in Queue
  BY DEF Live, Queue
<1>2. j1 \in Job
  BY DEF Job
<1> HIDE DEF j1
<1>3. \A q \in Queue : [j1 EXCEPT !.queue = q] \in Job /\ [j1 EXCEPT !.queue = q].queue = q
  BY <1>2 DEF Job
<1>4. j2 \in Job /\ j2.queue = Live
  BY <1>1, <1>3
<1> HIDE DEF j2
<1>5. /\ [j2 EXCEPT !.gone = gone] \in Job /\ [j2 EXCEPT !.gone = gone].gone = gone
      /\ [j2 EXCEPT !.gone = gone].queue = j2.queue
  BY <1>4 DEF Job
<1>6. Awaiting(j, gone) = [j2 EXCEPT !.gone = gone]
  BY DEF Awaiting, j1, j2
<1> QED
  BY <1>4, <1>5, <1>6

LEMMA FireStep ==
    ASSUME DepartureInv, NEW d \in Member, NEW j \in jobs[d], FireAutoCommit(d, j)
    PROVE  DepartureInv'
<1> DEFINE gone  == Departing(d, j)
           stale == EntriesOf(d, j) \ gone
           rest  == Filtered(d, jobs[d] \ {j}, stale)
           queue == OnCommitted(d, stale)
           tree  == Blanked(Group(d), UNION {LeavesToRemove(Group(d), p) : p \in gone})
           heirs == RemainingAdmins(Group(d), gone)
<1>1. LogOK /\ DevOK /\ JobsOK /\ HitchesOK /\ intents \subseteq Intent
  BY InvParts
<1>2. /\ j \in Job /\ gone \in SUBSET Member /\ queue \in SUBSET Member
      /\ rest \in SUBSET Job /\ IsFiniteSet(rest)
  BY FireBase
<1>3. CASE /\ dev' = [dev EXCEPT ![d].queue = queue] /\ jobs' = [jobs EXCEPT ![d] = rest]
           /\ UNCHANGED <<log, intents>> /\ (UNCHANGED hitches \/ Hitch("failed"))
  <2>1. HitchesOK'
    BY <1>1, <1>3, HitchKept, HitchesKept
  <2> HIDE DEF gone, stale, rest, queue
  <2> QED
    BY <1>2, <1>3, <2>1, QueueStep
<1>4. CASE /\ MayCommit(d) /\ CommitWith(d, tree, heirs, TRUE)
           /\ dev' = [dev EXCEPT ![d].queue = queue, ![d].head = Len(log) + 1]
           /\ jobs' = [jobs EXCEPT ![d] = rest \cup {Awaiting(j, gone)}]
           /\ UNCHANGED <<intents, hitches>>
  <2> HIDE DEF gone, stale, rest, queue
  <2>1. /\ tree \in Seq(Member \cup {Blank}) /\ heirs \in SUBSET Member
        /\ heirs \subseteq Seated(tree) /\ log[Group(d)].admins \cap Seated(tree) \subseteq heirs
    BY <1>2, <1>4, RemovalSound
  <2> HIDE DEF tree, heirs
  <2>2. LogOK' /\ Len(log') = Len(log) + 1 /\ Len(log) + 1 \in 0..MaxCommits + 1
    BY <1>4, <2>1, LogOKFromCommit
  <2>3. DevOK'
    <3> DEFINE D == QueueSet(dev, d, queue)
               n == Len(log) + 1
    <3>1. D \in [Member -> Device] /\ \A x \in Member : D[x].head = dev[x].head
      BY <1>1, <1>2, QueueSetDevice DEF DevOK
    <3>2. dev' = [D EXCEPT ![d].head = n]
      BY <1>4 DEF QueueSet
    <3>3. n \in 0..MaxCommits + 1 /\ Len(log') = n /\ n = Len(log) + 1 /\ Len(log) \in Nat
      BY <1>1, <2>2 DEF LogOK
    <3>4. \A x \in Member : dev[x].head \in Nat /\ dev[x].head <= Len(log)
      BY <1>1, GroupAssumption DEF DevOK, HeadInv, Device
    <3> HIDE DEF D, n
    <3>5. /\ dev' \in [Member -> Device]
          /\ \A x \in Member : dev'[x].head = IF x = d THEN n ELSE D[x].head
      BY <3>1, <3>2, <3>3, SMTT(40) DEF Device
    <3>6. \A x \in Member : dev'[x].head <= Len(log')
      BY <3>1, <3>3, <3>4, <3>5
    <3> QED
      BY <3>5, <3>6 DEF DevOK, HeadInv
  <2>4. JobsOK'
    <3>1. Awaiting(j, gone) \in Job
      BY <1>2, AwaitingJob
    <3>2. rest \cup {Awaiting(j, gone)} \in SUBSET Job /\ IsFiniteSet(rest \cup {Awaiting(j, gone)})
      BY <1>2, <3>1, FS_AddElement
    <3> QED
      BY <1>1, <1>4, <3>2, JobsChange
  <2> QED
    BY <1>1, <1>4, <2>2, <2>3, <2>4, HitchesKept, PartsMakeInv
<1> QED
  BY <1>3, <1>4 DEF FireAutoCommit, MayRemove, Awaiting

-----------------------------------------------------------------------------
(* The roles                                                                  *)

LEMMA DepartureInit == Init => DepartureInv
<1> SUFFICES ASSUME Init PROVE DepartureInv
  OBVIOUS
<1> DEFINE first == [by |-> Nobody, parent |-> 0, past |-> {1}, tree |-> Founders,
                     admins |-> FirstAdmins, created |-> CHOOSE t \in Clocks : TRUE, auto |-> FALSE]
           in(d) == \E i \in DOMAIN Founders : Founders[i] = d
           start(d) == [head |-> IF in(d) THEN 1 ELSE 0, joined |-> IF in(d) THEN 1 ELSE 0,
                        stored |-> in(d), handled |-> {}, queue |-> {}, timer |-> FALSE]
<1>1. Founders \in Seq(Member \cup {Blank}) /\ FirstAdmins \in SUBSET Member
  <2>1. \A i \in DOMAIN Founders : Founders[i] \in Member
    BY GroupAssumption
  <2> QED
    BY <2>1, GroupAssumption
<1>2. first \in Commit
  <2>1. (CHOOSE t \in Clocks : TRUE) \in Clocks
    BY GroupAssumption
  <2>2. {1} \in SUBSET (1..MaxCommits + 1) /\ 0 \in 0..MaxCommits
    BY GroupAssumption
  <2> QED
    BY <1>1, <2>1, <2>2 DEF Commit
<1>3. FirstAdmins \subseteq Seated(Founders)
  BY <1>1, GroupAssumption DEF Seated
<1>4. first.admins = FirstAdmins /\ first.tree = Founders
  OBVIOUS
<1>5. log = <<first>>
  BY DEF Init
<1> HIDE DEF first
<1>6. log \in Seq(Commit) /\ Len(log) = 1 /\ log[1] = first /\ DOMAIN log = 1..1
  BY <1>2, <1>5
<1>7. LogOK
  <2>1. Len(log) \in 1..MaxCommits + 1 /\ \A c \in DOMAIN log : c = 1
    BY <1>6, GroupAssumption
  <2>2. \A c \in 2..Len(log) : FALSE
    BY <1>6
  <2>3. MembersAt(1) = Seated(Founders)
    BY <1>4, <1>6 DEF MembersAt, Leaves, Seated
  <2> QED
    BY <1>2, <1>3, <1>4, <1>6, <2>1, <2>2, <2>3 DEF LogOK, LogInv, NobodyIsDemoted
<1>8. DevOK
  <2>1. dev = [d \in Member |-> start(d)]
    BY DEF Init
  <2>2. \A d \in Member : start(d) \in Device /\ start(d).head <= 1
    <3> SUFFICES ASSUME NEW d \in Member PROVE start(d) \in Device /\ start(d).head <= 1
      OBVIOUS
    <3>1. \A h \in 0..1, b \in BOOLEAN, u \in BOOLEAN :
            [head |-> h, joined |-> h, stored |-> b, handled |-> {}, queue |-> {}, timer |-> u] \in Device
      BY GroupAssumption DEF Device
    <3>2. in(d) \in BOOLEAN /\ FALSE \in BOOLEAN
      OBVIOUS
    <3>3. (IF in(d) THEN 1 ELSE 0) \in 0..1
      OBVIOUS
    <3>4. start(d).head <= 1
      BY <3>3
    <3> HIDE DEF in
    <3>5. start(d) \in Device
      BY <3>1, <3>2, <3>3, Zenon
    <3> QED
      BY <3>4, <3>5
  <2> HIDE DEF start
  <2> QED
    BY <1>6, <2>1, <2>2 DEF DevOK, HeadInv
<1>9. JobsOK
  <2>1. jobs = [d \in Member |-> {}]
    BY DEF Init
  <2> QED
    BY <2>1, FS_EmptySet DEF JobsOK, JobsInv
<1>10. HitchesOK /\ intents \subseteq Intent
  BY FS_EmptySet, GroupAssumption DEF Init, HitchesOK
<1> QED
  BY <1>7, <1>8, <1>9, <1>10, InvParts

LEMMA DepartureNext == DepartureInv /\ [Next]_vars => DepartureInv'
<1> SUFFICES ASSUME DepartureInv, [Next]_vars PROVE DepartureInv'
  OBVIOUS
<1>1. CASE UNCHANGED vars
  <2>1. LogOK /\ DevOK /\ JobsOK /\ HitchesOK /\ intents \subseteq Intent
    BY InvParts
  <2>2. UNCHANGED log /\ UNCHANGED dev /\ UNCHANGED jobs /\ UNCHANGED hitches /\ UNCHANGED intents
    BY <1>1 DEF vars
  <2>3. DevOK'
    BY <2>1, <2>2 DEF DevOK, HeadInv
  <2> QED
    BY <2>1, <2>2, <2>3, LogKept, JobsKept, HitchesKept, PartsMakeInv
<1>2. ASSUME NEW d \in Member, LeaveGroup(d) \/ Resubscribe(d) \/ Restart(d) PROVE DepartureInv'
  BY <1>2, LeaveStep, ResubscribeStep, RestartStep
<1>6. ASSUME NEW d \in Member, NEW p \in Member, Announce(d, p) PROVE DepartureInv'
  BY <1>6, AnnounceStep
<1>3. ASSUME NEW d \in Member, AdminActs(d) PROVE DepartureInv'
  BY <1>3, RenameStep, GrantStep, CancelStep, InviteStep DEF AdminActs
<1>4. ASSUME NEW d \in Member, Listens(d) PROVE DepartureInv'
  BY <1>4, HandleStep, EnqueueStep DEF Listens
<1>5. ASSUME NEW d \in Member, Finalises(d) PROVE DepartureInv'
  BY <1>5, TimerStep, FireStep, CommittedStep DEF Finalises
<1> QED
  BY <1>1, <1>2, <1>3, <1>4, <1>5, <1>6 DEF Next

(* The types of the model, and that no state names an admin who has no leaf.    *)
THEOREM TypeCorrect == Spec => []TypeOK
<1>1. DepartureInv => TypeOK
  BY DEF DepartureInv
<1> QED
  BY DepartureInit, DepartureNext, <1>1, PTL DEF Spec

(* A commit that grants, renames, invites, cancels or removes leaves the admin  *)
(* role with everyone who stays, whichever states of the log the admins are at. *)
THEOREM RolesAreKept == Spec => []NobodyIsDemoted
<1>1. DepartureInv => NobodyIsDemoted
  BY DEF DepartureInv, LogInv
<1> QED
  BY DepartureInit, DepartureNext, <1>1, PTL DEF Spec

-----------------------------------------------------------------------------
(* The tree of states, and what each step does to a device                      *)

(* What a state is made from: its past is its parent's and itself, its author    *)
(* an admin of its parent, and only guests are added.  In one past no two        *)
(* states have the same parent.                                                 *)
MayBeAdmin == FirstAdmins \cup Grantees
PastOf(c) == c \in log[c].past /\ log[c].past \subseteq 1..c /\ log[c].admins \subseteq MayBeAdmin
MadeFrom(c) ==
    /\ log[c].past = log[log[c].parent].past \cup {c}
    /\ log[c].by \in log[log[c].parent].admins
    /\ MembersAt(c) \subseteq MembersAt(log[c].parent) \cup Guests
OneLine(c) == \A x, y \in log[c].past \ {1} : log[x].parent = log[y].parent => x = y
LineInv ==
    /\ log[1].parent = 0
    /\ \A c \in 1..Len(log) : PastOf(c) /\ OneLine(c)
    /\ \A c \in 2..Len(log) : MadeFrom(c)

(* A device's own commits are never rolled back: it stays on a state that has    *)
(* them in its past.                                                            *)
OnOwn(c) == Group(log[c].by) \in 1..Len(log) /\ c \in log[Group(log[c].by)].past
OwnInv == \A c \in 2..Len(log) : OnOwn(c)

(* Whom a queue or a running function names, and of whom a device has read.     *)
GoneOf(j) == j.queue.entries \cup j.gone
Told(d) == {i.of : i \in dev[d].handled}

(* A step that adds one state, made by d on its own.                            *)
CommitsOne(d) ==
    \E n \in Nat :
        /\ n = Len(log) + 1
        /\ MayCommit(d) /\ Len(log') = n /\ \A c \in 1..Len(log) : log'[c] = log[c]
        /\ log'[n].by = d /\ log'[n].parent = Group(d)
        /\ log'[n].past = log[Group(d)].past \cup {n}
        /\ log'[n].admins \subseteq MayBeAdmin
        /\ MembersAt(n)' \subseteq MembersOf(d) \cup Guests

LEMMA CommitAddsOne ==
    ASSUME DepartureInv, LineInv, NEW d \in Member, MayCommit(d),
           NEW tree \in Seq(Member \cup {Blank}), NEW admins \in SUBSET Member,
           NEW auto \in BOOLEAN, CommitWith(d, tree, admins, auto),
           admins \subseteq MayBeAdmin, Seated(tree) \subseteq MembersOf(d) \cup Guests
    PROVE  CommitsOne(d)
<1>1. PICK n \in Nat : n = Len(log) + 1
  BY InvParts DEF LogOK
<1>2. /\ log' \in Seq(Commit) /\ Len(log') = n /\ \A c \in 1..Len(log) : log'[c] = log[c]
      /\ log'[n].tree = tree /\ log'[n].admins = admins /\ log'[n].parent = Group(d)
  BY <1>1, LogGrows
<1>3. log'[n].by = d /\ log'[n].past = log[Group(d)].past \cup {n}
  <2>1. PICK t \in Clocks : log' = Append(log, Child(Group(d), d, tree, admins, auto, t))
    BY DEF CommitWith
  <2> DEFINE new == Child(Group(d), d, tree, admins, auto, t)
  <2>2. new.by = d /\ new.past = log[Group(d)].past \cup {n}
    BY <1>1 DEF Child
  <2> HIDE DEF new
  <2>3. log \in Seq(Commit)
    BY InvParts DEF LogOK, LogInv
  <2>4. log'[n] = new
    BY <1>1, <2>1, <2>3 DEF new
  <2> QED
    BY <2>2, <2>4
<1>4. MembersAt(n)' = Seated(tree)
  BY <1>2 DEF MembersAt, Leaves, Seated
<1> QED
  BY <1>1, <1>2, <1>3, <1>4 DEF CommitsOne

LEMMA LineKept == ASSUME LineInv, UNCHANGED log PROVE LineInv'
  BY DEF LineInv, PastOf, OneLine, MadeFrom, MembersAt, Leaves

LEMMA LineGrows ==
    ASSUME DepartureInv, LineInv, NEW d \in Member, CommitsOne(d)
    PROVE  LineInv'
<1>2. PICK n \in Nat :
      /\ n = Len(log) + 1 /\ MayCommit(d) /\ Len(log') = n /\ \A c \in 1..Len(log) : log'[c] = log[c]
      /\ log'[n].by = d /\ log'[n].parent = Group(d)
      /\ log'[n].past = log[Group(d)].past \cup {n}
      /\ log'[n].admins \subseteq MayBeAdmin
      /\ MembersAt(n)' \subseteq MembersOf(d) \cup Guests
  BY DEF CommitsOne
<1>1. n = Len(log) + 1
  BY <1>2
<1>3. PICK g \in 1..Len(log) : g = Group(d) /\ MembersOf(d) = MembersAt(g)
  BY <1>2, CommitterSeated, CommitBase, MembersAreSeated
<1>4. \A c \in 1..Len(log) : MembersAt(c)' = MembersAt(c)
  BY <1>2 DEF MembersAt, Leaves
<1>5. \A c \in 2..Len(log) : log[c].parent \in 1..c - 1
  BY InvParts DEF LogOK, LogInv
<1>6. Len(log) \in Nat /\ Len(log) >= 1 /\ g \in Nat
  BY <1>1, <1>3, InvParts DEF LogOK
<1>7. ASSUME NEW c \in 1..Len(log) PROVE (PastOf(c) /\ OneLine(c))'
  <2>1. PastOf(c) /\ OneLine(c) /\ log'[c] = log[c]
    BY <1>2 DEF LineInv
  <2>2. \A x \in log[c].past : x \in 1..Len(log)
    BY <1>6, <2>1 DEF PastOf
  <2> QED
    BY <1>2, <2>1, <2>2 DEF PastOf, OneLine
<1>8. ASSUME NEW c \in 2..Len(log) PROVE MadeFrom(c)'
  <2>1. MadeFrom(c) /\ log'[c] = log[c] /\ c \in 1..Len(log)
    BY <1>2 DEF LineInv
  <2>2. log[c].parent \in 1..Len(log)
    BY <1>5, <1>6
  <2>3. log'[log[c].parent] = log[log[c].parent]
    BY <1>2, <2>2
  <2> QED
    BY <1>4, <2>1, <2>2, <2>3 DEF MadeFrom
<1>9. PastOf(n)'
  <2>1. log[g].past \subseteq 1..g
    BY <1>3 DEF LineInv, PastOf
  <2> QED
    BY <1>1, <1>2, <1>3, <1>6, <2>1 DEF PastOf
<1>10. OneLine(n)'
  <2>1. log[g].past \subseteq 1..g /\ OneLine(g)
    BY <1>3 DEF LineInv, PastOf
  <2>2. \A x \in log[g].past \ {1} : x \in 2..Len(log) /\ log'[x] = log[x] /\ log[x].parent < g
    BY <1>2, <1>5, <1>6, <2>1
  <2>3. log'[n].past = log[g].past \cup {n} /\ log'[n].parent = g
    BY <1>2, <1>3
  <2> SUFFICES ASSUME NEW x \in log'[n].past \ {1}, NEW y \in log'[n].past \ {1},
                      log'[x].parent = log'[y].parent
               PROVE  x = y
    BY DEF OneLine
  <2>4. CASE x \in log[g].past /\ y \in log[g].past
    BY <2>1, <2>2, <2>4 DEF OneLine
  <2> QED
    BY <1>6, <2>2, <2>3, <2>4
<1>11. MadeFrom(n)'
  <2>1. log'[g] = log[g] /\ MembersAt(g)' = MembersAt(g)
    BY <1>2, <1>3, <1>4
  <2>2. d \in log[g].admins
    BY <1>2, <1>3 DEF MayCommit
  <2> QED
    BY <1>2, <1>3, <2>1, <2>2 DEF MadeFrom
<1>12. \A c \in 1..Len(log') : c \in 1..Len(log) \/ c = n
  BY <1>1, <1>2, <1>6
<1>13. \A c \in 2..Len(log') : c \in 2..Len(log) \/ c = n
  BY <1>1, <1>2, <1>6
<1>14. log'[1].parent = 0
  BY <1>2, <1>6 DEF LineInv
<1> QED
  BY <1>7, <1>8, <1>9, <1>10, <1>11, <1>12, <1>13, <1>14 DEF LineInv

(* An invitation adds the invited and nobody else.                              *)
LEMMA AddedAtMost ==
    ASSUME NEW c \in DOMAIN log, log[c] \in Commit, NEW p \in Member
    PROVE  Seated(WithAdded(c, p)) \subseteq Seated(log[c].tree) \cup {p}
<1> DEFINE tree == log[c].tree
           first == CHOOSE i \in DOMAIN tree : tree[i] = Blank /\ \A j \in 1..i - 1 : tree[j] # Blank
<1>1. tree \in Seq(Member \cup {Blank})
  BY DEF Commit
<1>2. WithAdded(c, p) = Append(tree, p) \/ WithAdded(c, p) = [tree EXCEPT ![first] = p]
  BY DEF WithAdded
<1> HIDE DEF tree, first
<1>3. Seated(Append(tree, p)) \subseteq Seated(tree) \cup {p}
  BY <1>1 DEF Seated
<1>4. Seated([tree EXCEPT ![first] = p]) \subseteq Seated(tree) \cup {p}
  BY <1>1 DEF Seated
<1> QED
  BY <1>2, <1>3, <1>4 DEF tree

LEMMA AdminsMayBe ==
    ASSUME DepartureInv, LineInv, NEW d \in Member, MayCommit(d)
    PROVE  log[Group(d)].admins \subseteq MayBeAdmin
  BY CommitterSeated DEF LineInv, PastOf

LEMMA AdminsAddOne ==
    ASSUME DepartureInv, LineInv, NEW d \in Member, AdminActs(d)
    PROVE  CommitsOne(d)
<1>1. MayCommit(d)
  BY DEF AdminActs, Rename, GrantAdmin, CancelPendingInvitation, InviteByNpub
<1>2. /\ Group(d) \in DOMAIN log /\ log[Group(d)] \in Commit
      /\ log[Group(d)].tree \in Seq(Member \cup {Blank})
      /\ log[Group(d)].admins \in SUBSET Member /\ log[Group(d)].admins \subseteq MayBeAdmin
      /\ MembersOf(d) = Seated(log[Group(d)].tree)
  BY <1>1, CommitBase, AdminsMayBe
<1>3. CASE Rename(d)
  BY <1>1, <1>2, <1>3, CommitAddsOne DEF Rename
<1>4. ASSUME NEW p \in Member, GrantAdmin(d, p) PROVE CommitsOne(d)
  <2>1. GrantedAdmins(Group(d), p) \in SUBSET Member /\ GrantedAdmins(Group(d), p) \subseteq MayBeAdmin
    BY <1>2, <1>4 DEF GrantAdmin, GrantedAdmins, MayBeAdmin
  <2> QED
    BY <1>1, <1>2, <1>4, <2>1, CommitAddsOne DEF GrantAdmin
<1>5. ASSUME NEW p \in Member, CancelPendingInvitation(d, p) PROVE CommitsOne(d)
  <2> DEFINE tree == Blanked(Group(d), Leaves(Group(d), p))
  <2>1. \A i \in DOMAIN log[Group(d)].tree :
           i \in Leaves(Group(d), p) <=> log[Group(d)].tree[i] \in {p}
    BY DEF Leaves
  <2>2. tree \in Seq(Member \cup {Blank}) /\ Seated(tree) = Seated(log[Group(d)].tree) \ {p}
    BY <1>2, <2>1, BlankedSeats, ZenonT(60)
  <2>3. CommitWith(d, tree, log[Group(d)].admins \ {p}, FALSE)
    BY <1>5 DEF CancelPendingInvitation
  <2> HIDE DEF tree
  <2>4. log[Group(d)].admins \ {p} \in SUBSET Member /\ log[Group(d)].admins \ {p} \subseteq MayBeAdmin
    BY <1>2
  <2> QED
    BY <1>1, <1>2, <2>2, <2>3, <2>4, CommitAddsOne
<1>6. ASSUME NEW p \in Member, InviteByNpub(d, p) PROVE CommitsOne(d)
  <2> DEFINE tree == WithAdded(Group(d), p)
  <2>1. tree \in Seq(Member \cup {Blank}) /\ Seated(tree) \subseteq Seated(log[Group(d)].tree) \cup {p}
    BY <1>2, AddedSeats, AddedAtMost
  <2>2. CommitWith(d, tree, log[Group(d)].admins, FALSE) /\ p \in Guests
    BY <1>6 DEF InviteByNpub
  <2> HIDE DEF tree
  <2> QED
    BY <1>1, <1>2, <2>1, <2>2, CommitAddsOne
<1> QED
  BY <1>3, <1>4, <1>5, <1>6 DEF AdminActs

LEMMA TimerAddsOne ==
    ASSUME DepartureInv, LineInv, NEW d \in Member, NEW j \in jobs[d], FireAutoCommit(d, j)
    PROVE  \/ UNCHANGED log
           \/ /\ CommitsOne(d)
              /\ \E n \in Nat : Len(log') = n /\ MembersAt(n)' \subseteq MembersOf(d) \ Departing(d, j)
<1> DEFINE gone == Departing(d, j)
           tree == Blanked(Group(d), UNION {LeavesToRemove(Group(d), p) : p \in gone})
           heirs == RemainingAdmins(Group(d), gone)
<1>1. UNCHANGED log \/ (MayCommit(d) /\ CommitWith(d, tree, heirs, TRUE))
  BY DEF FireAutoCommit, MayRemove
<1>2. CASE MayCommit(d) /\ CommitWith(d, tree, heirs, TRUE)
  <2>1. gone \in SUBSET Member
    BY FireBase
  <2>2. heirs \subseteq MayBeAdmin
    BY <1>2, AdminsMayBe DEF RemainingAdmins
  <2> HIDE DEF gone
  <2>3. /\ tree \in Seq(Member \cup {Blank}) /\ heirs \in SUBSET Member
        /\ Seated(tree) = Seated(log[Group(d)].tree) \ gone
    BY <1>2, <2>1, RemovalSound
  <2> HIDE DEF tree, heirs
  <2>4. MembersOf(d) = Seated(log[Group(d)].tree)
    BY <1>2, CommitBase
  <2>5. CommitsOne(d)
    BY <1>2, <2>2, <2>3, <2>4, CommitAddsOne
  <2>6. PICK n \in Nat : n = Len(log) + 1
    BY InvParts DEF LogOK
  <2>7. Len(log') = n /\ log'[n].tree = tree
    BY <1>2, <2>3, <2>6, LogGrows, Zenon
  <2>8. MembersAt(n)' = Seated(tree)
    BY <2>7 DEF MembersAt, Leaves, Seated
  <2> QED
    BY <2>3, <2>4, <2>5, <2>7, <2>8 DEF gone
<1> QED
  BY <1>1, <1>2

(* What a step does to the state a device is on.                                *)
Stays(x) == dev'[x].head = dev[x].head
Commits(x) == CommitsOne(x) /\ dev'[x].head = Len(log')
Joins(x) ==
    /\ x \in Guests /\ ~dev[x].stored /\ dev'[x].stored
    /\ \E d \in Member : Commits(d) /\ dev'[x].head = Len(log')
Follows(x) ==
    /\ UNCHANGED log /\ dev'[x].head \in 2..Len(log)
    /\ log[dev'[x].head].parent = dev[x].head /\ dev[x].head \in 1..Len(log)
RollsBack(x) ==
    /\ UNCHANGED log /\ {dev[x].head, dev'[x].head} \subseteq 2..Len(log)
    /\ dev'[x].head # dev[x].head
    /\ log[dev'[x].head].parent = log[dev[x].head].parent /\ log[dev[x].head].by # x
HeadStep ==
    /\ UNCHANGED log \/ \E d \in Member : Commits(d)
    /\ \A x \in Member : Stays(x) \/ Commits(x) \/ Joins(x) \/ Follows(x) \/ RollsBack(x)

LEMMA MovedOnly ==
    ASSUME DevOK, NEW d \in Member, NEW c \in 0..MaxCommits + 1
    PROVE  /\ \A x \in Member : x # d => Moved(d, c)[x] = dev[x]
           /\ Moved(d, c)[d].handled = dev[d].handled
           /\ Moved(d, c)[d].timer = dev[d].timer
  BY DEF DevOK, Moved, Device

LEMMA JoinedOnly ==
    ASSUME NEW D \in [Member -> Device], NEW p \in Member, NEW c \in 0..MaxCommits + 1
    PROVE  /\ \A x \in Member : x # p => Joined(D, p, c)[x] = D[x]
           /\ Joined(D, p, c)[p].head = c /\ Joined(D, p, c)[p].stored
           /\ Joined(D, p, c)[p].handled = D[p].handled /\ Joined(D, p, c)[p].queue = D[p].queue
<1> DEFINE D1 == [D EXCEPT ![p].head = c]
           D2 == [D1 EXCEPT ![p].joined = c]
<1>1. /\ D1 \in [Member -> Device] /\ D1[p].head = c /\ D1[p].handled = D[p].handled
      /\ \A x \in Member : x # p => D1[x] = D[x]
  BY DEF Device
<1> HIDE DEF D1
<1>2. /\ D2 \in [Member -> Device] /\ D2[p].head = D1[p].head /\ D2[p].handled = D1[p].handled
      /\ \A x \in Member : x # p => D2[x] = D1[x]
  BY <1>1 DEF Device
<1> HIDE DEF D2
<1>3. /\ StoredSet(D2, p, TRUE)[p].head = D2[p].head
      /\ StoredSet(D2, p, TRUE)[p].handled = D2[p].handled
      /\ \A x \in Member : x # p => StoredSet(D2, p, TRUE)[x] = D2[x]
  BY <1>2 DEF Device, StoredSet
<1>4. StoredSet(D2, p, TRUE)[p].stored
  BY <1>2, StoredSetFlag, Zenon
<1>5. StoredSet(D2, p, TRUE) = Joined(D, p, c)
  BY DEF D1, D2, Joined, StoredSet
<1>6. Joined(D, p, c)[p].queue = D[p].queue
  BY JoinedKeeps, ZenonT(60)
<1> QED
  BY <1>1, <1>2, <1>3, <1>4, <1>5, <1>6

(* What a commit by hand changes: the state of the admin, and of who it invites. *)
ByHand(d, n) ==
    /\ n \in Nat /\ n = Len(log) + 1 /\ Len(log') = n
    /\ UNCHANGED <<intents, jobs, hitches>>
    /\ \A x \in Member : x # d =>
         \/ dev'[x] = dev[x]
         \/ /\ x \in Guests /\ ~dev[x].stored /\ dev'[x].stored /\ dev'[x].head = n
            /\ dev'[x].handled = dev[x].handled /\ dev'[x].queue = dev[x].queue
    /\ dev'[d].head = n /\ dev[d].stored /\ dev'[d].stored
    /\ dev'[d].handled = dev[d].handled /\ dev'[d].queue = dev[d].queue

LEMMA AdminsByHand ==
    ASSUME DepartureInv, LineInv, NEW d \in Member, AdminActs(d)
    PROVE  \E n \in Nat : ByHand(d, n)
<1>1. PICK n \in Nat : n = Len(log) + 1 /\ Len(log') = n
  BY AdminsAddOne DEF CommitsOne
<1>2. DevOK /\ n \in 0..MaxCommits + 1
  <2>1. Len(log) <= MaxCommits
    BY DEF AdminActs, Rename, GrantAdmin, CancelPendingInvitation, InviteByNpub, CommitWith
  <2> QED
    BY <1>1, <2>1, InvParts, GroupAssumption DEF LogOK
<1> DEFINE D == Moved(d, n)
<1>3. /\ D \in [Member -> Device] /\ D[d].head = n /\ D[d].stored = dev[d].stored
      /\ D[d].queue = dev[d].queue /\ D[d].handled = dev[d].handled
      /\ \A x \in Member : x # d => D[x] = dev[x]
  BY <1>2, MovedDevice, MovedOnly
<1>4. UNCHANGED <<intents, jobs, hitches>> /\ dev[d].stored
  BY DEF AdminActs, Rename, GrantAdmin, CancelPendingInvitation, InviteByNpub
<1>5. CASE dev' = D
  BY <1>1, <1>3, <1>4, <1>5 DEF ByHand
<1>6. ASSUME NEW p \in Member, InviteByNpub(d, p) PROVE ByHand(d, n)
  <2>1. dev' = Joined(D, p, n) /\ p \in Guests /\ ~dev[p].stored /\ p # d
    BY <1>1, <1>6 DEF InviteByNpub, Joined
  <2> HIDE DEF D
  <2>2. D \in [Member -> Device] /\ n \in 0..MaxCommits + 1
    BY <1>2, <1>3
  <2>3. /\ \A x \in Member : x # p => Joined(D, p, n)[x] = D[x]
        /\ Joined(D, p, n)[p].head = n /\ Joined(D, p, n)[p].stored
        /\ Joined(D, p, n)[p].handled = D[p].handled /\ Joined(D, p, n)[p].queue = D[p].queue
    BY <2>2, JoinedOnly
  <2>4. /\ \A x \in Member : x # p => dev'[x] = D[x]
        /\ dev'[p].head = n /\ dev'[p].stored /\ dev'[p].handled = D[p].handled
        /\ dev'[p].queue = D[p].queue
    BY <2>1, <2>3
  <2> QED
    BY <1>1, <1>3, <1>4, <2>1, <2>4 DEF ByHand
<1> QED
  BY <1>1, <1>5, <1>6 DEF AdminActs, Rename, GrantAdmin, CancelPendingInvitation

LEMMA TimerSetOnly ==
    ASSUME NEW D \in [Member -> Device], NEW p \in Member, NEW b \in BOOLEAN
    PROVE  /\ \A x \in Member : x # p => TimerSet(D, p, b)[x] = D[x]
           /\ TimerSet(D, p, b)[p].handled = D[p].handled
           /\ TimerSet(D, p, b)[p].head = D[p].head
           /\ TimerSet(D, p, b)[p].queue = D[p].queue
           /\ TimerSet(D, p, b)[p].stored = D[p].stored
  BY DEF Device, TimerSet

(* What the other steps change of a device.                                     *)
SameElse(d) == \A x \in Member : x # d => dev'[x] = dev[x] /\ jobs'[x] = jobs[x]

LEMMA ListensFields ==
    ASSUME DepartureInv, NEW d \in Member
    PROVE  /\ \A c \in 1..Len(log) : HandleCommit(d, c) =>
                /\ SameElse(d) /\ UNCHANGED <<log, jobs, hitches>>
                /\ dev'[d].head = c /\ dev'[d].stored = dev[d].stored
                /\ dev'[d].handled = dev[d].handled /\ dev'[d].queue = dev[d].queue
           /\ \A i \in intents : EnqueueLeave(d, i) =>
                /\ SameElse(d) /\ UNCHANGED <<log, jobs, hitches>>
                /\ dev'[d].head = dev[d].head /\ dev'[d].stored = dev[d].stored
                /\ dev'[d].handled = dev[d].handled \cup {i}
                /\ dev'[d].queue = dev[d].queue \cup {i.of}
<1>1. DevOK /\ dev \in [Member -> Device] /\ intents \subseteq Intent
  BY InvParts DEF DevOK
<1>2. ASSUME NEW c \in 1..Len(log), HandleCommit(d, c)
      PROVE  /\ SameElse(d) /\ UNCHANGED <<log, jobs, hitches>>
             /\ dev'[d].head = c /\ dev'[d].stored = dev[d].stored
             /\ dev'[d].handled = dev[d].handled /\ dev'[d].queue = dev[d].queue
  <2>1. c \in 0..MaxCommits + 1
    BY InvParts, GroupAssumption DEF LogOK
  <2>2. dev' = Moved(d, c) /\ UNCHANGED <<log, jobs, hitches>>
    BY <1>2 DEF HandleCommit
  <2> QED
    BY <1>1, <2>1, <2>2, MovedDevice, MovedOnly DEF SameElse
<1>3. ASSUME NEW i \in intents, EnqueueLeave(d, i)
      PROVE  /\ SameElse(d) /\ UNCHANGED <<log, jobs, hitches>>
             /\ dev'[d].head = dev[d].head /\ dev'[d].stored = dev[d].stored
             /\ dev'[d].handled = dev[d].handled \cup {i}
             /\ dev'[d].queue = dev[d].queue \cup {i.of}
  <2> DEFINE D1 == [dev EXCEPT ![d].handled = @ \cup {i}]
             D2 == [D1 EXCEPT ![d].queue = @ \cup {i.of}]
  <2>1. i \in Intent /\ i.of \in Member
    BY <1>1 DEF Intent
  <2>2. /\ D1 \in [Member -> Device] /\ \A x \in Member : x # d => D1[x] = dev[x]
        /\ D1[d].handled = dev[d].handled \cup {i}
        /\ D1[d].head = dev[d].head /\ D1[d].stored = dev[d].stored /\ D1[d].queue = dev[d].queue
    BY <1>1, <2>1 DEF Device
  <2> HIDE DEF D1
  <2>3. /\ D2 \in [Member -> Device] /\ \A x \in Member : x # d => D2[x] = D1[x]
        /\ D2[d].queue = D1[d].queue \cup {i.of} /\ D2[d].handled = D1[d].handled
        /\ D2[d].head = D1[d].head /\ D2[d].stored = D1[d].stored
    BY <2>1, <2>2 DEF Device
  <2> HIDE DEF D2
  <2>4. dev' = TimerSet(D2, d, TRUE) /\ UNCHANGED <<log, jobs, hitches>>
    BY <1>3 DEF EnqueueLeave, D1, D2, TimerSet, ArmsTimer
  <2>5. /\ \A x \in Member : x # d => dev'[x] = D2[x]
        /\ dev'[d].queue = D2[d].queue /\ dev'[d].handled = D2[d].handled
        /\ dev'[d].head = D2[d].head /\ dev'[d].stored = D2[d].stored
    BY <2>3, <2>4, TimerSetOnly
  <2> QED
    BY <2>2, <2>3, <2>4, <2>5 DEF SameElse
<1> QED
  BY <1>2, <1>3

LEMMA StoredSetOnly ==
    ASSUME NEW D \in [Member -> Device], NEW p \in Member, NEW b \in BOOLEAN
    PROVE  StoredSet(D, p, b)[p].handled = D[p].handled
  BY DEF Device, StoredSet

LEMMA LeaveFields ==
    ASSUME DepartureInv, NEW m \in Member, LeaveGroup(m)
    PROVE  /\ SameElse(m) /\ UNCHANGED <<log, jobs, hitches>> /\ m \in Leavers
           /\ dev'[m].head = dev[m].head /\ ~dev'[m].stored
           /\ dev'[m].handled = dev[m].handled /\ dev'[m].queue = dev[m].queue
<1> DEFINE D == StoredSet(dev, m, FALSE)
<1>1. dev \in [Member -> Device]
  BY InvParts DEF DevOK
<1>2. /\ D \in [Member -> Device] /\ \A x \in Member : x # m => D[x] = dev[x]
      /\ D[m].head = dev[m].head /\ D[m].handled = dev[m].handled /\ D[m].queue = dev[m].queue
  BY <1>1, StoredSetDevice, StoredSetOnly, ZenonT(60)
<1>3. dev' = TimerSet(D, m, FALSE) /\ UNCHANGED <<log, jobs, hitches>> /\ m \in Leavers
  BY DEF LeaveGroup, StoredSet, TimerSet
<1>5. D[m].stored = FALSE
  BY <1>1, StoredSetFlag, Zenon
<1> HIDE DEF D
<1>4. /\ \A x \in Member : x # m => dev'[x] = D[x]
      /\ dev'[m].head = D[m].head /\ dev'[m].handled = D[m].handled /\ dev'[m].queue = D[m].queue
      /\ dev'[m].stored = D[m].stored
  BY <1>2, <1>3, TimerSetOnly
<1> QED
  BY <1>2, <1>3, <1>4, <1>5 DEF SameElse

LEMMA TimerFields ==
    ASSUME DepartureInv, NEW d \in Member, dev' = TimerSet(dev, d, FALSE)
    PROVE  /\ \A x \in Member : x # d => dev'[x] = dev[x]
           /\ dev'[d].head = dev[d].head /\ dev'[d].stored = dev[d].stored
           /\ dev'[d].handled = dev[d].handled /\ dev'[d].queue = dev[d].queue
<1>1. dev \in [Member -> Device]
  BY InvParts DEF DevOK
<1> QED
  BY <1>1, TimerSetOnly

LEMMA FiresFields ==
    ASSUME DepartureInv, NEW d \in Member, TimerFires(d)
    PROVE  /\ SameElse(d) /\ UNCHANGED <<log, hitches>> /\ dev[d].timer
           /\ dev'[d].head = dev[d].head /\ dev'[d].stored = dev[d].stored
           /\ dev'[d].handled = dev[d].handled /\ dev'[d].queue = dev[d].queue
           /\ \A j \in jobs'[d] : j \in jobs[d] \/ (j.at = "group" /\ GoneOf(j) = {})
<1>1. dev' = TimerSet(dev, d, FALSE) /\ UNCHANGED <<log, hitches>> /\ dev[d].timer
  BY DEF TimerFires, TimerSet
<1>2. jobs \in [Member -> SUBSET Job]
  BY InvParts DEF JobsOK
<1>3. PICK k : /\ k.at = "group" /\ GoneOf(k) = {}
               /\ jobs' = jobs \/ jobs' = [jobs EXCEPT ![d] = jobs[d] \cup {k}]
  <2> DEFINE k == [n |-> Unused(jobs[d]), at |-> "group", queue |-> Live, gone |-> {}]
  <2>1. k.at = "group" /\ GoneOf(k) = {}
    BY DEF GoneOf, Live
  <2>2. jobs' = jobs \/ jobs' = [jobs EXCEPT ![d] = jobs[d] \cup {k}]
    BY <1>2 DEF TimerFires
  <2> HIDE DEF k
  <2> QED
    BY <2>1, <2>2
<1>4. \A x \in Member : x # d => jobs'[x] = jobs[x]
  BY <1>2, <1>3
<1>5. \A j \in jobs'[d] : j \in jobs[d] \/ (j.at = "group" /\ GoneOf(j) = {})
  BY <1>2, <1>3
<1> QED
  BY <1>1, <1>4, <1>5, TimerFields DEF SameElse

LEMMA ResubscribeFields ==
    ASSUME DepartureInv, NEW d \in Member, Resubscribe(d)
    PROVE  /\ SameElse(d) /\ UNCHANGED <<log, jobs>> /\ hitches \subseteq hitches' /\ dev[d].stored
           /\ dev'[d].head = dev[d].head /\ dev'[d].stored = dev[d].stored
           /\ dev'[d].handled = dev[d].handled /\ dev'[d].queue = dev[d].queue
<1>1. /\ dev' = TimerSet(dev, d, FALSE) /\ UNCHANGED <<log, jobs>>
      /\ hitches \subseteq hitches' /\ dev[d].stored
  BY DEF Resubscribe, TimerSet, Hitch
<1> QED
  BY <1>1, TimerFields DEF SameElse

(* The queue of a device is replaced, and nothing else of it.                   *)
LEMMA QueueSetOnly ==
    ASSUME NEW D \in [Member -> Device], NEW p \in Member, NEW q \in SUBSET Member
    PROVE  /\ \A x \in Member : x # p => QueueSet(D, p, q)[x] = D[x]
           /\ QueueSet(D, p, q)[p].handled = D[p].handled
           /\ QueueSet(D, p, q)[p].head = D[p].head
           /\ QueueSet(D, p, q)[p].stored = D[p].stored
           /\ QueueSet(D, p, q)[p].queue = q
  BY DEF Device, QueueSet

LEMMA RestartFields ==
    ASSUME DepartureInv, NEW d \in Member, Restart(d)
    PROVE  /\ SameElse(d) /\ UNCHANGED log /\ "restarted" \in hitches' /\ dev[d].stored
           /\ dev'[d].head = dev[d].head /\ dev'[d].stored = dev[d].stored
           /\ dev'[d].handled = dev[d].handled /\ dev'[d].queue = {} /\ jobs'[d] = {}
<1> DEFINE D == QueueSet(dev, d, {})
<1>1. dev \in [Member -> Device] /\ jobs \in [Member -> SUBSET Job]
  BY InvParts DEF DevOK, JobsOK
<1>2. /\ D \in [Member -> Device] /\ \A x \in Member : x # d => D[x] = dev[x]
      /\ D[d].head = dev[d].head /\ D[d].handled = dev[d].handled /\ D[d].stored = dev[d].stored
      /\ D[d].queue = {}
  BY <1>1, QueueSetDevice, QueueSetOnly
<1>3. /\ dev' = TimerSet(D, d, FALSE) /\ jobs' = [jobs EXCEPT ![d] = {}]
      /\ UNCHANGED log /\ "restarted" \in hitches' /\ dev[d].stored
  BY DEF Restart, TimerSet, QueueSet, Hitch
<1> HIDE DEF D
<1>4. /\ \A x \in Member : x # d => dev'[x] = D[x]
      /\ dev'[d].head = D[d].head /\ dev'[d].handled = D[d].handled /\ dev'[d].stored = D[d].stored
      /\ dev'[d].queue = D[d].queue
  BY <1>2, <1>3, TimerSetOnly
<1> QED
  BY <1>1, <1>2, <1>3, <1>4 DEF SameElse

LEMMA CommittedFields ==
    ASSUME DepartureInv, NEW d \in Member, NEW j \in jobs[d], AutoCommitted(d, j)
    PROVE  /\ SameElse(d) /\ UNCHANGED <<log, hitches>> /\ j.at = "commit"
           /\ dev'[d].head = dev[d].head /\ dev'[d].stored = dev[d].stored
           /\ dev'[d].handled = dev[d].handled /\ dev'[d].queue = dev[d].queue \ j.gone
           /\ jobs'[d] = Filtered(d, jobs[d] \ {j}, j.gone)
<1>1. dev \in [Member -> Device] /\ jobs \in [Member -> SUBSET Job]
  BY InvParts DEF DevOK, JobsOK
<1> DEFINE q == dev[d].queue \ j.gone
           js == Filtered(d, jobs[d] \ {j}, j.gone)
<1>2. /\ dev' = QueueSet(dev, d, q) /\ jobs' = [jobs EXCEPT ![d] = js]
      /\ UNCHANGED <<log, hitches>> /\ j.at = "commit"
  BY <1>1 DEF AutoCommitted, QueueSet, OnCommitted
<1>3. q \in SUBSET Member
  BY <1>1 DEF Device
<1> HIDE DEF q, js
<1>4. /\ \A x \in Member : x # d => dev'[x] = dev[x]
      /\ dev'[d].head = dev[d].head /\ dev'[d].stored = dev[d].stored
      /\ dev'[d].handled = dev[d].handled /\ dev'[d].queue = q
  BY <1>1, <1>2, <1>3, QueueSetOnly
<1>5. /\ \A x \in Member : x # d => jobs'[x] = jobs[x]
      /\ jobs'[d] = js
  BY <1>1, <1>2
<1> QED
  BY <1>2, <1>4, <1>5 DEF SameElse, q, js

LEMMA FireFields ==
    ASSUME DepartureInv, LineInv, NEW d \in Member, NEW j \in jobs[d], FireAutoCommit(d, j)
    PROVE  LET gone  == Departing(d, j)
               stale == EntriesOf(d, j) \ gone
               rest  == Filtered(d, jobs[d] \ {j}, stale)
           IN  /\ SameElse(d) /\ hitches \subseteq hitches'
               /\ dev'[d].stored = dev[d].stored /\ dev'[d].handled = dev[d].handled
               /\ dev'[d].queue = dev[d].queue \ stale
               /\ \/ UNCHANGED log /\ dev'[d].head = dev[d].head /\ jobs'[d] = rest
                  \/ /\ Commits(d) /\ jobs'[d] = rest \cup {Awaiting(j, gone)}
                     /\ MembersOf(d)' \subseteq MembersOf(d) \ gone
<1> DEFINE gone  == Departing(d, j)
           stale == EntriesOf(d, j) \ gone
           rest  == Filtered(d, jobs[d] \ {j}, stale)
           q     == dev[d].queue \ stale
           js    == rest \cup {Awaiting(j, gone)}
           D     == QueueSet(dev, d, q)
<1>1. dev \in [Member -> Device] /\ jobs \in [Member -> SUBSET Job] /\ Len(log) \in Nat
  BY InvParts DEF DevOK, JobsOK, LogOK
<1>2. q \in SUBSET Member
  BY <1>1 DEF Device
<1>3. hitches \subseteq hitches'
  BY DEF FireAutoCommit, Hitch
<1>4. \/ /\ dev' = D /\ jobs' = [jobs EXCEPT ![d] = rest] /\ UNCHANGED log
      \/ /\ MayCommit(d)
         /\ CommitWith(d, Blanked(Group(d), UNION {LeavesToRemove(Group(d), p) : p \in gone}),
                       RemainingAdmins(Group(d), gone), TRUE)
         /\ dev' = [D EXCEPT ![d].head = Len(log) + 1]
         /\ jobs' = [jobs EXCEPT ![d] = js]
  BY DEF FireAutoCommit, MayRemove, Awaiting, QueueSet, OnCommitted
<1>5. /\ D \in [Member -> Device] /\ \A x \in Member : x # d => D[x] = dev[x]
      /\ D[d].head = dev[d].head /\ D[d].handled = dev[d].handled /\ D[d].stored = dev[d].stored
      /\ D[d].queue = q
  <2> HIDE DEF q
  <2> QED
    BY <1>1, <1>2, QueueSetDevice, QueueSetOnly
<1> HIDE DEF D, q, js, rest, stale, gone
<1>6. CASE dev' = D /\ jobs' = [jobs EXCEPT ![d] = rest] /\ UNCHANGED log
  BY <1>1, <1>3, <1>5, <1>6 DEF SameElse, gone, stale, rest, q
<1>7. CASE /\ MayCommit(d)
           /\ CommitWith(d, Blanked(Group(d), UNION {LeavesToRemove(Group(d), p) : p \in gone}),
                         RemainingAdmins(Group(d), gone), TRUE)
           /\ dev' = [D EXCEPT ![d].head = Len(log) + 1]
           /\ jobs' = [jobs EXCEPT ![d] = js]
  <2>1. PICK n \in Nat : n = Len(log) + 1
    BY <1>1
  <2>2. /\ CommitsOne(d)
        /\ \E m \in Nat : Len(log') = m /\ MembersAt(m)' \subseteq MembersOf(d) \ gone
    <3>1. PICK c : log' = Append(log, c)
      BY <1>7 DEF CommitWith
    <3>2. log \in Seq(Commit)
      BY InvParts DEF LogOK, LogInv
    <3>3. Len(Append(log, c)) = Len(log) + 1
      BY <3>2
    <3>4. ~ UNCHANGED log
      BY <1>1, <3>1, <3>3
    <3> QED
      BY <3>4, TimerAddsOne DEF gone
  <2>3. Len(log') = n /\ MembersAt(n)' \subseteq MembersOf(d) \ gone
    BY <2>1, <2>2 DEF CommitsOne
  <2>4. /\ \A x \in Member : x # d => dev'[x] = D[x]
        /\ dev'[d].head = n /\ dev'[d].handled = D[d].handled /\ dev'[d].stored = D[d].stored
        /\ dev'[d].queue = D[d].queue
    BY <1>5, <1>7, <2>1 DEF Device
  <2>5. MembersOf(d)' = MembersAt(n)'
    BY <2>1, <2>4 DEF MembersOf, Group, MembersAt, Leaves
  <2>6. (\A x \in Member : x # d => jobs'[x] = jobs[x]) /\ jobs'[d] = js
    BY <1>1, <1>7
  <2>7. Commits(d)
    BY <2>2, <2>3, <2>4 DEF Commits
  <2> QED
    BY <1>3, <1>5, <2>3, <2>4, <2>5, <2>6, <2>7 DEF SameElse, gone, stale, rest, q, js
<1> QED
  BY <1>4, <1>6, <1>7

LEMMA HeadsMove ==
    ASSUME DepartureInv, LineInv, [Next]_vars
    PROVE  HeadStep
<1>1. CASE UNCHANGED vars
  BY <1>1 DEF vars, HeadStep, Stays
<1>2. ASSUME NEW d \in Member, SameElse(d), dev'[d].head = dev[d].head, UNCHANGED log
      PROVE  HeadStep
  BY <1>2 DEF SameElse, HeadStep, Stays
<1>3. ASSUME NEW d \in Member, AdminActs(d) PROVE HeadStep
  <2>1. PICK n \in Nat : ByHand(d, n)
    BY <1>3, AdminsByHand
  <2>2. Commits(d)
    BY <1>3, <2>1, AdminsAddOne DEF ByHand, Commits
  <2>3. ASSUME NEW x \in Member, x # d PROVE Stays(x) \/ Joins(x)
    BY <2>1, <2>2, <2>3 DEF ByHand, Stays, Joins
  <2> QED
    BY <2>2, <2>3 DEF HeadStep
<1>4. ASSUME NEW d \in Member, NEW c \in 1..Len(log), HandleCommit(d, c) PROVE HeadStep
  <2>1. SameElse(d) /\ UNCHANGED log /\ dev'[d].head = c
    BY <1>4, ListensFields
  <2>2. dev[d].head \in 1..Len(log) /\ Len(log) \in Nat 
    <3>1. Group(d) # 0 /\ dev[d].head \in Nat /\ dev[d].head <= Len(log) /\ Len(log) \in Nat
      BY <1>4, InvParts, GroupAssumption
         DEF HandleCommit, Receives, MembersOf, DevOK, HeadInv, Device, LogOK
    <3> QED
      BY <3>1 DEF Group
  <2>3. \A e \in 2..Len(log) : log[e].parent \in 1..e - 1
    BY InvParts DEF LogOK, LogInv
  <2>4. log[c].parent = Group(d) => c \in 2..Len(log)
    <3>1. c = 1 => log[c].parent # Group(d)
      BY <2>2 DEF Group, LineInv
    <3> QED
      BY <2>2, <3>1
  <2>5. CASE log[c].parent = Group(d)
    BY <2>1, <2>2, <2>4, <2>5 DEF HeadStep, SameElse, Stays, Follows, Group
  <2>6. CASE /\ c # Group(d) /\ Group(d) # 1 /\ log[c].parent = log[Group(d)].parent
             /\ Replaceable(d, Group(d))
    <3>1. dev[d].head \in 2..Len(log)
      BY <2>2, <2>6 DEF Group
    <3>2. c \in 2..Len(log)
      BY <2>2, <2>3, <2>6, <3>1 DEF Group, LineInv
    <3> QED
      BY <2>1, <2>6, <3>1, <3>2 DEF HeadStep, SameElse, Stays, RollsBack, Group, Replaceable
  <2> QED
    BY <1>4, <2>5, <2>6 DEF HandleCommit
<1>5. ASSUME NEW d \in Member, NEW j \in jobs[d], FireAutoCommit(d, j) PROVE HeadStep
  <2>1. /\ SameElse(d)
        /\ (UNCHANGED log /\ dev'[d].head = dev[d].head) \/ Commits(d)
    BY <1>5, FireFields
  <2> QED
    BY <1>2, <2>1 DEF SameElse, HeadStep, Stays
<1>7. ASSUME NEW d \in Member, NEW p \in Member, Announce(d, p) PROVE HeadStep
  BY <1>7 DEF Announce, HeadStep, Stays
<1>6. ASSUME NEW d \in Member,
             \/ LeaveGroup(d) \/ TimerFires(d) \/ Resubscribe(d) \/ Restart(d)
             \/ \E i \in intents : EnqueueLeave(d, i)
             \/ \E j \in jobs[d] : AutoCommitted(d, j)
      PROVE  HeadStep
  <2>1. SameElse(d) /\ dev'[d].head = dev[d].head /\ UNCHANGED log
    BY <1>6, LeaveFields, FiresFields, ResubscribeFields, RestartFields, ListensFields,
       CommittedFields
  <2> QED
    BY <1>2, <2>1
<1> QED
  BY <1>1, <1>3, <1>4, <1>5, <1>6, <1>7 DEF Next, Listens, Finalises

LEMMA LineNext == ASSUME DepartureInv, LineInv, [Next]_vars PROVE LineInv'
  BY HeadsMove, LineKept, LineGrows DEF HeadStep, Commits

LEMMA LineInit == Init => LineInv
<1> SUFFICES ASSUME Init PROVE LineInv
  OBVIOUS
<1>1. Len(log) = 1 /\ log[1].past = {1} /\ log[1].parent = 0 /\ log[1].admins = FirstAdmins
  BY DEF Init
<1> QED
  BY <1>1 DEF LineInv, PastOf, OneLine, MadeFrom, MayBeAdmin

-----------------------------------------------------------------------------
(* The announced                                                              *)

(* Every name in a queue or a running function is of a member of whose departure *)
(* the device read, in a message that is on the relays.  Where nobody who may    *)
(* leave is invited, who left stays away: whoever announced their own departure  *)
(* is gone.                                                                      *)
Named == Leavers \cup Reported
Departed == {p \in Leavers : ~dev[p].stored}
Sound(i) == i.of \in Named /\ (i.by = i.of => i.of \in Departed)
Names(d) == /\ dev[d].queue \subseteq Told(d)
            /\ \A j \in jobs[d] : GoneOf(j) \subseteq Told(d)
GoneInv ==
    /\ \A i \in intents : Sound(i)
    /\ \A d \in Member : dev[d].handled \subseteq intents /\ Names(d)

LEMMA LeaversAreMembers == Leavers \subseteq Member
  BY GroupAssumption

(* Who is named anywhere may leave, or may be reported.                         *)
LEMMA NamedOnly ==
    ASSUME GoneInv, NEW d \in Member
    PROVE  Told(d) \subseteq Named /\ \A j \in jobs[d] : GoneOf(j) \subseteq Named
  BY DEF GoneInv, Sound, Names, Told

LEMMA TrueKept ==
    ASSUME GoneInv, UNCHANGED intents, \A x \in Leavers : ~dev[x].stored => ~dev'[x].stored
    PROVE  \A i \in intents' : Sound(i)'
  BY DEF GoneInv, Sound, Departed

(* A step of one device, whose queue and functions name only of whom it has read. *)
LEMMA GoneStep ==
    ASSUME GoneInv, NEW d \in Member, SameElse(d), intents \subseteq intents',
           \A i \in intents' : Sound(i)', dev'[d].handled \subseteq intents', Names(d)'
    PROVE  GoneInv'
<1> SUFFICES ASSUME NEW x \in Member, x # d PROVE dev'[x].handled \subseteq intents' /\ Names(x)'
  BY DEF GoneInv
<1>1. dev'[x] = dev[x] /\ jobs'[x] = jobs[x]
  BY DEF SameElse
<1>2. Names(x) /\ dev[x].handled \subseteq intents
  BY DEF GoneInv
<1> QED
  BY <1>1, <1>2 DEF Names, Told

(* A step that leaves intents and what the device has read as they are.          *)
LEMMA GoneQuiet ==
    ASSUME DepartureInv, GoneInv, NEW d \in Member, SameElse(d), UNCHANGED intents,
           dev'[d].stored = dev[d].stored, dev'[d].handled = dev[d].handled,
           dev'[d].queue \subseteq dev[d].queue,
           \A j \in jobs'[d] : GoneOf(j) \subseteq Told(d)
    PROVE  GoneInv'
<1>1. \A x \in Member : dev'[x].stored = dev[x].stored
  BY DEF SameElse
<1>2. \A i \in intents' : Sound(i)'
  BY <1>1, TrueKept, LeaversAreMembers
<1>3. Told(d)' = Told(d)
  BY DEF Told
<1>4. Names(d)' /\ dev'[d].handled \subseteq intents'
  BY <1>3 DEF GoneInv, Names
<1> QED
  BY <1>2, <1>4, GoneStep

LEMMA ByHandGone ==
    ASSUME Leavers \cap Guests = {}, DepartureInv, LineInv, GoneInv,
           NEW d \in Member, AdminActs(d)
    PROVE  GoneInv'
<1>1. PICK n \in Nat : ByHand(d, n)
  BY AdminsByHand
<1>2. /\ UNCHANGED <<intents, jobs>>
      /\ \A x \in Member : dev'[x].handled = dev[x].handled /\ dev'[x].queue = dev[x].queue
      /\ \A x \in Member : ~dev[x].stored => ~dev'[x].stored \/ x \in Guests
  BY <1>1 DEF ByHand
<1>3. \A i \in intents' : Sound(i)'
  BY <1>2, TrueKept, LeaversAreMembers
<1>4. \A x \in Member : dev'[x].handled \subseteq intents' /\ Names(x)'
  BY <1>2 DEF GoneInv, Names, Told
<1> QED
  BY <1>3, <1>4 DEF GoneInv

LEMMA LeaveGone ==
    ASSUME DepartureInv, GoneInv, NEW m \in Member, LeaveGroup(m)
    PROVE  GoneInv'
<1>1. /\ SameElse(m) /\ UNCHANGED <<log, jobs, hitches>> /\ m \in Leavers /\ ~dev'[m].stored
      /\ dev'[m].handled = dev[m].handled /\ dev'[m].queue = dev[m].queue
  BY LeaveFields
<1>2. \A x \in Leavers : ~dev[x].stored => ~dev'[x].stored
  BY <1>1, LeaversAreMembers DEF SameElse
<1>3. \A i \in intents' : i \in intents \/ i.of = m
  BY DEF LeaveGroup
<1>4. \A i \in intents' : Sound(i)'
  BY <1>1, <1>2, <1>3 DEF GoneInv, Sound, Departed, Named
<1>5. intents \subseteq intents'
  BY DEF LeaveGroup
<1>6. dev'[m].handled \subseteq intents' /\ Names(m)'
  BY <1>1, <1>5 DEF GoneInv, Names, Told
<1> QED
  BY <1>1, <1>4, <1>5, <1>6, GoneStep

LEMMA AnnounceGone ==
    ASSUME DepartureInv, GoneInv, NEW d \in Member, NEW p \in Member, Announce(d, p)
    PROVE  GoneInv'
<1>1. UNCHANGED <<dev, jobs>> /\ intents \subseteq intents'
  BY DEF Announce
<1>2. \A i \in intents' : i \in intents \/ (i.of \in Reported /\ i.by # i.of)
  BY DEF Announce
<1>3. \A i \in intents' : Sound(i)'
  BY <1>1, <1>2 DEF GoneInv, Sound, Departed, Named
<1>4. \A x \in Member : dev'[x].handled \subseteq intents' /\ Names(x)'
  BY <1>1 DEF GoneInv, Names, Told
<1> QED
  BY <1>3, <1>4 DEF GoneInv

LEMMA ListensGone ==
    ASSUME DepartureInv, GoneInv, NEW d \in Member, Listens(d)
    PROVE  GoneInv'
<1>1. ASSUME NEW c \in 1..Len(log), HandleCommit(d, c) PROVE GoneInv'
  <2>1. /\ SameElse(d) /\ UNCHANGED jobs /\ dev'[d].stored = dev[d].stored
        /\ dev'[d].handled = dev[d].handled /\ dev'[d].queue = dev[d].queue
    BY <1>1, ListensFields
  <2>2. UNCHANGED intents
    BY <1>1 DEF HandleCommit
  <2>3. \A j \in jobs'[d] : GoneOf(j) \subseteq Told(d)
    BY <2>1 DEF GoneInv, Names
  <2> QED
    BY <2>1, <2>2, <2>3, GoneQuiet
<1>2. ASSUME NEW i \in intents, EnqueueLeave(d, i) PROVE GoneInv'
  <2>1. /\ SameElse(d) /\ UNCHANGED jobs /\ dev'[d].stored = dev[d].stored
        /\ dev'[d].handled = dev[d].handled \cup {i}
        /\ dev'[d].queue = dev[d].queue \cup {i.of}
    BY <1>2, ListensFields
  <2>2. UNCHANGED intents
    BY <1>2 DEF EnqueueLeave
  <2>3. \A x \in Member : dev'[x].stored = dev[x].stored
    BY <2>1 DEF SameElse
  <2>4. \A k \in intents' : Sound(k)'
    BY <2>2, <2>3, TrueKept, LeaversAreMembers
  <2>5. Told(d)' = Told(d) \cup {i.of}
    BY <2>1 DEF Told
  <2>6. Names(d)' /\ dev'[d].handled \subseteq intents'
    BY <2>1, <2>2, <2>5 DEF GoneInv, Names
  <2> QED
    BY <2>1, <2>2, <2>4, <2>6, GoneStep
<1> QED
  BY <1>1, <1>2 DEF Listens

(* The functions that go on name nobody else: a replaced queue is kept as it was. *)
LEMMA EntriesTold ==
    ASSUME GoneInv, NEW d \in Member, NEW j \in jobs[d]
    PROVE  /\ EntriesOf(d, j) \subseteq Told(d) /\ j.gone \subseteq Told(d)
           /\ Departing(d, j) \subseteq Told(d)
  BY DEF GoneInv, Names, GoneOf, EntriesOf, Departing

LEMMA FilteredGone ==
    ASSUME GoneInv, NEW d \in Member, NEW js \in SUBSET Job, js \subseteq jobs[d], NEW S,
           NEW k \in Filtered(d, js, S)
    PROVE  GoneOf(k) \subseteq Told(d)
<1>1. CASE k \in js
  BY <1>1 DEF GoneInv, Names
<1>2. CASE k \in Detached(d, js)
  <2>1. PICK j \in js : k = [j EXCEPT !.queue = [live |-> FALSE, entries |-> EntriesOf(d, j)]]
    BY <1>2 DEF Detached
  <2>2. j \in Job /\ j \in jobs[d]
    OBVIOUS
  <2>3. EntriesOf(d, j) \subseteq Told(d) /\ j.gone \subseteq Told(d)
    BY <2>2, EntriesTold
  <2>4. \A q : [j EXCEPT !.queue = q].queue = q /\ [j EXCEPT !.queue = q].gone = j.gone
    BY <2>2 DEF Job
  <2>5. k.queue.entries = EntriesOf(d, j) /\ k.gone = j.gone
    BY <2>1, <2>4
  <2> QED
    BY <2>3, <2>5 DEF GoneOf
<1> QED
  BY <1>1, <1>2 DEF Filtered

LEMMA FinalisesGone ==
    ASSUME DepartureInv, LineInv, GoneInv, NEW d \in Member, Finalises(d)
    PROVE  GoneInv'
<1>1. jobs[d] \in SUBSET Job
  BY InvParts DEF JobsOK
<1>2. UNCHANGED intents
  BY DEF Finalises, TimerFires, FireAutoCommit, AutoCommitted
<1>3. CASE TimerFires(d)
  <2>1. /\ SameElse(d) /\ dev'[d].stored = dev[d].stored
        /\ dev'[d].handled = dev[d].handled /\ dev'[d].queue = dev[d].queue
        /\ \A j \in jobs'[d] : j \in jobs[d] \/ (j.at = "group" /\ GoneOf(j) = {})
    BY <1>3, FiresFields
  <2>2. \A j \in jobs'[d] : GoneOf(j) \subseteq Told(d)
    BY <2>1 DEF GoneInv, Names
  <2> QED
    BY <1>2, <2>1, <2>2, GoneQuiet
<1>4. ASSUME NEW j \in jobs[d], AutoCommitted(d, j) PROVE GoneInv'
  <2>1. /\ SameElse(d) /\ dev'[d].stored = dev[d].stored
        /\ dev'[d].handled = dev[d].handled /\ dev'[d].queue \subseteq dev[d].queue
        /\ jobs'[d] = Filtered(d, jobs[d] \ {j}, j.gone)
    BY <1>4, CommittedFields
  <2>2. \A k \in jobs'[d] : GoneOf(k) \subseteq Told(d)
    BY <1>1, <2>1, FilteredGone
  <2> QED
    BY <1>2, <2>1, <2>2, GoneQuiet
<1>5. ASSUME NEW j \in jobs[d], FireAutoCommit(d, j) PROVE GoneInv'
  <2> DEFINE gone  == Departing(d, j)
             stale == EntriesOf(d, j) \ gone
             rest  == Filtered(d, jobs[d] \ {j}, stale)
  <2>1. /\ SameElse(d) /\ dev'[d].stored = dev[d].stored
        /\ dev'[d].handled = dev[d].handled /\ dev'[d].queue \subseteq dev[d].queue
        /\ jobs'[d] = rest \/ jobs'[d] = rest \cup {Awaiting(j, gone)}
    BY <1>5, FireFields
  <2>2. \A k \in rest : GoneOf(k) \subseteq Told(d)
    BY <1>1, FilteredGone
  <2>3. GoneOf(Awaiting(j, gone)) \subseteq Told(d)
    <3>1. gone \in SUBSET Member /\ j \in Job
      BY FireBase
    <3>2. gone \subseteq Told(d) /\ Live.entries = {}
      BY EntriesTold DEF Live
    <3> QED
      BY <3>1, <3>2, AwaitingJob DEF GoneOf
  <2> HIDE DEF gone, stale, rest
  <2> QED
    BY <1>2, <2>1, <2>2, <2>3, GoneQuiet
<1> QED
  BY <1>3, <1>4, <1>5 DEF Finalises

LEMMA HitchGone ==
    ASSUME DepartureInv, GoneInv, NEW d \in Member, Resubscribe(d) \/ Restart(d)
    PROVE  GoneInv'
<1>1. /\ SameElse(d) /\ dev'[d].stored = dev[d].stored
      /\ dev'[d].handled = dev[d].handled /\ dev'[d].queue \subseteq dev[d].queue
      /\ UNCHANGED jobs \/ jobs'[d] = {}
  BY ResubscribeFields, RestartFields
<1>2. UNCHANGED intents
  BY DEF Resubscribe, Restart
<1>3. \A j \in jobs'[d] : GoneOf(j) \subseteq Told(d)
  BY <1>1 DEF GoneInv, Names
<1> QED
  BY <1>1, <1>2, <1>3, GoneQuiet

LEMMA GoneInit == Init => GoneInv
  BY DEF Init, GoneInv, Names

LEMMA GoneNext ==
    ASSUME Leavers \cap Guests = {}, DepartureInv, LineInv, GoneInv, [Next]_vars
    PROVE  GoneInv'
<1>1. CASE UNCHANGED vars
  BY <1>1 DEF vars, GoneInv, Sound, Departed, Names, Told
<1> QED
  BY <1>1, ByHandGone, LeaveGone, AnnounceGone, ListensGone, FinalisesGone, HitchGone DEF Next

(* Who is missing from the state a timer made was announced to its maker.        *)
TimersRemoveTheNamed ==
    \A c \in DOMAIN log' : Made(c) /\ log'[c].auto =>
      \A p \in MembersAt(log'[c].parent) \ MembersAt(c)' :
        \E i \in dev[log'[c].by].handled : i.of = p /\ (i.by = p => ~dev[p].stored)

LEMMA NothingMade ==
    ASSUME DepartureInv, UNCHANGED log PROVE TimersRemoveTheNamed
<1>1. Len(log) \in Nat
  BY InvParts DEF LogOK
<1> QED
  BY <1>1 DEF TimersRemoveTheNamed, Made

LEMMA MadeByHand ==
    ASSUME DepartureInv, NEW d \in Member, MayCommit(d),
           NEW tree \in Seq(Member \cup {Blank}), NEW admins \in SUBSET Member,
           CommitWith(d, tree, admins, FALSE)
    PROVE  TimersRemoveTheNamed
<1>1. Len(log') = Len(log) + 1 /\ log'[Len(log) + 1].auto = FALSE
  BY LogGrows, Zenon
<1> QED
  BY <1>1 DEF TimersRemoveTheNamed, Made

LEMMA AdminsMakeByHand ==
    ASSUME DepartureInv, NEW d \in Member, AdminActs(d)
    PROVE  TimersRemoveTheNamed
<1>1. CASE Rename(d)
  BY <1>1, CommitBase, MadeByHand DEF Rename
<1>2. ASSUME NEW p \in Member, GrantAdmin(d, p) PROVE TimersRemoveTheNamed
  <2>1. GrantedAdmins(Group(d), p) \in SUBSET Member
    BY <1>2, CommitBase DEF GrantAdmin, GrantedAdmins
  <2> QED
    BY <1>2, <2>1, CommitBase, MadeByHand DEF GrantAdmin
<1>3. ASSUME NEW p \in Member, CancelPendingInvitation(d, p) PROVE TimersRemoveTheNamed
  <2>1. MayCommit(d) /\ Group(d) \in DOMAIN log /\ log[Group(d)] \in Commit
    BY <1>3, CommitBase DEF CancelPendingInvitation
  <2>2. \A i \in DOMAIN log[Group(d)].tree :
           i \in Leaves(Group(d), p) <=> log[Group(d)].tree[i] \in {p}
    BY DEF Leaves
  <2>3. Blanked(Group(d), Leaves(Group(d), p)) \in Seq(Member \cup {Blank})
    BY <2>1, <2>2, BlankedSeats, ZenonT(60)
  <2>4. log[Group(d)].admins \ {p} \in SUBSET Member
    BY <2>1, CommitBase
  <2>5. CommitWith(d, Blanked(Group(d), Leaves(Group(d), p)), log[Group(d)].admins \ {p}, FALSE)
    BY <1>3 DEF CancelPendingInvitation
  <2> QED
    BY <2>1, <2>3, <2>4, <2>5, MadeByHand
<1>4. ASSUME NEW p \in Member, InviteByNpub(d, p) PROVE TimersRemoveTheNamed
  <2>1. MayCommit(d) /\ Group(d) \in DOMAIN log /\ log[Group(d)] \in Commit
    BY <1>4, CommitBase DEF InviteByNpub
  <2>2. WithAdded(Group(d), p) \in Seq(Member \cup {Blank})
    BY <2>1, AddedSeats
  <2>3. CommitWith(d, WithAdded(Group(d), p), log[Group(d)].admins, FALSE)
    BY <1>4 DEF InviteByNpub
  <2> QED
    BY <2>1, <2>2, <2>3, CommitBase, MadeByHand
<1> QED
  BY <1>1, <1>2, <1>3, <1>4 DEF AdminActs

LEMMA TimerMakes ==
    ASSUME DepartureInv, LineInv, GoneInv, NEW d \in Member, NEW j \in jobs[d],
           FireAutoCommit(d, j)
    PROVE  TimersRemoveTheNamed
<1> DEFINE gone == Departing(d, j)
           tree == Blanked(Group(d), UNION {LeavesToRemove(Group(d), p) : p \in gone})
           heirs == RemainingAdmins(Group(d), gone)
<1>1. UNCHANGED log \/ (MayCommit(d) /\ CommitWith(d, tree, heirs, TRUE))
  BY DEF FireAutoCommit, MayRemove
<1>2. CASE MayCommit(d) /\ CommitWith(d, tree, heirs, TRUE)
  <2>1. gone \in SUBSET Member /\ gone \subseteq Told(d)
    BY FireBase, EntriesTold
  <2> HIDE DEF gone
  <2>2. /\ tree \in Seq(Member \cup {Blank}) /\ heirs \in SUBSET Member
        /\ Seated(tree) = Seated(log[Group(d)].tree) \ gone
    BY <1>2, <2>1, RemovalSound
  <2>3. heirs \subseteq MayBeAdmin /\ Seated(tree) \subseteq MembersOf(d)
    BY <1>2, <2>2, AdminsMayBe, CommitBase DEF RemainingAdmins
  <2> HIDE DEF tree, heirs
  <2>4. PICK n \in Nat : n = Len(log) + 1
    BY InvParts DEF LogOK
  <2>5. Len(log') = n /\ log'[n].tree = tree /\ log'[n].parent = Group(d)
    BY <1>2, <2>2, <2>4, LogGrows, Zenon
  <2>6. CommitsOne(d)
    BY <1>2, <2>2, <2>3, CommitAddsOne
  <2>7. log'[n].by = d
    BY <2>4, <2>6 DEF CommitsOne
  <2>8. MembersAt(n)' = Seated(tree)
    BY <2>5 DEF MembersAt, Leaves, Seated
  <2>9. MembersAt(Group(d)) = Seated(log[Group(d)].tree)
    BY <1>2, CommitBase, MembersAreSeated
  <2>10. ASSUME NEW p \in MembersAt(Group(d)) \ MembersAt(n)'
         PROVE  \E i \in dev[d].handled : i.of = p /\ (i.by = p => ~dev[p].stored)
    <3>1. PICK i \in dev[d].handled : i.of = p
      BY <2>1, <2>2, <2>8, <2>9 DEF Told
    <3>2. Sound(i)
      BY DEF GoneInv
    <3> QED
      BY <3>1, <3>2 DEF Sound, Departed
  <2> QED
    BY <2>5, <2>7, <2>10 DEF TimersRemoveTheNamed, Made
<1> QED
  BY <1>1, <1>2, NothingMade

LEMMA StepsRemoveTheNamed ==
    ASSUME DepartureInv, LineInv, GoneInv, [Next]_vars PROVE TimersRemoveTheNamed
<1>1. CASE UNCHANGED vars
  BY <1>1, NothingMade DEF vars
<1>2. ASSUME NEW d \in Member,
             \/ LeaveGroup(d) \/ Resubscribe(d) \/ Restart(d) \/ Listens(d)
             \/ \E p \in Member : Announce(d, p)
      PROVE  TimersRemoveTheNamed
  BY <1>2, NothingMade
     DEF LeaveGroup, Resubscribe, Restart, Listens, HandleCommit, EnqueueLeave, Announce
<1>3. ASSUME NEW d \in Member, Finalises(d) PROVE TimersRemoveTheNamed
  BY <1>3, TimerMakes, NothingMade DEF Finalises, TimerFires, AutoCommitted
<1> QED
  BY <1>1, <1>2, <1>3, AdminsMakeByHand DEF Next

(* A timer removes only members of whose departure its device read, in a message *)
(* somebody sent, though between the reading and the commit others may have      *)
(* removed them and given away their leaf; whoever announced it themselves has   *)
(* left, as long as nobody who may leave is invited.  Of a message that names    *)
(* somebody else, which the handler does not tell from one that does not, the    *)
(* theorem says only that it was read: that member need not have left.           *)
THEOREM TimersRemoveTheAnnounced ==
    ASSUME Leavers \cap Guests = {}
    PROVE  Spec => OnlyTheAnnouncedAreRemoved
<1>1. Init => DepartureInv /\ LineInv /\ GoneInv
  BY DepartureInit, LineInit, GoneInit
<1>2. DepartureInv /\ LineInv /\ GoneInv /\ [Next]_vars => DepartureInv' /\ LineInv' /\ GoneInv'
  BY DepartureNext, LineNext, GoneNext
<1>3. DepartureInv /\ LineInv /\ GoneInv /\ [Next]_vars => TimersRemoveTheNamed
  BY StepsRemoveTheNamed
<1>4. TimersRemoveTheNamed <=>
        \A c \in DOMAIN log' : Made(c) /\ log'[c].auto =>
          \A p \in MembersAt(log'[c].parent) \ MembersAt(c)' :
            \E i \in dev[log'[c].by].handled : i.of = p /\ (i.by = p => ~dev[p].stored)
  BY DEF TimersRemoveTheNamed
<1> QED
  BY <1>1, <1>2, <1>3, <1>4, PTL DEF Spec, OnlyTheAnnouncedAreRemoved

-----------------------------------------------------------------------------
(* No departure is forgotten, where at most two members are ever admins         *)

(* Who has no group and cannot have left it never joined.                       *)
Unjoined(p) == dev[p].head = 0 /\ dev[p].handled = {} /\ dev[p].timer = FALSE /\ jobs[p] = {}
GuestInv == \A p \in Member \ Leavers : ~dev[p].stored => Unjoined(p)

(* What a device that may be an admin has read of a departure is in its queue    *)
(* until the member is out of its tree; whom a function has removed is out.      *)
Remembers(d) ==
    "restarted" \notin hitches =>
      \A i \in dev[d].handled : i.of \in MembersOf(d) => i.of \in dev[d].queue
Removed(d) == \A j \in jobs[d] : j.at = "commit" => j.gone \cap MembersOf(d) = {}
KeptInv == \A d \in Member \cap MayBeAdmin : Remembers(d) /\ Removed(d)

(* A device stays on a state that has its own commits in its past: a follower's  *)
(* past only grows, and what replaces the last state keeps all of it but that    *)
(* one, which was not its own.                                                  *)
LEMMA OwnKept ==
    ASSUME DepartureInv, LineInv, LineInv', OwnInv, HeadStep,
           \A p \in Member : Joins(p) => Unjoined(p)
    PROVE  OwnInv'
<1>1. Len(log) \in Nat /\ Len(log) >= 1
  BY InvParts DEF LogOK
<1>2. \A c \in 2..Len(log) : log[c].by \in Member
  <2>1. \A c \in 1..Len(log) : log[c] \in Commit
    BY InvParts DEF LogOK, LogInv
  <2>2. \A c \in 2..Len(log) : log[c].parent \in 1..c - 1
    BY InvParts DEF LogOK, LogInv
  <2> SUFFICES ASSUME NEW c \in 2..Len(log) PROVE log[c].by \in Member
    OBVIOUS
  <2>3. log[c].parent \in 1..Len(log) /\ log[c].by \in log[log[c].parent].admins
    BY <1>1, <2>2 DEF LineInv, MadeFrom
  <2> QED
    BY <2>1, <2>3 DEF Commit
<1>3. \A c \in 1..Len(log) : log'[c] = log[c]
  BY DEF HeadStep, Commits, CommitsOne
<1>4. ASSUME NEW c \in 2..Len(log) PROVE OnOwn(c)'
  <2>1. PICK m \in Member : m = log[c].by /\ m = log'[c].by
    BY <1>1, <1>2, <1>3
  <2>2. PICK g \in 1..Len(log) : g = dev[m].head /\ c \in log[g].past
    BY <2>1 DEF OwnInv, OnOwn, Group
  <2>3. Len(log') \in Nat /\ Len(log') >= Len(log)
    BY <1>1 DEF HeadStep, Commits, CommitsOne
  <2>4. CASE Stays(m)
    BY <1>1, <1>3, <2>1, <2>2, <2>3, <2>4 DEF Stays, OnOwn, Group
  <2>5. CASE Commits(m)
    <3>1. PICK n \in Nat : Len(log') = n /\ n >= 1 /\ log'[n].past = log[g].past \cup {n}
      BY <1>1, <2>2, <2>5 DEF Commits, CommitsOne, Group
    <3>2. dev'[m].head = n
      BY <2>5, <3>1 DEF Commits
    <3> QED
      BY <2>1, <2>2, <3>1, <3>2 DEF OnOwn, Group
  <2>6. CASE Joins(m)
    BY <2>2, <2>6 DEF Unjoined
  <2>7. CASE Follows(m)
    <3>1. PICK h \in 2..Len(log) : h = dev'[m].head /\ log[h].parent = g /\ UNCHANGED log
      BY <2>2, <2>7 DEF Follows
    <3>2. log[h].past = log[g].past \cup {h}
      BY <3>1 DEF LineInv, MadeFrom
    <3> QED
      BY <1>1, <2>1, <2>2, <3>1, <3>2 DEF OnOwn, Group
  <2>8. CASE RollsBack(m)
    <3>1. PICK h \in 2..Len(log) : /\ h = dev'[m].head /\ log[h].parent = log[g].parent
                                   /\ g \in 2..Len(log) /\ log[g].by # m /\ UNCHANGED log
      BY <2>2, <2>8 DEF RollsBack
    <3>2. /\ log[h].past = log[log[g].parent].past \cup {h}
          /\ log[g].past = log[log[g].parent].past \cup {g}
      BY <3>1 DEF LineInv, MadeFrom
    <3>3. c # g
      BY <2>1, <3>1
    <3>4. c \in log[h].past
      BY <2>2, <3>2, <3>3
    <3>5. log' = log /\ h \in 1..Len(log)
      BY <1>1, <3>1
    <3> QED
      BY <2>1, <3>1, <3>4, <3>5 DEF OnOwn, Group
  <2> QED
    BY <2>4, <2>5, <2>6, <2>7, <2>8 DEF HeadStep
<1>5. ASSUME NEW d \in Member, Commits(d) PROVE \E n \in Nat : n = Len(log) + 1 /\ Len(log') = n /\ OnOwn(n)'
  <2>1. PICK n \in Nat : /\ n = Len(log) + 1 /\ Len(log') = n /\ log'[n].by = d
                         /\ log'[n].past = log[Group(d)].past \cup {n}
    BY <1>5 DEF Commits, CommitsOne
  <2>2. dev'[d].head = n
    BY <1>5, <2>1 DEF Commits
  <2>3. OnOwn(n)'
    BY <1>1, <2>1, <2>2 DEF OnOwn, Group
  <2> QED
    BY <2>1, <2>3
<1>6. CASE UNCHANGED log
  BY <1>4, <1>6 DEF OwnInv
<1>7. CASE \E d \in Member : Commits(d)
  <2>1. PICK n \in Nat : n = Len(log) + 1 /\ Len(log') = n /\ OnOwn(n)'
    BY <1>5, <1>7
  <2>2. \A c \in 2..Len(log') : c \in 2..Len(log) \/ c = n
    BY <1>1, <2>1
  <2> QED
    BY <1>4, <2>1, <2>2 DEF OwnInv
<1> QED
  BY <1>6, <1>7 DEF HeadStep

LEMMA GuestKept ==
    ASSUME DepartureInv, LineInv, GuestInv, [Next]_vars
    PROVE  GuestInv'
<1>1. CASE UNCHANGED vars
  BY <1>1 DEF vars, GuestInv, Unjoined
<1>2. ASSUME NEW d \in Member, SameElse(d), dev'[d].stored \/ d \in Leavers
      PROVE  GuestInv'
  BY <1>2 DEF SameElse, GuestInv, Unjoined
<1>3. ASSUME NEW d \in Member, AdminActs(d) PROVE GuestInv'
  <2>1. PICK n \in Nat : ByHand(d, n)
    BY <1>3, AdminsByHand
  <2> QED
    BY <2>1 DEF ByHand, GuestInv, Unjoined
<1>4. ASSUME NEW d \in Member, LeaveGroup(d) \/ Resubscribe(d) \/ Restart(d) \/ Listens(d)
      PROVE  SameElse(d) /\ (dev'[d].stored \/ d \in Leavers)
  <2>1. CASE LeaveGroup(d) \/ Resubscribe(d) \/ Restart(d)
    BY <2>1, LeaveFields, ResubscribeFields, RestartFields
  <2>2. CASE Listens(d)
    <3>1. dev[d].stored
      BY <2>2 DEF Listens, HandleCommit, EnqueueLeave, Receives
    <3> QED
      BY <2>2, <3>1, ListensFields DEF Listens
  <2> QED
    BY <1>4, <2>1, <2>2
<1>5. ASSUME NEW d \in Member, Finalises(d)
      PROVE  SameElse(d) /\ (dev'[d].stored \/ d \in Leavers)
  <2>1. ~ Unjoined(d)
    BY <1>5 DEF Finalises, TimerFires, Unjoined
  <2>2. dev[d].stored \/ d \in Leavers
    BY <2>1 DEF GuestInv
  <2> QED
    BY <1>5, <2>2, FiresFields, FireFields, CommittedFields DEF Finalises
<1>6. ASSUME NEW d \in Member, NEW p \in Member, Announce(d, p) PROVE GuestInv'
  BY <1>6 DEF Announce, GuestInv, Unjoined
<1> QED
  BY <1>1, <1>2, <1>3, <1>4, <1>5, <1>6 DEF Next

LEMMA HitchesGrow == ASSUME DepartureInv, LineInv, [Next]_vars PROVE hitches \subseteq hitches'
<1>1. ASSUME NEW d \in Member, AdminActs(d) PROVE UNCHANGED hitches
  BY <1>1, AdminsByHand DEF ByHand
<1>2. ASSUME NEW d \in Member, Finalises(d) PROVE hitches \subseteq hitches'
  BY <1>2, FiresFields, FireFields, CommittedFields DEF Finalises
<1>3. ASSUME NEW d \in Member, Listens(d) PROVE UNCHANGED hitches
  BY <1>3, ListensFields DEF Listens
<1>4. ASSUME NEW d \in Member,
             LeaveGroup(d) \/ Resubscribe(d) \/ Restart(d) \/ \E p \in Member : Announce(d, p)
      PROVE  hitches \subseteq hitches'
  BY <1>4 DEF LeaveGroup, Resubscribe, Restart, Announce, Hitch
<1> QED
  BY <1>1, <1>2, <1>3, <1>4 DEF Next, vars

(* The rivals of a fork are of two admins, for an admin stays on its own.  Where *)
(* there are two, one rival is the device's own, and it is on that.             *)
TwoAdmins == \E a, b \in Member : MayBeAdmin \subseteq {a, b}

LEMMA OneCommitEach ==
    ASSUME LineInv, OwnInv, NEW c \in 2..Len(log), NEW e \in 2..Len(log),
           log[c].by = log[e].by, log[c].parent = log[e].parent
    PROVE  c = e
<1>1. PICK g \in 1..Len(log) : g = Group(log[c].by) /\ {c, e} \subseteq log[g].past
  BY DEF OwnInv, OnOwn
<1>2. OneLine(g) /\ c # 1 /\ e # 1
  BY DEF LineInv
<1> QED
  BY <1>1, <1>2 DEF OneLine

LEMMA AdminsNeverRollBack ==
    ASSUME TwoAdmins, DepartureInv, LineInv, OwnInv, NEW d \in Member \cap MayBeAdmin
    PROVE  ~ RollsBack(d)
<1> SUFFICES ASSUME RollsBack(d) PROVE FALSE
  OBVIOUS
<1>1. PICK e \in 2..Len(log), c \in 2..Len(log) :
        /\ e = dev[d].head /\ c # e /\ log[c].parent = log[e].parent /\ log[e].by # d
  BY DEF RollsBack
<1>2. PICK p \in 1..Len(log) : p = log[e].parent
  <2>1. log[e].parent \in 1..e - 1 /\ Len(log) \in Nat
    BY <1>1, InvParts DEF LogOK, LogInv
  <2> QED
    BY <1>1, <2>1
<1>3. {log[c].by, log[e].by} \subseteq MayBeAdmin
  BY <1>1, <1>2 DEF LineInv, MadeFrom, PastOf
<1>4. log[c].by # log[e].by
  BY <1>1, OneCommitEach
<1>5. log[c].by = d
  BY <1>1, <1>3, <1>4 DEF TwoAdmins
<1>6. c \in log[e].past
  BY <1>1, <1>5 DEF OwnInv, OnOwn, Group
<1>7. e \in log[e].past /\ OneLine(e) /\ c # 1 /\ e # 1
  BY <1>1 DEF LineInv, PastOf
<1> QED
  BY <1>1, <1>6, <1>7 DEF OneLine

(* Only guests come to the tree of a device that does not roll back.            *)
LEMMA MembersOnlyLeave ==
    ASSUME DepartureInv, LineInv, HeadStep, NEW x \in Member, ~Joins(x), ~RollsBack(x)
    PROVE  MembersOf(x)' \subseteq MembersOf(x) \cup Guests
<1>1. dev[x].head \in 0..Len(log) /\ Len(log) \in Nat
  BY InvParts, GroupAssumption DEF DevOK, HeadInv, Device, LogOK
<1>2. CASE Stays(x)
  <2>1. \A c \in 1..Len(log) : log'[c] = log[c]
    BY DEF HeadStep, Commits, CommitsOne
  <2> QED
    BY <1>1, <1>2, <2>1 DEF Stays, MembersOf, Group, MembersAt, Leaves
<1>3. CASE Commits(x)
  <2>1. PICK n \in Nat : /\ n = Len(log) + 1 /\ dev'[x].head = n
                         /\ MembersAt(n)' \subseteq MembersOf(x) \cup Guests
    BY <1>3 DEF Commits, CommitsOne
  <2> QED
    BY <1>1, <2>1 DEF MembersOf, Group, MembersAt, Leaves
<1>4. CASE Follows(x)
  <2>1. PICK h \in 2..Len(log), g \in 1..Len(log) :
          h = dev'[x].head /\ g = dev[x].head /\ log[h].parent = g /\ UNCHANGED log
    BY <1>4 DEF Follows
  <2>2. MembersAt(h) \subseteq MembersAt(g) \cup Guests
    BY <2>1 DEF LineInv, MadeFrom
  <2>3. MembersOf(x) = MembersAt(g) /\ MembersOf(x)' = MembersAt(h)
    BY <2>1 DEF MembersOf, Group, MembersAt, Leaves
  <2> QED
    BY <2>2, <2>3
<1> QED
  BY <1>2, <1>3, <1>4 DEF HeadStep

(* What was remembered is, and what was removed stays out, when the tree gains   *)
(* only guests and the queue loses nobody who is still in it.                   *)
LEMMA StillRemembers ==
    ASSUME Named \cap Guests = {}, GoneInv, NEW x \in Member, Remembers(x),
           hitches \subseteq hitches', MembersOf(x)' \subseteq MembersOf(x) \cup Guests,
           dev'[x].handled = dev[x].handled,
           \A p \in MembersOf(x) : p \in dev[x].queue => p \in dev'[x].queue
    PROVE  Remembers(x)'
<1> SUFFICES ASSUME "restarted" \notin hitches', NEW i \in dev'[x].handled, i.of \in MembersOf(x)'
             PROVE  i.of \in dev'[x].queue
  BY DEF Remembers
<1>1. i \in dev[x].handled /\ i.of \notin Guests /\ i.of \in MembersOf(x)
  BY NamedOnly DEF Told
<1> QED
  BY <1>1 DEF Remembers

LEMMA StillRemoved ==
    ASSUME Named \cap Guests = {}, GoneInv, NEW x \in Member, Removed(x),
           MembersOf(x)' \subseteq MembersOf(x) \cup Guests,
           \A j \in jobs'[x] : j.at = "commit" =>
             \/ \E k \in jobs[x] : k.at = "commit" /\ k.gone = j.gone
             \/ j.gone \cap MembersOf(x)' = {}
    PROVE  Removed(x)'
<1> SUFFICES ASSUME NEW j \in jobs'[x], j.at = "commit" PROVE j.gone \cap MembersOf(x)' = {}
  BY DEF Removed
<1>1. CASE j.gone \cap MembersOf(x)' = {}
  BY <1>1
<1>2. ASSUME NEW k \in jobs[x], k.at = "commit", k.gone = j.gone PROVE j.gone \cap MembersOf(x)' = {}
  <2>1. k.gone \cap Guests = {}
    BY <1>2, NamedOnly DEF GoneOf
  <2> QED
    BY <1>2, <2>1 DEF Removed
<1> QED
  BY <1>1, <1>2

(* A function whose queue was replaced is otherwise what it was.                *)
LEMMA FilteredSame ==
    ASSUME NEW d \in Member, NEW js \in SUBSET Job, NEW S, NEW k \in Filtered(d, js, S)
    PROVE  \E j \in js : k.at = j.at /\ k.gone = j.gone
<1>1. CASE k \in js
  BY <1>1
<1>2. CASE k \in Detached(d, js)
  <2>1. PICK j \in js : k = [j EXCEPT !.queue = [live |-> FALSE, entries |-> EntriesOf(d, j)]]
    BY <1>2 DEF Detached
  <2>2. \A q : [j EXCEPT !.queue = q].at = j.at /\ [j EXCEPT !.queue = q].gone = j.gone
    BY DEF Job
  <2> QED
    BY <2>1, <2>2
<1> QED
  BY <1>1, <1>2 DEF Filtered

LEMMA AwaitingAt ==
    ASSUME NEW j \in Job, NEW gone \in SUBSET Member
    PROVE  Awaiting(j, gone).gone = gone
  BY AwaitingJob

(* Whose device does nothing keeps what it has, and may take in a Welcome.       *)
LEMMA OthersKeep ==
    ASSUME Named \cap Guests = {}, TwoAdmins, DepartureInv, LineInv, GoneInv, OwnInv,
            HeadStep, hitches \subseteq hitches',
           NEW x \in Member \cap MayBeAdmin, Remembers(x), Removed(x), ~Joins(x),
           dev'[x].handled = dev[x].handled, dev[x].queue \subseteq dev'[x].queue,
           \A j \in jobs'[x] : j \in jobs[x] \/ j.at = "group"
    PROVE  Remembers(x)' /\ Removed(x)'
<1>1. MembersOf(x)' \subseteq MembersOf(x) \cup Guests
  BY AdminsNeverRollBack, MembersOnlyLeave
<1> QED
  BY <1>1, StillRemembers, StillRemoved

LEMMA JoinedKeep ==
    ASSUME NEW x \in Member, Unjoined(x), dev'[x].handled = dev[x].handled, UNCHANGED jobs
    PROVE  Remembers(x)' /\ Removed(x)'
  BY DEF Unjoined, Remembers, Removed

LEMMA EnqueueKeeps ==
    ASSUME DepartureInv, NEW d \in Member, NEW i \in intents, EnqueueLeave(d, i),
           Remembers(d), Removed(d)
    PROVE  Remembers(d)' /\ Removed(d)'
<1>1. /\ UNCHANGED <<log, jobs, hitches>> /\ dev'[d].head = dev[d].head
      /\ dev'[d].handled = dev[d].handled \cup {i} /\ dev'[d].queue = dev[d].queue \cup {i.of}
  BY ListensFields
<1>2. MembersOf(d)' = MembersOf(d)
  BY <1>1 DEF MembersOf, Group, MembersAt, Leaves
<1> QED
  BY <1>1, <1>2 DEF Remembers, Removed

LEMMA RestartKeeps ==
    ASSUME DepartureInv, NEW d \in Member, Restart(d)
    PROVE  Remembers(d)' /\ Removed(d)'
<1>1. "restarted" \in hitches' /\ jobs'[d] = {}
  BY RestartFields
<1> QED
  BY <1>1 DEF Remembers, Removed

LEMMA CommittedKeeps ==
    ASSUME Named \cap Guests = {}, DepartureInv, GoneInv, 
           NEW d \in Member, NEW j \in jobs[d], AutoCommitted(d, j), Remembers(d), Removed(d)
    PROVE  Remembers(d)' /\ Removed(d)'
<1>1. /\ UNCHANGED <<log, hitches>> /\ j.at = "commit" /\ dev'[d].head = dev[d].head
      /\ dev'[d].handled = dev[d].handled /\ dev'[d].queue = dev[d].queue \ j.gone
      /\ jobs'[d] = Filtered(d, jobs[d] \ {j}, j.gone)
  BY CommittedFields
<1>2. MembersOf(d)' = MembersOf(d)
  BY <1>1 DEF MembersOf, Group, MembersAt, Leaves
<1>3. j.gone \cap MembersOf(d) = {}
  BY <1>1 DEF Removed
<1>4. jobs[d] \ {j} \in SUBSET Job
  BY InvParts DEF JobsOK
<1>5. \A k \in jobs'[d] : \E o \in jobs[d] : k.at = o.at /\ k.gone = o.gone
  BY <1>1, <1>4, FilteredSame
<1> QED
  BY <1>1, <1>2, <1>3, <1>5, StillRemembers, StillRemoved

LEMMA FireKeeps ==
    ASSUME Named \cap Guests = {}, DepartureInv, LineInv, GoneInv, 
           NEW d \in Member, NEW j \in jobs[d], FireAutoCommit(d, j), Remembers(d), Removed(d)
    PROVE  Remembers(d)' /\ Removed(d)'
<1> DEFINE gone  == Departing(d, j)
           stale == EntriesOf(d, j) \ gone
           rest  == Filtered(d, jobs[d] \ {j}, stale)
<1>1. /\ hitches \subseteq hitches' /\ dev'[d].handled = dev[d].handled
      /\ dev'[d].queue = dev[d].queue \ stale
      /\ \/ UNCHANGED log /\ dev'[d].head = dev[d].head /\ jobs'[d] = rest
         \/ /\ jobs'[d] = rest \cup {Awaiting(j, gone)}
            /\ MembersOf(d)' \subseteq MembersOf(d) \ gone
  BY FireFields
<1>2. j \in Job /\ gone \in SUBSET Member /\ jobs[d] \ {j} \in SUBSET Job
  BY FireBase, InvParts DEF JobsOK
<1>3. stale \cap MembersOf(d) = {}
  <2> SUFFICES ASSUME NEW p \in MembersOf(d), p \in EntriesOf(d, j), p \notin gone PROVE FALSE
    OBVIOUS
  <2>1. p \in MembersAt(Group(d))
    BY DEF MembersOf
  <2> QED
    BY <2>1 DEF Departing, LeavesToRemove, MembersAt
<1>4. \A k \in rest : \E o \in jobs[d] : k.at = o.at /\ k.gone = o.gone
  BY <1>2, FilteredSame
<1>5. Awaiting(j, gone).gone = gone
  BY <1>2, AwaitingAt
<1> HIDE DEF gone, stale, rest
<1>6. MembersOf(d)' \subseteq MembersOf(d)
  BY <1>1 DEF MembersOf, Group, MembersAt, Leaves
<1>7. \A k \in jobs'[d] : k.at = "commit" =>
        \/ \E o \in jobs[d] : o.at = "commit" /\ o.gone = k.gone
        \/ k.gone \cap MembersOf(d)' = {}
  BY <1>1, <1>4, <1>5
<1> QED
  BY <1>1, <1>3, <1>6, <1>7, StillRemembers, StillRemoved

LEMMA KeptNext ==
    ASSUME Named \cap Guests = {}, TwoAdmins, DepartureInv, LineInv, GoneInv, OwnInv,
           GuestInv, HeadStep, KeptInv, [Next]_vars
    PROVE  KeptInv'
<1> SUFFICES ASSUME NEW x \in Member \cap MayBeAdmin PROVE Remembers(x)' /\ Removed(x)'
  BY DEF KeptInv
<1>1. Remembers(x) /\ Removed(x) /\ hitches \subseteq hitches'
  BY HitchesGrow DEF KeptInv
<1>2. Joins(x) => Unjoined(x)
  BY DEF Joins, GuestInv, Named
<1>3. ASSUME dev'[x].handled = dev[x].handled, UNCHANGED jobs,
             Joins(x) \/ dev[x].queue \subseteq dev'[x].queue
      PROVE  Remembers(x)' /\ Removed(x)'
  BY <1>1, <1>2, <1>3, OthersKeep, JoinedKeep
<1>4. CASE UNCHANGED vars
  BY <1>3, <1>4 DEF vars
<1>5. ASSUME NEW d \in Member, AdminActs(d) PROVE Remembers(x)' /\ Removed(x)'
  <2>1. PICK n \in Nat : ByHand(d, n)
    BY <1>5, AdminsByHand
  <2>2. Commits(d)
    BY <1>5, <2>1, AdminsAddOne DEF ByHand, Commits
  <2> QED
    BY <1>3, <2>1, <2>2 DEF ByHand, Joins
<1>6. ASSUME NEW d \in Member, SameElse(d), d # x PROVE Remembers(x)' /\ Removed(x)'
  <2>1. dev'[x] = dev[x] /\ jobs'[x] = jobs[x]
    BY <1>6 DEF SameElse
  <2>2. ~ Joins(x)
    BY <2>1 DEF Joins
  <2> QED
    BY <1>1, <2>1, <2>2, OthersKeep
<1>7. ASSUME NEW d \in Member, LeaveGroup(d) \/ Resubscribe(d) \/ Restart(d)
      PROVE  Remembers(x)' /\ Removed(x)'
  <2>1. SameElse(d)
    BY <1>7, LeaveFields, ResubscribeFields, RestartFields
  <2>2. CASE d = x /\ Restart(d)
    BY <2>2, RestartKeeps
  <2>3. CASE d = x /\ ~Restart(d)
    <3>1. UNCHANGED jobs /\ dev'[x].handled = dev[x].handled /\ dev'[x].queue = dev[x].queue
      BY <1>7, <2>3, LeaveFields, ResubscribeFields
    <3> QED
      BY <1>3, <3>1
  <2> QED
    BY <1>6, <2>1, <2>2, <2>3
<1>8. ASSUME NEW d \in Member, Listens(d) PROVE Remembers(x)' /\ Removed(x)'
  <2>1. SameElse(d)
    BY <1>8, ListensFields DEF Listens
  <2>2. ASSUME d = x, NEW i \in intents, EnqueueLeave(d, i) PROVE Remembers(x)' /\ Removed(x)'
    BY <1>1, <2>2, EnqueueKeeps
  <2>3. ASSUME d = x, NEW c \in 1..Len(log), HandleCommit(d, c) PROVE Remembers(x)' /\ Removed(x)'
    <3>1. UNCHANGED jobs /\ dev'[x].handled = dev[x].handled /\ dev'[x].queue = dev[x].queue
      BY <2>3, ListensFields
    <3> QED
      BY <1>3, <3>1
  <2> QED
    BY <1>6, <1>8, <2>1, <2>2, <2>3 DEF Listens
<1>9. ASSUME NEW d \in Member, Finalises(d) PROVE Remembers(x)' /\ Removed(x)'
  <2>1. SameElse(d)
    BY <1>9, FiresFields, FireFields, CommittedFields DEF Finalises
  <2>2. CASE d = x /\ TimerFires(d)
    <3>1. /\ dev'[x].stored = dev[x].stored
          /\ dev'[x].handled = dev[x].handled /\ dev'[x].queue = dev[x].queue
          /\ \A j \in jobs'[x] : j \in jobs[x] \/ j.at = "group"
      BY <2>2, FiresFields
    <3> QED
      BY <1>1, <3>1, OthersKeep DEF Joins
  <2>3. ASSUME d = x, NEW j \in jobs[d], FireAutoCommit(d, j) PROVE Remembers(x)' /\ Removed(x)'
    BY <1>1, <2>3, FireKeeps
  <2>4. ASSUME d = x, NEW j \in jobs[d], AutoCommitted(d, j) PROVE Remembers(x)' /\ Removed(x)'
    BY <1>1, <2>4, CommittedKeeps
  <2> QED
    BY <1>6, <1>9, <2>1, <2>2, <2>3, <2>4 DEF Finalises
<1>10. ASSUME NEW d \in Member, NEW p \in Member, Announce(d, p)
       PROVE  Remembers(x)' /\ Removed(x)'
  BY <1>3, <1>10 DEF Announce
<1> QED
  BY <1>4, <1>5, <1>7, <1>8, <1>9, <1>10 DEF Next

LEMMA KeptInit == Init => LineInv /\ OwnInv /\ GuestInv /\ KeptInv
<1> SUFFICES ASSUME Init PROVE LineInv /\ OwnInv /\ GuestInv /\ KeptInv
  OBVIOUS
<1>1. Len(log) = 1 /\ log[1].past = {1} /\ log[1].parent = 0 /\ log[1].admins = FirstAdmins
  BY DEF Init
<1>2. LineInv /\ OwnInv
  BY <1>1, LineInit DEF LineInv, PastOf, OneLine, MadeFrom, OwnInv, MayBeAdmin
<1>3. \A d \in Member : /\ dev[d].handled = {} /\ dev[d].timer = FALSE /\ jobs[d] = {}
                        /\ (~dev[d].stored => dev[d].head = 0)
  BY DEF Init
<1> QED
  BY <1>2, <1>3 DEF GuestInv, Unjoined, KeptInv, Remembers, Removed

LineageInv == LineInv /\ OwnInv /\ GuestInv /\ KeptInv
LEMMA LineageNext ==
    ASSUME Named \cap Guests = {}, TwoAdmins, DepartureInv, GoneInv, LineageInv, [Next]_vars
    PROVE  LineageInv'
<1>1. LineInv /\ OwnInv /\ GuestInv /\ KeptInv
  BY DEF LineageInv
<1>2. HeadStep
  BY <1>1, HeadsMove
<1>3. LineInv'
  BY <1>1, <1>2, LineKept, LineGrows DEF HeadStep, Commits
<1>4. \A p \in Member : Joins(p) => Unjoined(p)
  BY <1>1 DEF Joins, GuestInv, Named
<1> QED
  BY <1>1, <1>2, <1>3, <1>4, OwnKept, GuestKept, KeptNext DEF LineageInv

(* What an admin has read of a departure it does not forget, for any number of   *)
(* departures, commits by hand and timers in flight, any failure but a restart,  *)
(* and any fork the two admins make: nobody who may leave or be reported is      *)
(* invited, and at most two members are ever admins.  With two, no admin rolls a *)
(* commit back; a third could, and the member would be in its tree and not in    *)
(* its queue.                                                                    *)
THEOREM DeparturesAreRemembered ==
    ASSUME (Leavers \cup Reported) \cap Guests = {},
           \E a, b \in Member : FirstAdmins \cup Grantees \subseteq {a, b}
    PROVE  Spec => []NoDepartureForgotten
<1>1. TwoAdmins /\ Named \cap Guests = {} /\ Leavers \cap Guests = {}
  BY DEF TwoAdmins, MayBeAdmin, Named
<1>2. Init => DepartureInv /\ GoneInv /\ LineageInv
  BY DepartureInit, GoneInit, KeptInit DEF LineageInv
<1>3. DepartureInv /\ GoneInv /\ LineageInv /\ [Next]_vars =>
        DepartureInv' /\ GoneInv' /\ LineageInv'
  BY <1>1, DepartureNext, GoneNext, LineageNext DEF LineageInv
<1>4. DepartureInv /\ LineageInv => NoDepartureForgotten
  <2> SUFFICES ASSUME DepartureInv, LineageInv, "restarted" \notin hitches, NEW d \in Member,
                      Receives(d), d \in log[Group(d)].admins
               PROVE  \A i \in dev[d].handled : i.of \in MembersOf(d) => i.of \in dev[d].queue
    BY DEF NoDepartureForgotten
  <2>1. MayCommit(d)
    BY DEF Receives, MayCommit
  <2>2. d \in MayBeAdmin
    BY <2>1, AdminsMayBe DEF LineageInv
  <2> QED
    BY <2>2 DEF LineageInv, KeptInv, Remembers
<1> QED
  BY <1>2, <1>3, <1>4, PTL DEF Spec
=============================================================================
