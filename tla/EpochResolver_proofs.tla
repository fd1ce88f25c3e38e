------------------------ MODULE EpochResolver_proofs -------------------------
(***************************************************************************)
(* Fork resolution and buffering for any commits, messages, buffer sizes and  *)
(* orders of delivery: what is not lost, what is read as soon as it can be,   *)
(* and that two competing commits are resolved as ForkChoice says.            *)
(***************************************************************************)
EXTENDS EpochFork, FiniteSetTheorems, SequenceTheorems, WellFoundedInduction, TLAPS

-----------------------------------------------------------------------------
(* Iteration and least numbers.                                                *)

LEMMA Least ==
    ASSUME NEW B, B \subseteq Nat, B # {}
    PROVE  \E i \in B : \A j \in B : i <= j
<1>1. PICK i \in B : \A j \in B : ~ (<<j, i>> \in OpToRel(<, Nat))
  BY NatLessThanWellFounded, WFMin, Zenon
<1>2. \A j \in B : ~ (j < i)
  BY <1>1, Zenon DEF OpToRel
<1> QED
  BY <1>2

(* A step for each of 1..n, from s: a function with their results exists.      *)
Steps(n, A, G) == \A i \in 1..n : \A x \in A[i-1] : G[i][x] \in A[i]
Iteration(f, n, A, G, s) ==
    /\ f[0] = s /\ \A i \in 1..n : f[i] = G[i][f[i-1]]
    /\ \A i \in 0..n : f[i] \in A[i]

LEMMA Iterates ==
    ASSUME NEW n \in Nat, NEW A, NEW G, NEW s, s \in A[0], Steps(n, A, G)
    PROVE  \E f : Iteration(f, n, A, G, s)
<1> USE DEF Steps, Iteration
<1> DEFINE Run(k, f) == /\ f[0] = s /\ \A i \in 1..k : f[i] = G[i][f[i-1]]
                        /\ \A i \in 0..k : f[i] \in A[i]
           B == {k \in 0..n : ~ \E f : Run(k, f)}
<1>1. CASE B = {}
  <2>1. n \notin B
    BY <1>1
  <2> QED
    BY <2>1
<1>2. CASE B # {}
  <2>1. PICK k \in B : \A j \in B : k <= j
    <3>1. B \subseteq Nat
      OBVIOUS
    <3> HIDE DEF B
    <3> QED
      BY <1>2, <3>1, Least
  <2>2. CASE k = 0
    <3>1. PICK f : f = [i \in 0..0 |-> s]
      OBVIOUS
    <3>2. Run(0, f)
      BY <3>1
    <3> QED
      BY <2>1, <2>2, <3>2
  <2>3. CASE k # 0
    <3>1. k \in 1..n /\ k - 1 \in 0..n /\ k - 1 \notin B
      BY <2>1, <2>3
    <3>2. PICK f : Run(k - 1, f)
      BY <3>1
    <3>3. PICK h : h = [i \in 0..k |-> IF i = k THEN G[k][f[k-1]] ELSE f[i]]
      OBVIOUS
    <3>4. \A i \in 0..k-1 : h[i] = f[i]
      BY <3>1, <3>3
    <3>5. ASSUME NEW i \in 1..k-1 PROVE h[i] = G[i][h[i-1]]
      <4>1. i \in 0..k-1 /\ i - 1 \in 0..k-1
        BY <3>1
      <4> QED
        BY <3>2, <3>4, <4>1
    <3>6. h[0] = s /\ h[k] = G[k][h[k-1]]
      BY <3>1, <3>2, <3>3, <3>4
    <3>7. \A i \in 0..k : h[i] \in A[i]
      BY <3>1, <3>2, <3>3, <3>4
    <3>8. \A i \in 1..k : i \in 1..k-1 \/ i = k
      BY <3>1
    <3>9. Run(k, h)
      BY <3>5, <3>6, <3>7, <3>8
    <3> QED
      BY <2>1, <3>9
  <2> QED
    BY <2>2, <2>3
<1> QED
  BY <1>1, <1>2

-----------------------------------------------------------------------------
(* A batch keeps what each of its events keeps.                                *)

LEMMA BatchKeeps ==
    ASSUME NEW S, IsFiniteSet(S), NEW A, A \subseteq Groups, NEW g \in A,
           \A h \in A : Advanced(S)[h] \in A
    PROVE  /\ AfterBatch(S, g) \in A
           /\ S # {} => \E h \in A : AfterBatch(S, g) = Advanced(S)[h]
<1>0. PICK n \in Nat : n = Cardinality(S)
  BY FS_CardinalityType
<1>1. S # {} => n # 0
  BY <1>0, FS_EmptySet
<1>2. PICK B, G : B = [i \in 0..n |-> A] /\ G = [i \in 1..n |-> Advanced(S)]
  OBVIOUS
<1>3. PICK f : /\ f[0] = g /\ \A i \in 1..n : f[i] = G[i][f[i-1]]
               /\ \A i \in 0..n : f[i] \in B[i]
  <2>1. g \in B[0] /\ Steps(n, B, G)
    BY <1>1, <1>2 DEF Steps
  <2>2. PICK f : Iteration(f, n, B, G, g)
    BY <2>1, Iterates
  <2> QED
    BY <2>2 DEF Iteration
<1>4. PICK h : h = [i \in 0..n |-> f[i]]
  OBVIOUS
<1>5. h = [i \in 0..n |-> IF i = 0 THEN g ELSE Advanced(S)[h[i-1]]]
  <2>1. ASSUME NEW i \in 0..n PROVE h[i] = IF i = 0 THEN g ELSE Advanced(S)[h[i-1]]
    <3>1. i = 0 \/ (i \in 1..n /\ i - 1 \in 0..n)
      OBVIOUS
    <3>2. i \in 1..n => h[i] = Advanced(S)[h[i-1]] /\ i # 0
      BY <1>2, <1>3, <1>4, <3>1
    <3> QED
      BY <1>3, <1>4, <3>1, <3>2
  <2> QED
    BY <1>4, <2>1
<1> DEFINE run[k \in 0..n] == IF k = 0 THEN g ELSE Advanced(S)[run[k-1]]
<1>6. run = [i \in 0..n |-> IF i = 0 THEN g ELSE Advanced(S)[run[i-1]]]
  BY <1>5, Zenon
<1>7. AfterBatch(S, g) = run[n]
  BY <1>0 DEF AfterBatch
<1> HIDE DEF run
<1>8. \A i \in 0..n : run[i] \in A
  <2> DEFINE C == {i \in 0..n : run[i] \notin A}
  <2>1. ASSUME C # {} PROVE FALSE
    <3>1. C \subseteq Nat
      OBVIOUS
    <3>2. PICK i \in C : \A j \in C : i <= j
      <4> HIDE DEF C
      <4> QED
        BY <2>1, <3>1, Least
    <3>3. CASE i = 0
      BY <1>1, <1>6, <3>2, <3>3
    <3>4. CASE i # 0
      <4>1. i \in 0..n /\ i - 1 \in 0..n /\ run[i-1] \in A /\ run[i] \notin A
        BY <1>1, <3>2, <3>4
      <4>2. run[i] = Advanced(S)[run[i-1]]
        BY <1>6, <3>4, <4>1
      <4> QED
        BY <4>1, <4>2
    <3> QED
      BY <3>3, <3>4
  <2> QED
    BY <2>1
<1>9. n # 0 => run[n] = Advanced(S)[run[n-1]]
  BY <1>1, <1>6
<1> QED
  BY <1>1, <1>7, <1>8, <1>9
-----------------------------------------------------------------------------
(* Sequences.                                                                  *)

LEMMA PrefixFacts ==
    ASSUME NEW s \in Seq(Commits), NEW t \in Seq(Commits)
    PROVE  /\ IsPrefix(s, s)
           /\ IsPrefix(s, <<>>) <=> s = <<>>
           /\ \A e \in Commits : IsPrefix(s, t) => IsPrefix(s, Append(t, e))
           /\ \A e \in Commits : ~ IsPrefix(Append(s, e), s)
           /\ \A r \in Seq(Commits) : IsPrefix(s, t) /\ IsPrefix(t, r) => IsPrefix(s, r)
           /\ IsPrefix(s, t) /\ IsPrefix(t, s) => s = t
<1>1. \A r \in Seq(Commits) :
        IsPrefix(s, r) <=> Len(s) <= Len(r) /\ \A i \in 1..Len(s) : s[i] = r[i]
  BY DEF IsPrefix
<1>2. \A r \in Seq(Commits) :
        IsPrefix(t, r) <=> Len(t) <= Len(r) /\ \A i \in 1..Len(t) : t[i] = r[i]
  BY DEF IsPrefix
<1>3. IsPrefix(s, <<>>) <=> s = <<>>
  BY DEF IsPrefix
<1>4. \A e \in Commits : IsPrefix(s, t) => IsPrefix(s, Append(t, e))
  <2>1. ASSUME NEW e \in Commits, IsPrefix(s, t) PROVE IsPrefix(s, Append(t, e))
    <3>1. PICK r : r = Append(t, e)
      OBVIOUS
    <3>2. /\ r \in Seq(Commits) /\ Len(r) = Len(t) + 1 /\ \A i \in 1..Len(t) : r[i] = t[i]
          /\ Len(s) \in Nat /\ Len(t) \in Nat
      BY <3>1
    <3>4. Len(s) <= Len(t) /\ \A i \in 1..Len(s) : s[i] = t[i]
      BY <1>1, <2>1
    <3>5. \A i \in 1..Len(s) : s[i] = r[i]
      BY <3>2, <3>4
    <3>3. IsPrefix(s, r)
      BY <1>1, <3>2, <3>4, <3>5
    <3> QED
      BY <3>1, <3>3
  <2> QED
    BY <2>1
<1>5. \A e \in Commits : ~ IsPrefix(Append(s, e), s)
  BY DEF IsPrefix
<1>6. \A r \in Seq(Commits) : IsPrefix(s, t) /\ IsPrefix(t, r) => IsPrefix(s, r)
  BY <1>1, <1>2
<1>7. IsPrefix(s, t) /\ IsPrefix(t, s) => s = t
  BY <1>1, <1>2
<1> QED
  BY <1>1, <1>3, <1>4, <1>5, <1>6, <1>7

LEMMA ElementsOf ==
    ASSUME NEW T, NEW s \in Seq(T)
    PROVE  /\ \A e \in T : ToSet(Append(s, e)) = ToSet(s) \cup {e}
           /\ s # <<>> => /\ Head(s) \in T /\ Tail(s) \in Seq(T)
                          /\ ToSet(s) = {Head(s)} \cup ToSet(Tail(s))
           /\ ToSet(s) \subseteq T /\ IsFiniteSet(ToSet(s))
           /\ ToSet(<<>>) = {}
<1>1. \A e \in T : ToSet(Append(s, e)) = ToSet(s) \cup {e}
  <2>1. ASSUME NEW e \in T PROVE ToSet(Append(s, e)) = ToSet(s) \cup {e}
    <3>1. /\ Len(s) \in Nat /\ DOMAIN s = 1..Len(s) /\ DOMAIN Append(s, e) = 1..Len(s) + 1
          /\ Append(s, e)[Len(s) + 1] = e
          /\ \A i \in 1..Len(s) : Append(s, e)[i] = s[i]
      OBVIOUS
    <3>2. \A i \in 1..Len(s) + 1 : i \in 1..Len(s) \/ i = Len(s) + 1
      BY <3>1
    <3>3. 1..Len(s) \subseteq 1..Len(s) + 1 /\ Len(s) + 1 \in 1..Len(s) + 1
      BY <3>1
    <3> QED
      BY <3>1, <3>2, <3>3 DEF ToSet
  <2> QED
    BY <2>1
<1>2. ASSUME s # <<>>
      PROVE  /\ Head(s) \in T /\ Tail(s) \in Seq(T)
             /\ ToSet(s) = {Head(s)} \cup ToSet(Tail(s))
  <2>1. /\ Head(s) = s[1] /\ Head(s) \in T /\ Tail(s) \in Seq(T) /\ Len(s) \in Nat \ {0}
        /\ DOMAIN s = 1..Len(s) /\ DOMAIN Tail(s) = 1..Len(s) - 1
        /\ \A i \in 1..Len(s) - 1 : Tail(s)[i] = s[i+1]
    BY <1>2
  <2>2. ASSUME NEW e \in ToSet(s) PROVE e \in {Head(s)} \cup ToSet(Tail(s))
    <3>1. PICK i \in 1..Len(s) : e = s[i]
      BY <2>1 DEF ToSet
    <3>2. i = 1 \/ (i - 1 \in 1..Len(s) - 1 /\ Tail(s)[i-1] = s[i])
      BY <2>1, <3>1
    <3> QED
      BY <2>1, <3>1, <3>2 DEF ToSet
  <2>3. ASSUME NEW e \in {Head(s)} \cup ToSet(Tail(s)) PROVE e \in ToSet(s)
    BY <2>1 DEF ToSet
  <2> QED
    BY <2>1, <2>2, <2>3
<1>3. ToSet(s) \subseteq T /\ ToSet(<<>>) = {}
  BY DEF ToSet
<1>4. IsFiniteSet(ToSet(s))
  <2>1. Len(s) \in Nat /\ DOMAIN s = 1..Len(s)
    OBVIOUS
  <2>4. IsFiniteSet(1..Len(s))
    BY <2>1, FS_Interval
  <2>2. PICK f : f = [i \in 1..Len(s) |-> s[i]]
    OBVIOUS
  <2>3. f \in Surjection(1..Len(s), ToSet(s))
    BY <2>1, <2>2 DEF Surjection, ToSet
  <2> QED
    BY <2>3, <2>4, FS_Surjection
<1> QED
  BY <1>1, <1>2, <1>3, <1>4

LEMMA Removed ==
    ASSUME NEW b \in Seq(Events), NEW i \in DOMAIN b
    PROVE  /\ RemoveAt(b, i) \in Seq(Events) /\ Len(RemoveAt(b, i)) = Len(b) - 1
           /\ ToSet(RemoveAt(b, i)) \subseteq ToSet(b)
<1>1. PICK l, r : l = SubSeq(b, 1, i - 1) /\ r = SubSeq(b, i + 1, Len(b))
  OBVIOUS
<1>2. /\ l \in Seq(Events) /\ Len(l) = i - 1 /\ \A k \in 1..i - 1 : l[k] = b[k]
      /\ r \in Seq(Events) /\ Len(r) = Len(b) - i /\ \A k \in 1..Len(b) - i : r[k] = b[k+i]
      /\ i \in 1..Len(b) /\ Len(b) \in Nat /\ DOMAIN b = 1..Len(b)
  BY <1>1
<1>3. RemoveAt(b, i) = l \o r
  BY <1>1 DEF RemoveAt
<1>0. PICK q : q = l \o r
  OBVIOUS
<1>4. /\ q = l \o r /\ q \in Seq(Events) /\ Len(q) = Len(l) + Len(r)
      /\ \A k \in 1..Len(l) + Len(r) : q[k] = IF k <= Len(l) THEN l[k] ELSE r[k - Len(l)]
  BY <1>0, <1>2, ConcatProperties
<1>5. Len(q) = Len(b) - 1 /\ DOMAIN q = 1..Len(b) - 1
  <2>1. Len(q) = Len(b) - 1
    BY <1>2, <1>4
  <2> QED
    BY <1>4, <2>1
<1>6. ASSUME NEW k \in 1..Len(b) - 1 PROVE \E j \in DOMAIN b : q[k] = b[j]
  <2>1. CASE k <= i - 1
    <3>1. k \in 1..i - 1 /\ k \in 1..Len(l) + Len(r) /\ k <= Len(l) /\ k \in DOMAIN b
      BY <1>2, <2>1
    <3>2. q[k] = l[k]
      BY <1>2, <1>4, <3>1
    <3> QED
      BY <1>2, <3>1, <3>2
  <2>2. CASE ~(k <= i - 1)
    <3>1. /\ k - (i - 1) \in 1..Len(b) - i /\ k - (i - 1) + i = k + 1 /\ k + 1 \in DOMAIN b
          /\ k \in 1..Len(l) + Len(r) /\ ~(k <= Len(l)) /\ k - Len(l) = k - (i - 1)
      BY <1>2, <2>2
    <3>2. q[k] = r[k - Len(l)]
      BY <1>2, <1>4, <3>1
    <3>3. r[k - (i - 1)] = b[k + 1]
      BY <1>2, <3>1
    <3> QED
      BY <3>1, <3>2, <3>3
  <2> QED
    BY <2>1, <2>2
<1>7. ToSet(q) \subseteq ToSet(b)
  BY <1>5, <1>6 DEF ToSet
<1> QED
  BY <1>3, <1>4, <1>5, <1>7

(* capBuffer drops an element only, and the buffer fits again.                 *)
LEMMA Capped ==
    ASSUME NEW b \in Seq(Events), Len(b) <= MaxBuffer + 1
    PROVE  /\ CapBuffer(b) \in Seq(Events) /\ Len(CapBuffer(b)) <= MaxBuffer
           /\ ToSet(CapBuffer(b)) \subseteq ToSet(b)
<1>1. CASE Len(b) <= MaxBuffer
  BY <1>1 DEF CapBuffer
<1>2. CASE ~(Len(b) <= MaxBuffer)
  <2> DEFINE Oldest(i) == /\ \A j \in DOMAIN b : Created[b[i]] <= Created[b[j]]
                          /\ \A j \in DOMAIN b : Created[b[i]] = Created[b[j]] => i <= j
  <2>1. MaxBuffer \in Nat /\ \A i \in DOMAIN b : Created[b[i]] \in Nat
    BY BoundAssumption, OrderAssumption
  <2>2. DOMAIN b \subseteq Nat /\ DOMAIN b # {}
    BY <1>2, <2>1
  <2>3. PICK T : T = {Created[b[i]] : i \in DOMAIN b}
    OBVIOUS
  <2>4. PICK t \in T : \A u \in T : t <= u
    BY <2>1, <2>2, <2>3, Least
  <2>5. PICK B : B = {i \in DOMAIN b : Created[b[i]] = t}
    OBVIOUS
  <2>6. PICK i \in B : \A j \in B : i <= j
    BY <2>2, <2>3, <2>4, <2>5, Least
  <2>7. i \in DOMAIN b /\ Oldest(i)
    BY <2>1, <2>3, <2>4, <2>5, <2>6
  <2>8. PICK k : k = CHOOSE j \in DOMAIN b : Oldest(j)
    OBVIOUS
  <2>9. k \in DOMAIN b
    BY <2>7, <2>8
  <2>10. CapBuffer(b) = RemoveAt(b, k)
    BY <1>2, <2>8 DEF CapBuffer
  <2> QED
    BY <2>1, <2>9, <2>10, Removed
<1> QED
  BY <1>1, <1>2
-----------------------------------------------------------------------------
(* Groups and batches.                                                         *)

Extends(h, g) == IsPrefix(g.branch, h.branch) /\ g.used \subseteq h.used

LEMMA GroupFacts ==
    ASSUME NEW g \in Groups
    PROVE  /\ g.branch \in Seq(Commits) /\ g.used \subseteq Messages
           /\ g = [branch |-> g.branch, used |-> g.used]
           /\ Extends(g, g)
           /\ \A h, k \in Groups : Extends(h, g) /\ Extends(k, h) => Extends(k, g)
BY PrefixFacts DEF Groups, Extends

LEMMA IngestedGroup ==
    ASSUME NEW g \in Groups, NEW e \in Events
    PROVE  /\ Ingested(e, g) \in Groups /\ Extends(Ingested(e, g), g)
           /\ e \in Messages => /\ e \notin Commits /\ Ingested(e, g).branch = g.branch
                                /\ Ingested(e, g).used = g.used \cup {e}
           /\ e \in Commits => /\ e \notin Messages /\ Ingested(e, g).branch = Append(g.branch, e)
                               /\ Ingested(e, g).used = g.used
<1>1. g.branch \in Seq(Commits) /\ g.used \subseteq Messages /\ Commits \cap Messages = {}
  BY EventAssumption, GroupFacts
<1>2. CASE e \in Commits
  <2>1. Ingested(e, g) = [branch |-> Append(g.branch, e), used |-> g.used]
    BY <1>2, GroupFacts DEF Ingested
  <2>2. Append(g.branch, e) \in Seq(Commits) /\ IsPrefix(g.branch, Append(g.branch, e))
    BY <1>1, <1>2, PrefixFacts
  <2> QED
    BY <1>1, <1>2, <2>1, <2>2 DEF Groups, Extends
<1>3. CASE e \in Messages
  <2>0. e \notin Commits
    BY <1>1, <1>3
  <2>1. Ingested(e, g) = [branch |-> g.branch, used |-> g.used \cup {e}]
    <3>1. Ingested(e, g) = [g EXCEPT !.used = g.used \cup {e}]
      BY <2>0, Zenon DEF Ingested
    <3> QED
      BY <3>1 DEF Groups
  <2>2. IsPrefix(g.branch, g.branch)
    BY <1>1, PrefixFacts
  <2> QED
    BY <1>1, <1>3, <2>1, <2>2 DEF Groups, Extends
<1> QED
  BY <1>2, <1>3 DEF Events

LEMMA AdvancedGroup ==
    ASSUME NEW S, S \subseteq Events, NEW g \in Groups
    PROVE  /\ NextOf(S, g) \subseteq {e \in S : Applies(e, g)}
           /\ Advanced(S)[g] \in Groups /\ Extends(Advanced(S)[g], g)
           /\ \/ NextOf(S, g) = {} /\ Advanced(S)[g] = g
              \/ \E e \in NextOf(S, g) : Advanced(S)[g] = Ingested(e, g)
<1>1. NextOf(S, g) \subseteq {e \in S : Applies(e, g)}
  BY DEF NextOf
<1>2. Advanced(S)[g] = IF NextOf(S, g) = {} THEN g
                       ELSE Ingested(CHOOSE e \in NextOf(S, g) : TRUE, g)
  BY DEF Advanced
<1>3. NextOf(S, g) # {} => (CHOOSE e \in NextOf(S, g) : TRUE) \in NextOf(S, g)
  OBVIOUS
<1>4. CASE NextOf(S, g) = {}
  BY <1>1, <1>2, <1>4, GroupFacts
<1>5. CASE NextOf(S, g) # {}
  <2>1. PICK e : e = CHOOSE x \in NextOf(S, g) : TRUE
    OBVIOUS
  <2>2. e \in NextOf(S, g) /\ e \in Events /\ Advanced(S)[g] = Ingested(e, g)
    BY <1>1, <1>2, <1>3, <1>5, <2>1
  <2>3. Ingested(e, g) \in Groups /\ Extends(Ingested(e, g), g)
    BY <2>2, IngestedGroup
  <2> QED
    BY <1>1, <2>2, <2>3
<1> QED
  BY <1>4, <1>5

(* A batch extends the group.                                                  *)
LEMMA BatchExtends ==
    ASSUME NEW S, S \subseteq Events, NEW g \in Groups
    PROVE  AfterBatch(S, g) \in Groups /\ Extends(AfterBatch(S, g), g)
<1>1. IsFiniteSet(S)
  BY EventAssumption, FS_Union, FS_Subset DEF Events
<1>2. PICK A : A = {h \in Groups : Extends(h, g)}
  OBVIOUS
<1>3. g \in A /\ A \subseteq Groups
  BY <1>2, GroupFacts
<1>4. \A h \in A : Advanced(S)[h] \in A
  BY <1>2, AdvancedGroup, GroupFacts
<1>5. AfterBatch(S, g) \in A
  BY <1>1, <1>3, <1>4, BatchKeeps
<1> QED
  BY <1>2, <1>5

(* What is made on the state the group starts in, and nothing on top of it.    *)
OneEpoch == \A c \in Commits : Parent[c] = <<>>

(* In one epoch a batch adds the first commit only.                            *)
LEMMA BatchInOneEpoch ==
    ASSUME OneEpoch, NEW S, S \subseteq Events, NEW g \in Groups
    PROVE  /\ g.branch # <<>> \/ S \cap Commits = {} => AfterBatch(S, g).branch = g.branch
           /\ \A c \in Commits : S \cap Commits = {c} /\ g.branch = <<>> =>
                 AfterBatch(S, g).branch = <<c>>
<1>1. IsFiniteSet(S)
  BY EventAssumption, FS_Union, FS_Subset DEF Events
<1>2. ASSUME g.branch # <<>> \/ S \cap Commits = {}
      PROVE  AfterBatch(S, g).branch = g.branch
  <2>1. PICK A : A = {h \in Groups : h.branch = g.branch}
    OBVIOUS
  <2>2. ASSUME NEW h \in A PROVE Advanced(S)[h] \in A
    <3>1. \A e \in S : Applies(e, h) => e \notin Commits
      BY <1>2, <2>1 DEF Applies, OneEpoch
    <3>2. \A e \in S : Applies(e, h) => e \in Messages
      BY <3>1 DEF Events
    <3> QED
      BY <2>1, <3>2, AdvancedGroup, IngestedGroup
  <2>3. AfterBatch(S, g) \in A
    BY <1>1, <2>1, <2>2, BatchKeeps
  <2> QED
    BY <2>1, <2>3
<1>3. ASSUME NEW c \in Commits, S \cap Commits = {c}, g.branch = <<>>
      PROVE  AfterBatch(S, g).branch = <<c>>
  <2>1. PICK A : A = {h \in Groups : h.branch \in {<<>>, <<c>>}}
    OBVIOUS
  <2>2. ASSUME NEW h \in A PROVE Advanced(S)[h] \in A /\ Advanced(S)[h].branch = <<c>>
    <3>1. CASE h.branch = <<>>
      <4>1. Applies(c, h) /\ c \in S /\ {e \in S : Applies(e, h)} \cap Commits = {c}
        BY <1>3, <3>1 DEF Applies, OneEpoch
      <4>2. NextOf(S, h) = {c}
        BY <4>1 DEF NextOf
      <4>3. Advanced(S)[h] = Ingested(c, h) /\ c \in Events
        BY <2>1, <4>2, AdvancedGroup DEF Events
      <4>4. Append(<<>>, c) = <<c>>
        OBVIOUS
      <4>5. h \in Groups /\ Ingested(c, h) \in Groups /\ Ingested(c, h).branch = Append(h.branch, c)
        BY <2>1, <4>3, IngestedGroup
      <4>6. Ingested(c, h).branch = <<c>>
        BY <3>1, <4>4, <4>5
      <4> QED
        BY <2>1, <4>3, <4>5, <4>6
    <3>2. CASE h.branch = <<c>>
      <4>1. \A e \in S : Applies(e, h) => e \in Messages
        BY <3>2 DEF Applies, OneEpoch, Events
      <4> QED
        BY <2>1, <3>2, <4>1, AdvancedGroup, IngestedGroup
    <3> QED
      BY <2>1, <3>1, <3>2
  <2>3. \E h \in A : AfterBatch(S, g) = Advanced(S)[h]
    <3>1. g \in A /\ A \subseteq Groups /\ S # {}
      BY <1>3, <2>1
    <3> QED
      BY <1>1, <2>2, <3>1, BatchKeeps
  <2> QED
    BY <2>2, <2>3
<1> QED
  BY <1>2, <1>3

(* The flush keeps events of the buffer that are unreadable after it, at most  *)
(* as many as there were.                                                      *)
LEMMA StillHeld ==
    ASSUME NEW b \in Seq(Events), Len(b) <= MaxBuffer, NEW g
    PROVE  /\ StillUnreadable(b, g) \in Seq(Events) /\ Len(StillUnreadable(b, g)) <= MaxBuffer
           /\ \A e \in ToSet(StillUnreadable(b, g)) :
                 e \in ToSet(b) /\ OutcomeOf(e, AfterBatch(ToSet(b), g)) = "unreadable"
<1>1. PICK after : after = AfterBatch(ToSet(b), g)
  OBVIOUS
<1> DEFINE Keep(e) == OutcomeOf(e, after) = "unreadable" /\ e \notin after.used \ g.used
<1>2. PICK K : K = {e \in ToSet(b) : Keep(e)}
  OBVIOUS
<1>3. PICK n : n = Len(b)
  OBVIOUS
<1>4. n \in Nat /\ n <= MaxBuffer /\ MaxBuffer \in Nat /\ K \subseteq Events
  BY <1>2, <1>3, BoundAssumption, ElementsOf
<1>5. PICK A, G :
        /\ A = [i \in 0..n |-> {q \in Seq(K) : Len(q) <= i}]
        /\ G = [i \in 1..n |-> [q \in Seq(K) |-> IF Keep(b[i]) THEN Append(q, b[i]) ELSE q]]
  OBVIOUS
<1>6. <<>> \in A[0] /\ Steps(n, A, G)
  <2>1. <<>> \in A[0]
    BY <1>4, <1>5
  <2>2. ASSUME NEW i \in 1..n, NEW q \in A[i-1] PROVE G[i][q] \in A[i]
    <3>1. i \in 0..n /\ i - 1 \in 0..n /\ b[i] \in ToSet(b)
      BY <1>3, <1>4 DEF ToSet
    <3>2. q \in Seq(K) /\ Len(q) <= i - 1 /\ Len(q) \in Nat
      BY <1>5, <3>1
    <3>3. CASE Keep(b[i])
      <4>1. b[i] \in K
        BY <1>2, <3>1, <3>3
      <4>2. Append(q, b[i]) \in Seq(K) /\ Len(Append(q, b[i])) <= i
        BY <3>1, <3>2, <4>1
      <4> QED
        BY <1>5, <3>1, <3>2, <3>3, <4>2
    <3>4. CASE ~Keep(b[i])
      <4>1. Len(q) <= i
        BY <3>1, <3>2
      <4> QED
        BY <1>5, <3>1, <3>2, <3>4, <4>1
    <3> QED
      BY <3>3, <3>4
  <2> QED
    BY <2>1, <2>2 DEF Steps
<1>7. PICK f : Iteration(f, n, A, G, <<>>)
  BY <1>4, <1>6, Iterates
<1>8. PICK h : h = [i \in 0..n |-> f[i]]
  OBVIOUS
<1>9. \A i \in 0..n : h[i] \in Seq(K) /\ Len(h[i]) <= i
  BY <1>5, <1>7, <1>8 DEF Iteration
<1>10. h = [i \in 0..n |-> IF i = 0 THEN <<>>
                           ELSE IF Keep(b[i]) THEN Append(h[i-1], b[i]) ELSE h[i-1]]
  <2>1. ASSUME NEW i \in 0..n
        PROVE  h[i] = IF i = 0 THEN <<>>
                      ELSE IF Keep(b[i]) THEN Append(h[i-1], b[i]) ELSE h[i-1]
    <3>1. i = 0 \/ (i \in 1..n /\ i - 1 \in 0..n)
      BY <1>4
    <3>2. CASE i = 0
      BY <1>7, <1>8, <3>2 DEF Iteration
    <3>3. CASE i \in 1..n /\ i - 1 \in 0..n
      <4>1. i # 0 /\ h[i] = G[i][h[i-1]] /\ h[i-1] \in Seq(K)
        BY <1>4, <1>7, <1>8, <1>9, <3>3 DEF Iteration
      <4> QED
        BY <1>5, <3>3, <4>1
    <3> QED
      BY <3>1, <3>2, <3>3
  <2> QED
    BY <1>8, <2>1
<1> DEFINE kept[i \in 0..Len(b)] == IF i = 0 THEN <<>>
                                    ELSE IF Keep(b[i]) THEN Append(kept[i-1], b[i]) ELSE kept[i-1]
<1>11. StillUnreadable(b, g) = CapBuffer(kept[n])
  BY <1>1, <1>3 DEF StillUnreadable
<1>12. kept = [i \in 0..n |-> IF i = 0 THEN <<>>
                              ELSE IF Keep(b[i]) THEN Append(kept[i-1], b[i]) ELSE kept[i-1]]
  BY <1>3, <1>10, Zenon
<1> HIDE DEF kept
<1>13. \A i \in 0..n : kept[i] \in A[i]
  <2> DEFINE C == {i \in 0..n : kept[i] \notin A[i]}
  <2>1. ASSUME C # {} PROVE FALSE
    <3>1. C \subseteq Nat
      OBVIOUS
    <3>2. PICK i \in C : \A j \in C : i <= j
      <4> HIDE DEF C
      <4> QED
        BY <2>1, <3>1, Least
    <3>3. CASE i = 0
      BY <1>4, <1>6, <1>12, <3>2, <3>3
    <3>4. CASE i # 0
      <4>1. i \in 1..n /\ i \in 0..n /\ i - 1 \in 0..n /\ kept[i-1] \in A[i-1] /\ kept[i] \notin A[i]
        BY <1>4, <3>2, <3>4
      <4>2. G[i][kept[i-1]] \in A[i] /\ kept[i-1] \in Seq(K)
        BY <1>5, <1>6, <4>1 DEF Steps
      <4>3. kept[i] = G[i][kept[i-1]]
        BY <1>5, <1>12, <3>4, <4>1, <4>2
      <4> QED
        BY <4>1, <4>2, <4>3
    <3> QED
      BY <3>3, <3>4
  <2> QED
    BY <2>1
<1>14. PICK q : q = kept[n]
  OBVIOUS
<1>15. q \in Seq(K) /\ Len(q) <= n
  BY <1>4, <1>5, <1>13, <1>14
<1>16. q \in Seq(Events) /\ Len(q) <= MaxBuffer + 1 /\ ToSet(q) \subseteq K
  BY <1>4, <1>15, ElementsOf
<1>17. /\ CapBuffer(q) \in Seq(Events) /\ Len(CapBuffer(q)) <= MaxBuffer
       /\ ToSet(CapBuffer(q)) \subseteq K
  BY <1>16, Capped
<1>18. \A e \in K : e \in ToSet(b) /\ OutcomeOf(e, after) = "unreadable"
  BY <1>2
<1> QED
  BY <1>1, <1>11, <1>14, <1>17, <1>18
-----------------------------------------------------------------------------
(* Types.                                                                      *)

Snapshot == [group : Groups, commit : Commits \cup {NoCommit}, replay : Seq(Messages)]

LEMMA Names ==
    /\ NoEvent \notin Events /\ Commits \cap Messages = {} /\ Events = Commits \cup Messages
    /\ MaxBuffer \in Nat /\ NoCommit \notin Commits /\ "none" \notin Commits
    /\ NoSnapshot \notin Snapshot
<1>1. NoSnapshot.commit = "none"
  BY DEF NoSnapshot
<1>2. \A s \in Snapshot : s.commit # "none"
  BY EventAssumption DEF Snapshot, Events, NoCommit
<1> QED
  BY <1>1, <1>2, EventAssumption, BoundAssumption DEF Events

LEMMA EmptyGroup == [branch |-> <<>>, used |-> {}] \in Groups
<1>1. <<>> \in Seq(Commits)
  OBVIOUS
<1> QED
  BY <1>1 DEF Groups

LEMMA TypeInit == Init => TypeOK
<1> SUFFICES ASSUME Init PROVE TypeOK
  OBVIOUS
<1>1. futureBuffer \in Seq(Events) /\ Len(futureBuffer) <= MaxBuffer /\ lockQueue \in Seq(Events)
  BY Names DEF Init
<1>2. repeats \in 0..MaxRepeats /\ teardowns \in 0..MaxTeardowns
  BY BoundAssumption DEF Init
<1>3. group \in Groups /\ snapshot = NoSnapshot
  BY EmptyGroup DEF Init
<1>4. /\ pc = "idle" /\ current = NoEvent /\ outcome = "none" /\ timer = FALSE /\ final = FALSE
      /\ seen = {} /\ arrived = {} /\ dispatched = {} /\ handled = {} /\ cutOff = {}
  BY DEF Init
<1> QED
  BY <1>1, <1>2, <1>3, <1>4, Names DEF TypeOK

LEMMA TypeArrive ==
    ASSUME TypeOK, NEW e \in Events, Arrive(e) PROVE TypeOK'
<1>1. lockQueue' \in Seq(Events)
  BY DEF TypeOK, Arrive
<1>2. repeats' \in 0..MaxRepeats
  BY BoundAssumption DEF TypeOK, Arrive
<1> QED
  BY <1>1, <1>2 DEF TypeOK, Arrive

LEMMA IngestGroup ==
    ASSUME TypeOK, Ingest
    PROVE  /\ Head(lockQueue) \in Events /\ current' = Head(lockQueue)
           /\ Tail(lockQueue) \in Seq(Events)
           /\ ToSet(lockQueue) = {current'} \cup ToSet(lockQueue')
           /\ outcome' = OutcomeOf(current', group)
           /\ outcome' \in {"processed", "past-epoch", "unreadable"}
           /\ outcome' = "processed" => group' = Ingested(current', group)
           /\ outcome' # "processed" => group' = group
           /\ group' \in Groups /\ Extends(group', group)
           /\ dispatched' = dispatched \cup (group'.used \ group.used)
<1>1. lockQueue \in Seq(Events) /\ lockQueue # <<>> /\ group \in Groups
  BY DEF TypeOK, Ingest
<1>2. /\ Head(lockQueue) \in Events /\ Tail(lockQueue) \in Seq(Events)
      /\ ToSet(lockQueue) = {Head(lockQueue)} \cup ToSet(Tail(lockQueue))
  BY <1>1, ElementsOf
<1>3. current' = Head(lockQueue) /\ lockQueue' = Tail(lockQueue)
  BY DEF Ingest
<1>4. /\ outcome' = OutcomeOf(current', group)
      /\ group' = IF outcome' = "processed" THEN Ingested(current', group) ELSE group
      /\ dispatched' = dispatched \cup (group'.used \ group.used)
  BY <1>3 DEF Ingest
<1>5. outcome' \in {"processed", "past-epoch", "unreadable"}
  BY <1>4 DEF OutcomeOf
<1>6. group' \in Groups /\ Extends(group', group)
  BY <1>1, <1>2, <1>3, <1>4, IngestedGroup, GroupFacts
<1> QED
  BY <1>2, <1>3, <1>4, <1>5, <1>6

LEMMA TypeIngest ==
    ASSUME TypeOK, Ingest PROVE TypeOK'
<1>1. /\ group' \in Groups /\ group'.used \subseteq Messages /\ current' \in Events
      /\ lockQueue' \in Seq(Events) /\ outcome' \in {"processed", "past-epoch", "unreadable"}
      /\ dispatched' = dispatched \cup (group'.used \ group.used)
  BY IngestGroup, GroupFacts DEF Ingest
<1>2. snapshot' = NoSnapshot \/ snapshot' \in Snapshot
  <2>1. <<>> \in Seq(Messages)
    OBVIOUS
  <2>2. Fresh(group, NoCommit) \in Snapshot
    BY <2>1 DEF Fresh, Snapshot, TypeOK
  <2> QED
    BY <2>2 DEF TypeOK, Ingest, Snapshot
<1> QED
  BY <1>1, <1>2 DEF TypeOK, Ingest, Snapshot

LEMMA TypeMessage ==
    ASSUME TypeOK, HandleMessage PROVE TypeOK'
<1>1. snapshot' = NoSnapshot \/ snapshot' \in Snapshot
  <2>1. CASE snapshot = NoSnapshot
    BY <2>1 DEF HandleMessage, Replayed
  <2>2. CASE snapshot # NoSnapshot
    <3>1. snapshot \in Snapshot /\ current \in Messages
      BY <2>2 DEF TypeOK, HandleMessage, Snapshot
    <3>2. Append(snapshot.replay, current) \in Seq(Messages)
      BY <3>1 DEF Snapshot
    <3>3. snapshot' = [snapshot EXCEPT !.replay = Append(snapshot.replay, current)]
      BY <2>2 DEF HandleMessage, Replayed
    <3> QED
      BY <3>1, <3>2, <3>3 DEF Snapshot
  <2> QED
    BY <2>1, <2>2
<1> QED
  BY <1>1, Names DEF TypeOK, HandleMessage, Release, Snapshot

LEMMA TypeCommit ==
    ASSUME TypeOK, HandleCommit PROVE TypeOK'
<1>1. snapshot' = NoSnapshot \/ snapshot' \in Snapshot
  BY DEF TypeOK, HandleCommit, Recorded, Snapshot
<1> QED
  BY <1>1, Names DEF TypeOK, HandleCommit, Release, Snapshot

LEMMA TypeUnreadable ==
    ASSUME TypeOK, HandleUnreadable PROVE TypeOK'
<1>1. PICK b : b = Append(futureBuffer, current)
  OBVIOUS
<1>2. b \in Seq(Events) /\ Len(b) <= MaxBuffer + 1
  BY <1>1, Names DEF TypeOK, HandleUnreadable
<1>3. futureBuffer' \in Seq(Events) /\ Len(futureBuffer') <= MaxBuffer
  BY <1>1, <1>2, Capped DEF HandleUnreadable
<1> QED
  BY <1>3, Names DEF TypeOK, HandleUnreadable, Release

LEMMA TypeDrop ==
    ASSUME TypeOK, DropPastEpoch PROVE TypeOK'
BY Names DEF TypeOK, DropPastEpoch, Release

(* What a rollback restores and ingests again.                                 *)
LEMMA RollbackGroup ==
    ASSUME TypeOK, Rollback
    PROVE  /\ snapshot \in Snapshot /\ snapshot.group \in Groups
           /\ snapshot.commit \in Commits \ {current} /\ CommitIsLower(current, snapshot.commit)
           /\ current \in Events
           /\ {current} \cup ToSet(snapshot.replay) \subseteq Events
           /\ current \in Commits => ({current} \cup ToSet(snapshot.replay)) \cap Commits = {current}
           /\ group' = AfterBatch({current} \cup ToSet(snapshot.replay), snapshot.group)
           /\ group' \in Groups /\ Extends(group', snapshot.group)
<1>1. /\ snapshot \in Snapshot /\ snapshot.group \in Groups /\ current \in Events
      /\ snapshot.commit \in Commits \ {current} /\ CommitIsLower(current, snapshot.commit)
      /\ snapshot.replay \in Seq(Messages)
  BY DEF TypeOK, Rollback, ShouldHaveWon, Snapshot
<1>2. ToSet(snapshot.replay) \subseteq Messages
  BY <1>1, ElementsOf
<1>3. /\ {current} \cup ToSet(snapshot.replay) \subseteq Events
      /\ current \in Commits => ({current} \cup ToSet(snapshot.replay)) \cap Commits = {current}
  BY <1>1, <1>2, Names
<1>4. group' = AfterBatch({current} \cup ToSet(snapshot.replay), snapshot.group)
  BY DEF Rollback
<1> QED
  BY <1>1, <1>3, <1>4, BatchExtends

LEMMA TypeRollback ==
    ASSUME TypeOK, Rollback PROVE TypeOK'
<1>1. group' \in Groups /\ group'.used \subseteq Messages
  BY RollbackGroup, GroupFacts
<1> QED
  BY <1>1, Names DEF TypeOK, Rollback

LEMMA TypeSettle ==
    ASSUME TypeOK, pc = "settle" => current \in Commits, Settle PROVE TypeOK'
<1>1. <<>> \in Seq(Messages)
  OBVIOUS
<1>2. snapshot' \in Snapshot
  BY <1>1 DEF TypeOK, Settle, Fresh, Snapshot
<1> QED
  BY <1>2, Names DEF TypeOK, Settle, Release, Snapshot

LEMMA FlushGroup ==
    ASSUME TypeOK, FlushFutureBuffer
    PROVE  /\ group' \in Groups /\ Extends(group', group) /\ ToSet(futureBuffer) \subseteq Events
           /\ group' = AfterBatch(ToSet(futureBuffer), group)
<1>1. ToSet(futureBuffer) \subseteq Events /\ group \in Groups
  BY ElementsOf DEF TypeOK
<1>2. group' = AfterBatch(ToSet(futureBuffer), group)
  BY DEF FlushFutureBuffer
<1> QED
  BY <1>1, <1>2, BatchExtends

LEMMA TypeFlush ==
    ASSUME TypeOK, FlushFutureBuffer PROVE TypeOK'
<1>1. group' \in Groups /\ group'.used \subseteq Messages
  BY FlushGroup, GroupFacts
<1>2. futureBuffer' \in Seq(Events) /\ Len(futureBuffer') <= MaxBuffer
  BY StillHeld DEF TypeOK, FlushFutureBuffer
<1> QED
  BY <1>1, <1>2, Names DEF TypeOK, FlushFutureBuffer, Release

LEMMA TypeClock ==
    ASSUME TypeOK, GraceExpires \/ Resubscribe PROVE TypeOK'
<1>1. CASE GraceExpires
  BY <1>1 DEF TypeOK, GraceExpires
<1>2. CASE Resubscribe
  <2>1. <<>> \in Seq(Events) /\ Len(<<>>) = 0 /\ 0 <= MaxBuffer
    BY Names
  <2>2. cutOff' \subseteq Events
    BY <1>2, ElementsOf DEF TypeOK, Resubscribe
  <2>3. teardowns' \in 0..MaxTeardowns /\ final' \in BOOLEAN
    BY <1>2, BoundAssumption DEF TypeOK, Resubscribe
  <2> QED
    BY <1>2, <2>1, <2>2, <2>3, Names DEF TypeOK, Resubscribe, Release
<1> QED
  BY <1>1, <1>2
-----------------------------------------------------------------------------
(* What the handlers know of the event they handle.                            *)

HandInv ==
    /\ pc = "settle" => current \in Commits
    /\ pc = "handle" =>
        /\ outcome = "processed" =>
              IF current \in Messages THEN current \in dispatched
                                      ELSE ~ IsPrefix(group.branch, Parent[current])
        /\ outcome = "past-epoch" => current \in Commits /\ IsPast(current, group)
        /\ outcome = "unreadable" => ~ Applies(current, group)

BaseInv == TypeOK /\ HandInv

LEMMA CommitBehind ==
    ASSUME NEW g \in Groups, NEW c \in Commits
    PROVE  /\ Applies(c, g) => ~ IsPrefix(Ingested(c, g).branch, Parent[c])
           /\ IsPast(c, g) => ~ IsPrefix(g.branch, Parent[c])
<1>1. g.branch \in Seq(Commits) /\ Parent[c] \in Seq(Commits)
  BY BranchAssumption, GroupFacts
<1>2. ASSUME Applies(c, g) PROVE ~ IsPrefix(Ingested(c, g).branch, Parent[c])
  <2>1. Parent[c] = g.branch /\ Ingested(c, g).branch = Append(g.branch, c)
    BY <1>2, IngestedGroup DEF Applies, Events
  <2> QED
    BY <1>1, <2>1, PrefixFacts
<1>3. ASSUME IsPast(c, g) PROVE ~ IsPrefix(g.branch, Parent[c])
  BY <1>1, <1>3, PrefixFacts DEF IsPast, IsStrictPrefix
<1> QED
  BY <1>2, <1>3

LEMMA IngestKnows ==
    ASSUME TypeOK, Ingest
    PROVE  /\ outcome' = "processed" =>
                 IF current' \in Messages THEN current' \in dispatched'
                                          ELSE ~ IsPrefix(group'.branch, Parent[current'])
           /\ outcome' = "past-epoch" => current' \in Commits /\ IsPast(current', group')
           /\ outcome' = "unreadable" => ~ Applies(current', group')
<1>1. PICK e, h : e = current' /\ h = group'
  OBVIOUS
<1>2. /\ e \in Events /\ outcome' = OutcomeOf(e, group) /\ group \in Groups
      /\ outcome' = "processed" => h = Ingested(e, group)
      /\ outcome' # "processed" => h = group
      /\ dispatched' = dispatched \cup (h.used \ group.used)
  BY <1>1, IngestGroup DEF TypeOK
<1>3. CASE outcome' = "processed"
  <2>1. Applies(e, group)
    BY <1>2, <1>3 DEF OutcomeOf
  <2>2. CASE e \in Messages
    <3>1. e \in h.used /\ e \notin group.used
      BY <1>2, <1>3, <2>1, <2>2, Names, IngestedGroup DEF Applies, Readable
    <3> QED
      BY <1>1, <1>2, <1>3, <2>2, <3>1
  <2>3. CASE e \notin Messages
    <3>1. e \in Commits
      BY <1>2, <2>3, Names
    <3> QED
      BY <1>1, <1>2, <1>3, <2>1, <2>3, <3>1, CommitBehind
  <2> QED
    BY <2>2, <2>3
<1>4. CASE outcome' = "past-epoch"
  BY <1>1, <1>2, <1>4 DEF OutcomeOf
<1>5. CASE outcome' = "unreadable"
  BY <1>1, <1>2, <1>5 DEF OutcomeOf
<1> QED
  BY <1>3, <1>4, <1>5

LEMMA BaseInit == Init => BaseInv
BY TypeInit DEF BaseInv, HandInv, Init

LEMMA BaseStep == BaseInv /\ [Next]_vars => BaseInv'
<1> SUFFICES ASSUME BaseInv, [Next]_vars PROVE BaseInv'
  OBVIOUS
<1>t. TypeOK /\ HandInv
  BY DEF BaseInv
<1>1. CASE UNCHANGED vars
  BY <1>1, <1>t DEF BaseInv, TypeOK, HandInv, vars
<1>2. ASSUME NEW e \in Events, Arrive(e) PROVE BaseInv'
  BY <1>2, <1>t, TypeArrive DEF BaseInv, HandInv, Arrive
<1>3. CASE Ingest
  <2>1. pc' = "handle"
    BY <1>3 DEF Ingest
  <2> QED
    BY <1>3, <1>t, <2>1, TypeIngest, IngestKnows DEF BaseInv, HandInv
<1>4. CASE HandleMessage
  BY <1>4, <1>t, TypeMessage DEF BaseInv, HandInv, HandleMessage, Release
<1>5. CASE HandleCommit
  BY <1>5, <1>t, TypeCommit DEF BaseInv, HandInv, HandleCommit, Release
<1>6. CASE HandleUnreadable
  BY <1>6, <1>t, TypeUnreadable DEF BaseInv, HandInv, HandleUnreadable, Release
<1>7. CASE DropPastEpoch
  BY <1>7, <1>t, TypeDrop DEF BaseInv, HandInv, DropPastEpoch, Release
<1>8. CASE Rollback
  BY <1>8, <1>t, TypeRollback DEF BaseInv, HandInv, Rollback
<1>9. CASE Settle
  BY <1>9, <1>t, TypeSettle DEF BaseInv, HandInv, Settle, Release
<1>10. CASE FlushFutureBuffer
  BY <1>10, <1>t, TypeFlush DEF BaseInv, HandInv, FlushFutureBuffer, Release
<1>11. CASE GraceExpires
  BY <1>11, <1>t, TypeClock DEF BaseInv, HandInv, GraceExpires
<1>12. CASE Resubscribe
  BY <1>12, <1>t, TypeClock DEF BaseInv, HandInv, Resubscribe, Release
<1> QED
  BY <1>1, <1>2, <1>3, <1>4, <1>5, <1>6, <1>7, <1>8, <1>9, <1>10, <1>11, <1>12 DEF Next, Handle

(* The resolver's fields keep their types, for any commits, messages, buffer   *)
(* size, deliveries and teardowns: the group stays a state the commits lead    *)
(* to, a snapshot is absent or complete, and the buffer keeps its limit.       *)
THEOREM TypeCorrect == Spec => []TypeOK
<1>1. BaseInv => TypeOK
  BY DEF BaseInv
<1> QED
  BY BaseInit, BaseStep, <1>1, PTL DEF Spec

-----------------------------------------------------------------------------
(* Between two events nothing readable is left in the buffer.                  *)

Unread == \A e \in ToSet(futureBuffer) : ~ Applies(e, group)

ReadInv ==
    /\ pc = "idle" => Unread
    /\ pc = "handle" /\ outcome # "processed" => Unread
    /\ pc # "settle"

LEMMA ReadInit == Init => ReadInv
BY DEF Init, ReadInv, Unread, ToSet

LEMMA ReadStep == BaseInv /\ ReadInv /\ [Next]_vars /\ [~Rollback]_vars => ReadInv'
<1> SUFFICES ASSUME BaseInv, ReadInv, [Next]_vars, [~Rollback]_vars PROVE ReadInv'
  OBVIOUS
<1>t. TypeOK /\ HandInv
  BY DEF BaseInv
<1>0. ToSet(<<>>) = {}
  BY DEF ToSet
<1>1. CASE UNCHANGED vars
  BY <1>1 DEF ReadInv, Unread, vars
<1>2. ASSUME NEW e \in Events, Arrive(e) PROVE ReadInv'
  BY <1>2 DEF ReadInv, Unread, Arrive
<1>3. CASE Ingest
  <2>1. pc = "idle" /\ pc' = "handle" /\ futureBuffer' = futureBuffer
    BY <1>3 DEF Ingest
  <2>2. outcome' # "processed" => group' = group
    BY <1>3, <1>t, IngestGroup
  <2> QED
    BY <2>1, <2>2 DEF ReadInv, Unread
<1>4. CASE HandleMessage \/ HandleCommit
  <2>1. /\ futureBuffer' = futureBuffer /\ group' = group
        /\ pc' = "flush" \/ (pc' = "idle" /\ futureBuffer = <<>>)
    BY <1>4 DEF HandleMessage, HandleCommit, Release
  <2> QED
    BY <1>0, <2>1 DEF ReadInv, Unread
<1>5. CASE HandleUnreadable
  <2>1. PICK b : b = Append(futureBuffer, current)
    OBVIOUS
  <2>2. futureBuffer \in Seq(Events) /\ Len(futureBuffer) <= MaxBuffer /\ current \in Events
    BY <1>5, <1>t DEF TypeOK, HandleUnreadable
  <2>3. b \in Seq(Events) /\ Len(b) <= MaxBuffer + 1
    BY <2>1, <2>2, Names
  <2>4. ToSet(b) = ToSet(futureBuffer) \cup {current}
    BY <2>1, <2>2, ElementsOf
  <2>5. ToSet(futureBuffer') \subseteq ToSet(b) /\ group' = group /\ pc' = "idle"
    BY <1>5, <2>1, <2>3, Capped DEF HandleUnreadable, Release
  <2>6. ~ Applies(current, group) /\ Unread
    BY <1>5, <1>t DEF HandInv, ReadInv, HandleUnreadable
  <2> QED
    BY <2>4, <2>5, <2>6 DEF ReadInv, Unread
<1>7. CASE DropPastEpoch
  BY <1>7 DEF ReadInv, Unread, DropPastEpoch, Release
<1>8. CASE Rollback
  <2>1. pc # pc'
    BY <1>8 DEF Rollback
  <2> QED
    BY <1>8, <2>1 DEF vars
<1>9. CASE Settle
  BY <1>9 DEF ReadInv, Settle
<1>10. CASE FlushFutureBuffer
  <2>1. /\ futureBuffer' = StillUnreadable(futureBuffer, group) /\ pc' = "idle"
        /\ group' = AfterBatch(ToSet(futureBuffer), group)
    BY <1>10 DEF FlushFutureBuffer, Release
  <2>2. \A e \in ToSet(futureBuffer') : OutcomeOf(e, group') = "unreadable"
    BY <1>t, <2>1, StillHeld DEF TypeOK
  <2>3. \A e, g : OutcomeOf(e, g) = "unreadable" => ~ Applies(e, g)
    BY DEF OutcomeOf
  <2> QED
    BY <2>1, <2>2, <2>3 DEF ReadInv, Unread
<1>11. CASE GraceExpires
  BY <1>11 DEF ReadInv, Unread, GraceExpires
<1>12. CASE Resubscribe
  BY <1>0, <1>12 DEF ReadInv, Unread, Resubscribe, Release
<1> QED
  BY <1>1, <1>2, <1>3, <1>4, <1>5, <1>7, <1>8, <1>9, <1>10, <1>11, <1>12 DEF Next, Handle

(* As long as no fork is rolled back, every step that makes a buffered event   *)
(* readable retries it before the next event is taken, for any commits,        *)
(* messages, deliveries, buffer size and teardowns. A rollback does not        *)
(* retry the buffer.                                                           *)
THEOREM NothingReadableWaits == Spec /\ [][~Rollback]_vars => []NoReadableLeftBehind
<1>1. ReadInv => NoReadableLeftBehind
  BY DEF ReadInv, Unread, NoReadableLeftBehind
<1> QED
  BY BaseInit, BaseStep, ReadInit, ReadStep, <1>1, PTL DEF Spec
-----------------------------------------------------------------------------
(* No event is forgotten.                                                      *)

InHand(e) == e \in ToSet(lockQueue) \/ (pc = "handle" /\ e = current)
Done(e) == IF e \in Messages THEN e \in dispatched ELSE ~ IsPrefix(group.branch, Parent[e])

(* What is remembered as seen, and was not cut off, waits, is being handled, or *)
(* is done with: the buffer need not hold it.                                  *)
LostInv == \A e \in seen \ cutOff : InHand(e) \/ Done(e)

LEMMA LostInit == Init => LostInv
BY DEF Init, LostInv

(* A group that goes on forgets nothing that is done with.                     *)
LEMMA DoneStays ==
    ASSUME TypeOK, group' \in Groups, Extends(group', group), dispatched \subseteq dispatched',
           NEW e \in Events, Done(e)
    PROVE  Done(e)'
<1>1. CASE e \in Messages
  BY <1>1 DEF Done
<1>2. CASE e \notin Messages
  <2>1. /\ e \in Commits /\ Parent[e] \in Seq(Commits)
        /\ group.branch \in Seq(Commits) /\ group'.branch \in Seq(Commits)
    BY <1>2, Names, BranchAssumption, GroupFacts DEF TypeOK
  <2>2. IsPrefix(group.branch, group'.branch)
    BY DEF Extends
  <2>3. ~ IsPrefix(group'.branch, Parent[e])
    BY <1>2, <2>1, <2>2, PrefixFacts DEF Done
  <2> QED
    BY <1>2, <2>3 DEF Done
<1> QED
  BY <1>1, <1>2

LEMMA HandledDone ==
    ASSUME BaseInv, pc = "handle", outcome \in {"processed", "past-epoch"}
    PROVE  Done(current)
<1>1. current \in Events /\ group \in Groups
  BY DEF BaseInv, TypeOK
<1>2. CASE outcome = "processed"
  BY <1>2 DEF BaseInv, HandInv, Done
<1>3. CASE outcome = "past-epoch"
  <2>1. current \in Commits /\ IsPast(current, group) /\ current \notin Messages
    BY <1>3, Names DEF BaseInv, HandInv
  <2> QED
    BY <1>1, <2>1, CommitBehind DEF Done
<1> QED
  BY <1>2, <1>3

(* In one epoch no commit is made on a branch that has one.                    *)
LEMMA OneEpochDone ==
    ASSUME OneEpoch, NEW g \in Groups, NEW c \in Commits
    PROVE  IsPrefix(g.branch, Parent[c]) <=> g.branch = <<>>
BY GroupFacts, PrefixFacts DEF OneEpoch

LEMMA LostStep == BaseInv /\ LostInv /\ [Next]_vars /\ [Rollback => OneEpoch]_vars => LostInv'
<1> SUFFICES ASSUME BaseInv, LostInv, [Next]_vars, [Rollback => OneEpoch]_vars PROVE LostInv'
  OBVIOUS
<1>t. TypeOK /\ HandInv /\ seen \subseteq Events /\ group \in Groups /\ Extends(group, group)
  BY GroupFacts DEF BaseInv, TypeOK
<1>1. CASE UNCHANGED vars
  BY <1>1 DEF LostInv, InHand, Done, vars
<1>2. ASSUME NEW e \in Events, Arrive(e) PROVE LostInv'
  <2>1. ToSet(lockQueue') = ToSet(lockQueue) \cup {e}
    BY <1>2, <1>t, ElementsOf DEF Arrive, TypeOK
  <2>2. seen' = seen \cup {e} /\ UNCHANGED <<pc, current, cutOff, group, dispatched>>
    BY <1>2 DEF Arrive
  <2> QED
    BY <2>1, <2>2 DEF LostInv, InHand, Done
<1>3. CASE Ingest
  <2>1. /\ group' \in Groups /\ Extends(group', group) /\ dispatched \subseteq dispatched'
        /\ ToSet(lockQueue) = {current'} \cup ToSet(lockQueue')
    BY <1>3, <1>t, IngestGroup
  <2>2. pc = "idle" /\ pc' = "handle" /\ UNCHANGED <<seen, cutOff>>
    BY <1>3 DEF Ingest
  <2>3. \A e \in seen \ cutOff : e \in ToSet(lockQueue) \/ Done(e)'
    BY <1>t, <2>1, <2>2, DoneStays DEF LostInv, InHand
  <2> QED
    BY <2>1, <2>2, <2>3 DEF LostInv, InHand
<1>4. CASE HandleMessage \/ HandleCommit \/ DropPastEpoch
  <2>1. Done(current) /\ pc = "handle"
    BY <1>4, HandledDone DEF HandleMessage, HandleCommit, DropPastEpoch
  <2>2. UNCHANGED <<group, lockQueue, dispatched, seen, cutOff>>
    BY <1>4 DEF HandleMessage, HandleCommit, DropPastEpoch
  <2>3. \A e : Done(e)' <=> Done(e)
    BY <2>2 DEF Done
  <2> QED
    BY <2>1, <2>2, <2>3 DEF LostInv, InHand
<1>5. CASE HandleUnreadable
  <2>1. /\ UNCHANGED <<group, lockQueue, dispatched, cutOff>>
        /\ seen' = seen \ {current}
    BY <1>5 DEF HandleUnreadable
  <2>2. \A e : Done(e)' <=> Done(e)
    BY <2>1 DEF Done
  <2> QED
    BY <2>1, <2>2 DEF LostInv, InHand
<1>6. CASE Rollback
  <2>1. OneEpoch
    <3>1. pc # pc'
      BY <1>6 DEF Rollback
    <3> QED
      BY <1>6, <3>1 DEF vars
  <2>2. pc = "handle" /\ current \in Commits /\ Done(current) /\ IsPast(current, group)
    BY <1>6, <1>t, HandledDone DEF HandInv, Rollback
  <2>3. UNCHANGED <<lockQueue, seen, cutOff>> /\ dispatched \subseteq dispatched'
    BY <1>6 DEF Rollback
  <2>4. group' \in Groups /\ group'.branch # <<>>
    <3>1. PICK g, S : g = snapshot.group /\ S = {current} \cup ToSet(snapshot.replay)
      OBVIOUS
    <3>2. /\ g \in Groups /\ S \subseteq Events /\ S \cap Commits = {current}
          /\ group' = AfterBatch(S, g) /\ group' \in Groups
      BY <1>6, <1>t, <2>2, <3>1, RollbackGroup
    <3>3. g.branch # <<>> => group'.branch = g.branch
      BY <2>1, <3>2, BatchInOneEpoch
    <3>4. g.branch = <<>> => group'.branch = <<current>>
      BY <2>1, <2>2, <3>2, BatchInOneEpoch
    <3>5. Len(<<current>>) = 1 /\ Len(<<>>) = 0
      OBVIOUS
    <3>6. <<current>> # <<>>
      BY <3>5
    <3> QED
      BY <3>2, <3>3, <3>4, <3>6
  <2>5. \A e \in Events : Done(e) => Done(e)'
    BY <2>1, <2>3, <2>4, Names, OneEpochDone DEF Done
  <2>6. current \in Events
    BY <2>2, Names
  <2> QED
    BY <1>t, <2>2, <2>3, <2>5, <2>6 DEF LostInv, InHand
<1>7. CASE Settle \/ GraceExpires
  BY <1>7 DEF LostInv, InHand, Done, Settle, GraceExpires, Release
<1>8. CASE FlushFutureBuffer
  <2>1. group' \in Groups /\ Extends(group', group) /\ dispatched \subseteq dispatched'
    BY <1>8, <1>t, FlushGroup DEF FlushFutureBuffer
  <2>2. pc = "flush" /\ UNCHANGED <<lockQueue, seen, cutOff>>
    BY <1>8 DEF FlushFutureBuffer
  <2>3. \A e \in Events : Done(e) => Done(e)'
    BY <1>t, <2>1, DoneStays
  <2> QED
    BY <1>t, <2>2, <2>3 DEF LostInv, InHand
<1>9. CASE Resubscribe
  <2>1. /\ UNCHANGED <<group, dispatched, seen>>
        /\ cutOff' = cutOff \cup ToSet(lockQueue) \cup (IF pc = "handle" THEN {current} ELSE {})
    BY <1>9 DEF Resubscribe
  <2> QED
    BY <2>1 DEF LostInv, InHand, Done
<1> QED
  BY <1>1, <1>2, <1>3, <1>4, <1>5, <1>6, <1>7, <1>8, <1>9 DEF Next, Handle

(* No event is lost while the group could still use it: unless commits of      *)
(* different epochs make a rollback, whatever is remembered as seen and was    *)
(* not cut off by a teardown waits for the lock, is being handled or is done   *)
(* with, for any commits and messages, orders and repetitions of delivery,     *)
(* buffer limit, grace windows and teardowns.                                  *)
THEOREM NoEventIsLost == Spec /\ [][Rollback => OneEpoch]_vars => []NoEventLost
<1>1. BaseInv /\ LostInv => NoEventLost
  BY Names DEF BaseInv, TypeOK, LostInv, NoEventLost, Lost, Ahead, Held, InHand, Done
<1> QED
  BY BaseInit, BaseStep, LostInit, LostStep, <1>1, PTL DEF Spec
-----------------------------------------------------------------------------
(* Two commits compete for one epoch: ForkChoice.                              *)

Held1(x) == group.branch = <<x>>

(* Commits are handled once. *)
OnceInv ==
    /\ \A i, j \in DOMAIN lockQueue : lockQueue[i] = lockQueue[j] /\ lockQueue[i] \in Commits => i = j
    /\ \A c \in Commits \cap ToSet(lockQueue) :
          c \in seen /\ c \notin handled /\ c # current /\ ~Held1(c)
    /\ \A c \in Commits : c \in handled \/ c = current \/ Held1(c) => c \in seen
    /\ ToSet(futureBuffer) \subseteq Messages
    /\ pc = "handle" /\ outcome = "unreadable" => current \in Messages
    /\ pc = "handle" /\ outcome = "past-epoch" => current \notin handled /\ ~Held1(current)

(* Before the first commit. *)
BeforeInv ==
    group.branch = <<>> =>
        /\ ~timer /\ ~final /\ handled \cap Commits = {}
        /\ snapshot # NoSnapshot => snapshot.group.branch = <<>> /\ snapshot.commit = NoCommit
        /\ pc # "settle" /\ (pc = "handle" => current \in Messages)

FirstCommit == pc = "handle" /\ outcome = "processed" /\ current \in Commits

(* From there on: what the snapshot leads back to. *)
AfterInv ==
    \A x \in Commits : Held1(x) =>
        /\ FirstCommit =>
              /\ current = x /\ ~timer /\ ~final /\ handled \cap Commits = {}
              /\ snapshot # NoSnapshot /\ snapshot.group.branch = <<>>
        /\ pc = "settle" => current = x /\ Commits \subseteq handled
        /\ ~FirstCommit /\ pc # "settle" =>
              /\ ~final => snapshot # NoSnapshot /\ snapshot.commit = x /\ x \in handled
              /\ snapshot # NoSnapshot /\ snapshot.commit # NoCommit =>
                    \/ /\ snapshot.group.branch = <<>> /\ snapshot.commit = x
                       /\ x \in handled /\ ~final
                    \/ Commits \subseteq handled

Sole == group.branch = <<>> \/ \E x \in Commits : Held1(x)

ForkInv == Sole /\ OnceInv /\ BeforeInv /\ AfterInv

LEMMA Singles ==
    /\ \A x : <<x>> # <<>> /\ ToSet(<<x>>) = {x} /\ Append(<<>>, x) = <<x>>
    /\ \A x, y : <<x>> = <<y>> => x = y
    /\ ToSet(<<>>) = {}
<1>1. ASSUME NEW x PROVE <<x>> # <<>> /\ ToSet(<<x>>) = {x} /\ Append(<<>>, x) = <<x>>
  <2>1. Len(<<x>>) = 1 /\ Len(<<>>) = 0 /\ DOMAIN <<x>> = {1} /\ <<x>>[1] = x
    OBVIOUS
  <2> QED
    BY <2>1 DEF ToSet
<1>2. ASSUME NEW x, NEW y, <<x>> = <<y>> PROVE x = y
  BY <1>2
<1> QED
  BY <1>1, <1>2 DEF ToSet

LEMMA ForkInit == Init => ForkInv
<1> SUFFICES ASSUME Init PROVE ForkInv
  OBVIOUS
<1>1. /\ group.branch = <<>> /\ snapshot = NoSnapshot /\ futureBuffer = <<>> /\ lockQueue = <<>>
      /\ timer = FALSE /\ final = FALSE /\ pc = "idle" /\ current = NoEvent /\ handled = {}
  BY DEF Init
<1>2. Sole /\ (\A x : ~Held1(x))
  BY <1>1, Singles DEF Sole, Held1
<1>3. ToSet(lockQueue) = {} /\ ToSet(futureBuffer) = {} /\ DOMAIN lockQueue = {}
  BY <1>1, Singles
<1>4. OnceInv
  BY <1>1, <1>2, <1>3, Names DEF OnceInv
<1> QED
  BY <1>1, <1>2, <1>4 DEF ForkInv, BeforeInv, AfterInv

(* A commit applies to the group before the first commit, and is past after it. *)
LEMMA ForkOutcome ==
    ASSUME OneEpoch, ForkInv, NEW c \in Commits
    PROVE  OutcomeOf(c, group) = IF group.branch = <<>> THEN "processed" ELSE "past-epoch"
<1>1. CASE group.branch = <<>>
  <2>1. Applies(c, group) /\ ~ IsPast(c, group)
    BY <1>1 DEF Applies, OneEpoch, IsPast, IsStrictPrefix
  <2> QED
    BY <1>1, <2>1 DEF OutcomeOf
<1>2. CASE group.branch # <<>>
  <2>1. IsPrefix(<<>>, group.branch)
    BY <1>2 DEF ForkInv, Sole, Held1, IsPrefix
  <2>2. ~ Applies(c, group) /\ IsPast(c, group)
    BY <1>2, <2>1 DEF Applies, OneEpoch, IsPast, IsStrictPrefix
  <2> QED
    BY <1>2, <2>2 DEF OutcomeOf
<1> QED
  BY <1>1, <1>2
(* Handlers that leave the group and what it was offered as they were.         *)
LEMMA ForkQuiet ==
    ASSUME ForkInv, UNCHANGED <<final, timer>>, group'.branch = group.branch,
           seen' \cap Commits = seen \cap Commits, handled' \cap Commits = handled \cap Commits,
           /\ \/ snapshot' = snapshot
              \/ /\ snapshot # NoSnapshot /\ snapshot' # NoSnapshot
                 /\ snapshot'.group = snapshot.group /\ snapshot'.commit = snapshot.commit
           /\ ToSet(futureBuffer') \subseteq Messages,
           ~FirstCommit, pc # "settle",
           \/ /\ UNCHANGED lockQueue
              /\ pc' \in {"idle", "flush"} /\ current' \in {current, NoEvent}
    PROVE  ForkInv'
<1>1. /\ Sole' /\ \A x : Held1(x)' <=> Held1(x)
  BY DEF ForkInv, Sole, Held1
<1>2. ~FirstCommit' /\ pc' \notin {"settle", "handle"}
  BY DEF FirstCommit
<1>3. OnceInv'
  BY <1>1, <1>2, Names DEF ForkInv, OnceInv
<1>4. BeforeInv'
  BY <1>2 DEF ForkInv, BeforeInv
<1>5. AfterInv'
  BY <1>1, <1>2 DEF ForkInv, AfterInv
<1> QED
  BY <1>1, <1>3, <1>4, <1>5 DEF ForkInv

LEMMA ForkArrive ==
    ASSUME TypeOK, ForkInv, NEW e \in Events, Arrive(e) PROVE ForkInv'
<1>1. /\ lockQueue' = Append(lockQueue, e) /\ e \notin seen /\ seen' = seen \cup {e}
      /\ UNCHANGED <<group, final, timer, handled, snapshot, futureBuffer, pc, current, outcome>>
  BY DEF Arrive
<1>2. /\ lockQueue \in Seq(Events) /\ ToSet(lockQueue') = ToSet(lockQueue) \cup {e}
  BY <1>1, ElementsOf DEF TypeOK
<1>3. /\ Sole' /\ (\A x : Held1(x)' <=> Held1(x)) /\ BeforeInv' /\ (FirstCommit' <=> FirstCommit)
  BY <1>1 DEF ForkInv, Sole, Held1, BeforeInv, FirstCommit
<1>4. AfterInv'
  BY <1>1, <1>3 DEF ForkInv, AfterInv
<1>5. \A i, j \in DOMAIN lockQueue' :
         lockQueue'[i] = lockQueue'[j] /\ lockQueue'[i] \in Commits => i = j
  <2>1. PICK n \in Nat : n = Len(lockQueue)
    BY <1>2
  <2>2. /\ DOMAIN lockQueue = 1..n /\ DOMAIN lockQueue' = 1..n + 1
        /\ lockQueue'[n + 1] = e /\ \A i \in 1..n : lockQueue'[i] = lockQueue[i]
    BY <1>1, <1>2, <2>1
  <2>3. \A i \in 1..n + 1 : i \in 1..n \/ i = n + 1
    BY <2>1
  <2>4. \A i \in 1..n : lockQueue[i] \in Commits => lockQueue[i] # e
    BY <1>1, <2>2 DEF ForkInv, OnceInv, ToSet
  <2>5. \A i, j \in 1..n : lockQueue[i] = lockQueue[j] /\ lockQueue[i] \in Commits => i = j
    BY <2>2 DEF ForkInv, OnceInv
  <2> QED
    BY <2>2, <2>3, <2>4, <2>5
<1>6. OnceInv'
  <2>1. e \in Commits => e \notin handled /\ e # current /\ ~Held1(e)
    BY <1>1 DEF ForkInv, OnceInv
  <2> QED
    BY <1>1, <1>2, <1>3, <1>5, <2>1 DEF ForkInv, OnceInv
<1> QED
  BY <1>3, <1>4, <1>6 DEF ForkInv

(* The first commit is the group's branch, and a later one is past.            *)
LEMMA ForkIngest ==
    ASSUME OneEpoch, TypeOK, ForkInv, Ingest
    PROVE  /\ ForkInv'
           /\ UNCHANGED <<handled, final>>
           /\ \/ group'.branch = group.branch
              \/ /\ group.branch = <<>> /\ current' \in Commits /\ Held1(current)'
                 /\ handled \cap Commits = {} /\ ~final
<1>0. PICK e : e = current'
  OBVIOUS
<1>1. /\ e \in Events /\ ToSet(lockQueue) = {e} \cup ToSet(lockQueue') /\ lockQueue \in Seq(Events)
      /\ lockQueue # <<>> /\ e = Head(lockQueue) /\ lockQueue' = Tail(lockQueue) /\ group \in Groups
      /\ outcome' = OutcomeOf(e, group)
      /\ outcome' = "processed" => group' = Ingested(e, group)
      /\ outcome' # "processed" => group' = group
  BY <1>0, IngestGroup DEF TypeOK, Ingest
<1>2. /\ pc = "idle" /\ pc' = "handle" /\ UNCHANGED <<futureBuffer, timer, seen, handled, final>>
      /\ snapshot' = IF snapshot = NoSnapshot THEN Fresh(group, NoCommit) ELSE snapshot
  BY DEF Ingest
<1>3. /\ snapshot' # NoSnapshot
      /\ snapshot # NoSnapshot => snapshot' = snapshot
      /\ snapshot = NoSnapshot => snapshot'.group = group /\ snapshot'.commit = NoCommit
  BY <1>2 DEF Fresh, NoSnapshot, NoCommit
<1>4. e \in Messages => e \notin Commits
  BY Names
<1>5. e \in Commits => e \notin handled /\ ~Held1(e) /\ e \in seen /\ e \notin ToSet(lockQueue')
  <2>1. ASSUME e \in Commits, e \in ToSet(lockQueue') PROVE FALSE
    <3>1. PICK i \in 1..Len(lockQueue) - 1 : lockQueue'[i] = e
      BY <1>1, <2>1 DEF ToSet
    <3>2. /\ lockQueue[i + 1] = e /\ lockQueue[1] = e /\ i + 1 # 1
          /\ i + 1 \in DOMAIN lockQueue /\ 1 \in DOMAIN lockQueue
      BY <1>1, <3>1
    <3> QED
      BY <2>1, <3>2 DEF ForkInv, OnceInv
  <2> QED
    BY <1>1, <2>1 DEF ForkInv, OnceInv
<1>6. \A i, j \in DOMAIN lockQueue' :
         lockQueue'[i] = lockQueue'[j] /\ lockQueue'[i] \in Commits => i = j
  <2>1. ASSUME NEW i \in DOMAIN lockQueue', NEW j \in DOMAIN lockQueue',
               lockQueue'[i] = lockQueue'[j], lockQueue'[i] \in Commits
        PROVE  i = j
    <3>1. /\ i + 1 \in DOMAIN lockQueue /\ lockQueue'[i] = lockQueue[i + 1] /\ i \in Nat
          /\ j + 1 \in DOMAIN lockQueue /\ lockQueue'[j] = lockQueue[j + 1] /\ j \in Nat
      BY <1>1
    <3>2. i + 1 = j + 1
      BY <2>1, <3>1 DEF ForkInv, OnceInv
    <3> QED
      BY <3>1, <3>2
  <2> QED
    BY <2>1
<1>7. CASE group'.branch = group.branch
  <2>1. (\A x : Held1(x)' <=> Held1(x)) /\ Sole'
    BY <1>7 DEF Held1, ForkInv, Sole
  <2>2. outcome' = "processed" => e \in Messages
    <3>1. ASSUME outcome' = "processed", e \in Commits PROVE FALSE
      <4>1. group'.branch = Append(group.branch, e) /\ IsPrefix(group'.branch, group.branch)
        BY <1>1, <1>7, <3>1, IngestedGroup, PrefixFacts, GroupFacts
      <4> QED
        BY <1>1, <3>1, <4>1, PrefixFacts, GroupFacts
    <3> QED
      BY <1>1, <3>1, Names
  <2>3. ~FirstCommit' /\ ~FirstCommit /\ pc' # "settle" /\ pc # "settle"
    BY <1>0, <1>2, <1>4, <2>2 DEF FirstCommit
  <2>4. outcome' = "unreadable" => e \in Messages
    BY <1>1, ForkOutcome, Names
  <2>5. OnceInv'
    <3>1. \A c \in Commits \cap ToSet(lockQueue') :
             c \in seen' /\ c \notin handled' /\ c # current' /\ ~Held1(c)'
      BY <1>0, <1>1, <1>2, <1>5, <2>1 DEF ForkInv, OnceInv
    <3>2. \A c \in Commits : c \in handled' \/ c = current' \/ Held1(c)' => c \in seen'
      BY <1>0, <1>2, <1>5, <2>1 DEF ForkInv, OnceInv
    <3>3. ToSet(futureBuffer') \subseteq Messages
      BY <1>2 DEF ForkInv, OnceInv
    <3>4. pc' = "handle" /\ outcome' = "unreadable" => current' \in Messages
      BY <1>0, <2>4
    <3>5. outcome' = "past-epoch" => current' \in Commits
      BY <1>0, <1>1 DEF OutcomeOf
    <3>6. pc' = "handle" /\ outcome' = "past-epoch" => current' \notin handled' /\ ~Held1(current)'
      BY <1>0, <1>2, <1>5, <2>1, <3>5
    <3> QED
      BY <1>2, <1>6, <3>1, <3>2, <3>3, <3>4, <3>6 DEF OnceInv
  <2>6. group.branch = <<>> => e \in Messages
    BY <1>1, <2>2, ForkOutcome, Names
  <2>7. BeforeInv'
    BY <1>0, <1>2, <1>3, <1>7, <2>6 DEF ForkInv, BeforeInv
  <2>8. AfterInv'
    <3>1. ASSUME NEW x \in Commits, Held1(x)
          PROVE  /\ ~final' => snapshot' # NoSnapshot /\ snapshot'.commit = x /\ x \in handled'
                 /\ snapshot' # NoSnapshot /\ snapshot'.commit # NoCommit =>
                       \/ /\ snapshot'.group.branch = <<>> /\ snapshot'.commit = x
                          /\ x \in handled' /\ ~final'
                       \/ Commits \subseteq handled'
      BY <1>2, <1>3, <2>3, <3>1 DEF ForkInv, AfterInv
    <3> QED
      BY <2>1, <2>3, <3>1 DEF AfterInv
  <2> QED
    BY <1>2, <1>7, <2>1, <2>5, <2>7, <2>8 DEF ForkInv
<1>8. CASE group'.branch # group.branch
  <2>1. outcome' = "processed" /\ e \in Commits
    BY <1>1, <1>8, IngestedGroup, Names
  <2>2. group.branch = <<>> /\ group'.branch = <<e>>
    BY <1>1, <2>1, ForkOutcome, IngestedGroup, Singles
  <2>3. (\A x : Held1(x)' <=> x = e) /\ Sole' /\ group'.branch # <<>> /\ (\A x : ~Held1(x))
    BY <2>1, <2>2, Singles DEF Held1, Sole
  <2>4. ~timer /\ ~final /\ handled \cap Commits = {}
    BY <2>2 DEF ForkInv, BeforeInv
  <2>5. FirstCommit' /\ pc' # "settle"
    BY <1>0, <1>2, <2>1 DEF FirstCommit
  <2>6. snapshot'.group.branch = <<>>
    BY <1>3, <2>2 DEF ForkInv, BeforeInv
  <2>7. OnceInv'
    BY <1>0, <1>1, <1>2, <1>5, <1>6, <2>1, <2>3 DEF ForkInv, OnceInv
  <2>8. BeforeInv' /\ AfterInv'
    BY <1>0, <1>2, <1>3, <2>3, <2>4, <2>5, <2>6 DEF BeforeInv, AfterInv
  <2>9. ForkInv'
    BY <2>3, <2>7, <2>8 DEF ForkInv
  <2>10. Held1(current)'
    BY <1>0, <2>2 DEF Held1
  <2> QED
    BY <1>0, <1>2, <2>1, <2>2, <2>4, <2>9, <2>10
<1> QED
  BY <1>7, <1>8
LEMMA ForkMessage ==
    ASSUME TypeOK, ForkInv, HandleMessage
    PROVE  ForkInv' /\ UNCHANGED <<group, final>> /\ handled' \cap Commits = handled \cap Commits
<1>1. /\ pc = "handle" /\ outcome = "processed" /\ current \in Messages
      /\ snapshot' = Replayed(snapshot, current) /\ handled' = handled \cup {current}
      /\ pc' \in {"idle", "flush"} /\ current' \in {current, NoEvent}
      /\ UNCHANGED <<group, final, timer, seen, lockQueue, futureBuffer>>
  BY DEF HandleMessage, Release
<1>2. handled' \cap Commits = handled \cap Commits /\ ~FirstCommit
  BY <1>1, Names DEF FirstCommit
<1>3. \/ snapshot' = snapshot
      \/ /\ snapshot # NoSnapshot /\ snapshot' # NoSnapshot
         /\ snapshot'.group = snapshot.group /\ snapshot'.commit = snapshot.commit
  <2>1. CASE snapshot = NoSnapshot
    BY <1>1, <2>1 DEF Replayed
  <2>2. CASE snapshot # NoSnapshot
    <3>1. snapshot \in Snapshot
      BY <2>2 DEF TypeOK, Snapshot
    <3>2. snapshot' = [snapshot EXCEPT !.replay = Append(@, current)]
      BY <1>1, <2>2 DEF Replayed
    <3>3. snapshot'.group = snapshot.group /\ snapshot'.commit = snapshot.commit
      BY <3>1, <3>2 DEF Snapshot
    <3>4. snapshot'.commit # "none"
      BY <3>1, <3>3, EventAssumption DEF Snapshot, Events, NoCommit
    <3> QED
      BY <2>2, <3>3, <3>4 DEF NoSnapshot
  <2> QED
    BY <2>1, <2>2
<1>4. ToSet(futureBuffer') \subseteq Messages /\ pc # "settle"
  BY <1>1 DEF ForkInv, OnceInv
<1>5. ForkInv'
  BY <1>1, <1>2, <1>3, <1>4, ForkQuiet
<1> QED
  BY <1>1, <1>2, <1>5

LEMMA ForkUnreadable ==
    ASSUME TypeOK, ForkInv, HandleUnreadable
    PROVE  ForkInv' /\ UNCHANGED <<group, final>> /\ handled' \cap Commits = handled \cap Commits
<1>1. /\ pc = "handle" /\ outcome = "unreadable" /\ current \in Messages
      /\ futureBuffer' = CapBuffer(Append(futureBuffer, current))
      /\ seen' = seen \ {current} /\ handled' = handled \cup {current}
      /\ pc' = "idle" /\ current' = NoEvent
      /\ UNCHANGED <<group, final, timer, snapshot, lockQueue>>
  BY DEF HandleUnreadable, Release, ForkInv, OnceInv
<1>2. /\ handled' \cap Commits = handled \cap Commits /\ ~FirstCommit
      /\ seen' \cap Commits = seen \cap Commits
  BY <1>1, Names DEF FirstCommit
<1>3. ToSet(futureBuffer') \subseteq Messages
  <2>1. /\ Append(futureBuffer, current) \in Seq(Events)
        /\ Len(Append(futureBuffer, current)) <= MaxBuffer + 1
        /\ ToSet(Append(futureBuffer, current)) = ToSet(futureBuffer) \cup {current}
    BY <1>1, Names, ElementsOf DEF TypeOK
  <2> QED
    BY <1>1, <2>1, Capped DEF ForkInv, OnceInv
<1>4. ForkInv'
  BY <1>1, <1>2, <1>3, ForkQuiet
<1> QED
  BY <1>1, <1>2, <1>4

(* The flush finds messages only. *)
LEMMA ForkFlush ==
    ASSUME OneEpoch, TypeOK, ForkInv, FlushFutureBuffer
    PROVE  ForkInv' /\ group'.branch = group.branch /\ UNCHANGED <<final, handled>>
<1>1. /\ pc = "flush" /\ futureBuffer' = StillUnreadable(futureBuffer, group)
      /\ pc' = "idle" /\ current' = NoEvent
      /\ UNCHANGED <<final, handled, timer, snapshot, seen, lockQueue>>
  BY DEF FlushFutureBuffer, Release
<1>2. ToSet(futureBuffer') \subseteq Messages
  BY <1>1, StillHeld DEF TypeOK, ForkInv, OnceInv
<1>3. group'.branch = group.branch
  <2>1. PICK S : S = ToSet(futureBuffer)
    OBVIOUS
  <2>2. S \subseteq Events /\ S \cap Commits = {} /\ group \in Groups /\ group' = AfterBatch(S, group)
    BY <2>1, Names, FlushGroup DEF ForkInv, OnceInv, TypeOK
  <2> QED
    BY <2>2, BatchInOneEpoch
<1>4. ~FirstCommit /\ pc # "settle"
  BY <1>1 DEF FirstCommit
<1>5. ForkInv'
  BY <1>1, <1>2, <1>3, <1>4, ForkQuiet
<1> QED
  BY <1>1, <1>3, <1>5

(* The first commit is charged to the snapshot of the state before it.         *)
LEMMA ForkCommit ==
    ASSUME TypeOK, ForkInv, HandleCommit
    PROVE  /\ ForkInv' /\ UNCHANGED <<group, final>>
           /\ handled' = handled \cup {current} /\ Held1(current) /\ current \in Commits
<1>1. /\ FirstCommit /\ snapshot' = Recorded(snapshot, current) /\ handled' = handled \cup {current}
      /\ pc' \in {"idle", "flush"} /\ current' \in {current, NoEvent} /\ current \in Commits
      /\ UNCHANGED <<group, final, seen, lockQueue, futureBuffer>>
  BY DEF HandleCommit, FirstCommit, Release
<1>2. /\ (\A x : Held1(x) <=> x = current) /\ ~final /\ snapshot # NoSnapshot
      /\ snapshot.group.branch = <<>> /\ group.branch # <<>>
  <2>1. group.branch # <<>>
    BY <1>1, Names DEF FirstCommit, ForkInv, BeforeInv
  <2>2. PICK x \in Commits : Held1(x)
    BY <2>1 DEF ForkInv, Sole
  <2> QED
    BY <1>1, <2>1, <2>2, Singles DEF ForkInv, AfterInv, Held1
<1>3. Sole' /\ (\A x : Held1(x)' <=> Held1(x)) /\ ~FirstCommit' /\ pc' \notin {"settle", "handle"}
  BY <1>1 DEF Held1, Sole, FirstCommit, ForkInv
<1>4. snapshot'.group.branch = <<>> /\ snapshot'.commit = current /\ snapshot' # NoSnapshot
  <2>1. snapshot \in Snapshot /\ snapshot' = [snapshot EXCEPT !.commit = current]
    BY <1>1, <1>2 DEF TypeOK, Snapshot, Recorded
  <2>2. snapshot'.group = snapshot.group /\ snapshot'.commit = current
    BY <2>1 DEF Snapshot
  <2> QED
    BY <1>1, <1>2, <2>2, Names DEF NoSnapshot
<1>5. OnceInv'
  BY <1>1, <1>3, Names DEF ForkInv, OnceInv, FirstCommit
<1>6. BeforeInv' /\ AfterInv'
  BY <1>1, <1>2, <1>3, <1>4 DEF BeforeInv, AfterInv
<1> QED
  BY <1>1, <1>2, <1>3, <1>5, <1>6 DEF ForkInv
(* A commit that comes after the first one.                                    *)
LEMMA ForkRival ==
    ASSUME NEW p, NEW q, Commits \subseteq {p, q}, TypeOK, HandInv, ForkInv,
           pc = "handle", outcome = "past-epoch"
    PROVE  /\ current \in Commits \ handled
           /\ \E x \in Commits \ {current} :
                 /\ Held1(x) /\ Commits = {x, current}
                 /\ ~final => snapshot # NoSnapshot /\ snapshot.commit = x /\ x \in handled
                 /\ snapshot # NoSnapshot /\ snapshot.commit # NoCommit =>
                       /\ snapshot.group.branch = <<>> /\ snapshot.commit = x
                       /\ x \in handled /\ ~final
<1>1. current \in Commits \ handled /\ ~Held1(current)
  BY DEF HandInv, ForkInv, OnceInv
<1>2. ~FirstCommit /\ pc # "settle"
  BY DEF FirstCommit
<1>3. group.branch # <<>>
  BY <1>1, Names DEF ForkInv, BeforeInv
<1>4. PICK x \in Commits : Held1(x)
  BY <1>3 DEF ForkInv, Sole
<1>5. x # current /\ Commits = {x, current}
  BY <1>1, <1>4
<1> QED
  BY <1>1, <1>2, <1>4, <1>5 DEF ForkInv, AfterInv

LEMMA ForkDrop ==
    ASSUME NEW p, NEW q, Commits \subseteq {p, q}, TypeOK, HandInv, ForkInv, DropPastEpoch
    PROVE  /\ ForkInv' /\ UNCHANGED <<group, final>>
           /\ current \in Commits \ handled /\ handled' = handled \cup {current}
           /\ \E x \in Commits \ {current} :
                 /\ Held1(x) /\ Commits = {x, current}
                 /\ ~final => CommitIsLower(x, current)
<1>1. /\ pc = "handle" /\ outcome = "past-epoch" /\ ~ShouldHaveWon(current)
      /\ handled' = handled \cup {current} /\ pc' = "idle" /\ current' = NoEvent
      /\ UNCHANGED <<group, snapshot, futureBuffer, timer, lockQueue, seen, final>>
  BY DEF DropPastEpoch, Release
<1>2. PICK x \in Commits \ {current} :
         /\ Held1(x) /\ Commits = {x, current}
         /\ ~final => snapshot # NoSnapshot /\ snapshot.commit = x /\ x \in handled
         /\ snapshot # NoSnapshot /\ snapshot.commit # NoCommit =>
               /\ snapshot.group.branch = <<>> /\ snapshot.commit = x
               /\ x \in handled /\ ~final
  BY <1>1, ForkRival
<1>3. current \in Commits \ handled
  BY <1>1, ForkRival
<1>4. ~final => CommitIsLower(x, current)
  <2>1. ASSUME ~final PROVE ~CommitIsLower(current, x)
    BY <1>1, <1>2, <2>1, Names DEF ShouldHaveWon
  <2>2. /\ Created[x] \in Nat /\ Created[current] \in Nat /\ IdRank[x] \in Nat
        /\ IdRank[current] \in Nat /\ IdRank[x] # IdRank[current]
    BY <1>2, <1>3, OrderAssumption, Names
  <2> QED
    BY <2>1, <2>2 DEF CommitIsLower
<1>5. Sole' /\ (\A y : Held1(y)' <=> Held1(y)) /\ ~FirstCommit' /\ pc' \notin {"settle", "handle"}
  BY <1>1 DEF Held1, Sole, FirstCommit, ForkInv
<1>6. OnceInv'
  <2>1. current \notin ToSet(lockQueue)
    BY <1>3 DEF ForkInv, OnceInv
  <2> QED
    BY <1>1, <1>3, <1>5, <2>1, Names DEF ForkInv, OnceInv
<1>7. group'.branch # <<>> /\ \A y : Held1(y) <=> y = x
  BY <1>1, <1>2, Singles DEF Held1
<1>8. BeforeInv' /\ AfterInv'
  BY <1>1, <1>2, <1>5, <1>7 DEF BeforeInv, AfterInv
<1> QED
  BY <1>1, <1>2, <1>3, <1>4, <1>5, <1>6, <1>8 DEF ForkInv

(* A lower one replaces the first. *)
LEMMA ForkRollback ==
    ASSUME NEW p, NEW q, Commits \subseteq {p, q}, OneEpoch, TypeOK, HandInv, ForkInv, Rollback
    PROVE  /\ ForkInv' /\ final' = final /\ ~final
           /\ current \in Commits \ handled /\ handled' = handled \cup {current}
           /\ \E x \in Commits \ {current} :
                 /\ Held1(x) /\ Commits = {x, current} /\ CommitIsLower(current, x)
                 /\ x \in handled /\ group'.branch = <<current>>
<1>1. /\ pc = "handle" /\ outcome = "past-epoch" /\ ShouldHaveWon(current)
      /\ handled' = handled \cup {current} /\ pc' = "settle" /\ current' = current
      /\ UNCHANGED <<snapshot, futureBuffer, timer, lockQueue, seen, final>>
  BY DEF Rollback
<1>2. PICK x \in Commits \ {current} :
         /\ Held1(x) /\ Commits = {x, current}
         /\ snapshot # NoSnapshot /\ snapshot.commit # NoCommit =>
               /\ snapshot.group.branch = <<>> /\ snapshot.commit = x
               /\ x \in handled /\ ~final
  BY <1>1, ForkRival
<1>3. current \in Commits \ handled
  BY <1>1, ForkRival
<1>4. snapshot.group.branch = <<>> /\ snapshot.commit = x /\ x \in handled /\ ~final
  BY <1>1, <1>2 DEF ShouldHaveWon
<1>5. group'.branch = <<current>>
  <2>1. PICK S : S = {current} \cup ToSet(snapshot.replay)
    OBVIOUS
  <2>2. S \subseteq Events /\ S \cap Commits = {current} /\ snapshot.group \in Groups
        /\ group' = AfterBatch(S, snapshot.group)
    BY <1>3, <2>1, RollbackGroup
  <2> QED
    BY <1>3, <1>4, <2>2, BatchInOneEpoch
<1>6. Sole' /\ (\A y : Held1(y)' <=> y = current) /\ ~FirstCommit' /\ group'.branch # <<>>
  BY <1>1, <1>3, <1>5, Singles DEF Held1, Sole, FirstCommit
<1>7. OnceInv'
  <2>1. current \notin ToSet(lockQueue)
    BY <1>3 DEF ForkInv, OnceInv
  <2> QED
    BY <1>1, <1>3, <1>6, <2>1, Names DEF ForkInv, OnceInv
<1>8. Commits \subseteq handled'
  BY <1>1, <1>2, <1>4
<1>9. BeforeInv' /\ AfterInv'
  BY <1>1, <1>6, <1>8 DEF BeforeInv, AfterInv
<1>10. CommitIsLower(current, x)
  BY <1>1, <1>4 DEF ShouldHaveWon
<1> QED
  BY <1>1, <1>2, <1>3, <1>4, <1>5, <1>6, <1>7, <1>9, <1>10 DEF ForkInv

LEMMA ForkSettle ==
    ASSUME TypeOK, HandInv, ForkInv, Settle
    PROVE  ForkInv' /\ UNCHANGED <<group, final, handled>>
<1>1. /\ pc = "settle" /\ current \in Commits /\ snapshot' = Fresh(group, current)
      /\ pc' = "idle" /\ current' = NoEvent
      /\ UNCHANGED <<group, futureBuffer, lockQueue, seen, handled, final>>
  BY DEF Settle, Release, HandInv
<1>2. PICK x \in Commits : Held1(x)
  BY <1>1 DEF ForkInv, BeforeInv, Sole
<1>3. current = x /\ Commits \subseteq handled /\ (\A y : Held1(y) <=> y = x) /\ group.branch # <<>>
  BY <1>1, <1>2, Singles DEF ForkInv, AfterInv, Held1
<1>4. Sole' /\ (\A y : Held1(y)' <=> Held1(y)) /\ ~FirstCommit' /\ pc' \notin {"settle", "handle"}
  BY <1>1 DEF Held1, Sole, FirstCommit, ForkInv
<1>5. snapshot' # NoSnapshot /\ snapshot'.commit = x
  BY <1>1, <1>2, <1>3, Names DEF Fresh, NoSnapshot
<1>6. OnceInv'
  BY <1>1, <1>4, Names DEF ForkInv, OnceInv
<1>7. BeforeInv' /\ AfterInv'
  BY <1>1, <1>2, <1>3, <1>4, <1>5 DEF BeforeInv, AfterInv
<1> QED
  BY <1>1, <1>4, <1>6, <1>7 DEF ForkInv

(* The grace window ends, or a teardown drops the snapshot. *)
LEMMA ForkClose ==
    ASSUME TypeOK, ForkInv, GraceExpires \/ Resubscribe
    PROVE  /\ ForkInv' /\ UNCHANGED <<group, handled>>
           /\ final' = (final \/ group.branch # <<>>)
<1>1. CASE GraceExpires
  <2>1. /\ timer /\ ~timer' /\ snapshot' = NoSnapshot /\ final' = TRUE /\ group.branch # <<>>
        /\ UNCHANGED <<group, futureBuffer, lockQueue, pc, current, outcome, seen, handled>>
    BY <1>1 DEF GraceExpires, ForkInv, BeforeInv
  <2>2. Sole' /\ (\A y : Held1(y)' <=> Held1(y)) /\ (FirstCommit' <=> FirstCommit)
    BY <2>1 DEF Held1, Sole, FirstCommit, ForkInv
  <2>3. OnceInv' /\ BeforeInv'
    BY <2>1, <2>2 DEF ForkInv, OnceInv, BeforeInv
  <2>4. AfterInv'
    BY <2>1, <2>2 DEF ForkInv, AfterInv
  <2> QED
    BY <2>1, <2>2, <2>3, <2>4 DEF ForkInv
<1>2. CASE Resubscribe
  <2>1. /\ ~timer' /\ snapshot' = NoSnapshot /\ final' = (final \/ group.branch # <<>>)
        /\ futureBuffer' = <<>> /\ lockQueue' = <<>> /\ pc' = "idle" /\ current' = NoEvent
        /\ UNCHANGED <<group, seen, handled>>
    BY <1>2 DEF Resubscribe, Release
  <2>2. Sole' /\ (\A y : Held1(y)' <=> Held1(y)) /\ ~FirstCommit' /\ pc' \notin {"settle", "handle"}
    BY <2>1 DEF Held1, Sole, FirstCommit, ForkInv
  <2>3. ToSet(lockQueue') = {} /\ ToSet(futureBuffer') = {} /\ DOMAIN lockQueue' = {}
    BY <2>1, Singles
  <2>4. OnceInv'
    BY <2>1, <2>2, <2>3, Names DEF ForkInv, OnceInv
  <2>5. BeforeInv'
    BY <2>1, <2>2 DEF ForkInv, BeforeInv
  <2>6. AfterInv'
    <3>1. \A y : Held1(y) => group.branch # <<>>
      BY Singles DEF Held1
    <3> QED
      BY <2>1, <2>2, <3>1 DEF AfterInv
  <2> QED
    BY <2>1, <2>2, <2>4, <2>5, <2>6 DEF ForkInv
<1> QED
  BY <1>1, <1>2
(* The state of ForkChoice a state of the resolver stands for. *)
Chosen == Roots \cap ToSet(group.branch)

LEMMA ForkView ==
    ASSUME OneEpoch
    PROVE  /\ Roots = Commits
           /\ Offered = (handled \cap Commits) \cup Chosen
           /\ group.branch = <<>> => Chosen = {}
           /\ \A x \in Commits : Held1(x) => Chosen = {x}
<1>1. Roots = Commits
  BY DEF Roots, OneEpoch
<1>2. Offered = (handled \cap Commits) \cup Chosen
  BY <1>1 DEF Offered, Chosen
<1>3. (group.branch = <<>> => Chosen = {}) /\ \A x \in Commits : Held1(x) => Chosen = {x}
  BY <1>1, Singles DEF Chosen, Held1
<1> QED
  BY <1>1, <1>2, <1>3

(* The same of the state after a step. *)
LEMMA ForkViewNext ==
    ASSUME OneEpoch
    PROVE  /\ Roots' = Commits
           /\ Offered' = (handled' \cap Commits) \cup Chosen'
           /\ Chosen' = Commits \cap ToSet(group'.branch)
           /\ \A x \in Commits : group'.branch = <<x>> => Chosen' = {x}
<1>1. Roots' = Commits /\ Roots = Commits
  BY DEF Roots, OneEpoch
<1>2. Offered' = (handled' \cap Commits) \cup Chosen' /\ Chosen' = Commits \cap ToSet(group'.branch)
  BY <1>1 DEF Offered, Chosen
<1>3. \A x \in Commits : group'.branch = <<x>> => Chosen' = {x}
  BY <1>2, Singles
<1> QED
  BY <1>1, <1>2, <1>3

LEMMA ForkRefines ==
    ASSUME NEW p, NEW q, Commits \subseteq {p, q}, OneEpoch, TypeOK, HandInv, ForkInv, [Next]_vars
    PROVE  ForkInv' /\ [Fork!Next]_<<Offered, Chosen, ~final>>
<1> DEFINE Same == Offered' = Offered /\ Chosen' = Chosen
<1>1. ASSUME group'.branch = group.branch, handled' \cap Commits = handled \cap Commits
      PROVE  Same
  BY <1>1, ForkView, ForkViewNext DEF Chosen
<1>2. ASSUME NEW c \in Commits, c \notin Offered, Offered' = Offered \cup {c}, final' = final,
             Chosen' = IF ~final THEN Fork!Lowest(Offered') ELSE Chosen
      PROVE  Fork!Next
  <2>1. Fork!Offer(c)
    BY <1>2 DEF Fork!Offer, Chosen
  <2> QED
    BY <2>1, ForkView DEF Fork!Next
<1>3. CASE \E e \in Events : Arrive(e)
  <2>1. UNCHANGED <<group, handled, final>> /\ ForkInv'
    BY <1>3, ForkArrive DEF Arrive
  <2> QED
    BY <1>1, <2>1
<1>4. CASE Ingest
  <2>1. CASE group'.branch = group.branch
    BY <1>1, <1>4, <2>1, ForkIngest
  <2>2. CASE group'.branch # group.branch
    <3>1. PICK c \in Commits : /\ c = current' /\ group'.branch = <<c>> /\ group.branch = <<>>
                               /\ handled \cap Commits = {} /\ ~final /\ handled' = handled
                               /\ final' = final /\ ForkInv'
      BY <1>4, <2>2, ForkIngest DEF Held1
    <3>2. Offered = {} /\ Offered' = {c} /\ Chosen' = {c}
      BY <3>1, ForkView, ForkViewNext
    <3>3. Fork!Lowest({c}) = {c}
      BY DEF Fork!Lowest
    <3> QED
      BY <1>2, <3>1, <3>2, <3>3
  <2> QED
    BY <2>1, <2>2
<1>5. CASE HandleMessage
  BY <1>1, <1>5, ForkMessage
<1>6. CASE HandleCommit
  <2>1. /\ ForkInv' /\ UNCHANGED <<group, final>>
        /\ handled' = handled \cup {current} /\ Held1(current) /\ current \in Commits
    BY <1>6, ForkCommit
  <2>2. Chosen = {current} /\ Chosen' = {current}
    BY <2>1, ForkView, ForkViewNext DEF Held1
  <2>3. Offered' = Offered
    BY <2>1, <2>2, ForkView, ForkViewNext
  <2> QED
    BY <2>1, <2>2, <2>3
<1>7. CASE HandleUnreadable
  BY <1>1, <1>7, ForkUnreadable
<1>8. CASE DropPastEpoch
  <2>1. PICK x \in Commits \ {current} :
           /\ Held1(x) /\ Commits = {x, current} /\ (~final => CommitIsLower(x, current))
           /\ ForkInv' /\ UNCHANGED <<group, final>>
           /\ current \in Commits \ handled /\ handled' = handled \cup {current}
    BY <1>8, ForkDrop
  <2>2. Chosen = {x} /\ Chosen' = {x}
    BY <2>1, ForkView, ForkViewNext DEF Held1
  <2>3. current \notin Offered /\ Offered' = Offered \cup {current} /\ Offered' = {x, current}
    BY <2>1, <2>2, ForkView, ForkViewNext
  <2>4. ~final => Fork!Lowest({x, current}) = {x}
    <3>1. ~final => ~CommitIsLower(current, x)
      BY <2>1, OrderAssumption, Names DEF CommitIsLower
    <3> QED
      BY <2>1, <3>1 DEF Fork!Lowest
  <2> QED
    BY <1>2, <2>1, <2>2, <2>3, <2>4
<1>9. CASE Rollback
  <2>1. PICK x \in Commits \ {current} :
           /\ Held1(x) /\ Commits = {x, current} /\ CommitIsLower(current, x)
           /\ x \in handled /\ group'.branch = <<current>>
           /\ ForkInv' /\ final' = final /\ ~final
           /\ current \in Commits \ handled /\ handled' = handled \cup {current}
    BY <1>9, ForkRollback
  <2>2. Chosen = {x} /\ Chosen' = {current}
    BY <2>1, ForkView, ForkViewNext
  <2>3. /\ current \notin Offered /\ Offered' = {x, current}
    BY <2>1, <2>2, ForkView, ForkViewNext
  <2>4. Fork!Lowest({x, current}) = {current}
    <3>1. ~CommitIsLower(x, current)
      BY <2>1, OrderAssumption, Names DEF CommitIsLower
    <3> QED
      BY <2>1, <3>1 DEF Fork!Lowest
  <2>5. Offered = {x}
    BY <2>1, <2>2, <2>3, ForkView
  <2> QED
    BY <1>2, <2>1, <2>2, <2>3, <2>4, <2>5
<1>10. CASE Settle
  BY <1>1, <1>10, ForkSettle
<1>11. CASE FlushFutureBuffer
  BY <1>1, <1>11, ForkFlush
<1>12. CASE GraceExpires \/ Resubscribe
  <2>1. /\ ForkInv' /\ UNCHANGED <<group, handled>> /\ final' = (final \/ group.branch # <<>>)
    BY <1>12, ForkClose
  <2>2. Same
    BY <1>1, <2>1
  <2>3. CASE final \/ group.branch = <<>>
    <3>1. (~final)' = ~final
      BY <2>1, <2>3 DEF TypeOK
    <3> QED
      BY <2>1, <2>2, <3>1
  <2>4. CASE ~final /\ group.branch # <<>>
    <3>1. Chosen # {} /\ final'
      BY <2>1, <2>4, ForkView DEF ForkInv, Sole
    <3>2. Fork!Close
      BY <2>2, <2>4, <3>1 DEF Fork!Close, Chosen, Roots, Offered
    <3> QED
      BY <2>1, <3>2 DEF Fork!Next
  <2> QED
    BY <2>3, <2>4
<1>13. CASE UNCHANGED vars
  <2>1. /\ UNCHANGED <<group, snapshot, futureBuffer, timer, lockQueue, pc, current, outcome>>
        /\ UNCHANGED <<seen, handled, final>>
    BY <1>13 DEF vars
  <2>2. ForkInv'
    BY <2>1 DEF ForkInv, Sole, Held1, OnceInv, BeforeInv, AfterInv, FirstCommit
  <2> QED
    BY <1>1, <2>1, <2>2
<1> QED
  BY <1>3, <1>4, <1>5, <1>6, <1>7, <1>8, <1>9, <1>10, <1>11, <1>12, <1>13 DEF Next, Handle

(* Two commits compete for an epoch, and any messages of the state before and  *)
(* of theirs come with them: in whatever order the relays deliver them, and    *)
(* however the grace window's timer and teardowns fall between the steps of a  *)
(* handler, the group moves as ForkChoice says.  rollbackAndReplay is what     *)
(* turns the group to the lower commit, and a window that ended closes the     *)
(* choice.  With a third rival this does not hold: see the README.             *)
THEOREM TwoRivalsAreResolved ==
    ASSUME OneEpoch, NEW CONSTANT p, NEW CONSTANT q, Commits \subseteq {p, q}
    PROVE  Spec => ResolvesTheFork
<1>1. Init => Fork!Init
  <2> SUFFICES ASSUME Init PROVE Fork!Init
    OBVIOUS
  <2>1. handled = {} /\ group.branch = <<>> /\ final = FALSE
    BY DEF Init
  <2>2. Offered = {} /\ Chosen = {}
    BY <2>1, ForkView
  <2> QED
    BY <2>1, <2>2 DEF Fork!Init, Chosen, Roots, Offered
<1>2. BaseInv /\ ForkInv /\ [Next]_vars => ForkInv' /\ [Fork!Next]_<<Offered, Chosen, ~final>>
  BY ForkRefines DEF BaseInv
<1> QED
  BY <1>1, <1>2, BaseInit, BaseStep, ForkInit, PTL DEF Spec, ResolvesTheFork, Fork!Spec, Chosen
=============================================================================
