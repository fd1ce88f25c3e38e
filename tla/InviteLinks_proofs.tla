-------------------------- MODULE InviteLinks_proofs --------------------------
(***************************************************************************)
(* Proofs about InviteLinks, for any links, groups, bells, records and bounds:  *)
(* its type invariant, that the store is what the finished calls would have     *)
(* left one after another, and that the sweep rings once for a link.            *)
(***************************************************************************)
EXTENDS InviteLinks, FiniteSetTheorems, TLAPS

(* The parts of the type invariant. *)
RecordsOK ==
    /\ links \in [Nonces -> LinkOrNone] /\ ledger \in [Nonces -> LinkOrNone]
    /\ got \in [Nonces -> LinkOrNone]

QueuesOK ==
    /\ chain \in [Nonces -> Seq(Calls)]
    /\ clears \in Nat /\ cleared \in Nat /\ cleared <= clears
    /\ mid \subseteq Nonces
    /\ \A n \in mid : chain[n] # <<>> /\ First(n).era <= cleared

MigrationType == [pc : {"idle", "load", "write"}, now : Nat]
SweepType == [pc : {"idle", "load", "next", "stamp", "bump", "acknowledge"}, now : Nat,
              todo : SUBSET Nonces, cur : SUBSET Nonces]
CycleType == [pc : {"idle", "migrate", "sweep", "delete", "derive", "emit"},
              now : Nat, count : [Groups -> Nat]]
ReaderType == [pc : {"idle", "load", "write"}, shown : SUBSET Nonces]

CycleOK == /\ migration \in MigrationType /\ sweep \in SweepType
           /\ bells \in [Derivers -> CycleType]
ClicksOK == /\ reader \in [Groups -> ReaderType]
            /\ leaver \in [Groups -> {"idle", "load", "write"}]
            /\ badge \in [Groups -> Nat] /\ clock \in Nat

TypeInv == RecordsOK /\ QueuesOK /\ CycleOK /\ ClicksOK

LEMMA TypeParts == TypeInv => TypeOK
BY DEF TypeInv, TypeOK, RecordsOK, QueuesOK, CycleOK, ClicksOK, MigrationType, SweepType,
       CycleType, ReaderType

LEMMA Updated ==
    ASSUME NEW S, NEW T, NEW f \in [S -> T], NEW x \in S, NEW v \in T
    PROVE  [f EXCEPT ![x] = v] \in [S -> T]
OBVIOUS

-----------------------------------------------------------------------------
(* What an operation makes of a record is a record. *)
LEMMA RecordType ==
    ASSUME NEW l \in Link
    PROVE  /\ l # NoLink /\ l \in LinkOrNone /\ NoLink \in LinkOrNone
           /\ EffectiveExpiry(l) \in Nat
           /\ \A now \in Nat : Migrated(l, now) \in Link
           /\ [l EXCEPT !.notified = TRUE] \in Link
           /\ [l EXCEPT !.acknowledged = TRUE] \in Link
           /\ [l EXCEPT !.usage = @ + 1] \in Link
<1>1. l # NoLink /\ l \in LinkOrNone /\ NoLink \in LinkOrNone
  BY LinksAssumption DEF LinkOrNone
<1>2. EffectiveExpiry(l) \in Nat
  BY LinksAssumption DEF EffectiveExpiry, Link, Unset
<1>3. ASSUME NEW now \in Nat PROVE Migrated(l, now) \in Link
  <2> DEFINE e == IF l.muted THEN Least(EffectiveExpiry(l), now) ELSE EffectiveExpiry(l)
             d == Dismissed(l, now)
  <2>1. e \in Nat
    BY <1>2 DEF Least
  <2>2. d \in BOOLEAN
    BY DEF Dismissed, Expired, Link
  <2>3. Migrated(l, now) = [l EXCEPT !.expires = e, !.notified = @ \/ d, !.acknowledged = @ \/ d]
    BY DEF Migrated
  <2> HIDE DEF e, d
  <2> QED BY <2>1, <2>2, <2>3 DEF Link
<1>4. /\ [l EXCEPT !.notified = TRUE] \in Link
      /\ [l EXCEPT !.acknowledged = TRUE] \in Link
      /\ [l EXCEPT !.usage = @ + 1] \in Link
  <2>1. [l EXCEPT !.notified = TRUE] \in Link
    BY DEF Link
  <2>2. [l EXCEPT !.acknowledged = TRUE] \in Link
    BY DEF Link
  <2>3. [l EXCEPT !.usage = @ + 1] \in Link
    <3>1. l.usage + 1 \in Nat
      BY DEF Link
    <3> QED BY <3>1 DEF Link
  <2> QED BY <2>1, <2>2, <2>3
<1> QED BY <1>1, <1>2, <1>3, <1>4

LEMMA AfterType ==
    ASSUME NEW call \in Calls, NEW l \in LinkOrNone
    PROVE  After(call, l) \in LinkOrNone
<1>1. CASE l = NoLink
  BY <1>1 DEF After, LinkOrNone
<1>2. CASE l # NoLink
  <2>1. l \in Link
    BY <1>2 DEF LinkOrNone
  <2>2. call.op \in Ops /\ call.now \in Nat
    BY DEF Calls
  <2>3. /\ NoLink \in LinkOrNone /\ Migrated(l, call.now) \in LinkOrNone
        /\ [l EXCEPT !.notified = TRUE] \in LinkOrNone
        /\ [l EXCEPT !.acknowledged = TRUE] \in LinkOrNone
        /\ [l EXCEPT !.usage = @ + 1] \in LinkOrNone
    BY <2>1, <2>2, RecordType DEF LinkOrNone
  <2>4. \/ call.op = "delete" /\ After(call, l) = NoLink
        \/ call.op = "migrate" /\ After(call, l) = Migrated(l, call.now)
        \/ call.op = "stamp" /\ After(call, l) = [l EXCEPT !.notified = TRUE]
        \/ call.op = "acknowledge" /\ After(call, l) = [l EXCEPT !.acknowledged = TRUE]
        \/ call.op = "increment" /\ After(call, l) = [l EXCEPT !.usage = @ + 1]
    BY <1>2, <2>2 DEF Ops, After
  <2> QED BY <2>3, <2>4
<1> QED BY <1>1, <1>2

-----------------------------------------------------------------------------
(* The queues. *)
LEMMA CallType ==
    ASSUME QueuesOK, NEW op \in Ops, NEW by \in Owners, NEW now \in Nat
    PROVE  Timed(op, by, now) \in Calls /\ Call(op, by) \in Calls
BY DEF QueuesOK, Timed, Call, Calls

LEMMA Queued ==
    ASSUME QueuesOK, NEW ns, NEW call \in Calls, Queue(ns, call), UNCHANGED <<mid, cleared>>,
           clears' \in Nat, clears <= clears'
    PROVE  /\ QueuesOK'
           /\ \A n \in Nonces : chain[n] # <<>> => chain'[n] # <<>> /\ First(n)' = First(n)
<1>1. chain' \in [Nonces -> Seq(Calls)]
  BY DEF QueuesOK, Queue
<1>2. ASSUME NEW n \in Nonces, chain[n] # <<>> PROVE chain'[n] # <<>> /\ First(n)' = First(n)
  <2>1. chain[n] \in Seq(Calls) /\ (chain'[n] = chain[n] \/ chain'[n] = Append(chain[n], call))
    BY DEF QueuesOK, Queue
  <2>2. Append(chain[n], call) # <<>> /\ Head(Append(chain[n], call)) = Head(chain[n])
    BY <1>2, <2>1
  <2> QED BY <1>2, <2>1, <2>2 DEF First
<1> QED BY <1>1, <1>2 DEF QueuesOK

(* A call leaves its queue, which may disown others. *)
LEMMA Settled ==
    ASSUME QueuesOK, NEW n \in Nonces, chain[n] # <<>>, NEW q, Settle(n, q),
           q \in [Nonces -> Seq(Calls)],
           \A m \in Nonces \ {n} : chain[m] # <<>> => q[m] # <<>> /\ Head(q[m]).era = First(m).era,
           UNCHANGED <<clears, cleared>>
    PROVE  QueuesOK'
BY DEF QueuesOK, Settle, First

LEMMA TailSettled ==
    ASSUME QueuesOK, NEW n \in Nonces, chain[n] # <<>>
    PROVE  /\ [chain EXCEPT ![n] = Tail(@)] \in [Nonces -> Seq(Calls)]
           /\ \A m \in Nonces \ {n} : [chain EXCEPT ![n] = Tail(@)][m] = chain[m]
           /\ First(n) \in Calls
BY DEF QueuesOK, First

LEMMA DisownedType ==
    ASSUME NEW q \in Seq(Calls), NEW by
    PROVE  /\ Disowned(q, by) \in Seq(Calls) /\ Len(Disowned(q, by)) = Len(q)
           /\ \A i \in 1..Len(q) : /\ Disowned(q, by)[i].op = q[i].op
                                   /\ Disowned(q, by)[i].now = q[i].now
                                   /\ Disowned(q, by)[i].era = q[i].era
                                   /\ Disowned(q, by)[i].by \in {q[i].by, "nobody"}
                                   /\ q[i].by # by => Disowned(q, by)[i] = q[i]
<1> DEFINE d(i) == IF q[i].by = by THEN [q[i] EXCEPT !.by = "nobody"] ELSE q[i]
<1>1. Len(q) \in Nat /\ DOMAIN q = 1..Len(q)
  OBVIOUS
<1>2. \A i \in 1..Len(q) : d(i) \in Calls
  <2> TAKE i \in 1..Len(q)
  <2>1. q[i] \in Calls
    BY <1>1
  <2>2. [q[i] EXCEPT !.by = "nobody"] \in Calls
    BY <2>1 DEF Calls, Owners
  <2> QED BY <2>1, <2>2
<1>3. Disowned(q, by) = [i \in 1..Len(q) |-> d(i)]
  BY <1>1 DEF Disowned
<1>4. \A i \in 1..Len(q) : /\ d(i).op = q[i].op /\ d(i).now = q[i].now /\ d(i).era = q[i].era
                           /\ d(i).by \in {q[i].by, "nobody"} /\ (q[i].by # by => d(i) = q[i])
  <2> TAKE i \in 1..Len(q)
  <2>1. q[i] \in Calls
    BY <1>1
  <2> QED BY <2>1 DEF Calls
<1> HIDE DEF d
<1>5. Disowned(q, by) \in Seq(Calls) /\ Len(Disowned(q, by)) = Len(q)
  BY <1>1, <1>2, <1>3
<1> QED BY <1>3, <1>4, <1>5-----------------------------------------------------------------------------
(* Types. *)

LEMMA InitTyped == Init => TypeInv
<1> SUFFICES ASSUME Init PROVE TypeInv
  OBVIOUS
<1> USE DEF Init, Asleep
<1>1. RecordsOK
  BY LinksAssumption DEF RecordsOK, LinkOrNone
<1>2. QueuesOK
  BY DEF QueuesOK
<1>3. NoCount \in [Groups -> Nat] /\ NoCycle \in CycleType
  BY DEF NoCount, NoCycle, CycleType
<1>4. CycleOK
  BY <1>3 DEF CycleOK, NoMigration, NoSweep, MigrationType, SweepType
<1>5. ClicksOK
  BY <1>3, LinksAssumption DEF ClicksOK, ReaderType
<1> QED BY <1>1, <1>2, <1>4, <1>5 DEF TypeInv

LEMMA MoveType ==
    ASSUME bells \in [Derivers -> CycleType],
           NEW from, NEW to \in {"idle", "migrate", "sweep", "delete", "derive", "emit"}
    PROVE  Move(from, to) \in [Derivers -> CycleType]
BY DEF Move, CycleType

(* The migration ends, well or not. *)
LEMMA MigrateType == ASSUME TypeInv, Migrate PROVE CycleOK'
<1>1. bells' \in [Derivers -> CycleType]
  BY MoveType DEF TypeInv, CycleOK, Migrate
<1>2. sweep' \in SweepType
  BY DEF TypeInv, CycleOK, Migrate, SweepType, MigrationType
<1> QED BY <1>1, <1>2 DEF Migrate, CycleOK, NoMigration, MigrationType

LEMMA SkipSweepType == ASSUME TypeInv, SkipSweep PROVE CycleOK'
<1>1. bells' \in [Derivers -> CycleType]
  BY MoveType DEF TypeInv, CycleOK, SkipSweep
<1> QED BY <1>1 DEF TypeInv, SkipSweep, CycleOK, NoMigration, MigrationType

LEMMA SweepPc ==
    ASSUME sweep \in SweepType,
           NEW pc \in {"idle", "load", "next", "stamp", "bump", "acknowledge"}
    PROVE  [sweep EXCEPT !.pc = pc] \in SweepType
BY DEF SweepType

LEMMA ResumeType ==
    ASSUME TypeInv, NEW call, NEW stamped, Resume(call, stamped), UNCHANGED migration
    PROVE  CycleOK'
<1>1. sweep' \in SweepType
  <2>1. sweep' = sweep \/ sweep' = [sweep EXCEPT !.pc = "bump"] \/ sweep' = [sweep EXCEPT !.pc = "next"]
    BY DEF Resume
  <2> QED BY <2>1, SweepPc DEF TypeInv, CycleOK
<1>2. bells' \in [Derivers -> CycleType]
  <2>1. \/ bells' = bells
        \/ bells' = [bells EXCEPT ![Modal] = [@ EXCEPT !.pc = "derive", !.now = clock]]
    BY DEF Resume, TypeInv, CycleOK, Derivers
  <2>2. \A c \in CycleType : [c EXCEPT !.pc = "derive", !.now = clock] \in CycleType
    BY DEF CycleType, TypeInv, ClicksOK
  <2> QED BY <2>1, <2>2 DEF TypeInv, CycleOK, Derivers
<1> QED BY <1>1, <1>2 DEF CycleOK, TypeInv

(* The three answers of IndexedDB to the first call of a queue. *)
LEMMA StoresTyped ==
    ASSUME TypeInv, NEW n \in Nonces, Stores(n)
    PROVE  TypeInv'
<1> USE DEF TypeInv
<1>1. CASE Get(n)
  <2>1. RecordsOK'
    BY <1>1 DEF Get, RecordsOK, history
  <2>2. QueuesOK'
    BY <1>1 DEF Get, MayStart, QueuesOK, First
  <2>3. CycleOK' /\ ClicksOK'
    BY <1>1 DEF Get, CycleOK, ClicksOK
  <2> QED BY <2>1, <2>2, <2>3
<1>2. CASE Put(n)
  <2>1. chain[n] # <<>> /\ First(n) \in Calls
    BY <1>2, TailSettled DEF Put, QueuesOK
  <2>2. RecordsOK'
    <3>1. \A l \in LinkOrNone : After(First(n), l) \in LinkOrNone
      BY <2>1, AfterType
    <3>2. NoLink \in LinkOrNone
      BY DEF LinkOrNone
    <3> QED BY <1>2, <3>1, <3>2 DEF Put, Settle, RecordsOK
  <2>3. QueuesOK'
    BY <1>2, <2>1, TailSettled, Settled DEF Put, First
  <2>4. CycleOK'
    BY <1>2, ResumeType DEF Put
  <2> QED BY <1>2, <2>2, <2>3, <2>4 DEF Put, ClicksOK
<1>3. CASE Delete(n)
  <2>1. chain[n] # <<>>
    BY <1>3 DEF Delete, MayStart
  <2>2. RecordsOK'
    BY <1>3 DEF Delete, Settle, RecordsOK, LinkOrNone
  <2>3. QueuesOK'
    BY <1>3, <2>1, TailSettled, Settled DEF Delete, First
  <2>4. CycleOK'
    BY <1>3, ResumeType DEF Delete
  <2> QED BY <1>3, <2>2, <2>3, <2>4 DEF Delete, ClicksOK
<1> QED BY <1>1, <1>2, <1>3 DEF Stores

(* The queue that is left when a call rejects. *)
Left(n) ==
    LET by == First(n).by
        rest == [chain EXCEPT ![n] = Tail(@)]
        shared == by \in {"migration", "reader", "leaver"}
    IN  [m \in Nonces |-> IF shared /\ (by = "migration" \/ GroupOf[m] = GroupOf[n])
                          THEN Disowned(rest[m], by) ELSE rest[m]]

LEMMA LeftType ==
    ASSUME QueuesOK, NEW n \in Nonces, chain[n] # <<>>
    PROVE  /\ Left(n) \in [Nonces -> Seq(Calls)]
           /\ \A m \in Nonces \ {n} : /\ chain[m] # <<>> => Left(n)[m] # <<>>
                                      /\ chain[m] # <<>> => Head(Left(n)[m]).era = First(m).era
                                      /\ chain[m] # <<>> => Head(Left(n)[m]).op = First(m).op
<1> DEFINE by == First(n).by
           rest == [chain EXCEPT ![n] = Tail(@)]
<1>1. /\ rest \in [Nonces -> Seq(Calls)] /\ \A m \in Nonces \ {n} : rest[m] = chain[m]
  BY TailSettled
<1>2. \A m \in Nonces : Left(n)[m] = rest[m] \/ Left(n)[m] = Disowned(rest[m], by)
  BY DEF Left
<1>3. DOMAIN Left(n) = Nonces /\ Left(n) = [m \in Nonces |-> Left(n)[m]]
  BY DEF Left
<1> HIDE DEF rest, by
<1>4. \A m \in Nonces : Disowned(rest[m], by) \in Seq(Calls)
  BY <1>1, DisownedType
<1>5. Left(n) \in [Nonces -> Seq(Calls)]
  BY <1>1, <1>2, <1>3, <1>4
<1>6. ASSUME NEW m \in Nonces \ {n}, chain[m] # <<>>
      PROVE  /\ Left(n)[m] # <<>> /\ Head(Left(n)[m]).era = First(m).era
             /\ Head(Left(n)[m]).op = First(m).op
  <2>1. rest[m] = chain[m] /\ chain[m] \in Seq(Calls) /\ Len(chain[m]) \in Nat \ {0}
    BY <1>1, <1>6
  <2>2. CASE Left(n)[m] = rest[m]
    BY <1>6, <2>1, <2>2 DEF First
  <2>3. CASE Left(n)[m] = Disowned(rest[m], by)
    <3> DEFINE d == Disowned(chain[m], by)
    <3>1. /\ d \in Seq(Calls) /\ Len(d) = Len(chain[m]) /\ 1 \in 1..Len(chain[m])
          /\ d[1].era = chain[m][1].era /\ d[1].op = chain[m][1].op
      BY <2>1, DisownedType
    <3>2. d # <<>> /\ Head(d) = d[1] /\ Head(chain[m]) = chain[m][1]
      <4> HIDE DEF d
      <4> QED BY <2>1, <3>1
    <3> QED BY <2>1, <2>3, <3>1, <3>2 DEF First
  <2> QED BY <1>2, <2>2, <2>3
<1> QED BY <1>5, <1>6

LEMMA RejectTyped ==
    ASSUME TypeInv, NEW n \in Nonces, Reject(n)
    PROVE  TypeInv'
<1> USE DEF TypeInv
<1>1. chain[n] # <<>> /\ GroupOf[n] \in Groups
  BY LinksAssumption DEF Reject, MayStart, QueuesOK
<1>2. Settle(n, Left(n)) /\ UNCHANGED <<links, clears, cleared, badge, clock, ledger>>
  BY DEF Reject, Left, history
<1>3. RecordsOK'
  BY <1>2 DEF Settle, RecordsOK, LinkOrNone
<1>4. QueuesOK'
  BY <1>1, <1>2, LeftType, Settled
<1>5. CycleOK'
  <2>1. CASE SkipSweep
    BY <2>1, SkipSweepType
  <2>2. CASE sweep' = [sweep EXCEPT !.pc = "next"] /\ UNCHANGED <<migration, bells>>
    BY <2>2, SweepPc DEF CycleOK
  <2>3. CASE bells' = [bells EXCEPT ![Modal].pc = "idle"] /\ UNCHANGED <<migration, sweep>>
    <3>1. \A c \in CycleType : [c EXCEPT !.pc = "idle"] \in CycleType
      BY DEF CycleType
    <3> QED BY <2>3, <3>1 DEF CycleOK, Derivers
  <2>4. CASE UNCHANGED <<migration, sweep, bells>>
    BY <2>4 DEF CycleOK
  <2> QED BY <2>1, <2>2, <2>3, <2>4 DEF Reject
<1>6. ClicksOK'
  <2>1. /\ reader' = reader \/ reader' = [reader EXCEPT ![GroupOf[n]] = [@ EXCEPT !.pc = "idle", !.shown = {}]]
        /\ leaver' = leaver \/ leaver' = [leaver EXCEPT ![GroupOf[n]] = "idle"]
    BY <1>1 DEF Reject, ClicksOK
  <2>2. \A r \in ReaderType : [r EXCEPT !.pc = "idle", !.shown = {}] \in ReaderType
    BY DEF ReaderType
  <2>3. reader' \in [Groups -> ReaderType]
    <3> DEFINE g == GroupOf[n]
               r == [reader[g] EXCEPT !.pc = "idle", !.shown = {}]
    <3>1. g \in Groups /\ r \in ReaderType /\ (reader' = reader \/ reader' = [reader EXCEPT ![g] = r])
      BY <1>1, <2>1, <2>2 DEF ClicksOK
    <3> HIDE DEF g, r
    <3> QED BY <3>1 DEF ClicksOK
  <2>4. leaver' \in [Groups -> {"idle", "load", "write"}]
    BY <1>1, <2>1 DEF ClicksOK
  <2> QED BY <1>2, <2>3, <2>4 DEF ClicksOK
<1> QED BY <1>3, <1>4, <1>5, <1>6
LEMMA SaveTyped ==
    ASSUME TypeInv, NEW n \in Nonces, NEW l \in LinkOrNone, Save(n, l)
    PROVE  TypeInv'
BY DEF Save, TypeInv, RecordsOK, QueuesOK, CycleOK, ClicksOK, First

LEMMA NewLinkType == \A now \in Nat : NewLink(now) \in LinkOrNone
BY LinksAssumption DEF NewLink, LinkOrNone, Link

LEMMA AdminTyped == ASSUME TypeInv, Admin PROVE TypeInv'
<1> USE DEF TypeInv
<1>1. ASSUME NEW n \in Nonces, Approve(n) PROVE TypeInv'
  <2>1. Call("increment", "nobody") \in Calls
    BY CallType DEF Ops, Owners
  <2>2. QueuesOK'
    BY <1>1, <2>1, Queued DEF Approve, QueuesOK
  <2> QED BY <1>1, <2>2 DEF Approve, RecordsOK, CycleOK, ClicksOK, history
<1>2. ASSUME NEW n \in Nonces, DeleteLink(n) PROVE TypeInv'
  <2>1. Call("delete", "modal") \in Calls
    BY CallType DEF Ops, Owners
  <2>2. QueuesOK'
    BY <1>2, <2>1, Queued DEF DeleteLink, QueuesOK
  <2>3. \A c \in CycleType : [c EXCEPT !.pc = "delete"] \in CycleType
    BY DEF CycleType
  <2>4. CycleOK'
    BY <1>2, <2>3 DEF DeleteLink, CycleOK, Derivers
  <2> QED BY <1>2, <2>2, <2>4 DEF DeleteLink, RecordsOK, ClicksOK, history
<1>3. ASSUME NEW n \in Nonces, NEW l, Save(n, l), l = NewLink(clock) \/ l = Backup[n] PROVE TypeInv'
  <2>1. l \in LinkOrNone
    BY <1>3, NewLinkType, LinksAssumption DEF ClicksOK
  <2> QED BY <1>3, <2>1, SaveTyped
<1>4. ASSUME NEW g \in Groups, MarkRead(g) PROVE TypeInv'
  <2>1. \A r \in ReaderType : [r EXCEPT !.pc = "load"] \in ReaderType
    BY DEF ReaderType
  <2>2. ClicksOK'
    BY <1>4, <2>1 DEF MarkRead, ClicksOK
  <2> QED BY <1>4, <2>2 DEF MarkRead, RecordsOK, QueuesOK, CycleOK, store, history, First
<1>5. ASSUME NEW g \in Groups, LeaveGroup(g) PROVE TypeInv'
  <2>1. ClicksOK'
    BY <1>5 DEF LeaveGroup, ClicksOK
  <2> QED BY <1>5, <2>1 DEF LeaveGroup, RecordsOK, QueuesOK, CycleOK, store, history, First
<1>6. CASE StartClear
  BY <1>6 DEF StartClear, RecordsOK, QueuesOK, CycleOK, ClicksOK, history, First
<1> QED BY <1>1, <1>2, <1>3, <1>4, <1>5, <1>6 DEF Admin

LEMMA ReadersTyped == ASSUME TypeInv, Answers PROVE TypeInv'
<1> USE DEF TypeInv
<1>1. ASSUME NEW g \in Groups, ReaderLoads(g) PROVE TypeInv'
  <2> DEFINE shown == {n \in In(g) : Unopened(links[n], clock)}
  <2>1. /\ reader' = [reader EXCEPT ![g] = [@ EXCEPT !.pc = "write", !.shown = shown]]
        /\ Queue(shown, Call("acknowledge", "reader"))
        /\ shown \in SUBSET Nonces
    BY <1>1 DEF ReaderLoads, ClicksOK, In
  <2> HIDE DEF shown
  <2>2. Call("acknowledge", "reader") \in Calls
    BY CallType DEF Ops, Owners
  <2>3. QueuesOK'
    BY <1>1, <2>1, <2>2, Queued DEF ReaderLoads, QueuesOK
  <2>4. \A r \in ReaderType : [r EXCEPT !.pc = "write", !.shown = shown] \in ReaderType
    BY <2>1 DEF ReaderType
  <2>5. ClicksOK'
    <3>1. reader[g] \in ReaderType
      BY DEF ClicksOK
    <3>2. reader' \in [Groups -> ReaderType]
      BY <2>1, <2>4, <3>1, Updated DEF ClicksOK
    <3> QED BY <1>1, <3>2 DEF ReaderLoads, ClicksOK
  <2> QED BY <1>1, <2>3, <2>5 DEF ReaderLoads, RecordsOK, CycleOK
<1>2. ASSUME NEW g \in Groups, ReaderEnds(g) PROVE TypeInv'
  <2>1. \A r \in ReaderType : [r EXCEPT !.pc = "idle", !.shown = {}] \in ReaderType
    BY DEF ReaderType
  <2>2. reader' = [reader EXCEPT ![g] = [@ EXCEPT !.pc = "idle", !.shown = {}]]
    BY <1>2 DEF ReaderEnds, ClicksOK
  <2>3. ClicksOK'
    <3>1. reader[g] \in ReaderType
      BY DEF ClicksOK
    <3>2. reader' \in [Groups -> ReaderType]
      BY <2>1, <2>2, <3>1, Updated DEF ClicksOK
    <3> QED BY <1>2, <3>2 DEF ReaderEnds, ClicksOK
  <2> QED BY <1>2, <2>3 DEF ReaderEnds, RecordsOK, QueuesOK, CycleOK, store, First
<1>3. ASSUME NEW g \in Groups, LeaverLoads(g) PROVE TypeInv'
  <2>1. Call("delete", "leaver") \in Calls
    BY CallType DEF Ops, Owners
  <2>2. QueuesOK'
    BY <1>3, <2>1, Queued DEF LeaverLoads, QueuesOK
  <2> QED BY <1>3, <2>2 DEF LeaverLoads, RecordsOK, CycleOK, ClicksOK, history
<1>4. ASSUME NEW g \in Groups, LeaverEnds(g) PROVE TypeInv'
  BY <1>4 DEF LeaverEnds, RecordsOK, QueuesOK, CycleOK, ClicksOK, store, history, First
<1> QED BY <1>1, <1>2, <1>3, <1>4 DEF Answers

(* What the badge counts is a number. *)
LEMMA DerivedType == \A now : Derived(now) \in [Groups -> Nat]
<1> SUFFICES ASSUME NEW now, NEW g \in Groups
             PROVE  Cardinality({n \in In(g) : Unopened(links[n], now)}) \in Nat
  BY DEF Derived
<1>1. IsFiniteSet({n \in In(g) : Unopened(links[n], now)})
  BY LinksAssumption, FS_Subset DEF In
<1> QED BY <1>1, FS_CardinalityType

LEMMA CycleTyped == ASSUME TypeInv, Cycle PROVE TypeInv'
<1> USE DEF TypeInv
<1>1. CASE MigrationLoads
  <2>1. Timed("migrate", "migration", migration.now) \in Calls
    BY CallType DEF Ops, Owners, CycleOK, MigrationType
  <2>2. QueuesOK'
    BY <1>1, <2>1, Queued DEF MigrationLoads, QueuesOK
  <2>3. CycleOK'
    BY <1>1 DEF MigrationLoads, CycleOK, MigrationType
  <2> QED BY <1>1, <2>2, <2>3 DEF MigrationLoads, RecordsOK, ClicksOK, history
<1>2. CASE MigrationEnds
  BY <1>2, MigrateType DEF MigrationEnds, RecordsOK, QueuesOK, ClicksOK, store, history, First
<1>3. CASE SweepLoads
  <2>1. CycleOK'
    BY <1>3 DEF SweepLoads, CycleOK, SweepType
  <2> QED BY <1>3, <2>1 DEF SweepLoads, RecordsOK, QueuesOK, ClicksOK, store, history, First
<1>4. CASE SweepEnds
  <2>1. bells' \in [Derivers -> CycleType]
    BY <1>4, MoveType DEF SweepEnds, CycleOK
  <2>2. CycleOK'
    BY <1>4, <2>1 DEF SweepEnds, CycleOK, NoSweep, SweepType
  <2> QED BY <1>4, <2>2 DEF SweepEnds, RecordsOK, QueuesOK, ClicksOK, store, history, First
<1>5. ASSUME NEW n \in Nonces, SweepStamps(n) PROVE TypeInv'
  <2>1. Call("stamp", "sweep") \in Calls
    BY CallType DEF Ops, Owners
  <2>2. QueuesOK'
    BY <1>5, <2>1, Queued DEF SweepStamps, QueuesOK
  <2>3. sweep' \in SweepType
    BY <1>5 DEF SweepStamps, CycleOK, SweepType
  <2> QED BY <1>5, <2>2, <2>3 DEF SweepStamps, RecordsOK, CycleOK, ClicksOK, history
<1>6. ASSUME NEW n \in Nonces, SweepRings(n) PROVE TypeInv'
  <2>1. sweep' \in SweepType /\ UNCHANGED <<migration, bells>>
    BY <1>6, SweepPc DEF SweepRings, CycleOK
  <2>2. ClicksOK'
    BY <1>6, LinksAssumption DEF SweepRings, ClicksOK
  <2> QED BY <1>6, <2>1, <2>2 DEF SweepRings, RecordsOK, QueuesOK, CycleOK, store, First
<1>7. ASSUME NEW n \in Nonces, SweepAcknowledges(n) PROVE TypeInv'
  <2>1. Call("acknowledge", "sweep") \in Calls
    BY CallType DEF Ops, Owners
  <2>2. QueuesOK'
    BY <1>7, <2>1, Queued DEF SweepAcknowledges, QueuesOK
  <2>3. sweep' \in SweepType /\ UNCHANGED <<migration, bells>>
    BY <1>7, SweepPc DEF SweepAcknowledges, CycleOK
  <2> QED BY <1>7, <2>2, <2>3 DEF SweepAcknowledges, RecordsOK, CycleOK, ClicksOK
<1>8. ASSUME NEW b \in Derivers, Derive(b) PROVE TypeInv'
  <2>1. bells' = [bells EXCEPT ![b] = [@ EXCEPT !.pc = "emit", !.count = Derived(bells[b].now)]]
    BY <1>8 DEF Derive, CycleOK
  <2>2. \A c \in CycleType, f \in [Groups -> Nat] : [c EXCEPT !.pc = "emit", !.count = f] \in CycleType
    BY DEF CycleType
  <2>3. CycleOK'
    <3>1. bells[b] \in CycleType /\ Derived(bells[b].now) \in [Groups -> Nat]
      BY DerivedType DEF CycleOK
    <3> DEFINE c == [bells[b] EXCEPT !.pc = "emit", !.count = Derived(bells[b].now)]
    <3>2. c \in CycleType /\ bells' = [bells EXCEPT ![b] = c]
      BY <2>1, <2>2, <3>1
    <3> HIDE DEF c
    <3>3. bells' \in [Derivers -> CycleType]
      BY <3>2, Updated DEF CycleOK
    <3> QED BY <1>8, <3>3 DEF Derive, CycleOK
  <2> QED BY <1>8, <2>3 DEF Derive, RecordsOK, QueuesOK, ClicksOK, store, history, First
<1>9. ASSUME NEW b \in Derivers, Emit(b) PROVE TypeInv'
  <2>1. bells[b].count \in [Groups -> Nat] /\ NoCycle \in CycleType
    BY DEF CycleOK, CycleType, NoCycle, NoCount
  <2> QED BY <1>9, <2>1 DEF Emit, RecordsOK, QueuesOK, CycleOK, ClicksOK, store, history, First
<1> QED BY <1>1, <1>2, <1>3, <1>4, <1>5, <1>6, <1>7, <1>8, <1>9 DEF Cycle

LEMMA RejectedTyped == ASSUME TypeInv, LoadRejects PROVE TypeInv'
<1> USE DEF TypeInv
<1>1. RecordsOK' /\ QueuesOK' /\ UNCHANGED <<badge, clock>>
  BY DEF LoadRejects, RecordsOK, QueuesOK, store, history, First
<1>2. CASE SkipSweep /\ UNCHANGED <<reader, leaver>>
  BY <1>1, <1>2, SkipSweepType DEF ClicksOK
<1>3. CASE sweep' = NoSweep /\ bells' = Move("sweep", "derive") /\ UNCHANGED <<migration, reader, leaver>>
  <2>1. bells' \in [Derivers -> CycleType]
    BY <1>3, MoveType DEF CycleOK
  <2> QED BY <1>1, <1>3, <2>1 DEF CycleOK, ClicksOK, NoSweep, SweepType
<1>4. ASSUME NEW b \in Derivers, bells' = [bells EXCEPT ![b] = NoCycle],
             UNCHANGED <<migration, sweep, reader, leaver>>
      PROVE  TypeInv'
  <2>1. NoCycle \in CycleType
    BY DEF CycleType, NoCycle, NoCount
  <2> QED BY <1>1, <1>4, <2>1 DEF CycleOK, ClicksOK
<1>5. ASSUME NEW g \in Groups, reader' = [reader EXCEPT ![g].pc = "write"],
             UNCHANGED <<migration, sweep, bells, leaver>>
      PROVE  TypeInv'
  <2>1. \A r \in ReaderType : [r EXCEPT !.pc = "write"] \in ReaderType
    BY DEF ReaderType
  <2> QED BY <1>1, <1>5, <2>1 DEF CycleOK, ClicksOK
<1>6. ASSUME NEW g \in Groups, leaver' = [leaver EXCEPT ![g] = "idle"],
             UNCHANGED <<migration, sweep, bells, reader>>
      PROVE  TypeInv'
  BY <1>1, <1>6 DEF CycleOK, ClicksOK
<1> QED BY <1>2, <1>3, <1>4, <1>5, <1>6 DEF LoadRejects

LEMMA StepTyped == TypeInv /\ [Next]_vars => TypeInv'
<1> SUFFICES ASSUME TypeInv, [Next]_vars PROVE TypeInv'
  OBVIOUS
<1> USE DEF TypeInv
<1>1. ASSUME NEW b \in Bells, BellStarts(b) PROVE TypeInv'
  <2>1. \A c \in CycleType : [c EXCEPT !.pc = "migrate", !.now = clock] \in CycleType
    BY DEF CycleType, ClicksOK
  <2>2. bells' = [bells EXCEPT ![b] = [@ EXCEPT !.pc = "migrate", !.now = clock]]
    BY <1>1 DEF BellStarts, CycleOK, Derivers
  <2>3. migration' \in MigrationType
    BY <1>1 DEF BellStarts, CycleOK, ClicksOK, MigrationType
  <2>4. CycleOK'
    <3>1. b \in Derivers /\ bells[b] \in CycleType
      BY DEF CycleOK, Derivers
    <3>2. bells' \in [Derivers -> CycleType]
      BY <2>1, <2>2, <3>1, Updated DEF CycleOK
    <3> QED BY <1>1, <2>3, <3>2 DEF BellStarts, CycleOK
  <2> QED BY <1>1, <2>4 DEF BellStarts, RecordsOK, QueuesOK, ClicksOK, store, history, First
<1>2. CASE ClearStore
  <2>1. RecordsOK'
    BY <1>2 DEF ClearStore, RecordsOK, LinkOrNone
  <2>2. QueuesOK'
    <3>1. chain \in [Nonces -> Seq(Calls)] /\ \A n \in mid : n \in Nonces
      BY DEF QueuesOK
    <3>2. ASSUME NEW n \in mid PROVE First(n).era \in Nat
      <4>1. chain[n] \in Seq(Calls) /\ chain[n] # <<>>
        BY <3>1 DEF QueuesOK
      <4>2. First(n) \in Calls
        BY <4>1 DEF First
      <4> QED BY <4>2 DEF Calls
    <3> QED BY <1>2, <3>1, <3>2 DEF ClearStore, QueuesOK, First
  <2> QED BY <1>2, <2>1, <2>2 DEF ClearStore, CycleOK, ClicksOK
<1>3. CASE Tick
  BY <1>3 DEF Tick, RecordsOK, QueuesOK, CycleOK, ClicksOK, store, history, First
<1>4. CASE Reload
  <2>1. NoCount \in [Groups -> Nat] /\ NoCycle \in CycleType
    BY DEF NoCount, NoCycle, CycleType
  <2>2. RecordsOK' /\ QueuesOK'
    BY <1>4 DEF Reload, RecordsOK, QueuesOK, LinkOrNone, history
  <2>3. CycleOK'
    BY <1>4, <2>1 DEF Reload, CycleOK, NoMigration, NoSweep, MigrationType, SweepType
  <2>4. ClicksOK'
    BY <1>4, <2>1 DEF Reload, ClicksOK, ReaderType
  <2> QED BY <2>2, <2>3, <2>4
<1>5. CASE UNCHANGED vars
  BY <1>5 DEF vars, RecordsOK, QueuesOK, CycleOK, ClicksOK, store, history, First
<1> QED
  BY <1>1, <1>2, <1>3, <1>4, <1>5, StoresTyped, RejectTyped, CycleTyped, AdminTyped,
     ReadersTyped, RejectedTyped
     DEF Next

(* The records, the queues and the latches keep their types, and only the first *)
(* call of a queue that no clear holds back is between its get and its set       *)
(* (inviteLinkStorage.ts, withNonceLock and clearAllInviteLinks).                *)
THEOREM TypeCorrect == Spec => []TypeOK
BY InitTyped, StepTyped, TypeParts, PTL DEF Spec

-----------------------------------------------------------------------------
(* One call after another.  What the first call of a queue has read is what is  *)
(* stored, until it writes: nothing but a write without the lock comes between, *)
(* since a clear waits for it.                                                  *)

OneByOneInv ==
    /\ \A n \in mid \ raced : got[n] = links[n]
    /\ \A n \in mid : First(n).op # "delete"
    /\ raced \subseteq resaved

AtomicInv == TypeInv /\ OneByOneInv /\ StoreIsAtomic

LEMMA InitOneByOne == Init => OneByOneInv /\ StoreIsAtomic
BY DEF Init, Asleep, OneByOneInv, StoreIsAtomic

(* The first call of a queue ends: it acts on what is stored. *)
LEMMA EndOfCall ==
    ASSUME TypeInv, OneByOneInv, NEW n \in Nonces, Put(n) \/ Delete(n)
    PROVE  /\ chain[n] # <<>> /\ First(n) \in Calls
           /\ chain' = [chain EXCEPT ![n] = Tail(@)]
           /\ mid' = mid \ {n} /\ got' = [got EXCEPT ![n] = NoLink]
           /\ n \notin raced => links'[n] = After(First(n), links[n])
           /\ ledger'[n] = After(First(n), ledger[n])
           /\ \A m \in Nonces \ {n} : links'[m] = links[m] /\ ledger'[m] = ledger[m]
           /\ UNCHANGED <<clears, cleared, raced, resaved, old, rung, clock, migration>>
<1> USE DEF TypeInv
<1>1. chain[n] # <<>> /\ First(n) \in Calls
  BY TailSettled DEF Put, Delete, MayStart, QueuesOK
<1>2. CASE Put(n)
  <2>1. n \notin raced => got[n] = links[n] /\ (got[n] = NoLink => After(First(n), got[n]) = got[n])
    BY <1>2 DEF Put, OneByOneInv, After
  <2>2. n \notin raced => links'[n] = After(First(n), links[n])
    BY <1>2, <2>1 DEF Put, Writes, RecordsOK
  <2>3. \A m \in Nonces \ {n} : links'[m] = links[m]
    BY <1>2 DEF Put, RecordsOK
  <2> QED BY <1>1, <1>2, <2>2, <2>3 DEF Put, Settle, RecordsOK
<1>3. CASE Delete(n)
  <2>1. \A l : After(First(n), l) = NoLink
    BY <1>3 DEF Delete, After
  <2> QED BY <1>1, <1>3, <2>1 DEF Delete, Settle, RecordsOK
<1> QED BY <1>2, <1>3

(* The steps that leave the records and the running calls alone. *)
LEMMA QuietOneByOne ==
    ASSUME AtomicInv, UNCHANGED <<links, ledger, mid, got, raced, resaved>>,
           \A n \in mid : First(n)' = First(n)
    PROVE  OneByOneInv' /\ StoreIsAtomic'
BY DEF AtomicInv, OneByOneInv, StoreIsAtomic

LEMMA QueuedOneByOne ==
    ASSUME AtomicInv, NEW ns, NEW call, Queue(ns, call),
           UNCHANGED <<links, ledger, mid, got, raced, resaved>>
    PROVE  OneByOneInv' /\ StoreIsAtomic'
<1>1. ASSUME NEW n \in mid PROVE First(n)' = First(n)
  <2>1. chain[n] \in Seq(Calls) /\ chain[n] # <<>> /\ (chain'[n] = chain[n] \/ chain'[n] = Append(chain[n], call))
    BY DEF AtomicInv, TypeInv, QueuesOK, Queue
  <2>2. Head(Append(chain[n], call)) = Head(chain[n])
    BY <2>1
  <2> QED BY <2>1, <2>2 DEF First
<1> QED BY <1>1, QuietOneByOne

LEMMA StoresOneByOne ==
    ASSUME AtomicInv, NEW n \in Nonces, Stores(n)
    PROVE  OneByOneInv' /\ StoreIsAtomic'
<1> USE DEF AtomicInv
<1>1. CASE Get(n)
  BY <1>1 DEF Get, OneByOneInv, StoreIsAtomic, TypeInv, RecordsOK, First, history
<1>2. CASE Put(n) \/ Delete(n)
  <2>1. /\ chain' = [chain EXCEPT ![n] = Tail(@)] /\ mid' = mid \ {n} /\ got' = [got EXCEPT ![n] = NoLink]
        /\ n \notin raced => links'[n] = After(First(n), links[n])
        /\ ledger'[n] = After(First(n), ledger[n])
        /\ \A m \in Nonces \ {n} : links'[m] = links[m] /\ ledger'[m] = ledger[m]
        /\ UNCHANGED <<raced, resaved>>
    BY <1>2, EndOfCall
  <2>2. mid \subseteq Nonces /\ chain \in [Nonces -> Seq(Calls)] /\ got \in [Nonces -> LinkOrNone]
    BY DEF TypeInv, QueuesOK, RecordsOK
  <2>3. \A m \in mid' : First(m)' = First(m)
    BY <2>1, <2>2 DEF First
  <2>4. OneByOneInv'
    BY <2>1, <2>2, <2>3 DEF OneByOneInv
  <2>5. StoreIsAtomic'
    BY <2>1 DEF StoreIsAtomic
  <2> QED BY <2>4, <2>5
<1> QED BY <1>1, <1>2 DEF Stores

LEMMA StepOneByOne == AtomicInv /\ [Next]_vars => OneByOneInv' /\ StoreIsAtomic'
<1> SUFFICES ASSUME AtomicInv, [Next]_vars PROVE OneByOneInv' /\ StoreIsAtomic'
  OBVIOUS
<1> USE DEF AtomicInv
<1>1. ASSUME NEW n \in Nonces, Reject(n) PROVE OneByOneInv' /\ StoreIsAtomic'
  <2>1. Settle(n, Left(n)) /\ UNCHANGED <<links, history>> /\ chain[n] # <<>>
    BY <1>1 DEF Reject, Left, MayStart, TypeInv, QueuesOK
  <2>2. \A m \in Nonces \ {n} : chain[m] # <<>> => Head(Left(n)[m]).op = First(m).op
    BY <2>1, LeftType DEF TypeInv
  <2>3. \A m \in mid' : m \in mid \ {n} /\ m \in Nonces /\ chain[m] # <<>> /\ First(m)' = Head(Left(n)[m])
    BY <2>1 DEF Settle, TypeInv, QueuesOK, First
  <2>4. \A m \in mid' : got'[m] = got[m]
    BY <2>1, <2>3 DEF Settle, TypeInv, RecordsOK
  <2> QED BY <2>1, <2>2, <2>3, <2>4 DEF OneByOneInv, StoreIsAtomic, history
<1>2. ASSUME NEW n \in Nonces, NEW l, Save(n, l) PROVE OneByOneInv' /\ StoreIsAtomic'
  <2>1. \A m \in mid : m \in Nonces /\ chain[m] # <<>>
    BY DEF TypeInv, QueuesOK
  <2> QED BY <1>2, <2>1 DEF Save, OneByOneInv, StoreIsAtomic, TypeInv, RecordsOK, First
<1>3. CASE ClearStore
  <2>1. mid = {}
    <3> SUFFICES ASSUME NEW n \in mid PROVE FALSE
      OBVIOUS
    <3>1. chain[n] \in Seq(Calls) /\ chain[n] # <<>> /\ First(n).era <= cleared /\ n \in Nonces /\ cleared \in Nat
      BY DEF TypeInv, QueuesOK
    <3>2. First(n) = chain[n][1] /\ 1 \in DOMAIN chain[n] /\ First(n) \in Calls
      BY <3>1 DEF First
    <3>3. First(n).era \in Nat /\ First(n).era > cleared
      BY <1>3, <3>1, <3>2 DEF ClearStore, Drained, Calls
    <3> QED BY <3>1, <3>3
  <2> QED BY <1>3, <2>1 DEF ClearStore, OneByOneInv, StoreIsAtomic
<1>4. CASE Reload
  BY <1>4 DEF Reload, OneByOneInv, StoreIsAtomic, history
<1>5. CASE \/ MigrationEnds \/ SweepLoads \/ SweepEnds \/ StartClear \/ LoadRejects \/ Tick
           \/ (\E n \in Nonces : SweepRings(n))
           \/ (\E b \in Derivers : Derive(b) \/ Emit(b))
           \/ (\E b \in Bells : BellStarts(b))
           \/ (\E g \in Groups : MarkRead(g) \/ LeaveGroup(g) \/ ReaderEnds(g) \/ LeaverEnds(g))
           \/ UNCHANGED vars
  <2>1. UNCHANGED <<links, ledger, chain, mid, got, raced, resaved>>
    BY <1>5 DEF MigrationEnds, SweepLoads, SweepEnds, StartClear, LoadRejects, Tick, SweepRings, Derive,
               Emit, BellStarts, MarkRead, LeaveGroup, ReaderEnds, LeaverEnds, vars, store, history
  <2> QED BY <2>1, QuietOneByOne DEF First
<1>6. CASE \/ MigrationLoads
           \/ (\E n \in Nonces : SweepStamps(n) \/ SweepAcknowledges(n) \/ Approve(n) \/ DeleteLink(n))
           \/ (\E g \in Groups : ReaderLoads(g) \/ LeaverLoads(g))
  <2>1. /\ \E ns, call : Queue(ns, call)
        /\ UNCHANGED <<links, ledger, mid, got, raced, resaved>>
    BY <1>6 DEF MigrationLoads, SweepStamps, SweepAcknowledges, Approve, DeleteLink, ReaderLoads, LeaverLoads,
               history
  <2> QED BY <2>1, QueuedOneByOne
<1> QED
  BY <1>1, <1>2, <1>3, <1>4, <1>5, <1>6, StoresOneByOne DEF Next, Cycle, Admin, Answers

(* The store is what the finished calls would have left one after another, in    *)
(* whatever order gets, sets, clears, failures and page loads fall               *)
(* (inviteLinkStorage.ts, withNonceLock and clearAllInviteLinks): no approval is *)
(* dropped from a tally, no flag is taken back, no link comes back.              *)
THEOREM StoreStaysAtomic == Spec => []StoreIsAtomic
<1>1. Init => AtomicInv
  BY InitTyped, InitOneByOne DEF AtomicInv
<1>2. AtomicInv /\ [Next]_vars => AtomicInv'
  BY StepTyped, StepOneByOne DEF AtomicInv
<1>3. AtomicInv => StoreIsAtomic
  BY DEF AtomicInv
<1> QED BY <1>1, <1>2, <1>3, PTL DEF Spec

-----------------------------------------------------------------------------
(* The bell.  A link that was rung for, or should never be, is stamped as        *)
(* notified before the next sweep loads, and one sweep takes each link once.     *)

Told(l) == l = NoLink \/ l.notified
Tame == Nonces \ resaved

(* The sweep has one link in hand. *)
OneInv == \A a, b \in sweep.cur : a = b

(* The sweep's call is the one it awaits. *)
CallersInv ==
    /\ \A n \in Nonces : \A i \in DOMAIN chain[n] :
          /\ chain[n][i].op = "stamp" => chain[n][i].by = "sweep"
          /\ chain[n][i].by = "sweep" => sweep.cur = {n} /\ chain[n][i].op = sweep.pc
          /\ chain[n][i].op = "migrate" => chain[n][i].now >= FirstClock
    /\ \A n \in Nonces : \A i, j \in DOMAIN chain[n] :
          chain[n][i].by = "sweep" /\ chain[n][j].by = "sweep" => i = j

TimesInv ==
    /\ clock >= FirstClock
    /\ migration.pc # "idle" => migration.now >= FirstClock

(* The old links are migrated before a sweep loads. *)
MigratedBy(n) == \E i \in DOMAIN chain[n] : chain[n][i].op = "migrate" /\ chain[n][i].by = "migration"
OldInv ==
    /\ \A n \in old \intersect Tame : Told(links[n]) \/ Dismissed(links[n], FirstClock)
    /\ migration.pc = "write" => \A n \in old \intersect Tame : Told(links[n]) \/ MigratedBy(n)
    /\ sweep.pc = "load" => \A n \in old \intersect Tame : Told(links[n])

RingsInv ==
    /\ rung \in [Nonces -> Nat]
    /\ sweep.pc \in {"idle", "load"} => sweep.cur = {} /\ sweep.todo = {}
    /\ sweep.todo \intersect sweep.cur = {}
    /\ \A n \in Tame :
          /\ rung[n] \in {0, 1}
          /\ rung[n] = 1 => n \notin old /\ Told(links[n])
          /\ n \in sweep.todo => rung[n] = 0 /\ n \notin old
          /\ n \in sweep.cur /\ sweep.pc \in {"stamp", "bump"} => rung[n] = 0 /\ n \notin old
          /\ n \in sweep.cur /\ sweep.pc = "bump" => Told(links[n])

(* The inductive invariant of RingsOnce. *)
BellInv == AtomicInv /\ OneInv /\ CallersInv /\ TimesInv /\ OldInv /\ RingsInv

LEMMA InitBell == Init => BellInv
<1> SUFFICES ASSUME Init PROVE BellInv
  OBVIOUS
<1>1. AtomicInv
  BY InitTyped, InitOneByOne DEF AtomicInv
<1>2. CallersInv /\ TimesInv /\ OneInv
  BY LinksAssumption DEF Init, Asleep, CallersInv, TimesInv, NoMigration, OneInv, NoSweep
<1>3. OldInv /\ RingsInv
  BY DEF Init, Asleep, OldInv, RingsInv, NoMigration, NoSweep, Tame
<1> QED BY <1>1, <1>2, <1>3 DEF BellInv

(* What an operation makes of a record keeps it notified, or dismissed. *)
LEMMA AfterTold ==
    ASSUME NEW call \in Calls, NEW l \in LinkOrNone, call.op = "migrate" => call.now >= FirstClock
    PROVE  /\ Told(l) => Told(After(call, l))
           /\ call.op = "stamp" => Told(After(call, l))
           /\ Dismissed(l, FirstClock) /\ call.op = "migrate" => Told(After(call, l))
           /\ Dismissed(l, FirstClock) => Told(After(call, l)) \/ Dismissed(After(call, l), FirstClock)
<1>1. CASE l = NoLink
  BY <1>1 DEF After, Told
<1>2. CASE l # NoLink
  <2>1. l \in Link /\ call.op \in Ops /\ call.now \in Nat /\ FirstClock \in Nat
    BY <1>2, LinksAssumption DEF LinkOrNone, Calls
  <2>2. CASE call.op = "delete"
    BY <1>2, <2>2 DEF After, Told
  <2>3. CASE call.op = "migrate"
    <3>1. After(call, l) = Migrated(l, call.now)
      BY <1>2, <2>3 DEF After
    <3>2. Migrated(l, call.now).notified = (l.notified \/ Dismissed(l, call.now))
      BY <2>1 DEF Migrated, Link
    <3>3. Dismissed(l, FirstClock) => Dismissed(l, call.now)
      <4>1. EffectiveExpiry(l) \in Nat
        BY <2>1, RecordType
      <4> QED BY <2>1, <2>3, <4>1 DEF Dismissed, Expired
    <3> QED BY <1>2, <2>3, <3>1, <3>2, <3>3 DEF Told
  <2>4. CASE call.op = "stamp"
    <3>1. After(call, l) = [l EXCEPT !.notified = TRUE]
      BY <1>2, <2>4 DEF After
    <3> QED BY <2>1, <2>4, <3>1 DEF Told, Link
  <2>5. CASE call.op = "acknowledge" \/ call.op = "increment"
    <3> DEFINE a == After(call, l)
    <3>1. a = [l EXCEPT !.acknowledged = TRUE] \/ a = [l EXCEPT !.usage = @ + 1]
      BY <1>2, <2>5 DEF After
    <3>2. a.notified = l.notified /\ a.muted = l.muted /\ a.expires = l.expires /\ a.born = l.born
      BY <2>1, <3>1 DEF Link
    <3> HIDE DEF a
    <3> QED BY <1>2, <2>5, <3>2 DEF Told, Dismissed, Expired, EffectiveExpiry, a
  <2> QED BY <2>1, <2>2, <2>3, <2>4, <2>5 DEF Ops
<1> QED BY <1>1, <1>2

(* ---- The callers *)

LEMMA NoSweepCall ==
    ASSUME TypeInv, CallersInv, sweep.pc \notin Ops
    PROVE  \A n \in Nonces : \A i \in DOMAIN chain[n] : chain[n][i].by # "sweep" /\ chain[n][i].op # "stamp"
<1> SUFFICES ASSUME NEW n \in Nonces, NEW i \in DOMAIN chain[n]
             PROVE  chain[n][i].by # "sweep" /\ chain[n][i].op # "stamp"
  OBVIOUS
<1>1. chain[n] \in Seq(Calls)
  BY DEF TypeInv, QueuesOK
<1>2. chain[n][i] \in Calls
  BY <1>1
<1> QED BY <1>2 DEF CallersInv, Calls

LEMMA QuietCallers ==
    ASSUME TypeInv, CallersInv, UNCHANGED chain, sweep' = sweep \/ sweep.pc \notin Ops
    PROVE  CallersInv'
<1>1. CASE sweep' = sweep
  BY <1>1 DEF CallersInv
<1>2. CASE sweep.pc \notin Ops
  BY <1>2, NoSweepCall DEF CallersInv
<1> QED BY <1>1, <1>2

(* A call joins a queue. *)
LEMMA Appended ==
    ASSUME TypeInv, NEW ns, NEW call, Queue(ns, call), NEW n \in Nonces
    PROVE  \A i \in DOMAIN chain'[n] :
              \/ i \in DOMAIN chain[n] /\ chain'[n][i] = chain[n][i]
              \/ n \in ns /\ i = Len(chain[n]) + 1 /\ chain'[n][i] = call
<1>1. chain[n] \in Seq(Calls)
  BY DEF TypeInv, QueuesOK
<1>2. \/ chain'[n] = chain[n]
      \/ n \in ns /\ chain'[n] = Append(chain[n], call)
  BY DEF Queue
<1> QED BY <1>1, <1>2

LEMMA QueuedCallers ==
    ASSUME TypeInv, CallersInv, NEW ns, NEW call, Queue(ns, call), UNCHANGED sweep,
           call.by # "sweep", call.op # "stamp", call.op = "migrate" => call.now >= FirstClock
    PROVE  CallersInv'
<1>1. \A n \in Nonces : \A i \in DOMAIN chain'[n] :
         (i \in DOMAIN chain[n] /\ chain'[n][i] = chain[n][i]) \/ chain'[n][i] = call
  BY Appended
<1> QED BY <1>1 DEF CallersInv

LEMMA SweepsCall ==
    ASSUME TypeInv, CallersInv, NEW n \in Nonces, NEW op \in {"stamp", "acknowledge"},
           Queue({n}, Call(op, "sweep")), sweep.pc \notin Ops, sweep'.pc = op, sweep'.cur = {n}
    PROVE  CallersInv'
<1> DEFINE call == Call(op, "sweep")
<1>1. call.op = op /\ call.by = "sweep"
  BY DEF Call, Timed
<1> HIDE DEF call
<1>2. \A m \in Nonces : \A i \in DOMAIN chain'[m] :
         \/ i \in DOMAIN chain[m] /\ chain'[m][i] = chain[m][i]
         \/ m = n /\ i = Len(chain[m]) + 1 /\ chain'[m][i] = call
  BY Appended DEF call
<1>3. \A m \in Nonces : \A i \in DOMAIN chain[m] : chain[m][i].by # "sweep" /\ chain[m][i].op # "stamp"
  BY NoSweepCall
<1> QED BY <1>1, <1>2, <1>3 DEF CallersInv

(* The first call of n leaves its queue, and calls other than the sweep's may    *)
(* lose their owner.                                                            *)
Shrunk(n) ==
    \A m \in Nonces : \A i \in DOMAIN chain'[m] :
        LET k == IF m = n THEN i + 1 ELSE i
        IN  /\ k \in DOMAIN chain[m]
            /\ chain'[m][i].op = chain[m][k].op /\ chain'[m][i].now = chain[m][k].now
            /\ \/ chain'[m][i].by = chain[m][k].by
               \/ /\ chain'[m][i].by = "nobody" /\ chain[m][k].by = First(n).by
                  /\ First(n).by \in {"migration", "reader", "leaver"}

LEMMA TailShrunk ==
    ASSUME TypeInv, NEW n \in Nonces, chain[n] # <<>>, chain' = [chain EXCEPT ![n] = Tail(@)]
    PROVE  Shrunk(n)
<1> SUFFICES ASSUME NEW m \in Nonces, NEW i \in DOMAIN chain'[m]
             PROVE  LET k == IF m = n THEN i + 1 ELSE i
                    IN  k \in DOMAIN chain[m] /\ chain'[m][i] = chain[m][k]
  BY DEF Shrunk
<1>1. chain[m] \in Seq(Calls) /\ chain'[m] = IF m = n THEN Tail(chain[m]) ELSE chain[m]
  BY DEF TypeInv, QueuesOK
<1>2. CASE m = n
  <2>1. chain'[m] = Tail(chain[m]) /\ chain[m] # <<>>
    BY <1>1, <1>2
  <2>2. \A q \in Seq(Calls) : q # <<>> =>
           \A x \in DOMAIN Tail(q) : x + 1 \in DOMAIN q /\ Tail(q)[x] = q[x + 1]
    OBVIOUS
  <2>3. i + 1 \in DOMAIN chain[m] /\ Tail(chain[m])[i] = chain[m][i + 1]
    BY <1>1, <2>1, <2>2
  <2> QED BY <1>2, <2>1, <2>3
<1>3. CASE m # n
  BY <1>1, <1>3
<1> QED BY <1>2, <1>3

LEMMA LeftShrunk ==
    ASSUME TypeInv, NEW n \in Nonces, chain[n] # <<>>, chain' = Left(n)
    PROVE  Shrunk(n)
<1> DEFINE by == First(n).by
           rest == [chain EXCEPT ![n] = Tail(@)]
<1>1. rest \in [Nonces -> Seq(Calls)] /\ \A m \in Nonces \ {n} : rest[m] = chain[m]
  BY TailSettled DEF TypeInv
<1>2. \A m \in Nonces : \/ Left(n)[m] = rest[m]
                        \/ Left(n)[m] = Disowned(rest[m], by) /\ by \in {"migration", "reader", "leaver"}
  BY DEF Left
<1>3. rest[n] = Tail(chain[n]) /\ chain \in [Nonces -> Seq(Calls)]
  BY DEF TypeInv, QueuesOK
<1> HIDE DEF rest, by
<1> SUFFICES ASSUME NEW m \in Nonces, NEW i \in DOMAIN chain'[m]
             PROVE  LET k == IF m = n THEN i + 1 ELSE i
                    IN  /\ k \in DOMAIN chain[m]
                        /\ chain'[m][i].op = chain[m][k].op /\ chain'[m][i].now = chain[m][k].now
                        /\ \/ chain'[m][i].by = chain[m][k].by
                           \/ /\ chain'[m][i].by = "nobody" /\ chain[m][k].by = by
                              /\ by \in {"migration", "reader", "leaver"}
  BY DEF Shrunk, by
<1> DEFINE k == IF m = n THEN i + 1 ELSE i
<1>4. i \in 1..Len(rest[m]) /\ rest[m] \in Seq(Calls)
  BY <1>1, <1>2, DisownedType
<1>5. k \in DOMAIN chain[m] /\ rest[m][i] = chain[m][k]
  <2>1. CASE m = n
    <3>1. chain[n] \in Seq(Calls) /\ chain[n] # <<>>
      BY <1>3
    <3>2. rest[m] = Tail(chain[n]) /\ i \in DOMAIN rest[m]
      BY <1>3, <1>4, <2>1
    <3>3. \A q \in Seq(Calls) : q # <<>> =>
             \A x \in DOMAIN Tail(q) : x + 1 \in DOMAIN q /\ Tail(q)[x] = q[x + 1]
      OBVIOUS
    <3>4. i + 1 \in DOMAIN chain[n] /\ rest[m][i] = chain[n][i + 1]
      BY <3>1, <3>2, <3>3
    <3> QED BY <2>1, <3>4
  <2>2. CASE m # n
    BY <1>1, <1>4, <2>2
  <2> QED BY <2>1, <2>2
<1>6. /\ chain'[m][i].op = rest[m][i].op /\ chain'[m][i].now = rest[m][i].now
      /\ \/ chain'[m][i].by = rest[m][i].by
         \/ /\ chain'[m][i].by = "nobody" /\ rest[m][i].by = by
            /\ by \in {"migration", "reader", "leaver"}
  BY <1>2, <1>4, DisownedType
<1> HIDE DEF k
<1>7. /\ k \in DOMAIN chain[m]
      /\ chain'[m][i].op = chain[m][k].op /\ chain'[m][i].now = chain[m][k].now
      /\ \/ chain'[m][i].by = chain[m][k].by
         \/ /\ chain'[m][i].by = "nobody" /\ chain[m][k].by = by
            /\ by \in {"migration", "reader", "leaver"}
  BY <1>5, <1>6
<1> QED BY <1>7 DEF k

LEMMA ShrunkCallers ==
    ASSUME TypeInv, TypeInv', CallersInv, NEW n \in Nonces, chain[n] # <<>>, Shrunk(n),
           First(n).by # "sweep" => sweep' = sweep
    PROVE  CallersInv'
<1>0. chain[n] \in Seq(Calls) /\ 1 \in DOMAIN chain[n] /\ First(n) = chain[n][1]
  BY DEF TypeInv, QueuesOK, First
<1>d. \A m \in Nonces : \A i \in DOMAIN chain'[m] : i \in Nat /\ i >= 1
  <2> SUFFICES ASSUME NEW m \in Nonces, NEW i \in DOMAIN chain'[m] PROVE i \in Nat /\ i >= 1
    OBVIOUS
  <2>1. chain'[m] \in Seq(Calls)
    BY DEF TypeInv, QueuesOK
  <2> QED BY <2>1
<1> DEFINE at(m, i) == IF m = n THEN i + 1 ELSE i
<1>1. \A m \in Nonces : \A i \in DOMAIN chain'[m] :
         /\ at(m, i) \in DOMAIN chain[m]
         /\ chain'[m][i].op = chain[m][at(m, i)].op /\ chain'[m][i].now = chain[m][at(m, i)].now
         /\ chain'[m][i].by = "sweep" <=> chain[m][at(m, i)].by = "sweep"
  BY DEF Shrunk
<1>2. \A m \in Nonces : \A i, j \in DOMAIN chain'[m] : at(m, i) = at(m, j) => i = j
  <2> SUFFICES ASSUME NEW m \in Nonces, NEW i \in DOMAIN chain'[m], NEW j \in DOMAIN chain'[m],
                      at(m, i) = at(m, j)
               PROVE  i = j
    OBVIOUS
  <2>1. i \in Nat /\ j \in Nat
    BY <1>d
  <2> QED BY <2>1
<1>3. \A i \in DOMAIN chain'[n] : at(n, i) # 1
  BY <1>d
<1> HIDE DEF at
<1>4. CASE First(n).by # "sweep"
  BY <1>1, <1>2, <1>4 DEF CallersInv
<1>5. CASE First(n).by = "sweep"
  <2>1. ASSUME NEW m \in Nonces, NEW i \in DOMAIN chain'[m], chain'[m][i].by = "sweep" PROVE FALSE
    <3>1. at(m, i) \in DOMAIN chain[m] /\ chain[m][at(m, i)].by = "sweep"
      BY <1>1, <2>1
    <3>2. sweep.cur = {m} /\ sweep.cur = {n}
      BY <1>0, <1>5, <3>1 DEF CallersInv
    <3>3. m = n /\ at(n, i) # 1
      BY <1>3, <3>2
    <3> QED BY <1>0, <1>5, <3>1, <3>3 DEF CallersInv
  <2> QED BY <1>1, <2>1 DEF CallersInv
<1> QED BY <1>4, <1>5

LEMMA StepCallers ==
    TypeInv /\ TypeInv' /\ OneByOneInv /\ OneInv /\ CallersInv /\ TimesInv /\ [Next]_vars => CallersInv'
<1> SUFFICES ASSUME TypeInv, TypeInv', OneByOneInv, OneInv, CallersInv, TimesInv, [Next]_vars PROVE CallersInv'
  OBVIOUS
<1>0. sweep \in SweepType /\ sweep' \in SweepType
  BY DEF TypeInv, CycleOK
<1>1. ASSUME NEW n \in Nonces, Put(n) \/ Delete(n) PROVE CallersInv'
  <2>1. chain[n] # <<>> /\ Shrunk(n)
    BY <1>1, EndOfCall, TailShrunk
  <2>2. First(n).by # "sweep" => sweep' = sweep
    BY <1>1 DEF Put, Delete, Resume
  <2> QED BY <2>1, <2>2, ShrunkCallers
<1>2. ASSUME NEW n \in Nonces, Reject(n) PROVE CallersInv'
  <2>1. chain[n] # <<>> /\ chain' = Left(n)
    BY <1>2 DEF Reject, Settle, Left, MayStart, TypeInv, QueuesOK
  <2>2. First(n).by # "sweep" => sweep' = sweep
    BY <1>2 DEF Reject, SkipSweep
  <2> QED BY <2>1, <2>2, LeftShrunk, ShrunkCallers
<1>3. ASSUME NEW n \in Nonces, SweepStamps(n) PROVE CallersInv'
  <2>1. sweep.pc \notin Ops /\ sweep'.pc = "stamp" /\ sweep'.cur = {n}
    BY <1>0, <1>3 DEF SweepStamps, SweepType, Ops
  <2> QED BY <1>3, <2>1, SweepsCall DEF SweepStamps
<1>4. ASSUME NEW n \in Nonces, SweepAcknowledges(n) PROVE CallersInv'
  <2>1. sweep.pc \notin Ops /\ sweep'.pc = "acknowledge" /\ sweep'.cur = sweep.cur
    BY <1>0, <1>4 DEF SweepAcknowledges, SweepType, Ops
  <2>2. sweep.cur = {n}
    BY <1>4 DEF SweepAcknowledges, OneInv
  <2> QED BY <1>4, <2>1, <2>2, SweepsCall DEF SweepAcknowledges
<1>5. CASE MigrationLoads
  <2>1. Timed("migrate", "migration", migration.now).now >= FirstClock
    BY <1>5 DEF MigrationLoads, Timed, TimesInv
  <2>2. /\ Timed("migrate", "migration", migration.now).by = "migration"
        /\ Timed("migrate", "migration", migration.now).op = "migrate"
    BY DEF Timed
  <2> QED BY <1>5, <2>1, <2>2, QueuedCallers DEF MigrationLoads
<1>6. CASE \/ (\E n \in Nonces : Approve(n) \/ DeleteLink(n))
           \/ (\E g \in Groups : ReaderLoads(g) \/ LeaverLoads(g))
  <2>1. ASSUME NEW op \in {"increment", "delete", "acknowledge"},
               NEW by \in {"nobody", "modal", "reader", "leaver"},
               NEW ns, Queue(ns, Call(op, by)), UNCHANGED sweep
        PROVE  CallersInv'
    <3>1. Call(op, by).op = op /\ Call(op, by).by = by
      BY DEF Call, Timed
    <3> QED BY <2>1, <3>1, QueuedCallers
  <2> QED BY <1>6, <2>1 DEF Approve, DeleteLink, ReaderLoads, LeaverLoads
<1>7. CASE Reload
  BY <1>7 DEF Reload, CallersInv
<1>8. CASE \/ SweepLoads \/ SweepEnds \/ MigrationEnds \/ LoadRejects
           \/ (\E n \in Nonces : SweepRings(n))
  <2>1. UNCHANGED chain
    BY <1>8 DEF SweepLoads, SweepEnds, MigrationEnds, LoadRejects, SweepRings, store
  <2>2. sweep' = sweep \/ sweep.pc \notin Ops
    BY <1>8 DEF SweepLoads, SweepEnds, MigrationEnds, LoadRejects, SweepRings, Migrate, SkipSweep, Ops
  <2> QED BY <2>1, <2>2, QuietCallers
<1>9. CASE \/ (\E n \in Nonces : Get(n)) \/ (\E n \in Nonces, l \in LinkOrNone : Save(n, l))
           \/ StartClear \/ ClearStore \/ Tick
           \/ (\E b \in Derivers : Derive(b) \/ Emit(b))
           \/ (\E b \in Bells : BellStarts(b))
           \/ (\E g \in Groups : MarkRead(g) \/ LeaveGroup(g) \/ ReaderEnds(g) \/ LeaverEnds(g))
           \/ UNCHANGED vars
  <2>1. UNCHANGED <<chain, sweep>>
    BY <1>9 DEF Get, Save, StartClear, ClearStore, Tick, Derive, Emit, BellStarts, MarkRead, LeaveGroup,
               ReaderEnds, LeaverEnds, vars, store
  <2> QED BY <2>1, QuietCallers
<1>10. \A n \in Nonces : NewLink(clock) \in LinkOrNone /\ Backup[n] \in LinkOrNone
  BY NewLinkType, LinksAssumption DEF TypeInv, ClicksOK
<1> QED
  BY <1>1, <1>2, <1>3, <1>4, <1>5, <1>6, <1>7, <1>8, <1>9, <1>10
     DEF Next, Stores, Cycle, Admin, Answers

LEMMA StepTimes == TypeInv /\ TimesInv /\ [Next]_vars => TimesInv'
<1> SUFFICES ASSUME TypeInv, TimesInv, [Next]_vars PROVE TimesInv'
  OBVIOUS
<1>0. clock \in Nat /\ FirstClock \in Nat /\ migration \in MigrationType
  BY LinksAssumption DEF TypeInv, ClicksOK, CycleOK
<1>1. ASSUME NEW b \in Bells, BellStarts(b) PROVE TimesInv'
  BY <1>0, <1>1 DEF BellStarts, TimesInv
<1>2. CASE MigrationLoads
  BY <1>0, <1>2 DEF MigrationLoads, TimesInv, MigrationType
<1>3. CASE Tick
  BY <1>0, <1>3 DEF Tick, TimesInv
<1>4. CASE Reload \/ MigrationEnds \/ LoadRejects \/ \E n \in Nonces : Reject(n)
  <2>1. UNCHANGED clock /\ (migration' = migration \/ migration' = NoMigration)
    BY <1>4 DEF Reload, MigrationEnds, LoadRejects, Reject, Migrate, SkipSweep
  <2> QED BY <2>1 DEF TimesInv, NoMigration
<1>5. CASE UNCHANGED <<clock, migration>>
  BY <1>5 DEF TimesInv
<1>6. CASE \/ (\E n \in Nonces : Stores(n)) \/ Admin \/ Answers \/ ClearStore \/ UNCHANGED vars
           \/ SweepLoads \/ SweepEnds \/ (\E n \in Nonces : SweepStamps(n) \/ SweepRings(n) \/ SweepAcknowledges(n))
           \/ (\E b \in Derivers : Derive(b) \/ Emit(b))
  <2>1. UNCHANGED <<clock, migration>>
    BY <1>6 DEF Stores, Get, Put, Delete, Admin, Approve, DeleteLink, Save, MarkRead, LeaveGroup, StartClear,
               Answers, ReaderLoads, ReaderEnds, LeaverLoads, LeaverEnds, ClearStore, SweepLoads,
               SweepEnds, SweepStamps, SweepRings, SweepAcknowledges, Derive, Emit, vars
  <2> QED BY <2>1, <1>5
<1> QED BY <1>1, <1>2, <1>3, <1>4, <1>6 DEF Next, Cycle

(* What a step does to the sweep. *)
LEMMA SweepMoves ==
    ASSUME TypeInv, [Next]_vars
    PROVE  \/ sweep' = sweep
           \/ sweep.pc = "idle" /\ MigrationEnds /\ sweep' = [sweep EXCEPT !.pc = "load", !.now = migration.now]
           \/ SweepLoads
           \/ (\E n \in Nonces : SweepStamps(n) \/ SweepRings(n) \/ SweepAcknowledges(n))
           \/ sweep' = NoSweep
           \/ \E n \in Nonces : /\ Put(n) /\ First(n).by = "sweep"
                                /\ First(n).op = "stamp" /\ got[n] # NoLink
                                /\ sweep' = [sweep EXCEPT !.pc = "bump"]
           \/ sweep' = [sweep EXCEPT !.pc = "next"] /\ \E n \in Nonces : First(n).by = "sweep" /\ (Put(n) \/ Delete(n) \/ Reject(n))
<1>1. ASSUME NEW n \in Nonces, Stores(n)
      PROVE  \/ sweep' = sweep
             \/ /\ Put(n) /\ First(n).by = "sweep"
                /\ First(n).op = "stamp" /\ got[n] # NoLink
                /\ sweep' = [sweep EXCEPT !.pc = "bump"]
             \/ sweep' = [sweep EXCEPT !.pc = "next"] /\ First(n).by = "sweep" /\ (Put(n) \/ Delete(n))
  BY <1>1 DEF Stores, Get, Put, Delete, Resume
<1>2. ASSUME NEW n \in Nonces, Reject(n)
      PROVE  sweep' = sweep \/ (sweep' = [sweep EXCEPT !.pc = "next"] /\ First(n).by = "sweep")
  BY <1>2 DEF Reject, SkipSweep
<1>3. CASE MigrationEnds
  BY <1>3 DEF MigrationEnds, Migrate
<1>4. CASE LoadRejects \/ Reload \/ SweepEnds
  BY <1>4 DEF LoadRejects, Reload, SweepEnds, SkipSweep
<1>5. CASE \/ Admin \/ Answers \/ ClearStore \/ UNCHANGED vars \/ Tick \/ MigrationLoads
           \/ (\E b \in Derivers : Derive(b) \/ Emit(b))
           \/ (\E b \in Bells : BellStarts(b))
  <2>1. UNCHANGED sweep
    BY <1>5 DEF Admin, Approve, DeleteLink, Save, MarkRead, LeaveGroup, StartClear,
               Answers, ReaderLoads, ReaderEnds, LeaverLoads, LeaverEnds, ClearStore, Tick, MigrationLoads,
               Derive, Emit, BellStarts, vars
  <2> QED BY <2>1
<1> QED BY <1>1, <1>2, <1>3, <1>4, <1>5 DEF Next, Cycle

LEMMA StepOne == TypeInv /\ OneInv /\ [Next]_vars => OneInv'
<1> SUFFICES ASSUME TypeInv, OneInv, [Next]_vars PROVE OneInv'
  OBVIOUS
<1>1. sweep \in SweepType
  BY DEF TypeInv, CycleOK
<1>2. sweep'.cur = sweep.cur \/ \E n : sweep'.cur \subseteq {n}
  <2>1. ASSUME NEW n \in Nonces, SweepStamps(n) PROVE sweep'.cur = {n}
    BY <1>1, <2>1 DEF SweepStamps, SweepType
  <2>2. ASSUME SweepLoads \/ \E n \in Nonces : SweepRings(n) \/ SweepAcknowledges(n)
        PROVE  sweep'.cur = sweep.cur
    BY <1>1, <2>2 DEF SweepLoads, SweepRings, SweepAcknowledges, SweepType
  <2>3. NoSweep.cur \subseteq {0}
    BY DEF NoSweep
  <2>4. /\ [sweep EXCEPT !.pc = "bump"].cur = sweep.cur
        /\ [sweep EXCEPT !.pc = "next"].cur = sweep.cur
        /\ [sweep EXCEPT !.pc = "load", !.now = migration.now].cur = sweep.cur
    BY <1>1 DEF SweepType
  <2> QED BY <2>1, <2>2, <2>3, <2>4, SweepMoves
<1> QED BY <1>2 DEF OneInv

(* ---- The records *)

(* Every step keeps a record told, or dismissed, unless it saves the link anew. *)
Anew(n) == rung'[n] = 0 /\ n \notin old' /\ n \notin sweep.todo \union sweep.cur /\ sweep' = sweep

LEMMA RecordsKept ==
    ASSUME AtomicInv, CallersInv, rung \in [Nonces -> Nat], [Next]_vars
    PROVE  /\ old' \subseteq old /\ resaved \subseteq resaved'
           /\ \A n \in Nonces \ resaved' :
                 \/ Anew(n)
                 \/ /\ Told(links[n]) => Told(links'[n])
                    /\ Dismissed(links[n], FirstClock) => Told(links'[n]) \/ Dismissed(links'[n], FirstClock)
<1> USE DEF AtomicInv
<1>1. ASSUME NEW n \in Nonces, Put(n) \/ Delete(n)
      PROVE  /\ UNCHANGED <<old, resaved>>
             /\ \A m \in Nonces \ resaved :
                   /\ Told(links[m]) => Told(links'[m])
                   /\ Dismissed(links[m], FirstClock) => Told(links'[m]) \/ Dismissed(links'[m], FirstClock)
  <2>1. /\ chain[n] # <<>> /\ First(n) \in Calls /\ UNCHANGED <<old, resaved>>
        /\ n \notin raced => links'[n] = After(First(n), links[n])
        /\ \A m \in Nonces \ {n} : links'[m] = links[m]
    BY <1>1, EndOfCall
  <2>2. First(n).op = "migrate" => First(n).now >= FirstClock
    <3>1. chain[n] \in Seq(Calls)
      BY DEF TypeInv, QueuesOK
    <3>2. First(n) = chain[n][1] /\ 1 \in DOMAIN chain[n]
      BY <2>1, <3>1 DEF First
    <3> QED BY <3>2 DEF CallersInv
  <2>3. links[n] \in LinkOrNone
    BY DEF TypeInv, RecordsOK
  <2> QED BY <2>1, <2>2, <2>3, AfterTold DEF OneByOneInv
<1>2. ASSUME NEW n \in Nonces, NEW l, Save(n, l)
      PROVE  /\ old' \subseteq old /\ resaved \subseteq resaved'
             /\ \A m \in Nonces \ {n} : links'[m] = links[m]
             /\ n \notin resaved' => Anew(n)
  BY <1>2 DEF Save, Anew, TypeInv, RecordsOK
<1>3. CASE ClearStore
  BY <1>3 DEF ClearStore, Told
<1>4. CASE UNCHANGED <<links, old, resaved>>
  BY <1>4
<1>5. CASE \/ (\E n \in Nonces : Get(n) \/ Reject(n) \/ Approve(n) \/ DeleteLink(n))
           \/ (\E g \in Groups : MarkRead(g) \/ LeaveGroup(g)) \/ StartClear
           \/ Cycle \/ Answers \/ Tick \/ LoadRejects \/ Reload
           \/ (\E b \in Bells : BellStarts(b)) \/ UNCHANGED vars
  <2>1. CASE Cycle
    BY <2>1 DEF Cycle, MigrationLoads, MigrationEnds, SweepLoads, SweepEnds, SweepStamps, SweepRings,
               SweepAcknowledges, Derive, Emit, store, history
  <2>2. CASE \/ (\E n \in Nonces : Get(n) \/ Reject(n) \/ Approve(n) \/ DeleteLink(n))
             \/ (\E g \in Groups : MarkRead(g) \/ LeaveGroup(g)) \/ StartClear
             \/ Answers \/ Tick \/ LoadRejects \/ Reload
             \/ (\E b \in Bells : BellStarts(b)) \/ UNCHANGED vars
    <3>1. UNCHANGED <<links, old, resaved>>
      BY <2>2 DEF Get, Reject, Approve, DeleteLink, MarkRead, LeaveGroup, StartClear, Answers,
                 ReaderLoads, ReaderEnds, LeaverLoads, LeaverEnds, Tick, LoadRejects, Reload, BellStarts,
                 vars, store, history
    <3> QED BY <3>1
  <2> QED BY <1>5, <2>1, <2>2
<1> QED BY <1>1, <1>2, <1>3, <1>5 DEF Next, Stores, Admin

(* ---- The old links *)

(* What stays in the queues when the first call of n ends or rejects. *)
LEMMA TailSurvives ==
    ASSUME TypeInv, NEW n \in Nonces, chain[n] # <<>>, chain' = [chain EXCEPT ![n] = Tail(@)]
    PROVE  \A m \in Nonces : \A k \in DOMAIN chain[m] :
              (m = n /\ k = 1) \/ \E i \in DOMAIN chain'[m] : chain'[m][i] = chain[m][k]
<1>1. /\ chain \in [Nonces -> Seq(Calls)] /\ chain'[n] = Tail(chain[n])
      /\ \A m \in Nonces \ {n} : chain'[m] = chain[m]
  BY DEF TypeInv, QueuesOK
<1>2. \A q \in Seq(Calls) : q # <<>> =>
         \A k \in DOMAIN q : k = 1 \/ (k - 1 \in DOMAIN Tail(q) /\ Tail(q)[k - 1] = q[k])
  OBVIOUS
<1>3. \A k \in DOMAIN chain[n] : k = 1 \/ (k - 1 \in DOMAIN chain'[n] /\ chain'[n][k - 1] = chain[n][k])
  BY <1>1, <1>2
<1> SUFFICES ASSUME NEW m \in Nonces, NEW k \in DOMAIN chain[m], ~(m = n /\ k = 1)
             PROVE  \E i \in DOMAIN chain'[m] : chain'[m][i] = chain[m][k]
  OBVIOUS
<1>4. CASE m = n
  BY <1>3, <1>4
<1>5. CASE m # n
  <2>1. chain'[m] = chain[m]
    BY <1>1, <1>5
  <2> QED BY <2>1
<1> QED BY <1>4, <1>5

LEMMA LeftSurvives ==
    ASSUME TypeInv, NEW n \in Nonces, chain[n] # <<>>, chain' = Left(n)
    PROVE  \A m \in Nonces : \A k \in DOMAIN chain[m] :
              \/ m = n /\ k = 1
              \/ chain[m][k].by = First(n).by
              \/ \E i \in DOMAIN chain'[m] : chain'[m][i] = chain[m][k]
<1> DEFINE by == First(n).by
           rest == [chain EXCEPT ![n] = Tail(@)]
<1>1. /\ rest \in [Nonces -> Seq(Calls)] /\ chain \in [Nonces -> Seq(Calls)]
      /\ rest[n] = Tail(chain[n]) /\ \A m \in Nonces \ {n} : rest[m] = chain[m]
  BY TailSettled DEF TypeInv, QueuesOK
<1>2. \A m \in Nonces : Left(n)[m] = rest[m] \/ Left(n)[m] = Disowned(rest[m], by)
  BY DEF Left
<1>3. \A m \in Nonces : \A k \in DOMAIN chain[m] :
         (m = n /\ k = 1) \/ \E i \in DOMAIN rest[m] : rest[m][i] = chain[m][k]
  <2>1. \A q \in Seq(Calls) : q # <<>> =>
           \A k \in DOMAIN q : k = 1 \/ (k - 1 \in DOMAIN Tail(q) /\ Tail(q)[k - 1] = q[k])
    OBVIOUS
  <2>2. \A k \in DOMAIN chain[n] : k = 1 \/ (k - 1 \in DOMAIN rest[n] /\ rest[n][k - 1] = chain[n][k])
    BY <1>1, <2>1
  <2> HIDE DEF rest
  <2> QED BY <1>1, <2>2
<1>4. ASSUME NEW m \in Nonces, NEW i \in DOMAIN rest[m], rest[m][i].by # by
      PROVE  i \in DOMAIN Left(n)[m] /\ Left(n)[m][i] = rest[m][i]
  <2>1. rest[m] \in Seq(Calls) /\ i \in 1..Len(rest[m])
    BY <1>1, <1>4
  <2> HIDE DEF rest, by
  <2>2. CASE Left(n)[m] = Disowned(rest[m], by)
    <3>1. /\ Disowned(rest[m], by) \in Seq(Calls) /\ Len(Disowned(rest[m], by)) = Len(rest[m])
          /\ Disowned(rest[m], by)[i] = rest[m][i]
      BY <1>4, <2>1, DisownedType
    <3> QED BY <2>1, <2>2, <3>1
  <2> QED BY <1>2, <1>4, <2>2
<1> HIDE DEF rest, by
<1> SUFFICES ASSUME NEW m \in Nonces, NEW k \in DOMAIN chain[m], ~(m = n /\ k = 1), chain[m][k].by # by
             PROVE  \E i \in DOMAIN chain'[m] : chain'[m][i] = chain[m][k]
  BY DEF by
<1>5. PICK i \in DOMAIN rest[m] : rest[m][i] = chain[m][k]
  BY <1>3
<1> QED BY <1>4, <1>5

(* A migration writes only after it has loaded. *)
LEMMA MigrationMoves ==
    ASSUME TypeInv, [Next]_vars, migration'.pc = "write", migration.pc # "write"
    PROVE  MigrationLoads
<1>0. migration \in MigrationType /\ NoMigration.pc # "write"
  BY DEF TypeInv, CycleOK, NoMigration
<1>1. ASSUME NEW b \in Bells, BellStarts(b) PROVE FALSE
  BY <1>1 DEF BellStarts
<1>2. CASE Reload \/ MigrationEnds \/ LoadRejects \/ \E n \in Nonces : Reject(n)
  <2>1. migration' = migration \/ migration' = NoMigration
    BY <1>2 DEF Reload, MigrationEnds, LoadRejects, Reject, Migrate, SkipSweep
  <2> QED BY <1>0, <2>1
<1>3. CASE \/ (\E n \in Nonces : Stores(n)) \/ Admin \/ Answers \/ ClearStore \/ Tick \/ UNCHANGED vars
           \/ SweepLoads \/ SweepEnds \/ (\E n \in Nonces : SweepStamps(n) \/ SweepRings(n) \/ SweepAcknowledges(n))
           \/ (\E b \in Derivers : Derive(b) \/ Emit(b))
  <2>1. UNCHANGED migration
    BY <1>3 DEF Stores, Get, Put, Delete, Admin, Approve, DeleteLink, Save, MarkRead, LeaveGroup, StartClear,
               Answers, ReaderLoads, ReaderEnds, LeaverLoads, LeaverEnds, ClearStore, Tick, SweepLoads, SweepEnds,
               SweepStamps, SweepRings, SweepAcknowledges, Derive, Emit, vars
  <2> QED BY <2>1
<1> QED BY <1>1, <1>2, <1>3 DEF Next, Cycle

(* A link that waits for its migration is migrated, or waits on. *)
LEMMA OldWait ==
    ASSUME BellInv, [Next]_vars, migration.pc = "write", migration'.pc = "write",
           NEW n \in old' \ resaved', n \in Nonces
    PROVE  Told(links'[n]) \/ MigratedBy(n)'
<1> USE DEF BellInv, AtomicInv
<1>0. /\ n \in old \intersect Tame /\ n \notin raced
      /\ Told(links[n]) => Told(links'[n])
      /\ Told(links[n]) \/ (Dismissed(links[n], FirstClock) /\ MigratedBy(n))
  <2>1. n \in old \intersect Tame
    BY RecordsKept DEF Tame, RingsInv
  <2>2. Told(links[n]) => Told(links'[n])
    BY RecordsKept DEF RingsInv, Anew
  <2> QED BY <2>1, <2>2 DEF OldInv, Tame, OneByOneInv
<1> SUFFICES ASSUME Dismissed(links[n], FirstClock), MigratedBy(n) PROVE Told(links'[n]) \/ MigratedBy(n)'
  BY <1>0
<1>1. PICK k \in DOMAIN chain[n] : chain[n][k].op = "migrate" /\ chain[n][k].by = "migration"
  BY DEF MigratedBy
<1>2. CASE \E i \in DOMAIN chain'[n] : chain'[n][i] = chain[n][k]
  <2>1. PICK i \in DOMAIN chain'[n] : chain'[n][i] = chain[n][k]
    BY <1>2
  <2> QED BY <1>1, <2>1 DEF MigratedBy
<1>3. CASE UNCHANGED chain
  BY <1>1, <1>3 DEF MigratedBy
<1>4. ASSUME NEW ns, NEW call, Queue(ns, call) PROVE Told(links'[n]) \/ MigratedBy(n)'
  <2>1. chain[n] \in Seq(Calls) /\ (chain'[n] = chain[n] \/ chain'[n] = Append(chain[n], call))
    BY <1>4 DEF TypeInv, QueuesOK, Queue
  <2>2. k \in DOMAIN chain'[n] /\ chain'[n][k] = chain[n][k]
    BY <2>1
  <2> QED BY <1>2, <2>2
<1>5. ASSUME NEW m \in Nonces, Put(m) \/ Delete(m) PROVE Told(links'[n]) \/ MigratedBy(n)'
  <2>1. /\ chain[m] # <<>> /\ chain' = [chain EXCEPT ![m] = Tail(@)] /\ First(m) \in Calls
        /\ m \notin raced => links'[m] = After(First(m), links[m])
    BY <1>5, EndOfCall
  <2>2. CASE n = m /\ k = 1
    <3>1. First(n) = chain[n][1]
      BY DEF TypeInv, QueuesOK, First
    <3>2. First(n).op = "migrate" /\ First(n).now >= FirstClock /\ links[n] \in LinkOrNone
      BY <1>1, <2>2, <3>1 DEF CallersInv, TypeInv, RecordsOK
    <3> QED BY <1>0, <2>1, <2>2, <3>2, AfterTold
  <2>3. CASE ~(n = m /\ k = 1)
    BY <1>2, <2>1, <2>3, TailSurvives
  <2> QED BY <2>2, <2>3
<1>6. ASSUME NEW m \in Nonces, Reject(m) PROVE Told(links'[n]) \/ MigratedBy(n)'
  <2>1. chain[m] # <<>> /\ chain' = Left(m) /\ First(m) = chain[m][1]
    BY <1>6 DEF Reject, Settle, Left, MayStart, TypeInv, QueuesOK, First
  <2>2. First(m).by # "migration"
    BY <1>6 DEF Reject, SkipSweep, NoMigration
  <2>3. ~(n = m /\ k = 1) /\ chain[n][k].by # First(m).by
    BY <1>1, <2>1, <2>2
  <2> QED BY <1>2, <2>1, <2>3, LeftSurvives
<1>7. CASE Reload \/ MigrationEnds \/ MigrationLoads
  BY <1>7 DEF Reload, MigrationEnds, MigrationLoads, Migrate, NoMigration
<1>8. CASE \/ (\E m \in Nonces : SweepStamps(m) \/ SweepAcknowledges(m) \/ Approve(m) \/ DeleteLink(m))
           \/ (\E g \in Groups : ReaderLoads(g) \/ LeaverLoads(g))
  BY <1>4, <1>8 DEF SweepStamps, SweepAcknowledges, Approve, DeleteLink, ReaderLoads, LeaverLoads
<1>9. CASE \/ (\E m \in Nonces : Get(m)) \/ (\E m \in Nonces : Save(m, NewLink(clock)) \/ Save(m, Backup[m]))
           \/ SweepLoads \/ SweepEnds \/ LoadRejects \/ StartClear \/ ClearStore \/ Tick
           \/ (\E m \in Nonces : SweepRings(m))
           \/ (\E b \in Derivers : Derive(b) \/ Emit(b))
           \/ (\E b \in Bells : BellStarts(b))
           \/ (\E g \in Groups : MarkRead(g) \/ LeaveGroup(g) \/ ReaderEnds(g) \/ LeaverEnds(g))
           \/ UNCHANGED vars
  <2>1. UNCHANGED chain
    BY <1>9 DEF Get, Save, SweepLoads, SweepEnds, LoadRejects, StartClear, ClearStore, Tick, SweepRings, Derive,
               Emit, BellStarts, MarkRead, LeaveGroup, ReaderEnds, LeaverEnds, vars, store
  <2> QED BY <1>3, <2>1
<1> QED
  BY <1>5, <1>6, <1>7, <1>8, <1>9 DEF Next, Stores, Cycle, Admin, Answers

LEMMA StepOld == BellInv /\ [Next]_vars => OldInv'
<1> SUFFICES ASSUME BellInv, [Next]_vars PROVE OldInv'
  OBVIOUS
<1> USE DEF BellInv, AtomicInv
<1>0. /\ old' \subseteq old /\ resaved \subseteq resaved'
      /\ \A n \in (old' \ resaved') \intersect Nonces :
            /\ n \in old \intersect Tame
            /\ Told(links[n]) => Told(links'[n])
            /\ Dismissed(links[n], FirstClock) => Told(links'[n]) \/ Dismissed(links'[n], FirstClock)
  BY RecordsKept DEF RingsInv, Anew, Tame
<1>1. \A n \in old' \intersect Tame' : Told(links'[n]) \/ Dismissed(links'[n], FirstClock)
  BY <1>0 DEF OldInv, Tame
<1>2. ASSUME migration'.pc = "write", NEW n \in old' \intersect Tame'
      PROVE  Told(links'[n]) \/ MigratedBy(n)'
  <2>1. n \in Nonces /\ n \in old' \ resaved'
    BY DEF Tame
  <2>2. CASE migration.pc = "write"
    BY <1>2, <2>1, <2>2, OldWait
  <2>3. CASE migration.pc # "write"
    <3>1. MigrationLoads
      BY <1>2, <2>3, MigrationMoves
    <3> DEFINE call == Timed("migrate", "migration", migration.now)
    <3>2. /\ Queue({x \in Nonces : links[x] # NoLink}, call) /\ UNCHANGED links
          /\ call.op = "migrate" /\ call.by = "migration"
      BY <3>1 DEF MigrationLoads, Timed
    <3> HIDE DEF call
    <3>3. CASE links[n] = NoLink
      BY <3>2, <3>3 DEF Told
    <3>4. CASE links[n] # NoLink
      <4>1. chain[n] \in Seq(Calls) /\ chain'[n] = Append(chain[n], call)
        BY <2>1, <3>2, <3>4 DEF Queue, TypeInv, QueuesOK
      <4>2. Len(chain[n]) + 1 \in DOMAIN chain'[n] /\ chain'[n][Len(chain[n]) + 1] = call
        BY <4>1
      <4> QED BY <3>2, <4>2 DEF MigratedBy
    <3> QED BY <3>3, <3>4
  <2> QED BY <2>2, <2>3
<1>3. ASSUME sweep'.pc = "load", NEW n \in old' \intersect Tame' PROVE Told(links'[n])
  <2>1. sweep \in SweepType
    BY DEF TypeInv, CycleOK
  <2>2. sweep.pc = "load" \/ MigrationEnds
    <3>1. NoSweep.pc # "load" /\ [sweep EXCEPT !.pc = "bump"].pc # "load" /\ [sweep EXCEPT !.pc = "next"].pc # "load"
      BY <2>1 DEF NoSweep, SweepType
    <3>2. ASSUME NEW m \in Nonces, SweepStamps(m) \/ SweepRings(m) \/ SweepAcknowledges(m)
          PROVE  sweep'.pc # "load"
      BY <2>1, <3>2 DEF SweepStamps, SweepRings, SweepAcknowledges, SweepType
    <3>3. SweepLoads => sweep'.pc # "load"
      BY <2>1 DEF SweepLoads, SweepType
    <3> QED BY <1>3, <3>1, <3>2, <3>3, SweepMoves
  <2>3. CASE sweep.pc = "load"
    BY <1>0, <2>3 DEF OldInv, Tame
  <2>4. CASE MigrationEnds
    <3>1. ~MigratedBy(n)
      BY <2>4 DEF MigrationEnds, Awaited, MigratedBy, Tame
    <3>2. Told(links[n])
      BY <1>0, <2>4, <3>1 DEF OldInv, Tame, MigrationEnds
    <3> QED BY <1>0, <3>2 DEF Tame
  <2> QED BY <2>2, <2>3, <2>4
<1> QED BY <1>1, <1>2, <1>3 DEF OldInv
(* ---- The bell *)

LEMMA RungMoves ==
    ASSUME TypeInv, rung \in [Nonces -> Nat], [Next]_vars
    PROVE  /\ rung' \in [Nonces -> Nat]
           /\ \A n \in Nonces : \/ rung'[n] = rung[n] \/ rung'[n] = 0
                                \/ SweepRings(n) /\ rung'[n] = rung[n] + 1
<1>1. ASSUME NEW n \in Nonces, SweepRings(n) PROVE rung' = [rung EXCEPT ![n] = @ + 1]
  BY <1>1 DEF SweepRings
<1>2. ASSUME NEW n \in Nonces, NEW l, Save(n, l) PROVE rung' = [rung EXCEPT ![n] = 0]
  BY <1>2 DEF Save
<1>3. CASE \/ (\E n \in Nonces : Stores(n) \/ Reject(n) \/ Approve(n) \/ DeleteLink(n)
                                 \/ SweepStamps(n) \/ SweepAcknowledges(n))
           \/ (\E g \in Groups : MarkRead(g) \/ LeaveGroup(g)) \/ StartClear
           \/ MigrationLoads \/ MigrationEnds \/ SweepLoads \/ SweepEnds
           \/ (\E b \in Derivers : Derive(b) \/ Emit(b))
           \/ Answers \/ ClearStore \/ LoadRejects \/ Tick \/ Reload
           \/ (\E b \in Bells : BellStarts(b)) \/ UNCHANGED vars
  BY <1>3 DEF Stores, Get, Put, Delete, Reject, Approve, DeleteLink, SweepStamps, SweepAcknowledges, MarkRead,
              LeaveGroup, StartClear, MigrationLoads, MigrationEnds, SweepLoads, SweepEnds, Derive, Emit, Answers,
              ReaderLoads, ReaderEnds, LeaverLoads, LeaverEnds, ClearStore, LoadRejects, Tick, Reload, BellStarts,
              vars, history
<1> QED BY <1>1, <1>2, <1>3 DEF Next, Cycle, Admin

(* The sets of the sweep are empty between two sweeps, and what it has in hand   *)
(* it has taken from its list.                                                  *)
Hands == /\ sweep.pc \in {"idle", "load"} => sweep.cur = {} /\ sweep.todo = {}
         /\ sweep.todo \intersect sweep.cur = {}

LEMMA StepHands == TypeInv /\ Hands /\ [Next]_vars => Hands'
<1> SUFFICES ASSUME TypeInv, Hands, [Next]_vars PROVE Hands'
  OBVIOUS
<1>1. sweep \in SweepType
  BY DEF TypeInv, CycleOK
<1>2. CASE sweep' = sweep
  BY <1>2 DEF Hands
<1>3. CASE sweep' = NoSweep
  BY <1>3 DEF Hands, NoSweep
<1>4. ASSUME NEW n \in Nonces, SweepStamps(n) PROVE Hands'
  BY <1>1, <1>4 DEF SweepStamps, SweepType, Hands
<1>5. CASE SweepLoads
  BY <1>1, <1>5 DEF SweepLoads, SweepType, Hands
<1>6. CASE sweep.pc = "idle" /\ sweep' = [sweep EXCEPT !.pc = "load", !.now = migration.now]
  BY <1>1, <1>6 DEF SweepType, Hands
<1>7. CASE \/ sweep' = [sweep EXCEPT !.pc = "bump"] \/ sweep' = [sweep EXCEPT !.pc = "next"]
           \/ sweep' = [sweep EXCEPT !.pc = "acknowledge"]
  BY <1>1, <1>7 DEF SweepType, Hands
<1> QED BY <1>2, <1>3, <1>4, <1>5, <1>6, <1>7, SweepMoves DEF SweepRings, SweepAcknowledges

(* What is said of one link. *)
Rings(n) ==
    /\ rung[n] \in {0, 1}
    /\ rung[n] = 1 => n \notin old /\ Told(links[n])
    /\ n \in sweep.todo => rung[n] = 0 /\ n \notin old
    /\ n \in sweep.cur /\ sweep.pc \in {"stamp", "bump"} => rung[n] = 0 /\ n \notin old
    /\ n \in sweep.cur /\ sweep.pc = "bump" => Told(links[n])

LEMMA StepRing ==
    ASSUME BellInv, [Next]_vars, NEW n \in Nonces \ resaved'
    PROVE  Rings(n)'
<1> USE DEF BellInv, AtomicInv
<1>1. /\ n \in Tame /\ n \notin raced /\ Rings(n) /\ (n \in old' => n \in old)
      /\ sweep \in SweepType /\ sweep' \in SweepType
  BY RecordsKept, StepTyped DEF RingsInv, Rings, Tame, OneByOneInv, TypeInv, CycleOK
<1>2. \/ Anew(n)
      \/ Told(links[n]) => Told(links'[n])
  BY RecordsKept DEF RingsInv
<1>3. rung'[n] = rung[n] \/ rung'[n] = 0 \/ (SweepRings(n) /\ rung'[n] = rung[n] + 1)
  BY RungMoves DEF RingsInv
<1>4. CASE Anew(n)
  BY <1>4 DEF Anew, Rings
<1>5. CASE SweepRings(n)
  <2>1. n \in sweep.cur /\ n \notin sweep.todo /\ sweep.pc = "bump" /\ Told(links'[n])
    BY <1>2, <1>5, <1>1 DEF SweepRings, Rings, RingsInv, store
  <2>2. sweep'.pc = "next" /\ sweep'.todo = sweep.todo
    BY <1>1, <1>5 DEF SweepRings, SweepType
  <2>3. rung[n] = 0 /\ n \notin old
    BY <1>1, <2>1 DEF Rings
  <2>4. rung'[n] \in {0, 1}
    BY <1>3, <2>3
  <2> QED BY <1>1, <2>1, <2>2, <2>3, <2>4 DEF Rings
<1> SUFFICES ASSUME ~Anew(n), ~SweepRings(n) PROVE Rings(n)'
  BY <1>4, <1>5
<1>6. rung'[n] \in {0, 1} /\ (rung'[n] = 1 => rung[n] = 1 /\ n \notin old' /\ Told(links'[n]))
  BY <1>1, <1>2, <1>3 DEF Rings
<1>7. rung[n] = 0 => rung'[n] = 0
  BY <1>3
<1>8. ASSUME n \in sweep'.todo => rung[n] = 0 /\ n \notin old,
             n \in sweep'.cur /\ sweep'.pc \in {"stamp", "bump"} => rung[n] = 0 /\ n \notin old,
             n \in sweep'.cur /\ sweep'.pc = "bump" => Told(links'[n])
      PROVE  Rings(n)'
  BY <1>1, <1>6, <1>7, <1>8 DEF Rings
<1>9. CASE sweep' = sweep
  BY <1>1, <1>2, <1>8, <1>9 DEF Rings
<1>10. CASE sweep' = NoSweep
  BY <1>8, <1>10 DEF NoSweep
<1>11. CASE sweep'.cur = sweep.cur /\ sweep'.todo = sweep.todo /\ sweep'.pc \notin {"stamp", "bump"}
  BY <1>1, <1>8, <1>11 DEF Rings
<1>12. CASE SweepLoads
  <2>1. /\ sweep.pc = "load" /\ sweep'.pc = "next"
        /\ sweep'.todo = {m \in Nonces : /\ links[m] # NoLink /\ ~links[m].notified
                                         /\ Expired(links[m], sweep.now)}
    BY <1>1, <1>12 DEF SweepLoads, SweepType
  <2>2. n \in sweep'.todo => ~Told(links[n])
    BY <2>1 DEF Told
  <2>3. n \in old => Told(links[n])
    BY <1>1, <2>1 DEF OldInv
  <2> QED BY <1>1, <1>8, <2>1, <2>2, <2>3 DEF Rings
<1>13. ASSUME NEW m \in Nonces, SweepStamps(m) PROVE Rings(n)'
  <2>1. sweep'.pc = "stamp" /\ sweep'.cur = {m} /\ sweep'.todo = sweep.todo \ {m} /\ m \in sweep.todo
    BY <1>1, <1>13 DEF SweepStamps, SweepType
  <2> QED BY <1>1, <1>8, <2>1 DEF Rings
<1>14. ASSUME NEW m \in Nonces, Put(m), First(m).by = "sweep", First(m).op = "stamp",
              sweep' = [sweep EXCEPT !.pc = "bump"]
       PROVE  Rings(n)'
  <2>1. chain[m] # <<>> /\ First(m) \in Calls /\ (m \notin raced => links'[m] = After(First(m), links[m]))
    BY <1>14, EndOfCall
  <2>2. 1 \in DOMAIN chain[m] /\ First(m) = chain[m][1]
    BY <2>1 DEF TypeInv, QueuesOK, First
  <2>3. sweep.cur = {m} /\ sweep.pc = "stamp"
    BY <1>14, <2>2 DEF CallersInv
  <2>4. m = n => Told(links'[n])
    <3>1. links[m] \in LinkOrNone
      BY DEF TypeInv, RecordsOK
    <3> QED BY <1>1, <1>14, <2>1, <3>1, AfterTold
  <2>5. sweep'.cur = {m} /\ sweep'.todo = sweep.todo /\ sweep'.pc = "bump"
    BY <1>1, <1>14, <2>3 DEF SweepType
  <2> QED BY <1>1, <1>8, <2>3, <2>4, <2>5 DEF Rings
<1>15. CASE \/ sweep' = [sweep EXCEPT !.pc = "load", !.now = migration.now]
            \/ sweep' = [sweep EXCEPT !.pc = "next"] \/ sweep' = [sweep EXCEPT !.pc = "acknowledge"]
  BY <1>1, <1>11, <1>15 DEF SweepType
<1> QED
  BY <1>9, <1>10, <1>12, <1>13, <1>14, <1>15, SweepMoves DEF SweepRings, SweepAcknowledges

LEMMA StepRings == BellInv /\ [Next]_vars => RingsInv'
<1> SUFFICES ASSUME BellInv, [Next]_vars PROVE RingsInv'
  OBVIOUS
<1>1. rung' \in [Nonces -> Nat]
  BY RungMoves DEF BellInv, AtomicInv, RingsInv
<1>2. Hands'
  BY StepHands DEF BellInv, AtomicInv, RingsInv, Hands
<1>3. \A n \in Tame' : Rings(n)'
  BY StepRing DEF Tame
<1> QED BY <1>1, <1>2, <1>3 DEF RingsInv, Hands, Rings

(* The sweep rings once for a link, whichever bells ask for it, and never for an *)
(* old one.                                                                     *)
THEOREM BellRingsOnce == Spec => []RingsOnce
<1>1. Init => BellInv
  BY InitBell
<1>2. BellInv /\ [Next]_vars => BellInv'
  <2> SUFFICES ASSUME BellInv, [Next]_vars PROVE BellInv'
    OBVIOUS
  <2>1. TypeInv' /\ OneByOneInv' /\ StoreIsAtomic'
    BY StepTyped, StepOneByOne DEF BellInv, AtomicInv
  <2>2. OneInv' /\ TimesInv' /\ CallersInv'
    BY <2>1, StepOne, StepTimes, StepCallers DEF BellInv, AtomicInv
  <2>3. OldInv' /\ RingsInv'
    BY StepOld, StepRings
  <2> QED BY <2>1, <2>2, <2>3 DEF BellInv, AtomicInv
<1>3. BellInv => RingsOnce
  BY DEF BellInv, RingsInv, RingsOnce, Tame
<1> QED BY <1>1, <1>2, <1>3, PTL DEF Spec
=============================================================================
