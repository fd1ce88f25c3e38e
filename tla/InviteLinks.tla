----------------------------- MODULE InviteLinks -----------------------------
(***************************************************************************)
(* Invitation links and the notification of their expiry:                    *)
(* src/app/src/lib/marmot/inviteLinkStorage.ts, inviteExpirySweep.ts and the *)
(* inviteExpiries slice of src/app/src/lib/unreadStore.ts.                    *)
(*                                                                           *)
(* A link is one IndexedDB record.  Approvals, deletions, the migration, the  *)
(* sweep and the admin's clicks each read it and write it back in two         *)
(* transactions, one call after another per nonce (withNonceLock).  Creating  *)
(* a link and restoring a backup write it without that lock.                  *)
(***************************************************************************)
EXTENDS Integers, Sequences, FiniteSets

CONSTANTS
    Nonces,       \* the links' keys
    Groups,
    GroupOf,      \* nonce -> the group the link invites to
    Bells,        \* the mounted NotificationBells, each with its interval
    NoLink,       \* no record
    Stored,       \* nonce -> the record of an earlier version, or NoLink
    Backup,       \* nonce -> the record a restore writes, or NoLink
    Day,          \* the lifetime of a link
    FirstClock, MaxClock, \* bound: the times of a behaviour
    MaxApprovals, \* bound: approved join requests
    MaxDeeds      \* bound: the admin's other deeds, IndexedDB calls that reject, page loads

Unset == -1       \* a record from before expiresAt existed
Link == [born : Nat, expires : Nat \union {Unset}, usage : Nat, notified : BOOLEAN,
         acknowledged : BOOLEAN, muted : BOOLEAN]
LinkOrNone == Link \union {NoLink}

ASSUME LinksAssumption ==
    /\ IsFiniteSet(Nonces)
    /\ GroupOf \in [Nonces -> Groups] /\ NoLink \notin Link
    /\ Stored \in [Nonces -> LinkOrNone] /\ Backup \in [Nonces -> LinkOrNone]
    /\ Day \in Nat \ {0} /\ FirstClock \in Nat /\ MaxClock \in Nat
ASSUME ModalAssumption == "modal" \notin Bells

Modal == "modal"              \* the manage-links modal re-derives the badge too
Derivers == Bells \union {Modal}

VARIABLES
    links,      \* the records in IndexedDB
    chain,      \* nonceLocks: nonce -> the calls queued on its promise chain
    mid, got,   \* the nonces whose first call is between its get and its set, what it got
    clears,     \* clearAllInviteLinks: calls that have started,
    cleared,    \* and calls that have cleared the store
    migration,  \* migrationInFlight
    sweep,      \* sweepInFlight and the locals of runSweep
    bells,      \* runInviteExpiryCycle of each bell, and the modal's derivation
    reader,     \* markInviteExpiriesRead of each group
    leaver,     \* clearInviteLinksForGroup of each group
    badge,      \* state.inviteExpiries
    clock,
    ledger,     \* history: the records had every finished call been atomic
    raced,      \* history: links overwritten while a call had read them
    resaved,    \* history: links written again without the lock
    old,        \* history: links that were muted or expired before there were notifications
    rung,       \* history: how often the sweep rang the bell for a link
    clicked,    \* history: links whose notification the admin opened,
    seen,       \* history: and whose acknowledgement was written
    approvals, deeds \* counters for the bounds

store   == <<links, chain, mid, got, clears, cleared>>
history == <<ledger, raced, resaved, old, rung, clicked, seen>>
vars == <<store, migration, sweep, bells, reader, leaver, badge, clock, history, approvals, deeds>>

-----------------------------------------------------------------------------
(* Records *)

EffectiveExpiry(l) == IF l.expires = Unset THEN l.born + Day ELSE l.expires
Expired(l, now)    == now >= EffectiveExpiry(l)
Least(a, b)        == IF a <= b THEN a ELSE b

NewLink(now) == [born |-> now, expires |-> now + Day, usage |-> 0, notified |-> FALSE,
                 acknowledged |-> FALSE, muted |-> FALSE]

(* migrateRecord: the expiry of an old record is filled in; one that is muted, *)
(* or had expired before there were notifications, counts as dismissed.        *)
Dismissed(l, now) == l.muted \/ (l.expires = Unset /\ Expired(l, now))
(* Mutant: the old record is marked as notified only. *)
Migrated_Undismissed(l, now) ==
    [l EXCEPT !.expires = IF l.muted THEN Least(EffectiveExpiry(l), now) ELSE EffectiveExpiry(l),
              !.notified = @ \/ Dismissed(l, now)]

Migrated(l, now) ==
    [l EXCEPT !.expires = IF l.muted THEN Least(EffectiveExpiry(l), now) ELSE EffectiveExpiry(l),
              !.notified = @ \/ Dismissed(l, now),
              !.acknowledged = @ \/ Dismissed(l, now)]

After(call, l) ==
    IF l = NoLink THEN NoLink
    ELSE CASE call.op = "delete"      -> NoLink
           [] call.op = "migrate"     -> Migrated(l, call.now)
           [] call.op = "stamp"       -> [l EXCEPT !.notified = TRUE]
           [] call.op = "acknowledge" -> [l EXCEPT !.acknowledged = TRUE]
           [] call.op = "increment"   -> [l EXCEPT !.usage = @ + 1]

(* What the badge shows of the stored flags: initInviteExpiries. *)
Unopened(l, now) == l # NoLink /\ l.notified /\ ~l.acknowledged /\ Expired(l, now)
In(g) == {n \in Nonces : GroupOf[n] = g}
Derived(now) == [g \in Groups |-> Cardinality({n \in In(g) : Unopened(links[n], now)})]

-----------------------------------------------------------------------------
(* withNonceLock.  A call waits for the calls registered for its nonce before  *)
(* it, and for the clears that had started by then: era counts them.           *)

Ops    == {"delete", "migrate", "stamp", "acknowledge", "increment"}
Owners == {"migration", "sweep", "reader", "leaver", "modal", "nobody"}
Calls  == [op : Ops, by : Owners, now : Nat, era : Nat]

Timed(op, by, now) == [op |-> op, by |-> by, now |-> now, era |-> clears]
Call(op, by)       == Timed(op, by, 0)
Queue(ns, call) == chain' = [n \in Nonces |-> IF n \in ns THEN Append(chain[n], call)
                                                          ELSE chain[n]]

Awaited(by, ns) == \E n \in ns : \E i \in DOMAIN chain[n] : chain[n][i].by = by

(* Promise.all rejected: nobody waits for the other calls any more. *)
Disowned(q, by) == [i \in DOMAIN q |-> IF q[i].by = by THEN [q[i] EXCEPT !.by = "nobody"]
                                                       ELSE q[i]]
First(n) == Head(chain[n])
MayStart(n) == chain[n] # <<>> /\ n \notin mid /\ First(n).era <= cleared

(* The promise of the first call settles and the next one gets its turn. *)
Settle(n, q) ==
    /\ chain' = q
    /\ mid' = mid \ {n}
    /\ got' = [got EXCEPT ![n] = NoLink]

(* What the caller does next, for the callers that await one call at a time. *)
Resume(call, stamped) ==
    /\ sweep' = IF call.by # "sweep" THEN sweep
                ELSE [sweep EXCEPT !.pc = IF stamped THEN "bump" ELSE "next"]
    /\ bells' = IF call.by # "modal" THEN bells
                ELSE [bells EXCEPT ![Modal].pc = "derive", ![Modal].now = clock]

Get(n) ==
    /\ MayStart(n) /\ First(n).op # "delete"
    /\ mid' = mid \union {n}
    /\ got' = [got EXCEPT ![n] = links[n]]
    /\ UNCHANGED <<links, chain, clears, cleared, migration, sweep, bells, reader, leaver,
                   badge, clock, history, approvals, deeds>>

(* A call that found no record writes none, and the migration writes a record  *)
(* only if it changes it.                                                      *)
Writes(n) == /\ got[n] # NoLink
             /\ First(n).op = "migrate" => After(First(n), got[n]) # got[n]
Put(n) ==
    /\ n \in mid
    /\ links' = IF Writes(n) THEN [links EXCEPT ![n] = After(First(n), got[n])] ELSE links
    /\ Settle(n, [chain EXCEPT ![n] = Tail(@)])
    /\ Resume(First(n), First(n).op = "stamp" /\ got[n] # NoLink)
    /\ ledger' = [ledger EXCEPT ![n] = After(First(n), @)]
    /\ seen' = IF First(n).op = "acknowledge" /\ First(n).by = "sweep" THEN seen \union {n}
               ELSE seen
    /\ UNCHANGED <<clears, cleared, migration, reader, leaver, badge, clock,
                   raced, resaved, old, rung, clicked, approvals, deeds>>

Delete(n) ==
    /\ MayStart(n) /\ First(n).op = "delete"
    /\ links' = [links EXCEPT ![n] = NoLink]
    /\ Settle(n, [chain EXCEPT ![n] = Tail(@)])
    /\ Resume(First(n), FALSE)
    /\ ledger' = [ledger EXCEPT ![n] = NoLink]
    /\ UNCHANGED <<clears, cleared, migration, reader, leaver, badge, clock,
                   raced, resaved, old, rung, clicked, seen, approvals, deeds>>

-----------------------------------------------------------------------------
(* clearAllInviteLinks: every call registered before it settles, then the      *)
(* store is cleared; calls registered since wait for that (clearInFlight).      *)

Deed == deeds < MaxDeeds /\ deeds' = deeds + 1 /\ approvals' = approvals

StartClear ==
    /\ Deed
    /\ clears' = clears + 1
    /\ UNCHANGED <<links, chain, mid, got, cleared, migration, sweep, bells, reader, leaver,
                   badge, clock, history>>

(* Mutant: the store is cleared at once. *)
Drained_Never == TRUE
Drained == \A n \in Nonces : \A i \in DOMAIN chain[n] : chain[n][i].era > cleared

ClearStore ==
    /\ cleared < clears /\ Drained
    /\ cleared' = cleared + 1
    /\ links' = [n \in Nonces |-> NoLink]
    /\ ledger' = [n \in Nonces |-> NoLink]
    /\ UNCHANGED <<chain, mid, got, clears, migration, sweep, bells, reader, leaver, badge,
                   clock, raced, resaved, old, rung, clicked, seen, approvals, deeds>>

-----------------------------------------------------------------------------
(* runInviteExpiryCycle: migrate, sweep, derive.  Migration and sweep are       *)
(* latched: a caller that finds one in flight waits for it.                     *)

BellStarts(b) ==
    /\ bells[b].pc = "idle"
    /\ bells' = [bells EXCEPT ![b].pc = "migrate", ![b].now = clock]
    /\ migration' = IF migration.pc = "idle" THEN [pc |-> "load", now |-> clock] ELSE migration
    /\ UNCHANGED <<store, sweep, reader, leaver, badge, clock, history, approvals, deeds>>

NoMigration == [pc |-> "idle", now |-> 0]
NoSweep     == [pc |-> "idle", now |-> 0, todo |-> {}, cur |-> {}]
NoCount     == [g \in Groups |-> 0]
NoCycle     == [pc |-> "idle", now |-> 0, count |-> NoCount]

Move(from, to) == [b \in Derivers |-> IF bells[b].pc = from THEN [bells[b] EXCEPT !.pc = to]
                                                            ELSE bells[b]]

(* The callers go on to the sweep, the first of them starts it unless one runs. *)
Migrate ==
    /\ migration' = NoMigration
    /\ bells' = Move("migrate", "sweep")
    /\ sweep' = IF sweep.pc # "idle" THEN sweep
                ELSE [sweep EXCEPT !.pc = "load", !.now = migration.now]

(* Mutant: a failed migration does not keep the sweep from running. *)
SkipSweep_Sweeps == Migrate

(* ... or, after a failed migration, straight to the derivation. *)
SkipSweep ==
    /\ migration' = NoMigration
    /\ bells' = Move("migrate", "derive")
    /\ sweep' = sweep

MigrationLoads ==
    /\ migration.pc = "load"
    /\ migration' = [migration EXCEPT !.pc = "write"]
    /\ Queue({n \in Nonces : links[n] # NoLink}, Timed("migrate", "migration", migration.now))
    /\ UNCHANGED <<links, mid, got, clears, cleared, sweep, bells, reader, leaver, badge,
                   clock, history, approvals, deeds>>

MigrationEnds ==
    /\ migration.pc = "write" /\ ~Awaited("migration", Nonces)
    /\ Migrate
    /\ UNCHANGED <<store, reader, leaver, badge, clock, history, approvals, deeds>>

SweepLoads ==
    /\ sweep.pc = "load"
    /\ sweep' = [sweep EXCEPT !.pc = "next",
                    !.todo = {n \in Nonces : /\ links[n] # NoLink /\ ~links[n].notified
                                             /\ Expired(links[n], sweep.now)}]
    /\ UNCHANGED <<store, migration, bells, reader, leaver, badge, clock, history, approvals, deeds>>

(* The record is stamped before the bell rings. *)
SweepStamps(n) ==
    /\ sweep.pc = "next" /\ n \in sweep.todo
    /\ sweep' = [sweep EXCEPT !.pc = "stamp", !.todo = @ \ {n}, !.cur = {n}]
    /\ Queue({n}, Call("stamp", "sweep"))
    /\ UNCHANGED <<links, mid, got, clears, cleared, migration, bells, reader, leaver, badge,
                   clock, history, approvals, deeds>>

(* It rings for a stamped link, or acknowledges it if the group's detail is on   *)
(* screen (isActiveView), which may or may not be so.                           *)
SweepRings(n) ==
    /\ sweep.pc = "bump" /\ n \in sweep.cur
    /\ sweep' = [sweep EXCEPT !.pc = "next"]
    /\ badge' = [badge EXCEPT ![GroupOf[n]] = @ + 1]
    /\ rung' = [rung EXCEPT ![n] = @ + 1]
    /\ UNCHANGED <<store, migration, bells, reader, leaver, clock, ledger, raced,
                   resaved, old, clicked, seen, approvals, deeds>>

SweepAcknowledges(n) ==
    /\ sweep.pc = "bump" /\ n \in sweep.cur
    /\ sweep' = [sweep EXCEPT !.pc = "acknowledge"]
    /\ Queue({n}, Call("acknowledge", "sweep"))
    /\ clicked' = clicked \union {n}
    /\ UNCHANGED <<links, mid, got, clears, cleared, migration, bells, reader, leaver, badge,
                   clock, ledger, raced, resaved, old, rung, seen, approvals, deeds>>

SweepEnds ==
    /\ sweep.pc = "next" /\ sweep.todo = {}
    /\ sweep' = NoSweep /\ bells' = Move("sweep", "derive")
    /\ UNCHANGED <<store, migration, reader, leaver, badge, clock, history, approvals, deeds>>

(* initInviteExpiries: one read of the store, then the badge is replaced. *)
Derive(b) ==
    /\ bells[b].pc = "derive"
    /\ bells' = [bells EXCEPT ![b].pc = "emit", ![b].count = Derived(bells[b].now)]
    /\ UNCHANGED <<store, migration, sweep, reader, leaver, badge, clock, history, approvals, deeds>>

Emit(b) ==
    /\ bells[b].pc = "emit"
    /\ badge' = bells[b].count
    /\ bells' = [bells EXCEPT ![b] = NoCycle]
    /\ UNCHANGED <<store, migration, sweep, reader, leaver, clock, history, approvals, deeds>>

-----------------------------------------------------------------------------
(* The admin *)

(* GenerateInviteLinkModal keeps a link whenever it is copied, a restore        *)
(* overwrites the links of the backup: no lock.                                 *)
Save(n, l) ==
    /\ Deed
    /\ links' = [links EXCEPT ![n] = l]
    /\ ledger' = [ledger EXCEPT ![n] = l]
    /\ raced' = IF n \in mid THEN raced \union {n} ELSE raced
    /\ resaved' = IF l # NewLink(clock) \/ links[n] # NoLink \/ chain[n] # <<>> \/ n \in sweep.todo \union sweep.cur
                     \/ \E g \in Groups : n \in reader[g].shown
                  THEN resaved \union {n} ELSE resaved
    /\ rung' = [rung EXCEPT ![n] = 0]
    /\ old' = old \ {n} /\ clicked' = clicked \ {n} /\ seen' = seen \ {n}
    /\ UNCHANGED <<chain, mid, got, clears, cleared, migration, sweep, bells, reader, leaver,
                   badge, clock>>

(* approveJoinRequestImpl, once the member was invited; not awaited. *)
Approve(n) ==
    /\ approvals < MaxApprovals /\ approvals' = approvals + 1
    /\ Queue({n}, Call("increment", "nobody"))
    /\ UNCHANGED <<links, mid, got, clears, cleared, migration, sweep, bells, reader, leaver,
                   badge, clock, history, deeds>>

DeleteLink(n) ==
    /\ Deed
    /\ bells[Modal].pc = "idle"
    /\ bells' = [bells EXCEPT ![Modal].pc = "delete"]
    /\ Queue({n}, Call("delete", "modal"))
    /\ UNCHANGED <<links, mid, got, clears, cleared, migration, sweep, reader, leaver, badge,
                   clock, history>>

(* markInviteExpiriesRead: load the group's links, acknowledge, zero the badge. *)
MarkRead(g) ==
    /\ Deed
    /\ reader[g].pc = "idle"
    /\ reader' = [reader EXCEPT ![g].pc = "load"]
    /\ UNCHANGED <<store, migration, sweep, bells, leaver, badge, clock, history>>

ReaderLoads(g) ==
    /\ reader[g].pc = "load"
    /\ LET shown == {n \in In(g) : Unopened(links[n], clock)}
       IN  /\ reader' = [reader EXCEPT ![g].pc = "write", ![g].shown = shown]
           /\ Queue(shown, Call("acknowledge", "reader"))
           /\ clicked' = clicked \union shown
    /\ UNCHANGED <<links, mid, got, clears, cleared, migration, sweep, bells, leaver, badge,
                   clock, ledger, raced, resaved, old, rung, seen, approvals, deeds>>

ReaderEnds(g) ==
    /\ reader[g].pc = "write" /\ ~Awaited("reader", In(g))
    /\ reader' = [reader EXCEPT ![g].pc = "idle", ![g].shown = {}]
    /\ badge' = [badge EXCEPT ![g] = 0]
    /\ seen' = seen \union reader[g].shown
    /\ UNCHANGED <<store, migration, sweep, bells, leaver, clock, ledger, raced,
                   resaved, old, rung, clicked, approvals, deeds>>

(* leaveGroupImpl: clearInviteLinksForGroup, then clearInviteExpiries. *)
LeaveGroup(g) ==
    /\ Deed
    /\ leaver[g] = "idle"
    /\ leaver' = [leaver EXCEPT ![g] = "load"]
    /\ UNCHANGED <<store, migration, sweep, bells, reader, badge, clock, history>>

LeaverLoads(g) ==
    /\ leaver[g] = "load"
    /\ leaver' = [leaver EXCEPT ![g] = "write"]
    /\ Queue({n \in In(g) : links[n] # NoLink}, Call("delete", "leaver"))
    /\ UNCHANGED <<links, mid, got, clears, cleared, migration, sweep, bells, reader, badge,
                   clock, history, approvals, deeds>>

LeaverEnds(g) ==
    /\ leaver[g] = "write" /\ ~Awaited("leaver", In(g))
    /\ leaver' = [leaver EXCEPT ![g] = "idle"]
    /\ badge' = [badge EXCEPT ![g] = 0]
    /\ UNCHANGED <<store, migration, sweep, bells, reader, clock, history, approvals, deeds>>

-----------------------------------------------------------------------------
(* What goes wrong, and time *)

(* The get or the set of the first call rejects; the next call runs anyway.     *)
Reject(n) ==
    /\ Deed
    /\ MayStart(n) \/ n \in mid
    /\ LET by == First(n).by
           rest == [chain EXCEPT ![n] = Tail(@)]
           shared == by \in {"migration", "reader", "leaver"}
       IN  /\ Settle(n, [m \in Nonces |->
                           IF shared /\ (by = "migration" \/ GroupOf[m] = GroupOf[n])
                           THEN Disowned(rest[m], by) ELSE rest[m]])
           /\ reader' = IF by # "reader" THEN reader
                        ELSE [reader EXCEPT ![GroupOf[n]].pc = "idle", ![GroupOf[n]].shown = {}]
           /\ leaver' = IF by # "leaver" THEN leaver ELSE [leaver EXCEPT ![GroupOf[n]] = "idle"]
           /\ \/ by = "migration" /\ SkipSweep
              \/ by = "sweep" /\ sweep' = [sweep EXCEPT !.pc = "next"]
                              /\ UNCHANGED <<migration, bells>>
              \/ by = "modal" /\ bells' = [bells EXCEPT ![Modal].pc = "idle"]
                              /\ UNCHANGED <<migration, sweep>>
              \/ by \notin {"migration", "sweep", "modal"} /\ UNCHANGED <<migration, sweep, bells>>
    /\ UNCHANGED <<links, clears, cleared, badge, clock, history>>

(* A read of the whole store rejects: the migration fails, the sweep ends, the   *)
(* derivation keeps the badge, the click zeroes it, the leave is abandoned.      *)
LoadRejects ==
    /\ Deed
    /\ \/ migration.pc = "load" /\ SkipSweep /\ UNCHANGED <<reader, leaver>>
       \/ /\ sweep.pc = "load" /\ sweep' = NoSweep /\ bells' = Move("sweep", "derive")
          /\ UNCHANGED <<migration, reader, leaver>>
       \/ \E b \in Derivers :
             /\ bells[b].pc = "derive" /\ bells' = [bells EXCEPT ![b] = NoCycle]
             /\ UNCHANGED <<migration, sweep, reader, leaver>>
       \/ \E g \in Groups :
             /\ reader[g].pc = "load" /\ reader' = [reader EXCEPT ![g].pc = "write"]
             /\ UNCHANGED <<migration, sweep, bells, leaver>>
       \/ \E g \in Groups :
             /\ leaver[g] = "load" /\ leaver' = [leaver EXCEPT ![g] = "idle"]
             /\ UNCHANGED <<migration, sweep, bells, reader>>
    /\ UNCHANGED <<store, badge, clock, history>>

Tick ==
    /\ clock < MaxClock
    /\ clock' = clock + 1
    /\ UNCHANGED <<store, migration, sweep, bells, reader, leaver, badge, history, approvals, deeds>>

Asleep ==
    /\ chain = [n \in Nonces |-> <<>>] /\ mid = {} /\ got = [n \in Nonces |-> NoLink]
    /\ migration = NoMigration
    /\ sweep = NoSweep
    /\ bells = [b \in Derivers |-> NoCycle]
    /\ reader = [g \in Groups |-> [pc |-> "idle", shown |-> {}]]
    /\ leaver = [g \in Groups |-> "idle"]
    /\ badge = NoCount

(* A page load drops what is queued and in flight; the records stay. *)
Reload ==
    /\ Deed
    /\ chain' = [n \in Nonces |-> <<>>] /\ mid' = {} /\ got' = [n \in Nonces |-> NoLink]
    /\ migration' = NoMigration
    /\ sweep' = NoSweep
    /\ bells' = [b \in Derivers |-> NoCycle]
    /\ reader' = [g \in Groups |-> [pc |-> "idle", shown |-> {}]]
    /\ leaver' = [g \in Groups |-> "idle"]
    /\ badge' = NoCount
    /\ cleared' = clears
    /\ UNCHANGED <<links, clears, clock, history>>

Init ==
    /\ Asleep
    /\ links = Stored /\ ledger = Stored
    /\ clears = 0 /\ cleared = 0
    /\ clock = FirstClock
    /\ old = {n \in Nonces : Stored[n] # NoLink /\ Dismissed(Stored[n], FirstClock)}
    /\ raced = {} /\ resaved = {} /\ clicked = {} /\ seen = {}
    /\ rung = [n \in Nonces |-> 0]
    /\ approvals = 0 /\ deeds = 0

Cycle ==
    \/ MigrationLoads \/ MigrationEnds \/ SweepLoads \/ SweepEnds
    \/ \E n \in Nonces : SweepStamps(n) \/ SweepRings(n) \/ SweepAcknowledges(n)
    \/ \E b \in Derivers : Derive(b) \/ Emit(b)

Admin ==
    \/ \E n \in Nonces : Approve(n) \/ DeleteLink(n)
    \/ \E n \in Nonces : Save(n, NewLink(clock)) \/ (Backup[n] # NoLink /\ Save(n, Backup[n]))
    \/ \E g \in Groups : MarkRead(g) \/ LeaveGroup(g)
    \/ StartClear

Answers == \E g \in Groups : ReaderLoads(g) \/ ReaderEnds(g) \/ LeaverLoads(g) \/ LeaverEnds(g)
Stores(n) == Get(n) \/ Put(n) \/ Delete(n)

Next ==
    \/ \E n \in Nonces : Stores(n) \/ Reject(n)
    \/ \E b \in Bells : BellStarts(b)
    \/ Cycle \/ Admin \/ Answers
    \/ ClearStore \/ LoadRejects \/ Tick \/ Reload

Spec == Init /\ [][Next]_vars

(* IndexedDB answers whatever waits for it, and the bells' intervals come round *)
(* again.                                                                      *)
Work == Cycle \/ Answers \/ ClearStore \/ \E n \in Nonces : Stores(n)
FairSpec == Spec /\ WF_vars(Work) /\ WF_vars(\E b \in Bells : BellStarts(b))

-----------------------------------------------------------------------------
(* Properties *)

(* The records, queues and latches keep their types, and only the first call of *)
(* a queue that no clear holds back is between its get and its set.              *)
TypeOK ==
    /\ links \in [Nonces -> LinkOrNone] /\ ledger \in [Nonces -> LinkOrNone]
    /\ chain \in [Nonces -> Seq(Calls)]
    /\ got \in [Nonces -> LinkOrNone]
    /\ clears \in Nat /\ cleared \in Nat /\ cleared <= clears
    /\ mid \subseteq {n \in Nonces : chain[n] # <<>> /\ First(n).era <= cleared}
    /\ migration \in [pc : {"idle", "load", "write"}, now : Nat]
    /\ sweep \in [pc : {"idle", "load", "next", "stamp", "bump", "acknowledge"}, now : Nat,
                  todo : SUBSET Nonces, cur : SUBSET Nonces]
    /\ bells \in [Derivers -> [pc : {"idle", "migrate", "sweep", "delete", "derive", "emit"},
                              now : Nat, count : [Groups -> Nat]]]
    /\ reader \in [Groups -> [pc : {"idle", "load", "write"}, shown : SUBSET Nonces]]
    /\ leaver \in [Groups -> {"idle", "load", "write"}]
    /\ badge \in [Groups -> Nat] /\ clock \in Nat

(* The store is what the finished calls would have left one after another: no   *)
(* approval is dropped from a tally, no flag is taken back, and no link comes    *)
(* back after its deletion or a clear.  Except a link that was created again or  *)
(* restored from a backup at the moment a call had read it: those writes take    *)
(* no lock.                                                                     *)
StoreIsAtomic == \A n \in Nonces \ raced : links[n] = ledger[n]

(* The sweep rings the bell once for a link, whichever bells ask for it, what    *)
(* fails and when the page is loaded; and never for an old one.                  *)
RingsOnce ==
    \A n \in Nonces \ resaved : rung[n] <= IF n \in old THEN 0 ELSE 1

(* In the end the badge counts the expired links whose notification the admin    *)
(* has not opened, and no other.  It may count, or not, one whose                *)
(* acknowledgement was cut short or that was written again.                      *)
Due(g) == {n \in In(g) : /\ links[n] # NoLink /\ Expired(links[n], clock)
                         /\ n \notin old \union seen}
BadgeSettles ==
    <>[](\A g \in Groups :
            /\ badge[g] <= Cardinality(Due(g))
            /\ badge[g] >= Cardinality(Due(g) \ (clicked \union resaved)))
=============================================================================
