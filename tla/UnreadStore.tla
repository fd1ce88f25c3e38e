----------------------------- MODULE UnreadStore -----------------------------
(***************************************************************************)
(* The unread counters of groups and of direct-message peers                 *)
(* (src/app/src/lib/unreadStore.ts) with the handlers that feed them.         *)
(*                                                                           *)
(* A counter lives in memory only.  Live messages raise it, opening the       *)
(* conversation clears it, and a reconcile recomputes it from the stored      *)
(* messages, one IndexedDB read after another, while both go on.              *)
(***************************************************************************)
EXTENDS Naturals, Sequences, FiniteSets, Functions

CONSTANTS
    Groups,     \* groups, the keys of the `counts` slice
    Peers,      \* peers, the keys of the `directMessages` slice
    Messages,   \* the messages of others that can arrive
    KeyOf,      \* message -> the conversation it belongs to
    Earlier,    \* the messages earlier sessions stored
    MaxPasses,  \* the re-read passes of one reconcile (3 in the code)
    MaxInits,   \* bound: calls of initUnreadCounts
    MaxArrivals \* bound: messages that arrive or are stored in a behaviour

Keys   == Groups \union Peers
Slices == {"counts", "directMessages"}
NoKey  == "no key"

ASSUME KeysAssumption ==
    /\ IsFiniteSet(Messages) /\ IsFiniteSet(Keys)
    /\ Groups \intersect Peers = {} /\ NoKey \notin Keys
    /\ KeyOf \in [Messages -> Keys] /\ Earlier \subseteq Messages
ASSUME BoundsAssumption ==
    MaxPasses \in Nat /\ MaxInits \in Nat /\ MaxArrivals \in Nat

VARIABLES
    stored,      \* the messages in IndexedDB
    read,        \* the messages a persisted last-read timestamp covers
    pending,     \* the contacts whose pairing is not confirmed
    active,      \* the conversation on screen
    count,       \* state.counts and state.directMessages
    handling,    \* group messages stored but not counted: the handler's awaits
    seenDm,      \* ids the direct-message subscription has seen
    subscribed,  \* the direct-message subscription is up
    importing,   \* the reconcile calls awaiting the import of idb-keyval
    calls,       \* slice -> the reconciles on its promise chain, the running one first
    job,         \* slice -> the running reconcile's locals, and initTouched
    floor,       \* reconcileFloor
    bumped,      \* history: live-counted direct messages not read since
    lowered,     \* history: peers whose count the confirm of another replaced, until read
    ready,       \* history: the groups whose last scan was not touched after its last pass
    inits        \* counter for the bound

vars == <<stored, read, pending, active, count, handling, seenDm, subscribed, importing,
          calls, job, floor, bumped, lowered, ready, inits>>

SliceOf(k) == IF k \in Groups THEN "counts" ELSE "directMessages"
KeysOf(s)  == IF s = "counts" THEN Groups ELSE Peers
In(k)      == {m \in Messages : KeyOf[m] = k}

Put(f, k, v) == [x \in DOMAIN f \union {k} |-> IF x = k THEN v ELSE f[x]]
Drop(f, k)   == Restrict(f, DOMAIN f \ {k})
Empty        == [x \in {} |-> 0]

NoJob == [on |-> FALSE, todo |-> {}, next |-> Empty, touched |-> {}, passes |-> 0,
          reading |-> NoKey, found |-> 0]

(* A reconcile call: its slice, the keys it asks for, the timestamps it       *)
(* loaded, and who made it.                                                   *)
Call(s, keys, by) == [slice |-> s, keys |-> keys, read |-> read, by |-> by]

-----------------------------------------------------------------------------
(* Mutant: contacts are not filtered. *)
Scanned_All == Peers

(* The peers the startup scan reads: initDirectMessageCounts drops contacts   *)
(* that are not confirmed.                                                    *)
Scanned == Peers \ pending

(* The page has just loaded: what earlier sessions stored and read is there, *)
(* and initDirectMessageCounts was called.                                    *)
Init ==
    /\ stored = Earlier /\ read \in SUBSET Earlier
    /\ pending \in SUBSET Peers
    /\ active = NoKey
    /\ count = [k \in Keys |-> 0]
    /\ handling = {} /\ seenDm = {} /\ subscribed = FALSE
    /\ importing = <<Call("directMessages", Peers, "init")>>
    /\ calls = [s \in Slices |-> <<>>]
    /\ job = [s \in Slices |-> NoJob]
    /\ floor = Empty
    /\ bumped = {} /\ lowered = {} /\ ready = {} /\ inits = 0

(* Mutant: the running scan is not told of the live increment. *)
Noted_Never(k) == job

(* noteLiveIncrement *)
Noted(k) ==
    LET s == SliceOf(k)
    IN  IF job[s].on THEN [job EXCEPT ![s].touched = @ \union {k}] ELSE job

(* incrementUnread and incrementDirectMessage, with noteLiveIncrementFloor.  *)
Bump(k) ==
    /\ job' = Noted(k)
    /\ count' = [count EXCEPT ![k] = @ + 1]
    /\ floor' = IF k \in DOMAIN floor /\ floor[k] < count'[k]
                THEN Put(floor, k, count'[k]) ELSE floor

(* markAsRead and markDirectMessagesRead.  The timestamp is the time of the   *)
(* call: it covers what has come, and what was sent before but comes later.   *)
Mark(k) ==
    /\ \E late \in SUBSET (In(k) \ (stored \union seenDm)) :
         read' = read \union (In(k) \intersect (stored \union seenDm)) \union late
    /\ count' = [count EXCEPT ![k] = 0]
    /\ bumped' = bumped \ In(k)
    /\ lowered' = lowered \ {k}

(* The bound on arrivals. *)
MoreArrive == Cardinality(stored \ Earlier) + Cardinality(seenDm) < MaxArrivals

(* The chat handler, up to the append that commits.  Groups are subscribed to *)
(* right after the first scan was called.                                     *)
StoreMessage(m) ==
    /\ MoreArrive /\ inits > 0 /\ KeyOf[m] \in Groups /\ m \notin stored
    /\ stored' = stored \union {m}
    /\ handling' = handling \union {m}
    /\ UNCHANGED <<read, pending, active, count, seenDm, subscribed, importing,
                   calls, job, floor, bumped, lowered, ready, inits>>

(* The chat handler after its awaits: it counts the message, or marks the    *)
(* group read if it is on screen.                                             *)
CountMessage(m) ==
    /\ m \in handling
    /\ handling' = handling \ {m}
    /\ IF active = KeyOf[m]
       THEN Mark(active) /\ UNCHANGED <<job, floor>>
       ELSE Bump(KeyOf[m]) /\ UNCHANGED <<read, bumped, lowered>>
    /\ UNCHANGED <<stored, pending, active, seenDm, subscribed, importing, calls,
                   ready, inits>>

(* The direct-message subscription: counts without storing. *)
LiveDm(m) ==
    /\ MoreArrive /\ subscribed /\ KeyOf[m] \in Peers /\ m \notin seenDm \union read
    /\ seenDm' = seenDm \union {m}
    /\ IF KeyOf[m] \in pending \/ active = KeyOf[m]
       THEN UNCHANGED <<count, job, floor, bumped>>
       ELSE Bump(KeyOf[m]) /\ bumped' = bumped \union {m}
    /\ UNCHANGED <<stored, read, pending, active, handling, subscribed, importing,
                   calls, lowered, ready, inits>>

(* An open direct-message thread fetches and stores its messages. *)
StoreDm(m) ==
    /\ MoreArrive /\ KeyOf[m] = active /\ active \in Peers /\ m \notin stored
    /\ stored' = stored \union {m}
    /\ UNCHANGED <<read, pending, active, count, handling, seenDm, subscribed,
                   importing, calls, job, floor, bumped, lowered, ready, inits>>

(* A conversation is opened, from the bell or else: it is marked read.  An    *)
(* open thread is marked again when its messages change.                      *)
Open(k) ==
    /\ active' = k
    /\ Mark(k)
    /\ UNCHANGED <<stored, pending, handling, seenDm, subscribed, importing, calls,
                   job, floor, ready, inits>>

Close ==
    /\ active # NoKey
    /\ active' = NoKey
    /\ UNCHANGED <<stored, read, pending, count, handling, seenDm, subscribed,
                   importing, calls, job, floor, bumped, lowered, ready, inits>>

-----------------------------------------------------------------------------
(* Reconciling *)

(* initUnreadCounts, when the groups were loaded and when their list changes. *)
InitUnreadCounts ==
    /\ inits < MaxInits
    /\ inits' = inits + 1
    /\ importing' = Append(importing, Call("counts", Groups, "init"))
    /\ UNCHANGED <<stored, read, pending, active, count, handling, seenDm,
                   subscribed, calls, job, floor, bumped, lowered, ready>>

(* confirmPendingContact: reconcileConfirmedContactDirectMessageCount up to  *)
(* its first await.                                                           *)
Confirm(k) ==
    /\ k \in pending
    /\ pending' = pending \ {k}
    /\ importing' = Append(importing, Call("directMessages", {k}, "confirm"))
    /\ UNCHANGED <<stored, read, active, count, handling, seenDm, subscribed, calls,
                   job, floor, bumped, lowered, ready, inits>>

(* What the first of the calls does after the import: the startup scan drops  *)
(* the pending contacts, a confirm notes its floor; the call joins its chain.  *)
Enqueue ==
    /\ importing # <<>>
    /\ importing' = Tail(importing)
    /\ LET call == Head(importing)
           keys == IF call.slice = "directMessages" /\ call.by = "init"
                   THEN Scanned ELSE call.keys
       IN  /\ calls' = [calls EXCEPT ![call.slice] = Append(@, [call EXCEPT !.keys = keys])]
           /\ floor' = IF call.by = "confirm"
                       THEN [k \in DOMAIN floor \union keys |->
                               IF k \in keys THEN count[k] ELSE floor[k]]
                       ELSE floor
    /\ UNCHANGED <<stored, read, pending, active, count, handling, seenDm,
                   subscribed, job, bumped, lowered, ready, inits>>

(* The end of reconcileInitExclusive: `next` replaces what it has a count for. *)
Written(c, j) == [k \in Keys |-> IF k \in DOMAIN j.next THEN j.next[k] ELSE c[k]]

(* The finally block of a confirm: its count is raised to its floor. *)
Floored(c, keys) == [k \in Keys |-> IF k \in keys \intersect DOMAIN floor /\ floor[k] > c[k]
                                    THEN floor[k] ELSE c[k]]

(* After a read: go on scanning, re-read what was touched meanwhile, or write *)
(* the counters, which readies the slice for the next call.  A confirm's       *)
(* finally block follows in the same task: only settled promises lie between.  *)
Advance(s, j) ==
    LET call == Head(calls[s])
    IN  \/ /\ j.todo # {}
           /\ job' = [job EXCEPT ![s] = j]
           /\ UNCHANGED <<count, calls, subscribed, floor, lowered, ready>>
        \/ /\ j.todo = {} /\ j.touched # {} /\ j.passes < MaxPasses
           /\ job' = [job EXCEPT ![s] = [j EXCEPT !.todo = j.touched, !.touched = {},
                                                  !.passes = @ + 1]]
           /\ UNCHANGED <<count, calls, subscribed, floor, lowered, ready>>
        \/ /\ j.todo = {} /\ (j.touched = {} \/ j.passes = MaxPasses)
           /\ job' = [job EXCEPT ![s] = NoJob]
           /\ calls' = [calls EXCEPT ![s] = Tail(@)]
           /\ subscribed' = (subscribed \/ s = "directMessages")
           /\ IF call.by = "confirm"
              THEN /\ count' = Floored(Written(count, j), call.keys)
                   /\ floor' = Restrict(floor, DOMAIN floor \ call.keys)
                   /\ lowered' = lowered \union (DOMAIN j.next \ call.keys)
              ELSE count' = Written(count, j) /\ UNCHANGED <<floor, lowered>>
           /\ ready' = IF s = "counts" THEN (ready \union call.keys) \ j.touched ELSE ready

(* reconcileInit's turn on the chain: the scan starts with nothing touched.  *)
Begin(s) ==
    /\ calls[s] # <<>> /\ ~job[s].on
    /\ Advance(s, [NoJob EXCEPT !.on = TRUE, !.todo = Head(calls[s]).keys])
    /\ UNCHANGED <<stored, read, pending, active, handling, seenDm, importing, bumped,
                   inits>>

(* computeForKey's read of the store, against the timestamps of the call.    *)
Read(s) ==
    /\ job[s].on /\ job[s].reading = NoKey
    /\ \E k \in job[s].todo :
         job' = [job EXCEPT ![s].reading = k,
                            ![s].found = Cardinality((stored \intersect In(k))
                                                     \ Head(calls[s]).read)]
    /\ UNCHANGED <<stored, read, pending, active, count, handling, seenDm,
                   subscribed, importing, calls, floor, bumped, lowered, ready, inits>>

(* ... and what follows it up to the next read. *)
Resume(s) ==
    /\ job[s].reading # NoKey
    /\ LET k == job[s].reading
           n == job[s].found
       IN  Advance(s, [job[s] EXCEPT !.todo = @ \ {k}, !.reading = NoKey, !.found = 0,
                                     !.next = IF n > 0 THEN Put(@, k, n) ELSE Drop(@, k)])
    /\ UNCHANGED <<stored, read, pending, active, handling, seenDm, importing, bumped,
                   inits>>

Next ==
    \/ \E m \in Messages : StoreMessage(m) \/ CountMessage(m) \/ LiveDm(m) \/ StoreDm(m)
    \/ \E k \in Keys : Open(k)
    \/ \E k \in Peers : Confirm(k)
    \/ Close \/ InitUnreadCounts \/ Enqueue
    \/ \E s \in Slices : Begin(s) \/ Read(s) \/ Resume(s)

Spec == Init /\ [][Next]_vars

-----------------------------------------------------------------------------
(* Properties *)

(* The variables hold what the module's can, and a reconcile runs only while *)
(* its call heads the chain of its slice.                                     *)
TypeOK ==
    /\ stored \subseteq Messages /\ read \subseteq Messages /\ pending \subseteq Peers
    /\ active \in Keys \union {NoKey}
    /\ count \in [Keys -> Nat]
    /\ handling \subseteq stored /\ seenDm \subseteq Messages /\ bumped \subseteq seenDm
    /\ DOMAIN floor \subseteq Peers \ pending /\ \A k \in DOMAIN floor : floor[k] \in Nat
    /\ ready \subseteq Groups /\ lowered \subseteq Peers /\ subscribed \in BOOLEAN
    /\ \A s \in Slices :
         /\ job[s].on => calls[s] # <<>>
         /\ job[s].todo \union job[s].touched \subseteq KeysOf(s)
         /\ job[s].passes \in 0..MaxPasses
         /\ job[s].reading \in job[s].todo \union {NoKey}

(* What is unread of a conversation and must show: a group's stored messages *)
(* whose handler is done, a peer's live-counted ones.                         *)
Due(k) == IF k \in Groups THEN (stored \intersect In(k)) \ (read \union handling)
                          ELSE bumped \intersect In(k)

(* A counter never shows less than what is unread: whatever comes while a scan *)
(* runs, the scan's stale result does not cover it up (the re-read of touched  *)
(* keys, the floor of a confirm).  Left out are groups not yet scanned, those   *)
(* touched in the last permitted pass, which the code accepts, and peers whose  *)
(* live count the confirm of another contact replaced by what is stored.        *)
NothingMissed ==
    \A k \in ready \union (Peers \ lowered) : count[k] >= Cardinality(Due(k))

(* A contact whose pairing is not confirmed has no unread badge, whatever was *)
(* stored or comes live, and whatever scan runs.                              *)
PendingStaysDark == \A k \in pending : count[k] = 0

=============================================================================
