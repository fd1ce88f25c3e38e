--------------------------- MODULE EpochResolver ---------------------------
(***************************************************************************)
(* Fork resolution and buffering of a group's MLS events on one client:      *)
(* src/app/src/lib/marmot/epochResolver.ts, fed by subscribeToGroupMessages   *)
(* of src/app/src/lib/marmot/welcomeSubscription.ts.                          *)
(*                                                                           *)
(* A group state is the sequence of commits it is the result of, and the     *)
(* messages whose key it has used up.  Relays deliver the group's events in   *)
(* any order, and again as long as their id is not remembered as seen.        *)
(***************************************************************************)
EXTENDS Naturals, FiniteSets, SequencesExt

CONSTANTS
    Commits,     \* the commits members published for the group
    Messages,    \* the application messages
    Parent,      \* commit -> the branch (sequence of commits) it was made on
    At,          \* message -> the branch it was encrypted on
    Needs,       \* message -> the earlier messages of its sender it cannot be read before
    Created,     \* event -> created_at
    IdRank,      \* event -> rank of its id in lexicographic order
    MaxBuffer,   \* maxBufferSize
    MaxRepeats,  \* bound: deliveries of events already delivered, in a behaviour
    MaxTeardowns \* bound: re-subscriptions of a behaviour

Events == Commits \union Messages
Groups == [branch : Seq(Commits), used : SUBSET Messages]

NoCommit   == "no commit"
NoEvent    == "no event"
NoSnapshot == [group |-> [branch |-> <<>>, used |-> {}], commit |-> "none", replay |-> <<>>]

ASSUME EventAssumption ==
    /\ IsFiniteSet(Commits) /\ IsFiniteSet(Messages)
    /\ Commits \intersect Messages = {}
    /\ {NoCommit, NoEvent, "none"} \intersect Events = {}
ASSUME BranchAssumption ==
    /\ \A c \in Commits : Parent[c] \in Seq(Commits)
    /\ \A m \in Messages : At[m] \in Seq(Commits) /\ Needs[m] \subseteq Messages
ASSUME OrderAssumption ==
    /\ \A e \in Events : Created[e] \in Nat /\ IdRank[e] \in Nat
    /\ \A d, e \in Events : IdRank[d] = IdRank[e] => d = e
ASSUME BoundAssumption == 
    MaxBuffer \in Nat \ {0} /\ MaxRepeats \in Nat /\ MaxTeardowns \in Nat

VARIABLES
    group,        \* mlsGroup.state
    snapshot,     \* the state to roll back to, the commit it was left by, the replay queue
    futureBuffer, \* events no state so far could read
    timer,        \* the grace window's timer is running
    lockQueue,    \* events waiting for the lock, in order
    pc,           \* where the holder of the lock is
    current,      \* the event the holder of the lock ingests
    outcome,      \* what mlsGroup.ingest yielded for it
    seen,         \* processedIds, shared by all subscriptions of the group
    arrived,      \* history: the events a relay ever delivered
    dispatched,   \* history: the messages handed to the application
    handled,      \* history: the events whose handler ran
    final,        \* history: a grace window ended, or a teardown cut it off
    cutOff,       \* history: events a teardown found waiting or in flight
    repeats,      \* counter for the bound
    teardowns     \* counter for the bound

vars == <<group, snapshot, futureBuffer, timer, lockQueue, pc, current, outcome,
          seen, arrived, dispatched, handled, final, cutOff, repeats, teardowns>>

-----------------------------------------------------------------------------
(* mlsGroup.ingest, from how the resolver and its tests use it *)

CommitIsLower(c, d) ==
    \/ Created[c] < Created[d]
    \/ Created[c] = Created[d] /\ IdRank[c] < IdRank[d]

(* A past epoch of this branch, or a commit that competes with one of it.   *)
IsPast(c, g)   == IsStrictPrefix(Parent[c], g.branch)

Readable(m, g) ==
    /\ IsPrefix(At[m], g.branch)
    /\ m \notin g.used
    /\ Needs[m] \subseteq g.used

Ingested(e, g) ==
    IF e \in Commits THEN [g EXCEPT !.branch = Append(@, e)]
                     ELSE [g EXCEPT !.used = @ \union {e}]

Applies(e, g) == IF e \in Commits THEN Parent[e] = g.branch ELSE Readable(e, g)

(* Of the events of a batch that apply, commits go first, the lowest first.  *)
NextOf(S, g) ==
    LET ready   == {e \in S : Applies(e, g)}
        commits == ready \intersect Commits
    IN  IF commits = {} THEN ready
        ELSE {c \in commits : \A d \in commits \ {c} : CommitIsLower(c, d)}

(* The group after the next event of a batch, if one applies.                *)
Advanced(S) ==
    [g \in Groups |-> IF NextOf(S, g) = {} THEN g
                      ELSE Ingested(CHOOSE e \in NextOf(S, g) : TRUE, g)]

(* The group after a batch was retried until no event of it applies.         *)
AfterBatch(S, g) ==
    LET run[k \in 0..Cardinality(S)] == IF k = 0 THEN g ELSE Advanced(S)[run[k-1]]
    IN  run[Cardinality(S)]

(* An event of another branch, of a state not reached yet, or whose key is   *)
(* used up: no state at hand decrypts it.                                     *)
OutcomeOf(e, g) ==
    CASE Applies(e, g)                 -> "processed"
      [] e \in Commits /\ IsPast(e, g) -> "past-epoch"
      [] OTHER                         -> "unreadable"

-----------------------------------------------------------------------------
(* The resolver's helpers, each after the mutants its properties are tried on *)

Fresh(g, c) == [group |-> g, commit |-> c, replay |-> <<>>]

(* capBuffer: the oldest by created_at goes, of two the one buffered first.  *)
CapBuffer(b) ==
    IF Len(b) <= MaxBuffer THEN b
    ELSE LET oldest == CHOOSE i \in DOMAIN b :
                         /\ \A j \in DOMAIN b : Created[b[i]] <= Created[b[j]]
                         /\ \A j \in DOMAIN b : Created[b[i]] = Created[b[j]] => i <= j
         IN  RemoveAt(b, oldest)

(* Mutant: pushes without asking for a snapshot. *)
Replayed_Unasked(s, e) == [s EXCEPT !.replay = Append(@, e)]

(* snapshot.replayQueue.push of a message. *)
Replayed(s, e) == IF s = NoSnapshot THEN s ELSE [s EXCEPT !.replay = Append(@, e)]

(* Mutant: the commit is not recorded. *)
Recorded_Never(s, e) == s

(* handleCommit's record of the commit that left the snapshot's state.       *)
Recorded(s, e) == IF s = NoSnapshot THEN s ELSE [s EXCEPT !.commit = e]

(* handleSkippedPastEpoch's early returns and comparison. *)
ShouldHaveWon(e) ==
    /\ snapshot # NoSnapshot
    /\ snapshot.commit \notin {NoCommit, e}
    /\ CommitIsLower(e, snapshot.commit)

(* Mutant: the flush empties the buffer. *)
StillUnreadable_None(b, g) == <<>>

(* What the flush of the buffer leaves in it. *)
StillUnreadable(b, g) ==
    LET after == AfterBatch(ToSet(b), g)
        Keep(e) == OutcomeOf(e, after) = "unreadable" /\ e \notin after.used \ g.used
        kept[i \in 0..Len(b)] == IF i = 0 THEN <<>>
                                ELSE IF Keep(b[i]) THEN Append(kept[i-1], b[i]) ELSE kept[i-1]
    IN  CapBuffer(kept[Len(b)])

-----------------------------------------------------------------------------
Init ==
    /\ group = [branch |-> <<>>, used |-> {}]
    /\ snapshot = NoSnapshot
    /\ futureBuffer = <<>>
    /\ timer = FALSE
    /\ lockQueue = <<>>
    /\ pc = "idle" /\ current = NoEvent /\ outcome = "none"
    /\ seen = {} /\ arrived = {} /\ dispatched = {} /\ handled = {}
    /\ final = FALSE /\ cutOff = {} /\ repeats = 0 /\ teardowns = 0

(* ingestNdkEvent: an id not seen is marked and its event queues for the     *)
(* lock, be it from the history fetch, the live subscription or a relay that  *)
(* sends it again.                                                            *)
Arrive(e) ==
    /\ e \notin seen
    /\ e \in arrived => repeats < MaxRepeats
    /\ repeats' = repeats + (IF e \in arrived THEN 1 ELSE 0)
    /\ seen' = seen \union {e}
    /\ arrived' = arrived \union {e}
    /\ lockQueue' = Append(lockQueue, e)
    /\ UNCHANGED <<group, snapshot, futureBuffer, timer, pc, current, outcome,
                   dispatched, handled, final, cutOff, teardowns>>

(* processEvent up to the first result: the snapshot, then mlsGroup.ingest,  *)
(* from which the group hands a message it read to the application.           *)
Ingest ==
    /\ pc = "idle" /\ lockQueue # <<>>
    /\ LET e == Head(lockQueue) IN
         /\ snapshot' = IF snapshot = NoSnapshot THEN Fresh(group, NoCommit) ELSE snapshot
         /\ outcome' = OutcomeOf(e, group)
         /\ group' = IF outcome' = "processed" THEN Ingested(e, group) ELSE group
         /\ dispatched' = dispatched \union (group'.used \ group.used)
         /\ current' = e
    /\ lockQueue' = Tail(lockQueue)
    /\ pc' = "handle"
    /\ UNCHANGED <<futureBuffer, timer, seen, arrived, handled, final, cutOff,
                   repeats, teardowns>>

(* processEvent's end: the lock goes to the next event. *)
Release == pc' = "idle" /\ current' = NoEvent /\ outcome' = "none"

(* Mutant: the buffer is retried after commits only. *)
HandleMessage_NoFlush ==
    /\ pc = "handle" /\ outcome = "processed" /\ current \in Messages
    /\ snapshot' = Replayed(snapshot, current)
    /\ handled' = handled \union {current}
    /\ Release
    /\ UNCHANGED <<group, futureBuffer, timer, lockQueue, seen, arrived, dispatched,
                   final, cutOff, repeats, teardowns>>

(* An application message was read: queue it for a replay and retry the       *)
(* buffer.                                                                    *)
HandleMessage ==
    /\ pc = "handle" /\ outcome = "processed" /\ current \in Messages
    /\ snapshot' = Replayed(snapshot, current)
    /\ handled' = handled \union {current}
    /\ IF futureBuffer = <<>> THEN Release
                              ELSE pc' = "flush" /\ UNCHANGED <<current, outcome>>
    /\ UNCHANGED <<group, futureBuffer, timer, lockQueue, seen, arrived, dispatched,
                   final, cutOff, repeats, teardowns>>

(* handleCommit: record the commit, (re)start the grace window, retry the    *)
(* buffer.                                                                    *)
HandleCommit ==
    /\ pc = "handle" /\ outcome = "processed" /\ current \in Commits
    /\ snapshot' = Recorded(snapshot, current)
    /\ timer' = TRUE
    /\ handled' = handled \union {current}
    /\ IF futureBuffer = <<>> THEN Release
                              ELSE pc' = "flush" /\ UNCHANGED <<current, outcome>>
    /\ UNCHANGED <<group, futureBuffer, lockQueue, seen, arrived, dispatched, final,
                   cutOff, repeats, teardowns>>

(* Mutant: a buffered event stays marked as seen. *)
HandleUnreadable_StaysSeen ==
    /\ pc = "handle" /\ outcome = "unreadable"
    /\ futureBuffer' = CapBuffer(Append(futureBuffer, current))
    /\ seen' = seen
    /\ handled' = handled \union {current}
    /\ Release
    /\ UNCHANGED <<group, snapshot, timer, lockQueue, arrived, dispatched, final,
                   cutOff, repeats, teardowns>>

(* An unreadable event is buffered, and its id forgotten by ingestNdkEvent.  *)
HandleUnreadable ==
    /\ pc = "handle" /\ outcome = "unreadable"
    /\ futureBuffer' = CapBuffer(Append(futureBuffer, current))
    /\ seen' = seen \ {current}
    /\ handled' = handled \union {current}
    /\ Release
    /\ UNCHANGED <<group, snapshot, timer, lockQueue, arrived, dispatched, final,
                   cutOff, repeats, teardowns>>

(* handleSkippedPastEpoch: the commit lost, or there is nothing to roll back. *)
DropPastEpoch ==
    /\ pc = "handle" /\ outcome = "past-epoch"
    /\ ~ShouldHaveWon(current)
    /\ handled' = handled \union {current}
    /\ Release
    /\ UNCHANGED <<group, snapshot, futureBuffer, timer, lockQueue, seen, arrived,
                   dispatched, final, cutOff, repeats, teardowns>>

(* rollbackAndReplay: restore the snapshot and ingest the lower commit with   *)
(* the messages read since.                                                   *)
Rollback ==
    /\ pc = "handle" /\ outcome = "past-epoch"
    /\ ShouldHaveWon(current)
    /\ group' = AfterBatch({current} \union ToSet(snapshot.replay), snapshot.group)
    /\ dispatched' = dispatched \union (group'.used \ snapshot.group.used)
    /\ handled' = handled \union {current}
    /\ pc' = "settle"
    /\ UNCHANGED <<snapshot, futureBuffer, timer, lockQueue, current, outcome, seen,
                   arrived, final, cutOff, repeats, teardowns>>

(* The end of rollbackAndReplay: a snapshot of the new state, charged to the  *)
(* winner, and a new grace window.                                            *)
Settle ==
    /\ pc = "settle"
    /\ snapshot' = Fresh(group, current)
    /\ timer' = TRUE
    /\ Release
    /\ UNCHANGED <<group, futureBuffer, lockQueue, seen, arrived, dispatched, handled,
                   final, cutOff, repeats, teardowns>>

(* flushFutureBuffer: ingest the whole buffer again, keep what is still       *)
(* unreadable.                                                                *)
FlushFutureBuffer ==
    /\ pc = "flush"
    /\ group' = AfterBatch(ToSet(futureBuffer), group)
    /\ dispatched' = dispatched \union (group'.used \ group.used)
    /\ futureBuffer' = StillUnreadable(futureBuffer, group)
    /\ Release
    /\ UNCHANGED <<snapshot, timer, lockQueue, seen, arrived, handled, final, cutOff,
                   repeats, teardowns>>

(* onGraceWindowExpired, a timer callback: it runs between any two steps.    *)
GraceExpires ==
    /\ timer
    /\ timer' = FALSE
    /\ snapshot' = NoSnapshot
    /\ final' = TRUE
    /\ UNCHANGED <<group, futureBuffer, lockQueue, pc, current, outcome, seen, arrived,
                   dispatched, handled, cutOff, repeats, teardowns>>

(* The unsubscribe function disposes the resolver, and a new subscription    *)
(* starts with a new one.  What waits for the lock or is in flight returns    *)
(* without being handled; what was seen stays seen.                           *)
Resubscribe ==
    /\ teardowns < MaxTeardowns
    /\ teardowns' = teardowns + 1
    /\ futureBuffer' = <<>> /\ snapshot' = NoSnapshot /\ timer' = FALSE
    /\ lockQueue' = <<>>
    /\ cutOff' = cutOff \union ToSet(lockQueue)
                        \union (IF pc = "handle" THEN {current} ELSE {})
    /\ final' = (final \/ group.branch # <<>>)
    /\ Release
    /\ UNCHANGED <<group, seen, arrived, dispatched, handled, repeats>>

Handle ==
    \/ HandleMessage \/ HandleCommit \/ HandleUnreadable
    \/ DropPastEpoch \/ Rollback \/ Settle \/ FlushFutureBuffer

Next ==
    \/ \E e \in Events : Arrive(e)
    \/ Ingest
    \/ Handle
    \/ GraceExpires
    \/ Resubscribe

Spec == Init /\ [][Next]_vars

(* A relay delivers every event of the group once, to the history fetch or    *)
(* the live subscription; the microtask queue runs what holds the lock.       *)
FairSpec ==
    /\ Spec
    /\ WF_vars(\E e \in Events \ arrived : Arrive(e))
    /\ WF_vars(Ingest \/ Handle)

-----------------------------------------------------------------------------
(* Properties *)

(* The variables hold what the class's fields can.  A snapshot is absent or   *)
(* complete, and absent or present the handlers never extend a missing one.   *)
(* The buffer keeps its limit though a redelivery adds copies.                *)
TypeOK ==
    /\ group \in Groups
    /\ \/ snapshot = NoSnapshot
       \/ snapshot \in [group : Groups, commit : Commits \union {NoCommit},
                        replay : Seq(Messages)]
    /\ futureBuffer \in Seq(Events) /\ Len(futureBuffer) <= MaxBuffer
    /\ lockQueue \in Seq(Events)
    /\ timer \in BOOLEAN /\ final \in BOOLEAN
    /\ pc \in {"idle", "handle", "flush", "settle"}
    /\ pc # "idle" <=> current \in Events
    /\ current \in Events \union {NoEvent}
    /\ outcome \in {"none", "processed", "past-epoch", "unreadable"}
    /\ seen \subseteq Events /\ arrived \subseteq Events
    /\ dispatched \subseteq Messages /\ handled \subseteq Events
    /\ cutOff \subseteq Events
    /\ repeats \in 0..MaxRepeats /\ teardowns \in 0..MaxTeardowns

(* Events the resolver still has to deal with. *)
Held(e) ==
    \/ e \in ToSet(lockQueue) \union ToSet(futureBuffer)
    \/ pc = "handle" /\ e = current

(* The group can still come to a state that applies the event.               *)
Ahead(e) ==
    IF e \in Commits THEN IsPrefix(group.branch, Parent[e])
    ELSE /\ e \notin dispatched
         /\ IsPrefix(At[e], group.branch) \/ IsPrefix(group.branch, At[e])

(* No delivery and no refetch will bring the event back, and nothing holds it. *)
Lost(e) == e \in seen /\ Ahead(e) /\ ~Held(e)

(* No event is forgotten while the group could still use it: it waits for the *)
(* lock, is in flight or buffered, or its id is not remembered as seen so     *)
(* that the next fetch brings it again (welcomeSubscription.ts, the un-mark). *)
(* Not so for events cut off by a teardown: disposed returns {buffered: false} *)
(* for what it never handled, so their ids stay seen.                          *)
NoEventLost == \A e \in arrived \ cutOff : ~Lost(e)

(* Between two events nothing readable is left in the buffer: every step that *)
(* makes a buffered event readable also retries it.                           *)
NoReadableLeftBehind ==
    pc = "idle" => \A e \in ToSet(futureBuffer) : ~Applies(e, group)

(* A message of the branch all commits lead to is handed to the application   *)
(* in the end, in whatever order the events come.                             *)
EventuallyRead == <>(Messages \subseteq dispatched)

=============================================================================
