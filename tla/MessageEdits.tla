---------------------------- MODULE MessageEdits ----------------------------
(***************************************************************************)
(* The edit/delete reconciliation core of one device                       *)
(* (src/app/src/lib/messageEdits/api.ts) together with the row store it     *)
(* writes (src/app/src/lib/marmot/chatPersistence.ts).                      *)
(*                                                                         *)
(* Delete and edit signals reach a device in any order, any number of       *)
(* times, before or after the message they are about.  A signal whose       *)
(* message is unknown waits in the pending buffer; past its TTL its effect  *)
(* is materialised (a delete becomes a marker, an edit becomes a row).  An  *)
(* API call is a sequence of separate IndexedDB commits: every action below *)
(* that changes a store commits exactly one of them, and the process can    *)
(* die between any two.  Calls are serialised by the module's one global    *)
(* queue, so a single program counter runs them; originals are appended     *)
(* through another queue, so an append may fall between any two steps.      *)
(***************************************************************************)
EXTENDS Integers, Sequences, FiniteSets, Functions

CONSTANTS
    Ids,        \* message ids a signal can target: originals and replacement ids
    Originals,  \* the ids under which chat rows are appended
    Pubkeys,    \* authors
    Threads,    \* conversations
    ThreadOf,   \* the conversation an id belongs to
    AuthorOf,   \* the authenticated author of each original
    Signals,    \* the delete and edit rumors that can be delivered
    Cap,        \* PENDING_SIGNAL_CAP, the bound of each auxiliary store
    TTL,        \* PENDING_SIGNAL_TTL_MS, in ticks of the clock
    MaxClock,   \* bound: the clock stops here
    MaxCrashes  \* bound: how often the process may die

(***************************************************************************)
(* A signal is a well-formed rumor after classifySignal: `targets` is the   *)
(* original id followed, for a delete, by the replacement ids of earlier    *)
(* edits; `rid` is the rumor's own id, comparable with < as hex strings     *)
(* are; `rev` is the sanitised revision.                                    *)
(***************************************************************************)
SignalType ==
    [kind : {"delete", "edit"}, rev : Nat \ {0}, rid : Nat \ {0},
     author : Pubkeys, targets : Seq(Ids) \ {<<>>}]

ASSUME ConstantsAssumption ==
    /\ Originals \subseteq Ids /\ IsFiniteSet(Ids)
    /\ ThreadOf \in [Ids -> Threads]
    /\ AuthorOf \in [Originals -> Pubkeys]
    /\ Cap \in Nat \ {0} /\ TTL \in Nat \ {0}
    /\ MaxClock \in Nat /\ MaxCrashes \in Nat

ASSUME SignalsAssumption ==
    /\ Signals \subseteq SignalType
    /\ \A s1, s2 \in Signals : s1.rid = s2.rid => s1 = s2

(* buildDeleteRumor: the original's id comes first, and the ids after it are  *)
(* those of replacement rumors, under which no row is ever appended.         *)
ASSUME TargetsAssumption ==
    \A s \in Signals : \A i \in DOMAIN s.targets : i # 1 => s.targets[i] \notin Originals

VARIABLES
    \* the persisted stores, each one IndexedDB key
    rows,       \* id -> chat row
    pending,    \* id -> buffered signal and the time it was received
    markers,    \* id -> revision and author of a materialised delete
    slotMeta,   \* id -> lastRumorId
    \* the running API call (lost in a crash)
    pc,         \* where the call is
    call,       \* which call it is
    known,      \* ids that had a row when the sweep loaded the messages
    cur,        \* the id being worked on
    inc,        \* the signal being applied to it
    ret,        \* where to continue after the slot-meta write
    todo,       \* target ids still to buffer
    resolveDue, \* appended originals whose resolve hook has not run (lost too)
    \* environment and history
    clock, crashes,
    accepted    \* signals whose applyDeleteEditSignal call has returned

stores == <<rows, pending, markers, slotMeta>>
regs   == <<pc, call, known, cur, inc, ret, todo>>
env    == <<resolveDue, clock, crashes, accepted>>
vars   == <<rows, pending, markers, slotMeta, pc, call, known, cur, inc, ret,
            todo, resolveDue, clock, crashes, accepted>>

Original == 0      \* `content` of a row that still shows the appended original
NoRid    == 0      \* the rumorId '' of a signal rebuilt from a marker
NoMeta   == -1     \* slotMeta has no record of the slot
Nowhere  == "nowhere"

Slot(s) == Head(s.targets)

(* Partial functions as key-value stores. *)
Put(f, k, v) == [x \in DOMAIN f \cup {k} |-> IF x = k THEN v ELSE f[x]]
Drop(f, S)   == Restrict(f, DOMAIN f \ S)
Empty        == [x \in {} |-> 0]

-----------------------------------------------------------------------------
(* Ordering of signals. *)

(* signalBeats: higher rev; at equal rev a delete, then the higher rumor id. *)
SignalBeats(a, b) ==
    \/ a.rev > b.rev
    \/ /\ a.rev = b.rev
       /\ a.kind = "delete" \/ (b.kind = "edit" /\ a.rid > b.rid)

LastRid(t) == IF t \in DOMAIN slotMeta THEN slotMeta[t] ELSE NoMeta

(* Mutants of WinsAt: a tie-break that never compares rumor ids, and a        *)
(* decision that never compares revisions.                                    *)
WinsAt_FirstEdit(t, i) ==
    /\ i.rid # LastRid(t)
    /\ i.rev > rows[t].rev \/ (i.rev = rows[t].rev /\ i.kind = "delete")
WinsAt_Latest(t, i) == i.rid # LastRid(t)

(* The decision of applyToKnownSlotCore: does i change the row of t? *)
WinsAt(t, i) ==
    /\ i.rid # LastRid(t)
    /\ \/ i.rev > rows[t].rev
       \/ /\ i.rev = rows[t].rev
          /\ \/ i.kind = "delete"
             \/ ~rows[t].tomb /\ i.rid > LastRid(t)

(* Mutant: the edit patch omits tombstoned:false. *)
RowAfter_MergeOnly(row, i) ==
    IF i.kind = "delete"
    THEN [row EXCEPT !.tomb = TRUE, !.rev = i.rev]
    ELSE [row EXCEPT !.rev = i.rev, !.content = i.rid]

(* tombstoneMessage and updateMessageInPlace: a tombstone keeps the content, *)
(* an edit clears the tombstone.                                            *)
RowAfter(row, i) ==
    IF i.kind = "delete"
    THEN [row EXCEPT !.tomb = TRUE, !.rev = i.rev]
    ELSE [row EXCEPT !.tomb = FALSE, !.rev = i.rev, !.content = i.rid]

Incoming(s)     == [kind |-> s.kind, rev |-> s.rev, rid |-> s.rid]
MarkerSignal(m) == [kind |-> "delete", rev |-> m.rev, rid |-> NoRid]
NoIncoming      == [kind |-> "none", rev |-> 0, rid |-> NoRid]

Expired(t) == clock - pending[t].at >= TTL

(* The ids whose buffered entry is the rumor rid (a delete buffers several). *)
EntriesOf(rid) == {t \in DOMAIN pending : pending[t].sig.rid = rid}

(* The stores after an insertion under the cap; which of the old entries of  *)
(* markers and slotMeta is the oldest is not tracked, any may be evicted.    *)
PutCapped(f, k, v) ==
    IF k \in DOMAIN f \/ Cardinality(DOMAIN f) < Cap
    THEN {Put(f, k, v)}
    ELSE {Put(Drop(f, {old}), k, v) : old \in DOMAIN f}

-----------------------------------------------------------------------------
NoCall == [op |-> "none"]

Init ==
    /\ rows = Empty /\ pending = Empty /\ markers = Empty /\ slotMeta = Empty
    /\ pc = "idle" /\ call = NoCall /\ known = {} /\ cur = Nowhere
    /\ inc = NoIncoming /\ ret = "idle" /\ todo = <<>>
    /\ resolveDue = {} /\ clock = 0 /\ crashes = 0 /\ accepted = {}

(* Mutant: the author of the buffered entry and marker is not compared. *)
Winner_AnyAuthor(t, author) ==
    LET p == Incoming(pending[t].sig)
        m == MarkerSignal(markers[t])
    IN  IF t \in DOMAIN markers /\ (t \in DOMAIN pending => SignalBeats(m, p)) THEN {m}
        ELSE IF t \in DOMAIN pending THEN {p} ELSE {}

(***************************************************************************)
(* resolveKnownRowAgainstStores: the buffered signal and the marker of a     *)
(* known row, each if it names the author; the stronger one is applied       *)
(* first, and only then are both entries removed.                            *)
(***************************************************************************)
Winner(t, author) ==
    LET buffered == t \in DOMAIN pending /\ pending[t].sig.author = author
        marked   == t \in DOMAIN markers /\ markers[t].author = author
        p == Incoming(pending[t].sig)
        m == MarkerSignal(markers[t])
    IN  IF marked /\ (buffered => SignalBeats(m, p)) THEN {m}
        ELSE IF buffered THEN {p} ELSE {}

ResolveKnown(t, author) ==
    /\ cur' = t
    /\ ret' = "unbuffer"
    /\ \/ \E w \in Winner(t, author) :
            /\ WinsAt(t, w)
            /\ rows' = [rows EXCEPT ![t] = RowAfter(@, w)]
            /\ inc' = w
            /\ pc' = "meta"
       \/ /\ \A w \in Winner(t, author) : ~WinsAt(t, w)
          /\ pc' = "unbuffer"
          /\ UNCHANGED <<rows, inc>>
    /\ UNCHANGED <<pending, markers, slotMeta, todo>>

(* writeSlotMeta, the separate commit that follows every row write. *)
WriteSlotMeta ==
    /\ pc = "meta"
    /\ slotMeta' \in PutCapped(slotMeta, cur, inc.rid)
    /\ pc' = ret
    /\ UNCHANGED <<rows, pending, markers, call, known, cur, inc, ret, todo, env>>

(* removePendingByRumorId: the entry and the siblings of the same rumor. *)
Unbuffer ==
    /\ pc = "unbuffer"
    /\ pending' = IF cur \in DOMAIN pending
                  THEN Drop(pending, EntriesOf(pending[cur].sig.rid))
                  ELSE pending
    /\ pc' = "unmark"
    /\ UNCHANGED <<rows, markers, slotMeta, call, known, cur, inc, ret, todo, env>>

(* A resolve call loads the messages for its sweep after its own slot. *)
Unmark ==
    /\ pc = "unmark"
    /\ markers' = Drop(markers, {cur})
    /\ known' = IF call.op = "resolve" /\ cur = call.slot THEN DOMAIN rows ELSE known
    /\ pc' = "sweep" /\ cur' = Nowhere /\ inc' = NoIncoming /\ ret' = "idle"
    /\ UNCHANGED <<rows, pending, slotMeta, call, todo, env>>

-----------------------------------------------------------------------------
(***************************************************************************)
(* sweepExpiredForThreadKeyLocked.  Phase 1 resolves every buffered entry    *)
(* and marker whose row was known when the messages were loaded; phase 2     *)
(* materialises the expired entries of the others, in array order: of two    *)
(* entries of one rumor the one buffered first, at equal times the original. *)
(***************************************************************************)
InSweep(t) ==
    /\ ThreadOf[t] = call.thread
    /\ call.op = "resolve" => t # call.slot

(* Mutant: phase 1 scans the markers only. *)
HealTargets_MarkersOnly == {t \in known : InSweep(t) /\ t \in DOMAIN markers}

HealTargets == {t \in known : InSweep(t) /\ t \in DOMAIN pending \cup DOMAIN markers}

ExpireTargets == {t \in DOMAIN pending \ known : InSweep(t) /\ Expired(t)}

SiblingBefore(u, t) ==
    /\ u # t /\ pending[u].sig = pending[t].sig
    /\ \/ pending[u].at < pending[t].at
       \/ pending[u].at = pending[t].at /\ u = Slot(pending[t].sig)

Heal(t) ==
    /\ pc = "sweep" /\ t \in HealTargets
    /\ ResolveKnown(t, rows[t].author)
    /\ UNCHANGED <<call, known, env>>

(* upsertMarker: a marker never regresses. *)
UpsertMarker(t, s) ==
    IF t \in DOMAIN markers /\ s.rev <= markers[t].rev
    THEN {markers}
    ELSE PutCapped(markers, t, [rev |-> s.rev, author |-> s.author])

(* Mutant: an expired edit does not ask for the marker. *)
Outranked_Unasked(t, s) == FALSE
Outranked(t, s) == t \in DOMAIN markers /\ markers[t].rev >= s.rev

MaterialisedRow(s) ==
    [author |-> s.author, rev |-> s.rev, tomb |-> FALSE, content |-> s.rid]

(* persistExpiredEntryEffect for a row unknown when the messages were loaded; *)
(* appendMessage itself inserts only if the row is absent when it runs.      *)
PersistEffect(t, s, next) ==
    /\ cur' = t /\ inc' = Incoming(s)
    /\ \/ /\ s.kind = "delete"
          /\ markers' \in UpsertMarker(t, s)
          /\ pc' = next
          /\ UNCHANGED <<rows, ret>>
       \/ /\ s.kind = "edit" /\ Outranked(t, s)
          /\ pc' = next
          /\ UNCHANGED <<rows, markers, ret>>
       \/ /\ s.kind = "edit" /\ ~Outranked(t, s)
          /\ rows' = IF t \in DOMAIN rows THEN rows ELSE Put(rows, t, MaterialisedRow(s))
          /\ pc' = "meta" /\ ret' = "supersede"
          /\ UNCHANGED markers
    /\ UNCHANGED <<pending, slotMeta>>

Expire(t) ==
    /\ pc = "sweep" /\ HealTargets = {} /\ t \in ExpireTargets
    /\ \A u \in ExpireTargets : ~SiblingBefore(u, t)
    /\ PersistEffect(t, pending[t].sig, "release")
    /\ UNCHANGED <<call, known, todo, env>>

(* An edit that outranked the marker removes it after materialising. *)
Supersede ==
    /\ pc = "supersede"
    /\ markers' = Drop(markers, {cur})
    /\ pc' = IF todo = <<>> THEN "release" ELSE "swap"
    /\ UNCHANGED <<rows, pending, slotMeta, call, known, cur, inc, ret, todo, env>>

Release ==
    /\ pc = "release"
    /\ pending' = Drop(pending, EntriesOf(inc.rid))
    /\ pc' = "sweep" /\ cur' = Nowhere /\ inc' = NoIncoming /\ ret' = "idle"
    /\ UNCHANGED <<rows, markers, slotMeta, call, known, todo, env>>

EndSweep ==
    /\ pc = "sweep" /\ HealTargets = {} /\ ExpireTargets = {}
    /\ known' = {}
    /\ IF call.op = "apply"
       THEN pc' = "main" /\ UNCHANGED call
       ELSE pc' = "idle" /\ call' = NoCall
    /\ UNCHANGED <<stores, cur, inc, ret, todo, env>>

-----------------------------------------------------------------------------
(* applyDeleteEditSignal after its sweep and its classification. *)

KnownTargets(s) == {i \in DOMAIN s.targets : s.targets[i] \in DOMAIN rows}

StartApply(s) ==
    /\ pc = "idle"
    /\ pc' = "sweep"
    /\ call' = [op |-> "apply", thread |-> ThreadOf[Slot(s)], sig |-> s]
    /\ known' = DOMAIN rows
    /\ UNCHANGED <<stores, cur, inc, ret, todo, env>>

(* The row of the first target that has one is the slot. *)
ApplyToKnownSlot ==
    /\ pc = "main"
    /\ \E i \in KnownTargets(call.sig) :
          LET s == call.sig
              t == s.targets[i]
          IN  /\ \A j \in KnownTargets(s) : i <= j
              /\ IF s.author = rows[t].author /\ WinsAt(t, Incoming(s))
                 THEN /\ rows' = [rows EXCEPT ![t] = RowAfter(@, Incoming(s))]
                      /\ cur' = t /\ inc' = Incoming(s)
                      /\ pc' = "meta" /\ ret' = "done"
                 ELSE /\ pc' = "done"
                      /\ UNCHANGED <<rows, cur, inc, ret>>
    /\ UNCHANGED <<pending, markers, slotMeta, call, known, todo, env>>

BufferSignal ==
    /\ pc = "main" /\ KnownTargets(call.sig) = {}
    /\ todo' = call.sig.targets
    /\ pc' = "insert"
    /\ UNCHANGED <<stores, call, known, cur, inc, ret, env>>

(* insertOrCollapsePending, one target id and one commit at a time. *)
Candidate == [sig |-> call.sig, at |-> clock]

(* Mutant: the latest arrival replaces the entry. *)
Collapses_Latest(t) == pending[t].sig.rid # call.sig.rid

Collapses(t) ==
    /\ pending[t].sig.rid # call.sig.rid
    /\ SignalBeats(call.sig, pending[t].sig)

NextTarget ==
    /\ todo' = Tail(todo)
    /\ pc' = IF Tail(todo) = <<>> THEN "done" ELSE "insert"

Insert ==
    /\ pc = "insert"
    /\ LET t == Head(todo)
       IN  /\ t \in DOMAIN pending \/ Cardinality(DOMAIN pending) < Cap
           /\ pending' = IF t \in DOMAIN pending /\ ~Collapses(t)
                         THEN pending ELSE Put(pending, t, Candidate)
    /\ NextTarget
    /\ UNCHANGED <<rows, markers, slotMeta, call, known, cur, inc, ret, env>>

(* evictOldestPendingIfOverCap: the oldest entry makes room; an expired one   *)
(* has its effect persisted first, an unexpired one is dropped bare.         *)
Oldest == {t \in DOMAIN pending : \A u \in DOMAIN pending : pending[t].at <= pending[u].at}

AtCap == pc = "insert" /\ Head(todo) \notin DOMAIN pending /\ Cardinality(DOMAIN pending) >= Cap

(* Mutant: an expired entry is dropped as bare as any other. *)
EvictBare_Expired(v) ==
    /\ AtCap /\ v \in Oldest
    /\ pending' = Put(Drop(pending, {v}), Head(todo), Candidate)
    /\ NextTarget
    /\ UNCHANGED <<rows, markers, slotMeta, call, known, cur, inc, ret, env>>

EvictBare(v) ==
    /\ AtCap /\ v \in Oldest /\ ~Expired(v)
    /\ pending' = Put(Drop(pending, {v}), Head(todo), Candidate)
    /\ NextTarget
    /\ UNCHANGED <<rows, markers, slotMeta, call, known, cur, inc, ret, env>>

EvictExpired(v) ==
    /\ AtCap /\ v \in Oldest /\ Expired(v)
    /\ cur' = v /\ known' = DOMAIN rows
    /\ pc' = "evict"
    /\ UNCHANGED <<stores, call, inc, ret, todo, env>>

PersistEvicted ==
    /\ pc = "evict"
    /\ LET s == pending[cur].sig
       IN  IF cur \notin known
           THEN PersistEffect(cur, s, "swap")
           ELSE /\ IF /\ s.author = rows[cur].author
                      /\ ~(s.kind = "edit" /\ Outranked(cur, s))
                      /\ WinsAt(cur, Incoming(s))
                   THEN /\ rows' = [rows EXCEPT ![cur] = RowAfter(@, Incoming(s))]
                        /\ inc' = Incoming(s)
                        /\ pc' = "meta" /\ ret' = "swap"
                   ELSE pc' = "swap" /\ UNCHANGED <<rows, inc, ret>>
                /\ UNCHANGED <<pending, markers, slotMeta, cur>>
    /\ UNCHANGED <<call, known, todo, env>>

Swap ==
    /\ pc = "swap"
    /\ pending' = Put(Drop(pending, {cur}), Head(todo), Candidate)
    /\ NextTarget
    /\ cur' = Nowhere /\ inc' = NoIncoming /\ ret' = "idle" /\ known' = {}
    /\ UNCHANGED <<rows, markers, slotMeta, call, env>>

Done ==
    /\ pc = "done"
    /\ accepted' = accepted \cup {call.sig}
    /\ pc' = "idle" /\ call' = NoCall
    /\ cur' = Nowhere /\ inc' = NoIncoming /\ ret' = "idle"
    /\ UNCHANGED <<stores, known, todo, resolveDue, clock, crashes>>

-----------------------------------------------------------------------------
(* The callers and the environment. *)

(* The chat handler appends an original, or finds its row already there, and *)
(* in either case goes on to call the resolve hook.                          *)
AppendOriginal(t) ==
    /\ t \notin resolveDue
    /\ rows' = IF t \in DOMAIN rows THEN rows
               ELSE Put(rows, t, [author |-> AuthorOf[t], rev |-> 0,
                                  tomb |-> FALSE, content |-> Original])
    /\ resolveDue' = resolveDue \cup {t}
    /\ UNCHANGED <<pending, markers, slotMeta, regs, clock, crashes, accepted>>

(* resolvePendingSignalsForSlot: the slot itself first, then the sweep. *)
StartResolve(t) ==
    /\ pc = "idle" /\ t \in resolveDue
    /\ call' = [op |-> "resolve", thread |-> ThreadOf[t], slot |-> t]
    /\ ResolveKnown(t, AuthorOf[t])
    /\ resolveDue' = resolveDue \ {t}
    /\ UNCHANGED <<known, clock, crashes, accepted>>

(* resolvePendingSignalsForSlot with an id that has no row, as a thread being *)
(* opened calls it: only the sweep runs.  A discarded rumor does the same.    *)
OpenThread(th) ==
    /\ pc = "idle"
    /\ pc' = "sweep"
    /\ call' = [op |-> "open", thread |-> th]
    /\ known' = DOMAIN rows
    /\ UNCHANGED <<stores, cur, inc, ret, todo, env>>

Tick ==
    /\ clock < MaxClock
    /\ clock' = clock + 1
    /\ UNCHANGED <<stores, regs, resolveDue, crashes, accepted>>

(* The tab is closed or dies: the persisted stores survive, nothing else.    *)
Crash ==
    /\ crashes < MaxCrashes
    /\ crashes' = crashes + 1
    /\ pc' = "idle" /\ call' = NoCall /\ known' = {} /\ cur' = Nowhere
    /\ inc' = NoIncoming /\ ret' = "idle" /\ todo' = <<>>
    /\ resolveDue' = {}
    /\ UNCHANGED <<stores, clock, accepted>>

CallStep ==
    \/ WriteSlotMeta \/ Unbuffer \/ Unmark
    \/ \E t \in Ids : Heal(t) \/ Expire(t)
    \/ Supersede \/ Release \/ EndSweep
    \/ ApplyToKnownSlot \/ BufferSignal \/ Insert
    \/ \E v \in Ids : EvictBare(v) \/ EvictExpired(v)
    \/ PersistEvicted \/ Swap \/ Done

Next ==
    \/ CallStep
    \/ \E s \in Signals : StartApply(s)
    \/ \E t \in Originals : AppendOriginal(t) \/ StartResolve(t)
    \/ \E th \in Threads : OpenThread(th)
    \/ Tick \/ Crash

Spec == Init /\ [][Next]_vars

(* A started call runs on; the promise queue is first-in first-out, so an    *)
(* owed resolve gets its turn; and threads keep being opened.                *)
FairSpec ==
    /\ Spec
    /\ WF_vars(CallStep)
    /\ \A t \in Originals : SF_vars(StartResolve(t))
    /\ \A th \in Threads : SF_vars(OpenThread(th))

-----------------------------------------------------------------------------
RowType    == [author : Pubkeys, rev : Nat, tomb : BOOLEAN, content : Nat]
EntryType  == [sig : Signals, at : 0..MaxClock]
MarkerType == [rev : Nat \ {0}, author : Pubkeys]
IncType    == [kind : {"delete", "edit", "none"}, rev : Nat, rid : Nat]
CallType   == {NoCall}
              \cup [op : {"apply"}, thread : Threads, sig : Signals]
              \cup [op : {"resolve"}, thread : Threads, slot : Originals]
              \cup [op : {"open"}, thread : Threads]

StoresType ==
    /\ DOMAIN rows \subseteq Ids /\ rows \in [DOMAIN rows -> RowType]
    /\ DOMAIN pending \subseteq Ids /\ pending \in [DOMAIN pending -> EntryType]
    /\ DOMAIN markers \subseteq Ids /\ markers \in [DOMAIN markers -> MarkerType]
    /\ DOMAIN slotMeta \subseteq Ids /\ slotMeta \in [DOMAIN slotMeta -> Nat]

CallTypeOK ==
    /\ pc \in {"idle", "sweep", "meta", "unbuffer", "unmark", "supersede", "release",
               "main", "insert", "evict", "swap", "done"}
    /\ call \in CallType
    /\ known \subseteq DOMAIN rows
    /\ cur \in Ids \cup {Nowhere} /\ inc \in IncType
    /\ ret \in {"idle", "unbuffer", "supersede", "swap", "done"}
    /\ todo \in Seq(Ids)

EnvType ==
    /\ resolveDue \subseteq Originals \cap DOMAIN rows
    /\ clock \in 0..MaxClock /\ crashes \in 0..MaxCrashes
    /\ accepted \subseteq Signals

StepNeeds ==
    /\ pc = "idle" <=> call.op = "none"
    /\ pc \in {"main", "insert", "evict", "swap", "done"} => call.op = "apply"
    /\ pc \in {"meta", "unbuffer", "unmark", "supersede", "release", "swap"} => cur \in Ids
    /\ pc \in {"insert", "evict", "swap"} \/ (pc = "meta" /\ ret = "swap") => todo # <<>>
    /\ todo # <<>> \/ ret \in {"swap", "done"} => call.op = "apply"
    /\ pc \in {"idle", "sweep", "unbuffer", "unmark", "release", "main", "done"} => todo = <<>>
    /\ pc = "meta" /\ ret \in {"unbuffer", "done"} => todo = <<>>
    /\ pc = "meta" => ret # "idle"
    /\ pc = "evict" => cur \in DOMAIN pending

(* Every store is keyed by ids and holds values of its own kind, and each    *)
(* step of a call finds the registers that step needs.                       *)
TypeOK == StoresType /\ CallTypeOK /\ EnvType /\ StepNeeds

(***************************************************************************)
(* Safety.                                                                  *)
(***************************************************************************)

(* What the device still remembers of a signal s about its slot: the row     *)
(* shows s or something that outranks it, or the buffer or the marker does.  *)
ByRow(s) ==
    LET t == Slot(s)
    IN  /\ t \in DOMAIN rows
        /\ \/ rows[t].rev > s.rev
           \/ /\ rows[t].rev = s.rev
              /\ rows[t].tomb \/ (s.kind = "edit" /\ rows[t].content >= s.rid)

ByBuffer(s) ==
    LET t == Slot(s)
    IN  t \in DOMAIN pending /\ (pending[t].sig = s \/ SignalBeats(pending[t].sig, s))

ByMarker(s) ==
    LET t == Slot(s)
    IN  t \in DOMAIN markers /\ SignalBeats(MarkerSignal(markers[t]), s)

Remembered(s) == ByRow(s) \/ ByBuffer(s) \/ ByMarker(s)

ByItsAuthor(s) == Slot(s) \in Originals /\ s.author = AuthorOf[Slot(s)]

(* No signal by its message's author that the device has taken in is         *)
(* forgotten, at any step of any later call and across a crash between any   *)
(* two commits: the persist-before-remove order of the code.                 *)
NoSignalForgotten == \A s \in accepted : ByItsAuthor(s) => Remembered(s)

(* A delete that no edit of the same message outranks.                       *)
Final(s) ==
    /\ s.kind = "delete"
    /\ \A e \in Signals : e.kind = "edit" /\ Slot(e) = Slot(s) => ~SignalBeats(e, s)

(* ... in particular an author's retraction survives expiry, re-delivery of  *)
(* the original, later edits, sibling clean-up and crashes.                  *)
RetractionSticks == \A s \in accepted : ByItsAuthor(s) /\ Final(s) => Remembered(s)

(* The convergence the docs promise: with no call running and nothing left   *)
(* to resolve, a message shows the outcome of the highest signal of its      *)
(* author, whatever the order in which original, deletes and edits arrived.  *)
Settled(t) ==
    /\ pc = "idle" /\ t \notin resolveDue /\ t \in DOMAIN rows
    /\ t \notin DOMAIN pending \cup DOMAIN markers
    /\ {s \in Signals : ByItsAuthor(s) /\ Slot(s) = t} \subseteq accepted

ShowsOutcomeOf(row, s) ==
    /\ row.rev = s.rev
    /\ row.tomb = (s.kind = "delete")
    /\ s.kind = "edit" => row.content = s.rid

Converged ==
    \A t \in Originals : Settled(t) =>
        LET mine == {s \in Signals : ByItsAuthor(s) /\ Slot(s) = t}
        IN  mine # {} => \E s \in mine :
                /\ \A o \in mine : o = s \/ SignalBeats(s, o)
                /\ ShowsOutcomeOf(rows[t], s)

(* Both: what an author has signed is never forgotten, and decides in the end. *)
SignalsPrevail == NoSignalForgotten /\ Converged

(* A row shows only what its own author signed: whatever a signal went       *)
(* through (buffer, marker, materialised row), it never changes the row of   *)
(* another author.                                                           *)
OnlyItsAuthorChangesARow ==
    \A t \in DOMAIN rows : rows[t].rev > 0 =>
        \E s \in Signals :
            /\ t \in {s.targets[i] : i \in DOMAIN s.targets}
            /\ s.author = rows[t].author /\ s.rev = rows[t].rev
            /\ IF rows[t].tomb THEN s.kind = "delete"
               ELSE s.kind = "edit" /\ rows[t].content = s.rid

(* A row's revision never falls, a row never disappears, and a retracted     *)
(* message is shown again only by a strictly newer edit.                     *)
RowsOnlyAdvance ==
    [][\A t \in DOMAIN rows :
          /\ t \in DOMAIN rows'
          /\ rows'[t].rev >= rows[t].rev
          /\ rows[t].tomb /\ ~rows'[t].tomb => rows'[t].rev > rows[t].rev]_vars

(* An expired delete leaves the buffer only when its effect is durable: the  *)
(* row is tombstoned or newer, a marker stands, or the row has another       *)
(* author.  In-buffer replacement by a stronger signal is not leaving.       *)
ExpiredDeleteIsPersisted ==
    [][\A t \in DOMAIN pending \cap Originals : \A s \in Signals :
          /\ pending[t].sig = s /\ s.kind = "delete" /\ Slot(s) = t
          /\ Expired(t) /\ t \notin DOMAIN pending'
          => \/ ByRow(s)' \/ ByMarker(s)'
             \/ t \in DOMAIN rows /\ rows[t].author # s.author]_vars

(* A marker of a message's author, all that is left of an expired delete,    *)
(* goes only once the row shows that delete or something newer, unless the    *)
(* row is another author's or a later marker pushes it out.  Left out is the  *)
(* edit that is lost when the original is appended while the edit is          *)
(* materialised: the record names it, the row has not taken it.              *)
ShowsMarked(t) ==
    /\ t \in DOMAIN rows
    /\ \/ rows[t].author # AuthorOf[t]
       \/ rows[t].rev > markers[t].rev
       \/ rows[t].rev = markers[t].rev /\ rows[t].tomb

LostEdit(t) ==
    /\ t \in DOMAIN rows
    /\ \E e \in Signals : e.kind = "edit" /\ e.rid = LastRid(t) /\ e.rev > rows[t].rev

MarkersStand ==
    [][\A t \in DOMAIN markers \cap Originals :
          markers[t].author = AuthorOf[t] /\ t \notin DOMAIN markers'
          => ShowsMarked(t) \/ LostEdit(t) \/ ~(DOMAIN markers' \subseteq DOMAIN markers)]_vars

(***************************************************************************)
(* Liveness.                                                                *)
(***************************************************************************)

(* A signal buffered for a message that has arrived is applied, whatever     *)
(* call was cut short by a crash: the sweep heals it.                        *)
BufferedIsApplied ==
    \A t \in Originals :
        (t \in DOMAIN rows /\ t \in DOMAIN pending) ~> t \notin DOMAIN pending

=============================================================================
