---------------------------- MODULE DirectThread ----------------------------
(* What a device keeps of one direct conversation: the messages of            *)
(* chatPersistence.ts and the reactions of reactions/api.ts, each behind a     *)
(* promise queue, written by the open conversation (ContactChat.tsx), by the   *)
(* user's own messages and reactions, and wiped when the peer is blocked.      *)
(* A queued write is two steps, the read of the stored value and the write of  *)
(* the next one; what awaits the write goes on with the second.                *)
EXTENDS Naturals, Sequences, FiniteSets

CONSTANTS
    Texts,          \* the peer's messages
    Own,            \* the user's messages
    Adds, Removals, \* the peer's reactions, and those that take one back
    Emojis,
    Of,             \* the message a reaction is about
    EmojiOf,        \* the emoji of a reaction that adds one
    Named,          \* the emojis a removal names in its tags
    At,             \* created_at of the peer's rumors
    Before,         \* what an earlier session may have left in the store
    Me, Peer,
    Unread, Unsent, \* no read yet; the event id of a reaction not confirmed
    MaxViews,       \* bound: times the conversation is opened
    MaxActs,        \* bound: messages sent and clicks on a reaction
    MaxAtOnce,      \* bound: clicks on a reaction handled at a time
    MaxQueued,      \* bound: writes of live events queued at a time
    MaxBlocks,      \* bound: times the peer is blocked
    MaxFaults       \* bound: writes that fail and page loads

Rumors == Texts \cup Adds \cup Removals
Messages == Texts \cup Own
Queues == {"chat", "rows"}

ASSUME ThreadAssumption ==
    /\ Of \in [Adds \cup Removals -> Messages]
    /\ EmojiOf \in [Adds -> Emojis] /\ Named \in [Removals -> SUBSET Emojis]
    /\ At \in [Rumors -> Nat]
    /\ \A b \in Before :
         /\ b.chat \subseteq Texts
         /\ \A r \in b.rows :
              /\ r = [id |-> r.id, of |-> r.of, by |-> r.by, emoji |-> r.emoji,
                      event |-> r.event, removed |-> r.removed]
              /\ r.of \in b.chat /\ r.emoji \in Emojis /\ r.removed \in BOOLEAN
              /\ \/ r.by = Me /\ r.id = 0 /\ r.event = Unsent
                 \/ r.by = Peer /\ r.id \in Adds /\ r.event \in Adds \cup Removals
              /\ \A s \in b.rows : r.of = s.of /\ r.by = s.by /\ r.emoji = s.emoji => r = s
    /\ {MaxViews, MaxActs, MaxAtOnce, MaxQueued, MaxBlocks, MaxFaults} \subseteq Nat
    /\ Me # Peer /\ Unsent \notin Rumors /\ IsFiniteSet(Rumors)

VARIABLES
    disk,       \* IndexedDB: messages, reactions and whether their key is there; archivedAt
    queue,      \* the queued writes, and the last one of each queue
    views,      \* the conversation's views, in the order they were opened
    own,        \* the user's messages and reactions under way
    wipes,      \* the wipes under way
    past        \* counts of blocks and faults, and whether a write came too late for
                \* a wipe, or a wipe or the undoing of a reaction was lost in a fault

vars == <<disk, queue, views, own, wipes, past>>

(* A reaction as it is stored.                                                 *)
Row(i, m, p, e, ev, gone) ==
    [id |-> i, of |-> m, by |-> p, emoji |-> e, event |-> ev, removed |-> gone]
SameKey(r, s) == r.of = s.of /\ r.by = s.by /\ r.emoji = s.emoji

(* aggregateForMessage: what the badge counts                                  *)
Visible(rows, m, p, e) ==
    {r \in rows : r.of = m /\ r.by = p /\ r.emoji = e /\ ~r.removed}
Shown(m, p, e) == Visible(disk.rows, m, p, e) # {}

-----------------------------------------------------------------------------
(* The writes                                                                  *)

Job(op, m, e, i) == [op |-> op, of |-> m, emoji |-> e, id |-> i]

(* applyOptimistic, applyOptimisticRemoval, rollbackOptimistic                 *)
Inserted(rows, j) ==
    IF \E r \in rows : r.id = j.id THEN rows
    ELSE rows \cup {Row(j.id, j.of, Me, j.emoji, Unsent, FALSE)}
Flipped(rows, r, ev) == (rows \ {r}) \cup {[r EXCEPT !.removed = TRUE, !.event = ev]}
Taken(rows, j) ==
    LET mine == Visible(rows, j.of, Me, j.emoji) IN
    IF mine = {} THEN rows
    ELSE LET r == CHOOSE r \in mine : TRUE IN Flipped(rows, r, r.event)
(* Mutant: the row of a failed reaction stays.                                 *)
RolledBack_Never(rows, j) == rows
RolledBack(rows, j) == {r \in rows : r.id # j.id \/ r.event # Unsent}

(* applyInboundRumor: a removal takes the row it names, or the only one there  *)
(* is if it names none; one that names several takes none.                     *)
Targets(rows, x) ==
    LET theirs == {r \in rows : r.of = Of[x] /\ r.by = Peer /\ ~r.removed} IN
    CASE Cardinality(Named[x]) = 1 -> {r \in theirs : r.emoji \in Named[x]}
      [] Named[x] = {} /\ Cardinality(theirs) = 1 -> theirs
      [] OTHER -> {}
Tombstoned(rows, x) ==
    LET ts == Targets(rows, x) IN
    IF ts = {} THEN rows ELSE Flipped(rows, CHOOSE r \in ts : TRUE, x)

(* Mutant: a row that was removed is taken for none.                           *)
Matches_Visible(rows, a) == Visible(rows, Of[a], Peer, EmojiOf[a])
Matches(rows, a) ==
    {r \in rows : r.of = Of[a] /\ r.by = Peer /\ r.emoji = EmojiOf[a]}
(* Mutant: the reaction comes back.                                            *)
Upserted_Revives(rows, a) ==
    LET ms == Matches(rows, a) IN
    IF ms = {} THEN rows \cup {Row(a, Of[a], Peer, EmojiOf[a], a, FALSE)}
    ELSE {IF r \in ms THEN [r EXCEPT !.event = a, !.removed = FALSE] ELSE r : r \in rows}
Upserted(rows, a) ==
    LET ms == Matches(rows, a) IN
    IF ms = {} THEN rows \cup {Row(a, Of[a], Peer, EmojiOf[a], a, FALSE)}
    ELSE {IF r \in ms /\ ~r.removed THEN [r EXCEPT !.event = a] ELSE r : r \in rows}

Applied(rows, r) ==
    IF \E s \in rows : s.event = r THEN rows
    ELSE IF r \in Removals THEN Tombstoned(rows, r) ELSE Upserted(rows, r)

(* What the value read becomes; the same value is not written.                 *)
Result(t) ==
    CASE t.do.op = "append"   -> t.seen \cup {t.do.of}
      [] t.do.op = "inbound"  -> Applied(t.seen, t.do.of)
      [] t.do.op = "insert"   -> Inserted(t.seen, t.do)
      [] t.do.op = "take"     -> Taken(t.seen, t.do)
      [] t.do.op = "rollback" -> RolledBack(t.seen, t.do)

-----------------------------------------------------------------------------
(* The queues                                                                  *)

Numbers == {t.n : t \in queue.tasks}
Unused == CHOOSE n \in 1..(Cardinality(Numbers) + 1) : n \notin Numbers
By(who, n) == [who |-> who, n |-> n]

(* appendMessage, clearMessages, enqueue: the write waits for the last one     *)
(* Mutant: it waits for nothing.                                               *)
Enqueued_Unchained(on, job, by) ==
    [tasks |-> queue.tasks \cup
        {[n |-> Unused, on |-> on, after |-> 0, do |-> job, by |-> by, seen |-> Unread]},
     last |-> [queue.last EXCEPT ![on] = Unused]]
Enqueued(on, job, by) ==
    [tasks |-> queue.tasks \cup
        {[n |-> Unused, on |-> on, after |-> queue.last[on], do |-> job, by |-> by,
          seen |-> Unread]},
     last |-> [queue.last EXCEPT ![on] = Unused]]

(* A settled write frees the next.  Its handle goes if it is still the last    *)
(* one, that of a clear in any case.                                           *)
(* Mutant: what comes after it is not freed.                                   *)
Settled_Jammed(t) ==
    [tasks |-> queue.tasks \ {t},
     last |-> [queue.last EXCEPT ![t.on] = IF @ = t.n \/ t.do.op = "clear" THEN 0 ELSE @]]
(* Mutant: the handle of a write outlives it.                                  *)
Settled_Kept(t) ==
    [tasks |-> {[s EXCEPT !.after = IF @ = t.n THEN 0 ELSE @] : s \in queue.tasks \ {t}},
     last |-> queue.last]
Settled(t) ==
    [tasks |-> {[s EXCEPT !.after = IF @ = t.n THEN 0 ELSE @] : s \in queue.tasks \ {t}},
     last |-> [queue.last EXCEPT ![t.on] = IF @ = t.n \/ t.do.op = "clear" THEN 0 ELSE @]]

Pending(who, n) == \E t \in queue.tasks : t.by = By(who, n)

(* A write that the wipes cannot see: of what went on when the peer was        *)
(* blocked, or queued while a wipe runs.                                       *)
TooLate(enqueues, gated) ==
    [past EXCEPT !.late = @ \/ (enqueues /\ (wipes # {} \/ (disk.blocked /\ ~gated)))]

ReadStored(t) ==
    /\ t.after = 0 /\ t.seen = Unread /\ t.do.op # "clear"
    /\ LET value == IF t.on = "chat" THEN disk.chat ELSE disk.rows IN
       queue' = [queue EXCEPT !.tasks = (@ \ {t}) \cup {[t EXCEPT !.seen = value]}]
    /\ UNCHANGED <<disk, views, own, wipes, past>>

(* A view, with nothing fetched; and when nothing of it runs any longer.       *)
View(mounted, known, stage) ==
    [mounted |-> mounted, known |-> known, stage |-> stage, todo |-> <<>>, got |-> {},
     denied |-> FALSE, calm |-> FALSE, heard |-> {}]
Stopped(view) == View(view.mounted, IF view.mounted THEN view.known ELSE {}, "off")

(* What awaits the write: a view learns the id it stored, a message or a       *)
(* reaction of the user's goes on, a wipe goes on.                             *)
ViewsAfter(t) ==
    IF t.do.op = "append" /\ t.by.who \in {"pass", "live"}
    THEN [views EXCEPT ![t.by.n].known = @ \cup {t.do.of}]
    ELSE views
OwnAfter(t) ==
    CASE t.by.who = "send" -> [own EXCEPT !.sends[t.by.n] = "stored"]
      [] t.by.who = "react" ->
            [own EXCEPT !.ops = {IF o.n = t.by.n THEN [o EXCEPT !.stage = "publishing"]
                                 ELSE o : o \in @}]
      [] t.by.who = "undo" -> [own EXCEPT !.ops = {o \in @ : o.n # t.by.n}]
      [] OTHER -> own
WipesAfter(t) ==
    {IF t.by = By("wipe", w.n) THEN [w EXCEPT !.stage = "keys"]
     ELSE IF w.stage = "draining" /\ w.waits = t.n THEN [w EXCEPT !.waits = 0]
     ELSE w : w \in wipes}

WriteStored(t) ==
    /\ t.after = 0 /\ t.seen # Unread
    /\ disk' = IF Result(t) = t.seen THEN disk
               ELSE IF t.on = "chat" THEN [disk EXCEPT !.chat = Result(t)]
               ELSE [disk EXCEPT !.rows = Result(t), !.keyed = TRUE]
    /\ queue' = Settled(t) /\ views' = ViewsAfter(t) /\ own' = OwnAfter(t)
    /\ wipes' = WipesAfter(t)
    /\ UNCHANGED past

ClearMessages(t) ==
    /\ t.after = 0 /\ t.do.op = "clear"
    /\ disk' = [disk EXCEPT !.chat = {}]
    /\ queue' = Settled(t) /\ wipes' = WipesAfter(t)
    /\ UNCHANGED <<views, own, past>>

(* IndexedDB refuses: a history pass ends there, without a subscription; a     *)
(* message that was published is dropped; a reaction is not published; a wipe  *)
(* goes on.                                                                    *)
WriteFails(t) ==
    /\ t.after = 0 /\ past.faults < MaxFaults
    /\ queue' = Settled(t) /\ wipes' = WipesAfter(t)
    /\ views' = IF t.by.who = "pass" THEN [views EXCEPT ![t.by.n] = Stopped(@)] ELSE views
    /\ own' = CASE t.by.who = "send" -> [own EXCEPT !.sends[t.by.n] = "failed"]
                 [] t.by.who \in {"react", "undo"} ->
                       [own EXCEPT !.ops = {o \in @ : o.n # t.by.n}]
                 [] OTHER -> own
    /\ past' = [past EXCEPT !.faults = @ + 1,
                            !.late = @ \/ t.by.who \in {"wipe", "undo"}]
    /\ UNCHANGED disk

-----------------------------------------------------------------------------
(* The open conversation                                                       *)

(* What the relays may have: nobody reacts to a message that was not published. *)
Relayed ==
    Texts \cup {r \in Rumors \ Texts :
                   Of[r] \in Own => own.sends[Of[r]] \in {"storing", "stored"}}

(* A blocked contact's page shows no conversation.                             *)
Open ==
    /\ ~disk.blocked /\ Len(views) < MaxViews
    /\ \A v \in DOMAIN views : ~views[v].mounted
    /\ views' = Append(views, View(TRUE, disk.chat, "fetching"))
    /\ UNCHANGED <<disk, queue, own, wipes, past>>

(* The rumors fetched, sorted by created_at before they are applied            *)
(* Mutant: in the order they came.                                             *)
InOrder_Any(S) ==
    {s \in [1..Cardinality(S) -> S] : \A i, j \in DOMAIN s : i # j => s[i] # s[j]}
InOrder(S) ==
    {s \in [1..Cardinality(S) -> S] :
        \A i, j \in DOMAIN s : i < j => s[i] # s[j] /\ At[s[i]] <= At[s[j]]}

(* The history fetch returns what came before its timeout, or fails; who is    *)
(* blocked is read once, then.                                                 *)
FetchHistory(v) ==
    /\ views[v].stage = "fetching"
    /\ \/ views' = [views EXCEPT ![v] = Stopped(@)]
       \/ \E got \in SUBSET Relayed : \E s \in InOrder(got) :
            views' = [views EXCEPT ![v].stage = "pass", ![v].todo = s, ![v].got = got,
                                   ![v].denied = disk.blocked,
                                   ![v].calm = wipes = {} /\ ~disk.blocked]
    /\ UNCHANGED <<disk, queue, own, wipes, past>>

(* A reaction to a message the view does not know is dropped.                  *)
Accepts(v, r) == r \in Texts \/ Of[r] \in views[v].known
EnqueuedFor(who, v, r) ==
    IF r \in Texts THEN Enqueued("chat", Job("append", r, Unread, 0), By(who, v))
    ELSE Enqueued("rows", Job("inbound", r, Unread, 0), By(who, v))

ApplyHistorical(v) ==
    /\ views[v].stage = "pass" /\ ~Pending("pass", v) /\ views[v].todo # <<>>
    /\ LET r == Head(views[v].todo)
           takes == ~views[v].denied /\ Accepts(v, r)
       IN /\ views' = [views EXCEPT ![v].todo = Tail(@)]
          /\ queue' = IF takes THEN EnqueuedFor("pass", v, r) ELSE queue
          /\ past' = TooLate(takes, FALSE)
    /\ UNCHANGED <<disk, own, wipes>>

(* The view is reconciled with the store if it is still there, and subscribes  *)
(* in any case.                                                                *)
Subscribe(v) ==
    /\ views[v].stage = "pass" /\ ~Pending("pass", v) /\ views[v].todo = <<>>
    /\ LET stored == IF views[v].mounted THEN disk.chat ELSE {} IN
       views' = [views EXCEPT ![v] = View(@.mounted, @.known \cup stored, "live")]
    /\ UNCHANGED <<disk, queue, own, wipes, past>>

(* handleGiftWrapEvent: the subscription brings what is stored too, in any     *)
(* order; who is blocked is read for each.                                     *)
HandleGiftWrap(v, r) ==
    /\ views[v].stage = "live" /\ r \in Relayed \ views[v].heard
    /\ Cardinality({t \in queue.tasks : t.by.who = "live"}) < MaxQueued
    /\ LET takes == ~disk.blocked /\ Accepts(v, r) IN
       /\ queue' = IF takes THEN EnqueuedFor("live", v, r) ELSE queue
       /\ past' = TooLate(takes, TRUE)
    /\ views' = [views EXCEPT ![v].heard = @ \cup {r}]
    /\ UNCHANGED <<disk, own, wipes>>

Unmounted(view) ==
    LET gone == [view EXCEPT !.mounted = FALSE] IN
    IF view.stage = "off" \/ (view.stage = "live" /\ view.mounted) THEN Stopped(gone) ELSE gone
Close(v) ==
    /\ views[v].mounted
    /\ views' = [views EXCEPT ![v] = Unmounted(@)]
    /\ UNCHANGED <<disk, queue, own, wipes, past>>

-----------------------------------------------------------------------------
(* The user's own messages and reactions                                       *)

SendMessage(v, m) ==
    /\ views[v].mounted /\ own.sends[m] = "none" /\ own.acts < MaxActs
    /\ own' = [own EXCEPT !.sends[m] = "publishing", !.acts = @ + 1]
    /\ views' = [views EXCEPT ![v].known = @ \cup {m}]
    /\ UNCHANGED <<disk, queue, wipes, past>>

(* A message is stored once it is published; one that fails is gone.           *)
MessagePublished(m) ==
    /\ own.sends[m] = "publishing"
    /\ \/ /\ own' = [own EXCEPT !.sends[m] = "storing"]
          /\ queue' = Enqueued("chat", Job("append", m, Unread, 0), By("send", m))
          /\ past' = TooLate(TRUE, FALSE)
       \/ /\ own' = [own EXCEPT !.sends[m] = "failed"]
          /\ UNCHANGED <<queue, past>>
    /\ UNCHANGED <<disk, views, wipes>>

(* handleReact, with computeReactOp: a click takes back what is shown.         *)
HandleReact(v, m, e) ==
    /\ views[v].mounted /\ m \in views[v].known /\ (m \in Own => own.sends[m] # "failed")
    /\ own.acts < MaxActs /\ Cardinality(own.ops) < MaxAtOnce
    /\ own' = [own EXCEPT !.acts = @ + 1, !.ops = @ \cup
                 {[n |-> own.acts + 1, of |-> m, emoji |-> e,
                   op |-> IF Shown(m, Me, e) THEN "take" ELSE "insert",
                   stage |-> "connecting", calm |-> wipes = {}]}]
    /\ UNCHANGED <<disk, queue, views, wipes, past>>

(* The connection is there: the reaction is marked in the store.               *)
MarkReaction(o) ==
    /\ o.stage = "connecting"
    /\ own' = [own EXCEPT !.ops = (@ \ {o}) \cup {[o EXCEPT !.stage = "marking"]}]
    /\ queue' = Enqueued("rows", Job(o.op, o.of, o.emoji, o.n), By("react", o.n))
    /\ past' = TooLate(TRUE, FALSE)
    /\ UNCHANGED <<disk, views, wipes>>

(* A reaction whose removal is not published is inserted again, one that is    *)
(* not published is rolled back.                                               *)
ReactionPublished(o) ==
    /\ o.stage = "publishing"
    /\ \/ /\ own' = [own EXCEPT !.ops = @ \ {o}]
          /\ UNCHANGED <<queue, past>>
       \/ /\ own' = [own EXCEPT !.ops = (@ \ {o}) \cup {[o EXCEPT !.stage = "undoing"]}]
          /\ queue' = Enqueued("rows",
                         Job(IF o.op = "take" THEN "insert" ELSE "rollback", o.of, o.emoji, o.n),
                         By("undo", o.n))
          /\ past' = TooLate(TRUE, FALSE)
    /\ UNCHANGED <<disk, views, wipes>>

-----------------------------------------------------------------------------
(* Blocking                                                                    *)

(* performBlockContact: archived first, then wiped; the page drops the view.   *)
BlockContact ==
    /\ ~disk.blocked /\ past.blocks < MaxBlocks
    /\ disk' = [disk EXCEPT !.blocked = TRUE]
    /\ LET n == past.blocks + 1 IN
       /\ past' = [past EXCEPT !.blocks = n]
       /\ wipes' = wipes \cup {[n |-> n, stage |-> "clearing", waits |-> 0]}
       /\ queue' = Enqueued("chat", Job("clear", Unread, Unread, 0), By("wipe", n))
    /\ views' = [v \in DOMAIN views |-> [Unmounted(views[v]) EXCEPT !.calm = FALSE]]
    /\ own' = [own EXCEPT !.ops = {[o EXCEPT !.calm = FALSE] : o \in @}]

(* Mutant: the writes under way are not waited for.                            *)
Drains_Nothing == 0
Drains == queue.last["rows"]

(* clearDmReactionsForPeer: without a key there is nothing to wait for.        *)
FindReactionKeys(w) ==
    /\ w.stage = "keys"
    /\ wipes' = (wipes \ {w}) \cup
         (IF disk.keyed THEN {[w EXCEPT !.stage = "draining", !.waits = Drains]} ELSE {})
    /\ past' = [past EXCEPT !.late =
                  @ \/ (~disk.keyed /\ \E t \in queue.tasks : t.on = "rows")]
    /\ UNCHANGED <<disk, queue, views, own>>

DeleteReactions(w) ==
    /\ w.stage = "draining" /\ w.waits = 0
    /\ disk' = [disk EXCEPT !.rows = {}, !.keyed = FALSE]
    /\ queue' = [queue EXCEPT !.last["rows"] = 0]
    /\ wipes' = wipes \ {w}
    /\ UNCHANGED <<views, own, past>>

UnblockContact ==
    /\ disk.blocked
    /\ disk' = [disk EXCEPT !.blocked = FALSE]
    /\ UNCHANGED <<queue, views, own, wipes, past>>

(* A page load: everything but IndexedDB and localStorage is gone.             *)
Restart ==
    /\ past.faults < MaxFaults
    /\ past' = [past EXCEPT !.faults = @ + 1,
                            !.late = @ \/ wipes # {} \/ own.ops # {}]
    /\ queue' = [tasks |-> {}, last |-> [q \in Queues |-> 0]]
    /\ views' = [v \in DOMAIN views |-> View(FALSE, {}, "off")]
    /\ own' = [own EXCEPT !.ops = {},
                          !.sends = [m \in Own |-> IF @[m] \in {"publishing", "storing"}
                                                   THEN "failed" ELSE @[m]]]
    /\ wipes' = {}
    /\ UNCHANGED disk

-----------------------------------------------------------------------------
(* A row of the peer's says why it is as it is: which reaction gave the badge, *)
(* or which removal took it.                                                   *)
TrueRow(r) ==
    r.by = Peer =>
      IF r.removed
      THEN /\ r.event \in Removals /\ Of[r.event] = r.of
           /\ \A e \in Emojis : Named[r.event] = {e} => r.emoji = e
      ELSE r.event \in Adds /\ Of[r.event] = r.of /\ EmojiOf[r.event] = r.emoji

(* An event is of one kind; an earlier session wrote as this one does.         *)
ASSUME HistoryAssumption ==
    /\ Messages \cap (Adds \cup Removals) = {} /\ Adds \cap Removals = {}
    /\ \A b \in Before : \A r \in b.rows : TrueRow(r)

Init ==
    /\ \E b \in Before :
         disk = [chat |-> b.chat, rows |-> b.rows, keyed |-> b.rows # {}, blocked |-> FALSE]
    /\ queue = [tasks |-> {}, last |-> [q \in Queues |-> 0]]
    /\ views = <<>>
    /\ own = [sends |-> [m \in Own |-> "none"], ops |-> {}, acts |-> 0]
    /\ wipes = {}
    /\ past = [blocks |-> 0, faults |-> 0, late |-> FALSE]

Works ==
    \/ \E t \in queue.tasks : ReadStored(t) \/ WriteStored(t) \/ ClearMessages(t)
    \/ \E w \in wipes : FindReactionKeys(w) \/ DeleteReactions(w)
Chats(v) ==
    \/ FetchHistory(v) \/ ApplyHistorical(v) \/ Subscribe(v) \/ Close(v)
    \/ \E r \in Rumors : HandleGiftWrap(v, r)
Acts(v) ==
    \/ \E m \in Own : SendMessage(v, m)
    \/ \E m \in Messages, e \in Emojis : HandleReact(v, m, e)

Next ==
    \/ Works \/ (\E t \in queue.tasks : WriteFails(t)) \/ Open
    \/ \E v \in DOMAIN views : Chats(v) \/ Acts(v)
    \/ \E m \in Own : MessagePublished(m)
    \/ \E o \in own.ops : MarkReaction(o) \/ ReactionPublished(o)
    \/ BlockContact \/ UnblockContact \/ Restart

Spec == Init /\ [][Next]_vars

(* Promise jobs run and IndexedDB answers.                                     *)
FairSpec == Spec /\ WF_vars(Works)

-----------------------------------------------------------------------------
(* Properties                                                                  *)

Stages == {"fetching", "pass", "live", "off"}
RowOK(r) ==
    /\ r.of \in Messages /\ r.emoji \in Emojis /\ r.removed \in BOOLEAN
    /\ \/ r.by = Me /\ r.id \in 0..own.acts /\ r.event = Unsent
       \/ r.by = Peer /\ r.id \in Adds /\ r.event \in Adds \cup Removals
ViewOK(view) ==
    /\ view.known \subseteq Messages /\ view.stage \in Stages
    /\ view.todo \in Seq(view.got) /\ view.got \cup view.heard \subseteq Rumors
TaskOK(t) ==
    /\ t.after \in Numbers \cup {0} /\ t.on \in Queues
    /\ \A s \in queue.tasks : s.n = t.n => s = t

(* Type invariant.  Every task waits for one that is queued, every handle is a *)
(* queued task's, rows and views are made of what can be there.                *)
TypeOK ==
    /\ disk.chat \subseteq Messages
    /\ disk.blocked \in BOOLEAN /\ (disk.rows # {} => disk.keyed)
    /\ \A r \in disk.rows : RowOK(r)
    /\ \A t \in queue.tasks : TaskOK(t)
    /\ \A q \in Queues : queue.last[q] \in Numbers \cup {0}
    /\ Len(views) <= MaxViews /\ \A v \in DOMAIN views : ViewOK(views[v])
    /\ Cardinality({v \in DOMAIN views : views[v].mounted}) <= 1
    /\ own.acts <= MaxActs /\ \A o \in own.ops : o.n \in 1..own.acts
    /\ \A w \in wipes : w.n \in 1..past.blocks

(* A reaction of the peer is stored, and counted, once, whatever the history   *)
(* pass, the subscription and its redelivery bring and however they interleave *)
(* (applyInboundRumor).                                                        *)
PeerCountedOnce ==
    \A r, s \in disk.rows : r.by = Peer /\ SameKey(r, s) => r = s

(* A badge the peer has taken back does not come back in any later step: not   *)
(* by the reaction's redelivery behind its removal, not by a queued write with *)
(* an older value (applyInboundRumor, enqueue).                                *)
RemovalSticks ==
    [][~past'.late => \A r \in disk.rows :
           r.by = Peer /\ r.removed => ~Shown(r.of, Peer, r.emoji)']_vars

(* What came of a history: its messages are stored; a reaction newer than its  *)
(* message has its row; one that a newer removal takes back is not shown.      *)
Reflected(got) ==
    /\ got \cap Texts \subseteq disk.chat
    /\ \A a \in got \cap Adds :
         Of[a] \in got /\ At[Of[a]] < At[a] =>
           /\ Matches(disk.rows, a) # {}
           /\ \A x \in got \cap Removals :
                Of[x] = Of[a] /\ Named[x] = {EmojiOf[a]} /\ At[a] < At[x] =>
                    ~Shown(Of[a], Peer, EmojiOf[a])

(* When the history pass of a conversation ends, the store reflects what it    *)
(* had fetched, in spite of the live handlers of earlier views and of the      *)
(* user's own writes between, unless the peer was blocked meanwhile (init of   *)
(* ContactChat).                                                               *)
PassLeavesTruth ==
    [][\A v \in DOMAIN views :
         views[v].stage = "pass" /\ views'[v].stage = "live" /\ views[v].calm /\ ~past.late
            => Reflected(views[v].got)]_vars

(* No write undoes another: a message leaves the store in the clear of a wipe  *)
(* only, a reaction's row in the end of a wipe or in the rollback of the       *)
(* user's own reaction (appendMessage, enqueue).                               *)
NothingLost ==
    [][~past'.late =>
         /\ disk.chat \subseteq disk'.chat \/ \E w \in wipes : w.stage = "clearing"
         /\ \A r \in disk.rows :
              \/ \E s \in disk'.rows : s.id = r.id
              \/ \E w \in wipes : w.stage = "draining" /\ w \notin wipes'
              \/ r.by = Me /\ \E o \in own.ops : o.stage = "undoing" /\ o.n = r.id]_vars

(* The history of a blocked peer is gone once the wipe has ended, and stays    *)
(* gone: no write queued before the block survives it, and nothing comes in    *)
(* afterwards but what was under way past the check for blocked senders, which *)
(* past.late records (wipeSinglePeerHistory, shouldIngestDmFromSender).        *)
WipedStays ==
    disk.blocked /\ wipes = {} /\ ~past.late => disk.chat = {} /\ disk.rows = {}

(* A click on a reaction ends as the user sees it: switched if it was          *)
(* published, as it was if not, if clicks do not overlap and nothing was wiped *)
(* meanwhile (handleReact).                                                    *)
ClickCounts ==
    [][\A o \in own.ops :
         /\ \A p \in own'.ops : p.n # o.n
         /\ o.calm /\ ~past'.late
         => Shown(o.of, Me, o.emoji)' = ((o.op = "insert") = (o.stage = "publishing"))]_vars

(* A wipe comes to its end, whatever was queued before it and whichever write  *)
(* fails (wipeSinglePeerHistory).                                              *)
WipeEnds == wipes # {} ~> wipes = {}
=============================================================================
