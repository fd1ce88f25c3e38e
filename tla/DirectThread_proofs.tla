------------------------ MODULE DirectThread_proofs ------------------------
(* For all messages, reactions and bounds: a reaction of the peer is stored    *)
(* once (PeerCountedOnce), a wiped history stays gone (WipedStays), what the   *)
(* peer took back stays so (RemovalSticks), no write undoes another           *)
(* (NothingLost), a click ends as it should (ClickCounts), a history pass      *)
(* leaves the store as what it fetched has it (PassLeavesTruth), and TypeOK.   *)
EXTENDS DirectThread, FiniteSetTheorems, FunctionTheorems, TLAPS

(* A row, a task and a click are the records their makers made.                *)
RowShape(r) == r = Row(r.id, r.of, r.by, r.emoji, r.event, r.removed)
TaskShape(t) ==
    t = [n |-> t.n, on |-> t.on, after |-> t.after, do |-> t.do, by |-> t.by, seen |-> t.seen]
ClickShape(o) ==
    o = [n |-> o.n, of |-> o.of, emoji |-> o.emoji, op |-> o.op, stage |-> o.stage,
         calm |-> o.calm]

(* Rows with no two of the peer's for one badge                                *)
Once(rows) ==
    /\ \A r \in rows : RowShape(r)
    /\ \A r, s \in rows : r.by = Peer /\ SameKey(r, s) => r = s

(* A write on the reactions is one of theirs, and what it has read is such.    *)
RowOps == {"inbound", "insert", "take", "rollback"}
Sound(t) ==
    /\ TaskShape(t)
    /\ t.on # "chat" => t.do.op \in RowOps /\ (t.seen # Unread => Once(t.seen))
Clicked(o) == ClickShape(o) /\ o.op \in {"insert", "take"}

(* The inductive invariant                                                     *)
DiskInv ==
    /\ disk = [chat |-> disk.chat, rows |-> disk.rows, keyed |-> disk.keyed,
               blocked |-> disk.blocked]
    /\ Once(disk.rows)
QueueInv ==
    /\ queue = [tasks |-> queue.tasks, last |-> queue.last]
    /\ \A t \in queue.tasks : Sound(t)
OwnInv ==
    /\ own = [sends |-> own.sends, ops |-> own.ops, acts |-> own.acts]
    /\ \A o \in own.ops : Clicked(o)
OnceInv == DiskInv /\ QueueInv /\ OwnInv

-----------------------------------------------------------------------------
(* The functions that enqueue is given keep rows such.                         *)

LEMMA Rewritten ==
    ASSUME NEW r, RowShape(r), NEW b, NEW ev
    PROVE  [r EXCEPT !.removed = b, !.event = ev] = Row(r.id, r.of, r.by, r.emoji, ev, b)
<1> DEFINE g == [r EXCEPT !.removed = b]
<1>1. g = Row(r.id, r.of, r.by, r.emoji, r.event, b)
  BY DEF RowShape, Row
<1>2. [g EXCEPT !.event = ev] = Row(r.id, r.of, r.by, r.emoji, ev, b)
  <2> HIDE DEF g
  <2> QED
    BY <1>1 DEF Row
<1> QED
  BY <1>2

(* A row that is marked as removed keeps its key.                              *)
LEMMA FlippedOnce ==
    ASSUME NEW rows, NEW r \in rows, NEW ev, Once(rows)
    PROVE  Once(Flipped(rows, r, ev))
<1> DEFINE f == [r EXCEPT !.removed = TRUE, !.event = ev]
<1>1. RowShape(r)
  BY DEF Once
<1>2. f = Row(r.id, r.of, r.by, r.emoji, ev, TRUE)
  BY <1>1, Rewritten
<1>3. RowShape(f) /\ SameKey(f, r)
  BY <1>2 DEF RowShape, Row, SameKey
<1> HIDE DEF f
<1>4. Flipped(rows, r, ev) = (rows \ {r}) \cup {f}
  BY DEF Flipped, f
<1> QED
  BY <1>3, <1>4 DEF Once, SameKey

(* A reaction of the user's is no second one of the peer's.                    *)
LEMMA InsertedOnce ==
    ASSUME NEW rows, NEW j, Once(rows)
    PROVE  Once(Inserted(rows, j))
<1> DEFINE f == Row(j.id, j.of, Me, j.emoji, Unsent, FALSE)
<1>1. RowShape(f) /\ f.by = Me
  BY DEF RowShape, Row
<1>2. Me # Peer
  BY ThreadAssumption
<1> HIDE DEF f
<1>3. Inserted(rows, j) = rows \/ Inserted(rows, j) = rows \cup {f}
  BY DEF Inserted, f
<1> QED
  BY <1>1, <1>2, <1>3 DEF Once, SameKey

LEMMA TakenOnce ==
    ASSUME NEW rows, NEW j, Once(rows)
    PROVE  Once(Taken(rows, j))
<1> DEFINE mine == Visible(rows, j.of, Me, j.emoji)
           r == CHOOSE r \in mine : TRUE
<1>1. CASE mine = {}
  BY <1>1 DEF Taken
<1>2. CASE mine # {}
  <2>1. r \in rows
    BY <1>2 DEF Visible
  <2>2. Taken(rows, j) = Flipped(rows, r, r.event)
    BY <1>2 DEF Taken
  <2> HIDE DEF r
  <2> QED
    BY <2>1, <2>2, FlippedOnce
<1> QED
  BY <1>1, <1>2

LEMMA RolledBackOnce ==
    ASSUME NEW rows, NEW j, Once(rows)
    PROVE  Once(RolledBack(rows, j))
BY DEF RolledBack, Once

LEMMA TombstonedOnce ==
    ASSUME NEW rows, NEW x, Once(rows)
    PROVE  Once(Tombstoned(rows, x))
<1> DEFINE ts == Targets(rows, x)
           r == CHOOSE r \in ts : TRUE
<1>0. ts \subseteq rows
  BY DEF Targets
<1>1. CASE ts = {}
  BY <1>1 DEF Tombstoned
<1>2. CASE ts # {}
  <2>1. r \in rows
    BY <1>0, <1>2
  <2>2. Tombstoned(rows, x) = Flipped(rows, r, x)
    BY <1>2 DEF Tombstoned
  <2> HIDE DEF r
  <2> QED
    BY <2>1, <2>2, FlippedOnce
<1> QED
  BY <1>1, <1>2

(* A reaction that comes makes a row only where its badge has none.            *)
LEMMA UpsertedOnce ==
    ASSUME NEW rows, NEW a, Once(rows)
    PROVE  Once(Upserted(rows, a))
<1> DEFINE ms == Matches(rows, a)
           f == Row(a, Of[a], Peer, EmojiOf[a], a, FALSE)
           g(r) == IF r \in ms /\ ~r.removed THEN [r EXCEPT !.event = a] ELSE r
<1>1. CASE ms = {}
  <2>1. Upserted(rows, a) = rows \cup {f}
    BY <1>1 DEF Upserted
  <2>2. RowShape(f) /\ f.by = Peer /\ f.of = Of[a] /\ f.emoji = EmojiOf[a]
    BY DEF RowShape, Row
  <2>3. \A r \in rows : ~(r.of = Of[a] /\ r.by = Peer /\ r.emoji = EmojiOf[a])
    BY <1>1 DEF Matches
  <2> HIDE DEF f
  <2> QED
    BY <2>1, <2>2, <2>3 DEF Once, SameKey
<1>2. CASE ms # {}
  <2>1. Upserted(rows, a) = {g(r) : r \in rows}
    BY <1>2 DEF Upserted
  <2>2. \A r \in rows : RowShape(g(r)) /\ SameKey(g(r), r)
    <3> SUFFICES ASSUME NEW r \in rows PROVE RowShape(g(r)) /\ SameKey(g(r), r)
      OBVIOUS
    <3>1. RowShape(r)
      BY DEF Once
    <3>2. [r EXCEPT !.event = a] = Row(r.id, r.of, r.by, r.emoji, a, r.removed)
      BY <3>1 DEF RowShape, Row
    <3>3. RowShape([r EXCEPT !.event = a]) /\ SameKey([r EXCEPT !.event = a], r)
      BY <3>2 DEF RowShape, Row, SameKey
    <3> QED
      BY <3>1, <3>3 DEF SameKey
  <2> HIDE DEF g
  <2> QED
    BY <2>1, <2>2 DEF Once, SameKey
<1> QED
  BY <1>1, <1>2

LEMMA ResultOnce ==
    ASSUME NEW t, t.do.op \in RowOps, Once(t.seen)
    PROVE  Once(Result(t))
<1>1. Once(Applied(t.seen, t.do.of))
  BY TombstonedOnce, UpsertedOnce DEF Applied
<1> QED
  BY <1>1, InsertedOnce, TakenOnce, RolledBackOnce DEF Result, RowOps

-----------------------------------------------------------------------------
(* The queues                                                                  *)

(* What is queued has read nothing yet.                                        *)
LEMMA EnqueuedSound ==
    ASSUME QueueInv, NEW on, NEW job, NEW by, on # "chat" => job.op \in RowOps,
           queue' = Enqueued(on, job, by)
    PROVE  QueueInv'
<1> DEFINE t0 == [n |-> Unused, on |-> on, after |-> queue.last[on], do |-> job, by |-> by,
                  seen |-> Unread]
           last0 == [queue.last EXCEPT ![on] = Unused]
<1>1. Sound(t0)
  BY DEF Sound, TaskShape
<1>2. queue' = [tasks |-> queue.tasks \cup {t0}, last |-> last0]
  BY DEF Enqueued
<1> HIDE DEF t0, last0
<1>3. queue'.tasks = queue.tasks \cup {t0} /\ queue'.last = last0
  BY <1>2
<1> QED
  BY <1>1, <1>2, <1>3 DEF QueueInv, Sound, TaskShape

(* A settled write changes nothing of the others but what they wait for.       *)
LEMMA SettledSound ==
    ASSUME QueueInv, NEW t \in queue.tasks, queue' = Settled(t)
    PROVE  QueueInv'
<1> DEFINE f(s) == [s EXCEPT !.after = IF @ = t.n THEN 0 ELSE @]
           last0 == [queue.last EXCEPT ![t.on] = IF @ = t.n \/ t.do.op = "clear" THEN 0 ELSE @]
<1>1. queue' = [tasks |-> {f(s) : s \in queue.tasks \ {t}}, last |-> last0]
  BY DEF Settled
<1>2. ASSUME NEW s \in queue.tasks
      PROVE  Sound(f(s))
  <2>1. Sound(s) /\ TaskShape(s)
    BY DEF QueueInv, Sound
  <2>2. \A x : [s EXCEPT !.after = x] =
              [n |-> s.n, on |-> s.on, after |-> x, do |-> s.do, by |-> s.by, seen |-> s.seen]
    BY <2>1 DEF TaskShape
  <2>3. f(s) = [n |-> s.n, on |-> s.on, after |-> IF s.after = t.n THEN 0 ELSE s.after,
                do |-> s.do, by |-> s.by, seen |-> s.seen]
    BY <2>2
  <2> HIDE DEF f
  <2> QED
    BY <2>1, <2>3 DEF Sound, TaskShape
<1> HIDE DEF f, last0
<1>3. queue'.tasks = {f(s) : s \in queue.tasks \ {t}} /\ queue'.last = last0
  BY <1>1
<1>4. \A s \in queue'.tasks : Sound(s)
  BY <1>2, <1>3
<1> QED
  BY <1>1, <1>3, <1>4 DEF QueueInv, Sound, TaskShape

(* The user's clicks keep their operation.                                     *)
LEMMA OwnAfterClicked ==
    ASSUME OwnInv, NEW t, own' = OwnAfter(t)
    PROVE  OwnInv'
<1>1. CASE t.by.who = "send"
  BY <1>1 DEF OwnAfter, OwnInv, Clicked, ClickShape
<1>2. CASE t.by.who = "react"
  <2> DEFINE f(o) == IF o.n = t.by.n THEN [o EXCEPT !.stage = "publishing"] ELSE o
             next == {f(o) : o \in own.ops}
  <2>1. own' = [own EXCEPT !.ops = next]
    BY <1>2 DEF OwnAfter
  <2>2. \A o \in own.ops : Clicked(f(o))
    BY DEF OwnInv, Clicked, ClickShape
  <2> HIDE DEF f
  <2>3. \A o \in next : Clicked(o)
    BY <2>2
  <2> HIDE DEF next
  <2> QED
    BY <2>1, <2>3 DEF OwnInv, Clicked, ClickShape
<1>3. CASE t.by.who = "undo"
  BY <1>3 DEF OwnAfter, OwnInv, Clicked, ClickShape
<1>4. CASE t.by.who \notin {"send", "react", "undo"}
  BY <1>4 DEF OwnAfter, OwnInv, Clicked, ClickShape
<1> QED
  BY <1>1, <1>2, <1>3, <1>4

-----------------------------------------------------------------------------
(* The invariant is kept by each step.                                         *)

LEMMA InitOnce == Init => OnceInv
<1> SUFFICES ASSUME Init PROVE OnceInv
  OBVIOUS
<1>1. PICK b \in Before :
        disk = [chat |-> b.chat, rows |-> b.rows, keyed |-> b.rows # {}, blocked |-> FALSE]
  BY DEF Init
<1>2. disk.rows = b.rows
  BY <1>1
<1>3. Once(b.rows)
  BY ThreadAssumption DEF Once, RowShape, Row, SameKey
<1>4. DiskInv
  BY <1>1, <1>2, <1>3 DEF DiskInv
<1>5. QueueInv
  BY DEF Init, QueueInv
<1>6. OwnInv
  BY DEF Init, OwnInv
<1> QED
  BY <1>4, <1>5, <1>6 DEF OnceInv

LEMMA ReadOnce ==
    ASSUME OnceInv, NEW t \in queue.tasks, ReadStored(t)
    PROVE  OnceInv'
<1> DEFINE value == IF t.on = "chat" THEN disk.chat ELSE disk.rows
           t1 == [t EXCEPT !.seen = value]
           next == (queue.tasks \ {t}) \cup {t1}
<1>1. queue' = [queue EXCEPT !.tasks = next]
  BY DEF ReadStored
<1>2. Sound(t) /\ TaskShape(t)
  BY DEF OnceInv, QueueInv, Sound
<1>3. t1 = [n |-> t.n, on |-> t.on, after |-> t.after, do |-> t.do, by |-> t.by, seen |-> value]
  BY <1>2 DEF TaskShape
<1>4. t.on # "chat" => Once(value)
  BY DEF OnceInv, DiskInv
<1> HIDE DEF value
<1>5. Sound(t1)
  BY <1>2, <1>3, <1>4 DEF Sound, TaskShape
<1>6. \A s \in next : Sound(s)
  BY <1>5 DEF OnceInv, QueueInv
<1> HIDE DEF next
<1>7. QueueInv'
  BY <1>1, <1>6 DEF OnceInv, QueueInv, Sound, TaskShape
<1> QED
  BY <1>7 DEF OnceInv, ReadStored, DiskInv, OwnInv, Once, RowShape, Row, SameKey, Clicked, ClickShape

LEMMA WriteOnce ==
    ASSUME OnceInv, NEW t \in queue.tasks, WriteStored(t)
    PROVE  OnceInv'
<1>1. QueueInv'
  BY SettledSound DEF OnceInv, WriteStored
<1>2. OwnInv'
  BY OwnAfterClicked DEF OnceInv, WriteStored
<1>3. DiskInv'
  <2>1. CASE Result(t) = t.seen
    <3>1. disk' = disk
      BY <2>1 DEF WriteStored
    <3> QED
      BY <3>1 DEF OnceInv, DiskInv, Once, RowShape, Row, SameKey
  <2>2. CASE Result(t) # t.seen /\ t.on = "chat"
    <3>1. disk' = [disk EXCEPT !.chat = Result(t)]
      BY <2>2 DEF WriteStored
    <3> QED
      BY <3>1 DEF OnceInv, DiskInv, Once, RowShape, Row, SameKey
  <2>3. CASE Result(t) # t.seen /\ t.on # "chat"
    <3>1. t.seen # Unread
      BY DEF WriteStored
    <3>2. Once(Result(t))
      BY <2>3, <3>1, ResultOnce DEF OnceInv, QueueInv, Sound
    <3>3. disk' = [disk EXCEPT !.rows = Result(t), !.keyed = TRUE]
      BY <2>3 DEF WriteStored
    <3>4. disk' = [chat |-> disk.chat, rows |-> Result(t), keyed |-> disk'.keyed,
                   blocked |-> disk.blocked]
      BY <3>3 DEF OnceInv, DiskInv
    <3> QED
      BY <3>2, <3>4 DEF DiskInv, Once, RowShape, Row, SameKey
  <2> QED
    BY <2>1, <2>2, <2>3
<1> QED
  BY <1>1, <1>2, <1>3 DEF OnceInv

LEMMA ClearOnce ==
    ASSUME OnceInv, NEW t \in queue.tasks, ClearMessages(t)
    PROVE  OnceInv'
<1>1. QueueInv'
  BY SettledSound DEF OnceInv, ClearMessages
<1>2. DiskInv'
  BY DEF OnceInv, ClearMessages, DiskInv, Once, RowShape, Row, SameKey
<1>3. OwnInv'
  BY DEF OnceInv, ClearMessages, OwnInv, Clicked, ClickShape
<1> QED
  BY <1>1, <1>2, <1>3 DEF OnceInv

LEMMA FailOnce ==
    ASSUME OnceInv, NEW t \in queue.tasks, WriteFails(t)
    PROVE  OnceInv'
<1>1. QueueInv'
  BY SettledSound DEF OnceInv, WriteFails
<1>2. DiskInv'
  BY DEF OnceInv, WriteFails, DiskInv, Once, RowShape, Row, SameKey
<1>3. OwnInv'
  <2>1. CASE t.by.who = "send"
    BY <2>1 DEF OnceInv, WriteFails, OwnInv, Clicked, ClickShape
  <2>2. CASE t.by.who \in {"react", "undo"}
    BY <2>2 DEF OnceInv, WriteFails, OwnInv, Clicked, ClickShape
  <2>3. CASE t.by.who \notin {"send", "react", "undo"}
    BY <2>3 DEF OnceInv, WriteFails, OwnInv, Clicked, ClickShape
  <2> QED
    BY <2>1, <2>2, <2>3
<1> QED
  BY <1>1, <1>2, <1>3 DEF OnceInv

(* What the views enqueue is an append or a rumor to apply.                    *)
LEMMA EnqueuedForSound ==
    ASSUME QueueInv, NEW who, NEW v, NEW r, NEW takes \in BOOLEAN,
           queue' = IF takes THEN EnqueuedFor(who, v, r) ELSE queue
    PROVE  QueueInv'
<1>1. CASE ~takes
  BY <1>1 DEF QueueInv, Sound, TaskShape, Once, RowShape, Row, SameKey
<1>2. CASE takes /\ r \in Texts
  <2>1. queue' = Enqueued("chat", Job("append", r, Unread, 0), By(who, v))
    BY <1>2 DEF EnqueuedFor
  <2> QED
    BY <2>1, EnqueuedSound
<1>3. CASE takes /\ r \notin Texts
  <2>1. queue' = Enqueued("rows", Job("inbound", r, Unread, 0), By(who, v))
    BY <1>3 DEF EnqueuedFor
  <2>2. Job("inbound", r, Unread, 0).op \in RowOps
    BY DEF Job, RowOps
  <2> QED
    BY <2>1, <2>2, EnqueuedSound
<1> QED
  BY <1>1, <1>2, <1>3

LEMMA ViewsOnce ==
    ASSUME OnceInv, NEW v \in DOMAIN views, Chats(v)
    PROVE  OnceInv'
<1>1. DiskInv'
  BY DEF OnceInv, DiskInv, Once, RowShape, Row, SameKey, Chats, FetchHistory, ApplyHistorical,
         Subscribe, Close, HandleGiftWrap
<1>2. OwnInv'
  BY DEF OnceInv, OwnInv, Clicked, ClickShape, Chats, FetchHistory, ApplyHistorical,
         Subscribe, Close, HandleGiftWrap
<1>3. QueueInv'
  <2>1. CASE ApplyHistorical(v)
    <3> DEFINE r == Head(views[v].todo)
               takes == ~views[v].denied /\ Accepts(v, r)
    <3>1. queue' = IF takes THEN EnqueuedFor("pass", v, r) ELSE queue
      BY <2>1 DEF ApplyHistorical
    <3> HIDE DEF r
    <3>2. (takes \in BOOLEAN) /\ QueueInv
      BY DEF OnceInv
    <3> HIDE DEF takes
    <3> QED
      BY <3>1, <3>2, EnqueuedForSound
  <2>2. ASSUME NEW r \in Rumors, HandleGiftWrap(v, r)
        PROVE  QueueInv'
    <3> DEFINE takes == ~disk.blocked /\ Accepts(v, r)
    <3>1. queue' = IF takes THEN EnqueuedFor("live", v, r) ELSE queue
      BY <2>2 DEF HandleGiftWrap
    <3>2. (takes \in BOOLEAN) /\ QueueInv
      BY DEF OnceInv
    <3> HIDE DEF takes
    <3> QED
      BY <3>1, <3>2, EnqueuedForSound
  <2>3. CASE FetchHistory(v) \/ Subscribe(v) \/ Close(v)
    <3>1. UNCHANGED queue
      BY <2>3 DEF FetchHistory, Subscribe, Close
    <3> QED
      BY <3>1 DEF OnceInv, QueueInv, Sound, TaskShape, Once, RowShape, Row, SameKey
  <2> QED
    BY <2>1, <2>2, <2>3 DEF Chats
<1> QED
  BY <1>1, <1>2, <1>3 DEF OnceInv

LEMMA ActsOnce ==
    ASSUME OnceInv, NEW v \in DOMAIN views, Acts(v)
    PROVE  OnceInv'
<1>1. DiskInv' /\ QueueInv'
  BY DEF OnceInv, DiskInv, QueueInv, Sound, TaskShape, Once, RowShape, Row, SameKey, Acts,
         SendMessage, HandleReact
<1>2. OwnInv'
  <2>1. ASSUME NEW m \in Own, SendMessage(v, m)
        PROVE  OwnInv'
    BY <2>1 DEF OnceInv, OwnInv, Clicked, ClickShape, SendMessage
  <2>2. ASSUME NEW m \in Messages, NEW e \in Emojis, HandleReact(v, m, e)
        PROVE  OwnInv'
    <3> DEFINE o == [n |-> own.acts + 1, of |-> m, emoji |-> e,
                     op |-> IF Shown(m, Me, e) THEN "take" ELSE "insert",
                     stage |-> "connecting", calm |-> wipes = {}]
               acts == own.acts + 1
    <3>1. own' = [own EXCEPT !.acts = acts, !.ops = own.ops \cup {o}]
      BY <2>2 DEF HandleReact
    <3>2. Clicked(o)
      BY DEF Clicked, ClickShape
    <3> HIDE DEF o, acts
    <3>3. own' = [sends |-> own.sends, ops |-> own.ops \cup {o}, acts |-> acts]
      BY <3>1 DEF OnceInv, OwnInv
    <3> QED
      BY <3>2, <3>3 DEF OnceInv, OwnInv, Clicked, ClickShape
  <2> QED
    BY <2>1, <2>2 DEF Acts
<1> QED
  BY <1>1, <1>2 DEF OnceInv

LEMMA PublishedOnce ==
    ASSUME OnceInv, NEW m \in Own, MessagePublished(m)
    PROVE  OnceInv'
<1>1. DiskInv'
  BY DEF OnceInv, DiskInv, Once, RowShape, Row, SameKey, MessagePublished
<1>2. OwnInv'
  BY DEF OnceInv, OwnInv, Clicked, ClickShape, MessagePublished
<1>3. QueueInv'
  <2>1. CASE queue' = Enqueued("chat", Job("append", m, Unread, 0), By("send", m))
    BY <2>1, EnqueuedSound DEF OnceInv
  <2>2. CASE UNCHANGED queue
    BY <2>2 DEF OnceInv, QueueInv, Sound, TaskShape, Once, RowShape, Row, SameKey
  <2> QED
    BY <2>1, <2>2 DEF MessagePublished
<1> QED
  BY <1>1, <1>2, <1>3 DEF OnceInv

LEMMA ReactionOnce ==
    ASSUME OnceInv, NEW o \in own.ops, MarkReaction(o) \/ ReactionPublished(o)
    PROVE  OnceInv'
<1>1. DiskInv'
  BY DEF OnceInv, DiskInv, Once, RowShape, Row, SameKey, MarkReaction, ReactionPublished
<1>2. OwnInv'
  <2>1. \A x : Clicked([o EXCEPT !.stage = x])
    BY DEF OnceInv, OwnInv, Clicked, ClickShape
  <2>2. PICK next :
          /\ own' = [own EXCEPT !.ops = next]
          /\ next \subseteq own.ops \cup {[o EXCEPT !.stage = "marking"],
                                        [o EXCEPT !.stage = "undoing"]}
    <3>1. CASE own' = [own EXCEPT !.ops = own.ops \ {o}]
      BY <3>1
    <3>2. ASSUME NEW x \in {"marking", "undoing"},
                 own' = [own EXCEPT !.ops = (own.ops \ {o}) \cup {[o EXCEPT !.stage = x]}]
          PROVE  \E next :
                   /\ own' = [own EXCEPT !.ops = next]
                   /\ next \subseteq own.ops \cup {[o EXCEPT !.stage = "marking"],
                                                 [o EXCEPT !.stage = "undoing"]}
      <4> DEFINE next == (own.ops \ {o}) \cup {[o EXCEPT !.stage = x]}
      <4>1. next \subseteq own.ops \cup {[o EXCEPT !.stage = "marking"],
                                       [o EXCEPT !.stage = "undoing"]}
        OBVIOUS
      <4> QED
        BY <3>2, <4>1
    <3> QED
      BY <3>1, <3>2 DEF MarkReaction, ReactionPublished
  <2>3. \A p \in next : Clicked(p)
    BY <2>1, <2>2 DEF OnceInv, OwnInv
  <2>4. own' = [sends |-> own.sends, ops |-> next, acts |-> own.acts]
    BY <2>2 DEF OnceInv, OwnInv
  <2> QED
    BY <2>3, <2>4 DEF OwnInv, Clicked, ClickShape
<1>3. QueueInv'
  <2>1. CASE MarkReaction(o)
    <3>1. Job(o.op, o.of, o.emoji, o.n).op \in RowOps
      BY DEF OnceInv, OwnInv, Clicked, Job, RowOps
    <3>2. queue' = Enqueued("rows", Job(o.op, o.of, o.emoji, o.n), By("react", o.n))
      BY <2>1 DEF MarkReaction
    <3> QED
      BY <3>1, <3>2, EnqueuedSound DEF OnceInv
  <2>2. CASE ReactionPublished(o)
    <3> DEFINE j == Job(IF o.op = "take" THEN "insert" ELSE "rollback", o.of, o.emoji, o.n)
    <3>1. j.op \in RowOps
      BY DEF Job, RowOps
    <3>2. queue' = Enqueued("rows", j, By("undo", o.n)) \/ UNCHANGED queue
      BY <2>2 DEF ReactionPublished
    <3> HIDE DEF j
    <3>3. CASE queue' = Enqueued("rows", j, By("undo", o.n))
      BY <3>1, <3>3, EnqueuedSound DEF OnceInv
    <3>4. CASE UNCHANGED queue
      BY <3>4 DEF OnceInv, QueueInv, Sound, TaskShape, Once, RowShape, Row, SameKey
    <3> QED
      BY <3>2, <3>3, <3>4
  <2> QED
    BY <2>1, <2>2
<1> QED
  BY <1>1, <1>2, <1>3 DEF OnceInv

LEMMA BlockOnce ==
    ASSUME OnceInv, BlockContact
    PROVE  OnceInv'
<1>1. DiskInv'
  BY DEF OnceInv, DiskInv, Once, RowShape, Row, SameKey, BlockContact
<1>2. QueueInv'
  <2>1. queue' = Enqueued("chat", Job("clear", Unread, Unread, 0), By("wipe", past.blocks + 1))
    BY DEF BlockContact
  <2> QED
    BY <2>1, EnqueuedSound DEF OnceInv
<1>3. OwnInv'
  <2> DEFINE f(o) == [o EXCEPT !.calm = FALSE]
             next == {f(o) : o \in own.ops}
  <2>1. own' = [own EXCEPT !.ops = next]
    BY DEF BlockContact
  <2>2. \A o \in own.ops : Clicked(f(o))
    <3> SUFFICES ASSUME NEW o \in own.ops PROVE Clicked(f(o))
      OBVIOUS
    <3>1. Clicked(o)
      BY DEF OnceInv, OwnInv
    <3>2. \A x : [o EXCEPT !.calm = x] =
              [n |-> o.n, of |-> o.of, emoji |-> o.emoji, op |-> o.op, stage |-> o.stage, calm |-> x]
      BY <3>1 DEF Clicked, ClickShape
    <3>3. \A x : Clicked([o EXCEPT !.calm = x])
      BY <3>1, <3>2 DEF Clicked, ClickShape
    <3> QED
      BY <3>3
  <2> HIDE DEF f
  <2>3. \A o \in next : Clicked(o)
    BY <2>2
  <2> HIDE DEF next
  <2> QED
    BY <2>1, <2>3 DEF OnceInv, OwnInv, Clicked, ClickShape
<1> QED
  BY <1>1, <1>2, <1>3 DEF OnceInv

(* The reaction store of a wiped conversation, field by field.                 *)
LEMMA Emptied ==
    ASSUME DiskInv, NEW rs, NEW k
    PROVE  [disk EXCEPT !.rows = rs, !.keyed = k] =
              [chat |-> disk.chat, rows |-> rs, keyed |-> k, blocked |-> disk.blocked]
<1> DEFINE g == [disk EXCEPT !.rows = rs]
<1>1. g = [chat |-> disk.chat, rows |-> rs, keyed |-> disk.keyed, blocked |-> disk.blocked]
  BY DEF DiskInv
<1>2. [g EXCEPT !.keyed = k] =
         [chat |-> disk.chat, rows |-> rs, keyed |-> k, blocked |-> disk.blocked]
  <2> HIDE DEF g
  <2> QED
    BY <1>1
<1> QED
  BY <1>2

LEMMA DeleteOnce ==
    ASSUME OnceInv, NEW w \in wipes, DeleteReactions(w)
    PROVE  OnceInv'
<1>1. DiskInv'
  <2>1. disk' = [disk EXCEPT !.rows = {}, !.keyed = FALSE]
    BY DEF DeleteReactions
  <2>2. DiskInv
    BY DEF OnceInv
  <2>3. disk' = [chat |-> disk.chat, rows |-> {}, keyed |-> FALSE, blocked |-> disk.blocked]
    BY <2>1, <2>2, Emptied
  <2> QED
    BY <2>3 DEF DiskInv, Once
<1>2. QueueInv'
  <2>1. PICK last0 : queue' = [queue EXCEPT !.last = last0]
    BY DEF DeleteReactions
  <2> QED
    BY <2>1 DEF OnceInv, QueueInv, Sound, TaskShape, Once, RowShape, Row, SameKey
<1>3. OwnInv'
  BY DEF OnceInv, OwnInv, Clicked, ClickShape, DeleteReactions
<1> QED
  BY <1>1, <1>2, <1>3 DEF OnceInv

LEMMA OthersOnce ==
    ASSUME OnceInv,
           \/ Open \/ UnblockContact \/ Restart \/ UNCHANGED vars
           \/ \E w \in wipes : FindReactionKeys(w)
    PROVE  OnceInv'
<1>1. CASE Open \/ UNCHANGED vars \/ \E w \in wipes : FindReactionKeys(w)
  BY <1>1 DEF OnceInv, DiskInv, QueueInv, OwnInv, Sound, TaskShape, Once, RowShape, Row, SameKey,
              Clicked, ClickShape, Open, vars, FindReactionKeys
<1>2. CASE UnblockContact
  <2>1. DiskInv'
    BY <1>2 DEF OnceInv, DiskInv, Once, RowShape, Row, SameKey, UnblockContact
  <2>2. QueueInv' /\ OwnInv'
    BY <1>2 DEF OnceInv, QueueInv, OwnInv, Sound, TaskShape, Once, RowShape, Row, SameKey,
                Clicked, ClickShape, UnblockContact
  <2> QED
    BY <2>1, <2>2 DEF OnceInv
<1>3. CASE Restart
  <2>1. DiskInv'
    BY <1>3 DEF OnceInv, DiskInv, Once, RowShape, Row, SameKey, Restart
  <2>2. QueueInv'
    BY <1>3 DEF QueueInv, Restart
  <2>3. PICK sends0 : own' = [own EXCEPT !.ops = {}, !.sends = sends0]
    BY <1>3 DEF Restart
  <2>4. OwnInv'
    BY <2>3 DEF OnceInv, OwnInv
  <2> QED
    BY <2>1, <2>2, <2>4 DEF OnceInv
<1> QED
  BY <1>1, <1>2, <1>3

-----------------------------------------------------------------------------
LEMMA OnceIsKept == OnceInv /\ [Next]_vars => OnceInv'
<1> SUFFICES ASSUME OnceInv, [Next]_vars PROVE OnceInv'
  OBVIOUS
<1>1. CASE Works
  BY <1>1, ReadOnce, WriteOnce, ClearOnce, OthersOnce, DeleteOnce DEF Works
<1>2. CASE \E t \in queue.tasks : WriteFails(t)
  BY <1>2, FailOnce
<1>3. CASE \E v \in DOMAIN views : Chats(v) \/ Acts(v)
  BY <1>3, ViewsOnce, ActsOnce
<1>4. CASE \E m \in Own : MessagePublished(m)
  BY <1>4, PublishedOnce
<1>5. CASE \E o \in own.ops : MarkReaction(o) \/ ReactionPublished(o)
  BY <1>5, ReactionOnce
<1>6. CASE BlockContact
  BY <1>6, BlockOnce
<1>7. CASE Open \/ UnblockContact \/ Restart \/ UNCHANGED vars
  BY <1>7, OthersOnce
<1> QED
  BY <1>1, <1>2, <1>3, <1>4, <1>5, <1>6, <1>7 DEF Next

(* Whatever is delivered, by the history or the subscriptions, in any order    *)
(* and between any two steps of the queued writes, the peer has one row for a  *)
(* badge (applyInboundRumor behind enqueue).                                   *)
THEOREM PeerIsCountedOnce == Spec => []PeerCountedOnce
<1>1. OnceInv => PeerCountedOnce
  BY DEF OnceInv, DiskInv, Once, PeerCountedOnce
<1> QED
  BY InitOnce, OnceIsKept, <1>1, PTL DEF Spec

-----------------------------------------------------------------------------
(***************************************************************************)
(* Why a wiped history stays gone.  The writes on the reactions, and those   *)
(* on the messages while there are any, stand in one line behind each other, *)
(* the last one being the one in the map; of two in a line only the first    *)
(* can run.  A clear is the last of its line.  So, as long as nothing is     *)
(* queued behind a wipe's back (past.late), nothing is left to be written    *)
(* when the clear is done, nor when the drain of the reactions is.           *)
(***************************************************************************)
On(q) == {t \in queue.tasks : t.on = q}

(* A task has a number of its own, and the map names a queued task.            *)
NumbersInv ==
    /\ IsFiniteSet(queue.tasks) /\ queue.last \in [Queues -> Nat]
    /\ \A t \in queue.tasks :
         /\ t.n \in Nat \ {0} /\ t.on \in Queues
         /\ \A u \in queue.tasks : u.n = t.n => u = t
    /\ \A q \in Queues : queue.last[q] # 0 => \E t \in On(q) : t.n = queue.last[q]

(* A clear is the one of a wipe that waits for it.                             *)
ClearsInv ==
    /\ past = [blocks |-> past.blocks, faults |-> past.faults, late |-> past.late]
    /\ past.blocks \in Nat
    /\ \A w \in wipes : w = [n |-> w.n, stage |-> w.stage, waits |-> w.waits] /\ w.n \in 1..past.blocks
    /\ \A t \in queue.tasks :
         /\ t.on = "chat" => t.do.op \in {"append", "clear"}
         /\ t.do.op = "clear" => \E w \in wipes : w.stage = "clearing" /\ t.by = By("wipe", w.n)
         /\ t.by.who = "wipe" => t.do.op = "clear"
         /\ \A u \in queue.tasks : t.do.op = "clear" /\ u.by = t.by => u = t

(* s is the line of a queue: the numbers of its tasks, each behind the one     *)
(* before.                                                                     *)
LinedUp(q, s) ==
    /\ s \in Seq(Nat \ {0})
    /\ \A i, j \in DOMAIN s : s[i] = s[j] => i = j
    /\ \A t \in On(q) : \E i \in DOMAIN s :
          s[i] = t.n /\ t.after = IF i = 1 THEN 0 ELSE s[i - 1]
    /\ \A i \in DOMAIN s : \E t \in On(q) : t.n = s[i]
    /\ queue.last[q] = IF s = <<>> THEN 0 ELSE s[Len(s)]

ClearsLast(s) ==
    \A i, j \in DOMAIN s : \A t, u \in On("chat") :
        i < j /\ s[i] = t.n /\ s[j] = u.n /\ t.do.op = "clear" => u.do.op = "clear"

Appends == {t \in On("chat") : t.do.op = "append"}

LinesInv ==
    /\ \E s : LinedUp("rows", s)
    /\ Appends # {} => \E s : LinedUp("chat", s) /\ ClearsLast(s)

(* What a task has read is what is stored.                                     *)
Stored(q) == IF q = "chat" THEN disk.chat ELSE disk.rows
SerialInv ==
    \A t \in queue.tasks :
        t.seen # Unread => t.after = 0 /\ t.do.op # "clear" /\ t.seen = Stored(t.on)

(* What a wipe has done.                                                       *)
WipingInv ==
    \A w \in wipes :
        /\ w.stage \in {"clearing", "keys", "draining"}
        /\ w.stage # "clearing" => disk.chat = {} /\ Appends = {}
        /\ w.stage = "draining" => IF w.waits = 0 THEN On("rows") = {}
                                   ELSE w.waits = queue.last["rows"]

GoneInv ==
    disk.blocked /\ wipes = {} => queue.tasks = {} /\ disk.chat = {} /\ disk.rows = {}

WipeInv ==
    /\ NumbersInv /\ ClearsInv
    /\ disk.rows # {} => disk.keyed
    /\ ~past.late => LinesInv /\ SerialInv /\ WipingInv /\ GoneInv

-----------------------------------------------------------------------------
(* The queue operations, task by task.                                         *)

LEMMA QueuesAre == Queues = {"chat", "rows"} /\ "chat" # "rows"
BY DEF Queues

LEMMA FiniteImage ==
    ASSUME NEW S, IsFiniteSet(S), NEW f, f = [x \in S |-> f[x]]
    PROVE  IsFiniteSet({f[x] : x \in S})
<1> DEFINE T == {f[x] : x \in S}
<1>1. f \in [S -> T] /\ \A y \in T : \E x \in S : f[x] = y
  OBVIOUS
<1>2. f \in Surjection(S, T)
  BY <1>1 DEF Surjection
<1> QED
  BY <1>2, FS_Surjection

(* There is an unused number, and it is none of the map's.                     *)
LEMMA UnusedIsNew ==
    ASSUME NumbersInv
    PROVE  Unused \in Nat \ {0} /\ Unused \notin Numbers
<1> DEFINE m == Cardinality(Numbers)
<1>1. IsFiniteSet(Numbers) /\ m \in Nat
  <2> DEFINE f == [t \in queue.tasks |-> t.n]
  <2>1. f = [t \in queue.tasks |-> f[t]] /\ Numbers = {f[t] : t \in queue.tasks}
    BY DEF Numbers
  <2> HIDE DEF f
  <2> QED
    BY <2>1, FiniteImage, FS_CardinalityType DEF NumbersInv
<1>2. ASSUME 1..(m + 1) \subseteq Numbers PROVE FALSE
  <2>1. Cardinality(1..(m + 1)) = m + 1
    BY <1>1, FS_Interval
  <2>2. Cardinality(1..(m + 1)) <= m
    BY <1>1, <1>2, FS_Subset
  <2> QED
    BY <1>1, <2>1, <2>2
<1>3. \E n \in 1..(m + 1) : n \notin Numbers
  BY <1>2
<1> QED
  BY <1>1, <1>3 DEF Unused

Task(on, job, by) ==
    [n |-> Unused, on |-> on, after |-> queue.last[on], do |-> job, by |-> by, seen |-> Unread]

LEMMA EnqueuedTasks ==
    ASSUME NEW on, NEW job, NEW by, queue' = Enqueued(on, job, by)
    PROVE  /\ queue'.tasks = queue.tasks \cup {Task(on, job, by)}
           /\ queue'.last = [queue.last EXCEPT ![on] = Unused]
BY DEF Enqueued, Task

LEMMA TaskFields ==
    ASSUME NEW on, NEW job, NEW by
    PROVE  LET t == Task(on, job, by) IN
           /\ t.n = Unused /\ t.on = on /\ t.after = queue.last[on]
           /\ t.do = job /\ t.by = by /\ t.seen = Unread
BY DEF Task

(* What the settling of a write makes of one that waits.                       *)
Freed(s, t) == [s EXCEPT !.after = IF @ = t.n THEN 0 ELSE @]

LEMMA FreedFields ==
    ASSUME NEW s, NEW t, TaskShape(s)
    PROVE  /\ Freed(s, t).n = s.n /\ Freed(s, t).on = s.on /\ Freed(s, t).do = s.do
           /\ Freed(s, t).by = s.by /\ Freed(s, t).seen = s.seen
           /\ Freed(s, t).after = IF s.after = t.n THEN 0 ELSE s.after
<1>1. \A x : [s EXCEPT !.after = x] =
            [n |-> s.n, on |-> s.on, after |-> x, do |-> s.do, by |-> s.by, seen |-> s.seen]
  BY DEF TaskShape
<1>2. Freed(s, t) = [n |-> s.n, on |-> s.on, after |-> IF s.after = t.n THEN 0 ELSE s.after,
                     do |-> s.do, by |-> s.by, seen |-> s.seen]
  BY <1>1 DEF Freed
<1> QED
  BY <1>2

LEMMA SettledTasks ==
    ASSUME NEW t, queue' = Settled(t)
    PROVE  /\ queue'.tasks = {Freed(s, t) : s \in queue.tasks \ {t}}
           /\ queue'.last = [queue.last EXCEPT ![t.on] =
                                IF @ = t.n \/ t.do.op = "clear" THEN 0 ELSE @]
BY DEF Settled, Freed

LEMMA TaskHasShape == ASSUME QueueInv, NEW t \in queue.tasks PROVE TaskShape(t)
BY DEF QueueInv, Sound

(* Every remaining task is one of before, but for what it waits for.           *)
LEMMA SettledFields ==
    ASSUME QueueInv, NEW t, queue' = Settled(t)
    PROVE  /\ \A u \in queue'.tasks : \E s \in queue.tasks \ {t} :
                 /\ u.n = s.n /\ u.on = s.on /\ u.do = s.do /\ u.by = s.by /\ u.seen = s.seen
                 /\ u.after = IF s.after = t.n THEN 0 ELSE s.after
                 /\ u = Freed(s, t)
           /\ \A s \in queue.tasks \ {t} : \E u \in queue'.tasks :
                 u.n = s.n /\ u.on = s.on /\ u.do = s.do
<1>1. queue'.tasks = {Freed(s, t) : s \in queue.tasks \ {t}}
  BY SettledTasks
<1>2. ASSUME NEW u \in queue'.tasks
      PROVE  \E s \in queue.tasks \ {t} :
                 /\ u.n = s.n /\ u.on = s.on /\ u.do = s.do /\ u.by = s.by /\ u.seen = s.seen
                 /\ u.after = IF s.after = t.n THEN 0 ELSE s.after
                 /\ u = Freed(s, t)
  <2>1. PICK s \in queue.tasks \ {t} : u = Freed(s, t)
    BY <1>1
  <2> QED
    BY <2>1, FreedFields, TaskHasShape
<1>3. ASSUME NEW s \in queue.tasks \ {t}
      PROVE  \E u \in queue'.tasks : u.n = s.n /\ u.on = s.on /\ u.do = s.do
  <2>1. Freed(s, t) \in queue'.tasks
    BY <1>1
  <2> QED
    BY <2>1, FreedFields, TaskHasShape
<1> QED
  BY <1>2, <1>3

(* The map after a write is enqueued, and after one settles                    *)
LEMMA EnqueuedLast ==
    ASSUME NumbersInv, NEW on \in Queues, NEW job, NEW by, queue' = Enqueued(on, job, by)
    PROVE  /\ queue'.last[on] = Unused
           /\ \A q \in Queues : q # on => queue'.last[q] = queue.last[q]
<1>1. queue'.last = [queue.last EXCEPT ![on] = Unused]
  BY EnqueuedTasks
<1>2. queue.last \in [Queues -> Nat]
  BY DEF NumbersInv
<1> QED
  BY ONLY <1>1, <1>2, on \in Queues

LEMMA SettledLast ==
    ASSUME NumbersInv, NEW t \in queue.tasks, queue' = Settled(t)
    PROVE  \A q \in Queues :
              queue'.last[q] = IF q = t.on /\ (queue.last[q] = t.n \/ t.do.op = "clear") THEN 0
                               ELSE queue.last[q]
<1>1. queue'.last = [queue.last EXCEPT ![t.on] = IF @ = t.n \/ t.do.op = "clear" THEN 0 ELSE @]
  BY SettledTasks
<1>2. queue.last \in [Queues -> Nat]
  BY DEF NumbersInv
<1> QED
  BY ONLY <1>1, <1>2

-----------------------------------------------------------------------------
(* The numbers of the queued writes, and the clears among them.                *)

LEMMA EnqueuedNumbers ==
    ASSUME NumbersInv, NEW on \in Queues, NEW job, NEW by, queue' = Enqueued(on, job, by)
    PROVE  NumbersInv'
<1> DEFINE t0 == Task(on, job, by)
<1>1. /\ queue'.tasks = queue.tasks \cup {t0}
      /\ queue'.last = [queue.last EXCEPT ![on] = Unused]
      /\ t0.n = Unused /\ t0.on = on
  <2>1. t0.n = Unused /\ t0.on = on
    BY TaskFields
  <2> HIDE DEF t0
  <2> QED
    BY <2>1, EnqueuedTasks DEF t0
<1>2. Unused \in Nat \ {0} /\ \A t \in queue.tasks : t.n # Unused
  BY UnusedIsNew DEF Numbers
<1> HIDE DEF t0
<1>3. IsFiniteSet(queue'.tasks)
  BY <1>1, FS_AddElement DEF NumbersInv
<1>4. queue'.last \in [Queues -> Nat]
  BY <1>1, <1>2 DEF NumbersInv
<1>5. \A t \in queue'.tasks :
        /\ t.n \in Nat \ {0} /\ t.on \in Queues
        /\ \A u \in queue'.tasks : u.n = t.n => u = t
  BY <1>1, <1>2 DEF NumbersInv
<1>6. \A q \in Queues : queue'.last[q] # 0 => \E t \in On(q)' : t.n = queue'.last[q]
  <2> SUFFICES ASSUME NEW q \in Queues, queue'.last[q] # 0
               PROVE  \E t \in queue'.tasks : t.on = q /\ t.n = queue'.last[q]
    BY DEF On
  <2>1. CASE q = on
    BY <1>1, <2>1 DEF NumbersInv
  <2>2. CASE q # on
    BY <1>1, <2>2 DEF NumbersInv, On
  <2> QED
    BY <2>1, <2>2
<1> QED
  BY <1>3, <1>4, <1>5, <1>6 DEF NumbersInv

LEMMA SettledNumbers ==
    ASSUME QueueInv, NumbersInv, NEW t \in queue.tasks, queue' = Settled(t)
    PROVE  NumbersInv'
<1>1. IsFiniteSet(queue'.tasks)
  <2> DEFINE rest == queue.tasks \ {t}
             f == [s \in rest |-> Freed(s, t)]
  <2>1. IsFiniteSet(rest)
    BY FS_Subset DEF NumbersInv
  <2>2. queue'.tasks = {Freed(s, t) : s \in rest}
    BY SettledTasks
  <2> HIDE DEF rest
  <2>3. f = [s \in rest |-> f[s]] /\ {Freed(s, t) : s \in rest} = {f[s] : s \in rest}
    OBVIOUS
  <2> HIDE DEF f
  <2> QED
    BY <2>1, <2>2, <2>3, FiniteImage
<1>2. queue'.last = [queue.last EXCEPT ![t.on] = IF @ = t.n \/ t.do.op = "clear" THEN 0 ELSE @]
  BY SettledTasks
<1>3. queue'.last \in [Queues -> Nat]
  BY <1>2 DEF NumbersInv
<1>4. ASSUME NEW u \in queue'.tasks
      PROVE  /\ u.n \in Nat \ {0} /\ u.on \in Queues
             /\ \A v \in queue'.tasks : v.n = u.n => v = u
  <2>1. PICK s \in queue.tasks \ {t} : u.n = s.n /\ u.on = s.on /\ u = Freed(s, t)
    BY SettledFields
  <2>2. ASSUME NEW v \in queue'.tasks, v.n = u.n PROVE v = u
    <3>1. PICK r \in queue.tasks \ {t} : v.n = r.n /\ v = Freed(r, t)
      BY SettledFields
    <3>2. r = s
      BY <2>1, <2>2, <3>1 DEF NumbersInv
    <3> QED
      BY <2>1, <3>1, <3>2
  <2> QED
    BY <2>1, <2>2 DEF NumbersInv
<1>5. ASSUME NEW q \in Queues, queue'.last[q] # 0
      PROVE  \E u \in On(q)' : u.n = queue'.last[q]
  <2>1. queue'.last[q] = queue.last[q] /\ (q = t.on => queue.last[q] # t.n)
    BY <1>2, <1>5 DEF NumbersInv
  <2>2. PICK s \in On(q) : s.n = queue.last[q]
    BY <1>5, <2>1 DEF NumbersInv
  <2>3. s # t /\ s \in queue.tasks /\ s.on = q
    BY <2>1, <2>2 DEF On
  <2>4. PICK u \in queue'.tasks : u.n = s.n /\ u.on = s.on
    BY <2>3, SettledFields
  <2> QED
    BY <2>1, <2>2, <2>3, <2>4 DEF On
<1> QED
  BY <1>1, <1>3, <1>4, <1>5 DEF NumbersInv

(* The wipes after a write: a wipe goes on when its clear is done, or when the *)
(* write is the one it drains.                                                 *)
Advanced(w, t) ==
    IF t.by = By("wipe", w.n) THEN [w EXCEPT !.stage = "keys"]
    ELSE IF w.stage = "draining" /\ w.waits = t.n THEN [w EXCEPT !.waits = 0]
    ELSE w

LEMMA WipesAdvance ==
    ASSUME NEW t, wipes' = WipesAfter(t)
    PROVE  wipes' = {Advanced(w, t) : w \in wipes}
BY DEF WipesAfter, Advanced

LEMMA AdvancedFields ==
    ASSUME NEW w, w = [n |-> w.n, stage |-> w.stage, waits |-> w.waits], NEW t
    PROVE  LET v == Advanced(w, t) IN
           /\ v = [n |-> v.n, stage |-> v.stage, waits |-> v.waits] /\ v.n = w.n
           /\ t.by = By("wipe", w.n) => v.stage = "keys" /\ v.waits = w.waits
           /\ t.by # By("wipe", w.n) =>
                 /\ v.stage = w.stage
                 /\ v.waits = IF w.stage = "draining" /\ w.waits = t.n THEN 0 ELSE w.waits
<1>1. CASE t.by = By("wipe", w.n)
  <2>1. \A x : [w EXCEPT !.stage = x] = [n |-> w.n, stage |-> x, waits |-> w.waits]
    OBVIOUS
  <2>2. Advanced(w, t) = [w EXCEPT !.stage = "keys"]
    BY <1>1 DEF Advanced
  <2>3. Advanced(w, t) = [n |-> w.n, stage |-> "keys", waits |-> w.waits]
    BY <2>1, <2>2
  <2> QED
    BY <1>1, <2>3
<1>2. CASE t.by # By("wipe", w.n) /\ w.stage = "draining" /\ w.waits = t.n
  <2>1. Advanced(w, t) = [n |-> w.n, stage |-> w.stage, waits |-> 0]
    BY <1>2 DEF Advanced
  <2> QED
    BY <1>2, <2>1
<1>3. CASE t.by # By("wipe", w.n) /\ ~(w.stage = "draining" /\ w.waits = t.n)
  <2>1. Advanced(w, t) = w
    BY <1>3 DEF Advanced
  <2> QED
    BY <1>3, <2>1
<1> QED
  BY <1>1, <1>2, <1>3

LEMMA ByWhat == ASSUME NEW who, NEW n PROVE By(who, n).who = who /\ By(who, n).n = n
BY DEF By

PastShape == past = [blocks |-> past.blocks, faults |-> past.faults, late |-> past.late]
SameBlocks == PastShape' /\ past'.blocks = past.blocks

(* A write other than a clear, enqueued or not.                                *)
LEMMA EnqueuedClears ==
    ASSUME ClearsInv, NEW on, NEW job, NEW by, queue' = Enqueued(on, job, by),
           job.op # "clear", on = "chat" => job.op = "append", by.who # "wipe",
           SameBlocks, UNCHANGED wipes
    PROVE  ClearsInv'
<1> DEFINE t0 == Task(on, job, by)
<1>1. /\ queue'.tasks = queue.tasks \cup {t0}
      /\ t0.on = on /\ t0.do = job /\ t0.by = by
  <2>1. t0.on = on /\ t0.do = job /\ t0.by = by
    BY TaskFields
  <2> HIDE DEF t0
  <2> QED
    BY <2>1, EnqueuedTasks DEF t0
<1> HIDE DEF t0
<1>2. \A t \in queue.tasks : t.do.op = "clear" => t.by.who = "wipe"
  BY ByWhat DEF ClearsInv
<1>3. \A t \in queue'.tasks :
         /\ t.on = "chat" => t.do.op \in {"append", "clear"}
         /\ t.do.op = "clear" => \E w \in wipes : w.stage = "clearing" /\ t.by = By("wipe", w.n)
         /\ t.by.who = "wipe" => t.do.op = "clear"
         /\ \A u \in queue'.tasks : t.do.op = "clear" /\ u.by = t.by => u = t
  BY <1>1, <1>2 DEF ClearsInv
<1> QED
  BY <1>3 DEF ClearsInv, SameBlocks, PastShape

(* A write that settles; the clear of a wipe takes the wipe on.                *)
LEMMA SettledClears ==
    ASSUME QueueInv, ClearsInv, NEW t \in queue.tasks, queue' = Settled(t), wipes' = WipesAfter(t),
           SameBlocks
    PROVE  ClearsInv'
<1>1. ASSUME NEW v \in wipes'
      PROVE  v = [n |-> v.n, stage |-> v.stage, waits |-> v.waits] /\ v.n \in 1..past'.blocks
  <2>1. PICK w \in wipes : v = Advanced(w, t)
    BY WipesAdvance
  <2>2. w = [n |-> w.n, stage |-> w.stage, waits |-> w.waits] /\ w.n \in 1..past.blocks
    BY DEF ClearsInv
  <2> QED
    BY <2>1, <2>2, AdvancedFields DEF SameBlocks
<1>2. ASSUME NEW u \in queue'.tasks
      PROVE  /\ u.on = "chat" => u.do.op \in {"append", "clear"}
             /\ u.do.op = "clear" => \E w \in wipes' : w.stage = "clearing" /\ u.by = By("wipe", w.n)
             /\ u.by.who = "wipe" => u.do.op = "clear"
             /\ \A v \in queue'.tasks : u.do.op = "clear" /\ v.by = u.by => v = u
  <2>1. PICK s \in queue.tasks \ {t} : u.on = s.on /\ u.do = s.do /\ u.by = s.by /\ u = Freed(s, t)
    BY SettledFields
  <2>2. ASSUME u.do.op = "clear"
        PROVE  \E w \in wipes' : w.stage = "clearing" /\ u.by = By("wipe", w.n)
    <3>1. PICK w \in wipes : w.stage = "clearing" /\ s.by = By("wipe", w.n)
      BY <2>1, <2>2 DEF ClearsInv
    <3>2. t.by # By("wipe", w.n)
      BY <2>1, <2>2, <3>1 DEF ClearsInv
    <3>3. Advanced(w, t) \in wipes'
      BY WipesAdvance
    <3>4. w = [n |-> w.n, stage |-> w.stage, waits |-> w.waits]
      BY DEF ClearsInv
    <3>5. Advanced(w, t).stage = "clearing" /\ Advanced(w, t).n = w.n
      BY <3>1, <3>2, <3>4, AdvancedFields
    <3> QED
      BY <2>1, <3>1, <3>3, <3>5
  <2>3. ASSUME NEW v \in queue'.tasks, u.do.op = "clear", v.by = u.by PROVE v = u
    <3>1. PICK r \in queue.tasks \ {t} : v.by = r.by /\ v = Freed(r, t)
      BY SettledFields
    <3> QED
      BY <2>1, <2>3, <3>1 DEF ClearsInv
  <2> QED
    BY <2>1, <2>2, <2>3 DEF ClearsInv
<1> QED
  BY <1>1, <1>2 DEF ClearsInv, SameBlocks, PastShape

-----------------------------------------------------------------------------
(* The line of a queue: how it shortens and grows.                             *)

LEMMA LineFacts ==
    ASSUME NEW q, NEW s, LinedUp(q, s)
    PROVE  /\ s \in Seq(Nat \ {0}) /\ Len(s) \in Nat /\ DOMAIN s = 1..Len(s)
           /\ \A i \in DOMAIN s : s[i] \in Nat \ {0}
           /\ s = <<>> <=> Len(s) = 0
           /\ s = <<>> <=> On(q) = {}
BY DEF LinedUp

(* Only the first of a line runs.                                              *)
LEMMA FirstInLine ==
    ASSUME NumbersInv, NEW q, NEW s, LinedUp(q, s), NEW t \in On(q), t.after = 0
    PROVE  /\ 1 \in DOMAIN s /\ s[1] = t.n
           /\ \A u \in On(q) : u.after = 0 => u = t
<1>1. \A u \in On(q) : u.after = 0 => 1 \in DOMAIN s /\ s[1] = u.n
  <2> SUFFICES ASSUME NEW u \in On(q), u.after = 0 PROVE 1 \in DOMAIN s /\ s[1] = u.n
    OBVIOUS
  <2>1. PICK i \in DOMAIN s : s[i] = u.n /\ u.after = IF i = 1 THEN 0 ELSE s[i - 1]
    BY DEF LinedUp
  <2>2. i = 1
    <3>1. SUFFICES ASSUME i # 1 PROVE FALSE
      OBVIOUS
    <3>2. i - 1 \in DOMAIN s
      BY <3>1, LineFacts
    <3> QED
      BY <2>1, <3>1, <3>2, LineFacts
  <2> QED
    BY <2>1, <2>2
<1> QED
  BY <1>1 DEF NumbersInv, On

(* What waits in one queue settles without the other.                          *)
LEMMA OtherLineStays ==
    ASSUME QueueInv, NumbersInv, NEW q \in Queues, NEW s, LinedUp(q, s), NEW t \in queue.tasks,
           t.on # q, queue' = Settled(t)
    PROVE  LinedUp(q, s)'
<1>1. queue'.last[q] = queue.last[q]
  BY SettledLast
<1>2. ASSUME NEW i \in DOMAIN s PROVE s[i] # t.n
  <2>1. PICK r \in On(q) : r.n = s[i]
    BY DEF LinedUp
  <2>2. r \in queue.tasks /\ r # t
    BY <2>1 DEF On
  <2> QED
    BY <2>1, <2>2 DEF NumbersInv
<1>3. ASSUME NEW u \in On(q)'
      PROVE  \E i \in DOMAIN s : s[i] = u.n /\ u.after = IF i = 1 THEN 0 ELSE s[i - 1]
  <2>1. PICK r \in queue.tasks \ {t} :
          u.n = r.n /\ u.on = r.on /\ u.after = IF r.after = t.n THEN 0 ELSE r.after
    BY SettledFields DEF On
  <2>2. r \in On(q)
    BY <1>3, <2>1 DEF On
  <2>3. PICK i \in DOMAIN s : s[i] = r.n /\ r.after = IF i = 1 THEN 0 ELSE s[i - 1]
    BY <2>2 DEF LinedUp
  <2>4. r.after # t.n
    <3>1. t.n # 0
      BY DEF NumbersInv
    <3>2. i # 1 => i - 1 \in DOMAIN s
      BY <2>3, LineFacts
    <3> QED
      BY <1>2, <2>3, <3>1, <3>2
  <2> QED
    BY <2>1, <2>3, <2>4
<1>4. ASSUME NEW i \in DOMAIN s
      PROVE  \E u \in On(q)' : u.n = s[i]
  <2>1. PICK r \in On(q) : r.n = s[i]
    BY DEF LinedUp
  <2>2. r \in queue.tasks \ {t} /\ r.on = q
    BY <2>1 DEF On
  <2> QED
    BY <2>1, <2>2, SettledFields DEF On
<1> QED
  BY <1>1, <1>3, <1>4 DEF LinedUp

LEMMA TailFacts ==
    ASSUME NEW s \in Seq(Nat \ {0}), s # <<>>
    PROVE  /\ Tail(s) \in Seq(Nat \ {0}) /\ Len(Tail(s)) = Len(s) - 1
           /\ Len(s) \in Nat \ {0} /\ DOMAIN s = 1..Len(s) /\ DOMAIN Tail(s) = 1..(Len(s) - 1)
           /\ \A i \in DOMAIN Tail(s) : i + 1 \in DOMAIN s /\ Tail(s)[i] = s[i + 1]
           /\ \A i \in DOMAIN s : i # 1 => i - 1 \in DOMAIN Tail(s) /\ Tail(s)[i - 1] = s[i]
OBVIOUS

LEMMA NoLength ==
    ASSUME NEW s \in Seq(Nat \ {0}), Len(s) = 0
    PROVE  s = <<>>
OBVIOUS

(* The first of a line goes, and the next one moves up.                        *)
LEMMA LineMovesUp ==
    ASSUME QueueInv, NumbersInv, NEW q \in Queues, NEW s, LinedUp(q, s), NEW t \in On(q),
           t.after = 0, queue' = Settled(t), t.do.op # "clear" \/ Tail(s) = <<>>
    PROVE  LinedUp(q, Tail(s))'
<1>1. 1 \in DOMAIN s /\ s[1] = t.n /\ s # <<>> /\ t \in queue.tasks /\ t.on = q
  <2>1. t \in queue.tasks /\ t.on = q
    BY DEF On
  <2> QED
    BY <2>1, FirstInLine, LineFacts
<1> DEFINE tl == Tail(s)
<1>2. /\ s \in Seq(Nat \ {0}) /\ tl \in Seq(Nat \ {0}) /\ Len(tl) = Len(s) - 1
      /\ Len(s) \in Nat \ {0} /\ DOMAIN s = 1..Len(s) /\ DOMAIN tl = 1..(Len(s) - 1)
      /\ \A i \in DOMAIN tl : i + 1 \in DOMAIN s /\ tl[i] = s[i + 1]
      /\ \A i \in DOMAIN s : i # 1 => i - 1 \in DOMAIN tl /\ tl[i - 1] = s[i]
  BY <1>1, LineFacts, TailFacts
<1> HIDE DEF tl
<1>3. \A i, j \in DOMAIN s : s[i] = s[j] => i = j
  BY DEF LinedUp
<1>4. \A i, j \in DOMAIN tl : tl[i] = tl[j] => i = j
  <2> SUFFICES ASSUME NEW i \in DOMAIN tl, NEW j \in DOMAIN tl, tl[i] = tl[j] PROVE i = j
    OBVIOUS
  <2>1. i + 1 = j + 1
    BY <1>2, <1>3
  <2> QED
    BY <1>2, <2>1
<1>5. ASSUME NEW u \in On(q)'
      PROVE  \E i \in DOMAIN tl : tl[i] = u.n /\ u.after = IF i = 1 THEN 0 ELSE tl[i - 1]
  <2>1. PICK r \in queue.tasks \ {t} :
          u.n = r.n /\ u.on = r.on /\ u.after = IF r.after = t.n THEN 0 ELSE r.after
    BY SettledFields DEF On
  <2>2. r \in On(q) /\ r.n # t.n
    BY <1>1, <1>5, <2>1 DEF On, NumbersInv
  <2>3. PICK i \in DOMAIN s : s[i] = r.n /\ r.after = IF i = 1 THEN 0 ELSE s[i - 1]
    BY <2>2 DEF LinedUp
  <2>4. i # 1 /\ i \in 1..Len(s) /\ i - 1 \in DOMAIN tl /\ tl[i - 1] = u.n
    BY <1>1, <1>2, <2>1, <2>2, <2>3
  <2>5. u.after = IF i - 1 = 1 THEN 0 ELSE tl[(i - 1) - 1]
    <3>1. CASE i = 2
      <4>1. r.after = s[i - 1] /\ i - 1 = 1
        BY <2>3, <3>1
      <4>2. r.after = t.n
        BY <1>1, <4>1
      <4> QED
        BY <2>1, <3>1, <4>2
    <3>2. CASE i # 2
      <4>1. i - 1 \in DOMAIN s /\ i - 1 # 1 /\ s[i - 1] = tl[(i - 1) - 1]
        BY <1>2, <2>4, <3>2
      <4>2. r.after # t.n
        BY <1>1, <1>3, <2>3, <2>4, <4>1
      <4> QED
        BY <2>1, <2>3, <2>4, <4>1, <4>2
    <3> QED
      BY <3>1, <3>2
  <2> QED
    BY <2>4, <2>5
<1>6. ASSUME NEW i \in DOMAIN tl
      PROVE  \E u \in On(q)' : u.n = tl[i]
  <2>1. i + 1 \in DOMAIN s /\ i + 1 # 1 /\ tl[i] = s[i + 1]
    BY <1>2
  <2>2. PICK r \in On(q) : r.n = s[i + 1]
    BY <2>1 DEF LinedUp
  <2>3. r \in queue.tasks /\ r.on = q
    BY <2>2 DEF On
  <2>4. r # t
    BY <1>1, <1>3, <2>1, <2>2
  <2>5. PICK u \in queue'.tasks : u.n = r.n /\ u.on = r.on
    BY <2>3, <2>4, SettledFields
  <2> QED
    BY <2>1, <2>2, <2>3, <2>5 DEF On
<1>7. queue'.last[q] = IF tl = <<>> THEN 0 ELSE tl[Len(tl)]
  <2>1. queue'.last[q] = IF queue.last[q] = t.n \/ t.do.op = "clear" THEN 0 ELSE queue.last[q]
    BY <1>1, SettledLast
  <2>2. queue.last[q] = s[Len(s)]
    BY <1>1 DEF LinedUp
  <2>3. CASE tl = <<>>
    <3>1. Len(s) = 1
      BY <1>2, <2>3
    <3>2. queue.last[q] = t.n
      BY <1>1, <2>2, <3>1
    <3> QED
      BY <2>1, <2>3, <3>2
  <2>4. CASE tl # <<>>
    <3>1. Len(s) # 1 /\ Len(s) \in DOMAIN s /\ Len(tl) = Len(s) - 1 /\ tl[Len(s) - 1] = s[Len(s)]
      <4>1. Len(tl) # 0
        BY <1>2, <2>4, NoLength
      <4>2. Len(s) # 1 /\ Len(s) \in DOMAIN s
        BY <1>2, <4>1
      <4> QED
        BY <1>2, <4>2
    <3>2. s[Len(s)] # t.n
      BY <1>1, <1>3, <3>1
    <3>3. t.do.op # "clear"
      BY <2>4 DEF tl
    <3> QED
      BY <2>1, <2>2, <2>4, <3>1, <3>2, <3>3
  <2> QED
    BY <2>3, <2>4
<1> QED
  BY <1>2, <1>4, <1>5, <1>6, <1>7 DEF LinedUp, tl

(* Enqueued is behind the last of the line.                                    *)
LEMMA LineGrows ==
    ASSUME NumbersInv, NEW q \in Queues, NEW s, LinedUp(q, s), NEW job, NEW by,
           queue' = Enqueued(q, job, by), NEW n, n = Unused
    PROVE  /\ LinedUp(q, Append(s, n))'
           /\ \A u \in On(q)' : u \in On(q) \/ (u.n = n /\ u.do = job)
<1> DEFINE t0 == Task(q, job, by)
           s0 == Append(s, n)
<1>1. /\ t0.n = n /\ t0.on = q /\ t0.after = queue.last[q] /\ t0.do = job
  BY TaskFields
<1>2. queue'.tasks = queue.tasks \cup {t0} /\ queue'.last[q] = n
  BY EnqueuedTasks, EnqueuedLast
<1>3. n \in Nat \ {0} /\ \A t \in queue.tasks : t.n # n
  BY UnusedIsNew DEF Numbers
<1>4. On(q)' = On(q) \cup {t0}
  <2> HIDE DEF t0
  <2> QED
    BY <1>1, <1>2 DEF On
<1>5. /\ s0 \in Seq(Nat \ {0}) /\ Len(s0) = Len(s) + 1 /\ DOMAIN s0 = 1..(Len(s) + 1)
      /\ \A i \in DOMAIN s : s0[i] = s[i] /\ i \in DOMAIN s0
      /\ s0[Len(s) + 1] = n /\ s0 # <<>>
      /\ Len(s) \in Nat /\ DOMAIN s = 1..Len(s)
  BY <1>3, LineFacts
<1> HIDE DEF t0, s0
<1>6. ASSUME NEW i \in DOMAIN s PROVE s[i] # n
  <2>1. PICK t \in On(q) : t.n = s[i]
    BY DEF LinedUp
  <2> QED
    BY <1>3, <2>1 DEF On
<1>7. ASSUME NEW i \in DOMAIN s0, NEW j \in DOMAIN s0, s0[i] = s0[j] PROVE i = j
  <2>1. /\ i \in DOMAIN s \/ i = Len(s) + 1
        /\ j \in DOMAIN s \/ j = Len(s) + 1
    BY <1>5
  <2>2. CASE i \in DOMAIN s /\ j \in DOMAIN s
    BY <1>5, <1>7, <2>2 DEF LinedUp
  <2>3. CASE i \notin DOMAIN s \/ j \notin DOMAIN s
    BY <1>5, <1>6, <1>7, <2>1, <2>3
  <2> QED
    BY <2>2, <2>3
<1>8. ASSUME NEW u \in On(q)
      PROVE  \E i \in DOMAIN s0 : s0[i] = u.n /\ u.after = IF i = 1 THEN 0 ELSE s0[i - 1]
  <2>1. PICK i \in DOMAIN s : s[i] = u.n /\ u.after = IF i = 1 THEN 0 ELSE s[i - 1]
    BY DEF LinedUp
  <2>2. i # 1 => i - 1 \in DOMAIN s
    BY <1>5, <2>1
  <2> QED
    BY <1>5, <2>1, <2>2
<1>9. \E i \in DOMAIN s0 : s0[i] = t0.n /\ t0.after = IF i = 1 THEN 0 ELSE s0[i - 1]
  <2>1. queue.last[q] = IF s = <<>> THEN 0 ELSE s[Len(s)]
    BY DEF LinedUp
  <2>2. CASE s = <<>>
    BY <1>1, <1>5, <2>1, <2>2, LineFacts
  <2>3. CASE s # <<>>
    <3>1. Len(s) # 0 /\ Len(s) \in DOMAIN s
      BY <1>5, <2>3, LineFacts
    <3>2. s0[(Len(s) + 1) - 1] = s[Len(s)] /\ Len(s) + 1 # 1
      BY <1>5, <3>1
    <3>3. Len(s) + 1 \in DOMAIN s0 /\ s0[Len(s) + 1] = t0.n
      BY <1>1, <1>5
    <3>4. t0.after = s0[(Len(s) + 1) - 1]
      BY <1>1, <2>1, <2>3, <3>2
    <3> QED
      BY <3>2, <3>3, <3>4
  <2> QED
    BY <2>2, <2>3
<1>10. ASSUME NEW i \in DOMAIN s0
       PROVE  \E u \in On(q)' : u.n = s0[i]
  <2>1. CASE i \in DOMAIN s
    <3>1. PICK u \in On(q) : u.n = s[i]
      BY <2>1 DEF LinedUp
    <3> QED
      BY <1>4, <1>5, <2>1, <3>1
  <2>2. CASE i \notin DOMAIN s
    <3>1. i = Len(s) + 1
      BY <1>5, <2>2
    <3> QED
      BY <1>1, <1>4, <1>5, <3>1
  <2> QED
    BY <2>1, <2>2
<1>11. queue'.last[q] = s0[Len(s0)]
  BY <1>2, <1>5
<1>12. LinedUp(q, s0)'
  <2>1. \A u \in On(q)' : \E i \in DOMAIN s0 :
          s0[i] = u.n /\ u.after = IF i = 1 THEN 0 ELSE s0[i - 1]
    BY <1>4, <1>8, <1>9
  <2> QED
    BY <1>5, <1>7, <1>10, <1>11, <2>1 DEF LinedUp
<1> QED
  BY <1>1, <1>4, <1>12 DEF s0

(* ... and changes nothing of the other line.                                  *)
LEMMA OtherLineIsKept ==
    ASSUME NumbersInv, NEW q \in Queues, NEW s, LinedUp(q, s), NEW on \in Queues, on # q,
           NEW job, NEW by, queue' = Enqueued(on, job, by)
    PROVE  LinedUp(q, s)' /\ On(q)' = On(q)
<1> DEFINE t0 == Task(on, job, by)
<1>1. t0.on = on
  BY TaskFields
<1>2. queue'.tasks = queue.tasks \cup {t0} /\ queue'.last[q] = queue.last[q]
  BY EnqueuedTasks, EnqueuedLast
<1> HIDE DEF t0
<1>3. On(q)' = On(q)
  BY <1>1, <1>2 DEF On
<1> QED
  BY <1>2, <1>3 DEF LinedUp

LEMMA EmptyLine ==
    ASSUME NumbersInv, NEW q \in Queues, On(q) = {}
    PROVE  LinedUp(q, <<>>)
<1>1. queue.last[q] = 0
  BY DEF NumbersInv
<1> QED
  BY <1>1 DEF LinedUp

(* A clear that can run has no append left before it.                          *)
LEMMA ClearIsLast ==
    ASSUME NumbersInv, ClearsInv, LinesInv, NEW t \in On("chat"), t.do.op = "clear", t.after = 0
    PROVE  Appends = {}
<1> SUFFICES ASSUME NEW a \in Appends PROVE FALSE
  OBVIOUS
<1>1. PICK s : LinedUp("chat", s) /\ ClearsLast(s)
  BY DEF LinesInv
<1>2. 1 \in DOMAIN s /\ s[1] = t.n
  BY <1>1, FirstInLine
<1>3. a \in On("chat") /\ a.do.op = "append"
  BY DEF Appends
<1>4. PICK j \in DOMAIN s : s[j] = a.n
  BY <1>1, <1>3 DEF LinedUp
<1>5. a.n # t.n
  BY <1>3 DEF NumbersInv, On
<1>6. 1 < j
  BY <1>1, <1>2, <1>4, <1>5, LineFacts
<1> QED
  BY <1>1, <1>2, <1>3, <1>4, <1>6 DEF ClearsLast

-----------------------------------------------------------------------------
(* A write is enqueued when no wipe runs and the peer is not blocked, or the   *)
(* history notes that it was late.                                             *)
LEMMA EnqueueWipes ==
    ASSUME WipeInv, NEW on \in Queues, NEW job, NEW by,
           job.op # "clear", on = "chat" => job.op = "append", by.who # "wipe",
           queue' = Enqueued(on, job, by), SameBlocks, UNCHANGED <<disk, wipes>>,
           ~past'.late => ~past.late /\ wipes = {} /\ ~disk.blocked
    PROVE  WipeInv'
<1>1. NumbersInv /\ ClearsInv /\ NumbersInv' /\ ClearsInv'
  BY EnqueuedNumbers, EnqueuedClears DEF WipeInv
<1>2. ASSUME ~past'.late
      PROVE  LinesInv' /\ SerialInv' /\ WipingInv' /\ GoneInv'
  <2>1. LinesInv /\ SerialInv /\ wipes = {} /\ ~disk.blocked
    BY <1>2 DEF WipeInv
  <2>2. "chat" \in Queues /\ "rows" \in Queues /\ "chat" # "rows" /\ (on = "chat" \/ on = "rows")
    BY DEF Queues
  <2>3. PICK n : n = Unused
    OBVIOUS
  <2>4. \E s : LinedUp("rows", s)'
    <3>1. PICK s : LinedUp("rows", s)
      BY <2>1 DEF LinesInv
    <3>2. CASE on = "rows"
      <4>1. LinedUp("rows", Append(s, n))'
        BY <1>1, <2>3, <3>1, <3>2, LineGrows
      <4> QED
        BY <4>1
    <3>3. CASE on = "chat"
      BY <1>1, <2>2, <3>1, <3>3, OtherLineIsKept
    <3> QED
      BY <2>2, <3>2, <3>3
  <2>5. \A t \in On("chat") : t.do.op = "append"
    BY <1>1, <2>1 DEF ClearsInv, On
  <2>6. PICK s : LinedUp("chat", s)
    <3>1. CASE Appends = {}
      BY <1>1, <2>2, <2>5, <3>1, EmptyLine DEF Appends
    <3>2. CASE Appends # {}
      BY <2>1, <3>2 DEF LinesInv
    <3> QED
      BY <3>1, <3>2
  <2>7. \E r : LinedUp("chat", r)' /\ \A t \in On("chat")' : t.do.op # "clear"
    <3>1. CASE on = "chat"
      <4>1. LinedUp("chat", Append(s, n))' /\ \A u \in On("chat")' : u \in On("chat") \/ u.do = job
        BY <1>1, <2>3, <2>6, <3>1, LineGrows
      <4> QED
        BY <2>5, <4>1
    <3>2. CASE on = "rows"
      BY <1>1, <2>2, <2>5, <2>6, <3>2, OtherLineIsKept
    <3> QED
      BY <2>2, <3>1, <3>2
  <2>8. LinesInv'
    BY <2>4, <2>7 DEF LinesInv, ClearsLast
  <2>9. SerialInv'
    <3> DEFINE t0 == Task(on, job, by)
    <3>1. t0.seen = Unread
      BY TaskFields
    <3> HIDE DEF t0
    <3>2. queue'.tasks = queue.tasks \cup {t0}
      BY EnqueuedTasks DEF t0
    <3> QED
      BY <2>1, <3>1, <3>2 DEF SerialInv, Stored
  <2> QED
    BY <2>1, <2>8, <2>9 DEF WipingInv, GoneInv
<1> QED
  BY <1>1, <1>2 DEF WipeInv

-----------------------------------------------------------------------------
(* A write settles.                                                            *)
LEMMA SettleLines ==
    ASSUME QueueInv, NumbersInv, ClearsInv, LinesInv, NEW t \in queue.tasks, t.after = 0,
           queue' = Settled(t)
    PROVE  LinesInv' /\ (Appends = {} => Appends' = {})
<1>1. "chat" \in Queues /\ "rows" \in Queues /\ "chat" # "rows"
  BY DEF Queues
<1>2. t.on \in {"chat", "rows"} /\ (t.do.op = "clear" => t.on = "chat")
  BY DEF QueueInv, Sound, RowOps, NumbersInv, Queues
<1>3. \E s : LinedUp("rows", s)'
  <2>1. PICK s : LinedUp("rows", s)
    BY DEF LinesInv
  <2>2. CASE t.on = "rows"
    <3>1. LinedUp("rows", Tail(s))'
      BY <1>1, <1>2, <2>1, <2>2, LineMovesUp DEF On
    <3> QED
      BY <3>1
  <2>3. CASE t.on = "chat"
    BY <1>1, <2>1, <2>3, OtherLineStays
  <2> QED
    BY <1>2, <2>2, <2>3
<1>4. \A u \in On("chat")' : \E s \in On("chat") : s # t /\ u.n = s.n /\ u.do = s.do
  <2> SUFFICES ASSUME NEW u \in On("chat")'
               PROVE  \E s \in On("chat") : s # t /\ u.n = s.n /\ u.do = s.do
    OBVIOUS
  <2>1. u \in queue'.tasks /\ u.on = "chat"
    BY DEF On
  <2>2. PICK s \in queue.tasks \ {t} : u.n = s.n /\ u.on = s.on /\ u.do = s.do
    BY <2>1, SettledFields
  <2> QED
    BY <2>1, <2>2 DEF On
<1>5. Appends = {} => Appends' = {}
  BY <1>4 DEF Appends
<1>6. ASSUME Appends' # {}
      PROVE  \E s : LinedUp("chat", s)' /\ ClearsLast(s)'
  <2>1. PICK s : LinedUp("chat", s) /\ ClearsLast(s)
    BY <1>5, <1>6 DEF LinesInv
  <2>2. CASE t.on = "rows"
    <3>1. LinedUp("chat", s)'
      BY <1>1, <2>1, <2>2, OtherLineStays
    <3>2. ClearsLast(s)'
      <4> SUFFICES ASSUME NEW i \in DOMAIN s, NEW j \in DOMAIN s, NEW u \in On("chat")',
                          NEW v \in On("chat")', i < j, s[i] = u.n, s[j] = v.n,
                          u.do.op = "clear"
                   PROVE  v.do.op = "clear"
        BY DEF ClearsLast
      <4>1. PICK x \in On("chat") : u.n = x.n /\ u.do = x.do
        BY <1>4
      <4>2. PICK y \in On("chat") : v.n = y.n /\ v.do = y.do
        BY <1>4
      <4> QED
        BY <2>1, <4>1, <4>2 DEF ClearsLast
    <3> QED
      BY <3>1, <3>2
  <2>3. CASE t.on = "chat"
    <3>1. t \in On("chat") /\ t.do.op # "clear"
      BY <1>5, <1>6, <2>3, ClearIsLast DEF On
    <3>2. LinedUp("chat", Tail(s))'
      BY <1>1, <2>1, <3>1, LineMovesUp
    <3>3. s \in Seq(Nat \ {0}) /\ s # <<>>
      BY <2>1, <3>1, LineFacts
    <3>4. \A i \in DOMAIN Tail(s) : i + 1 \in DOMAIN s /\ Tail(s)[i] = s[i + 1] /\ i \in Nat
      BY <3>3, TailFacts
    <3>5. ClearsLast(Tail(s))'
      <4> SUFFICES ASSUME NEW i \in DOMAIN Tail(s), NEW j \in DOMAIN Tail(s),
                          NEW u \in On("chat")', NEW v \in On("chat")', i < j,
                          Tail(s)[i] = u.n, Tail(s)[j] = v.n, u.do.op = "clear"
                   PROVE  v.do.op = "clear"
        BY DEF ClearsLast
      <4>1. PICK x \in On("chat") : u.n = x.n /\ u.do = x.do
        BY <1>4
      <4>2. PICK y \in On("chat") : v.n = y.n /\ v.do = y.do
        BY <1>4
      <4>3. i + 1 < j + 1 /\ s[i + 1] = x.n /\ s[j + 1] = y.n
        BY <3>4, <4>1, <4>2
      <4> QED
        BY <2>1, <3>4, <4>1, <4>2, <4>3 DEF ClearsLast
    <3> QED
      BY <3>2, <3>5
  <2> QED
    BY <1>2, <2>2, <2>3
<1> QED
  BY <1>3, <1>5, <1>6 DEF LinesInv

LEMMA SettleSerial ==
    ASSUME QueueInv, NumbersInv, ClearsInv, LinesInv, SerialInv, NEW t \in queue.tasks,
           t.after = 0, queue' = Settled(t), \A q \in Queues : q # t.on => Stored(q)' = Stored(q)
    PROVE  SerialInv'
<1> SUFFICES ASSUME NEW u \in queue'.tasks, u.seen # Unread
             PROVE  u.after = 0 /\ u.do.op # "clear" /\ u.seen = Stored(u.on)'
  BY DEF SerialInv
<1>1. PICK s \in queue.tasks \ {t} :
        /\ u.on = s.on /\ u.do = s.do /\ u.seen = s.seen
        /\ u.after = IF s.after = t.n THEN 0 ELSE s.after
  BY SettledFields
<1>2. s.after = 0 /\ s.do.op # "clear" /\ s.seen = Stored(s.on)
  BY <1>1 DEF SerialInv
<1>3. s.on # t.on
  <2>1. SUFFICES ASSUME s.on = t.on PROVE FALSE
    OBVIOUS
  <2>2. s.on \in {"chat", "rows"} /\ s \in On(s.on) /\ t \in On(s.on)
    BY <2>1 DEF NumbersInv, Queues, On
  <2>3. s.on = "chat" => s \in Appends
    BY <1>2, <2>2 DEF ClearsInv, Appends
  <2>4. PICK r : LinedUp(s.on, r)
    BY <2>2, <2>3 DEF LinesInv
  <2> QED
    BY <1>1, <1>2, <2>2, <2>4, FirstInLine
<1> QED
  BY <1>1, <1>2, <1>3 DEF NumbersInv

LEMMA SettleWiping ==
    ASSUME QueueInv, NumbersInv, ClearsInv, LinesInv, WipingInv, NEW t \in queue.tasks,
           t.after = 0, queue' = Settled(t), wipes' = WipesAfter(t),
           t.do.op = "clear" => disk'.chat = {},
           t.on # "chat" => disk'.chat = disk.chat
    PROVE  WipingInv'
<1> SUFFICES ASSUME NEW v \in wipes'
             PROVE  /\ v.stage \in {"clearing", "keys", "draining"}
                    /\ v.stage # "clearing" => disk'.chat = {} /\ Appends' = {}
                    /\ v.stage = "draining" => IF v.waits = 0 THEN On("rows")' = {}
                                               ELSE v.waits = queue'.last["rows"]
  BY DEF WipingInv
<1>1. PICK w \in wipes : v = Advanced(w, t)
  BY WipesAdvance
<1>2. w = [n |-> w.n, stage |-> w.stage, waits |-> w.waits]
  BY DEF ClearsInv
<1>3. Appends = {} => Appends' = {}
  BY SettleLines
<1>4. CASE t.by = By("wipe", w.n)
  <2>1. t.do.op = "clear" /\ t \in On("chat")
    <3>1. t.by.who = "wipe"
      BY <1>4, ByWhat
    <3>2. t.do.op = "clear"
      BY <3>1 DEF ClearsInv
    <3>3. t.on = "chat"
      <4>1. Sound(t)
        BY DEF QueueInv
      <4> QED
        BY <3>2, <4>1 DEF Sound, RowOps
    <3> QED
      BY <3>2, <3>3 DEF On
  <2>2. Appends = {}
    BY <2>1, ClearIsLast
  <2>3. v.stage = "keys"
    BY <1>1, <1>2, <1>4, AdvancedFields
  <2> QED
    BY <1>3, <2>1, <2>2, <2>3
<1>5. CASE t.by # By("wipe", w.n)
  <2>1. /\ v.stage = w.stage
        /\ v.waits = IF w.stage = "draining" /\ w.waits = t.n THEN 0 ELSE w.waits
    BY <1>1, <1>2, <1>5, AdvancedFields
  <2>2. /\ w.stage \in {"clearing", "keys", "draining"}
        /\ w.stage # "clearing" => disk.chat = {} /\ Appends = {}
        /\ w.stage = "draining" => IF w.waits = 0 THEN On("rows") = {}
                                   ELSE w.waits = queue.last["rows"]
    BY DEF WipingInv
  <2>3. v.stage # "clearing" => disk'.chat = {} /\ Appends' = {}
    <3>1. t.on = "chat" /\ t.do.op # "clear" => t \in Appends
      BY DEF ClearsInv, Appends, On
    <3> QED
      BY <1>3, <2>1, <2>2, <3>1
  <2>4. ASSUME w.stage = "draining"
        PROVE  IF v.waits = 0 THEN On("rows")' = {} ELSE v.waits = queue'.last["rows"]
    <3>1. \A u \in On("rows")' : \E r \in On("rows") : r # t
      <4>1. \A u \in queue'.tasks : \E r \in queue.tasks \ {t} : u.on = r.on
        BY SettledFields
      <4> QED
        BY <4>1 DEF On
    <3>2. t.n # 0 /\ "rows" \in Queues /\ (t.on = "rows" => t.do.op # "clear")
      BY DEF NumbersInv, Queues, QueueInv, Sound, RowOps
    <3>3. CASE w.waits = 0
      BY <2>1, <2>2, <2>4, <3>1, <3>2, <3>3
    <3>4. CASE w.waits # 0 /\ w.waits = t.n
      <4>1. queue.last["rows"] = t.n
        BY <2>2, <2>4, <3>4
      <4>2. PICK r \in On("rows") : r.n = t.n
        BY <3>2, <3>4, <4>1 DEF NumbersInv
      <4>3. t \in On("rows")
        BY <4>2 DEF NumbersInv, On
      <4>4. PICK s : LinedUp("rows", s)
        BY DEF LinesInv
      <4>5. 1 \in DOMAIN s /\ s[1] = t.n
        BY <4>3, <4>4, FirstInLine
      <4>6. s[Len(s)] = t.n /\ Len(s) \in DOMAIN s
        BY <3>2, <4>1, <4>4, <4>5, LineFacts DEF LinedUp
      <4>7. DOMAIN s = {1}
        <5>1. s[Len(s)] = s[1]
          BY <4>5, <4>6
        <5>2. Len(s) = 1
          BY <4>4, <4>5, <4>6, <5>1 DEF LinedUp
        <5>3. s \in Seq(Nat \ {0})
          BY <4>4 DEF LinedUp
        <5> QED
          BY <5>2, <5>3, LineFacts
      <4>8. \A u \in On("rows") : u.n = t.n
        BY <4>4, <4>5, <4>7 DEF LinedUp
      <4>9. \A u \in On("rows") : u = t
        BY <4>8 DEF NumbersInv, On
      <4> QED
        BY <2>1, <2>4, <3>1, <3>4, <4>9
    <3>5. CASE w.waits # 0 /\ w.waits # t.n
      <4>1. w.waits = queue.last["rows"] /\ v.waits = w.waits
        BY <2>1, <2>2, <2>4, <3>5
      <4>2. queue'.last["rows"] = queue.last["rows"]
        <5>1. queue'.last = [queue.last EXCEPT ![t.on] =
                                IF @ = t.n \/ t.do.op = "clear" THEN 0 ELSE @]
          BY SettledTasks
        <5>2. CASE t.on = "rows"
          <6>1. queue.last["rows"] # t.n /\ t.do.op # "clear"
            BY <3>2, <3>5, <4>1, <5>2
          <6>2. queue.last \in [Queues -> Nat]
            BY DEF NumbersInv
          <6> QED
            BY <3>2, <5>1, <5>2, <6>1, <6>2
        <5>3. CASE t.on # "rows"
          BY <3>2, <5>1, <5>3 DEF NumbersInv
        <5> QED
          BY <5>2, <5>3
      <4> QED
        BY <3>5, <4>1, <4>2
    <3> QED
      BY <3>3, <3>4, <3>5
  <2> QED
    BY <2>1, <2>2, <2>3, <2>4
<1> QED
  BY <1>4, <1>5
(* A write that settles, having changed what its queue is for.                 *)
LEMMA SettleWipes ==
    ASSUME QueueInv, WipeInv, NEW t \in queue.tasks, t.after = 0, queue' = Settled(t),
           wipes' = WipesAfter(t), SameBlocks, ~past'.late => ~past.late,
           disk'.rows # {} => disk'.keyed, disk'.blocked = disk.blocked,
           ~past'.late => (t.do.op = "clear" => disk'.chat = {}),
           t.on # "chat" => disk'.chat = disk.chat, t.on # "rows" => disk'.rows = disk.rows
    PROVE  WipeInv'
<1>1. NumbersInv' /\ ClearsInv'
  BY SettledNumbers, SettledClears DEF WipeInv
<1>2. ASSUME ~past'.late
      PROVE  LinesInv' /\ SerialInv' /\ WipingInv' /\ GoneInv'
  <2>1. NumbersInv /\ ClearsInv /\ LinesInv /\ SerialInv /\ WipingInv /\ GoneInv
    BY <1>2 DEF WipeInv
  <2>2. LinesInv'
    BY <2>1, SettleLines
  <2>3. SerialInv'
    <3>1. \A q \in Queues : q # t.on => Stored(q)' = Stored(q)
      BY DEF Stored, Queues
    <3> QED
      BY <2>1, <3>1, SettleSerial
  <2>4. WipingInv'
    BY <1>2, <2>1, SettleWiping
  <2>5. GoneInv'
    <3>1. wipes # {} => wipes' # {}
      BY WipesAdvance
    <3> QED
      BY <2>1, <3>1 DEF GoneInv
  <2> QED
    BY <2>2, <2>3, <2>4, <2>5
<1> QED
  BY <1>1, <1>2 DEF WipeInv

LEMMA WriteWipes ==
    ASSUME OnceInv, WipeInv, NEW t \in queue.tasks, WriteStored(t) \/ ClearMessages(t)
    PROVE  WipeInv'
<1>1. t.after = 0 /\ queue' = Settled(t) /\ wipes' = WipesAfter(t) /\ past' = past
  BY DEF WriteStored, ClearMessages
<1>2. QueueInv /\ DiskInv /\ t.on \in {"chat", "rows"}
  BY DEF OnceInv, QueueInv, Sound, WipeInv, NumbersInv, Queues
<1>3. SameBlocks
  BY <1>1 DEF SameBlocks, PastShape, WipeInv, ClearsInv
<1>4. disk'.blocked = disk.blocked /\ (disk'.rows # {} => disk'.keyed)
  BY <1>2 DEF DiskInv, WipeInv, WriteStored, ClearMessages
<1>5. (t.on # "chat" => disk'.chat = disk.chat) /\ (t.on # "rows" => disk'.rows = disk.rows)
  BY <1>2 DEF DiskInv, QueueInv, Sound, RowOps, WriteStored, ClearMessages
<1>6. ASSUME ~past'.late, t.do.op = "clear"
      PROVE  disk'.chat = {}
  <2>1. ClearMessages(t)
    BY <1>1, <1>6 DEF WipeInv, SerialInv, WriteStored
  <2> QED
    BY <1>2, <2>1 DEF ClearMessages, DiskInv
<1> QED
  BY <1>1, <1>2, <1>3, <1>4, <1>5, <1>6, SettleWipes

LEMMA FailWipes ==
    ASSUME OnceInv, WipeInv, NEW t \in queue.tasks, WriteFails(t)
    PROVE  WipeInv'
<1>1. /\ t.after = 0 /\ queue' = Settled(t) /\ wipes' = WipesAfter(t) /\ disk' = disk
      /\ past' = [past EXCEPT !.faults = past.faults + 1,
                              !.late = past.late \/ t.by.who \in {"wipe", "undo"}]
  BY DEF WriteFails
<1>2. past = [blocks |-> past.blocks, faults |-> past.faults, late |-> past.late]
  BY DEF WipeInv, ClearsInv
<1>3. past' = [blocks |-> past.blocks, faults |-> past.faults + 1,
               late |-> past.late \/ t.by.who \in {"wipe", "undo"}]
  BY <1>1, <1>2
<1>4. SameBlocks
  BY <1>3 DEF SameBlocks, PastShape
<1>5. QueueInv
  BY DEF OnceInv
<1>6. ~past'.late => ~past.late /\ t.by.who # "wipe"
  BY <1>3
<1>7. t.do.op = "clear" => t.by.who = "wipe"
  BY ByWhat DEF WipeInv, ClearsInv
<1> QED
  BY <1>1, <1>4, <1>5, <1>6, <1>7, SettleWipes DEF WipeInv
(* A write reads: but for what it has seen, the queues are as before.          *)
LEMMA ReadWipes ==
    ASSUME OnceInv, WipeInv, NEW t \in queue.tasks, ReadStored(t)
    PROVE  WipeInv'
<1> DEFINE t0 == [t EXCEPT !.seen = Stored(t.on)]
<1>1. /\ t.after = 0 /\ t.do.op # "clear"
      /\ queue' = [queue EXCEPT !.tasks = (queue.tasks \ {t}) \cup {t0}]
      /\ UNCHANGED <<disk, views, own, wipes, past>>
  BY DEF ReadStored, Stored
<1>2. /\ t0.n = t.n /\ t0.on = t.on /\ t0.after = t.after /\ t0.do = t.do /\ t0.by = t.by
      /\ t0.seen = Stored(t.on)
  <2>1. TaskShape(t)
    BY DEF OnceInv, QueueInv, Sound
  <2>2. \A x : [t EXCEPT !.seen = x] =
            [n |-> t.n, on |-> t.on, after |-> t.after, do |-> t.do, by |-> t.by, seen |-> x]
    BY <2>1 DEF TaskShape
  <2> QED
    BY <2>2
<1> HIDE DEF t0
<1>3. queue'.tasks = (queue.tasks \ {t}) \cup {t0} /\ queue'.last = queue.last
  BY <1>1 DEF OnceInv, QueueInv
<1>4. \A u \in queue'.tasks : \E s \in queue.tasks :
          /\ u.n = s.n /\ u.on = s.on /\ u.after = s.after /\ u.do = s.do /\ u.by = s.by
          /\ u = IF s = t THEN t0 ELSE s
  BY <1>2, <1>3
<1>5. \A s \in queue.tasks : \E u \in queue'.tasks :
          u.n = s.n /\ u.on = s.on /\ u.after = s.after /\ u.do = s.do /\ u.by = s.by
  BY <1>2, <1>3
<1>6. NumbersInv'
  <2>1. IsFiniteSet(queue'.tasks)
    <3>1. IsFiniteSet(queue.tasks \ {t})
      BY FS_Subset DEF WipeInv, NumbersInv
    <3> QED
      BY <1>3, <3>1, FS_AddElement
  <2>2. ASSUME NEW u \in queue'.tasks
        PROVE  /\ u.n \in Nat \ {0} /\ u.on \in Queues
               /\ \A v \in queue'.tasks : v.n = u.n => v = u
    BY <1>4 DEF WipeInv, NumbersInv
  <2>3. \A q \in Queues : queue'.last[q] # 0 => \E u \in On(q)' : u.n = queue'.last[q]
    BY <1>3, <1>5 DEF WipeInv, NumbersInv, On
  <2> QED
    BY <1>3, <2>1, <2>2, <2>3 DEF WipeInv, NumbersInv
<1>7. ClearsInv'
  <2>1. \A u \in queue'.tasks :
         /\ u.on = "chat" => u.do.op \in {"append", "clear"}
         /\ u.do.op = "clear" => \E w \in wipes : w.stage = "clearing" /\ u.by = By("wipe", w.n)
         /\ u.by.who = "wipe" => u.do.op = "clear"
    BY <1>4 DEF WipeInv, ClearsInv
  <2>2. ASSUME NEW u \in queue'.tasks, NEW v \in queue'.tasks, u.do.op = "clear", v.by = u.by
        PROVE  v = u
    BY <1>4, <2>2 DEF WipeInv, ClearsInv
  <2> QED
    BY <1>1, <2>1, <2>2 DEF WipeInv, ClearsInv
<1>8. ASSUME NEW q, NEW s, LinedUp(q, s) PROVE LinedUp(q, s)'
  <2>1. ASSUME NEW u \in On(q)'
        PROVE  \E i \in DOMAIN s : s[i] = u.n /\ u.after = IF i = 1 THEN 0 ELSE s[i - 1]
    <3>1. PICK r \in On(q) : u.n = r.n /\ u.after = r.after
      BY <1>4 DEF On
    <3>2. PICK i \in DOMAIN s : s[i] = r.n /\ r.after = IF i = 1 THEN 0 ELSE s[i - 1]
      BY <1>8 DEF LinedUp
    <3> QED
      BY <3>1, <3>2
  <2>2. ASSUME NEW i \in DOMAIN s PROVE \E u \in On(q)' : u.n = s[i]
    <3>1. PICK r \in On(q) : r.n = s[i]
      BY <1>8 DEF LinedUp
    <3> QED
      BY <1>5, <3>1 DEF On
  <2> QED
    BY <1>3, <1>8, <2>1, <2>2 DEF LinedUp
<1>9. ASSUME ~past'.late
      PROVE  LinesInv' /\ SerialInv' /\ WipingInv' /\ GoneInv'
  <2>1. LinesInv /\ SerialInv /\ WipingInv /\ GoneInv
    BY <1>1, <1>9 DEF WipeInv
  <2>2. \A u \in On("chat")' : \E s \in On("chat") : u.n = s.n /\ u.do = s.do
    BY <1>4 DEF On
  <2>3. LinesInv'
    <3>1. \E s : LinedUp("rows", s)'
      BY <1>8, <2>1 DEF LinesInv
    <3>2. ASSUME Appends' # {}
          PROVE  \E s : LinedUp("chat", s)' /\ ClearsLast(s)'
      <4>1. Appends # {}
        BY <2>2, <3>2 DEF Appends
      <4>2. PICK s : LinedUp("chat", s) /\ ClearsLast(s)
        BY <2>1, <4>1 DEF LinesInv
      <4>3. ClearsLast(s)'
        <5> SUFFICES ASSUME NEW i \in DOMAIN s, NEW j \in DOMAIN s, NEW u \in On("chat")',
                            NEW v \in On("chat")', i < j, s[i] = u.n, s[j] = v.n,
                            u.do.op = "clear"
                     PROVE  v.do.op = "clear"
          BY DEF ClearsLast
        <5>1. PICK x \in On("chat") : u.n = x.n /\ u.do = x.do
          BY <2>2
        <5>2. PICK y \in On("chat") : v.n = y.n /\ v.do = y.do
          BY <2>2
        <5> QED
          BY <4>2, <5>1, <5>2 DEF ClearsLast
      <4> QED
        BY <1>8, <4>2, <4>3
    <3> QED
      BY <3>1, <3>2 DEF LinesInv
  <2>4. SerialInv'
    BY <1>1, <1>2, <1>3, <2>1 DEF SerialInv, Stored
  <2>5. WipingInv'
    <3>1. Appends = {} => Appends' = {}
      BY <2>2 DEF Appends
    <3>2. On("rows") = {} => On("rows")' = {}
      BY <1>4 DEF On
    <3> QED
      BY <1>1, <1>3, <2>1, <3>1, <3>2 DEF WipingInv
  <2>6. GoneInv'
    BY <1>1, <2>1 DEF GoneInv
  <2> QED
    BY <2>3, <2>4, <2>5, <2>6
<1> QED
  BY <1>1, <1>6, <1>7, <1>9 DEF WipeInv

(* A step that leaves queues and wipes alone, and does not block the peer      *)
LEMMA QuietWipes ==
    ASSUME WipeInv, UNCHANGED <<queue, wipes>>, SameBlocks, ~past'.late => ~past.late,
           disk'.chat = disk.chat, disk'.rows = disk.rows, disk'.keyed = disk.keyed,
           disk'.blocked => disk.blocked
    PROVE  WipeInv'
<1>1. NumbersInv'
  BY DEF WipeInv, NumbersInv, On
<1>2. ClearsInv'
  BY DEF WipeInv, ClearsInv, SameBlocks, PastShape
<1>3. ASSUME ~past'.late
      PROVE  LinesInv' /\ SerialInv' /\ WipingInv' /\ GoneInv'
  <2>1. LinesInv /\ SerialInv /\ WipingInv /\ GoneInv
    BY <1>3 DEF WipeInv
  <2>2. On("chat")' = On("chat") /\ On("rows")' = On("rows") /\ Appends' = Appends
    BY DEF On, Appends
  <2>3. \A s : (LinedUp("rows", s)' <=> LinedUp("rows", s)) /\ (LinedUp("chat", s)' <=> LinedUp("chat", s))
               /\ (ClearsLast(s)' <=> ClearsLast(s))
    BY <2>2 DEF LinedUp, ClearsLast
  <2>4. LinesInv'
    BY <2>1, <2>2, <2>3 DEF LinesInv
  <2>5. SerialInv'
    BY <2>1 DEF SerialInv, Stored
  <2>6. WipingInv' /\ GoneInv'
    BY <2>1, <2>2 DEF WipingInv, GoneInv
  <2> QED
    BY <2>4, <2>5, <2>6
<1> QED
  BY <1>1, <1>2, <1>3 DEF WipeInv
-----------------------------------------------------------------------------
(* The wipe.                                                                   *)

(* The clear stands behind the messages that are queued.                       *)
LEMMA ClearGrows ==
    ASSUME NumbersInv, NEW s, LinedUp("chat", s), ClearsLast(s), NEW job, NEW by,
           queue' = Enqueued("chat", job, by), job.op = "clear", NEW n, n = Unused
    PROVE  LinedUp("chat", Append(s, n))' /\ ClearsLast(Append(s, n))'
<1>1. /\ LinedUp("chat", Append(s, n))'
      /\ \A u \in On("chat")' : u \in On("chat") \/ (u.n = n /\ u.do = job)
  BY LineGrows DEF Queues
<1>2. n \in Nat \ {0} /\ \A t \in queue.tasks : t.n # n
  BY UnusedIsNew DEF Numbers
<1>3. s \in Seq(Nat \ {0})
  BY DEF LinedUp
<1> DEFINE s0 == Append(s, n)
<1>4. /\ DOMAIN s0 = 1..(Len(s) + 1) /\ DOMAIN s = 1..Len(s) /\ Len(s) \in Nat
      /\ \A i \in DOMAIN s : s0[i] = s[i]
      /\ s0[Len(s) + 1] = n
  BY <1>2, <1>3
<1> HIDE DEF s0
<1>5. ASSUME NEW i \in DOMAIN s PROVE s[i] # n
  <2>1. PICK t \in On("chat") : t.n = s[i]
    BY DEF LinedUp
  <2> QED
    BY <1>2, <2>1 DEF On
<1>6. ClearsLast(s0)'
  <2> SUFFICES ASSUME NEW i \in DOMAIN s0, NEW j \in DOMAIN s0, NEW t \in On("chat")',
                      NEW u \in On("chat")', i < j, s0[i] = t.n, s0[j] = u.n, t.do.op = "clear"
               PROVE  u.do.op = "clear"
    BY DEF ClearsLast
  <2>1. CASE u.n = n
    BY <1>1, <1>2, <2>1 DEF On
  <2>2. CASE u.n # n
    <3>1. u \in On("chat") /\ j \in DOMAIN s
      BY <1>1, <1>4, <2>2
    <3>2. i \in DOMAIN s /\ s[i] = t.n /\ s[j] = u.n
      BY <1>4, <3>1
    <3>3. t \in On("chat")
      BY <1>1, <1>5, <3>2
    <3> QED
      BY <3>1, <3>2, <3>3 DEF ClearsLast
  <2> QED
    BY <2>1, <2>2
<1> QED
  BY <1>1, <1>6 DEF s0

LEMMA BlockWipes ==
    ASSUME OnceInv, WipeInv, BlockContact
    PROVE  WipeInv'
<1> DEFINE n == past.blocks + 1
           job == Job("clear", Unread, Unread, 0)
           w0 == [n |-> n, stage |-> "clearing", waits |-> 0]
           t0 == Task("chat", job, By("wipe", n))
<1>1. /\ disk' = [disk EXCEPT !.blocked = TRUE]
      /\ past' = [past EXCEPT !.blocks = n]
      /\ wipes' = wipes \cup {w0}
      /\ queue' = Enqueued("chat", job, By("wipe", n))
  BY DEF BlockContact
<1>2. job.op = "clear"
  BY DEF Job
<1>3. w0 = [n |-> w0.n, stage |-> w0.stage, waits |-> w0.waits] /\ w0.n = n /\ w0.stage = "clearing"
  OBVIOUS
<1>4. t0.on = "chat" /\ t0.do = job /\ t0.by = By("wipe", n) /\ t0.seen = Unread
  BY TaskFields
<1> HIDE DEF job, w0, t0
<1>5. queue'.tasks = queue.tasks \cup {t0}
  BY <1>1, EnqueuedTasks DEF t0
<1>6. /\ past.blocks \in Nat
      /\ past' = [blocks |-> n, faults |-> past.faults, late |-> past.late]
  BY <1>1 DEF WipeInv, ClearsInv
<1>7. disk'.chat = disk.chat /\ disk'.rows = disk.rows /\ disk'.keyed = disk.keyed
  BY <1>1 DEF OnceInv, DiskInv
<1>8. "chat" \in Queues /\ "rows" \in Queues /\ "chat" # "rows"
  BY DEF Queues
<1>9. NumbersInv'
  BY <1>1, <1>8, EnqueuedNumbers DEF WipeInv
<1>10. ClearsInv'
  <2>1. \A w \in wipes' : w = [n |-> w.n, stage |-> w.stage, waits |-> w.waits] /\ w.n \in 1..n
    BY <1>1, <1>3, <1>6 DEF WipeInv, ClearsInv
  <2>2. \A t \in queue.tasks : t.by # By("wipe", n)
    <3> SUFFICES ASSUME NEW t \in queue.tasks, t.by = By("wipe", n) PROVE FALSE
      OBVIOUS
    <3>1. t.by.who = "wipe" /\ t.by.n = n
      BY ByWhat
    <3>2. PICK w \in wipes : t.by = By("wipe", w.n)
      BY <3>1 DEF WipeInv, ClearsInv
    <3>3. w.n = n /\ w.n \in 1..past.blocks
      BY <3>1, <3>2, ByWhat DEF WipeInv, ClearsInv
    <3> QED
      BY <1>6, <3>3
  <2>3. \A t \in queue'.tasks :
         /\ t.on = "chat" => t.do.op \in {"append", "clear"}
         /\ t.do.op = "clear" => \E w \in wipes' : w.stage = "clearing" /\ t.by = By("wipe", w.n)
         /\ t.by.who = "wipe" => t.do.op = "clear"
    BY <1>1, <1>2, <1>3, <1>4, <1>5 DEF WipeInv, ClearsInv
  <2>4. \A t, u \in queue'.tasks : t.do.op = "clear" /\ u.by = t.by => u = t
    BY <1>4, <1>5, <2>2 DEF WipeInv, ClearsInv
  <2> QED
    BY <1>6, <2>1, <2>3, <2>4 DEF ClearsInv
<1>11. ASSUME ~past'.late
       PROVE  LinesInv' /\ SerialInv' /\ WipingInv' /\ GoneInv'
  <2>1. NumbersInv /\ LinesInv /\ SerialInv /\ WipingInv
    BY <1>6, <1>11 DEF WipeInv
  <2>2. Appends' = Appends
    BY <1>2, <1>4, <1>5 DEF Appends, On
  <2>3. PICK r : LinedUp("rows", r)
    BY <2>1 DEF LinesInv
  <2>4. LinedUp("rows", r)' /\ On("rows")' = On("rows")
    BY <1>1, <1>8, <2>1, <2>3, OtherLineIsKept
  <2>5. queue'.last["rows"] = queue.last["rows"]
    BY <1>1, <1>8, <2>1, EnqueuedLast
  <2>6. LinesInv'
    <3>1. ASSUME Appends' # {} PROVE \E s : LinedUp("chat", s)' /\ ClearsLast(s)'
      <4>1. PICK s : LinedUp("chat", s) /\ ClearsLast(s)
        BY <2>1, <2>2, <3>1 DEF LinesInv
      <4>2. PICK m : m = Unused
        OBVIOUS
      <4>3. LinedUp("chat", Append(s, m))' /\ ClearsLast(Append(s, m))'
        BY <1>1, <1>2, <2>1, <4>1, <4>2, ClearGrows
      <4> QED
        BY <4>3
    <3> QED
      BY <2>4, <3>1 DEF LinesInv
  <2>7. SerialInv'
    BY <1>4, <1>5, <1>7, <2>1 DEF SerialInv, Stored
  <2>8. WipingInv'
    BY <1>1, <1>3, <1>7, <2>1, <2>2, <2>4, <2>5 DEF WipingInv
  <2>9. GoneInv'
    BY <1>1 DEF GoneInv
  <2> QED
    BY <2>6, <2>7, <2>8, <2>9
<1> QED
  BY <1>7, <1>9, <1>10, <1>11 DEF WipeInv

(* Without a key nothing is stored, and if nothing is queued for the reactions *)
(* either the wipe was the last thing under way.                               *)
LEMMA FindWipes ==
    ASSUME OnceInv, WipeInv, NEW w \in wipes, FindReactionKeys(w)
    PROVE  WipeInv'
<1> DEFINE w0 == [w EXCEPT !.stage = "draining", !.waits = Drains]
<1>1. /\ w.stage = "keys"
      /\ wipes' = (wipes \ {w}) \cup (IF disk.keyed THEN {w0} ELSE {})
      /\ past' = [past EXCEPT !.late = past.late \/ (~disk.keyed /\ On("rows") # {})]
      /\ UNCHANGED <<disk, queue, views, own>>
  BY DEF FindReactionKeys, On
<1>2. /\ w0 = [n |-> w0.n, stage |-> w0.stage, waits |-> w0.waits]
      /\ w0.n = w.n /\ w0.stage = "draining" /\ w0.waits = queue.last["rows"]
  <2> DEFINE w1 == [w EXCEPT !.stage = "draining"]
  <2>1. w1 = [n |-> w.n, stage |-> "draining", waits |-> w.waits]
    BY DEF WipeInv, ClearsInv
  <2>2. w0 = [w1 EXCEPT !.waits = Drains]
    OBVIOUS
  <2> HIDE DEF w1, w0
  <2>3. w0 = [n |-> w.n, stage |-> "draining", waits |-> Drains]
    BY <2>1, <2>2
  <2> QED
    BY <2>3 DEF Drains
<1> HIDE DEF w0
<1>3. past' = [blocks |-> past.blocks, faults |-> past.faults,
               late |-> past.late \/ (~disk.keyed /\ On("rows") # {})]
  BY <1>1 DEF WipeInv, ClearsInv
<1>4. On("rows")' = On("rows") /\ On("chat")' = On("chat") /\ Appends' = Appends
  BY <1>1 DEF On, Appends
<1>5. NumbersInv'
  BY <1>1 DEF WipeInv, NumbersInv, On
<1>6. ClearsInv'
  <2>1. \A v \in wipes' : v = [n |-> v.n, stage |-> v.stage, waits |-> v.waits] /\ v.n \in 1..past.blocks
    BY <1>1, <1>2 DEF WipeInv, ClearsInv
  <2>2. \A t \in queue.tasks :
          t.do.op = "clear" => \E v \in wipes' : v.stage = "clearing" /\ t.by = By("wipe", v.n)
    BY <1>1 DEF WipeInv, ClearsInv
  <2> QED
    BY <1>1, <1>3, <2>1, <2>2 DEF WipeInv, ClearsInv
<1>7. ASSUME ~past'.late
      PROVE  LinesInv' /\ SerialInv' /\ WipingInv' /\ GoneInv'
  <2>1. /\ LinesInv /\ SerialInv /\ WipingInv /\ GoneInv /\ NumbersInv /\ ClearsInv
        /\ (~disk.keyed => On("rows") = {})
    BY <1>3, <1>7 DEF WipeInv
  <2>2. disk.chat = {} /\ Appends = {}
    BY <1>1, <2>1 DEF WipingInv
  <2>3. LinesInv'
    <3>1. PICK s : LinedUp("rows", s)
      BY <2>1 DEF LinesInv
    <3>2. LinedUp("rows", s)'
      BY <1>1, <1>4, <3>1 DEF LinedUp
    <3> QED
      BY <1>4, <2>2, <3>2 DEF LinesInv
  <2>4. SerialInv'
    BY <1>1, <2>1 DEF SerialInv, Stored
  <2>5. WipingInv'
    <3>1. queue.last["rows"] = 0 => On("rows") = {}
      <4>1. PICK s : LinedUp("rows", s)
        BY <2>1 DEF LinesInv
      <4>2. s # <<>> => Len(s) \in DOMAIN s /\ s[Len(s)] # 0
        BY <4>1, LineFacts
      <4> QED
        BY <4>1, <4>2, LineFacts DEF LinedUp
    <3>2. disk'.chat = {} /\ Appends' = {} /\ queue'.last = queue.last
      BY <1>1, <1>4, <2>2
    <3>3. ASSUME NEW v \in wipes'
          PROVE  /\ v.stage \in {"clearing", "keys", "draining"}
                 /\ v.stage = "draining" => IF v.waits = 0 THEN On("rows")' = {}
                                            ELSE v.waits = queue'.last["rows"]
      BY <1>1, <1>2, <1>4, <2>1, <3>1, <3>2 DEF WipingInv
    <3> QED
      BY <3>2, <3>3 DEF WipingInv
  <2>6. GoneInv'
    <3>1. ASSUME disk'.blocked, wipes' = {}
          PROVE  queue'.tasks = {} /\ disk'.chat = {} /\ disk'.rows = {}
      <4>1. wipes = {w} /\ ~disk.keyed /\ disk.rows = {} /\ On("rows") = {}
        BY <1>1, <2>1, <3>1 DEF WipeInv
      <4>2. \A t \in queue.tasks : t.do.op # "clear"
        BY <1>1, <2>1, <4>1 DEF ClearsInv
      <4>3. queue.tasks = {}
        BY <2>1, <2>2, <4>1, <4>2 DEF ClearsInv, NumbersInv, Queues, On, Appends
      <4> QED
        BY <1>1, <2>2, <4>1, <4>3
    <3> QED
      BY <3>1 DEF GoneInv
  <2> QED
    BY <2>3, <2>4, <2>5, <2>6
<1> QED
  BY <1>1, <1>5, <1>6, <1>7 DEF WipeInv
LEMMA DeleteWipes ==
    ASSUME OnceInv, WipeInv, NEW w \in wipes, DeleteReactions(w)
    PROVE  WipeInv'
<1>1. /\ w.stage = "draining" /\ w.waits = 0
      /\ disk' = [disk EXCEPT !.rows = {}, !.keyed = FALSE]
      /\ queue' = [queue EXCEPT !.last["rows"] = 0]
      /\ wipes' = wipes \ {w} /\ past' = past
  BY DEF DeleteReactions
<1>2. disk' = [chat |-> disk.chat, rows |-> {}, keyed |-> FALSE, blocked |-> disk.blocked]
  BY <1>1, Emptied DEF OnceInv
<1>3. queue'.tasks = queue.tasks /\ queue'.last = [queue.last EXCEPT !["rows"] = 0]
  BY <1>1 DEF OnceInv, QueueInv
<1>4. "chat" \in Queues /\ "rows" \in Queues /\ "chat" # "rows" /\ \A q \in Queues : q \in {"chat", "rows"}
  BY DEF Queues
<1>5. On("rows")' = On("rows") /\ On("chat")' = On("chat") /\ Appends' = Appends
  BY <1>3 DEF On, Appends
<1>6. queue'.last["rows"] = 0 /\ queue'.last["chat"] = queue.last["chat"]
  BY <1>3, <1>4 DEF WipeInv, NumbersInv
<1>7. NumbersInv'
  <2>1. queue'.last \in [Queues -> Nat]
    <3>1. queue.last \in [Queues -> Nat] /\ 0 \in Nat
      BY DEF WipeInv, NumbersInv
    <3> QED
      BY ONLY <1>3, <3>1
  <2>2. \A q \in Queues : queue'.last[q] # 0 => \E t \in On(q)' : t.n = queue'.last[q]
    BY <1>4, <1>5, <1>6 DEF WipeInv, NumbersInv
  <2> QED
    BY <1>3, <2>1, <2>2 DEF WipeInv, NumbersInv
<1>8. ClearsInv'
  <2>1. \A t \in queue.tasks :
          t.do.op = "clear" => \E v \in wipes' : v.stage = "clearing" /\ t.by = By("wipe", v.n)
    BY <1>1 DEF WipeInv, ClearsInv
  <2> QED
    BY <1>1, <1>3, <2>1 DEF WipeInv, ClearsInv
<1>9. ASSUME ~past'.late
      PROVE  LinesInv' /\ SerialInv' /\ WipingInv' /\ GoneInv'
  <2>1. LinesInv /\ SerialInv /\ WipingInv /\ NumbersInv /\ ClearsInv
    BY <1>1, <1>9 DEF WipeInv
  <2>2. disk.chat = {} /\ Appends = {} /\ On("rows") = {}
    BY <1>1, <2>1 DEF WipingInv
  <2>3. LinesInv'
    <3>1. LinedUp("rows", <<>>)'
      BY <1>5, <1>6, <2>2 DEF LinedUp
    <3> QED
      BY <1>5, <2>2, <3>1 DEF LinesInv
  <2>4. SerialInv'
    <3>1. \A t \in queue.tasks : t.on = "chat"
      BY <1>4, <2>1, <2>2 DEF NumbersInv, On
    <3> QED
      BY <1>2, <1>3, <2>1, <3>1 DEF SerialInv, Stored
  <2>5. WipingInv'
    <3>1. queue.last["rows"] = 0
      BY <1>4, <2>1, <2>2 DEF NumbersInv
    <3> QED
      BY <1>1, <1>2, <1>5, <2>1, <2>2, <3>1 DEF WipingInv
  <2>6. GoneInv'
    <3>1. ASSUME wipes' = {} PROVE queue.tasks = {}
      <4>1. \A t \in queue.tasks : t.do.op # "clear"
        BY <1>1, <2>1, <3>1 DEF ClearsInv
      <4> QED
        BY <1>4, <2>1, <2>2, <4>1 DEF ClearsInv, NumbersInv, On, Appends
    <3> QED
      BY <1>2, <1>3, <2>2, <3>1 DEF GoneInv
  <2> QED
    BY <2>3, <2>4, <2>5, <2>6
<1> QED
  BY <1>2, <1>7, <1>8, <1>9 DEF WipeInv

LEMMA RestartWipes ==
    ASSUME WipeInv, Restart
    PROVE  WipeInv'
<1>1. /\ past' = [past EXCEPT !.faults = past.faults + 1,
                              !.late = past.late \/ wipes # {} \/ own.ops # {}]
      /\ queue' = [tasks |-> {}, last |-> [q \in Queues |-> 0]]
      /\ wipes' = {} /\ disk' = disk
  BY DEF Restart
<1>2. past = [blocks |-> past.blocks, faults |-> past.faults, late |-> past.late]
  BY DEF WipeInv, ClearsInv
<1>3. past' = [blocks |-> past.blocks, faults |-> past.faults + 1,
               late |-> past.late \/ wipes # {} \/ own.ops # {}]
  BY <1>1, <1>2
<1>4. queue'.tasks = {} /\ queue'.last = [q \in Queues |-> 0] /\ \A q : On(q)' = {}
  BY <1>1 DEF On
<1>5. NumbersInv'
  BY <1>4, FS_EmptySet DEF NumbersInv
<1>6. ClearsInv'
  BY <1>1, <1>3, <1>4 DEF WipeInv, ClearsInv
<1>7. LinesInv'
  <2>1. "rows" \in Queues
    BY DEF Queues
  <2>2. LinedUp("rows", <<>>)'
    BY <1>4, <2>1 DEF LinedUp
  <2> QED
    BY <1>4, <2>2 DEF LinesInv, Appends
<1>8. SerialInv' /\ WipingInv'
  BY <1>1, <1>4 DEF SerialInv, WipingInv
<1>9. ~past'.late => GoneInv'
  BY <1>1, <1>3, <1>4 DEF WipeInv, GoneInv
<1> QED
  BY <1>1, <1>5, <1>6, <1>7, <1>8, <1>9 DEF WipeInv

LEMMA InitWipes == Init => WipeInv
<1> SUFFICES ASSUME Init PROVE WipeInv
  OBVIOUS
<1>1. /\ queue = [tasks |-> {}, last |-> [q \in Queues |-> 0]]
      /\ past = [blocks |-> 0, faults |-> 0, late |-> FALSE]
      /\ wipes = {} /\ disk.blocked = FALSE /\ disk.keyed = (disk.rows # {})
  BY DEF Init
<1>2. queue.tasks = {} /\ queue.last = [q \in Queues |-> 0] /\ \A q : On(q) = {}
  BY <1>1 DEF On
<1>3. NumbersInv
  BY <1>2, FS_EmptySet DEF NumbersInv
<1>4. ClearsInv
  BY <1>1, <1>2 DEF ClearsInv
<1>5. LinesInv
  BY <1>2, <1>3, EmptyLine, QueuesAre DEF LinesInv, Appends
<1> QED
  BY <1>1, <1>2, <1>3, <1>4, <1>5 DEF WipeInv, SerialInv, WipingInv, GoneInv

-----------------------------------------------------------------------------
(* What is enqueued, and when it is too late.                                  *)

LEMMA LateFields ==
    ASSUME ClearsInv, NEW enqueues \in BOOLEAN, NEW gated \in BOOLEAN,
           past' = TooLate(enqueues, gated)
    PROVE  /\ SameBlocks
           /\ ~past'.late => ~past.late /\ (enqueues => wipes = {} /\ (disk.blocked => gated))
<1> DEFINE late == past.late \/ (enqueues /\ (wipes # {} \/ (disk.blocked /\ ~gated)))
<1>1. past' = [past EXCEPT !.late = late]
  BY DEF TooLate
<1>2. ~late => ~past.late /\ (enqueues => wipes = {} /\ (disk.blocked => gated))
  OBVIOUS
<1> HIDE DEF late
<1>3. past' = [blocks |-> past.blocks, faults |-> past.faults, late |-> late]
  BY <1>1 DEF ClearsInv
<1>4. SameBlocks /\ past'.late = late
  BY <1>3 DEF SameBlocks, PastShape
<1> QED
  BY <1>2, <1>4

LEMMA ViewsWipes ==
    ASSUME OnceInv, WipeInv, NEW v \in DOMAIN views, Chats(v)
    PROVE  WipeInv'
<1>1. ASSUME NEW who \in {"pass", "live"}, NEW r, queue' = EnqueuedFor(who, v, r),
             SameBlocks, UNCHANGED <<disk, wipes>>,
             ~past'.late => ~past.late /\ wipes = {} /\ ~disk.blocked
      PROVE  WipeInv'
  <2> DEFINE j1 == Job("append", r, Unread, 0)
             j2 == Job("inbound", r, Unread, 0)
  <2>1. j1.op = "append" /\ j2.op = "inbound"
    BY DEF Job
  <2> HIDE DEF j1, j2
  <2>2. By(who, v).who # "wipe"
    BY ByWhat
  <2>3. CASE queue' = Enqueued("chat", j1, By(who, v))
    BY <1>1, <2>1, <2>2, <2>3, EnqueueWipes, QueuesAre
  <2>4. CASE queue' = Enqueued("rows", j2, By(who, v))
    BY <1>1, <2>1, <2>2, <2>4, EnqueueWipes, QueuesAre
  <2> QED
    BY <1>1, <2>3, <2>4 DEF EnqueuedFor, j1, j2
<1>2. ClearsInv /\ PastShape
  BY DEF WipeInv, ClearsInv, PastShape
<1>3. CASE FetchHistory(v) \/ Subscribe(v) \/ Close(v)
  <2>1. UNCHANGED <<disk, queue, wipes, past>>
    BY <1>3 DEF FetchHistory, Subscribe, Close
  <2> QED
    BY <1>2, <2>1, QuietWipes DEF SameBlocks, PastShape
<1>4. CASE ApplyHistorical(v)
  <2> DEFINE r == Head(views[v].todo)
             takes == ~views[v].denied /\ Accepts(v, r)
  <2>1. /\ queue' = IF takes THEN EnqueuedFor("pass", v, r) ELSE queue
        /\ past' = TooLate(takes, FALSE) /\ UNCHANGED <<disk, wipes>>
    BY <1>4 DEF ApplyHistorical
  <2>2. takes \in BOOLEAN
    BY DEF Accepts
  <2> HIDE DEF takes, r
  <2>3. SameBlocks /\ (~past'.late => ~past.late /\ (takes => wipes = {} /\ ~disk.blocked))
    BY <1>2, <2>1, <2>2, LateFields
  <2>4. CASE takes
    BY <1>1, <2>1, <2>3, <2>4
  <2>5. CASE ~takes
    BY <2>1, <2>3, <2>5, QuietWipes
  <2> QED
    BY <2>2, <2>4, <2>5
<1>5. ASSUME NEW r \in Rumors, HandleGiftWrap(v, r)
      PROVE  WipeInv'
  <2> DEFINE takes == ~disk.blocked /\ Accepts(v, r)
  <2>1. /\ queue' = IF takes THEN EnqueuedFor("live", v, r) ELSE queue
        /\ past' = TooLate(takes, TRUE) /\ UNCHANGED <<disk, wipes>>
    BY <1>5 DEF HandleGiftWrap
  <2>2. takes \in BOOLEAN /\ (takes => ~disk.blocked)
    BY DEF Accepts
  <2> HIDE DEF takes
  <2>3. SameBlocks /\ (~past'.late => ~past.late /\ (takes => wipes = {}))
    BY <1>2, <2>1, <2>2, LateFields
  <2>4. CASE takes
    BY <1>1, <2>1, <2>2, <2>3, <2>4
  <2>5. CASE ~takes
    BY <2>1, <2>3, <2>5, QuietWipes
  <2> QED
    BY <2>2, <2>4, <2>5
<1> QED
  BY <1>3, <1>4, <1>5 DEF Chats
(* The user's messages and reactions                                           *)
LEMMA OwnWipes ==
    ASSUME OnceInv, WipeInv,
           \/ \E m \in Own : MessagePublished(m)
           \/ \E o \in own.ops : MarkReaction(o) \/ ReactionPublished(o)
    PROVE  WipeInv'
<1>1. ClearsInv /\ PastShape
  BY DEF WipeInv, ClearsInv, PastShape
<1>2. ASSUME UNCHANGED <<disk, queue, wipes, past>> PROVE WipeInv'
  BY <1>1, <1>2, QuietWipes DEF SameBlocks, PastShape
<1>3. ASSUME NEW on \in Queues, NEW job, NEW by, job.op # "clear", on = "chat" => job.op = "append",
             by.who # "wipe", queue' = Enqueued(on, job, by), past' = TooLate(TRUE, FALSE),
             UNCHANGED <<disk, wipes>>
      PROVE  WipeInv'
  <2>1. SameBlocks /\ (~past'.late => ~past.late /\ wipes = {} /\ ~disk.blocked)
    BY <1>1, <1>3, LateFields
  <2> QED
    BY <1>3, <2>1, EnqueueWipes
<1>4. ASSUME NEW m \in Own, MessagePublished(m) PROVE WipeInv'
  <2> DEFINE job == Job("append", m, Unread, 0)
             by == By("send", m)
  <2>1. job.op = "append" /\ by.who = "send"
    BY ByWhat DEF Job
  <2>2. \/ UNCHANGED <<disk, queue, wipes, past>>
        \/ /\ queue' = Enqueued("chat", job, by) /\ past' = TooLate(TRUE, FALSE)
           /\ UNCHANGED <<disk, wipes>>
    BY <1>4 DEF MessagePublished
  <2> HIDE DEF job, by
  <2> QED
    BY <1>2, <1>3, <2>1, <2>2, QueuesAre
<1>5. ASSUME NEW o \in own.ops, MarkReaction(o) PROVE WipeInv'
  <2> DEFINE job == Job(o.op, o.of, o.emoji, o.n)
             by == By("react", o.n)
  <2>1. job.op \in {"insert", "take"} /\ by.who = "react"
    BY ByWhat DEF Job, OnceInv, OwnInv, Clicked
  <2>2. /\ queue' = Enqueued("rows", job, by) /\ past' = TooLate(TRUE, FALSE)
        /\ UNCHANGED <<disk, wipes>>
    BY <1>5 DEF MarkReaction
  <2> HIDE DEF job, by
  <2> QED
    BY <1>3, <2>1, <2>2, QueuesAre
<1>6. ASSUME NEW o \in own.ops, ReactionPublished(o) PROVE WipeInv'
  <2> DEFINE job == Job(IF o.op = "take" THEN "insert" ELSE "rollback", o.of, o.emoji, o.n)
             by == By("undo", o.n)
  <2>1. job.op \in {"insert", "rollback"} /\ by.who = "undo"
    BY ByWhat DEF Job
  <2>2. \/ UNCHANGED <<disk, queue, wipes, past>>
        \/ /\ queue' = Enqueued("rows", job, by) /\ past' = TooLate(TRUE, FALSE)
           /\ UNCHANGED <<disk, wipes>>
    BY <1>6 DEF ReactionPublished
  <2> HIDE DEF job, by
  <2> QED
    BY <1>2, <1>3, <2>1, <2>2, QueuesAre
<1> QED
  BY <1>4, <1>5, <1>6

LEMMA OthersWipes ==
    ASSUME OnceInv, WipeInv,
           \/ Open \/ UnblockContact \/ UNCHANGED vars
           \/ \E v \in DOMAIN views : Acts(v)
    PROVE  WipeInv'
<1>1. SameBlocks /\ UNCHANGED <<queue, wipes, past>>
  BY DEF SameBlocks, PastShape, WipeInv, ClearsInv, Open, UnblockContact, vars, Acts, SendMessage,
         HandleReact
<1>2. /\ disk'.chat = disk.chat /\ disk'.rows = disk.rows /\ disk'.keyed = disk.keyed
      /\ disk'.blocked => disk.blocked
  <2>1. CASE UnblockContact
    BY <2>1 DEF UnblockContact, OnceInv, DiskInv
  <2>2. CASE UNCHANGED disk
    BY <2>2
  <2> QED
    BY <2>1, <2>2 DEF Open, vars, Acts, SendMessage, HandleReact
<1> QED
  BY <1>1, <1>2, QuietWipes

LEMMA WipeIsKept == OnceInv /\ WipeInv /\ [Next]_vars => WipeInv'
<1> SUFFICES ASSUME OnceInv, WipeInv, [Next]_vars PROVE WipeInv'
  OBVIOUS
<1>1. CASE Works
  BY <1>1, ReadWipes, WriteWipes, FindWipes, DeleteWipes DEF Works
<1>2. CASE \E t \in queue.tasks : WriteFails(t)
  BY <1>2, FailWipes
<1>3. CASE \E v \in DOMAIN views : Chats(v)
  BY <1>3, ViewsWipes
<1>4. CASE \/ \E m \in Own : MessagePublished(m)
           \/ \E o \in own.ops : MarkReaction(o) \/ ReactionPublished(o)
  BY <1>4, OwnWipes
<1>5. CASE BlockContact
  BY <1>5, BlockWipes
<1>6. CASE Restart
  BY <1>6, RestartWipes
<1>7. CASE \/ Open \/ UnblockContact \/ UNCHANGED vars
           \/ \E v \in DOMAIN views : Acts(v)
  BY <1>7, OthersWipes
<1> QED
  BY <1>1, <1>2, <1>3, <1>4, <1>5, <1>6, <1>7 DEF Next

(* Once the peer is blocked and the wipe has ended, nothing of the             *)
(* conversation is stored, and nothing is queued that could store it again,    *)
(* for all histories, numbers of writes and of wipes (wipeSinglePeerHistory,   *)
(* shouldIngestDmFromSender).                                                  *)
THEOREM WipedHistoryStaysGone == Spec => []WipedStays
<1>1. Init => OnceInv /\ WipeInv
  BY InitOnce, InitWipes
<1>2. OnceInv /\ WipeInv /\ [Next]_vars => (OnceInv /\ WipeInv)'
  BY OnceIsKept, WipeIsKept
<1>3. OnceInv /\ WipeInv => WipedStays
  BY DEF WipeInv, GoneInv, WipedStays
<1> QED
  BY <1>1, <1>2, <1>3, PTL DEF Spec
-----------------------------------------------------------------------------
(***************************************************************************)
(* What was read is what is stored when it is written, so what a write does  *)
(* to the stored rows is what its function does to rows.                     *)
(***************************************************************************)

(* No function brings a badge of the peer's back.                              *)
Gone(rows, r) == Visible(rows, r.of, Peer, r.emoji) = {}

LEMMA RemovedIsGone ==
    ASSUME NEW rows, Once(rows), NEW r \in rows, r.by = Peer, r.removed
    PROVE  Gone(rows, r)
BY DEF Gone, Visible, Once, SameKey

LEMMA FlippedGone ==
    ASSUME NEW rows, NEW s \in rows, NEW ev, NEW r, Once(rows), Gone(rows, r)
    PROVE  Gone(Flipped(rows, s, ev), r)
<1> DEFINE f == [s EXCEPT !.removed = TRUE, !.event = ev]
<1>1. f.removed
  <2>1. f = Row(s.id, s.of, s.by, s.emoji, ev, TRUE)
    BY Rewritten DEF Once
  <2> QED
    BY <2>1 DEF Row
<1> HIDE DEF f
<1>2. Flipped(rows, s, ev) = (rows \ {s}) \cup {f}
  BY DEF Flipped, f
<1> QED
  BY <1>1, <1>2 DEF Gone, Visible

LEMMA ResultGone ==
    ASSUME NEW t, t.do.op \in RowOps, Once(t.seen), NEW r \in t.seen, r.by = Peer, r.removed
    PROVE  Gone(Result(t), r)
<1> DEFINE rows == t.seen
<1>1. Gone(rows, r)
  BY RemovedIsGone
<1> HIDE DEF rows
<1>2. ASSUME NEW j PROVE Gone(Inserted(rows, j), r)
  <2> DEFINE f == Row(j.id, j.of, Me, j.emoji, Unsent, FALSE)
  <2>1. f.by # Peer
    BY ThreadAssumption DEF Row
  <2>2. Inserted(rows, j) \in {rows, rows \cup {f}}
    BY DEF Inserted
  <2> HIDE DEF f
  <2> QED
    BY <1>1, <2>1, <2>2 DEF Gone, Visible
<1>3. ASSUME NEW j PROVE Gone(Taken(rows, j), r)
  <2> DEFINE mine == Visible(rows, j.of, Me, j.emoji)
             s == CHOOSE s \in mine : TRUE
  <2>1. CASE mine = {}
    BY <1>1, <2>1 DEF Taken
  <2>2. CASE mine # {}
    <3>1. s \in rows
      BY <2>2 DEF Visible
    <3>2. Taken(rows, j) = Flipped(rows, s, s.event)
      BY <2>2 DEF Taken
    <3> HIDE DEF s
    <3> QED
      BY <1>1, <3>1, <3>2, FlippedGone DEF rows
  <2> QED
    BY <2>1, <2>2
<1>4. ASSUME NEW j PROVE Gone(RolledBack(rows, j), r)
  BY <1>1 DEF Gone, Visible, RolledBack
<1>5. ASSUME NEW x PROVE Gone(Tombstoned(rows, x), r)
  <2> DEFINE ts == Targets(rows, x)
             s == CHOOSE s \in ts : TRUE
  <2>1. CASE ts = {}
    BY <1>1, <2>1 DEF Tombstoned
  <2>2. CASE ts # {}
    <3>1. s \in rows
      BY <2>2 DEF Targets
    <3>2. Tombstoned(rows, x) = Flipped(rows, s, x)
      BY <2>2 DEF Tombstoned
    <3> HIDE DEF s
    <3> QED
      BY <1>1, <3>1, <3>2, FlippedGone DEF rows
  <2> QED
    BY <2>1, <2>2
<1>6. ASSUME NEW a PROVE Gone(Upserted(rows, a), r)
  <2> DEFINE ms == Matches(rows, a)
  <2>1. CASE ms = {}
    <3> DEFINE f == Row(a, Of[a], Peer, EmojiOf[a], a, FALSE)
    <3>1. f.of = Of[a] /\ f.emoji = EmojiOf[a]
      BY DEF Row
    <3>2. Upserted(rows, a) = rows \cup {f}
      BY <2>1 DEF Upserted
    <3>3. ~(r.of = Of[a] /\ r.emoji = EmojiOf[a])
      BY <2>1 DEF Matches, rows
    <3> HIDE DEF f
    <3> QED
      BY <1>1, <3>1, <3>2, <3>3 DEF Gone, Visible
  <2>2. CASE ms # {}
    <3>1. ASSUME NEW u \in Upserted(rows, a)
          PROVE  \E s \in rows : u.of = s.of /\ u.by = s.by /\ u.emoji = s.emoji
                                 /\ u.removed = s.removed
      <4>1. PICK s \in rows : u = IF s \in ms /\ ~s.removed THEN [s EXCEPT !.event = a] ELSE s
        BY <2>2 DEF Upserted
      <4>2. RowShape(s)
        BY DEF Once, rows
      <4>3. [s EXCEPT !.event = a] = Row(s.id, s.of, s.by, s.emoji, a, s.removed)
        BY <4>2 DEF RowShape, Row
      <4> QED
        BY <4>1, <4>3 DEF Row
    <3> QED
      BY <1>1, <3>1 DEF Gone, Visible
  <2> QED
    BY <2>1, <2>2
<1>7. ASSUME NEW x PROVE Gone(Applied(rows, x), r)
  BY <1>1, <1>5, <1>6 DEF Applied
<1> QED
  BY <1>2, <1>3, <1>4, <1>7 DEF Result, RowOps, rows

(* A step that changes the stored rows is the end of a wipe, or it applies the *)
(* function of a queued write to them.                                         *)
LEMMA RowsChange ==
    ASSUME OnceInv, WipeInv, [Next]_vars, ~past'.late, disk'.rows # disk.rows
    PROVE  \/ disk'.rows = {} /\ \E w \in wipes : w.stage = "draining" /\ wipes' = wipes \ {w}
           \/ \E t \in queue.tasks :
                 /\ WriteStored(t) /\ t.on = "rows" /\ t.do.op \in RowOps
                 /\ t.seen = disk.rows /\ disk'.rows = Result(t)
<1>1. DiskInv /\ QueueInv
  BY DEF OnceInv
<1>2. ASSUME NEW t \in queue.tasks, WriteStored(t)
      PROVE  /\ t.on = "rows" /\ t.do.op \in RowOps
             /\ t.seen = disk.rows /\ disk'.rows = Result(t)
  <2>1. ~past.late /\ t.seen # Unread
    BY <1>2 DEF WriteStored
  <2>2. t.on = "rows" /\ disk'.rows = Result(t)
    BY <1>1, <1>2 DEF WriteStored, DiskInv, WipeInv, NumbersInv, Queues
  <2>3. t.do.op \in RowOps
    BY <1>1, <2>2 DEF QueueInv, Sound
  <2> QED
    BY <2>1, <2>2, <2>3 DEF WipeInv, SerialInv, Stored
<1>3. ASSUME NEW w \in wipes, DeleteReactions(w)
      PROVE  disk'.rows = {} /\ w.stage = "draining" /\ wipes' = wipes \ {w}
  <2>1. disk' = [disk EXCEPT !.rows = {}, !.keyed = FALSE] /\ w.stage = "draining" /\ wipes' = wipes \ {w}
    BY <1>3 DEF DeleteReactions
  <2>2. disk' = [chat |-> disk.chat, rows |-> {}, keyed |-> FALSE, blocked |-> disk.blocked]
    BY <1>1, <2>1, Emptied
  <2> QED
    BY <2>1, <2>2
<1>4. \/ \E t \in queue.tasks : WriteStored(t)
      \/ \E w \in wipes : DeleteReactions(w)
  <2>1. \A t \in queue.tasks : ~ReadStored(t) /\ ~ClearMessages(t) /\ ~WriteFails(t)
    BY <1>1 DEF ReadStored, ClearMessages, WriteFails, DiskInv
  <2>2. \A w \in wipes : ~FindReactionKeys(w)
    BY DEF FindReactionKeys
  <2>3. \A v : ~Chats(v) /\ ~Acts(v)
    BY DEF Chats, Acts, FetchHistory, ApplyHistorical, Subscribe, Close, HandleGiftWrap,
           SendMessage, HandleReact
  <2>4. ~Open /\ ~Restart /\ ~UNCHANGED vars /\ \A m : ~MessagePublished(m)
    BY DEF Open, Restart, vars, MessagePublished
  <2>5. \A o : ~MarkReaction(o) /\ ~ReactionPublished(o)
    BY DEF MarkReaction, ReactionPublished
  <2>6. ~BlockContact /\ ~UnblockContact
    BY <1>1 DEF BlockContact, UnblockContact, DiskInv
  <2> QED
    BY <2>1, <2>2, <2>3, <2>4, <2>5, <2>6 DEF Next, Works
<1> QED
  BY <1>2, <1>3, <1>4

(* A badge the peer has taken back stays so in every step, whatever is         *)
(* redelivered, queued or written between (applyInboundRumor, enqueue).        *)
THEOREM RemovalsStick == Spec => RemovalSticks
<1>1. OnceInv /\ WipeInv /\ [Next]_vars =>
        (~past'.late => \A r \in disk.rows :
            r.by = Peer /\ r.removed => ~Shown(r.of, Peer, r.emoji)')
  <2> SUFFICES ASSUME OnceInv, WipeInv, [Next]_vars, ~past'.late, NEW r \in disk.rows,
                      r.by = Peer, r.removed
               PROVE  Gone(disk'.rows, r)
    BY DEF Shown, Gone, Visible
  <2>1. Once(disk.rows)
    BY DEF OnceInv, DiskInv
  <2>2. CASE disk'.rows = disk.rows
    BY <2>1, <2>2, RemovedIsGone
  <2>3. CASE disk'.rows # disk.rows
    <3>1. CASE disk'.rows = {}
      BY <3>1 DEF Gone, Visible
    <3>2. ASSUME NEW t \in queue.tasks, t.do.op \in RowOps, t.seen = disk.rows,
                 disk'.rows = Result(t)
          PROVE  Gone(disk'.rows, r)
      BY <2>1, <3>2, ResultGone
    <3> QED
      BY <2>3, <3>1, <3>2, RowsChange
  <2> QED
    BY <2>2, <2>3
<1>2. Init => OnceInv /\ WipeInv
  BY InitOnce, InitWipes
<1>3. OnceInv /\ WipeInv /\ [Next]_vars => (OnceInv /\ WipeInv)'
  BY OnceIsKept, WipeIsKept
<1> QED
  BY <1>1, <1>2, <1>3, PTL DEF Spec, RemovalSticks
-----------------------------------------------------------------------------
(***************************************************************************)
(* Type correctness: rows, queued writes, clicks and views are made of what  *)
(* can be there.                                                             *)
(***************************************************************************)

(* A view, and the views: at most one of them is mounted.                      *)
ViewSet ==
    [mounted : BOOLEAN, known : SUBSET Messages, stage : Stages, todo : Seq(Rumors),
     got : SUBSET Rumors, denied : BOOLEAN, calm : BOOLEAN, heard : SUBSET Rumors]
ViewsInv ==
    /\ views \in Seq(ViewSet) /\ Len(views) <= MaxViews
    /\ \A v \in DOMAIN views : views[v].todo \in Seq(views[v].got)
    /\ \A u, v \in DOMAIN views : views[u].mounted /\ views[v].mounted => u = v

LEMMA ViewFields ==
    ASSUME NEW m \in BOOLEAN, NEW k \in SUBSET Messages, NEW s \in Stages
    PROVE  /\ View(m, k, s) \in ViewSet /\ View(m, k, s).todo \in Seq(View(m, k, s).got)
           /\ View(m, k, s).mounted = m
BY DEF View, ViewSet

LEMMA StoppedFields ==
    ASSUME NEW w \in ViewSet
    PROVE  /\ Stopped(w) \in ViewSet /\ Stopped(w).todo \in Seq(Stopped(w).got)
           /\ Stopped(w).mounted = w.mounted
<1> DEFINE k == IF w.mounted THEN w.known ELSE {}
<1>1. w.mounted \in BOOLEAN /\ k \in SUBSET Messages /\ "off" \in Stages
  BY DEF ViewSet, Stages
<1>2. Stopped(w) = View(w.mounted, k, "off")
  BY DEF Stopped
<1> HIDE DEF k
<1> QED
  BY <1>1, <1>2, ViewFields

LEMMA UnmountedFields ==
    ASSUME NEW w \in ViewSet, w.todo \in Seq(w.got)
    PROVE  /\ Unmounted(w) \in ViewSet /\ Unmounted(w).todo \in Seq(Unmounted(w).got)
           /\ ~Unmounted(w).mounted
<1> DEFINE gone == [w EXCEPT !.mounted = FALSE]
<1>1. gone \in ViewSet /\ gone.todo \in Seq(gone.got) /\ gone.mounted = FALSE
  BY DEF ViewSet
<1>2. Unmounted(w) \in {gone, Stopped(gone)}
  BY DEF Unmounted
<1> HIDE DEF gone
<1> QED
  BY <1>1, <1>2, StoppedFields

(* One view changes, and is not mounted by that.                               *)
LEMMA ViewChanges ==
    ASSUME ViewsInv, NEW v \in DOMAIN views, NEW w \in ViewSet, w.todo \in Seq(w.got),
           w.mounted => views[v].mounted, views' = [views EXCEPT ![v] = w]
    PROVE  ViewsInv'
<1>1. views' \in Seq(ViewSet) /\ Len(views') = Len(views) /\ DOMAIN views' = DOMAIN views
  BY DEF ViewsInv
<1>2. \A u \in DOMAIN views : views'[u] = IF u = v THEN w ELSE views[u]
  OBVIOUS
<1> QED
  BY <1>1, <1>2 DEF ViewsInv

(* Every view is unmounted, or set back.                                       *)
LEMMA AllViewsChange ==
    ASSUME ViewsInv, NEW f, \A v \in DOMAIN views :
              f[v] \in ViewSet /\ f[v].todo \in Seq(f[v].got) /\ ~f[v].mounted,
           views' = [v \in DOMAIN views |-> f[v]]
    PROVE  ViewsInv'
<1>1. Len(views) \in Nat /\ DOMAIN views = 1..Len(views)
  BY DEF ViewsInv
<1>2. views' \in [1..Len(views) -> ViewSet] /\ \A v \in DOMAIN views : views'[v] = f[v]
  BY <1>1
<1>3. views' \in Seq(ViewSet) /\ Len(views') = Len(views) /\ DOMAIN views' = DOMAIN views
  BY <1>1, <1>2
<1> QED
  BY <1>2, <1>3 DEF ViewsInv

LEMMA RumorsAre ==
    /\ Rumors = Texts \cup Adds \cup Removals /\ Texts \subseteq Messages /\ Own \subseteq Messages
    /\ \A r \in Adds \cup Removals : Of[r] \in Messages
    /\ \A a \in Adds : EmojiOf[a] \in Emojis
    /\ Relayed \subseteq Rumors /\ IsFiniteSet(Rumors)
    /\ Me # Peer /\ Unsent \notin Rumors /\ MaxViews \in Nat /\ MaxActs \in Nat
BY ThreadAssumption DEF Rumors, Messages, Relayed

LEMMA SortedIsSeq ==
    ASSUME NEW got \in SUBSET Rumors, NEW s \in InOrder(got)
    PROVE  s \in Seq(got) /\ s \in Seq(Rumors)
<1>1. Cardinality(got) \in Nat
  BY RumorsAre, FS_Subset, FS_CardinalityType
<1>2. s \in [1..Cardinality(got) -> got]
  BY DEF InOrder
<1> QED
  BY <1>1, <1>2

LEMMA FetchViews ==
    ASSUME ViewsInv, disk.blocked \in BOOLEAN, NEW v \in DOMAIN views, FetchHistory(v)
    PROVE  ViewsInv'
<1>1. views[v] \in ViewSet /\ views[v].todo \in Seq(views[v].got)
  BY DEF ViewsInv
<1>2. CASE views' = [views EXCEPT ![v] = Stopped(@)]
  <2>1. views' = [views EXCEPT ![v] = Stopped(views[v])]
    BY <1>2
  <2> QED
    BY <1>1, <2>1, StoppedFields, ViewChanges
<1>3. ASSUME NEW got \in SUBSET Relayed, NEW s \in InOrder(got),
             views' = [views EXCEPT ![v].stage = "pass", ![v].todo = s, ![v].got = got,
                                    ![v].denied = disk.blocked,
                                    ![v].calm = wipes = {} /\ ~disk.blocked]
      PROVE  ViewsInv'
  <2> DEFINE calm == wipes = {} /\ ~disk.blocked
             w1 == [views[v] EXCEPT !.stage = "pass"]
             w2 == [w1 EXCEPT !.todo = s]
             w3 == [w2 EXCEPT !.got = got]
             w4 == [w3 EXCEPT !.denied = disk.blocked]
             w5 == [w4 EXCEPT !.calm = calm]
  <2>1. got \in SUBSET Rumors /\ s \in Seq(got) /\ s \in Seq(Rumors) /\ "pass" \in Stages
        /\ calm \in BOOLEAN
    BY RumorsAre, SortedIsSeq DEF Stages
  <2>2. views' = [views EXCEPT ![v] = w5]
    BY <1>3
  <2> HIDE DEF calm, w5
  <2>3. w1 \in ViewSet /\ w1.mounted = views[v].mounted
    BY <1>1, <2>1 DEF ViewSet
  <2> HIDE DEF w1
  <2>4. w2 \in ViewSet /\ w2.mounted = w1.mounted /\ w2.todo = s
    BY <2>1, <2>3 DEF ViewSet
  <2> HIDE DEF w2
  <2>5. w3 \in ViewSet /\ w3.mounted = w2.mounted /\ w3.todo = s /\ w3.got = got
    BY <2>1, <2>4 DEF ViewSet
  <2> HIDE DEF w3
  <2>6. w4 \in ViewSet /\ w4.mounted = w3.mounted /\ w4.todo = s /\ w4.got = got
    BY <2>5 DEF ViewSet
  <2> HIDE DEF w4
  <2>7. w5 \in ViewSet /\ w5.mounted = w4.mounted /\ w5.todo = s /\ w5.got = got
    BY <2>1, <2>6 DEF ViewSet, w5
  <2> QED
    BY <2>1, <2>2, <2>3, <2>4, <2>5, <2>6, <2>7, ViewChanges
<1> QED
  BY <1>2, <1>3 DEF FetchHistory
LEMMA ChatViews ==
    ASSUME ViewsInv, disk.chat \subseteq Messages, disk.blocked \in BOOLEAN,
           NEW v \in DOMAIN views, Chats(v)
    PROVE  ViewsInv'
<1> DEFINE old == views[v]
<1>1. old \in ViewSet /\ old.todo \in Seq(old.got)
  BY DEF ViewsInv
<1>2. CASE ApplyHistorical(v)
  <2> DEFINE w == [old EXCEPT !.todo = Tail(old.todo)]
  <2>1. views' = [views EXCEPT ![v] = w] /\ old.todo # <<>>
    BY <1>2 DEF ApplyHistorical
  <2>2. Tail(old.todo) \in Seq(old.got) /\ Tail(old.todo) \in Seq(Rumors)
    <3> HIDE DEF old
    <3> QED
      BY <1>1, <2>1 DEF ViewSet
  <2>3. w \in ViewSet /\ w.todo \in Seq(w.got) /\ w.mounted = old.mounted
    <3> HIDE DEF old
    <3> QED
      BY <1>1, <2>2 DEF ViewSet
  <2> HIDE DEF w
  <2> QED
    BY <2>1, <2>3, ViewChanges
<1>3. CASE Subscribe(v)
  <2> DEFINE stored == IF old.mounted THEN disk.chat ELSE {}
             w == View(old.mounted, old.known \cup stored, "live")
  <2>1. views' = [views EXCEPT ![v] = w]
    BY <1>3 DEF Subscribe
  <2>2. old.mounted \in BOOLEAN /\ old.known \cup stored \in SUBSET Messages /\ "live" \in Stages
    <3> HIDE DEF old
    <3> QED
      BY <1>1 DEF ViewSet, Stages
  <2>3. w \in ViewSet /\ w.todo \in Seq(w.got) /\ w.mounted = old.mounted
    BY <2>2, ViewFields
  <2> HIDE DEF w
  <2> QED
    BY <2>1, <2>3, ViewChanges
<1>4. CASE Close(v)
  <2>1. views' = [views EXCEPT ![v] = Unmounted(views[v])]
    BY <1>4 DEF Close
  <2> QED
    BY <1>1, <2>1, UnmountedFields, ViewChanges
<1>5. ASSUME NEW r \in Rumors, HandleGiftWrap(v, r)
      PROVE  ViewsInv'
  <2> DEFINE w == [old EXCEPT !.heard = old.heard \cup {r}]
  <2>1. views' = [views EXCEPT ![v] = w]
    BY <1>5 DEF HandleGiftWrap
  <2>2. w \in ViewSet /\ w.todo \in Seq(w.got) /\ w.mounted = old.mounted
    <3> HIDE DEF old
    <3> QED
      BY <1>1 DEF ViewSet
  <2> HIDE DEF w
  <2> QED
    BY <2>1, <2>2, ViewChanges
<1> QED
  BY <1>2, <1>3, <1>4, <1>5, FetchViews DEF Chats

(* A view learns of a message.                                                 *)
LEMMA ViewLearns ==
    ASSUME ViewsInv, NEW v, NEW m \in Messages,
           views' = [views EXCEPT ![v].known = views[v].known \cup {m}]
    PROVE  ViewsInv'
<1>1. CASE v \in DOMAIN views
  <2> DEFINE old == views[v]
             w == [old EXCEPT !.known = old.known \cup {m}]
  <2>1. views' = [views EXCEPT ![v] = w]
    OBVIOUS
  <2>2. old \in ViewSet /\ old.todo \in Seq(old.got)
    BY <1>1 DEF ViewsInv
  <2>3. w \in ViewSet /\ w.todo \in Seq(w.got) /\ w.mounted = old.mounted
    <3> HIDE DEF old
    <3> QED
      BY <2>2 DEF ViewSet
  <2> HIDE DEF w
  <2> QED
    BY <1>1, <2>1, <2>3, ViewChanges
<1>2. CASE v \notin DOMAIN views
  <2>1. views' = views
    BY <1>2 DEF ViewsInv
  <2> QED
    BY <2>1 DEF ViewsInv
<1> QED
  BY <1>1, <1>2

LEMMA OpenViews ==
    ASSUME ViewsInv, disk.chat \subseteq Messages, Open
    PROVE  ViewsInv'
<1> DEFINE w == View(TRUE, disk.chat, "fetching")
<1>1. /\ Len(views) < MaxViews /\ views' = Append(views, w)
      /\ \A v \in DOMAIN views : ~views[v].mounted
  BY DEF Open
<1>2. w \in ViewSet /\ w.todo \in Seq(w.got)
  BY ViewFields DEF Stages
<1> HIDE DEF w
<1>3. views \in Seq(ViewSet) /\ Len(views) \in Nat
  BY DEF ViewsInv
<1>4. /\ views' \in Seq(ViewSet) /\ Len(views') = Len(views) + 1
      /\ DOMAIN views' = 1..(Len(views) + 1) /\ DOMAIN views = 1..Len(views)
      /\ \A v \in DOMAIN views : views'[v] = views[v]
      /\ views'[Len(views) + 1] = w
  BY <1>1, <1>2, <1>3
<1>5. \A v \in DOMAIN views' : v \in DOMAIN views \/ v = Len(views) + 1
  BY <1>3, <1>4
<1>6. Len(views') <= MaxViews
  BY <1>1, <1>3, <1>4, RumorsAre
<1> QED
  BY <1>1, <1>2, <1>4, <1>5, <1>6 DEF ViewsInv

LEMMA BlockViews ==
    ASSUME ViewsInv, BlockContact
    PROVE  ViewsInv'
<1> DEFINE f == [v \in DOMAIN views |-> [Unmounted(views[v]) EXCEPT !.calm = FALSE]]
<1>1. views' = [v \in DOMAIN views |-> f[v]]
  BY DEF BlockContact
<1>2. ASSUME NEW v \in DOMAIN views
      PROVE  f[v] \in ViewSet /\ f[v].todo \in Seq(f[v].got) /\ ~f[v].mounted
  <2> DEFINE w == Unmounted(views[v])
  <2>1. w \in ViewSet /\ w.todo \in Seq(w.got) /\ ~w.mounted
    BY UnmountedFields DEF ViewsInv
  <2>2. f[v] = [w EXCEPT !.calm = FALSE]
    OBVIOUS
  <2> HIDE DEF w
  <2> QED
    BY <2>1, <2>2 DEF ViewSet
<1> HIDE DEF f
<1> QED
  BY <1>1, <1>2, AllViewsChange

LEMMA RestartViews ==
    ASSUME ViewsInv, Restart
    PROVE  ViewsInv'
<1> DEFINE f == [v \in DOMAIN views |-> View(FALSE, {}, "off")]
<1>1. views' = [v \in DOMAIN views |-> f[v]]
  BY DEF Restart
<1>2. \A v \in DOMAIN views : f[v] \in ViewSet /\ f[v].todo \in Seq(f[v].got) /\ ~f[v].mounted
  BY ViewFields DEF Stages
<1> HIDE DEF f
<1> QED
  BY <1>1, <1>2, AllViewsChange
(* Rows, and the functions on them                                             *)
RowTyped(r, acts) ==
    /\ RowShape(r)
    /\ r.of \in Messages /\ r.emoji \in Emojis /\ r.removed \in BOOLEAN
    /\ \/ r.by = Me /\ r.id \in 0..acts /\ r.event = Unsent
       \/ r.by = Peer /\ r.id \in Adds /\ r.event \in Adds \cup Removals
RowsTyped(rows, acts) == \A r \in rows : RowTyped(r, acts)

JobTyped(job, acts) ==
    /\ job.op = "append" => job.of \in Messages
    /\ job.op = "inbound" => job.of \in Adds \cup Removals
    /\ job.op \in {"insert", "take", "rollback"} =>
          job.of \in Messages /\ job.emoji \in Emojis /\ job.id \in 1..acts

LEMMA FlippedTyped ==
    ASSUME NEW rows, NEW acts, RowsTyped(rows, acts), NEW s \in rows, NEW ev,
           s.by = Me => ev = Unsent, s.by = Peer => ev \in Adds \cup Removals
    PROVE  RowsTyped(Flipped(rows, s, ev), acts)
<1> DEFINE f == [s EXCEPT !.removed = TRUE, !.event = ev]
<1>1. RowTyped(s, acts)
  BY DEF RowsTyped
<1>2. f = Row(s.id, s.of, s.by, s.emoji, ev, TRUE)
  BY <1>1, Rewritten DEF RowTyped
<1>3. RowTyped(f, acts)
  BY <1>1, <1>2, RumorsAre DEF RowTyped, RowShape, Row
<1> HIDE DEF f
<1>4. Flipped(rows, s, ev) = (rows \ {s}) \cup {f}
  BY DEF Flipped, f
<1> QED
  BY <1>3, <1>4 DEF RowsTyped

LEMMA ResultTyped ==
    ASSUME NEW t, NEW acts \in Nat, t.do.op \in RowOps, JobTyped(t.do, acts), RowsTyped(t.seen, acts)
    PROVE  RowsTyped(Result(t), acts)
<1> DEFINE rows == t.seen
           j == t.do
<1>0. RowsTyped(rows, acts) /\ JobTyped(j, acts) /\ j.op \in RowOps
  OBVIOUS
<1> HIDE DEF rows, j
<1>1. CASE j.op = "insert"
  <2> DEFINE f == Row(j.id, j.of, Me, j.emoji, Unsent, FALSE)
  <2>1. RowTyped(f, acts)
    BY <1>0, <1>1 DEF RowTyped, RowShape, Row, JobTyped
  <2>2. Inserted(rows, j) \in {rows, rows \cup {f}}
    BY DEF Inserted
  <2> HIDE DEF f
  <2>3. RowsTyped(Inserted(rows, j), acts)
    BY <1>0, <2>1, <2>2 DEF RowsTyped
  <2> QED
    BY <1>1, <2>3 DEF Result, rows, j
<1>2. CASE j.op = "take"
  <2> DEFINE mine == Visible(rows, j.of, Me, j.emoji)
             s == CHOOSE s \in mine : TRUE
  <2>1. CASE mine = {}
    BY <1>0, <1>2, <2>1 DEF Taken, Result, rows, j
  <2>2. CASE mine # {}
    <3>1. s \in rows /\ s.by = Me
      BY <2>2 DEF Visible
    <3>2. Taken(rows, j) = Flipped(rows, s, s.event)
      BY <2>2 DEF Taken
    <3> HIDE DEF s
    <3>3. s.event = Unsent /\ s.by # Peer
      BY <1>0, <3>1, RumorsAre DEF RowsTyped, RowTyped
    <3>4. RowsTyped(Taken(rows, j), acts)
      BY <1>0, <3>1, <3>2, <3>3, FlippedTyped
    <3> QED
      BY <1>2, <3>4 DEF Result, rows, j
  <2> QED
    BY <2>1, <2>2
<1>3. CASE j.op = "rollback"
  <2>1. RowsTyped(RolledBack(rows, j), acts)
    BY <1>0 DEF RowsTyped, RolledBack
  <2> QED
    BY <1>3, <2>1 DEF Result, rows, j
<1>4. CASE j.op = "inbound"
  <2> DEFINE x == j.of
  <2>1. x \in Adds \cup Removals
    BY <1>0, <1>4 DEF JobTyped
  <2> HIDE DEF x
  <2>2. RowsTyped(Tombstoned(rows, x), acts)
    <3> DEFINE ts == Targets(rows, x)
               s == CHOOSE s \in ts : TRUE
    <3>1. CASE ts = {}
      BY <1>0, <3>1 DEF Tombstoned
    <3>2. CASE ts # {}
      <4>1. s \in rows /\ s.by = Peer
        BY <3>2 DEF Targets
      <4>2. Tombstoned(rows, x) = Flipped(rows, s, x)
        BY <3>2 DEF Tombstoned
      <4> HIDE DEF s
      <4> QED
        BY <1>0, <2>1, <4>1, <4>2, FlippedTyped, RumorsAre
    <3> QED
      BY <3>1, <3>2
  <2>3. ASSUME x \in Adds PROVE RowsTyped(Upserted(rows, x), acts)
    <3> DEFINE ms == Matches(rows, x)
    <3>1. CASE ms = {}
      <4> DEFINE f == Row(x, Of[x], Peer, EmojiOf[x], x, FALSE)
      <4>1. RowTyped(f, acts)
        BY <2>3, RumorsAre DEF RowTyped, RowShape, Row
      <4>2. Upserted(rows, x) = rows \cup {f}
        BY <3>1 DEF Upserted
      <4> HIDE DEF f
      <4> QED
        BY <1>0, <4>1, <4>2 DEF RowsTyped
    <3>2. CASE ms # {}
      <4> SUFFICES ASSUME NEW u \in Upserted(rows, x) PROVE RowTyped(u, acts)
        BY DEF RowsTyped
      <4>1. PICK s \in rows : u = IF s \in ms /\ ~s.removed THEN [s EXCEPT !.event = x] ELSE s
        BY <3>2 DEF Upserted
      <4>2. RowTyped(s, acts)
        BY <1>0 DEF RowsTyped
      <4>3. [s EXCEPT !.event = x] = Row(s.id, s.of, s.by, s.emoji, x, s.removed)
        BY <4>2 DEF RowTyped, RowShape, Row
      <4>4. s \in ms => s.by = Peer
        BY DEF Matches
      <4>5. CASE u = s
        BY <4>2, <4>5
      <4>6. CASE u = Row(s.id, s.of, s.by, s.emoji, x, s.removed) /\ s.by = Peer
        BY <2>3, <4>2, <4>6, RumorsAre DEF RowTyped, RowShape, Row
      <4> QED
        BY <4>1, <4>3, <4>4, <4>5, <4>6
    <3> QED
      BY <3>1, <3>2
  <2>4. RowsTyped(Applied(rows, x), acts)
    BY <1>0, <2>1, <2>2, <2>3 DEF Applied
  <2> QED
    BY <1>4, <2>4 DEF Result, rows, j, x
<1> QED
  BY <1>0, <1>1, <1>2, <1>3, <1>4 DEF RowOps

(* More clicks leave what was typed so.                                        *)
LEMMA TypedGrows ==
    ASSUME NEW acts \in Nat, NEW more \in Nat, acts <= more
    PROVE  /\ \A rows : RowsTyped(rows, acts) => RowsTyped(rows, more)
           /\ \A job : JobTyped(job, acts) => JobTyped(job, more)
<1>1. 0..acts \subseteq 0..more /\ 1..acts \subseteq 1..more
  OBVIOUS
<1> QED
  BY <1>1 DEF RowsTyped, RowTyped, JobTyped
(* The queued writes.                                                          *)
JobsInv ==
    \A t \in queue.tasks :
        /\ JobTyped(t.do, own.acts) /\ t.after \in Numbers \cup {0}
        /\ t.seen # Unread => IF t.on = "chat" THEN t.do.op = "append" /\ t.seen \subseteq Messages
                              ELSE RowsTyped(t.seen, own.acts)

(* The clicks under way: each has a number of its own.                         *)
OpsInv ==
    /\ own.acts \in Nat /\ own.acts <= MaxActs
    /\ \A o \in own.ops :
         /\ o.n \in 1..own.acts /\ o.of \in Messages /\ o.emoji \in Emojis
         /\ \A p \in own.ops : p.n = o.n => p = o

(* A click has at most one write queued, and waits for it.                     *)
WaitsFor(n, stage) == \E o \in own.ops : o.n = n /\ o.stage = stage
LinksInv ==
    \A t \in queue.tasks :
        /\ t.by = By(t.by.who, t.by.n)
        /\ t.by.who = "react" => WaitsFor(t.by.n, "marking")
        /\ t.by.who = "undo" => WaitsFor(t.by.n, "undoing")
        /\ t.do.op = "rollback" => t.by = By("undo", t.do.id)
        /\ t.by.who \in {"react", "undo"} => \A u \in queue.tasks : u.by = t.by => u = t

TypeInv ==
    /\ disk.chat \subseteq Messages /\ disk.blocked \in BOOLEAN
    /\ RowsTyped(disk.rows, own.acts)
    /\ JobsInv /\ OpsInv /\ LinksInv /\ ViewsInv

LEMMA JobsEnqueued ==
    ASSUME NumbersInv, JobsInv, NEW on \in Queues, NEW job, NEW by, JobTyped(job, own.acts),
           queue' = Enqueued(on, job, by), own'.acts = own.acts
    PROVE  JobsInv'
<1> DEFINE t0 == Task(on, job, by)
<1>1. t0.n = Unused /\ t0.after = queue.last[on] /\ t0.do = job /\ t0.seen = Unread
  BY TaskFields
<1>2. queue'.tasks = queue.tasks \cup {t0}
  BY EnqueuedTasks
<1> HIDE DEF t0
<1>3. queue.last[on] \in Numbers \cup {0}
  BY DEF NumbersInv, Numbers, On
<1>4. Numbers \subseteq Numbers'
  BY <1>2 DEF Numbers
<1> QED
  BY <1>1, <1>2, <1>3, <1>4 DEF JobsInv

LEMMA JobsSettled ==
    ASSUME QueueInv, JobsInv, NEW t \in queue.tasks, queue' = Settled(t), own'.acts = own.acts
    PROVE  JobsInv'
<1> SUFFICES ASSUME NEW u \in queue'.tasks
             PROVE  /\ JobTyped(u.do, own.acts) /\ u.after \in Numbers' \cup {0}
                    /\ u.seen # Unread => IF u.on = "chat" THEN u.do.op = "append" /\ u.seen \subseteq Messages
                                          ELSE RowsTyped(u.seen, own.acts)
  BY DEF JobsInv
<1>1. PICK s \in queue.tasks \ {t} :
        /\ u.on = s.on /\ u.do = s.do /\ u.seen = s.seen
        /\ u.after = IF s.after = t.n THEN 0 ELSE s.after
  BY SettledFields
<1>2. \A n \in Numbers \ {t.n} : n \in Numbers'
  <2> SUFFICES ASSUME NEW n \in Numbers \ {t.n} PROVE n \in Numbers'
    OBVIOUS
  <2>1. PICK r \in queue.tasks : r.n = n
    BY DEF Numbers
  <2>2. r \in queue.tasks \ {t}
    BY <2>1
  <2>3. PICK v \in queue'.tasks : v.n = r.n
    BY <2>2, SettledFields
  <2> QED
    BY <2>1, <2>3 DEF Numbers
<1> QED
  BY <1>1, <1>2 DEF JobsInv

(* The clicks change one by one, if at all.                                    *)
LEMMA OpsChange ==
    ASSUME OpsInv, NEW g, own'.acts = own.acts, own'.ops \subseteq {g[o] : o \in own.ops},
           \A o \in own.ops : g[o].n = o.n /\ g[o].of = o.of /\ g[o].emoji = o.emoji
    PROVE  OpsInv'
<1> SUFFICES ASSUME NEW p \in own'.ops
             PROVE  /\ p.n \in 1..own.acts /\ p.of \in Messages /\ p.emoji \in Emojis
                    /\ \A q \in own'.ops : q.n = p.n => q = p
  BY DEF OpsInv
<1>1. PICK o \in own.ops : p = g[o]
  OBVIOUS
<1>2. ASSUME NEW q \in own'.ops, q.n = p.n PROVE q = p
  <2>1. PICK x \in own.ops : q = g[x]
    OBVIOUS
  <2>2. x = o
    BY <1>1, <1>2, <2>1 DEF OpsInv
  <2> QED
    BY <1>1, <2>1, <2>2
<1> QED
  BY <1>1, <1>2 DEF OpsInv

LEMMA OpFields ==
    ASSUME NEW o, ClickShape(o), NEW x
    PROVE  LET p == [o EXCEPT !.stage = x] IN
           p.n = o.n /\ p.of = o.of /\ p.emoji = o.emoji /\ p.stage = x /\ p.op = o.op
<1>1. [o EXCEPT !.stage = x] = [n |-> o.n, of |-> o.of, emoji |-> o.emoji, op |-> o.op,
                                stage |-> x, calm |-> o.calm]
  BY DEF ClickShape
<1> QED
  BY <1>1

(* A write settles, and the click that waited for it goes on.                  *)
LEMMA LinksSettled ==
    ASSUME QueueInv, OpsInv, LinksInv, NEW t \in queue.tasks, queue' = Settled(t),
           \A o \in own.ops : o \in own'.ops \/ (t.by.who \in {"react", "undo"} /\ o.n = t.by.n)
    PROVE  LinksInv'
<1>1. ASSUME NEW s \in queue.tasks \ {t}, NEW stage, WaitsFor(s.by.n, stage),
             \/ s.by.who = "react" /\ stage = "marking"
             \/ s.by.who = "undo" /\ stage = "undoing"
      PROVE  WaitsFor(s.by.n, stage)'
  <2>1. PICK o \in own.ops : o.n = s.by.n /\ o.stage = stage
    BY <1>1 DEF WaitsFor
  <2>2. SUFFICES ASSUME t.by.who \in {"react", "undo"}, o.n = t.by.n PROVE FALSE
    BY <2>1 DEF WaitsFor
  <2>3. PICK p \in own.ops : /\ p.n = t.by.n
                             /\ \/ t.by.who = "react" /\ p.stage = "marking"
                                \/ t.by.who = "undo" /\ p.stage = "undoing"
    BY <2>2 DEF LinksInv, WaitsFor
  <2>4. p = o
    BY <2>2, <2>3 DEF OpsInv
  <2>5. t.by.who = s.by.who /\ t.by.n = s.by.n
    BY <1>1, <2>1, <2>2, <2>3, <2>4
  <2>6. t.by = s.by
    BY <2>5 DEF LinksInv
  <2> QED
    BY <2>2, <2>6 DEF LinksInv
<1> SUFFICES ASSUME NEW u \in queue'.tasks
             PROVE  /\ u.by = By(u.by.who, u.by.n)
                    /\ u.by.who = "react" => WaitsFor(u.by.n, "marking")'
                    /\ u.by.who = "undo" => WaitsFor(u.by.n, "undoing")'
                    /\ u.do.op = "rollback" => u.by = By("undo", u.do.id)
                    /\ u.by.who \in {"react", "undo"} => \A v \in queue'.tasks : v.by = u.by => v = u
  BY DEF LinksInv
<1>2. PICK s \in queue.tasks \ {t} : u.do = s.do /\ u.by = s.by /\ u = Freed(s, t)
  BY SettledFields
<1>3. ASSUME u.by.who \in {"react", "undo"}, NEW v \in queue'.tasks, v.by = u.by PROVE v = u
  <2>1. PICK r \in queue.tasks \ {t} : v.by = r.by /\ v = Freed(r, t)
    BY SettledFields
  <2> QED
    BY <1>2, <1>3, <2>1 DEF LinksInv
<1>4. (u.by.who = "react" => WaitsFor(u.by.n, "marking")')
      /\ (u.by.who = "undo" => WaitsFor(u.by.n, "undoing")')
  BY <1>1, <1>2 DEF LinksInv
<1> QED
  BY <1>2, <1>3, <1>4 DEF LinksInv

(* A write is queued by what has none queued.                                  *)
LEMMA LinksEnqueued ==
    ASSUME LinksInv, NEW on, NEW job, NEW who, NEW n, queue' = Enqueued(on, job, By(who, n)),
           \A m : /\ WaitsFor(m, "marking") => WaitsFor(m, "marking")'
                  /\ WaitsFor(m, "undoing") => WaitsFor(m, "undoing")',
           who = "react" => WaitsFor(n, "marking")' /\ ~WaitsFor(n, "marking"),
           who = "undo" => WaitsFor(n, "undoing")' /\ ~WaitsFor(n, "undoing"),
           job.op = "rollback" => who = "undo" /\ n = job.id
    PROVE  LinksInv'
<1> DEFINE by == By(who, n)
           t0 == Task(on, job, by)
<1>1. by.who = who /\ by.n = n
  BY ByWhat
<1>2. t0.do = job /\ t0.by = by
  BY TaskFields
<1>3. queue'.tasks = queue.tasks \cup {t0}
  BY EnqueuedTasks
<1> HIDE DEF t0
<1>4. who \in {"react", "undo"} => \A u \in queue.tasks : u.by # by
  <2> SUFFICES ASSUME who \in {"react", "undo"}, NEW u \in queue.tasks, u.by = by PROVE FALSE
    OBVIOUS
  <2>1. u.by.who = who /\ u.by.n = n
    BY <1>1
  <2> QED
    BY <2>1 DEF LinksInv
<1>5. by = By(by.who, by.n) /\ (job.op = "rollback" => by = By("undo", job.id))
  BY <1>1
<1> HIDE DEF by
<1>6. \A t \in queue'.tasks :
        /\ t.by = By(t.by.who, t.by.n)
        /\ t.by.who = "react" => WaitsFor(t.by.n, "marking")'
        /\ t.by.who = "undo" => WaitsFor(t.by.n, "undoing")'
        /\ t.do.op = "rollback" => t.by = By("undo", t.do.id)
  BY <1>1, <1>2, <1>3, <1>5 DEF LinksInv
<1>7. \A t, u \in queue'.tasks : t.by.who \in {"react", "undo"} /\ u.by = t.by => u = t
  BY <1>1, <1>2, <1>3, <1>4 DEF LinksInv
<1> QED
  BY <1>6, <1>7 DEF LinksInv
(* What a settled write does for the user's messages and clicks                *)
LEMMA OwnSettled ==
    ASSUME OwnInv, OpsInv, NEW t, own' = OwnAfter(t) \/
             own' = CASE t.by.who = "send" -> [own EXCEPT !.sends[t.by.n] = "failed"]
                      [] t.by.who \in {"react", "undo"} ->
                            [own EXCEPT !.ops = {o \in @ : o.n # t.by.n}]
                      [] OTHER -> own
    PROVE  /\ own'.acts = own.acts /\ OpsInv'
           /\ \A o \in own.ops : o \in own'.ops \/ (t.by.who \in {"react", "undo"} /\ o.n = t.by.n)
<1>1. own = [sends |-> own.sends, ops |-> own.ops, acts |-> own.acts]
  BY DEF OwnInv
<1>2. ASSUME own'.acts = own.acts, own'.ops \subseteq own.ops PROVE OpsInv'
  BY <1>2 DEF OpsInv
<1>3. CASE t.by.who = "send"
  <2>1. PICK x : own' = [own EXCEPT !.sends = x]
    BY <1>3 DEF OwnAfter
  <2>2. own' = [sends |-> x, ops |-> own.ops, acts |-> own.acts]
    BY <1>1, <2>1
  <2> QED
    BY <1>2, <2>2
<1>4. ASSUME t.by.who \in {"react", "undo"},
             own' = [own EXCEPT !.ops = {o \in own.ops : o.n # t.by.n}]
      PROVE  /\ own'.acts = own.acts /\ OpsInv'
             /\ \A o \in own.ops : o \in own'.ops \/ o.n = t.by.n
  <2> DEFINE rest == {o \in own.ops : o.n # t.by.n}
  <2>1. own' = [own EXCEPT !.ops = rest]
    BY <1>4
  <2>2. rest \subseteq own.ops /\ \A o \in own.ops : o \in rest \/ o.n = t.by.n
    OBVIOUS
  <2> HIDE DEF rest
  <2>3. own' = [sends |-> own.sends, ops |-> rest, acts |-> own.acts]
    BY <1>1, <2>1
  <2> QED
    BY <1>2, <2>2, <2>3
<1>5. ASSUME t.by.who = "react",
             own' = [own EXCEPT !.ops = {IF o.n = t.by.n THEN [o EXCEPT !.stage = "publishing"]
                                         ELSE o : o \in own.ops}]
      PROVE  /\ own'.acts = own.acts /\ OpsInv'
             /\ \A o \in own.ops : o \in own'.ops \/ o.n = t.by.n
  <2> DEFINE g == [o \in own.ops |-> IF o.n = t.by.n THEN [o EXCEPT !.stage = "publishing"] ELSE o]
             next == {g[o] : o \in own.ops}
  <2>1. own' = [own EXCEPT !.ops = next]
    <3>1. next = {IF o.n = t.by.n THEN [o EXCEPT !.stage = "publishing"] ELSE o : o \in own.ops}
      OBVIOUS
    <3> HIDE DEF next
    <3> QED
      BY <1>5, <3>1
  <2>2. \A o \in own.ops : /\ g[o].n = o.n /\ g[o].of = o.of /\ g[o].emoji = o.emoji
                           /\ o.n # t.by.n => g[o] = o
    BY OpFields DEF OwnInv, Clicked
  <2> HIDE DEF g
  <2>3. \A o \in own.ops : o \in next \/ o.n = t.by.n
    BY <2>2
  <2>4. own'.ops = next /\ own'.acts = own.acts
    <3> HIDE DEF next
    <3>1. own' = [sends |-> own.sends, ops |-> next, acts |-> own.acts]
      BY <1>1, <2>1
    <3> QED
      BY <3>1
  <2>5. OpsInv'
    BY <2>2, <2>4, OpsChange
  <2> QED
    BY <2>3, <2>4, <2>5
<1>6. CASE t.by.who \notin {"send", "react", "undo"}
  <2>1. own' = own
    BY <1>6 DEF OwnAfter
  <2> QED
    BY <1>2, <2>1
<1>7. CASE t.by.who = "react"
  <2>1. \/ own' = [own EXCEPT !.ops = {IF o.n = t.by.n THEN [o EXCEPT !.stage = "publishing"]
                                       ELSE o : o \in own.ops}]
        \/ own' = [own EXCEPT !.ops = {o \in own.ops : o.n # t.by.n}]
    BY <1>7 DEF OwnAfter
  <2> QED
    BY <1>4, <1>5, <1>7, <2>1
<1>8. CASE t.by.who = "undo"
  <2>1. own' = [own EXCEPT !.ops = {o \in own.ops : o.n # t.by.n}]
    BY <1>8 DEF OwnAfter
  <2> QED
    BY <1>4, <1>8, <2>1
<1> QED
  BY <1>3, <1>6, <1>7, <1>8

LEMMA WriteTyped ==
    ASSUME OnceInv, WipeInv, TypeInv, NEW t \in queue.tasks, WriteStored(t)
    PROVE  TypeInv'
<1>1. /\ t.seen # Unread /\ queue' = Settled(t) /\ own' = OwnAfter(t) /\ views' = ViewsAfter(t)
      /\ disk' = IF Result(t) = t.seen THEN disk
                 ELSE IF t.on = "chat" THEN [disk EXCEPT !.chat = Result(t)]
                 ELSE [disk EXCEPT !.rows = Result(t), !.keyed = TRUE]
  BY DEF WriteStored
<1>2. QueueInv /\ DiskInv /\ OwnInv
  BY DEF OnceInv
<1>3. /\ own'.acts = own.acts /\ OpsInv'
      /\ \A o \in own.ops : o \in own'.ops \/ (t.by.who \in {"react", "undo"} /\ o.n = t.by.n)
  BY <1>1, <1>2, OwnSettled DEF TypeInv
<1>4. JobsInv' /\ LinksInv'
  BY <1>1, <1>2, <1>3, JobsSettled, LinksSettled DEF TypeInv
<1>5. JobTyped(t.do, own.acts) /\ own.acts \in Nat
      /\ IF t.on = "chat" THEN t.do.op = "append" /\ t.seen \subseteq Messages
         ELSE RowsTyped(t.seen, own.acts)
  BY <1>1 DEF TypeInv, JobsInv, OpsInv
<1>6. ViewsInv'
  <2>1. CASE t.do.op = "append" /\ t.by.who \in {"pass", "live"}
    <3>1. t.do.of \in Messages
      BY <1>5, <2>1 DEF JobTyped
    <3>2. views' = [views EXCEPT ![t.by.n].known = views[t.by.n].known \cup {t.do.of}]
      BY <1>1, <2>1 DEF ViewsAfter
    <3> QED
      BY <3>1, <3>2, ViewLearns DEF TypeInv
  <2>2. CASE views' = views
    BY <2>2 DEF TypeInv, ViewsInv
  <2> QED
    BY <1>1, <2>1, <2>2 DEF ViewsAfter
<1>7. disk'.chat \subseteq Messages /\ disk'.blocked \in BOOLEAN /\ RowsTyped(disk'.rows, own.acts)
  <2>1. CASE disk' = disk
    BY <2>1 DEF TypeInv
  <2>2. CASE t.on = "chat" /\ disk' = [disk EXCEPT !.chat = Result(t)]
    <3>1. Result(t) = t.seen \cup {t.do.of} /\ t.do.of \in Messages /\ t.seen \subseteq Messages
      BY <1>5, <2>2 DEF Result, JobTyped
    <3>2. disk'.chat = Result(t) /\ disk'.blocked = disk.blocked /\ disk'.rows = disk.rows
      BY <1>2, <2>2 DEF DiskInv
    <3> QED
      BY <3>1, <3>2 DEF TypeInv
  <2>3. CASE t.on # "chat" /\ disk' = [disk EXCEPT !.rows = Result(t), !.keyed = TRUE]
    <3>1. t.do.op \in RowOps /\ RowsTyped(t.seen, own.acts)
      BY <1>2, <1>5, <2>3 DEF QueueInv, Sound
    <3>2. RowsTyped(Result(t), own.acts)
      BY <1>5, <3>1, ResultTyped
    <3>3. disk' = [chat |-> disk.chat, rows |-> Result(t), keyed |-> TRUE, blocked |-> disk.blocked]
      BY <1>2, <2>3, Emptied
    <3> QED
      BY <3>2, <3>3 DEF TypeInv
  <2> QED
    BY <1>1, <2>1, <2>2, <2>3
<1> QED
  BY <1>3, <1>4, <1>6, <1>7 DEF TypeInv

LEMMA SettleTyped ==
    ASSUME OnceInv, WipeInv, TypeInv, NEW t \in queue.tasks, ClearMessages(t) \/ WriteFails(t)
    PROVE  TypeInv'
<1>1. queue' = Settled(t)
  BY DEF ClearMessages, WriteFails
<1>2. QueueInv /\ DiskInv /\ OwnInv
  BY DEF OnceInv
<1>3. /\ own'.acts = own.acts /\ OpsInv'
      /\ \A o \in own.ops : o \in own'.ops \/ (t.by.who \in {"react", "undo"} /\ o.n = t.by.n)
  <2>1. CASE ClearMessages(t)
    BY <2>1 DEF ClearMessages, TypeInv, OpsInv
  <2>2. CASE WriteFails(t)
    <3>1. own' = CASE t.by.who = "send" -> [own EXCEPT !.sends[t.by.n] = "failed"]
                   [] t.by.who \in {"react", "undo"} ->
                         [own EXCEPT !.ops = {o \in @ : o.n # t.by.n}]
                   [] OTHER -> own
      BY <2>2 DEF WriteFails
    <3> QED
      BY <1>2, <3>1, OwnSettled DEF TypeInv
  <2> QED
    BY <2>1, <2>2
<1>4. JobsInv' /\ LinksInv'
  BY <1>1, <1>2, <1>3, JobsSettled, LinksSettled DEF TypeInv
<1>5. disk'.chat \subseteq Messages /\ disk'.blocked \in BOOLEAN /\ RowsTyped(disk'.rows, own.acts)
  BY <1>2 DEF TypeInv, DiskInv, ClearMessages, WriteFails
<1>6. ViewsInv'
  <2>1. CASE views' = views
    BY <2>1 DEF TypeInv, ViewsInv
  <2>2. CASE t.by.n \in DOMAIN views /\ views' = [views EXCEPT ![t.by.n] = Stopped(views[t.by.n])]
    <3>1. views[t.by.n] \in ViewSet
      BY <2>2 DEF TypeInv, ViewsInv
    <3> QED
      BY <2>2, <3>1, StoppedFields, ViewChanges DEF TypeInv
  <2>3. CASE t.by.n \notin DOMAIN views /\ views' = [views EXCEPT ![t.by.n] = Stopped(views[t.by.n])]
    <3>1. views' = views
      BY <2>3 DEF TypeInv, ViewsInv
    <3> QED
      BY <3>1 DEF TypeInv, ViewsInv
  <2> QED
    BY <2>1, <2>2, <2>3 DEF ClearMessages, WriteFails
<1> QED
  BY <1>3, <1>4, <1>5, <1>6 DEF TypeInv
LEMMA ReadTyped ==
    ASSUME OnceInv, WipeInv, TypeInv, NEW t \in queue.tasks, ReadStored(t)
    PROVE  TypeInv'
<1> DEFINE t0 == [t EXCEPT !.seen = Stored(t.on)]
<1>1. /\ t.do.op # "clear" /\ queue' = [queue EXCEPT !.tasks = (queue.tasks \ {t}) \cup {t0}]
      /\ UNCHANGED <<disk, views, own, wipes, past>>
  BY DEF ReadStored, Stored
<1>2. /\ t0.n = t.n /\ t0.on = t.on /\ t0.after = t.after /\ t0.do = t.do /\ t0.by = t.by
      /\ t0.seen = Stored(t.on)
  <2>1. TaskShape(t)
    BY DEF OnceInv, QueueInv, Sound
  <2>2. \A x : [t EXCEPT !.seen = x] =
            [n |-> t.n, on |-> t.on, after |-> t.after, do |-> t.do, by |-> t.by, seen |-> x]
    BY <2>1 DEF TaskShape
  <2> QED
    BY <2>2
<1> HIDE DEF t0
<1>3. queue'.tasks = (queue.tasks \ {t}) \cup {t0}
  BY <1>1 DEF OnceInv, QueueInv
<1>4. Numbers' = Numbers
  BY <1>2, <1>3 DEF Numbers
<1>5. JobsInv'
  <2>1. t.on = "chat" => t.do.op = "append"
    BY <1>1 DEF WipeInv, ClearsInv
  <2>2. IF t0.on = "chat" THEN t0.do.op = "append" /\ t0.seen \subseteq Messages
        ELSE RowsTyped(t0.seen, own.acts)
    BY <1>2, <2>1 DEF TypeInv, Stored
  <2> QED
    BY <1>1, <1>2, <1>3, <1>4, <2>2 DEF TypeInv, JobsInv
<1>6. LinksInv'
  <2>1. \A u \in queue'.tasks : \E s \in queue.tasks :
          u.do = s.do /\ u.by = s.by /\ u = IF s = t THEN t0 ELSE s
    BY <1>2, <1>3
  <2>2. \A n, stage : WaitsFor(n, stage)' <=> WaitsFor(n, stage)
    BY <1>1 DEF WaitsFor
  <2>3. \A u, v \in queue'.tasks : u.by.who \in {"react", "undo"} /\ v.by = u.by => v = u
    BY <2>1 DEF TypeInv, LinksInv
  <2>4. \A u \in queue'.tasks :
          /\ u.by = By(u.by.who, u.by.n)
          /\ u.by.who = "react" => WaitsFor(u.by.n, "marking")'
          /\ u.by.who = "undo" => WaitsFor(u.by.n, "undoing")'
          /\ u.do.op = "rollback" => u.by = By("undo", u.do.id)
    BY <2>1, <2>2 DEF TypeInv, LinksInv
  <2> QED
    BY <2>3, <2>4 DEF LinksInv
<1> QED
  BY <1>1, <1>5, <1>6 DEF TypeInv, OpsInv, ViewsInv

(* A step that leaves queues and clicks alone                                  *)
LEMMA QuietTyped ==
    ASSUME TypeInv, queue'.tasks = queue.tasks, own' = own, ViewsInv',
           disk'.chat \subseteq Messages, disk'.blocked \in BOOLEAN, disk'.rows \subseteq disk.rows
    PROVE  TypeInv'
<1>1. JobsInv' /\ OpsInv' /\ LinksInv'
  BY DEF TypeInv, JobsInv, Numbers, OpsInv, LinksInv, WaitsFor
<1> QED
  BY <1>1 DEF TypeInv, RowsTyped

LEMMA WipeStepsTyped ==
    ASSUME OnceInv, TypeInv, NEW w \in wipes, FindReactionKeys(w) \/ DeleteReactions(w)
    PROVE  TypeInv'
<1>1. ViewsInv' /\ own' = own
  BY DEF TypeInv, ViewsInv, FindReactionKeys, DeleteReactions
<1>2. CASE FindReactionKeys(w)
  <2>1. queue' = queue /\ disk' = disk
    BY <1>2 DEF FindReactionKeys
  <2> QED
    BY <1>1, <2>1, QuietTyped DEF TypeInv
<1>3. CASE DeleteReactions(w)
  <2>1. queue' = [queue EXCEPT !.last["rows"] = 0]
        /\ disk' = [disk EXCEPT !.rows = {}, !.keyed = FALSE]
    BY <1>3 DEF DeleteReactions
  <2>2. queue'.tasks = queue.tasks
    BY <2>1 DEF OnceInv, QueueInv
  <2>3. disk' = [chat |-> disk.chat, rows |-> {}, keyed |-> FALSE, blocked |-> disk.blocked]
    BY <2>1, Emptied DEF OnceInv
  <2> QED
    BY <1>1, <2>2, <2>3, QuietTyped DEF TypeInv
<1> QED
  BY <1>2, <1>3

LEMMA EnqueueTyped ==
    ASSUME WipeInv, TypeInv, NEW on \in Queues, NEW job, NEW who, NEW n, JobTyped(job, own.acts),
           queue' = Enqueued(on, job, By(who, n)), own'.acts = own.acts, OpsInv', ViewsInv',
           \A m : /\ WaitsFor(m, "marking") => WaitsFor(m, "marking")'
                  /\ WaitsFor(m, "undoing") => WaitsFor(m, "undoing")',
           who = "react" => WaitsFor(n, "marking")' /\ ~WaitsFor(n, "marking"),
           who = "undo" => WaitsFor(n, "undoing")' /\ ~WaitsFor(n, "undoing"),
           job.op = "rollback" => who = "undo" /\ n = job.id,
           disk'.chat = disk.chat, disk'.rows = disk.rows, disk'.blocked \in BOOLEAN
    PROVE  TypeInv'
<1>1. JobsInv'
  BY JobsEnqueued DEF WipeInv, TypeInv
<1>2. LinksInv'
  BY LinksEnqueued DEF TypeInv
<1> QED
  BY <1>1, <1>2 DEF TypeInv

LEMMA ChatsTyped ==
    ASSUME OnceInv, WipeInv, TypeInv, NEW v \in DOMAIN views, Chats(v)
    PROVE  TypeInv'
<1>1. ViewsInv' /\ own' = own /\ disk' = disk /\ OpsInv'
  <2>1. own' = own /\ disk' = disk
    BY DEF Chats, FetchHistory, ApplyHistorical, Subscribe, Close, HandleGiftWrap
  <2> QED
    BY <2>1, ChatViews DEF TypeInv, OpsInv
<1>2. CASE queue' = queue
  BY <1>1, <1>2, QuietTyped DEF TypeInv
<1>3. ASSUME NEW who \in {"pass", "live"}, NEW r \in Rumors, queue' = EnqueuedFor(who, v, r)
      PROVE  TypeInv'
  <2> DEFINE j1 == Job("append", r, Unread, 0)
             j2 == Job("inbound", r, Unread, 0)
  <2>1. /\ r \in Texts => JobTyped(j1, own.acts) /\ j1.op # "rollback"
        /\ r \notin Texts => JobTyped(j2, own.acts) /\ j2.op # "rollback"
    BY RumorsAre DEF Job, JobTyped
  <2> HIDE DEF j1, j2
  <2>2. \A m, stage : WaitsFor(m, stage)' <=> WaitsFor(m, stage)
    BY <1>1 DEF WaitsFor
  <2>3. CASE r \in Texts /\ queue' = Enqueued("chat", j1, By(who, v))
    BY <1>1, <2>1, <2>2, <2>3, EnqueueTyped, QueuesAre DEF TypeInv
  <2>4. CASE r \notin Texts /\ queue' = Enqueued("rows", j2, By(who, v))
    BY <1>1, <2>1, <2>2, <2>4, EnqueueTyped, QueuesAre DEF TypeInv
  <2> QED
    BY <1>3, <2>3, <2>4 DEF EnqueuedFor, j1, j2
<1>4. CASE ApplyHistorical(v)
  <2> DEFINE r == Head(views[v].todo)
  <2>1. views[v].todo # <<>> /\ (queue' = queue \/ queue' = EnqueuedFor("pass", v, r))
    BY <1>4 DEF ApplyHistorical
  <2>2. r \in Rumors
    <3>1. views[v] \in ViewSet
      BY DEF TypeInv, ViewsInv
    <3>2. views[v].todo \in Seq(Rumors)
      BY <3>1 DEF ViewSet
    <3> QED
      BY <2>1, <3>2
  <2> QED
    BY <1>2, <1>3, <2>1, <2>2
<1>5. ASSUME NEW r \in Rumors, HandleGiftWrap(v, r)
      PROVE  TypeInv'
  <2>1. queue' = queue \/ queue' = EnqueuedFor("live", v, r)
    BY <1>5 DEF HandleGiftWrap
  <2> QED
    BY <1>2, <1>3, <2>1
<1>6. CASE FetchHistory(v) \/ Subscribe(v) \/ Close(v)
  BY <1>2, <1>6 DEF FetchHistory, Subscribe, Close
<1> QED
  BY <1>4, <1>5, <1>6 DEF Chats
LEMMA SendTyped ==
    ASSUME OnceInv, WipeInv, TypeInv, NEW m \in Own, MessagePublished(m)
    PROVE  TypeInv'
<1> DEFINE job == Job("append", m, Unread, 0)
<1>1. PICK x : own' = [own EXCEPT !.sends = x]
  BY DEF MessagePublished
<1>2. own'.ops = own.ops /\ own'.acts = own.acts
  BY <1>1 DEF OnceInv, OwnInv
<1>3. disk' = disk /\ views' = views
  BY DEF MessagePublished
<1>4. OpsInv' /\ ViewsInv' /\ \A n, stage : WaitsFor(n, stage)' <=> WaitsFor(n, stage)
  BY <1>2, <1>3 DEF TypeInv, OpsInv, ViewsInv, WaitsFor
<1>5. CASE queue' = queue
  <2>1. JobsInv' /\ LinksInv'
    BY <1>2, <1>4, <1>5 DEF TypeInv, JobsInv, Numbers, LinksInv
  <2> QED
    BY <1>2, <1>3, <1>4, <2>1 DEF TypeInv
<1>6. CASE queue' = Enqueued("chat", job, By("send", m))
  <2>1. JobTyped(job, own.acts) /\ job.op # "rollback"
    BY RumorsAre DEF Job, JobTyped
  <2> HIDE DEF job
  <2> QED
    BY <1>2, <1>3, <1>4, <1>6, <2>1, EnqueueTyped, QueuesAre DEF TypeInv
<1> QED
  BY <1>5, <1>6 DEF MessagePublished

(* A click that goes on                                                        *)
LEMMA OpMoves ==
    ASSUME OwnInv, OpsInv, NEW o \in own.ops, NEW x,
           own' = [own EXCEPT !.ops = (own.ops \ {o}) \cup {[o EXCEPT !.stage = x]}]
    PROVE  /\ own'.acts = own.acts /\ OpsInv' /\ WaitsFor(o.n, x)'
           /\ \A n, stage : WaitsFor(n, stage) /\ stage # o.stage => WaitsFor(n, stage)'
           /\ \A stage : WaitsFor(o.n, stage) => stage = o.stage
<1> DEFINE p == [o EXCEPT !.stage = x]
           next == (own.ops \ {o}) \cup {p}
           g == [y \in own.ops |-> IF y = o THEN p ELSE y]
<1>1. p.n = o.n /\ p.of = o.of /\ p.emoji = o.emoji /\ p.stage = x
  BY OpFields DEF OwnInv, Clicked
<1> HIDE DEF p
<1>2. own'.ops = next /\ own'.acts = own.acts
  <2>1. own' = [own EXCEPT !.ops = next]
    BY DEF p
  <2> HIDE DEF next
  <2>2. own' = [sends |-> own.sends, ops |-> next, acts |-> own.acts]
    BY <2>1 DEF OwnInv
  <2> QED
    BY <2>2
<1>3. next \subseteq {g[y] : y \in own.ops}
  OBVIOUS
<1>4. \A y \in own.ops : g[y].n = y.n /\ g[y].of = y.of /\ g[y].emoji = y.emoji
  BY <1>1
<1> HIDE DEF g
<1>5. OpsInv'
  BY <1>2, <1>3, <1>4, OpsChange
<1>6. WaitsFor(o.n, x)' /\ \A n, stage : WaitsFor(n, stage) /\ stage # o.stage => WaitsFor(n, stage)'
  BY <1>1, <1>2 DEF WaitsFor
<1>7. \A stage : WaitsFor(o.n, stage) => stage = o.stage
  BY DEF WaitsFor, OpsInv
<1> QED
  BY <1>2, <1>5, <1>6, <1>7

LEMMA ReactionTyped ==
    ASSUME OnceInv, WipeInv, TypeInv, NEW o \in own.ops, MarkReaction(o) \/ ReactionPublished(o)
    PROVE  TypeInv'
<1>1. disk' = disk /\ views' = views /\ ViewsInv' /\ OwnInv /\ OpsInv
  BY DEF MarkReaction, ReactionPublished, TypeInv, ViewsInv, OnceInv
<1>2. /\ o.n \in 1..own.acts /\ o.of \in Messages /\ o.emoji \in Emojis
      /\ o.op \in {"insert", "take"}
  BY <1>1 DEF OpsInv, OwnInv, Clicked
<1>3. CASE MarkReaction(o)
  <2> DEFINE job == Job(o.op, o.of, o.emoji, o.n)
  <2>1. /\ o.stage = "connecting"
        /\ own' = [own EXCEPT !.ops = (own.ops \ {o}) \cup {[o EXCEPT !.stage = "marking"]}]
        /\ queue' = Enqueued("rows", job, By("react", o.n))
    BY <1>3 DEF MarkReaction
  <2>2. /\ own'.acts = own.acts /\ OpsInv' /\ WaitsFor(o.n, "marking")' /\ ~WaitsFor(o.n, "marking")
        /\ \A m : /\ WaitsFor(m, "marking") => WaitsFor(m, "marking")'
                  /\ WaitsFor(m, "undoing") => WaitsFor(m, "undoing")'
    BY <1>1, <2>1, OpMoves
  <2>3. JobTyped(job, own.acts) /\ job.op # "rollback"
    BY <1>2 DEF Job, JobTyped
  <2> HIDE DEF job
  <2> QED
    BY <1>1, <2>1, <2>2, <2>3, EnqueueTyped, QueuesAre DEF TypeInv
<1>4. CASE ReactionPublished(o)
  <2> DEFINE job == Job(IF o.op = "take" THEN "insert" ELSE "rollback", o.of, o.emoji, o.n)
  <2>1. /\ o.stage = "publishing"
        /\ \/ own' = [own EXCEPT !.ops = own.ops \ {o}] /\ queue' = queue
           \/ /\ own' = [own EXCEPT !.ops = (own.ops \ {o}) \cup {[o EXCEPT !.stage = "undoing"]}]
              /\ queue' = Enqueued("rows", job, By("undo", o.n))
    BY <1>4 DEF ReactionPublished
  <2>2. job.id = o.n /\ JobTyped(job, own.acts)
    BY <1>2 DEF Job, JobTyped
  <2> HIDE DEF job
  <2>3. CASE own' = [own EXCEPT !.ops = own.ops \ {o}] /\ queue' = queue
    <3> DEFINE rest == own.ops \ {o}
    <3>1. own' = [own EXCEPT !.ops = rest]
      BY <2>3
    <3>2. rest \subseteq own.ops /\ \A p \in own.ops : p.stage # "publishing" => p \in rest
      BY <2>1
    <3> HIDE DEF rest
    <3>3. own'.ops = rest /\ own'.acts = own.acts
      BY <1>1, <3>1 DEF OwnInv
    <3>4. OpsInv'
      BY <1>1, <3>2, <3>3 DEF OpsInv
    <3>5. \A m : /\ WaitsFor(m, "marking") => WaitsFor(m, "marking")'
                 /\ WaitsFor(m, "undoing") => WaitsFor(m, "undoing")'
      BY <3>2, <3>3 DEF WaitsFor
    <3>6. JobsInv' /\ LinksInv'
      BY <2>3, <3>3, <3>5 DEF TypeInv, JobsInv, Numbers, LinksInv
    <3> QED
      BY <1>1, <3>3, <3>4, <3>6 DEF TypeInv
  <2>4. CASE /\ own' = [own EXCEPT !.ops = (own.ops \ {o}) \cup {[o EXCEPT !.stage = "undoing"]}]
             /\ queue' = Enqueued("rows", job, By("undo", o.n))
    <3>1. /\ own'.acts = own.acts /\ OpsInv' /\ WaitsFor(o.n, "undoing")' /\ ~WaitsFor(o.n, "undoing")
          /\ \A m : /\ WaitsFor(m, "marking") => WaitsFor(m, "marking")'
                    /\ WaitsFor(m, "undoing") => WaitsFor(m, "undoing")'
      BY <1>1, <2>1, <2>4, OpMoves
    <3> QED
      BY <1>1, <2>2, <2>4, <3>1, EnqueueTyped, QueuesAre DEF TypeInv
  <2> QED
    BY <2>1, <2>3, <2>4
<1> QED
  BY <1>3, <1>4

LEMMA ActsTyped ==
    ASSUME OnceInv, TypeInv, NEW v \in DOMAIN views, Acts(v)
    PROVE  TypeInv'
<1>1. disk' = disk /\ queue' = queue /\ own.acts < MaxActs
  BY DEF Acts, SendMessage, HandleReact
<1>2. OwnInv /\ OpsInv
  BY DEF OnceInv, TypeInv
<1>3. own.acts \in Nat /\ own.acts + 1 \in Nat /\ own.acts + 1 <= MaxActs
  BY <1>1, <1>2, RumorsAre DEF OpsInv
<1>4. ASSUME own'.acts = own.acts + 1, own.ops \subseteq own'.ops, OpsInv', ViewsInv' PROVE TypeInv'
  <2>1. \A n, stage : WaitsFor(n, stage) => WaitsFor(n, stage)'
    BY <1>4 DEF WaitsFor
  <2>2. /\ \A rows : RowsTyped(rows, own.acts) => RowsTyped(rows, own'.acts)
        /\ \A job : JobTyped(job, own.acts) => JobTyped(job, own'.acts)
    <3>1. own.acts <= own.acts + 1
      BY <1>3
    <3> QED
      BY <1>3, <1>4, <3>1, TypedGrows
  <2>3. JobsInv' /\ LinksInv'
    BY <1>1, <2>1, <2>2 DEF TypeInv, JobsInv, Numbers, LinksInv
  <2> QED
    BY <1>1, <1>4, <2>2, <2>3 DEF TypeInv
<1>5. ASSUME NEW m \in Own, SendMessage(v, m) PROVE TypeInv'
  <2>1. PICK x : own' = [own EXCEPT !.sends = x, !.acts = own.acts + 1]
    BY <1>5 DEF SendMessage
  <2> DEFINE g == [own EXCEPT !.sends = x]
  <2>2. g = [sends |-> x, ops |-> own.ops, acts |-> own.acts] /\ own' = [g EXCEPT !.acts = own.acts + 1]
    BY <1>2, <2>1 DEF OwnInv
  <2> HIDE DEF g
  <2>3. own'.ops = own.ops /\ own'.acts = own.acts + 1
    BY <2>2
  <2>4. OpsInv'
    BY <1>2, <1>3, <2>3 DEF OpsInv
  <2>5. ViewsInv'
    <3>1. views' = [views EXCEPT ![v].known = views[v].known \cup {m}]
      BY <1>5 DEF SendMessage
    <3>2. m \in Messages
      BY RumorsAre
    <3> QED
      BY <3>1, <3>2, ViewLearns DEF TypeInv
  <2> QED
    BY <1>4, <2>3, <2>4, <2>5
<1>6. ASSUME NEW m \in Messages, NEW e \in Emojis, HandleReact(v, m, e) PROVE TypeInv'
  <2> DEFINE o == [n |-> own.acts + 1, of |-> m, emoji |-> e,
                   op |-> IF Shown(m, Me, e) THEN "take" ELSE "insert",
                   stage |-> "connecting", calm |-> wipes = {}]
             next == own.ops \cup {o}
  <2>1. own' = [own EXCEPT !.acts = own.acts + 1, !.ops = next] /\ views' = views
    BY <1>6 DEF HandleReact
  <2>2. o.n = own.acts + 1 /\ o.of = m /\ o.emoji = e
    OBVIOUS
  <2> HIDE DEF o
  <2>3. own'.ops = next /\ own'.acts = own.acts + 1
    <3> DEFINE g == [own EXCEPT !.acts = own.acts + 1]
    <3> HIDE DEF next
    <3>1. g = [sends |-> own.sends, ops |-> own.ops, acts |-> own.acts + 1] /\ own' = [g EXCEPT !.ops = next]
      BY <1>2, <2>1 DEF OwnInv
    <3> HIDE DEF g
    <3> QED
      BY <3>1
  <2>4. OpsInv'
    BY <1>2, <1>3, <2>2, <2>3 DEF OpsInv
  <2>5. ViewsInv'
    BY <2>1 DEF TypeInv, ViewsInv
  <2> QED
    BY <1>4, <2>3, <2>4, <2>5
<1> QED
  BY <1>5, <1>6 DEF Acts

LEMMA BlockTyped ==
    ASSUME OnceInv, WipeInv, TypeInv, BlockContact
    PROVE  TypeInv'
<1> DEFINE job == Job("clear", Unread, Unread, 0)
           g == [o \in own.ops |-> [o EXCEPT !.calm = FALSE]]
           next == {g[o] : o \in own.ops}
<1>1. /\ disk' = [disk EXCEPT !.blocked = TRUE]
      /\ queue' = Enqueued("chat", job, By("wipe", past.blocks + 1))
  BY DEF BlockContact
<1>2. own'.ops = next /\ own'.acts = own.acts
  <2>1. own' = [own EXCEPT !.ops = next]
    <3>1. next = {[o EXCEPT !.calm = FALSE] : o \in own.ops}
      OBVIOUS
    <3> HIDE DEF next
    <3> QED
      BY <3>1 DEF BlockContact
  <2> HIDE DEF next
  <2>2. own' = [sends |-> own.sends, ops |-> next, acts |-> own.acts]
    BY <2>1 DEF OnceInv, OwnInv
  <2> QED
    BY <2>2
<1>3. \A o \in own.ops : g[o].n = o.n /\ g[o].of = o.of /\ g[o].emoji = o.emoji /\ g[o].stage = o.stage
  <2> SUFFICES ASSUME NEW o \in own.ops
               PROVE  g[o].n = o.n /\ g[o].of = o.of /\ g[o].emoji = o.emoji /\ g[o].stage = o.stage
    OBVIOUS
  <2>1. ClickShape(o)
    BY DEF OnceInv, OwnInv, Clicked
  <2>2. \A x : [o EXCEPT !.calm = x] = [n |-> o.n, of |-> o.of, emoji |-> o.emoji, op |-> o.op,
                                         stage |-> o.stage, calm |-> x]
    BY <2>1 DEF ClickShape
  <2>3. g[o] = [o EXCEPT !.calm = FALSE]
    OBVIOUS
  <2> HIDE DEF g
  <2> QED
    BY <2>2, <2>3
<1> HIDE DEF g
<1>4. OpsInv'
  BY <1>2, <1>3, OpsChange DEF TypeInv
<1>5. \A n, stage : WaitsFor(n, stage) => WaitsFor(n, stage)'
  BY <1>2, <1>3 DEF WaitsFor
<1>6. disk'.chat = disk.chat /\ disk'.rows = disk.rows /\ disk'.blocked \in BOOLEAN
  BY <1>1 DEF OnceInv, DiskInv
<1>7. JobTyped(job, own.acts) /\ job.op # "rollback"
  BY DEF Job, JobTyped
<1> HIDE DEF job
<1> QED
  BY <1>1, <1>2, <1>4, <1>5, <1>6, <1>7, BlockViews, EnqueueTyped, QueuesAre DEF TypeInv

LEMMA OthersTyped ==
    ASSUME OnceInv, TypeInv, Open \/ UnblockContact \/ Restart \/ UNCHANGED vars
    PROVE  TypeInv'
<1>1. CASE Open \/ UNCHANGED vars
  <2>1. queue' = queue /\ own' = own /\ disk' = disk
    BY <1>1 DEF Open, vars
  <2>2. ViewsInv'
    BY <1>1, OpenViews DEF TypeInv, ViewsInv, vars
  <2> QED
    BY <2>1, <2>2, QuietTyped DEF TypeInv
<1>2. CASE UnblockContact
  <2>1. queue' = queue /\ own' = own /\ views' = views /\ disk' = [disk EXCEPT !.blocked = FALSE]
    BY <1>2 DEF UnblockContact
  <2>2. disk'.chat = disk.chat /\ disk'.rows = disk.rows /\ disk'.blocked = FALSE
    BY <2>1 DEF OnceInv, DiskInv
  <2>3. ViewsInv'
    BY <2>1 DEF TypeInv, ViewsInv
  <2> QED
    BY <2>1, <2>2, <2>3, QuietTyped DEF TypeInv
<1>3. CASE Restart
  <2>1. PICK x : own' = [own EXCEPT !.ops = {}, !.sends = x]
    BY <1>3 DEF Restart
  <2>2. own'.ops = {} /\ own'.acts = own.acts
    <3> DEFINE g == [own EXCEPT !.ops = {}]
    <3>1. g = [sends |-> own.sends, ops |-> {}, acts |-> own.acts] /\ own' = [g EXCEPT !.sends = x]
      BY <2>1 DEF OnceInv, OwnInv
    <3> HIDE DEF g
    <3> QED
      BY <3>1
  <2>3. queue'.tasks = {} /\ disk' = disk
    BY <1>3 DEF Restart
  <2>4. OpsInv' /\ JobsInv' /\ LinksInv'
    BY <2>2, <2>3 DEF TypeInv, OpsInv, JobsInv, LinksInv
  <2> QED
    BY <1>3, <2>2, <2>3, <2>4, RestartViews DEF TypeInv
<1> QED
  BY <1>1, <1>2, <1>3
LEMMA InitTyped == Init => TypeInv
<1> SUFFICES ASSUME Init PROVE TypeInv
  OBVIOUS
<1>1. /\ queue.tasks = {} /\ own.ops = {} /\ own.acts = 0 /\ views = <<>>
  BY DEF Init
<1>2. JobsInv /\ OpsInv /\ LinksInv
  BY <1>1, RumorsAre DEF JobsInv, OpsInv, LinksInv
<1>3. ViewsInv
  BY <1>1, RumorsAre DEF ViewsInv
<1>4. PICK b \in Before :
        disk = [chat |-> b.chat, rows |-> b.rows, keyed |-> b.rows # {}, blocked |-> FALSE]
  BY DEF Init
<1>5. disk.chat = b.chat /\ disk.rows = b.rows /\ disk.blocked = FALSE
  BY <1>4
<1>6. b.chat \subseteq Messages
  BY ThreadAssumption DEF Messages
<1>7. RowsTyped(b.rows, 0)
  <2> SUFFICES ASSUME NEW r \in b.rows PROVE RowTyped(r, 0)
    BY DEF RowsTyped
  <2>1. /\ r = [id |-> r.id, of |-> r.of, by |-> r.by, emoji |-> r.emoji,
                event |-> r.event, removed |-> r.removed]
        /\ r.of \in b.chat /\ r.emoji \in Emojis /\ r.removed \in BOOLEAN
        /\ \/ r.by = Me /\ r.id = 0 /\ r.event = Unsent
           \/ r.by = Peer /\ r.id \in Adds /\ r.event \in Adds \cup Removals
    BY ThreadAssumption
  <2>2. RowShape(r)
    BY <2>1 DEF RowShape, Row
  <2> QED
    BY <1>6, <2>1, <2>2 DEF RowTyped
<1> QED
  BY <1>1, <1>2, <1>3, <1>5, <1>6, <1>7 DEF TypeInv

LEMMA TypeIsKept == OnceInv /\ WipeInv /\ TypeInv /\ [Next]_vars => TypeInv'
<1> SUFFICES ASSUME OnceInv, WipeInv, TypeInv, [Next]_vars PROVE TypeInv'
  OBVIOUS
<1>1. CASE Works
  BY <1>1, ReadTyped, WriteTyped, SettleTyped, WipeStepsTyped DEF Works
<1>2. CASE \E t \in queue.tasks : WriteFails(t)
  BY <1>2, SettleTyped
<1>3. CASE \E v \in DOMAIN views : Chats(v) \/ Acts(v)
  BY <1>3, ChatsTyped, ActsTyped
<1>4. CASE \E m \in Own : MessagePublished(m)
  BY <1>4, SendTyped
<1>5. CASE \E o \in own.ops : MarkReaction(o) \/ ReactionPublished(o)
  BY <1>5, ReactionTyped
<1>6. CASE BlockContact
  BY <1>6, BlockTyped
<1>7. CASE Open \/ UnblockContact \/ Restart \/ UNCHANGED vars
  BY <1>7, OthersTyped
<1> QED
  BY <1>1, <1>2, <1>3, <1>4, <1>5, <1>6, <1>7 DEF Next

(* Rows, queued writes, clicks and views are made of what can be there; every  *)
(* write that waits waits for a queued one, every handle is a queued write's.  *)
THEOREM TypeCorrect == Spec => []TypeOK
<1>1. OnceInv /\ WipeInv /\ TypeInv => TypeOK
  <2> SUFFICES ASSUME OnceInv, WipeInv, TypeInv PROVE TypeOK
    OBVIOUS
  <2>1. \A r \in disk.rows : RowOK(r)
    BY DEF TypeInv, RowsTyped, RowTyped, RowOK
  <2>2. \A t \in queue.tasks : TaskOK(t)
    BY DEF TypeInv, JobsInv, WipeInv, NumbersInv, TaskOK
  <2>3. \A q \in Queues : queue.last[q] \in Numbers \cup {0}
    BY DEF WipeInv, NumbersInv, Numbers, On
  <2>4. \A v \in DOMAIN views : ViewOK(views[v])
    <3> SUFFICES ASSUME NEW v \in DOMAIN views PROVE ViewOK(views[v])
      OBVIOUS
    <3>1. views[v] \in ViewSet /\ views[v].todo \in Seq(views[v].got)
      BY DEF TypeInv, ViewsInv
    <3> QED
      BY <3>1 DEF ViewSet, ViewOK
  <2>5. Cardinality({v \in DOMAIN views : views[v].mounted}) <= 1
    <3> DEFINE M == {v \in DOMAIN views : views[v].mounted}
    <3>1. CASE M = {}
      BY <3>1, FS_EmptySet
    <3>2. CASE M # {}
      <4>1. PICK v : v \in M
        BY <3>2
      <4>2. M = {v}
        BY <4>1 DEF TypeInv, ViewsInv
      <4> HIDE DEF M
      <4>3. Cardinality(M) = 1
        BY <4>2, FS_Singleton
      <4> QED
        BY <4>3 DEF M
    <3> QED
      BY <3>1, <3>2
  <2>6. \A w \in wipes : w.n \in 1..past.blocks
    BY DEF WipeInv, ClearsInv
  <2> QED
    BY <2>1, <2>2, <2>3, <2>4, <2>5, <2>6 DEF TypeOK, TypeInv, WipeInv, OpsInv, ViewsInv
<1>2. Init => OnceInv /\ WipeInv /\ TypeInv
  BY InitOnce, InitWipes, InitTyped
<1>3. OnceInv /\ WipeInv /\ TypeInv /\ [Next]_vars => (OnceInv /\ WipeInv /\ TypeInv)'
  BY OnceIsKept, WipeIsKept, TypeIsKept
<1> QED
  BY <1>1, <1>2, <1>3, PTL DEF Spec

-----------------------------------------------------------------------------
(* Only the roll-back takes a row away, that of the click that undoes.         *)
LEMMA ResultKeeps ==
    ASSUME NEW t, t.do.op \in RowOps, Once(t.seen), NEW r \in t.seen
    PROVE  \/ \E s \in Result(t) : s.id = r.id
           \/ t.do.op = "rollback" /\ r.id = t.do.id /\ r.event = Unsent
<1> DEFINE rows == t.seen
<1>0. r \in rows /\ Once(rows)
  OBVIOUS
<1> HIDE DEF rows
<1>1. ASSUME NEW s \in rows, NEW ev PROVE \E u \in Flipped(rows, s, ev) : u.id = r.id
  <2> DEFINE f == [s EXCEPT !.removed = TRUE, !.event = ev]
  <2>1. f.id = s.id
    <3>1. f = Row(s.id, s.of, s.by, s.emoji, ev, TRUE)
      BY <1>0, Rewritten DEF Once
    <3> QED
      BY <3>1 DEF Row
  <2> HIDE DEF f
  <2>2. Flipped(rows, s, ev) = (rows \ {s}) \cup {f}
    BY DEF Flipped, f
  <2> QED
    BY <1>0, <2>1, <2>2
<1>2. ASSUME NEW j PROVE r \in Inserted(rows, j)
  BY <1>0 DEF Inserted
<1>3. ASSUME NEW j PROVE \E u \in Taken(rows, j) : u.id = r.id
  <2> DEFINE mine == Visible(rows, j.of, Me, j.emoji)
             s == CHOOSE s \in mine : TRUE
  <2>1. CASE mine = {}
    BY <1>0, <2>1 DEF Taken
  <2>2. CASE mine # {}
    <3>1. s \in rows
      BY <2>2 DEF Visible
    <3>2. Taken(rows, j) = Flipped(rows, s, s.event)
      BY <2>2 DEF Taken
    <3> HIDE DEF s
    <3> QED
      BY <1>1, <3>1, <3>2
  <2> QED
    BY <2>1, <2>2
<1>4. ASSUME NEW j PROVE r \in RolledBack(rows, j) \/ (r.id = j.id /\ r.event = Unsent)
  BY <1>0 DEF RolledBack
<1>5. ASSUME NEW x PROVE \E u \in Tombstoned(rows, x) : u.id = r.id
  <2> DEFINE ts == Targets(rows, x)
             s == CHOOSE s \in ts : TRUE
  <2>1. CASE ts = {}
    BY <1>0, <2>1 DEF Tombstoned
  <2>2. CASE ts # {}
    <3>1. s \in rows
      BY <2>2 DEF Targets
    <3>2. Tombstoned(rows, x) = Flipped(rows, s, x)
      BY <2>2 DEF Tombstoned
    <3> HIDE DEF s
    <3> QED
      BY <1>1, <3>1, <3>2
  <2> QED
    BY <2>1, <2>2
<1>6. ASSUME NEW a PROVE \E u \in Upserted(rows, a) : u.id = r.id
  <2> DEFINE ms == Matches(rows, a)
             f == IF r \in ms /\ ~r.removed THEN [r EXCEPT !.event = a] ELSE r
  <2>1. CASE ms = {}
    BY <1>0, <2>1 DEF Upserted
  <2>2. CASE ms # {}
    <3>1. f \in Upserted(rows, a)
      BY <1>0, <2>2 DEF Upserted
    <3>2. f.id = r.id
      <4>1. [r EXCEPT !.event = a] = Row(r.id, r.of, r.by, r.emoji, a, r.removed)
        BY <1>0 DEF Once, RowShape, Row
      <4> QED
        BY <4>1 DEF Row
    <3> QED
      BY <3>1, <3>2
  <2> QED
    BY <2>1, <2>2
<1>7. ASSUME NEW x PROVE \E u \in Applied(rows, x) : u.id = r.id
  BY <1>0, <1>5, <1>6 DEF Applied
<1> QED
  BY <1>2, <1>3, <1>4, <1>7 DEF Result, RowOps, rows

(* A step that changes the stored messages is the clear of a wipe, or adds one *)
(* to them.                                                                    *)
LEMMA ChatGrows ==
    ASSUME OnceInv, WipeInv, TypeInv, [Next]_vars, ~past'.late
    PROVE  disk.chat \subseteq disk'.chat \/ \E w \in wipes : w.stage = "clearing"
<1>1. DiskInv /\ QueueInv
  BY DEF OnceInv
<1>2. ASSUME NEW t \in queue.tasks, WriteStored(t) PROVE disk.chat \subseteq disk'.chat
  <2>1. ~past.late /\ t.seen # Unread
    BY <1>2 DEF WriteStored
  <2>2. CASE t.on = "chat" /\ disk' = [disk EXCEPT !.chat = Result(t)]
    <3>1. t.seen = disk.chat /\ t.do.op = "append"
      BY <2>1, <2>2 DEF WipeInv, SerialInv, Stored, TypeInv, JobsInv
    <3>2. Result(t) = disk.chat \cup {t.do.of}
      BY <3>1 DEF Result
    <3> QED
      BY <1>1, <2>2, <3>2 DEF DiskInv
  <2>3. CASE disk' = [disk EXCEPT !.rows = Result(t), !.keyed = TRUE]
    <3>1. disk' = [chat |-> disk.chat, rows |-> Result(t), keyed |-> TRUE, blocked |-> disk.blocked]
      BY <1>1, <2>3, Emptied
    <3> QED
      BY <3>1
  <2>4. CASE disk' = disk
    BY <2>4
  <2> QED
    BY <1>2, <2>2, <2>3, <2>4 DEF WriteStored
<1>3. ASSUME NEW t \in queue.tasks, ClearMessages(t) PROVE \E w \in wipes : w.stage = "clearing"
  BY <1>3 DEF ClearMessages, WipeInv, ClearsInv
<1>4. ASSUME NEW w \in wipes, DeleteReactions(w) PROVE disk'.chat = disk.chat
  <2>1. disk' = [disk EXCEPT !.rows = {}, !.keyed = FALSE]
    BY <1>4 DEF DeleteReactions
  <2>2. disk' = [chat |-> disk.chat, rows |-> {}, keyed |-> FALSE, blocked |-> disk.blocked]
    BY <1>1, <2>1, Emptied
  <2> QED
    BY <2>2
<1>5. CASE disk' = disk
  BY <1>5
<1>6. CASE BlockContact \/ UnblockContact
  BY <1>1, <1>6 DEF BlockContact, UnblockContact, DiskInv
<1>7. \/ disk' = disk \/ BlockContact \/ UnblockContact
      \/ \E t \in queue.tasks : WriteStored(t) \/ ClearMessages(t)
      \/ \E w \in wipes : DeleteReactions(w)
  BY DEF Next, Works, ReadStored, WriteFails, FindReactionKeys, Chats, Acts, FetchHistory,
         ApplyHistorical, Subscribe, Close, HandleGiftWrap, SendMessage, HandleReact, Open,
         MessagePublished, MarkReaction, ReactionPublished, Restart, vars
<1> QED
  BY <1>2, <1>3, <1>4, <1>5, <1>6, <1>7

(* No write undoes another: a message leaves the store in the clear of a wipe  *)
(* only, a row in the end of one or in the roll-back of the user's own click   *)
(* (appendMessage, rollbackOptimistic, enqueue).                               *)
THEOREM NoWriteIsLost == Spec => NothingLost
<1>1. ASSUME OnceInv, WipeInv, TypeInv, [Next]_vars, ~past'.late, NEW r \in disk.rows
      PROVE  \/ \E s \in disk'.rows : s.id = r.id
             \/ \E w \in wipes : w.stage = "draining" /\ w \notin wipes'
             \/ r.by = Me /\ \E o \in own.ops : o.stage = "undoing" /\ o.n = r.id
  <2>1. Once(disk.rows)
    BY <1>1 DEF OnceInv, DiskInv
  <2>2. CASE disk'.rows = disk.rows
    BY <2>2
  <2>3. ASSUME NEW w \in wipes, w.stage = "draining", wipes' = wipes \ {w}
        PROVE  \E v \in wipes : v.stage = "draining" /\ v \notin wipes'
    BY <2>3
  <2>4. ASSUME NEW t \in queue.tasks, t.do.op \in RowOps, t.seen = disk.rows,
               disk'.rows = Result(t)
        PROVE  \/ \E s \in disk'.rows : s.id = r.id
               \/ r.by = Me /\ \E o \in own.ops : o.stage = "undoing" /\ o.n = r.id
    <3>1. CASE \E s \in Result(t) : s.id = r.id
      BY <2>4, <3>1
    <3>2. CASE t.do.op = "rollback" /\ r.id = t.do.id /\ r.event = Unsent
      <4>1. r.by = Me
        BY <1>1, <3>2, RumorsAre DEF TypeInv, RowsTyped, RowTyped
      <4>2. t.by = By("undo", r.id)
        BY <1>1, <3>2 DEF TypeInv, LinksInv
      <4>3. t.by.who = "undo" /\ t.by.n = r.id
        BY <4>2, ByWhat
      <4>4. WaitsFor(r.id, "undoing")
        BY <1>1, <4>3 DEF TypeInv, LinksInv
      <4> QED
        BY <4>1, <4>4 DEF WaitsFor
    <3> QED
      BY <1>1, <2>1, <2>4, <3>1, <3>2, ResultKeeps
  <2> QED
    BY <1>1, <2>2, <2>3, <2>4, RowsChange
<1>2. OnceInv /\ WipeInv /\ TypeInv /\ [Next]_vars =>
        (~past'.late =>
           /\ disk.chat \subseteq disk'.chat \/ \E w \in wipes : w.stage = "clearing"
           /\ \A r \in disk.rows :
                \/ \E s \in disk'.rows : s.id = r.id
                \/ \E w \in wipes : w.stage = "draining" /\ w \notin wipes'
                \/ r.by = Me /\ \E o \in own.ops : o.stage = "undoing" /\ o.n = r.id)
  BY <1>1, ChatGrows
<1>3. Init => OnceInv /\ WipeInv /\ TypeInv
  BY InitOnce, InitWipes, InitTyped
<1>4. OnceInv /\ WipeInv /\ TypeInv /\ [Next]_vars => (OnceInv /\ WipeInv /\ TypeInv)'
  BY OnceIsKept, WipeIsKept, TypeIsKept
<1> QED
  BY <1>2, <1>3, <1>4, PTL DEF Spec, NothingLost-----------------------------------------------------------------------------
(***************************************************************************)
(* Clicks on reactions, one handled at a time: what the click under way has  *)
(* found and written is what the store has of the user's own on its badge.   *)
(***************************************************************************)
MyRows(rows, o) == Visible(rows, o.of, Me, o.emoji)
NoRow(rows, n) == \A r \in rows : r.id # n
MineOnce(rows) == \A r, s \in rows :
    r.by = Me /\ SameKey(r, s) /\ ~r.removed /\ ~s.removed => r = s

(* What the click has done to the store so far.                                *)
Unmarked(o) == o.stage \in {"connecting", "marking"}
Marked(o) == o.stage \in {"publishing", "undoing"}
Fits(rows, o) ==
    /\ o.op = "insert" /\ Unmarked(o) => MyRows(rows, o) = {} /\ NoRow(rows, o.n)
    /\ o.op = "insert" /\ Marked(o) => \A r \in MyRows(rows, o) : r.id = o.n
    /\ o.op = "take" => NoRow(rows, o.n)
    /\ o.op = "take" /\ Marked(o) => MyRows(rows, o) = {}
    /\ o.calm /\ o.op = "insert" /\ o.stage = "publishing" => MyRows(rows, o) # {}
    /\ o.calm /\ o.op = "take" /\ Unmarked(o) => MyRows(rows, o) # {}

(* The write a click waits for.                                                *)
MadeFor(t, o) ==
    \/ /\ o.stage = "marking" /\ t.by = By("react", o.n)
       /\ t.do = Job(o.op, o.of, o.emoji, o.n)
    \/ /\ o.stage = "undoing" /\ t.by = By("undo", o.n)
       /\ t.do = Job(IF o.op = "take" THEN "insert" ELSE "rollback", o.of, o.emoji, o.n)
OfClick(t) == t.by.who \in {"react", "undo"} \/ t.do.op \in {"insert", "take", "rollback"}

ClickInv ==
    /\ \A o, p \in own.ops : o = p
    /\ \A o \in own.ops : (Unmarked(o) \/ Marked(o)) /\ (o.calm => wipes = {})
    /\ \A t \in queue.tasks : OfClick(t) => \E o \in own.ops : MadeFor(t, o)
    /\ ~past.late => MineOnce(disk.rows) /\ \A o \in own.ops : Fits(disk.rows, o)

(* The rows of the peer are none of the user's.                                *)
Alike(rows, next) ==
    \A r \in next : r.by = Me /\ ~r.removed => r \in rows

LEMMA AlikeRows ==
    ASSUME NEW rows, NEW next, Alike(rows, next)
    PROVE  /\ \A m, e : Visible(next, m, Me, e) \subseteq Visible(rows, m, Me, e)
           /\ MineOnce(rows) => MineOnce(next)
<1>1. \A m, e : Visible(next, m, Me, e) \subseteq Visible(rows, m, Me, e)
  BY DEF Alike, Visible
<1>2. ASSUME MineOnce(rows) PROVE MineOnce(next)
  <2> SUFFICES ASSUME NEW r \in next, NEW s \in next, r.by = Me, SameKey(r, s),
                      ~r.removed, ~s.removed
               PROVE  r = s
    BY DEF MineOnce
  <2>1. r \in rows /\ s \in rows
    BY DEF Alike, SameKey
  <2> QED
    BY <1>2, <2>1 DEF MineOnce
<1> QED
  BY <1>1, <1>2

(* A reaction that comes leaves the user's own as they are, and its row's id   *)
(* is its own, none of a click.                                                *)
LEMMA InboundAlike ==
    ASSUME NEW t, NEW acts \in Nat, t.do.op = "inbound", JobTyped(t.do, acts),
           RowsTyped(t.seen, acts), Adds \cap Nat = {}
    PROVE  /\ Alike(t.seen, Result(t)) /\ Alike(Result(t), t.seen)
           /\ \A n \in Nat : NoRow(t.seen, n) => NoRow(Result(t), n)
<1> DEFINE rows == t.seen
           x == t.do.of
           Kept(next) == /\ Alike(rows, next) /\ Alike(next, rows)
                         /\ \A n \in Nat : NoRow(rows, n) => NoRow(next, n)
<1>0. RowsTyped(rows, acts) /\ Result(t) = Applied(rows, x) /\ x \in Adds \cup Removals
  BY DEF JobTyped, Result
<1> HIDE DEF rows, x
<1>1. Kept(rows)
  BY DEF Alike
<1>2. Kept(Tombstoned(rows, x))
  <2> DEFINE ts == Targets(rows, x)
             s == CHOOSE s \in ts : TRUE
             f == [s EXCEPT !.removed = TRUE, !.event = x]
  <2>1. CASE ts = {}
    BY <1>1, <2>1 DEF Tombstoned
  <2>2. CASE ts # {}
    <3>1. s \in rows /\ s.by = Peer
      BY <2>2 DEF Targets
    <3>2. Tombstoned(rows, x) = (rows \ {s}) \cup {f}
      BY <2>2 DEF Tombstoned, Flipped
    <3> HIDE DEF s
    <3>3. f = Row(s.id, s.of, s.by, s.emoji, x, TRUE)
      BY <1>0, <3>1, Rewritten DEF RowsTyped, RowTyped
    <3>4. f.id = s.id /\ f.by = Peer
      BY <3>1, <3>3 DEF Row
    <3> HIDE DEF f
    <3> QED
      BY <3>1, <3>2, <3>4, RumorsAre DEF Alike, NoRow
  <2> QED
    BY <2>1, <2>2
<1>3. ASSUME x \in Adds PROVE Kept(Upserted(rows, x))
  <2> DEFINE ms == Matches(rows, x)
  <2>1. CASE ms = {}
    <3> DEFINE f == Row(x, Of[x], Peer, EmojiOf[x], x, FALSE)
    <3>1. f.id = x /\ f.by = Peer
      BY DEF Row
    <3>2. Upserted(rows, x) = rows \cup {f}
      BY <2>1 DEF Upserted
    <3> HIDE DEF f
    <3> QED
      BY <1>3, <3>1, <3>2, RumorsAre DEF Alike, NoRow
  <2>2. CASE ms # {}
    <3> DEFINE g(s) == IF s \in ms /\ ~s.removed THEN [s EXCEPT !.event = x] ELSE s
    <3>1. Upserted(rows, x) = {g(s) : s \in rows}
      BY <2>2 DEF Upserted
    <3>2. ASSUME NEW s \in rows
          PROVE  g(s).id = s.id /\ g(s).by = s.by /\ (s.by = Me => g(s) = s)
      <4>1. RowShape(s)
        BY <1>0 DEF RowsTyped, RowTyped
      <4>2. [s EXCEPT !.event = x] = Row(s.id, s.of, s.by, s.emoji, x, s.removed)
        BY <4>1 DEF RowShape, Row
      <4>3. s \in ms => s.by # Me
        BY RumorsAre DEF Matches
      <4> QED
        BY <4>2, <4>3 DEF Row
    <3> HIDE DEF g
    <3> QED
      BY <3>1, <3>2 DEF Alike, NoRow
  <2> QED
    BY <2>1, <2>2
<1>4. Kept(Applied(rows, x))
  BY <1>0, <1>1, <1>2, <1>3 DEF Applied
<1> QED
  BY <1>0, <1>4 DEF rows

(* A click that adds shows one of its own, and nothing else of the user's.     *)
LEMMA InsertedShows ==
    ASSUME NEW rows, NEW j, NoRow(rows, j.id), Visible(rows, j.of, Me, j.emoji) = {},
           MineOnce(rows)
    PROVE  LET mine == Visible(Inserted(rows, j), j.of, Me, j.emoji) IN
           /\ mine # {} /\ \A r \in mine : r.id = j.id
           /\ MineOnce(Inserted(rows, j))
<1> DEFINE f == Row(j.id, j.of, Me, j.emoji, Unsent, FALSE)
<1>1. f.id = j.id /\ f.of = j.of /\ f.by = Me /\ f.emoji = j.emoji /\ f.removed = FALSE
  BY DEF Row
<1>2. Inserted(rows, j) = rows \cup {f}
  BY DEF Inserted, NoRow
<1> HIDE DEF f
<1> QED
  BY <1>1, <1>2 DEF Visible, MineOnce, SameKey

(* One that takes back leaves none of the user's own on its badge.             *)
LEMMA TakenHides ==
    ASSUME NEW rows, NEW j, Once(rows), MineOnce(rows)
    PROVE  /\ Visible(Taken(rows, j), j.of, Me, j.emoji) = {}
           /\ MineOnce(Taken(rows, j))
           /\ \A n : NoRow(rows, n) => NoRow(Taken(rows, j), n)
<1> DEFINE mine == Visible(rows, j.of, Me, j.emoji)
           s == CHOOSE s \in mine : TRUE
           f == [s EXCEPT !.removed = TRUE, !.event = s.event]
<1>1. CASE mine = {}
  BY <1>1 DEF Taken
<1>2. CASE mine # {}
  <2>1. s \in mine
    BY <1>2
  <2>2. Taken(rows, j) = (rows \ {s}) \cup {f}
    BY <1>2 DEF Taken, Flipped
  <2> HIDE DEF s
  <2>3. \A r \in mine : r = s
    BY <2>1 DEF Visible, MineOnce, SameKey
  <2>4. s \in rows
    BY <2>1 DEF Visible
  <2>5. f = Row(s.id, s.of, s.by, s.emoji, s.event, TRUE)
    BY <2>4, Rewritten DEF Once
  <2>6. f.id = s.id /\ f.removed = TRUE
    BY <2>5 DEF Row
  <2> HIDE DEF f
  <2>7. Visible(Taken(rows, j), j.of, Me, j.emoji) = {}
    BY <2>2, <2>3, <2>6 DEF Visible
  <2>8. MineOnce(Taken(rows, j)) /\ \A n : NoRow(rows, n) => NoRow(Taken(rows, j), n)
    BY <2>2, <2>4, <2>6 DEF MineOnce, NoRow
  <2> QED
    BY <2>7, <2>8
<1> QED
  BY <1>1, <1>2

(* The undoing of one that added takes its row away.                           *)
LEMMA RolledBackHides ==
    ASSUME NEW rows, NEW j, NEW acts, RowsTyped(rows, acts), MineOnce(rows),
           \A r \in Visible(rows, j.of, Me, j.emoji) : r.id = j.id
    PROVE  /\ Visible(RolledBack(rows, j), j.of, Me, j.emoji) = {}
           /\ MineOnce(RolledBack(rows, j))
<1>1. \A r \in rows : r.by = Me => r.event = Unsent
  BY RumorsAre DEF RowsTyped, RowTyped
<1>2. RolledBack(rows, j) = {r \in rows : r.id # j.id \/ r.event # Unsent}
  BY DEF RolledBack
<1> QED
  BY <1>1, <1>2 DEF Visible, MineOnce

(* A step that leaves the click, its write and the user's own rows alone       *)
LEMMA QuietClicks ==
    ASSUME ClickInv, OpsInv, own'.ops = own.ops, wipes = {} => wipes' = {},
           \A u \in queue'.tasks :
              ~OfClick(u) \/ \E s \in queue.tasks : u.do = s.do /\ u.by = s.by,
           ~past'.late => /\ ~past.late
                          /\ Alike(disk.rows, disk'.rows) /\ Alike(disk'.rows, disk.rows)
                          /\ \A n \in Nat : NoRow(disk.rows, n) => NoRow(disk'.rows, n)
    PROVE  ClickInv'
<1>1. \A u \in queue'.tasks : OfClick(u) => \E o \in own.ops : MadeFor(u, o)
  BY DEF ClickInv, OfClick, MadeFor
<1>2. ASSUME ~past'.late, NEW o \in own.ops PROVE Fits(disk'.rows, o)
  <2>1. MyRows(disk'.rows, o) = MyRows(disk.rows, o)
    BY <1>2 DEF Alike, Visible, MyRows
  <2>2. o.n \in Nat
    BY DEF OpsInv
  <2>3. NoRow(disk.rows, o.n) => NoRow(disk'.rows, o.n)
    BY <1>2, <2>2
  <2>4. Fits(disk.rows, o)
    BY <1>2 DEF ClickInv
  <2> QED
    BY <2>1, <2>3, <2>4 DEF Fits
<1>3. ~past'.late => MineOnce(disk'.rows)
  BY AlikeRows DEF ClickInv
<1> QED
  BY <1>1, <1>2, <1>3 DEF ClickInv

LEMMA SameRows ==
    ASSUME disk'.rows = disk.rows
    PROVE  /\ Alike(disk.rows, disk'.rows) /\ Alike(disk'.rows, disk.rows)
           /\ \A n \in Nat : NoRow(disk.rows, n) => NoRow(disk'.rows, n)
BY DEF Alike

(* A click has one write; once it has settled none is left.                    *)
LEMMA OnlyWrite ==
    ASSUME QueueInv, LinksInv, ClickInv, NEW t \in queue.tasks, OfClick(t), queue' = Settled(t)
    PROVE  \A u \in queue'.tasks : ~OfClick(u)
<1> SUFFICES ASSUME NEW u \in queue'.tasks, OfClick(u) PROVE FALSE
  OBVIOUS
<1>1. PICK s \in queue.tasks \ {t} : u.do = s.do /\ u.by = s.by
  BY SettledFields
<1>2. OfClick(s)
  BY <1>1 DEF OfClick
<1>3. PICK o \in own.ops : MadeFor(t, o)
  BY DEF ClickInv
<1>4. PICK p \in own.ops : MadeFor(s, p)
  BY <1>1, <1>2 DEF ClickInv
<1>5. p = o
  BY DEF ClickInv
<1>6. s.by = t.by /\ t.by.who \in {"react", "undo"}
  BY <1>3, <1>4, <1>5, ByWhat DEF MadeFor
<1> QED
  BY <1>1, <1>6 DEF LinksInv

LEMMA JobFields ==
    ASSUME NEW op, NEW m, NEW e, NEW i
    PROVE  LET j == Job(op, m, e, i) IN j.op = op /\ j.of = m /\ j.emoji = e /\ j.id = i
BY DEF Job

(* What a write makes of the rows that are stored                              *)
LEMMA WrittenRows ==
    ASSUME OnceInv, WipeInv, NEW t \in queue.tasks, WriteStored(t), ~past.late
    PROVE  /\ t.on = "chat" => disk'.rows = disk.rows /\ t.do.op \in {"append", "clear"}
           /\ t.on # "chat" => /\ t.do.op \in RowOps /\ t.seen = disk.rows
                               /\ disk'.rows = Result(t)
<1>1. DiskInv /\ QueueInv
  BY DEF OnceInv
<1>2. t.seen # Unread /\ disk' = IF Result(t) = t.seen THEN disk
               ELSE IF t.on = "chat" THEN [disk EXCEPT !.chat = Result(t)]
               ELSE [disk EXCEPT !.rows = Result(t), !.keyed = TRUE]
  BY DEF WriteStored
<1>3. CASE t.on = "chat"
  <2>1. disk'.rows = disk.rows
    BY <1>1, <1>2, <1>3 DEF DiskInv
  <2> QED
    BY <1>3, <2>1 DEF WipeInv, ClearsInv
<1>4. CASE t.on # "chat"
  <2>1. t.do.op \in RowOps
    BY <1>1, <1>4 DEF QueueInv, Sound
  <2>2. t.seen = disk.rows
    BY <1>2, <1>4 DEF WipeInv, SerialInv, Stored
  <2>3. CASE disk' = [disk EXCEPT !.rows = Result(t), !.keyed = TRUE]
    <3>1. disk' = [chat |-> disk.chat, rows |-> Result(t), keyed |-> TRUE, blocked |-> disk.blocked]
      BY <1>1, <2>3, Emptied
    <3> QED
      BY <1>4, <2>1, <2>2, <3>1
  <2>4. CASE disk' = disk /\ Result(t) = t.seen
    BY <1>4, <2>1, <2>2, <2>4
  <2> QED
    BY <1>2, <1>4, <2>3, <2>4
<1> QED
  BY <1>3, <1>4

LEMMA ClickWritten ==
    ASSUME OnceInv, WipeInv, TypeInv, ClickInv, NEW t \in queue.tasks, WriteStored(t),
           ~past.late, NEW o \in own.ops, MadeFor(t, o)
    PROVE  /\ MineOnce(disk'.rows)
           /\ t.by.who = "react" /\ o.op = "insert" =>
                MyRows(disk'.rows, o) # {} /\ \A r \in MyRows(disk'.rows, o) : r.id = o.n
           /\ t.by.who = "react" /\ o.op = "take" =>
                MyRows(disk'.rows, o) = {} /\ NoRow(disk'.rows, o.n)
           /\ t.by.who = "undo" /\ o.op = "insert" => MyRows(disk'.rows, o) = {}
           /\ t.by.who = "undo" /\ o.op = "take" => MyRows(disk'.rows, o) # {}
<1>1. o.op \in {"insert", "take"}
  BY DEF OnceInv, OwnInv, Clicked
<1>2. MineOnce(disk.rows) /\ Fits(disk.rows, o) /\ Once(disk.rows) /\ RowsTyped(disk.rows, own.acts)
  BY DEF ClickInv, OnceInv, DiskInv, TypeInv
<1>3. /\ t.do.of = o.of /\ t.do.emoji = o.emoji /\ t.do.id = o.n
      /\ \/ o.stage = "marking" /\ t.by.who = "react" /\ t.do.op = o.op
         \/ o.stage = "undoing" /\ t.by.who = "undo"
            /\ t.do.op = IF o.op = "take" THEN "insert" ELSE "rollback"
  BY ByWhat, JobFields DEF MadeFor
<1>4. t.do.op \in {"insert", "take", "rollback"}
  BY <1>1, <1>3
<1>5. disk'.rows = Result(t) /\ t.seen = disk.rows
  BY <1>4, WrittenRows
<1>6. CASE t.by.who = "react" /\ o.op = "insert"
  <2>1. disk'.rows = Inserted(disk.rows, t.do)
    BY <1>3, <1>5, <1>6 DEF Result
  <2> QED
    BY <1>2, <1>3, <1>6, <2>1, InsertedShows DEF Fits, Unmarked, MyRows
<1>7. CASE t.by.who = "react" /\ o.op = "take"
  <2>1. disk'.rows = Taken(disk.rows, t.do)
    BY <1>3, <1>5, <1>7 DEF Result
  <2> QED
    BY <1>2, <1>3, <1>7, <2>1, TakenHides DEF Fits, MyRows
<1>8. CASE t.by.who = "undo" /\ o.op = "insert"
  <2>1. disk'.rows = RolledBack(disk.rows, t.do)
    BY <1>3, <1>5, <1>8 DEF Result
  <2> QED
    BY <1>2, <1>3, <1>8, <2>1, RolledBackHides DEF Fits, Marked, MyRows
<1>9. CASE t.by.who = "undo" /\ o.op = "take"
  <2>1. disk'.rows = Inserted(disk.rows, t.do)
    BY <1>3, <1>5, <1>9 DEF Result
  <2> QED
    BY <1>2, <1>3, <1>9, <2>1, InsertedShows DEF Fits, Marked, MyRows
<1> QED
  BY <1>1, <1>3, <1>6, <1>7, <1>8, <1>9

(* The click goes on, or is over.                                              *)
LEMMA ClickMoves ==
    ASSUME NEW p, own'.ops \subseteq {p}, Unmarked(p) \/ Marked(p), p.calm => wipes' = {},
           \A u \in queue'.tasks : OfClick(u) => p \in own'.ops /\ MadeFor(u, p),
           ~past'.late => MineOnce(disk'.rows) /\ Fits(disk'.rows, p)
    PROVE  ClickInv'
BY DEF ClickInv

LEMMA StageFields ==
    ASSUME NEW o, ClickShape(o), NEW x
    PROVE  LET p == [o EXCEPT !.stage = x] IN
           /\ p.n = o.n /\ p.of = o.of /\ p.emoji = o.emoji /\ p.stage = x /\ p.op = o.op
           /\ p.calm = o.calm
<1>1. [o EXCEPT !.stage = x] = [n |-> o.n, of |-> o.of, emoji |-> o.emoji, op |-> o.op,
                                stage |-> x, calm |-> o.calm]
  BY DEF ClickShape
<1> QED
  BY <1>1

(* What a write that is settled leaves of the clicks                           *)
LEMMA OpsSettled ==
    ASSUME OwnInv, NEW t, own' = OwnAfter(t)
    PROVE  /\ t.by.who \notin {"react", "undo"} => own'.ops = own.ops
           /\ t.by.who = "react" =>
                own'.ops = {IF o.n = t.by.n THEN [o EXCEPT !.stage = "publishing"] ELSE o : o \in own.ops}
           /\ t.by.who = "undo" => own'.ops = {o \in own.ops : o.n # t.by.n}
<1>1. own = [sends |-> own.sends, ops |-> own.ops, acts |-> own.acts]
  BY DEF OwnInv
<1>2. ASSUME NEW x, own' = [own EXCEPT !.ops = x] PROVE own'.ops = x
  BY <1>1, <1>2
<1>3. ASSUME NEW x, own' = [own EXCEPT !.sends = x] PROVE own'.ops = own.ops
  BY <1>1, <1>3
<1>4. CASE t.by.who = "send"
  <2>1. PICK x : own' = [own EXCEPT !.sends = x]
    BY <1>4 DEF OwnAfter
  <2> QED
    BY <1>3, <1>4, <2>1
<1>5. CASE t.by.who = "react"
  <2> DEFINE next == {IF o.n = t.by.n THEN [o EXCEPT !.stage = "publishing"] ELSE o : o \in own.ops}
  <2>1. own' = [own EXCEPT !.ops = next]
    BY <1>5 DEF OwnAfter
  <2> HIDE DEF next
  <2>2. own'.ops = next
    BY <1>2, <2>1
  <2> QED
    BY <1>5, <2>2 DEF next
<1>6. CASE t.by.who = "undo"
  <2> DEFINE next == {o \in own.ops : o.n # t.by.n}
  <2>1. own' = [own EXCEPT !.ops = next]
    BY <1>6 DEF OwnAfter
  <2> HIDE DEF next
  <2>2. own'.ops = next
    BY <1>2, <2>1
  <2> QED
    BY <1>6, <2>2 DEF next
<1>7. CASE t.by.who \notin {"send", "react", "undo"}
  BY <1>7 DEF OwnAfter
<1> QED
  BY <1>4, <1>5, <1>6, <1>7

LEMMA WriteClicks ==
    ASSUME OnceInv, WipeInv, TypeInv, ClickInv, Adds \cap Nat = {},
           NEW t \in queue.tasks, WriteStored(t)
    PROVE  ClickInv'
<1>1. queue' = Settled(t) /\ own' = OwnAfter(t) /\ wipes' = WipesAfter(t) /\ past' = past
  BY DEF WriteStored
<1>2. QueueInv /\ OwnInv /\ OpsInv /\ LinksInv /\ own.acts \in Nat
  BY DEF OnceInv, TypeInv, OpsInv
<1>3. wipes = {} => wipes' = {}
  BY <1>1 DEF WipesAfter
<1>4. CASE ~OfClick(t)
  <2>1. own'.ops = own.ops
    BY <1>1, <1>2, <1>4, OpsSettled DEF OfClick
  <2>2. \A u \in queue'.tasks : \E s \in queue.tasks : u.do = s.do /\ u.by = s.by
    BY <1>1, <1>2, SettledFields
  <2>3. ASSUME ~past'.late
        PROVE  /\ Alike(disk.rows, disk'.rows) /\ Alike(disk'.rows, disk.rows)
               /\ \A n \in Nat : NoRow(disk.rows, n) => NoRow(disk'.rows, n)
    <3>1. ~past.late
      BY <1>1, <2>3
    <3>2. CASE t.on = "chat"
      BY <3>1, <3>2, WrittenRows, SameRows
    <3>3. CASE t.on # "chat"
      <4>1. t.do.op \in RowOps /\ t.seen = disk.rows /\ disk'.rows = Result(t)
        BY <3>1, <3>3, WrittenRows
      <4>2. t.do.op = "inbound"
        BY <1>4, <4>1 DEF OfClick, RowOps
      <4>3. JobTyped(t.do, own.acts) /\ RowsTyped(t.seen, own.acts)
        BY <4>1 DEF TypeInv, JobsInv
      <4> QED
        BY <1>2, <4>1, <4>2, <4>3, InboundAlike
    <3> QED
      BY <3>2, <3>3
  <2> QED
    BY <1>1, <1>2, <1>3, <2>1, <2>2, <2>3, QuietClicks
<1>5. CASE OfClick(t)
  <2>1. PICK o \in own.ops : MadeFor(t, o)
    BY <1>5 DEF ClickInv
  <2>2. own.ops = {o} /\ (o.calm => wipes' = {}) /\ (Unmarked(o) \/ Marked(o))
    BY <1>3, <2>1 DEF ClickInv
  <2>3. \A u \in queue'.tasks : ~OfClick(u)
    BY <1>1, <1>2, <1>5, OnlyWrite
  <2>4. ClickShape(o) /\ o.op \in {"insert", "take"}
    BY <1>2 DEF OwnInv, Clicked
  <2>5. CASE t.by.who = "react"
    <3> DEFINE p == [o EXCEPT !.stage = "publishing"]
    <3>1. /\ p.n = o.n /\ p.of = o.of /\ p.emoji = o.emoji /\ p.stage = "publishing"
          /\ p.op = o.op /\ p.calm = o.calm
      BY <2>4, StageFields
    <3>2. t.by.n = o.n
      BY <2>1, ByWhat DEF MadeFor
    <3>3. own'.ops = {p}
      BY <1>1, <1>2, <2>2, <2>5, <3>2, OpsSettled
    <3> HIDE DEF p
    <3>4. ASSUME ~past'.late PROVE MineOnce(disk'.rows) /\ Fits(disk'.rows, p)
      <4>1. ~past.late
        BY <1>1, <3>4
      <4>2. MyRows(disk'.rows, p) = MyRows(disk'.rows, o)
        BY <3>1 DEF MyRows
      <4>3. /\ MineOnce(disk'.rows)
            /\ o.op = "insert" =>
                 MyRows(disk'.rows, o) # {} /\ \A r \in MyRows(disk'.rows, o) : r.id = o.n
            /\ o.op = "take" => MyRows(disk'.rows, o) = {} /\ NoRow(disk'.rows, o.n)
        BY <2>1, <2>5, <4>1, ClickWritten
      <4> QED
        BY <2>4, <3>1, <4>2, <4>3 DEF Fits, Unmarked
    <3> QED
      BY <2>2, <2>3, <3>1, <3>3, <3>4, ClickMoves DEF Marked
  <2>6. CASE t.by.who = "undo"
    <3>1. t.by.n = o.n
      BY <2>1, ByWhat DEF MadeFor
    <3>2. own'.ops = {}
      BY <1>1, <1>2, <2>2, <2>6, <3>1, OpsSettled
    <3>3. ~past'.late => MineOnce(disk'.rows)
      BY <1>1, <2>1, ClickWritten
    <3> QED
      BY <2>3, <3>2, <3>3 DEF ClickInv
  <2> QED
    BY <2>1, <2>5, <2>6, ByWhat DEF MadeFor
<1> QED
  BY <1>4, <1>5

LEMMA FailClicks ==
    ASSUME OnceInv, WipeInv, TypeInv, ClickInv, NEW t \in queue.tasks, WriteFails(t)
    PROVE  ClickInv'
<1>1. /\ queue' = Settled(t) /\ wipes' = WipesAfter(t) /\ disk' = disk
      /\ own' = CASE t.by.who = "send" -> [own EXCEPT !.sends[t.by.n] = "failed"]
                  [] t.by.who \in {"react", "undo"} ->
                        [own EXCEPT !.ops = {o \in own.ops : o.n # t.by.n}]
                  [] OTHER -> own
  BY DEF WriteFails
<1>2. QueueInv /\ OwnInv /\ OpsInv /\ LinksInv
  BY DEF OnceInv, TypeInv
<1>3. wipes = {} => wipes' = {}
  BY <1>1 DEF WipesAfter
<1>4. ~past'.late => ~past.late
  <2> DEFINE late == past.late \/ t.by.who \in {"wipe", "undo"}
  <2>1. past' = [past EXCEPT !.faults = past.faults + 1, !.late = late]
    BY DEF WriteFails
  <2>2. late \/ ~past.late
    OBVIOUS
  <2> HIDE DEF late
  <2>3. past'.late = late
    BY <2>1 DEF WipeInv, ClearsInv
  <2> QED
    BY <2>2, <2>3 DEF late
<1>5. CASE ~OfClick(t)
  <2>1. own'.ops = own.ops
    <3>1. CASE t.by.who = "send"
      <4>1. PICK x : own' = [own EXCEPT !.sends = x]
        BY <1>1, <3>1
      <4> QED
        BY <1>2, <4>1 DEF OwnInv
    <3>2. CASE t.by.who # "send"
      BY <1>1, <1>5, <3>2 DEF OfClick
    <3> QED
      BY <3>1, <3>2
  <2>2. \A u \in queue'.tasks : \E s \in queue.tasks : u.do = s.do /\ u.by = s.by
    BY <1>1, <1>2, SettledFields
  <2> QED
    BY <1>1, <1>2, <1>3, <1>4, <2>1, <2>2, QuietClicks, SameRows
<1>6. CASE OfClick(t)
  <2>1. PICK o \in own.ops : MadeFor(t, o)
    BY <1>6 DEF ClickInv
  <2>2. own.ops = {o}
    BY <2>1 DEF ClickInv
  <2>3. \A u \in queue'.tasks : ~OfClick(u)
    BY <1>1, <1>2, <1>6, OnlyWrite
  <2>4. t.by.who \in {"react", "undo"} /\ t.by.n = o.n
    BY <2>1, ByWhat DEF MadeFor
  <2>5. own'.ops = {}
    <3> DEFINE rest == {p \in own.ops : p.n # t.by.n}
    <3>1. own' = [own EXCEPT !.ops = rest]
      BY <1>1, <2>4
    <3>2. rest = {}
      BY <2>2, <2>4
    <3> HIDE DEF rest
    <3> QED
      BY <1>2, <3>1, <3>2 DEF OwnInv
  <2>6. ~past'.late => MineOnce(disk'.rows)
    BY <1>1, <1>4 DEF ClickInv
  <2> QED
    BY <2>3, <2>5, <2>6 DEF ClickInv
<1> QED
  BY <1>5, <1>6

LEMMA WorkClicks ==
    ASSUME OnceInv, WipeInv, TypeInv, ClickInv,
           \/ \E t \in queue.tasks : ReadStored(t) \/ ClearMessages(t)
           \/ \E w \in wipes : FindReactionKeys(w)
    PROVE  ClickInv'
<1>1. OpsInv /\ QueueInv /\ DiskInv
  BY DEF OnceInv, TypeInv
<1>2. ASSUME NEW t \in queue.tasks, ReadStored(t) PROVE ClickInv'
  <2> DEFINE t0 == [t EXCEPT !.seen = Stored(t.on)]
  <2>1. /\ queue' = [queue EXCEPT !.tasks = (queue.tasks \ {t}) \cup {t0}]
        /\ UNCHANGED <<disk, own, wipes, past>>
    BY <1>2 DEF ReadStored, Stored
  <2>2. t0.do = t.do /\ t0.by = t.by
    <3>1. TaskShape(t)
      BY <1>1, TaskHasShape
    <3>2. \A x : [t EXCEPT !.seen = x] =
              [n |-> t.n, on |-> t.on, after |-> t.after, do |-> t.do, by |-> t.by, seen |-> x]
      BY <3>1 DEF TaskShape
    <3> QED
      BY <3>2
  <2> HIDE DEF t0
  <2>3. queue'.tasks = (queue.tasks \ {t}) \cup {t0}
    BY <1>1, <2>1 DEF QueueInv
  <2>4. \A u \in queue'.tasks : \E s \in queue.tasks : u.do = s.do /\ u.by = s.by
    BY <2>2, <2>3
  <2> QED
    BY <1>1, <2>1, <2>4, QuietClicks, SameRows
<1>3. ASSUME NEW t \in queue.tasks, ClearMessages(t) PROVE ClickInv'
  <2>1. /\ queue' = Settled(t) /\ wipes' = WipesAfter(t) /\ UNCHANGED <<own, past>>
        /\ disk' = [disk EXCEPT !.chat = {}]
    BY <1>3 DEF ClearMessages
  <2>2. disk'.rows = disk.rows
    BY <1>1, <2>1 DEF DiskInv
  <2>3. wipes = {} => wipes' = {}
    BY <2>1 DEF WipesAfter
  <2>4. \A u \in queue'.tasks : \E s \in queue.tasks : u.do = s.do /\ u.by = s.by
    BY <1>1, <2>1, SettledFields
  <2> QED
    BY <1>1, <2>1, <2>2, <2>3, <2>4, QuietClicks, SameRows
<1>4. ASSUME NEW w \in wipes, FindReactionKeys(w) PROVE ClickInv'
  <2> DEFINE late == past.late \/ (~disk.keyed /\ \E t \in queue.tasks : t.on = "rows")
  <2>1. past' = [past EXCEPT !.late = late] /\ UNCHANGED <<disk, queue, own>>
    BY <1>4 DEF FindReactionKeys
  <2>2. late \/ ~past.late
    OBVIOUS
  <2> HIDE DEF late
  <2>3. past'.late = late
    BY <2>1 DEF WipeInv, ClearsInv
  <2> QED
    BY <1>1, <1>4, <2>1, <2>2, <2>3, QuietClicks, SameRows
<1> QED
  BY <1>2, <1>3, <1>4

(* A wipe ends, and no click is left that nothing was wiped under.             *)
LEMMA DeleteClicks ==
    ASSUME OnceInv, TypeInv, ClickInv, NEW w \in wipes, DeleteReactions(w)
    PROVE  ClickInv'
<1>1. /\ disk' = [disk EXCEPT !.rows = {}, !.keyed = FALSE] /\ UNCHANGED <<own, past>>
      /\ queue' = [queue EXCEPT !.last["rows"] = 0]
  BY DEF DeleteReactions
<1>2. disk' = [chat |-> disk.chat, rows |-> {}, keyed |-> FALSE, blocked |-> disk.blocked]
  BY <1>1, Emptied DEF OnceInv
<1>3. disk'.rows = {} /\ queue'.tasks = queue.tasks
  BY <1>1, <1>2 DEF OnceInv, QueueInv
<1>4. \A o \in own.ops : ~o.calm \/ wipes = {}
  BY DEF ClickInv
<1>5. \A o \in own.ops : Fits(disk'.rows, o)
  BY <1>3, <1>4 DEF Fits, MyRows, Visible, NoRow
<1> QED
  BY <1>1, <1>3, <1>4, <1>5 DEF ClickInv, MineOnce

(* A write that is queued, not a click's                                       *)
LEMMA EnqueueClicks ==
    ASSUME OnceInv, WipeInv, TypeInv, ClickInv, NEW on, NEW job, NEW who, NEW n,
           queue' = Enqueued(on, job, By(who, n)), who \notin {"react", "undo"},
           job.op \in {"append", "inbound"}, own'.ops = own.ops,
           UNCHANGED <<disk, wipes>>, ~past'.late => ~past.late
    PROVE  ClickInv'
<1> DEFINE t0 == Task(on, job, By(who, n))
<1>1. ~OfClick(t0)
  BY TaskFields, ByWhat DEF OfClick
<1>2. queue'.tasks = queue.tasks \cup {t0}
  BY EnqueuedTasks
<1> HIDE DEF t0
<1>3. \A u \in queue'.tasks : ~OfClick(u) \/ \E s \in queue.tasks : u.do = s.do /\ u.by = s.by
  BY <1>1, <1>2
<1> QED
  BY <1>3, QuietClicks, SameRows DEF TypeInv

LEMMA NothingClicks ==
    ASSUME OnceInv, TypeInv, ClickInv, queue' = queue, own'.ops = own.ops, UNCHANGED wipes,
           disk'.rows = disk.rows, ~past'.late => ~past.late
    PROVE  ClickInv'
BY QuietClicks, SameRows DEF TypeInv

LEMMA ChatsClicks ==
    ASSUME OnceInv, WipeInv, TypeInv, ClickInv, NEW v \in DOMAIN views, Chats(v)
    PROVE  ClickInv'
<1>1. ASSUME NEW who \in {"pass", "live"}, NEW r, queue' = EnqueuedFor(who, v, r),
             UNCHANGED <<disk, own, wipes>>, ~past'.late => ~past.late
      PROVE  ClickInv'
  <2> DEFINE j1 == Job("append", r, Unread, 0)
             j2 == Job("inbound", r, Unread, 0)
  <2>1. j1.op = "append" /\ j2.op = "inbound"
    BY DEF Job
  <2> HIDE DEF j1, j2
  <2>2. CASE queue' = Enqueued("chat", j1, By(who, v))
    BY <1>1, <2>1, <2>2, EnqueueClicks
  <2>3. CASE queue' = Enqueued("rows", j2, By(who, v))
    BY <1>1, <2>1, <2>3, EnqueueClicks
  <2> QED
    BY <1>1, <2>2, <2>3 DEF EnqueuedFor, j1, j2
<1>2. CASE FetchHistory(v) \/ Subscribe(v) \/ Close(v)
  BY <1>2, NothingClicks DEF FetchHistory, Subscribe, Close
<1>3. ASSUME NEW takes \in BOOLEAN, NEW gated \in BOOLEAN, past' = TooLate(takes, gated)
      PROVE  ~past'.late => ~past.late
  BY <1>3, LateFields DEF WipeInv
<1>4. CASE ApplyHistorical(v)
  <2> DEFINE r == Head(views[v].todo)
             takes == ~views[v].denied /\ Accepts(v, r)
  <2>1. /\ queue' = IF takes THEN EnqueuedFor("pass", v, r) ELSE queue
        /\ past' = TooLate(takes, FALSE) /\ UNCHANGED <<disk, own, wipes>>
    BY <1>4 DEF ApplyHistorical
  <2>2. takes \in BOOLEAN
    BY DEF Accepts
  <2> HIDE DEF takes, r
  <2>3. ~past'.late => ~past.late
    BY <1>3, <2>1, <2>2
  <2> QED
    BY <1>1, <2>1, <2>3, NothingClicks
<1>5. ASSUME NEW r \in Rumors, HandleGiftWrap(v, r) PROVE ClickInv'
  <2> DEFINE takes == ~disk.blocked /\ Accepts(v, r)
  <2>1. /\ queue' = IF takes THEN EnqueuedFor("live", v, r) ELSE queue
        /\ past' = TooLate(takes, TRUE) /\ UNCHANGED <<disk, own, wipes>>
    BY <1>5 DEF HandleGiftWrap
  <2>2. takes \in BOOLEAN
    BY DEF Accepts
  <2> HIDE DEF takes
  <2>3. ~past'.late => ~past.late
    BY <1>3, <2>1, <2>2
  <2> QED
    BY <1>1, <2>1, <2>3, NothingClicks
<1> QED
  BY <1>2, <1>4, <1>5 DEF Chats

(* A click begins when none is under way, and finds what is shown.             *)
LEMMA ActsClicks ==
    ASSUME OnceInv, TypeInv, ClickInv, MaxAtOnce <= 1, Adds \cap Nat = {},
           NEW v \in DOMAIN views, Acts(v)
    PROVE  ClickInv'
<1>1. OwnInv /\ OpsInv /\ own.acts \in Nat /\ RowsTyped(disk.rows, own.acts)
  BY DEF OnceInv, TypeInv, OpsInv
<1>2. own = [sends |-> own.sends, ops |-> own.ops, acts |-> own.acts]
  BY <1>1 DEF OwnInv
<1>3. ASSUME NEW x, NEW y, own' = [own EXCEPT !.sends = x, !.acts = y] PROVE own'.ops = own.ops
  <2> DEFINE z == [own EXCEPT !.sends = x]
  <2>1. z = [sends |-> x, ops |-> own.ops, acts |-> own.acts] /\ own' = [z EXCEPT !.acts = y]
    BY <1>2, <1>3
  <2> HIDE DEF z
  <2> QED
    BY <2>1
<1>4. ASSUME NEW m \in Own, SendMessage(v, m) PROVE ClickInv'
  <2>1. PICK x, y : own' = [own EXCEPT !.sends = x, !.acts = y]
    BY <1>4 DEF SendMessage
  <2>2. own'.ops = own.ops
    BY <1>3, <2>1
  <2> QED
    BY <1>4, <2>2, NothingClicks DEF SendMessage
<1>5. ASSUME NEW m \in Messages, NEW e \in Emojis, HandleReact(v, m, e) PROVE ClickInv'
  <2> DEFINE q == [n |-> own.acts + 1, of |-> m, emoji |-> e,
                   op |-> IF Shown(m, Me, e) THEN "take" ELSE "insert",
                   stage |-> "connecting", calm |-> wipes = {}]
             next == own.ops \cup {q}
             more == own.acts + 1
  <2>1. /\ Cardinality(own.ops) < MaxAtOnce
        /\ own' = [own EXCEPT !.acts = more, !.ops = next]
        /\ UNCHANGED <<disk, queue, wipes, past>>
    BY <1>5 DEF HandleReact
  <2>2. own.ops = {}
    <3> SUFFICES ASSUME NEW o \in own.ops PROVE FALSE
      OBVIOUS
    <3>1. own.ops = {o}
      BY DEF ClickInv
    <3>2. Cardinality({o}) = 1 /\ MaxAtOnce \in Nat
      BY FS_Singleton, ThreadAssumption
    <3> QED
      BY <2>1, <3>1, <3>2
  <2>3. own'.ops = next
    <3> DEFINE z == [own EXCEPT !.acts = more]
    <3> HIDE DEF next, more
    <3>1. z = [sends |-> own.sends, ops |-> own.ops, acts |-> more] /\ own' = [z EXCEPT !.ops = next]
      BY <1>2, <2>1
    <3> HIDE DEF z
    <3> QED
      BY <3>1
  <2>4. /\ q.n = more /\ q.of = m /\ q.emoji = e /\ q.stage = "connecting"
        /\ q.op = IF Shown(m, Me, e) THEN "take" ELSE "insert"
        /\ q.calm = (wipes = {})
    OBVIOUS
  <2>5. own'.ops = {q}
    BY <2>2, <2>3
  <2> HIDE DEF q
  <2>6. NoRow(disk.rows, more)
    <3> SUFFICES ASSUME NEW r \in disk.rows PROVE r.id # more
      BY DEF NoRow
    <3>1. r.id \in 0..own.acts \/ r.id \in Adds
      BY <1>1 DEF RowsTyped, RowTyped
    <3> QED
      BY <1>1, <3>1
  <2> HIDE DEF more, next
  <2>7. MyRows(disk.rows, q) = {} <=> ~Shown(m, Me, e)
    BY <2>4 DEF MyRows, Shown
  <2>8. Fits(disk.rows, q)
    BY <2>4, <2>6, <2>7 DEF Fits, Marked
  <2>9. \A u \in queue.tasks : ~OfClick(u)
    BY <2>2 DEF ClickInv
  <2>10. ~past.late => MineOnce(disk.rows)
    BY DEF ClickInv
  <2> QED
    BY <2>1, <2>4, <2>5, <2>8, <2>9, <2>10, ClickMoves DEF Unmarked
<1> QED
  BY <1>4, <1>5 DEF Acts

LEMMA PublishClicks ==
    ASSUME OnceInv, WipeInv, TypeInv, ClickInv, NEW m \in Own, MessagePublished(m)
    PROVE  ClickInv'
<1> DEFINE job == Job("append", m, Unread, 0)
<1>1. PICK x : own' = [own EXCEPT !.sends = x]
  BY DEF MessagePublished
<1>2. own'.ops = own.ops
  BY <1>1 DEF OnceInv, OwnInv
<1>3. UNCHANGED <<disk, wipes>>
  BY DEF MessagePublished
<1>4. job.op = "append"
  BY DEF Job
<1> HIDE DEF job
<1>5. CASE queue' = queue /\ past' = past
  BY <1>2, <1>3, <1>5, NothingClicks
<1>6. CASE queue' = Enqueued("chat", job, By("send", m)) /\ past' = TooLate(TRUE, FALSE)
  <2> DEFINE who == "send"
  <2>1. ~past'.late => ~past.late
    BY <1>6, LateFields DEF WipeInv
  <2>2. queue' = Enqueued("chat", job, By(who, m)) /\ who \notin {"react", "undo"}
    BY <1>6
  <2> HIDE DEF who
  <2> QED
    BY <1>2, <1>3, <1>4, <2>1, <2>2, EnqueueClicks
<1> QED
  BY <1>5, <1>6 DEF MessagePublished, job

(* The click under way goes on, and queues its write.                          *)
LEMMA GoesOn ==
    ASSUME OnceInv, WipeInv, TypeInv, ClickInv, NEW o \in own.ops, NEW stage, NEW job, NEW who,
           own' = [own EXCEPT !.ops = (own.ops \ {o}) \cup {[o EXCEPT !.stage = stage]}],
           queue' = Enqueued("rows", job, By(who, o.n)), past' = TooLate(TRUE, FALSE),
           UNCHANGED <<disk, wipes>>,
           \/ o.stage = "connecting" /\ stage = "marking" /\ who = "react"
              /\ job = Job(o.op, o.of, o.emoji, o.n)
           \/ o.stage = "publishing" /\ stage = "undoing" /\ who = "undo"
              /\ job = Job(IF o.op = "take" THEN "insert" ELSE "rollback", o.of, o.emoji, o.n)
    PROVE  ClickInv'
<1> DEFINE p == [o EXCEPT !.stage = stage]
           next == (own.ops \ {o}) \cup {p}
           t0 == Task("rows", job, By(who, o.n))
<1>1. ClickShape(o) /\ OwnInv
  BY DEF OnceInv, OwnInv, Clicked
<1>2. /\ p.n = o.n /\ p.of = o.of /\ p.emoji = o.emoji /\ p.stage = stage
      /\ p.op = o.op /\ p.calm = o.calm
  BY <1>1, StageFields
<1> HIDE DEF p
<1>3. own'.ops = next
  <2>1. own' = [own EXCEPT !.ops = next]
    BY DEF p
  <2> HIDE DEF next
  <2> QED
    BY <1>1, <2>1 DEF OwnInv
<1>4. own'.ops = {p}
  BY <1>3 DEF ClickInv
<1>5. queue'.tasks = queue.tasks \cup {t0} /\ t0.do = job /\ t0.by = By(who, o.n)
  <2>1. queue'.tasks = queue.tasks \cup {t0}
    BY EnqueuedTasks
  <2>2. t0.do = job /\ t0.by = By(who, o.n)
    BY TaskFields
  <2> QED
    BY <2>1, <2>2
<1> HIDE DEF t0
<1>6. MadeFor(t0, p)
  BY <1>2, <1>5 DEF MadeFor
<1>7. ASSUME NEW u \in queue.tasks, OfClick(u) PROVE FALSE
  <2>1. PICK y \in own.ops : MadeFor(u, y)
    BY <1>7 DEF ClickInv
  <2>2. y = o
    BY DEF ClickInv
  <2> QED
    BY <2>1, <2>2 DEF MadeFor
<1>8. ASSUME ~past'.late PROVE MineOnce(disk'.rows) /\ Fits(disk'.rows, p)
  <2>1. ~past.late
    BY <1>8, LateFields DEF WipeInv
  <2>2. MineOnce(disk.rows) /\ Fits(disk.rows, o) /\ MyRows(disk.rows, p) = MyRows(disk.rows, o)
    BY <1>2, <2>1 DEF ClickInv, MyRows
  <2> QED
    BY <1>2, <2>2 DEF Fits, Marked, Unmarked
<1>9. (p.calm => wipes' = {}) /\ (Unmarked(p) \/ Marked(p))
  BY <1>2 DEF ClickInv, Marked, Unmarked
<1> QED
  BY <1>4, <1>5, <1>6, <1>7, <1>8, <1>9, ClickMoves

LEMMA ReactionClicks ==
    ASSUME OnceInv, WipeInv, TypeInv, ClickInv, NEW o \in own.ops,
           MarkReaction(o) \/ ReactionPublished(o)
    PROVE  ClickInv'
<1>1. CASE MarkReaction(o)
  BY <1>1, GoesOn DEF MarkReaction
<1>2. CASE ReactionPublished(o) /\ queue' = queue
  <2>1. /\ o.stage = "publishing" /\ UNCHANGED <<disk, wipes>>
    BY <1>2 DEF ReactionPublished
  <2>2. CASE own' = [own EXCEPT !.ops = own.ops \ {o}] /\ past' = past
    <3> DEFINE rest == own.ops \ {o}
    <3>1. rest = {} /\ own' = [own EXCEPT !.ops = rest]
      BY <2>2 DEF ClickInv
    <3> HIDE DEF rest
    <3>2. own'.ops = {}
      BY <3>1 DEF OnceInv, OwnInv
    <3>3. ASSUME NEW u \in queue.tasks, OfClick(u) PROVE FALSE
      <4>1. PICK y \in own.ops : MadeFor(u, y) /\ y = o
        BY <3>3 DEF ClickInv
      <4> QED
        BY <2>1, <4>1 DEF MadeFor
    <3> QED
      BY <1>2, <2>1, <2>2, <3>2, <3>3 DEF ClickInv
  <2>3. CASE /\ own' = [own EXCEPT !.ops = (own.ops \ {o}) \cup {[o EXCEPT !.stage = "undoing"]}]
             /\ queue' = Enqueued("rows",
                           Job(IF o.op = "take" THEN "insert" ELSE "rollback", o.of, o.emoji, o.n),
                           By("undo", o.n))
             /\ past' = TooLate(TRUE, FALSE)
    BY <2>1, <2>3, GoesOn
  <2> QED
    BY <1>2, <2>2, <2>3 DEF ReactionPublished
<1>3. CASE ReactionPublished(o) /\ queue' # queue
  BY <1>3, GoesOn DEF ReactionPublished
<1> QED
  BY <1>1, <1>2, <1>3

(* A wipe begins, and the click under way is told.                             *)
LEMMA BlockClicks ==
    ASSUME OnceInv, WipeInv, TypeInv, ClickInv, BlockContact
    PROVE  ClickInv'
<1> DEFINE job == Job("clear", Unread, Unread, 0)
           n == past.blocks + 1
           t0 == Task("chat", job, By("wipe", n))
           next == {[o EXCEPT !.calm = FALSE] : o \in own.ops}
<1>1. disk' = [disk EXCEPT !.blocked = TRUE] /\ past' = [past EXCEPT !.blocks = n]
      /\ queue' = Enqueued("chat", job, By("wipe", n)) /\ own' = [own EXCEPT !.ops = next]
  BY DEF BlockContact
<1>2. queue'.tasks = queue.tasks \cup {t0}
  BY <1>1, EnqueuedTasks
<1>3. ~OfClick(t0)
  <2>1. t0.do = job /\ t0.by = By("wipe", n)
    BY TaskFields
  <2>2. job.op = "clear"
    BY DEF Job
  <2> HIDE DEF t0, job
  <2> QED
    BY <2>1, <2>2, ByWhat DEF OfClick
<1> HIDE DEF t0
<1>4. disk'.rows = disk.rows /\ past'.late = past.late
  BY <1>1 DEF OnceInv, DiskInv, WipeInv, ClearsInv
<1>5. own'.ops = next
  <2> HIDE DEF next
  <2> QED
    BY <1>1 DEF OnceInv, OwnInv
<1>6. CASE own.ops = {}
  BY <1>2, <1>3, <1>4, <1>5, <1>6 DEF ClickInv
<1>7. ASSUME NEW o \in own.ops PROVE ClickInv'
  <2> DEFINE p == [o EXCEPT !.calm = FALSE]
  <2>1. own.ops = {o} /\ own'.ops = {p}
    BY <1>5 DEF ClickInv
  <2>2. /\ p.n = o.n /\ p.of = o.of /\ p.emoji = o.emoji /\ p.stage = o.stage
        /\ p.op = o.op /\ p.calm = FALSE
    <3>1. \A x : [o EXCEPT !.calm = x] = [n |-> o.n, of |-> o.of, emoji |-> o.emoji, op |-> o.op,
                                          stage |-> o.stage, calm |-> x]
      BY DEF OnceInv, OwnInv, Clicked, ClickShape
    <3> QED
      BY <3>1
  <2> HIDE DEF p
  <2>3. \A u \in queue.tasks : OfClick(u) => MadeFor(u, p)
    <3>1. \A u \in queue.tasks : OfClick(u) => MadeFor(u, o)
      BY <2>1 DEF ClickInv
    <3> QED
      BY <2>2, <3>1 DEF MadeFor
  <2>4. ~past.late => MineOnce(disk.rows) /\ Fits(disk.rows, p)
    <3>1. ~past.late => MineOnce(disk.rows) /\ Fits(disk.rows, o)
      BY DEF ClickInv
    <3>2. MyRows(disk.rows, p) = MyRows(disk.rows, o)
      BY <2>2 DEF MyRows
    <3> QED
      BY <2>2, <3>1, <3>2 DEF Fits, Marked, Unmarked
  <2>5. Unmarked(p) \/ Marked(p)
    BY <2>2 DEF ClickInv, Marked, Unmarked
  <2> QED
    BY <1>2, <1>3, <1>4, <2>1, <2>2, <2>3, <2>4, <2>5, ClickMoves
<1> QED
  BY <1>6, <1>7

LEMMA RestartClicks ==
    ASSUME OnceInv, WipeInv, TypeInv, ClickInv, Restart
    PROVE  ClickInv' /\ (~past'.late => ~past.late /\ own.ops = {})
<1>1. own'.ops = {}
  <2> DEFINE z == [own EXCEPT !.ops = {}]
  <2>1. PICK x : own' = [own EXCEPT !.ops = {}, !.sends = x]
    BY DEF Restart
  <2>2. z = [sends |-> own.sends, ops |-> {}, acts |-> own.acts] /\ own' = [z EXCEPT !.sends = x]
    BY <2>1 DEF OnceInv, OwnInv
  <2> HIDE DEF z
  <2> QED
    BY <2>2
<1>2. queue'.tasks = {} /\ disk' = disk
  BY DEF Restart
<1>3. ~past'.late => ~past.late /\ own.ops = {}
  <2> DEFINE late == past.late \/ wipes # {} \/ own.ops # {}
  <2>1. past' = [past EXCEPT !.faults = past.faults + 1, !.late = late]
    BY DEF Restart
  <2>2. late \/ (~past.late /\ own.ops = {})
    OBVIOUS
  <2> HIDE DEF late
  <2>3. past'.late = late
    BY <2>1 DEF WipeInv, ClearsInv
  <2> QED
    BY <2>2, <2>3
<1>4. ClickInv'
  BY <1>1, <1>2, <1>3 DEF ClickInv
<1> QED
  BY <1>3, <1>4

LEMMA InitClicks == Init => ClickInv
<1> SUFFICES ASSUME Init PROVE ClickInv
  OBVIOUS
<1>1. queue.tasks = {} /\ own.ops = {}
  BY DEF Init
<1>2. PICK b \in Before :
        disk = [chat |-> b.chat, rows |-> b.rows, keyed |-> b.rows # {}, blocked |-> FALSE]
  BY DEF Init
<1>3. disk.rows = b.rows
  BY <1>2
<1>4. \A r, s \in b.rows : r.of = s.of /\ r.by = s.by /\ r.emoji = s.emoji => r = s
  BY ThreadAssumption
<1>5. MineOnce(disk.rows)
  BY <1>3, <1>4 DEF MineOnce, SameKey
<1> QED
  BY <1>1, <1>5 DEF ClickInv

LEMMA ClickIsKept ==
    ASSUME MaxAtOnce <= 1, Adds \cap Nat = {}
    PROVE  OnceInv /\ WipeInv /\ TypeInv /\ ClickInv /\ [Next]_vars => ClickInv'
<1> SUFFICES ASSUME OnceInv, WipeInv, TypeInv, ClickInv, [Next]_vars PROVE ClickInv'
  OBVIOUS
<1>1. CASE Works
  BY <1>1, WorkClicks, WriteClicks, DeleteClicks DEF Works
<1>2. CASE \E t \in queue.tasks : WriteFails(t)
  BY <1>2, FailClicks
<1>3. CASE \E v \in DOMAIN views : Chats(v) \/ Acts(v)
  BY <1>3, ChatsClicks, ActsClicks
<1>4. CASE \E m \in Own : MessagePublished(m)
  BY <1>4, PublishClicks
<1>5. CASE \E o \in own.ops : MarkReaction(o) \/ ReactionPublished(o)
  BY <1>5, ReactionClicks
<1>6. CASE BlockContact
  BY <1>6, BlockClicks
<1>7. CASE Restart
  BY <1>7, RestartClicks
<1>8. CASE Open \/ UNCHANGED vars
  BY <1>8, NothingClicks DEF Open, vars
<1>9. CASE UnblockContact
  <2>1. disk' = [disk EXCEPT !.blocked = FALSE] /\ UNCHANGED <<queue, own, wipes, past>>
    BY <1>9 DEF UnblockContact
  <2>2. disk'.rows = disk.rows
    BY <2>1 DEF OnceInv, DiskInv
  <2> QED
    BY <2>1, <2>2, NothingClicks
<1> QED
  BY <1>1, <1>2, <1>3, <1>4, <1>5, <1>6, <1>7, <1>8, <1>9 DEF Next

(* The click that is over is one whose reaction was published, or whose write  *)
(* has settled or failed.                                                      *)
LEMMA ClickEnds ==
    ASSUME OnceInv, WipeInv, TypeInv, ClickInv, [Next]_vars, NEW o \in own.ops,
           \A p \in own'.ops : p.n # o.n, ~past'.late
    PROVE  \/ ReactionPublished(o) /\ UNCHANGED <<disk, past>>
           \/ \E t \in queue.tasks : /\ MadeFor(t, o) /\ t.by.who = "undo"
                                     /\ WriteStored(t) /\ past' = past
           \/ \E t \in queue.tasks : /\ MadeFor(t, o) /\ t.by.who = "react"
                                     /\ WriteFails(t) /\ disk' = disk /\ ~past.late
<1>0. OwnInv /\ own = [sends |-> own.sends, ops |-> own.ops, acts |-> own.acts]
      /\ ClickShape(o)
  BY DEF OnceInv, OwnInv, Clicked
<1>1. o \notin own'.ops
  OBVIOUS
<1>2. ASSUME NEW x, NEW next, x.n = o.n, own' = [own EXCEPT !.ops = next], x \in next PROVE FALSE
  BY <1>0, <1>2
<1>3. ASSUME own'.ops = own.ops PROVE FALSE
  BY <1>1, <1>3
<1>4. ASSUME NEW t \in queue.tasks, WriteStored(t)
      PROVE  MadeFor(t, o) /\ t.by.who = "undo" /\ past' = past
  <2>1. own' = OwnAfter(t) /\ past' = past
    BY <1>4 DEF WriteStored
  <2>2. t.by.who \in {"react", "undo"}
    BY <1>0, <1>3, <2>1, OpsSettled
  <2>3. MadeFor(t, o)
    BY <2>2 DEF ClickInv, OfClick
  <2>4. t.by.who # "react"
    <3> SUFFICES ASSUME t.by.who = "react" PROVE FALSE
      OBVIOUS
    <3> DEFINE g(y) == IF y.n = t.by.n THEN [y EXCEPT !.stage = "publishing"] ELSE y
    <3>1. own'.ops = {g(y) : y \in own.ops}
      BY <1>0, <2>1, OpsSettled
    <3>2. g(o).n = o.n
      BY <1>0, StageFields
    <3> HIDE DEF g
    <3> QED
      BY <3>1, <3>2
  <2> QED
    BY <2>1, <2>2, <2>3, <2>4
<1>5. ASSUME NEW t \in queue.tasks, WriteFails(t)
      PROVE  MadeFor(t, o) /\ t.by.who = "react" /\ disk' = disk /\ ~past.late
  <2> DEFINE late == past.late \/ t.by.who \in {"wipe", "undo"}
  <2>1. /\ past' = [past EXCEPT !.faults = past.faults + 1, !.late = late] /\ disk' = disk
        /\ own' = CASE t.by.who = "send" -> [own EXCEPT !.sends[t.by.n] = "failed"]
                    [] t.by.who \in {"react", "undo"} ->
                          [own EXCEPT !.ops = {y \in own.ops : y.n # t.by.n}]
                    [] OTHER -> own
    BY <1>5 DEF WriteFails
  <2>2. late \/ (~past.late /\ t.by.who # "undo")
    OBVIOUS
  <2> HIDE DEF late
  <2>3. past'.late = late
    BY <2>1 DEF WipeInv, ClearsInv
  <2>4. ~past.late /\ t.by.who # "undo"
    BY <2>2, <2>3
  <2>5. t.by.who \in {"react", "undo"}
    <3>1. CASE t.by.who = "send"
      <4>1. PICK x : own' = [own EXCEPT !.sends = x]
        BY <2>1, <3>1
      <4>2. own'.ops = own.ops
        BY <1>0, <4>1
      <4> QED
        BY <1>3, <4>2
    <3>2. CASE t.by.who \notin {"send", "react", "undo"}
      BY <1>3, <2>1, <3>2
    <3> QED
      BY <3>1, <3>2
  <2>6. MadeFor(t, o)
    BY <2>5 DEF ClickInv, OfClick
  <2> QED
    BY <2>1, <2>4, <2>5, <2>6
<1>6. ASSUME NEW v, Chats(v) \/ Acts(v) PROVE FALSE
  <2>1. CASE Chats(v)
    BY <1>3, <2>1 DEF Chats, FetchHistory, ApplyHistorical, Subscribe, Close, HandleGiftWrap
  <2>2. ASSUME NEW m, SendMessage(v, m) PROVE FALSE
    <3>1. PICK x, y : own' = [own EXCEPT !.sends = x, !.acts = y]
      BY <2>2 DEF SendMessage
    <3> DEFINE z == [own EXCEPT !.sends = x]
    <3>2. z = [sends |-> x, ops |-> own.ops, acts |-> own.acts] /\ own' = [z EXCEPT !.acts = y]
      BY <1>0, <3>1
    <3> HIDE DEF z
    <3> QED
      BY <1>3, <3>2
  <2>3. ASSUME NEW m, NEW e, HandleReact(v, m, e) PROVE FALSE
    <3>1. PICK x, y : own' = [own EXCEPT !.acts = x, !.ops = own.ops \cup {y}]
      BY <2>3 DEF HandleReact
    <3> DEFINE z == [own EXCEPT !.acts = x]
               next == own.ops \cup {y}
    <3>2. o \in next /\ own' = [own EXCEPT !.acts = x, !.ops = next]
      BY <3>1
    <3> HIDE DEF next
    <3>3. z = [sends |-> own.sends, ops |-> own.ops, acts |-> x] /\ own' = [z EXCEPT !.ops = next]
      BY <1>0, <3>2
    <3> HIDE DEF z
    <3> QED
      BY <1>1, <3>2, <3>3
  <2> QED
    BY <1>6, <2>1, <2>2, <2>3 DEF Acts
<1>7. ASSUME NEW m, MessagePublished(m) PROVE FALSE
  <2>1. PICK x : own' = [own EXCEPT !.sends = x]
    BY <1>7 DEF MessagePublished
  <2>2. own'.ops = own.ops
    BY <1>0, <2>1
  <2> QED
    BY <1>3, <2>2
<1>8. ASSUME NEW p \in own.ops, NEW stage,
             own' = [own EXCEPT !.ops = (own.ops \ {p}) \cup {[p EXCEPT !.stage = stage]}]
      PROVE  FALSE
  <2>1. p = o
    BY DEF ClickInv
  <2> DEFINE q == [o EXCEPT !.stage = stage]
             next == (own.ops \ {o}) \cup {q}
  <2>2. q.n = o.n
    BY <1>0, StageFields
  <2>3. own' = [own EXCEPT !.ops = next] /\ q \in next
    BY <1>8, <2>1
  <2> HIDE DEF q, next
  <2> QED
    BY <1>2, <2>2, <2>3
<1>9. ASSUME NEW p \in own.ops, MarkReaction(p) \/ ReactionPublished(p)
      PROVE  ReactionPublished(o) /\ UNCHANGED <<disk, past>>
  <2>1. p = o
    BY DEF ClickInv
  <2>2. ~MarkReaction(p)
    BY <1>8 DEF MarkReaction
  <2>3. past' = past
    BY <1>8, <1>9, <2>2 DEF ReactionPublished
  <2> QED
    BY <1>9, <2>1, <2>2, <2>3 DEF ReactionPublished
<1>10. ASSUME BlockContact PROVE FALSE
  <2> DEFINE q == [o EXCEPT !.calm = FALSE]
             next == {[y EXCEPT !.calm = FALSE] : y \in own.ops}
  <2>1. own' = [own EXCEPT !.ops = next] /\ q \in next
    BY <1>10 DEF BlockContact
  <2>2. q.n = o.n
    BY <1>0 DEF ClickShape
  <2> HIDE DEF q, next
  <2> QED
    BY <1>2, <2>1, <2>2
<1>11. ASSUME Restart PROVE FALSE
  BY <1>11, RestartClicks
<1>12. ASSUME \/ Open \/ UnblockContact \/ UNCHANGED vars
              \/ \E t \in queue.tasks : ReadStored(t) \/ ClearMessages(t)
              \/ \E w \in wipes : FindReactionKeys(w) \/ DeleteReactions(w)
       PROVE  FALSE
  BY <1>3, <1>12 DEF Open, UnblockContact, vars, ReadStored, ClearMessages, FindReactionKeys,
                     DeleteReactions
<1> QED
  BY <1>4, <1>5, <1>6, <1>7, <1>9, <1>10, <1>11, <1>12 DEF Next, Works

(* A click ends as the user sees it: its badge is switched if it was published,*)
(* and as it was if not, whatever the peer's reactions, the queued writes and  *)
(* the failures between, for all conversations, if clicks do not overlap and   *)
(* nothing is wiped meanwhile; the ids of the peer's reactions are none of the *)
(* clicks' (handleReact, applyOptimistic, rollbackOptimistic).                 *)
THEOREM ClicksCount ==
    ASSUME MaxAtOnce <= 1, Adds \cap Nat = {}
    PROVE  Spec => ClickCounts
<1>1. ASSUME OnceInv, WipeInv, TypeInv, ClickInv, [Next]_vars, NEW o \in own.ops,
             \A p \in own'.ops : p.n # o.n, o.calm, ~past'.late
      PROVE  Shown(o.of, Me, o.emoji)' = ((o.op = "insert") = (o.stage = "publishing"))
  <2>0. SUFFICES Shown(o.of, Me, o.emoji)' <=> (o.op = "insert" <=> o.stage = "publishing")
    <3> DEFINE a == Shown(o.of, Me, o.emoji)'
               b == o.op = "insert"
               c == o.stage = "publishing"
    <3>1. a \in BOOLEAN /\ b \in BOOLEAN /\ c \in BOOLEAN
      BY DEF Shown
    <3> HIDE DEF a, b, c
    <3>2. (a <=> (b <=> c)) => a = (b = c)
      BY <3>1
    <3> QED
      BY <3>2 DEF a, b, c
  <2>1. o.op \in {"insert", "take"}
    BY <1>1 DEF OnceInv, OwnInv, Clicked
  <2>2. Shown(o.of, Me, o.emoji)' <=> MyRows(disk'.rows, o) # {}
    BY DEF Shown, MyRows, Visible
  <2>3. CASE ReactionPublished(o) /\ UNCHANGED <<disk, past>>
    <3>1. o.stage = "publishing" /\ Fits(disk.rows, o)
      BY <1>1, <2>3 DEF ReactionPublished, ClickInv
    <3> QED
      BY <1>1, <2>1, <2>2, <2>3, <3>1 DEF Fits, Marked
  <2>4. ASSUME NEW t \in queue.tasks, MadeFor(t, o), t.by.who = "undo", WriteStored(t),
               past' = past
        PROVE  Shown(o.of, Me, o.emoji)' <=> (o.op = "insert" <=> o.stage = "publishing")
    <3>1. o.stage = "undoing"
      BY <2>4, ByWhat DEF MadeFor
    <3>2. /\ o.op = "insert" => MyRows(disk'.rows, o) = {}
          /\ o.op = "take" => MyRows(disk'.rows, o) # {}
      BY <1>1, <2>4, ClickWritten
    <3> QED
      BY <2>1, <2>2, <3>1, <3>2
  <2>5. ASSUME NEW t \in queue.tasks, MadeFor(t, o), t.by.who = "react", WriteFails(t),
               disk' = disk, ~past.late
        PROVE  Shown(o.of, Me, o.emoji)' <=> (o.op = "insert" <=> o.stage = "publishing")
    <3>1. o.stage = "marking"
      BY <2>5, ByWhat DEF MadeFor
    <3>2. Fits(disk.rows, o)
      BY <1>1, <2>5 DEF ClickInv
    <3> QED
      BY <1>1, <2>1, <2>2, <2>5, <3>1, <3>2 DEF Fits, Unmarked
  <2> QED
    BY <1>1, <2>3, <2>4, <2>5, ClickEnds
<1>2. OnceInv /\ WipeInv /\ TypeInv /\ ClickInv /\ [Next]_vars =>
        \A o \in own.ops :
           /\ \A p \in own'.ops : p.n # o.n
           /\ o.calm /\ ~past'.late
           => Shown(o.of, Me, o.emoji)' = ((o.op = "insert") = (o.stage = "publishing"))
  BY <1>1
<1>3. Init => OnceInv /\ WipeInv /\ TypeInv /\ ClickInv
  BY InitOnce, InitWipes, InitTyped, InitClicks
<1>4. OnceInv /\ WipeInv /\ TypeInv /\ ClickInv /\ [Next]_vars =>
        (OnceInv /\ WipeInv /\ TypeInv /\ ClickInv)'
  BY OnceIsKept, WipeIsKept, TypeIsKept, ClickIsKept
<1> QED
  BY <1>2, <1>3, <1>4, PTL DEF Spec, ClickCounts-----------------------------------------------------------------------------
(***************************************************************************)
(* A history pass leaves the truth behind it.  It takes what it fetched in    *)
(* order, one write at a time; what is neither left to take nor in its write  *)
(* has told what it has to tell, and no other write unsays it: a row of the   *)
(* peer's keeps its badge, and one that was removed stays so.                 *)
(***************************************************************************)
RowsTrue(rows) == \A r \in rows : TrueRow(r)

(* What a rumor of a pass is to leave in the store: a message is there, and    *)
(* known to the view; a reaction that came after its message has its row; one  *)
(* that a removal takes back has been removed.                                 *)
Answers(w, a) == Of[a] \in w.got /\ At[Of[a]] < At[a]
TakenBack(w, a, x) ==
    Answers(w, a) /\ Of[x] = Of[a] /\ Named[x] = {EmojiOf[a]} /\ At[a] < At[x]
Told(d, w, r) ==
    /\ r \in Texts => r \in d.chat /\ r \in w.known
    /\ r \in Adds /\ Answers(w, r) => Matches(d.rows, r) # {}
    /\ r \in Removals =>
         \A a \in w.got \cap Adds :
            TakenBack(w, a, r) => \E s \in Matches(d.rows, a) : s.removed

(* What is left of a pass comes in order, behind all that it took.             *)
Left(w) == {w.todo[i] : i \in DOMAIN w.todo}
Ordered(w) ==
    /\ \A i, j \in DOMAIN w.todo :
          i < j => w.todo[i] # w.todo[j] /\ At[w.todo[i]] <= At[w.todo[j]]
    /\ \A r \in w.got \ Left(w) : \A i \in DOMAIN w.todo : At[r] <= At[w.todo[i]]

(* The write a pass waits for, of a rumor it took.                             *)
OfPass(t, w) ==
    /\ w.stage = "pass" /\ t.do.of \in w.got \ Left(w)
    /\ IF t.do.of \in Texts THEN t.on = "chat" /\ t.do.op = "append"
       ELSE t.on = "rows" /\ t.do.op = "inbound"
Passing(v) == {t \in queue.tasks : t.by = By("pass", v)}
Due(v) == Left(views[v]) \cup {t.do.of : t \in Passing(v)}

PassesInv ==
    /\ \A t \in queue.tasks : t.by.who = "pass" =>
         /\ t.by.n \in DOMAIN views /\ OfPass(t, views[t.by.n])
         /\ \A u \in queue.tasks : u.by = t.by => u = t
    /\ \A v \in DOMAIN views : views[v].stage = "pass" => Ordered(views[v])
TruthInv ==
    ~past.late =>
      /\ RowsTrue(disk.rows)
      /\ \A v \in DOMAIN views : views[v].stage = "pass" /\ views[v].calm =>
           /\ wipes = {} /\ ~views[v].denied
           /\ \A r \in views[v].got \ Due(v) : Told(disk, views[v], r)
PassInv == PassesInv /\ TruthInv

(* Every badge of the peer's has a row still, and those removed stay so.       *)
KeysKept(rows, next) ==
    \A r \in rows : r.by = Peer =>
        \E s \in next : s.by = Peer /\ s.of = r.of /\ s.emoji = r.emoji
                        /\ (r.removed => s.removed)
Kept(d, e) == d.chat \subseteq e.chat /\ KeysKept(d.rows, e.rows)

LEMMA KindsApart ==
    /\ Rumors = Texts \cup Adds \cup Removals
    /\ \A r \in Adds \cup Removals : r \notin Messages /\ r \notin Texts
    /\ \A r \in Rumors : r \in Messages => r \in Texts
    /\ \A r \in Adds : r \notin Removals
BY HistoryAssumption DEF Rumors, Messages

(* What was told stays told.                                                   *)
LEMMA MatchesKept ==
    ASSUME NEW rows, NEW next, KeysKept(rows, next), NEW a
    PROVE  /\ Matches(rows, a) # {} => Matches(next, a) # {}
           /\ (\E s \in Matches(rows, a) : s.removed) => \E s \in Matches(next, a) : s.removed
BY DEF KeysKept, Matches

LEMMA ToldStays ==
    ASSUME NEW d, NEW e, Kept(d, e), NEW w, NEW u, u.got = w.got, w.known \subseteq u.known,
           NEW r, Told(d, w, r)
    PROVE  Told(e, u, r)
<1>1. \A a : Answers(u, a) <=> Answers(w, a)
  BY DEF Answers
<1>2. \A a, x : TakenBack(u, a, x) <=> TakenBack(w, a, x)
  BY <1>1 DEF TakenBack
<1>3. \A a : /\ Matches(d.rows, a) # {} => Matches(e.rows, a) # {}
             /\ (\E s \in Matches(d.rows, a) : s.removed) => \E s \in Matches(e.rows, a) : s.removed
  BY MatchesKept DEF Kept
<1>4. r \in Texts => r \in e.chat /\ r \in u.known
  BY DEF Told, Kept
<1>5. r \in Adds /\ Answers(u, r) => Matches(e.rows, r) # {}
  BY <1>1, <1>3 DEF Told
<1>6. r \in Removals => \A a \in u.got \cap Adds :
         TakenBack(u, a, r) => \E s \in Matches(e.rows, a) : s.removed
  BY <1>2, <1>3 DEF Told
<1> QED
  BY <1>4, <1>5, <1>6 DEF Told
(* Nothing an inbound or an own write does to the rows takes a badge of the    *)
(* peer's away or brings one back, and what it says of one is true.            *)
LEMMA FlippedTrue ==
    ASSUME NEW rows, NEW s \in rows, RowShape(s), NEW ev
    PROVE  /\ KeysKept(rows, Flipped(rows, s, ev))
           /\ \A r \in Flipped(rows, s, ev) : r \in rows \/ r = Row(s.id, s.of, s.by, s.emoji, ev, TRUE)
           /\ Row(s.id, s.of, s.by, s.emoji, ev, TRUE) \in Flipped(rows, s, ev)
<1> DEFINE f == Row(s.id, s.of, s.by, s.emoji, ev, TRUE)
<1>1. Flipped(rows, s, ev) = (rows \ {s}) \cup {f}
  BY Rewritten DEF Flipped
<1>2. f.of = s.of /\ f.by = s.by /\ f.emoji = s.emoji /\ f.removed
  BY DEF Row
<1> HIDE DEF f
<1>3. KeysKept(rows, Flipped(rows, s, ev))
  BY <1>1, <1>2 DEF KeysKept
<1> QED
  BY <1>1, <1>3 DEF f

LEMMA TombstonedTrue ==
    ASSUME NEW rows, NEW acts, RowsTyped(rows, acts), RowsTrue(rows), NEW x \in Removals
    PROVE  LET next == Tombstoned(rows, x) IN
           /\ KeysKept(rows, next) /\ RowsTrue(next)
           /\ \A e \in Emojis : Named[x] = {e} =>
                \A r \in rows : r.of = Of[x] /\ r.by = Peer /\ r.emoji = e /\ ~r.removed =>
                   \E s \in next : s.of = Of[x] /\ s.by = Peer /\ s.emoji = e /\ s.removed
<1> DEFINE ts == Targets(rows, x)
           next == Tombstoned(rows, x)
<1>1. \A e : Named[x] = {e} =>
        ts = {r \in rows : r.of = Of[x] /\ r.by = Peer /\ ~r.removed /\ r.emoji = e}
  BY FS_Singleton DEF Targets
<1>2. CASE ts = {}
  <2>1. next = rows
    BY <1>2 DEF Tombstoned
  <2> QED
    BY <1>1, <1>2, <2>1 DEF KeysKept
<1>3. CASE ts # {}
  <2>1. PICK s \in ts : next = Flipped(rows, s, x)
    BY <1>3 DEF Tombstoned
  <2>2. s \in rows /\ s.of = Of[x] /\ s.by = Peer
    BY DEF Targets
  <2>3. \A e : Named[x] = {e} => s.emoji = e
    BY <1>1
  <2> DEFINE f == Row(s.id, s.of, s.by, s.emoji, x, TRUE)
  <2>4. RowShape(s)
    BY <2>2 DEF RowsTyped, RowTyped
  <2>5. KeysKept(rows, next) /\ f \in next /\ \A r \in next : r \in rows \/ r = f
    BY <2>1, <2>2, <2>4, FlippedTrue
  <2>6. f.of = s.of /\ f.by = s.by /\ f.emoji = s.emoji /\ f.removed /\ f.event = x
    BY DEF Row
  <2> HIDE DEF f, next, ts
  <2>7. TrueRow(f)
    BY <2>2, <2>3, <2>6 DEF TrueRow
  <2>8. RowsTrue(next)
    BY <2>5, <2>7 DEF RowsTrue
  <2>9. \A e : Named[x] = {e} => f.of = Of[x] /\ f.by = Peer /\ f.emoji = e /\ f.removed
    BY <2>2, <2>3, <2>6
  <2> QED
    BY <2>5, <2>8, <2>9 DEF next
<1> QED
  BY <1>2, <1>3

LEMMA UpsertedTrue ==
    ASSUME NEW rows, NEW acts, RowsTyped(rows, acts), RowsTrue(rows), NEW a \in Adds
    PROVE  LET next == Upserted(rows, a) IN
           KeysKept(rows, next) /\ RowsTrue(next) /\ Matches(next, a) # {}
<1> DEFINE ms == Matches(rows, a)
           next == Upserted(rows, a)
<1>1. CASE ms = {}
  <2> DEFINE f == Row(a, Of[a], Peer, EmojiOf[a], a, FALSE)
  <2>1. next = rows \cup {f}
    BY <1>1 DEF Upserted
  <2>2. f.of = Of[a] /\ f.by = Peer /\ f.emoji = EmojiOf[a] /\ ~f.removed /\ f.event = a
    BY DEF Row
  <2> HIDE DEF f, next, ms
  <2>3. TrueRow(f)
    BY <2>2 DEF TrueRow
  <2>4. RowsTrue(next) /\ KeysKept(rows, next)
    BY <2>1, <2>3 DEF RowsTrue, KeysKept
  <2>5. f \in Matches(next, a)
    BY <2>1, <2>2 DEF Matches
  <2> QED
    BY <2>4, <2>5 DEF next
<1>2. CASE ms # {}
  <2> DEFINE g(r) == IF r \in ms /\ ~r.removed THEN [r EXCEPT !.event = a] ELSE r
  <2>1. next = {g(r) : r \in rows}
    BY <1>2 DEF Upserted
  <2>2. ASSUME NEW r \in rows
        PROVE  /\ g(r).of = r.of /\ g(r).by = r.by /\ g(r).emoji = r.emoji
               /\ g(r).removed = r.removed /\ TrueRow(g(r))
    <3>1. RowShape(r) /\ TrueRow(r)
      BY DEF RowsTyped, RowTyped, RowsTrue
    <3> DEFINE f == Row(r.id, r.of, r.by, r.emoji, a, r.removed)
    <3>2. [r EXCEPT !.event = a] = f
      BY <3>1 DEF RowShape, Row
    <3>3. f.of = r.of /\ f.by = r.by /\ f.emoji = r.emoji /\ f.removed = r.removed /\ f.event = a
      BY DEF Row
    <3> HIDE DEF f
    <3>4. CASE r \in ms /\ ~r.removed
      <4>1. r.of = Of[a] /\ r.emoji = EmojiOf[a] /\ g(r) = f
        BY <3>2, <3>4 DEF Matches
      <4> QED
        BY <3>3, <3>4, <4>1 DEF TrueRow
    <3>5. CASE ~(r \in ms /\ ~r.removed)
      BY <3>1, <3>5
    <3> QED
      BY <3>4, <3>5
  <2> HIDE DEF g, next
  <2>3. RowsTrue(next) /\ KeysKept(rows, next)
    BY <2>1, <2>2 DEF RowsTrue, KeysKept
  <2>4. Matches(next, a) # {}
    BY <1>2, <2>1, <2>2 DEF Matches
  <2> QED
    BY <2>3, <2>4 DEF next
<1> QED
  BY <1>1, <1>2

LEMMA AppliedTrue ==
    ASSUME NEW rows, NEW acts, RowsTyped(rows, acts), RowsTrue(rows), NEW x \in Adds \cup Removals
    PROVE  LET next == Applied(rows, x) IN
           /\ KeysKept(rows, next) /\ RowsTrue(next)
           /\ x \in Adds => Matches(next, x) # {}
           /\ \A a \in Adds : x \in Removals /\ Of[x] = Of[a] /\ Named[x] = {EmojiOf[a]}
                              /\ Matches(rows, a) # {} => \E s \in Matches(next, a) : s.removed
<1>1. CASE \E s \in rows : s.event = x
  <2>1. PICK s \in rows : s.event = x
    BY <1>1
  <2>2. s.by = Peer /\ TrueRow(s) /\ s.removed \in BOOLEAN
    BY <2>1, RumorsAre DEF RowsTyped, RowTyped, RowsTrue
  <2>3. Applied(rows, x) = rows /\ KeysKept(rows, rows)
    BY <1>1 DEF Applied, KeysKept
  <2>4. x \in Adds => s \in Matches(rows, x)
    BY <2>1, <2>2, KindsApart DEF TrueRow, Matches
  <2>5. \A a \in Adds : x \in Removals /\ Of[x] = Of[a] /\ Named[x] = {EmojiOf[a]} =>
             s \in Matches(rows, a) /\ s.removed
    BY <2>1, <2>2, KindsApart, RumorsAre DEF TrueRow, Matches
  <2> QED
    BY <2>3, <2>4, <2>5
<1>2. CASE ~(\E s \in rows : s.event = x) /\ x \in Removals
  <2> DEFINE next == Tombstoned(rows, x)
  <2>1. Applied(rows, x) = next
    BY <1>2 DEF Applied
  <2>2. /\ KeysKept(rows, next) /\ RowsTrue(next)
        /\ \A e \in Emojis : Named[x] = {e} =>
             \A r \in rows : r.of = Of[x] /\ r.by = Peer /\ r.emoji = e /\ ~r.removed =>
                \E s \in next : s.of = Of[x] /\ s.by = Peer /\ s.emoji = e /\ s.removed
    BY <1>2, TombstonedTrue
  <2> HIDE DEF next
  <2>3. ASSUME NEW a \in Adds, Of[x] = Of[a], Named[x] = {EmojiOf[a]}, Matches(rows, a) # {}
        PROVE  \E s \in Matches(next, a) : s.removed
    <3>1. PICK r : r \in Matches(rows, a)
      BY <2>3
    <3>2. r \in rows /\ r.of = Of[x] /\ r.by = Peer /\ r.emoji = EmojiOf[a] /\ EmojiOf[a] \in Emojis
      BY <2>3, <3>1, RumorsAre DEF Matches
    <3>3. CASE r.removed
      BY <2>2, <3>1, <3>3, MatchesKept
    <3>4. CASE ~r.removed
      BY <2>2, <2>3, <3>2, <3>4 DEF Matches
    <3> QED
      BY <3>3, <3>4
  <2> QED
    BY <1>2, <2>1, <2>2, <2>3, KindsApart
<1>3. CASE ~(\E s \in rows : s.event = x) /\ x \notin Removals
  <2>1. x \in Adds /\ Applied(rows, x) = Upserted(rows, x)
    BY <1>3 DEF Applied
  <2> QED
    BY <1>3, <2>1, UpsertedTrue
<1> QED
  BY <1>2, <1>1, <1>3

LEMMA ResultTrue ==
    ASSUME NEW t, NEW acts, t.do.op \in RowOps, JobTyped(t.do, acts), RowsTyped(t.seen, acts),
           RowsTrue(t.seen)
    PROVE  KeysKept(t.seen, Result(t)) /\ RowsTrue(Result(t))
<1> DEFINE rows == t.seen
           j == t.do
           Good(next) == KeysKept(rows, next) /\ RowsTrue(next)
<1>0. RowsTyped(rows, acts) /\ JobTyped(j, acts) /\ RowsTrue(rows) /\ j.op \in RowOps
  OBVIOUS
<1> HIDE DEF rows, j
<1>1. Good(Inserted(rows, j))
  <2> DEFINE f == Row(j.id, j.of, Me, j.emoji, Unsent, FALSE)
  <2>1. TrueRow(f)
    BY RumorsAre DEF Row, TrueRow
  <2>2. Inserted(rows, j) \in {rows, rows \cup {f}}
    BY DEF Inserted
  <2> HIDE DEF f
  <2> QED
    BY <1>0, <2>1, <2>2 DEF KeysKept, RowsTrue
<1>2. Good(Taken(rows, j))
  <2> DEFINE mine == Visible(rows, j.of, Me, j.emoji)
  <2>1. CASE mine = {}
    BY <1>0, <2>1 DEF Taken, KeysKept
  <2>2. CASE mine # {}
    <3>1. PICK s \in mine : Taken(rows, j) = Flipped(rows, s, s.event)
      BY <2>2 DEF Taken
    <3>2. s \in rows /\ s.by = Me /\ RowShape(s)
      BY <1>0 DEF Visible, RowsTyped, RowTyped
    <3> DEFINE f == Row(s.id, s.of, s.by, s.emoji, s.event, TRUE)
    <3>3. TrueRow(f)
      BY <3>2, RumorsAre DEF Row, TrueRow
    <3>4. /\ KeysKept(rows, Taken(rows, j))
          /\ \A r \in Taken(rows, j) : r \in rows \/ r = f
      BY <3>1, <3>2, FlippedTrue
    <3> HIDE DEF f
    <3> QED
      BY <1>0, <3>3, <3>4 DEF RowsTrue
  <2> QED
    BY <2>1, <2>2
<1>3. Good(RolledBack(rows, j))
  BY <1>0, RumorsAre DEF RolledBack, KeysKept, RowsTrue, RowsTyped, RowTyped
<1>4. j.op = "inbound" => Good(Applied(rows, j.of))
  BY <1>0, AppliedTrue DEF JobTyped
<1> QED
  BY <1>0, <1>1, <1>2, <1>3, <1>4 DEF Result, RowOps, rows, j
(* A step keeps what is true of the rows; without a wipe it keeps every badge, *)
(* and every message.                                                          *)
LEMMA LateStays ==
    ASSUME ClearsInv, [Next]_vars, ~past'.late
    PROVE  ~past.late
<1>0. PastShape
  BY DEF ClearsInv, PastShape
<1>1. ASSUME NEW takes, NEW gated, past' = TooLate(takes, gated) PROVE ~past.late
  BY <1>0, <1>1 DEF TooLate, PastShape
<1>2. ASSUME NEW t, WriteFails(t) PROVE ~past.late
  <2> DEFINE late == past.late \/ t.by.who \in {"wipe", "undo"}
  <2>1. past' = [past EXCEPT !.faults = past.faults + 1, !.late = late] /\ (past.late => late)
    BY <1>2 DEF WriteFails
  <2> HIDE DEF late
  <2> QED
    BY <1>0, <2>1 DEF PastShape
<1>3. ASSUME Restart PROVE ~past.late
  BY <1>0, <1>3 DEF Restart, PastShape
<1>4. ASSUME NEW w, FindReactionKeys(w) PROVE ~past.late
  BY <1>0, <1>4 DEF FindReactionKeys, PastShape
<1>5. ASSUME BlockContact PROVE ~past.late
  BY <1>0, <1>5 DEF BlockContact, PastShape
<1>6. CASE past' = past
  BY <1>6
<1> QED
  BY <1>1, <1>2, <1>3, <1>4, <1>5, <1>6
     DEF Next, Works, ReadStored, WriteStored, ClearMessages, DeleteReactions, Chats, Acts,
         FetchHistory, ApplyHistorical, Subscribe, Close, HandleGiftWrap, SendMessage, HandleReact,
         Open, MessagePublished, MarkReaction, ReactionPublished, UnblockContact, vars

LEMMA DiskTrue ==
    ASSUME OnceInv, WipeInv, TypeInv, [Next]_vars, ~past'.late, RowsTrue(disk.rows)
    PROVE  RowsTrue(disk'.rows) /\ (wipes = {} => Kept(disk, disk'))
<1>1. RowsTyped(disk.rows, own.acts)
  BY DEF TypeInv
<1>2. RowsTrue(disk'.rows) /\ (wipes = {} => KeysKept(disk.rows, disk'.rows))
  <2>1. CASE disk'.rows = disk.rows
    BY <2>1 DEF KeysKept
  <2>2. CASE disk'.rows # disk.rows
    <3>1. ASSUME disk'.rows = {}, NEW w \in wipes
          PROVE  RowsTrue(disk'.rows) /\ wipes # {}
      BY <3>1 DEF RowsTrue
    <3>2. ASSUME NEW t \in queue.tasks, t.do.op \in RowOps, t.seen = disk.rows,
                 disk'.rows = Result(t)
          PROVE  RowsTrue(disk'.rows) /\ KeysKept(disk.rows, disk'.rows)
      <4>1. JobTyped(t.do, own.acts)
        BY DEF TypeInv, JobsInv
      <4> QED
        BY <1>1, <3>2, <4>1, ResultTrue
    <3> QED
      BY <2>2, <3>1, <3>2, RowsChange
  <2> QED
    BY <2>1, <2>2
<1>3. wipes = {} => disk.chat \subseteq disk'.chat
  BY ChatGrows
<1> QED
  BY <1>2, <1>3 DEF Kept

(* A pass that goes on, as the views and the queue have it                     *)
SamePass(w, u) ==
    /\ w.stage = "pass" /\ u.stage = "pass" /\ u.todo = w.todo /\ u.got = w.got
    /\ u.denied = w.denied /\ (u.calm => w.calm) /\ w.known \subseteq u.known
ViewsPass ==
    \A v \in DOMAIN views' : views'[v].stage = "pass" =>
        v \in DOMAIN views /\ SamePass(views[v], views'[v])
TasksPass ==
    \A u \in queue'.tasks : u.by.who = "pass" =>
        /\ \E s \in queue.tasks : u.by = s.by /\ u.do = s.do /\ u.on = s.on
        /\ \A x \in queue'.tasks : x.by = u.by => x = u
        /\ u.by.n \in DOMAIN views' /\ views'[u.by.n].stage = "pass"
CalmPass ==
    wipes = {} => wipes' = {} \/ \A v \in DOMAIN views' : views'[v].stage = "pass" => ~views'[v].calm
TellsPass ==
    ~past'.late => \A v \in DOMAIN views' : views'[v].stage = "pass" /\ views'[v].calm =>
        \A s \in Passing(v) : \/ \E u \in queue'.tasks : u.by = s.by /\ u.do = s.do
                              \/ Told(disk', views'[v], s.do.of)

LEMMA PassGoesOn ==
    ASSUME OnceInv, WipeInv, TypeInv, PassInv, [Next]_vars, ViewsPass, TasksPass, CalmPass, TellsPass
    PROVE  PassInv'
<1>1. ASSUME NEW w, NEW u, SamePass(w, u)
      PROVE  /\ Left(u) = Left(w) /\ (Ordered(w) => Ordered(u))
             /\ \A s, t : s.do = t.do /\ s.on = t.on /\ OfPass(s, w) => OfPass(t, u)
  <2>1. Left(u) = Left(w)
    BY <1>1 DEF SamePass, Left
  <2> QED
    BY <1>1, <2>1 DEF SamePass, Ordered, OfPass
<1>2. PassesInv'
  <2>1. ASSUME NEW u \in queue'.tasks, u.by.who = "pass"
        PROVE  /\ u.by.n \in DOMAIN views' /\ OfPass(u, views'[u.by.n])
               /\ \A x \in queue'.tasks : x.by = u.by => x = u
    <3>1. PICK s \in queue.tasks : u.by = s.by /\ u.do = s.do /\ u.on = s.on
      BY <2>1 DEF TasksPass
    <3>2. OfPass(s, views[s.by.n])
      BY <2>1, <3>1 DEF PassInv, PassesInv
    <3>3. u.by.n \in DOMAIN views' /\ SamePass(views[u.by.n], views'[u.by.n])
      BY <2>1 DEF TasksPass, ViewsPass
    <3>4. OfPass(u, views'[u.by.n])
      BY <1>1, <3>1, <3>2, <3>3
    <3> QED
      BY <2>1, <3>3, <3>4 DEF TasksPass
  <2>2. ASSUME NEW v \in DOMAIN views', views'[v].stage = "pass" PROVE Ordered(views'[v])
    <3>1. v \in DOMAIN views /\ SamePass(views[v], views'[v])
      BY <2>2 DEF ViewsPass
    <3>2. Ordered(views[v])
      BY <3>1 DEF PassInv, PassesInv, SamePass
    <3> QED
      BY <1>1, <3>1, <3>2
  <2> QED
    BY <2>1, <2>2 DEF PassesInv
<1>3. ASSUME ~past'.late PROVE ~past.late /\ RowsTrue(disk.rows) /\ RowsTrue(disk'.rows)
                               /\ (wipes = {} => Kept(disk, disk'))
  <2>1. ~past.late
    BY <1>3, LateStays DEF WipeInv
  <2>2. RowsTrue(disk.rows)
    BY <2>1 DEF PassInv, TruthInv
  <2> QED
    BY <1>3, <2>1, <2>2, DiskTrue
<1>4. ASSUME ~past'.late, NEW v \in DOMAIN views', views'[v].stage = "pass", views'[v].calm
      PROVE  /\ wipes' = {} /\ ~views'[v].denied
             /\ \A r \in views'[v].got \ Due(v)' : Told(disk', views'[v], r)
  <2>1. v \in DOMAIN views /\ SamePass(views[v], views'[v])
    BY <1>4 DEF ViewsPass
  <2>2. wipes = {} /\ ~views[v].denied /\ \A r \in views[v].got \ Due(v) : Told(disk, views[v], r)
    BY <1>3, <1>4, <2>1 DEF PassInv, TruthInv, SamePass
  <2>3. wipes' = {} /\ ~views'[v].denied
    BY <1>4, <2>1, <2>2 DEF CalmPass, SamePass
  <2>4. ASSUME NEW r \in views'[v].got \ Due(v)' PROVE Told(disk', views'[v], r)
    <3>1. r \in views[v].got /\ r \notin Left(views[v])
      BY <1>1, <2>1, <2>4 DEF SamePass, Due
    <3>2. CASE r \in Due(v)
      <4>1. PICK s \in Passing(v) : r = s.do.of
        BY <3>1, <3>2 DEF Due
      <4>2. ASSUME NEW u \in queue'.tasks, u.by = s.by, u.do = s.do PROVE FALSE
        <5>1. u \in Passing(v)'
          BY <4>2 DEF Passing
        <5> QED
          BY <2>4, <4>1, <4>2, <5>1 DEF Due
      <4> QED
        BY <1>4, <4>1, <4>2 DEF TellsPass
    <3>3. CASE r \notin Due(v)
      <4>1. Told(disk, views[v], r) /\ Kept(disk, disk')
        BY <1>3, <1>4, <2>2, <3>1, <3>3
      <4> QED
        BY <2>1, <4>1, ToldStays DEF SamePass
    <3> QED
      BY <3>2, <3>3
  <2> QED
    BY <2>3, <2>4
<1>5. TruthInv'
  BY <1>3, <1>4 DEF TruthInv
<1> QED
  BY <1>2, <1>5 DEF PassInv
(* One view changes, and the writes that are queued.                           *)
PassStays(v) == v \in DOMAIN views' /\ views'[v].stage = "pass"

LEMMA SameViewsPass ==
    ASSUME UNCHANGED views
    PROVE  ViewsPass /\ \A v \in DOMAIN views : views[v].stage = "pass" => PassStays(v)
BY DEF ViewsPass, SamePass, PassStays

LEMMA OneViewPass ==
    ASSUME NEW v \in DOMAIN views, NEW w, views' = [views EXCEPT ![v] = w],
           w.stage = "pass" => SamePass(views[v], w)
    PROVE  /\ ViewsPass /\ DOMAIN views' = DOMAIN views /\ views'[v] = w
           /\ \A u \in DOMAIN views : views[u].stage = "pass" /\ u # v => PassStays(u)
           /\ w.stage = "pass" => PassStays(v)
<1>1. DOMAIN views' = DOMAIN views /\ \A u \in DOMAIN views : views'[u] = IF u = v THEN w ELSE views[u]
  OBVIOUS
<1> QED
  BY <1>1 DEF ViewsPass, SamePass, PassStays

LEMMA TasksGrow ==
    ASSUME PassesInv, NEW T, queue'.tasks = queue.tasks \cup T, \A t \in T : t.by.who # "pass",
           \A v \in DOMAIN views : views[v].stage = "pass" => PassStays(v)
    PROVE  TasksPass /\ TellsPass
BY DEF PassesInv, OfPass, PassStays, TasksPass, TellsPass, Passing

LEMMA TasksQueued ==
    ASSUME PassesInv, NEW on, NEW job, NEW who, NEW n, who # "pass",
           queue' = Enqueued(on, job, By(who, n)),
           \A v \in DOMAIN views : views[v].stage = "pass" => PassStays(v)
    PROVE  TasksPass /\ TellsPass
<1> DEFINE t0 == Task(on, job, By(who, n))
<1>1. t0.by.who # "pass"
  BY TaskFields, ByWhat
<1>2. queue'.tasks = queue.tasks \cup {t0}
  BY EnqueuedTasks
<1> HIDE DEF t0
<1>3. PICK T : T = {t0}
  OBVIOUS
<1>4. queue'.tasks = queue.tasks \cup T /\ \A t \in T : t.by.who # "pass"
  BY <1>1, <1>2, <1>3
<1> QED
  BY <1>4, TasksGrow

LEMMA TasksSettle ==
    ASSUME QueueInv, LinksInv, PassesInv, NEW t \in queue.tasks, queue' = Settled(t),
           \A v \in DOMAIN views : views[v].stage = "pass" => PassStays(v) \/ t.by = By("pass", v),
           ~past'.late => \A v \in DOMAIN views' :
              views'[v].stage = "pass" /\ views'[v].calm /\ t.by = By("pass", v) =>
                 Told(disk', views'[v], t.do.of)
    PROVE  TasksPass /\ TellsPass
<1>1. ASSUME NEW u \in queue'.tasks, u.by.who = "pass"
      PROVE  /\ \E s \in queue.tasks : u.by = s.by /\ u.do = s.do /\ u.on = s.on
             /\ \A x \in queue'.tasks : x.by = u.by => x = u
             /\ u.by.n \in DOMAIN views' /\ views'[u.by.n].stage = "pass"
  <2>1. PICK s \in queue.tasks \ {t} : u.on = s.on /\ u.by = s.by /\ u.do = s.do /\ u = Freed(s, t)
    BY SettledFields
  <2>2. s.by # t.by /\ s.by = By("pass", s.by.n) /\ s.by.n \in DOMAIN views
        /\ views[s.by.n].stage = "pass"
    BY <1>1, <2>1 DEF PassesInv, LinksInv, OfPass
  <2>3. PassStays(s.by.n)
    BY <2>2
  <2>4. ASSUME NEW x \in queue'.tasks, x.by = u.by PROVE x = u
    <3>1. PICK r \in queue.tasks \ {t} : x.by = r.by /\ x = Freed(r, t)
      BY SettledFields
    <3> QED
      BY <1>1, <2>1, <2>4, <3>1 DEF PassesInv
  <2> QED
    BY <2>1, <2>3, <2>4 DEF PassStays
<1>2. ASSUME ~past'.late, NEW v \in DOMAIN views', views'[v].stage = "pass", views'[v].calm,
             NEW s \in Passing(v)
      PROVE  \/ \E u \in queue'.tasks : u.by = s.by /\ u.do = s.do
             \/ Told(disk', views'[v], s.do.of)
  <2>1. CASE s = t
    BY <1>2, <2>1 DEF Passing
  <2>2. CASE s # t
    <3>1. s \in queue.tasks \ {t}
      BY <2>2 DEF Passing
    <3>2. TaskShape(s)
      BY <3>1, TaskHasShape
    <3>3. queue'.tasks = {Freed(r, t) : r \in queue.tasks \ {t}}
      BY SettledTasks
    <3>4. Freed(s, t).by = s.by /\ Freed(s, t).do = s.do
      BY <3>2, FreedFields
    <3> QED
      BY <3>1, <3>3, <3>4
  <2> QED
    BY <2>1, <2>2
<1> QED
  BY <1>1, <1>2 DEF TasksPass, TellsPass

LEMMA NoWipesAfter ==
    ASSUME NEW t, wipes' = WipesAfter(t)
    PROVE  CalmPass
BY DEF CalmPass, WipesAfter

LEMMA SamePassSame == ASSUME NEW w, w.stage = "pass" PROVE SamePass(w, w)
BY DEF SamePass

(* What a write of a pass leaves                                               *)
LEMMA PassWritten ==
    ASSUME OnceInv, WipeInv, TypeInv, PassInv, NEW t \in queue.tasks, WriteStored(t), ~past.late,
           NEW v \in DOMAIN views, t.by = By("pass", v), views[v].calm,
           NEW u, u.got = views[v].got, t.do.of \in Texts => t.do.of \in u.known
    PROVE  Told(disk', u, t.do.of)
<1> DEFINE w == views[v]
           r == t.do.of
<1>0. t.by.who = "pass" /\ t.by.n = v
  BY ByWhat
<1>1. OfPass(t, w) /\ \A s \in queue.tasks : s.by = t.by => s = t
  BY <1>0 DEF PassInv, PassesInv
<1>2. r \in w.got /\ r \notin Left(w) /\ Ordered(w) /\ w.got \subseteq Rumors
  <2>1. w \in ViewSet
    BY DEF TypeInv, ViewsInv
  <2>2. w.got \subseteq Rumors
    BY <2>1 DEF ViewSet
  <2>3. views[v].stage = "pass" /\ r \in w.got /\ r \notin Left(w)
    BY <1>1 DEF OfPass
  <2> QED
    BY <2>2, <2>3 DEF PassInv, PassesInv
<1>3. /\ RowsTrue(disk.rows) /\ \A a \in w.got \ Due(v) : Told(disk, w, a)
  <2>1. views[v].stage = "pass"
    BY <1>1 DEF OfPass
  <2> QED
    BY <2>1 DEF PassInv, TruthInv
<1>4. CASE r \in Texts
  <2>1. t.on = "chat" /\ t.do.op = "append" /\ t.seen # Unread
    BY <1>1, <1>4 DEF OfPass, WriteStored
  <2>2. t.seen = disk.chat /\ Result(t) = disk.chat \cup {r}
    BY <2>1 DEF WipeInv, SerialInv, Stored, Result
  <2>3. r \in disk'.chat
    BY <2>1, <2>2 DEF WriteStored, OnceInv, DiskInv
  <2> QED
    BY <1>4, <2>3, KindsApart DEF Told
<1>5. CASE r \notin Texts
  <2>1. t.on = "rows" /\ t.do.op = "inbound" /\ r \in Adds \cup Removals
    BY <1>1, <1>2, <1>5, KindsApart DEF OfPass
  <2>2. disk'.rows = Applied(disk.rows, r)
    BY <2>1, WrittenRows DEF Result
  <2>3. /\ r \in Adds => Matches(disk'.rows, r) # {}
        /\ \A a \in Adds : r \in Removals /\ Of[r] = Of[a] /\ Named[r] = {EmojiOf[a]}
                           /\ Matches(disk.rows, a) # {} => \E s \in Matches(disk'.rows, a) : s.removed
    BY <1>3, <2>1, <2>2, AppliedTrue DEF TypeInv
  <2>4. ASSUME r \in Removals, NEW a \in w.got \cap Adds, TakenBack(u, a, r)
        PROVE  \E s \in Matches(disk'.rows, a) : s.removed
    <3>1. Answers(w, a) /\ Of[r] = Of[a] /\ Named[r] = {EmojiOf[a]} /\ At[a] < At[r]
      BY <2>4 DEF TakenBack, Answers
    <3>2. At[a] \in Nat /\ At[r] \in Nat
      BY <1>2, ThreadAssumption
    <3>3. a \notin Left(w)
      BY <1>2, <3>1, <3>2 DEF Ordered, Left
    <3>4. \A s \in Passing(v) : s.do.of # a
      BY <1>1, <2>4, KindsApart DEF Passing
    <3>5. Told(disk, w, a)
      BY <1>3, <3>3, <3>4 DEF Due
    <3>6. Matches(disk.rows, a) # {}
      BY <3>1, <3>5 DEF Told
    <3> QED
      BY <2>3, <2>4, <3>1, <3>6
  <2> QED
    BY <1>5, <2>3, <2>4 DEF Told
<1> QED
  BY <1>4, <1>5
(* The views, one change at a time                                             *)
LEMMA KnownPass ==
    ASSUME ViewsInv, NEW v, NEW K, views' = [views EXCEPT ![v].known = views[v].known \cup K]
    PROVE  /\ ViewsPass /\ DOMAIN views' = DOMAIN views
           /\ \A u \in DOMAIN views :
                /\ views[u].stage = "pass" => PassStays(u)
                /\ views'[u].got = views[u].got /\ views'[u].calm = views[u].calm
                /\ views'[u].stage = views[u].stage
           /\ v \in DOMAIN views => K \subseteq views'[v].known
<1>1. CASE v \in DOMAIN views
  <2> DEFINE old == views[v]
             w == [old EXCEPT !.known = old.known \cup K]
  <2>1. views' = [views EXCEPT ![v] = w]
    OBVIOUS
  <2>2. old \in ViewSet
    BY <1>1 DEF ViewsInv
  <2>3. /\ w.stage = old.stage /\ w.todo = old.todo /\ w.got = old.got /\ w.denied = old.denied
        /\ w.calm = old.calm /\ w.known = old.known \cup K
    <3> HIDE DEF old
    <3> QED
      BY <2>2 DEF ViewSet
  <2> HIDE DEF w
  <2>4. w.stage = "pass" => SamePass(views[v], w)
    BY <2>3 DEF SamePass
  <2>5. \A u \in DOMAIN views : views'[u] = IF u = v THEN w ELSE views[u]
    BY <2>1
  <2>6. /\ ViewsPass /\ DOMAIN views' = DOMAIN views /\ views'[v] = w
        /\ \A u \in DOMAIN views : views[u].stage = "pass" /\ u # v => PassStays(u)
        /\ w.stage = "pass" => PassStays(v)
    BY <1>1, <2>1, <2>4, OneViewPass
  <2>7. \A u \in DOMAIN views : views[u].stage = "pass" => PassStays(u)
    BY <2>3, <2>6
  <2>8. \A u \in DOMAIN views : /\ views'[u].got = views[u].got /\ views'[u].calm = views[u].calm
                                 /\ views'[u].stage = views[u].stage
    BY <2>3, <2>5
  <2> QED
    BY <2>3, <2>6, <2>7, <2>8
<1>2. CASE v \notin DOMAIN views
  <2>1. views' = views
    BY <1>2 DEF ViewsInv
  <2> QED
    BY <1>2, <2>1, SameViewsPass
<1> QED
  BY <1>1, <1>2

LEMMA StoppedStage ==
    ASSUME NEW w
    PROVE  Stopped(w).stage = "off"
BY DEF Stopped, View

LEMMA UnmountedPass ==
    ASSUME NEW w \in ViewSet
    PROVE  /\ w.stage = "pass" => SamePass(w, Unmounted(w))
           /\ Unmounted(w).stage = "pass" => w.stage = "pass"
           /\ Unmounted(w).stage \in {w.stage, "off"}
<1> DEFINE gone == [w EXCEPT !.mounted = FALSE]
<1>1. /\ gone.stage = w.stage /\ gone.todo = w.todo /\ gone.got = w.got /\ gone.denied = w.denied
      /\ gone.calm = w.calm /\ gone.known = w.known
  BY DEF ViewSet
<1>2. Unmounted(w) = IF w.stage = "off" \/ (w.stage = "live" /\ w.mounted) THEN Stopped(gone) ELSE gone
  BY DEF Unmounted
<1> HIDE DEF gone
<1>3. Stopped(gone).stage = "off"
  BY StoppedStage
<1> QED
  BY <1>1, <1>2, <1>3 DEF SamePass

(* The pass whose write is settled goes on with what that write has left.      *)
LEMMA WritePass ==
    ASSUME OnceInv, WipeInv, TypeInv, PassInv, [Next]_vars, NEW t \in queue.tasks, WriteStored(t)
    PROVE  PassInv'
<1>1. QueueInv /\ LinksInv /\ PassesInv /\ ViewsInv
  BY DEF OnceInv, TypeInv, PassInv
<1>2. queue' = Settled(t) /\ views' = ViewsAfter(t) /\ wipes' = WipesAfter(t) /\ past' = past
  BY DEF WriteStored
<1>3. CalmPass
  BY <1>2, NoWipesAfter
<1>4. ViewsPass /\ DOMAIN views' = DOMAIN views
      /\ \A v \in DOMAIN views :
            /\ views[v].stage = "pass" => PassStays(v)
            /\ views'[v].got = views[v].got /\ views'[v].calm = views[v].calm
            /\ t.do.op = "append" /\ t.by = By("pass", v) => t.do.of \in views'[v].known
  <2>1. CASE t.do.op = "append" /\ t.by.who \in {"pass", "live"}
    <3> DEFINE n == t.by.n
               K == {t.do.of}
    <3>1. views' = [views EXCEPT ![n].known = views[n].known \cup K]
      BY <1>2, <2>1 DEF ViewsAfter
    <3>2. \A v : t.by = By("pass", v) => v = n
      BY ByWhat
    <3>3. t.do.of \in K
      OBVIOUS
    <3> HIDE DEF n, K
    <3> QED
      BY <1>1, <3>1, <3>2, <3>3, KnownPass
  <2>2. CASE ~(t.do.op = "append" /\ t.by.who \in {"pass", "live"})
    <3>1. views' = views
      BY <1>2, <2>2 DEF ViewsAfter
    <3>2. \A v : t.by = By("pass", v) => t.do.op # "append"
      BY <2>2, ByWhat
    <3> QED
      BY <3>1, <3>2, SameViewsPass
  <2> QED
    BY <2>1, <2>2
<1>5. ASSUME ~past'.late, NEW v \in DOMAIN views', views'[v].calm, t.by = By("pass", v)
      PROVE  Told(disk', views'[v], t.do.of)
  <2>1. v \in DOMAIN views /\ ~past.late /\ views[v].calm
    BY <1>2, <1>4, <1>5
  <2>2. t.do.of \in Texts => t.do.op = "append"
    BY <1>1, <1>5, ByWhat DEF PassesInv, OfPass
  <2>3. PICK u : u = views'[v]
    OBVIOUS
  <2>4. u.got = views[v].got /\ (t.do.of \in Texts => t.do.of \in u.known)
    BY <1>4, <1>5, <2>1, <2>2, <2>3
  <2>5. Told(disk', u, t.do.of)
    BY <1>5, <2>1, <2>4, PassWritten
  <2> QED
    BY <2>3, <2>5
<1>6. TasksPass /\ TellsPass
  BY <1>1, <1>2, <1>4, <1>5, TasksSettle
<1> QED
  BY <1>3, <1>4, <1>6, PassGoesOn

LEMMA FailPass ==
    ASSUME OnceInv, WipeInv, TypeInv, PassInv, [Next]_vars, NEW t \in queue.tasks, WriteFails(t)
    PROVE  PassInv'
<1>1. QueueInv /\ LinksInv /\ PassesInv /\ ViewsInv
  BY DEF OnceInv, TypeInv, PassInv
<1>2. queue' = Settled(t) /\ wipes' = WipesAfter(t)
  BY DEF WriteFails
<1>3. CalmPass
  BY <1>2, NoWipesAfter
<1>4. /\ ViewsPass
      /\ \A v \in DOMAIN views : views[v].stage = "pass" => PassStays(v) \/ t.by = By("pass", v)
      /\ \A v \in DOMAIN views' : t.by = By("pass", v) => views'[v].stage # "pass"
  <2>1. CASE t.by.who = "pass"
    <3> DEFINE n == t.by.n
               w == Stopped(views[n])
    <3>1. n \in DOMAIN views /\ t.by = By("pass", n)
      BY <1>1, <2>1 DEF PassesInv, LinksInv
    <3>2. views' = [views EXCEPT ![n] = w]
      BY <2>1 DEF WriteFails
    <3>3. w.stage = "off"
      BY StoppedStage
    <3>4. \A v : t.by = By("pass", v) => v = n
      BY ByWhat
    <3> HIDE DEF n, w
    <3> QED
      BY <3>1, <3>2, <3>3, <3>4, OneViewPass
  <2>2. CASE t.by.who # "pass"
    <3>1. views' = views
      BY <2>2 DEF WriteFails
    <3>2. \A v : t.by # By("pass", v)
      BY <2>2, ByWhat
    <3> QED
      BY <3>1, <3>2, SameViewsPass
  <2> QED
    BY <2>1, <2>2
<1>5. TasksPass /\ TellsPass
  BY <1>1, <1>2, <1>4, TasksSettle
<1> QED
  BY <1>3, <1>4, <1>5, PassGoesOn

LEMMA ReadPass ==
    ASSUME OnceInv, WipeInv, TypeInv, PassInv, [Next]_vars, NEW t \in queue.tasks, ReadStored(t)
    PROVE  PassInv'
<1> DEFINE value == IF t.on = "chat" THEN disk.chat ELSE disk.rows
           t2 == [t EXCEPT !.seen = value]
<1>1. queue'.tasks = (queue.tasks \ {t}) \cup {t2} /\ UNCHANGED <<disk, views, own, wipes, past>>
  BY DEF ReadStored, OnceInv, QueueInv
<1>2. t2.by = t.by /\ t2.do = t.do /\ t2.on = t.on
  BY TaskHasShape DEF OnceInv, TaskShape
<1> HIDE DEF t2
<1>3. ViewsPass /\ CalmPass /\ \A v \in DOMAIN views : views[v].stage = "pass" => PassStays(v)
  BY <1>1, SameViewsPass DEF CalmPass
<1>4. \A u \in queue'.tasks : \E s \in queue.tasks :
         u.by = s.by /\ u.do = s.do /\ u.on = s.on /\ (u = s \/ (s = t /\ u = t2))
  BY <1>1, <1>2
<1>5. \A u \in queue'.tasks : u.by.who = "pass" => \A x \in queue'.tasks : x.by = u.by => x = u
  BY <1>1, <1>2 DEF PassInv, PassesInv
<1>6. TasksPass
  BY <1>1, <1>4, <1>5 DEF TasksPass, PassInv, PassesInv, OfPass
<1>7. TellsPass
  BY <1>1, <1>2 DEF TellsPass, Passing
<1> QED
  BY <1>3, <1>6, <1>7, PassGoesOn

LEMMA ClearPass ==
    ASSUME OnceInv, WipeInv, TypeInv, PassInv, [Next]_vars, NEW t \in queue.tasks, ClearMessages(t)
    PROVE  PassInv'
<1>1. QueueInv /\ LinksInv /\ PassesInv
  BY DEF OnceInv, TypeInv, PassInv
<1>2. queue' = Settled(t) /\ wipes' = WipesAfter(t) /\ views' = views /\ t.do.op = "clear"
  BY DEF ClearMessages
<1>3. \A v : t.by # By("pass", v)
  <2>1. t.by.who = "wipe"
    BY <1>2, ByWhat DEF WipeInv, ClearsInv
  <2> QED
    BY <2>1, ByWhat
<1>4. TasksPass /\ TellsPass
  BY <1>1, <1>2, <1>3, SameViewsPass, TasksSettle
<1> QED
  BY <1>2, <1>4, SameViewsPass, NoWipesAfter, PassGoesOn

(* What touches no pass, and queues nothing or the write of something else     *)
LEMMA QuietPass ==
    ASSUME OnceInv, WipeInv, TypeInv, PassInv, [Next]_vars, ViewsPass, CalmPass,
           \A v \in DOMAIN views : views[v].stage = "pass" => PassStays(v),
           queue'.tasks = queue.tasks
    PROVE  PassInv'
<1>1. PICK T : T = {}
  OBVIOUS
<1>2. queue'.tasks = queue.tasks \cup T /\ \A t \in T : t.by.who # "pass"
  BY <1>1
<1>3. TasksPass /\ TellsPass
  BY <1>2, TasksGrow DEF PassInv
<1> QED
  BY <1>3, PassGoesOn

LEMMA QueuedPass ==
    ASSUME OnceInv, WipeInv, TypeInv, PassInv, [Next]_vars, ViewsPass, CalmPass,
           \A v \in DOMAIN views : views[v].stage = "pass" => PassStays(v),
           NEW on, NEW job, NEW who, NEW n, who # "pass", queue' = Enqueued(on, job, By(who, n))
    PROVE  PassInv'
<1>1. TasksPass /\ TellsPass
  BY TasksQueued DEF PassInv
<1> QED
  BY <1>1, PassGoesOn
(* A pass that begins, or takes its next rumor                                 *)
LEMMA PassChanges ==
    ASSUME OnceInv, WipeInv, TypeInv, PassInv, [Next]_vars, UNCHANGED <<disk, wipes>>,
           NEW v \in DOMAIN views, Passing(v) = {},
           NEW w, w.stage = "pass", Ordered(w), views' = [views EXCEPT ![v] = w],
           NEW T, queue'.tasks = queue.tasks \cup T,
           \A t \in T : t.by = By("pass", v) /\ OfPass(t, w) /\ \A u \in T : u = t,
           ~past'.late /\ w.calm =>
              /\ wipes = {} /\ ~w.denied
              /\ \A r \in w.got \ Left(w) : (\E t \in T : r = t.do.of) \/ Told(disk, w, r)
    PROVE  PassInv'
<1>1. /\ DOMAIN views' = DOMAIN views /\ views'[v] = w
      /\ \A u \in DOMAIN views : u # v => views'[u] = views[u]
  OBVIOUS
<1>2. \A t \in queue.tasks : t.by.who = "pass" => t.by.n # v
  BY DEF Passing, TypeInv, LinksInv
<1>3. \A t \in T : t.by.who = "pass" /\ t.by.n = v
  BY ByWhat
<1>4. PassesInv'
  <2>1. ASSUME NEW t \in queue'.tasks, t.by.who = "pass"
        PROVE  /\ t.by.n \in DOMAIN views' /\ OfPass(t, views'[t.by.n])
               /\ \A u \in queue'.tasks : u.by = t.by => u = t
    <3>1. CASE t \in T
      BY <1>1, <1>2, <1>3, <3>1
    <3>2. CASE t \in queue.tasks
      BY <1>1, <1>2, <1>3, <2>1, <3>2 DEF PassInv, PassesInv
    <3> QED
      BY <3>1, <3>2
  <2>2. \A u \in DOMAIN views' : views'[u].stage = "pass" => Ordered(views'[u])
    BY <1>1 DEF PassInv, PassesInv
  <2> QED
    BY <2>1, <2>2 DEF PassesInv
<1>5. ASSUME ~past'.late
      PROVE  /\ RowsTrue(disk'.rows)
             /\ \A u \in DOMAIN views' : views'[u].stage = "pass" /\ views'[u].calm =>
                  /\ wipes' = {} /\ ~views'[u].denied
                  /\ \A r \in views'[u].got \ Due(u)' : Told(disk', views'[u], r)
  <2>1. ~past.late
    BY <1>5, LateStays DEF WipeInv
  <2>2. RowsTrue(disk'.rows)
    BY <2>1 DEF PassInv, TruthInv
  <2>3. ASSUME NEW u \in DOMAIN views', views'[u].stage = "pass", views'[u].calm
        PROVE  /\ wipes' = {} /\ ~views'[u].denied
               /\ \A r \in views'[u].got \ Due(u)' : Told(disk', views'[u], r)
    <3>1. CASE u = v
      <4>1. \A r : (\E t \in T : r = t.do.of) => r \in Due(u)'
        BY <3>1 DEF Due, Passing
      <4>2. \A r : r \in Left(w) => r \in Due(u)'
        BY <1>1, <3>1 DEF Due
      <4> QED
        BY <1>1, <1>5, <2>3, <3>1, <4>1, <4>2
    <3>2. CASE u # v
      <4>1. views'[u] = views[u] /\ u \in DOMAIN views
        BY <1>1, <3>2
      <4>2. Due(u) \subseteq Due(u)'
        BY <4>1 DEF Due, Passing
      <4> QED
        BY <2>1, <2>3, <4>1, <4>2 DEF PassInv, TruthInv
    <3> QED
      BY <3>1, <3>2
  <2> QED
    BY <2>2, <2>3
<1> QED
  BY <1>4, <1>5 DEF PassInv, TruthInv

(* All that is fetched is there in order.                                      *)
LEMMA AllLeft ==
    ASSUME NEW got \in SUBSET Rumors, NEW s \in InOrder(got)
    PROVE  {s[i] : i \in DOMAIN s} = got
<1> DEFINE n == Cardinality(got)
           D == 1..n
           R == {s[i] : i \in DOMAIN s}
<1>1. IsFiniteSet(got) /\ n \in Nat
  BY RumorsAre, FS_Subset, FS_CardinalityType
<1>2. s \in [D -> got] /\ \A i, j \in D : i < j => s[i] # s[j]
  BY DEF InOrder
<1>3. \A i, j \in D : s[i] = s[j] => i = j
  <2> HIDE DEF n
  <2> QED
    BY <1>1, <1>2
<1>4. IsFiniteSet(D) /\ Cardinality(D) = n
  <2> HIDE DEF n
  <2> QED
    BY <1>1, FS_Interval
<1> HIDE DEF D
<1>5. s \in Injection(D, got)
  BY <1>2, <1>3 DEF Injection, IsInjective
<1>6. s \in Surjection(D, got)
  BY <1>1, <1>4, <1>5, FS_Injection
<1> QED
  BY <1>2, <1>6 DEF Surjection

LEMMA FetchPass ==
    ASSUME OnceInv, WipeInv, TypeInv, PassInv, [Next]_vars, NEW v \in DOMAIN views, FetchHistory(v)
    PROVE  PassInv'
<1>1. views[v] \in ViewSet /\ views[v].stage = "fetching"
  <2>1. views[v] \in ViewSet
    BY DEF TypeInv, ViewsInv
  <2> QED
    BY <2>1 DEF FetchHistory
<1>2. UNCHANGED <<disk, queue, wipes, past>>
  BY DEF FetchHistory
<1>3. CASE views' = [views EXCEPT ![v] = Stopped(@)]
  <2> DEFINE w == Stopped(views[v])
  <2>1. views' = [views EXCEPT ![v] = w] /\ w.stage = "off"
    BY <1>3, StoppedStage
  <2> HIDE DEF w
  <2>2. ViewsPass /\ \A u \in DOMAIN views : views[u].stage = "pass" => PassStays(u)
    BY <1>1, <2>1, OneViewPass
  <2> QED
    BY <1>2, <2>2, QuietPass DEF CalmPass
<1>4. ASSUME NEW got \in SUBSET Relayed, NEW s \in InOrder(got),
             views' = [views EXCEPT ![v].stage = "pass", ![v].todo = s, ![v].got = got,
                                    ![v].denied = disk.blocked,
                                    ![v].calm = wipes = {} /\ ~disk.blocked]
      PROVE  PassInv'
  <2> DEFINE calm == wipes = {} /\ ~disk.blocked
             w1 == [views[v] EXCEPT !.stage = "pass"]
             w2 == [w1 EXCEPT !.todo = s]
             w3 == [w2 EXCEPT !.got = got]
             w4 == [w3 EXCEPT !.denied = disk.blocked]
             w5 == [w4 EXCEPT !.calm = calm]
  <2>1. got \in SUBSET Rumors /\ s \in Seq(Rumors) /\ "pass" \in Stages /\ calm \in BOOLEAN
    BY RumorsAre, SortedIsSeq DEF Stages
  <2>2. views' = [views EXCEPT ![v] = w5]
    BY <1>4
  <2>3. calm => wipes = {} /\ ~disk.blocked
    OBVIOUS
  <2> HIDE DEF calm, w5
  <2>4. w1 \in ViewSet /\ w1.stage = "pass"
    BY <1>1, <2>1 DEF ViewSet
  <2> HIDE DEF w1
  <2>5. w2 \in ViewSet /\ w2.stage = "pass" /\ w2.todo = s
    BY <2>1, <2>4 DEF ViewSet
  <2> HIDE DEF w2
  <2>6. w3 \in ViewSet /\ w3.stage = "pass" /\ w3.todo = s /\ w3.got = got
    BY <2>1, <2>5 DEF ViewSet
  <2> HIDE DEF w3
  <2>7. disk.blocked \in BOOLEAN
    BY DEF TypeInv
  <2>8. /\ w4 \in ViewSet /\ w4.stage = "pass" /\ w4.todo = s /\ w4.got = got
        /\ w4.denied = disk.blocked
    BY <2>6, <2>7 DEF ViewSet
  <2> HIDE DEF w4
  <2>9. /\ w5.stage = "pass" /\ w5.todo = s /\ w5.got = got /\ w5.denied = disk.blocked
        /\ w5.calm = calm
    BY <2>1, <2>8 DEF ViewSet, w5
  <2>10. Left(w5) = got
    BY <2>1, <2>9, AllLeft DEF Left
  <2>11. Ordered(w5)
    BY <2>9, <2>10 DEF Ordered, InOrder
  <2>12. Passing(v) = {}
    <3>1. \A t \in Passing(v) : t \in queue.tasks /\ t.by.who = "pass" /\ t.by.n = v
      BY ByWhat DEF Passing
    <3> QED
      BY <1>1, <3>1 DEF PassInv, PassesInv, OfPass
  <2>13. PICK T : T = {}
    OBVIOUS
  <2>14. queue'.tasks = queue.tasks \cup T
    BY <1>2, <2>13
  <2> QED
    BY <1>2, <2>2, <2>3, <2>9, <2>10, <2>11, <2>12, <2>13, <2>14, PassChanges
<1> QED
  BY <1>3, <1>4 DEF FetchHistory

(* The head of what is left, and the rest                                      *)
LEMMA NextLeft ==
    ASSUME NEW w, NEW S, S \subseteq Rumors, w.todo \in Seq(S), w.todo # <<>>, Ordered(w), w.got = S,
           NEW u, u.todo = Tail(w.todo), u.got = w.got
    PROVE  LET r == Head(w.todo) IN
           /\ r \in S /\ Left(w) = Left(u) \cup {r} /\ r \notin Left(u) /\ Ordered(u)
           /\ \A a \in S : At[a] < At[r] => a \notin Left(w)
<1> DEFINE s == w.todo
           r == Head(s)
<1>1. /\ s \in Seq(S) /\ s # <<>> /\ w.got = S
      /\ \A i, j \in DOMAIN s : i < j => s[i] # s[j] /\ At[s[i]] <= At[s[j]]
      /\ \A a \in S \ Left(w) : \A i \in DOMAIN s : At[a] <= At[s[i]]
  BY DEF Ordered
<1>2. Left(w) = {s[i] : i \in DOMAIN s}
  BY DEF Left
<1>3. Left(u) = {Tail(s)[i] : i \in DOMAIN Tail(s)}
  BY DEF Left
<1>4. \A a \in S : At[a] \in Nat
  BY ThreadAssumption
<1> HIDE DEF s
<1>5. /\ Len(s) \in Nat \ {0} /\ DOMAIN s = 1..Len(s) /\ r = s[1] /\ r \in S
      /\ DOMAIN Tail(s) = 1..(Len(s) - 1) /\ \A i \in 1..(Len(s) - 1) : Tail(s)[i] = s[i + 1]
      /\ \A i \in DOMAIN s : s[i] \in S
  BY <1>1
<1> HIDE DEF r
<1>6. Left(u) = {s[i] : i \in 2..Len(s)}
  <2>1. ASSUME NEW i \in 2..Len(s) PROVE s[i] \in Left(u)
    <3>1. i - 1 \in 1..(Len(s) - 1) /\ (i - 1) + 1 = i
      BY <1>5
    <3>2. Tail(s)[i - 1] = s[i]
      BY <1>5, <3>1
    <3> QED
      BY <1>3, <1>5, <3>1, <3>2
  <2>2. ASSUME NEW i \in 1..(Len(s) - 1) PROVE Tail(s)[i] \in {s[j] : j \in 2..Len(s)}
    <3>1. i + 1 \in 2..Len(s)
      BY <1>5
    <3> QED
      BY <1>5, <3>1
  <2> QED
    BY <1>3, <1>5, <2>1, <2>2
<1>7. Left(w) = Left(u) \cup {r}
  <2>1. DOMAIN s = 2..Len(s) \cup {1}
    BY <1>5
  <2> QED
    BY <1>2, <1>5, <1>6, <2>1
<1>8. \A i \in 2..Len(s) : s[i] # r /\ At[r] <= At[s[i]]
  <2> SUFFICES ASSUME NEW i \in 2..Len(s) PROVE s[i] # r /\ At[r] <= At[s[i]]
    OBVIOUS
  <2>1. 1 \in DOMAIN s /\ i \in DOMAIN s /\ 1 < i
    BY <1>5
  <2> QED
    BY <1>1, <1>5, <2>1
<1>9. r \notin Left(u)
  BY <1>6, <1>8
<1>10. Ordered(u)
  <2> DEFINE tl == Tail(s)
  <2>1. u.todo = tl /\ u.got = S
    BY <1>1 DEF s
  <2>2. ASSUME NEW i \in DOMAIN tl, NEW j \in DOMAIN tl, i < j
        PROVE  tl[i] # tl[j] /\ At[tl[i]] <= At[tl[j]]
    <3>1. i + 1 \in DOMAIN s /\ j + 1 \in DOMAIN s /\ i + 1 < j + 1
      BY <1>5, <2>2
    <3> QED
      BY <1>1, <1>5, <3>1
  <2>3. ASSUME NEW a \in S \ Left(u), NEW i \in DOMAIN tl
        PROVE  At[a] <= At[tl[i]]
    <3>1. i + 1 \in 2..Len(s) /\ i + 1 \in DOMAIN s /\ tl[i] = s[i + 1]
      BY <1>5
    <3>2. CASE a = r
      BY <1>8, <3>1, <3>2
    <3>3. CASE a # r
      BY <1>1, <1>7, <3>1, <3>3
    <3> QED
      BY <3>2, <3>3
  <2> HIDE DEF tl
  <2> QED
    BY <2>1, <2>2, <2>3 DEF Ordered
<1>11. ASSUME NEW a \in S, At[a] < At[r] PROVE a \notin Left(w)
  <2>1. a # r /\ ~(At[r] <= At[a])
    BY <1>4, <1>5, <1>11
  <2> QED
    BY <1>6, <1>7, <1>8, <2>1
<1> QED
  BY <1>5, <1>7, <1>9, <1>10, <1>11 DEF r, s
(* A rumor that a calm pass does not take has nothing to tell: its message is  *)
(* none of those that the pass has, or it came before it.                      *)
LEMMA LeftOut ==
    ASSUME NEW d, NEW w, NEW r \in w.got, w.got \subseteq Rumors, r \notin Texts,
           Of[r] \notin w.known,
           \A m \in w.got : At[m] < At[r] => Told(d, w, m)
    PROVE  Told(d, w, r)
<1>1. r \in Adds \cup Removals
  BY KindsApart
<1>2. ASSUME NEW a \in w.got, Answers(w, a), Of[a] = Of[r], At[a] <= At[r], a \in Adds \cup Removals
      PROVE  FALSE
  <2>1. Of[a] \in w.got /\ Of[a] \in Messages /\ At[Of[a]] < At[a]
    BY <1>2, RumorsAre DEF Answers
  <2>2. At[Of[a]] \in Nat /\ At[a] \in Nat /\ At[r] \in Nat
    BY <2>1, ThreadAssumption
  <2>3. At[Of[a]] < At[r]
    BY <1>2, <2>1, <2>2
  <2>4. Told(d, w, Of[a]) /\ Of[a] \in Texts
    BY <2>1, <2>3, KindsApart
  <2> QED
    BY <1>2, <2>4 DEF Told
<1>3. ~Answers(w, r)
  <2>1. At[r] <= At[r]
    BY ThreadAssumption
  <2> QED
    BY <1>1, <1>2, <2>1
<1>4. ASSUME NEW a \in w.got \cap Adds, TakenBack(w, a, r) PROVE FALSE
  <2>1. At[a] \in Nat /\ At[r] \in Nat /\ At[a] < At[r]
    BY <1>4, ThreadAssumption DEF TakenBack
  <2>2. At[a] <= At[r]
    BY <2>1
  <2> QED
    BY <1>2, <1>4, <2>2 DEF TakenBack
<1> QED
  BY <1>3, <1>4 DEF Told

LEMMA ApplyPass ==
    ASSUME OnceInv, WipeInv, TypeInv, PassInv, [Next]_vars, NEW v \in DOMAIN views, ApplyHistorical(v)
    PROVE  PassInv'
<1> DEFINE old == views[v]
           r == Head(old.todo)
           w == [old EXCEPT !.todo = Tail(old.todo)]
           takes == ~old.denied /\ Accepts(v, r)
           chat == r \in Texts
           job == IF chat THEN Job("append", r, Unread, 0) ELSE Job("inbound", r, Unread, 0)
           on == IF chat THEN "chat" ELSE "rows"
           t0 == Task(on, job, By("pass", v))
           T == IF takes THEN {t0} ELSE {}
<1>1. /\ old.stage = "pass" /\ old.todo # <<>> /\ views' = [views EXCEPT ![v] = w]
      /\ queue' = IF takes THEN EnqueuedFor("pass", v, r) ELSE queue
      /\ UNCHANGED <<disk, wipes>>
  BY DEF ApplyHistorical
<1>2. old \in ViewSet /\ old.todo \in Seq(old.got)
  BY DEF TypeInv, ViewsInv
<1>3. Passing(v) = {}
  BY DEF ApplyHistorical, Pending, Passing
<1>4. Ordered(old)
  BY <1>1 DEF PassInv, PassesInv
<1>5. takes <=> ~old.denied /\ (chat \/ Of[r] \in old.known)
  BY DEF Accepts
<1>6. Due(v) = Left(old)
  BY <1>3 DEF Due
<1>7. ~past.late /\ old.calm => /\ wipes = {} /\ ~old.denied
                                /\ \A a \in old.got \ Left(old) : Told(disk, old, a)
  BY <1>1, <1>6 DEF PassInv, TruthInv
<1>8. queue'.tasks = queue.tasks \cup T
  <2>1. CASE takes
    <3>1. queue' = Enqueued(on, job, By("pass", v))
      BY <1>1, <2>1 DEF EnqueuedFor
    <3> HIDE DEF on, job
    <3> QED
      BY <2>1, <3>1, EnqueuedTasks
  <2>2. CASE ~takes
    BY <1>1, <2>2
  <2> QED
    BY <2>1, <2>2
<1>9. /\ t0.by = By("pass", v) /\ t0.do.of = r /\ t0.on = on
      /\ t0.do.op = IF chat THEN "append" ELSE "inbound"
  <2>1. job.of = r /\ job.op = IF chat THEN "append" ELSE "inbound"
    BY JobFields
  <2> HIDE DEF job, on
  <2> QED
    BY <2>1, TaskFields
<1>10. /\ w.stage = "pass" /\ w.todo = Tail(old.todo) /\ w.got = old.got /\ w.known = old.known
       /\ w.calm = old.calm /\ w.denied = old.denied
  <2> HIDE DEF old
  <2> QED
    BY <1>1, <1>2 DEF ViewSet
<1>11. old.got \subseteq Rumors
  <2> HIDE DEF old
  <2> QED
    BY <1>2 DEF ViewSet
<1> HIDE DEF w, old, takes, t0
<1>12. /\ r \in old.got /\ Left(old) = Left(w) \cup {r} /\ r \notin Left(w) /\ Ordered(w)
       /\ \A a \in old.got : At[a] < At[r] => a \notin Left(old)
  BY <1>1, <1>2, <1>4, <1>10, <1>11, NextLeft
<1>13. OfPass(t0, w)
  BY <1>9, <1>10, <1>12 DEF OfPass
<1>14. ASSUME ~past'.late, w.calm
       PROVE  /\ wipes = {} /\ ~w.denied
              /\ \A a \in w.got \ Left(w) : (\E t \in T : a = t.do.of) \/ Told(disk, w, a)
  <2>1. ~past.late
    BY <1>14, LateStays DEF WipeInv
  <2>2. wipes = {} /\ ~w.denied /\ \A a \in old.got \ Left(old) : Told(disk, old, a)
    BY <1>7, <1>10, <1>14, <2>1
  <2>3. Kept(disk, disk)
    BY DEF Kept, KeysKept
  <2>4. \A a \in old.got \ Left(old) : Told(disk, w, a)
    BY <1>10, <2>2, <2>3, ToldStays
  <2>5. CASE takes
    BY <1>9, <1>10, <1>12, <2>2, <2>4, <2>5
  <2>6. CASE ~takes
    <3>1. r \notin Texts /\ Of[r] \notin w.known
      BY <1>5, <1>10, <2>2, <2>6
    <3>2. \A m \in w.got : At[m] < At[r] => Told(disk, w, m)
      BY <1>10, <1>12, <2>4
    <3>3. Told(disk, w, r)
      BY <1>10, <1>11, <1>12, <3>1, <3>2, LeftOut
    <3> QED
      BY <1>10, <1>12, <2>2, <2>4, <3>3
  <2> QED
    BY <2>5, <2>6
<1>15. \A t \in T : t = t0 /\ \A u \in T : u = t
  OBVIOUS
<1>16. \A t \in T : t.by = By("pass", v) /\ OfPass(t, w) /\ \A u \in T : u = t
  BY <1>9, <1>13, <1>15
<1> HIDE DEF T
<1>17. PICK T1, w0 : T1 = T /\ w0 = w
  OBVIOUS
<1>18. /\ views' = [views EXCEPT ![v] = w0] /\ w0.stage = "pass" /\ Ordered(w0)
       /\ queue'.tasks = queue.tasks \cup T1
       /\ \A t \in T1 : t.by = By("pass", v) /\ OfPass(t, w0) /\ \A u \in T1 : u = t
  BY <1>1, <1>8, <1>10, <1>12, <1>16, <1>17
<1>19. ~past'.late /\ w0.calm =>
              /\ wipes = {} /\ ~w0.denied
              /\ \A a \in w0.got \ Left(w0) : (\E t \in T1 : a = t.do.of) \/ Told(disk, w0, a)
  BY <1>14, <1>17
<1> QED
  BY <1>1, <1>3, <1>18, <1>19, PassChanges
(* The other steps of a view: a pass that is over, or goes on though the page  *)
(* is left                                                                     *)
LEMMA SubscribedView ==
    ASSUME NEW v, Subscribe(v)
    PROVE  \E w : views' = [views EXCEPT ![v] = w] /\ w.stage = "live"
<1> DEFINE stored == IF views[v].mounted THEN disk.chat ELSE {}
           w == View(views[v].mounted, views[v].known \cup stored, "live")
<1>1. views' = [views EXCEPT ![v] = w]
  BY DEF Subscribe
<1>2. w.stage = "live"
  BY DEF View
<1> HIDE DEF w
<1> QED
  BY <1>1, <1>2

LEMMA ChatsPass ==
    ASSUME OnceInv, WipeInv, TypeInv, PassInv, [Next]_vars, NEW v \in DOMAIN views, Chats(v)
    PROVE  PassInv'
<1> DEFINE old == views[v]
<1>0. old \in ViewSet
  BY DEF TypeInv, ViewsInv
<1>1. CASE Subscribe(v)
  <2>1. PICK w : views' = [views EXCEPT ![v] = w] /\ w.stage = "live"
    BY <1>1, SubscribedView
  <2>2. UNCHANGED <<queue, wipes>> /\ Passing(v) = {}
    BY <1>1 DEF Subscribe, Pending, Passing
  <2>3. ViewsPass /\ \A u \in DOMAIN views : views[u].stage = "pass" /\ u # v => PassStays(u)
    BY <2>1, OneViewPass
  <2>4. \A t \in queue.tasks : t.by.who = "pass" => t.by.n # v
    BY <2>2 DEF Passing, TypeInv, LinksInv
  <2>5. TasksPass /\ TellsPass
    BY <2>2, <2>3, <2>4 DEF TasksPass, TellsPass, Passing, PassInv, PassesInv, OfPass, PassStays
  <2> QED
    BY <2>2, <2>3, <2>5, PassGoesOn DEF CalmPass
<1>2. CASE Close(v)
  <2> DEFINE w == Unmounted(old)
  <2>1. views' = [views EXCEPT ![v] = w] /\ UNCHANGED <<queue, wipes>>
    BY <1>2 DEF Close
  <2>2. (old.stage = "pass" => SamePass(old, w)) /\ (w.stage = "pass" => old.stage = "pass")
    BY <1>0, UnmountedPass
  <2> HIDE DEF w
  <2>3. ViewsPass /\ \A u \in DOMAIN views : views[u].stage = "pass" => PassStays(u)
    <3>1. old.stage = "pass" => w.stage = "pass"
      BY <2>2 DEF SamePass
    <3> QED
      BY <2>1, <2>2, <3>1, OneViewPass
  <2> QED
    BY <2>1, <2>3, QuietPass DEF CalmPass
<1>3. ASSUME NEW r \in Rumors, HandleGiftWrap(v, r) PROVE PassInv'
  <2> DEFINE w == [old EXCEPT !.heard = old.heard \cup {r}]
             takes == ~disk.blocked /\ Accepts(v, r)
  <2>1. /\ views' = [views EXCEPT ![v] = w] /\ UNCHANGED wipes /\ old.stage = "live"
        /\ queue' = IF takes THEN EnqueuedFor("live", v, r) ELSE queue
    BY <1>3 DEF HandleGiftWrap
  <2>2. w.stage = "live"
    <3>1. old.stage = "live"
      BY <2>1
    <3> HIDE DEF old
    <3> QED
      BY <1>0, <3>1 DEF ViewSet
  <2> HIDE DEF w, takes
  <2>3. ViewsPass /\ CalmPass /\ \A u \in DOMAIN views : views[u].stage = "pass" => PassStays(u)
    BY <2>1, <2>2, OneViewPass DEF CalmPass
  <2>4. CASE ~takes
    BY <2>1, <2>3, <2>4, QuietPass
  <2>5. CASE takes
    <3> DEFINE j1 == Job("append", r, Unread, 0)
               j2 == Job("inbound", r, Unread, 0)
    <3>1. queue' \in {Enqueued("chat", j1, By("live", v)), Enqueued("rows", j2, By("live", v))}
      BY <2>1, <2>5 DEF EnqueuedFor
    <3> HIDE DEF j1, j2
    <3> QED
      BY <2>3, <3>1, QueuedPass
  <2> QED
    BY <2>4, <2>5
<1> QED
  BY <1>1, <1>2, <1>3, FetchPass, ApplyPass DEF Chats

LEMMA ActsPass ==
    ASSUME OnceInv, WipeInv, TypeInv, PassInv, [Next]_vars, NEW v \in DOMAIN views, Acts(v)
    PROVE  PassInv'
<1>1. ASSUME NEW m, SendMessage(v, m) PROVE PassInv'
  <2> DEFINE K == {m}
  <2>1. views' = [views EXCEPT ![v].known = views[v].known \cup K] /\ UNCHANGED <<queue, wipes>>
    BY <1>1 DEF SendMessage
  <2> HIDE DEF K
  <2>2. ViewsPass /\ \A u \in DOMAIN views : views[u].stage = "pass" => PassStays(u)
    BY <2>1, KnownPass DEF TypeInv
  <2> QED
    BY <2>1, <2>2, QuietPass DEF CalmPass
<1>2. ASSUME NEW m, NEW e, HandleReact(v, m, e) PROVE PassInv'
  <2>1. UNCHANGED <<queue, views, wipes>>
    BY <1>2 DEF HandleReact
  <2> QED
    BY <2>1, SameViewsPass, QuietPass DEF CalmPass
<1> QED
  BY <1>1, <1>2 DEF Acts

(* A block ends the calm of every pass.                                        *)
LEMMA BlockPass ==
    ASSUME OnceInv, WipeInv, TypeInv, PassInv, [Next]_vars, BlockContact
    PROVE  PassInv'
<1> DEFINE f == [v \in DOMAIN views |-> [Unmounted(views[v]) EXCEPT !.calm = FALSE]]
<1>1. views' = f
  BY DEF BlockContact
<1>2. ASSUME NEW v \in DOMAIN views
      PROVE  /\ views[v].stage = "pass" => SamePass(views[v], f[v])
             /\ f[v].stage = "pass" => views[v].stage = "pass" /\ ~f[v].calm
  <2> DEFINE w == Unmounted(views[v])
  <2>1. views[v] \in ViewSet /\ views[v].todo \in Seq(views[v].got)
    BY DEF TypeInv, ViewsInv
  <2>2. w \in ViewSet
    BY <2>1, UnmountedFields
  <2>3. (views[v].stage = "pass" => SamePass(views[v], w)) /\ (w.stage = "pass" => views[v].stage = "pass")
    BY <2>1, UnmountedPass
  <2>4. f[v] = [w EXCEPT !.calm = FALSE]
    OBVIOUS
  <2> HIDE DEF w, f
  <2>5. /\ f[v].stage = w.stage /\ f[v].todo = w.todo /\ f[v].got = w.got /\ f[v].denied = w.denied
        /\ f[v].known = w.known /\ f[v].calm = FALSE
    BY <2>2, <2>4 DEF ViewSet
  <2> QED
    BY <2>3, <2>5 DEF SamePass
<1>3. DOMAIN views' = DOMAIN views
  BY <1>1
<1> HIDE DEF f
<1>4. ViewsPass /\ CalmPass
  BY <1>1, <1>2, <1>3 DEF ViewsPass, CalmPass
<1>5. \A v \in DOMAIN views : views[v].stage = "pass" => PassStays(v)
  BY <1>1, <1>2, <1>3 DEF PassStays, SamePass
<1>6. PICK n, job : queue' = Enqueued("chat", job, By("wipe", n))
  BY DEF BlockContact
<1> QED
  BY <1>4, <1>5, <1>6, QueuedPass

LEMMA OtherPass ==
    ASSUME OnceInv, WipeInv, TypeInv, PassInv, [Next]_vars,
           \/ Open \/ UnblockContact \/ Restart \/ UNCHANGED vars
           \/ \E m \in Own : MessagePublished(m)
           \/ \E o \in own.ops : MarkReaction(o) \/ ReactionPublished(o)
           \/ \E w \in wipes : FindReactionKeys(w) \/ DeleteReactions(w)
    PROVE  PassInv'
<1>1. CASE Open
  <2> DEFINE w == View(TRUE, disk.chat, "fetching")
  <2>1. views' = Append(views, w) /\ UNCHANGED <<queue, wipes>>
    BY <1>1 DEF Open
  <2>2. w.stage = "fetching"
    BY DEF View
  <2> HIDE DEF w
  <2>3. views \in Seq(ViewSet) /\ Len(views) \in Nat
    BY DEF TypeInv, ViewsInv
  <2>4. /\ DOMAIN views \subseteq DOMAIN views' /\ \A v \in DOMAIN views : views'[v] = views[v]
        /\ \A v \in DOMAIN views' : v \in DOMAIN views \/ views'[v] = w
    <3>1. DOMAIN views' = 1..(Len(views) + 1) /\ DOMAIN views = 1..Len(views)
      BY <2>1, <2>3
    <3>2. views'[Len(views) + 1] = w /\ \A v \in DOMAIN views : views'[v] = views[v]
      BY <2>1, <2>3
    <3>3. \A v \in DOMAIN views' : v \in DOMAIN views \/ v = Len(views) + 1
      BY <2>3, <3>1
    <3> QED
      BY <2>3, <3>1, <3>2, <3>3
  <2>5. ViewsPass /\ \A v \in DOMAIN views : views[v].stage = "pass" => PassStays(v)
    BY <2>2, <2>4 DEF ViewsPass, PassStays, SamePass
  <2> QED
    BY <2>1, <2>5, QuietPass DEF CalmPass
<1>2. CASE Restart
  <2>1. queue'.tasks = {} /\ wipes' = {}
    BY <1>2 DEF Restart
  <2>2. \A v \in DOMAIN views' : views'[v].stage = "off"
    BY <1>2 DEF Restart, View
  <2>3. ViewsPass /\ TasksPass /\ TellsPass /\ CalmPass
    BY <2>1, <2>2 DEF ViewsPass, TasksPass, TellsPass, CalmPass
  <2> QED
    BY <2>3, PassGoesOn
<1>3. CASE UnblockContact \/ UNCHANGED vars
  <2>1. UNCHANGED <<queue, views, wipes>>
    BY <1>3 DEF UnblockContact, vars
  <2> QED
    BY <2>1, SameViewsPass, QuietPass DEF CalmPass
<1>4. ASSUME UNCHANGED <<views, wipes>>, NEW on, NEW job, NEW who \in {"send", "react", "undo"}, NEW n,
             queue' = queue \/ queue' = Enqueued(on, job, By(who, n))
      PROVE  PassInv'
  <2>1. ViewsPass /\ CalmPass /\ \A v \in DOMAIN views : views[v].stage = "pass" => PassStays(v)
    BY <1>4, SameViewsPass DEF CalmPass
  <2>2. CASE queue' = queue
    BY <2>1, <2>2, QuietPass
  <2>3. CASE queue' = Enqueued(on, job, By(who, n))
    BY <2>1, <2>3, QueuedPass
  <2> QED
    BY <1>4, <2>2, <2>3
<1>5. ASSUME NEW m, MessagePublished(m) PROVE PassInv'
  <2>1. UNCHANGED <<views, wipes>> /\ \E j : queue' = queue \/ queue' = Enqueued("chat", j, By("send", m))
    BY <1>5 DEF MessagePublished
  <2> QED
    BY <1>4, <2>1
<1>6. ASSUME NEW o, MarkReaction(o) PROVE PassInv'
  <2>1. UNCHANGED <<views, wipes>> /\ \E j : queue' = Enqueued("rows", j, By("react", o.n))
    BY <1>6 DEF MarkReaction
  <2> QED
    BY <1>4, <2>1
<1>7. ASSUME NEW o, ReactionPublished(o) PROVE PassInv'
  <2>1. UNCHANGED <<views, wipes>> /\ \E j : queue' = queue \/ queue' = Enqueued("rows", j, By("undo", o.n))
    BY <1>7 DEF ReactionPublished
  <2> QED
    BY <1>4, <2>1
<1>8. ASSUME NEW w \in wipes, FindReactionKeys(w) \/ DeleteReactions(w) PROVE PassInv'
  <2>1. UNCHANGED views /\ wipes # {} /\ queue'.tasks = queue.tasks
    BY <1>8 DEF FindReactionKeys, DeleteReactions, OnceInv, QueueInv
  <2> QED
    BY <2>1, SameViewsPass, QuietPass DEF CalmPass
<1> QED
  BY <1>1, <1>2, <1>3, <1>5, <1>6, <1>7, <1>8

LEMMA PassIsKept ==
    OnceInv /\ WipeInv /\ TypeInv /\ PassInv /\ [Next]_vars => PassInv'
<1> SUFFICES ASSUME OnceInv, WipeInv, TypeInv, PassInv, [Next]_vars PROVE PassInv'
  OBVIOUS
<1>1. CASE Works
  BY <1>1, ReadPass, WritePass, ClearPass, OtherPass DEF Works
<1>2. CASE \E t \in queue.tasks : WriteFails(t)
  BY <1>2, FailPass
<1>3. CASE \E v \in DOMAIN views : Chats(v) \/ Acts(v)
  BY <1>3, ChatsPass, ActsPass
<1>4. CASE BlockContact
  BY <1>4, BlockPass
<1> QED
  BY <1>1, <1>2, <1>3, <1>4, OtherPass DEF Next

LEMMA InitPass == Init => PassInv
<1> SUFFICES ASSUME Init PROVE PassInv
  OBVIOUS
<1>1. queue.tasks = {} /\ DOMAIN views = {}
  BY DEF Init
<1>2. PICK b \in Before :
        disk = [chat |-> b.chat, rows |-> b.rows, keyed |-> b.rows # {}, blocked |-> FALSE]
  BY DEF Init
<1>3. disk.rows = b.rows
  BY <1>2
<1>4. RowsTrue(disk.rows)
  BY <1>3, HistoryAssumption DEF RowsTrue
<1> QED
  BY <1>1, <1>4 DEF PassInv, PassesInv, TruthInv
(* A pass becomes a subscription in one way, when it has nothing left to do.   *)
LEMMA PassEnds ==
    ASSUME TypeInv, [Next]_vars, NEW v \in DOMAIN views, views[v].stage = "pass",
           views'[v].stage = "live"
    PROVE  Subscribe(v)
<1>0. \A u \in DOMAIN views : views[u] \in ViewSet
  BY DEF TypeInv, ViewsInv
<1>1. ASSUME NEW u, NEW w, views' = [views EXCEPT ![u] = w]
      PROVE  u = v /\ w.stage = "live"
  <2>1. views'[v] = IF u = v THEN w ELSE views[v]
    BY <1>1
  <2> QED
    BY <2>1
<1>2. ASSUME UNCHANGED views PROVE FALSE
  BY <1>2
<1>3. ASSUME NEW u, NEW K, views' = [views EXCEPT ![u].known = views[u].known \cup K] PROVE FALSE
  BY <1>3, KnownPass DEF TypeInv
<1>4. ASSUME NEW u, views' = [views EXCEPT ![u] = Stopped(views[u])] PROVE FALSE
  BY <1>1, <1>4, StoppedStage
<1>5. ASSUME NEW u \in DOMAIN views, Chats(u) PROVE Subscribe(v)
  <2>1. CASE Subscribe(u)
    <3>1. PICK w : views' = [views EXCEPT ![u] = w]
      BY <2>1, SubscribedView
    <3> QED
      BY <1>1, <2>1, <3>1
  <2>2. ASSUME FetchHistory(u) PROVE FALSE
    <3>1. views[u].stage = "fetching"
      BY <2>2 DEF FetchHistory
    <3>2. PICK w : views' = [views EXCEPT ![u] = w]
      BY <2>2 DEF FetchHistory
    <3> QED
      BY <1>1, <3>1, <3>2
  <2>3. ASSUME ApplyHistorical(u) PROVE FALSE
    <3> DEFINE old == views[u]
               w == [old EXCEPT !.todo = Tail(old.todo)]
    <3>1. views' = [views EXCEPT ![u] = w]
      BY <2>3 DEF ApplyHistorical
    <3>2. old \in ViewSet
      BY <1>0
    <3>3. w.stage = old.stage
      <4> HIDE DEF old
      <4> QED
        BY <3>2 DEF ViewSet
    <3> HIDE DEF w
    <3> QED
      BY <1>1, <3>1, <3>3
  <2>4. ASSUME Close(u) PROVE FALSE
    <3> DEFINE w == Unmounted(views[u])
    <3>1. views' = [views EXCEPT ![u] = w]
      BY <2>4 DEF Close
    <3>2. w.stage \in {views[u].stage, "off"}
      BY <1>0, UnmountedPass
    <3> HIDE DEF w
    <3> QED
      BY <1>1, <3>1, <3>2
  <2>5. ASSUME NEW r, HandleGiftWrap(u, r) PROVE FALSE
    <3>1. PICK w : views' = [views EXCEPT ![u] = w] /\ views[u].stage = "live"
      BY <2>5 DEF HandleGiftWrap
    <3> QED
      BY <1>1, <3>1
  <2> QED
    BY <1>5, <2>1, <2>2, <2>3, <2>4, <2>5 DEF Chats
<1>6. ASSUME NEW u, NEW m, SendMessage(u, m) PROVE FALSE
  <2> DEFINE K == {m}
  <2>1. views' = [views EXCEPT ![u].known = views[u].known \cup K]
    BY <1>6 DEF SendMessage
  <2> HIDE DEF K
  <2> QED
    BY <1>3, <2>1
<1>7. ASSUME NEW t, WriteStored(t) PROVE FALSE
  <2> DEFINE n == t.by.n
             K == {t.do.of}
  <2>1. views' = views \/ views' = [views EXCEPT ![n].known = views[n].known \cup K]
    BY <1>7 DEF WriteStored, ViewsAfter
  <2> HIDE DEF n, K
  <2> QED
    BY <1>2, <1>3, <2>1
<1>8. ASSUME NEW t, WriteFails(t) PROVE FALSE
  <2>1. views' = views \/ views' = [views EXCEPT ![t.by.n] = Stopped(views[t.by.n])]
    BY <1>8 DEF WriteFails
  <2> QED
    BY <1>2, <1>4, <2>1
<1>9. ASSUME Restart PROVE FALSE
  BY <1>9 DEF Restart, View
<1>10. ASSUME BlockContact PROVE FALSE
  <2> DEFINE w == Unmounted(views[v])
  <2>1. views'[v] = [w EXCEPT !.calm = FALSE]
    BY <1>10 DEF BlockContact
  <2>2. views[v] \in ViewSet /\ views[v].todo \in Seq(views[v].got)
    BY DEF TypeInv, ViewsInv
  <2>3. w \in ViewSet /\ w.stage \in {views[v].stage, "off"}
    BY <2>2, UnmountedFields, UnmountedPass
  <2> HIDE DEF w
  <2>4. [w EXCEPT !.calm = FALSE].stage = w.stage
    BY <2>3 DEF ViewSet
  <2> QED
    BY <2>1, <2>3, <2>4
<1>11. ASSUME Open PROVE FALSE
  <2>1. PICK w : views' = Append(views, w)
    BY <1>11 DEF Open
  <2>2. views \in Seq(ViewSet)
    BY DEF TypeInv, ViewsInv
  <2>3. views'[v] = views[v]
    BY <2>1, <2>2
  <2> QED
    BY <2>3
<1>12. \/ UNCHANGED views \/ Open \/ Restart \/ BlockContact
       \/ \E t \in queue.tasks : WriteStored(t) \/ WriteFails(t)
       \/ \E u \in DOMAIN views : Chats(u) \/ \E m \in Own : SendMessage(u, m)
  BY DEF Next, Works, ReadStored, ClearMessages, FindReactionKeys, DeleteReactions, Acts,
         HandleReact, MessagePublished, MarkReaction, ReactionPublished, UnblockContact, vars
<1> QED
  BY <1>2, <1>5, <1>6, <1>7, <1>8, <1>9, <1>10, <1>11, <1>12

(* What a pass has told of everything it fetched is what the store reflects.   *)
LEMMA AllTold ==
    ASSUME NEW w, w.got \subseteq Rumors, Once(disk.rows), \A r \in w.got : Told(disk, w, r)
    PROVE  Reflected(w.got)
<1>1. w.got \cap Texts \subseteq disk.chat
  BY DEF Told
<1>2. ASSUME NEW a \in w.got \cap Adds, Of[a] \in w.got, At[Of[a]] < At[a]
      PROVE  /\ Matches(disk.rows, a) # {}
             /\ \A x \in w.got \cap Removals :
                  Of[x] = Of[a] /\ Named[x] = {EmojiOf[a]} /\ At[a] < At[x] =>
                      ~Shown(Of[a], Peer, EmojiOf[a])
  <2>1. Answers(w, a)
    BY <1>2 DEF Answers
  <2>2. Matches(disk.rows, a) # {}
    BY <2>1 DEF Told
  <2>3. ASSUME NEW x \in w.got \cap Removals, Of[x] = Of[a], Named[x] = {EmojiOf[a]}, At[a] < At[x]
        PROVE  ~Shown(Of[a], Peer, EmojiOf[a])
    <3>1. PICK s \in Matches(disk.rows, a) : s.removed
      BY <2>1, <2>3 DEF Told, TakenBack
    <3>2. s \in disk.rows /\ s.of = Of[a] /\ s.by = Peer /\ s.emoji = EmojiOf[a]
      BY DEF Matches
    <3>3. Gone(disk.rows, s)
      BY <3>1, <3>2, RemovedIsGone
    <3> QED
      BY <3>2, <3>3 DEF Gone, Shown
  <2> QED
    BY <2>2, <2>3
<1> QED
  BY <1>1, <1>2 DEF Reflected

(* When a history pass ends, the store reflects what it had fetched: every     *)
(* message is there, every reaction that came after its message has its row,   *)
(* and none is shown that a later removal takes back, whatever live handlers,  *)
(* own writes, failures and redeliveries come between, unless the peer was     *)
(* blocked meanwhile (init of ContactChat, applyInboundRumor).                 *)
THEOREM PassesLeaveTheTruth == Spec => PassLeavesTruth
<1>1. ASSUME OnceInv, WipeInv, TypeInv, PassInv, [Next]_vars, NEW v \in DOMAIN views,
             views[v].stage = "pass", views'[v].stage = "live", views[v].calm, ~past.late
      PROVE  Reflected(views[v].got)
  <2>1. ~Pending("pass", v) /\ views[v].todo = <<>>
    BY <1>1, PassEnds DEF Subscribe
  <2>2. Due(v) = {}
    BY <2>1 DEF Due, Left, Passing, Pending
  <2>3. \A r \in views[v].got : Told(disk, views[v], r)
    BY <1>1, <2>2 DEF PassInv, TruthInv
  <2>4. Once(disk.rows)
    BY <1>1 DEF OnceInv, DiskInv
  <2>5. views[v].got \subseteq Rumors
    <3>1. views[v] \in ViewSet
      BY <1>1 DEF TypeInv, ViewsInv
    <3> QED
      BY <3>1 DEF ViewSet
  <2> QED
    BY <2>3, <2>4, <2>5, AllTold
<1>2. OnceInv /\ WipeInv /\ TypeInv /\ PassInv /\ [Next]_vars =>
        \A v \in DOMAIN views :
           views[v].stage = "pass" /\ views'[v].stage = "live" /\ views[v].calm /\ ~past.late
              => Reflected(views[v].got)
  BY <1>1
<1>3. Init => OnceInv /\ WipeInv /\ TypeInv /\ PassInv
  BY InitOnce, InitWipes, InitTyped, InitPass
<1>4. OnceInv /\ WipeInv /\ TypeInv /\ PassInv /\ [Next]_vars =>
        (OnceInv /\ WipeInv /\ TypeInv /\ PassInv)'
  BY OnceIsKept, WipeIsKept, TypeIsKept, PassIsKept
<1> QED
  BY <1>2, <1>3, <1>4, PTL DEF Spec, PassLeavesTruth
=============================================================================
