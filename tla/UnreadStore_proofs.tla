-------------------------- MODULE UnreadStore_proofs --------------------------
(***************************************************************************)
(* Proofs about UnreadStore, for any groups, peers, messages and bounds: its   *)
(* types (TypeCorrect), that a contact whose pairing is not confirmed has no   *)
(* unread badge (PendingContactsStayDark), and that a counter never shows less *)
(* than what is unread (NothingIsMissed).                                      *)
(*                                                                           *)
(* A counter is written long after it was decided what to write, so the first  *)
(* argument follows the keys through the import, the chain and the running     *)
(* scan: none of them names a pending contact, except the startup call that    *)
(* has yet to drop them.  The last one follows what a scan found against what  *)
(* has come since, and the floors against the confirms that own them.          *)
(***************************************************************************)
EXTENDS UnreadStore, FiniteSetTheorems, TLAPS

CallType == [slice : Slices, keys : SUBSET Keys, read : SUBSET Messages,
             by : {"init", "confirm"}]

CountsType == UNION {[D -> Nat] : D \in SUBSET Keys}

JobType == [on : BOOLEAN, todo : SUBSET Keys, next : CountsType,
            touched : SUBSET Keys, passes : Nat, reading : Keys \union {NoKey},
            found : Nat]

(* A job's keys are none of those in S. *)
Avoids(j, S) ==
    /\ j.todo \intersect S = {} /\ j.touched \intersect S = {}
    /\ DOMAIN j.next \intersect S = {}
    /\ j.reading \notin S

Startup(c) == c.slice = "directMessages" /\ c.by = "init"

ViewInv ==
    /\ stored \subseteq Messages /\ read \subseteq Messages
    /\ pending \subseteq Peers
    /\ \A m \in handling : m \in Messages /\ KeyOf[m] \in Groups

CallsInv ==
    /\ importing \in Seq(CallType)
    /\ \A i \in DOMAIN importing :
          Startup(importing[i]) \/ importing[i].keys \intersect pending = {}
    /\ calls \in [Slices -> Seq(CallType)]
    /\ \A s \in Slices : \A i \in DOMAIN calls[s] : calls[s][i].keys \intersect pending = {}

JobsInv ==
    /\ job \in [Slices -> JobType]
    /\ \A s \in Slices : /\ Avoids(job[s], pending)
                         /\ job[s].on => calls[s] # <<>>
                         /\ job[s].reading # NoKey => job[s].on

CountInv ==
    /\ DOMAIN count = Keys
    /\ \A k \in pending : count[k] = 0

(* The inductive invariant of PendingStaysDark. *)
DarkInv == ViewInv /\ CallsInv /\ JobsInv /\ CountInv

-----------------------------------------------------------------------------
LEMMA InitDark == Init => DarkInv
<1> SUFFICES ASSUME Init PROVE DarkInv
  OBVIOUS
<1> USE KeysAssumption
<1>1. ViewInv
  BY DEF Init, ViewInv
<1>2. CallsInv
  <2>1. Call("directMessages", Peers, "init") \in CallType
    BY DEF Init, Call, CallType, Slices, Keys
  <2>2. Startup(Call("directMessages", Peers, "init"))
    BY DEF Startup, Call
  <2> QED BY <2>1, <2>2 DEF Init, CallsInv
<1>3. JobsInv
  <2>1. Empty \in [{} -> Nat] /\ DOMAIN Empty = {}
    BY DEF Empty
  <2>2. NoJob \in JobType
    BY <2>1 DEF NoJob, JobType, CountsType
  <2>3. Avoids(NoJob, pending)
    BY <2>1 DEF Init, NoJob, Avoids, Keys
  <2>4. job = [s \in Slices |-> NoJob] /\ NoJob.on = FALSE /\ NoJob.reading = NoKey
    BY DEF Init, NoJob
  <2> QED BY <2>2, <2>3, <2>4 DEF JobsInv
<1>4. CountInv
  BY DEF Init, CountInv, Keys
<1> QED BY <1>1, <1>2, <1>3, <1>4 DEF DarkInv

-----------------------------------------------------------------------------
(* Steps of the live handlers: they touch the counter and the running scan of *)
(* one key, which is not pending.                                             *)

LEMMA NotedDark ==
    ASSUME JobsInv, NEW k \in Keys, k \notin pending, job' = Noted(k),
           UNCHANGED <<pending, calls>>
    PROVE  JobsInv'
<1> DEFINE s == SliceOf(k)
<1>1. s \in Slices
  BY DEF SliceOf, Slices
<1>2. CASE ~job[s].on
  BY <1>2 DEF Noted, JobsInv, Avoids
<1>3. CASE job[s].on
  <2>1. job' = [job EXCEPT ![s].touched = @ \union {k}]
    BY <1>3 DEF Noted
  <2>2. job' \in [Slices -> JobType]
    <3>1. [job[s] EXCEPT !.touched = @ \union {k}] \in JobType
      BY <1>1 DEF JobsInv, JobType
    <3> QED BY <1>1, <2>1, <3>1 DEF JobsInv
  <2>3. ASSUME NEW r \in Slices
        PROVE  /\ Avoids(job'[r], pending)
               /\ job'[r].on = job[r].on /\ job'[r].reading = job[r].reading
    BY <1>1, <2>1 DEF JobsInv, JobType, Avoids
  <2> QED BY <2>2, <2>3 DEF JobsInv
<1> QED BY <1>2, <1>3

LEMMA BumpDark ==
    ASSUME JobsInv, CountInv, NEW k \in Keys, k \notin pending, Bump(k),
           UNCHANGED <<pending, calls>>
    PROVE  JobsInv' /\ CountInv'
<1>1. JobsInv'
  BY NotedDark DEF Bump
<1>2. CountInv'
  BY DEF Bump, CountInv
<1> QED BY <1>1, <1>2

LEMMA MarkDark ==
    ASSUME ViewInv, CountInv, NEW k \in Keys, Mark(k), UNCHANGED pending
    PROVE  CountInv' /\ read' \subseteq Messages
BY DEF ViewInv, CountInv, Mark, In

(* The end of a read, or of none: what is written avoids what is pending.     *)
LEMMA AdvanceDark ==
    ASSUME DarkInv, NEW s \in Slices, NEW j \in JobType, Avoids(j, pending),
           j.on, j.reading = NoKey, calls[s] # <<>>, Advance(s, j),
           UNCHANGED <<stored, read, pending, handling, importing>>
    PROVE  DarkInv'
<1> USE DEF DarkInv
<1> DEFINE again == [j EXCEPT !.todo = j.touched, !.touched = {}, !.passes = @ + 1]
<1>1. ViewInv'
  BY DEF ViewInv
<1>2. CASE job' = [job EXCEPT ![s] = j] /\ UNCHANGED <<count, calls>>
  <2>1. JobsInv'
    BY <1>2 DEF JobsInv
  <2>2. CallsInv' /\ CountInv'
    BY <1>2 DEF CallsInv, CountInv
  <2> QED BY <1>1, <2>1, <2>2
<1>3. CASE job' = [job EXCEPT ![s] = again] /\ UNCHANGED <<count, calls>>
  <2>1. /\ again \in JobType /\ Avoids(again, pending)
        /\ again.on = j.on /\ again.reading = j.reading
    <3>1. /\ again.todo = j.touched /\ again.touched = {} /\ again.next = j.next
          /\ again.on = j.on /\ again.reading = j.reading
      BY DEF JobType
    <3>2. again \in JobType
      <4>1. [j EXCEPT !.todo = j.touched, !.touched = {}] \in JobType
        BY DEF JobType
      <4>2. j.passes + 1 \in Nat
        BY DEF JobType
      <4> QED BY <4>1, <4>2 DEF JobType
    <3> HIDE DEF again
    <3>3. Avoids(again, pending)
      BY <3>1 DEF Avoids
    <3> QED BY <3>1, <3>2, <3>3
  <2>2. JobsInv'
    BY <1>3, <2>1 DEF JobsInv
  <2>3. CallsInv' /\ CountInv'
    BY <1>3 DEF CallsInv, CountInv
  <2> QED BY <1>1, <2>2, <2>3
<1>4. CASE /\ \/ count' = Written(count, j)
              \/ count' = Floored(Written(count, j), Head(calls[s]).keys)
           /\ job' = [job EXCEPT ![s] = NoJob]
           /\ calls' = [calls EXCEPT ![s] = Tail(@)]
  <2> DEFINE c == calls[s]
  <2>0. c \in Seq(CallType) /\ c # <<>> /\ \A i \in DOMAIN c : c[i].keys \intersect pending = {}
    BY DEF CallsInv
  <2>1. /\ Tail(c) \in Seq(CallType)
        /\ \A i \in DOMAIN Tail(c) : Tail(c)[i].keys \intersect pending = {}
        /\ Head(c).keys \intersect pending = {}
    <3> HIDE DEF c
    <3>1. Tail(c) \in Seq(CallType) /\ Len(Tail(c)) = Len(c) - 1 /\ Len(c) \in Nat \ {0}
      BY <2>0
    <3>2. \A i \in 1..Len(Tail(c)) : Tail(c)[i] = c[i + 1] /\ i + 1 \in DOMAIN c
      BY <2>0, <3>1
    <3>3. Head(c) = c[1] /\ 1 \in DOMAIN c
      BY <2>0, <3>1
    <3> QED BY <2>0, <3>1, <3>2, <3>3
  <2>2. CallsInv'
    BY <1>4, <2>1 DEF CallsInv
  <2>3. CountInv'
    <3>1. /\ DOMAIN Written(count, j) = Keys
          /\ \A k \in pending : k \in Keys /\ Written(count, j)[k] = 0
      BY DEF CountInv, Written, Avoids, ViewInv, Keys
    <3>2. DOMAIN count' = Keys
      BY <1>4, <3>1 DEF Floored
    <3>3. \A k \in pending : count'[k] = 0
      BY <1>4, <2>1, <3>1 DEF Floored
    <3> QED BY <1>4, <3>2, <3>3 DEF CountInv
  <2>4. NoJob \in JobType /\ Avoids(NoJob, pending) /\ ~NoJob.on /\ NoJob.reading = NoKey
    <3>1. Empty \in [{} -> Nat] /\ DOMAIN Empty = {}
      BY DEF Empty
    <3>2. NoKey \notin pending
      BY KeysAssumption DEF ViewInv, Keys
    <3> QED BY <3>1, <3>2 DEF NoJob, JobType, CountsType, Avoids
  <2>5. JobsInv'
    <3>1. job' \in [Slices -> JobType]
      BY <1>4, <2>4 DEF JobsInv
    <3>2. \A r \in Slices : job'[r] = IF r = s THEN NoJob ELSE job[r]
      BY <1>4 DEF JobsInv
    <3>3. \A r \in Slices \ {s} : calls'[r] = calls[r]
      BY <1>4 DEF CallsInv
    <3> QED BY <2>4, <3>1, <3>2, <3>3 DEF JobsInv
  <2> QED BY <1>1, <2>2, <2>3, <2>5
<1> QED BY <1>2, <1>3, <1>4 DEF Advance

-----------------------------------------------------------------------------
(* The scan that begins. *)
Fresh(keys) == [NoJob EXCEPT !.on = TRUE, !.todo = keys]
LEMMA FreshJob ==
    ASSUME NEW keys \in SUBSET Keys
    PROVE  /\ Fresh(keys) \in JobType /\ Fresh(keys).on /\ Fresh(keys).todo = keys
           /\ Fresh(keys).touched = {} /\ DOMAIN Fresh(keys).next = {}
           /\ Fresh(keys).passes = 0 /\ Fresh(keys).reading = NoKey
<1>1. Empty \in CountsType /\ DOMAIN Empty = {}
  BY DEF Empty, CountsType
<1>2. NoJob \in JobType
  BY <1>1 DEF NoJob, JobType
<1>3. /\ NoJob.touched = {} /\ DOMAIN NoJob.next = {}
      /\ NoJob.passes = 0 /\ NoJob.reading = NoKey
  BY <1>1 DEF NoJob
<1> QED BY <1>2, <1>3 DEF Fresh, JobType

(* One step, action by action. *)
LEMMA StepDark == DarkInv /\ [Next]_vars => DarkInv'
<1> SUFFICES ASSUME DarkInv, [Next]_vars PROVE DarkInv'
  OBVIOUS
<1> USE KeysAssumption DEF DarkInv
<1>1. ASSUME NEW m \in Messages, StoreMessage(m) PROVE DarkInv'
  BY <1>1 DEF StoreMessage, ViewInv, CallsInv, JobsInv, CountInv
<1>2. ASSUME NEW m \in Messages, CountMessage(m) PROVE DarkInv'
  <2>1. KeyOf[m] \in Keys /\ KeyOf[m] \notin pending
    BY <1>2 DEF CountMessage, ViewInv, Keys
  <2>2. CallsInv' /\ pending' = pending
    BY <1>2 DEF CountMessage, CallsInv
  <2>3. JobsInv' /\ CountInv' /\ read' \subseteq Messages
    <3>1. CASE active = KeyOf[m]
      <4>1. Mark(KeyOf[m]) /\ UNCHANGED <<pending, job, calls>>
        BY <1>2, <3>1 DEF CountMessage
      <4> QED BY <2>1, <4>1, MarkDark DEF JobsInv
    <3>2. CASE active # KeyOf[m]
      <4>1. Bump(KeyOf[m]) /\ UNCHANGED <<pending, calls, read>>
        BY <1>2, <3>2 DEF CountMessage
      <4> QED BY <2>1, <4>1, BumpDark DEF ViewInv
    <3> QED BY <3>1, <3>2
  <2>4. ViewInv'
    BY <1>2, <2>3 DEF CountMessage, ViewInv
  <2> QED BY <2>2, <2>3, <2>4
<1>3. ASSUME NEW m \in Messages, LiveDm(m) PROVE DarkInv'
  <2>1. ViewInv' /\ CallsInv'
    BY <1>3 DEF LiveDm, ViewInv, CallsInv
  <2>2. CASE KeyOf[m] \in pending \/ active = KeyOf[m]
    BY <1>3, <2>1, <2>2 DEF LiveDm, JobsInv, CountInv
  <2>3. CASE ~(KeyOf[m] \in pending \/ active = KeyOf[m])
    <3>1. Bump(KeyOf[m]) /\ UNCHANGED <<pending, calls>> /\ KeyOf[m] \in Keys
      BY <1>3, <2>3 DEF LiveDm, Keys
    <3> QED BY <2>1, <2>3, <3>1, BumpDark
  <2> QED BY <2>2, <2>3
<1>4. ASSUME NEW m \in Messages, StoreDm(m) PROVE DarkInv'
  BY <1>4 DEF StoreDm, ViewInv, CallsInv, JobsInv, CountInv
<1>5. ASSUME NEW k \in Keys, Open(k) PROVE DarkInv'
  <2>1. CountInv' /\ read' \subseteq Messages
    BY <1>5, MarkDark DEF Open
  <2>2. ViewInv' /\ CallsInv' /\ JobsInv'
    BY <1>5, <2>1 DEF Open, ViewInv, CallsInv, JobsInv
  <2> QED BY <2>1, <2>2
<1>6. CASE Close
  BY <1>6 DEF Close, ViewInv, CallsInv, JobsInv, CountInv
<1>7. CASE InitUnreadCounts
  <2> DEFINE c == Call("counts", Groups, "init")
  <2>1. c \in CallType /\ c.keys \intersect pending = {}
    BY DEF Call, CallType, Slices, Keys, ViewInv
  <2>2. importing' = Append(importing, c) /\ UNCHANGED <<pending, calls>>
    BY <1>7 DEF InitUnreadCounts
  <2> HIDE DEF c
  <2>3. CallsInv'
    BY <2>1, <2>2 DEF CallsInv
  <2>4. ViewInv' /\ JobsInv' /\ CountInv'
    BY <1>7 DEF InitUnreadCounts, ViewInv, JobsInv, CountInv
  <2> QED BY <2>3, <2>4
<1>8. ASSUME NEW k \in Peers, Confirm(k) PROVE DarkInv'
  <2> DEFINE c == Call("directMessages", {k}, "confirm")
  <2>1. c \in CallType /\ c.keys = {k}
    BY DEF Call, CallType, Slices, Keys, ViewInv
  <2>2. /\ importing' = Append(importing, c) /\ pending' = pending \ {k}
        /\ UNCHANGED calls
    BY <1>8 DEF Confirm
  <2> HIDE DEF c
  <2>3. CallsInv'
    BY <2>1, <2>2 DEF CallsInv
  <2>4. ViewInv' /\ CountInv'
    BY <1>8 DEF Confirm, ViewInv, CountInv
  <2>5. JobsInv'
    BY <1>8 DEF Confirm, JobsInv, Avoids
  <2> QED BY <2>3, <2>4, <2>5
<1>9. CASE Enqueue
  <2> DEFINE c    == Head(importing)
             keys == IF Startup(c) THEN Scanned ELSE c.keys
             d    == [c EXCEPT !.keys = keys]
  <2>1. c \in CallType /\ (Startup(c) \/ c.keys \intersect pending = {})
    BY <1>9 DEF Enqueue, CallsInv
  <2>2. d \in CallType /\ d.keys \intersect pending = {}
    BY <2>1 DEF CallType, Scanned, Keys
  <2>3. /\ importing' = Tail(importing) /\ importing # <<>>
        /\ calls' = [calls EXCEPT ![c.slice] = Append(@, d)]
        /\ UNCHANGED <<stored, read, pending, count, handling, job>>
    BY <1>9 DEF Enqueue, Startup
  <2>4. c.slice \in Slices
    BY <2>1 DEF CallType
  <2> HIDE DEF c, d
  <2>5. CallsInv'
    <3>1. /\ importing' \in Seq(CallType)
          /\ \A i \in DOMAIN importing' : importing'[i] = importing[i + 1]
                                          /\ i + 1 \in DOMAIN importing
      BY <2>3 DEF CallsInv
    <3>2. calls' \in [Slices -> Seq(CallType)]
      BY <2>2, <2>3, <2>4 DEF CallsInv
    <3>3. ASSUME NEW s \in Slices, NEW i \in DOMAIN calls'[s]
          PROVE  calls'[s][i].keys \intersect pending = {}
      BY <2>2, <2>3, <2>4, <3>3 DEF CallsInv
    <3> QED BY <2>3, <3>1, <3>2, <3>3 DEF CallsInv
  <2>6. ViewInv' /\ CountInv'
    BY <2>3 DEF ViewInv, CountInv
  <2>7. JobsInv'
    <3>1. ASSUME NEW s \in Slices PROVE calls[s] # <<>> => calls'[s] # <<>>
      <4>1. calls[s] \in Seq(CallType)
        BY DEF CallsInv
      <4>2. Append(calls[s], d) # <<>>
        BY <4>1, <2>2
      <4> QED BY <4>2, <2>3, <2>4 DEF CallsInv
    <3> QED BY <2>3, <3>1 DEF JobsInv
  <2> QED BY <2>5, <2>6, <2>7
<1>10. ASSUME NEW s \in Slices, Begin(s) PROVE DarkInv'
  <2> DEFINE j == Fresh(Head(calls[s]).keys)
  <2>1. Head(calls[s]) \in CallType /\ Head(calls[s]).keys \intersect pending = {}
    BY <1>10 DEF Begin, CallsInv
  <2>2. Head(calls[s]).keys \in SUBSET Keys /\ NoKey \notin pending
    BY <2>1 DEF CallType, ViewInv, Keys
  <2>3. j \in JobType /\ Avoids(j, pending) /\ j.on /\ j.reading = NoKey
    BY <2>1, <2>2, FreshJob DEF Avoids
  <2>4. /\ Advance(s, j) /\ calls[s] # <<>>
        /\ UNCHANGED <<stored, read, pending, handling, importing>>
    BY <1>10 DEF Begin, Fresh
  <2> HIDE DEF j
  <2> QED BY <2>3, <2>4, AdvanceDark
<1>11. ASSUME NEW s \in Slices, Read(s) PROVE DarkInv'
  <2>1. PICK k \in job[s].todo :
           job' = [job EXCEPT ![s].reading = k,
                              ![s].found = Cardinality((stored \intersect In(k))
                                                       \ Head(calls[s]).read)]
    BY <1>11 DEF Read
  <2>2. Cardinality((stored \intersect In(k)) \ Head(calls[s]).read) \in Nat
    <3>1. IsFiniteSet((stored \intersect In(k)) \ Head(calls[s]).read)
      BY FS_Subset DEF ViewInv
    <3> QED BY <3>1, FS_CardinalityType
  <2>3. k \in Keys /\ k \notin pending
    BY DEF JobsInv, JobType, Avoids
  <2>4. job' \in [Slices -> JobType]
    <3> DEFINE n == Cardinality((stored \intersect In(k)) \ Head(calls[s]).read)
    <3>1. job \in [Slices -> JobType]
      BY DEF JobsInv
    <3>2. \A m \in Nat : [job[s] EXCEPT !.reading = k, !.found = m] \in JobType
      BY <2>3, <3>1 DEF JobType
    <3>3. job' = [job EXCEPT ![s] = [job[s] EXCEPT !.reading = k, !.found = n]] /\ n \in Nat
      BY <2>1, <2>2, <3>1
    <3> HIDE DEF n
    <3> QED BY <3>1, <3>2, <3>3
  <2>5. ASSUME NEW r \in Slices
        PROVE  /\ Avoids(job'[r], pending) /\ job'[r].on = job[r].on
               /\ job'[r].reading # NoKey => job'[r].on
    BY <1>11, <2>1, <2>3 DEF Read, JobsInv, JobType, Avoids
  <2>6. JobsInv'
    BY <1>11, <2>4, <2>5 DEF Read, JobsInv
  <2>7. ViewInv' /\ CallsInv' /\ CountInv'
    BY <1>11 DEF Read, ViewInv, CallsInv, CountInv
  <2> QED BY <2>6, <2>7
<1>12. ASSUME NEW s \in Slices, Resume(s) PROVE DarkInv'
  <2> DEFINE k == job[s].reading
             n == job[s].found
             next == IF n > 0 THEN Put(job[s].next, k, n) ELSE Drop(job[s].next, k)
             j == [job[s] EXCEPT !.todo = @ \ {k}, !.reading = NoKey, !.found = 0,
                                 !.next = next]
  <2>1. job[s] \in JobType /\ Avoids(job[s], pending) /\ job[s].on /\ calls[s] # <<>>
    BY <1>12 DEF Resume, JobsInv
  <2>2. k \in Keys /\ k \notin pending /\ n \in Nat /\ NoKey \notin pending
    BY <1>12, <2>1 DEF Resume, JobType, Avoids, ViewInv, Keys
  <2>3. PICK D \in SUBSET Keys : job[s].next \in [D -> Nat]
    BY <2>1 DEF JobType, CountsType
  <2>4. /\ next \in [DOMAIN next -> Nat] /\ DOMAIN next \in SUBSET Keys
        /\ DOMAIN next \intersect pending = {}
    <3>1. CASE n > 0
      <4>1. next = Put(job[s].next, k, n)
        BY <3>1
      <4>2. Put(job[s].next, k, n) \in [D \union {k} -> Nat]
        BY <2>2, <2>3 DEF Put
      <4> QED BY <4>1, <4>2, <2>1, <2>2, <2>3 DEF Avoids
    <3>2. CASE ~(n > 0)
      <4>1. next = Drop(job[s].next, k)
        BY <3>2
      <4>2. Drop(job[s].next, k) \in [D \ {k} -> Nat]
        BY <2>3 DEF Drop, Restrict
      <4> QED BY <4>1, <4>2, <2>1, <2>3 DEF Avoids
    <3> QED BY <3>1, <3>2
  <2>5. /\ Advance(s, j)
        /\ UNCHANGED <<stored, read, pending, handling, importing>>
    BY <1>12, <2>1 DEF Resume, JobType
  <2> HIDE DEF next
  <2>6. j \in JobType /\ Avoids(j, pending) /\ j.on /\ j.reading = NoKey
    BY <2>1, <2>2, <2>4 DEF JobType, CountsType, Avoids
  <2> HIDE DEF j
  <2> QED BY <2>1, <2>5, <2>6, AdvanceDark
<1>13. CASE UNCHANGED vars
  BY <1>13 DEF vars, ViewInv, CallsInv, JobsInv, CountInv
<1> QED
  BY <1>1, <1>2, <1>3, <1>4, <1>5, <1>6, <1>7, <1>8, <1>9, <1>10, <1>11, <1>12, <1>13
     DEF Next

(* A contact whose pairing is not confirmed has no unread badge, whatever was *)
(* stored or comes live, and whatever startup scan or confirm of another      *)
(* contact runs (unreadStore.ts, initDirectMessageCounts and its callers).    *)
THEOREM PendingContactsStayDark == Spec => []PendingStaysDark
<1>1. DarkInv => PendingStaysDark
  BY DEF DarkInv, CountInv, PendingStaysDark
<1> QED BY <1>1, InitDark, StepDark, PTL DEF Spec

-----------------------------------------------------------------------------
(* The types.  The keys of a call, and so those its scan reads, touches and    *)
(* writes, stay in the call's slice; a confirm is of the direct messages.      *)

Dms == "directMessages"
Confirms(c) == c.by = "confirm"

SeenInv ==
    /\ active \in Keys \union {NoKey}
    /\ handling \subseteq stored /\ seenDm \subseteq Messages /\ bumped \subseteq seenDm
    /\ ready \subseteq Groups /\ lowered \subseteq Peers /\ subscribed \in BOOLEAN

NumbersInv ==
    /\ count \in [Keys -> Nat]
    /\ DOMAIN floor \subseteq Peers \ pending /\ \A k \in DOMAIN floor : floor[k] \in Nat

InSlice(c, s) == c.slice = s /\ c.keys \subseteq KeysOf(s) /\ (Confirms(c) => s = Dms)

KeptIn(j, s) ==
    /\ j.todo \subseteq KeysOf(s) /\ j.touched \subseteq KeysOf(s) /\ DOMAIN j.next \subseteq KeysOf(s)
    /\ j.passes <= MaxPasses /\ j.reading \in j.todo \union {NoKey}

KeysInv ==
    /\ \A i \in DOMAIN importing : InSlice(importing[i], importing[i].slice)
    /\ \A s \in Slices : \A i \in DOMAIN calls[s] : InSlice(calls[s][i], s)
    /\ \A s \in Slices : KeptIn(job[s], s)

(* The inductive invariant of TypeOK. *)
TypeInv == DarkInv /\ SeenInv /\ NumbersInv /\ KeysInv

LEMMA InitTyped == Init => TypeInv
<1> SUFFICES ASSUME Init PROVE TypeInv
  OBVIOUS
<1> USE KeysAssumption, BoundsAssumption
<1>1. SeenInv
  BY DEF Init, SeenInv
<1>2. NumbersInv
  BY DEF Init, NumbersInv, Empty
<1>3. KeysInv
  <2>1. InSlice(Call(Dms, Peers, "init"), Dms) /\ Call(Dms, Peers, "init").slice = Dms
    BY DEF InSlice, Call, KeysOf, Confirms, Dms
  <2>2. \A s \in Slices : KeptIn(NoJob, s)
    BY DEF KeptIn, NoJob, Empty
  <2> QED BY <2>1, <2>2 DEF Init, KeysInv, Dms
<1> QED BY <1>1, <1>2, <1>3, InitDark DEF TypeInv

LEMMA SliceOfKey == ASSUME NEW k \in Keys PROVE SliceOf(k) \in Slices /\ k \in KeysOf(SliceOf(k))
BY DEF SliceOf, KeysOf, Slices, Keys

LEMMA BumpTyped ==
    ASSUME TypeInv, NEW k \in Keys, k \notin pending, Bump(k), UNCHANGED <<pending, importing, calls>>
    PROVE  NumbersInv' /\ KeysInv'
<1> USE DEF TypeInv
<1> DEFINE s == SliceOf(k)
<1>1. s \in Slices /\ k \in KeysOf(s)
  BY SliceOfKey
<1>2. NumbersInv'
  <2>1. count' \in [Keys -> Nat]
    BY DEF Bump, NumbersInv
  <2>2. /\ DOMAIN floor' = DOMAIN floor
        /\ \A x \in DOMAIN floor : floor'[x] = floor[x] \/ floor'[x] = count'[k]
    BY DEF Bump, Put
  <2> QED BY <2>1, <2>2 DEF NumbersInv
<1>3. \A r \in Slices : KeptIn(job'[r], r)
  <2>1. CASE ~job[s].on
    BY <2>1 DEF Bump, Noted, KeysInv
  <2>2. CASE job[s].on
    <3>1. job' = [job EXCEPT ![s].touched = @ \union {k}]
      BY <2>2 DEF Bump, Noted
    <3> QED BY <1>1, <3>1 DEF KeysInv, KeptIn, DarkInv, JobsInv, JobType
  <2> QED BY <2>1, <2>2
<1> QED BY <1>2, <1>3 DEF KeysInv

LEMMA MarkTyped ==
    ASSUME TypeInv, NEW k \in Keys, Mark(k), UNCHANGED <<pending, floor, seenDm>>
    PROVE  NumbersInv' /\ bumped' \subseteq seenDm' /\ lowered' \subseteq Peers
BY DEF TypeInv, NumbersInv, SeenInv, Mark

LEMMA AdvanceTyped ==
    ASSUME TypeInv, DarkInv', NEW s \in Slices, NEW j \in JobType, KeptIn(j, s),
           j.reading = NoKey, calls[s] # <<>>, Advance(s, j),
           UNCHANGED <<stored, pending, active, handling, seenDm, importing, bumped>>
    PROVE  TypeInv'
<1> USE DEF TypeInv
<1> DEFINE again == [j EXCEPT !.todo = j.touched, !.touched = {}, !.passes = @ + 1]
<1>1. CASE job' = [job EXCEPT ![s] = j] /\ UNCHANGED <<count, calls, subscribed, floor, lowered, ready>>
  BY <1>1 DEF SeenInv, NumbersInv, KeysInv, DarkInv, JobsInv
<1>2. CASE /\ j.passes < MaxPasses /\ job' = [job EXCEPT ![s] = again]
           /\ UNCHANGED <<count, calls, subscribed, floor, lowered, ready>>
  <2>1. KeptIn(again, s)
    <3>1. /\ again.todo = j.touched /\ again.touched = {} /\ again.next = j.next
          /\ again.reading = NoKey
      BY DEF JobType
    <3>2. again.passes = j.passes + 1 /\ j.passes \in Nat
      BY DEF JobType
    <3> HIDE DEF again
    <3> QED BY <1>2, <3>1, <3>2, BoundsAssumption DEF KeptIn
  <2> HIDE DEF again
  <2>2. SeenInv' /\ NumbersInv'
    BY <1>2 DEF SeenInv, NumbersInv
  <2>3. KeysInv'
    BY <1>2, <2>1 DEF KeysInv, DarkInv, JobsInv
  <2> QED BY <2>2, <2>3
<1>3. CASE /\ job' = [job EXCEPT ![s] = NoJob]
           /\ calls' = [calls EXCEPT ![s] = Tail(@)]
           /\ subscribed' = (subscribed \/ s = "directMessages")
           /\ IF Head(calls[s]).by = "confirm"
              THEN /\ count' = Floored(Written(count, j), Head(calls[s]).keys)
                   /\ floor' = Restrict(floor, DOMAIN floor \ Head(calls[s]).keys)
                   /\ lowered' = lowered \union (DOMAIN j.next \ Head(calls[s]).keys)
              ELSE count' = Written(count, j) /\ UNCHANGED <<floor, lowered>>
           /\ ready' = IF s = "counts" THEN (ready \union Head(calls[s]).keys) \ j.touched ELSE ready
  <2> DEFINE q == calls[s]
             c == Head(q)
  <2>1. /\ q \in Seq(CallType) /\ Tail(q) \in Seq(CallType)
        /\ \A i \in DOMAIN Tail(q) : Tail(q)[i] = q[i + 1] /\ i + 1 \in DOMAIN q
        /\ c = q[1] /\ 1 \in DOMAIN q
    BY DEF DarkInv, CallsInv
  <2>2. InSlice(c, s)
    BY <2>1 DEF KeysInv
  <2>3. SeenInv'
    BY <1>3, <2>2 DEF SeenInv, InSlice, KeysOf, KeptIn, Dms, Confirms
  <2>4. NumbersInv'
    <3>1. Written(count, j) \in [Keys -> Nat]
      BY DEF Written, NumbersInv, JobType, CountsType
    <3>2. Floored(Written(count, j), c.keys) \in [Keys -> Nat]
      <4> DEFINE w == Written(count, j)
      <4> HIDE DEF w, c
      <4> QED BY <3>1 DEF w, Floored, NumbersInv
    <3>3. DOMAIN floor' \subseteq DOMAIN floor /\ \A k \in DOMAIN floor' : floor'[k] = floor[k]
      BY <1>3 DEF Restrict
    <3> HIDE DEF c
    <3> QED BY <1>3, <3>1, <3>2, <3>3 DEF NumbersInv, c
  <2>5. KeysInv'
    <3>1. KeptIn(NoJob, s)
      BY BoundsAssumption DEF KeptIn, NoJob, Empty
    <3>2. \A r \in Slices : KeptIn(job'[r], r)
      BY <1>3, <3>1 DEF KeysInv, DarkInv, JobsInv
    <3>3. \A i \in DOMAIN Tail(q) : InSlice(Tail(q)[i], s)
      BY <2>1 DEF KeysInv
    <3>4. \A r \in Slices : calls'[r] = IF r = s THEN Tail(q) ELSE calls[r]
      BY <1>3 DEF DarkInv, CallsInv
    <3> HIDE DEF q
    <3> QED BY <3>2, <3>3, <3>4 DEF KeysInv
  <2> QED BY <2>3, <2>4, <2>5
<1> QED BY <1>1, <1>2, <1>3 DEF Advance
(* One step, action by action. *)
LEMMA StepTyped == TypeInv /\ [Next]_vars => TypeInv'
<1> SUFFICES ASSUME TypeInv, [Next]_vars PROVE TypeInv'
  OBVIOUS
<1> USE KeysAssumption DEF TypeInv
<1>0. DarkInv'
  BY StepDark
<1>1. ASSUME NEW m \in Messages, StoreMessage(m) PROVE TypeInv'
  BY <1>0, <1>1 DEF StoreMessage, SeenInv, NumbersInv, KeysInv
<1>2. ASSUME NEW m \in Messages, CountMessage(m) PROVE TypeInv'
  <2>1. KeyOf[m] \in Keys /\ KeyOf[m] \notin pending
    BY <1>2 DEF CountMessage, DarkInv, ViewInv, Keys
  <2>2. CASE active = KeyOf[m]
    <3>1. Mark(KeyOf[m]) /\ UNCHANGED <<stored, active, pending, floor, seenDm, job, calls, importing, ready, subscribed>>
      BY <1>2, <2>2 DEF CountMessage
    <3>2. NumbersInv' /\ bumped' \subseteq seenDm' /\ lowered' \subseteq Peers
      BY <2>1, <3>1, MarkTyped
    <3> QED BY <1>0, <1>2, <3>1, <3>2 DEF CountMessage, SeenInv, KeysInv
  <2>3. CASE active # KeyOf[m]
    <3>1. Bump(KeyOf[m]) /\ UNCHANGED <<stored, active, pending, seenDm, bumped, lowered, calls, importing, ready, subscribed>>
      BY <1>2, <2>3 DEF CountMessage
    <3>2. NumbersInv' /\ KeysInv'
      BY <2>1, <3>1, BumpTyped
    <3> QED BY <1>0, <1>2, <3>1, <3>2 DEF CountMessage, SeenInv
  <2> QED BY <2>2, <2>3
<1>3. ASSUME NEW m \in Messages, LiveDm(m) PROVE TypeInv'
  <2>1. SeenInv'
    BY <1>3 DEF LiveDm, SeenInv
  <2>2. CASE KeyOf[m] \in pending \/ active = KeyOf[m]
    BY <1>0, <1>3, <2>1, <2>2 DEF LiveDm, NumbersInv, KeysInv
  <2>3. CASE ~(KeyOf[m] \in pending \/ active = KeyOf[m])
    <3>1. Bump(KeyOf[m]) /\ UNCHANGED <<pending, importing, calls>> /\ KeyOf[m] \in Keys
      BY <1>3, <2>3 DEF LiveDm, Keys
    <3> QED BY <1>0, <2>1, <2>3, <3>1, BumpTyped
  <2> QED BY <2>2, <2>3
<1>4. ASSUME NEW m \in Messages, StoreDm(m) PROVE TypeInv'
  BY <1>0, <1>4 DEF StoreDm, SeenInv, NumbersInv, KeysInv
<1>5. ASSUME NEW k \in Keys, Open(k) PROVE TypeInv'
  <2>1. NumbersInv' /\ bumped' \subseteq seenDm' /\ lowered' \subseteq Peers
    BY <1>5, MarkTyped DEF Open
  <2> QED BY <1>0, <1>5, <2>1 DEF Open, SeenInv, KeysInv
<1>6. CASE Close
  BY <1>0, <1>6 DEF Close, SeenInv, NumbersInv, KeysInv
<1>7. CASE InitUnreadCounts
  <2> DEFINE c == Call("counts", Groups, "init")
  <2>1. InSlice(c, c.slice)
    BY DEF InSlice, Call, KeysOf, Confirms
  <2>2. importing' = Append(importing, c)
    BY <1>7 DEF InitUnreadCounts
  <2>3. \A i \in DOMAIN importing' : importing'[i] = c \/ (i \in DOMAIN importing /\ importing'[i] = importing[i])
    BY <2>2 DEF DarkInv, CallsInv
  <2> HIDE DEF c
  <2> QED BY <1>0, <1>7, <2>1, <2>3 DEF InitUnreadCounts, SeenInv, NumbersInv, KeysInv
<1>8. ASSUME NEW k \in Peers, Confirm(k) PROVE TypeInv'
  <2> DEFINE c == Call("directMessages", {k}, "confirm")
  <2>1. InSlice(c, c.slice)
    BY DEF InSlice, Call, KeysOf, Confirms, Dms
  <2>2. importing' = Append(importing, c)
    BY <1>8 DEF Confirm
  <2>3. \A i \in DOMAIN importing' : importing'[i] = c \/ (i \in DOMAIN importing /\ importing'[i] = importing[i])
    BY <2>2 DEF DarkInv, CallsInv
  <2> HIDE DEF c
  <2> QED BY <1>0, <1>8, <2>1, <2>3 DEF Confirm, SeenInv, NumbersInv, KeysInv
<1>9. CASE Enqueue
  <2> DEFINE c    == Head(importing)
             keys == IF Startup(c) THEN Scanned ELSE c.keys
             d    == [c EXCEPT !.keys = keys]
  <2>1. /\ importing \in Seq(CallType) /\ importing # <<>> /\ importing' = Tail(importing)
        /\ calls' = [calls EXCEPT ![c.slice] = Append(@, d)]
        /\ floor' = IF c.by = "confirm"
                    THEN [k \in DOMAIN floor \union keys |-> IF k \in keys THEN count[k] ELSE floor[k]]
                    ELSE floor
        /\ UNCHANGED <<stored, pending, active, count, handling, seenDm, subscribed, job, bumped, lowered, ready>>
    BY <1>9 DEF Enqueue, Startup, DarkInv, CallsInv
  <2>2. /\ \A i \in DOMAIN importing' : importing'[i] = importing[i + 1] /\ i + 1 \in DOMAIN importing
        /\ c \in CallType /\ c = importing[1] /\ 1 \in DOMAIN importing
    BY <2>1
  <2>3. /\ d.slice = c.slice /\ d.by = c.by /\ d.keys = keys
        /\ Startup(c) \/ c.keys \intersect pending = {}
    BY <2>2 DEF CallType, DarkInv, CallsInv
  <2>4. InSlice(c, c.slice) /\ c.slice \in Slices
    BY <2>2 DEF KeysInv, CallType
  <2> HIDE DEF c, d
  <2>5. InSlice(d, c.slice)
    BY <2>3, <2>4 DEF InSlice, Scanned, KeysOf, Startup, Confirms
  <2>6. \A s \in Slices : \A i \in DOMAIN calls'[s] : InSlice(calls'[s][i], s)
    <3>1. calls \in [Slices -> Seq(CallType)]
      BY DEF DarkInv, CallsInv
    <3> QED BY <2>1, <2>4, <2>5, <3>1 DEF KeysInv
  <2>7. NumbersInv'
    <3>1. CASE c.by # "confirm"
      BY <2>1, <3>1 DEF NumbersInv
    <3>2. CASE c.by = "confirm"
      <4>1. keys = c.keys /\ c.keys \subseteq Peers \ pending
        BY <2>3, <2>4, <3>2 DEF InSlice, Confirms, KeysOf, Startup, Dms
      <4> HIDE DEF keys
      <4> QED BY <2>1, <3>2, <4>1 DEF NumbersInv, Keys
    <3> QED BY <3>1, <3>2
  <2> QED BY <1>0, <2>1, <2>2, <2>6, <2>7 DEF SeenInv, KeysInv
<1>10. ASSUME NEW s \in Slices, Begin(s) PROVE TypeInv'
  <2> DEFINE j == Fresh(Head(calls[s]).keys)
  <2>1. Head(calls[s]) \in CallType /\ InSlice(Head(calls[s]), s)
    BY <1>10 DEF Begin, DarkInv, CallsInv, KeysInv
  <2>2. Head(calls[s]).keys \in SUBSET Keys
    BY <2>1 DEF CallType
  <2>3. j \in JobType /\ j.reading = NoKey
    BY <2>2, FreshJob
  <2>4. KeptIn(j, s)
    BY <2>1, <2>2, FreshJob, BoundsAssumption DEF KeptIn, InSlice
  <2>5. /\ Advance(s, j) /\ calls[s] # <<>>
        /\ UNCHANGED <<stored, pending, active, handling, seenDm, importing, bumped>>
    BY <1>10 DEF Begin, Fresh
  <2> HIDE DEF j
  <2> QED BY <1>0, <2>3, <2>4, <2>5, AdvanceTyped
<1>11. ASSUME NEW s \in Slices, Read(s) PROVE TypeInv'
  <2>1. PICK k \in job[s].todo :
           job' = [job EXCEPT ![s].reading = k,
                              ![s].found = Cardinality((stored \intersect In(k))
                                                       \ Head(calls[s]).read)]
    BY <1>11 DEF Read
  <2>2. \A r \in Slices : KeptIn(job'[r], r)
    BY <2>1 DEF KeysInv, KeptIn, DarkInv, JobsInv, JobType
  <2> QED BY <1>0, <1>11, <2>2 DEF Read, SeenInv, NumbersInv, KeysInv
<1>12. ASSUME NEW s \in Slices, Resume(s) PROVE TypeInv'
  <2> DEFINE k == job[s].reading
             n == job[s].found
             next == IF n > 0 THEN Put(job[s].next, k, n) ELSE Drop(job[s].next, k)
             j == [job[s] EXCEPT !.todo = @ \ {k}, !.reading = NoKey, !.found = 0,
                                 !.next = next]
  <2>1. job[s] \in JobType /\ calls[s] # <<>> /\ KeptIn(job[s], s) /\ k # NoKey
    BY <1>12 DEF Resume, DarkInv, JobsInv, KeysInv
  <2>2. k \in KeysOf(s) /\ k \in Keys /\ n \in Nat
    BY <2>1 DEF KeptIn, JobType
  <2>3. next \in CountsType /\ DOMAIN next \subseteq KeysOf(s)
    <3>1. PICK D \in SUBSET Keys : job[s].next \in [D -> Nat]
      BY <2>1 DEF JobType, CountsType
    <3>2. CASE n > 0
      <4>1. next = Put(job[s].next, k, n)
        BY <3>2
      <4>2. Put(job[s].next, k, n) \in [D \union {k} -> Nat]
        BY <2>2, <3>1 DEF Put
      <4> QED BY <2>1, <2>2, <3>1, <4>1, <4>2 DEF CountsType, KeptIn
    <3>3. CASE ~(n > 0)
      <4>1. next = Drop(job[s].next, k)
        BY <3>3
      <4>2. Drop(job[s].next, k) \in [D \ {k} -> Nat]
        BY <3>1 DEF Drop, Restrict
      <4> QED BY <2>1, <3>1, <4>1, <4>2 DEF CountsType, KeptIn
    <3> QED BY <3>2, <3>3
  <2>4. /\ Advance(s, j)
        /\ UNCHANGED <<stored, pending, active, handling, seenDm, importing, bumped>>
    BY <1>12, <2>1 DEF Resume, JobType
  <2> HIDE DEF next
  <2>5. j \in JobType /\ j.reading = NoKey /\ KeptIn(j, s)
    BY <2>1, <2>2, <2>3 DEF JobType, KeptIn
  <2> HIDE DEF j
  <2> QED BY <1>0, <2>1, <2>4, <2>5, AdvanceTyped
<1>13. CASE UNCHANGED vars
  BY <1>0, <1>13 DEF vars, SeenInv, NumbersInv, KeysInv
<1> QED
  BY <1>1, <1>2, <1>3, <1>4, <1>5, <1>6, <1>7, <1>8, <1>9, <1>10, <1>11, <1>12, <1>13
     DEF Next

(* The counters are numbers, a reconcile runs only while its call heads the    *)
(* chain of its slice, reads and touches keys of that slice only, passes no     *)
(* more often than it may, and a floor belongs to a contact that is confirmed   *)
(* (unreadStore.ts, reconcileInit and its callers).                             *)
THEOREM TypeCorrect == Spec => []TypeOK
<1>1. TypeInv => TypeOK
  <2> SUFFICES ASSUME TypeInv PROVE TypeOK
    OBVIOUS
  <2>1. /\ stored \subseteq Messages /\ read \subseteq Messages /\ pending \subseteq Peers
        /\ count \in [Keys -> Nat] /\ SeenInv
        /\ DOMAIN floor \subseteq Peers \ pending /\ \A k \in DOMAIN floor : floor[k] \in Nat
    BY DEF TypeInv, DarkInv, ViewInv, NumbersInv
  <2>2. ASSUME NEW s \in Slices
        PROVE  /\ job[s].on => calls[s] # <<>>
               /\ job[s].todo \union job[s].touched \subseteq KeysOf(s)
               /\ job[s].passes \in 0..MaxPasses
               /\ job[s].reading \in job[s].todo \union {NoKey}
    BY BoundsAssumption DEF TypeInv, DarkInv, JobsInv, JobType, KeysInv, KeptIn
  <2> QED BY <2>1, <2>2 DEF TypeOK, SeenInv
<1> QED BY <1>1, InitTyped, StepTyped, PTL DEF Spec
-----------------------------------------------------------------------------
(* Nothing is missed.  A peer's count is at least its live messages: only a    *)
(* confirm of its own may write it (or that of another, `lowered`), and ends    *)
(* with the floor, which is never below them.  So no confirm may lose the      *)
(* floor to another (OwnedInv), and the startup scan, which has none, must be   *)
(* over before the first live message (StartupInv).                             *)

OwnedInv ==
    /\ \A i \in DOMAIN calls[Dms] :
          Confirms(calls[Dms][i]) => calls[Dms][i].keys \subseteq DOMAIN floor
    /\ \A i, j \in DOMAIN calls[Dms] :
          i # j /\ Confirms(calls[Dms][i]) /\ Confirms(calls[Dms][j])
             => calls[Dms][i].keys \intersect calls[Dms][j].keys = {}
    /\ \A i \in DOMAIN importing, j \in DOMAIN calls[Dms] :
          Confirms(importing[i]) /\ Confirms(calls[Dms][j])
             => importing[i].keys \intersect calls[Dms][j].keys = {}
    /\ \A i, j \in DOMAIN importing :
          i # j /\ Confirms(importing[i]) /\ Confirms(importing[j])
             => importing[i].keys \intersect importing[j].keys = {}

StartupInv ==
    /\ bumped # {} => subscribed
    /\ \A i \in DOMAIN importing :
          Startup(importing[i]) => i = 1 /\ calls[Dms] = <<>> /\ ~subscribed
    /\ \A i \in DOMAIN calls[Dms] : Startup(calls[Dms][i]) => i = 1 /\ ~subscribed

PeersInv ==
    \A k \in Peers \ lowered :
        /\ count[k] >= Cardinality(bumped \intersect In(k))
        /\ k \in DOMAIN floor => floor[k] >= Cardinality(bumped \intersect In(k))

LEMMA DmsIsASlice == Dms \in Slices /\ Dms # "counts"
BY DEF Dms, Slices

LEMMA InitOwned == Init => OwnedInv /\ StartupInv /\ PeersInv
<1> SUFFICES ASSUME Init PROVE OwnedInv /\ StartupInv /\ PeersInv
  OBVIOUS
<1> DEFINE c == Call("directMessages", Peers, "init")
<1>1. /\ importing = <<c>> /\ ~Confirms(c) /\ calls[Dms] = <<>>
      /\ bumped = {} /\ subscribed = FALSE /\ count = [k \in Keys |-> 0] /\ DOMAIN floor = {}
  BY DmsIsASlice DEF Init, Confirms, Call, Empty
<1> HIDE DEF c
<1>2. DOMAIN importing = {1} /\ importing[1] = c /\ DOMAIN calls[Dms] = {}
  BY <1>1
<1>3. OwnedInv /\ StartupInv
  BY <1>1, <1>2 DEF OwnedInv, StartupInv
<1>4. PeersInv
  BY <1>1, FS_EmptySet DEF PeersInv, Keys
<1> QED BY <1>3, <1>4

(* The steps that leave the queues and the floors' owners alone. *)
LEMMA QuietOwned ==
    ASSUME OwnedInv, StartupInv, UNCHANGED <<importing, calls, subscribed>>,
           DOMAIN floor' = DOMAIN floor, bumped' # {} => bumped # {} \/ subscribed
    PROVE  OwnedInv' /\ StartupInv'
BY DEF OwnedInv, StartupInv

LEMMA BumpKeepsOwners == ASSUME NEW k \in Keys, Bump(k) PROVE DOMAIN floor' = DOMAIN floor
BY DEF Bump, Put

(* The end of a scan: its call leaves the chain and gives up its floor. *)
LEMMA AdvanceOwned ==
    ASSUME TypeInv, OwnedInv, StartupInv, NEW s \in Slices, NEW j, calls[s] # <<>>, Advance(s, j),
           UNCHANGED <<importing, bumped>>
    PROVE  OwnedInv' /\ StartupInv'
<1>1. CASE UNCHANGED <<calls, subscribed, floor>>
  BY <1>1, QuietOwned
<1>2. CASE /\ calls' = [calls EXCEPT ![s] = Tail(@)]
           /\ subscribed' = (subscribed \/ s = "directMessages")
           /\ IF Head(calls[s]).by = "confirm"
              THEN floor' = Restrict(floor, DOMAIN floor \ Head(calls[s]).keys)
              ELSE UNCHANGED floor
  <2> DEFINE q == calls[s]
             c == Head(q)
  <2>1. /\ q \in Seq(CallType) /\ calls \in [Slices -> Seq(CallType)]
        /\ \A i \in DOMAIN Tail(q) : Tail(q)[i] = q[i + 1] /\ i + 1 \in DOMAIN q /\ i + 1 # 1
        /\ c = q[1] /\ 1 \in DOMAIN q /\ q # <<>>
    BY DEF TypeInv, DarkInv, CallsInv
  <2>2. InSlice(c, s)
    BY <2>1 DEF TypeInv, KeysInv
  <2>3. CASE s # Dms
    <3>1. UNCHANGED <<subscribed, floor>> /\ calls'[Dms] = calls[Dms]
      BY <1>2, <2>1, <2>2, <2>3, DmsIsASlice DEF InSlice, Confirms, Dms, TypeInv, SeenInv
    <3> QED BY <3>1 DEF OwnedInv, StartupInv
  <2>4. CASE s = Dms
    <3>1. calls'[Dms] = Tail(q) /\ calls[Dms] = q /\ subscribed'
      BY <1>2, <2>1, <2>4, DmsIsASlice DEF Dms
    <3>2. \/ Confirms(c) /\ DOMAIN floor' = DOMAIN floor \ c.keys
          \/ DOMAIN floor' = DOMAIN floor
      BY <1>2 DEF Confirms, Restrict
    <3> HIDE DEF q, c
    <3>3. \A i \in DOMAIN Tail(q) : Confirms(Tail(q)[i]) => Tail(q)[i].keys \subseteq DOMAIN floor'
      BY <2>1, <3>1, <3>2 DEF OwnedInv
    <3>4. OwnedInv'
      <4>1. \A a, b \in DOMAIN Tail(q) :
               a # b /\ Confirms(Tail(q)[a]) /\ Confirms(Tail(q)[b])
                 => Tail(q)[a].keys \intersect Tail(q)[b].keys = {}
        <5>1. \A a, b \in DOMAIN Tail(q) : a # b => a + 1 # b + 1
          BY <2>1
        <5> QED BY <2>1, <3>1, <5>1 DEF OwnedInv
      <4>2. \A a \in DOMAIN importing, b \in DOMAIN Tail(q) :
               Confirms(importing[a]) /\ Confirms(Tail(q)[b])
                 => importing[a].keys \intersect Tail(q)[b].keys = {}
        BY <2>1, <3>1 DEF OwnedInv
      <4> QED BY <3>1, <3>3, <4>1, <4>2 DEF OwnedInv
    <3>5. StartupInv'
      BY <2>1, <3>1 DEF StartupInv
    <3> QED BY <3>4, <3>5
  <2> QED BY <2>3, <2>4
<1> QED BY <1>1, <1>2 DEF Advance

LEMMA StepOwned == TypeInv /\ OwnedInv /\ StartupInv /\ [Next]_vars => OwnedInv' /\ StartupInv'
<1> SUFFICES ASSUME TypeInv, OwnedInv, StartupInv, [Next]_vars PROVE OwnedInv' /\ StartupInv'
  OBVIOUS
<1> USE KeysAssumption
<1>0. /\ importing \in Seq(CallType) /\ calls[Dms] \in Seq(CallType)
      /\ calls \in [Slices -> Seq(CallType)]
  BY DmsIsASlice DEF TypeInv, DarkInv, CallsInv
<1>1. ASSUME NEW m \in Messages, StoreMessage(m) PROVE OwnedInv' /\ StartupInv'
  BY <1>1, QuietOwned DEF StoreMessage
<1>2. ASSUME NEW m \in Messages, CountMessage(m) PROVE OwnedInv' /\ StartupInv'
  <2>1. DOMAIN floor' = DOMAIN floor /\ bumped' \subseteq bumped
    BY <1>2, BumpKeepsOwners DEF CountMessage, Mark
  <2> QED BY <1>2, <2>1, QuietOwned DEF CountMessage
<1>3. ASSUME NEW m \in Messages, LiveDm(m) PROVE OwnedInv' /\ StartupInv'
  <2>1. DOMAIN floor' = DOMAIN floor
    BY <1>3, BumpKeepsOwners DEF LiveDm, Keys
  <2> QED BY <1>3, <2>1, QuietOwned DEF LiveDm
<1>4. ASSUME NEW m \in Messages, StoreDm(m) PROVE OwnedInv' /\ StartupInv'
  BY <1>4, QuietOwned DEF StoreDm
<1>5. ASSUME NEW k \in Keys, Open(k) PROVE OwnedInv' /\ StartupInv'
  BY <1>5, QuietOwned DEF Open, Mark
<1>6. CASE Close
  BY <1>6, QuietOwned DEF Close
<1>7. CASE InitUnreadCounts
  <2> DEFINE c == Call("counts", Groups, "init")
  <2>1. importing' = Append(importing, c) /\ UNCHANGED <<calls, floor, bumped, subscribed>>
        /\ ~Confirms(c) /\ ~Startup(c)
    BY <1>7, DmsIsASlice DEF InitUnreadCounts, Confirms, Call, Startup
  <2> HIDE DEF c
  <2>2. \A i \in DOMAIN importing' : importing'[i] = c \/ (i \in DOMAIN importing /\ importing'[i] = importing[i])
    BY <1>0, <2>1
  <2> QED BY <2>1, <2>2 DEF OwnedInv, StartupInv
<1>8. ASSUME NEW k \in Peers, Confirm(k) PROVE OwnedInv' /\ StartupInv'
  <2> DEFINE c == Call("directMessages", {k}, "confirm")
  <2>1. /\ importing' = Append(importing, c) /\ UNCHANGED <<calls, floor, bumped, subscribed>>
        /\ ~Startup(c) /\ c.keys = {k} /\ k \in pending
    BY <1>8 DEF Confirm, Startup, Call
  <2> HIDE DEF c
  <2>2. \A i \in DOMAIN importing' : \/ i = Len(importing) + 1 /\ importing'[i] = c
                                     \/ i \in DOMAIN importing /\ importing'[i] = importing[i]
    BY <1>0, <2>1
  <2>3. /\ \A i \in DOMAIN importing : Confirms(importing[i]) => k \notin importing[i].keys
        /\ \A i \in DOMAIN calls[Dms] : Confirms(calls[Dms][i]) => k \notin calls[Dms][i].keys
    BY <2>1, DmsIsASlice DEF TypeInv, DarkInv, CallsInv, Startup, Confirms
  <2>4. OwnedInv'
    <3>1. \A i \in DOMAIN importing', j \in DOMAIN calls[Dms] :
             Confirms(importing'[i]) /\ Confirms(calls[Dms][j])
               => importing'[i].keys \intersect calls[Dms][j].keys = {}
      BY <2>1, <2>2, <2>3 DEF OwnedInv
    <3>2. \A i, j \in DOMAIN importing' :
             i # j /\ Confirms(importing'[i]) /\ Confirms(importing'[j])
               => importing'[i].keys \intersect importing'[j].keys = {}
      BY <2>1, <2>2, <2>3 DEF OwnedInv
    <3> QED BY <2>1, <3>1, <3>2 DEF OwnedInv
  <2>5. StartupInv'
    BY <2>1, <2>2 DEF StartupInv
  <2> QED BY <2>4, <2>5
<1>9. CASE Enqueue
  <2> DEFINE c    == Head(importing)
             keys == IF Startup(c) THEN Scanned ELSE c.keys
             d    == [c EXCEPT !.keys = keys]
             q    == calls[Dms]
  <2>1. /\ importing # <<>> /\ importing' = Tail(importing)
        /\ calls' = [calls EXCEPT ![c.slice] = Append(@, d)]
        /\ floor' = IF c.by = "confirm"
                    THEN [k \in DOMAIN floor \union keys |-> IF k \in keys THEN count[k] ELSE floor[k]]
                    ELSE floor
        /\ UNCHANGED <<subscribed, bumped>>
    BY <1>9 DEF Enqueue, Startup
  <2>2. /\ \A i \in DOMAIN importing' : /\ importing'[i] = importing[i + 1]
                                        /\ i + 1 \in DOMAIN importing /\ i + 1 # 1
        /\ c \in CallType /\ c = importing[1] /\ 1 \in DOMAIN importing
    BY <1>0, <2>1
  <2>3. d.slice = c.slice /\ d.by = c.by /\ d.keys = keys
    BY <2>2 DEF CallType
  <2>4. InSlice(c, c.slice) /\ c.slice \in Slices
    BY <2>2 DEF TypeInv, KeysInv, CallType
  <2>5. /\ Confirms(d) <=> Confirms(c)
        /\ Startup(d) <=> Startup(c)
        /\ Confirms(c) => c.slice = Dms /\ keys = c.keys
        /\ DOMAIN floor' = IF Confirms(c) THEN DOMAIN floor \union keys ELSE DOMAIN floor
    BY <2>1, <2>3, <2>4 DEF Confirms, InSlice, Startup
  <2>6. /\ c.slice # Dms => calls'[Dms] = q
        /\ c.slice = Dms => calls'[Dms] = Append(q, d)
    BY <1>0, <2>1, <2>4, DmsIsASlice
  <2> HIDE DEF c, d, keys, q
  <2>7. \A i \in DOMAIN calls'[Dms] :
           \/ i = Len(q) + 1 /\ c.slice = Dms /\ calls'[Dms][i] = d
           \/ i \in DOMAIN q /\ calls'[Dms][i] = q[i]
    <3>1. q \in Seq(CallType)
      BY <1>0, DmsIsASlice DEF q
    <3>2. ASSUME NEW i \in DOMAIN Append(q, d)
          PROVE  \/ i = Len(q) + 1 /\ Append(q, d)[i] = d
                 \/ i \in DOMAIN q /\ Append(q, d)[i] = q[i]
      BY <3>1
    <3>3. CASE c.slice = Dms
      BY <2>6, <3>2, <3>3
    <3>4. CASE c.slice # Dms
      BY <2>6, <3>4
    <3> QED BY <3>3, <3>4
  <2>8. Startup(c) => q = <<>> /\ ~subscribed
    BY <2>2 DEF StartupInv, q
  <2>9. OwnedInv'
    <3>1. \A i \in DOMAIN calls'[Dms] : Confirms(calls'[Dms][i]) => calls'[Dms][i].keys \subseteq DOMAIN floor'
      BY <2>3, <2>5, <2>7 DEF OwnedInv, q
    <3>2. \A i, j \in DOMAIN calls'[Dms] :
             i # j /\ Confirms(calls'[Dms][i]) /\ Confirms(calls'[Dms][j])
               => calls'[Dms][i].keys \intersect calls'[Dms][j].keys = {}
      BY <2>2, <2>3, <2>5, <2>7 DEF OwnedInv, q
    <3>3. \A i \in DOMAIN importing', j \in DOMAIN calls'[Dms] :
             Confirms(importing'[i]) /\ Confirms(calls'[Dms][j])
               => importing'[i].keys \intersect calls'[Dms][j].keys = {}
      BY <2>2, <2>3, <2>5, <2>7 DEF OwnedInv, q
    <3>4. \A i, j \in DOMAIN importing' :
             i # j /\ Confirms(importing'[i]) /\ Confirms(importing'[j])
               => importing'[i].keys \intersect importing'[j].keys = {}
      <4>1. \A i, j \in DOMAIN importing' : i # j => i + 1 # j + 1
        BY <1>0, <2>1
      <4> QED BY <2>2, <4>1 DEF OwnedInv
    <3> QED BY <3>1, <3>2, <3>3, <3>4 DEF OwnedInv
  <2>10. StartupInv'
    <3>1. \A i \in DOMAIN importing' : ~Startup(importing'[i])
      BY <2>2 DEF StartupInv
    <3>2. \A i \in DOMAIN calls'[Dms] : Startup(calls'[Dms][i]) => i = 1 /\ ~subscribed'
      BY <2>1, <2>5, <2>7, <2>8 DEF StartupInv, q
    <3> QED BY <2>1, <3>1, <3>2 DEF StartupInv
  <2> QED BY <2>9, <2>10
<1>10. ASSUME NEW s \in Slices, Begin(s) PROVE OwnedInv' /\ StartupInv'
  BY <1>10, AdvanceOwned DEF Begin
<1>11. ASSUME NEW s \in Slices, Read(s) PROVE OwnedInv' /\ StartupInv'
  BY <1>11, QuietOwned DEF Read
<1>12. ASSUME NEW s \in Slices, Resume(s) PROVE OwnedInv' /\ StartupInv'
  <2>1. calls[s] # <<>>
    BY <1>12 DEF Resume, TypeInv, DarkInv, JobsInv
  <2> QED BY <1>12, <2>1, AdvanceOwned DEF Resume
<1>13. CASE UNCHANGED vars
  BY <1>13, QuietOwned DEF vars
<1> QED
  BY <1>1, <1>2, <1>3, <1>4, <1>5, <1>6, <1>7, <1>8, <1>9, <1>10, <1>11, <1>12, <1>13
     DEF Next-----------------------------------------------------------------------------
(* Counting. *)

LEMMA FewerAreLess ==
    ASSUME NEW S \in SUBSET Messages, NEW T \in SUBSET Messages, S \subseteq T
    PROVE  Cardinality(S) \in Nat /\ Cardinality(T) \in Nat /\ Cardinality(S) <= Cardinality(T)
<1>1. IsFiniteSet(T) /\ IsFiniteSet(S)
  BY KeysAssumption, FS_Subset
<1> QED BY <1>1, FS_Subset, FS_CardinalityType

LEMMA OneMoreIsOneMore ==
    ASSUME NEW S \in SUBSET Messages, NEW T \in SUBSET Messages, NEW m, S \subseteq T \union {m}
    PROVE  Cardinality(S) <= Cardinality(T) + 1
<1>1. IsFiniteSet(S) /\ IsFiniteSet(T)
  BY KeysAssumption, FS_Subset
<1>2. /\ Cardinality(T \union {m}) \in Nat /\ Cardinality(T) \in Nat /\ Cardinality(S) \in Nat
      /\ Cardinality(T \union {m}) <= Cardinality(T) + 1
      /\ IsFiniteSet(T \union {m})
  BY <1>1, FS_AddElement, FS_CardinalityType
<1>3. Cardinality(S) <= Cardinality(T \union {m})
  BY <1>2, FS_Subset
<1> QED BY <1>2, <1>3

(* What is unread of a peer and live-counted. *)
Live(k) == Cardinality(bumped \intersect In(k))

LEMMA LiveIsANumber == TypeInv => \A k \in Keys : Live(k) \in Nat
<1> SUFFICES ASSUME TypeInv, NEW k \in Keys PROVE Live(k) \in Nat
  OBVIOUS
<1>1. bumped \intersect In(k) \in SUBSET Messages
  BY DEF In
<1> QED BY <1>1, FewerAreLess DEF Live

(* What a scan found for a key, and the job after a read. *)
Shown(j, k) == IF k \in DOMAIN j.next THEN j.next[k] ELSE 0
Resumed(j) == [j EXCEPT !.todo = @ \ {j.reading}, !.reading = NoKey, !.found = 0,
                        !.next = IF j.found > 0 THEN Put(@, j.reading, j.found)
                                 ELSE Drop(@, j.reading)]

LEMMA ResumedJob ==
    ASSUME NEW j \in JobType, NEW s \in Slices, KeptIn(j, s), j.reading # NoKey
    PROVE  /\ Resumed(j) \in JobType /\ KeptIn(Resumed(j), s) /\ Resumed(j).on = j.on
           /\ Resumed(j).reading = NoKey /\ Resumed(j).touched = j.touched
           /\ Resumed(j).todo = j.todo \ {j.reading}
           /\ \A k \in Keys : Shown(Resumed(j), k) = IF k = j.reading THEN j.found ELSE Shown(j, k)
<1> DEFINE r == j.reading
           n == j.found
           next == IF n > 0 THEN Put(j.next, r, n) ELSE Drop(j.next, r)
<1>1. r \in Keys /\ n \in Nat /\ r \in KeysOf(s)
  BY DEF JobType, KeptIn
<1>2. PICK D \in SUBSET Keys : j.next \in [D -> Nat]
  BY DEF JobType, CountsType
<1>3. /\ next \in [DOMAIN next -> Nat] /\ DOMAIN next \in SUBSET Keys
      /\ DOMAIN next \subseteq KeysOf(s)
      /\ \A k \in Keys : (IF k \in DOMAIN next THEN next[k] ELSE 0)
                           = IF k = r THEN n ELSE IF k \in D THEN j.next[k] ELSE 0
  <2>1. CASE n > 0
    <3>1. next = Put(j.next, r, n) /\ Put(j.next, r, n) \in [D \union {r} -> Nat]
          /\ \A k \in D \union {r} : next[k] = IF k = r THEN n ELSE j.next[k]
      BY <1>1, <1>2, <2>1 DEF Put
    <3>2. DOMAIN next = D \union {r} /\ D \subseteq KeysOf(s)
      BY <1>2, <3>1 DEF KeptIn
    <3> HIDE DEF next
    <3> QED BY <1>1, <1>2, <3>1, <3>2
  <2>2. CASE ~(n > 0)
    <3>1. next = Drop(j.next, r) /\ Drop(j.next, r) \in [D \ {r} -> Nat]
          /\ \A k \in D \ {r} : next[k] = j.next[k]
      BY <1>2, <2>2 DEF Drop, Restrict
    <3>2. DOMAIN next = D \ {r} /\ D \subseteq KeysOf(s) /\ n = 0
      BY <1>1, <1>2, <2>2, <3>1 DEF KeptIn
    <3> HIDE DEF next
    <3> QED BY <1>1, <1>2, <3>1, <3>2
  <2> QED BY <2>1, <2>2
<1>4. next \in CountsType
  BY <1>3 DEF CountsType
<1>5. Resumed(j) = [j EXCEPT !.todo = @ \ {r}, !.reading = NoKey, !.found = 0, !.next = next]
  BY DEF Resumed, JobType
<1> HIDE DEF next
<1> HIDE DEF r, n
<1>6. /\ Resumed(j) \in JobType /\ Resumed(j).on = j.on /\ Resumed(j).reading = NoKey
      /\ Resumed(j).touched = j.touched /\ Resumed(j).todo = j.todo \ {r}
      /\ Resumed(j).next = next /\ Resumed(j).passes = j.passes
  <2>1. j.todo \ {r} \in SUBSET Keys
    BY DEF JobType
  <2>2. [j EXCEPT !.todo = @ \ {r}, !.reading = NoKey] \in JobType
    BY <2>1 DEF JobType
  <2>3. [j EXCEPT !.todo = @ \ {r}, !.reading = NoKey, !.found = 0] \in JobType
    BY <2>2 DEF JobType
  <2>4. Resumed(j) \in JobType
    BY <1>4, <1>5, <2>3 DEF JobType
  <2>5. /\ Resumed(j).on = j.on /\ Resumed(j).reading = NoKey
        /\ Resumed(j).touched = j.touched /\ Resumed(j).todo = j.todo \ {r}
        /\ Resumed(j).next = next /\ Resumed(j).passes = j.passes
    BY <1>5 DEF JobType
  <2> QED BY <2>4, <2>5
<1>7. KeptIn(Resumed(j), s)
  BY <1>3, <1>6 DEF KeptIn
<1>8. \A k \in Keys : Shown(Resumed(j), k) = IF k = r THEN n ELSE Shown(j, k)
  BY <1>2, <1>3, <1>6 DEF Shown
<1> QED BY <1>6, <1>7, <1>8 DEF r, n

(* The steps that leave the peers' counts, floors and messages alone. *)
LEMMA QuietPeers ==
    ASSUME PeersInv, UNCHANGED <<bumped, lowered, floor>>, \A k \in Peers : count'[k] = count[k]
    PROVE  PeersInv'
BY DEF PeersInv

LEMMA BumpPeers ==
    ASSUME TypeInv, PeersInv, NEW k \in Keys, Bump(k), UNCHANGED lowered,
           NEW m \in Messages, KeyOf[m] = k,
           k \in Peers => bumped' = bumped \union {m},
           k \in Groups => bumped' = bumped
    PROVE  PeersInv'
<1> SUFFICES ASSUME NEW p \in Peers \ lowered
             PROVE  /\ count'[p] >= Cardinality(bumped' \intersect In(p))
                    /\ p \in DOMAIN floor' => floor'[p] >= Cardinality(bumped' \intersect In(p))
  BY DEF PeersInv
<1>0. /\ count \in [Keys -> Nat] /\ p \in Keys /\ Live(p) \in Nat
      /\ DOMAIN floor' = DOMAIN floor /\ \A x \in DOMAIN floor : floor[x] \in Nat
      /\ count' = [count EXCEPT ![k] = @ + 1]
  BY BumpKeepsOwners, LiveIsANumber DEF TypeInv, NumbersInv, Bump, Keys
<1>1. count[p] >= Live(p) /\ (p \in DOMAIN floor => floor[p] >= Live(p))
  BY DEF PeersInv, Live
<1>2. CASE p # k
  <2>1. bumped' \intersect In(p) = bumped \intersect In(p)
    BY <1>2, KeysAssumption DEF In, Keys
  <2>2. count'[p] = count[p] /\ (p \in DOMAIN floor => floor'[p] = floor[p])
    BY <1>0, <1>2 DEF Bump, Put
  <2> QED BY <1>0, <1>1, <2>1, <2>2 DEF Live
<1>3. CASE p = k
  <2>1. Cardinality(bumped' \intersect In(p)) <= Live(p) + 1
    <3>1. /\ bumped' \intersect In(p) \in SUBSET Messages /\ bumped \intersect In(p) \in SUBSET Messages
          /\ bumped' \intersect In(p) \subseteq (bumped \intersect In(p)) \union {m}
      BY <1>3 DEF In
    <3> QED BY <3>1, OneMoreIsOneMore DEF Live
  <2>2. Cardinality(bumped' \intersect In(p)) \in Nat
    BY FewerAreLess DEF In
  <2>3. count'[p] = count[p] + 1 /\ count[p] \in Nat
    BY <1>0, <1>3
  <2>4. p \in DOMAIN floor => floor'[p] = IF floor[p] < count'[p] THEN count'[p] ELSE floor[p]
    BY <1>0, <1>3 DEF Bump, Put
  <2> QED BY <1>0, <1>1, <2>1, <2>2, <2>3, <2>4
<1> QED BY <1>2, <1>3

LEMMA MarkPeers ==
    ASSUME TypeInv, PeersInv, NEW k \in Keys, Mark(k), UNCHANGED floor
    PROVE  PeersInv'
<1> SUFFICES ASSUME NEW p \in Peers \ lowered'
             PROVE  /\ count'[p] >= Cardinality(bumped' \intersect In(p))
                    /\ p \in DOMAIN floor => floor[p] >= Cardinality(bumped' \intersect In(p))
  BY DEF PeersInv
<1>0. count \in [Keys -> Nat] /\ p \in Keys /\ \A x \in DOMAIN floor : floor[x] \in Nat
  BY DEF TypeInv, NumbersInv, Keys
<1>1. CASE p # k
  <2>1. /\ bumped' \intersect In(p) = bumped \intersect In(p) /\ count'[p] = count[p]
        /\ p \notin lowered
    BY <1>0, <1>1 DEF Mark, In
  <2> QED BY <2>1 DEF PeersInv
<1>2. CASE p = k
  <2>1. bumped' \intersect In(p) = {} /\ count'[p] = 0
    BY <1>0, <1>2 DEF Mark
  <2> QED BY <1>0, <2>1, FS_EmptySet
<1> QED BY <1>1, <1>2

(* A scan that ends: the startup scan does so before anything came live, a      *)
(* confirm's own count is at least its floor, and the others' are let go.       *)
LEMMA AdvancePeers ==
    ASSUME TypeInv, TypeInv', OwnedInv, StartupInv, PeersInv, NEW s \in Slices, NEW j,
           KeptIn(j, s), calls[s] # <<>>, Advance(s, j), UNCHANGED bumped
    PROVE  PeersInv'
<1>1. CASE UNCHANGED <<count, floor, lowered>>
  BY <1>1, QuietPeers
<1>2. CASE IF Head(calls[s]).by = "confirm"
           THEN /\ count' = Floored(Written(count, j), Head(calls[s]).keys)
                /\ floor' = Restrict(floor, DOMAIN floor \ Head(calls[s]).keys)
                /\ lowered' = lowered \union (DOMAIN j.next \ Head(calls[s]).keys)
           ELSE count' = Written(count, j) /\ UNCHANGED <<floor, lowered>>
  <2> DEFINE c == Head(calls[s])
  <2>1. c \in CallType /\ c = calls[s][1] /\ 1 \in DOMAIN calls[s] /\ InSlice(c, s)
    BY DEF TypeInv, DarkInv, CallsInv, KeysInv
  <2>2. CASE s = "counts"
    <3>1. c.by # "confirm" /\ DOMAIN j.next \intersect Peers = {}
      BY <2>1, <2>2, KeysAssumption DEF InSlice, Confirms, Dms, KeptIn, KeysOf
    <3> HIDE DEF c
    <3>2. \A k \in Peers : count'[k] = count[k]
      BY <1>2, <3>1 DEF Written, Keys, c
    <3> QED BY <1>2, <3>1, <3>2, QuietPeers DEF c
  <2>3. CASE s # "counts" /\ c.by # "confirm"
    <3>1. s = Dms /\ Startup(c)
      BY <2>1, <2>3 DEF Slices, Dms, Startup, InSlice, CallType
    <3>2. bumped = {} /\ UNCHANGED <<floor, lowered>>
      BY <1>2, <2>1, <2>3, <3>1 DEF StartupInv
    <3>3. \A k \in Peers : count'[k] \in Nat /\ (k \in DOMAIN floor => floor[k] \in Nat)
      BY DEF TypeInv, NumbersInv, Keys
    <3> HIDE DEF c
    <3>4. ASSUME NEW k \in Peers PROVE Cardinality(bumped' \intersect In(k)) = 0
      BY <3>2, FS_EmptySet
    <3> QED BY <3>2, <3>3, <3>4 DEF PeersInv
  <2>4. CASE c.by = "confirm"
    <3> DEFINE w == Written(count, j)
    <3>1. /\ count' = Floored(w, c.keys) /\ floor' = Restrict(floor, DOMAIN floor \ c.keys)
          /\ lowered' = lowered \union (DOMAIN j.next \ c.keys)
      BY <1>2, <2>4
    <3>2. c.keys \subseteq DOMAIN floor
      BY <2>1, <2>4 DEF OwnedInv, Confirms, InSlice
    <3> HIDE DEF c
    <3> SUFFICES ASSUME NEW p \in Peers \ lowered'
                 PROVE  /\ count'[p] >= Live(p)
                        /\ p \in DOMAIN floor' => floor'[p] >= Live(p)
      BY DEF PeersInv, Live
    <3>3. /\ p \in Keys /\ p \notin lowered /\ Live(p) \in Nat /\ count'[p] \in Nat
          /\ \A x \in DOMAIN floor : floor[x] \in Nat
          /\ count[p] >= Live(p) /\ (p \in DOMAIN floor => floor[p] >= Live(p))
      BY <3>1, LiveIsANumber DEF TypeInv, NumbersInv, PeersInv, Live, Keys
    <3>4. DOMAIN floor' = DOMAIN floor \ c.keys /\ \A x \in DOMAIN floor' : floor'[x] = floor[x]
      BY <3>1 DEF Restrict
    <3>5. CASE p \in c.keys
      <4>1. count'[p] = IF floor[p] > w[p] THEN floor[p] ELSE w[p]
        BY <3>1, <3>2, <3>3, <3>5 DEF Floored
      <4> HIDE DEF w
      <4>2. p \in DOMAIN floor /\ floor[p] \in Nat
        BY <3>2, <3>3, <3>5
      <4>3. count'[p] >= floor[p]
        BY <3>3, <4>1, <4>2
      <4> QED BY <3>3, <3>4, <3>5, <4>2, <4>3
    <3>6. CASE p \notin c.keys
      <4>1. p \notin DOMAIN j.next
        BY <3>1, <3>6
      <4>2. w[p] = count[p]
        BY <3>3, <4>1 DEF Written
      <4> HIDE DEF w
      <4>3. count'[p] = w[p]
        BY <3>1, <3>3, <3>6 DEF Floored
      <4> QED BY <3>3, <3>4, <4>2, <4>3
    <3> QED BY <3>5, <3>6
  <2> QED BY <2>2, <2>3, <2>4
<1> QED BY <1>1, <1>2 DEF Advance

LEMMA StepPeers ==
    TypeInv /\ TypeInv' /\ OwnedInv /\ StartupInv /\ PeersInv /\ [Next]_vars => PeersInv'
<1> SUFFICES ASSUME TypeInv, TypeInv', OwnedInv, StartupInv, PeersInv, [Next]_vars PROVE PeersInv'
  OBVIOUS
<1>1. ASSUME NEW m \in Messages, StoreMessage(m) PROVE PeersInv'
  BY <1>1, QuietPeers DEF StoreMessage
<1>2. ASSUME NEW m \in Messages, CountMessage(m) PROVE PeersInv'
  <2>1. KeyOf[m] \in Groups /\ KeyOf[m] \in Keys /\ KeyOf[m] \notin Peers
    BY <1>2, KeysAssumption DEF CountMessage, TypeInv, DarkInv, ViewInv, Keys
  <2>2. CASE active = KeyOf[m]
    BY <1>2, <2>1, <2>2, MarkPeers DEF CountMessage
  <2>3. CASE active # KeyOf[m]
    BY <1>2, <2>1, <2>3, BumpPeers DEF CountMessage
  <2> QED BY <2>2, <2>3
<1>3. ASSUME NEW m \in Messages, LiveDm(m) PROVE PeersInv'
  <2>1. KeyOf[m] \in Peers /\ KeyOf[m] \in Keys /\ KeyOf[m] \notin Groups
    BY <1>3, KeysAssumption DEF LiveDm, Keys
  <2>2. CASE KeyOf[m] \in pending \/ active = KeyOf[m]
    BY <1>3, <2>2, QuietPeers DEF LiveDm
  <2>3. CASE ~(KeyOf[m] \in pending \/ active = KeyOf[m])
    BY <1>3, <2>1, <2>3, BumpPeers DEF LiveDm
  <2> QED BY <2>2, <2>3
<1>4. ASSUME NEW m \in Messages, StoreDm(m) PROVE PeersInv'
  BY <1>4, QuietPeers DEF StoreDm
<1>5. ASSUME NEW k \in Keys, Open(k) PROVE PeersInv'
  BY <1>5, MarkPeers DEF Open
<1>6. CASE Close \/ InitUnreadCounts
  BY <1>6, QuietPeers DEF Close, InitUnreadCounts
<1>7. ASSUME NEW k \in Peers, Confirm(k) PROVE PeersInv'
  BY <1>7, QuietPeers DEF Confirm
<1>8. CASE Enqueue
  <2>1. UNCHANGED <<count, bumped, lowered>>
    BY <1>8 DEF Enqueue
  <2>2. \A k \in DOMAIN floor' : floor'[k] = count[k] \/ (k \in DOMAIN floor /\ floor'[k] = floor[k])
    BY <1>8 DEF Enqueue
  <2> QED BY <2>1, <2>2 DEF PeersInv
<1>9. ASSUME NEW s \in Slices, Begin(s) PROVE PeersInv'
  <2>1. /\ Head(calls[s]) \in CallType /\ InSlice(Head(calls[s]), s)
        /\ calls[s] # <<>>
    BY <1>9 DEF Begin, TypeInv, DarkInv, CallsInv, KeysInv
  <2>2. Head(calls[s]).keys \in SUBSET Keys /\ Head(calls[s]).keys \subseteq KeysOf(s)
    BY <2>1 DEF CallType, InSlice
  <2>3. KeptIn(Fresh(Head(calls[s]).keys), s)
    BY <2>2, FreshJob, BoundsAssumption DEF KeptIn
  <2>4. Advance(s, Fresh(Head(calls[s]).keys)) /\ UNCHANGED bumped
    BY <1>9 DEF Begin, Fresh
  <2> QED BY <2>1, <2>3, <2>4, AdvancePeers
<1>10. ASSUME NEW s \in Slices, Read(s) PROVE PeersInv'
  BY <1>10, QuietPeers DEF Read
<1>11. ASSUME NEW s \in Slices, Resume(s) PROVE PeersInv'
  <2>1. job[s] \in JobType /\ KeptIn(job[s], s) /\ calls[s] # <<>> /\ job[s].reading # NoKey
    BY <1>11 DEF Resume, TypeInv, DarkInv, JobsInv, KeysInv
  <2>2. Advance(s, Resumed(job[s])) /\ UNCHANGED bumped
    BY <1>11 DEF Resume, Resumed
  <2> QED BY <2>1, <2>2, ResumedJob, AdvancePeers
<1>12. CASE UNCHANGED vars
  BY <1>12, QuietPeers DEF vars
<1> QED
  BY <1>1, <1>2, <1>3, <1>4, <1>5, <1>6, <1>7, <1>8, <1>9, <1>10, <1>11, <1>12 DEF Next-----------------------------------------------------------------------------
(* Groups.  What a scan of the groups found of a key covers what is unread of   *)
(* it, unless a live message touched the key, which then is scanned again; so   *)
(* does the count of a group whose last scan was not touched.                   *)

(* Every group reconcile asks for all the groups, with timestamps that are out  *)
(* of date at worst.                                                            *)
AsksAll(c) == c.slice = "counts" => c.keys = Groups /\ c.read \subseteq read

QueuesInv ==
    /\ \A i \in DOMAIN importing : AsksAll(importing[i])
    /\ \A i \in DOMAIN calls["counts"] : AsksAll(calls["counts"][i])

Covers(j) ==
    \A k \in Groups \ j.touched :
        /\ k \notin j.todo => Shown(j, k) >= Cardinality(Due(k))
        /\ j.reading = k => j.found >= Cardinality(Due(k))

ScansInv ==
    /\ \A k \in ready : count[k] >= Cardinality(Due(k))
    /\ job["counts"].on => Covers(job["counts"])

(* The inductive invariant of NothingMissed. *)
MissInv == TypeInv /\ OwnedInv /\ StartupInv /\ PeersInv /\ QueuesInv /\ ScansInv

LEMMA DueIsCounted ==
    TypeInv => \A k \in Keys : Due(k) \in SUBSET Messages /\ Cardinality(Due(k)) \in Nat
<1> SUFFICES ASSUME TypeInv, NEW k \in Keys
             PROVE  Due(k) \in SUBSET Messages /\ Cardinality(Due(k)) \in Nat
  OBVIOUS
<1>1. Due(k) \in SUBSET Messages
  BY DEF Due, In
<1> QED BY <1>1, FewerAreLess

LEMMA ShownIsANumber ==
    ASSUME NEW j \in JobType, NEW k
    PROVE  Shown(j, k) \in Nat /\ j.found \in Nat
BY DEF Shown, JobType, CountsType

LEMMA CountsIsASlice == "counts" \in Slices
BY DEF Slices

LEMMA InitMiss == Init => MissInv
<1> SUFFICES ASSUME Init PROVE MissInv
  OBVIOUS
<1>1. TypeInv /\ OwnedInv /\ StartupInv /\ PeersInv
  BY InitTyped, InitOwned
<1>2. QueuesInv
  <2> DEFINE c == Call("directMessages", Peers, "init")
  <2>1. importing = <<c>> /\ calls["counts"] = <<>> /\ AsksAll(c)
    BY CountsIsASlice DEF Init, AsksAll, Call
  <2> HIDE DEF c
  <2> QED BY <2>1 DEF QueuesInv
<1>3. ScansInv
  BY CountsIsASlice DEF Init, ScansInv, NoJob
<1> QED BY <1>1, <1>2, <1>3 DEF MissInv

(* The timestamps only advance. *)
LEMMA ReadGrows == Next => read \subseteq read'
BY DEF Next, StoreMessage, CountMessage, LiveDm, StoreDm, Open, Close, InitUnreadCounts, Confirm,
       Enqueue, Begin, Read, Resume, Mark

LEMMA QuietQueues ==
    ASSUME QueuesInv, UNCHANGED <<importing, calls>>, read \subseteq read'
    PROVE  QueuesInv'
BY DEF QueuesInv, AsksAll

LEMMA AppendedQueues ==
    ASSUME TypeInv, QueuesInv, NEW c, importing' = Append(importing, c), UNCHANGED calls,
           read \subseteq read', AsksAll(c)
    PROVE  QueuesInv'
<1>1. \A i \in DOMAIN importing' : \/ importing'[i] = c
                                   \/ i \in DOMAIN importing /\ importing'[i] = importing[i]
  BY DEF TypeInv, DarkInv, CallsInv
<1> QED BY <1>1 DEF QueuesInv, AsksAll

LEMMA AdvanceQueues ==
    ASSUME TypeInv, QueuesInv, NEW s \in Slices, NEW j, calls[s] # <<>>, Advance(s, j),
           UNCHANGED <<importing, read>>
    PROVE  QueuesInv'
<1>1. CASE UNCHANGED calls
  BY <1>1, QuietQueues
<1>2. CASE calls' = [calls EXCEPT ![s] = Tail(@)]
  <2>1. /\ calls \in [Slices -> Seq(CallType)]
        /\ \A i \in DOMAIN Tail(calls[s]) : Tail(calls[s])[i] = calls[s][i + 1] /\ i + 1 \in DOMAIN calls[s]
    BY DEF TypeInv, DarkInv, CallsInv
  <2> QED BY <1>2, <2>1, CountsIsASlice DEF QueuesInv, AsksAll
<1> QED BY <1>1, <1>2 DEF Advance

LEMMA StepQueues == TypeInv /\ QueuesInv /\ [Next]_vars => QueuesInv'
<1> SUFFICES ASSUME TypeInv, QueuesInv, [Next]_vars PROVE QueuesInv'
  OBVIOUS
<1>0. CASE UNCHANGED vars
  BY <1>0, QuietQueues DEF vars
<1>1. CASE Next
  <2>1. CASE UNCHANGED <<importing, calls>>
    BY <1>1, <2>1, ReadGrows, QuietQueues
  <2>2. CASE InitUnreadCounts
    <3>1. AsksAll(Call("counts", Groups, "init"))
      BY DEF AsksAll, Call
    <3> QED BY <2>2, <3>1, AppendedQueues DEF InitUnreadCounts
  <2>3. ASSUME NEW k \in Peers, Confirm(k) PROVE QueuesInv'
    <3>1. AsksAll(Call("directMessages", {k}, "confirm"))
      BY DEF AsksAll, Call
    <3> QED BY <2>3, <3>1, AppendedQueues DEF Confirm
  <2>4. CASE Enqueue
    <3> DEFINE c    == Head(importing)
               keys == IF Startup(c) THEN Scanned ELSE c.keys
               d    == [c EXCEPT !.keys = keys]
    <3>1. /\ importing \in Seq(CallType) /\ importing # <<>> /\ importing' = Tail(importing)
          /\ calls' = [calls EXCEPT ![c.slice] = Append(@, d)] /\ UNCHANGED read
      BY <2>4 DEF Enqueue, Startup, TypeInv, DarkInv, CallsInv
    <3>2. /\ \A i \in DOMAIN importing' : importing'[i] = importing[i + 1] /\ i + 1 \in DOMAIN importing
          /\ c \in CallType /\ c = importing[1] /\ 1 \in DOMAIN importing
      BY <3>1
    <3>3. AsksAll(c) /\ c.slice \in Slices
      BY <3>2 DEF QueuesInv, CallType
    <3>4. d.slice = c.slice /\ (c.slice = "counts" => d = c)
      BY <3>2 DEF CallType, Startup
    <3> HIDE DEF c, d
    <3>5. calls["counts"] \in Seq(CallType) /\ calls \in [Slices -> Seq(CallType)]
      BY CountsIsASlice DEF TypeInv, DarkInv, CallsInv
    <3>6. \/ calls'["counts"] = calls["counts"]
          \/ c.slice = "counts" /\ calls'["counts"] = Append(calls["counts"], c)
      BY <3>1, <3>3, <3>4, <3>5, CountsIsASlice
    <3>7. \A i \in DOMAIN calls'["counts"] :
             \/ calls'["counts"][i] = c
             \/ i \in DOMAIN calls["counts"] /\ calls'["counts"][i] = calls["counts"][i]
      BY <3>5, <3>6
    <3> QED BY <3>1, <3>2, <3>3, <3>7 DEF QueuesInv, AsksAll
  <2>5. ASSUME NEW s \in Slices, Begin(s) PROVE QueuesInv'
    BY <2>5, AdvanceQueues DEF Begin
  <2>6. ASSUME NEW s \in Slices, Resume(s) PROVE QueuesInv'
    <3>1. calls[s] # <<>>
      BY <2>6 DEF Resume, TypeInv, DarkInv, JobsInv
    <3> QED BY <2>6, <3>1, AdvanceQueues DEF Resume
  <2> QED
    BY <1>1, <2>1, <2>2, <2>3, <2>4, <2>5, <2>6
       DEF Next, StoreMessage, CountMessage, LiveDm, StoreDm, Open, Close, Read
<1> QED BY <1>0, <1>1

-----------------------------------------------------------------------------
(* The steps that neither count a group's message nor touch its scan. *)
LEMMA QuietScans ==
    ASSUME TypeInv, ScansInv, UNCHANGED <<ready>>, job'["counts"] = job["counts"],
           \A k \in Groups : count'[k] = count[k] /\ Due(k)' \subseteq Due(k)
    PROVE  ScansInv'
<1>1. ready \subseteq Groups /\ Groups \subseteq Keys /\ count \in [Keys -> Nat]
      /\ job["counts"] \in JobType
  BY CountsIsASlice DEF TypeInv, SeenInv, NumbersInv, DarkInv, JobsInv, Keys
<1>2. ASSUME NEW k \in Groups
      PROVE  /\ Cardinality(Due(k)') \in Nat /\ Cardinality(Due(k)) \in Nat
             /\ Cardinality(Due(k)') <= Cardinality(Due(k))
  <2>1. Due(k) \in SUBSET Messages /\ Due(k)' \in SUBSET Messages /\ Due(k)' \subseteq Due(k)
    BY DueIsCounted, <1>1
  <2> QED BY <2>1, FewerAreLess
<1>3. \A k \in ready : count'[k] >= Cardinality(Due(k)')
  BY <1>1, <1>2 DEF ScansInv
<1>4. ASSUME job["counts"].on, NEW k \in Groups \ job["counts"].touched
      PROVE  /\ k \notin job["counts"].todo => Shown(job["counts"], k) >= Cardinality(Due(k)')
             /\ job["counts"].reading = k => job["counts"].found >= Cardinality(Due(k)')
  BY <1>1, <1>2, <1>4, ShownIsANumber DEF ScansInv, Covers
<1> QED BY <1>3, <1>4 DEF ScansInv, Covers

(* A live message of a group is counted, and touches the scan. *)
LEMMA BumpScans ==
    ASSUME TypeInv, ScansInv, NEW g \in Keys, Bump(g), UNCHANGED <<ready>>, NEW m \in Messages,
           KeyOf[m] = g, UNCHANGED <<stored, read>>, handling \ {m} \subseteq handling'
    PROVE  ScansInv'
<1>1. /\ ready \subseteq Groups /\ Groups \subseteq Keys /\ count \in [Keys -> Nat]
      /\ job \in [Slices -> JobType] /\ count' = [count EXCEPT ![g] = @ + 1]
  BY DEF TypeInv, SeenInv, NumbersInv, DarkInv, JobsInv, Keys, Bump
<1>2. \A k \in Groups : Due(k)' \subseteq Due(k) \union (IF k = g THEN {m} ELSE {})
  BY DEF Due, In
<1>3. CASE g \notin Groups
  <2>1. job'["counts"] = job["counts"]
    BY <1>1, <1>3 DEF Bump, Noted, SliceOf, Slices
  <2> QED BY <1>1, <1>2, <1>3, <2>1, QuietScans
<1>4. CASE g \in Groups
  <2> DEFINE j == job["counts"]
             t == job'["counts"]
  <2>1. /\ t.on = j.on /\ t.todo = j.todo /\ t.next = j.next /\ t.reading = j.reading /\ t.found = j.found
        /\ j.on => t.touched = j.touched \union {g}
    BY <1>1, <1>4, CountsIsASlice DEF Bump, Noted, SliceOf, JobType
  <2>2. ASSUME NEW k \in Groups PROVE Cardinality(Due(k)) \in Nat /\ Cardinality(Due(k)') \in Nat
    <3>1. Due(k) \in SUBSET Messages /\ Due(k)' \in SUBSET Messages
      BY DEF Due, In
    <3> QED BY <3>1, FewerAreLess
  <2>3. ASSUME NEW k \in Groups, k # g PROVE Cardinality(Due(k)') <= Cardinality(Due(k))
    <3>1. Due(k) \in SUBSET Messages /\ Due(k)' \in SUBSET Messages /\ Due(k)' \subseteq Due(k)
      BY <1>2, <2>3 DEF Due, In
    <3> QED BY <3>1, FewerAreLess
  <2>4. Cardinality(Due(g)') <= Cardinality(Due(g)) + 1
    <3>1. Due(g) \in SUBSET Messages /\ Due(g)' \in SUBSET Messages /\ Due(g)' \subseteq Due(g) \union {m}
      BY <1>2, <1>4 DEF Due, In
    <3> QED BY <3>1, OneMoreIsOneMore
  <2>5. \A k \in ready : count'[k] >= Cardinality(Due(k)')
    BY <1>1, <1>4, <2>2, <2>3, <2>4 DEF ScansInv
  <2>6. ASSUME t.on, NEW k \in Groups \ t.touched
        PROVE  /\ k \notin t.todo => Shown(t, k) >= Cardinality(Due(k)')
               /\ t.reading = k => t.found >= Cardinality(Due(k)')
    <3>1. j.on /\ t.touched = j.touched \union {g} /\ Covers(j)
      BY <2>1, <2>6 DEF ScansInv
    <3>2. k \in Groups \ j.touched /\ k # g /\ Shown(t, k) = Shown(j, k)
      BY <2>1, <2>6, <3>1 DEF Shown
    <3>3. j \in JobType
      BY <1>1, CountsIsASlice
    <3>4. Shown(j, k) \in Nat /\ j.found \in Nat
      BY <3>3, ShownIsANumber
    <3> HIDE DEF j, t
    <3> QED BY <2>1, <2>2, <2>3, <3>1, <3>2, <3>4 DEF Covers
  <2> QED BY <2>5, <2>6 DEF ScansInv, Covers, Shown
<1> QED BY <1>3, <1>4

(* A group is opened: nothing of it is unread. *)
LEMMA MarkScans ==
    ASSUME TypeInv, ScansInv, NEW g \in Keys, Mark(g), UNCHANGED <<ready, job, stored>>,
           handling \ In(g) \subseteq handling'
    PROVE  ScansInv'
<1>1. /\ ready \subseteq Groups /\ Groups \subseteq Keys /\ count \in [Keys -> Nat]
      /\ job \in [Slices -> JobType] /\ count' = [count EXCEPT ![g] = 0]
      /\ read \subseteq read' /\ stored \intersect In(g) \subseteq read'
  BY DEF TypeInv, SeenInv, NumbersInv, DarkInv, JobsInv, Keys, Mark
<1>2. \A k \in Groups : Due(k)' \subseteq Due(k)
  BY <1>1 DEF Due, In
<1>3. g \in Groups => Due(g)' = {}
  BY <1>1 DEF Due
<1>4. ASSUME NEW k \in Groups
      PROVE  /\ Cardinality(Due(k)') \in Nat /\ Cardinality(Due(k)) \in Nat
             /\ Cardinality(Due(k)') <= Cardinality(Due(k))
             /\ k = g => Cardinality(Due(k)') = 0
  <2>1. Due(k) \in SUBSET Messages /\ Due(k)' \in SUBSET Messages /\ Due(k)' \subseteq Due(k)
    BY <1>2 DEF Due, In
  <2> QED BY <1>3, <2>1, FewerAreLess, FS_EmptySet
<1>5. \A k \in ready : count'[k] >= Cardinality(Due(k)')
  BY <1>1, <1>4 DEF ScansInv
<1>6. ASSUME job["counts"].on, NEW k \in Groups \ job["counts"].touched
      PROVE  /\ k \notin job["counts"].todo => Shown(job["counts"], k) >= Cardinality(Due(k)')
             /\ job["counts"].reading = k => job["counts"].found >= Cardinality(Due(k)')
  <2>1. job["counts"] \in JobType
    BY <1>1, CountsIsASlice
  <2> QED BY <1>4, <1>6, <2>1, ShownIsANumber DEF ScansInv, Covers
<1> QED BY <1>5, <1>6 DEF ScansInv, Covers

(* The end of a read: the scan is over, or the touched groups are scanned again. *)
LEMMA AdvanceScans ==
    ASSUME TypeInv, ScansInv, NEW s \in Slices, NEW j \in JobType, KeptIn(j, s), j.on,
           j.reading = NoKey, s = "counts" => Covers(j), calls[s] # <<>>, Advance(s, j),
           UNCHANGED <<stored, read, handling>>
    PROVE  ScansInv'
<1>0. /\ ready \subseteq Groups /\ Groups \subseteq Keys /\ NoKey \notin Keys
      /\ count \in [Keys -> Nat] /\ job \in [Slices -> JobType] /\ DOMAIN floor \subseteq Peers
      /\ Groups \intersect Peers = {}
  BY KeysAssumption DEF TypeInv, SeenInv, NumbersInv, DarkInv, JobsInv, Keys
<1>d. \A k \in Groups : Due(k)' = Due(k)
  BY DEF Due
<1>1. CASE s # "counts"
  <2>1. ready' = ready /\ job'["counts"] = job["counts"]
    BY <1>0, <1>1, CountsIsASlice DEF Advance
  <2>2. DOMAIN j.next \subseteq Peers
    BY <1>1 DEF KeptIn, KeysOf
  <2>3. \A k \in Groups : Written(count, j)[k] = count[k]
    BY <1>0, <2>2 DEF Written
  <2>4. \A k \in Groups : Floored(Written(count, j), Head(calls[s]).keys)[k] = count[k]
    <3> DEFINE w == Written(count, j)
               c == Head(calls[s])
    <3> HIDE DEF w, c
    <3> QED BY <1>0, <2>3 DEF Floored, w, c
  <2>5. \A k \in Groups : count'[k] = count[k]
    BY <2>3, <2>4 DEF Advance
  <2> QED BY <1>d, <2>1, <2>5, QuietScans
<1>2. CASE s = "counts"
  <2>1. CASE job' = [job EXCEPT ![s] = j] /\ UNCHANGED <<count, ready>>
    BY <1>0, <1>d, <1>2, <2>1 DEF ScansInv, Covers, Shown
  <2>2. CASE /\ j.todo = {}
             /\ job' = [job EXCEPT ![s] = [j EXCEPT !.todo = j.touched, !.touched = {}, !.passes = @ + 1]]
             /\ UNCHANGED <<count, ready>>
    <3> DEFINE t == job'["counts"]
    <3>1. t.todo = j.touched /\ t.touched = {} /\ t.next = j.next /\ t.reading = NoKey /\ t.on
      BY <1>0, <1>2, <2>2 DEF JobType
    <3> HIDE DEF t
    <3>2. \A k \in Groups \ t.touched :
           /\ k \notin t.todo => Shown(t, k) >= Cardinality(Due(k)')
           /\ t.reading = k => t.found >= Cardinality(Due(k)')
      BY <1>0, <1>d, <1>2, <2>2, <3>1 DEF Covers, Shown
    <3> QED BY <1>0, <1>d, <2>2, <3>2 DEF ScansInv, t, Covers, Shown
  <2>3. CASE /\ j.todo = {} /\ job' = [job EXCEPT ![s] = NoJob]
             /\ IF Head(calls[s]).by = "confirm"
                THEN count' = Floored(Written(count, j), Head(calls[s]).keys)
                ELSE count' = Written(count, j)
             /\ ready' = (ready \union Head(calls[s]).keys) \ j.touched
    <3>1. InSlice(Head(calls[s]), s)
      BY DEF TypeInv, DarkInv, CallsInv, KeysInv
    <3>2. count' = Written(count, j) /\ ready' \subseteq Groups \ j.touched
      BY <1>0, <1>2, <2>3, <3>1 DEF InSlice, Confirms, Dms, KeysOf
    <3>3. ASSUME NEW k \in ready' PROVE count'[k] >= Cardinality(Due(k))
      <4>1. k \in Groups /\ k \in Keys /\ Shown(j, k) >= Cardinality(Due(k))
        BY <1>0, <1>2, <2>3, <3>2 DEF Covers
      <4>2. CASE k \in DOMAIN j.next
        BY <3>2, <4>1, <4>2 DEF Written, Shown
      <4>3. CASE k \notin DOMAIN j.next
        <5>1. Cardinality(Due(k)) \in Nat /\ 0 >= Cardinality(Due(k)) /\ count[k] \in Nat
          BY <1>0, <4>1, <4>3, DueIsCounted DEF Shown
        <5> QED BY <3>2, <4>1, <4>3, <5>1 DEF Written
      <4> QED BY <4>2, <4>3
    <3>4. ~job'["counts"].on
      BY <1>0, <1>2, <2>3, CountsIsASlice DEF NoJob
    <3> QED BY <1>0, <1>d, <3>2, <3>3, <3>4 DEF ScansInv
  <2> QED BY <1>2, <2>1, <2>2, <2>3 DEF Advance
<1> QED BY <1>1, <1>2

LEMMA StepScans == TypeInv /\ QueuesInv /\ ScansInv /\ [Next]_vars => ScansInv'
<1> SUFFICES ASSUME TypeInv, QueuesInv, ScansInv, [Next]_vars PROVE ScansInv'
  OBVIOUS
<1>0. Groups \intersect Peers = {} /\ Groups \subseteq Keys /\ Peers \subseteq Keys
  BY KeysAssumption DEF Keys
<1>1. ASSUME NEW m \in Messages, StoreMessage(m) PROVE ScansInv'
  <2>1. \A k \in Groups : Due(k)' \subseteq Due(k)
    BY <1>1 DEF StoreMessage, Due
  <2> QED BY <1>1, <2>1, QuietScans DEF StoreMessage
<1>2. ASSUME NEW m \in Messages, CountMessage(m) PROVE ScansInv'
  <2>1. KeyOf[m] \in Keys /\ handling' = handling \ {m} /\ UNCHANGED <<stored, ready>>
    BY <1>2, KeysAssumption DEF CountMessage
  <2>2. CASE active = KeyOf[m]
    <3>1. handling \ In(KeyOf[m]) \subseteq handling'
      BY <2>1 DEF In
    <3> QED BY <1>2, <2>1, <2>2, <3>1, MarkScans DEF CountMessage
  <2>3. CASE active # KeyOf[m]
    BY <1>2, <2>1, <2>3, BumpScans DEF CountMessage
  <2> QED BY <2>2, <2>3
<1>3. ASSUME NEW m \in Messages, LiveDm(m) PROVE ScansInv'
  <2>1. KeyOf[m] \in Keys /\ UNCHANGED <<stored, read, handling, ready>>
    BY <1>3, <1>0 DEF LiveDm
  <2>2. CASE KeyOf[m] \in pending \/ active = KeyOf[m]
    BY <1>3, <2>1, <2>2, QuietScans DEF LiveDm, Due
  <2>3. CASE ~(KeyOf[m] \in pending \/ active = KeyOf[m])
    BY <1>3, <2>1, <2>3, BumpScans DEF LiveDm
  <2> QED BY <2>2, <2>3
<1>4. ASSUME NEW m \in Messages, StoreDm(m) PROVE ScansInv'
  <2>1. \A k \in Groups : Due(k)' \subseteq Due(k)
    BY <1>4, <1>0 DEF StoreDm, Due, In
  <2> QED BY <1>4, <2>1, QuietScans DEF StoreDm
<1>5. ASSUME NEW k \in Keys, Open(k) PROVE ScansInv'
  BY <1>5, MarkScans DEF Open
<1>6. CASE Close \/ InitUnreadCounts \/ Enqueue \/ UNCHANGED vars
  BY <1>6, QuietScans DEF Close, InitUnreadCounts, Enqueue, vars, Due
<1>7. ASSUME NEW k \in Peers, Confirm(k) PROVE ScansInv'
  BY <1>7, QuietScans DEF Confirm, Due
<1>8. ASSUME NEW s \in Slices, Begin(s) PROVE ScansInv'
  <2> DEFINE c == Head(calls[s])
             j == Fresh(c.keys)
  <2>1. /\ c \in CallType /\ InSlice(c, s) /\ calls[s] # <<>>
        /\ s = "counts" => AsksAll(c)
    BY <1>8 DEF Begin, TypeInv, DarkInv, CallsInv, KeysInv, QueuesInv
  <2>2. c.keys \in SUBSET Keys /\ c.keys \subseteq KeysOf(s) /\ (s = "counts" => c.keys = Groups)
    BY <2>1 DEF CallType, InSlice, AsksAll
  <2>3. /\ j \in JobType /\ j.on /\ j.todo = c.keys /\ j.touched = {} /\ j.reading = NoKey
        /\ DOMAIN j.next = {} /\ j.passes = 0
    BY <2>2, FreshJob
  <2>4. Advance(s, j) /\ UNCHANGED <<stored, read, handling>>
    BY <1>8 DEF Begin, Fresh
  <2> HIDE DEF j, c
  <2>5. KeptIn(j, s)
    BY <2>2, <2>3, BoundsAssumption DEF KeptIn
  <2>6. s = "counts" => Covers(j)
    BY <1>0, <2>2, <2>3, KeysAssumption DEF Covers
  <2> QED BY <2>1, <2>3, <2>4, <2>5, <2>6, AdvanceScans
<1>9. ASSUME NEW s \in Slices, Read(s) PROVE ScansInv'
  <2>1. PICK k \in job[s].todo :
           job' = [job EXCEPT ![s].reading = k,
                              ![s].found = Cardinality((stored \intersect In(k))
                                                       \ Head(calls[s]).read)]
    BY <1>9 DEF Read
  <2>d. \A x \in Groups : Due(x)' = Due(x)
    BY <1>9 DEF Read, Due
  <2>2. /\ UNCHANGED <<count, ready>>
        /\ job \in [Slices -> JobType] /\ KeptIn(job[s], s) /\ job[s].on
    BY <1>9 DEF Read, TypeInv, DarkInv, JobsInv, KeysInv
  <2>3. CASE s # "counts"
    BY <2>1, <2>d, <2>2, <2>3, CountsIsASlice, QuietScans
  <2>4. CASE s = "counts"
    <3> DEFINE c == Head(calls[s])
               found == (stored \intersect In(k)) \ c.read
               t == job'["counts"]
    <3>1. /\ t.on /\ t.todo = job[s].todo /\ t.touched = job[s].touched /\ t.next = job[s].next
          /\ t.reading = k /\ t.found = Cardinality(found)
      BY <2>1, <2>2, <2>4 DEF JobType
    <3>2. calls[s] # <<>> /\ calls[s] \in Seq(CallType) /\ k \in Groups
      BY <2>2, <2>4 DEF TypeInv, DarkInv, JobsInv, CallsInv, KeptIn, KeysOf
    <3>3. c.read \subseteq read
      <4>1. c = calls[s][1] /\ 1 \in DOMAIN calls[s]
        BY <3>2
      <4>2. InSlice(c, s) /\ AsksAll(c)
        BY <2>4, <4>1 DEF TypeInv, KeysInv, QueuesInv
      <4> QED BY <2>4, <4>2 DEF InSlice, AsksAll
    <3>4. Cardinality(found) >= Cardinality(Due(k))
      <4>1. found \in SUBSET Messages /\ Due(k) \in SUBSET Messages /\ Due(k) \subseteq found
        BY <3>2, <3>3 DEF Due, In
      <4> HIDE DEF found
      <4> QED BY <4>1, FewerAreLess
    <3> HIDE DEF found, c, t
    <3>5. \A x \in Groups \ t.touched :
           /\ x \notin t.todo => Shown(t, x) >= Cardinality(Due(x)')
           /\ t.reading = x => t.found >= Cardinality(Due(x)')
      BY <2>d, <2>2, <2>4, <3>1, <3>4 DEF ScansInv, Covers, Shown
    <3>6. \A x \in ready : count'[x] >= Cardinality(Due(x)')
      BY <2>d, <2>2 DEF ScansInv, TypeInv, SeenInv
    <3> QED BY <2>2, <3>5, <3>6 DEF ScansInv, t, Covers, Shown
  <2> QED BY <2>3, <2>4
<1>10. ASSUME NEW s \in Slices, Resume(s) PROVE ScansInv'
  <2> DEFINE j == Resumed(job[s])
  <2>1. job[s] \in JobType /\ KeptIn(job[s], s) /\ calls[s] # <<>> /\ job[s].reading # NoKey /\ job[s].on
    BY <1>10 DEF Resume, TypeInv, DarkInv, JobsInv, KeysInv
  <2>2. /\ j \in JobType /\ KeptIn(j, s) /\ j.on = job[s].on
        /\ j.reading = NoKey /\ j.touched = job[s].touched
        /\ j.todo = job[s].todo \ {job[s].reading}
        /\ \A k \in Keys : Shown(j, k) = IF k = job[s].reading THEN job[s].found ELSE Shown(job[s], k)
    BY <2>1, ResumedJob
  <2>3. Advance(s, j) /\ UNCHANGED <<stored, read, handling>>
    BY <1>10 DEF Resume, Resumed
  <2> HIDE DEF j
  <2>4. s = "counts" => Covers(j)
    BY <1>0, <2>1, <2>2, KeysAssumption DEF ScansInv, Covers
  <2> QED BY <2>1, <2>2, <2>3, <2>4, AdvanceScans
<1> QED
  BY <1>1, <1>2, <1>3, <1>4, <1>5, <1>6, <1>7, <1>8, <1>9, <1>10 DEF Next

(* A counter never shows less than what is unread, whatever comes, is opened,  *)
(* confirmed or scanned meanwhile, and in whatever order the reads and the      *)
(* writes of the reconciles fall (unreadStore.ts, reconcileInitExclusive's      *)
(* re-read of what was touched and the confirm's floor).                        *)
THEOREM NothingIsMissed == Spec => []NothingMissed
<1>1. MissInv => NothingMissed
  <2> SUFFICES ASSUME MissInv, NEW k \in ready \union (Peers \ lowered)
               PROVE  count[k] >= Cardinality(Due(k))
    BY DEF NothingMissed
  <2>1. CASE k \in ready
    BY <2>1 DEF MissInv, ScansInv
  <2>2. CASE k \in Peers \ lowered
    BY <2>2, KeysAssumption DEF MissInv, PeersInv, Due
  <2> QED BY <2>1, <2>2
<1>2. MissInv /\ [Next]_vars => MissInv'
  BY StepTyped, StepOwned, StepPeers, StepQueues, StepScans DEF MissInv
<1> QED BY <1>1, <1>2, InitMiss, PTL DEF Spec
=============================================================================
