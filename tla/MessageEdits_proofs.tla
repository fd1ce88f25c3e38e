------------------------ MODULE MessageEdits_proofs ------------------------
(***************************************************************************)
(* The edit/delete core for all values of its constants: types, the order of *)
(* a row's revisions and the authorship of its changes, under any            *)
(* interleaving of calls, appends and expiry and any number of crashes; and  *)
(* for one conversation, whose signals come from the authors of the           *)
(* messages, that a retraction sticks and, while nothing expires, that every  *)
(* signal prevails and the stores of a message are one register.  Last, what  *)
(* becomes of an expired delete and its marker, with stores of any size.      *)
(***************************************************************************)
EXTENDS MessageEditsRetraction, MessageEditsRegister, FiniteSetTheorems, TLAPS

(* An insertion under the cap, with or without an eviction, keeps a store's  *)
(* keys ids and its values of one type.                                     *)
LEMMA PutCappedMarkers ==
    ASSUME StoresType, NEW t \in Ids, NEW m \in MarkerType, NEW g \in PutCapped(markers, t, m)
    PROVE  DOMAIN g \subseteq Ids /\ g \in [DOMAIN g -> MarkerType]
  <1>1. CASE g = Put(markers, t, m)
    BY <1>1 DEF Put, StoresType
  <1>2. ASSUME NEW old \in DOMAIN markers, g = Put(Drop(markers, {old}), t, m)
        PROVE  DOMAIN g \subseteq Ids /\ g \in [DOMAIN g -> MarkerType]
    BY <1>2 DEF Put, Drop, Restrict, StoresType
  <1> QED BY <1>1, <1>2 DEF PutCapped

LEMMA PutCappedMeta ==
    ASSUME StoresType, NEW t \in Ids, NEW r \in Nat, NEW g \in PutCapped(slotMeta, t, r)
    PROVE  DOMAIN g \subseteq Ids /\ g \in [DOMAIN g -> Nat]
  <1>1. CASE g = Put(slotMeta, t, r)
    BY <1>1 DEF Put, StoresType
  <1>2. ASSUME NEW old \in DOMAIN slotMeta, g = Put(Drop(slotMeta, {old}), t, r)
        PROVE  DOMAIN g \subseteq Ids /\ g \in [DOMAIN g -> Nat]
    BY <1>2 DEF Put, Drop, Restrict, StoresType
  <1> QED BY <1>1, <1>2 DEF PutCapped

-----------------------------------------------------------------------------
(* Applying a signal to a row gives a row. *)
LEMMA RowAfterType ==
    ASSUME NEW row \in RowType, NEW w \in IncType
    PROVE  RowAfter(row, w) \in RowType
  BY DEF RowAfter, RowType, IncType

LEMMA RowWriteType ==
    ASSUME StoresType, NEW t \in DOMAIN rows, NEW w \in IncType,
           rows' = [rows EXCEPT ![t] = RowAfter(@, w)]
    PROVE  DOMAIN rows' = DOMAIN rows /\ rows' \in [DOMAIN rows' -> RowType]
  <1>1. RowAfter(rows[t], w) \in RowType
    BY RowAfterType DEF StoresType
  <1> QED BY <1>1 DEF StoresType

LEMMA IncomingType ==
    ASSUME NEW s \in Signals
    PROVE  Incoming(s) \in IncType /\ Incoming(s).kind # "none"
  BY SignalsAssumption DEF Incoming, IncType, SignalType

LEMMA WinnerType ==
    ASSUME StoresType, NEW t, NEW author, NEW w \in Winner(t, author)
    PROVE  w \in IncType /\ w.kind # "none"
  <1>1. ASSUME t \in DOMAIN pending
        PROVE  Incoming(pending[t].sig) \in IncType /\ Incoming(pending[t].sig).kind # "none"
    BY <1>1, IncomingType DEF StoresType, EntryType
  <1>2. ASSUME t \in DOMAIN markers
        PROVE  MarkerSignal(markers[t]) \in IncType /\ MarkerSignal(markers[t]).kind # "none"
    BY <1>2 DEF StoresType, MarkerType, MarkerSignal, IncType, NoRid
  <1> QED BY <1>1, <1>2 DEF Winner

(* What resolving a known row does to the state. *)
LEMMA ResolveKnownType ==
    ASSUME StoresType, inc \in IncType,
           NEW t \in DOMAIN rows, NEW author, ResolveKnown(t, author)
    PROVE  /\ StoresType' /\ DOMAIN rows' = DOMAIN rows
           /\ inc' \in IncType /\ cur' = t /\ t \in Ids
           /\ ret' = "unbuffer" /\ pc' \in {"meta", "unbuffer"} /\ todo' = todo
  <1>1. CASE \E w \in Winner(t, author) :
                /\ rows' = [rows EXCEPT ![t] = RowAfter(@, w)] /\ inc' = w /\ pc' = "meta"
    <2>1. PICK w \in Winner(t, author) :
                /\ rows' = [rows EXCEPT ![t] = RowAfter(@, w)] /\ inc' = w /\ pc' = "meta"
      BY <1>1
    <2>2. w \in IncType
      BY WinnerType
    <2> QED BY <2>1, <2>2, RowWriteType DEF ResolveKnown, StoresType
  <1>2. CASE pc' = "unbuffer" /\ UNCHANGED <<rows, inc>>
    BY <1>2 DEF ResolveKnown, StoresType
  <1> QED BY <1>1, <1>2 DEF ResolveKnown

(* What persisting the effect of an expired entry does to the state. *)
LEMMA PersistEffectType ==
    ASSUME StoresType, NEW t \in Ids, NEW s \in Signals, NEW next, PersistEffect(t, s, next)
    PROVE  /\ StoresType' /\ DOMAIN rows \subseteq DOMAIN rows'
           /\ inc' \in IncType /\ cur' = t
           /\ \/ pc' = "meta" /\ ret' = "supersede"
              \/ pc' = next /\ ret' = ret
           /\ pending' = pending
  <1>1. inc' \in IncType /\ cur' = t /\ UNCHANGED <<pending, slotMeta>>
    BY IncomingType DEF PersistEffect
  <1>2. CASE markers' \in UpsertMarker(t, s) /\ pc' = next /\ UNCHANGED <<rows, ret>>
    <2>1. [rev |-> s.rev, author |-> s.author] \in MarkerType
      BY SignalsAssumption DEF SignalType, MarkerType
    <2>2. DOMAIN markers' \subseteq Ids /\ markers' \in [DOMAIN markers' -> MarkerType]
      BY <1>2, <2>1, PutCappedMarkers DEF UpsertMarker, StoresType
    <2> QED BY <1>1, <1>2, <2>2 DEF StoresType
  <1>3. CASE pc' = next /\ UNCHANGED <<rows, markers, ret>>
    BY <1>1, <1>3 DEF StoresType
  <1>4. CASE /\ rows' = IF t \in DOMAIN rows THEN rows ELSE Put(rows, t, MaterialisedRow(s))
             /\ pc' = "meta" /\ ret' = "supersede" /\ UNCHANGED markers
    <2>1. MaterialisedRow(s) \in RowType
      BY SignalsAssumption DEF SignalType, RowType, MaterialisedRow
    <2>2. DOMAIN rows \subseteq Ids /\ rows \in [DOMAIN rows -> RowType]
      BY DEF StoresType
    <2> DEFINE new == Put(rows, t, MaterialisedRow(s))
    <2>3. /\ DOMAIN new \subseteq Ids /\ new \in [DOMAIN new -> RowType]
          /\ DOMAIN rows \subseteq DOMAIN new
      BY <2>1, <2>2 DEF Put
    <2> HIDE DEF new
    <2>4. rows' = rows \/ rows' = new
      BY <1>4 DEF new
    <2> QED BY <1>1, <1>4, <2>2, <2>3, <2>4 DEF StoresType
  <1> QED BY <1>1, <1>2, <1>3, <1>4 DEF PersistEffect

LEMMA DropPendingType ==
    ASSUME StoresType, NEW S, pending' = Drop(pending, S), UNCHANGED <<rows, markers, slotMeta>>
    PROVE  StoresType' /\ DOMAIN pending' = DOMAIN pending \ S
  <1>1. DOMAIN pending \subseteq Ids /\ pending \in [DOMAIN pending -> EntryType]
    BY DEF StoresType
  <1>2. /\ DOMAIN pending' \subseteq Ids /\ pending' \in [DOMAIN pending' -> EntryType]
        /\ DOMAIN pending' = DOMAIN pending \ S
    BY <1>1 DEF Drop, Restrict
  <1> QED BY <1>2 DEF StoresType

LEMMA DropMarkerType ==
    ASSUME StoresType, NEW S, markers' = Drop(markers, S), UNCHANGED <<rows, pending, slotMeta>>
    PROVE  StoresType'
  <1>1. DOMAIN markers \subseteq Ids /\ markers \in [DOMAIN markers -> MarkerType]
    BY DEF StoresType
  <1>2. DOMAIN markers' \subseteq Ids /\ markers' \in [DOMAIN markers' -> MarkerType]
    BY <1>1 DEF Drop, Restrict
  <1> QED BY <1>2 DEF StoresType

LEMMA PutPendingType ==
    ASSUME StoresType, NEW S, NEW t \in Ids, NEW e \in EntryType,
           pending' = Put(Drop(pending, S), t, e) \/ pending' = Put(pending, t, e),
           UNCHANGED <<rows, markers, slotMeta>>
    PROVE  StoresType'
  <1>1. DOMAIN pending \subseteq Ids /\ pending \in [DOMAIN pending -> EntryType]
    BY DEF StoresType
  <1> DEFINE h == Drop(pending, S)
  <1>2. DOMAIN h \subseteq Ids /\ h \in [DOMAIN h -> EntryType]
    BY <1>1 DEF Drop, Restrict
  <1> HIDE DEF h
  <1>3. \A f \in {h, pending} : /\ DOMAIN Put(f, t, e) \subseteq Ids
                                /\ Put(f, t, e) \in [DOMAIN Put(f, t, e) -> EntryType]
    BY <1>1, <1>2 DEF Put
  <1>4. DOMAIN pending' \subseteq Ids /\ pending' \in [DOMAIN pending' -> EntryType]
    BY <1>3 DEF h
  <1> QED BY <1>4 DEF StoresType

(* The loop over the target ids, and the entry it buffers. *)
LEMMA NextTargetType ==
    ASSUME CallTypeOK, todo # <<>>, NextTarget
    PROVE  /\ todo' \in Seq(Ids) /\ pc' \in {"insert", "done"}
           /\ pc' = "insert" <=> todo' # <<>>
  BY DEF CallTypeOK, NextTarget

LEMMA NextEntryType ==
    ASSUME TypeOK, pc \in {"insert", "swap"}, NEW v,
           \/ pending' = pending
           \/ pending' = Put(pending, Head(todo), Candidate)
           \/ pending' = Put(Drop(pending, {v}), Head(todo), Candidate),
           UNCHANGED <<rows, markers, slotMeta>>
    PROVE  StoresType'
  <1>1. Head(todo) \in Ids
    BY DEF TypeOK, StepNeeds, CallTypeOK
  <1>2. call.sig \in Signals
    BY DEF TypeOK, StepNeeds, CallTypeOK, CallType, NoCall
  <1>3. Candidate \in EntryType
    BY <1>2 DEF TypeOK, EnvType, Candidate, EntryType
  <1>4. CASE pending' = pending
    BY <1>4 DEF TypeOK, StoresType
  <1>5. CASE pending' # pending
    BY <1>1, <1>3, <1>5, PutPendingType DEF TypeOK
  <1> QED BY <1>4, <1>5

-----------------------------------------------------------------------------
(* The initial state and every step keep TypeOK. *)
LEMMA TypeInit == Init => TypeOK
  BY ConstantsAssumption, SignalsAssumption
  DEF Init, TypeOK, StoresType, CallTypeOK, EnvType, StepNeeds, Empty, NoCall,
      NoIncoming, CallType, IncType, NoRid, Nowhere

LEMMA TypeStep == TypeOK /\ [Next]_vars => TypeOK'
  <1> SUFFICES ASSUME TypeOK, [Next]_vars PROVE TypeOK'
    OBVIOUS
  <1> USE DEF TypeOK
  <1>1. CASE WriteSlotMeta
    <2>1. cur \in Ids /\ inc.rid \in Nat
      BY <1>1 DEF WriteSlotMeta, StepNeeds, CallTypeOK, IncType
    <2>2. StoresType'
      BY <1>1, <2>1, PutCappedMeta DEF WriteSlotMeta, StoresType, env
    <2> QED BY <1>1, <2>1, <2>2 DEF WriteSlotMeta, StepNeeds, CallTypeOK, EnvType, env
  <1>2. CASE Unbuffer
    <2>1. StoresType'
      <3>1. CASE cur \in DOMAIN pending
        BY <1>2, <3>1, DropPendingType DEF Unbuffer
      <3>2. CASE cur \notin DOMAIN pending
        BY <1>2, <3>2 DEF Unbuffer, StoresType
      <3> QED BY <3>1, <3>2
    <2> QED BY <1>2, <2>1 DEF Unbuffer, StepNeeds, CallTypeOK, EnvType, env
  <1>3. CASE Unmark
    <2>1. StoresType'
      BY <1>3, DropMarkerType DEF Unmark
    <2>2. CallTypeOK' /\ EnvType'
      BY <1>3 DEF Unmark, CallTypeOK, EnvType, env, NoIncoming, IncType, NoRid
    <2> QED BY <1>3, <2>1, <2>2 DEF Unmark, StepNeeds, env
  <1>4. ASSUME NEW t \in Ids, Heal(t) PROVE TypeOK'
    <2>1. t \in DOMAIN rows /\ inc \in IncType
      BY <1>4 DEF Heal, HealTargets, CallTypeOK
    <2>2. /\ StoresType' /\ DOMAIN rows' = DOMAIN rows
          /\ inc' \in IncType /\ cur' = t
          /\ ret' = "unbuffer" /\ pc' \in {"meta", "unbuffer"} /\ todo' = todo
      BY <1>4, <2>1, ResolveKnownType DEF Heal
    <2> QED BY <1>4, <2>2 DEF Heal, StepNeeds, CallTypeOK, EnvType, env
  <1>5. ASSUME NEW t \in Ids, Expire(t) PROVE TypeOK'
    <2>1. pending[t].sig \in Signals
      BY <1>5 DEF Expire, ExpireTargets, StoresType, EntryType
    <2>2. /\ StoresType' /\ DOMAIN rows \subseteq DOMAIN rows'
          /\ inc' \in IncType /\ cur' = t
          /\ \/ pc' = "meta" /\ ret' = "supersede"
             \/ pc' = "release" /\ ret' = ret
      BY <1>5, <2>1, PersistEffectType DEF Expire
    <2> QED BY <1>5, <2>2 DEF Expire, StepNeeds, CallTypeOK, EnvType, env
  <1>6. CASE Supersede
    <2>1. StoresType'
      BY <1>6, DropMarkerType DEF Supersede
    <2> QED BY <1>6, <2>1 DEF Supersede, StepNeeds, CallTypeOK, EnvType, env
  <1>7. CASE Release
    <2>1. StoresType'
      BY <1>7, DropPendingType DEF Release
    <2>2. CallTypeOK' /\ EnvType'
      BY <1>7 DEF Release, CallTypeOK, EnvType, env, NoIncoming, IncType, NoRid
    <2> QED BY <1>7, <2>1, <2>2 DEF Release, StepNeeds, env
  <1>8. CASE EndSweep
    BY <1>8 DEF EndSweep, StoresType, StepNeeds, CallTypeOK, CallType, EnvType, NoCall, stores, env
  <1>9. CASE ApplyToKnownSlot
    <2>1. PICK i \in KnownTargets(call.sig) :
            LET t == call.sig.targets[i]
            IN  \/ /\ rows' = [rows EXCEPT ![t] = RowAfter(@, Incoming(call.sig))]
                   /\ cur' = t /\ inc' = Incoming(call.sig)
                   /\ pc' = "meta" /\ ret' = "done"
                \/ pc' = "done" /\ UNCHANGED <<rows, cur, inc, ret>>
      BY <1>9 DEF ApplyToKnownSlot
    <2> DEFINE t == call.sig.targets[i]
    <2>2. t \in DOMAIN rows
      BY <2>1 DEF KnownTargets
    <2>3. call.sig \in Signals /\ call.op = "apply"
      BY <1>9 DEF ApplyToKnownSlot, StepNeeds, CallTypeOK, CallType, NoCall
    <2>4. Incoming(call.sig) \in IncType
      BY <2>3, IncomingType
    <2>5. CASE /\ rows' = [rows EXCEPT ![t] = RowAfter(@, Incoming(call.sig))]
               /\ cur' = t /\ inc' = Incoming(call.sig)
               /\ pc' = "meta" /\ ret' = "done"
      <3>1. DOMAIN rows' = DOMAIN rows /\ rows' \in [DOMAIN rows' -> RowType]
        BY <2>2, <2>4, <2>5, RowWriteType
      <3> QED BY <1>9, <2>2, <2>3, <2>4, <2>5, <3>1
              DEF ApplyToKnownSlot, StoresType, StepNeeds, CallTypeOK, EnvType, env
    <2>6. CASE pc' = "done" /\ UNCHANGED <<rows, cur, inc, ret>>
      BY <1>9, <2>3, <2>6 DEF ApplyToKnownSlot, StoresType, StepNeeds, CallTypeOK, EnvType, env
    <2> QED BY <2>1, <2>5, <2>6
  <1>10. CASE BufferSignal
    <2>1. call.sig \in Signals /\ call.op = "apply"
      BY <1>10 DEF BufferSignal, StepNeeds, CallTypeOK, CallType, NoCall
    <2>2. call.sig.targets \in Seq(Ids) \ {<<>>}
      BY <2>1, SignalsAssumption DEF SignalType
    <2> QED BY <1>10, <2>1, <2>2
            DEF BufferSignal, StoresType, StepNeeds, CallTypeOK, EnvType, stores, env
  <1>11. CASE Insert
    <2>1. StoresType'
      BY <1>11, NextEntryType DEF Insert
    <2>2. /\ todo # <<>> /\ call.op = "apply" /\ NextTarget
          /\ UNCHANGED <<rows, markers, slotMeta, call, known, cur, inc, ret, env>>
      BY <1>11 DEF Insert, StepNeeds
    <2>3. CallTypeOK' /\ EnvType'
      BY <2>2, NextTargetType DEF CallTypeOK, EnvType, env
    <2>4. StepNeeds'
      BY <2>2, NextTargetType, <1>11 DEF Insert, StepNeeds, CallTypeOK
    <2> QED BY <2>1, <2>3, <2>4
  <1>12. ASSUME NEW v \in Ids, EvictBare(v) PROVE TypeOK'
    <2>1. StoresType' /\ pc = "insert"
      BY <1>12, NextEntryType DEF EvictBare, AtCap
    <2> QED BY <1>12, <2>1, NextTargetType DEF EvictBare, StepNeeds, CallTypeOK, EnvType, env
  <1>13. ASSUME NEW v \in Ids, EvictExpired(v) PROVE TypeOK'
    BY <1>13 DEF EvictExpired, AtCap, Oldest, StoresType, StepNeeds, CallTypeOK, EnvType, stores, env
  <1>14. CASE PersistEvicted
    <2>1. /\ cur \in Ids /\ cur \in DOMAIN pending /\ call.op = "apply" /\ todo # <<>>
          /\ pending[cur].sig \in Signals
      BY <1>14 DEF PersistEvicted, StepNeeds, StoresType, EntryType
    <2>2. CASE cur \notin known
      <3>1. /\ StoresType' /\ DOMAIN rows \subseteq DOMAIN rows'
            /\ inc' \in IncType /\ cur' = cur
            /\ \/ pc' = "meta" /\ ret' = "supersede"
               \/ pc' = "swap" /\ ret' = ret
        BY <1>14, <2>1, <2>2, PersistEffectType DEF PersistEvicted
      <3> QED BY <1>14, <2>1, <3>1 DEF PersistEvicted, StepNeeds, CallTypeOK, EnvType, env
    <2>3. CASE /\ rows' = [rows EXCEPT ![cur] = RowAfter(@, Incoming(pending[cur].sig))]
               /\ inc' = Incoming(pending[cur].sig)
               /\ pc' = "meta" /\ ret' = "swap"
               /\ cur \in known /\ UNCHANGED <<pending, markers, slotMeta, cur>>
      <3>1. Incoming(pending[cur].sig) \in IncType /\ cur \in DOMAIN rows
        BY <2>1, <2>3, IncomingType DEF CallTypeOK
      <3>2. DOMAIN rows' = DOMAIN rows /\ rows' \in [DOMAIN rows' -> RowType]
        BY <2>3, <3>1, RowWriteType
      <3> QED BY <1>14, <2>1, <2>3, <3>1, <3>2
              DEF PersistEvicted, StoresType, StepNeeds, CallTypeOK, EnvType, env
    <2>4. CASE /\ pc' = "swap" /\ UNCHANGED <<rows, inc, ret>>
               /\ UNCHANGED <<pending, markers, slotMeta, cur>>
      BY <1>14, <2>1, <2>4 DEF PersistEvicted, StoresType, StepNeeds, CallTypeOK, EnvType, env
    <2> QED BY <1>14, <2>2, <2>3, <2>4 DEF PersistEvicted
  <1>15. CASE Swap
    <2>1. StoresType'
      BY <1>15, NextEntryType DEF Swap
    <2> QED BY <1>15, <2>1, NextTargetType
            DEF Swap, StepNeeds, CallTypeOK, EnvType, env, NoIncoming, IncType, NoRid
  <1>16. CASE Done
    BY <1>16 DEF Done, StoresType, StepNeeds, CallTypeOK, CallType, EnvType, NoCall, NoIncoming,
                 IncType, NoRid, stores
  <1>17. ASSUME NEW s \in Signals, StartApply(s) PROVE TypeOK'
    <2>1. ThreadOf[Slot(s)] \in Threads
      BY SignalsAssumption, ConstantsAssumption DEF SignalType, Slot
    <2> QED BY <1>17, <2>1 DEF StartApply, StoresType, StepNeeds, CallTypeOK, CallType, EnvType, stores, env
  <1>18. ASSUME NEW t \in Originals, AppendOriginal(t) PROVE TypeOK'
    <2> DEFINE row == [author |-> AuthorOf[t], rev |-> 0, tomb |-> FALSE, content |-> Original]
    <2>1. row \in RowType /\ t \in Ids
      BY ConstantsAssumption DEF RowType, Original
    <2>2. /\ DOMAIN rows' \subseteq Ids /\ rows' \in [DOMAIN rows' -> RowType]
          /\ DOMAIN rows \subseteq DOMAIN rows' /\ t \in DOMAIN rows'
      <3>1. CASE t \in DOMAIN rows
        BY <1>18, <3>1 DEF AppendOriginal, StoresType
      <3>2. CASE t \notin DOMAIN rows
        BY <1>18, <2>1, <3>2 DEF AppendOriginal, Put, StoresType
      <3> QED BY <3>1, <3>2
    <2>3. /\ UNCHANGED <<pending, markers, slotMeta, regs, clock, crashes, accepted>>
          /\ resolveDue' = resolveDue \cup {t}
      BY <1>18 DEF AppendOriginal
    <2>4. StoresType'
      BY <2>2, <2>3 DEF StoresType
    <2>5. CallTypeOK' /\ StepNeeds'
      BY <2>2, <2>3 DEF StepNeeds, CallTypeOK, regs
    <2>6. EnvType'
      BY <2>2, <2>3 DEF EnvType
    <2> QED BY <2>4, <2>5, <2>6
  <1>19. ASSUME NEW t \in Originals, StartResolve(t) PROVE TypeOK'
    <2>1. /\ StoresType' /\ DOMAIN rows' = DOMAIN rows
          /\ inc' \in IncType /\ cur' = t /\ t \in Ids
          /\ ret' = "unbuffer" /\ pc' \in {"meta", "unbuffer"} /\ todo' = todo
      BY <1>19, ResolveKnownType DEF StartResolve, EnvType, CallTypeOK
    <2>2. call' \in CallType /\ call'.op = "resolve"
      BY <1>19, <2>1, ConstantsAssumption DEF StartResolve, CallType
    <2> QED BY <1>19, <2>1, <2>2 DEF StartResolve, StepNeeds, CallTypeOK, EnvType
  <1>20. ASSUME NEW th \in Threads, OpenThread(th) PROVE TypeOK'
    BY <1>20 DEF OpenThread, StoresType, StepNeeds, CallTypeOK, CallType, EnvType, stores, env
  <1>21. CASE Tick
    BY <1>21, ConstantsAssumption
    DEF Tick, StoresType, StepNeeds, CallTypeOK, EnvType, stores, regs
  <1>22. CASE Crash
    BY <1>22, ConstantsAssumption
    DEF Crash, StoresType, StepNeeds, CallTypeOK, CallType, EnvType, NoCall, NoIncoming, IncType,
        NoRid, stores
  <1>23. CASE UNCHANGED vars
    BY <1>23 DEF vars, StoresType, StepNeeds, CallTypeOK, EnvType
  <1> QED BY <1>1, <1>2, <1>3, <1>4, <1>5, <1>6, <1>7, <1>8, <1>9, <1>10, <1>11, <1>12, <1>13,
             <1>14, <1>15, <1>16, <1>17, <1>18, <1>19, <1>20, <1>21, <1>22, <1>23
          DEF Next, CallStep

(* In every reachable state of the core the stores hold what they should and *)
(* a call finds the registers its next step needs.                           *)
THEOREM TypeCorrect == Spec => []TypeOK
  BY TypeInit, TypeStep, PTL DEF Spec

-----------------------------------------------------------------------------
(* No step takes a row back: the guard WinsAt, wherever it is used.          *)
RowAdvances(t) ==
    /\ t \in DOMAIN rows'
    /\ rows'[t].rev >= rows[t].rev
    /\ rows[t].tomb /\ ~rows'[t].tomb => rows'[t].rev > rows[t].rev

LEMMA WinningWriteAdvances ==
    ASSUME StoresType, NEW t \in DOMAIN rows, NEW w \in IncType, w.kind # "none",
           WinsAt(t, w), rows' = [rows EXCEPT ![t] = RowAfter(@, w)], NEW u \in DOMAIN rows
    PROVE  RowAdvances(u)
  <1>1. rows[t] \in RowType /\ rows[u] \in RowType
    BY DEF StoresType
  <1>2. RowAfter(rows[t], w).rev = w.rev /\ (RowAfter(rows[t], w).tomb <=> w.kind = "delete")
    BY <1>1 DEF RowAfter, RowType
  <1>3. w.rev >= rows[t].rev /\ (w.kind # "delete" /\ rows[t].tomb => w.rev > rows[t].rev)
    BY <1>1 DEF WinsAt, RowType, IncType
  <1> QED BY <1>1, <1>2, <1>3 DEF RowAdvances, RowType, StoresType

LEMMA KeptRowsAdvance ==
    ASSUME StoresType, NEW u \in DOMAIN rows, u \in DOMAIN rows', rows'[u] = rows[u]
    PROVE  RowAdvances(u)
  BY DEF StoresType, RowType, RowAdvances

LEMMA ResolveKnownAdvances ==
    ASSUME StoresType, NEW t \in DOMAIN rows, NEW author, ResolveKnown(t, author),
           NEW u \in DOMAIN rows
    PROVE  RowAdvances(u)
  <1>1. CASE UNCHANGED rows
    BY <1>1, KeptRowsAdvance
  <1>2. ASSUME NEW w \in Winner(t, author), WinsAt(t, w),
               rows' = [rows EXCEPT ![t] = RowAfter(@, w)]
        PROVE  RowAdvances(u)
    BY <1>2, WinnerType, WinningWriteAdvances
  <1> QED BY <1>1, <1>2 DEF ResolveKnown

LEMMA PersistEffectAdvances ==
    ASSUME StoresType, NEW t, NEW s, NEW next, PersistEffect(t, s, next), NEW u \in DOMAIN rows
    PROVE  RowAdvances(u)
  <1>1. u \in DOMAIN rows' /\ rows'[u] = rows[u]
    <2>1. CASE UNCHANGED rows
      BY <2>1
    <2>2. CASE t \notin DOMAIN rows /\ rows' = Put(rows, t, MaterialisedRow(s))
      BY <2>2 DEF Put
    <2> QED BY <2>1, <2>2 DEF PersistEffect
  <1> QED BY <1>1, KeptRowsAdvance

LEMMA StepAdvancesRows ==
    ASSUME TypeOK, [Next]_vars, NEW u \in DOMAIN rows
    PROVE  RowAdvances(u)
  <1>1. StoresType
    BY DEF TypeOK
  <1>2. CASE UNCHANGED rows
    BY <1>1, <1>2, KeptRowsAdvance
  <1>3. ASSUME NEW t \in Ids, Heal(t) PROVE RowAdvances(u)
    BY <1>1, <1>3, ResolveKnownAdvances DEF Heal, HealTargets, TypeOK, CallTypeOK
  <1>4. ASSUME NEW t \in Ids, Expire(t) PROVE RowAdvances(u)
    BY <1>1, <1>4, PersistEffectAdvances DEF Expire
  <1>5. CASE ApplyToKnownSlot
    <2>1. PICK i \in KnownTargets(call.sig) :
            LET t == call.sig.targets[i]
            IN  \/ /\ WinsAt(t, Incoming(call.sig))
                   /\ rows' = [rows EXCEPT ![t] = RowAfter(@, Incoming(call.sig))]
                \/ UNCHANGED rows
      BY <1>5 DEF ApplyToKnownSlot
    <2>2. call.sig \in Signals
      BY <1>5 DEF ApplyToKnownSlot, TypeOK, StepNeeds, CallTypeOK, CallType, NoCall
    <2>3. Incoming(call.sig) \in IncType /\ Incoming(call.sig).kind # "none"
      BY <2>2, IncomingType
    <2> QED BY <1>1, <1>2, <2>1, <2>3, WinningWriteAdvances DEF KnownTargets
  <1>6. CASE PersistEvicted
    <2>1. cur \in DOMAIN pending /\ pending[cur].sig \in Signals
      BY <1>6 DEF PersistEvicted, TypeOK, StepNeeds, StoresType, EntryType
    <2>2. CASE cur \notin known
      BY <1>1, <1>6, <2>2, PersistEffectAdvances DEF PersistEvicted
    <2>3. CASE /\ cur \in known /\ WinsAt(cur, Incoming(pending[cur].sig))
               /\ rows' = [rows EXCEPT ![cur] = RowAfter(@, Incoming(pending[cur].sig))]
      <3>1. cur \in DOMAIN rows
        BY <2>3 DEF TypeOK, CallTypeOK
      <3>2. Incoming(pending[cur].sig) \in IncType /\ Incoming(pending[cur].sig).kind # "none"
        BY <2>1, IncomingType
      <3> QED BY <1>1, <2>3, <3>1, <3>2, WinningWriteAdvances
    <2> QED BY <1>2, <1>6, <2>2, <2>3 DEF PersistEvicted
  <1>7. ASSUME NEW t \in Originals, AppendOriginal(t) PROVE RowAdvances(u)
    <2>1. u \in DOMAIN rows' /\ rows'[u] = rows[u]
      BY <1>7 DEF AppendOriginal, Put
    <2> QED BY <1>1, <2>1, KeptRowsAdvance
  <1>8. ASSUME NEW t \in Originals, StartResolve(t) PROVE RowAdvances(u)
    BY <1>1, <1>8, ResolveKnownAdvances DEF StartResolve, TypeOK, EnvType
  <1> QED
    BY <1>2, <1>3, <1>4, <1>5, <1>6, <1>7, <1>8
    DEF Next, CallStep, WriteSlotMeta, Unbuffer, Unmark, Supersede, Release, EndSweep,
        BufferSignal, Insert, EvictBare, EvictExpired, Swap, Done, StartApply, OpenThread,
        Tick, Crash, stores, vars

(* A row's revision never falls, rows never disappear, and a retracted       *)
(* message is shown again only by a strictly newer edit.                     *)
THEOREM RowsAdvance == Spec => RowsOnlyAdvance
  <1>1. TypeOK /\ [Next]_vars => [\A t \in DOMAIN rows : RowAdvances(t)]_vars
    BY StepAdvancesRows
  <1> QED BY <1>1, TypeCorrect, PTL DEF Spec, RowsOnlyAdvance, RowAdvances
-----------------------------------------------------------------------------
(***************************************************************************)
(* Why a row shows only what its own author signed.  A row can carry an      *)
(* author other than its message's: an edit by somebody else that expired    *)
(* before the original came was materialised.  Resolving such a row in the   *)
(* name of the message's author must then find nothing of that author.       *)
(***************************************************************************)
Targets(s) == {s.targets[i] : i \in DOMAIN s.targets}

SignedRow(t) ==
    rows[t].rev > 0 =>
        \E s \in Signals :
            /\ t \in Targets(s)
            /\ s.author = rows[t].author /\ s.rev = rows[t].rev
            /\ IF rows[t].tomb THEN s.kind = "delete"
               ELSE s.kind = "edit" /\ rows[t].content = s.rid

SignedMarker(t) ==
    \E s \in Signals :
        /\ s.kind = "delete" /\ t \in Targets(s)
        /\ s.author = markers[t].author /\ s.rev = markers[t].rev

Foreign(t) == t \in Originals /\ t \in DOMAIN rows /\ rows[t].author # AuthorOf[t]

(* Of the message's author a foreign row has no buffered signal, and only a  *)
(* marker that the row outranks.                                            *)
NothingOwnWaits(t) ==
    /\ t \in DOMAIN pending => pending[t].sig.author # AuthorOf[t]
    /\ t \in DOMAIN markers /\ markers[t].author = AuthorOf[t] => markers[t].rev < rows[t].rev

(* Only the first id still to buffer can be an original, and it gets no      *)
(* signal of its author once it has a foreign row.                           *)
ToBuffer ==
    /\ \A i \in DOMAIN todo : todo[i] \in Targets(call.sig) /\ (i # 1 => todo[i] \notin Originals)
    /\ todo # <<>> /\ Foreign(todo[1]) => call.sig.author # AuthorOf[todo[1]]
    /\ pc = "evict" => todo[1] \notin DOMAIN pending

AuthorInv ==
    /\ \A t \in DOMAIN rows : SignedRow(t)
    /\ \A t \in DOMAIN markers : SignedMarker(t)
    /\ \A t \in DOMAIN pending : t \in Targets(pending[t].sig)
    /\ \A t \in Originals : Foreign(t) => NothingOwnWaits(t)
    /\ ToBuffer
(* A step that keeps the rows it finds in front of AuthorInv, or advances     *)
(* them, and only takes entries and markers away, keeps AuthorInv.           *)
LEMMA AuthorsKept ==
    ASSUME AuthorInv, ToBuffer',
           \A t \in DOMAIN rows' : SignedRow(t)',
           \A t \in Originals : Foreign(t)' => /\ Foreign(t) /\ rows[t].rev \in Nat
                                               /\ rows'[t].rev \in Nat
                                               /\ rows'[t].rev >= rows[t].rev,
           \A t \in DOMAIN pending' : t \in DOMAIN pending /\ pending'[t] = pending[t],
           \A t \in DOMAIN markers' : t \in DOMAIN markers /\ markers'[t] = markers[t],
           \A t \in DOMAIN markers : markers[t].rev \in Nat
    PROVE  AuthorInv'
  <1>1. \A t \in DOMAIN markers' : SignedMarker(t)'
    BY DEF AuthorInv, SignedMarker
  <1>2. \A t \in DOMAIN pending' : t \in Targets(pending'[t].sig)
    BY DEF AuthorInv
  <1>3. ASSUME NEW t \in Originals, Foreign(t)' PROVE NothingOwnWaits(t)'
    BY <1>3 DEF AuthorInv, NothingOwnWaits
  <1> QED BY <1>1, <1>2, <1>3 DEF AuthorInv

(* ... such as a step that leaves the rows alone. *)
LEMMA SameRowsKeepAuthors ==
    ASSUME TypeOK, AuthorInv, ToBuffer', UNCHANGED rows,
           \A t \in DOMAIN pending' : t \in DOMAIN pending /\ pending'[t] = pending[t],
           \A t \in DOMAIN markers' : t \in DOMAIN markers /\ markers'[t] = markers[t]
    PROVE  AuthorInv'
  <1>1. \A t \in DOMAIN rows' : SignedRow(t)'
    BY DEF AuthorInv, SignedRow
  <1>2. /\ \A t \in DOMAIN rows : rows[t].rev \in Nat
        /\ \A t \in DOMAIN markers : markers[t].rev \in Nat
    BY DEF TypeOK, StoresType, RowType, MarkerType
  <1>3. \A t \in Originals : Foreign(t)' => /\ Foreign(t) /\ rows[t].rev \in Nat
                                            /\ rows'[t].rev \in Nat
                                            /\ rows'[t].rev >= rows[t].rev
    BY <1>2 DEF Foreign
  <1> QED BY <1>1, <1>2, <1>3, AuthorsKept

LEMMA DroppedIsKept ==
    ASSUME NEW f, NEW S, NEW t \in DOMAIN Drop(f, S)
    PROVE  t \in DOMAIN f /\ t \notin S /\ Drop(f, S)[t] = f[t]
  BY DEF Drop, Restrict

LEMMA PutIsKept ==
    ASSUME NEW f, NEW k, NEW v, NEW u \in DOMAIN Put(f, k, v)
    PROVE  (u \in DOMAIN f /\ Put(f, k, v)[u] = f[u]) \/ (u = k /\ Put(f, k, v)[u] = v)
  BY DEF Put

LEMMA SwapIsKept ==
    ASSUME NEW f, NEW S, NEW k, NEW v, NEW u \in DOMAIN Put(Drop(f, S), k, v)
    PROVE  \/ u \in DOMAIN f /\ Put(Drop(f, S), k, v)[u] = f[u]
           \/ u = k /\ Put(Drop(f, S), k, v)[u] = v
  <1>1. \/ u \in DOMAIN Drop(f, S) /\ Put(Drop(f, S), k, v)[u] = Drop(f, S)[u]
        \/ u = k /\ Put(Drop(f, S), k, v)[u] = v
    BY PutIsKept
  <1> QED BY <1>1, DroppedIsKept

(* Nothing is left to buffer, or what is left has been there before. *)
LEMMA NothingToBuffer == ASSUME todo' = <<>>, pc' # "evict" PROVE ToBuffer'
  BY DEF ToBuffer

LEMMA SameToBuffer ==
    ASSUME ToBuffer, UNCHANGED <<todo, call>>, pc' # "evict" \/ UNCHANGED <<pc, pending>>,
           todo # <<>> => (Foreign(todo[1])' => Foreign(todo[1]))
    PROVE  ToBuffer'
  BY DEF ToBuffer

-----------------------------------------------------------------------------
(* Writing a row: the signal that wins is one of the row's author. *)
LEMMA SignedWrite ==
    ASSUME TypeOK, AuthorInv, NEW t \in DOMAIN rows, NEW w \in IncType, w.kind # "none",
           WinsAt(t, w), rows' = [rows EXCEPT ![t] = RowAfter(@, w)],
           NEW s \in Signals, t \in Targets(s), s.author = rows[t].author,
           s.rev = w.rev, s.kind = w.kind, w.kind = "edit" => s.rid = w.rid
    PROVE  /\ \A u \in DOMAIN rows' : SignedRow(u)'
           /\ \A u : Foreign(u)' => /\ Foreign(u) /\ rows[u].rev \in Nat
                                    /\ rows'[u].rev \in Nat /\ rows'[u].rev >= rows[u].rev
  <1>1. /\ rows \in [DOMAIN rows -> RowType]
        /\ DOMAIN rows' = DOMAIN rows
        /\ \A u \in DOMAIN rows : u # t => rows'[u] = rows[u]
        /\ rows'[t] = RowAfter(rows[t], w)
    BY DEF TypeOK, StoresType
  <1>2. rows[t] \in RowType
    BY <1>1
  <1>3. /\ RowAfter(rows[t], w).author = rows[t].author
        /\ RowAfter(rows[t], w).rev = w.rev
        /\ IF RowAfter(rows[t], w).tomb THEN w.kind = "delete"
           ELSE w.kind = "edit" /\ RowAfter(rows[t], w).content = w.rid
    BY <1>2 DEF RowAfter, RowType, IncType
  <1>4. w.rev \in Nat /\ w.rev >= rows[t].rev
    BY <1>2 DEF WinsAt, RowType, IncType
  <1>5. SignedRow(t)'
    BY <1>1, <1>3 DEF SignedRow
  <1>6. ASSUME NEW u \in DOMAIN rows, u # t PROVE SignedRow(u)'
    <2>1. SignedRow(u) /\ rows'[u] = rows[u]
      BY <1>1, <1>6 DEF AuthorInv
    <2> QED BY <2>1 DEF SignedRow
  <1>7. ASSUME NEW u, Foreign(u)'
        PROVE  /\ Foreign(u) /\ rows[u].rev \in Nat
               /\ rows'[u].rev \in Nat /\ rows'[u].rev >= rows[u].rev
    <2>1. rows[u].rev \in Nat /\ u \in DOMAIN rows /\ u \in Originals
      BY <1>1, <1>7 DEF Foreign, RowType
    <2>2. CASE u = t
      BY <1>1, <1>3, <1>4, <1>7, <2>1, <2>2 DEF Foreign
    <2>3. CASE u # t
      BY <1>1, <1>7, <2>1, <2>3 DEF Foreign
    <2> QED BY <2>2, <2>3
  <1> QED BY <1>1, <1>5, <1>6, <1>7

(* Where the signal that resolves a known row comes from. *)
LEMMA WinnerIsSigned ==
    ASSUME TypeOK, AuthorInv, NEW t, NEW author, NEW w \in Winner(t, author)
    PROVE  \E s \in Signals : /\ t \in Targets(s) /\ s.author = author
                              /\ s.rev = w.rev /\ s.kind = w.kind
                              /\ w.kind = "edit" => s.rid = w.rid
  <1>1. CASE /\ t \in DOMAIN pending /\ pending[t].sig.author = author
             /\ w = Incoming(pending[t].sig)
    <2>1. pending[t].sig \in Signals /\ t \in Targets(pending[t].sig)
      BY <1>1 DEF TypeOK, StoresType, EntryType, AuthorInv
    <2> QED BY <1>1, <2>1 DEF Incoming
  <1>2. CASE /\ t \in DOMAIN markers /\ markers[t].author = author
             /\ w = MarkerSignal(markers[t])
    BY <1>2 DEF AuthorInv, SignedMarker, MarkerSignal
  <1> QED BY <1>1, <1>2 DEF Winner

(* Resolving a row in the name of its own author, or in the name of a        *)
(* message's author whose signals the row does not carry.                    *)
LEMMA ResolveKnownAuthors ==
    ASSUME TypeOK, AuthorInv, NEW t \in DOMAIN rows, NEW author, ResolveKnown(t, author),
           author = rows[t].author \/ (t \in Originals /\ author = AuthorOf[t]), todo = <<>>
    PROVE  AuthorInv'
  <1>1. UNCHANGED <<pending, markers, todo>> /\ pc' # "evict"
    BY DEF ResolveKnown
  <1>2. ToBuffer'
    BY <1>1, NothingToBuffer
  <1>3. CASE UNCHANGED rows
    BY <1>1, <1>2, <1>3, SameRowsKeepAuthors
  <1>4. ASSUME NEW w \in Winner(t, author), WinsAt(t, w),
               rows' = [rows EXCEPT ![t] = RowAfter(@, w)]
        PROVE  AuthorInv'
    <2>1. w \in IncType /\ w.kind # "none"
      BY WinnerType DEF TypeOK
    <2>2. author = rows[t].author
      <3>1. SUFFICES ASSUME Foreign(t), author = AuthorOf[t] PROVE FALSE
        BY DEF Foreign
      <3>2. NothingOwnWaits(t)
        BY <3>1 DEF AuthorInv, Foreign
      <3>3. t \in DOMAIN markers /\ w = MarkerSignal(markers[t]) /\ markers[t].rev < rows[t].rev
        BY <3>1, <3>2 DEF Winner, NothingOwnWaits
      <3>4. markers[t].rev \in Nat /\ rows[t].rev \in Nat
        BY <3>3 DEF TypeOK, StoresType, RowType, MarkerType
      <3> QED BY <1>4, <3>3, <3>4 DEF WinsAt, MarkerSignal
    <2>3. PICK s \in Signals : /\ t \in Targets(s) /\ s.author = author
                               /\ s.rev = w.rev /\ s.kind = w.kind
                               /\ w.kind = "edit" => s.rid = w.rid
      BY WinnerIsSigned
    <2>4. /\ \A u \in DOMAIN rows' : SignedRow(u)'
          /\ \A u : Foreign(u)' => /\ Foreign(u) /\ rows[u].rev \in Nat
                                   /\ rows'[u].rev \in Nat /\ rows'[u].rev >= rows[u].rev
      BY <1>4, <2>1, <2>2, <2>3, SignedWrite
    <2>5. \A u \in DOMAIN markers : markers[u].rev \in Nat
      BY DEF TypeOK, StoresType, MarkerType
    <2> QED BY <1>1, <1>2, <2>4, <2>5, AuthorsKept
  <1> QED BY <1>3, <1>4 DEF ResolveKnown(* Materialising the effect of an expired entry: an edit becomes a row of its *)
(* own author, a delete a marker of its own author.                          *)
LEMMA PersistEffectAuthors ==
    ASSUME TypeOK, AuthorInv, NEW t \in DOMAIN pending, NEW next,
           PersistEffect(t, pending[t].sig, next), next # "evict",
           UNCHANGED <<todo, call>>, todo # <<>> => todo[1] # t
    PROVE  AuthorInv'
  <1> DEFINE s == pending[t].sig
  <1>1. s \in Signals /\ t \in Targets(s)
    BY DEF TypeOK, StoresType, EntryType, AuthorInv
  <1>2. s.rev \in Nat \ {0} /\ s.kind \in {"delete", "edit"}
    BY <1>1, SignalsAssumption DEF SignalType
  <1>3. UNCHANGED pending /\ pc' # "evict"
    BY DEF PersistEffect
  <1> HIDE DEF s
  <1>4. /\ \A u \in DOMAIN rows : rows[u].rev \in Nat
        /\ \A u \in DOMAIN markers : markers[u].rev \in Nat
    BY DEF TypeOK, StoresType, RowType, MarkerType
  <1>5. CASE s.kind = "delete" /\ markers' \in UpsertMarker(t, s) /\ UNCHANGED rows
    <2> DEFINE m == [rev |-> s.rev, author |-> s.author]
    <2>1. \A u \in DOMAIN markers' : \/ u \in DOMAIN markers /\ markers'[u] = markers[u]
                                     \/ u = t /\ markers'[u] = m
      <3>1. \/ markers' = markers
            \/ markers' = Put(markers, t, m)
            \/ \E old : markers' = Put(Drop(markers, {old}), t, m)
        BY <1>5 DEF UpsertMarker, PutCapped
      <3> TAKE u \in DOMAIN markers'
      <3>2. CASE markers' = markers
        BY <3>2
      <3>3. CASE markers' = Put(markers, t, m)
        BY <3>3, PutIsKept
      <3>4. ASSUME NEW old, markers' = Put(Drop(markers, {old}), t, m)
            PROVE  (u \in DOMAIN markers /\ markers'[u] = markers[u]) \/ (u = t /\ markers'[u] = m)
        BY <3>4, SwapIsKept
      <3> QED BY <3>1, <3>2, <3>3, <3>4
    <2>2. \A u \in DOMAIN markers' : SignedMarker(u)'
      BY <1>1, <1>5, <2>1 DEF AuthorInv, SignedMarker
    <2>3. \A u : Foreign(u)' <=> Foreign(u)
      BY <1>5 DEF Foreign
    <2>4. ASSUME NEW u \in Originals, Foreign(u) PROVE NothingOwnWaits(u)'
      <3>1. NothingOwnWaits(u)
        BY <2>4 DEF AuthorInv
      <3>2. u = t => s.author # AuthorOf[u]
        BY <3>1 DEF NothingOwnWaits, s
      <3> QED BY <1>3, <1>5, <2>1, <3>1, <3>2 DEF NothingOwnWaits
    <2>5. ToBuffer'
      BY <1>3, <2>3, SameToBuffer DEF AuthorInv
    <2>6. \A u \in DOMAIN rows' : SignedRow(u)'
      BY <1>5 DEF AuthorInv, SignedRow
    <2> QED BY <1>3, <2>2, <2>3, <2>4, <2>5, <2>6 DEF AuthorInv
  <1>6. CASE UNCHANGED <<rows, markers>>
    <2>1. ToBuffer'
      BY <1>3, <1>6, SameToBuffer DEF AuthorInv, Foreign
    <2> QED BY <1>3, <1>6, <2>1, SameRowsKeepAuthors
  <1>7. CASE /\ s.kind = "edit" /\ ~Outranked(t, s) /\ t \notin DOMAIN rows
             /\ rows' = Put(rows, t, MaterialisedRow(s)) /\ UNCHANGED markers
    <2>1. /\ DOMAIN rows' = DOMAIN rows \cup {t}
          /\ rows'[t] = MaterialisedRow(s)
          /\ \A u \in DOMAIN rows : u # t /\ rows'[u] = rows[u]
      BY <1>7 DEF Put
    <2>2. SignedRow(t)'
      BY <1>1, <1>7, <2>1 DEF SignedRow, MaterialisedRow
    <2>3. ASSUME NEW u \in DOMAIN rows PROVE SignedRow(u)'
      BY <2>1 DEF AuthorInv, SignedRow
    <2>4. \A u : u # t => (Foreign(u)' <=> Foreign(u))
      BY <2>1 DEF Foreign
    <2>5. ASSUME NEW u \in Originals, Foreign(u)' PROVE NothingOwnWaits(u)'
      <3>1. CASE u # t
        BY <1>3, <1>7, <2>1, <2>4, <2>5, <3>1 DEF AuthorInv, NothingOwnWaits, Foreign
      <3>2. CASE u = t
        <4>1. s.author # AuthorOf[t] /\ rows'[t].rev = s.rev
          BY <2>1, <2>5, <3>2 DEF Foreign, MaterialisedRow
        <4>2. t \in DOMAIN markers => markers[t].rev < s.rev
          BY <1>2, <1>4, <1>7 DEF Outranked
        <4> QED BY <1>3, <1>7, <3>2, <4>1, <4>2 DEF NothingOwnWaits, s
      <3> QED BY <3>1, <3>2
    <2>6. ToBuffer'
      BY <1>3, <2>4, SameToBuffer DEF AuthorInv
    <2> QED BY <1>3, <1>7, <2>1, <2>2, <2>3, <2>5, <2>6 DEF AuthorInv, SignedMarker
  <1> QED BY <1>5, <1>6, <1>7 DEF PersistEffect, s

(* Buffering the signal of the call under the next of its ids. *)
LEMMA BufferedAuthors ==
    ASSUME TypeOK, AuthorInv, todo # <<>>, NextTarget, call.op = "apply", NEW S,
           \/ pending' = pending
           \/ pending' = Put(pending, Head(todo), Candidate)
           \/ pending' = Put(Drop(pending, S), Head(todo), Candidate),
           UNCHANGED <<rows, markers, call>>
    PROVE  AuthorInv'
  <1>1. /\ todo' = Tail(todo) /\ pc' # "evict" /\ todo \in Seq(Ids)
        /\ call.sig \in Signals
    BY DEF NextTarget, TypeOK, CallTypeOK, CallType, NoCall
  <1>2. /\ Head(todo) = todo[1] /\ 1 \in DOMAIN todo
        /\ \A i \in DOMAIN Tail(todo) : i + 1 \in DOMAIN todo /\ Tail(todo)[i] = todo[i + 1]
        /\ \A i \in DOMAIN Tail(todo) : i \in Nat \ {0}
        /\ Tail(todo) # <<>> => 1 \in DOMAIN Tail(todo)
    BY <1>1
  <1>3. \A i \in DOMAIN Tail(todo) : /\ Tail(todo)[i] \in Targets(call.sig)
                                     /\ Tail(todo)[i] \notin Originals
    <2>1. \A i \in DOMAIN Tail(todo) : i + 1 # 1
      BY <1>2
    <2> QED BY <1>2, <2>1 DEF AuthorInv, ToBuffer
  <1>4. ToBuffer'
    BY <1>1, <1>2, <1>3 DEF ToBuffer, Foreign
  <1>5. \A u \in DOMAIN pending' : \/ u \in DOMAIN pending /\ pending'[u] = pending[u]
                                   \/ u = todo[1] /\ pending'[u] = Candidate
    <2> TAKE u \in DOMAIN pending'
    <2>1. CASE pending' = pending
      BY <2>1
    <2>2. CASE pending' = Put(pending, Head(todo), Candidate)
      BY <1>2, <2>2, PutIsKept
    <2>3. CASE pending' = Put(Drop(pending, S), Head(todo), Candidate)
      BY <1>2, <2>3, SwapIsKept
    <2> QED BY <2>1, <2>2, <2>3
  <1>6. todo[1] \in Targets(call.sig) /\ (Foreign(todo[1]) => call.sig.author # AuthorOf[todo[1]])
    BY <1>2 DEF AuthorInv, ToBuffer
  <1>7. \A u \in DOMAIN pending' : u \in Targets(pending'[u].sig)
    BY <1>5, <1>6 DEF AuthorInv, Candidate
  <1>8. \A u : Foreign(u)' <=> Foreign(u)
    BY DEF Foreign
  <1>9. ASSUME NEW u \in Originals, Foreign(u) PROVE NothingOwnWaits(u)'
    <2>1. NothingOwnWaits(u)
      BY <1>9 DEF AuthorInv
    <2> QED BY <1>5, <1>6, <1>9, <2>1 DEF NothingOwnWaits, Candidate
  <1> QED BY <1>4, <1>7, <1>8, <1>9 DEF AuthorInv, SignedRow, SignedMarker

-----------------------------------------------------------------------------
LEMMA AuthorInit == Init => AuthorInv
  BY DEF Init, AuthorInv, ToBuffer, Empty, Foreign

LEMMA AuthorStep == TypeOK /\ AuthorInv /\ [Next]_vars => AuthorInv'
  <1> SUFFICES ASSUME TypeOK, AuthorInv, [Next]_vars PROVE AuthorInv'
    OBVIOUS
  <1>1. CASE WriteSlotMeta
    <2>1. ret # "evict"
      BY DEF TypeOK, CallTypeOK
    <2>2. ToBuffer'
      BY <1>1, <2>1, SameToBuffer DEF WriteSlotMeta, AuthorInv, Foreign
    <2> QED BY <1>1, <2>2, SameRowsKeepAuthors DEF WriteSlotMeta
  <1>2. CASE Unbuffer
    <2>1. ToBuffer'
      BY <1>2, NothingToBuffer DEF Unbuffer, TypeOK, StepNeeds
    <2> QED BY <1>2, <2>1, DroppedIsKept, SameRowsKeepAuthors DEF Unbuffer
  <1>3. CASE Unmark
    <2>1. ToBuffer'
      BY <1>3, NothingToBuffer DEF Unmark, TypeOK, StepNeeds
    <2> QED BY <1>3, <2>1, DroppedIsKept, SameRowsKeepAuthors DEF Unmark
  <1>4. ASSUME NEW t \in Ids, Heal(t) PROVE AuthorInv'
    BY <1>4, ResolveKnownAuthors DEF Heal, HealTargets, TypeOK, StepNeeds, CallTypeOK
  <1>5. ASSUME NEW t \in Ids, Expire(t) PROVE AuthorInv'
    BY <1>5, PersistEffectAuthors DEF Expire, ExpireTargets, TypeOK, StepNeeds
  <1>6. CASE Supersede
    <2>1. ToBuffer'
      BY <1>6, SameToBuffer DEF Supersede, AuthorInv, Foreign
    <2> QED BY <1>6, <2>1, DroppedIsKept, SameRowsKeepAuthors DEF Supersede
  <1>7. CASE Release
    <2>1. ToBuffer'
      BY <1>7, NothingToBuffer DEF Release, TypeOK, StepNeeds
    <2> QED BY <1>7, <2>1, DroppedIsKept, SameRowsKeepAuthors DEF Release
  <1>8. CASE EndSweep
    <2>1. ToBuffer'
      BY <1>8, NothingToBuffer DEF EndSweep, TypeOK, StepNeeds
    <2> QED BY <1>8, <2>1, SameRowsKeepAuthors DEF EndSweep, stores
  <1>9. CASE ApplyToKnownSlot
    <2>1. PICK i \in KnownTargets(call.sig) :
            LET t == call.sig.targets[i]
            IN  \/ /\ call.sig.author = rows[t].author /\ WinsAt(t, Incoming(call.sig))
                   /\ rows' = [rows EXCEPT ![t] = RowAfter(@, Incoming(call.sig))]
                \/ UNCHANGED rows
      BY <1>9 DEF ApplyToKnownSlot
    <2> DEFINE t == call.sig.targets[i]
    <2>2. t \in DOMAIN rows /\ t \in Targets(call.sig)
      BY <2>1 DEF KnownTargets, Targets
    <2>3. call.sig \in Signals /\ todo = <<>>
      BY <1>9 DEF ApplyToKnownSlot, TypeOK, StepNeeds, CallTypeOK, CallType, NoCall
    <2>4. UNCHANGED <<pending, markers, todo>> /\ pc' # "evict"
      BY <1>9 DEF ApplyToKnownSlot
    <2>5. ToBuffer'
      BY <2>3, <2>4, NothingToBuffer
    <2>6. CASE UNCHANGED rows
      BY <2>4, <2>5, <2>6, SameRowsKeepAuthors
    <2>7. CASE /\ call.sig.author = rows[t].author /\ WinsAt(t, Incoming(call.sig))
               /\ rows' = [rows EXCEPT ![t] = RowAfter(@, Incoming(call.sig))]
      <3>1. Incoming(call.sig) \in IncType /\ Incoming(call.sig).kind # "none"
        BY <2>3, IncomingType
      <3>2. /\ call.sig.rev = Incoming(call.sig).rev /\ call.sig.kind = Incoming(call.sig).kind
            /\ call.sig.rid = Incoming(call.sig).rid
        BY DEF Incoming
      <3> HIDE DEF t
      <3>3. /\ \A u \in DOMAIN rows' : SignedRow(u)'
            /\ \A u : Foreign(u)' => /\ Foreign(u) /\ rows[u].rev \in Nat
                                     /\ rows'[u].rev \in Nat /\ rows'[u].rev >= rows[u].rev
        BY <2>2, <2>3, <2>7, <3>1, <3>2, SignedWrite
      <3>4. \A u \in DOMAIN markers : markers[u].rev \in Nat
        BY DEF TypeOK, StoresType, MarkerType
      <3> QED BY <2>4, <2>5, <3>3, <3>4, AuthorsKept
    <2> QED BY <2>1, <2>6, <2>7
  <1>10. CASE BufferSignal
    <2>1. call.sig \in Signals /\ todo' = call.sig.targets /\ UNCHANGED <<stores, call>>
          /\ KnownTargets(call.sig) = {} /\ pc' = "insert"
      BY <1>10 DEF BufferSignal, TypeOK, StepNeeds, CallTypeOK, CallType, NoCall
    <2>2. call.sig.targets # <<>> /\ call.sig.targets \in Seq(Ids)
      BY <2>1, SignalsAssumption DEF SignalType
    <2>3. call.sig.targets[1] \notin DOMAIN rows
      <3>1. 1 \in DOMAIN call.sig.targets
        BY <2>2
      <3> QED BY <2>1, <3>1 DEF KnownTargets
    <2>4. ToBuffer'
      BY <2>1, <2>2, <2>3, TargetsAssumption DEF ToBuffer, Targets, Foreign, stores
    <2> QED BY <2>1, <2>4, SameRowsKeepAuthors DEF stores
  <1>11. CASE Insert
    BY <1>11, BufferedAuthors DEF Insert, TypeOK, StepNeeds
  <1>12. ASSUME NEW v \in Ids, EvictBare(v) PROVE AuthorInv'
    BY <1>12, BufferedAuthors DEF EvictBare, AtCap, TypeOK, StepNeeds
  <1>13. ASSUME NEW v \in Ids, EvictExpired(v) PROVE AuthorInv'
    <2>1. /\ UNCHANGED <<stores, todo, call>> /\ Head(todo) \notin DOMAIN pending
          /\ todo # <<>> /\ todo \in Seq(Ids)
      BY <1>13 DEF EvictExpired, AtCap, TypeOK, StepNeeds, CallTypeOK
    <2>2. ToBuffer'
      BY <2>1 DEF AuthorInv, ToBuffer, stores, Foreign
    <2> QED BY <2>1, <2>2, SameRowsKeepAuthors DEF stores
  <1>14. CASE PersistEvicted
    <2>1. /\ cur \in DOMAIN pending /\ pending[cur].sig \in Signals
          /\ cur \in Targets(pending[cur].sig) /\ todo # <<>> /\ todo[1] # cur
          /\ UNCHANGED <<call, todo>>
      BY <1>14 DEF PersistEvicted, TypeOK, StepNeeds, StoresType, EntryType, AuthorInv, ToBuffer
    <2>2. CASE cur \notin known
      BY <1>14, <2>1, <2>2, PersistEffectAuthors DEF PersistEvicted
    <2> DEFINE s == pending[cur].sig
    <2>3. CASE cur \in known
      <3>1. cur \in DOMAIN rows /\ UNCHANGED <<pending, markers>> /\ pc' # "evict"
        BY <1>14, <2>3 DEF PersistEvicted, TypeOK, CallTypeOK
      <3>2. CASE UNCHANGED rows
        <4>1. ToBuffer'
          BY <2>1, <3>1, <3>2, SameToBuffer DEF AuthorInv, Foreign
        <4> QED BY <3>1, <3>2, <4>1, SameRowsKeepAuthors
      <3>3. CASE /\ s.author = rows[cur].author /\ WinsAt(cur, Incoming(s))
                 /\ rows' = [rows EXCEPT ![cur] = RowAfter(@, Incoming(s))]
        <4>1. Incoming(s) \in IncType /\ Incoming(s).kind # "none"
          BY <2>1, IncomingType
        <4>2. s.rev = Incoming(s).rev /\ s.kind = Incoming(s).kind /\ s.rid = Incoming(s).rid
          BY DEF Incoming
        <4> HIDE DEF s
        <4>3. /\ \A u \in DOMAIN rows' : SignedRow(u)'
              /\ \A u : Foreign(u)' => /\ Foreign(u) /\ rows[u].rev \in Nat
                                       /\ rows'[u].rev \in Nat /\ rows'[u].rev >= rows[u].rev
          BY <2>1, <3>1, <3>3, <4>1, <4>2, SignedWrite DEF s
        <4>4. \A u \in DOMAIN markers : markers[u].rev \in Nat
          BY DEF TypeOK, StoresType, MarkerType
        <4>5. ToBuffer'
          BY <2>1, <3>1, <4>3, SameToBuffer DEF AuthorInv
        <4> QED BY <3>1, <4>3, <4>4, <4>5, AuthorsKept
      <3> QED BY <1>14, <2>3, <3>2, <3>3 DEF PersistEvicted
    <2> QED BY <2>2, <2>3
  <1>15. CASE Swap
    BY <1>15, BufferedAuthors DEF Swap, TypeOK, StepNeeds
  <1>16. CASE Done
    <2>1. ToBuffer'
      BY <1>16, NothingToBuffer DEF Done, TypeOK, StepNeeds
    <2> QED BY <1>16, <2>1, SameRowsKeepAuthors DEF Done, stores
  <1>17. ASSUME NEW s \in Signals, StartApply(s) PROVE AuthorInv'
    <2>1. ToBuffer'
      BY <1>17, NothingToBuffer DEF StartApply, TypeOK, StepNeeds
    <2> QED BY <1>17, <2>1, SameRowsKeepAuthors DEF StartApply, stores
  <1>18. ASSUME NEW t \in Originals, AppendOriginal(t) PROVE AuthorInv'
    <2>1. UNCHANGED <<pending, markers, todo, call, pc>>
      BY <1>18 DEF AppendOriginal, regs
    <2>2. /\ \A u \in DOMAIN rows : rows'[u] = rows[u] /\ u \in DOMAIN rows'
          /\ \A u \in DOMAIN rows' : u \notin DOMAIN rows =>
                u = t /\ rows'[u].author = AuthorOf[t] /\ rows'[u].rev = 0
      BY <1>18 DEF AppendOriginal, Put
    <2>3. \A u : Foreign(u)' => Foreign(u)
      BY <2>2 DEF Foreign
    <2>4. ToBuffer'
      BY <2>1, <2>3, SameToBuffer DEF AuthorInv
    <2>5. \A u \in DOMAIN rows' : SignedRow(u)'
      BY <2>2 DEF AuthorInv, SignedRow
    <2>6. /\ \A u \in DOMAIN rows : rows[u].rev \in Nat
          /\ \A u \in DOMAIN markers : markers[u].rev \in Nat
      BY DEF TypeOK, StoresType, RowType, MarkerType
    <2>7. \A u \in Originals : Foreign(u)' => /\ Foreign(u) /\ rows[u].rev \in Nat
                                              /\ rows'[u].rev \in Nat
                                              /\ rows'[u].rev >= rows[u].rev
      BY <2>2, <2>3, <2>6 DEF Foreign
    <2> QED BY <2>1, <2>4, <2>5, <2>6, <2>7, AuthorsKept
  <1>19. ASSUME NEW t \in Originals, StartResolve(t) PROVE AuthorInv'
    BY <1>19, ResolveKnownAuthors DEF StartResolve, TypeOK, EnvType, StepNeeds
  <1>20. ASSUME NEW th \in Threads, OpenThread(th) PROVE AuthorInv'
    <2>1. ToBuffer'
      BY <1>20, NothingToBuffer DEF OpenThread, TypeOK, StepNeeds
    <2> QED BY <1>20, <2>1, SameRowsKeepAuthors DEF OpenThread, stores
  <1>21. CASE Tick
    <2>1. ToBuffer'
      BY <1>21, SameToBuffer DEF Tick, stores, regs, AuthorInv, Foreign
    <2> QED BY <1>21, <2>1, SameRowsKeepAuthors DEF Tick, stores
  <1>22. CASE Crash
    <2>1. ToBuffer'
      BY <1>22, NothingToBuffer DEF Crash
    <2> QED BY <1>22, <2>1, SameRowsKeepAuthors DEF Crash, stores
  <1>23. CASE UNCHANGED vars
    <2>1. ToBuffer'
      BY <1>23, SameToBuffer DEF vars, AuthorInv, Foreign
    <2> QED BY <1>23, <2>1, SameRowsKeepAuthors DEF vars
  <1> QED BY <1>1, <1>2, <1>3, <1>4, <1>5, <1>6, <1>7, <1>8, <1>9, <1>10, <1>11, <1>12, <1>13,
             <1>14, <1>15, <1>16, <1>17, <1>18, <1>19, <1>20, <1>21, <1>22, <1>23
          DEF Next, CallStep

(* Whatever a signal has been through (buffer, marker, materialised row), the *)
(* row it changes is one of its own author.                                  *)
THEOREM RowsAreSigned == Spec => []OnlyItsAuthorChangesARow
  <1>1. AuthorInv => OnlyItsAuthorChangesARow
    BY DEF AuthorInv, SignedRow, Targets, OnlyItsAuthorChangesARow
  <1> QED BY <1>1, TypeCorrect, AuthorInit, AuthorStep, PTL DEF Spec

-----------------------------------------------------------------------------
(* A retraction sticks: RetractionInv is inductive.                           *)

-----------------------------------------------------------------------------
(* Signals and their order. *)

LEMMA SignalFacts ==
    ASSUME NEW s \in Signals
    PROVE  /\ Slot(s) \in Originals /\ Slot(s) \in Ids
           /\ s.author = AuthorOf[Slot(s)]
           /\ s.kind \in {"delete", "edit"} /\ s.rev \in Nat \ {0} /\ s.rid \in Nat \ {0}
           /\ s.targets \in Seq(Ids) /\ s.targets # <<>> /\ Slot(s) = s.targets[1]
           /\ Incoming(s).kind = s.kind /\ Incoming(s).rev = s.rev /\ Incoming(s).rid = s.rid
  BY SignalsAssumption, AuthoredAssumption, ConstantsAssumption
  DEF SignalType, ByItsAuthor, Slot, Incoming

LEMMA SameRid ==
    ASSUME NEW a \in Signals, NEW b \in Signals, a.rid = b.rid
    PROVE  a = b
  BY SignalsAssumption

LEMMA BeatsTransitive ==
    ASSUME NEW a \in Signals, NEW b \in Signals, NEW c \in Signals,
           SignalBeats(a, b), SignalBeats(b, c)
    PROVE  SignalBeats(a, c)
  BY SignalFacts DEF SignalBeats

LEMMA BeatsTotal ==
    ASSUME NEW a \in Signals, NEW b \in Signals
    PROVE  a = b \/ SignalBeats(a, b) \/ SignalBeats(b, a)
  BY SignalFacts, SameRid DEF SignalBeats

(* What is at least as strong as a final delete of a message is a delete,    *)
(* and final too.                                                            *)
LEMMA AtLeastFinal ==
    ASSUME NEW s \in FinalSignals, NEW b \in Signals, Slot(b) = Slot(s),
           b = s \/ SignalBeats(b, s)
    PROVE  b.kind = "delete" /\ b.rev >= s.rev /\ b \in FinalSignals
  <1>1. s \in Signals /\ s.kind = "delete"
    BY DEF FinalSignals, Final
  <1>2. b.kind = "delete"
    BY <1>1, SignalFacts DEF FinalSignals, Final
  <1>3. b.rev >= s.rev
    BY <1>1, SignalFacts DEF SignalBeats
  <1>4. ASSUME NEW e \in Signals, e.kind = "edit", Slot(e) = Slot(b)
        PROVE  ~SignalBeats(e, b)
    BY <1>1, <1>2, <1>3, <1>4, SignalFacts DEF FinalSignals, Final, SignalBeats
  <1> QED BY <1>2, <1>3, <1>4 DEF FinalSignals, Final

(* The stores can hold every id. *)
LEMMA Room ==
    ASSUME NEW S, S \subseteq Ids
    PROVE  Cardinality(S) < Cap
  BY FS_Subset, FS_CardinalityType, ConstantsAssumption, RoomAssumption

LEMMA NoPressure ==
    ASSUME TypeOK
    PROVE  /\ ~AtCap
           /\ \A k, v : PutCapped(slotMeta, k, v) = {Put(slotMeta, k, v)}
           /\ \A k, v : PutCapped(markers, k, v) = {Put(markers, k, v)}
  <1>1. /\ Cardinality(DOMAIN pending) < Cap /\ Cardinality(DOMAIN slotMeta) < Cap
        /\ Cardinality(DOMAIN markers) < Cap
    BY Room DEF TypeOK, StoresType
  <1>2. Cap \in Nat /\ Cardinality(DOMAIN pending) \in Nat
    BY ConstantsAssumption, FS_Subset, FS_CardinalityType DEF TypeOK, StoresType
  <1> QED BY <1>1, <1>2 DEF AtCap, PutCapped

-----------------------------------------------------------------------------
(* What the stores remember. *)

LEMMA DeleteByRow ==
    ASSUME NEW s \in Signals, s.kind = "delete"
    PROVE  /\ ByRow(s) <=> Reflects(Slot(s), s.rev)
           /\ ByRow(s)' <=> Reflects(Slot(s), s.rev)'
  BY DEF ByRow, Reflects

LEMMA ReflectsPersists ==
    ASSUME TypeOK, [Next]_vars, NEW t, NEW r \in Nat, Reflects(t, r)
    PROVE  Reflects(t, r)'
  <1>1. t \in DOMAIN rows /\ rows[t] \in RowType
    BY DEF Reflects, TypeOK, StoresType
  <1>2. RowAdvances(t)
    BY <1>1, StepAdvancesRows
  <1>3. TypeOK'
    BY TypeStep
  <1>4. rows'[t] \in RowType
    BY <1>2, <1>3 DEF RowAdvances, TypeOK, StoresType
  <1> QED BY <1>1, <1>2, <1>4 DEF Reflects, RowAdvances, RowType

LEMMA ReflectsLower ==
    ASSUME StoresType, NEW t, NEW r \in Nat, NEW q \in Nat, q <= r, Reflects(t, r)
    PROVE  Reflects(t, q)
  BY DEF Reflects, StoresType, RowType

LEMMA ByRowPersists ==
    ASSUME TypeOK, [Next]_vars, NEW s \in FinalSignals, ByRow(s)
    PROVE  ByRow(s)'
  <1>1. s \in Signals /\ s.kind = "delete" /\ s.rev \in Nat
    BY SignalFacts DEF FinalSignals, Final
  <1> QED BY <1>1, DeleteByRow, ReflectsPersists

LEMMA FinalFacts ==
    ASSUME NEW s \in FinalSignals
    PROVE  s \in Signals /\ s.kind = "delete" /\ Final(s) /\ s.rev \in Nat \ {0}
           /\ Slot(s) \in Originals /\ ByItsAuthor(s)
  BY SignalFacts, AuthoredAssumption DEF FinalSignals, Final

(* The entry that buffers a final delete. *)
LEMMA BufferedFinal ==
    ASSUME TypeOK, StoresInv, NEW s \in FinalSignals, ByBuffer(s)
    PROVE  LET b == pending[Slot(s)].sig
           IN  /\ Slot(s) \in DOMAIN pending /\ b \in FinalSignals
               /\ Slot(b) = Slot(s) /\ b.rev >= s.rev
  <1>1. Slot(s) \in DOMAIN pending /\ Slot(s) \in Originals
    BY FinalFacts DEF ByBuffer
  <1>2. pending[Slot(s)].sig \in Signals /\ Slot(pending[Slot(s)].sig) = Slot(s)
    BY <1>1 DEF StoresInv, TypeOK, StoresType, EntryType
  <1> QED BY <1>1, <1>2, AtLeastFinal DEF ByBuffer

LEMMA MarkedFinal ==
    ASSUME TypeOK, NEW s \in FinalSignals
    PROVE  ByMarker(s) <=> (Slot(s) \in DOMAIN markers /\ markers[Slot(s)].rev >= s.rev)
  <1>1. ASSUME Slot(s) \in DOMAIN markers
        PROVE  markers[Slot(s)].rev \in Nat
    BY <1>1 DEF TypeOK, StoresType, MarkerType
  <1> QED BY <1>1, FinalFacts DEF ByMarker, SignalBeats, MarkerSignal

(* A step that leaves the buffer and the markers forgets nothing.            *)
LEMMA MemoryKept ==
    ASSUME TypeOK, [Next]_vars, UNCHANGED <<pending, markers>>,
           NEW s \in FinalSignals
    PROVE  /\ ByRow(s) => ByRow(s)'
           /\ ByMarker(s)' <=> ByMarker(s)
           /\ ByBuffer(s)' <=> ByBuffer(s)
           /\ Remembered(s) => Remembered(s)'
  <1>1. ByRow(s) => ByRow(s)'
    BY ByRowPersists
  <1>2. ByMarker(s)' <=> ByMarker(s)
    BY DEF ByMarker
  <1>3. ByBuffer(s)' <=> ByBuffer(s)
    BY DEF ByBuffer
  <1> QED BY <1>1, <1>2, <1>3 DEF Remembered

-----------------------------------------------------------------------------
(* What the actions have in common. *)

LEMMA RemembersAccepted ==
    ASSUME RetractionInv, NEW s \in FinalSignals, s \in accepted
    PROVE  Remembered(s)
  BY FinalFacts DEF RetractionInv, RetractionSticks

LEMMA AcceptedKept ==
    ASSUME RetractionInv, UNCHANGED accepted,
           \A s \in FinalSignals : Remembered(s) => Remembered(s)'
    PROVE  RetractionSticks'
  <1> SUFFICES ASSUME NEW s \in accepted, Final(s), ByItsAuthor(s)
               PROVE  Remembered(s)'
    BY DEF RetractionSticks, Final, ByItsAuthor, Slot
  <1>1. s \in FinalSignals
    BY DEF RetractionInv, TypeOK, EnvType, FinalSignals
  <1> QED BY <1>1, RemembersAccepted

LEMMA StoresKept ==
    ASSUME RetractionInv, [Next]_vars, UNCHANGED <<pending, markers, accepted>>, clock <= clock',
           \A t \in DOMAIN rows' : t \in Originals /\ rows'[t].author = AuthorOf[t]
    PROVE  StoresInv' /\ SiblingInv' /\ RetractionSticks'
  <1> USE DEF RetractionInv
  <1>1. StoresInv'
    <2>1. TypeOK'
      BY TypeStep
    <2>2. \A t \in DOMAIN pending : pending[t].at <= clock'
      BY <2>1 DEF TypeOK, EnvType, StoresType, EntryType, StoresInv
    <2> QED BY <2>2 DEF StoresInv, Slot
  <1>2. RetractionSticks'
    BY AcceptedKept, MemoryKept
  <1>3. ASSUME NEW u \in DOMAIN pending, u # Slot(pending[u].sig), Final(pending[u].sig)
        PROVE  \/ ByRow(pending[u].sig)' \/ ByMarker(pending[u].sig)'
               \/ /\ Slot(pending[u].sig) \in DOMAIN pending
                  /\ IF pending[Slot(pending[u].sig)].sig = pending[u].sig
                     THEN pending[Slot(pending[u].sig)].at <= pending[u].at
                     ELSE SignalBeats(pending[Slot(pending[u].sig)].sig, pending[u].sig)
    <2> DEFINE d == pending[u].sig
    <2>1. d \in FinalSignals
      BY <1>3 DEF TypeOK, StoresType, EntryType, FinalSignals
    <2>2. (ByRow(d) => ByRow(d)') /\ (ByMarker(d) => ByMarker(d)')
      BY <2>1, MemoryKept
    <2> QED BY <1>3, <2>2 DEF SiblingInv
  <1>4. SiblingInv'
    BY <1>3, SMTT(20), ZenonT(40) DEF SiblingInv, Slot, Final, SignalBeats, ByRow, ByMarker
  <1> QED BY <1>1, <1>2, <1>4

LEMMA RowsKept ==
    ASSUME RetractionInv, UNCHANGED rows
    PROVE  \A t \in DOMAIN rows' : t \in Originals /\ rows'[t].author = AuthorOf[t]
  BY DEF RetractionInv, StoresInv

LEMMA RowWritten ==
    ASSUME RetractionInv, NEW t \in DOMAIN rows, NEW w,
           rows' = [rows EXCEPT ![t] = RowAfter(@, w)]
    PROVE  \A u \in DOMAIN rows' : u \in Originals /\ rows'[u].author = AuthorOf[u]
  <1>1. rows[t] \in RowType
    BY DEF RetractionInv, TypeOK, StoresType
  <1>2. RowAfter(rows[t], w).author = rows[t].author
    BY <1>1 DEF RowAfter, RowType
  <1> QED BY <1>2 DEF RetractionInv, StoresInv

(* A signal applied to its row is reflected by it. *)
LEMMA AppliedReflects ==
    ASSUME StoresType, NEW t \in DOMAIN rows, NEW w \in IncType, w.kind # "none",
           rows' = [rows EXCEPT ![t] = RowAfter(@, w)]
    PROVE  /\ t \in DOMAIN rows' /\ rows'[t].rev = w.rev
           /\ w.kind = "delete" => Reflects(t, w.rev)'
  <1>1. rows[t] \in RowType
    BY DEF StoresType
  <1>2. RowAfter(rows[t], w).rev = w.rev /\ (w.kind = "delete" => RowAfter(rows[t], w).tomb)
    BY <1>1 DEF RowAfter, RowType
  <1> QED BY <1>2 DEF Reflects

LEMMA MetaKept ==
    ASSUME RetractionInv, [Next]_vars, UNCHANGED slotMeta,
           \A t \in DOMAIN slotMeta :
              slotMeta[t] = NoRid /\ t \in DOMAIN markers'
              => t \in DOMAIN markers /\ markers'[t] = markers[t],
           Sweeping' => (Sweeping /\ known' = known) \/ known' = DOMAIN rows
    PROVE  MetaInv'
  <1> SUFFICES ASSUME NEW t \in DOMAIN slotMeta
               PROVE  /\ \A d \in Signals : d.kind = "delete" /\ d.rid = slotMeta[t]
                                            => Reflects(t, d.rev)'
                      /\ slotMeta[t] = NoRid =>
                            /\ t \in DOMAIN rows'
                            /\ Sweeping' => t \in known'
                            /\ t \in DOMAIN markers' => Reflects(t, markers[t].rev)'
    BY DEF MetaInv, Reflects
  <1>0. TypeOK /\ MetaInv
    BY DEF RetractionInv
  <1>1. ASSUME NEW d \in Signals, d.kind = "delete", d.rid = slotMeta[t]
        PROVE  Reflects(t, d.rev)'
    <2>1. Reflects(t, d.rev) /\ d.rev \in Nat
      BY <1>0, <1>1, SignalFacts DEF MetaInv
    <2> QED BY <1>0, <2>1, ReflectsPersists
  <1>2. ASSUME slotMeta[t] = NoRid
        PROVE  t \in DOMAIN rows' /\ (Sweeping' => t \in known')
    <2>1. t \in DOMAIN rows /\ (Sweeping => t \in known)
      BY <1>0, <1>2 DEF MetaInv
    <2>2. t \in DOMAIN rows'
      BY <1>0, <2>1, StepAdvancesRows DEF RowAdvances
    <2> QED BY <2>1, <2>2
  <1>3. ASSUME slotMeta[t] = NoRid, t \in DOMAIN markers'
        PROVE  Reflects(t, markers[t].rev)'
    <2>1. t \in DOMAIN markers
      BY <1>3
    <2>2. Reflects(t, markers[t].rev)
      BY <1>0, <1>3, <2>1 DEF MetaInv
    <2>3. markers[t].rev \in Nat
      BY <1>0, <2>1 DEF TypeOK, StoresType, MarkerType
    <2>4. \A r \in Nat : Reflects(t, r) => Reflects(t, r)'
      BY <1>0, ReflectsPersists
    <2>5. markers'[t] = markers[t]
      BY <1>3
    <2> QED BY <2>2, <2>3, <2>4, <2>5 DEF Reflects
  <1> QED BY <1>1, <1>2, <1>3

-----------------------------------------------------------------------------
(* Resolving a known row: the entries about to be removed are reflected by it. *)

LEMMA WinnerIsDelete ==
    ASSUME RetractionInv, NEW t \in DOMAIN rows, NEW s \in FinalSignals, Slot(s) = t,
           ByMarker(s) \/ ByBuffer(s)
    PROVE  \E w \in Winner(t, AuthorOf[t]) : w.kind = "delete" /\ w.rev >= s.rev
  <1> DEFINE B == Incoming(pending[t].sig)
             M == MarkerSignal(markers[t])
  <1>1. TypeOK /\ StoresInv /\ t \in Originals
    BY DEF RetractionInv, StoresInv
  <1>2. /\ t \in DOMAIN pending => /\ pending[t].sig \in Signals /\ Slot(pending[t].sig) = t
                                   /\ pending[t].sig.author = AuthorOf[t]
        /\ t \in DOMAIN markers => markers[t].author = AuthorOf[t] /\ markers[t].rev \in Nat
    BY <1>1, SignalFacts DEF TypeOK, StoresType, StoresInv, EntryType, MarkerType
  <1>3. Winner(t, AuthorOf[t]) =
           IF t \in DOMAIN markers /\ (t \in DOMAIN pending => SignalBeats(M, B)) THEN {M}
           ELSE IF t \in DOMAIN pending THEN {B} ELSE {}
    BY <1>2 DEF Winner
  <1>4. M.kind = "delete" /\ M.rev = markers[t].rev
    BY DEF MarkerSignal
  <1>5. s.rev \in Nat
    BY FinalFacts
  <1>6. ByMarker(s) => t \in DOMAIN markers /\ markers[t].rev >= s.rev
    BY <1>1, MarkedFinal
  <1>7. ByBuffer(s) => /\ t \in DOMAIN pending /\ B.kind = "delete" /\ B.rev >= s.rev
    <2>1. ASSUME ByBuffer(s)
          PROVE  /\ t \in DOMAIN pending /\ pending[t].sig \in FinalSignals
                 /\ pending[t].sig.rev >= s.rev
      BY <1>1, <2>1, BufferedFinal
    <2> QED BY <2>1, FinalFacts DEF Incoming
  <1>8. ASSUME t \in DOMAIN pending
        PROVE  /\ B.kind = pending[t].sig.kind /\ B.rev = pending[t].sig.rev
               /\ B.rev \in Nat /\ B.kind \in {"delete", "edit"}
    BY <1>2, <1>8, SignalFacts
  <1>9. CASE t \in DOMAIN markers /\ (t \in DOMAIN pending => SignalBeats(M, B))
    <2>1. Winner(t, AuthorOf[t]) = {M}
      BY <1>3, <1>9
    <2>2. markers[t].rev >= s.rev
      BY <1>2, <1>4, <1>5, <1>6, <1>7, <1>8, <1>9 DEF SignalBeats
    <2> QED BY <2>1, <2>2, <1>4
  <1>10. CASE t \in DOMAIN pending /\ (t \in DOMAIN markers => ~SignalBeats(M, B))
    <2>1. Winner(t, AuthorOf[t]) = {B}
      BY <1>3, <1>10
    <2>2. CASE ByBuffer(s)
      BY <2>1, <2>2, <1>7
    <2>3. CASE ByMarker(s) /\ B.kind = "edit"
      <3>1. SignalBeats(pending[t].sig, s)
        BY <1>2, <1>4, <1>5, <1>6, <1>8, <1>10, <2>3 DEF SignalBeats
      <3>2. pending[t].sig.kind = "delete"
        BY <3>1, <1>2, <1>10, AtLeastFinal
      <3> QED BY <3>2, <1>8, <1>10, <2>3
    <2>4. CASE ByMarker(s) /\ B.kind = "delete"
      BY <2>1, <1>2, <1>4, <1>5, <1>6, <1>8, <1>10, <2>4 DEF SignalBeats
    <2> QED BY <2>2, <2>3, <2>4, <1>8, <1>10
  <1> QED BY <1>6, <1>7, <1>9, <1>10

(* Where the winner comes from. *)
LEMMA WinnerSource ==
    ASSUME RetractionInv, NEW t \in DOMAIN rows, NEW w \in Winner(t, AuthorOf[t])
    PROVE  /\ \/ t \in DOMAIN markers /\ w = MarkerSignal(markers[t])
              \/ /\ t \in DOMAIN pending /\ pending[t].sig \in Signals
                 /\ w = Incoming(pending[t].sig)
           /\ w \in IncType /\ w.kind # "none"
  <1>1. StoresType
    BY DEF RetractionInv, TypeOK
  <1>2. w \in IncType /\ w.kind # "none"
    BY <1>1, WinnerType
  <1> QED BY <1>1, <1>2 DEF Winner, StoresType, EntryType

LEMMA ResolvedReflects ==
    ASSUME RetractionInv, [Next]_vars, NEW t \in DOMAIN rows, ResolveKnown(t, AuthorOf[t]),
           NEW w \in Winner(t, AuthorOf[t]), w.kind = "delete"
    PROVE  Reflects(t, w.rev)'
  <1>1. TypeOK /\ StoresType /\ MetaInv /\ w \in IncType /\ w.kind # "none" /\ w.rev \in Nat
    BY WinnerSource DEF RetractionInv, TypeOK, IncType
  <1>2. \A v \in Winner(t, AuthorOf[t]) : v = w
    BY DEF Winner
  <1>3. CASE WinsAt(t, w)
    <2>1. rows' = [rows EXCEPT ![t] = RowAfter(@, w)]
      BY <1>2, <1>3 DEF ResolveKnown
    <2> QED BY <1>1, <2>1, AppliedReflects
  <1>4. CASE ~WinsAt(t, w)
    <2>1. rows[t] \in RowType
      BY <1>1 DEF StoresType
    <2>2. w.rid = LastRid(t) \/ w.rev < rows[t].rev
      BY <1>1, <1>4, <2>1 DEF WinsAt, RowType
    <2>3. ASSUME w.rid = LastRid(t) PROVE Reflects(t, w.rev)
      <3>1. t \in DOMAIN slotMeta /\ slotMeta[t] = w.rid
        BY <1>1, <2>3 DEF LastRid, NoMeta, IncType
      <3>2. CASE t \in DOMAIN markers /\ w = MarkerSignal(markers[t])
        <4>1. w.rid = NoRid /\ w.rev = markers[t].rev
          BY <3>2 DEF MarkerSignal
        <4> QED BY <1>1, <3>1, <3>2, <4>1 DEF MetaInv
      <3>3. CASE pending[t].sig \in Signals /\ w = Incoming(pending[t].sig)
        BY <1>1, <3>1, <3>3, SignalFacts DEF MetaInv
      <3> QED BY <3>2, <3>3, WinnerSource
    <2>4. Reflects(t, w.rev)
      BY <2>1, <2>2, <2>3, <1>1 DEF Reflects, RowType
    <2> QED BY <1>1, <2>4, ReflectsPersists
  <1> QED BY <1>3, <1>4

LEMMA ResolveKnownSettles ==
    ASSUME RetractionInv, [Next]_vars, NEW t \in DOMAIN rows, ResolveKnown(t, AuthorOf[t])
    PROVE  /\ \A u \in DOMAIN rows' : u \in Originals /\ rows'[u].author = AuthorOf[u]
           /\ \A s \in FinalSignals :
                 Slot(s) = t /\ (ByMarker(s) \/ ByBuffer(s)) => ByRow(s)'
           /\ pc' = "meta" =>
                 /\ inc'.kind = "delete" => Reflects(t, inc.rev)'
                 /\ \A d \in Signals : d.rid = inc'.rid => inc' = Incoming(d)
                 /\ inc'.rid = NoRid => /\ t \in DOMAIN markers
                                        /\ markers[t].rev = inc'.rev /\ inc'.kind = "delete"
  <1>1. \A u \in DOMAIN rows' : u \in Originals /\ rows'[u].author = AuthorOf[u]
    <2>1. CASE UNCHANGED rows
      BY <2>1, RowsKept
    <2>2. CASE \E w \in Winner(t, AuthorOf[t]) : rows' = [rows EXCEPT ![t] = RowAfter(@, w)]
      BY <2>2, RowWritten
    <2> QED BY <2>1, <2>2 DEF ResolveKnown
  <1>2. ASSUME NEW s \in FinalSignals, Slot(s) = t, ByMarker(s) \/ ByBuffer(s)
        PROVE  ByRow(s)'
    <2>1. PICK w \in Winner(t, AuthorOf[t]) : w.kind = "delete" /\ w.rev >= s.rev
      BY <1>2, WinnerIsDelete
    <2>2. Reflects(t, w.rev)'
      BY <2>1, ResolvedReflects
    <2>3. w.rev \in Nat /\ s.rev \in Nat
      BY WinnerSource, FinalFacts DEF IncType
    <2>4. TypeOK'
      BY TypeStep DEF RetractionInv
    <2>5. Reflects(t, s.rev)'
      BY <2>1, <2>2, <2>3, <2>4 DEF Reflects, TypeOK, StoresType, RowType
    <2> QED BY <1>2, <2>5, FinalFacts, DeleteByRow
  <1>3. ASSUME pc' = "meta"
        PROVE  /\ inc'.kind = "delete" => Reflects(t, inc.rev)'
               /\ \A d \in Signals : d.rid = inc'.rid => inc' = Incoming(d)
               /\ inc'.rid = NoRid => /\ t \in DOMAIN markers
                                      /\ markers[t].rev = inc'.rev /\ inc'.kind = "delete"
    <2>1. inc' \in Winner(t, AuthorOf[t])
      BY <1>3 DEF ResolveKnown
    <2>2. inc'.kind = "delete" => Reflects(t, inc.rev)'
      <3>1. \A w \in Winner(t, AuthorOf[t]) : w.kind = "delete" => Reflects(t, w.rev)'
        BY ResolvedReflects
      <3> QED BY <2>1, <3>1 DEF Reflects
    <2>3. CASE t \in DOMAIN markers /\ inc' = MarkerSignal(markers[t])
      <3>1. inc'.rid = NoRid /\ inc'.rev = markers[t].rev /\ inc'.kind = "delete"
        BY <2>3 DEF MarkerSignal
      <3>2. \A d \in Signals : d.rid # NoRid
        BY SignalFacts DEF NoRid
      <3> QED BY <2>2, <2>3, <3>1, <3>2
    <2>4. CASE pending[t].sig \in Signals /\ inc' = Incoming(pending[t].sig)
      <3>1. inc'.rid = pending[t].sig.rid /\ inc'.rid # NoRid
        BY <2>4, SignalFacts DEF NoRid
      <3> QED BY <2>2, <2>4, <3>1, SameRid
    <2> QED BY <2>1, <2>3, <2>4, WinnerSource
  <1> QED BY <1>1, <1>2, <1>3

-----------------------------------------------------------------------------
(* The actions, one lemma each; TypeStep gives TypeOK'. *)

LEMMA HealKeeps ==
    ASSUME RetractionInv, NEW t \in Ids, Heal(t)
    PROVE  RetractionInv'
  <1>1. [Next]_vars
    BY DEF Next, CallStep
  <1>2. /\ t \in DOMAIN rows /\ t \in known /\ InSweep(t) /\ pc = "sweep" /\ clock \in Int
        /\ rows[t].author = AuthorOf[t]
    BY DEF Heal, HealTargets, RetractionInv, TypeOK, CallTypeOK, EnvType, StoresInv
  <1>3. ResolveKnown(t, AuthorOf[t])
    BY <1>2 DEF Heal
  <1>4. /\ cur' = t /\ ret' = "unbuffer" /\ pc' \in {"meta", "unbuffer"}
        /\ UNCHANGED <<pending, markers, slotMeta, todo, call, known, accepted, clock>>
    BY <1>3 DEF Heal, ResolveKnown, env
  <1>5. StoresInv' /\ SiblingInv' /\ RetractionSticks'
    BY <1>1, <1>2, <1>3, <1>4, ResolveKnownSettles, StoresKept
  <1>6. ~OwnSlot'
    BY <1>2, <1>4 DEF OwnSlot, InSweep
  <1>7. MetaInv'
    BY <1>1, <1>2, <1>4, MetaKept DEF Sweeping
  <1>8. CallInv' /\ InsertingInv' /\ FinishingInv'
    <2>1. call.op = "resolve" => call.slot \in DOMAIN rows'
      BY <1>1, StepAdvancesRows DEF RetractionInv, CallInv, RowAdvances
    <2> QED BY <2>1, <1>2, <1>4
            DEF RetractionInv, CallInv, OwnSlot, InsertingInv, FinishingInv, Slot
  <1>9. ApplyingInv'
    <2>1. pc' = "meta" =>
             /\ inc'.kind = "delete" => Reflects(t, inc.rev)'
             /\ \A d \in Signals : d.rid = inc'.rid => inc' = Incoming(d)
             /\ inc'.rid = NoRid => /\ t \in DOMAIN markers
                                    /\ markers[t].rev = inc'.rev /\ inc'.kind = "delete"
      BY <1>1, <1>2, <1>3, ResolveKnownSettles
    <2> QED BY <2>1, <1>4 DEF ApplyingInv, Reflects, Incoming
  <1>10. ResolvingInv' /\ ExpiringInv'
    <2>1. \A s \in FinalSignals : Slot(s) = t /\ (ByMarker(s) \/ ByBuffer(s)) => ByRow(s)'
      BY <1>1, <1>2, <1>3, ResolveKnownSettles
    <2>2. \A s \in FinalSignals : (ByMarker(s)' <=> ByMarker(s)) /\ (ByBuffer(s)' <=> ByBuffer(s))
      BY <1>1, <1>4, MemoryKept DEF RetractionInv
    <2>3. t \in DOMAIN rows'
      BY <1>1, <1>2, StepAdvancesRows DEF RetractionInv, RowAdvances
    <2> QED BY <2>1, <2>2, <2>3, <1>2, <1>4 DEF ResolvingInv, ExpiringInv, InSweep, Slot,
               FinalSignals, Final, SignalBeats
  <1> QED BY <1>1, <1>5, <1>7, <1>8, <1>9, <1>10, TypeStep DEF RetractionInv

LEMMA StartResolveKeeps ==
    ASSUME RetractionInv, NEW t \in Originals, StartResolve(t)
    PROVE  RetractionInv'
  <1>1. [Next]_vars
    BY DEF Next
  <1>2. t \in DOMAIN rows /\ pc = "idle" /\ clock \in Int /\ ResolveKnown(t, AuthorOf[t])
    BY DEF StartResolve, RetractionInv, TypeOK, EnvType
  <1>3. /\ cur' = t /\ ret' = "unbuffer" /\ pc' \in {"meta", "unbuffer"}
        /\ call' = [op |-> "resolve", thread |-> ThreadOf[t], slot |-> t]
        /\ UNCHANGED <<pending, markers, slotMeta, todo, known, accepted, clock>>
    BY <1>2 DEF StartResolve, ResolveKnown
  <1>4. StoresInv' /\ SiblingInv' /\ RetractionSticks'
    BY <1>1, <1>2, <1>3, ResolveKnownSettles, StoresKept
  <1>5. OwnSlot'
    BY <1>3 DEF OwnSlot
  <1>6. MetaInv'
    BY <1>1, <1>3, <1>5, MetaKept DEF Sweeping
  <1>7. t \in DOMAIN rows'
    BY <1>1, <1>2, StepAdvancesRows DEF RetractionInv, RowAdvances
  <1>8. CallInv' /\ InsertingInv' /\ FinishingInv'
    BY <1>2, <1>3, <1>5, <1>7 DEF RetractionInv, CallInv, InsertingInv, FinishingInv
  <1>9. ApplyingInv'
    <2>1. pc' = "meta" =>
             /\ inc'.kind = "delete" => Reflects(t, inc.rev)'
             /\ \A d \in Signals : d.rid = inc'.rid => inc' = Incoming(d)
             /\ inc'.rid = NoRid => /\ t \in DOMAIN markers
                                    /\ markers[t].rev = inc'.rev /\ inc'.kind = "delete"
      BY <1>1, <1>2, ResolveKnownSettles
    <2> QED BY <2>1, <1>3 DEF ApplyingInv, Reflects, Incoming
  <1>10. ResolvingInv' /\ ExpiringInv'
    <2>1. \A s \in FinalSignals : Slot(s) = t /\ (ByMarker(s) \/ ByBuffer(s)) => ByRow(s)'
      BY <1>1, <1>2, ResolveKnownSettles
    <2>2. \A s \in FinalSignals : (ByMarker(s)' <=> ByMarker(s)) /\ (ByBuffer(s)' <=> ByBuffer(s))
      BY <1>1, <1>3, MemoryKept DEF RetractionInv
    <2> QED BY <2>1, <2>2, <1>3, <1>5, <1>7 DEF ResolvingInv, ExpiringInv, Slot,
               FinalSignals, Final, SignalBeats
  <1> QED BY <1>1, <1>4, <1>6, <1>8, <1>9, <1>10, TypeStep DEF RetractionInv

LEMMA WriteSlotMetaKeeps ==
    ASSUME RetractionInv, WriteSlotMeta
    PROVE  RetractionInv'
  <1>1. [Next]_vars
    BY DEF Next, CallStep
  <1>2. /\ pc = "meta" /\ pc' = ret /\ ret \in {"unbuffer", "supersede", "done"}
        /\ UNCHANGED <<rows, pending, markers, call, known, cur, inc, ret, todo, env>>
    BY DEF WriteSlotMeta, RetractionInv, CallInv, TypeOK, StepNeeds, CallTypeOK
  <1>0. (ret = "supersede" => ~OwnSlot) /\ (ret = "done" => call.op = "apply")
    BY <1>2 DEF RetractionInv, ExpiringInv, TypeOK, StepNeeds
  <1>3. slotMeta' = Put(slotMeta, cur, inc.rid)
    BY NoPressure DEF WriteSlotMeta, RetractionInv
  <1>4. StoresInv' /\ SiblingInv' /\ RetractionSticks'
    <2>1. clock \in Int /\ clock' = clock /\ accepted' = accepted
      BY <1>2 DEF RetractionInv, TypeOK, EnvType, env
    <2> QED BY <2>1, <1>1, <1>2, RowsKept, StoresKept
  <1>5. MetaInv'
    <2>1. /\ inc.kind = "delete" => Reflects(cur, inc.rev)
          /\ \A d \in Signals : d.rid = inc.rid => inc = Incoming(d)
          /\ inc.rid = NoRid =>
                /\ ret = "unbuffer" /\ cur \in DOMAIN markers
                /\ markers[cur].rev = inc.rev /\ inc.kind = "delete"
      BY <1>2 DEF RetractionInv, ApplyingInv
    <2>2. ret = "unbuffer" => cur \in DOMAIN rows /\ (OwnSlot \/ cur \in known)
      BY <1>2 DEF RetractionInv, ResolvingInv
    <2>3. Sweeping' => Sweeping /\ ~OwnSlot
      BY <1>0, <1>2 DEF Sweeping, OwnSlot
    <2>4. /\ \A d \in Signals : d.kind = "delete" /\ d.rid = inc.rid => Reflects(cur, d.rev)'
          /\ inc.rid = NoRid =>
                /\ cur \in DOMAIN rows'
                /\ Sweeping' => cur \in known'
                /\ cur \in DOMAIN markers' => Reflects(cur, markers[cur].rev)'
      <3>1. ASSUME NEW d \in Signals, d.kind = "delete", d.rid = inc.rid
            PROVE  Reflects(cur, d.rev)'
        <4>1. inc.kind = "delete" /\ inc.rev = d.rev
          BY <2>1, <3>1 DEF Incoming
        <4>2. Reflects(cur, d.rev)
          BY <2>1, <4>1
        <4> QED BY <1>2, <4>2 DEF Reflects
      <3>2. ASSUME inc.rid = NoRid
            PROVE  /\ cur \in DOMAIN rows' /\ (Sweeping' => cur \in known')
                   /\ cur \in DOMAIN markers' => Reflects(cur, markers[cur].rev)'
        <4>1. Reflects(cur, markers[cur].rev)
          BY <2>1, <3>2
        <4> QED BY <1>2, <2>1, <2>2, <2>3, <3>2, <4>1 DEF Reflects
      <3> QED BY <3>1, <3>2
    <2>5. \A t \in DOMAIN slotMeta :
             /\ \A d \in Signals : d.kind = "delete" /\ d.rid = slotMeta[t] => Reflects(t, d.rev)'
             /\ slotMeta[t] = NoRid =>
                   /\ t \in DOMAIN rows'
                   /\ Sweeping' => t \in known'
                   /\ t \in DOMAIN markers' => Reflects(t, markers[t].rev)'
      BY <1>2, <2>3 DEF RetractionInv, MetaInv, Reflects
    <2>6. /\ DOMAIN slotMeta' = DOMAIN slotMeta \cup {cur} /\ slotMeta'[cur] = inc.rid
          /\ \A t \in DOMAIN slotMeta : t # cur => slotMeta'[t] = slotMeta[t]
      BY <1>3 DEF Put
    <2> SUFFICES ASSUME NEW t \in DOMAIN slotMeta'
                 PROVE  /\ \A d \in Signals : d.kind = "delete" /\ d.rid = slotMeta'[t]
                                              => Reflects(t, d.rev)'
                        /\ slotMeta'[t] = NoRid =>
                              /\ t \in DOMAIN rows'
                              /\ Sweeping' => t \in known'
                              /\ t \in DOMAIN markers' => Reflects(t, markers[t].rev)'
      BY DEF MetaInv
    <2>7. CASE t = cur
      BY <2>4, <2>6, <2>7, <1>2 DEF Reflects
    <2>8. CASE t \in DOMAIN slotMeta /\ t # cur
      <3>1. slotMeta'[t] = slotMeta[t]
        BY <2>6, <2>8
      <3> QED BY <2>5, <2>8, <3>1
    <2> QED BY <2>6, <2>7, <2>8
  <1>6. CallInv' /\ ApplyingInv' /\ InsertingInv' /\ FinishingInv'
    <2>1. Remembered(call.sig)' <=> Remembered(call.sig)
      BY <1>2 DEF Remembered, ByRow, ByBuffer, ByMarker, Slot, SignalBeats, MarkerSignal
    <2>2. CallInv'
      BY <1>0, <1>2 DEF RetractionInv, CallInv, OwnSlot, Slot
    <2>3. ApplyingInv' /\ InsertingInv'
      BY <1>2 DEF ApplyingInv, InsertingInv
    <2>4. FinishingInv'
      BY <2>1, <1>2 DEF RetractionInv, FinishingInv, Final, Slot, SignalBeats
    <2> QED BY <2>2, <2>3, <2>4
  <1>7. ResolvingInv' /\ ExpiringInv'
    <2>1. \A s \in FinalSignals : /\ ByRow(s)' <=> ByRow(s)
                                  /\ ByBuffer(s)' <=> ByBuffer(s)
                                  /\ ByMarker(s)' <=> ByMarker(s)
      BY <1>2 DEF ByRow, ByBuffer, ByMarker, Slot, SignalBeats, MarkerSignal
    <2>2. ResolvingInv'
      BY <2>1, <1>2 DEF RetractionInv, ResolvingInv, OwnSlot, FinalSignals, Final, Slot, SignalBeats
    <2>3. ExpiringInv'
      BY <2>1, <1>2 DEF RetractionInv, ExpiringInv, OwnSlot, FinalSignals, Final, Slot,
                        SignalBeats, Incoming
    <2> QED BY <2>2, <2>3
  <1> QED BY <1>1, <1>4, <1>5, <1>6, <1>7, TypeStep DEF RetractionInv

(* The idle and closing steps of a call, and the environment. *)

LEMMA EndSweepKeeps ==
    ASSUME RetractionInv, EndSweep
    PROVE  RetractionInv'
  <1>1. [Next]_vars
    BY DEF Next, CallStep
  <1>2. /\ pc = "sweep" /\ pc' \in {"main", "idle"} /\ clock \in Int
        /\ UNCHANGED <<rows, pending, markers, slotMeta, cur, inc, ret, todo, accepted, clock>>
        /\ pc' = "main" => call' = call
        /\ pc' = "idle" => call' = NoCall
    BY DEF EndSweep, stores, env, RetractionInv, TypeOK, EnvType
  <1>3. StoresInv' /\ SiblingInv' /\ RetractionSticks'
    BY <1>1, <1>2, RowsKept, StoresKept
  <1>4. MetaInv'
    BY <1>1, <1>2, MetaKept DEF Sweeping
  <1>5. CallInv'
    BY <1>2 DEF RetractionInv, CallInv, OwnSlot, NoCall, Slot
  <1>6. ApplyingInv' /\ ResolvingInv' /\ ExpiringInv' /\ InsertingInv' /\ FinishingInv'
    BY <1>2 DEF ApplyingInv, ResolvingInv, ExpiringInv, InsertingInv, FinishingInv
  <1> QED BY <1>1, <1>3, <1>4, <1>5, <1>6, TypeStep DEF RetractionInv

LEMMA StartApplyKeeps ==
    ASSUME RetractionInv, NEW s \in Signals, StartApply(s)
    PROVE  RetractionInv'
  <1>1. [Next]_vars
    BY DEF Next
  <1>2. /\ pc = "idle" /\ pc' = "sweep" /\ clock \in Int /\ known' = DOMAIN rows
        /\ call' = [op |-> "apply", thread |-> ThreadOf[Slot(s)], sig |-> s]
        /\ UNCHANGED <<rows, pending, markers, slotMeta, cur, inc, ret, todo, accepted, clock>>
    BY DEF StartApply, stores, env, RetractionInv, TypeOK, EnvType
  <1>3. StoresInv' /\ SiblingInv' /\ RetractionSticks'
    BY <1>1, <1>2, RowsKept, StoresKept
  <1>4. MetaInv'
    BY <1>1, <1>2, MetaKept
  <1>5. CallInv'
    BY <1>2 DEF RetractionInv, CallInv, OwnSlot, Slot
  <1>6. ApplyingInv' /\ ResolvingInv' /\ ExpiringInv' /\ InsertingInv' /\ FinishingInv'
    BY <1>2 DEF ApplyingInv, ResolvingInv, ExpiringInv, InsertingInv, FinishingInv
  <1> QED BY <1>1, <1>3, <1>4, <1>5, <1>6, TypeStep DEF RetractionInv

LEMMA OpenThreadKeeps ==
    ASSUME RetractionInv, NEW th \in Threads, OpenThread(th)
    PROVE  RetractionInv'
  <1>1. [Next]_vars
    BY DEF Next
  <1>2. /\ pc = "idle" /\ pc' = "sweep" /\ clock \in Int /\ known' = DOMAIN rows
        /\ call' = [op |-> "open", thread |-> th]
        /\ UNCHANGED <<rows, pending, markers, slotMeta, cur, inc, ret, todo, accepted, clock>>
    BY DEF OpenThread, stores, env, RetractionInv, TypeOK, EnvType
  <1>3. StoresInv' /\ SiblingInv' /\ RetractionSticks'
    BY <1>1, <1>2, RowsKept, StoresKept
  <1>4. MetaInv'
    BY <1>1, <1>2, MetaKept
  <1>5. CallInv'
    BY <1>2 DEF RetractionInv, CallInv, OwnSlot, Slot
  <1>6. ApplyingInv' /\ ResolvingInv' /\ ExpiringInv' /\ InsertingInv' /\ FinishingInv'
    BY <1>2 DEF ApplyingInv, ResolvingInv, ExpiringInv, InsertingInv, FinishingInv
  <1> QED BY <1>1, <1>3, <1>4, <1>5, <1>6, TypeStep DEF RetractionInv

LEMMA BufferSignalKeeps ==
    ASSUME RetractionInv, BufferSignal
    PROVE  RetractionInv'
  <1>1. [Next]_vars
    BY DEF Next, CallStep
  <1>2. /\ pc = "main" /\ pc' = "insert" /\ todo' = call.sig.targets /\ clock \in Int
        /\ UNCHANGED <<rows, pending, markers, slotMeta, call, known, cur, inc, ret, accepted, clock>>
    BY DEF BufferSignal, stores, env, RetractionInv, TypeOK, EnvType
  <1>3. StoresInv' /\ SiblingInv' /\ RetractionSticks'
    BY <1>1, <1>2, RowsKept, StoresKept
  <1>4. MetaInv'
    BY <1>1, <1>2, MetaKept DEF Sweeping
  <1>5. CallInv'
    BY <1>2 DEF RetractionInv, CallInv, OwnSlot, Slot
  <1>6. ApplyingInv' /\ ResolvingInv' /\ ExpiringInv' /\ InsertingInv' /\ FinishingInv'
    BY <1>2 DEF ApplyingInv, ResolvingInv, ExpiringInv, InsertingInv, FinishingInv
  <1> QED BY <1>1, <1>3, <1>4, <1>5, <1>6, TypeStep DEF RetractionInv

LEMMA CrashKeeps ==
    ASSUME RetractionInv, Crash
    PROVE  RetractionInv'
  <1>1. [Next]_vars
    BY DEF Next
  <1>2. /\ pc' = "idle" /\ call' = NoCall /\ ret' = "idle" /\ todo' = <<>> /\ clock \in Int
        /\ UNCHANGED <<rows, pending, markers, slotMeta, accepted, clock>>
    BY DEF Crash, stores, env, RetractionInv, TypeOK, EnvType
  <1>3. StoresInv' /\ SiblingInv' /\ RetractionSticks'
    BY <1>1, <1>2, RowsKept, StoresKept
  <1>4. MetaInv'
    BY <1>1, <1>2, MetaKept DEF Sweeping
  <1>5. CallInv'
    BY <1>2 DEF CallInv, NoCall
  <1>6. ApplyingInv' /\ ResolvingInv' /\ ExpiringInv' /\ InsertingInv' /\ FinishingInv'
    BY <1>2 DEF ApplyingInv, ResolvingInv, ExpiringInv, InsertingInv, FinishingInv
  <1> QED BY <1>1, <1>3, <1>4, <1>5, <1>6, TypeStep DEF RetractionInv

(* Nothing of a running call is disturbed by what happens beside it.         *)
LEMMA CallUndisturbed ==
    ASSUME RetractionInv, [Next]_vars, UNCHANGED <<pending, markers, regs>>
    PROVE  /\ CallInv' /\ ApplyingInv' /\ ResolvingInv' /\ ExpiringInv' /\ InsertingInv'
           /\ FinishingInv'
  <1>1. \A s \in FinalSignals : /\ ByRow(s) => ByRow(s)'
                                /\ ByMarker(s)' <=> ByMarker(s)
                                /\ ByBuffer(s)' <=> ByBuffer(s)
                                /\ Remembered(s) => Remembered(s)'
    BY MemoryKept DEF RetractionInv
  <1>2. UNCHANGED <<pc, call, known, cur, inc, ret, todo>>
    BY DEF regs
  <1>3. DOMAIN rows \subseteq DOMAIN rows'
    BY StepAdvancesRows DEF RetractionInv, RowAdvances
  <1>4. CallInv'
    BY <1>2, <1>3 DEF RetractionInv, CallInv, OwnSlot, Slot
  <1>5. ApplyingInv'
    <2>1. pc = "meta" => /\ \A d \in Signals : d.rid = inc.rid => inc = Incoming(d)
                         /\ inc.rid = NoRid =>
                               /\ ret = "unbuffer" /\ cur \in DOMAIN markers
                               /\ markers[cur].rev = inc.rev /\ inc.kind = "delete"
      BY DEF RetractionInv, ApplyingInv
    <2>2. pc = "meta" /\ inc.kind = "delete" => Reflects(cur, inc.rev)'
      <3>1. SUFFICES ASSUME pc = "meta", inc.kind = "delete" PROVE Reflects(cur, inc.rev)'
        OBVIOUS
      <3>2. Reflects(cur, inc.rev) /\ inc.rev \in Nat
        BY <3>1 DEF RetractionInv, ApplyingInv, TypeOK, CallTypeOK, IncType
      <3>3. \A t, r : r \in Nat /\ Reflects(t, r) => Reflects(t, r)'
        BY ReflectsPersists DEF RetractionInv
      <3> QED BY <3>2, <3>3, <1>2 DEF Reflects
    <2> QED BY <2>1, <2>2, <1>2 DEF ApplyingInv, Incoming
  <1>6. ResolvingInv'
    BY <1>1, <1>2, <1>3
    DEF RetractionInv, ResolvingInv, OwnSlot, FinalSignals, Final, Slot, SignalBeats
  <1>7. ExpiringInv'
    BY <1>1, <1>2
    DEF RetractionInv, ExpiringInv, OwnSlot, FinalSignals, Final, Slot, SignalBeats, Incoming
  <1>8. InsertingInv'
    <2>1. ByBuffer(call.sig)' <=> ByBuffer(call.sig)
      BY <1>2 DEF ByBuffer, Slot, SignalBeats
    <2> QED BY <2>1, <1>2 DEF RetractionInv, InsertingInv, Slot
  <1>9. FinishingInv'
    <2>1. pc = "done" \/ (pc = "meta" /\ ret = "done") => call.sig \in Signals
      BY DEF RetractionInv, TypeOK, StepNeeds, CallTypeOK, CallType, NoCall
    <2> QED BY <2>1, <1>1, <1>2
            DEF RetractionInv, FinishingInv, FinalSignals, Final, Slot, SignalBeats
  <1> QED BY <1>4, <1>5, <1>6, <1>7, <1>8, <1>9

LEMMA TickKeeps ==
    ASSUME RetractionInv, Tick
    PROVE  RetractionInv'
  <1>1. [Next]_vars
    BY DEF Next
  <1>2. /\ clock \in Int /\ clock <= clock' /\ UNCHANGED regs
        /\ UNCHANGED <<rows, pending, markers, slotMeta, known, accepted>>
    BY DEF Tick, stores, regs, RetractionInv, TypeOK, EnvType
  <1>3. StoresInv' /\ SiblingInv' /\ RetractionSticks'
    BY <1>1, <1>2, RowsKept, StoresKept
  <1>4. MetaInv'
    BY <1>1, <1>2, MetaKept DEF Sweeping, OwnSlot, regs
  <1> QED BY <1>1, <1>2, <1>3, <1>4, CallUndisturbed, TypeStep DEF RetractionInv

LEMMA AppendOriginalKeeps ==
    ASSUME RetractionInv, NEW t \in Originals, AppendOriginal(t)
    PROVE  RetractionInv'
  <1>1. [Next]_vars
    BY DEF Next
  <1>2. /\ clock \in Int /\ UNCHANGED regs
        /\ UNCHANGED <<pending, markers, slotMeta, known, accepted, clock>>
    BY DEF AppendOriginal, regs, RetractionInv, TypeOK, EnvType
  <1>3. \A u \in DOMAIN rows' : u \in Originals /\ rows'[u].author = AuthorOf[u]
    BY DEF AppendOriginal, Put, RetractionInv, StoresInv
  <1>4. StoresInv' /\ SiblingInv' /\ RetractionSticks'
    BY <1>1, <1>2, <1>3, StoresKept
  <1>5. MetaInv'
    BY <1>1, <1>2, MetaKept DEF Sweeping, OwnSlot, regs
  <1> QED BY <1>1, <1>2, <1>4, <1>5, CallUndisturbed, TypeStep DEF RetractionInv

LEMMA DoneKeeps ==
    ASSUME RetractionInv, Done
    PROVE  RetractionInv'
  <1>1. [Next]_vars
    BY DEF Next, CallStep
  <1>2. /\ pc = "done" /\ pc' = "idle" /\ call' = NoCall /\ ret' = "idle" /\ todo = <<>>
        /\ clock \in Int /\ accepted' = accepted \cup {call.sig}
        /\ UNCHANGED <<rows, pending, markers, slotMeta, known, todo, clock>>
    BY DEF Done, stores, RetractionInv, CallInv, TypeOK, EnvType
  <1>3. \A s \in FinalSignals : Remembered(s) => Remembered(s)'
    BY <1>1, <1>2, MemoryKept DEF RetractionInv
  <1>4. RetractionSticks'
    <2>1. Final(call.sig) => Remembered(call.sig)
      BY <1>2 DEF RetractionInv, FinishingInv
    <2>2. call.sig \in Signals
      BY <1>2 DEF RetractionInv, TypeOK, StepNeeds, CallTypeOK, CallType, NoCall
    <2> SUFFICES ASSUME NEW s \in accepted \cup {call.sig}, Final(s), ByItsAuthor(s)
                 PROVE  Remembered(s)'
      BY <1>2 DEF RetractionSticks, Final, ByItsAuthor, Slot, SignalBeats
    <2>3. s \in FinalSignals
      BY <2>2 DEF RetractionInv, TypeOK, EnvType, FinalSignals
    <2>4. Remembered(s)
      BY <2>1, <2>3, RemembersAccepted
    <2> QED BY <1>3, <2>3, <2>4
  <1>5. StoresInv'
    BY <1>2 DEF RetractionInv, StoresInv, Slot
  <1>6. SiblingInv'
    BY <1>2, SMTT(60), ZenonT(60) DEF RetractionInv, SiblingInv, Slot, Final, SignalBeats, ByRow, ByMarker, MarkerSignal
  <1>7. MetaInv'
    BY <1>1, <1>2, MetaKept DEF Sweeping
  <1>8. CallInv'
    BY <1>2 DEF CallInv, NoCall
  <1>9. ApplyingInv' /\ ResolvingInv' /\ ExpiringInv' /\ InsertingInv' /\ FinishingInv'
    BY <1>2 DEF ApplyingInv, ResolvingInv, ExpiringInv, InsertingInv, FinishingInv
  <1> QED BY <1>1, <1>4, <1>5, <1>6, <1>7, <1>8, <1>9, TypeStep DEF RetractionInv

-----------------------------------------------------------------------------
(* The removals: what leaves a store is remembered elsewhere.                *)

(* Entries leave the buffer, the rest of the state that matters stays.       *)
LEMMA BufferShrinks ==
    ASSUME RetractionInv, NEW S, pending' = Drop(pending, S),
           UNCHANGED <<rows, markers, slotMeta, accepted, clock>>,
           \A s \in FinalSignals :
              ByBuffer(s) /\ Slot(s) \in S => ByRow(s) \/ ByMarker(s)
    PROVE  StoresInv' /\ SiblingInv' /\ RetractionSticks'
  <1>1. /\ DOMAIN pending' = DOMAIN pending \ S
        /\ \A t \in DOMAIN pending' : pending'[t] = pending[t]
    BY DEF Drop, Restrict
  <1>2. StoresInv'
    BY <1>1 DEF RetractionInv, StoresInv, Slot
  <1>3. ASSUME NEW s \in FinalSignals
        PROVE  /\ (ByRow(s)' <=> ByRow(s)) /\ (ByMarker(s)' <=> ByMarker(s))
               /\ Remembered(s) => Remembered(s)'
    <2>1. (ByRow(s)' <=> ByRow(s)) /\ (ByMarker(s)' <=> ByMarker(s))
      BY DEF ByRow, ByMarker
    <2>2. ByBuffer(s) => ByBuffer(s)' \/ ByRow(s) \/ ByMarker(s)
      BY <1>1 DEF ByBuffer
    <2> QED BY <2>1, <2>2 DEF Remembered
  <1>4. RetractionSticks'
    BY <1>3, AcceptedKept
  <1>5. ASSUME NEW u \in DOMAIN pending', u # Slot(pending'[u].sig), Final(pending'[u].sig)
        PROVE  \/ ByRow(pending[u].sig)' \/ ByMarker(pending[u].sig)'
               \/ /\ Slot(pending'[u].sig) \in DOMAIN pending'
                  /\ IF pending'[Slot(pending'[u].sig)].sig = pending'[u].sig
                     THEN pending'[Slot(pending'[u].sig)].at <= pending'[u].at
                     ELSE SignalBeats(pending'[Slot(pending'[u].sig)].sig, pending'[u].sig)
    <2> DEFINE d == pending[u].sig
               t == Slot(d)
    <2>1. u \in DOMAIN pending /\ pending'[u] = pending[u]
      BY <1>1
    <2>2. d \in FinalSignals
      BY <1>5, <2>1 DEF RetractionInv, TypeOK, StoresType, EntryType, FinalSignals
    <2>3. \/ ByRow(d) \/ ByMarker(d)
          \/ /\ t \in DOMAIN pending
             /\ IF pending[t].sig = d THEN pending[t].at <= pending[u].at
                ELSE SignalBeats(pending[t].sig, d)
      BY <1>5, <2>1 DEF RetractionInv, SiblingInv
    <2>4. CASE ByRow(d) \/ ByMarker(d)
      BY <1>3, <2>1, <2>2, <2>4 DEF ByRow, ByMarker, Slot, SignalBeats
    <2>5. CASE t \in DOMAIN pending /\ t \in S /\ ~(ByRow(d) \/ ByMarker(d))
      <3>1. ByBuffer(d)
        BY <2>3, <2>5 DEF ByBuffer
      <3> QED BY <2>2, <2>5, <3>1
    <2>6. CASE t \in DOMAIN pending' /\ ~(ByRow(d) \/ ByMarker(d))
      <3>1. pending'[t] = pending[t] /\ t \in DOMAIN pending
        BY <1>1, <2>6
      <3> QED BY <2>1, <2>3, <2>6, <3>1
    <2> QED BY <1>1, <2>3, <2>4, <2>5, <2>6
  <1>6. SiblingInv'
    <2> SUFFICES ASSUME NEW u \in DOMAIN pending', u # Slot(pending'[u].sig), Final(pending'[u].sig)
                 PROVE  \/ ByRow(pending[u].sig)' \/ ByMarker(pending[u].sig)'
                        \/ /\ Slot(pending'[u].sig) \in DOMAIN pending'
                           /\ IF pending'[Slot(pending'[u].sig)].sig = pending'[u].sig
                              THEN pending'[Slot(pending'[u].sig)].at <= pending'[u].at
                              ELSE SignalBeats(pending'[Slot(pending'[u].sig)].sig, pending'[u].sig)
      BY DEF SiblingInv, Slot, Final, SignalBeats
    <2> QED BY <1>5
  <1> QED BY <1>2, <1>4, <1>6

(* A marker leaves, the rest of the state that matters stays.                *)
LEMMA MarkerLeaves ==
    ASSUME RetractionInv, [Next]_vars, NEW c, markers' = Drop(markers, {c}),
           UNCHANGED <<rows, pending, slotMeta, accepted, clock>>,
           \A s \in FinalSignals : Slot(s) = c /\ ByMarker(s) => ByRow(s)
    PROVE  StoresInv' /\ SiblingInv' /\ RetractionSticks'
  <1>1. /\ DOMAIN markers' = DOMAIN markers \ {c}
        /\ \A t \in DOMAIN markers' : markers'[t] = markers[t]
    BY DEF Drop, Restrict
  <1>2. StoresInv'
    BY <1>1 DEF RetractionInv, StoresInv, Slot
  <1>3. ASSUME NEW s \in FinalSignals
        PROVE  /\ ByRow(s) \/ ByMarker(s) => ByRow(s)' \/ ByMarker(s)'
               /\ Remembered(s) => Remembered(s)'
    <2>1. ByRow(s)' <=> ByRow(s)
      BY DEF ByRow
    <2>2. ByMarker(s) => ByMarker(s)' \/ ByRow(s)
      <3>1. CASE Slot(s) = c
        BY <3>1
      <3>2. CASE Slot(s) # c
        BY <1>1, <3>2 DEF ByMarker, SignalBeats, MarkerSignal
      <3> QED BY <3>1, <3>2
    <2>3. ByBuffer(s)' <=> ByBuffer(s)
      BY DEF ByBuffer
    <2> QED BY <2>1, <2>2, <2>3 DEF Remembered
  <1>4. RetractionSticks'
    BY <1>3, AcceptedKept
  <1>5. ASSUME NEW u \in DOMAIN pending, u # Slot(pending[u].sig), Final(pending[u].sig)
        PROVE  \/ ByRow(pending[u].sig)' \/ ByMarker(pending[u].sig)'
               \/ /\ Slot(pending[u].sig) \in DOMAIN pending
                  /\ IF pending[Slot(pending[u].sig)].sig = pending[u].sig
                     THEN pending[Slot(pending[u].sig)].at <= pending[u].at
                     ELSE SignalBeats(pending[Slot(pending[u].sig)].sig, pending[u].sig)
    <2>1. pending[u].sig \in FinalSignals
      BY <1>5 DEF RetractionInv, TypeOK, StoresType, EntryType, FinalSignals
    <2> QED BY <1>3, <1>5, <2>1 DEF RetractionInv, SiblingInv
  <1>6. SiblingInv'
    BY <1>5 DEF SiblingInv, Slot, Final, SignalBeats, ByRow, ByMarker
  <1> QED BY <1>2, <1>4, <1>6

LEMMA UnbufferKeeps ==
    ASSUME RetractionInv, Unbuffer
    PROVE  RetractionInv'
  <1>1. [Next]_vars
    BY DEF Next, CallStep
  <1>2. /\ pc = "unbuffer" /\ pc' = "unmark" /\ clock \in Int
        /\ UNCHANGED <<rows, markers, slotMeta, call, known, cur, inc, ret, todo, accepted, clock>>
    BY DEF Unbuffer, env, RetractionInv, TypeOK, EnvType
  <1> DEFINE S == IF cur \in DOMAIN pending THEN EntriesOf(pending[cur].sig.rid) ELSE {}
  <1>3. /\ DOMAIN pending' = DOMAIN pending \ S
        /\ \A t \in DOMAIN pending' : pending'[t] = pending[t]
        /\ cur \notin DOMAIN pending'
    BY DEF Unbuffer, Drop, Restrict, EntriesOf
  <1>4. cur \in DOMAIN rows /\ cur \in Originals /\ (OwnSlot \/ (cur \in known /\ ThreadOf[cur] = call.thread))
    BY <1>2 DEF RetractionInv, ResolvingInv, StoresInv
  <1>5. StoresInv' /\ SiblingInv' /\ RetractionSticks'
    <2>1. CASE cur \in DOMAIN pending
      <3>1. ASSUME NEW s \in FinalSignals, ByBuffer(s), Slot(s) \in S
            PROVE  ByRow(s)
        <4>1. /\ Slot(s) \in Originals /\ Slot(s) \in DOMAIN pending
              /\ pending[Slot(s)].sig.rid = pending[cur].sig.rid
          BY <2>1, <3>1, FinalFacts DEF EntriesOf
        <4>2. pending[Slot(s)].sig = pending[cur].sig
          BY <2>1, <4>1, SameRid DEF RetractionInv, TypeOK, StoresType, EntryType
        <4>3. Slot(s) = cur
          BY <1>4, <2>1, <4>1, <4>2 DEF RetractionInv, StoresInv
        <4> QED BY <1>2, <3>1, <4>3 DEF RetractionInv, ResolvingInv
      <3>2. pending' = Drop(pending, S)
        BY <2>1 DEF Unbuffer
      <3> HIDE DEF S
      <3> QED BY <1>2, <3>1, <3>2, BufferShrinks
    <2>2. CASE cur \notin DOMAIN pending
      <3>1. UNCHANGED pending
        BY <2>2 DEF Unbuffer
      <3> QED BY <1>1, <1>2, <3>1, RowsKept, StoresKept
    <2> QED BY <2>1, <2>2
  <1>6. MetaInv'
    BY <1>1, <1>2, MetaKept DEF Sweeping, OwnSlot
  <1>7. CallInv'
    BY <1>2, <1>3 DEF RetractionInv, CallInv, OwnSlot, Slot
  <1>8. ResolvingInv'
    <2>1. ASSUME NEW s \in FinalSignals, Slot(s) = cur
          PROVE  (ByMarker(s)' => ByRow(s)') /\ ~ByBuffer(s)'
      <3>1. ByMarker(s) => ByRow(s)
        BY <1>2, <2>1 DEF RetractionInv, ResolvingInv
      <3>2. (ByMarker(s)' <=> ByMarker(s)) /\ (ByRow(s)' <=> ByRow(s))
        BY <1>2 DEF ByMarker, ByRow
      <3>3. ~ByBuffer(s)'
        BY <1>3, <2>1 DEF ByBuffer
      <3> QED BY <3>1, <3>2, <3>3
    <2> QED BY <2>1, <1>2, <1>3, <1>4 DEF ResolvingInv, OwnSlot, FinalSignals, Final, Slot, SignalBeats
  <1>9. ApplyingInv' /\ ExpiringInv' /\ InsertingInv' /\ FinishingInv'
    BY <1>2 DEF ApplyingInv, ExpiringInv, InsertingInv, FinishingInv
  <1> QED BY <1>1, <1>5, <1>6, <1>7, <1>8, <1>9, TypeStep DEF RetractionInv

LEMMA UnmarkKeeps ==
    ASSUME RetractionInv, Unmark
    PROVE  RetractionInv'
  <1>1. [Next]_vars
    BY DEF Next, CallStep
  <1>2. /\ pc = "unmark" /\ pc' = "sweep" /\ clock \in Int /\ ret' = "idle"
        /\ markers' = Drop(markers, {cur})
        /\ known' = IF OwnSlot THEN DOMAIN rows ELSE known
        /\ UNCHANGED <<rows, pending, slotMeta, call, todo, accepted, clock>>
    BY DEF Unmark, OwnSlot, env, RetractionInv, TypeOK, EnvType
  <1>3. /\ cur \notin DOMAIN pending
        /\ \A s \in FinalSignals : Slot(s) = cur /\ ByMarker(s) => ByRow(s)
    BY <1>2 DEF RetractionInv, ResolvingInv
  <1>4. StoresInv' /\ SiblingInv' /\ RetractionSticks'
    BY <1>1, <1>2, <1>3, MarkerLeaves
  <1>5. MetaInv'
    <2>1. ret # "done"
      BY <1>2 DEF RetractionInv, CallInv
    <2>2. (Sweeping /\ known' = known) \/ known' = DOMAIN rows
      BY <1>2, <2>1 DEF Sweeping
    <2>3. \A t \in DOMAIN markers' : t \in DOMAIN markers /\ markers'[t] = markers[t]
      BY <1>2 DEF Drop, Restrict
    <2> QED BY <1>1, <1>2, <2>2, <2>3, MetaKept
  <1>6. CallInv'
    BY <1>2, <1>3 DEF RetractionInv, CallInv, OwnSlot, Slot
  <1>7. ApplyingInv' /\ ResolvingInv' /\ ExpiringInv' /\ InsertingInv' /\ FinishingInv'
    BY <1>2 DEF ApplyingInv, ResolvingInv, ExpiringInv, InsertingInv, FinishingInv
  <1> QED BY <1>1, <1>4, <1>5, <1>6, <1>7, TypeStep DEF RetractionInv

LEMMA SupersedeKeeps ==
    ASSUME RetractionInv, Supersede
    PROVE  RetractionInv'
  <1>1. [Next]_vars
    BY DEF Next, CallStep
  <1>2. /\ pc = "supersede" /\ pc' = "release" /\ clock \in Int
        /\ markers' = Drop(markers, {cur})
        /\ UNCHANGED <<rows, pending, slotMeta, call, known, cur, inc, ret, todo, accepted, clock>>
    BY DEF Supersede, env, RetractionInv, CallInv, TypeOK, EnvType
  <1> DEFINE e == pending[cur].sig
  <1>3. /\ cur \in DOMAIN pending /\ inc = Incoming(e) /\ ~OwnSlot
        /\ e \in Signals /\ e.kind = "edit" /\ Slot(e) = cur /\ inc.rid = e.rid
        /\ cur \in DOMAIN markers => markers[cur].rev < e.rev
    BY <1>2, SignalFacts
    DEF RetractionInv, ExpiringInv, TypeOK, StoresType, EntryType, StoresInv, Incoming
  <1>4. ASSUME NEW s \in FinalSignals, Slot(s) = cur
        PROVE  ~ByMarker(s) /\ ~ByBuffer(s)
    <2>1. ~SignalBeats(e, s) /\ e # s
      BY <1>3, <1>4, AtLeastFinal
    <2>2. ~ByBuffer(s)
      BY <1>4, <2>1 DEF ByBuffer
    <2>3. ~ByMarker(s)
      <3>1. SUFFICES ASSUME ByMarker(s) PROVE FALSE
        OBVIOUS
      <3>2. cur \in DOMAIN markers /\ markers[cur].rev >= s.rev
        BY <1>4, <3>1, MarkedFinal DEF RetractionInv
      <3>3. markers[cur].rev \in Nat /\ s.rev \in Nat /\ e.rev \in Nat
        BY <1>3, <3>2, FinalFacts, SignalFacts DEF RetractionInv, TypeOK, StoresType, MarkerType
      <3> QED BY <1>3, <2>1, <3>2, <3>3 DEF SignalBeats
    <2> QED BY <2>2, <2>3
  <1>5. StoresInv' /\ SiblingInv' /\ RetractionSticks'
    <2>1. \A s \in FinalSignals : Slot(s) = cur /\ ByMarker(s) => ByRow(s)
      BY <1>4
    <2> QED BY <1>1, <1>2, <2>1, MarkerLeaves
  <1>6. MetaInv'
    <2>1. \A t \in DOMAIN markers' : t \in DOMAIN markers /\ markers'[t] = markers[t]
      BY <1>2 DEF Drop, Restrict
    <2>2. Sweeping' => Sweeping
      BY <1>2 DEF Sweeping, OwnSlot
    <2> QED BY <1>1, <1>2, <2>1, <2>2, MetaKept
  <1>7. CallInv'
    BY <1>2, <1>3 DEF RetractionInv, CallInv, OwnSlot, Slot
  <1>8. ExpiringInv'
    <2>1. ASSUME NEW s \in FinalSignals, ByBuffer(s), pending[Slot(s)].sig.rid = inc.rid
          PROVE  FALSE
      <3>1. /\ Slot(s) \in DOMAIN pending /\ pending[Slot(s)].sig \in Signals
            /\ Slot(pending[Slot(s)].sig) = Slot(s)
        BY <2>1, BufferedFinal DEF RetractionInv, FinalSignals
      <3>2. Slot(s) = cur
        BY <1>3, <2>1, <3>1, SameRid
      <3> QED BY <1>4, <2>1, <3>2
    <2>2. \A s \in FinalSignals : ByBuffer(s)' <=> ByBuffer(s)
      BY <1>2 DEF ByBuffer
    <2> QED BY <1>2, <1>3, <2>1, <2>2
            DEF ExpiringInv, OwnSlot, FinalSignals, Final, Slot, SignalBeats, Incoming
  <1>9. ApplyingInv' /\ ResolvingInv' /\ InsertingInv' /\ FinishingInv'
    BY <1>2 DEF ApplyingInv, ResolvingInv, InsertingInv, FinishingInv
  <1> QED BY <1>1, <1>5, <1>6, <1>7, <1>8, <1>9, TypeStep DEF RetractionInv

LEMMA ReleaseKeeps ==
    ASSUME RetractionInv, Release
    PROVE  RetractionInv'
  <1>1. [Next]_vars
    BY DEF Next, CallStep
  <1>2. /\ pc = "release" /\ pc' = "sweep" /\ clock \in Int /\ ret' = "idle"
        /\ pending' = Drop(pending, EntriesOf(inc.rid))
        /\ UNCHANGED <<rows, markers, slotMeta, call, known, todo, accepted, clock>>
    BY DEF Release, env, RetractionInv, TypeOK, EnvType
  <1>3. \A s \in FinalSignals :
           ByBuffer(s) /\ Slot(s) \in EntriesOf(inc.rid) => ByRow(s) \/ ByMarker(s)
    BY <1>2 DEF RetractionInv, ExpiringInv, EntriesOf
  <1>4. StoresInv' /\ SiblingInv' /\ RetractionSticks'
    BY <1>2, <1>3, BufferShrinks
  <1>5. DOMAIN pending' \subseteq DOMAIN pending
    BY <1>2 DEF Drop, Restrict
  <1>6. ret # "done" /\ ~OwnSlot
    BY <1>2 DEF RetractionInv, CallInv, OwnSlot
  <1>7. MetaInv'
    <2>1. Sweeping
      BY <1>2, <1>6 DEF Sweeping
    <2> QED BY <1>1, <1>2, <2>1, MetaKept
  <1>8. CallInv'
    BY <1>2, <1>5, <1>6 DEF RetractionInv, CallInv, OwnSlot, Slot
  <1>9. ApplyingInv' /\ ResolvingInv' /\ ExpiringInv' /\ InsertingInv' /\ FinishingInv'
    BY <1>2 DEF ApplyingInv, ResolvingInv, ExpiringInv, InsertingInv, FinishingInv
  <1> QED BY <1>1, <1>4, <1>7, <1>8, <1>9, TypeStep DEF RetractionInv

-----------------------------------------------------------------------------
(* A signal that finds its row. *)

LEMMA ApplyToKnownSlotKeeps ==
    ASSUME RetractionInv, ApplyToKnownSlot
    PROVE  RetractionInv'
  <1> DEFINE s == call.sig
             t == Slot(s)
  <1>1. [Next]_vars
    BY DEF Next, CallStep
  <1>2. /\ pc = "main" /\ clock \in Int /\ todo = <<>>
        /\ UNCHANGED <<pending, markers, slotMeta, call, known, todo, accepted, clock>>
    BY DEF ApplyToKnownSlot, env, RetractionInv, CallInv, TypeOK, EnvType
  <1>3. s \in Signals /\ call.op = "apply"
    BY <1>2 DEF RetractionInv, TypeOK, StepNeeds, CallTypeOK, CallType, NoCall
  <1>4. /\ t \in DOMAIN rows
        /\ \/ /\ WinsAt(t, Incoming(s))
              /\ rows' = [rows EXCEPT ![t] = RowAfter(@, Incoming(s))]
              /\ cur' = t /\ inc' = Incoming(s)
              /\ pc' = "meta" /\ ret' = "done"
           \/ /\ ~WinsAt(t, Incoming(s))
              /\ pc' = "done" /\ UNCHANGED <<rows, cur, inc, ret>>
    <2>1. PICK i \in KnownTargets(s) :
             IF s.author = rows[s.targets[i]].author /\ WinsAt(s.targets[i], Incoming(s))
             THEN /\ rows' = [rows EXCEPT ![s.targets[i]] = RowAfter(@, Incoming(s))]
                  /\ cur' = s.targets[i] /\ inc' = Incoming(s)
                  /\ pc' = "meta" /\ ret' = "done"
             ELSE /\ pc' = "done"
                  /\ UNCHANGED <<rows, cur, inc, ret>>
      BY DEF ApplyToKnownSlot
    <2>2. s.targets[i] \in DOMAIN rows /\ i \in DOMAIN s.targets
      BY <2>1 DEF KnownTargets
    <2>3. i = 1
      BY <1>3, <2>2, AuthoredAssumption DEF RetractionInv, StoresInv
    <2>4. s.targets[i] = t /\ s.author = AuthorOf[t]
      BY <1>3, <2>3, SignalFacts
    <2>5. s.author = rows[t].author
      BY <2>2, <2>4 DEF RetractionInv, StoresInv
    <2> QED BY <2>1, <2>2, <2>4, <2>5
  <1>5. Incoming(s) \in IncType /\ Incoming(s).kind # "none"
    BY <1>3, IncomingType
  <1>6. \A u \in DOMAIN rows' : u \in Originals /\ rows'[u].author = AuthorOf[u]
    BY <1>4, RowsKept, RowWritten
  <1>7. StoresInv' /\ SiblingInv' /\ RetractionSticks'
    BY <1>1, <1>2, <1>6, StoresKept
  <1>8. MetaInv'
    BY <1>1, <1>2, <1>4, MetaKept DEF Sweeping
  <1>9. CallInv'
    BY <1>2, <1>3, <1>4 DEF RetractionInv, CallInv, OwnSlot, Slot
  <1>10. s.kind = "delete" => Reflects(t, s.rev)'
    <2> SUFFICES ASSUME s.kind = "delete" PROVE Reflects(t, s.rev)'
      OBVIOUS
    <2>1. /\ Incoming(s).kind = "delete" /\ Incoming(s).rev = s.rev /\ Incoming(s).rid = s.rid
          /\ s.rev \in Nat /\ s.rid \in Nat
      BY <1>3, SignalFacts
    <2>2. CASE rows' = [rows EXCEPT ![t] = RowAfter(@, Incoming(s))]
      <3>1. PICK u, w : u = t /\ w = Incoming(s)
        OBVIOUS
      <3>2. /\ u \in DOMAIN rows /\ w \in IncType /\ w.kind = "delete" /\ w.rev = s.rev
            /\ rows' = [rows EXCEPT ![u] = RowAfter(@, w)]
        BY <1>4, <1>5, <2>1, <2>2, <3>1
      <3>3. Reflects(u, w.rev)'
        BY <3>2, AppliedReflects DEF RetractionInv, TypeOK
      <3>4. t' = u /\ (s.rev)' = w.rev
        BY <1>2, <3>1, <3>2 DEF Slot
      <3> QED BY <3>3, <3>4 DEF Reflects
    <2>3. CASE ~WinsAt(t, Incoming(s))
      <3>1. rows[t] \in RowType
        BY <1>4 DEF RetractionInv, TypeOK, StoresType
      <3>2. s.rid = LastRid(t) \/ s.rev < rows[t].rev
        BY <2>1, <2>3, <3>1 DEF WinsAt, RowType
      <3>3. ASSUME s.rid = LastRid(t) PROVE Reflects(t, s.rev)
        <4>1. t \in DOMAIN slotMeta /\ slotMeta[t] = s.rid
          BY <2>1, <3>3 DEF LastRid, NoMeta
        <4> QED BY <1>3, <4>1 DEF RetractionInv, MetaInv
      <3>4. Reflects(t, s.rev)
        BY <1>4, <2>1, <3>1, <3>2, <3>3 DEF Reflects, RowType
      <3>5. \A u, r : r \in Nat /\ Reflects(u, r) => Reflects(u, r)'
        BY <1>1, ReflectsPersists DEF RetractionInv
      <3> QED BY <1>2, <2>1, <3>4, <3>5 DEF Reflects, Slot
    <2> QED BY <1>4, <2>2, <2>3
  <1>11. ApplyingInv'
    <2> SUFFICES ASSUME pc' = "meta" PROVE ApplyingInv'
      BY DEF ApplyingInv
    <2>1. /\ cur' = t /\ inc' = Incoming(s) /\ inc'.kind = s.kind /\ inc'.rev = s.rev
          /\ inc'.rid = s.rid /\ inc'.rid # NoRid
      BY <1>3, <1>4, SignalFacts DEF NoRid
    <2>2. \A d \in Signals : d.rid = inc'.rid => inc' = Incoming(d)
      BY <1>3, <2>1, SameRid
    <2>3. inc'.kind = "delete" => Reflects(cur, inc.rev)'
      BY <1>2, <1>10, <2>1 DEF Reflects, Slot
    <2> QED BY <2>1, <2>2, <2>3 DEF ApplyingInv, Incoming
  <1>12. FinishingInv'
    <2>1. call' = call
      BY <1>2
    <2> SUFFICES ASSUME Final(call.sig) PROVE Remembered(call.sig)'
      BY <2>1 DEF FinishingInv, Final, Slot, SignalBeats
    <2>2. s \in FinalSignals
      BY <1>3 DEF FinalSignals
    <2>3. ByRow(s)'
      BY <1>2, <1>3, <1>10, <2>2, FinalFacts DEF ByRow, Reflects, Slot
    <2> QED BY <2>3 DEF Remembered
  <1>13. ResolvingInv' /\ ExpiringInv' /\ InsertingInv'
    BY <1>4 DEF ResolvingInv, ExpiringInv, InsertingInv
  <1> QED BY <1>1, <1>7, <1>8, <1>9, <1>11, <1>12, <1>13, TypeStep DEF RetractionInv

-----------------------------------------------------------------------------
(* Expiry: the effect of an entry is persisted before the entry is released. *)

(* The marker of an expired delete outlives the sibling entries it stands for. *)
LEMMA UpsertedMarker ==
    ASSUME TypeOK, NEW t \in Ids, NEW s \in Signals, markers' \in UpsertMarker(t, s)
    PROVE  /\ t \in DOMAIN markers' /\ markers'[t].rev >= s.rev
           /\ \A u \in DOMAIN markers : /\ u \in DOMAIN markers'
                                        /\ markers'[u].rev >= markers[u].rev
                                        /\ u # t => markers'[u] = markers[u]
           /\ \A u \in DOMAIN markers' : u # t => u \in DOMAIN markers
           /\ markers'[t].author = s.author \/ (t \in DOMAIN markers /\ markers'[t] = markers[t])
  <1>1. /\ \A u \in DOMAIN markers : markers[u].rev \in Nat
        /\ s.rev \in Nat
    BY SignalFacts DEF TypeOK, StoresType, MarkerType
  <1>2. CASE t \in DOMAIN markers /\ s.rev <= markers[t].rev
    <2>1. markers' = markers
      BY <1>2 DEF UpsertMarker
    <2> QED BY <1>1, <1>2, <2>1
  <1>3. CASE ~(t \in DOMAIN markers /\ s.rev <= markers[t].rev)
    <2>1. markers' = Put(markers, t, [rev |-> s.rev, author |-> s.author])
      BY <1>3, NoPressure DEF UpsertMarker
    <2> QED BY <1>1, <1>3, <2>1 DEF Put
  <1> QED BY <1>2, <1>3

LEMMA ExpireKeeps ==
    ASSUME RetractionInv, NEW t \in Ids, Expire(t)
    PROVE  RetractionInv'
  <1> DEFINE s == pending[t].sig
  <1>1. [Next]_vars /\ TypeOK
    BY DEF Next, CallStep, RetractionInv
  <1>2. /\ pc = "sweep" /\ clock \in Int /\ HealTargets = {} /\ todo = <<>>
        /\ t \in DOMAIN pending /\ t \notin known /\ InSweep(t) /\ Expired(t)
        /\ \A u \in ExpireTargets : ~SiblingBefore(u, t)
        /\ cur' = t /\ inc' = Incoming(s)
        /\ UNCHANGED <<pending, slotMeta, call, known, todo, accepted, clock>>
    BY DEF Expire, ExpireTargets, PersistEffect, env, RetractionInv, CallInv, TypeOK, EnvType
  <1>3. s \in Signals /\ inc'.kind = s.kind /\ inc'.rev = s.rev /\ inc'.rid = s.rid
    BY <1>1, <1>2, SignalFacts DEF TypeOK, StoresType, EntryType
  <1>4. /\ \/ /\ s.kind = "delete" /\ markers' \in UpsertMarker(t, s)
              /\ pc' = "release" /\ UNCHANGED <<rows, ret>>
           \/ /\ s.kind = "edit" /\ Outranked(t, s)
              /\ pc' = "release" /\ UNCHANGED <<rows, markers, ret>>
           \/ /\ s.kind = "edit" /\ ~Outranked(t, s)
              /\ rows' = IF t \in DOMAIN rows THEN rows ELSE Put(rows, t, MaterialisedRow(s))
              /\ pc' = "meta" /\ ret' = "supersede" /\ UNCHANGED markers
    BY DEF Expire, PersistEffect
  <1>5. ret # "done" /\ ret' # "done" /\ ret' # "swap" /\ ~OwnSlot /\ ~OwnSlot'
    BY <1>2, <1>4 DEF RetractionInv, CallInv, OwnSlot, InSweep
  <1>6. t \in Originals \/ s.kind = "edit" => Slot(s) = t /\ t \in Originals /\ s.author = AuthorOf[t]
    BY <1>2, <1>3, SignalFacts DEF RetractionInv, StoresInv
  <1>7. /\ \A u \in DOMAIN markers : /\ u \in DOMAIN markers'
                                     /\ markers'[u].rev >= markers[u].rev
                                     /\ u # t => markers'[u] = markers[u]
        /\ \A u \in DOMAIN markers' : u # t => u \in DOMAIN markers
        /\ t \in DOMAIN markers' => \/ markers'[t].author = s.author
                                    \/ t \in DOMAIN markers /\ markers'[t] = markers[t]
    <2>1. CASE markers' \in UpsertMarker(t, s)
      BY <1>1, <1>3, <2>1, UpsertedMarker
    <2>2. CASE UNCHANGED markers
      <3>1. \A u \in DOMAIN markers : markers[u].rev \in Nat
        BY <1>1 DEF TypeOK, StoresType, MarkerType
      <3> QED BY <2>2, <3>1
    <2> QED BY <1>4, <2>1, <2>2
  <1>8. ASSUME NEW z \in FinalSignals
        PROVE  /\ ByRow(z) => ByRow(z)'
               /\ ByMarker(z) => ByMarker(z)'
               /\ ByBuffer(z)' <=> ByBuffer(z)
    <2>1. ByRow(z) => ByRow(z)'
      BY <1>1, ByRowPersists
    <2>2. ByMarker(z) => ByMarker(z)'
      <3>1. SUFFICES ASSUME ByMarker(z) PROVE ByMarker(z)'
        OBVIOUS
      <3>2. Slot(z) \in DOMAIN markers /\ markers[Slot(z)].rev >= z.rev
        BY <1>1, <3>1, MarkedFinal
      <3>3. TypeOK'
        BY <1>1, TypeStep
      <3>4. /\ Slot(z) \in DOMAIN markers' /\ markers'[Slot(z)].rev >= z.rev
            /\ markers'[Slot(z)].rev \in Nat /\ z.rev \in Nat
        BY <1>1, <1>7, <3>2, <3>3, FinalFacts DEF TypeOK, StoresType, MarkerType
      <3> QED BY <3>4 DEF ByMarker, SignalBeats, MarkerSignal, Slot
    <2>3. ByBuffer(z)' <=> ByBuffer(z)
      BY <1>2 DEF ByBuffer, Slot, SignalBeats
    <2> QED BY <2>1, <2>2, <2>3
  <1>9. \A u \in DOMAIN rows' : u \in Originals /\ rows'[u].author = AuthorOf[u]
    <2>1. CASE UNCHANGED rows
      BY <2>1, RowsKept
    <2>2. CASE s.kind = "edit" /\ rows' = Put(rows, t, MaterialisedRow(s))
      BY <1>6, <2>2 DEF Put, MaterialisedRow, RetractionInv, StoresInv
    <2> QED BY <1>4, <2>1, <2>2
  <1>10. StoresInv'
    <2>1. \A u \in DOMAIN markers' \cap Originals : markers'[u].author = AuthorOf[u]
      BY <1>6, <1>7 DEF RetractionInv, StoresInv
    <2> QED BY <1>2, <1>9, <2>1 DEF RetractionInv, StoresInv, Slot
  <1>11. RetractionSticks'
    BY <1>2, <1>8, AcceptedKept DEF Remembered
  <1>12. SiblingInv'
    <2> SUFFICES ASSUME NEW u \in DOMAIN pending, u # Slot(pending[u].sig), Final(pending[u].sig)
                 PROVE  \/ ByRow(pending[u].sig)' \/ ByMarker(pending[u].sig)'
                        \/ /\ Slot(pending[u].sig) \in DOMAIN pending
                           /\ IF pending[Slot(pending[u].sig)].sig = pending[u].sig
                              THEN pending[Slot(pending[u].sig)].at <= pending[u].at
                              ELSE SignalBeats(pending[Slot(pending[u].sig)].sig, pending[u].sig)
      BY <1>2 DEF SiblingInv, Slot, Final, SignalBeats, ByRow, ByMarker
    <2>1. pending[u].sig \in FinalSignals
      BY <1>1 DEF TypeOK, StoresType, EntryType, FinalSignals
    <2>2. PICK d : d = pending[u].sig
      OBVIOUS
    <2>3. (ByRow(d) => ByRow(d)') /\ (ByMarker(d) => ByMarker(d)')
      BY <1>8, <2>1, <2>2
    <2>4. (pending[u].sig)' = d
      BY <1>2, <2>2
    <2>5. /\ ByRow(d)' => ByRow(pending[u].sig)'
          /\ ByMarker(d)' => ByMarker(pending[u].sig)'
      BY <2>4 DEF ByRow, ByMarker, Slot, SignalBeats
    <2> QED BY <2>2, <2>3, <2>5 DEF RetractionInv, SiblingInv
  <1>13. MetaInv'
    <2>1. Sweeping
      BY <1>2 DEF Sweeping
    <2>2. \A u \in DOMAIN slotMeta : slotMeta[u] = NoRid => u # t
      BY <1>2, <2>1 DEF RetractionInv, MetaInv
    <2> QED BY <1>1, <1>2, <1>7, <2>1, <2>2, MetaKept
  <1>14. CallInv'
    <2>1. DOMAIN rows \subseteq DOMAIN rows'
      BY <1>1, StepAdvancesRows DEF RowAdvances
    <2> QED BY <1>2, <1>4, <1>5, <2>1 DEF RetractionInv, CallInv, OwnSlot, Slot
  <1>15. ApplyingInv'
    <2> SUFFICES ASSUME pc' = "meta" PROVE ApplyingInv'
      BY DEF ApplyingInv
    <2>1. inc'.kind = "edit" /\ inc'.rid # NoRid
      BY <1>3, <1>4, SignalFacts DEF NoRid
    <2>2. \A d \in Signals : d.rid = inc'.rid => inc' = Incoming(d)
      BY <1>2, <1>3, SameRid
    <2> QED BY <2>1, <2>2 DEF ApplyingInv, Incoming
  <1>16. ASSUME NEW z \in FinalSignals, pc' = "release", ByBuffer(z),
                pending[Slot(z)].sig.rid = inc'.rid
         PROVE  ByRow(z)' \/ ByMarker(z)'
    <2>1. /\ Slot(z) \in DOMAIN pending /\ pending[Slot(z)].sig \in FinalSignals
          /\ Slot(pending[Slot(z)].sig) = Slot(z) /\ pending[Slot(z)].sig.rev >= z.rev
      BY <1>1, <1>16, BufferedFinal DEF RetractionInv
    <2>2. pending[Slot(z)].sig = s
      BY <1>3, <1>16, <2>1, FinalFacts, SameRid
    <2>3. s.kind = "delete" /\ Slot(s) = Slot(z) /\ s.rev >= z.rev /\ Final(s)
      BY <2>1, <2>2, FinalFacts
    <2>4. markers' \in UpsertMarker(t, s)
      BY <1>4, <2>3
    <2>5. CASE Slot(z) = t
      <3>1. t \in DOMAIN markers' /\ markers'[t].rev >= s.rev
        BY <1>1, <1>3, <2>4, UpsertedMarker
      <3>2. TypeOK'
        BY <1>1, TypeStep
      <3>3. markers'[t].rev \in Nat /\ z.rev \in Nat /\ s.rev \in Nat
        BY <1>3, <3>1, <3>2, FinalFacts, SignalFacts DEF TypeOK, StoresType, MarkerType
      <3> QED BY <2>3, <2>5, <3>1, <3>3 DEF ByMarker, SignalBeats, MarkerSignal, Slot
    <2>6. CASE Slot(z) # t
      <3>1. \/ ByRow(s) \/ ByMarker(s)
            \/ /\ pending[Slot(z)].sig = s
               /\ pending[Slot(z)].at <= pending[t].at
        BY <1>2, <2>2, <2>3, <2>6 DEF RetractionInv, SiblingInv
      <3>2. CASE ByRow(s)
        <4>1. Reflects(Slot(z), s.rev)
          BY <1>3, <2>3, <3>2, DeleteByRow
        <4>2. Reflects(Slot(z), z.rev)
          BY <1>1, <1>3, <2>3, <4>1, FinalFacts, SignalFacts, ReflectsLower DEF TypeOK
        <4>3. ByRow(z)
          BY <4>2, FinalFacts, DeleteByRow
        <4> QED BY <1>8, <4>3
      <3>3. CASE ByMarker(s)
        <4>1. /\ Slot(z) \in DOMAIN markers /\ markers[Slot(z)].rev >= s.rev
              /\ markers[Slot(z)].rev \in Nat
          BY <1>1, <1>3, <2>3, <3>3, MarkedFinal DEF FinalSignals, TypeOK, StoresType, MarkerType
        <4>2. markers[Slot(z)].rev >= z.rev
          BY <1>3, <2>3, <4>1, FinalFacts, SignalFacts
        <4> QED BY <1>1, <1>8, <4>1, <4>2, MarkedFinal
      <3>4. CASE pending[Slot(z)].at <= pending[t].at
        <4> DEFINE q == Slot(z)
        <4>1. pending[q].at \in Int /\ pending[t].at \in Int /\ clock \in Int /\ TTL \in Int
          BY <1>1, <1>2, <2>1, ConstantsAssumption DEF TypeOK, StoresType, EntryType, EnvType
        <4>2. Expired(q)
          BY <1>2, <3>4, <4>1 DEF Expired
        <4>3. ThreadOf[q] = call.thread
          BY <1>2, <2>1, <2>3 DEF RetractionInv, StoresInv, InSweep
        <4>4. call.op = "resolve" => q # call.slot
          BY <1>2, <1>5, <2>1 DEF RetractionInv, CallInv
        <4>5. InSweep(q) /\ q \in Ids
          BY <1>1, <2>1, <4>3, <4>4 DEF InSweep, TypeOK, StoresType
        <4>6. q \notin known
          BY <1>2, <2>1, <4>5 DEF HealTargets
        <4>7. q \in ExpireTargets
          BY <2>1, <4>2, <4>5, <4>6 DEF ExpireTargets
        <4>8. SiblingBefore(q, t)
          BY <2>2, <2>3, <2>6, <3>4, <4>1 DEF SiblingBefore
        <4> QED BY <1>2, <4>7, <4>8
      <3> QED BY <3>1, <3>2, <3>3, <3>4
    <2> QED BY <2>5, <2>6
  <1>17. ExpiringInv'
    <2>1. pc' # "release" => inc'.kind = "edit" /\ (t \in DOMAIN markers' => markers'[t].rev < inc'.rev)
      <3>1. ASSUME t \in DOMAIN markers, ~Outranked(t, s)
            PROVE  markers[t].rev < s.rev
        BY <1>1, <1>3, <3>1, SignalFacts DEF Outranked, TypeOK, StoresType, MarkerType
      <3> QED BY <1>3, <1>4, <3>1
    <2>2. \A z \in FinalSignals :
             pc' = "release" /\ ByBuffer(z)' /\ pending'[Slot(z)].sig.rid = inc'.rid
             => ByRow(z)' \/ ByMarker(z)'
      BY <1>2, <1>8, <1>16
    <2> QED BY <1>2, <1>5, <2>1, <2>2
            DEF ExpiringInv, FinalSignals, Final, Slot, SignalBeats, Incoming
  <1>18. ResolvingInv' /\ InsertingInv' /\ FinishingInv'
    BY <1>4, <1>5 DEF ResolvingInv, InsertingInv, FinishingInv
  <1> QED BY <1>1, <1>10, <1>11, <1>12, <1>13, <1>14, <1>15, <1>17, <1>18, TypeStep DEF RetractionInv

-----------------------------------------------------------------------------
(* A signal that finds no row: the loop over the ids it targets. *)

LEMMA InsertKeeps ==
    ASSUME RetractionInv, Insert
    PROVE  RetractionInv'
  <1> DEFINE s == call.sig
             h == Head(todo)
  <1>1. [Next]_vars /\ TypeOK
    BY DEF Next, CallStep, RetractionInv
  <1>2. /\ pc = "insert" /\ clock \in Int /\ NextTarget /\ todo # <<>> /\ todo \in Seq(Ids)
        /\ s \in Signals /\ call.op = "apply"
        /\ UNCHANGED <<rows, markers, slotMeta, call, known, cur, inc, ret, accepted, clock>>
    BY <1>1 DEF Insert, env, TypeOK, EnvType, StepNeeds, CallTypeOK, CallType, NoCall
  <1>3. \/ /\ h \in DOMAIN pending /\ ~Collapses(h) /\ pending' = pending
        \/ /\ ~(h \in DOMAIN pending /\ ~Collapses(h))
           /\ DOMAIN pending' = DOMAIN pending \cup {h}
           /\ pending'[h] = [sig |-> s, at |-> clock]
           /\ \A u \in DOMAIN pending : u # h => pending'[u] = pending[u]
    BY DEF Insert, Put, Candidate
  <1>4. /\ Slot(s) \in Originals /\ Slot(s) = s.targets[1] /\ s.targets \in Seq(Ids)
        /\ s.targets # <<>> /\ s.rev \in Nat /\ s.rid \in Nat
    BY <1>2, SignalFacts
  <1>5. /\ \/ h = Slot(s) /\ todo = s.targets
           \/ h \notin Originals /\ s.kind = "delete" /\ ByBuffer(s)
        /\ ThreadOf[h] = ThreadOf[Slot(s)]
        /\ \A i \in DOMAIN Tail(todo) :
              /\ Tail(todo)[i] \notin Originals /\ s.kind = "delete"
              /\ ThreadOf[Tail(todo)[i]] = ThreadOf[Slot(s)]
    <2>1. /\ h = todo[1] /\ 1 \in DOMAIN todo
          /\ \A i \in DOMAIN Tail(todo) : i + 1 \in DOMAIN todo /\ i + 1 # 1 /\ Tail(todo)[i] = todo[i + 1]
      BY <1>2
    <2>2. CASE todo = s.targets
      BY <1>2, <1>4, <2>1, <2>2, AuthoredAssumption
    <2>3. CASE /\ ByBuffer(s)
               /\ \A i \in DOMAIN todo : /\ todo[i] \notin Originals
                                         /\ ThreadOf[todo[i]] = ThreadOf[Slot(s)]
                                         /\ s.kind = "delete"
      BY <2>1, <2>3
    <2> QED BY <1>2, <2>2, <2>3 DEF RetractionInv, InsertingInv
  <1>6. \A u \in DOMAIN pending :
           /\ u \in DOMAIN pending' /\ pending[u].sig \in Signals
           /\ \/ pending'[u] = pending[u]
              \/ /\ u = h /\ pending'[u] = [sig |-> s, at |-> clock]
                 /\ pending[u].sig # s /\ SignalBeats(s, pending[u].sig)
    BY <1>1, <1>3 DEF Collapses, TypeOK, StoresType, EntryType
  <1>7. ASSUME NEW z \in Signals, ByBuffer(z)
        PROVE  ByBuffer(z)'
    <2>1. /\ Slot(z) \in DOMAIN pending
          /\ pending[Slot(z)].sig = z \/ SignalBeats(pending[Slot(z)].sig, z)
      BY <1>7 DEF ByBuffer
    <2>2. /\ Slot(z) \in DOMAIN pending'
          /\ pending'[Slot(z)].sig = z \/ SignalBeats(pending'[Slot(z)].sig, z)
      BY <1>2, <1>6, <2>1, BeatsTransitive
    <2> QED BY <2>2 DEF ByBuffer, Slot, SignalBeats
  <1>8. ByBuffer(s)'
    <2>1. CASE h \notin Originals
      BY <1>2, <1>5, <1>7, <2>1, <1>4
    <2>2. CASE h = Slot(s)
      <3>1. /\ h \in DOMAIN pending'
            /\ pending'[h].sig = s \/ SignalBeats(pending'[h].sig, s)
        <4>1. CASE h \in DOMAIN pending /\ ~Collapses(h) /\ pending' = pending
          <5>1. pending[h].sig \in Signals
            BY <1>6, <4>1
          <5>2. pending[h].sig.rid = s.rid \/ ~SignalBeats(s, pending[h].sig)
            BY <4>1 DEF Collapses
          <5> QED BY <1>2, <4>1, <5>1, <5>2, SameRid, BeatsTotal
        <4> QED BY <1>3, <4>1
      <3>2. Slot(call.sig)' = h
        BY <1>2, <2>2 DEF Slot
      <3> QED BY <1>2, <3>1, <3>2 DEF ByBuffer, SignalBeats
    <2> QED BY <1>4, <1>5, <2>1, <2>2
  <1>9. StoresInv'
    <2>1. ASSUME NEW u \in DOMAIN pending'
          PROVE  /\ u \in Originals \/ pending'[u].sig.kind = "edit" => Slot(pending'[u].sig) = u
                 /\ ThreadOf[u] = ThreadOf[Slot(pending'[u].sig)]
                 /\ pending'[u].at <= clock
      <3>1. CASE u \in DOMAIN pending /\ pending'[u] = pending[u]
        BY <3>1 DEF RetractionInv, StoresInv
      <3>2. CASE u = h /\ pending'[u] = [sig |-> s, at |-> clock]
        BY <1>2, <1>5, <3>2
      <3> QED BY <1>3, <1>6, <3>1, <3>2
    <2> QED BY <1>2, <2>1 DEF RetractionInv, StoresInv, Slot
  <1>10. RetractionSticks'
    <2>1. ASSUME NEW z \in FinalSignals
          PROVE  Remembered(z) => Remembered(z)'
      <3>1. (ByRow(z)' <=> ByRow(z)) /\ (ByMarker(z)' <=> ByMarker(z))
        BY <1>2 DEF ByRow, ByMarker
      <3>2. ByBuffer(z) => ByBuffer(z)'
        BY <1>7, FinalFacts
      <3> QED BY <3>1, <3>2 DEF Remembered
    <2> QED BY <1>2, <2>1, AcceptedKept
  <1>11. SiblingInv'
    <2> SUFFICES ASSUME NEW u \in DOMAIN pending', u # Slot(pending'[u].sig), Final(pending'[u].sig)
                 PROVE  LET d == pending'[u].sig
                        IN  \/ ByRow(pending[u].sig)' \/ ByMarker(pending[u].sig)'
                            \/ /\ Slot(d) \in DOMAIN pending'
                               /\ IF pending'[Slot(d)].sig = d
                                  THEN pending'[Slot(d)].at <= pending'[u].at
                                  ELSE SignalBeats(pending'[Slot(d)].sig, d)
      BY DEF SiblingInv, Slot, Final, SignalBeats
    <2>1. PICK d : d = pending'[u].sig
      OBVIOUS
    <2>2. /\ d \in Signals /\ Final(d) /\ d \in FinalSignals /\ u # Slot(d)
      BY <1>1, <2>1, TypeStep DEF TypeOK, StoresType, EntryType, FinalSignals
    <2>3. /\ ByRow(d) => ByRow(pending[u].sig)'
          /\ ByMarker(d) => ByMarker(pending[u].sig)'
      BY <1>2, <2>1 DEF ByRow, ByMarker, Slot, SignalBeats, MarkerSignal
    <2>4. CASE u \in DOMAIN pending /\ pending'[u] = pending[u]
      <3>1. \/ ByRow(d) \/ ByMarker(d)
            \/ /\ Slot(d) \in DOMAIN pending
               /\ IF pending[Slot(d)].sig = d THEN pending[Slot(d)].at <= pending[u].at
                  ELSE SignalBeats(pending[Slot(d)].sig, d)
        BY <2>1, <2>2, <2>4 DEF RetractionInv, SiblingInv
      <3>2. CASE /\ Slot(d) \in DOMAIN pending
                 /\ IF pending[Slot(d)].sig = d THEN pending[Slot(d)].at <= pending[u].at
                    ELSE SignalBeats(pending[Slot(d)].sig, d)
        <4> DEFINE q == Slot(d)
        <4>1. CASE pending'[q] = pending[q]
          BY <1>6, <2>1, <2>4, <3>2, <4>1
        <4>2. CASE /\ q = h /\ pending'[q] = [sig |-> s, at |-> clock]
                   /\ pending[q].sig # s /\ SignalBeats(s, pending[q].sig)
          <5>1. pending[q].sig \in Signals /\ Slot(pending[q].sig) = q /\ Slot(s) = q
            BY <1>4, <1>5, <1>6, <2>2, <3>2, <4>2, FinalFacts DEF RetractionInv, StoresInv
          <5>2. SignalBeats(s, d)
            BY <1>2, <2>2, <3>2, <4>2, <5>1, BeatsTransitive
          <5>3. s # d
            <6>1. SUFFICES ASSUME s = d PROVE FALSE
              OBVIOUS
            <6>2. SignalBeats(pending[q].sig, d)
              BY <3>2, <4>2, <6>1
            <6>3. pending[q].sig.kind = "delete"
              BY <2>2, <5>1, <6>2, AtLeastFinal
            <6>4. pending[q].sig.rev = d.rev
              BY <2>2, <4>2, <5>1, <6>1, <6>2, SignalFacts DEF SignalBeats
            <6> QED BY <2>2, <4>2, <5>1, <6>1, <6>3, <6>4, RevisionAssumption, FinalFacts
          <5> QED BY <1>6, <2>1, <3>2, <4>2, <5>2, <5>3
        <4> QED BY <1>6, <3>2, <4>1, <4>2
      <3> QED BY <2>3, <3>1, <3>2
    <2>5. CASE u = h /\ pending'[u] = [sig |-> s, at |-> clock]
      <3>1. d = s /\ ByBuffer(s)
        BY <1>5, <2>1, <2>2, <2>5
      <3>2. /\ Slot(d) \in DOMAIN pending /\ Slot(d) # h
            /\ pending[Slot(d)].sig = d \/ SignalBeats(pending[Slot(d)].sig, d)
        BY <2>2, <2>5, <3>1 DEF ByBuffer
      <3>3. pending'[Slot(d)] = pending[Slot(d)] /\ Slot(d) \in DOMAIN pending'
        BY <1>6, <3>2
      <3>4. pending[Slot(d)].at <= clock
        BY <3>2 DEF RetractionInv, StoresInv
      <3> QED BY <2>1, <2>5, <3>2, <3>3, <3>4
    <2> QED BY <1>3, <1>6, <2>4, <2>5
  <1>12. MetaInv'
    BY <1>1, <1>2, MetaKept DEF Sweeping, OwnSlot, NextTarget
  <1>13. CallInv'
    BY <1>2 DEF RetractionInv, CallInv, OwnSlot, Slot, NextTarget
  <1>14. InsertingInv'
    <2>1. todo' = Tail(todo)
      BY <1>2 DEF NextTarget
    <2> QED BY <1>2, <1>5, <1>8, <2>1 DEF InsertingInv, Slot
  <1>15. FinishingInv'
    BY <1>8 DEF FinishingInv, Remembered
  <1>16. ApplyingInv' /\ ResolvingInv' /\ ExpiringInv'
    BY <1>2 DEF NextTarget, ApplyingInv, ResolvingInv, ExpiringInv
  <1> QED BY <1>1, <1>9, <1>10, <1>11, <1>12, <1>13, <1>14, <1>15, <1>16, TypeStep DEF RetractionInv

-----------------------------------------------------------------------------
LEMMA RetractionInit == Init => RetractionInv
  <1> SUFFICES ASSUME Init PROVE RetractionInv
    OBVIOUS
  <1>1. TypeOK
    BY TypeInit
  <1>2. StoresInv /\ MetaInv /\ SiblingInv /\ RetractionSticks
    BY DEF Init, Empty, StoresInv, MetaInv, SiblingInv, RetractionSticks
  <1>3. CallInv /\ ApplyingInv /\ ResolvingInv /\ ExpiringInv /\ InsertingInv /\ FinishingInv
    BY DEF Init, NoCall, CallInv, ApplyingInv, ResolvingInv, ExpiringInv, InsertingInv, FinishingInv
  <1> QED BY <1>1, <1>2, <1>3 DEF RetractionInv

LEMMA RetractionStep == RetractionInv /\ [Next]_vars => RetractionInv'
  <1> SUFFICES ASSUME RetractionInv, [Next]_vars PROVE RetractionInv'
    OBVIOUS
  <1>1. CASE UNCHANGED vars
    <2>1. /\ clock \in Int /\ clock' = clock /\ UNCHANGED regs
          /\ UNCHANGED <<rows, pending, markers, slotMeta, known, accepted>>
      BY <1>1 DEF vars, regs, RetractionInv, TypeOK, EnvType
    <2>2. StoresInv' /\ SiblingInv' /\ RetractionSticks'
      BY <2>1, RowsKept, StoresKept
    <2>3. MetaInv'
      BY <2>1, MetaKept DEF Sweeping, OwnSlot, regs
    <2> QED BY <2>1, <2>2, <2>3, CallUndisturbed, TypeStep DEF RetractionInv
  <1>2. CASE Next
    <2>1. ~AtCap /\ pc # "evict" /\ pc # "swap"
      BY NoPressure DEF RetractionInv, CallInv
    <2>2. /\ \A v \in Ids : ~EvictBare(v) /\ ~EvictExpired(v)
          /\ ~PersistEvicted /\ ~Swap
      BY <2>1 DEF EvictBare, EvictExpired, PersistEvicted, Swap
    <2> QED
      BY <1>2, <2>2, WriteSlotMetaKeeps, UnbufferKeeps, UnmarkKeeps, HealKeeps, ExpireKeeps,
         SupersedeKeeps, ReleaseKeeps, EndSweepKeeps, ApplyToKnownSlotKeeps, BufferSignalKeeps,
         InsertKeeps, DoneKeeps, StartApplyKeeps, AppendOriginalKeeps, StartResolveKeeps,
         OpenThreadKeeps, TickKeeps, CrashKeeps
      DEF Next, CallStep
  <1> QED BY <1>1, <1>2

(* The invariant behind it, in every reachable state. *)
THEOREM RetractionInvariant == Spec => []RetractionInv
  BY RetractionInit, RetractionStep, PTL DEF Spec

(* A delete that no edit outranks, once taken in, is shown by its row, kept   *)
(* in the buffer or held by a marker for ever: through expiry, re-delivery,  *)
(* appends at any moment and crashes between any two commits.                *)
THEOREM RetractionIsKept == Spec => []RetractionSticks
  BY RetractionInvariant, PTL DEF RetractionInv

-----------------------------------------------------------------------------
(* What the device holds of a message is one register: the outcomes and their *)
(* order.                                                                      *)

Outcomes == {a \in [rev : Nat, del : BOOLEAN, rid : Nat] : a.del => a.rid = NoRid}

Sent(s) == Register!OutcomeOf(s)

LEMMA OutcomeOrder ==
    /\ NoOutcome \in Outcomes
    /\ \A a \in Outcomes : AtLeast(a, NoOutcome)
    /\ \A a, b \in Outcomes : /\ AtLeast(a, b) \/ AtLeast(b, a)
                              /\ AtLeast(a, b) /\ AtLeast(b, a) => a = b
                              /\ AtLeast(a, b) /\ a # b => Register!Above(a, b)
    /\ \A a, b, c \in Outcomes : AtLeast(a, b) /\ AtLeast(b, c) => AtLeast(a, c)
<1>1. NoOutcome \in Outcomes
  BY DEF NoOutcome, Outcomes
<1>2. \A a \in Outcomes : AtLeast(a, NoOutcome)
  BY DEF NoOutcome, Outcomes, AtLeast
<1>3. \A a, b \in Outcomes : /\ AtLeast(a, b) \/ AtLeast(b, a)
                             /\ AtLeast(a, b) /\ a # b => Register!Above(a, b)
  BY DEF Outcomes, AtLeast, Register!Above, NoRid
<1>4. ASSUME NEW a \in Outcomes, NEW b \in Outcomes, AtLeast(a, b), AtLeast(b, a) PROVE a = b
  <2>1. a = b \/ (a.rev = b.rev /\ a.del = b.del /\ a.rid = b.rid)
    BY <1>4 DEF Outcomes, AtLeast, NoRid
  <2> QED
    BY <2>1 DEF Outcomes
<1>5. \A a, b, c \in Outcomes : AtLeast(a, b) /\ AtLeast(b, c) => AtLeast(a, c)
  BY DEF Outcomes, AtLeast, NoRid
<1> QED
  BY <1>1, <1>2, <1>3, <1>4, <1>5

LEMMA SentOutcome ==
    ASSUME NEW s \in Signals
    PROVE  /\ Sent(s) \in Outcomes /\ Sent(s).rev = s.rev /\ Sent(s).del = (s.kind = "delete")
           /\ Sent(s).rid = IF s.kind = "delete" THEN NoRid ELSE s.rid
           /\ ~ AtLeast(NoOutcome, Sent(s))
<1>1. s.rev \in Nat \ {0} /\ s.rid \in Nat
  BY SignalFacts
<1>2. Sent(s) = [rev |-> s.rev, del |-> s.kind = "delete",
                 rid |-> IF s.kind = "delete" THEN 0 ELSE s.rid]
  BY DEF Sent, Register!OutcomeOf
<1>3. /\ Sent(s).rev = s.rev /\ Sent(s).del = (s.kind = "delete")
      /\ Sent(s).rid = IF s.kind = "delete" THEN NoRid ELSE s.rid
  BY <1>2 DEF NoRid
<1>4. Sent(s) \in Outcomes
  <2>1. CASE s.kind = "delete"
    <3>1. Sent(s) = [rev |-> s.rev, del |-> TRUE, rid |-> 0]
      BY <1>2, <2>1
    <3> QED
      BY <1>1, <3>1 DEF Outcomes, NoRid
  <2>2. CASE s.kind # "delete"
    <3>1. Sent(s) = [rev |-> s.rev, del |-> FALSE, rid |-> s.rid]
      BY <1>2, <2>2
    <3> QED
      BY <1>1, <3>1 DEF Outcomes, NoRid
  <2> QED
    BY <2>1, <2>2
<1>5. ~ AtLeast(NoOutcome, Sent(s))
  BY <1>1, <1>3 DEF NoOutcome, AtLeast
<1> QED
  BY <1>3, <1>4, <1>5

Stronger(r, b) == Strongest({r, b, NoOutcome})

LEMMA StrongestOf ==
    ASSUME NEW r \in Outcomes, NEW b \in Outcomes
    PROVE  Stronger(r, b) = IF AtLeast(r, b) THEN r ELSE b
<1>1. PICK x \in {r, b} : x = IF AtLeast(r, b) THEN r ELSE b
  OBVIOUS
<1>2. PICK P : P = {a \in {r, b, NoOutcome} : \A c \in {r, b, NoOutcome} : AtLeast(a, c)}
  OBVIOUS
<1>3. x \in P
  BY <1>1, <1>2, OutcomeOrder
<1>4. \A a \in P : a = x
  BY <1>1, <1>2, <1>3, OutcomeOrder
<1>5. \A a \in {r, b, NoOutcome} : (\A c \in {r, b, NoOutcome} : AtLeast(a, c)) <=> a = x
  BY <1>2, <1>3, <1>4
<1>6. Strongest({r, b, NoOutcome}) = x
  BY <1>3, <1>2, <1>5 DEF Strongest
<1> QED
  BY <1>1, <1>6 DEF Stronger

(* One of the two is replaced by something no weaker. *)
LEMMA Raised ==
    ASSUME NEW r \in Outcomes, NEW b \in Outcomes, NEW a \in Outcomes
    PROVE  /\ AtLeast(a, r) =>
                 \/ Stronger(a, b) = Stronger(r, b)
                 \/ /\ AtLeast(a, Stronger(r, b))
                    /\ Stronger(a, b) = a
           /\ AtLeast(a, b) =>
                 \/ Stronger(r, a) = Stronger(r, b)
                 \/ /\ AtLeast(a, Stronger(r, b))
                    /\ Stronger(r, a) = a
           /\ AtLeast(r, b) => Stronger(r, NoOutcome) = Stronger(r, b)
BY StrongestOf, OutcomeOrder

-----------------------------------------------------------------------------
(* When nothing expires, signals prevail. *)

(* Nothing buffered is past its TTL. *)
NothingExpires == \A t \in DOMAIN pending : ~Expired(t)

(* No two edits of one message have the same revision. *)
NoTies ==
    \A e, f \in Signals :
        e.kind = "edit" /\ f.kind = "edit" /\ Slot(e) = Slot(f) /\ e.rev = f.rev => e = f

(* A row shows the original as it was appended, or one signal of its author.   *)
ShownInv ==
    \A t \in DOMAIN rows :
        \/ rows[t].rev = 0 /\ ~rows[t].tomb /\ rows[t].content = Original
        \/ \E s \in Signals : Slot(s) = t /\ ShowsOutcomeOf(rows[t], s)

(* A recorded rumor id is that of a signal the row has taken. *)
RecordedInv ==
    \A t \in DOMAIN slotMeta :
        \E s \in Signals : s.rid = slotMeta[t] /\ Slot(s) = t /\ ByRow(s)

(* Where edits tie, the recorded rumor id is that of the edit shown. *)
TieInv ==
    NoTies \/ \A t \in DOMAIN rows :
        rows[t].rev > 0 /\ ~rows[t].tomb /\ ~(pc = "meta" /\ cur = t) =>
            t \in DOMAIN slotMeta /\ slotMeta[t] = rows[t].content

(* The steps of a call when nothing is expired. *)
UnexpiredInv ==
    /\ DOMAIN markers = {}
    /\ pc \notin {"supersede", "release"} /\ ret # "supersede"

WritingInv ==
    pc = "meta" =>
        /\ cur \in DOMAIN rows
        /\ \E s \in Signals : inc = Incoming(s) /\ Slot(s) = cur /\ ShowsOutcomeOf(rows[cur], s)

ResolvedInv ==
    pc = "unbuffer" \/ (pc = "meta" /\ ret = "unbuffer") =>
        /\ cur \in DOMAIN rows
        /\ cur \in DOMAIN pending => ByRow(pending[cur].sig)

TakenInv ==
    \A s \in Signals :
        \/ s \in accepted
        \/ (pc = "done" \/ (pc = "meta" /\ ret = "done")) /\ s = call.sig
        => AtLeast(Best(Slot(s)), Sent(s))

PrevailInv ==
    /\ ShownInv /\ RecordedInv /\ TieInv /\ UnexpiredInv
    /\ WritingInv /\ ResolvedInv /\ TakenInv

LEMMA StoredOutcomes ==
    ASSUME StoresType, NEW t \in Originals
    PROVE  RowOutcome(t) \in Outcomes /\ BufferOutcome(t) \in Outcomes
<1>1. RowOutcome(t) \in Outcomes
  <2>1. CASE t \in DOMAIN rows
    <3>1. rows[t].rev \in Nat /\ rows[t].tomb \in BOOLEAN /\ rows[t].content \in Nat
      BY <2>1 DEF StoresType, RowType
    <3> QED
      BY <2>1, <3>1 DEF RowOutcome, Outcomes, NoRid
  <2> QED
    BY <2>1, OutcomeOrder DEF RowOutcome
<1>2. BufferOutcome(t) \in Outcomes
  <2>1. CASE t \in DOMAIN pending
    <3>1. pending[t].sig \in Signals
      BY <2>1 DEF StoresType, EntryType
    <3>2. pending[t].sig.rev \in Nat /\ pending[t].sig.rid \in Nat
      BY <3>1, SignalFacts
    <3> QED
      BY <2>1, <3>2, OutcomeOrder DEF BufferOutcome, Outcomes, NoRid
  <2> QED
    BY <2>1, OutcomeOrder DEF BufferOutcome
<1> QED
  BY <1>1, <1>2

LEMMA StoredOutcomesNext ==
    ASSUME StoresType', NEW t \in Originals
    PROVE  RowOutcome(t)' \in Outcomes /\ BufferOutcome(t)' \in Outcomes
<1>1. RowOutcome(t)' \in Outcomes
  <2>1. CASE t \in DOMAIN rows'
    <3>1. rows'[t].rev \in Nat /\ rows'[t].tomb \in BOOLEAN /\ rows'[t].content \in Nat
      BY <2>1 DEF StoresType, RowType
    <3> QED
      BY <2>1, <3>1 DEF RowOutcome, Outcomes, NoRid
  <2> QED
    BY <2>1, OutcomeOrder DEF RowOutcome
<1>2. BufferOutcome(t)' \in Outcomes
  <2>1. CASE t \in DOMAIN pending'
    <3>1. pending'[t].sig \in Signals
      BY <2>1 DEF StoresType, EntryType
    <3>2. pending'[t].sig.rev \in Nat /\ pending'[t].sig.rid \in Nat
      BY <3>1, SignalFacts
    <3> QED
      BY <2>1, <3>2, OutcomeOrder DEF BufferOutcome, Outcomes, NoRid
  <2> QED
    BY <2>1, OutcomeOrder DEF BufferOutcome
<1> QED
  BY <1>1, <1>2

(* A buffered signal of a message is its author's. *)
LEMMA BufferedOutcome ==
    ASSUME RetractionInv, NEW t \in Originals
    PROVE  BufferOutcome(t) = IF t \in DOMAIN pending THEN Sent(pending[t].sig) ELSE NoOutcome
<1>1. ASSUME t \in DOMAIN pending
      PROVE  pending[t].sig \in Signals /\ Slot(pending[t].sig) = t
             /\ pending[t].sig.author = AuthorOf[t]
  BY <1>1, SignalFacts DEF RetractionInv, StoresInv, TypeOK, StoresType, EntryType
<1> QED
  BY <1>1 DEF BufferOutcome, Sent, Register!OutcomeOf, NoRid

LEMMA BestOf ==
    ASSUME StoresType, DOMAIN markers = {}, NEW t \in Originals
    PROVE  /\ Best(t) = Stronger(RowOutcome(t), BufferOutcome(t))
           /\ Best(t) \in Outcomes /\ AtLeast(Best(t), RowOutcome(t))
           /\ AtLeast(Best(t), BufferOutcome(t)) /\ Best(t) \in {RowOutcome(t), BufferOutcome(t)}
<1>1. RowOutcome(t) \in Outcomes /\ BufferOutcome(t) \in Outcomes
  BY StoredOutcomes, SignalFacts
<1>2. MarkerOutcome(t) = NoOutcome
  BY DEF MarkerOutcome
<1>3. Best(t) = Stronger(RowOutcome(t), BufferOutcome(t))
  BY <1>2 DEF Best, Stronger
<1> QED
  BY <1>1, <1>3, StrongestOf, OutcomeOrder

(* What a row shows, as an outcome. *)
LEMMA ShownOutcome ==
    ASSUME NEW s \in Signals, NEW row \in RowType
    PROVE  /\ ShowsOutcomeOf(row, s) <=>
                 [rev |-> row.rev, del |-> row.tomb, rid |-> IF row.tomb THEN NoRid ELSE row.content]
                     = Sent(s)
           /\ AtLeast([rev |-> row.rev, del |-> row.tomb,
                       rid |-> IF row.tomb THEN NoRid ELSE row.content], Sent(s))
              <=> \/ row.rev > s.rev
                  \/ row.rev = s.rev /\ (row.tomb \/ (s.kind = "edit" /\ row.content >= s.rid))
<1>1. /\ s.kind \in {"delete", "edit"} /\ s.rev \in Nat /\ s.rid \in Nat
      /\ row.rev \in Nat /\ row.tomb \in BOOLEAN /\ row.content \in Nat
  BY SignalFacts DEF RowType
<1>2. PICK a : a = [rev |-> row.rev, del |-> row.tomb, rid |-> IF row.tomb THEN NoRid ELSE row.content]
  OBVIOUS
<1>3. /\ a.rev = row.rev /\ a.del = row.tomb /\ a.rid = IF row.tomb THEN NoRid ELSE row.content
      /\ a \in Outcomes
  BY <1>1, <1>2 DEF Outcomes, NoRid
<1>4. PICK b \in Outcomes : /\ b = Sent(s) /\ b.rev = s.rev /\ b.del = (s.kind = "delete")
                            /\ b.rid = IF s.kind = "delete" THEN NoRid ELSE s.rid
  BY SentOutcome
<1>5. a = b <=> a.rev = b.rev /\ a.del = b.del /\ a.rid = b.rid
  BY <1>3, <1>4 DEF Outcomes
<1>6. ShowsOutcomeOf(row, s) <=> a = b
  BY <1>1, <1>3, <1>4, <1>5 DEF ShowsOutcomeOf
<1>7. AtLeast(a, b) <=> \/ row.rev > s.rev
                        \/ row.rev = s.rev /\ (row.tomb \/ (s.kind = "edit" /\ row.content >= s.rid))
  <2>1. CASE a.rev # b.rev
    BY <1>1, <1>3, <1>4, <2>1 DEF AtLeast
  <2>2. CASE a.rev = b.rev /\ a.del
    BY <1>1, <1>3, <1>4, <2>2 DEF AtLeast
  <2>3. CASE a.rev = b.rev /\ ~a.del /\ s.kind = "delete"
    <3>1. b.del /\ ~row.tomb
      BY <1>3, <1>4, <2>3
    <3> QED
      BY <1>1, <1>3, <1>4, <2>3, <3>1 DEF AtLeast
  <2>4. CASE a.rev = b.rev /\ ~a.del /\ s.kind = "edit"
    <3>1. ~b.del /\ ~row.tomb /\ a.rid = row.content /\ b.rid = s.rid
      BY <1>3, <1>4, <2>4
    <3>2. AtLeast(a, b) <=> a.rid >= b.rid
      BY <1>1, <1>3, <2>4, <3>1 DEF AtLeast
    <3> QED
      BY <1>1, <1>3, <1>4, <2>4, <3>1, <3>2
  <2> QED
    BY <1>1, <1>3, <2>1, <2>2, <2>3, <2>4
<1> QED
  BY <1>2, <1>4, <1>6, <1>7

(* The row has taken a signal, or the device has, as outcomes. *)
LEMMA TakenOutcome ==
    ASSUME NEW s \in Signals
    PROVE  /\ StoresType => (ByRow(s) <=> AtLeast(RowOutcome(Slot(s)), Sent(s)))
           /\ StoresType' => (ByRow(s)' <=> AtLeast(RowOutcome(Slot(s))', Sent(s)))
<1>1. Slot(s) \in Originals
  BY SignalFacts
<1>2. ASSUME StoresType PROVE ByRow(s) <=> AtLeast(RowOutcome(Slot(s)), Sent(s))
  <2>1. CASE Slot(s) \in DOMAIN rows
    <3>1. rows[Slot(s)] \in RowType
      BY <1>2, <2>1 DEF StoresType
    <3> QED
      BY <2>1, <3>1, ShownOutcome DEF ByRow, RowOutcome
  <2> QED
    BY <2>1, SentOutcome DEF ByRow, RowOutcome
<1>3. ASSUME StoresType' PROVE ByRow(s)' <=> AtLeast(RowOutcome(Slot(s))', Sent(s))
  <2>1. CASE Slot(s) \in DOMAIN rows'
    <3>1. rows'[Slot(s)] \in RowType
      BY <1>3, <2>1 DEF StoresType
    <3> QED
      BY <2>1, <3>1, ShownOutcome DEF ByRow, RowOutcome
  <2> QED
    BY <2>1, SentOutcome DEF ByRow, RowOutcome
<1> QED
  BY <1>2, <1>3

(* Of two signals the one that beats the other is no weaker an outcome. *)
LEMMA BeatsOutcome ==
    ASSUME NEW p \in Signals, NEW s \in Signals
    PROVE  p = s \/ SignalBeats(p, s) <=> AtLeast(Sent(p), Sent(s))
<1>1. /\ p.kind \in {"delete", "edit"} /\ p.rev \in Nat /\ p.rid \in Nat
      /\ s.kind \in {"delete", "edit"} /\ s.rev \in Nat /\ s.rid \in Nat
  BY SignalFacts
<1>2. PICK a \in Outcomes : /\ a = Sent(p) /\ a.rev = p.rev /\ a.del = (p.kind = "delete")
                            /\ a.rid = IF p.kind = "delete" THEN NoRid ELSE p.rid
  BY SentOutcome
<1>3. PICK b \in Outcomes : /\ b = Sent(s) /\ b.rev = s.rev /\ b.del = (s.kind = "delete")
                            /\ b.rid = IF s.kind = "delete" THEN NoRid ELSE s.rid
  BY SentOutcome
<1>5. p.rid = s.rid => p = s
  BY SameRid
<1>6. CASE p.kind = "delete"
  <2>1. a.del
    BY <1>2, <1>6
  <2>2. AtLeast(a, b) <=> a.rev >= b.rev
    BY <1>1, <1>2, <1>3, <2>1 DEF AtLeast
  <2>3. SignalBeats(p, s) <=> p.rev >= s.rev
    BY <1>1, <1>6 DEF SignalBeats
  <2> QED
    BY <1>1, <1>2, <1>3, <2>2, <2>3
<1>7. CASE p.kind = "edit" /\ s.kind = "delete"
  <2>1. ~a.del /\ b.del
    BY <1>2, <1>3, <1>7
  <2>2. AtLeast(a, b) <=> a.rev > b.rev
    BY <1>1, <1>2, <1>3, <2>1 DEF AtLeast
  <2>3. SignalBeats(p, s) <=> p.rev > s.rev
    BY <1>1, <1>7 DEF SignalBeats
  <2> QED
    BY <1>1, <1>2, <1>3, <1>7, <2>2, <2>3
<1>8. CASE p.kind = "edit" /\ s.kind = "edit"
  <2>1. ~a.del /\ ~b.del /\ a.rid = p.rid /\ b.rid = s.rid
    BY <1>2, <1>3, <1>8
  <2>2. AtLeast(a, b) <=> a.rev > b.rev \/ (a.rev = b.rev /\ a.rid >= b.rid)
    BY <1>1, <1>2, <1>3, <2>1 DEF AtLeast
  <2>3. SignalBeats(p, s) <=> p.rev > s.rev \/ (p.rev = s.rev /\ p.rid > s.rid)
    BY <1>1, <1>8 DEF SignalBeats
  <2> QED
    BY <1>1, <1>2, <1>3, <1>5, <2>1, <2>2, <2>3
<1> QED
  BY <1>1, <1>2, <1>3, <1>6, <1>7, <1>8

LEMMA PrevailTypes ==
    ASSUME RetractionInv
    PROVE  /\ TypeOK /\ StoresType /\ \A t \in DOMAIN rows : rows[t] \in RowType /\ t \in Originals
           /\ \A t \in DOMAIN rows : rows[t].author = AuthorOf[t]
           /\ \A t \in DOMAIN pending : pending[t].sig \in Signals
           /\ \A t \in DOMAIN pending \cap Originals : Slot(pending[t].sig) = t
BY SignalFacts DEF RetractionInv, StoresInv, TypeOK, StoresType, EntryType

(* applyToKnownSlotCore decides as the order of outcomes does: what it turns   *)
(* down is in the row already, and what it applies is no weaker than the row.  *)
LEMMA Decided ==
    ASSUME RetractionInv, PrevailInv, pc # "meta", NEW s \in Signals, Slot(s) \in DOMAIN rows
    PROVE  /\ ~WinsAt(Slot(s), Incoming(s)) => ByRow(s)
           /\ WinsAt(Slot(s), Incoming(s)) => AtLeast(Sent(s), RowOutcome(Slot(s)))
<1>1. PICK t : t = Slot(s)
  OBVIOUS
<1>2. PICK row \in RowType : row = rows[t]
  BY <1>1, PrevailTypes
<1>3. PICK i : /\ i = Incoming(s) /\ i.kind = s.kind /\ i.rev = s.rev /\ i.rid = s.rid
  BY SignalFacts
<1>4. /\ s.kind \in {"delete", "edit"} /\ s.rev \in Nat \ {0} /\ s.rid \in Nat \ {0}
      /\ row.rev \in Nat /\ row.tomb \in BOOLEAN /\ row.content \in Nat
  BY <1>2, SignalFacts DEF RowType
<1>5. /\ WinsAt(t, i) <=> /\ s.rid # LastRid(t)
                          /\ \/ s.rev > row.rev
                             \/ s.rev = row.rev /\ (s.kind = "delete" \/ (~row.tomb /\ s.rid > LastRid(t)))
      /\ ByRow(s) <=> \/ row.rev > s.rev
                      \/ row.rev = s.rev /\ (row.tomb \/ (s.kind = "edit" /\ row.content >= s.rid))
  BY <1>1, <1>2, <1>3 DEF WinsAt, ByRow
<1>6. PICK a : /\ a = RowOutcome(t) /\ a.rev = row.rev /\ a.del = row.tomb
               /\ a.rid = IF row.tomb THEN NoRid ELSE row.content
  <2>1. RowOutcome(t) = [rev |-> row.rev, del |-> row.tomb,
                         rid |-> IF row.tomb THEN NoRid ELSE row.content]
    BY <1>1, <1>2 DEF RowOutcome
  <2> QED
    BY <2>1
<1>7. PICK b : /\ b = Sent(s) /\ b.rev = s.rev /\ b.del = (s.kind = "delete")
               /\ b.rid = IF s.kind = "delete" THEN NoRid ELSE s.rid
  BY SentOutcome
<1>8. CASE s.rid = LastRid(t)
  <2>1. t \in DOMAIN slotMeta /\ slotMeta[t] = s.rid
    BY <1>4, <1>8 DEF LastRid, NoMeta
  <2>2. ByRow(s)
    BY <2>1, SameRid DEF PrevailInv, RecordedInv
  <2> QED
    BY <1>1, <1>3, <1>5, <1>8, <2>2
<1>9. CASE s.rid # LastRid(t) /\ row.rev # s.rev
  BY <1>1, <1>3, <1>4, <1>5, <1>6, <1>7, <1>9 DEF AtLeast
<1>10. CASE s.rid # LastRid(t) /\ row.rev = s.rev /\ s.kind = "delete"
  <2>1. b.del /\ AtLeast(b, a)
    BY <1>6, <1>7, <1>10 DEF AtLeast
  <2>2. WinsAt(t, i)
    BY <1>5, <1>10
  <2> QED
    BY <1>1, <1>3, <1>6, <1>7, <2>1, <2>2
<1>11. CASE s.rid # LastRid(t) /\ row.rev = s.rev /\ s.kind = "edit" /\ row.tomb
  BY <1>1, <1>3, <1>4, <1>5, <1>11
<1>12. CASE s.rid # LastRid(t) /\ row.rev = s.rev /\ s.kind = "edit" /\ ~row.tomb
  <2>1. PICK e \in Signals : Slot(e) = t /\ ShowsOutcomeOf(row, e)
    BY <1>1, <1>2, <1>4, <1>12 DEF PrevailInv, ShownInv
  <2>2. e.rev = s.rev /\ e.kind = "edit" /\ row.content = e.rid
    BY <1>4, <1>12, <2>1, SignalFacts DEF ShowsOutcomeOf
  <2>3. NoTies => row.content = s.rid
    BY <1>1, <1>12, <2>1, <2>2 DEF NoTies
  <2>4. ~NoTies => LastRid(t) = row.content
    BY <1>1, <1>2, <1>4, <1>12 DEF PrevailInv, TieInv, LastRid
  <2>5. ~WinsAt(t, i) => ByRow(s)
    BY <1>4, <1>5, <1>12, <2>3, <2>4
  <2>6. WinsAt(t, i) => row.content <= s.rid
    BY <1>4, <1>5, <1>12, <2>3, <2>4
  <2>7. /\ ~a.del /\ ~b.del /\ a.rid = row.content /\ b.rid = s.rid /\ a.rev = b.rev
    BY <1>6, <1>7, <1>12
  <2>8. WinsAt(t, i) => AtLeast(b, a)
    BY <1>4, <2>6, <2>7 DEF AtLeast
  <2> QED
    BY <1>1, <1>3, <1>6, <1>7, <2>5, <2>8
<1> QED
  BY <1>4, <1>8, <1>9, <1>10, <1>11, <1>12

-----------------------------------------------------------------------------
(* The steps of the register. *)

BestStep ==
    \/ \A t \in Originals : Best(t)' = Best(t)
    \/ \E s \in Signals :
          /\ \A t \in Originals \ {Slot(s)} : Best(t)' = Best(t)
          /\ AtLeast(Sent(s), Best(Slot(s))) /\ Best(Slot(s))' = Sent(s)

LEMMA BestKept ==
    ASSUME StoresType, StoresType', DOMAIN markers = {}, DOMAIN markers' = {}, NEW t \in Originals
    PROVE  /\ RowOutcome(t)' = RowOutcome(t) /\ BufferOutcome(t)' = BufferOutcome(t) =>
                 Best(t)' = Best(t)
           /\ RowOutcome(t)' = RowOutcome(t) /\ BufferOutcome(t)' = NoOutcome
              /\ AtLeast(RowOutcome(t), BufferOutcome(t)) => Best(t)' = Best(t)
           /\ \A s \in Signals :
                 \/ /\ RowOutcome(t)' = Sent(s) /\ AtLeast(Sent(s), RowOutcome(t))
                    /\ BufferOutcome(t)' = BufferOutcome(t)
                 \/ /\ BufferOutcome(t)' = Sent(s) /\ AtLeast(Sent(s), BufferOutcome(t))
                    /\ RowOutcome(t)' = RowOutcome(t)
                 => \/ Best(t)' = Best(t)
                    \/ AtLeast(Sent(s), Best(t)) /\ Best(t)' = Sent(s)
<1>1. MarkerOutcome(t) = NoOutcome /\ MarkerOutcome(t)' = NoOutcome
  BY DEF MarkerOutcome
<1>2. /\ Best(t) = Stronger(RowOutcome(t), BufferOutcome(t))
      /\ Best(t)' = Stronger(RowOutcome(t)', BufferOutcome(t)')
  BY <1>1 DEF Best, Stronger
<1>3. RowOutcome(t) \in Outcomes /\ BufferOutcome(t) \in Outcomes
  BY StoredOutcomes, SignalFacts
<1>4. PICK r \in Outcomes, b \in Outcomes : r = RowOutcome(t) /\ b = BufferOutcome(t)
  BY <1>3
<1>5. ASSUME RowOutcome(t)' = r, BufferOutcome(t)' = NoOutcome, AtLeast(r, b)
      PROVE  Best(t)' = Best(t)
  BY <1>2, <1>4, <1>5, Raised
<1>6. ASSUME NEW s \in Signals, RowOutcome(t)' = Sent(s), AtLeast(Sent(s), r), BufferOutcome(t)' = b
      PROVE  Best(t)' = Best(t) \/ (AtLeast(Sent(s), Best(t)) /\ Best(t)' = Sent(s))
  <2>1. PICK a \in Outcomes : a = Sent(s)
    BY SentOutcome
  <2>2. Best(t) = Stronger(r, b) /\ Best(t)' = Stronger(a, b)
    BY <1>2, <1>4, <1>6, <2>1
  <2>3. \/ Stronger(a, b) = Stronger(r, b)
        \/ /\ AtLeast(a, Stronger(r, b))
           /\ Stronger(a, b) = a
    BY <1>6, <2>1, Raised
  <2> QED
    BY <2>1, <2>2, <2>3
<1>7. ASSUME NEW s \in Signals, BufferOutcome(t)' = Sent(s), AtLeast(Sent(s), b), RowOutcome(t)' = r
      PROVE  Best(t)' = Best(t) \/ (AtLeast(Sent(s), Best(t)) /\ Best(t)' = Sent(s))
  <2>1. PICK a \in Outcomes : a = Sent(s)
    BY SentOutcome
  <2>2. Best(t) = Stronger(r, b) /\ Best(t)' = Stronger(r, a)
    BY <1>2, <1>4, <1>7, <2>1
  <2>3. \/ Stronger(r, a) = Stronger(r, b)
        \/ /\ AtLeast(a, Stronger(r, b))
           /\ Stronger(r, a) = a
    BY <1>7, <2>1, Raised
  <2> QED
    BY <2>1, <2>2, <2>3
<1> QED
  BY <1>2, <1>4, <1>5, <1>6, <1>7

LEMMA BestRises ==
    ASSUME RetractionInv, RetractionInv', DOMAIN markers = {}, DOMAIN markers' = {}, BestStep
    PROVE  /\ \A s \in Signals : AtLeast(Best(Slot(s)), Sent(s)) => AtLeast(Best(Slot(s))', Sent(s))
           /\ [Register!Next]_[t \in Originals |-> Best(t)]
<1>1. \A t \in Originals : Best(t) \in Outcomes
  BY PrevailTypes, BestOf
<1>2. \A s \in Signals : Slot(s) \in Originals /\ Sent(s) \in Outcomes
  BY SignalFacts, SentOutcome
<1>3. CASE \A t \in Originals : Best(t)' = Best(t)
  BY <1>2, <1>3
<1>4. ASSUME NEW s \in Signals, \A t \in Originals \ {Slot(s)} : Best(t)' = Best(t),
             AtLeast(Sent(s), Best(Slot(s))), Best(Slot(s))' = Sent(s)
      PROVE  /\ \A o \in Signals : AtLeast(Best(Slot(o)), Sent(o)) => AtLeast(Best(Slot(o))', Sent(o))
             /\ [Register!Next]_[t \in Originals |-> Best(t)]
  <2>1. ASSUME NEW o \in Signals, AtLeast(Best(Slot(o)), Sent(o))
        PROVE  AtLeast(Best(Slot(o))', Sent(o))
    BY <1>1, <1>2, <1>4, <2>1, OutcomeOrder
  <2>2. [t \in Originals |-> Best(t)]' = [[t \in Originals |-> Best(t)] EXCEPT ![Slot(s)] = Sent(s)]
    BY <1>2, <1>4
  <2>3. CASE Best(Slot(s)) = Sent(s)
    BY <1>2, <1>4, <2>2, <2>3
  <2>4. CASE Best(Slot(s)) # Sent(s)
    <3>1. Register!Above(Sent(s), Best(Slot(s)))
      BY <1>1, <1>2, <1>4, <2>4, OutcomeOrder
    <3>2. Register!Take(Slot(s), s)
      BY <1>2, <2>2, <3>1 DEF Register!Take, Sent
    <3>3. s \in [t \in Originals |-> {o \in Signals : ByItsAuthor(o) /\ Slot(o) = t}][Slot(s)]
      BY <1>2, AuthoredAssumption
    <3> QED
      BY <1>2, <2>1, <3>2, <3>3 DEF Register!Next
  <2> QED
    BY <2>1, <2>3, <2>4
<1> QED
  BY <1>3, <1>4 DEF BestStep
-----------------------------------------------------------------------------
(* The actions. *)

(* A step that writes no store: it goes on from where a call is, begins or     *)
(* ends one, or is a crash.                                                    *)
LEMMA StoresLeft ==
    ASSUME RetractionInv, RetractionInv', PrevailInv, UNCHANGED stores,
           \/ UNCHANGED <<pc, cur, inc, ret, call, accepted>>
           \/ /\ pc' \notin {"meta", "unbuffer", "done", "supersede", "release"}
              /\ ret' \in {ret, "idle"} /\ (pc = "meta" => NoTies)
              /\ accepted' \subseteq accepted \cup (IF pc = "done" THEN {call.sig} ELSE {})
    PROVE  PrevailInv' /\ BestStep
<1>1. UNCHANGED <<rows, pending, markers, slotMeta>>
  BY DEF stores
<1>2. \A t \in Originals : Best(t)' = Best(t)
  BY <1>1 DEF Best, RowOutcome, BufferOutcome, MarkerOutcome
<1>3. ShownInv' /\ RecordedInv'
  BY <1>1 DEF PrevailInv, ShownInv, RecordedInv, ByRow
<1>4. TieInv' /\ UnexpiredInv'
  <2>1. UnexpiredInv'
    BY <1>1 DEF PrevailInv, UnexpiredInv
  <2>2. NoTies' <=> NoTies
    BY DEF NoTies
  <2>3. TieInv'
    BY <1>1, <2>2 DEF PrevailInv, TieInv
  <2> QED
    BY <2>1, <2>3
<1>5. WritingInv' /\ ResolvedInv'
  BY <1>1 DEF PrevailInv, WritingInv, ResolvedInv, ByRow
<1>6. TakenInv'
  <2>1. \A s \in Signals : Slot(s) \in Originals
    BY SignalFacts
  <2>2. \A s \in Signals :
           \/ s \in accepted'
           \/ (pc' = "done" \/ (pc' = "meta" /\ ret' = "done")) /\ s = call'.sig
           => s \in accepted \/ ((pc = "done" \/ (pc = "meta" /\ ret = "done")) /\ s = call.sig)
    OBVIOUS
  <2>3. \A s \in Signals : Sent(s)' = Sent(s)
    BY DEF Sent, Register!OutcomeOf
  <2> QED
    BY <1>2, <2>1, <2>2, <2>3 DEF PrevailInv, TakenInv
<1> QED
  BY <1>2, <1>3, <1>4, <1>5, <1>6 DEF PrevailInv, BestStep

(* What is taken stays taken. *)
LEMMA TakenKept ==
    ASSUME RetractionInv, RetractionInv', PrevailInv, DOMAIN markers' = {}, BestStep,
           accepted' = accepted,
           \A s \in Signals :
              (pc' = "done" \/ (pc' = "meta" /\ ret' = "done")) /\ s = call'.sig =>
                 \/ (pc = "done" \/ (pc = "meta" /\ ret = "done")) /\ s = call.sig
                 \/ AtLeast(RowOutcome(Slot(s))', Sent(s))
                 \/ AtLeast(BufferOutcome(Slot(s))', Sent(s))
    PROVE  TakenInv'
<1>1. ASSUME NEW s \in Signals,
             \/ s \in accepted'
             \/ (pc' = "done" \/ (pc' = "meta" /\ ret' = "done")) /\ s = call'.sig
      PROVE  AtLeast(Best(Slot(s))', Sent(s))
  <2>1. DOMAIN markers = {} /\ Slot(s) \in Originals /\ Sent(s) \in Outcomes
    BY SignalFacts, SentOutcome DEF PrevailInv, UnexpiredInv
  <2>2. CASE AtLeast(Best(Slot(s)), Sent(s))
    BY <2>1, <2>2, BestRises
  <2>3. CASE \/ AtLeast(RowOutcome(Slot(s))', Sent(s))
             \/ AtLeast(BufferOutcome(Slot(s))', Sent(s))
    <3>1. StoresType'
      BY DEF RetractionInv, TypeOK
    <3>2. MarkerOutcome(Slot(s))' = NoOutcome
      BY DEF MarkerOutcome
    <3>3. Best(Slot(s))' = Stronger(RowOutcome(Slot(s))', BufferOutcome(Slot(s))')
      BY <3>2 DEF Best, Stronger
    <3>4. RowOutcome(Slot(s))' \in Outcomes /\ BufferOutcome(Slot(s))' \in Outcomes
      BY <2>1, <3>1, StoredOutcomesNext
    <3> QED
      BY <2>1, <2>3, <3>3, <3>4, StrongestOf, OutcomeOrder
  <2> QED
    BY <1>1, <2>2, <2>3 DEF PrevailInv, TakenInv
<1>2. \A s \in Signals : Sent(s)' = Sent(s)
  BY DEF Sent, Register!OutcomeOf
<1> QED
  BY <1>1, <1>2 DEF TakenInv

LEMMA AppliedShows ==
    ASSUME NEW row \in RowType, NEW s \in Signals
    PROVE  ShowsOutcomeOf(RowAfter(row, Incoming(s)), s)
<1>1. PICK i : i = Incoming(s) /\ i.kind = s.kind /\ i.rev = s.rev /\ i.rid = s.rid
  BY SignalFacts
<1>2. PICK r : r = RowAfter(row, i)
  OBVIOUS
<1>3. CASE s.kind = "delete"
  <2>1. r = [row EXCEPT !.tomb = TRUE, !.rev = s.rev]
    BY <1>1, <1>2, <1>3 DEF RowAfter
  <2>2. r.rev = s.rev /\ r.tomb = TRUE
    BY <2>1 DEF RowType
  <2> QED
    BY <1>1, <1>2, <1>3, <2>2 DEF ShowsOutcomeOf
<1>4. CASE s.kind = "edit"
  <2>1. r = [row EXCEPT !.tomb = FALSE, !.rev = s.rev, !.content = s.rid]
    BY <1>1, <1>2, <1>4 DEF RowAfter
  <2>2. r.rev = s.rev /\ r.tomb = FALSE /\ r.content = s.rid
    BY <2>1 DEF RowType
  <2> QED
    BY <1>1, <1>2, <1>4, <2>2 DEF ShowsOutcomeOf
<1> QED
  BY <1>3, <1>4, SignalFacts

(* A signal is applied to its row. *)
LEMMA RowTaken ==
    ASSUME RetractionInv, RetractionInv', PrevailInv, NEW s \in Signals, Slot(s) \in DOMAIN rows,
           pc # "meta", WinsAt(Slot(s), Incoming(s)),
           rows' = [rows EXCEPT ![Slot(s)] = RowAfter(@, Incoming(s))],
           UNCHANGED <<pending, markers, slotMeta>>,
           pc' = "meta", cur' = Slot(s), inc' = Incoming(s), ret' # "supersede"
    PROVE  /\ ShownInv' /\ RecordedInv' /\ TieInv' /\ UnexpiredInv' /\ WritingInv' /\ BestStep
           /\ RowOutcome(Slot(s))' = Sent(s) /\ ByRow(s)'
<1>1. PICK t \in Originals : t = Slot(s) /\ t \in DOMAIN rows
  BY SignalFacts
<1>2. /\ rows[t] \in RowType /\ s.kind \in {"delete", "edit"}
      /\ Incoming(s).kind = s.kind /\ Incoming(s).rev = s.rev /\ Incoming(s).rid = s.rid
      /\ DOMAIN rows' = DOMAIN rows /\ rows'[t] = RowAfter(rows[t], Incoming(s))
      /\ \A u \in DOMAIN rows : u # t => rows'[u] = rows[u]
  BY <1>1, PrevailTypes, SignalFacts
<1>3. ShowsOutcomeOf(rows'[t], s)
  BY <1>2, AppliedShows
<1>4. StoresType' /\ rows'[t] \in RowType /\ StoresType
  BY <1>1, <1>2 DEF RetractionInv, TypeOK, StoresType
<1>5. RowOutcome(t)' = Sent(s)
  BY <1>1, <1>2, <1>3, <1>4, ShownOutcome DEF RowOutcome
<1>6. ByRow(s)'
  BY <1>1, <1>4, <1>5, TakenOutcome DEF AtLeast
<1>7. AtLeast(Sent(s), RowOutcome(t))
  BY <1>1, Decided
<1>8. \A o \in Signals : ByRow(o) => ByRow(o)'
  <2>1. ASSUME NEW o \in Signals, ByRow(o), Slot(o) = t PROVE ByRow(o)'
    <3>1. AtLeast(RowOutcome(t), Sent(o)) /\ RowOutcome(t) \in Outcomes
      BY <1>4, <2>1, TakenOutcome, StoredOutcomes, SignalFacts
    <3>2. AtLeast(Sent(s), Sent(o))
      BY <1>7, <3>1, SentOutcome, OutcomeOrder
    <3> QED
      BY <1>4, <1>5, <2>1, <3>2, TakenOutcome
  <2>2. ASSUME NEW o \in Signals, ByRow(o), Slot(o) # t PROVE ByRow(o)'
    BY <1>2, <2>2 DEF ByRow
  <2> QED
    BY <2>1, <2>2
<1>9. ShownInv'
  BY <1>1, <1>2, <1>3 DEF PrevailInv, ShownInv
<1>10. RecordedInv'
  BY <1>8 DEF PrevailInv, RecordedInv
<1>11. TieInv'
  <2>1. NoTies' <=> NoTies
    BY DEF NoTies
  <2> QED
    BY <1>1, <1>2, <2>1 DEF PrevailInv, TieInv
<1>12. UnexpiredInv' /\ WritingInv'
  BY <1>1, <1>2, <1>3 DEF PrevailInv, UnexpiredInv, WritingInv
<1>13. BestStep
  <2>1. \A u \in Originals : BufferOutcome(u)' = BufferOutcome(u)
    BY DEF BufferOutcome
  <2>2. \A u \in Originals \ {t} : RowOutcome(u)' = RowOutcome(u)
    BY <1>2 DEF RowOutcome
  <2>3. DOMAIN markers = {} /\ DOMAIN markers' = {}
    BY DEF PrevailInv, UnexpiredInv
  <2>4. \A u \in Originals \ {t} : Best(u)' = Best(u)
    BY <1>4, <2>1, <2>2, <2>3, BestKept
  <2>5. Best(t)' = Best(t) \/ (AtLeast(Sent(s), Best(t)) /\ Best(t)' = Sent(s))
    BY <1>4, <1>5, <1>7, <2>1, <2>3, BestKept
  <2> QED
    BY <1>1, <2>4, <2>5 DEF BestStep
<1> QED
  BY <1>1, <1>5, <1>6, <1>9, <1>10, <1>11, <1>12, <1>13
(* resolveKnownRowAgainstStores *)
LEMMA ResolvePrevails ==
    ASSUME RetractionInv, RetractionInv', PrevailInv, pc # "meta",
           NEW t \in DOMAIN rows, NEW author, author = AuthorOf[t],
           ResolveKnown(t, author), accepted' = accepted
    PROVE  PrevailInv' /\ BestStep
<1>1. /\ StoresType /\ StoresType' /\ DOMAIN markers = {} /\ DOMAIN markers' = {} /\ t \in Originals
      /\ cur' = t /\ ret' = "unbuffer" /\ UNCHANGED <<pending, markers, slotMeta>>
  BY PrevailTypes DEF PrevailInv, UnexpiredInv, ResolveKnown, RetractionInv, TypeOK
<1>2. ASSUME t \in DOMAIN pending
      PROVE  /\ pending[t].sig \in Signals /\ Slot(pending[t].sig) = t
             /\ Winner(t, author) = {Incoming(pending[t].sig)}
  <2>1. pending[t].sig \in Signals /\ Slot(pending[t].sig) = t
    BY <1>1, <1>2, PrevailTypes
  <2>2. pending[t].sig.author = author
    BY <2>1, SignalFacts
  <2> QED
    BY <1>1, <1>2, <2>1, <2>2 DEF Winner
<1>3. t \notin DOMAIN pending => Winner(t, author) = {}
  BY <1>1 DEF Winner
<1>4. ASSUME NEW w \in Winner(t, author), WinsAt(t, w),
             rows' = [rows EXCEPT ![t] = RowAfter(@, w)], inc' = w, pc' = "meta"
      PROVE  PrevailInv' /\ BestStep
  <2>1. PICK s \in Signals : /\ t \in DOMAIN pending /\ s = pending[t].sig /\ Slot(s) = t
                             /\ w = Incoming(s)
    BY <1>2, <1>3, <1>4
  <2>2. /\ ShownInv' /\ RecordedInv' /\ TieInv' /\ UnexpiredInv' /\ WritingInv' /\ BestStep
        /\ ByRow(s)'
    BY <1>1, <1>4, <2>1, RowTaken
  <2>3. ResolvedInv'
    BY <1>1, <1>4, <2>1, <2>2 DEF ResolvedInv
  <2>4. TakenInv'
    BY <1>1, <1>4, <2>2, TakenKept
  <2> QED
    BY <2>2, <2>3, <2>4 DEF PrevailInv
<1>5. ASSUME \A w \in Winner(t, author) : ~WinsAt(t, w), pc' = "unbuffer", UNCHANGED rows
      PROVE  PrevailInv' /\ BestStep
  <2>1. t \in DOMAIN pending => ByRow(pending[t].sig)
    BY <1>2, <1>5, Decided
  <2>2. ShownInv' /\ RecordedInv'
    BY <1>1, <1>5 DEF PrevailInv, ShownInv, RecordedInv, ByRow
  <2>3. TieInv'
    <3>1. NoTies' <=> NoTies
      BY DEF NoTies
    <3> QED
      BY <1>1, <1>5, <3>1 DEF PrevailInv, TieInv
  <2>4. UnexpiredInv' /\ WritingInv'
    BY <1>1, <1>5 DEF UnexpiredInv, WritingInv
  <2>5. ResolvedInv'
    BY <1>1, <1>5, <2>1 DEF ResolvedInv, ByRow
  <2>6. BestStep
    BY <1>1, <1>5 DEF BestStep, Best, RowOutcome, BufferOutcome, MarkerOutcome
  <2>7. TakenInv'
    BY <1>1, <1>5, <2>6, TakenKept
  <2> QED
    BY <2>2, <2>3, <2>4, <2>5, <2>6, <2>7 DEF PrevailInv
<1> QED
  BY <1>4, <1>5 DEF ResolveKnown

LEMMA HealPrevails ==
    ASSUME RetractionInv, RetractionInv', PrevailInv, NEW t \in Ids, Heal(t)
    PROVE  PrevailInv' /\ BestStep
<1>1. /\ pc = "sweep" /\ t \in DOMAIN rows /\ ResolveKnown(t, rows[t].author)
      /\ accepted' = accepted
  BY DEF Heal, HealTargets, RetractionInv, TypeOK, CallTypeOK, env
<1>2. rows[t].author = AuthorOf[t]
  BY <1>1, PrevailTypes
<1> QED
  BY <1>1, <1>2, ResolvePrevails

LEMMA StartResolvePrevails ==
    ASSUME RetractionInv, RetractionInv', PrevailInv, NEW t \in Originals, StartResolve(t)
    PROVE  PrevailInv' /\ BestStep
<1>1. /\ pc = "idle" /\ t \in DOMAIN rows /\ ResolveKnown(t, AuthorOf[t])
      /\ accepted' = accepted
  BY DEF StartResolve, RetractionInv, TypeOK, EnvType
<1> QED
  BY <1>1, ResolvePrevails

LEMMA WriteSlotMetaPrevails ==
    ASSUME RetractionInv, RetractionInv', PrevailInv, WriteSlotMeta
    PROVE  PrevailInv' /\ BestStep
<1>1. /\ pc = "meta" /\ pc' = ret /\ pc' \in {"unbuffer", "done"}
      /\ UNCHANGED <<rows, pending, markers, call, cur, inc, ret, accepted>>
  BY DEF WriteSlotMeta, env, RetractionInv, CallInv, TypeOK, StepNeeds, CallTypeOK, PrevailInv,
         UnexpiredInv
<1>2. slotMeta' = Put(slotMeta, cur, inc.rid)
  BY NoPressure DEF WriteSlotMeta, RetractionInv
<1>3. /\ DOMAIN slotMeta' = DOMAIN slotMeta \cup {cur} /\ slotMeta'[cur] = inc.rid
      /\ \A t \in DOMAIN slotMeta : t # cur => slotMeta'[t] = slotMeta[t]
  BY <1>2 DEF Put
<1>4. PICK s \in Signals : /\ inc.rid = s.rid /\ Slot(s) = cur /\ cur \in DOMAIN rows
                           /\ ShowsOutcomeOf(rows[cur], s)
  BY <1>1, SignalFacts DEF PrevailInv, WritingInv
<1>5. /\ StoresType /\ rows[cur] \in RowType /\ cur \in Originals
  BY <1>4, PrevailTypes
<1>6. ByRow(s)
  <2>1. RowOutcome(cur) = Sent(s)
    BY <1>4, <1>5, ShownOutcome DEF RowOutcome
  <2> QED
    BY <1>4, <1>5, <2>1, TakenOutcome DEF AtLeast
<1>7. ShownInv'
  BY <1>1 DEF PrevailInv, ShownInv
<1>8. RecordedInv'
  BY <1>1, <1>3, <1>4, <1>6 DEF PrevailInv, RecordedInv, ByRow
<1>9. TieInv'
  <2>1. NoTies' <=> NoTies
    BY DEF NoTies
  <2>2. ~rows[cur].tomb => slotMeta'[cur] = rows[cur].content
    BY <1>3, <1>4, <1>5, SignalFacts DEF ShowsOutcomeOf, RowType
  <2> QED
    BY <1>1, <1>3, <2>1, <2>2 DEF PrevailInv, TieInv
<1>10. UnexpiredInv' /\ WritingInv' /\ ResolvedInv'
  BY <1>1 DEF PrevailInv, UnexpiredInv, WritingInv, ResolvedInv, ByRow
<1>11. BestStep
  BY <1>1 DEF BestStep, Best, RowOutcome, BufferOutcome, MarkerOutcome
<1>12. TakenInv'
  <2>1. DOMAIN markers' = {}
    BY <1>1 DEF PrevailInv, UnexpiredInv
  <2> QED
    BY <1>1, <1>11, <2>1, TakenKept
<1> QED
  BY <1>7, <1>8, <1>9, <1>10, <1>11, <1>12 DEF PrevailInv

LEMMA UnbufferPrevails ==
    ASSUME RetractionInv, RetractionInv', PrevailInv, Unbuffer
    PROVE  PrevailInv' /\ BestStep
<1>1. /\ pc = "unbuffer" /\ pc' = "unmark" /\ StoresType /\ StoresType'
      /\ DOMAIN markers = {} /\ DOMAIN markers' = {}
      /\ UNCHANGED <<rows, markers, slotMeta, call, cur, inc, ret, accepted>>
  BY DEF Unbuffer, env, PrevailInv, UnexpiredInv, RetractionInv, TypeOK
<1>2. ShownInv' /\ RecordedInv'
  BY <1>1 DEF PrevailInv, ShownInv, RecordedInv, ByRow
<1>3. TieInv'
  <2>1. NoTies' <=> NoTies
    BY DEF NoTies
  <2> QED
    BY <1>1, <2>1 DEF PrevailInv, TieInv
<1>4. UnexpiredInv' /\ WritingInv' /\ ResolvedInv'
  BY <1>1 DEF PrevailInv, UnexpiredInv, WritingInv, ResolvedInv
<1>5. \A t \in Originals : RowOutcome(t)' = RowOutcome(t)
  BY <1>1 DEF RowOutcome
<1>6. CASE cur \notin DOMAIN pending
  <2>1. pending' = pending
    BY <1>6 DEF Unbuffer
  <2> QED
    BY <1>1, <2>1, <1>2, <1>3, <1>4, <1>5, TakenKept
    DEF PrevailInv, BestStep, Best, RowOutcome, BufferOutcome, MarkerOutcome
<1>7. CASE cur \in DOMAIN pending
  <2>1. PICK p \in Signals : p = pending[cur].sig /\ cur \in DOMAIN rows /\ ByRow(p)
    BY <1>1, <1>7, PrevailTypes DEF PrevailInv, ResolvedInv
  <2>2. cur \in Originals /\ Slot(p) = cur
    BY <1>7, <2>1, PrevailTypes
  <2>3. pending' = Drop(pending, EntriesOf(p.rid))
    BY <1>7, <2>1 DEF Unbuffer
  <2>4. /\ DOMAIN pending' = DOMAIN pending \ EntriesOf(p.rid)
        /\ \A u \in DOMAIN pending' : pending'[u] = pending[u]
    BY <2>3 DEF Drop, Restrict
  <2>5. cur \in EntriesOf(p.rid) /\ \A u \in Originals \ {cur} : u \notin EntriesOf(p.rid)
    BY <1>7, <2>1, <2>2, PrevailTypes, SameRid DEF EntriesOf
  <2>6. \A u \in Originals \ {cur} : BufferOutcome(u)' = BufferOutcome(u)
    BY <2>4, <2>5 DEF BufferOutcome
  <2>7. BufferOutcome(cur)' = NoOutcome /\ BufferOutcome(cur) = Sent(p)
    <3>1. BufferOutcome(cur)' = NoOutcome
      BY <1>1, <2>4, <2>5 DEF BufferOutcome
    <3>2. BufferOutcome(cur) = Sent(p)
      BY <1>7, <2>1, <2>2, BufferedOutcome
    <3> QED
      BY <3>1, <3>2
  <2>8. AtLeast(RowOutcome(cur), Sent(p))
    BY <1>1, <2>1, <2>2, TakenOutcome
  <2>9. \A u \in Originals : Best(u)' = Best(u)
    BY <1>1, <1>5, <2>2, <2>6, <2>7, <2>8, BestKept
  <2>10. BestStep
    BY <2>9 DEF BestStep
  <2>11. TakenInv'
    BY <1>1, <2>10, TakenKept
  <2> QED
    BY <1>2, <1>3, <1>4, <2>10, <2>11 DEF PrevailInv
<1> QED
  BY <1>6, <1>7

(* Without markers there is nothing to remove. *)
LEMMA UnmarkPrevails ==
    ASSUME RetractionInv, RetractionInv', PrevailInv, Unmark
    PROVE  PrevailInv' /\ BestStep
<1>1. /\ pc = "unmark" /\ pc' = "sweep" /\ ret' = "idle"
      /\ UNCHANGED <<rows, pending, slotMeta, accepted>> /\ markers' = Drop(markers, {cur})
  BY DEF Unmark, env
<1>2. markers \in [{} -> MarkerType] /\ DOMAIN markers = {}
  BY DEF PrevailInv, UnexpiredInv, RetractionInv, TypeOK, StoresType
<1>3. markers' = markers
  BY <1>1, <1>2 DEF Drop, Restrict
<1> QED
  BY <1>1, <1>3, StoresLeft DEF stores

(* Steps that write no store. *)
LEMMA QuietPrevails ==
    ASSUME RetractionInv, RetractionInv', PrevailInv,
           \/ EndSweep \/ BufferSignal \/ Done \/ Tick \/ UNCHANGED vars
           \/ \E s \in Signals : StartApply(s)
           \/ \E th \in Threads : OpenThread(th)
           \/ Crash /\ (NoTies \/ pc # "meta")
    PROVE  PrevailInv' /\ BestStep
<1>1. ret \in {"idle", "unbuffer", "done"}
  BY DEF RetractionInv, TypeOK, CallTypeOK, CallInv, PrevailInv, UnexpiredInv
<1>2. CASE EndSweep
  BY <1>2, StoresLeft DEF EndSweep, env
<1>3. CASE BufferSignal
  BY <1>3, StoresLeft DEF BufferSignal, env
<1>4. CASE Done
  BY <1>4, StoresLeft DEF Done
<1>5. CASE Tick
  BY <1>5, StoresLeft DEF Tick, regs
<1>6. CASE UNCHANGED vars
  BY <1>6, StoresLeft DEF vars, stores
<1>7. ASSUME NEW s \in Signals, StartApply(s) PROVE PrevailInv' /\ BestStep
  BY <1>7, StoresLeft DEF StartApply, env
<1>8. ASSUME NEW th \in Threads, OpenThread(th) PROVE PrevailInv' /\ BestStep
  BY <1>8, StoresLeft DEF OpenThread, env
<1>9. CASE Crash /\ (NoTies \/ pc # "meta")
  BY <1>9, StoresLeft DEF Crash
<1> QED
  BY <1>2, <1>3, <1>4, <1>5, <1>6, <1>7, <1>8, <1>9

LEMMA ApplyToKnownSlotPrevails ==
    ASSUME RetractionInv, RetractionInv', PrevailInv, ApplyToKnownSlot
    PROVE  PrevailInv' /\ BestStep
<1>1. /\ pc = "main" /\ call.op = "apply" /\ call.sig \in Signals /\ StoresType /\ StoresType'
      /\ DOMAIN markers = {} /\ DOMAIN markers' = {}
      /\ UNCHANGED <<pending, markers, slotMeta, call, known, todo, accepted>>
  BY DEF ApplyToKnownSlot, RetractionInv, TypeOK, StepNeeds, CallTypeOK, CallType, NoCall, env,
         PrevailInv, UnexpiredInv
<1>2. PICK s \in Signals : s = call.sig
  BY <1>1
<1>3. PICK i \in KnownTargets(s) :
         IF s.author = rows[s.targets[i]].author /\ WinsAt(s.targets[i], Incoming(s))
         THEN /\ rows' = [rows EXCEPT ![s.targets[i]] = RowAfter(@, Incoming(s))]
              /\ cur' = s.targets[i] /\ inc' = Incoming(s)
              /\ pc' = "meta" /\ ret' = "done"
         ELSE /\ pc' = "done"
              /\ UNCHANGED <<rows, cur, inc, ret>>
  BY <1>2 DEF ApplyToKnownSlot
<1>4. s.targets[i] = Slot(s) /\ Slot(s) \in DOMAIN rows /\ s.author = rows[Slot(s)].author
  <2>1. i \in DOMAIN s.targets /\ s.targets[i] \in DOMAIN rows
    BY <1>3 DEF KnownTargets
  <2>2. i = 1
    BY <2>1, PrevailTypes, TargetsAssumption
  <2> QED
    BY <2>1, <2>2, PrevailTypes, SignalFacts
<1>5. CASE WinsAt(Slot(s), Incoming(s))
  <2>1. /\ ShownInv' /\ RecordedInv' /\ TieInv' /\ UnexpiredInv' /\ WritingInv' /\ BestStep
        /\ RowOutcome(Slot(s))' = Sent(s)
    BY <1>1, <1>3, <1>4, <1>5, RowTaken
  <2>2. ResolvedInv'
    BY <1>3, <1>4, <1>5 DEF ResolvedInv
  <2>3. TakenInv'
    BY <1>1, <1>2, <2>1, TakenKept DEF AtLeast
  <2> QED
    BY <2>1, <2>2, <2>3 DEF PrevailInv
<1>6. CASE ~WinsAt(Slot(s), Incoming(s))
  <2>1. pc' = "done" /\ UNCHANGED <<rows, cur, inc, ret>>
    BY <1>3, <1>4, <1>6
  <2>2. ByRow(s)'
    BY <1>1, <1>4, <1>6, <2>1, Decided DEF ByRow
  <2>3. ShownInv' /\ RecordedInv'
    BY <1>1, <2>1 DEF PrevailInv, ShownInv, RecordedInv, ByRow
  <2>4. TieInv'
    <3>1. NoTies' <=> NoTies
      BY DEF NoTies
    <3> QED
      BY <1>1, <2>1, <3>1 DEF PrevailInv, TieInv
  <2>5. UnexpiredInv' /\ WritingInv' /\ ResolvedInv'
    BY <1>1, <2>1 DEF PrevailInv, UnexpiredInv, WritingInv, ResolvedInv
  <2>6. BestStep
    BY <1>1, <2>1 DEF BestStep, Best, RowOutcome, BufferOutcome, MarkerOutcome
  <2>7. AtLeast(RowOutcome(Slot(s))', Sent(s))
    BY <1>1, <2>2, TakenOutcome
  <2>8. TakenInv'
    BY <1>1, <1>2, <2>1, <2>6, <2>7, TakenKept
  <2> QED
    BY <2>3, <2>4, <2>5, <2>6, <2>8 DEF PrevailInv
<1> QED
  BY <1>5, <1>6

LEMMA AppendOriginalPrevails ==
    ASSUME RetractionInv, RetractionInv', PrevailInv, NEW t \in Originals, AppendOriginal(t)
    PROVE  PrevailInv' /\ BestStep
<1>1. /\ StoresType /\ StoresType' /\ DOMAIN markers = {} /\ DOMAIN markers' = {}
      /\ UNCHANGED <<pending, markers, slotMeta, pc, call, known, cur, inc, ret, accepted>>
  BY DEF AppendOriginal, RetractionInv, TypeOK, PrevailInv, UnexpiredInv, regs
<1>2. CASE t \in DOMAIN rows
  <2>1. UNCHANGED rows
    BY <1>2 DEF AppendOriginal
  <2> QED
    BY <1>1, <2>1, StoresLeft DEF stores
<1>3. CASE t \notin DOMAIN rows
  <2>1. /\ DOMAIN rows' = DOMAIN rows \cup {t}
        /\ \A u \in DOMAIN rows : rows'[u] = rows[u]
        /\ rows'[t].rev = 0 /\ rows'[t].tomb = FALSE /\ rows'[t].content = Original
    BY <1>3 DEF AppendOriginal, Put
  <2>2. \A s \in Signals : ByRow(s) => ByRow(s)'
    BY <2>1 DEF ByRow
  <2>3. ShownInv' /\ RecordedInv'
    BY <1>1, <2>1, <2>2 DEF PrevailInv, ShownInv, RecordedInv
  <2>4. TieInv'
    <3>1. NoTies' <=> NoTies
      BY DEF NoTies
    <3> QED
      BY <1>1, <2>1, <3>1 DEF PrevailInv, TieInv
  <2>5. UnexpiredInv' /\ WritingInv'
    BY <1>1, <2>1 DEF PrevailInv, UnexpiredInv, WritingInv
  <2>6. ResolvedInv'
    <3>1. \A u \in DOMAIN pending : pending[u].sig \in Signals
      BY PrevailTypes
    <3> QED
      BY <1>1, <2>1, <2>2, <3>1 DEF PrevailInv, ResolvedInv
  <2>7. \A u \in Originals : RowOutcome(u)' = RowOutcome(u) /\ BufferOutcome(u)' = BufferOutcome(u)
    <3>1. \A u \in Originals \ {t} : RowOutcome(u)' = RowOutcome(u)
      BY <2>1 DEF RowOutcome
    <3>2. RowOutcome(t)' = RowOutcome(t)
      BY <1>3, <2>1 DEF RowOutcome, NoOutcome, Original
    <3>3. \A u \in Originals : BufferOutcome(u)' = BufferOutcome(u)
      BY <1>1 DEF BufferOutcome
    <3> QED
      BY <3>1, <3>2, <3>3
  <2>8. BestStep
    BY <1>1, <2>7, BestKept DEF BestStep
  <2>9. TakenInv'
    BY <1>1, <2>8, TakenKept
  <2> QED
    BY <2>3, <2>4, <2>5, <2>6, <2>8, <2>9 DEF PrevailInv
<1> QED
  BY <1>2, <1>3

(* insertOrCollapsePending keeps the stronger of two signals. *)
LEMMA InsertPrevails ==
    ASSUME RetractionInv, RetractionInv', PrevailInv, Insert
    PROVE  PrevailInv' /\ BestStep
<1>1. /\ pc = "insert" /\ call.op = "apply" /\ call.sig \in Signals /\ StoresType /\ StoresType'
      /\ DOMAIN markers = {} /\ DOMAIN markers' = {} /\ todo \in Seq(Ids) /\ todo # <<>>
      /\ pc' \in {"done", "insert"}
      /\ UNCHANGED <<rows, markers, slotMeta, call, known, cur, inc, ret, accepted>>
  BY DEF Insert, NextTarget, RetractionInv, TypeOK, StepNeeds, CallTypeOK, CallType, NoCall, env,
         PrevailInv, UnexpiredInv
<1>2. PICK s \in Signals : s = call.sig
  BY <1>1
<1>3. PICK h : h = todo[1]
  OBVIOUS
<1>4. /\ h = Head(todo)
      /\ pending' = IF h \in DOMAIN pending /\ ~Collapses(h) THEN pending ELSE Put(pending, h, Candidate)
  BY <1>1, <1>3 DEF Insert
<1>5. ShownInv' /\ RecordedInv'
  BY <1>1 DEF PrevailInv, ShownInv, RecordedInv, ByRow
<1>6. TieInv'
  <2>1. NoTies' <=> NoTies
    BY DEF NoTies
  <2> QED
    BY <1>1, <2>1 DEF PrevailInv, TieInv
<1>7. UnexpiredInv' /\ WritingInv' /\ ResolvedInv'
  BY <1>1 DEF PrevailInv, UnexpiredInv, WritingInv, ResolvedInv
<1>8. \A u \in Originals : RowOutcome(u)' = RowOutcome(u)
  BY <1>1 DEF RowOutcome
<1>9. \A u \in Originals \ {h} : BufferOutcome(u)' = BufferOutcome(u)
  BY <1>4 DEF BufferOutcome, Put
<1>10. Slot(s) \in Originals /\ Sent(s) \in Outcomes /\ AtLeast(Sent(s), Sent(s))
  BY SignalFacts, SentOutcome DEF AtLeast
<1>11. \/ h = Slot(s)
       \/ h \notin Originals /\ ByBuffer(s)
  BY <1>1, <1>2, <1>3, SignalFacts DEF RetractionInv, InsertingInv
<1>12. CASE h = Slot(s)
  <2>1. \/ BufferOutcome(h)' = BufferOutcome(h) /\ AtLeast(BufferOutcome(h), Sent(s))
        \/ BufferOutcome(h)' = Sent(s) /\ AtLeast(Sent(s), BufferOutcome(h))
    <3>1. CASE h \in DOMAIN pending /\ ~Collapses(h)
      <4>1. PICK p \in Signals : p = pending[h].sig
        BY <3>1, PrevailTypes
      <4>2. BufferOutcome(h) = Sent(p)
        BY <1>10, <1>12, <3>1, <4>1, BufferedOutcome
      <4>3. p.rid = s.rid \/ ~SignalBeats(s, p)
        BY <1>2, <3>1, <4>1 DEF Collapses
      <4>4. AtLeast(Sent(p), Sent(s))
        <5>1. CASE p.rid = s.rid
          BY <1>10, <5>1, SameRid
        <5>2. CASE ~SignalBeats(s, p) /\ p # s
          BY <1>10, <5>2, BeatsOutcome, SentOutcome, OutcomeOrder
        <5> QED
          BY <1>10, <4>3, <5>1, <5>2
      <4>5. BufferOutcome(h)' = BufferOutcome(h)
        BY <1>4, <3>1 DEF BufferOutcome
      <4> QED
        BY <4>2, <4>4, <4>5
    <3>2. CASE ~(h \in DOMAIN pending /\ ~Collapses(h))
      <4>1. pending' = Put(pending, h, [sig |-> s, at |-> clock])
        BY <1>2, <1>4, <3>2 DEF Candidate
      <4>2. h \in DOMAIN pending' /\ pending'[h].sig = s
        BY <4>1 DEF Put
      <4>3. BufferOutcome(h)' = Sent(s)
        BY <1>12, <4>2, SignalFacts DEF BufferOutcome, Sent, Register!OutcomeOf, NoRid
      <4>4. CASE h \notin DOMAIN pending
        BY <1>10, <4>3, <4>4, OutcomeOrder DEF BufferOutcome
      <4>5. CASE h \in DOMAIN pending
        <5>1. PICK p \in Signals : p = pending[h].sig
          BY <4>5, PrevailTypes
        <5>2. BufferOutcome(h) = Sent(p)
          BY <1>10, <1>12, <4>5, <5>1, BufferedOutcome
        <5>3. SignalBeats(s, p)
          BY <1>2, <3>2, <4>5, <5>1 DEF Collapses
        <5> QED
          BY <4>3, <5>2, <5>3, BeatsOutcome
      <4> QED
        BY <4>4, <4>5
    <3> QED
      BY <3>1, <3>2
  <2>2. \A u \in Originals \ {h} : Best(u)' = Best(u)
    BY <1>1, <1>8, <1>9, BestKept
  <2>3. \/ Best(h)' = Best(h)
        \/ AtLeast(Sent(s), Best(h)) /\ Best(h)' = Sent(s)
    BY <1>1, <1>8, <1>10, <1>12, <2>1, BestKept
  <2>4. BestStep
    BY <1>12, <2>2, <2>3 DEF BestStep
  <2>5. AtLeast(BufferOutcome(Slot(s))', Sent(s))
    BY <1>10, <1>12, <2>1
  <2>6. TakenInv'
    BY <1>1, <1>2, <2>4, <2>5, TakenKept
  <2> QED
    BY <1>5, <1>6, <1>7, <2>4, <2>6 DEF PrevailInv
<1>13. CASE h \notin Originals /\ ByBuffer(s)
  <2>1. \A u \in Originals : BufferOutcome(u)' = BufferOutcome(u)
    BY <1>9, <1>13
  <2>2. BestStep
    BY <1>1, <1>8, <2>1, BestKept DEF BestStep
  <2>3. AtLeast(BufferOutcome(Slot(s))', Sent(s))
    <3>1. PICK p \in Signals : /\ Slot(s) \in DOMAIN pending /\ p = pending[Slot(s)].sig
                               /\ p = s \/ SignalBeats(p, s)
      BY <1>13, PrevailTypes DEF ByBuffer
    <3>2. BufferOutcome(Slot(s)) = Sent(p)
      BY <1>10, <3>1, BufferedOutcome
    <3> QED
      BY <1>10, <2>1, <3>1, <3>2, BeatsOutcome
  <2>4. TakenInv'
    BY <1>1, <1>2, <2>2, <2>3, TakenKept
  <2> QED
    BY <1>5, <1>6, <1>7, <2>2, <2>4 DEF PrevailInv
<1> QED
  BY <1>11, <1>12, <1>13

-----------------------------------------------------------------------------
LEMMA PrevailInit == Init => PrevailInv
<1> SUFFICES ASSUME Init PROVE PrevailInv
  OBVIOUS
<1>1. /\ DOMAIN rows = {} /\ DOMAIN slotMeta = {} /\ DOMAIN markers = {} /\ pc = "idle"
      /\ ret = "idle" /\ accepted = {}
  BY DEF Init, Empty
<1> QED
  BY <1>1 DEF PrevailInv, ShownInv, RecordedInv, TieInv, UnexpiredInv, WritingInv, ResolvedInv,
              TakenInv

LEMMA PrevailStep ==
    ASSUME RetractionInv, PrevailInv, NothingExpires, [Next]_vars,
           Crash => NoTies \/ pc # "meta"
    PROVE  PrevailInv' /\ BestStep
<1>1. RetractionInv'
  BY RetractionStep
<1>2. CASE UNCHANGED vars
  BY <1>1, <1>2, QuietPrevails
<1>3. CASE Next
  <2>1. ~AtCap /\ pc \notin {"evict", "swap", "supersede", "release"}
    BY NoPressure DEF RetractionInv, CallInv, PrevailInv, UnexpiredInv
  <2>2. /\ \A v \in Ids : ~EvictBare(v) /\ ~EvictExpired(v)
        /\ ~PersistEvicted /\ ~Swap /\ ~Supersede /\ ~Release
    BY <2>1 DEF EvictBare, EvictExpired, PersistEvicted, Swap, Supersede, Release
  <2>3. \A t \in Ids : ~Expire(t)
    BY DEF Expire, ExpireTargets, NothingExpires
  <2> QED
    BY <1>1, <1>3, <2>2, <2>3, QuietPrevails, WriteSlotMetaPrevails, UnbufferPrevails,
       UnmarkPrevails, HealPrevails, ApplyToKnownSlotPrevails, InsertPrevails,
       AppendOriginalPrevails, StartResolvePrevails
    DEF Next, CallStep
<1> QED
  BY <1>2, <1>3

(* What the invariant says of the messages of a device. *)
LEMMA PrevailInvImplies == RetractionInv /\ PrevailInv => SignalsPrevail
<1> SUFFICES ASSUME RetractionInv, PrevailInv PROVE NoSignalForgotten /\ Converged
  BY DEF SignalsPrevail
<1>1. StoresType /\ DOMAIN markers = {}
  BY DEF RetractionInv, TypeOK, PrevailInv, UnexpiredInv
<1>2. ASSUME NEW s \in Signals, s \in accepted
      PROVE  \/ ByRow(s)
             \/ /\ Slot(s) \in DOMAIN pending
                /\ pending[Slot(s)].sig = s \/ SignalBeats(pending[Slot(s)].sig, s)
  <2>1. Slot(s) \in Originals /\ AtLeast(Best(Slot(s)), Sent(s))
    BY <1>2, SignalFacts DEF PrevailInv, TakenInv
  <2>2. Best(Slot(s)) \in {RowOutcome(Slot(s)), BufferOutcome(Slot(s))}
    BY <1>1, <2>1, BestOf
  <2>3. CASE AtLeast(RowOutcome(Slot(s)), Sent(s))
    BY <1>1, <2>3, TakenOutcome
  <2>4. CASE AtLeast(BufferOutcome(Slot(s)), Sent(s))
    <3>1. Slot(s) \in DOMAIN pending
      BY <2>4, SentOutcome DEF BufferOutcome
    <3>2. PICK p \in Signals : p = pending[Slot(s)].sig
      BY <3>1, PrevailTypes
    <3>3. BufferOutcome(Slot(s)) = Sent(p)
      BY <2>1, <3>1, <3>2, BufferedOutcome
    <3> QED
      BY <2>4, <3>1, <3>2, <3>3, BeatsOutcome
  <2> QED
    BY <2>1, <2>2, <2>3, <2>4
<1>3. accepted \subseteq Signals
  BY DEF RetractionInv, TypeOK, EnvType
<1>4. NoSignalForgotten
  BY <1>2, <1>3 DEF NoSignalForgotten, Remembered, ByBuffer
<1>5. ASSUME NEW t \in Originals, Settled(t),
             NEW o \in Signals, ByItsAuthor(o), Slot(o) = t
      PROVE  \E s \in Signals :
                /\ Slot(s) = t /\ ShowsOutcomeOf(rows[t], s)
                /\ \A q \in Signals : Slot(q) = t /\ ByItsAuthor(q) => q = s \/ SignalBeats(s, q)
  <2>1. t \in DOMAIN rows /\ t \notin DOMAIN pending
    BY <1>5 DEF Settled
  <2>2. \A q \in Signals : Slot(q) = t /\ ByItsAuthor(q) => ByRow(q)
    BY <1>2, <1>5, <2>1 DEF Settled
  <2>3. rows[t] \in RowType
    BY <2>1, PrevailTypes
  <2>4. rows[t].rev \in Nat /\ o.rev \in Nat \ {0}
    BY <2>3, SignalFacts DEF RowType
  <2>5. rows[t].rev > 0
    BY <1>5, <2>2, <2>4 DEF ByRow
  <2>6. PICK s \in Signals : Slot(s) = t /\ ShowsOutcomeOf(rows[t], s)
    BY <2>1, <2>4, <2>5 DEF PrevailInv, ShownInv
  <2>7. RowOutcome(t) = Sent(s)
    BY <2>1, <2>3, <2>6, ShownOutcome DEF RowOutcome
  <2>8. ASSUME NEW q \in Signals, Slot(q) = t, ByItsAuthor(q) PROVE q = s \/ SignalBeats(s, q)
    <3>1. AtLeast(Sent(s), Sent(q))
      BY <1>1, <2>2, <2>7, <2>8, TakenOutcome
    <3> QED
      BY <3>1, BeatsOutcome
  <2> QED
    BY <2>6, <2>8
<1>6. Converged
  BY <1>5, AuthoredAssumption DEF Converged
<1> QED
  BY <1>4, <1>6

(* The premises: nothing buffered reaches its TTL, and where two edits of one *)
(* message tie, the process does not die between a row write and the record   *)
(* of the rumor id that decides the tie.                                      *)
Undisturbed == []NothingExpires /\ [][Crash => NoTies \/ pc # "meta"]_vars

LEMMA PrevailInvariant ==
    Spec /\ Undisturbed => [](RetractionInv /\ PrevailInv)
<1>1. Init => RetractionInv /\ PrevailInv
  BY RetractionInit, PrevailInit
<1>2. RetractionInv /\ PrevailInv /\ NothingExpires /\ [Next]_vars
      /\ [Crash => NoTies \/ pc # "meta"]_vars
      => (RetractionInv /\ PrevailInv)'
  <2> SUFFICES ASSUME RetractionInv, PrevailInv, NothingExpires, [Next]_vars,
                      [Crash => NoTies \/ pc # "meta"]_vars
               PROVE  RetractionInv' /\ PrevailInv'
    OBVIOUS
  <2>1. RetractionInv'
    BY RetractionStep
  <2>2. CASE Crash => NoTies \/ pc # "meta"
    BY <2>1, <2>2, PrevailStep
  <2>3. CASE UNCHANGED vars
    BY <2>1, <2>3, QuietPrevails
  <2> QED
    BY <2>1, <2>2, <2>3
<1> QED
  BY <1>1, <1>2, PTL DEF Spec, Undisturbed

(* While nothing expires, no signal a device has taken is forgotten, and a    *)
(* message with nothing left to resolve shows its author's highest signal.    *)
THEOREM SignalsAlwaysPrevail == Spec /\ Undisturbed => []SignalsPrevail
BY PrevailInvariant, PrevailInvImplies, PTL

(* ... and the three stores of a message are one register that only takes     *)
(* stronger outcomes.                                                         *)
THEOREM StoresAreOneRegister == Spec /\ Undisturbed => HoldsTheStrongest
<1>1. Init => Register!Init
  <2> SUFFICES ASSUME Init PROVE \A t \in Originals : Best(t) = NoOutcome
    BY DEF Register!Init, Register!Nothing, NoOutcome
  <2>1. RetractionInv /\ DOMAIN rows = {} /\ DOMAIN pending = {} /\ DOMAIN markers = {}
    BY RetractionInit DEF Init, Empty
  <2> QED
    BY <2>1, BestOf DEF RetractionInv, TypeOK, RowOutcome, BufferOutcome
<1>2. /\ RetractionInv /\ PrevailInv /\ NothingExpires /\ [Next]_vars
      /\ [Crash => NoTies \/ pc # "meta"]_vars
      => [Register!Next]_[t \in Originals |-> Best(t)]
  <2> SUFFICES ASSUME RetractionInv, PrevailInv, NothingExpires, [Next]_vars,
                      [Crash => NoTies \/ pc # "meta"]_vars
               PROVE  [Register!Next]_[t \in Originals |-> Best(t)]
    OBVIOUS
  <2>1. RetractionInv'
    BY RetractionStep
  <2>2. PrevailInv' /\ BestStep
    <3>1. CASE Crash => NoTies \/ pc # "meta"
      BY <3>1, PrevailStep
    <3>2. CASE UNCHANGED vars
      BY <2>1, <3>2, QuietPrevails
    <3> QED
      BY <3>1, <3>2
  <2>3. DOMAIN markers = {} /\ DOMAIN markers' = {}
    BY <2>2 DEF PrevailInv, UnexpiredInv
  <2> QED
    BY <2>1, <2>2, <2>3, BestRises
<1> QED
  BY <1>1, <1>2, PrevailInvariant, PTL DEF Spec, Undisturbed, HoldsTheStrongest, Register!Spec
-----------------------------------------------------------------------------
(***************************************************************************)
(* An expired delete leaves the buffer only when its effect is durable, with *)
(* stores of any size, evictions, foreign signals and crashes.  A clean-up   *)
(* removes the entries of every id the delete names, so what has to be shown *)
(* is that it removes the original's for the original's own sake, or that    *)
(* the effect has been recorded before.                                      *)
(***************************************************************************)

(* buildEditReplacementRumor names the original and nothing else, and the ids *)
(* of a signal belong to one conversation.                                   *)
Addressed ==
    \A s \in Signals : \A i \in DOMAIN s.targets :
        /\ ThreadOf[s.targets[i]] = ThreadOf[Slot(s)]
        /\ s.kind = "edit" => s.targets[i] \in Originals

(* The entry of a delete under its original is no younger than those under    *)
(* the other ids it names, or its effect is recorded and stays so.  An        *)
(* eviction of the original's entry and a redelivery can break the order.    *)
SiblingsInOrder ==
    \A u \in DOMAIN pending :
        LET d == pending[u].sig
            t == Slot(d)
        IN  d.kind = "delete" /\ t \in DOMAIN pending /\ pending[t].sig = d =>
                \/ pending[t].at <= pending[u].at
                \/ ByRow(d) \/ (ByMarker(d) /\ Cardinality(DOMAIN markers) < Cap)

OwnDelete(t) ==
    /\ t \in DOMAIN pending /\ t \in Originals
    /\ pending[t].sig.kind = "delete" /\ Slot(pending[t].sig) = t

Persisted(s) ==
    \/ ByRow(s) \/ ByMarker(s)
    \/ Slot(s) \in DOMAIN rows /\ rows[Slot(s)].author # s.author

OriginalRows == \A t \in DOMAIN rows : t \in Originals

(* A row of another author comes of an edit, and nothing is buffered for it.  *)
ForeignInv ==
    /\ \A t \in DOMAIN pending : Foreign(t) => pending[t].sig.kind = "edit"
    /\ todo # <<>> => ~Foreign(todo[1])

(* A recorded rumor id, or one about to be, says the row has taken the delete. *)
RecordInv ==
    /\ \A t \in DOMAIN slotMeta : \A d \in Signals :
          d.kind = "delete" /\ d.rid = slotMeta[t] => Reflects(t, d.rev)
    /\ pc = "meta" => \A d \in Signals :
          d.kind = "delete" /\ d.rid = inc.rid => Reflects(cur, d.rev)

Materialising == pc = "supersede" \/ (pc = "meta" /\ ret = "supersede")
Removing == pc \in {"unbuffer", "release", "swap"} \/ (pc = "meta" /\ ret \in {"unbuffer", "swap"})

(* Past its own slot a resolve call finds nothing buffered for it.            *)
OwnSlotInv ==
    call.op = "resolve" =>
        /\ (OwnSlot => pc = "unmark") => call.slot \notin DOMAIN pending
        /\ Materialising => cur # call.slot

(* What is about to be removed has been made durable.                         *)
LeavingInv ==
    /\ pc = "unbuffer" \/ (pc = "meta" /\ ret = "unbuffer") => cur \in DOMAIN rows
    /\ Materialising \/ pc = "release" =>
          cur \in DOMAIN pending /\ inc.rid = pending[cur].sig.rid
    /\ Materialising => pending[cur].sig.kind = "edit"
    /\ Removing /\ OwnDelete(cur) => Persisted(pending[cur].sig)
    /\ pc = "release" =>
          LET d == pending[cur].sig
          IN  d.kind = "delete" /\ OwnDelete(Slot(d)) /\ pending[Slot(d)].sig = d
              => Slot(d) = cur \/ ByRow(d) \/ ByMarker(d)

DurableInv ==
    /\ TypeOK /\ AuthorInv /\ OriginalRows /\ ForeignInv /\ RecordInv /\ OwnSlotInv /\ LeavingInv

-----------------------------------------------------------------------------
(* What a step does to a row, to the buffer and to the ids still to buffer.   *)

LEMMA SignalParts ==
    ASSUME NEW s \in Signals
    PROVE  /\ s.kind \in {"delete", "edit"} /\ s.rev \in Nat \ {0} /\ s.rid \in Nat \ {0}
           /\ s.targets \in Seq(Ids) /\ s.targets # <<>> /\ Slot(s) = s.targets[1]
           /\ 1 \in DOMAIN s.targets /\ Slot(s) \in Targets(s)
           /\ Incoming(s).kind = s.kind /\ Incoming(s).rev = s.rev /\ Incoming(s).rid = s.rid
  BY SignalsAssumption DEF SignalType, Slot, Incoming, Targets

LEMMA EntryParts ==
    ASSUME TypeOK, AuthorInv, NEW t \in DOMAIN pending
    PROVE  /\ pending[t].sig \in Signals /\ t \in Targets(pending[t].sig)
           /\ pending[t].at \in Int /\ clock \in Int
           /\ t \in Originals => Slot(pending[t].sig) = t
  <1>1. /\ pending[t].sig \in Signals /\ t \in Targets(pending[t].sig)
        /\ pending[t].at \in 0..MaxClock /\ clock \in 0..MaxClock
    BY DEF TypeOK, EnvType, StoresType, EntryType, AuthorInv
  <1>2. t \in Originals => Slot(pending[t].sig) = t
    BY <1>1, TargetsAssumption, SignalParts DEF Targets
  <1>3. MaxClock \in Nat
    BY ConstantsAssumption
  <1> QED BY <1>1, <1>2, <1>3

LEMMA EditNamesOriginal ==
    ASSUME Addressed, TypeOK, AuthorInv, NEW t \in DOMAIN pending, pending[t].sig.kind = "edit"
    PROVE  t \in Originals
  BY EntryParts DEF Addressed, Targets

(* What a row can become, and where a new one comes from.                     *)
RowStep(u) ==
    \/ u \in DOMAIN rows /\ rows'[u].author = rows[u].author
    \/ /\ u \notin DOMAIN rows
       /\ \/ u \in Originals /\ rows'[u].author = AuthorOf[u] /\ UNCHANGED <<pending, todo>>
          \/ /\ u \in DOMAIN pending /\ pending[u].sig.kind = "edit"
             /\ pc \in {"sweep", "evict"} /\ UNCHANGED <<pending, todo>>

LEMMA WriteKeepsAuthor ==
    ASSUME StoresType, NEW t \in DOMAIN rows, NEW w,
           rows' = [rows EXCEPT ![t] = RowAfter(@, w)], NEW u \in DOMAIN rows'
    PROVE  RowStep(u)
  <1>1. rows[t] \in RowType
    BY DEF StoresType
  <1>2. RowAfter(rows[t], w).author = rows[t].author
    BY <1>1 DEF RowAfter, RowType
  <1>3. DOMAIN rows' = DOMAIN rows /\ \A v \in DOMAIN rows : v # t => rows'[v] = rows[v]
    OBVIOUS
  <1>4. rows'[t] = RowAfter(rows[t], w)
    OBVIOUS
  <1> QED BY <1>2, <1>3, <1>4 DEF RowStep

LEMMA ResolvedRows ==
    ASSUME StoresType, NEW t \in DOMAIN rows, NEW author, ResolveKnown(t, author),
           NEW u \in DOMAIN rows'
    PROVE  RowStep(u)
  <1>1. CASE UNCHANGED rows
    BY <1>1 DEF RowStep
  <1>2. ASSUME NEW w \in Winner(t, author), rows' = [rows EXCEPT ![t] = RowAfter(@, w)]
        PROVE  RowStep(u)
    BY <1>2, WriteKeepsAuthor
  <1> QED BY <1>1, <1>2 DEF ResolveKnown

LEMMA MaterialisedRows ==
    ASSUME NEW t \in DOMAIN pending, NEW next, PersistEffect(t, pending[t].sig, next),
           pc \in {"sweep", "evict"}, UNCHANGED todo, NEW u \in DOMAIN rows'
    PROVE  RowStep(u)
  <1>1. CASE UNCHANGED rows
    BY <1>1 DEF RowStep
  <1>2. CASE /\ pending[t].sig.kind = "edit" /\ t \notin DOMAIN rows
             /\ rows' = Put(rows, t, MaterialisedRow(pending[t].sig))
    <2>1. UNCHANGED pending
      BY DEF PersistEffect
    <2>2. (u \in DOMAIN rows /\ rows'[u] = rows[u]) \/ u = t
      BY <1>2, PutIsKept
    <2> QED BY <1>2, <2>1, <2>2 DEF RowStep
  <1> QED BY <1>1, <1>2 DEF PersistEffect

LEMMA RowSteps ==
    ASSUME TypeOK, [Next]_vars, NEW u \in DOMAIN rows'
    PROVE  RowStep(u)
  <1>1. StoresType
    BY DEF TypeOK
  <1>2. CASE UNCHANGED rows
    BY <1>2 DEF RowStep
  <1>3. ASSUME NEW t \in Ids, Heal(t) PROVE RowStep(u)
    BY <1>1, <1>3, ResolvedRows DEF Heal, HealTargets, TypeOK, CallTypeOK
  <1>4. ASSUME NEW t \in Ids, Expire(t) PROVE RowStep(u)
    BY <1>4, MaterialisedRows DEF Expire, ExpireTargets
  <1>5. CASE ApplyToKnownSlot
    <2>1. PICK i \in KnownTargets(call.sig) :
            LET t == call.sig.targets[i]
            IN  \/ rows' = [rows EXCEPT ![t] = RowAfter(@, Incoming(call.sig))]
                \/ UNCHANGED rows
      BY <1>5 DEF ApplyToKnownSlot
    <2> QED BY <1>1, <1>2, <2>1, WriteKeepsAuthor DEF KnownTargets
  <1>6. CASE PersistEvicted
    <2>1. cur \in DOMAIN pending /\ UNCHANGED todo
      BY <1>6 DEF PersistEvicted, TypeOK, StepNeeds
    <2>2. CASE cur \notin known
      BY <1>6, <2>1, <2>2, MaterialisedRows DEF PersistEvicted
    <2>3. CASE /\ cur \in known
               /\ rows' = [rows EXCEPT ![cur] = RowAfter(@, Incoming(pending[cur].sig))]
      <3>1. cur \in DOMAIN rows
        BY <2>3 DEF TypeOK, CallTypeOK
      <3> QED BY <1>1, <2>3, <3>1, WriteKeepsAuthor
    <2> QED BY <1>2, <1>6, <2>2, <2>3 DEF PersistEvicted
  <1>7. ASSUME NEW t \in Originals, AppendOriginal(t) PROVE RowStep(u)
    <2>1. UNCHANGED <<pending, todo>>
      BY <1>7 DEF AppendOriginal, regs
    <2> DEFINE new == [author |-> AuthorOf[t], rev |-> 0, tomb |-> FALSE, content |-> Original]
    <2>2. CASE t \notin DOMAIN rows /\ rows' = Put(rows, t, new)
      <3>1. (u \in DOMAIN rows /\ rows'[u] = rows[u]) \/ (u = t /\ rows'[u] = new)
        BY <2>2, PutIsKept
      <3> QED BY <2>1, <2>2, <3>1 DEF RowStep
    <2> QED BY <1>2, <1>7, <2>2 DEF AppendOriginal
  <1>8. ASSUME NEW t \in Originals, StartResolve(t) PROVE RowStep(u)
    BY <1>1, <1>8, ResolvedRows DEF StartResolve, TypeOK, EnvType
  <1> QED
    BY <1>2, <1>3, <1>4, <1>5, <1>6, <1>7, <1>8
    DEF Next, CallStep, WriteSlotMeta, Unbuffer, Unmark, Supersede, Release, EndSweep,
        BufferSignal, Insert, EvictBare, EvictExpired, Swap, Done, StartApply, OpenThread,
        Tick, Crash, stores, vars

LEMMA AuthorStays ==
    ASSUME TypeOK, [Next]_vars, NEW u \in DOMAIN rows
    PROVE  u \in DOMAIN rows' /\ rows'[u].author = rows[u].author
  <1>1. u \in DOMAIN rows'
    BY StepAdvancesRows DEF RowAdvances
  <1> QED BY <1>1, RowSteps DEF RowStep

LEMMA BufferSteps ==
    ASSUME TypeOK, [Next]_vars, NEW t \in DOMAIN pending'
    PROVE  \/ t \in DOMAIN pending /\ pending'[t] = pending[t]
           \/ pc \in {"insert", "swap"} /\ todo # <<>> /\ t = todo[1] /\ pending'[t] = Candidate
  <1>0. pc \in {"insert", "swap"} => todo # <<>> /\ Head(todo) = todo[1]
    BY DEF TypeOK, CallTypeOK, StepNeeds
  <1>1. CASE UNCHANGED pending
    BY <1>1
  <1>2. CASE Unbuffer \/ Release
    BY <1>2, DroppedIsKept DEF Unbuffer, Release
  <1>3. CASE Insert
    BY <1>0, <1>3, PutIsKept DEF Insert
  <1>4. ASSUME NEW v, EvictBare(v)
        PROVE  \/ t \in DOMAIN pending /\ pending'[t] = pending[t]
               \/ pc \in {"insert", "swap"} /\ todo # <<>> /\ t = todo[1] /\ pending'[t] = Candidate
    <2>1. pc = "insert" /\ pending' = Put(Drop(pending, {v}), Head(todo), Candidate)
      BY <1>4 DEF EvictBare, AtCap
    <2> QED BY <1>0, <2>1, SwapIsKept
  <1>5. CASE Swap
    <2>1. pc = "swap" /\ pending' = Put(Drop(pending, {cur}), Head(todo), Candidate)
      BY <1>5 DEF Swap
    <2> QED BY <1>0, <2>1, SwapIsKept
  <1> QED
    BY <1>1, <1>2, <1>3, <1>4, <1>5
    DEF Next, CallStep, WriteSlotMeta, Unmark, Heal, ResolveKnown, Expire, PersistEffect,
        PersistEvicted, Supersede, EndSweep, ApplyToKnownSlot, BufferSignal, EvictExpired,
        Done, StartApply, AppendOriginal, StartResolve, OpenThread, Tick, Crash, stores, vars

LEMMA TodoSteps ==
    ASSUME TypeOK, [Next]_vars
    PROVE  \/ todo' = todo \/ todo' = <<>>
           \/ todo' = Tail(todo) /\ todo # <<>> /\ pc \in {"insert", "swap"}
           \/ /\ pc = "main" /\ call.sig \in Signals /\ todo' = call.sig.targets
              /\ KnownTargets(call.sig) = {} /\ UNCHANGED rows
  <1>1. pc = "main" => call.sig \in Signals
    BY DEF TypeOK, CallTypeOK, CallType, NoCall, StepNeeds
  <1>2. pc \in {"insert", "swap"} => todo # <<>>
    BY DEF TypeOK, StepNeeds
  <1> QED
    BY <1>1, <1>2
    DEF Next, CallStep, WriteSlotMeta, Unbuffer, Unmark, Heal, ResolveKnown, Expire,
        PersistEvicted, Supersede, Release, EndSweep, ApplyToKnownSlot, BufferSignal, Insert,
        EvictBare, EvictExpired, AtCap, NextTarget, Swap,
        Done, StartApply, AppendOriginal, StartResolve, OpenThread, Tick, Crash, stores, vars, regs

-----------------------------------------------------------------------------
(* The parts of the invariant that say where rows and records come from.      *)

LEMMA OriginalRowsStep ==
    ASSUME Addressed, DurableInv, [Next]_vars
    PROVE  OriginalRows'
  <1> SUFFICES ASSUME NEW u \in DOMAIN rows' PROVE u \in Originals
    BY DEF OriginalRows
  <1>1. TypeOK /\ AuthorInv /\ OriginalRows
    BY DEF DurableInv
  <1>2. RowStep(u)
    BY <1>1, RowSteps
  <1> QED BY <1>1, <1>2, EditNamesOriginal DEF RowStep, OriginalRows

LEMMA ForeignStep ==
    ASSUME DurableInv, [Next]_vars
    PROVE  ForeignInv'
  <1>1. TypeOK /\ AuthorInv /\ ForeignInv /\ ToBuffer
    BY DEF DurableInv, AuthorInv
  <1>2. ASSUME NEW u, Foreign(u)', ~Foreign(u)
        PROVE  /\ u \in DOMAIN pending /\ pending[u].sig.kind = "edit"
               /\ pc \in {"sweep", "evict"} /\ UNCHANGED <<pending, todo>>
    <2>1. u \in DOMAIN rows' /\ u \in Originals /\ rows'[u].author # AuthorOf[u]
      BY <1>2 DEF Foreign
    <2>2. RowStep(u)
      BY <1>1, <2>1, RowSteps
    <2> QED BY <1>2, <2>1, <2>2 DEF Foreign, RowStep
  <1>3. ASSUME NEW t \in DOMAIN pending', Foreign(t)' PROVE pending'[t].sig.kind = "edit"
    <2>1. CASE Foreign(t)
      <3>1. t \in DOMAIN pending /\ pending'[t] = pending[t]
        BY <1>1, <2>1, BufferSteps DEF ForeignInv
      <3> QED BY <1>1, <2>1, <3>1 DEF ForeignInv
    <2>2. CASE ~Foreign(t)
      BY <1>2, <1>3, <2>2
    <2> QED BY <2>1, <2>2
  <1>4. ASSUME NEW u, todo' # <<>>, u = todo'[1], Foreign(u)' PROVE FALSE
    <2>1. todo \in Seq(Ids) /\ pc = "sweep" => todo = <<>>
      BY <1>1 DEF TypeOK, CallTypeOK, StepNeeds
    <2>2. CASE todo' = todo
      <3>1. u = todo[1] /\ ~Foreign(u)
        BY <1>1, <1>4, <2>2 DEF ForeignInv
      <3>2. u \in DOMAIN pending /\ pc \in {"sweep", "evict"}
        BY <1>2, <1>4, <2>2, <3>1
      <3>3. pc = "evict"
        BY <1>4, <2>1, <2>2, <3>2 DEF TypeOK, StepNeeds, DurableInv
      <3> QED BY <1>1, <3>1, <3>2, <3>3 DEF ToBuffer
    <2>3. CASE todo' = Tail(todo) /\ todo # <<>> /\ pc \in {"insert", "swap"}
      <3>1. todo'[1] = todo[2] /\ 2 \in DOMAIN todo
        BY <1>1, <1>4, <2>3 DEF TypeOK, CallTypeOK
      <3>2. todo[2] \notin Originals
        BY <1>1, <3>1 DEF ToBuffer
      <3> QED BY <1>4, <3>1, <3>2 DEF Foreign
    <2>4. CASE call.sig \in Signals /\ todo' = call.sig.targets /\ KnownTargets(call.sig) = {}
               /\ UNCHANGED rows
      <3>1. 1 \in DOMAIN call.sig.targets
        BY <2>4, SignalParts
      <3>2. todo'[1] \notin DOMAIN rows
        BY <2>4, <3>1 DEF KnownTargets
      <3> QED BY <1>4, <2>4, <3>2 DEF Foreign
    <2> QED BY <1>1, <1>4, <2>2, <2>3, <2>4, TodoSteps
  <1>5. todo' # <<>> => ~Foreign(todo[1])'
    BY <1>4 DEF Foreign
  <1> QED BY <1>3, <1>5 DEF ForeignInv

(* A delete about to be recorded for a row is the one just applied to it.     *)
LEMMA AppliedRecord ==
    ASSUME TypeOK, [Next]_vars, NEW t \in DOMAIN rows, NEW w \in IncType, w.kind # "none",
           rows' = [rows EXCEPT ![t] = RowAfter(@, w)],
           \A d \in Signals : d.rid = w.rid => w = Incoming(d)
    PROVE  \A d \in Signals : d.kind = "delete" /\ d.rid = w.rid => Reflects(t, d.rev)'
  <1> SUFFICES ASSUME NEW d \in Signals, d.kind = "delete", d.rid = w.rid
               PROVE  Reflects(t, d.rev)'
    OBVIOUS
  <1>1. w.kind = "delete" /\ w.rev = d.rev
    BY SignalParts
  <1>2. StoresType
    BY DEF TypeOK
  <1>3. Reflects(t, w.rev)'
    BY <1>1, <1>2, AppliedReflects
  <1> QED BY <1>1, <1>3

LEMMA OneSignalEach ==
    ASSUME NEW s \in Signals
    PROVE  \A d \in Signals : d.rid = Incoming(s).rid => Incoming(s) = Incoming(d)
  BY SameRid, SignalParts

LEMMA WinnerIsOneSignal ==
    ASSUME TypeOK, NEW t, NEW author, NEW w \in Winner(t, author)
    PROVE  /\ w \in IncType /\ w.kind # "none"
           /\ \A d \in Signals : d.rid = w.rid => w = Incoming(d)
  <1>1. StoresType /\ w \in IncType /\ w.kind # "none"
    BY WinnerType DEF TypeOK
  <1>2. CASE t \in DOMAIN pending /\ w = Incoming(pending[t].sig)
    <2>1. pending[t].sig \in Signals
      BY <1>1, <1>2 DEF StoresType, EntryType
    <2> QED BY <1>1, <1>2, <2>1, OneSignalEach
  <1>3. CASE w = MarkerSignal(markers[t])
    <2>1. w.rid = NoRid /\ \A d \in Signals : d.rid # NoRid
      BY <1>3, SignalParts DEF MarkerSignal, NoRid
    <2> QED BY <1>1, <2>1
  <1> QED BY <1>2, <1>3 DEF Winner

LEMMA ResolvedRecord ==
    ASSUME TypeOK, [Next]_vars, NEW t \in DOMAIN rows, NEW author, ResolveKnown(t, author),
           pc' = "meta"
    PROVE  \A d \in Signals : d.kind = "delete" /\ d.rid = inc'.rid => Reflects(cur, d.rev)'
  <1>1. PICK w \in Winner(t, author) : rows' = [rows EXCEPT ![t] = RowAfter(@, w)] /\ inc' = w
    BY DEF ResolveKnown
  <1>2. cur' = t
    BY DEF ResolveKnown
  <1>3. /\ w \in IncType /\ w.kind # "none"
        /\ \A d \in Signals : d.rid = w.rid => w = Incoming(d)
    BY WinnerIsOneSignal
  <1>4. \A d \in Signals : d.kind = "delete" /\ d.rid = w.rid => Reflects(t, d.rev)'
    BY <1>1, <1>3, AppliedRecord
  <1> QED BY <1>1, <1>2, <1>4 DEF Reflects

LEMMA MaterialisedRecord ==
    ASSUME NEW s \in Signals, NEW t, NEW next, next # "meta", PersistEffect(t, s, next),
           pc' = "meta"
    PROVE  \A d \in Signals : d.kind = "delete" /\ d.rid = inc'.rid => Reflects(cur, d.rev)'
  <1>1. s.kind = "edit" /\ inc' = Incoming(s)
    BY DEF PersistEffect
  <1> QED BY <1>1, SignalParts, SameRid

(* The record of a row is written by one step only. *)
LEMMA MetaStep == [Next]_vars => WriteSlotMeta \/ UNCHANGED slotMeta
  BY ZenonT(30) DEF Next, CallStep, Unbuffer, Unmark, Heal, ResolveKnown, Expire, PersistEffect,
     PersistEvicted, Supersede, Release, EndSweep, ApplyToKnownSlot, BufferSignal, Insert,
     EvictBare, EvictExpired, Swap, Done, StartApply, AppendOriginal, StartResolve,
     OpenThread, Tick, Crash, stores, vars

LEMMA RecordStep ==
    ASSUME TypeOK, RecordInv, [Next]_vars
    PROVE  RecordInv'
  <1>1. TypeOK /\ RecordInv /\ StoresType
    BY DEF TypeOK
  <1>2. ASSUME NEW t, NEW d \in Signals, Reflects(t, d.rev) PROVE Reflects(t, d.rev)'
    BY <1>1, <1>2, SignalParts, ReflectsPersists
  <1>3. ASSUME NEW t \in DOMAIN slotMeta', NEW d \in Signals, d.kind = "delete",
               d.rid = slotMeta'[t]
        PROVE  Reflects(t, d.rev)'
    <2>1. CASE t \in DOMAIN slotMeta /\ slotMeta'[t] = slotMeta[t]
      BY <1>1, <1>2, <1>3, <2>1 DEF RecordInv
    <2>2. CASE WriteSlotMeta
      <3>1. slotMeta' \in PutCapped(slotMeta, cur, inc.rid) /\ pc = "meta"
        BY <2>2 DEF WriteSlotMeta
      <3>2. \/ t \in DOMAIN slotMeta /\ slotMeta'[t] = slotMeta[t]
            \/ t = cur /\ slotMeta'[t] = inc.rid
        <4>1. CASE slotMeta' = Put(slotMeta, cur, inc.rid)
          BY <4>1, PutIsKept
        <4>2. ASSUME NEW old, slotMeta' = Put(Drop(slotMeta, {old}), cur, inc.rid)
              PROVE  \/ t \in DOMAIN slotMeta /\ slotMeta'[t] = slotMeta[t]
                     \/ t = cur /\ slotMeta'[t] = inc.rid
          BY <4>2, SwapIsKept
        <4> QED BY <3>1, <4>1, <4>2 DEF PutCapped
      <3>3. CASE t = cur /\ slotMeta'[t] = inc.rid
        BY <1>1, <1>2, <1>3, <3>1, <3>3 DEF RecordInv
      <3> QED BY <2>1, <3>2, <3>3
    <2>3. WriteSlotMeta \/ UNCHANGED slotMeta
      BY MetaStep
    <2> QED BY <1>3, <2>1, <2>2, <2>3
  <1>4. ASSUME pc' = "meta"
        PROVE  \A d \in Signals : d.kind = "delete" /\ d.rid = inc'.rid => Reflects(cur, d.rev)'
    <2>1. CASE pc = "meta" /\ UNCHANGED <<cur, inc>>
      <3>1. \A d \in Signals : d.kind = "delete" /\ d.rid = inc.rid => Reflects(cur, d.rev)'
        BY <1>1, <1>2, <2>1 DEF RecordInv, Reflects
      <3> QED BY <2>1, <3>1
    <2>2. ASSUME NEW t \in Ids, Heal(t)
          PROVE  \A d \in Signals : d.kind = "delete" /\ d.rid = inc'.rid => Reflects(cur, d.rev)'
      BY <1>1, <1>4, <2>2, ResolvedRecord DEF Heal, HealTargets, TypeOK, CallTypeOK
    <2>3. ASSUME NEW t \in Originals, StartResolve(t)
          PROVE  \A d \in Signals : d.kind = "delete" /\ d.rid = inc'.rid => Reflects(cur, d.rev)'
      BY <1>1, <1>4, <2>3, ResolvedRecord DEF StartResolve, TypeOK, EnvType
    <2>4. ASSUME NEW t \in Ids, Expire(t)
          PROVE  \A d \in Signals : d.kind = "delete" /\ d.rid = inc'.rid => Reflects(cur, d.rev)'
      <3>1. pending[t].sig \in Signals /\ PersistEffect(t, pending[t].sig, "release")
        BY <1>1, <2>4 DEF Expire, ExpireTargets, StoresType, EntryType
      <3> QED BY <1>4, <3>1, MaterialisedRecord
    <2>5. CASE PersistEvicted
      <3> DEFINE s == pending[cur].sig
      <3>1. cur \in DOMAIN pending /\ s \in Signals
        BY <1>1, <2>5 DEF PersistEvicted, TypeOK, StepNeeds, StoresType, EntryType
      <3>2. CASE cur \notin known
        BY <1>4, <2>5, <3>1, <3>2, MaterialisedRecord DEF PersistEvicted
      <3>3. CASE cur \in known
        <4>1. /\ rows' = [rows EXCEPT ![cur] = RowAfter(@, Incoming(s))]
              /\ inc' = Incoming(s) /\ cur' = cur
          BY <1>4, <2>5, <3>3 DEF PersistEvicted
        <4>2. cur \in DOMAIN rows
          BY <1>1, <3>3 DEF TypeOK, CallTypeOK
        <4> HIDE DEF s
        <4>3. PICK c, w : c = cur /\ w = Incoming(s)
          OBVIOUS
        <4>4. c \in DOMAIN rows /\ rows' = [rows EXCEPT ![c] = RowAfter(@, w)]
          BY <4>1, <4>2, <4>3
        <4>5. /\ w \in IncType /\ w.kind # "none"
              /\ \A d \in Signals : d.rid = w.rid => w = Incoming(d)
          BY <3>1, <4>3, IncomingType, OneSignalEach
        <4>6. \A d \in Signals : d.kind = "delete" /\ d.rid = w.rid => Reflects(c, d.rev)'
          BY <1>1, <4>4, <4>5, AppliedRecord
        <4> QED BY <4>1, <4>3, <4>6 DEF Reflects
      <3> QED BY <3>2, <3>3
    <2>6. CASE ApplyToKnownSlot
      <3> DEFINE s == call.sig
      <3>1. s \in Signals
        BY <2>6, <1>1 DEF ApplyToKnownSlot, TypeOK, StepNeeds, CallTypeOK, CallType, NoCall
      <3>2. PICK i \in KnownTargets(s) :
              /\ rows' = [rows EXCEPT ![s.targets[i]] = RowAfter(@, Incoming(s))]
              /\ inc' = Incoming(s) /\ cur' = s.targets[i]
        BY <1>4, <2>6 DEF ApplyToKnownSlot
      <3>3. s.targets[i] \in DOMAIN rows
        BY DEF KnownTargets
      <3> HIDE DEF s
      <3>4. PICK c, w : c = s.targets[i] /\ w = Incoming(s)
        OBVIOUS
      <3>5. c \in DOMAIN rows /\ rows' = [rows EXCEPT ![c] = RowAfter(@, w)]
        BY <3>2, <3>3, <3>4
      <3>6. /\ w \in IncType /\ w.kind # "none"
            /\ \A d \in Signals : d.rid = w.rid => w = Incoming(d)
        BY <3>1, <3>4, IncomingType, OneSignalEach
      <3>7. \A d \in Signals : d.kind = "delete" /\ d.rid = w.rid => Reflects(c, d.rev)'
        BY <1>1, <3>5, <3>6, AppliedRecord
      <3> QED BY <3>2, <3>4, <3>7 DEF Reflects
    <2>7. pc = "meta" => ret # "meta"
      BY <1>1 DEF TypeOK, CallTypeOK
    <2> QED BY <1>4, <2>1, <2>2, <2>3, <2>4, <2>5, <2>6, <2>7
         DEF Next, CallStep, WriteSlotMeta, Unbuffer, Unmark,
         Supersede, Release, EndSweep, BufferSignal, Insert, NextTarget,
         EvictBare, EvictExpired, Swap, Done, StartApply, AppendOriginal,
         OpenThread, Tick, Crash, stores, vars, regs
  <1> QED BY <1>3, <1>4 DEF RecordInv

-----------------------------------------------------------------------------
LEMMA OwnSlotStep ==
    ASSUME DurableInv, [Next]_vars
    PROVE  OwnSlotInv'
  <1>0. TypeOK /\ OwnSlotInv
    BY DEF DurableInv
  <1>1. CASE pc \in {"main", "insert", "evict", "swap", "done"} /\ UNCHANGED call
    BY <1>0, <1>1 DEF OwnSlotInv, TypeOK, StepNeeds
  <1>2. CASE WriteSlotMeta
    BY <1>0, <1>2 DEF OwnSlotInv, OwnSlot, Materialising, WriteSlotMeta, TypeOK, StepNeeds,
                      CallTypeOK
  <1>3. CASE Unbuffer
    <2>1. cur \notin DOMAIN pending'
      BY <1>3, DroppedIsKept DEF Unbuffer, EntriesOf
    <2>2. DOMAIN pending' \subseteq DOMAIN pending
      BY <1>3, DroppedIsKept DEF Unbuffer
    <2> QED BY <1>0, <1>3, <2>1, <2>2 DEF OwnSlotInv, OwnSlot, Materialising, Unbuffer
  <1>4. CASE Unmark
    BY <1>0, <1>4 DEF OwnSlotInv, OwnSlot, Materialising, Unmark
  <1>5. ASSUME NEW t \in Ids, Heal(t) PROVE OwnSlotInv'
    BY <1>0, <1>5 DEF OwnSlotInv, OwnSlot, Materialising, Heal, ResolveKnown, HealTargets, InSweep
  <1>6. ASSUME NEW t \in Ids, Expire(t) PROVE OwnSlotInv'
    BY <1>0, <1>6 DEF OwnSlotInv, OwnSlot, Materialising, Expire, PersistEffect, ExpireTargets,
                      InSweep
  <1>7. CASE Supersede
    BY <1>0, <1>7 DEF OwnSlotInv, OwnSlot, Materialising, Supersede
  <1>8. CASE Release
    BY <1>0, <1>8, DroppedIsKept DEF OwnSlotInv, OwnSlot, Materialising, Release
  <1>9. CASE call'.op # "resolve"
    BY <1>9 DEF OwnSlotInv
  <1>10. ASSUME NEW t \in Originals, StartResolve(t) PROVE OwnSlotInv'
    BY <1>10 DEF OwnSlotInv, OwnSlot, Materialising, StartResolve, ResolveKnown
  <1>11. CASE UNCHANGED <<pc, call, cur, ret, pending>>
    BY <1>0, <1>11 DEF OwnSlotInv, OwnSlot, Materialising
  <1>12. CASE EndSweep \/ Crash \/ (\E s \in Signals : StartApply(s))
              \/ (\E th \in Threads : OpenThread(th))
    <2>1. call'.op # "resolve"
      BY <1>12 DEF EndSweep, Crash, StartApply, OpenThread, NoCall
    <2> QED BY <1>9, <2>1
  <1>13. CASE Done
    BY <1>9, <1>13 DEF Done, NoCall
  <1>14. CASE ApplyToKnownSlot \/ BufferSignal \/ Insert
              \/ (\E v \in Ids : EvictBare(v) \/ EvictExpired(v)) \/ PersistEvicted \/ Swap
    BY <1>1, <1>14 DEF ApplyToKnownSlot, BufferSignal, Insert, EvictBare, EvictExpired, AtCap,
                       PersistEvicted, Swap
  <1>15. CASE Tick \/ (\E t \in Originals : AppendOriginal(t)) \/ UNCHANGED vars
    BY <1>11, <1>15 DEF Tick, AppendOriginal, vars, stores, regs
  <1> QED BY <1>2, <1>3, <1>4, <1>5, <1>6, <1>7, <1>8, <1>10, <1>12, <1>13, <1>14, <1>15
       DEF Next, CallStep

-----------------------------------------------------------------------------
(* What has been made durable stays so while the markers are left alone.      *)
LEMMA PersistedKept ==
    ASSUME TypeOK, [Next]_vars, NEW s \in Signals, s.kind = "delete",
           ByMarker(s) => ByMarker(s)', Persisted(s)
    PROVE  Persisted(s)'
  <1>1. CASE ByRow(s)
    <2>1. Reflects(Slot(s), s.rev)'
      BY <1>1, DeleteByRow, ReflectsPersists, SignalParts
    <2> QED BY <2>1, DeleteByRow DEF Persisted
  <1>2. CASE ByMarker(s)
    BY <1>2 DEF Persisted
  <1>3. CASE Slot(s) \in DOMAIN rows /\ rows[Slot(s)].author # s.author
    BY <1>3, AuthorStays DEF Persisted, Slot
  <1> QED BY <1>1, <1>2, <1>3 DEF Persisted

(* Resolving a row makes its buffered delete durable. *)
LEMMA ResolvedIsPersisted ==
    ASSUME DurableInv, [Next]_vars, NEW t \in DOMAIN rows, NEW author, ResolveKnown(t, author),
           author = rows[t].author \/ (t \in Originals /\ author = AuthorOf[t]), OwnDelete(t)
    PROVE  Persisted(pending[t].sig)'
  <1>1. PICK s \in Signals : s = pending[t].sig
    BY EntryParts DEF DurableInv, OwnDelete
  <1>2. TypeOK /\ StoresType /\ AuthorInv /\ RecordInv /\ UNCHANGED <<pending, markers>>
    BY DEF DurableInv, TypeOK, ResolveKnown
  <1>3. t \in DOMAIN pending /\ s.kind = "delete" /\ Slot(s) = t /\ s.rev \in Nat /\ s.rid \in Nat
    BY <1>1, SignalParts DEF OwnDelete
  <1>4. SUFFICES Persisted(s)'
    BY <1>1, <1>2 DEF Persisted, ByRow, ByMarker, Slot
  <1>5. ByMarker(s) => ByMarker(s)'
    BY <1>2 DEF ByMarker
  <1>6. CASE rows[t].author # s.author
    BY <1>2, <1>3, <1>5, <1>6, PersistedKept DEF Persisted
  <1>7. CASE rows[t].author = s.author
    <2>1. author = s.author
      <3>1. ~Foreign(t)
        BY <1>1, <1>3 DEF DurableInv, ForeignInv
      <3> QED BY <1>7, <3>1 DEF Foreign
    <2> DEFINE m == MarkerSignal(markers[t])
    <2>2. CASE t \in DOMAIN markers /\ SignalBeats(m, Incoming(s))
      <3>1. ByMarker(s)
        BY <1>3, <2>2, SignalParts DEF ByMarker, SignalBeats
      <3> QED BY <1>5, <3>1 DEF Persisted
    <2>3. CASE Winner(t, author) = {Incoming(s)}
      <3>1. PICK w : w = Incoming(s)
        OBVIOUS
      <3>2. /\ w \in IncType /\ w.kind = "delete" /\ w.rev = s.rev /\ w.rid = s.rid
        BY <1>3, <3>1, IncomingType, SignalParts
      <3>3. CASE WinsAt(t, w)
        <4>1. rows' = [rows EXCEPT ![t] = RowAfter(@, w)]
          BY <2>3, <3>1, <3>3 DEF ResolveKnown
        <4>2. Reflects(t, w.rev)'
          BY <1>2, <3>2, <4>1, AppliedReflects
        <4> QED BY <1>3, <3>2, <4>2, DeleteByRow DEF Persisted
      <3>4. CASE ~WinsAt(t, w)
        <4>1. rows[t] \in RowType
          BY <1>2 DEF StoresType
        <4>2. w.rid = LastRid(t) \/ w.rev < rows[t].rev
          BY <3>2, <3>4, <4>1, <1>3 DEF WinsAt, RowType
        <4>3. ASSUME w.rid = LastRid(t) PROVE Reflects(t, w.rev)
          <5>1. t \in DOMAIN slotMeta /\ slotMeta[t] = s.rid
            BY <1>3, <3>2, <4>3 DEF LastRid, NoMeta
          <5> QED BY <1>2, <1>3, <3>2, <5>1 DEF RecordInv
        <4>4. Reflects(t, s.rev)
          BY <1>3, <3>2, <4>1, <4>2, <4>3 DEF Reflects, RowType
        <4>5. Persisted(s)
          BY <1>3, <4>4, DeleteByRow DEF Persisted
        <4> QED BY <1>2, <1>3, <1>5, <4>5, PersistedKept
      <3> QED BY <3>3, <3>4
    <2>4. \/ t \in DOMAIN markers /\ SignalBeats(m, Incoming(s))
          \/ Winner(t, author) = {Incoming(s)}
      BY <1>1, <1>3, <2>1 DEF Winner
    <2> QED BY <2>2, <2>3, <2>4
  <1> QED BY <1>6, <1>7

(* Persisting an expired delete marks it. *)
LEMMA MarkedIsPersisted ==
    ASSUME NEW s \in Signals, s.kind = "delete", TypeOK, NEW t, t = Slot(s),
           markers' \in UpsertMarker(t, s)
    PROVE  ByMarker(s)'
  <1>1. s.rev \in Nat
    BY SignalParts
  <1>2. CASE t \in DOMAIN markers /\ s.rev <= markers[t].rev /\ markers' = markers
    <2>1. markers[t].rev \in Nat
      BY <1>2 DEF TypeOK, StoresType, MarkerType
    <2> QED BY <1>1, <1>2, <2>1 DEF ByMarker, SignalBeats, MarkerSignal, Slot
  <1>3. CASE markers' \in PutCapped(markers, t, [rev |-> s.rev, author |-> s.author])
    <2>1. PICK f : markers' = Put(f, t, [rev |-> s.rev, author |-> s.author])
      BY <1>3 DEF PutCapped
    <2>2. t \in DOMAIN markers' /\ markers'[t].rev = s.rev
      BY <2>1 DEF Put
    <2> QED BY <1>1, <2>2 DEF ByMarker, SignalBeats, MarkerSignal, Slot
  <1> QED BY <1>2, <1>3 DEF UpsertMarker

-----------------------------------------------------------------------------
(* Of the entries of one delete that have expired, the original's comes first. *)
LEMMA OriginalFirst ==
    ASSUME Addressed, DurableInv, SiblingsInOrder, [Next]_vars, NEW t \in Ids, Expire(t),
           NEW d \in Signals, d = pending[t].sig, d.kind = "delete",
           OwnDelete(Slot(d)), pending[Slot(d)].sig = d, Slot(d) # t
    PROVE  ByRow(d)' \/ ByMarker(d)'
  <1>1. PICK v : v = Slot(d)
    OBVIOUS
  <1>2. TypeOK /\ AuthorInv
    BY DEF DurableInv
  <1>3. /\ t \in DOMAIN pending \ known /\ InSweep(t) /\ Expired(t) /\ pc = "sweep"
        /\ HealTargets = {} /\ \A u \in ExpireTargets : ~SiblingBefore(u, t)
        /\ PersistEffect(t, d, "release")
    BY DEF Expire, ExpireTargets
  <1>4. v \in DOMAIN pending /\ v # t /\ pending[v].sig = d
    BY <1>1 DEF OwnDelete
  <1>5. /\ pending[t].at \in Int /\ pending[v].at \in Int /\ clock \in Int /\ TTL \in Int
        /\ t \in Targets(d)
    BY <1>2, <1>3, <1>4, EntryParts, ConstantsAssumption
  <1>6. InSweep(v)
    <2>1. ThreadOf[v] = ThreadOf[t]
      BY <1>1, <1>5 DEF Addressed, Targets
    <2>2. call.op = "resolve" => v # call.slot
      BY <1>3, <1>4 DEF DurableInv, OwnSlotInv, OwnSlot
    <2> QED BY <1>3, <2>1, <2>2 DEF InSweep
  <1>7. v \notin known
    BY <1>3, <1>4, <1>6 DEF HealTargets
  <1>8. ASSUME pending[v].at <= pending[t].at PROVE FALSE
    <2>1. Expired(v)
      BY <1>3, <1>5, <1>8 DEF Expired
    <2>2. v \in ExpireTargets
      BY <1>4, <1>6, <1>7, <2>1 DEF ExpireTargets
    <2>3. SiblingBefore(v, t)
      BY <1>1, <1>4, <1>5, <1>8 DEF SiblingBefore
    <2> QED BY <1>3, <2>2, <2>3
  <1>9. ByRow(d) \/ (ByMarker(d) /\ Cardinality(DOMAIN markers) < Cap)
    BY <1>1, <1>3, <1>4, <1>8 DEF SiblingsInOrder
  <1>10. CASE ByRow(d)
    BY <1>2, <1>10, DeleteByRow, ReflectsPersists, SignalParts
  <1>11. CASE ByMarker(d) /\ Cardinality(DOMAIN markers) < Cap
    <2>1. v \in DOMAIN markers' /\ markers'[v] = markers[v]
      <3>1. v \in DOMAIN markers
        BY <1>1, <1>11 DEF ByMarker
      <3>2. markers' = markers \/ markers' = Put(markers, t, [rev |-> d.rev, author |-> d.author])
        BY <1>3, <1>11 DEF PersistEffect, UpsertMarker, PutCapped
      <3> QED BY <1>4, <3>1, <3>2 DEF Put
    <2> QED BY <1>1, <1>11, <2>1 DEF ByMarker, Slot
  <1> QED BY <1>9, <1>10, <1>11

LEMMA ExpireLeaves ==
    ASSUME Addressed, DurableInv, SiblingsInOrder, [Next]_vars, NEW t \in Ids, Expire(t)
    PROVE  LeavingInv'
  <1>1. TypeOK /\ AuthorInv
    BY DEF DurableInv
  <1>2. t \in DOMAIN pending /\ PersistEffect(t, pending[t].sig, "release")
    BY DEF Expire, ExpireTargets
  <1>3. PICK s \in Signals : s = pending[t].sig
    BY <1>1, <1>2, EntryParts
  <1>4. cur' = t /\ inc' = Incoming(s) /\ UNCHANGED pending /\ inc'.rid = s.rid
    BY <1>2, <1>3, SignalParts DEF PersistEffect
  <1>5. CASE s.kind = "edit"
    <2>1. pc' = "release" \/ (pc' = "meta" /\ ret' = "supersede")
      BY <1>2, <1>3, <1>5 DEF PersistEffect
    <2> QED BY <1>2, <1>3, <1>4, <1>5, <2>1 DEF LeavingInv, Materialising, Removing, OwnDelete
  <1>6. CASE s.kind = "delete" /\ markers' \in UpsertMarker(t, s) /\ pc' = "release"
    <2>1. OwnDelete(t) => ByMarker(s)'
      BY <1>1, <1>3, <1>6, MarkedIsPersisted DEF OwnDelete
    <2>2. OwnDelete(cur)' => Persisted(pending[cur].sig)'
      BY <1>3, <1>4, <2>1 DEF Persisted, ByMarker, Slot, OwnDelete
    <2>3. ASSUME OwnDelete(Slot(s)), pending[Slot(s)].sig = s, Slot(s) # t
          PROVE  ByRow(s)' \/ ByMarker(s)'
      BY <1>3, <1>6, <2>3, OriginalFirst
    <2>4. LET d == pending[cur].sig
          IN  (d.kind = "delete" /\ OwnDelete(Slot(d)) /\ pending[Slot(d)].sig = d
               => Slot(d) = cur \/ ByRow(d) \/ ByMarker(d))'
      <3>1. ASSUME (OwnDelete(Slot(s)) /\ pending[Slot(s)].sig = s)', Slot(s) # t
            PROVE  ByRow(s)' \/ ByMarker(s)'
        BY <1>4, <2>3, <3>1 DEF OwnDelete, Slot
      <3> QED BY <1>3, <1>4, <3>1 DEF ByRow, ByMarker, Slot, OwnDelete
    <2>5. cur' \in DOMAIN pending' /\ inc'.rid = pending'[cur'].sig.rid /\ ~Materialising'
      BY <1>2, <1>3, <1>4, <1>6 DEF Materialising
    <2> QED BY <1>6, <2>2, <2>4, <2>5 DEF LeavingInv
  <1> QED BY <1>2, <1>3, <1>5, <1>6 DEF PersistEffect

LEMMA ResolveLeaves ==
    ASSUME DurableInv, [Next]_vars, NEW t \in DOMAIN rows, NEW author, ResolveKnown(t, author),
           author = rows[t].author \/ (t \in Originals /\ author = AuthorOf[t])
    PROVE  LeavingInv'
  <1>1. /\ cur' = t /\ ret' = "unbuffer" /\ pc' \in {"meta", "unbuffer"}
        /\ UNCHANGED pending /\ t \in DOMAIN rows'
    BY StepAdvancesRows DEF ResolveKnown, DurableInv, RowAdvances
  <1>2. OwnDelete(cur)' => Persisted(pending[cur].sig)'
    <2>1. OwnDelete(t) => Persisted(pending[t].sig)'
      BY ResolvedIsPersisted
    <2> QED BY <1>1, <2>1 DEF OwnDelete, Persisted, ByRow, ByMarker, Slot
  <1> QED BY <1>1, <1>2 DEF LeavingInv, Materialising

LEMMA EvictedLeaves ==
    ASSUME DurableInv, [Next]_vars, PersistEvicted
    PROVE  LeavingInv'
  <1>1. TypeOK /\ AuthorInv /\ StoresType
    BY DEF DurableInv, TypeOK
  <1>2. PICK c : c = cur
    OBVIOUS
  <1>3. c \in DOMAIN pending
    BY <1>1, <1>2 DEF PersistEvicted, TypeOK, StepNeeds
  <1>4. PICK s \in Signals : s = pending[c].sig
    BY <1>1, <1>3, EntryParts
  <1>5. s.kind \in {"delete", "edit"} /\ s.rev \in Nat /\ s.rid \in Nat
    BY SignalParts
  <1>6. UNCHANGED pending /\ cur' = c
    BY <1>2 DEF PersistEvicted, PersistEffect
  <1>7. CASE c \notin known
    <2>1. PersistEffect(c, s, "swap")
      BY <1>2, <1>4, <1>7 DEF PersistEvicted
    <2>2. CASE s.kind = "edit"
      <3>1. pc' = "swap" \/ (pc' = "meta" /\ ret' = "supersede")
        BY <2>1, <2>2 DEF PersistEffect
      <3>2. inc'.rid = s.rid
        BY <2>1, SignalParts DEF PersistEffect
      <3> QED BY <1>3, <1>4, <1>6, <2>2, <3>1, <3>2 DEF LeavingInv, Materialising, Removing, OwnDelete
    <2>3. CASE s.kind = "delete"
      <3>1. markers' \in UpsertMarker(c, s) /\ pc' = "swap"
        BY <2>1, <2>3 DEF PersistEffect
      <3>2. OwnDelete(c) => ByMarker(s)'
        BY <1>1, <1>4, <2>3, <3>1, MarkedIsPersisted DEF OwnDelete
      <3>3. OwnDelete(cur)' => Persisted(pending[cur].sig)'
        BY <1>4, <1>6, <3>2 DEF OwnDelete, Persisted, ByMarker, Slot
      <3> QED BY <3>1, <3>3 DEF LeavingInv, Materialising
    <2> QED BY <1>5, <2>2, <2>3
  <1>8. CASE c \in known
    <2>1. c \in DOMAIN rows /\ rows[c] \in RowType /\ UNCHANGED markers
      BY <1>1, <1>2, <1>8 DEF PersistEvicted, TypeOK, CallTypeOK, StoresType
    <2>2. pc' = "swap" \/ (pc' = "meta" /\ ret' = "swap")
      BY <1>2, <1>8 DEF PersistEvicted
    <2>3. ASSUME OwnDelete(c) PROVE Persisted(s)'
      <3>1. Slot(s) = c /\ s.kind = "delete"
        BY <1>4, <2>3 DEF OwnDelete
      <3>2. PICK w : w = Incoming(s)
        OBVIOUS
      <3>3. w \in IncType /\ w.kind = "delete" /\ w.rev = s.rev /\ w.rid = s.rid
        BY <3>1, <3>2, IncomingType, SignalParts
      <3>4. CASE s.author # rows[c].author
        <4>1. Persisted(s) /\ (ByMarker(s) => ByMarker(s)')
          BY <2>1, <3>1, <3>4 DEF Persisted, ByMarker
        <4> QED BY <1>1, <3>1, <4>1, PersistedKept
      <3>5. CASE rows' = [rows EXCEPT ![c] = RowAfter(@, w)]
        <4>1. Reflects(c, w.rev)'
          BY <1>1, <2>1, <3>3, <3>5, AppliedReflects
        <4> QED BY <3>1, <3>3, <4>1, DeleteByRow DEF Persisted
      <3>6. CASE ~WinsAt(c, w)
        <4>1. w.rid = LastRid(c) \/ w.rev < rows[c].rev
          BY <1>5, <2>1, <3>3, <3>6 DEF WinsAt, RowType
        <4>2. ASSUME w.rid = LastRid(c) PROVE Reflects(c, s.rev)
          <5>1. c \in DOMAIN slotMeta /\ slotMeta[c] = s.rid
            BY <1>5, <3>3, <4>2 DEF LastRid, NoMeta
          <5> QED BY <3>1, <5>1 DEF DurableInv, RecordInv
        <4>3. Reflects(c, s.rev)
          BY <1>5, <2>1, <3>3, <4>1, <4>2 DEF Reflects, RowType
        <4>4. Persisted(s) /\ (ByMarker(s) => ByMarker(s)')
          BY <2>1, <3>1, <4>3, DeleteByRow DEF Persisted, ByMarker
        <4> QED BY <1>1, <3>1, <4>4, PersistedKept
      <3> QED BY <1>2, <1>4, <1>8, <3>1, <3>2, <3>4, <3>5, <3>6 DEF PersistEvicted
    <2>4. OwnDelete(cur)' => Persisted(pending[cur].sig)'
      BY <1>4, <1>6, <2>3 DEF OwnDelete, Persisted, ByRow, ByMarker, Slot
    <2> QED BY <2>2, <2>4 DEF LeavingInv, Materialising
  <1> QED BY <1>7, <1>8

(* What is still to be removed does not notice the other steps. *)
LEMMA LeavingKept ==
    ASSUME DurableInv, [Next]_vars, UNCHANGED <<pc, cur, inc, ret, pending, markers>>
    PROVE  LeavingInv'
  <1>1. TypeOK /\ AuthorInv /\ LeavingInv
    BY DEF DurableInv
  <1>2. PICK c : c = cur
    OBVIOUS
  <1>3. c \in DOMAIN rows => c \in DOMAIN rows'
    BY <1>1, AuthorStays
  <1>4. ASSUME c \in DOMAIN pending
        PROVE  pending[c].sig \in Signals
    BY <1>1, <1>4, EntryParts
  <1>5. ASSUME NEW s \in Signals, s.kind = "delete"
        PROVE  /\ Persisted(s) => Persisted(s)'
               /\ ByMarker(s) => ByMarker(s)'
               /\ ByRow(s) => ByRow(s)'
    <2>1. ByMarker(s) => ByMarker(s)'
      BY DEF ByMarker
    <2>2. ByRow(s) => ByRow(s)'
      BY <1>1, <1>5, DeleteByRow, ReflectsPersists, SignalParts
    <2> QED BY <1>1, <1>5, <2>1, <2>2, PersistedKept
  <1>6. ASSUME Removing, OwnDelete(c) PROVE Persisted(pending[c].sig)'
    <2>1. PICK s \in Signals : s = pending[c].sig
      BY <1>4, <1>6 DEF OwnDelete
    <2>2. Persisted(s)'
      BY <1>1, <1>2, <1>5, <1>6, <2>1 DEF LeavingInv, OwnDelete
    <2> QED BY <2>1, <2>2 DEF Persisted, ByRow, ByMarker, Slot
  <1>7. ASSUME pc = "release", pending[c].sig.kind = "delete",
               OwnDelete(Slot(pending[c].sig)), pending[Slot(pending[c].sig)].sig = pending[c].sig
        PROVE  \/ Slot(pending[c].sig) = c
               \/ ByRow(pending[c].sig)' \/ ByMarker(pending[c].sig)'
    <2>1. c \in DOMAIN pending
      BY <1>1, <1>2, <1>7 DEF LeavingInv
    <2>2. PICK s \in Signals : s = pending[c].sig
      BY <1>4, <2>1
    <2>3. Slot(s) = c \/ ByRow(s) \/ ByMarker(s)
      <3>1. LET d == pending[cur].sig
            IN  d.kind = "delete" /\ OwnDelete(Slot(d)) /\ pending[Slot(d)].sig = d
                => Slot(d) = cur \/ ByRow(d) \/ ByMarker(d)
        BY <1>1, <1>7 DEF LeavingInv
      <3>2. s.kind = "delete" /\ OwnDelete(Slot(s)) /\ pending[Slot(s)].sig = s
        BY <1>7, <2>2
      <3> QED BY <1>2, <2>2, <3>1, <3>2
    <2>4. Slot(s) = c \/ ByRow(s)' \/ ByMarker(s)'
      <3>1. s.kind = "delete"
        BY <1>7, <2>2
      <3> QED BY <1>5, <2>3, <3>1
    <2> QED BY <2>2, <2>4 DEF ByRow, ByMarker, Slot
  <1>8. (Removing' <=> Removing) /\ (Materialising' <=> Materialising)
    BY DEF Removing, Materialising
  <1>9. Removing' /\ OwnDelete(cur)' => Persisted(pending[cur].sig)'
    BY <1>2, <1>6, <1>8 DEF OwnDelete, Persisted, ByRow, ByMarker, Slot
  <1>10. pc' = "release" =>
          LET d == pending[cur].sig
          IN  (d.kind = "delete" /\ OwnDelete(Slot(d)) /\ pending[Slot(d)].sig = d
               => Slot(d) = cur \/ ByRow(d) \/ ByMarker(d))'
    BY <1>2, <1>7 DEF OwnDelete, ByRow, ByMarker, Slot
  <1>11. /\ pc' = "unbuffer" \/ (pc' = "meta" /\ ret' = "unbuffer") => cur' \in DOMAIN rows'
         /\ Materialising' \/ pc' = "release" =>
               cur' \in DOMAIN pending' /\ inc'.rid = pending'[cur'].sig.rid
         /\ Materialising' => pending'[cur'].sig.kind = "edit"
    BY <1>1, <1>2, <1>3, <1>8 DEF LeavingInv
  <1> QED BY <1>9, <1>10, <1>11 DEF LeavingInv

LEMMA LeavingStep ==
    ASSUME Addressed, DurableInv, SiblingsInOrder, [Next]_vars
    PROVE  LeavingInv'
  <1>1. TypeOK /\ LeavingInv
    BY DEF DurableInv
  <1>2. CASE WriteSlotMeta
    <2>1. UNCHANGED <<rows, pending, markers, cur, inc, ret>> /\ pc = "meta" /\ pc' = ret
      BY <1>2 DEF WriteSlotMeta
    <2>2. ret \in {"idle", "unbuffer", "supersede", "swap", "done"}
      BY <1>1 DEF TypeOK, CallTypeOK
    <2>3. (Removing' => Removing) /\ (Materialising' <=> Materialising) /\ pc' # "release"
      BY <2>1, <2>2 DEF Removing, Materialising
    <2>4. OwnDelete(cur)' <=> OwnDelete(cur)
      BY <2>1 DEF OwnDelete
    <2>5. Persisted(pending[cur].sig)' <=> Persisted(pending[cur].sig)
      BY <2>1 DEF Persisted, ByRow, ByMarker, Slot
    <2> QED BY <1>1, <2>1, <2>2, <2>3, <2>4, <2>5 DEF LeavingInv
  <1>3. ASSUME NEW t \in Ids, Heal(t) PROVE LeavingInv'
    <2>1. t \in DOMAIN rows /\ ResolveKnown(t, rows[t].author)
      BY <1>1, <1>3 DEF Heal, HealTargets, TypeOK, CallTypeOK
    <2> QED BY <2>1, ResolveLeaves
  <1>4. ASSUME NEW t \in Originals, StartResolve(t) PROVE LeavingInv'
    <2>1. t \in DOMAIN rows /\ ResolveKnown(t, AuthorOf[t])
      BY <1>1, <1>4 DEF StartResolve, TypeOK, EnvType
    <2> QED BY <2>1, ResolveLeaves
  <1>5. ASSUME NEW t \in Ids, Expire(t) PROVE LeavingInv'
    BY <1>5, ExpireLeaves
  <1>6. CASE Supersede
    <2>1. cur \in DOMAIN pending /\ pending[cur].sig.kind = "edit" /\ inc.rid = pending[cur].sig.rid
      BY <1>1, <1>6 DEF Supersede, LeavingInv, Materialising
    <2>2. UNCHANGED <<pending, cur, inc>> /\ pc' \in {"release", "swap"}
      BY <1>6 DEF Supersede
    <2> QED BY <2>1, <2>2 DEF LeavingInv, Materialising, Removing, OwnDelete
  <1>7. CASE PersistEvicted
    BY <1>7, EvictedLeaves
  <1>8. CASE UNCHANGED <<pc, cur, inc, ret, pending, markers>>
    BY <1>8, LeavingKept
  <1>9. CASE \/ pc' \in {"idle", "sweep", "unmark", "main", "insert", "evict", "done"}
             \/ pc' = "meta" /\ ret' = "done"
    BY <1>9 DEF LeavingInv, Materialising, Removing
  <1>10. CASE Unbuffer \/ Unmark \/ Release \/ EndSweep \/ ApplyToKnownSlot \/ BufferSignal
              \/ Insert \/ (\E v \in Ids : EvictBare(v) \/ EvictExpired(v)) \/ Swap \/ Done
              \/ (\E s \in Signals : StartApply(s)) \/ (\E th \in Threads : OpenThread(th)) \/ Crash
    BY <1>9, <1>10 DEF Unbuffer, Unmark, Release, EndSweep, ApplyToKnownSlot, BufferSignal,
       Insert, EvictBare, EvictExpired, NextTarget, Swap, Done, StartApply, OpenThread, Crash
  <1>11. CASE Tick \/ (\E t \in Originals : AppendOriginal(t)) \/ UNCHANGED vars
    BY <1>8, <1>11 DEF Tick, AppendOriginal, vars, stores, regs
  <1> QED BY <1>2, <1>3, <1>4, <1>5, <1>6, <1>7, <1>10, <1>11 DEF Next, CallStep

-----------------------------------------------------------------------------
LEMMA DurableInit == Init => DurableInv
  <1> SUFFICES ASSUME Init PROVE DurableInv
    OBVIOUS
  <1>1. TypeOK /\ AuthorInv
    BY TypeInit, AuthorInit
  <1>2. OriginalRows /\ ForeignInv /\ RecordInv /\ OwnSlotInv /\ LeavingInv
    BY DEF Init, OriginalRows, ForeignInv, RecordInv, OwnSlotInv, LeavingInv, Materialising,
           Removing, Empty, NoCall
  <1> QED BY <1>1, <1>2 DEF DurableInv

LEMMA DurableStep ==
    ASSUME Addressed, DurableInv, SiblingsInOrder, [Next]_vars
    PROVE  DurableInv'
  <1>1. TypeOK' /\ AuthorInv'
    BY TypeStep, AuthorStep DEF DurableInv
  <1> QED BY <1>1, OriginalRowsStep, ForeignStep, RecordStep, OwnSlotStep, LeavingStep
          DEF DurableInv

(* The entry of an expired delete that goes. *)
LEMMA LeavesDurably ==
    ASSUME Addressed, DurableInv, [Next]_vars, NEW t \in DOMAIN pending \cap Originals,
           NEW s \in Signals, pending[t].sig = s, s.kind = "delete", Slot(s) = t, Expired(t),
           t \notin DOMAIN pending'
    PROVE  ByRow(s)' \/ ByMarker(s)' \/ (t \in DOMAIN rows /\ rows[t].author # s.author)
  <1>1. TypeOK /\ AuthorInv /\ OriginalRows /\ LeavingInv /\ OwnDelete(t)
    BY DEF DurableInv, OwnDelete
  <1>2. PICK c : c = cur
    OBVIOUS
  <1>3. ASSUME UNCHANGED <<rows, markers>>, Persisted(s)
        PROVE  ByRow(s)' \/ ByMarker(s)' \/ (t \in DOMAIN rows /\ rows[t].author # s.author)
    BY <1>3 DEF Persisted, ByRow, ByMarker, Slot
  <1>4. CASE Unbuffer
    <2>1. /\ c \in DOMAIN pending /\ t \in EntriesOf(pending[c].sig.rid)
          /\ UNCHANGED <<rows, markers>> /\ pc = "unbuffer"
      BY <1>2, <1>4 DEF Unbuffer, Drop, Restrict
    <2>2. pending[c].sig = s /\ c \in Targets(s)
      <3>1. pending[c].sig \in Signals /\ c \in Targets(pending[c].sig) /\ s.rid = pending[c].sig.rid
        BY <1>1, <2>1, EntryParts DEF EntriesOf
      <3> QED BY <3>1, SameRid
    <2>3. c \in Originals
      BY <1>1, <1>2, <2>1 DEF LeavingInv, OriginalRows
    <2>4. c = t
      BY <1>1, <2>1, <2>2, <2>3, EntryParts
    <2> QED BY <1>1, <1>2, <1>3, <2>1, <2>4 DEF LeavingInv, Removing
  <1>5. CASE Release
    <2>1. /\ t \in EntriesOf(inc.rid) /\ UNCHANGED <<rows, markers>> /\ pc = "release"
      BY <1>5 DEF Release, Drop, Restrict
    <2>2. c \in DOMAIN pending /\ inc.rid = pending[c].sig.rid
      BY <1>1, <1>2, <2>1 DEF LeavingInv
    <2>3. pending[c].sig = s
      <3>1. pending[c].sig \in Signals /\ s.rid = pending[c].sig.rid
        BY <1>1, <2>1, <2>2, EntryParts DEF EntriesOf
      <3> QED BY <3>1, SameRid
    <2>4. t = c \/ ByRow(s) \/ ByMarker(s)
      BY <1>1, <1>2, <2>1, <2>3 DEF LeavingInv
    <2>5. Persisted(s)
      BY <1>1, <1>2, <2>1, <2>4 DEF LeavingInv, Removing, Persisted
    <2> QED BY <1>3, <2>1, <2>5
  <1>6. CASE Swap
    <2>1. /\ t = c /\ UNCHANGED <<rows, markers>> /\ pc = "swap"
      BY <1>2, <1>6 DEF Swap, Put, Drop, Restrict
    <2> QED BY <1>1, <1>2, <1>3, <2>1 DEF LeavingInv, Removing
  <1>7. ASSUME NEW v \in Ids, EvictBare(v) PROVE FALSE
    BY <1>7 DEF EvictBare, Put, Drop, Restrict
  <1>8. CASE Insert
    BY <1>8 DEF Insert, Put
  <1> QED
    BY <1>4, <1>5, <1>6, <1>7, <1>8
    DEF Next, CallStep, WriteSlotMeta, Unmark, Heal, ResolveKnown, Expire, PersistEffect,
        PersistEvicted, Supersede, EndSweep, ApplyToKnownSlot, BufferSignal, EvictExpired,
        Done, StartApply, AppendOriginal, StartResolve, OpenThread, Tick, Crash, stores, vars

LEMMA DurableInvariant ==
    ASSUME Addressed
    PROVE  Spec /\ []SiblingsInOrder => []DurableInv
  <1>1. DurableInv /\ SiblingsInOrder /\ [Next]_vars => DurableInv'
    BY DurableStep
  <1> QED BY <1>1, DurableInit, PTL DEF Spec

(* An expired delete leaves the buffer only when its effect is durable: by   *)
(* clean-up, by the release of its siblings or by an eviction, with bounded  *)
(* stores, signals of anybody and any number of crashes, if the original's   *)
(* entry is no younger than its siblings or already recorded.                *)
THEOREM ExpiredDeletesAreDurable ==
    ASSUME Addressed
    PROVE  Spec /\ []SiblingsInOrder => ExpiredDeleteIsPersisted
  <1>1. DurableInv /\ [Next]_vars =>
          [\A t \in DOMAIN pending \cap Originals : \A s \in Signals :
             /\ pending[t].sig = s /\ s.kind = "delete" /\ Slot(s) = t
             /\ Expired(t) /\ t \notin DOMAIN pending'
             => \/ ByRow(s)' \/ ByMarker(s)'
                \/ t \in DOMAIN rows /\ rows[t].author # s.author]_vars
    BY LeavesDurably
  <1> QED BY <1>1, DurableInvariant, PTL DEF Spec, ExpiredDeleteIsPersisted

-----------------------------------------------------------------------------
(* The premise of ExpiredDeletesAreDurable holds when a delete names nothing  *)
(* but its original, whatever is evicted ...                                 *)
COROLLARY LoneDeletesAreDurable ==
    ASSUME Addressed, \A s \in Signals : s.kind = "delete" => Len(s.targets) = 1
    PROVE  Spec => ExpiredDeleteIsPersisted
  <1>1. TypeOK /\ AuthorInv => SiblingsInOrder
    <2> SUFFICES ASSUME TypeOK, AuthorInv, NEW u \in DOMAIN pending, pending[u].sig.kind = "delete"
                 PROVE  Slot(pending[u].sig) = u /\ pending[u].at <= pending[u].at
      BY DEF SiblingsInOrder
    <2>1. /\ pending[u].sig \in Signals /\ u \in Targets(pending[u].sig)
          /\ pending[u].at \in Int
      BY EntryParts
    <2>2. Slot(pending[u].sig) = u
      BY <2>1, SignalParts DEF Targets
    <2> QED BY <2>1, <2>2
  <1>2. AuthorInv /\ TypeOK /\ [Next]_vars => AuthorInv'
    BY AuthorStep
  <1> QED BY <1>1, <1>2, AuthorInit, TypeCorrect, ExpiredDeletesAreDurable, PTL DEF Spec

-----------------------------------------------------------------------------
(* ... and for deletes of any targets when nothing is evicted.  An entry under *)
(* a replacement id may outlive the original's, but then the row has come, or *)
(* a row, a marker or a stronger entry stands for the delete.                *)
AuthoredOrphan(u) ==
    LET d == pending[u].sig
        t == Slot(d)
    IN  \/ ByRow(d) \/ ByMarker(d)
        \/ /\ t \in DOMAIN pending
           /\ IF pending[t].sig = d THEN pending[t].at <= pending[u].at
              ELSE SignalBeats(pending[t].sig, d)
        \/ t \in DOMAIN rows /\ t \notin DOMAIN pending /\ (todo # <<>> => todo[1] # t)

OrphanInv ==
    /\ \A u \in DOMAIN pending :
          pending[u].sig.kind = "delete" /\ u # Slot(pending[u].sig) => AuthoredOrphan(u)
    /\ Materialising => cur \in DOMAIN rows
    /\ pc = "release" /\ pending[cur].sig.kind = "edit" =>
          \/ cur \in DOMAIN rows
          \/ cur \in DOMAIN markers /\ markers[cur].rev >= pending[cur].sig.rev

LEMMA AuthoredIsAddressed == Addressed
  BY AuthoredAssumption, SignalFacts DEF Addressed

LEMMA BeatsOneWay ==
    ASSUME NEW a \in Signals, NEW b \in Signals, Slot(a) = Slot(b), SignalBeats(a, b),
           SignalBeats(b, a)
    PROVE  a = b
  BY SignalFacts, RevisionAssumption DEF SignalBeats

(* Of an entry that is a stronger signal the row and the marker stand for it. *)
LEMMA StrongerStands ==
    ASSUME TypeOK, NEW e \in Signals, NEW d \in Signals, e.kind = "delete", d.kind = "delete",
           Slot(e) = Slot(d), e = d \/ SignalBeats(e, d)
    PROVE  (ByRow(e) => ByRow(d)) /\ (ByMarker(e) => ByMarker(d))
  <1>1. e.rev \in Nat /\ d.rev \in Nat /\ e.rev >= d.rev
    BY SignalFacts DEF SignalBeats
  <1>2. StoresType
    BY DEF TypeOK
  <1>3. ByRow(e) => ByRow(d)
    BY <1>1, <1>2, DeleteByRow, ReflectsLower
  <1>4. ByMarker(e) => ByMarker(d)
    <2>1. ASSUME Slot(d) \in DOMAIN markers PROVE markers[Slot(d)].rev \in Nat
      BY <1>2, <2>1 DEF StoresType, MarkerType
    <2> QED BY <1>1, <2>1 DEF ByMarker, SignalBeats, MarkerSignal
  <1> QED BY <1>3, <1>4

LEMMA OrderedWithRoom ==
    ASSUME TypeOK, AuthorInv, OrphanInv
    PROVE  SiblingsInOrder
  <1> SUFFICES ASSUME NEW u \in DOMAIN pending, NEW d, d = pending[u].sig, d.kind = "delete",
                      Slot(d) \in DOMAIN pending, pending[Slot(d)].sig = d
               PROVE  \/ pending[Slot(d)].at <= pending[u].at
                      \/ ByRow(d) \/ (ByMarker(d) /\ Cardinality(DOMAIN markers) < Cap)
    BY DEF SiblingsInOrder
  <1>1. Cardinality(DOMAIN markers) < Cap
    BY Room DEF TypeOK, StoresType
  <1>2. CASE u = Slot(d)
    BY <1>2, EntryParts
  <1>3. CASE u # Slot(d)
    BY <1>1, <1>3 DEF OrphanInv, AuthoredOrphan
  <1> QED BY <1>2, <1>3

(* What a step does to the marker of an id, if none is evicted. *)
LEMMA MarkerSteps ==
    ASSUME RetractionInv, [Next]_vars, NEW d \in Signals, d.kind = "delete", ByMarker(d)
    PROVE  \/ ByMarker(d)'
           \/ Unmark /\ cur = Slot(d)
           \/ Supersede /\ cur = Slot(d)
  <1>1. TypeOK
    BY DEF RetractionInv
  <1>2. PICK t : t = Slot(d) /\ t \in DOMAIN markers /\ markers[t].rev >= d.rev
    <2>1. Slot(d) \in DOMAIN markers /\ markers[Slot(d)].rev \in Nat
      BY <1>1 DEF ByMarker, TypeOK, StoresType, MarkerType
    <2>2. d.rev \in Nat
      BY SignalFacts
    <2>3. SignalBeats([kind |-> "delete", rev |-> markers[Slot(d)].rev, rid |-> NoRid], d)
      BY DEF ByMarker, MarkerSignal
    <2>4. markers[Slot(d)].rev >= d.rev
      BY <2>1, <2>2, <2>3 DEF SignalBeats
    <2> QED BY <2>1, <2>4
  <1>3. ASSUME t \in DOMAIN markers', markers'[t].rev >= markers[t].rev
        PROVE  ByMarker(d)'
    <2>1. markers[t].rev \in Nat /\ d.rev \in Nat
      BY <1>1, <1>2, SignalFacts DEF TypeOK, StoresType, MarkerType
    <2>2. TypeOK'
      BY <1>1, TypeStep
    <2>3. markers'[t].rev \in Nat
      BY <1>3, <2>2 DEF TypeOK, StoresType, MarkerType
    <2> QED BY <1>2, <1>3, <2>1, <2>3 DEF ByMarker, SignalBeats, MarkerSignal, Slot
  <1>4. ASSUME markers' = markers PROVE ByMarker(d)'
    BY <1>4 DEF ByMarker, Slot
  <1>5. CASE Unmark
    <2>1. CASE cur # t
      <3>1. t \in DOMAIN markers' /\ markers'[t] = markers[t]
        BY <1>2, <1>5, <2>1 DEF Unmark, Drop, Restrict
      <3>2. markers[t].rev \in Nat
        BY <1>1, <1>2 DEF TypeOK, StoresType, MarkerType
      <3> QED BY <1>3, <3>1, <3>2
    <2> QED BY <1>2, <1>5, <2>1
  <1>6. CASE Supersede
    <2>1. CASE cur # t
      <3>1. t \in DOMAIN markers' /\ markers'[t] = markers[t]
        BY <1>2, <1>6, <2>1 DEF Supersede, Drop, Restrict
      <3>2. markers[t].rev \in Nat
        BY <1>1, <1>2 DEF TypeOK, StoresType, MarkerType
      <3> QED BY <1>3, <3>1, <3>2
    <2> QED BY <1>2, <1>6, <2>1
  <1>7. ASSUME NEW v \in Ids, Expire(v) PROVE ByMarker(d)'
    <2>1. v \in DOMAIN pending /\ PersistEffect(v, pending[v].sig, "release")
      BY <1>7 DEF Expire, ExpireTargets
    <2>2. PICK s \in Signals : s = pending[v].sig
      BY <1>1, <2>1 DEF TypeOK, StoresType, EntryType
    <2>3. CASE /\ ~(v \in DOMAIN markers /\ s.rev <= markers[v].rev)
               /\ markers' = Put(markers, v, [rev |-> s.rev, author |-> s.author])
      <3>1. markers[t].rev \in Nat /\ s.rev \in Nat
        BY <1>1, <1>2, SignalFacts DEF TypeOK, StoresType, MarkerType
      <3>2. t \in DOMAIN markers' /\ markers'[t].rev >= markers[t].rev
        BY <1>2, <2>3, <3>1 DEF Put
      <3> QED BY <1>3, <3>2
    <2>4. markers' = markers \/ markers' \in UpsertMarker(v, s)
      BY <2>1, <2>2 DEF PersistEffect
    <2>5. Cardinality(DOMAIN markers) < Cap
      BY <1>1, Room DEF TypeOK, StoresType
    <2>6. CASE markers' \in UpsertMarker(v, s)
      <3>1. CASE v \in DOMAIN markers /\ s.rev <= markers[v].rev
        <4>1. markers' = markers
          BY <2>6, <3>1 DEF UpsertMarker
        <4> QED BY <1>4, <4>1
      <3>2. CASE ~(v \in DOMAIN markers /\ s.rev <= markers[v].rev)
        <4>1. markers' = Put(markers, v, [rev |-> s.rev, author |-> s.author])
          BY <2>5, <2>6, <3>2 DEF UpsertMarker, PutCapped
        <4> QED BY <2>3, <3>2, <4>1
      <3> QED BY <3>1, <3>2
    <2> QED BY <1>4, <2>4, <2>6
  <1>8. ~PersistEvicted
    BY DEF RetractionInv, CallInv, PersistEvicted
  <1> QED
    BY <1>2, <1>4, <1>5, <1>6, <1>7, <1>8
    DEF Next, CallStep, WriteSlotMeta, Unbuffer, Heal, ResolveKnown,
        Release, EndSweep, ApplyToKnownSlot, BufferSignal, Insert, EvictBare, EvictExpired, Swap,
        Done, StartApply, AppendOriginal, StartResolve, OpenThread, Tick, Crash, stores, vars

(* A step with the buffer below its cap: what happens to the entries. *)
LEMMA InsertOnly ==
    ASSUME RetractionInv, [Next]_vars, NEW u \in DOMAIN pending',
           ~(u \in DOMAIN pending /\ pending'[u] = pending[u])
    PROVE  /\ Insert /\ todo # <<>> /\ u = todo[1] /\ pending'[u] = Candidate
           /\ pending' = Put(pending, u, Candidate)
           /\ u \in DOMAIN pending => Collapses(u)
           /\ call.sig \in Signals /\ InsertingInv
  <1>1. TypeOK /\ InsertingInv /\ pc # "swap"
    BY DEF RetractionInv, CallInv
  <1>2. pc = "insert" /\ todo # <<>> /\ u = todo[1] /\ pending'[u] = Candidate
    BY <1>1, BufferSteps
  <1>3. call.sig \in Signals /\ Head(todo) = todo[1]
    BY <1>1, <1>2 DEF TypeOK, CallTypeOK, CallType, NoCall, StepNeeds
  <1>4. ~AtCap
    BY <1>1, NoPressure
  <1>5. Insert
    BY <1>2, <1>4
    DEF Next, CallStep, WriteSlotMeta, Unbuffer, Unmark, Heal, Expire, Supersede, Release,
        EndSweep, ApplyToKnownSlot, BufferSignal, EvictBare, EvictExpired, PersistEvicted, Swap,
        Done, StartApply, AppendOriginal, StartResolve, OpenThread, Tick, Crash, stores, vars
  <1> QED BY <1>1, <1>2, <1>3, <1>5 DEF Insert

(* An entry that has just been buffered under another id than its original's. *)
LEMMA NewOrphan ==
    ASSUME RetractionInv, [Next]_vars, NEW u \in DOMAIN pending',
           ~(u \in DOMAIN pending /\ pending'[u] = pending[u]), u # Slot(pending'[u].sig)
    PROVE  AuthoredOrphan(u)'
  <1>1. PICK d \in Signals : d = call.sig
    BY InsertOnly
  <1>2. /\ Insert /\ todo # <<>> /\ u = todo[1] /\ pending'[u] = [sig |-> d, at |-> clock]
        /\ pending' = Put(pending, u, Candidate) /\ InsertingInv
    BY <1>1, InsertOnly DEF Candidate
  <1>3. PICK t : t = Slot(d)
    OBVIOUS
  <1>4. t = d.targets[1] /\ u # t
    BY <1>2, <1>3, SignalFacts
  <1>5. t \in DOMAIN pending /\ (pending[t].sig = d \/ SignalBeats(pending[t].sig, d))
    BY <1>1, <1>2, <1>3, <1>4 DEF InsertingInv, ByBuffer, Insert
  <1>6. t \in DOMAIN pending' /\ pending'[t] = pending[t] /\ pending[t].at <= clock
    BY <1>2, <1>4, <1>5 DEF Put, RetractionInv, StoresInv
  <1> QED BY <1>2, <1>3, <1>5, <1>6 DEF AuthoredOrphan, Slot

(* The entry of an original that leaves the buffer: its message has come, or  *)
(* a sweep has made it durable.                                              *)
LEMMA GoneEntry ==
    ASSUME RetractionInv, DurableInv, OrphanInv, [Next]_vars,
           NEW t \in DOMAIN pending, t \in Originals, t \notin DOMAIN pending'
    PROVE  /\ UNCHANGED <<rows, markers>> /\ todo' = <<>>
           /\ DOMAIN pending' \cap EntriesOf(pending[t].sig.rid) = {}
           /\ \/ t \in DOMAIN rows
              \/ /\ pending[t].sig.kind = "delete"
                 /\ ByRow(pending[t].sig) \/ ByMarker(pending[t].sig)
              \/ t \in DOMAIN markers /\ markers[t].rev >= pending[t].sig.rev
  <1>1. TypeOK /\ AuthorInv /\ OriginalRows /\ LeavingInv /\ CallInv /\ StoresInv
    BY DEF DurableInv, RetractionInv
  <1>2. PICK c : c = cur
    OBVIOUS
  <1>3. PICK e \in Signals : e = pending[t].sig
    BY <1>1, EntryParts
  <1>4. Slot(e) = t
    BY <1>1, <1>3, EntryParts
  <1>5. CASE Unbuffer
    <2>1. /\ c \in DOMAIN pending /\ t \in EntriesOf(pending[c].sig.rid)
          /\ UNCHANGED <<rows, markers, todo>> /\ pc = "unbuffer"
          /\ pending' = Drop(pending, EntriesOf(pending[c].sig.rid))
      BY <1>2, <1>5 DEF Unbuffer, Drop, Restrict
    <2>2. pending[c].sig = e
      <3>1. pending[c].sig \in Signals /\ e.rid = pending[c].sig.rid
        BY <1>1, <1>3, <2>1, EntryParts DEF EntriesOf
      <3> QED BY <3>1, SameRid
    <2>3. c \in Originals /\ c \in DOMAIN rows
      BY <1>1, <1>2, <2>1 DEF LeavingInv, OriginalRows
    <2>4. c = t
      BY <1>1, <1>4, <2>1, <2>2, <2>3, EntryParts
    <2>5. todo' = <<>>
      BY <1>1, <2>1 DEF CallInv
    <2>6. DOMAIN pending' \cap EntriesOf(e.rid) = {}
      BY <2>1, <2>2 DEF Drop, Restrict
    <2> QED BY <1>3, <2>1, <2>3, <2>4, <2>5, <2>6
  <1>6. CASE Release
    <2>1. /\ t \in EntriesOf(inc.rid) /\ UNCHANGED <<rows, markers, todo>> /\ pc = "release"
          /\ pending' = Drop(pending, EntriesOf(inc.rid))
      BY <1>6 DEF Release, Drop, Restrict
    <2>2. c \in DOMAIN pending /\ inc.rid = pending[c].sig.rid
      BY <1>1, <1>2, <2>1 DEF LeavingInv
    <2>3. pending[c].sig = e
      <3>1. pending[c].sig \in Signals /\ e.rid = pending[c].sig.rid
        BY <1>1, <1>3, <2>1, <2>2, EntryParts DEF EntriesOf
      <3> QED BY <3>1, SameRid
    <2>4. todo' = <<>>
      BY <1>1, <2>1 DEF CallInv
    <2>5. DOMAIN pending' \cap EntriesOf(e.rid) = {}
      BY <2>1, <2>2, <2>3 DEF Drop, Restrict
    <2>6. CASE e.kind = "delete"
      <3>1. OwnDelete(t)
        BY <1>3, <1>4, <2>6 DEF OwnDelete
      <3>2. t = c \/ ByRow(e) \/ ByMarker(e)
        BY <1>1, <1>2, <1>3, <1>4, <2>1, <2>3, <2>6, <3>1 DEF LeavingInv
      <3>3. t = c => ByRow(e) \/ ByMarker(e) \/ t \in DOMAIN rows
        BY <1>1, <1>2, <1>3, <1>4, <2>1, <3>1 DEF LeavingInv, Removing, Persisted
      <3> QED BY <1>3, <2>1, <2>4, <2>5, <2>6, <3>2, <3>3
    <2>7. CASE e.kind = "edit"
      <3>1. c = t
        BY <1>1, <1>4, <2>2, <2>3, <2>7 DEF StoresInv
      <3>2. t \in DOMAIN rows \/ (t \in DOMAIN markers /\ markers[t].rev >= e.rev)
        BY <1>2, <1>3, <2>1, <2>7, <3>1 DEF OrphanInv
      <3> QED BY <1>3, <2>1, <2>4, <2>5, <3>2
    <2> QED BY <2>6, <2>7, SignalFacts
  <1>7. ~Swap /\ ~AtCap
    BY <1>1, NoPressure DEF CallInv, Swap
  <1>8. ASSUME Insert PROVE FALSE
    BY <1>8 DEF Insert, Put
  <1> QED
    BY <1>5, <1>6, <1>7, <1>8
    DEF Next, CallStep, WriteSlotMeta, Unmark, Heal, ResolveKnown, Expire, PersistEffect,
        PersistEvicted, Supersede, EndSweep, ApplyToKnownSlot, BufferSignal, EvictBare,
        EvictExpired, Done, StartApply, AppendOriginal, StartResolve, OpenThread, Tick, Crash,
        stores, vars

(* What is to be buffered next is not the id of a row without an entry. *)
LEMMA RowStaysUnbuffered ==
    ASSUME RetractionInv, DurableInv, [Next]_vars, NEW t,
           t \in DOMAIN rows, t \notin DOMAIN pending, t \in Originals,
           todo # <<>> => todo[1] # t
    PROVE  /\ t \in DOMAIN rows' /\ t \notin DOMAIN pending'
           /\ todo' # <<>> => todo'[1] # t
  <1>1. TypeOK /\ AuthorInv /\ ToBuffer
    BY DEF DurableInv, AuthorInv
  <1>2. t \in DOMAIN rows'
    BY <1>1, AuthorStays
  <1>3. t \notin DOMAIN pending'
    BY <1>1, BufferSteps
  <1>4. CASE todo' = Tail(todo) /\ todo # <<>> /\ todo' # <<>>
    <2>1. todo'[1] = todo[2] /\ 2 \in DOMAIN todo
      BY <1>1, <1>4 DEF TypeOK, CallTypeOK
    <2>2. todo[2] \notin Originals
      BY <1>1, <2>1 DEF ToBuffer
    <2> QED BY <1>2, <1>3, <2>1, <2>2
  <1>5. CASE call.sig \in Signals /\ todo' = call.sig.targets /\ KnownTargets(call.sig) = {}
    <2>1. 1 \in DOMAIN call.sig.targets
      BY <1>5, SignalParts
    <2> QED BY <1>2, <1>3, <1>5, <2>1 DEF KnownTargets
  <1> QED BY <1>1, <1>2, <1>3, <1>4, <1>5, TodoSteps

LEMMA OldOrphan ==
    ASSUME RetractionInv, DurableInv, OrphanInv, [Next]_vars,
           NEW u \in DOMAIN pending, u \in DOMAIN pending', pending'[u] = pending[u],
           pending[u].sig.kind = "delete", u # Slot(pending[u].sig)
    PROVE  AuthoredOrphan(u)'
  <1>1. TypeOK /\ AuthorInv /\ StoresType /\ LeavingInv /\ StoresInv /\ CallInv
    BY DEF DurableInv, RetractionInv, TypeOK
  <1>2. PICK d \in Signals : d = pending[u].sig
    BY <1>1, EntryParts
  <1>3. PICK t : t = Slot(d)
    OBVIOUS
  <1>4. /\ d.kind = "delete" /\ t \in Originals /\ d.rev \in Nat
        /\ pending[u].at \in Int /\ u # t
    BY <1>1, <1>2, <1>3, SignalFacts, EntryParts
  <1>5. SUFFICES
          \/ ByRow(d)' \/ ByMarker(d)'
          \/ /\ t \in DOMAIN pending'
             /\ IF pending'[t].sig = d THEN pending'[t].at <= pending[u].at
                ELSE SignalBeats(pending'[t].sig, d)
          \/ t \in DOMAIN rows' /\ t \notin DOMAIN pending' /\ (todo' # <<>> => todo'[1] # t)
    BY <1>2, <1>3 DEF AuthoredOrphan, ByRow, ByMarker, Slot
  <1>6. CASE ByRow(d)
    BY <1>1, <1>4, <1>6, DeleteByRow, ReflectsPersists
  <1>7. CASE ByMarker(d)
    <2>1. t \in DOMAIN markers /\ markers[t].rev \in Nat /\ markers[t].rev >= d.rev
      <3>1. t \in DOMAIN markers /\ markers[t].rev \in Nat
        BY <1>1, <1>3, <1>7 DEF ByMarker, StoresType, MarkerType
      <3> QED BY <1>3, <1>4, <1>7, <3>1 DEF ByMarker, SignalBeats, MarkerSignal
    <2>2. CASE Unmark /\ cur = t
      <3>1. t \in DOMAIN rows /\ t \notin DOMAIN pending
        BY <2>2 DEF Unmark, RetractionInv, ResolvingInv
      <3>2. UNCHANGED <<rows, pending>> /\ todo' = <<>>
        BY <1>1, <2>2 DEF Unmark, CallInv
      <3> QED BY <3>1, <3>2
    <2>3. CASE Supersede /\ cur = t
      <3>1. t \in DOMAIN pending /\ inc = Incoming(pending[t].sig) /\ markers[t].rev < inc.rev
        BY <2>1, <2>3 DEF Supersede, RetractionInv, ExpiringInv
      <3>2. pending[t].sig.rev \in Nat /\ inc.rev = pending[t].sig.rev
        BY <1>1, <3>1, EntryParts, SignalFacts
      <3>3. pending[t].sig.rev > d.rev /\ pending[t].sig # d
        BY <1>4, <2>1, <3>1, <3>2
      <3>4. SignalBeats(pending[t].sig, d) /\ UNCHANGED pending
        BY <2>3, <3>3 DEF SignalBeats, Supersede
      <3> QED BY <3>1, <3>3, <3>4
    <2> QED BY <1>3, <1>4, <1>7, <2>2, <2>3, MarkerSteps
  <1>8. CASE /\ t \in DOMAIN pending
             /\ IF pending[t].sig = d THEN pending[t].at <= pending[u].at
                ELSE SignalBeats(pending[t].sig, d)
    <2>1. PICK e \in Signals : e = pending[t].sig
      BY <1>1, <1>8, EntryParts
    <2>2. Slot(e) = t /\ e.rev \in Nat /\ e.kind \in {"delete", "edit"}
      BY <1>1, <1>4, <1>8, <2>1, EntryParts, SignalFacts
    <2>3. CASE t \in DOMAIN pending' /\ pending'[t] = pending[t]
      BY <1>8, <2>3
    <2>4. CASE t \in DOMAIN pending' /\ pending'[t] # pending[t]
      <3>1. PICK n \in Signals : n = call.sig
        BY <2>4, InsertOnly
      <3>2. /\ pending'[t].sig = n /\ t = todo[1] /\ todo # <<>> /\ Collapses(t) /\ Insert
            /\ InsertingInv
        BY <1>8, <2>4, <3>1, InsertOnly DEF Candidate
      <3>3. SignalBeats(n, e) /\ n # e
        BY <2>1, <3>1, <3>2 DEF Collapses
      <3>4. todo = n.targets
        <4>1. 1 \in DOMAIN todo
          BY <1>1, <3>2 DEF TypeOK, CallTypeOK
        <4> QED BY <1>4, <3>1, <3>2, <4>1 DEF InsertingInv, Insert
      <3>5. Slot(n) = t
        BY <3>2, <3>4, SignalFacts
      <3>6. n # d /\ SignalBeats(n, d)
        <4>1. CASE e = d
          BY <3>3, <4>1
        <4>2. CASE SignalBeats(e, d)
          <5>1. SignalBeats(n, d)
            BY <3>3, <4>2, BeatsTransitive
          <5>2. n # d
            BY <1>3, <2>2, <3>3, <4>2, BeatsOneWay
          <5> QED BY <5>1, <5>2
        <4> QED BY <1>8, <2>1, <4>1, <4>2
      <3> QED BY <2>4, <3>2, <3>6
    <2>5. CASE t \notin DOMAIN pending'
      <3>1. /\ UNCHANGED <<rows, markers>> /\ todo' = <<>>
            /\ DOMAIN pending' \cap EntriesOf(e.rid) = {}
            /\ \/ t \in DOMAIN rows
               \/ e.kind = "delete" /\ (ByRow(e) \/ ByMarker(e))
               \/ t \in DOMAIN markers /\ markers[t].rev >= e.rev
        BY <1>4, <1>8, <2>1, <2>5, GoneEntry
      <3>2. e # d /\ SignalBeats(e, d) /\ e.rev >= d.rev
        <4>1. e # d
          BY <1>2, <3>1 DEF EntriesOf
        <4>2. SignalBeats(e, d)
          BY <1>8, <2>1, <4>1
        <4> QED BY <1>4, <2>2, <4>1, <4>2 DEF SignalBeats
      <3>3. CASE t \in DOMAIN rows
        BY <2>5, <3>1, <3>3
      <3>4. CASE e.kind = "delete" /\ (ByRow(e) \/ ByMarker(e))
        <4>1. ByRow(d) \/ ByMarker(d)
          BY <1>1, <1>3, <1>4, <2>2, <3>2, <3>4, StrongerStands
        <4>2. ByMarker(d) => ByMarker(d)'
          BY <3>1 DEF ByMarker, Slot
        <4> QED BY <1>6, <4>1, <4>2
      <3>5. CASE t \in DOMAIN markers /\ markers[t].rev >= e.rev
        <4>1. markers[t].rev \in Nat
          BY <1>1, <3>5 DEF StoresType, MarkerType
        <4>2. markers[t].rev >= d.rev
          BY <1>4, <2>2, <3>2, <3>5, <4>1
        <4>3. ByMarker(d)
          BY <1>3, <1>4, <3>5, <4>1, <4>2 DEF ByMarker, SignalBeats, MarkerSignal
        <4>4. ByMarker(d)'
          BY <3>1, <4>3 DEF ByMarker, Slot
        <4> QED BY <4>4
      <3> QED BY <3>1, <3>3, <3>4, <3>5
    <2> QED BY <2>3, <2>4, <2>5
  <1>9. CASE t \in DOMAIN rows /\ t \notin DOMAIN pending /\ (todo # <<>> => todo[1] # t)
    BY <1>4, <1>9, RowStaysUnbuffered
  <1>10. AuthoredOrphan(u)
    BY DEF OrphanInv
  <1> QED BY <1>2, <1>3, <1>6, <1>7, <1>8, <1>9, <1>10 DEF AuthoredOrphan

(* A sweep that materialises an edit has given it a row, or a marker outranks *)
(* it.                                                                       *)
LEMMA MaterialisedHasRow ==
    ASSUME RetractionInv, OrphanInv, [Next]_vars
    PROVE  /\ Materialising' => cur' \in DOMAIN rows'
           /\ pc' = "release" /\ pending'[cur'].sig.kind = "edit" =>
                 \/ cur' \in DOMAIN rows'
                 \/ cur' \in DOMAIN markers' /\ markers'[cur'].rev >= pending'[cur'].sig.rev
  <1> DEFINE G == /\ Materialising' => cur' \in DOMAIN rows'
                  /\ pc' = "release" /\ pending'[cur'].sig.kind = "edit" =>
                        \/ cur' \in DOMAIN rows'
                        \/ /\ cur' \in DOMAIN markers'
                           /\ markers'[cur'].rev >= pending'[cur'].sig.rev
  <1> SUFFICES G
    OBVIOUS
  <1>1. TypeOK /\ CallInv
    BY DEF RetractionInv
  <1>2. \A t \in DOMAIN rows : t \in DOMAIN rows'
    BY <1>1, AuthorStays
  <1>3. ASSUME UNCHANGED <<pc, cur, ret, pending, markers>> PROVE G
    BY <1>2, <1>3 DEF OrphanInv, Materialising
  <1>4. CASE WriteSlotMeta
    <2>1. ret \in {"idle", "unbuffer", "supersede", "swap", "done"}
      BY <1>1 DEF TypeOK, CallTypeOK
    <2> QED BY <1>4, <2>1 DEF OrphanInv, Materialising, WriteSlotMeta
  <1>5. CASE Supersede
    BY <1>5 DEF Supersede, OrphanInv, Materialising
  <1>6. ASSUME NEW t \in Ids, Expire(t) PROVE G
    <2>1. PICK s : s = pending[t].sig
      OBVIOUS
    <2>2. PersistEffect(t, s, "release") /\ UNCHANGED pending /\ cur' = t
      BY <1>6, <2>1 DEF Expire, PersistEffect
    <2>3. CASE s.kind = "delete" /\ pc' = "release"
      BY <2>1, <2>2, <2>3 DEF Materialising
    <2>4. CASE s.kind = "edit" /\ Outranked(t, s) /\ pc' = "release" /\ UNCHANGED markers
      BY <2>1, <2>2, <2>4 DEF Materialising, Outranked
    <2>5. CASE /\ pc' = "meta"
               /\ rows' = IF t \in DOMAIN rows THEN rows ELSE Put(rows, t, MaterialisedRow(s))
      BY <2>2, <2>5 DEF Put
    <2> QED BY <2>2, <2>3, <2>4, <2>5 DEF PersistEffect
  <1>7. ASSUME pc' \notin {"supersede", "release"}, pc' = "meta" => ret' # "supersede" PROVE G
    BY <1>7 DEF Materialising
  <1>8. ~PersistEvicted
    BY <1>1 DEF CallInv, PersistEvicted
  <1>9. CASE Tick \/ (\E t \in Originals : AppendOriginal(t)) \/ UNCHANGED vars
    BY <1>3, <1>9 DEF Tick, AppendOriginal, vars, stores, regs
  <1>10. CASE \/ Unbuffer \/ Unmark \/ (\E t \in Ids : Heal(t)) \/ Release \/ EndSweep
              \/ ApplyToKnownSlot \/ BufferSignal \/ Insert
              \/ (\E v \in Ids : EvictBare(v) \/ EvictExpired(v)) \/ Swap \/ Done
              \/ (\E s \in Signals : StartApply(s)) \/ (\E t \in Originals : StartResolve(t))
              \/ (\E th \in Threads : OpenThread(th)) \/ Crash
    BY <1>7, <1>10
    DEF Unbuffer, Unmark, Heal, ResolveKnown, Release, EndSweep, ApplyToKnownSlot, BufferSignal,
        Insert, EvictBare, EvictExpired, NextTarget, Swap, Done, StartApply, StartResolve,
        OpenThread, Crash
  <1> QED BY <1>4, <1>5, <1>6, <1>8, <1>9, <1>10 DEF Next, CallStep

LEMMA OrphanStep ==
    ASSUME RetractionInv, DurableInv, OrphanInv, [Next]_vars
    PROVE  OrphanInv'
  <1>1. ASSUME NEW u \in DOMAIN pending', pending'[u].sig.kind = "delete",
               u # Slot(pending'[u].sig)
        PROVE  AuthoredOrphan(u)'
    <2>1. CASE u \in DOMAIN pending /\ pending'[u] = pending[u]
      BY <1>1, <2>1, OldOrphan
    <2>2. CASE ~(u \in DOMAIN pending /\ pending'[u] = pending[u])
      BY <1>1, <2>2, NewOrphan
    <2> QED BY <2>1, <2>2
  <1> QED BY <1>1, MaterialisedHasRow DEF OrphanInv, Slot

(* ... so no delete of an author is lost when it expires, whatever ids it     *)
(* names, while the buffer is not full.                                      *)
COROLLARY OwnDeletesAreDurable == Spec => ExpiredDeleteIsPersisted
  <1>1. Init => OrphanInv
    BY DEF Init, Empty, OrphanInv, Materialising
  <1>2. /\ RetractionInv /\ DurableInv /\ OrphanInv /\ [Next]_vars
        => DurableInv' /\ OrphanInv'
    <2> SUFFICES ASSUME RetractionInv, DurableInv, OrphanInv, [Next]_vars
                 PROVE  DurableInv' /\ OrphanInv'
      OBVIOUS
    <2>1. SiblingsInOrder
      BY OrderedWithRoom DEF DurableInv
    <2> QED BY <2>1, AuthoredIsAddressed, DurableStep, OrphanStep
  <1>3. DurableInv /\ OrphanInv => SiblingsInOrder
    BY OrderedWithRoom DEF DurableInv
  <1>4. Spec /\ []SiblingsInOrder => ExpiredDeleteIsPersisted
    BY AuthoredIsAddressed, ExpiredDeletesAreDurable
  <1> QED BY <1>1, <1>2, <1>3, <1>4, DurableInit, RetractionInvariant, PTL DEF Spec
-----------------------------------------------------------------------------
(***************************************************************************)
(* What becomes of the marker that an expired delete leaves behind, with      *)
(* stores of any size, foreign signals and crashes.  A marker is removed in   *)
(* two places: after its row was resolved, and after an edit that outranks it *)
(* was materialised.                                                         *)
(***************************************************************************)
Marked(t) == t \in Originals /\ t \in DOMAIN markers /\ markers[t].author = AuthorOf[t]

Resolving == pc = "meta" /\ ret = "unbuffer"

(* A row whose marker is about to be removed for it. *)
UnmarkingInv ==
    /\ Resolving \/ pc \in {"unbuffer", "unmark"} => cur \in DOMAIN rows
    /\ Resolving /\ Marked(cur) => ShowsMarked(cur)
    /\ pc \in {"unbuffer", "unmark"} /\ Marked(cur) => ShowsMarked(cur) \/ LostEdit(cur)

(* An edit whose row has just been materialised, or was there already. *)
SupersedingInv ==
    /\ Materialising =>
          /\ cur \in DOMAIN rows
          /\ cur \in DOMAIN markers => inc.rev > markers[cur].rev
          /\ \E e \in Signals : e.kind = "edit" /\ inc = Incoming(e)
    /\ pc = "supersede" => LastRid(cur) = inc.rid

(* A call that goes by the rows it has loaded. *)
Loaded ==
    \/ pc \in {"sweep", "evict", "release"} \/ Materialising
    \/ (Resolving \/ pc \in {"unbuffer", "unmark"}) /\ ~OwnSlot

(* The empty rumor id is recorded for a row that has taken its marker, which  *)
(* any later sweep knew of when it loaded the messages.                      *)

EmptyRidInv ==
    /\ \A t \in DOMAIN slotMeta : slotMeta[t] = NoRid =>
          /\ t \in DOMAIN rows
          /\ Marked(t) => ShowsMarked(t)
          /\ Loaded => t \in known
    /\ pc = "meta" /\ inc.rid = NoRid => Resolving /\ (~OwnSlot => cur \in known)

StandingInv == TypeOK /\ RecordInv /\ UnmarkingInv /\ SupersedingInv /\ EmptyRidInv

LEMMA StandingInit == Init => StandingInv
  BY TypeInit DEF Init, StandingInv, RecordInv, UnmarkingInv, SupersedingInv, EmptyRidInv,
                  Resolving, Materialising, Empty

(* A row that shows its marker goes on showing it. *)
LEMMA ShownMarkerStays ==
    ASSUME TypeOK, [Next]_vars, NEW t \in Originals, Marked(t), ShowsMarked(t),
           t \in DOMAIN markers' => markers'[t] = markers[t]
    PROVE  Marked(t)' => ShowsMarked(t)'
  <1> SUFFICES ASSUME Marked(t)' PROVE ShowsMarked(t)'
    OBVIOUS
  <1>1. t \in DOMAIN rows' /\ rows'[t].author = rows[t].author /\ markers'[t] = markers[t]
    BY AuthorStays DEF ShowsMarked, Marked
  <1>2. CASE rows[t].author # AuthorOf[t]
    BY <1>1, <1>2 DEF ShowsMarked
  <1>3. CASE Reflects(t, markers[t].rev)
    <2>1. PICK r \in Nat : r = markers[t].rev
      BY DEF Marked, TypeOK, StoresType, MarkerType
    <2>2. Reflects(t, r)'
      BY <1>3, <2>1, ReflectsPersists
    <2> QED BY <1>1, <2>1, <2>2 DEF ShowsMarked, Reflects
  <1> QED BY <1>2, <1>3 DEF ShowsMarked, Reflects

(* Resolving a row: it takes the marker, or has done so, or has taken what    *)
(* outranks it, or the record names an edit it never took.                   *)
LEMMA ResolvedMarker ==
    ASSUME StandingInv, [Next]_vars, NEW t \in DOMAIN rows, NEW author, ResolveKnown(t, author),
           author = rows[t].author \/ (t \in Originals /\ author = AuthorOf[t]), Marked(t)
    PROVE  ShowsMarked(t)' \/ (UNCHANGED rows /\ pc' = "unbuffer" /\ LostEdit(t)')
  <1>1. TypeOK /\ StoresType /\ RecordInv /\ UNCHANGED <<pending, markers, slotMeta>>
    BY DEF StandingInv, TypeOK, ResolveKnown
  <1>2. t \in Originals /\ t \in DOMAIN markers /\ markers[t].author = AuthorOf[t]
    BY DEF Marked
  <1>3. PICK r \in Nat : r = markers[t].rev
    BY <1>1, <1>2 DEF StoresType, MarkerType
  <1>4. /\ t \in DOMAIN rows' /\ rows'[t].author = rows[t].author
    BY <1>1, AuthorStays
  <1>5. ASSUME Reflects(t, r)' PROVE ShowsMarked(t)'
    BY <1>1, <1>3, <1>5 DEF ShowsMarked, Reflects
  <1>6. CASE rows[t].author # AuthorOf[t]
    BY <1>4, <1>6 DEF ShowsMarked
  <1>7. CASE rows[t].author = AuthorOf[t]
    <2> DEFINE m == MarkerSignal(markers[t])
    <2>1. author = markers[t].author /\ m.kind = "delete" /\ m.rev = r /\ m.rid = NoRid
      BY <1>2, <1>3, <1>7 DEF MarkerSignal
    <2>2. PICK w \in Winner(t, author) :
             /\ w.rev >= r /\ (w.kind = "delete" \/ w.rev > r)
             /\ \/ w.rid = NoRid
                \/ \E s \in Signals : w = Incoming(s)
      <3>1. CASE m \in Winner(t, author)
        BY <2>1, <3>1
      <3>2. CASE /\ t \in DOMAIN pending /\ ~SignalBeats(m, Incoming(pending[t].sig))
                 /\ Winner(t, author) = {Incoming(pending[t].sig)}
        <4>1. PICK s \in Signals : s = pending[t].sig
          BY <1>1, <3>2 DEF StoresType, EntryType
        <4>2. s.rev > r
          BY <2>1, <3>2, <4>1, SignalParts DEF SignalBeats
        <4> QED BY <3>2, <4>1, <4>2, SignalParts
      <3> QED BY <1>2, <2>1, <3>1, <3>2 DEF Winner
    <2>3. w \in IncType /\ w.kind # "none" /\ w.rev \in Nat
      BY <1>1, WinnerType DEF IncType
    <2>4. rows[t] \in RowType /\ rows[t].rev \in Nat
      BY <1>1 DEF StoresType, RowType
    <2>5. Winner(t, author) = {w}
      BY DEF Winner
    <2>6. CASE WinsAt(t, w)
      <3>1. rows' = [rows EXCEPT ![t] = RowAfter(@, w)]
        BY <2>5, <2>6 DEF ResolveKnown
      <3>2. rows'[t].rev = w.rev /\ (w.kind = "delete" => Reflects(t, w.rev)')
        BY <1>1, <2>3, <3>1, AppliedReflects
      <3>3. Reflects(t, r)'
        BY <1>4, <2>2, <2>3, <3>2 DEF Reflects
      <3> QED BY <1>5, <3>3
    <2>7. CASE ~WinsAt(t, w)
      <3>1. UNCHANGED rows /\ pc' = "unbuffer"
        BY <2>5, <2>7 DEF ResolveKnown
      <3>2. CASE w.rid # LastRid(t)
        <4>1. rows[t].rev > r \/ (rows[t].rev = r /\ rows[t].tomb)
          BY <2>2, <2>3, <2>4, <2>7, <3>2 DEF WinsAt, IncType
        <4>2. Reflects(t, r)'
          BY <1>4, <3>1, <4>1 DEF Reflects
        <4> QED BY <1>5, <4>2
      <3>3. CASE w.rid = LastRid(t)
        <4>1. t \in DOMAIN slotMeta /\ slotMeta[t] = w.rid
          BY <2>3, <3>3 DEF LastRid, NoMeta, IncType
        <4>2. CASE w.rid = NoRid
          <5>1. ShowsMarked(t)
            BY <4>1, <4>2 DEF StandingInv, EmptyRidInv
          <5> QED BY <1>1, <3>1, <5>1 DEF ShowsMarked
        <4>3. ASSUME NEW s \in Signals, w = Incoming(s)
              PROVE  ShowsMarked(t)' \/ LostEdit(t)'
          <5>1. s.kind = w.kind /\ s.rev = w.rev /\ s.rid = w.rid
            BY <4>3, SignalParts
          <5>2. CASE w.kind = "delete"
            <6>1. Reflects(t, w.rev)
              BY <1>1, <4>1, <5>1, <5>2 DEF RecordInv
            <6>2. Reflects(t, r)'
              BY <1>4, <2>2, <2>3, <2>4, <3>1, <6>1 DEF Reflects
            <6> QED BY <1>5, <6>2
          <5>3. CASE w.kind = "edit" /\ w.rev > rows[t].rev
            <6>1. LostEdit(t)
              BY <3>3, <5>1, <5>3 DEF LostEdit
            <6> QED BY <1>1, <3>1, <6>1 DEF LostEdit, LastRid
          <5>4. CASE w.kind = "edit" /\ w.rev <= rows[t].rev
            <6>1. Reflects(t, r)'
              BY <1>4, <2>2, <2>3, <2>4, <3>1, <5>4 DEF Reflects
            <6> QED BY <1>5, <6>1
          <5> QED BY <2>3, <2>4, <5>2, <5>3, <5>4 DEF IncType
        <4> QED BY <2>2, <3>1, <4>2, <4>3
      <3> QED BY <3>2, <3>3
    <2> QED BY <2>6, <2>7
  <1> QED BY <1>6, <1>7

(* Where a marker comes from, and how one goes. *)
LEMMA MarkerOrigin ==
    ASSUME TypeOK, [Next]_vars, NEW u \in DOMAIN markers'
    PROVE  \/ u \in DOMAIN markers /\ markers'[u] = markers[u]
           \/ u \notin known /\ pc \in {"sweep", "evict"}
  <1>1. CASE UNCHANGED markers
    BY <1>1
  <1>2. ASSUME NEW c, markers' = Drop(markers, {c})
        PROVE  u \in DOMAIN markers /\ markers'[u] = markers[u]
    BY <1>2, DroppedIsKept
  <1>3. ASSUME NEW v \in DOMAIN pending, NEW next, PersistEffect(v, pending[v].sig, next)
        PROVE  (u \in DOMAIN markers /\ markers'[u] = markers[u]) \/ u = v
    <2>1. PICK s : s = pending[v].sig
      OBVIOUS
    <2> DEFINE m == [rev |-> s.rev, author |-> s.author]
    <2>2. CASE markers' = Put(markers, v, m)
      BY <2>2, PutIsKept
    <2>3. ASSUME NEW old, markers' = Put(Drop(markers, {old}), v, m)
          PROVE  (u \in DOMAIN markers /\ markers'[u] = markers[u]) \/ u = v
      BY <2>3, SwapIsKept
    <2>4. \/ UNCHANGED markers
          \/ markers' \in PutCapped(markers, v, m)
      BY <1>3, <2>1 DEF PersistEffect, UpsertMarker
    <2> QED BY <2>2, <2>3, <2>4 DEF PutCapped
  <1>4. ASSUME NEW t \in Ids, Expire(t) PROVE (u \in DOMAIN markers /\ markers'[u] = markers[u])
                                              \/ (u \notin known /\ pc = "sweep")
    BY <1>3, <1>4 DEF Expire, ExpireTargets
  <1>5. CASE PersistEvicted
    <2>1. cur \in DOMAIN pending /\ pc = "evict"
      BY <1>5 DEF PersistEvicted, TypeOK, StepNeeds
    <2> QED BY <1>1, <1>3, <1>5, <2>1 DEF PersistEvicted
  <1> QED BY <1>1, <1>2, <1>4, <1>5
       DEF Next, CallStep, WriteSlotMeta, Unbuffer, Unmark, Heal, ResolveKnown, Supersede, Release,
           EndSweep, ApplyToKnownSlot, BufferSignal, Insert, EvictBare, EvictExpired, Swap, Done,
           StartApply, AppendOriginal, StartResolve, OpenThread, Tick, Crash, stores, vars

LEMMA LoadedStep ==
    ASSUME TypeOK, [Next]_vars, Loaded'
    PROVE  (Loaded /\ known' = known) \/ DOMAIN rows \subseteq known'
  <1>1. CASE WriteSlotMeta
    BY <1>1 DEF WriteSlotMeta, Loaded, Materialising, Resolving, OwnSlot, TypeOK, CallTypeOK
  <1>2. CASE Unbuffer
    BY <1>2 DEF Unbuffer, Loaded, Materialising, Resolving, OwnSlot
  <1>3. CASE Unmark
    BY <1>3 DEF Unmark, Loaded, OwnSlot
  <1>4. CASE Supersede
    BY <1>4 DEF Supersede, Loaded, Materialising
  <1>5. CASE Release \/ (\E t \in Ids : Heal(t) \/ Expire(t)) \/ PersistEvicted
    BY <1>5 DEF Release, Heal, Expire, PersistEvicted, Loaded
  <1>6. CASE EndSweep \/ ApplyToKnownSlot \/ BufferSignal \/ Insert \/ Swap \/ Done \/ Crash
             \/ (\E v \in Ids : EvictBare(v))
    BY <1>6 DEF EndSweep, ApplyToKnownSlot, BufferSignal, Insert, Swap, Done, Crash, EvictBare,
                NextTarget, Loaded, Materialising, Resolving
  <1>7. CASE (\E v \in Ids : EvictExpired(v)) \/ (\E s \in Signals : StartApply(s))
             \/ (\E th \in Threads : OpenThread(th))
    BY <1>7 DEF EvictExpired, StartApply, OpenThread
  <1>8. CASE \E t \in Originals : StartResolve(t)
    BY <1>8 DEF StartResolve, ResolveKnown, Loaded, Materialising, Resolving, OwnSlot
  <1>9. CASE Tick \/ (\E t \in Originals : AppendOriginal(t)) \/ UNCHANGED vars
    BY <1>9 DEF Tick, AppendOriginal, vars, stores, regs, Loaded, Materialising, Resolving, OwnSlot
  <1> QED BY <1>1, <1>2, <1>3, <1>4, <1>5, <1>6, <1>7, <1>8, <1>9 DEF Next, CallStep

(* A step that only lets time pass or appends an original leaves the stores   *)
(* of what has a row alone.                                                  *)
LEMMA QuietStep ==
    ASSUME Tick \/ (\E t \in Originals : AppendOriginal(t)) \/ UNCHANGED vars
    PROVE  /\ UNCHANGED <<pending, markers, slotMeta, pc, call, known, cur, inc, ret, todo>>
           /\ \A u \in DOMAIN rows : u \in DOMAIN rows' /\ rows'[u] = rows[u]
  BY DEF Tick, AppendOriginal, Put, vars, stores, regs

LEMMA UnmarkingStep ==
    ASSUME StandingInv, [Next]_vars
    PROVE  UnmarkingInv'
  <1>1. TypeOK /\ UnmarkingInv
    BY DEF StandingInv
  <1>2. CASE WriteSlotMeta
    <2>1. pc = "meta" /\ pc' = ret /\ ret # "meta" /\ UNCHANGED <<rows, markers, cur>>
      BY <1>1, <1>2 DEF WriteSlotMeta, TypeOK, CallTypeOK
    <2>2. CASE ret = "unbuffer"
      <3>1. cur \in DOMAIN rows /\ (Marked(cur) => ShowsMarked(cur))
        BY <1>1, <2>1, <2>2 DEF UnmarkingInv, Resolving
      <3> QED BY <1>2, <2>1, <2>2, <3>1
           DEF WriteSlotMeta, UnmarkingInv, Resolving, Marked, ShowsMarked
    <2>3. CASE ret # "unbuffer"
      <3>1. pc' \notin {"meta", "unbuffer", "unmark"}
        BY <1>1, <2>1, <2>3 DEF TypeOK, CallTypeOK
      <3> QED BY <3>1 DEF UnmarkingInv, Resolving
    <2> QED BY <2>2, <2>3
  <1>3. CASE Unbuffer
    BY <1>1, <1>3 DEF Unbuffer, UnmarkingInv, Resolving, Marked, ShowsMarked, LostEdit, LastRid
  <1>4. ASSUME NEW t \in DOMAIN rows, NEW author, ResolveKnown(t, author),
               author = rows[t].author \/ (t \in Originals /\ author = AuthorOf[t])
        PROVE  UnmarkingInv'
    <2>1. cur' = t /\ UNCHANGED markers /\ t \in DOMAIN rows'
      BY <1>1, <1>4, AuthorStays DEF ResolveKnown
    <2>2. CASE ~Marked(t)
      BY <1>4, <2>1, <2>2 DEF UnmarkingInv, ResolveKnown, Resolving, Marked
    <2>3. CASE Marked(t)
      <3>1. ShowsMarked(t)' \/ (pc' = "unbuffer" /\ LostEdit(t)')
        BY <1>4, <2>3, ResolvedMarker
      <3>2. ShowsMarked(cur)' \/ (pc' = "unbuffer" /\ LostEdit(cur)')
        BY <2>1, <3>1 DEF ShowsMarked, LostEdit, LastRid
      <3> QED BY <1>4, <2>1, <3>2 DEF UnmarkingInv, ResolveKnown, Resolving
    <2> QED BY <2>2, <2>3
  <1>5. ASSUME NEW t \in Ids, Heal(t) PROVE UnmarkingInv'
    BY <1>1, <1>4, <1>5 DEF Heal, HealTargets, TypeOK, CallTypeOK
  <1>6. ASSUME NEW t \in Originals, StartResolve(t) PROVE UnmarkingInv'
    BY <1>1, <1>4, <1>6 DEF StartResolve, TypeOK, EnvType
  <1>7. ASSUME pc' \notin {"unbuffer", "unmark"}, pc' = "meta" => ret' # "unbuffer"
        PROVE  UnmarkingInv'
    BY <1>7 DEF UnmarkingInv, Resolving
  <1>8. CASE (\E t \in Ids : Expire(t)) \/ PersistEvicted \/ ApplyToKnownSlot
    <2>1. pc' \notin {"unbuffer", "unmark"} /\ (pc' = "meta" => ret' # "unbuffer")
      BY <1>8 DEF Expire, PersistEvicted, PersistEffect, ApplyToKnownSlot
    <2> QED BY <1>7, <2>1
  <1>9. CASE \/ Unmark \/ Supersede \/ Release \/ EndSweep \/ BufferSignal \/ Insert
             \/ (\E v \in Ids : EvictBare(v) \/ EvictExpired(v)) \/ Swap \/ Done \/ Crash
             \/ (\E s \in Signals : StartApply(s)) \/ (\E th \in Threads : OpenThread(th))
    <2>1. pc' \notin {"meta", "unbuffer", "unmark"}
      BY <1>9 DEF Unmark, Supersede, Release, EndSweep, BufferSignal, Insert, EvictBare,
                  EvictExpired, NextTarget, Swap, Done, Crash, StartApply, OpenThread
    <2> QED BY <1>7, <2>1
  <1>10. CASE Tick \/ (\E t \in Originals : AppendOriginal(t)) \/ UNCHANGED vars
    <2>1. /\ UNCHANGED <<markers, slotMeta, pc, cur, ret>>
          /\ \A u \in DOMAIN rows : u \in DOMAIN rows' /\ rows'[u] = rows[u]
      BY <1>10, QuietStep
    <2> QED BY <1>1, <2>1 DEF UnmarkingInv, Resolving, Marked, ShowsMarked, LostEdit, LastRid
  <1> QED BY <1>2, <1>3, <1>5, <1>6, <1>8, <1>9, <1>10 DEF Next, CallStep

LEMMA SupersedingStep ==
    ASSUME StandingInv, [Next]_vars
    PROVE  SupersedingInv'
  <1>1. TypeOK /\ StoresType /\ SupersedingInv
    BY DEF StandingInv, TypeOK
  <1>2. CASE WriteSlotMeta
    <2>1. pc = "meta" /\ pc' = ret /\ ret # "meta" /\ UNCHANGED <<rows, markers, cur, inc, ret>>
      BY <1>1, <1>2 DEF WriteSlotMeta, TypeOK, CallTypeOK
    <2>2. CASE ret = "supersede"
      <3>1. cur \in DOMAIN slotMeta' /\ slotMeta'[cur] = inc.rid
        <4>1. PICK f : slotMeta' = Put(f, cur, inc.rid)
          BY <1>2 DEF WriteSlotMeta, PutCapped
        <4> QED BY <4>1 DEF Put
      <3>2. LastRid(cur)' = inc.rid
        BY <2>1, <3>1 DEF LastRid
      <3> QED BY <1>1, <2>1, <2>2, <3>2 DEF SupersedingInv, Materialising
    <2>3. CASE ret # "supersede"
      BY <2>1, <2>3 DEF SupersedingInv, Materialising
    <2> QED BY <2>2, <2>3
  <1>3. ASSUME NEW t \in DOMAIN pending, NEW next \in {"release", "swap"},
               PersistEffect(t, pending[t].sig, next)
        PROVE  SupersedingInv'
    <2>1. PICK s \in Signals : s = pending[t].sig
      BY <1>1 DEF StoresType, EntryType
    <2>2. s.rev \in Nat /\ (t \in DOMAIN markers => markers[t].rev \in Nat)
      BY <1>1, SignalParts DEF StoresType, MarkerType
    <2>3. CASE s.kind = "edit" /\ ~Outranked(t, s)
      <3>1. /\ cur' = t /\ inc' = Incoming(s) /\ UNCHANGED markers /\ pc' = "meta"
            /\ t \in DOMAIN rows'
        BY <1>3, <2>1, <2>3 DEF PersistEffect, Put
      <3>2. t \in DOMAIN markers => Incoming(s).rev > markers[t].rev
        BY <2>2, <2>3, SignalParts DEF Outranked
      <3> QED BY <2>3, <3>1, <3>2 DEF SupersedingInv, Materialising
    <2>4. CASE pc' = next
      BY <2>4 DEF SupersedingInv, Materialising
    <2> QED BY <1>3, <2>1, <2>3, <2>4 DEF PersistEffect
  <1>4. ASSUME NEW t \in Ids, Expire(t) PROVE SupersedingInv'
    BY <1>3, <1>4 DEF Expire, ExpireTargets
  <1>5. ASSUME pc' # "supersede", pc' = "meta" => ret' # "supersede"
        PROVE  SupersedingInv'
    BY <1>5 DEF SupersedingInv, Materialising
  <1>6. CASE PersistEvicted
    <2>1. cur \in DOMAIN pending
      BY <1>1, <1>6 DEF PersistEvicted, TypeOK, StepNeeds
    <2>2. CASE cur \notin known
      BY <1>3, <1>6, <2>1, <2>2 DEF PersistEvicted
    <2>3. CASE cur \in known
      <3>1. pc' # "supersede" /\ (pc' = "meta" => ret' # "supersede")
        BY <1>6, <2>3 DEF PersistEvicted
      <3> QED BY <1>5, <3>1
    <2> QED BY <2>2, <2>3
  <1>7. CASE \/ Unbuffer \/ Unmark \/ (\E t \in Ids : Heal(t)) \/ Supersede \/ Release \/ EndSweep
             \/ ApplyToKnownSlot \/ BufferSignal \/ Insert
             \/ (\E v \in Ids : EvictBare(v) \/ EvictExpired(v)) \/ Swap \/ Done \/ Crash
             \/ (\E s \in Signals : StartApply(s)) \/ (\E t \in Originals : StartResolve(t))
             \/ (\E th \in Threads : OpenThread(th))
    <2>1. pc' # "supersede" /\ (pc' = "meta" => ret' # "supersede")
      BY <1>7 DEF Unbuffer, Unmark, Heal, ResolveKnown, Supersede, Release, EndSweep,
                  ApplyToKnownSlot, BufferSignal, Insert, EvictBare, EvictExpired, NextTarget,
                  Swap, Done, Crash, StartApply, StartResolve, OpenThread
    <2> QED BY <1>5, <2>1
  <1>8. CASE Tick \/ (\E t \in Originals : AppendOriginal(t)) \/ UNCHANGED vars
    <2>1. /\ UNCHANGED <<markers, slotMeta, pc, cur, inc, ret>>
          /\ \A u \in DOMAIN rows : u \in DOMAIN rows'
      BY <1>8, QuietStep
    <2> QED BY <1>1, <2>1 DEF SupersedingInv, Materialising, LastRid
  <1> QED BY <1>2, <1>4, <1>6, <1>7, <1>8 DEF Next, CallStep

LEMMA EmptyRidStep ==
    ASSUME StandingInv, [Next]_vars
    PROVE  EmptyRidInv'
  <1>1. TypeOK /\ UnmarkingInv /\ EmptyRidInv
    BY DEF StandingInv
  <1> DEFINE Holds(t) == /\ t \in DOMAIN rows'
                         /\ Marked(t)' => ShowsMarked(t)'
                         /\ Loaded' => t \in known'
  <1>2. ASSUME NEW t \in DOMAIN slotMeta, slotMeta[t] = NoRid PROVE Holds(t)
    <2>1. t \in DOMAIN rows /\ (Marked(t) => ShowsMarked(t)) /\ (Loaded => t \in known)
      BY <1>1, <1>2 DEF EmptyRidInv
    <2>2. ASSUME Marked(t)' PROVE ShowsMarked(t)'
      <3>1. t \in Originals /\ t \in DOMAIN markers' /\ markers'[t].author = AuthorOf[t]
        BY <2>2 DEF Marked
      <3>2. ~(t \notin known /\ pc \in {"sweep", "evict"})
        BY <2>1 DEF Loaded
      <3>3. t \in DOMAIN markers /\ markers'[t] = markers[t]
        BY <1>1, <3>1, <3>2, MarkerOrigin
      <3>4. Marked(t)
        BY <3>1, <3>3 DEF Marked
      <3> QED BY <1>1, <2>1, <2>2, <3>1, <3>3, <3>4, ShownMarkerStays
    <2>3. Loaded' => t \in known'
      BY <1>1, <2>1, LoadedStep
    <2> QED BY <1>1, <2>1, <2>2, <2>3, AuthorStays
  <1>3. ASSUME NEW t, t = cur, WriteSlotMeta, inc.rid = NoRid PROVE Holds(t)
    <2>1. Resolving /\ cur \in DOMAIN rows /\ (~OwnSlot => cur \in known)
      BY <1>1, <1>3 DEF WriteSlotMeta, EmptyRidInv, UnmarkingInv
    <2>2. Marked(t) => ShowsMarked(t)
      BY <1>1, <1>3, <2>1 DEF UnmarkingInv
    <2>3. UNCHANGED <<rows, markers, known, cur, call>> /\ pc' = "unbuffer"
      BY <1>3, <2>1 DEF WriteSlotMeta, Resolving
    <2>4. Loaded' => ~OwnSlot
      BY <2>1, <2>3 DEF Loaded, Materialising, Resolving, OwnSlot
    <2> QED BY <1>3, <2>1, <2>2, <2>3, <2>4 DEF Marked, ShowsMarked
  <1>4. ASSUME NEW t \in DOMAIN slotMeta', slotMeta'[t] = NoRid PROVE Holds(t)
    <2>1. CASE WriteSlotMeta
      <3>1. \/ t \in DOMAIN slotMeta /\ slotMeta'[t] = slotMeta[t]
            \/ t = cur /\ slotMeta'[t] = inc.rid
        <4>1. CASE slotMeta' = Put(slotMeta, cur, inc.rid)
          BY <4>1, PutIsKept
        <4>2. ASSUME NEW old, slotMeta' = Put(Drop(slotMeta, {old}), cur, inc.rid)
              PROVE  \/ t \in DOMAIN slotMeta /\ slotMeta'[t] = slotMeta[t]
                     \/ t = cur /\ slotMeta'[t] = inc.rid
          BY <4>2, SwapIsKept
        <4> QED BY <2>1, <4>1, <4>2 DEF WriteSlotMeta, PutCapped
      <3> QED BY <1>2, <1>3, <1>4, <2>1, <3>1
    <2>2. WriteSlotMeta \/ UNCHANGED slotMeta
      BY MetaStep
    <2>3. CASE UNCHANGED slotMeta
      <3>1. t \in DOMAIN slotMeta /\ slotMeta[t] = NoRid
        BY <1>4, <2>3
      <3> QED BY <1>2, <3>1
    <2> QED BY <2>1, <2>2, <2>3
  <1>5. ASSUME pc' = "meta", inc'.rid = NoRid
        PROVE  Resolving' /\ (~OwnSlot' => cur' \in known')
    <2>1. CASE Tick \/ (\E t \in Originals : AppendOriginal(t)) \/ UNCHANGED vars
      <3>1. UNCHANGED <<pc, call, known, cur, inc, ret>>
        BY <2>1, QuietStep
      <3> QED BY <1>1, <1>5, <3>1 DEF EmptyRidInv, Resolving, OwnSlot
    <2>2. CASE \E t \in Ids : Heal(t)
      BY <1>5, <2>2 DEF Heal, HealTargets, ResolveKnown, Resolving
    <2>3. CASE \E t \in Originals : StartResolve(t)
      BY <1>5, <2>3 DEF StartResolve, ResolveKnown, Resolving, OwnSlot
    <2>4. ASSUME NEW s \in Signals, inc' = Incoming(s) PROVE FALSE
      BY <1>5, <2>4, SignalParts DEF NoRid
    <2>5. ASSUME NEW t \in Ids, Expire(t) PROVE FALSE
      <3>1. pending[t].sig \in Signals /\ inc' = Incoming(pending[t].sig)
        BY <1>1, <2>5 DEF Expire, PersistEffect, ExpireTargets, TypeOK, StoresType, EntryType
      <3> QED BY <2>4, <3>1
    <2>6. CASE PersistEvicted
      <3>1. cur \in DOMAIN pending /\ pending[cur].sig \in Signals
        BY <1>1, <2>6 DEF PersistEvicted, TypeOK, StepNeeds, StoresType, EntryType
      <3>2. inc' = Incoming(pending[cur].sig)
        BY <1>5, <2>6 DEF PersistEvicted, PersistEffect
      <3> QED BY <2>4, <3>1, <3>2
    <2>7. CASE ApplyToKnownSlot
      <3>1. call.sig \in Signals /\ inc' = Incoming(call.sig)
        BY <1>1, <1>5, <2>7 DEF ApplyToKnownSlot, TypeOK, StepNeeds, CallTypeOK, CallType, NoCall
      <3> QED BY <2>4, <3>1
    <2>8. CASE WriteSlotMeta
      BY <1>1, <1>5, <2>8 DEF WriteSlotMeta, TypeOK, CallTypeOK
    <2>9. CASE \/ Unbuffer \/ Unmark \/ Supersede \/ Release \/ EndSweep \/ BufferSignal \/ Insert
               \/ (\E v \in Ids : EvictBare(v) \/ EvictExpired(v)) \/ Swap \/ Done \/ Crash
               \/ (\E s \in Signals : StartApply(s)) \/ (\E th \in Threads : OpenThread(th))
      BY <1>5, <2>9 DEF Unbuffer, Unmark, Supersede, Release, EndSweep, BufferSignal, Insert,
                  EvictBare, EvictExpired, NextTarget, Swap, Done, Crash, StartApply, OpenThread
    <2> QED BY <2>1, <2>2, <2>3, <2>5, <2>6, <2>7, <2>8, <2>9 DEF Next, CallStep
  <1> QED BY <1>4, <1>5 DEF EmptyRidInv

(* The marker of an author that goes. *)
LEMMA MarkerLeavesShown ==
    ASSUME StandingInv, [Next]_vars, NEW t \in DOMAIN markers \cap Originals,
           markers[t].author = AuthorOf[t], t \notin DOMAIN markers',
           DOMAIN markers' \subseteq DOMAIN markers
    PROVE  ShowsMarked(t) \/ LostEdit(t)
  <1>1. TypeOK /\ StoresType /\ UnmarkingInv /\ SupersedingInv /\ Marked(t)
    BY DEF StandingInv, TypeOK, Marked
  <1>2. CASE Unmark
    <2>1. t = cur /\ pc = "unmark"
      BY <1>2 DEF Unmark, Drop, Restrict
    <2> QED BY <1>1, <2>1 DEF UnmarkingInv
  <1>3. CASE Supersede
    <2>1. t = cur /\ pc = "supersede"
      BY <1>3 DEF Supersede, Drop, Restrict
    <2>2. PICK e \in Signals : /\ e.kind = "edit" /\ inc = Incoming(e)
                               /\ t \in DOMAIN rows /\ inc.rev > markers[t].rev
                               /\ LastRid(t) = inc.rid
      BY <1>1, <2>1 DEF SupersedingInv, Materialising
    <2>3. e.rev \in Nat /\ rows[t].rev \in Nat /\ markers[t].rev \in Nat
          /\ e.rev > markers[t].rev /\ e.rid = LastRid(t)
      BY <1>1, <2>2, SignalParts DEF StoresType, RowType, MarkerType
    <2>4. CASE e.rev > rows[t].rev
      BY <2>2, <2>3, <2>4 DEF LostEdit
    <2>5. CASE rows[t].rev >= e.rev
      BY <2>2, <2>3, <2>5 DEF ShowsMarked
    <2> QED BY <2>3, <2>4, <2>5
  <1>4. ASSUME NEW v, NEW s, NEW next, PersistEffect(v, s, next) PROVE FALSE
    <2> DEFINE m == [rev |-> s.rev, author |-> s.author]
    <2>1. markers' \in UpsertMarker(v, s)
      BY <1>4 DEF PersistEffect
    <2>2. markers' \in PutCapped(markers, v, m)
      BY <2>1 DEF UpsertMarker
    <2>3. v \in DOMAIN markers'
      BY <2>2 DEF PutCapped, Put
    <2>4. markers' = Put(markers, v, m)
      BY <2>2, <2>3 DEF PutCapped
    <2> QED BY <2>4 DEF Put
  <1>5. ~(\E v \in Ids : Expire(v)) /\ ~PersistEvicted
    BY <1>4 DEF Expire, PersistEvicted
  <1> QED BY <1>2, <1>3, <1>5
       DEF Next, CallStep, WriteSlotMeta, Unbuffer, Heal, ResolveKnown, Release,
           EndSweep, ApplyToKnownSlot, BufferSignal, Insert, EvictBare, EvictExpired, Swap, Done,
           StartApply, AppendOriginal, StartResolve, OpenThread, Tick, Crash, stores, vars

(* A delete that has expired is not forgotten after that either: its marker   *)
(* goes only once the row shows it or what outranks it, with bounded stores,  *)
(* signals of anybody and any number of crashes.                             *)
THEOREM MarkedDeletesStand == Spec => MarkersStand
  <1>1. StandingInv /\ [Next]_vars => StandingInv'
    BY TypeStep, RecordStep, UnmarkingStep, SupersedingStep, EmptyRidStep DEF StandingInv
  <1>2. StandingInv /\ [Next]_vars =>
          [\A t \in DOMAIN markers \cap Originals :
             markers[t].author = AuthorOf[t] /\ t \notin DOMAIN markers'
             => ShowsMarked(t) \/ LostEdit(t) \/ ~(DOMAIN markers' \subseteq DOMAIN markers)]_vars
    BY MarkerLeavesShown
  <1> QED BY <1>1, <1>2, StandingInit, PTL DEF Spec, MarkersStand
=============================================================================
