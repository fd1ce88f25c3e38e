----------------------- MODULE MessageEditsRetraction -----------------------
(***************************************************************************)
(* Why a retraction sticks: the inductive invariant behind RetractionSticks *)
(* of MessageEdits, for conversations whose signals all come from the        *)
(* authors of the messages and whose buffers stay below their caps.          *)
(***************************************************************************)
EXTENDS MessageEdits

(* The stores can hold every id: no entry is evicted. *)
ASSUME RoomAssumption == Cardinality(Ids) < Cap

(* Signals are built by buildDeleteRumor and buildEditReplacementRumor for   *)
(* the author's own message: the original id comes first, the ids of earlier *)
(* replacements follow in a delete, and no replacement id names a row.       *)
ASSUME AuthoredAssumption ==
    \A s \in Signals :
        /\ ByItsAuthor(s)
        /\ \A i \in DOMAIN s.targets :
              /\ ThreadOf[s.targets[i]] = ThreadOf[Slot(s)]
              /\ i # 1 => s.kind = "delete" /\ s.targets[i] \notin Originals

(* clampRev: two deletes of one message never carry the same revision. *)
ASSUME RevisionAssumption ==
    \A d1, d2 \in Signals :
        /\ d1.kind = "delete" /\ d2.kind = "delete"
        /\ Slot(d1) = Slot(d2) /\ d1.rev = d2.rev
        => d1 = d2

-----------------------------------------------------------------------------
(* The row of t shows a delete of revision r or something newer. *)
Reflects(t, r) ==
    /\ t \in DOMAIN rows
    /\ rows[t].rev > r \/ (rows[t].rev = r /\ rows[t].tomb)

FinalSignals == {s \in Signals : Final(s)}

(* Rows and markers carry the author of their message, an entry the signal   *)
(* of its slot.                                                             *)
StoresInv ==
    /\ \A t \in DOMAIN rows : t \in Originals /\ rows[t].author = AuthorOf[t]
    /\ \A t \in DOMAIN markers \cap Originals : markers[t].author = AuthorOf[t]
    /\ \A t \in DOMAIN pending :
          /\ t \in Originals \/ pending[t].sig.kind = "edit" => Slot(pending[t].sig) = t
          /\ ThreadOf[t] = ThreadOf[Slot(pending[t].sig)]
          /\ pending[t].at <= clock

(* A recorded rumor id says the row has taken that delete; the empty id, that *)
(* it has taken the marker, which a sweep can only have done to a row it knew. *)
OwnSlot == /\ pc \in {"meta", "unbuffer", "unmark"}
           /\ call.op = "resolve" /\ cur = call.slot

Sweeping ==
    \/ pc = "sweep"
    \/ pc \in {"meta", "unbuffer", "unmark", "supersede", "release"} /\ ret # "done" /\ ~OwnSlot

MetaInv ==
    \A t \in DOMAIN slotMeta :
        /\ \A d \in Signals : d.kind = "delete" /\ d.rid = slotMeta[t] => Reflects(t, d.rev)
        /\ slotMeta[t] = NoRid =>
              /\ t \in DOMAIN rows
              /\ Sweeping => t \in known
              /\ t \in DOMAIN markers => Reflects(t, markers[t].rev)

(* What a call in progress has established at each of its steps. *)
CallInv ==
    /\ pc \notin {"evict", "swap"} /\ ret # "swap"
    /\ pc # "insert" => todo = <<>>
    /\ call.op = "apply" => call.thread = ThreadOf[Slot(call.sig)]
    /\ call.op = "resolve" => /\ call.thread = ThreadOf[call.slot]
                              /\ call.slot \in DOMAIN rows
                              /\ ~OwnSlot => call.slot \notin DOMAIN pending
    /\ ret = "done" => pc \in {"meta", "done"}

ApplyingInv ==
    pc = "meta" =>
        /\ inc.kind = "delete" => Reflects(cur, inc.rev)
        /\ \A d \in Signals : d.rid = inc.rid => inc = Incoming(d)
        /\ inc.rid = NoRid =>
              /\ ret = "unbuffer" /\ cur \in DOMAIN markers
              /\ markers[cur].rev = inc.rev /\ inc.kind = "delete"

ResolvingInv ==
    pc \in {"unbuffer", "unmark"} \/ (pc = "meta" /\ ret = "unbuffer") =>
        /\ cur \in DOMAIN rows
        /\ pc = "unmark" => cur \notin DOMAIN pending
        /\ OwnSlot \/ (cur \in known /\ ThreadOf[cur] = call.thread)
        /\ \A s \in FinalSignals : Slot(s) = cur =>
              /\ ByMarker(s) => ByRow(s)
              /\ ByBuffer(s) => ByRow(s)

ExpiringInv ==
    pc \in {"supersede", "release"} \/ (pc = "meta" /\ ret = "supersede") =>
        /\ ~OwnSlot
        /\ cur \in DOMAIN pending /\ inc = Incoming(pending[cur].sig)
        /\ pc # "release" => /\ inc.kind = "edit"
                             /\ cur \in DOMAIN markers => markers[cur].rev < inc.rev
        /\ \A s \in FinalSignals :
              /\ pc = "release" /\ ByBuffer(s)
              /\ pending[Slot(s)].sig.rid = inc.rid
              => ByRow(s) \/ ByMarker(s)

InsertingInv ==
    pc = "insert" =>
        \/ todo = call.sig.targets
        \/ /\ ByBuffer(call.sig)
           /\ \A i \in DOMAIN todo :
                 /\ todo[i] \notin Originals
                 /\ ThreadOf[todo[i]] = ThreadOf[Slot(call.sig)]
                 /\ call.sig.kind = "delete"

FinishingInv ==
    /\ pc = "done" \/ (pc = "meta" /\ ret = "done")
    /\ Final(call.sig)
    => Remembered(call.sig)

(* A delete buffered under a replacement id is also buffered, no later, under *)
(* its original, or a row, a marker or a stronger signal stands for it there. *)
SiblingInv ==
    \A u \in DOMAIN pending :
        LET d == pending[u].sig
            t == Slot(d)
        IN  u # t /\ Final(d) =>
                \/ ByRow(d) \/ ByMarker(d)
                \/ /\ t \in DOMAIN pending
                   /\ IF pending[t].sig = d THEN pending[t].at <= pending[u].at
                      ELSE SignalBeats(pending[t].sig, d)

(* The inductive invariant of RetractionSticks. *)
RetractionInv ==
    /\ TypeOK /\ StoresInv /\ MetaInv /\ CallInv /\ ApplyingInv /\ ResolvingInv
    /\ ExpiringInv /\ InsertingInv /\ FinishingInv /\ SiblingInv /\ RetractionSticks
=============================================================================
