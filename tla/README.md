# Quizzl: a verification project

TLA+ modules of the parts of Quizzl (the client under `src/app`, called *few* in
its stores) whose correctness depends on order, timing and failure; TLC
configurations that check them on small instances; and theorems that hold for
every instance, checked by TLAPS.

Quizzl is a browser application with no server of its own. It talks to Nostr
relays, which deliver what members publish in any order, more than once, late,
or not before the next fetch. Group messages are MLS ciphertexts handled by the
library marmot-ts; direct messages are gift-wrapped Nostr events. State lives in
IndexedDB and localStorage, and a tab can be closed between any two writes. The
code is single-threaded, so what can interleave is what an `await`, a timer or a
subscription callback separates. The models take one step for each stretch of
code between two such points.

## 1. The system

Paths are relative to `src/app/src/lib` unless they start with `app`. The status
is that of this development.

| Component | State it keeps | Operations | Hard behaviour | What makes it correct | Status |
|---|---|---|---|---|---|
| **Message edits and deletes** `messageEdits/api.ts`, `messageEdits/rumor.ts`, rows in `marmot/chatPersistence.ts` | rows; buffered signals; delete markers; slot metadata: four IndexedDB stores | apply a signal, resolve after an append, sweep of expired entries, eviction, clear, purge | any order of original, edit, delete; redelivery; separate writes and crashes; TTL; caps | a row shows its highest signal for any order; an author's delete is never lost; only the author changes a row; bounded stores | `MessageEdits` and family |
| **MLS fork resolution** `marmot/epochResolver.ts`, `marmot/welcomeSubscription.ts` | snapshot, grace timer, future buffer, lock chain, seen ids | ingest, rollback and replay, flush, grace expiry, dispose | competing commits and messages in any order, redelivery, a timer between awaits, re-subscription | the lowest commit wins while a choice is open; nothing usable is forgotten; everything is read in the end | `EpochResolver`, `ForkChoice`, `EpochFork` |
| **Unread counters** `unreadStore.ts` with `marmot/handlers/chatHandler.ts`, `directMessageNotifications.ts`, `activeViewStore.ts` | counts in memory, last-read timestamps, a promise chain per slice, a floor per confirm | increment, mark read, startup scans, confirm-time reconcile, clear | a scan of many awaits against live increments and marks-read | neither misses nor invents unread activity; pending contacts stay dark | `UnreadStore` |
| **Calls** `calls/*`, `app/src/components/calls/*` | call context, call store, timers, stashed offers, a peer session for each leg, open microphones | start, offer, accept, decline, hang up, renegotiate, time out, destroy | glare; every busy check is followed by an await; two devices of one user; mesh offers before the click | a microphone belongs to the call in progress; the screen shows what the buttons act on; ringing and dialling end; a mesh is complete | `CallManager` |
| **Reactions** `reactions/*`, `marmot/handlers/reactionHandler.ts` | reaction rows, a write queue per thread | toggle, receive, clear, purge | a removal delivered before what it removes; queued writes against a clear; publishing that fails | a peer's reaction counts once, one taken back stays away; a clear is final | direct conversations in `DirectThread` |
| **Pairing** `pairing/*`, `shareCard.ts`, `processContactInput.ts`, `app/pages/add.tsx` | issuer: active and stored nonces, admissions of the session, processed wraps; scanner: an intent for each issuer, runs in flight | show a code, scan, drain, echo, admit | lost and repeated echoes, shared runs, page loads, a grace after the expiry | a code admits exactly until its grace ends; an intent is held until it is settled | `Pairing` |
| **Profile exchange** `dmProfile/*` | retry ladder, last announce per peer | announce, receive, heal | retries racing receipts, last-writer-wins | newest profile wins; retries end | planned |
| **Contacts, blocking, walled garden** `contacts.ts`, `blockedPeers.ts`, `knownPeers.ts`, `walledGarden.ts` | pending, confirmed, archived contacts; ever-known peers | remember, confirm, archive, unarchive, purge | purge against deliveries in flight | what the user decided about a contact stands | contacts and known peers in `Pairing`; their pending state in `UnreadStore`; the wipe of a blocked peer in `DirectThread` |
| **Invitations and join requests** `marmot/inviteLinkStorage.ts`, `marmot/inviteExpirySweep.ts`, `app/src/components/NotificationBell.tsx`, `marmot/joinRequest*.ts`, `pendingInvitations.ts`, `marmot/cancelInvitationImpl.ts` | a record per link, a promise chain per nonce, latches of the migration and the sweep, the badge of each group; queues of requests with caps | create, approve, delete, clear, migrate, sweep, acknowledge; invite, request, deny, cancel | read and write in two transactions, several bells, writes without the lock, a rejected call, a page load between stamp and ring | the store is what the calls would have left one by one; the bell rings once for a link; the badge settles | links in `InviteLinks`; requests and invitations planned |
| **Leaving and auto-commit** `app/src/context/MarmotContext.tsx`, `marmot/leaveGroupImpl.ts`, `marmot/leaveSync.ts`, `marmot/grantAdminImpl.ts` | queue of removals, debounce timer, the group's tree and admins | leave, queue, commit the removals; grant, rename, invite and remove beside it | timers of several admins; a removal against a re-invitation; group data written whole | a timer removes only whom an announcement named; nobody is demoted; a departure is not forgotten and ends | `GroupDeparture` |
| **Rumor dispatch** `marmot/applicationRumorDispatcher.ts`, `marmot/registerHandlers.ts` | a bounded set of rumor ids | dispatch | a handler that fails, ids evicted | each rumor is handled once | planned |
| **Group profile sync and requests** `marmot/profileSync.ts`, `marmot/profileRequest*.ts` | profiles, request times | request, answer, merge | stale answers | newest wins, requests are bounded | planned |
| **Polls** `marmot/poll*.ts`, `app/src/context/PollStoreContext.tsx` | polls, votes | open, vote, close | vote and close out of order | same tally everywhere | planned |
| **Relay backup** `backup/relayBackup.ts`, `app/src/context/BackupContext.tsx` | debounce timer, last backup | upload, restore | upload racing a restore | a restore is not overwritten by older data | planned |
| **Direct messages** `app/src/components/contacts/ContactChat.tsx`, `directMessages.ts` | known message ids, the history pass, subscriptions, React state over the rows | open, fetch, subscribe, send, close | a history pass of many awaits against live events, a close or a block | what was fetched is stored; nothing is lost; a blocked peer's history is gone | `DirectThread`; edits in `MessageEdits` |
| **Chat store** `app/src/context/ChatStoreContext.tsx` | React state over the rows | send, receive, optimistic rows | | | their rows are in `MessageEdits` |
| **Identity and account switch** | keys, stores to wipe | | cryptography | | not modelled |
| **Media**, **relays and transport**, **user interface** | | | I/O, adapters, rendering | | not modelled |

How they interact: `welcomeSubscription` feeds group events to the
`EpochResolver`; what marmot-ts decrypts goes through the dispatcher to the
handlers. The chat handler appends the row, calls `resolvePendingSignalsForSlot`
of the edit core, and then counts the message in `unreadStore`. The edit handler
calls `applyDeleteEditSignal`. Direct messages take the same two routes from
`ContactChat`, and `directMessageNotifications` counts them without storing
them. Confirming a contact starts a reconcile of its counter.
The bells keep the badge of expired links in `unreadStore`, derived from the flags
their sweep stores in the records; an approved join request counts on a record too.
Pairing makes contacts: the issuer's pending ones are those the unread counters
keep dark. A leave announcement is a group message, so it comes through the
resolver and the dispatcher to the queue of `MarmotContext`, whose commits are
events of the resolver of everyone else. Call signals are gift-wrapped direct
messages of their own kinds.

## 2. The modules

### Message edits: `MessageEdits`, `MessageEditsRegister`, `SlotRegister`, `MessageEditsRetraction`

`MessageEdits` is one device. Its persisted variables are the code's stores:
`rows` (chatPersistence), `pending` (`PendingSignal`), `markers`
(`TombstoneMarker`) and `slotMeta` (the tie-break record). An API call runs
under the module's single promise queue, so the model has one program counter
`pc`, and each action commits **one** IndexedDB write, which is exactly where
the process can die (`Crash`). Originals are appended through another queue, so
`AppendOriginal` may fall between any two steps of a call.

| Actions | Code |
|---|---|
| `StartApply`, `ApplyToKnownSlot`, `BufferSignal`, `Insert`, `Done` | `applyDeleteEditSignal` (sweep first, then apply or buffer each target id) |
| `Heal`, `Unbuffer`, `Unmark` | `resolveKnownRowAgainstStores`, `removePendingByRumorId`, `removeMarker` |
| `Expire`, `Supersede`, `Release`, `EndSweep` | second phase of `sweepExpiredForThreadKeyLocked`, `persistExpiredEntryEffect` |
| `EvictBare`, `EvictExpired`, `PersistEvicted`, `Swap` | `evictOldestPendingIfOverCap` |
| `WriteSlotMeta` | `writeSlotMeta`, the commit after each row write |
| `AppendOriginal`, `StartResolve`, `OpenThread` | the handlers: `appendMessage`, then `resolvePendingSignalsForSlot`; a thread being opened |

A rumor id is a number (only its order matters), a text is the id of the edit
that brought it, the clock counts in ticks of which `TTL` make the 24 hours a signal
stays buffered (`PENDING_SIGNAL_TTL_MS`).
`SlotRegister` is what the core promises of one message: a register that only
takes a stronger outcome. `MessageEditsRegister` maps row, buffered entry and
marker together to that register. `MessageEditsRetraction` holds the inductive
invariant of `RetractionSticks`.

### Forks: `EpochResolver`, `ForkChoice`, `EpochFork`

A group state is the branch (sequence of commits) it results from, together
with the messages whose key it has used up. `Arrive` is the relay subscription
with its seen-id check, `Ingest` takes the lock and calls `ingest` of marmot-ts,
the `Handle*` actions are the cases of `processEvent` after its `await`,
`Rollback` and `Settle` are `rollbackAndReplay`, `FlushFutureBuffer` is the
retry of the buffer, `GraceExpires` the timer callback (possible between any two
of these), and `Resubscribe` the unsubscribe function followed by a new
subscription, with the seen set shared. marmot-ts is not in the repository: the
operators `Applies`, `NextOf`, `AfterBatch`, `OutcomeOf` state what `src/` relies
on (a commit applies on the state it was made on; a commit of an earlier state
is skipped as past-epoch; what cannot be decrypted is unreadable; a batch is
sorted and retried). `ForkChoice` is the promise: the group holds the lowest of
the commits offered while the choice was open. `EpochFork` maps the resolver
to it.

### Unread counters: `UnreadStore`

`count` is `state.counts` and `state.directMessages`; `read` stands for the
last-read timestamps as the set of messages they cover. A reconcile goes through
`importing` (the dynamic import before it), `calls` (the promise chain of its
slice), and `job` (the locals of `reconcileInitExclusive` with `initTouched`):
`Enqueue`, `Begin`, then `Read` and `Resume` for each key, the re-read passes,
and the write (`Advance`). A read of the store and its continuation are separate
steps, so everything live (`StoreMessage`, `CountMessage`, `LiveDm`, `StoreDm`,
`Open`, `Close`) can come between them. `Confirm` and `Enqueue` are
`reconcileConfirmedContactDirectMessageCount`; its `finally` block, which raises
the counter to the floor (`Floored`), runs in the same task as the write, so it is
part of `Advance`. `lowered` remembers the peers whose counter the confirm of
another contact replaced, `ready` the groups whose last scan ended untouched.

### Calls: `CallManager`

`dev` is each device's manager: `ctxs` are the contexts it has created (a
function that was suspended holds on to its own), `cur` the one in `this.ctx`,
`store` what `callStore` shows, `open` the microphone streams, `sdps` and
`stash` the remembered offers. `jobs` are the suspended async functions of a
device, each at the await it waits on; `net` the signals under way.

| Actions | Code |
|---|---|
| `StartCall`, `MediaForStart`, `StartRefused`, `OffersPublished`, `OfferFails` | `startCall` before and after `acquireMedia`, and the end of its publishes |
| `HandleOffer`, `RosterResolved`, `HandleMeshOffer` | `_handleOffer` with its early returns, `_resolveGroupAndRoster`, `_handleMeshOffer` |
| `AcceptCall`, `MediaForAccept`, `MediaTooLate`, `AcceptRefused`, `AnswersPublished`, `AnswerFails`, `JoinMesh`, `TakeStash`, `AnswerStashed` | `acceptCall`, one step for each await |
| `DeclineCall`, `Declined`, `Hangup`, `HungUp`, `Destroy`, `Timer` | `declineCall`, `hangup`, `destroy`, `_onRingTimeout` and the caller's timer |
| `HandleAnswer`, `HandleEcho`, `HandleHangup`, `HandleRenegotiate` | `_handleAnswer`, `_handleReject`, `_handleHangup`, `_handleRenegotiate` |
| `Connects`, `ConnectionFails` | the connection callbacks of `_createPeerSession`, `_doIceRestart` (`Restarted`) |

A session description is who made it, for whom, and whether it is an ICE
restart: enough to tell whether an answer fits the leg it is applied to. A leg
connects when both ends hold descriptions made for each other (`Linked`, the
browser's part). The relays deliver in any order, at most once or never.

### Leaving: `GroupDeparture`

A group state is the commit it results from; `log` is the tree of commits, each
with the ratchet tree's leaves (an added member takes the first blank leaf), the
admins of the group data, and who made it. `dev[d]` holds the state a device is
at, the intents it has handled, its queue and whether its timer runs; `jobs` the
fired timers that are suspended in their commit.

| Actions | Code |
|---|---|
| `LeaveGroup` | `leaveGroupImpl` under the conditions of `leaveEligibility` |
| `Announce` | an announcement that names somebody other than its sender: no function of the app sends one, every reader acts on one |
| `EnqueueLeave`, `TimerFires` | `handleLeaveIntent`, `enqueueLeave` and its 5 s timer |
| `FireAutoCommit`, `AutoCommitted` | `fireAutoCommit` before and after its commit; `onCommitted` |
| `GrantAdmin`, `Rename`, `CancelPendingInvitation`, `InviteByNpub` | the other commits, each of which writes the group data whole |
| `HandleCommit` | what `EpochResolver` does to a commit, one commit deep |
| `Resubscribe`, `Restart` | the teardown of `MarmotContext`, a page load |

The queue is an array that `onCommitted` *replaces* by a filtered copy: a timer
function suspended meanwhile keeps the old one. `Live`, `Detached` and
`EntriesOf` model that aliasing. An intent is its sender, the member it names and
the state it was sent at: `handleLeaveIntent` queues the member of the payload and
compares it with nothing.

### Pairing: `Pairing`

Every device runs both roles. The issuer has `active` (memory) and `stored`
(storage) nonces, `admitted` (memory) and `seen` (storage); the scanner has one
intent for each issuer (`intents`), the running calls (`calls`, each with what it
still has to do and the run it waits for) and `flights`, the map
`inFlightByIssuer`. `echoes` are the acks on the relays.

| Actions | Code |
|---|---|
| `ShareCode` | `getOwnShareCard`, `getOrMintActiveNonce`, `pruneExpiredNonces` |
| `Scan`, `Drain`, `SetName` | the deep link of `add.tsx` with `attemptOrQueuePairingEcho`; `drainPendingIntents` and what starts it |
| `ProcessIntent`, `PublishEcho`, `SendFails`, `DeleteIntent`, `EndFlight` | `processIntent`, `processIntentCore`, `sendPairingAck`, one step for each await that matters |
| `HandlePairingAck`, `MarkProcessed` | `handlePairingAck`; the processed-wrap mark of `welcomeSubscription` |
| `ConfirmContact`, `BlockContact`, `UnblockContact` | `confirmContact`, `archiveContact`, `unarchiveContact` |
| `Restart`, `Tick` | a page load with its purge and drain; the clock |

### A direct conversation: `DirectThread`

One device, one peer. `disk` is what lasts: the message ids (`chat`), the
reactions (`rows`, and whether their key exists) and `archivedAt` (`blocked`).
`queue` is the two promise queues, `appendQueues` of the conversation and
`writeQueues` of its reactions: each task with the one it was chained to, and
`last`, the handle in the map. `views` are the mounted and former `ContactChat`s
with the ids each knows, its fetched history and what its subscription has
brought; `own` the user's messages and clicks; `wipes` the running
`wipeSinglePeerHistory`. What the relays have not got yet and what they have not
delivered are the same to the device, so the relays have no state.

| Actions | Code |
|---|---|
| `ReadStored`, `WriteStored`, `ClearMessages`, `WriteFails` | the queued functions of `appendMessage`, `enqueue` and `clearMessages`, the read and the write of IndexedDB apart, and what awaits them |
| `Open`, `FetchHistory`, `ApplyHistorical`, `Subscribe`, `HandleGiftWrap`, `Close` | `init` and the clean-up of the conversation's effect |
| `SendMessage`, `MessagePublished` | `sendMessage`, to its publish and from there |
| `HandleReact`, `MarkReaction`, `ReactionPublished` | `handleReact`: the click, the mark in the store, the publish with its undoing |
| `BlockContact`, `FindReactionKeys`, `DeleteReactions`, `UnblockContact` | `performBlockContact` with `wipeSinglePeerHistory` and `clearDmReactionsForPeer`; `performUnblockContact` |
| `Restart` | a page load |

`past.late` remembers that a write was queued which the wipe cannot see, or that
a wipe or the undoing of a reaction was itself lost in a fault: the cases under
*Known limits*. `ReadStored` and `WriteStored` stand for what `enqueue` does to
every operation: `Result` is the function it is given.

### Invitation links: `InviteLinks`

`links` is the store; `chain` the promise chain of each nonce, whose first call is
between its `get` and its `set` when the nonce is in `mid`; `clears` and `cleared`
order the clears of the store against the calls (each call waits for the clears
that had started, `era`). `migration` and `sweep` are the two module latches,
`bells` the cycles of the mounted bells and the modal's derivation, `reader` and
`leaver` the clicks of each group. `ledger` is history: the records, had every
finished call been one indivisible update of them.

| Actions | Code |
|---|---|
| `Get`, `Put`, `Delete` | `withNonceLock` around `incrementInviteLinkUsage`, `stampInviteLinkExpiryNotified`, `acknowledgeInviteLinkExpiry`, the migration's rewrite and `deleteInviteLink`: the read and the write of IndexedDB apart |
| `StartClear`, `ClearStore` | `clearAllInviteLinks`, before and after the calls it waits for |
| `BellStarts`, `MigrationLoads`, `MigrationEnds`, `SweepLoads`, `SweepStamps`, `SweepRings`, `SweepAcknowledges`, `SweepEnds`, `Derive`, `Emit` | `runInviteExpiryCycle` of `NotificationBell`: `migrateInviteLinks`, `runInviteExpirySweep`, `initInviteExpiries` |
| `Save` | the writes without the lock: creating a link in `GenerateInviteLinkModal`, restoring a backup |
| `Approve`, `DeleteLink`, `MarkRead`, `ReaderLoads`, `ReaderEnds`, `LeaveGroup`, `LeaverLoads`, `LeaverEnds` | `approveJoinRequestImpl`, the manage-links modal, `markInviteExpiriesRead`, `clearInviteLinksForGroup` in `leaveGroupImpl` |
| `Reject`, `LoadRejects`, `Reload`, `Tick` | a transaction that rejects (and what `Promise.all` makes of it), a read of the whole store that does, a page load, the clock |

`resaved` and `raced` mark the links an unlocked write replaced while a call held
or awaited them; the properties leave those out, for nothing serialises such a
write with the calls.

### Instances

`MCMessageEdits`, `MCMessageEditsRetraction`, `MCEpoch`, `MCUnreadStore`,
`MCCallManager`, `MCGroupDeparture`, `MCPairing`, `MCDirectThread` and
`MCInviteLinks` only hold the constants' values.

## 3. What the runs check

| Run | Shows | Instance and why it is enough |
|---|---|---|
| `EditsOrder` | `SignalsPrevail`, `RowsOnlyAdvance`, `HoldsTheStrongest` (refinement of `SlotRegister`), `BufferedIsApplied` (liveness) | one message; an edit, an edit tied with a delete of two targets, a later edit, a last delete; every order, unlimited redelivery, one crash. Slots are independent except through caps and sibling entries, which the next run covers. The clock stands still: what becomes of signals that expire is the question of `EditsCap`, and that an author's last delete survives its expiry the theorem `RetractionIsKept` |
| `EditsCap` | `OnlyItsAuthorChangesARow`, `ExpiredDeleteIsPersisted`, `MarkersStand` | two conversations and a buffer smaller than their signals, so that both kinds of eviction occur, and an edit by someone who is not the author |
| `EpochFork` | `TypeOK`, `NoEventLost`, `ResolvesTheFork` (refinement of `ForkChoice`) | two competing commits, a message of each branch and one of the common state, a buffer of two, a redelivery, a re-subscription |
| `EpochChain` | `NoReadableLeftBehind`, `EventuallyRead` (liveness) | two commits in a row, messages ahead of them, one that needs an earlier one of its sender |
| `UnreadCounts` | `NothingMissed`, `PendingStaysDark` | a group and a peer, each with one message stored and one to come: the least with which a stale scan can show too little. Two arrivals in a behaviour: enough for a message during a scan and another during its re-read, or a live message above a stored one. Two re-read passes instead of three, so that two arrivals also reach the last permitted one. Two peers, where the confirm of one meets the counter of the other, are too many beside a group; the theorem covers them |
| `CallsPair` | `TypeOK`, `MicReleased`, `StoreMatchesContext`, `NothingBeforeTheClick`, `WaitsEnd` (liveness) | one caller, one callee, one call: every order of signals, clicks, timers, media answers and two failures, which is enough for an ICE restart and its own failure. `SecondClicks = FALSE`, one start and one context: what goes wrong beyond is under *Known limits* |
| `CallsGroup` | `MeshComplete` | three users, two of whom accept in any order; no failures, since an unanswered failure leaves a leg out by itself |
| `Leave` | `TypeOK`, `NobodyIsDemoted`, `NoDepartureForgotten`, `OnlyTheAnnouncedAreRemoved` | an admin, a member who may be made one, a third who may leave and may announce that the second has left, a guest who takes a blank leaf; three commits: a grant, a removal by timer, an invitation between a timer's start and its commit, or two rivals and one more; a failed commit. Two who leave beside a report, removals by hand, and a teardown or restart beside them, are too many states; the theorems cover them, restarts where the property does |
| `LeaveEnds` | `DepartureFinished` (liveness) | the same group without the guest and without reports, in which both members leave: a rename takes the epoch forward between an announcement and its reading, and a second leave puts off the timer. A teardown or a restart may fall anywhere; the property then claims nothing more |
| `Pairing` | `GraceKept`, `AdmittedExactlyInTime`, `DecisionSticks`, `HeldUntilSettled` | an issuer who shows up to two codes, a scanner nameless at first, with two calls at a time, one failed send, one page load of either; a clock on which scan, expiry and end of grace are different ticks, and two codes live at one time, so that the newer may be scanned before the older |
| `DirectThread` | `TypeOK`, `PeerCountedOnce`, `WipedStays`, `RemovalSticks`, `PassLeavesTruth`, `NothingLost`, `ClickCounts`, `WipeEnds` (liveness) | a message, a reaction and its removal, all of which the history, the subscription or both may bring, over an empty store or one with earlier reactions of both; one view, an own message or click, a block, a write that fails or a page load, one live write queued at a time beside all others. Two views or two acts are too many states for a run; the first millions of them showed nothing new |
| `InviteLinks` | `StoreIsAtomic`, `RingsOnce`, `BadgeSettles` (liveness) | two links of a group, one stored by an earlier version and expired, the other of the last session; a backup that holds a muted record; two bells, whose cycles share the latches or follow each other; one approval beside one deed of the admin, which is a click, a deletion, a clear, a leave, an unlocked write, a rejected transaction or a page load, at any point; one tick, at which the second link expires |

Bounds: `MaxClock`, `LastShow`, `MaxCrashes`, `MaxRepeats`, `MaxTeardowns`,
`MaxInits`, `MaxArrivals`, `MaxStarts`, `MaxAccepts`, `MaxContexts`,
`MaxFailures`, `MaxCommits`, `MaxHitches`, `MaxReports`, `MaxCopies`, `MaxRestarts`, `MaxCalls`,
`MaxViews`, `MaxActs`, `MaxAtOnce`, `MaxQueued`, `MaxBlocks`, `MaxFaults`,
`MaxApprovals` and `MaxDeeds` cap counters that otherwise grow without end; each
is a guard of the actions that count. A proved type invariant is not checked again
by a run, where it is proved of all instances. In `InviteLinks` a modal deletes one
link and a group is clicked or left once at a time. The hazards of each component, with the properties that
cover them, are in `PROJECT.json`. Deadlock checking is off where the system
comes to rest: all events delivered and the window ended, the calls over, the
group settled, the codes expired.

**Fairness.** `MessageEdits`: weak fairness of the running call (an `await` on
IndexedDB returns), strong fairness of an owed `StartResolve` (the promise queue
is first-in first-out, so a queued call gets its turn though others come in
between), and strong fairness of `OpenThread`, which stands for the sweep that
every later signal, append or opening of the conversation starts; `SignalsPrevail`
and the other safety properties need none of it. `EpochResolver`: weak fairness
of the first delivery of each event (the history fetch or the live subscription
brings it) and of the holder of the lock (the microtask queue). `CallManager`:
weak fairness of `Resume` (an await returns) and of `Clock` (a timer that is set
fires), for each device; none of users, deliveries or connections, so that
`WaitsEnd` holds with every signal lost. `GroupDeparture`: weak
fairness of `Works`, all devices together: as long as a kept announcement or
commit has not been read, a timer not fired or a function not returned, one of
these happens. `DirectThread`: weak fairness of `Works`, the queued functions and
the steps of a wipe, which await IndexedDB only. `InviteLinks`: weak fairness of
`Work` (IndexedDB answers whoever waits for it) and of the bells' starts (their
interval comes round again). Nothing is assumed of crashes, redeliveries or re-subscriptions.

**Properties.** `SignalsPrevail` joins two: `NoSignalForgotten` is the persist-before-remove discipline:
every accepted signal of the author is shown by, buffered for or marked for its
message, or something stronger is; `Converged` is the promise in the header of
`api.ts`. `HoldsTheStrongest` ties both together. `NoEventLost` says an event
the group could still use is held, or not remembered as seen, so that the next
fetch brings it. `NothingMissed` says that a counter covers what is stored (a group's, once it was
scanned) or was counted live (a peer's) and has not been read since; left out are
groups touched in the last permitted pass, a residual the comment at
`unreadStore.ts:175-178` accepts, and peers whose counter the confirm of another
contact has replaced (*Known limits*). `StoreMatchesContext` is what makes the buttons
safe: they act on the current context, the user on what the store shows.
`NoDepartureForgotten` follows an announcement through the aliased queue.
`OnlyTheAnnouncedAreRemoved` looks at each removal a timer commits: a leaf read
earlier may be someone else's by then. It asks for an announcement the device has read,
and that the member is gone if the announcement was their own; of one sent by somebody
else the code makes nothing sure (*Known limits*). `MarkersStand` follows an expired
delete after it has left the buffer: two places remove its marker, each some writes
after the row that makes it superfluous was read, and a crash, an append or an eviction
may come between. `AdmittedExactlyInTime` is the contract of
a nonce on both sides of its end, and `HeldUntilSettled` that of an intent; its
last disjunct (`GivesUpAnother`) leaves out the loss listed under *Known limits*, in
which a run of another code of the same issuer takes the intent away.
`PassLeavesTruth` is why the history is sorted before it is applied: the
subscription that follows may deliver a removal first, which is then discarded.
`NothingLost` says which steps may take something away at all, and so that no
queued write puts an older value back. `WipedStays` is the promise of a block.
`StoreIsAtomic` says what the lock per nonce is for: the records are those of the
ledger, so that no approval, flag or deletion is lost between a read and a write.
`RingsOnce` counts the rings of the sweep, over page loads, failed migrations and
several bells; `BadgeSettles` is what two derivations, a sweep and a click, each
with its own reads, leave in the end.

## 4. What is proved

For all values of the constants that satisfy the named assumptions.

| Theorem | Module | Assumptions |
|---|---|---|
| `TypeCorrect`: `Spec => []TypeOK` | `MessageEdits_proofs` | `ConstantsAssumption`, `SignalsAssumption` |
| `RowsAdvance`: `Spec => RowsOnlyAdvance` | `MessageEdits_proofs` | the same |
| `RowsAreSigned`: `Spec => []OnlyItsAuthorChangesARow` | `MessageEdits_proofs` | also `TargetsAssumption` |
| `RetractionInvariant`: `Spec => []RetractionInv` | `MessageEdits_proofs` | also `RoomAssumption`, `AuthoredAssumption`, `RevisionAssumption` |
| `RetractionIsKept`: `Spec => []RetractionSticks` | `MessageEdits_proofs` | the same |
| `MarkedDeletesStand`: `Spec => MarkersStand` | `MessageEdits_proofs` | `ConstantsAssumption`, `SignalsAssumption` |
| `SignalsAlwaysPrevail`: `Spec /\ Undisturbed => []SignalsPrevail` | `MessageEdits_proofs` | those of `RetractionInvariant` |
| `StoresAreOneRegister`: `Spec /\ Undisturbed => HoldsTheStrongest` | `MessageEdits_proofs` | the same |
| `ExpiredDeletesAreDurable`: `Spec /\ []SiblingsInOrder => ExpiredDeleteIsPersisted` | `MessageEdits_proofs` | `ConstantsAssumption`, `SignalsAssumption`, `TargetsAssumption`, `Addressed` |
| `LoneDeletesAreDurable`: `Spec => ExpiredDeleteIsPersisted` | `MessageEdits_proofs` | the same, and every delete names one id |
| `OwnDeletesAreDurable`: `Spec => ExpiredDeleteIsPersisted` | `MessageEdits_proofs` | those of `RetractionInvariant` |
| `TypeCorrect`: `Spec => []TypeOK` | `EpochResolver_proofs` | `EventAssumption`, `BranchAssumption`, `BoundAssumption` |
| `NoEventIsLost`: `Spec /\ [][Rollback => OneEpoch]_vars => []NoEventLost` | `EpochResolver_proofs` | the same |
| `NothingReadableWaits`: `Spec /\ [][~Rollback]_vars => []NoReadableLeftBehind` | `EpochResolver_proofs` | the same |
| `TwoRivalsAreResolved`: `Spec => ResolvesTheFork` | `EpochResolver_proofs` | also `OrderAssumption`, `OneEpoch`, two commits at most |
| `TypeCorrect`: `Spec => []TypeOK` | `UnreadStore_proofs` | `KeysAssumption`, `BoundsAssumption` |
| `PendingContactsStayDark`: `Spec => []PendingStaysDark` | `UnreadStore_proofs` | `KeysAssumption` |
| `NothingIsMissed`: `Spec => []NothingMissed` | `UnreadStore_proofs` | `KeysAssumption`, `BoundsAssumption` |
| `PairingInvariant`: `Spec => []PairingInv` | `Pairing_proofs` | `PairingAssumption` |
| `TypeCorrect`: `Spec => []TypeOK` | `Pairing_proofs` | the same |
| `CodesKeepTheirGrace`: `Spec => []GraceKept` | `Pairing_proofs` | the same |
| `EchoesAdmitInTime`: `Spec => AdmittedExactlyInTime` | `Pairing_proofs` | the same |
| `DecisionsStick`: `Spec => DecisionSticks` | `Pairing_proofs` | the same |
| `IntentsAreHeld`: `Spec => HeldUntilSettled` | `Pairing_proofs` | the same |
| `PeerIsCountedOnce`: `Spec => []PeerCountedOnce` | `DirectThread_proofs` | `ThreadAssumption` |
| `TypeCorrect`: `Spec => []TypeOK` | `DirectThread_proofs` | the same |
| `WipedHistoryStaysGone`: `Spec => []WipedStays` | `DirectThread_proofs` | the same |
| `RemovalsStick`: `Spec => RemovalSticks` | `DirectThread_proofs` | the same |
| `NoWriteIsLost`: `Spec => NothingLost` | `DirectThread_proofs` | the same |
| `ClicksCount`: `Spec => ClickCounts` | `DirectThread_proofs` | also `MaxAtOnce <= 1`, `Adds \cap Nat = {}` |
| `PassesLeaveTheTruth`: `Spec => PassLeavesTruth` | `DirectThread_proofs` | also `HistoryAssumption` |
| `TypeCorrect`: `Spec => []TypeOK` | `GroupDeparture_proofs` | `GroupAssumption` |
| `RolesAreKept`: `Spec => []NobodyIsDemoted` | `GroupDeparture_proofs` | the same |
| `TimersRemoveTheAnnounced`: `Spec => OnlyTheAnnouncedAreRemoved` | `GroupDeparture_proofs` | also `Leavers \cap Guests = {}` |
| `DeparturesAreRemembered`: `Spec => []NoDepartureForgotten` | `GroupDeparture_proofs` | also `(Leavers \cup Reported) \cap Guests = {}`, two members at most in `FirstAdmins \cup Grantees` |
| `TypeCorrect`: `Spec => []TypeOK` | `InviteLinks_proofs` | `LinksAssumption`, `ModalAssumption` |
| `StoreStaysAtomic`: `Spec => []StoreIsAtomic` | `InviteLinks_proofs` | the same |
| `BellRingsOnce`: `Spec => []RingsOnce` | `InviteLinks_proofs` | the same |
| `NothingStartsByItself`: `Spec => []NothingBeforeTheClick` | `CallManager_proofs` | none |
| `CallsKeepTheirTypes`: `Spec => []TypeOK` | `CallManager_proofs` | `DevicesAssumption`, finitely many users |
| `ScreenShowsTheCall`: `Spec => []StoreMatchesContext` | `CallManager_proofs` | `DevicesAssumption`, `MaxContexts <= 1`, `~SecondClicks` |
| `MicrophoneIsReleased`: `Spec => []MicReleased` | `CallManager_proofs` | the same |
| `LegsAreComplete`: `Spec => []MeshComplete` | `CallManager_proofs` | one device for each of finitely many users, one context each (`MaxContexts <= 1`), `~SecondClicks`, no failures, no unmounts |

`TypeOK` is inductive because it says, beyond types, what each step of a call
finds in the registers (`StepNeeds`). `RowsAdvance` rests on it: every write to
a known row is guarded by `WinsAt`, and `appendMessage` only inserts.

`RowsAreSigned` would be simple if a row always carried its message's author. It does
not: an edit by somebody else that expired before the original came is materialised
as a row of its own (`Foreign`). When the original then arrives, its call resolves
the row in the name of the message's author. `AuthorInv` says that nothing of that
author is left to resolve it with: no entry of the author's is buffered for a foreign
row or still to be buffered (`ToBuffer`), and a marker of the author's is one the row
outranks. `TargetsAssumption` is needed, and is what `buildDeleteRumor` produces (the
original first, then the ids of replacement rumors, under which no row is appended,
`rumor.ts:184-203`): with a delete whose second target is an original, a foreign entry
can be evicted between the two inserts and TLC finds the row mixed up.

`RetractionSticks`, an author's last delete survives everything, is far from
inductive: while a call runs, the delete may be in none of the places a reader
would look for the reason that the next commit will put it there. `RetractionInv`
adds what each step has established (`ApplyingInv`, `ResolvingInv`,
`ExpiringInv`, `InsertingInv`, `FinishingInv`), what the slot metadata may claim
after a crash between a row and its metadata (`MetaInv`: a recorded rumor id
implies that its row has taken that delete), and what keeps the removal of
sibling entries safe (`SiblingInv`: a delete buffered under a replacement id is
buffered under its original no later). The proof has one lemma for each action.
`RoomAssumption` (no eviction) is needed: with evictions the sibling order can be
lost, see *Known limits*. `AuthoredAssumption` and `RevisionAssumption` are what
`buildDeleteRumor`, `buildEditReplacementRumor` and `clampRev` produce.

`SignalsAlwaysPrevail` and `StoresAreOneRegister` are proved together. What row, buffer
and marker hold of a message are outcomes in one total order (`OutcomeOrder`), and the
code's three comparisons are that order: `signalBeats` (`BeatsOutcome`), the decision
on a known row (`Decided`) and the question whether a row has taken a signal
(`TakenOutcome`). Every action then leaves the strongest outcome of each message alone
or raises one of them to that of a signal (`BestStep`), which is the step of
`SlotRegister`; a signal whose call has returned is below the strongest outcome for
ever (`TakenInv`), which is `NoSignalForgotten`, and in a settled message only the row
is left to hold it, which is `Converged`. `Decided` is where the invariant is needed:
`applyToKnownSlotCore` compares an edit with the *recorded* rumor id and not with the
content of the row, so a recorded id must be of a signal the row has taken
(`RecordedInv`) and, where two edits tie, of the edit the row shows (`TieInv`), except
between the commit of the row and that of the record (`WritingInv`). The premise
`Undisturbed` leaves out two things the code does lose, both under *Known limits*:
a buffered edit that expires while its original is appended (`NothingExpires`: nothing
buffered reaches its TTL; with expiry TLC finds both properties violated), and the tie of
two edits after a crash between row and record (if two edits of a message can tie, no
crash falls there; if none can, crashes are unrestricted). `EditsOrder` checks both
properties with a clock that stands still, one crash and no tied edits.

`ExpiredDeletesAreDurable` says that a delete nobody's row came for in time is recorded
before it is dropped, with stores that evict, signals of anybody and crashes anywhere.
Three actions drop entries, each after its effect was written some steps before:
`LeavingInv` says, for what is about to be removed, that the effect is in the row or the
marker by then, and `RecordInv` that the code may skip a write because of a recorded
rumor id only if the row did take that delete; after a crash the entry is still there.
Both clean-ups remove every entry of the rumor, the original's among them. For `Unbuffer`
this is harmless, since it works on a row, and rows have original ids (`OriginalRows`).
A `Release` under a replacement id would drop the original's entry and record the delete
where nobody looks, were it not that the sweep takes the older entry first: hence the
premise `SiblingsInOrder`, that the original's entry is no younger than its siblings or
its effect is recorded. It cannot be left out: if the original's entry alone is evicted
and the delete is delivered again, the order is lost, and with a small buffer and deletes
of two ids TLC finds the property violated (*Known limits*). It holds in the two cases
the code is built for. If deletes name one id it is trivial (`LoneDeletesAreDurable`, the
instance of `EditsCap`). If nothing is evicted it is not: the original's entry is
buffered first, but may go while a sibling stays, and a redelivery could come after that.
`OrphanInv` is what the proof of `OwnDeletesAreDurable` rests on: for an entry that
outlived its original's, a row, a marker or a stronger entry stands for the delete, or
the message has come and nothing will be buffered under its id again. `Addressed`, that
a signal's ids belong to one conversation and an edit names its original, follows from
`AuthoredAssumption`.

`MarkedDeletesStand` takes the delete from there: what is left of it is a marker. It needs
no premise on who signs what, how small the stores are or where crashes fall. `StandingInv`
says what a call knows of the marker it is about to remove. A resolved row has taken the
marker or its author's stronger entry (`UnmarkingInv`); what a sweep materialises outranks
the marker it saw, and is on record by the time the marker goes (`SupersedingInv`). The
record made for a marker has no rumor id, which a comparison of ids could mistake for
another marker's: `EmptyRidInv` says that it stands only beside a row that has taken the
marker, and that every call that goes by loaded messages had loaded that row.

The theorems about `EpochResolver` need to know what a batch does that is retried until
nothing of it applies. `AfterBatch` iterates `Advanced`, one event at a time:
`Iterates` says that a function defined by recursion on the naturals stays in a set
its step stays in, `Least` (by well-foundedness) that a first failure would exist, and
`BatchKeeps` puts both together. So a batch only extends the branch and the used
keys (`BatchExtends`). `HandInv` is what a handler knows of its event. `LostInv` shows
that the un-mark of a buffered id is what keeps events from being lost, not the
buffer: what stays *seen* waits for the lock, is being handled or is done with, so
an event that `capBuffer` throws out comes back with the next fetch. A rollback
undoes what is done with, hence the premise `Rollback => OneEpoch` (every commit is
made on the state the group starts in): a rollback over two epochs takes back a commit
that stays seen, and one that leaves readable events behind does not retry them, hence
the premise `~Rollback` of `NothingReadableWaits`. Both are in *Known limits*.

`TwoRivalsAreResolved` is the refinement of `ForkChoice`, step by step. `ForkInv` says
that a commit is handled once (`OnceInv`), that there is no grace window before the
first commit (`BeforeInv`), and what the snapshot leads back to afterwards (`AfterInv`):
while the choice is open it is charged to the commit the group holds, and it is of the
state before the first commit or every rival has been handled. `Ingest` of the first
commit, `DropPastEpoch` and `Rollback` are `Offer`, `GraceExpires` and `Resubscribe` are
`Close`, everything else stutters. The last alternative of `AfterInv` is where a
third rival breaks the code: after a rollback the snapshot is of the winner's state, so
a still lower commit cannot be put in its place.

`PendingStaysDark` needs to know where a count comes from: `DarkInv` says that no
key of a queued call, of the running scan (still to read, touched, or already
computed) or of a confirm about to settle is pending, except those of the
startup call, which drops them after its import. A contact leaves `pending` for
good, so a key that avoided it goes on doing so.

`NothingMissed` is about two kinds of scan. A group's (`ScansInv`): every key that
is not to be re-read has a result, or a read under way, that covers what is due,
because an arrival since was noted as touched and the timestamps of the call are
older than those in force (`QueuesInv`). A peer's (`PeersInv`): the counter is never
below the live messages, nor is the floor of a confirm; that takes the floor to be
the confirm's own (`OwnedInv`, a contact is confirmed once), and the startup scan,
which has none, to be over before the first live message (`StartupInv`, the watcher
subscribes after it). The first attempt at this proof failed on a model that
settled a confirm in a later step than its write: between the two another confirm
could read a counter without its floor. The code has no such gap, only settled
promises lie between, and the model now has none either.

`StoreIsAtomic` follows from the queues (`OneByOneInv`): what a call between its
read and its write has read is still the record, and no clear comes in between,
since the clear waits for the calls of the eras before it and holds back the others.
`RingsOnce` needs to know what a ring leaves behind. `RingsInv`: a link that was rung
for is *told*, stamped or gone, and a link on the sweep's list or in its hand is
neither rung for nor old; so the stamp, which comes first, is all that a page load
between stamp and ring can leave. `CallersInv` says that the call the sweep awaits is
the only one it has, so that the record it rings for is the one stamped. `OldInv`
follows the links of an earlier version: they are told, or dismissed and waiting in
the migration's queue, and all are told when a sweep loads, because a failed
migration skips the sweep. Two parts of the model were corrected by these proofs: the
effect of a call on a link that is gone (`After`), which two overlapping cases defined,
and the finiteness of the nonces, which the badge's counts need.

`OnceInv` carries `PeerCountedOnce` from the stored rows to every value a queued
write on the reactions has read and not yet written: each of them holds one row of
the peer's per badge, and the functions that compute a new value (`Upserted`,
`Taken`, `Flipped`, `Inserted`) keep that. So the theorem does not rest on the queue
serialising anything: a write that puts an older value back may lose rows, it never
counts the peer twice.

`WipedStays`, `RemovalSticks` and `NothingLost` do rest on the queues. `WipeInv` says
that the writes of a queue stand in one line (`LinesInv`): each is chained to the one
before it, the map names the last, and a clear has no append behind it. So only the
first of a line can have read, and what it read is still stored (`SerialInv`): a write
keeps what another one wrote, and a removal it does not know of is none. `WipingInv`
follows a wipe: from the end of its clear on no message is stored and no append is
queued, and while it drains the reactions the handle it waits for is the last of
their line, so at its end the line is empty (`GoneInv`). Lines and wipes are claimed only
while `past.late` is false, as the property is; a write that the wipe cannot see
breaks the line first. Types need `LinksInv`: a click waits for at most one queued
write, or the undoing of one could name a row that is not its own. The proof found
an overlap of two cases in the model's `WipesAfter` (a wipe whose clear has ended and
one that waits for the task that ends), which is now one alternative after the other.
`ThreadAssumption` says of the stored rows a thread begins with what the code
stores: an own row not yet sent, or a row of the peer that a rumor brought.

`ClickCounts` is claimed of clicks that do not overlap, hence `MaxAtOnce <= 1`; with two
at once the second decides on rows the first has yet to write. The other premise says
that the model's numbers for clicks are no ids of the peer's reactions, as the random ids
of the code are not. `ClickInv` says that the only writes of the user's reactions in the
queue are the one the click under way waits for (`MadeFor`), that a badge has one own
row in view at most (`MineOnce`), or taking it back would leave another, and, stage by
stage, what the click has made of the stored rows (`Fits`): one that adds has nothing to
add to until its write, and afterwards its badge is made of its own row alone, so the
roll-back hides it; one that takes back never has a row of its own id, so undoing it does
insert one. A write of the peer's leaves all of that alone (`InboundAlike`), and so does
one that fails. The rows are claimed only while what a write has read is still stored
(`past.late`), for the same reason as in `SerialInv`.

`PassLeavesTruth` needs two invariants at once. `PassesInv`: a pass has one write queued
at most, of a rumor it took, and what it has left comes in order behind what it took
(`Ordered`, the sort of the history). `TruthInv`: for a pass that is still calm, no wipe
runs, the kill-switch does not deny it, and all it has behind it, but for its queued
write (`Due`), is told by the stored rows (`Told`). It must be known besides that no other
write unsays it: a stored row of the peer says no more of a reaction than the rumor it
came from (`RowsTrue`, and `ResultTrue` of what a write makes of them), and a row of the
peer stays (`KeysKept`). A rumor that a calm pass skips has nothing to tell (`LeftOut`),
and at the start of a pass all that it fetched is left (`AllLeft`). `HistoryAssumption` says
that the kinds of events are disjoint, as ids of signed events are, and that the rows an
earlier session stored are true in the same sense; `ResultTrue` shows that such a
session stores no others.

`PairingInv` is `TypeOK`, `GraceKept`, `Traced` and `Acquainted`. That an echo read
in time is admitted needs its nonce in the issuer's storage (`GraceKept`), and
that one was shown by the device the echo goes to: `Traced` follows every nonce
back through echoes, runs, calls and intents to the code it was scanned from.
`Acquainted` (a contact is a known peer, and so is whoever was admitted in this
session) is what makes the purge of a page load harmless to `DecisionSticks`, and
what an echo of an already admitted sender finds. `HeldUntilSettled` needs two facts
beside it: a call was started in the past (`CallsStarted`), so that what its own time
calls expired is expired, and a run is past its send only when an echo of its nonce is
on the relays (`SentBeforeClosing`). The proof of an earlier form of the property,
which excused only an intent that replaced an older code's, failed in the deletion:
the newer code may have been scanned first. TLC found that behaviour once the run let
two codes live at one time. `PairingAssumption` asks the
markers `None` and `Absent` to differ from what they stand in for.

`DepartureInv` adds to the types of `GroupDeparture` that commits refer to earlier
states and devices to existing ones, and that the running functions of a device are
finitely many. The types say that an admin has a leaf, which needs what a commit does
to the tree: a removal blanks the leaves of exactly those it removes
(`BlankedSeats`), and an added member takes nobody's leaf, since the first blank leaf
is one (`AddedSeats`, by well-foundedness). Every commit then keeps the admins of the
state *it is made on* who stay (`CommitSound`), which is all `NobodyIsDemoted` asks,
in a tree of commits as on one branch. `GoneInv` follows a departure from its
announcement into the queues, into the arrays that suspended timers keep after the
queue was replaced, and into the commits under way: each holds only members an
announcement its device has read named (`Told`), and whoever sent their own is gone
(`Sound`). The premise is needed: nothing takes a member who is invited again out of a
queue (*Known limits*). Nothing is assumed of who announces whom.

`NothingBeforeTheClick` holds of any number of calls. `ClickInv` says of a device whose
user has clicked nothing that its contexts ring and have no leg (`Silent`), that only
lookups and publishes of rejects are suspended on it (`Waits`), and that nothing but
rejects of its own is under way (`Rejects`). The first step that needs a click is the
one that creates a dialling context or a suspended `acceptCall`; no awaited function
can resume into one, because none that waits for media is there.

`TypeOK` holds of any number of calls too, and is more than types: no peer and no leg of
a context is the user's own, though a user's own devices hear what the others send.
`TypeInv` adds where the keys come from. A suspended function keeps the number of a
context, which is never taken away (`Onward`); an offer is from another user, and so is
what is stashed or waits for its roster (`GoodEvent`, `GoodJob`); a screen that rings
names another user as its caller (`Good`), to whom `acceptCall` makes its leg. One more
thing is needed to see that a new stream gets a free number: that the open ones are
finitely many. Finitely many users are assumed because the roster of an offer is the
best of the groups (`RosterGood`, by well-foundedness).

`StoreMatchesContext` and `MicReleased` are claimed of devices that have one context
at most (`MaxContexts <= 1`) and of users who do not click while a click is handled
(`~SecondClicks`), as the run `CallsPair` has them: with a second call or a second
click the code breaks both (*Known limits*). `OneCallInv` adds what the suspended
functions of such a device can still do: one `acceptCall` at a time, which stopped
the ring timer, and while it waits for its media the context rings or is gone
(`JobsOne`); a `declineCall` has no `acceptCall` beside it and nothing to clear but
what rings; a context that rings has its offer stashed and no stream (`StillRings`).
So media that arrive find the call they were asked for or none, and are released in
the second case. Every other handler leaves screen, stream and context as they were
(`Untouched`) or ends the call (`Ended`), and both keep the invariant.

`MeshComplete` speaks of two devices, and most of its proof of what happens between them.
`MeshInv` follows each offer from the leg it left at its sender: while it is on the
relays, waits for its roster, rings, is stashed or is on the list of an `acceptCall`
(`Pending`), the sender has the leg (`OfferLegs`); and where one device has a leg for
another, that one has its own, or such an offer, or is out of the call or on its way
out (`Gone`), or has dropped the offer of a key that is not in its roster (`Shut`)
(`LegOffers`). `Joins` says, device by device, that whoever has accepted has a leg or an
unfinished `acceptCall` for each peer it out-ranks, and an `acceptCall` at work for
what is stashed. When nothing is under way, only the two legs are left. `MeshStep` reduces
a step to what one device does for the others (`Move`), so that each handler is proved by
itself. The premises are those of the run `CallsGroup`, its numbers apart: one device for
each user, since a leg names a user and `MeshInv` takes the device from that; one context
for each device and one click at a time, since a later context takes the place of an
earlier one without ending it, and may be of the same call; no failure, since an offer is
sent once; and no unmount, since what a destroyed call manager had suspended goes on and
hears nothing.

Only model-checked: the liveness properties, which are out of the prover's reach:
`EventuallyRead` of `EpochResolver`, `BufferedIsApplied` of `MessageEdits`, `WaitsEnd` of
`CallManager`, `DepartureFinished` of `GroupDeparture`, `WipeEnds` of `DirectThread` and
`BadgeSettles` of `InviteLinks`. A theorem states every other property of the runs.

## 5. Not modelled, inside the modelled components

*Edits.* `removeMessages` and the clear and purge operations
(`clearAllMessageEditsState` bypasses the queue, which deserves a model of its
own); the one-time self-heal rewrite of direct-message rows; the clock-skew
ceiling on revisions; the edited label. The age order in which `markers` and
`slotMeta` evict is a free choice. Rumors that do not classify do nothing but
the sweep, which `OpenThread` covers.

*Epochs.* Saving and restarting; two subscriptions alive at once; the limit of
1000 seen ids; ts-mls dropping keys of old epochs; `onMembersChanged`; a teardown
in the middle of a batch. A message whose key is used up counts as unreadable.

*Unread.* The join-request slice (the one of expired links is in `InviteLinks`); clearing a counter on
leave, removal or purge; own messages (filtered before they count); failing
reads (caught, they count as 0); a contact that becomes pending after it
was confirmed (`pending` only shrinks). A reload is `Init`.

*Calls.* ICE candidates and their stash; mute, camera and speaker; the limit of
five participants; notices of a group; the 60 s freshness of signals and their
deduplication (an event is delivered at most once). A reload is a device that
was destroyed. Calls are behind a flag that is off by default
(`docs/behavior/README.md:42`); the code is modelled as it runs with it on.

*Leaving.* The storage purge of a departure and its announcement in the chat;
the standalone leave proposal; retries of a send; rollbacks deeper than one
commit, which `EpochResolver` has; guests with a Welcome not yet accepted.

*Pairing.* The card codec and its signature; the profile announces that follow an
echo; the name cache; two nonces minted in one tick.

*A direct conversation.* The legacy kind-4 events, which take the same queue, and
images; edits and deletes, which `MessageEdits` has; the cache of the reactions;
a deletion that fails in `delMany`; groups' reactions, whose writes take the same
queue; `clearAllReactions` and the purge of strangers.

*Invitation links.* The requests' store and handler; a mute flag that is set anew
(nothing sets it any more); a `clearAllInviteLinks` that rejects, which would
release all waiting calls of a nonce at once (only `resetAllData`, which nothing
calls, clears the store); what a link says and how it is signed.

Components without a module yet: profile exchange, join requests and invitations, polls, backup, the group profiles' requests (section 7). Key
handling, media, transport adapters, rendering and translation stay out: they are
cryptography, I/O and wording, and the modelled parts state what they assume of
them.

## 6. Where code and documentation part

**Known limits**, met while modelling; the properties leave them out and say so.

*Edits.* The sweep decides on messages loaded earlier: an original appended
meanwhile makes the materialisation of its expired edit a no-op, but the edit's
id is recorded and its entry removed, so that edit is lost (`api.ts:928-966`). If a
marker stands that this edit outranks, it is removed as well, whoever signed the edit
(`api.ts:857-859`), so that an author's delete can go with it: `LostEdit` leaves that
out of `MarkersStand`. A stronger signal takes the place of a buffered entry or a
marker whoever signed either (`api.ts:333-350`, `api.ts:393-406`), since the author of
the message is not yet known; `SignalsPrevail` is checked and proved of the author's
own signals only. A
crash between a row and its slot metadata can lose the tie between two edits of
one revision, which `api.ts:218-231` accepts. After an eviction a delete's
replacement-id entry can be older than its original's; if both then expire, a sweep
drops the original's with it and the delete is remembered only under the
replacement id.

*Epochs.* After one rollback the snapshot is of the winner's epoch, so a still
lower third commit does not win (`epochResolver.ts:293`). A commit applied out of
the buffer is not marked as seen; delivered again after later commits it is taken
for a rival and rolls the group back (`welcomeSubscription.ts:790`). Within the
grace window of one commit a fork of the *next* epoch rolls back to the state
before the first commit, since the snapshot is taken once a window. A rollback
does not retry the buffer. Events that wait for the lock when the subscription is
replaced stay marked as seen (`NoEventLost` leaves them out).

*Unread.* A group opened while its startup scan runs gets its badge back, since
the scan compares with the timestamps loaded before (`unreadStore.ts:194`).
Confirming one contact while messages of another come re-reads the other's stored
messages and lowers its badge; the floor protects the confirmed peer only
(`unreadStore.ts:185`), and takes the higher of stored and live messages, not
their sum. A scan that ends between the append and the increment of the chat
handler counts that message too.

*Calls.* A participant can be left alone in a call whose others have gone. The
answer of an `acceptCall` is given to the caller the store shows, which need not
be the caller of the accepted offer when another offer came during the media
request (`callManager.ts:342`). A second click on Accept while the first waits
declines the call and leaves a microphone open; two starts during one permission
prompt leak the first stream (hence `SecondClicks = FALSE` and one start).
`declineCall` clears whatever call is current when its publishes return. A
`startCall` or a roster lookup that resumes after `destroy` goes on as if nothing
had happened; `Unmounts` leaves the caller out. Another callee's hangup stops a
ringing device. An unanswered ICE restart leaves a leg failed.

*Leaving.* An announcement's sender is not compared with the member it names
(`leaveHandler.ts:23-28` queues what `leaveSync.ts:26-36` has parsed), so that a timer
also removes a member who never left if another member's message says so, where
`src/specs/epic-out-of-band-leave/spec.md:98` has the sender authenticate the
departure. An announcement that names the only admin makes each commit of that
admin's timer fail; `LeaveEnds` has none. A member who is re-invited before the timer fires is removed again. A
removal commit that failed is not tried again until another leave arms the timer,
and a teardown cancels the timer of a queue that history cannot fill again
(`MarmotContext.tsx:1497-1501`): `Undisturbed` leaves both out. With three admins
a rollback forgets a departure. Two co-admins who leave at once leave no admin.
Two admins whose timers commit the removal of one member on the same state part
for good: `EpochResolver` records a snapshot only of commits it ingests, so each
skips the other's as past-epoch, where
`src/specs/epic-out-of-band-leave/acceptance-criteria.md:121` (AC-EDGE-2) says
that only one commit must win.

*Pairing.* A drain that loaded an issuer's old intent deletes the new one a scan
has saved meanwhile, since the deletion goes by issuer (`pendingIntent.ts:254`),
and the scan shares the run that ends as expired. In the same way the run of a
newer code deletes the intent of an older one that still lives and was scanned
after it; the two codes need a page load of the issuer between them. A peer who is blocked while the
dependencies of a send are awaited still gets the echo.

*A direct conversation.* A wipe cannot undo what is queued behind it: a history
pass reads once who is blocked, and goes on after a block
(`ContactChat.tsx:549-559` says none can land in the middle), a message whose
publish returns after the block is appended, a reaction that fails then is
inserted again; each brings the thread of a blocked peer back. A conversation
that is closed before its subscription is made leaves the subscription running.
The first reaction of a thread may be queued when the wipe finds no key, and is
stored afterwards (`api.ts:509`). A page load after `archiveContact` leaves the
history. A clear drops the handle of its queue even when later writes are chained
to it, and the end of a wipe does the same: the next write then runs beside them
(`chatPersistence.ts:558-561`, `api.ts:524`). An unblocked peer's history comes
back from the relays when the conversation is opened, where
`src/specs/epic-block-contact/acceptance-criteria.md:99` (AC-UNBLOCK-2) speaks of
no resurrection. A live removal that overtakes its reaction is discarded until
the next opening. Two quick clicks store two own reactions (`MaxAtOnce` is one);
a page load between the mark and the publish keeps a reaction nobody got, and a
write that fails leaves the cache, which the badges show, ahead of the store.

## 7. Plan

Done: message edits, fork resolution, unread counters, calls, leaving, pairing,
a direct conversation, invitation links, with the proofs of section 4.

Next, in this order: the clear of all reactions and edits and the purge of
strangers, against queued writes; join requests and direct invitations;
the profile exchange with its retry ladder; polls; the backup.

Compositions: the dispatcher with `EpochResolver` above it and the handlers
below it; `GroupDeparture` over `EpochResolver`; contacts with unread counters.
Abstract specifications worth stating: an *at-most-once inbox* for the
dispatcher, a *single-call line* for calls, a *last-writer-wins register* shared
by profiles and reactions (`SlotRegister` is its first use).

Theorems to come: `MeshComplete` with failures, of the legs that did not fail.
