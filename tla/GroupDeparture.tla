---------------------------- MODULE GroupDeparture ----------------------------
(* Leaving a group: the departing member announces it (leaveGroupImpl), every   *)
(* device that reads the announcement queues the removal (enqueueLeave), and 5  *)
(* seconds after the last one its timer commits the removals (fireAutoCommit).  *)
(* A reader takes the member to remove from the payload and compares it with    *)
(* nothing, so an announcement here carries its sender beside whom it names.    *)
(* Other commits of the admins run beside it: grantAdmin, renameGroup,          *)
(* cancelPendingInvitation, inviteByNpub.                                       *)
(*                                                                              *)
(* A group state is the commit it results from; commits form a tree, as two     *)
(* admins may commit on one state.  MLS and marmot-ts are modelled from their    *)
(* use: commit() publishes and applies in one step or throws and does neither;  *)
(* a message is read on the branch it was sent on by those who were members.    *)
EXTENDS Naturals, Sequences, FiniteSets

CONSTANTS
    Member,         \* the public keys, each with one device
    Founders,       \* the tree of the first state: a sequence of members
    FirstAdmins,    \* its admins
    Leavers,        \* members who may leave
    Reporters,      \* members whose messages may name somebody else as departed,
    Reported,       \* and whom they may name
    Guests,         \* members an admin may invite
    Grantees,       \* members an admin may make an admin
    Removable,      \* members an admin may remove by hand
    Namers,         \* members who may rename the group
    Clocks,         \* created_at of commits
    MaxReports,     \* bound: such messages of a behaviour
    MaxCommits,     \* bound: commits of a behaviour
    Hitches,        \* what may happen to a device: "failed", "torn", "restarted"
    MaxHitches,     \* bound: how many of them happen, each once
    Blank, Nobody

ASSUME GroupAssumption ==
    /\ Founders \in Seq(Member) /\ Founders # <<>>
    /\ \A i, j \in DOMAIN Founders : Founders[i] = Founders[j] => i = j
    /\ FirstAdmins \subseteq {Founders[i] : i \in DOMAIN Founders}
    /\ Leavers \cup Guests \cup Grantees \cup Removable \cup Namers \subseteq Member
    /\ Reporters \cup Reported \subseteq Member
    /\ Clocks \subseteq Nat /\ Clocks # {}
    /\ Hitches \subseteq {"failed", "torn", "restarted"}
    /\ {MaxReports, MaxCommits, MaxHitches} \subseteq Nat
    /\ {Blank, Nobody} \cap Member = {}

VARIABLES
    log,        \* the group's states: the first, then one for each commit
    intents,    \* leave intents on the relays: whose, whom they name, the state sent at
    dev,        \* each device
    jobs,       \* each device's fired timers whose function has not returned
    hitches     \* the failed commit, the re-subscription, the restart there was

vars == <<log, intents, dev, jobs, hitches>>

Commit == [by : Member \cup {Nobody}, parent : 0..MaxCommits, past : SUBSET (1..MaxCommits + 1),
           tree : Seq(Member \cup {Blank}), admins : SUBSET Member, created : Clocks,
           auto : BOOLEAN]                                    \* auto: by fireAutoCommit
Intent == [by : Member, of : Member, at : 1..MaxCommits + 1]

Leaves(c, p) == {i \in DOMAIN log[c].tree : log[c].tree[i] = p}
MembersAt(c) == {p \in Member : Leaves(c, p) # {}}
Group(d) == dev[d].head
MembersOf(d) == IF Group(d) = 0 THEN {} ELSE MembersAt(Group(d))
Receives(d) == dev[d].stored /\ d \in MembersOf(d)     \* subscribed and in the tree

----------------------------------------------------------------------------
(* Commits                                                                    *)

Child(c, by, tree, admins, auto, t) ==
    [by |-> by, parent |-> c, past |-> log[c].past \cup {Len(log) + 1}, tree |-> tree,
     admins |-> admins, created |-> t, auto |-> auto]

(* mlsGroup.commit: only an admin's succeeds.  Its author applies it at once.  *)
MayCommit(d) == d \in MembersOf(d) /\ d \in log[Group(d)].admins
CommitWith(d, tree, admins, auto) ==
    /\ Len(log) <= MaxCommits
    /\ \E t \in Clocks : log' = Append(log, Child(Group(d), d, tree, admins, auto, t))

(* A commit leaves the leaves it removes blank; an added member takes the      *)
(* first blank leaf.                                                           *)
Blanked(c, leaves) ==
    [i \in DOMAIN log[c].tree |-> IF i \in leaves THEN Blank ELSE log[c].tree[i]]
WithAdded(c, p) ==
    IF \E i \in DOMAIN log[c].tree : log[c].tree[i] = Blank
      THEN LET first == CHOOSE i \in DOMAIN log[c].tree :
                          /\ log[c].tree[i] = Blank
                          /\ \A j \in 1..i - 1 : log[c].tree[j] # Blank
           IN [log[c].tree EXCEPT ![first] = p]
      ELSE Append(log[c].tree, p)

Hitch(h) == /\ h \in Hitches \ hitches /\ Cardinality(hitches) < MaxHitches
            /\ hitches' = hitches \cup {h}

Moved(d, c) == [dev EXCEPT ![d].head = c]

Rename(d) ==
    /\ d \in Namers /\ dev[d].stored /\ MayCommit(d)
    /\ CommitWith(d, log[Group(d)].tree, log[Group(d)].admins, FALSE)
    /\ dev' = Moved(d, Len(log) + 1)
    /\ UNCHANGED <<intents, jobs, hitches>>

GrantedAdmins(c, p) == log[c].admins \cup {p}
GrantAdmin(d, p) ==
    /\ p \in Grantees /\ dev[d].stored /\ MayCommit(d)
    /\ p \in MembersOf(d) \ log[Group(d)].admins
    /\ CommitWith(d, log[Group(d)].tree, GrantedAdmins(Group(d), p), FALSE)
    /\ dev' = Moved(d, Len(log) + 1)
    /\ UNCHANGED <<intents, jobs, hitches>>

(* cancelPendingInvitation: "Cancel Invite" and "Remove Member".               *)
CancelPendingInvitation(d, p) ==
    /\ p \in Removable \ {d} /\ dev[d].stored /\ MayCommit(d)
    /\ p \in MembersOf(d)
    /\ CommitWith(d, Blanked(Group(d), Leaves(Group(d), p)), log[Group(d)].admins \ {p}, FALSE)
    /\ dev' = Moved(d, Len(log) + 1)
    /\ UNCHANGED <<intents, jobs, hitches>>

(* inviteByNpub with the guest's accepted Welcome: nothing asks whether the     *)
(* guest is already in the tree.                                               *)
InviteByNpub(d, p) ==
    /\ p \in Guests /\ ~dev[p].stored /\ dev[d].stored /\ MayCommit(d)
    /\ CommitWith(d, WithAdded(Group(d), p), log[Group(d)].admins, FALSE)
    /\ dev' = [Moved(d, Len(log) + 1) EXCEPT
                 ![p].head = Len(log) + 1, ![p].joined = Len(log) + 1, ![p].stored = TRUE]
    /\ UNCHANGED <<intents, jobs, hitches>>

(* EpochResolver: a commit on the device's state is applied.  A rival of the     *)
(* last one replaces it when it is lower, unless the device made the last one    *)
(* itself: its own commits are never recorded.                                  *)
Lower(c, e) == \/ log[c].created < log[e].created
               \/ log[c].created = log[e].created /\ c < e
Replaceable(d, e) == log[e].by # d
HandleCommit(d, c) ==
    /\ Receives(d)
    /\ \/ log[c].parent = Group(d)
       \/ /\ c # Group(d) /\ Group(d) # 1 /\ log[c].parent = log[Group(d)].parent
          /\ dev[d].joined \in log[c].past
          /\ Lower(c, Group(d)) /\ Replaceable(d, Group(d))
    /\ dev' = Moved(d, c)
    /\ UNCHANGED <<log, intents, jobs, hitches>>

----------------------------------------------------------------------------
(* Leaving                                                                     *)

IsLastMember(d) == MembersOf(d) = {d}
IsSoleAdmin(d) == log[Group(d)].admins = {d}

(* The modal offers no leave to a sole admin who is not alone; the last member  *)
(* sends nothing.  The purge removes the group, so its subscription and its     *)
(* timer end; the queue and the running functions are not touched.              *)
LeaveGroup(m) ==
    /\ m \in Leavers /\ Receives(m)
    /\ IsLastMember(m) \/ ~IsSoleAdmin(m)
    /\ intents' = IF IsLastMember(m) THEN intents
                  ELSE intents \cup {[by |-> m, of |-> m, at |-> Group(m)]}
    /\ dev' = [dev EXCEPT ![m].stored = FALSE, ![m].timer = FALSE]
    /\ UNCHANGED <<log, jobs, hitches>>

(* An announcement that is not of its sender's own departure: leaveGroupImpl     *)
(* sends none, and a reader's app does not tell it from one.                    *)
Announce(d, p) ==
    /\ d \in Reporters /\ Receives(d)
    /\ p \in Reported \ {d} /\ Cardinality({i \in intents : i.by # i.of}) < MaxReports
    /\ intents' = intents \cup {[by |-> d, of |-> p, at |-> Group(d)]}
    /\ UNCHANGED <<log, dev, jobs, hitches>>

(* The queue is one array: a fired timer keeps the array it found, which new     *)
(* entries reach until onCommitted puts a filtered copy in its place.            *)
Live == [live |-> TRUE, entries |-> {}]
EntriesOf(d, j) == IF j.queue.live THEN dev[d].queue ELSE j.queue.entries
Detached(d, js) ==
    {[j EXCEPT !.queue = [live |-> FALSE, entries |-> EntriesOf(d, j)]] : j \in js}

(* handleLeaveIntent, enqueueLeave: of a message somebody else sent, the member   *)
(* it names is queued, whoever that is.                                         *)
(* Mutant: a timer is armed only for the first entry of a queue.                *)
ArmsTimer_IfEmpty(d) == dev[d].timer \/ dev[d].queue = {}
ArmsTimer(d) == TRUE
EnqueueLeave(d, i) ==
    /\ Receives(d) /\ i.by # d
    /\ i \notin dev[d].handled
    /\ i.at \in log[Group(d)].past /\ dev[d].joined \in log[i.at].past
    /\ dev' = [dev EXCEPT ![d].handled = @ \cup {i}, ![d].queue = @ \cup {i.of},
                          ![d].timer = ArmsTimer(d)]
    /\ UNCHANGED <<log, intents, jobs, hitches>>

Unused(js) == CHOOSE n \in 0..Cardinality(js) : \A j \in js : j.n # n
TimerFires(d) ==
    /\ dev[d].timer
    /\ dev' = [dev EXCEPT ![d].timer = FALSE]
    /\ jobs' = IF dev[d].queue = {} THEN jobs
               ELSE [jobs EXCEPT ![d] = @ \cup
                       {[n |-> Unused(@), at |-> "group", queue |-> Live, gone |-> {}]}]
    /\ UNCHANGED <<log, intents, hitches>>

(* getPubkeyLeafNodeIndexes on the state the timer finds                        *)
(* Mutant: the leaf a member had when the departure was read.                    *)
LeavesToRemove_Cached(c, p) == Leaves(1, p)
LeavesToRemove(c, p) == Leaves(c, p)
Departing(d, j) == {p \in EntriesOf(d, j) : LeavesToRemove(Group(d), p) # {}}

(* Mutant: the admins known when the timer was armed.                           *)
RemainingAdmins_Cached(c, gone) == log[1].admins \ gone
(* Mutant: the removal leaves the list of admins alone.                         *)
RemainingAdmins_AsBefore(c, gone) == log[c].admins
RemainingAdmins(c, gone) == log[c].admins \ gone

(* onCommitted: whoever it is told of leaves the queue.                         *)
(* Mutant: the whole queue is cleared.                                          *)
OnCommitted_All(d, gone) == {}
OnCommitted(d, gone) == dev[d].queue \ gone
Filtered(d, others, gone) == IF gone = {} THEN others ELSE Detached(d, others)

(* fireAutoCommit up to the await of its commit.  The commit of a device that   *)
(* is not an admin throws, and so does one that would remove its own author;    *)
(* any other may.                                                              *)
MayRemove(d, gone) == MayCommit(d) /\ gone # {} /\ d \notin gone
FireAutoCommit(d, j) ==
    LET gone  == Departing(d, j)
        stale == EntriesOf(d, j) \ gone
        rest  == Filtered(d, jobs[d] \ {j}, stale)
        queue == OnCommitted(d, stale)
    IN /\ j.at = "group"
       /\ \/ /\ ~MayRemove(d, gone)
             /\ dev' = [dev EXCEPT ![d].queue = queue]
             /\ jobs' = [jobs EXCEPT ![d] = rest]
             /\ UNCHANGED <<log, hitches>>
          \/ /\ MayRemove(d, gone) /\ Hitch("failed")
             /\ dev' = [dev EXCEPT ![d].queue = queue]
             /\ jobs' = [jobs EXCEPT ![d] = rest]
             /\ UNCHANGED log
          \/ /\ MayRemove(d, gone)
             /\ CommitWith(d, Blanked(Group(d), UNION {LeavesToRemove(Group(d), p) : p \in gone}),
                           RemainingAdmins(Group(d), gone), TRUE)
             /\ dev' = [dev EXCEPT ![d].queue = queue, ![d].head = Len(log) + 1]
             /\ jobs' = [jobs EXCEPT ![d] = rest \cup
                           {[j EXCEPT !.at = "commit", !.queue = Live, !.gone = gone]}]
             /\ UNCHANGED hitches
       /\ UNCHANGED intents

(* fireAutoCommit after its commit                                              *)
AutoCommitted(d, j) ==
    /\ j.at = "commit"
    /\ dev' = [dev EXCEPT ![d].queue = OnCommitted(d, j.gone)]
    /\ jobs' = [jobs EXCEPT ![d] = Filtered(d, @ \ {j}, j.gone)]
    /\ UNCHANGED <<log, intents, hitches>>

----------------------------------------------------------------------------
(* What may happen to a device                                                *)

(* Joining or leaving another group tears every subscription down and cancels   *)
(* the timers; the ids of the events seen are kept, as is the queue.             *)
Resubscribe(d) ==
    /\ dev[d].stored /\ Hitch("torn")
    /\ dev' = [dev EXCEPT ![d].timer = FALSE]
    /\ UNCHANGED <<log, intents, jobs>>

(* The queue is in memory only; a message the group state has read once is      *)
(* not read again when the relays send it again.                                *)
Restart(d) ==
    /\ dev[d].stored /\ Hitch("restarted")
    /\ dev' = [dev EXCEPT ![d].queue = {}, ![d].timer = FALSE]
    /\ jobs' = [jobs EXCEPT ![d] = {}]
    /\ UNCHANGED <<log, intents>>

Init ==
    /\ log = <<[by |-> Nobody, parent |-> 0, past |-> {1}, tree |-> Founders,
                admins |-> FirstAdmins, created |-> CHOOSE t \in Clocks : TRUE,
                auto |-> FALSE]>>
    /\ intents = {}
    /\ dev = [d \in Member |->
                LET in == \E i \in DOMAIN Founders : Founders[i] = d
                IN [head |-> IF in THEN 1 ELSE 0, joined |-> IF in THEN 1 ELSE 0,
                    stored |-> in, handled |-> {}, queue |-> {}, timer |-> FALSE]]
    /\ jobs = [d \in Member |-> {}]
    /\ hitches = {}

AdminActs(d) ==
    \/ Rename(d)
    \/ \E p \in Member : \/ GrantAdmin(d, p)
                         \/ CancelPendingInvitation(d, p)
                         \/ InviteByNpub(d, p)
Listens(d) ==
    \/ \E c \in 1..Len(log) : HandleCommit(d, c)
    \/ \E i \in intents : EnqueueLeave(d, i)
Finalises(d) ==
    \/ TimerFires(d)
    \/ \E j \in jobs[d] : FireAutoCommit(d, j) \/ AutoCommitted(d, j)

Next == \E d \in Member : \/ LeaveGroup(d) \/ AdminActs(d)
                          \/ \E p \in Member : Announce(d, p)
                          \/ Listens(d) \/ Finalises(d)
                          \/ Resubscribe(d) \/ Restart(d)

(* The relays deliver what they keep, a timer fires, an await ends: while there  *)
(* is any of it to do, some of it is done.                                      *)
Works == \E d \in Member : Listens(d) \/ Finalises(d)
Spec == Init /\ [][Next]_vars /\ WF_vars(Works)

----------------------------------------------------------------------------
(* Who is removed loses the admin role with the leaf: no state names an admin    *)
(* who is not in its tree, and would be one again on coming back.                *)
TypeOK ==
    /\ \A c \in DOMAIN log : log[c].admins \subseteq MembersAt(c)
    /\ Len(log) \in 1..MaxCommits + 1 /\ \A c \in DOMAIN log : log[c] \in Commit
    /\ intents \subseteq Intent
    /\ dev \in [Member -> [head : 0..MaxCommits + 1, joined : 0..MaxCommits + 1,
                          stored : BOOLEAN, handled : SUBSET Intent, queue : SUBSET Member,
                          timer : BOOLEAN]]
    /\ jobs \in [Member -> SUBSET [n : Nat, at : {"group", "commit"}, gone : SUBSET Member,
                                  queue : [live : BOOLEAN, entries : SUBSET Member]]]
    /\ hitches \subseteq Hitches /\ Cardinality(hitches) <= MaxHitches

(* A timer removes only members of whose departure its device read: between the *)
(* announcement and the timer others may have removed them, and given their     *)
(* leaf to someone else.  Who announced it themselves has left.                 *)
Made(c) == Len(log') > Len(log) /\ c = Len(log')
OnlyTheAnnouncedAreRemoved ==
    [][\A c \in DOMAIN log' : Made(c) /\ log'[c].auto =>
         \A p \in MembersAt(log'[c].parent) \ MembersAt(c)' :
           \E i \in dev[log'[c].by].handled :
             i.of = p /\ (i.by = p => ~dev[p].stored)]_vars

(* No commit takes the admin role from a member who stays, though every commit   *)
(* of the role replaces the whole list: a grant made while a timer was running   *)
(* survives the removal.                                                        *)
NobodyIsDemoted ==
    \A c \in 2..Len(log) : log[log[c].parent].admins \cap MembersAt(c) \subseteq log[c].admins

(* What an admin read of a departure stays with it until the member is out of    *)
(* its tree: in the queue, or in a function that is about to commit it.          *)
NoDepartureForgotten ==
    "restarted" \notin hitches =>
      \A d \in Member : Receives(d) /\ d \in log[Group(d)].admins =>
        \A i \in dev[d].handled : i.of \in MembersOf(d) =>
          \/ i.of \in dev[d].queue
          \/ \E j \in jobs[d] : i.of \in EntriesOf(d, j) \cup j.gone

(* Everyone who stays sees the departed member go, unless a commit failed, an    *)
(* admin's app restarted or re-subscribed, two commits fork the group, or no     *)
(* admin is left.                                                               *)
Forked == \E c, e \in 2..Len(log) : c # e /\ log[c].parent = log[e].parent
Undisturbed ==
    /\ hitches = {}
    /\ Len(log) <= MaxCommits /\ ~Forked
    /\ \E d \in Member : Receives(d) /\ d \in log[Group(d)].admins
Finished(p) == \A d \in Member : Receives(d) => p \notin MembersOf(d)
DepartureFinished ==
    \A p \in Leavers : (\E i \in intents : i.of = p) ~> (Finished(p) \/ ~Undisturbed)
=============================================================================
