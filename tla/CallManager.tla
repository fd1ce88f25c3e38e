----------------------------- MODULE CallManager -----------------------------
(* Voice and video calls: callManager.ts with callStore.ts, the browser's      *)
(* media and peer connections, and the signalling of callSignaling.ts.         *)
(* A step is the code between two awaits, so what one device has suspended is  *)
(* a set of jobs. A publish whose end nothing waits for is one with the step   *)
(* that sends; the relays deliver in any order, at most once, or never.        *)
EXTENDS Naturals, Sequences, FiniteSets

CONSTANTS
    Device, Pubkey,
    OwnerOf,        \* the user a device belongs to; several devices may share one
    RankOf,         \* the order of the public keys
    Groups,         \* the MLS groups, as sets of public keys
    Targets,        \* whom the call buttons offer: sets of public keys
    Callers,        \* devices whose users may start a call
    Leavers,        \* devices whose users may decline or hang up; all may let it ring out
    Unmounts,       \* devices whose call manager may be destroyed
    SecondClicks,   \* TRUE if a user may click again while the first click is handled
    MaxStarts,      \* bound: clicks that start a call, for each device
    MaxAccepts,     \* bound: clicks that accept a call, for each device
    MaxContexts,    \* bound: call contexts a device creates
    MaxFailures,    \* bound: media refusals, failed publishes, lost connections
    NoLeg, Nobody

ASSUME DevicesAssumption ==
    /\ OwnerOf \in [Device -> Pubkey]
    /\ RankOf \in [Pubkey -> Nat]
    /\ \A p, q \in Pubkey : RankOf[p] = RankOf[q] => p = q
    /\ Groups \subseteq SUBSET Pubkey /\ Targets \subseteq SUBSET Pubkey
    /\ SecondClicks \in BOOLEAN
    /\ Callers \cup Leavers \cup Unmounts \subseteq Device
    /\ {MaxStarts, MaxAccepts, MaxContexts, MaxFailures} \subseteq Nat
    /\ Nobody \notin Device \cup Pubkey

VARIABLES
    dev,        \* each device's call manager, call store and open microphones
    jobs,       \* each device's suspended async functions
    net,        \* signalling events under way
    failures    \* failures so far

vars == <<dev, jobs, net, failures>>

CallId == [by : Device, n : 1..MaxStarts]           \* a fresh UUID of each start
NoCall == [by |-> Nobody, n |-> 0]
Sdp == [from : Device, to : Pubkey, gen : 0..1]     \* an offer's session description

Peers(d) == Pubkey \ {OwnerOf[d]}

(* The WebRTC side of one leg: its signalling state, whose description was     *)
(* applied to it, and whether that description was made for it.                *)
Session == [sig : {"offered", "stable"}, gen : 0..1, remote : Device \cup {Nobody},
            fits : BOOLEAN, conn : {"new", "connected", "failed", "again"}]
Offering == [sig |-> "offered", gen |-> 0, remote |-> Nobody, fits |-> TRUE, conn |-> "new"]
Answering(e) == [sig |-> "stable", gen |-> 0, remote |-> e, fits |-> TRUE, conn |-> "new"]

NewContext(c, phase, roster, peers, timer, mic) ==
    [call |-> c, phase |-> phase, roster |-> roster, peers |-> peers, legs |-> <<>>,
     retried |-> {}, renegotiating |-> {}, mic |-> mic, timer |-> timer]

Idle == [shows |-> "idle", call |-> NoCall, caller |-> Nobody]
Shows(what, c, caller) == [shows |-> what, call |-> c, caller |-> caller]

Fresh == [ctxs |-> <<>>, cur |-> 0, store |-> Idle, open |-> {}, sdps |-> {}, stash |-> {},
          starts |-> 0, accepts |-> 0, destroyed |-> FALSE]

Init ==
    /\ dev = [d \in Device |-> Fresh]
    /\ jobs = [d \in Device |-> {}]
    /\ net = {}
    /\ failures = 0

-----------------------------------------------------------------------------
(* What the handlers do to the state s of one device.                          *)

InCall(s, c) == s.cur # 0 /\ s.ctxs[s.cur].call = c
Ringing(s, c) == InCall(s, c) /\ s.ctxs[s.cur].phase = "ringing"
Active(s, c) == InCall(s, c) /\ s.ctxs[s.cur].phase = "active"
Authorized(s, p) == s.cur # 0 /\ p \in s.ctxs[s.cur].roster

\* A stream number that nothing open has.
NewMic(s) == CHOOSE n \in 1..(Cardinality(s.open) + 1) : n \notin s.open

Forget(s, c) == [s EXCEPT !.sdps = {x \in @ : x.call # c}, !.stash = {x \in @ : x.call # c}]

\* ctx = null and callStore.clearAll(), whatever call they are about.
Cleared(s) == [s EXCEPT !.cur = 0, !.store = Idle]

\* The store is cleared whatever call it shows, the context only if it is the current one.
Teardown(s, i) ==
    LET c == s.ctxs[i].call
        t == [Forget(s, c) EXCEPT !.ctxs[i].timer = "off", !.ctxs[i].legs = <<>>,
                                  !.ctxs[i].mic = 0, !.open = @ \ {s.ctxs[i].mic},
                                  !.store = Idle]
    IN  IF InCall(s, c) THEN [t EXCEPT !.cur = 0] ELSE t

\* Mutant: the echo stops the ringing on the screen and leaves the context.
Elsewhere_ScreenOnly(s, c) ==
    [s EXCEPT !.ctxs[s.cur].timer = "off", !.sdps = {x \in @ : x.call # c}, !.store = Idle]

\* An echo of our own answer or reject: another device of ours has taken the call.
Elsewhere(s, c) ==
    Cleared([s EXCEPT !.ctxs[s.cur].timer = "off", !.sdps = {x \in @ : x.call # c}])

\* A new leg goes to the current context, whichever call the caller meant.
WithSession(s, p, session) ==
    LET legs == s.ctxs[s.cur].legs
    IN  [s EXCEPT !.ctxs[s.cur].legs =
            [q \in DOMAIN legs \cup {p} |-> IF q = p THEN session ELSE legs[q]]]

WithoutSession(s, i, p) ==
    LET legs == s.ctxs[i].legs
        t == [s EXCEPT !.ctxs[i].legs = [q \in DOMAIN legs \ {p} |-> legs[q]],
                       !.ctxs[i].peers = @ \ {p}]
    IN  IF DOMAIN legs \subseteq {p} THEN Teardown(t, i) ELSE t

-----------------------------------------------------------------------------
(* Signalling. One event is wrapped for each public key and reaches every      *)
(* device of it, the sender's own included.                                    *)

Event(kind, c, d, e, sdp, named) ==
    [kind |-> kind, call |-> c, from |-> d, to |-> e, sdp |-> sdp, named |-> named]
Wrapped(kind, c, d, pubkeys, sdp, named) ==
    {Event(kind, c, d, e, sdp, named) : e \in {e \in Device : OwnerOf[e] \in pubkeys}}
Offers(c, d, pubkeys, named) ==
    UNION {Wrapped("offer", c, d, {p}, [from |-> d, to |-> p, gen |-> 0], named) : p \in pubkeys}
Publish(events) == net' = net \cup events

\* createOffer to p and its offer, unless the leg is already forming.
NoOfferTo(s, i, p) == s.ctxs[i].mic = 0 \/ p \in DOMAIN s.ctxs[i].legs
OfferTo(s, i, p) == IF NoOfferTo(s, i, p) THEN s ELSE WithSession(s, p, Offering)
OfferEvents(s, d, i, p) ==
    IF NoOfferTo(s, i, p) THEN {} ELSE Offers(s.ctxs[i].call, d, {p}, s.ctxs[i].peers)

\* Answering a mesh offer: the leg is answered to its sender alone.
MeshAnswer(s, i, m) ==
    IF NoOfferTo(s, i, OwnerOf[m.from]) THEN s
    ELSE WithSession([s EXCEPT !.ctxs[i].peers = @ \cup {OwnerOf[m.from]}],
                     OwnerOf[m.from], Answering(m.from))
MeshAnswerEvents(s, d, i, m) ==
    IF NoOfferTo(s, i, OwnerOf[m.from]) THEN {}
    ELSE Wrapped("answer", s.ctxs[i].call, d, {OwnerOf[m.from]}, m.sdp, {})

-----------------------------------------------------------------------------
(* The user. The buttons are those the call store's state shows.               *)

Handling(d) == \E j \in jobs[d] : j.op \in {"start", "accept", "decline"}

StartCall(d) ==
    /\ d \in Callers /\ (SecondClicks \/ ~Handling(d))
    /\ ~dev[d].destroyed /\ dev[d].store.shows = "idle"
    /\ dev[d].starts < MaxStarts
    /\ \E targets \in Targets :
        /\ OwnerOf[d] \notin targets
        /\ dev' = [dev EXCEPT ![d].starts = @ + 1]
        /\ jobs' = [jobs EXCEPT ![d] = @ \cup
                {[op |-> "start", call |-> [by |-> d, n |-> dev[d].starts + 1], targets |-> targets]}]
    /\ UNCHANGED <<net, failures>>

\* The timer is cleared, then the media awaited.
AcceptCall(d) ==
    LET s == dev[d] IN
    /\ ~s.destroyed /\ s.store.shows = "incoming" /\ (SecondClicks \/ ~Handling(d))
    /\ Ringing(s, s.store.call)
    /\ s.accepts < MaxAccepts
    /\ dev' = [dev EXCEPT ![d].ctxs[s.cur].timer = "off", ![d].accepts = @ + 1]
    /\ jobs' = [jobs EXCEPT ![d] = @ \cup
            {[op |-> "accept", at |-> "media", ctx |-> s.cur, click |-> s.accepts, todo |-> {}]}]
    /\ UNCHANGED <<net, failures>>

\* declineCall up to its publishes; nothing if the call is not the current one.
Declining(d, c, others) ==
    LET s == dev[d] IN
    IF s.destroyed \/ ~InCall(s, c)
    THEN jobs' = [jobs EXCEPT ![d] = others] /\ UNCHANGED net
    ELSE /\ jobs' = [jobs EXCEPT ![d] = others \cup {[op |-> "decline", call |-> c]}]
         /\ Publish(Wrapped("reject", c, d, s.ctxs[s.cur].peers \cup {OwnerOf[d]}, NoLeg, {}))

TimerOff(s, c) == IF s.destroyed \/ ~InCall(s, c) THEN s ELSE [s EXCEPT !.ctxs[s.cur].timer = "off"]

DeclineCall(d) ==
    LET c == dev[d].store.call IN
    /\ d \in Leavers
    /\ ~dev[d].destroyed /\ dev[d].store.shows = "incoming" /\ (SecondClicks \/ ~Handling(d))
    /\ [op |-> "decline", call |-> c] \notin jobs[d]
    /\ Declining(d, c, jobs[d])
    /\ dev' = [dev EXCEPT ![d] = TimerOff(@, c)]
    /\ UNCHANGED failures

\* hangup up to its publishes; nothing unless the current context is active.
HangingUp(d) ==
    LET s == dev[d] IN
    IF s.destroyed \/ s.cur = 0 \/ (s.cur # 0 /\ s.ctxs[s.cur].phase # "active")
    THEN UNCHANGED <<jobs, net>>
    ELSE /\ jobs' = [jobs EXCEPT ![d] = @ \cup {[op |-> "hangup", ctx |-> s.cur]}]
         /\ Publish(Wrapped("hangup", s.ctxs[s.cur].call, d, s.ctxs[s.cur].peers, NoLeg, {}))

Hangup(d) ==
    /\ d \in Leavers
    /\ ~dev[d].destroyed /\ dev[d].store.shows = "active"
    /\ ~\E j \in jobs[d] : j.op = "hangup"
    /\ HangingUp(d)
    /\ UNCHANGED <<dev, failures>>

\* The watcher unmounts: the identity changes or the tab closes.
Destroy(d) ==
    /\ d \in Unmounts /\ ~dev[d].destroyed
    /\ LET s == [dev[d] EXCEPT !.destroyed = TRUE]
       IN  dev' = [dev EXCEPT ![d] =
                [(IF s.cur = 0 THEN s ELSE Teardown(s, s.cur)) EXCEPT !.sdps = {}, !.stash = {}]]
    /\ UNCHANGED <<jobs, net, failures>>

-----------------------------------------------------------------------------
(* What the suspended functions do when they resume.                           *)

Running(d, op, j) == j \in jobs[d] /\ j.op = op
Finish(d, j) == jobs' = [jobs EXCEPT ![d] = @ \ {j}]
Become(d, j, k) == jobs' = [jobs EXCEPT ![d] = (@ \ {j}) \cup {k}]
Fail == failures < MaxFailures /\ failures' = failures + 1

MediaForStart(d, j) ==
    LET s == dev[d]
        mic == NewMic(s)
        c == [NewContext(j.call, "active", j.targets \cup {OwnerOf[d]}, j.targets, "dial", mic)
                EXCEPT !.legs = [p \in j.targets |-> Offering]]
    IN
    /\ Running(d, "start", j)
    /\ Len(s.ctxs) < MaxContexts
    /\ dev' = [dev EXCEPT ![d] = [s EXCEPT !.ctxs = Append(@, c), !.cur = Len(s.ctxs) + 1,
                    !.open = @ \cup {mic}, !.store = Shows("active", j.call, Nobody)]]
    /\ IF failures < MaxFailures THEN Become(d, j, [op |-> "dial", ctx |-> Len(s.ctxs) + 1])
       ELSE Finish(d, j)                \* only a failure would have anything left to do
    /\ Publish(Offers(j.call, d, j.targets, j.targets))
    /\ UNCHANGED failures

StartRefused(d, j) ==
    /\ Running(d, "start", j)
    /\ Fail /\ Finish(d, j)
    /\ UNCHANGED <<dev, net>>

OffersPublished(d, j) ==
    /\ Running(d, "dial", j)
    /\ Finish(d, j)
    /\ UNCHANGED <<dev, net, failures>>

OfferFails(d, j) ==
    /\ Running(d, "dial", j)
    /\ Fail /\ Finish(d, j)
    /\ dev' = [dev EXCEPT ![d] =
            IF InCall(@, @.ctxs[j.ctx].call) THEN Teardown(@, @.cur) ELSE @]
    /\ UNCHANGED net

\* The offer to answer is that of the call, the caller is the one the store shows.
MediaForAccept(d, j) ==
    LET s == dev[d]
        c == s.ctxs[j.ctx].call
        mic == NewMic(s)
        active == [s EXCEPT !.ctxs[j.ctx].phase = "active", !.ctxs[j.ctx].mic = mic,
                            !.open = @ \cup {mic}, !.sdps = {x \in @ : x.call # c},
                            !.store = Shows("active", c, Nobody)]
    IN
    /\ Running(d, "accept", j) /\ j.at = "media"
    /\ s.store.shows = "incoming"
    /\ \E x \in s.sdps :
        /\ x.call = c
        /\ dev' = [dev EXCEPT ![d] = WithSession(active, s.store.caller, Answering(x.sdp.from))]
        /\ Publish({m \in Wrapped("answer", c, d, s.ctxs[j.ctx].peers \cup {OwnerOf[d]}, x.sdp, {}) :
                        m.to # d})      \* our own copy finds the call active: it says nothing
        /\ Become(d, j, [j EXCEPT !.at = "answer",
                                  !.todo = s.ctxs[j.ctx].peers \ {s.store.caller}])
    /\ UNCHANGED failures

\* Mutant: media that comes after the call has ended is kept.
MediaTooLate_Kept(d, j) ==
    LET s == dev[d]
        c == s.ctxs[j.ctx].call
    IN
    /\ Running(d, "accept", j) /\ j.at = "media"
    /\ s.store.shows # "incoming" \/ ~\E x \in s.sdps : x.call = c
    /\ dev' = [dev EXCEPT ![d] =
            TimerOff([s EXCEPT !.ctxs[j.ctx].phase = "active", !.ctxs[j.ctx].mic = NewMic(s),
                               !.open = @ \cup {NewMic(s)}], c)]
    /\ Declining(d, c, jobs[d] \ {j})
    /\ UNCHANGED failures

\* Nothing left to answer: the media is released again and the call declined.
MediaTooLate(d, j) ==
    LET s == dev[d]
        c == s.ctxs[j.ctx].call
    IN
    /\ Running(d, "accept", j) /\ j.at = "media"
    /\ s.store.shows # "incoming" \/ ~\E x \in s.sdps : x.call = c
    /\ dev' = [dev EXCEPT ![d] =
            TimerOff([s EXCEPT !.ctxs[j.ctx].phase = "active", !.ctxs[j.ctx].mic = 0], c)]
    /\ Declining(d, c, jobs[d] \ {j})
    /\ UNCHANGED failures

\* Mutant: a refused microphone is only logged.
AcceptRefused_Logged(d, j) ==
    /\ Running(d, "accept", j) /\ j.at = "media"
    /\ Fail /\ Finish(d, j)
    /\ UNCHANGED <<dev, net>>

AcceptRefused(d, j) ==
    LET c == dev[d].ctxs[j.ctx].call IN
    /\ Running(d, "accept", j) /\ j.at = "media"
    /\ Fail
    /\ dev' = [dev EXCEPT ![d] = TimerOff(@, c)]
    /\ Declining(d, c, jobs[d] \ {j})

AnswersPublished(d, j) ==
    /\ Running(d, "accept", j) /\ j.at = "answer"
    /\ Become(d, j, [j EXCEPT !.at = "mesh"])
    /\ UNCHANGED <<dev, net, failures>>

AnswerFails(d, j) ==
    /\ Running(d, "accept", j) /\ j.at = "answer"
    /\ Fail /\ Finish(d, j)
    /\ dev' = [dev EXCEPT ![d] = Teardown(@, j.ctx)]
    /\ UNCHANGED net

Initiates(d, p) == RankOf[OwnerOf[d]] < RankOf[p]

\* An offer to each other callee we out-rank, then the stashed offers answered.
JoinMesh(d, j) ==
    LET s == dev[d] IN
    /\ Running(d, "accept", j) /\ j.at = "mesh"
    /\ \E p \in j.todo :
        IF Initiates(d, p) /\ (NoOfferTo(s, j.ctx, p) \/ s.cur # 0)
        THEN /\ dev' = [dev EXCEPT ![d] = OfferTo(s, j.ctx, p)]
             /\ Publish(OfferEvents(s, d, j.ctx, p))
             /\ Become(d, j, [j EXCEPT !.todo = @ \ {p}])
        ELSE /\ IF Initiates(d, p) THEN Finish(d, j)        \* the leg has no context: it throws
                ELSE Become(d, j, [j EXCEPT !.todo = @ \ {p}])
             /\ UNCHANGED <<dev, net>>
    /\ UNCHANGED failures

TakeStash(d, j) ==
    LET s == dev[d]
        mine == {x \in s.stash : x.call = s.ctxs[j.ctx].call}
    IN
    /\ Running(d, "accept", j) /\ j.at = "mesh" /\ j.todo = {}
    /\ dev' = [dev EXCEPT ![d].stash = @ \ mine]
    /\ IF mine = {} THEN Finish(d, j) ELSE Become(d, j, [j EXCEPT !.at = "drain", !.todo = mine])
    /\ UNCHANGED <<net, failures>>

AnswerStashed(d, j) ==
    LET s == dev[d] IN
    /\ Running(d, "accept", j) /\ j.at = "drain"
    /\ \E x \in j.todo :
        /\ NoOfferTo(s, j.ctx, OwnerOf[x.from]) \/ s.cur # 0
        /\ dev' = [dev EXCEPT ![d] = MeshAnswer(s, j.ctx, x)]
        /\ Publish(MeshAnswerEvents(s, d, j.ctx, x))
        /\ IF j.todo = {x} THEN Finish(d, j) ELSE Become(d, j, [j EXCEPT !.todo = @ \ {x}])
    /\ UNCHANGED failures

\* Whatever call is current by now is dropped, its context and its sessions as they are.
Declined(d, j) ==
    /\ Running(d, "decline", j)
    /\ Finish(d, j)
    /\ dev' = [dev EXCEPT ![d] = Cleared(Forget(@, j.call))]
    /\ UNCHANGED <<net, failures>>

HungUp(d, j) ==
    /\ Running(d, "hangup", j)
    /\ Finish(d, j)
    /\ dev' = [dev EXCEPT ![d] = Teardown(@, j.ctx)]
    /\ UNCHANGED <<net, failures>>

\* The group in which the caller and we meet and that has most of those the offer
\* names, or else just the two of us.
Roster(d, m) ==
    LET named == m.named \cup {OwnerOf[m.from]}
        own == {g \in Groups : {OwnerOf[d], OwnerOf[m.from]} \subseteq g}
    IN  IF own = {} THEN {OwnerOf[d], OwnerOf[m.from]}
        ELSE CHOOSE g \in own : \A h \in own : Cardinality(named \cap h) <= Cardinality(named \cap g)

\* Mutant: the offer's names are taken as they are, ourselves among them.
OfferPeers_AsNamed(d, m) == m.named \cup {OwnerOf[m.from]}

\* The caller, and those the offer names who are in the roster.
OfferPeers(d, m) ==
    {q \in m.named : q # OwnerOf[d] /\ q \in Roster(d, m)} \cup {OwnerOf[m.from]}

\* Mutant: the microphone is opened while it rings, to be ready at once.
RosterResolved_Ready(d, j) ==
    LET s == dev[d]
        m == j.offer
    IN
    /\ Running(d, "roster", j) /\ Len(s.ctxs) < MaxContexts
    /\ dev' = [dev EXCEPT ![d] =
            [s EXCEPT !.sdps = {x \in @ : x.call # m.call} \cup {[call |-> m.call, sdp |-> m.sdp]},
                      !.ctxs = Append(@, NewContext(m.call, "ringing", Roster(d, m), OfferPeers(d, m),
                                                    "ring", NewMic(s))),
                      !.open = @ \cup {NewMic(s)},
                      !.cur = Len(s.ctxs) + 1, !.store = Shows("incoming", m.call, OwnerOf[m.from])]]
    /\ Finish(d, j)
    /\ UNCHANGED <<net, failures>>

\* The context is taken without another look at the store.
RosterResolved(d, j) ==
    LET s == dev[d]
        m == j.offer
        p == OwnerOf[m.from]
    IN
    /\ Running(d, "roster", j)
    /\ Len(s.ctxs) < MaxContexts
    /\ dev' = [dev EXCEPT ![d] =
            [s EXCEPT !.sdps = {x \in @ : x.call # m.call} \cup {[call |-> m.call, sdp |-> m.sdp]},
                      !.ctxs = Append(@, NewContext(m.call, "ringing", Roster(d, m), OfferPeers(d, m), "ring", 0)),
                      !.cur = Len(s.ctxs) + 1,
                      !.store = Shows("incoming", m.call, p)]]
    /\ Finish(d, j)
    /\ UNCHANGED <<net, failures>>

Resume(d) ==
    \E j \in jobs[d] :
        \/ MediaForStart(d, j) \/ OffersPublished(d, j)
        \/ MediaForAccept(d, j) \/ MediaTooLate(d, j) \/ AnswersPublished(d, j)
        \/ JoinMesh(d, j) \/ TakeStash(d, j) \/ AnswerStashed(d, j)
        \/ Declined(d, j) \/ HungUp(d, j) \/ RosterResolved(d, j)

Break(d) ==
    \E j \in jobs[d] :
        StartRefused(d, j) \/ OfferFails(d, j) \/ AcceptRefused(d, j) \/ AnswerFails(d, j)

-----------------------------------------------------------------------------
(* Timers and peer connections.                                                *)

Timer(d, i) ==
    LET s == [dev[d] EXCEPT !.ctxs[i].timer = "off"]
        c == s.ctxs[i].call
    IN
    /\ \/ /\ dev[d].ctxs[i].timer = "ring"
          /\ dev' = [dev EXCEPT ![d] = TimerOff(s, c)]
          /\ Declining(d, c, jobs[d])
       \/ /\ dev[d].ctxs[i].timer = "dial"
          /\ dev' = [dev EXCEPT ![d] = s]
          /\ IF InCall(s, c) /\ ~\E p \in DOMAIN s.ctxs[s.cur].legs :
                                    s.ctxs[s.cur].legs[p].conn = "connected"
             THEN HangingUp(d) ELSE UNCHANGED <<jobs, net>>
    /\ UNCHANGED failures

\* The two ends of a leg hold descriptions made for each other.
Linked(d, i, p) ==
    LET a == dev[d].ctxs[i].legs[p]
        back == OwnerOf[d]
    IN  /\ a.sig = "stable" /\ a.fits /\ a.remote # Nobody
        /\ \E k \in DOMAIN dev[a.remote].ctxs :
            /\ dev[a.remote].ctxs[k].call = dev[d].ctxs[i].call
            /\ back \in DOMAIN dev[a.remote].ctxs[k].legs
            /\ LET b == dev[a.remote].ctxs[k].legs[back]
               IN  b.sig = "stable" /\ b.fits /\ b.remote = d

Connects(d, i) ==
    /\ \E p \in DOMAIN dev[d].ctxs[i].legs :
        /\ dev[d].ctxs[i].legs[p].conn \in {"new", "again"} /\ Linked(d, i, p)
        /\ dev' = [dev EXCEPT ![d] =
                LET t == [@ EXCEPT !.ctxs[i].legs[p].conn = "connected"]
                IN  IF InCall(t, t.ctxs[i].call) THEN [t EXCEPT !.ctxs[t.cur].timer = "off"] ELSE t]
    /\ UNCHANGED <<jobs, net, failures>>

\* The leg offers anew: restartIce and a renegotiation of our own.
Restarted(x, p) ==
    [x EXCEPT !.legs[p] = [@ EXCEPT !.conn = "failed", !.sig = "offered", !.gen = 1],
              !.retried = @ \cup {p}, !.renegotiating = @ \cup {p}]

\* One ICE restart for each leg; the second failure ends the leg.
ConnectionFails(d, i) ==
    LET s == dev[d]
        c == s.ctxs[i].call
    IN
    /\ Fail
    /\ \E p \in DOMAIN s.ctxs[i].legs :
        /\ s.ctxs[i].legs[p].remote # Nobody /\ s.ctxs[i].legs[p].conn # "failed"
        /\ \/ /\ InCall(s, c) /\ p \notin s.ctxs[i].retried
              /\ dev' = [dev EXCEPT ![d].ctxs[i] = Restarted(@, p)]
              /\ Publish(Wrapped("renegotiate", c, d, {p}, [from |-> d, to |-> p, gen |-> 1], {}))
           \/ /\ InCall(s, c) /\ p \in s.ctxs[i].retried
              /\ dev' = [dev EXCEPT ![d] =
                    WithoutSession([s EXCEPT !.ctxs[i].retried = @ \ {p}], i, p)]
              /\ UNCHANGED net
    /\ UNCHANGED jobs

-----------------------------------------------------------------------------
(* Signalling events.                                                          *)

Receive(d, kind, m) == m \in net /\ m.to = d /\ m.kind = kind /\ ~dev[d].destroyed
Consume(m, events) == net' = (net \ {m}) \cup events
FromSelf(d, m) == OwnerOf[m.from] = OwnerOf[d]

\* Mutant: a mesh offer that comes while the call rings is dropped.
HandleMeshOffer_Unstashed(d, m) ==
    LET s == dev[d] IN
    /\ Receive(d, "offer", m) /\ InCall(s, m.call)
    /\ IF Authorized(s, OwnerOf[m.from]) /\ Active(s, m.call)
       THEN /\ Consume(m, MeshAnswerEvents(s, d, s.cur, m))
            /\ dev' = [dev EXCEPT ![d] = MeshAnswer(s, s.cur, m)]
       ELSE Consume(m, {}) /\ UNCHANGED dev
    /\ UNCHANGED <<jobs, failures>>

\* A leg of the call we are in; anything else from an unknown sender is dropped.
HandleMeshOffer(d, m) ==
    LET s == dev[d] IN
    /\ Receive(d, "offer", m) /\ InCall(s, m.call)
    /\ \/ /\ ~Authorized(s, OwnerOf[m.from])
          /\ Consume(m, {}) /\ UNCHANGED dev
       \/ /\ Authorized(s, OwnerOf[m.from]) /\ Active(s, m.call)
          /\ Consume(m, MeshAnswerEvents(s, d, s.cur, m))
          /\ dev' = [dev EXCEPT ![d] = MeshAnswer(s, s.cur, m)]
       \/ /\ Authorized(s, OwnerOf[m.from]) /\ Ringing(s, m.call)
          /\ Consume(m, {})
          /\ dev' = [dev EXCEPT ![d].stash =
                {x \in @ : x.call # m.call \/ OwnerOf[x.from] # OwnerOf[m.from]}
                    \cup {[call |-> m.call, from |-> m.from, sdp |-> m.sdp]}]
    /\ UNCHANGED <<jobs, failures>>

HandleOffer(d, m) ==
    LET s == dev[d] IN
    /\ Receive(d, "offer", m) /\ ~InCall(s, m.call)
    /\ \/ /\ s.store.shows = "active"
          /\ Consume(m, Wrapped("reject", m.call, d, {OwnerOf[m.from]}, NoLeg, {}))
          /\ UNCHANGED jobs
       \/ /\ s.store.shows # "active"
          /\ jobs' = [jobs EXCEPT ![d] = @ \cup {[op |-> "roster", offer |-> m]}]
          /\ Consume(m, {})
    /\ UNCHANGED <<dev, failures>>

HandleEcho(d, m) ==
    /\ Receive(d, "answer", m) \/ Receive(d, "reject", m)
    /\ FromSelf(d, m)
    /\ dev' = [dev EXCEPT ![d] = IF Ringing(@, m.call) THEN Elsewhere(@, m.call) ELSE @]
    /\ Consume(m, {})
    /\ UNCHANGED <<jobs, failures>>

\* A connection that has been up or has failed is checked anew.
Checking(conn) == IF conn = "new" THEN "new" ELSE "again"

AfterAnswer(leg, d, p, m) ==
    [leg EXCEPT !.sig = "stable", !.remote = m.from, !.conn = Checking(@),
                !.fits = m.sdp = [from |-> d, to |-> p, gen |-> leg.gen]]

HandleAnswer(d, m) ==
    LET s == dev[d]
        i == s.cur
        p == OwnerOf[m.from]
        joined == [s EXCEPT !.ctxs[i].peers = @ \cup {p}]
    IN
    /\ Receive(d, "answer", m) /\ ~FromSelf(d, m)
    /\ IF ~Active(s, m.call) \/ ~Authorized(s, p) THEN Consume(m, {}) /\ UNCHANGED dev
       ELSE IF p \in DOMAIN s.ctxs[i].legs
       THEN /\ Consume(m, {})
            /\ dev' = [dev EXCEPT ![d] =
                IF s.ctxs[i].legs[p].sig = "stable" THEN s      \* no offer is open: it throws
                ELSE [s EXCEPT !.ctxs[i].legs[p] = AfterAnswer(@, d, p, m),
                               !.ctxs[i].renegotiating = @ \ {p}]]
       ELSE IF Initiates(d, p)
       THEN /\ Consume(m, OfferEvents(joined, d, i, p))
            /\ dev' = [dev EXCEPT ![d] = OfferTo(joined, i, p)]
       ELSE /\ Consume(m, {})
            /\ dev' = [dev EXCEPT ![d] = joined]
    /\ UNCHANGED <<jobs, failures>>

\* A hangup counts in any phase; another's reject only once the call is active.
HandleHangup(d, m) ==
    LET s == dev[d] IN
    /\ Receive(d, "hangup", m) \/ (Receive(d, "reject", m) /\ ~FromSelf(d, m))
    /\ dev' = [dev EXCEPT ![d] =
            IF /\ InCall(s, m.call) /\ Authorized(s, OwnerOf[m.from])
               /\ m.kind = "hangup" \/ Active(s, m.call)
            THEN WithoutSession(s, s.cur, OwnerOf[m.from]) ELSE s]
    /\ Consume(m, {})
    /\ UNCHANGED <<jobs, failures>>

\* An offer taken over an established leg: answered, and an own one withdrawn.
Renegotiated(x, p, m) ==
    [x EXCEPT !.renegotiating = @ \ {p},
              !.legs[p] = [@ EXCEPT !.sig = "stable", !.remote = m.from, !.fits = TRUE,
                                    !.conn = Checking(x.legs[p].conn)]]

\* Of two offers that meet, the higher key's stands.
HandleRenegotiate(d, m) ==
    LET s == dev[d]
        p == OwnerOf[m.from]
    IN
    /\ Receive(d, "renegotiate", m)
    /\ IF \/ ~Active(s, m.call) \/ ~Authorized(s, p)
          \/ p \notin DOMAIN s.ctxs[s.cur].legs
          \/ p \in s.ctxs[s.cur].renegotiating /\ RankOf[OwnerOf[d]] > RankOf[p]
       THEN Consume(m, {}) /\ UNCHANGED dev
       ELSE /\ Consume(m, Wrapped("answer", m.call, d, {p}, m.sdp, {}))
            /\ dev' = [dev EXCEPT ![d].ctxs[s.cur] = Renegotiated(@, p, m)]
    /\ UNCHANGED <<jobs, failures>>

-----------------------------------------------------------------------------

User(d) == StartCall(d) \/ AcceptCall(d) \/ DeclineCall(d) \/ Hangup(d) \/ Destroy(d)
Clock(d) == \E i \in DOMAIN dev[d].ctxs : Timer(d, i)
Network(d) ==
    \/ \E i \in DOMAIN dev[d].ctxs : Connects(d, i) \/ ConnectionFails(d, i)
    \/ \E m \in net :
        \/ HandleMeshOffer(d, m) \/ HandleOffer(d, m) \/ HandleEcho(d, m)
        \/ HandleAnswer(d, m) \/ HandleHangup(d, m) \/ HandleRenegotiate(d, m)

Next == \E d \in Device : User(d) \/ Resume(d) \/ Break(d) \/ Clock(d) \/ Network(d)

Spec == Init /\ [][Next]_vars

\* Awaits return and timers fire. Nothing is assumed of users and of deliveries.
Fairness == \A d \in Device : WF_vars(Resume(d)) /\ WF_vars(Clock(d))
FairSpec == Spec /\ Fairness

-----------------------------------------------------------------------------
(* Properties.                                                                 *)

Context == [call : CallId, phase : {"ringing", "active"}, roster : SUBSET Pubkey,
            peers : SUBSET Pubkey, retried : SUBSET Pubkey, renegotiating : SUBSET Pubkey,
            mic : Nat, timer : {"off", "ring", "dial"}]

\* Types, and no context or leg of another call manager's making (callManager.ts:95-118).
TypeOK ==
    \A d \in Device : LET s == dev[d] IN
        /\ \A i \in DOMAIN s.ctxs : LET x == s.ctxs[i] IN
            /\ [k \in DOMAIN x \ {"legs"} |-> x[k]] \in Context
            /\ DOMAIN x.legs \cup x.peers \subseteq Peers(d)
            /\ \A p \in DOMAIN x.legs : x.legs[p] \in Session
        /\ s.cur \in 0..Len(s.ctxs) /\ Len(s.ctxs) <= MaxContexts
        /\ s.store \in [shows : {"idle", "incoming", "active"}, call : CallId \cup {NoCall},
                        caller : Pubkey \cup {Nobody}]
        /\ s.sdps \subseteq [call : CallId, sdp : Sdp]
        /\ s.stash \subseteq [call : CallId, from : Device, sdp : Sdp]

\* A microphone that is open belongs to the call in progress: whatever ends a call, or
\* comes while its media is awaited, releases it (_teardownCall, acceptCall).
MicReleased ==
    \A d \in Device : \A n \in dev[d].open :
        dev[d].cur # 0 /\ dev[d].ctxs[dev[d].cur].mic = n

\* What the screen shows is what the buttons act on: the call the store shows is the
\* current context in that phase, and no context is without a screen.
StoreMatchesContext ==
    \A d \in Device : LET s == dev[d] IN
        /\ s.store.shows = "incoming" => Ringing(s, s.store.call)
        /\ s.store.shows = "active" => Active(s, s.store.call)
        /\ s.store.shows = "idle" => s.cur = 0

\* No microphone is open, no leg is formed and no offer or answer goes out before the user
\* has clicked: ringing, mesh offers and other devices' calls never do it by themselves.
Clicked(d) == dev[d].starts > 0 \/ dev[d].accepts > 0
NothingBeforeTheClick ==
    \A d \in Device : ~Clicked(d) =>
        /\ dev[d].open = {}
        /\ \A i \in DOMAIN dev[d].ctxs : DOMAIN dev[d].ctxs[i].legs = {}
        /\ \A m \in net : m.from = d => m.kind = "reject"

Quiet == /\ \A d \in Device : jobs[d] = {}
         /\ \A m \in net : dev[m.to].destroyed

\* Once everything sent has arrived, two that are in a call and count each other among
\* its peers have a leg between them, whichever accepted first.
MeshComplete ==
    Quiet => \A d, e \in Device :
        LET s == dev[d]
            t == dev[e]
        IN  /\ OwnerOf[d] # OwnerOf[e] /\ s.cur # 0 /\ t.cur # 0
            /\ Active(s, t.ctxs[t.cur].call) /\ Active(t, s.ctxs[s.cur].call)
            /\ OwnerOf[e] \in s.ctxs[s.cur].peers /\ OwnerOf[d] \in t.ctxs[t.cur].peers
            => OwnerOf[e] \in DOMAIN s.ctxs[s.cur].legs

\* A device stops ringing though its user does nothing and everything sent is lost.
RingEnds ==
    \A d \in Device :
        (dev[d].store.shows = "incoming" /\ ~dev[d].destroyed)
            ~> (dev[d].store.shows # "incoming" \/ dev[d].destroyed)

\* A caller whom nobody answers is not kept in the call with an open microphone.
Unanswered(d) ==
    LET s == dev[d] IN
    /\ ~s.destroyed /\ s.store.shows = "active" /\ s.store.call.by = d /\ s.cur # 0
    /\ s.ctxs[s.cur].retried = {}
    /\ \A p \in DOMAIN s.ctxs[s.cur].legs : s.ctxs[s.cur].legs[p].conn = "new"
DialEnds == \A d \in Device : Unanswered(d) ~> ~Unanswered(d)

\* Neither side waits for ever: both ring timers are set on every path and clear it.
WaitsEnd == RingEnds /\ DialEnds
=============================================================================
