------------------------- MODULE CallManager_proofs --------------------------
(***************************************************************************)
(* Calls: nothing of a call happens on a device before its user has clicked,  *)
(* and what a call manager holds stays well formed, for any devices, users,   *)
(* groups, targets and bounds; the screen and the microphone of a device that  *)
(* takes part in one call belong to that call; and the devices of a call end  *)
(* with a leg between any two of them, if nothing fails.                      *)
(***************************************************************************)
EXTENDS CallManager, FiniteSetTheorems, WellFoundedInduction, TLAPS

Fields == {"ctxs", "cur", "store", "open", "sdps", "stash", "starts", "accepts", "destroyed"}
Shaped(s) == DOMAIN s = Fields /\ s.starts \in Nat /\ s.accepts \in Nat

(* No step takes a click back.                                                 *)
Grows(s, t) == Shaped(t) /\ s.starts <= t.starts /\ s.accepts <= t.accepts

(* Contexts that ring and have formed no leg.                                  *)
RingsAlone(x) == {"phase", "legs"} \subseteq DOMAIN x /\ x.phase = "ringing" /\ DOMAIN x.legs = {}
RingAlone(q) == (\E S : q \in Seq(S)) /\ \A i \in DOMAIN q : RingsAlone(q[i])

Silent(s) == RingAlone(s.ctxs) /\ s.open = {} /\ (s.cur # 0 => s.cur \in DOMAIN s.ctxs)
Waits(J) == \A j \in J : j.op \in {"decline", "roster"}
Rejects(d, M) == \A m \in M : m.from = d => m.kind = "reject"

Unclicked(s) == s.starts = 0 /\ s.accepts = 0
Asleep(d, s, J, M) == Silent(s) /\ Waits(J) /\ Rejects(d, M)

(* The inductive invariant.                                                    *)
ClickInv ==
    /\ dev = [d \in Device |-> dev[d]] /\ jobs = [d \in Device |-> jobs[d]]
    /\ \A d \in Device : Shaped(dev[d])
    /\ \A d \in Device : Unclicked(dev[d]) => Asleep(d, dev[d], jobs[d], net)

-----------------------------------------------------------------------------
(* What the handlers leave of the clicks, and of contexts that ring.           *)

LEMMA Kept ==
    ASSUME NEW s, Shaped(s)
    PROVE  /\ \A c : Grows(s, Forget(s, c)) /\ Grows(s, TimerOff(s, c)) /\ Grows(s, Elsewhere(s, c))
           /\ Grows(s, s) /\ Grows(s, Cleared(s))
           /\ \A i : Grows(s, Teardown(s, i))
           /\ \A p, session : Grows(s, WithSession(s, p, session))
<1>1. \A c : Grows(s, Forget(s, c))
  BY DEF Grows, Shaped, Fields, Forget
<1>2. \A c : Grows(s, TimerOff(s, c))
  BY DEF Grows, Shaped, Fields, TimerOff
<1>3. \A c : Grows(s, Elsewhere(s, c))
  BY DEF Grows, Shaped, Fields, Elsewhere, Cleared
<1>4. Grows(s, s) /\ Grows(s, Cleared(s))
  BY DEF Grows, Shaped, Fields, Cleared
<1>5. \A i : Grows(s, Teardown(s, i))
  BY DEF Grows, Shaped, Fields, Teardown, Forget
<1>6. \A p, session : Grows(s, WithSession(s, p, session))
  BY DEF Grows, Shaped, Fields, WithSession
<1> QED
  BY <1>1, <1>2, <1>3, <1>4, <1>5, <1>6

LEMMA Replaced ==
    ASSUME NEW q, RingAlone(q), NEW i \in DOMAIN q, NEW x, RingsAlone(x)
    PROVE  RingAlone([q EXCEPT ![i] = x])
<1>1. PICK S : q \in Seq(S)
  BY DEF RingAlone
<1>2. q \in Seq(S \cup {x}) /\ x \in S \cup {x}
  BY <1>1
<1>3. [q EXCEPT ![i] = x] \in Seq(S \cup {x})
  BY <1>2
<1>4. \A k \in DOMAIN q : RingsAlone([q EXCEPT ![i] = x][k])
  BY DEF RingAlone
<1> QED
  BY <1>3, <1>4 DEF RingAlone

LEMMA Added ==
    ASSUME NEW q, RingAlone(q), NEW x, RingsAlone(x)
    PROVE  RingAlone(Append(q, x)) /\ Len(q) + 1 \in DOMAIN Append(q, x)
<1>1. PICK S : q \in Seq(S)
  BY DEF RingAlone
<1>2. q \in Seq(S \cup {x}) /\ x \in S \cup {x}
  BY <1>1
<1>3. Append(q, x) \in Seq(S \cup {x}) /\ Len(q) + 1 \in DOMAIN Append(q, x)
  BY <1>2
<1>4. \A k \in DOMAIN Append(q, x) :
        Append(q, x)[k] = x \/ (k \in DOMAIN q /\ Append(q, x)[k] = q[k])
  BY <1>2
<1> QED
  BY <1>3, <1>4 DEF RingAlone

(* One context is touched and stays as it was but for its timer.               *)
LEMMA SilentStill ==
    ASSUME NEW s, Shaped(s), Silent(s), NEW i \in DOMAIN s.ctxs, NEW x, RingsAlone(x),
           NEW t, t.ctxs = [s.ctxs EXCEPT ![i] = x], t.open \subseteq s.open, t.cur \in {0, s.cur}
    PROVE  Silent(t)
<1>1. RingAlone(t.ctxs) /\ DOMAIN t.ctxs = DOMAIN s.ctxs
  BY Replaced DEF Silent
<1> QED
  BY <1>1 DEF Silent

LEMMA SilentTeardown ==
    ASSUME NEW s, Shaped(s), Silent(s), NEW i \in DOMAIN s.ctxs
    PROVE  Silent(Teardown(s, i))
<1> DEFINE y == [s.ctxs[i] EXCEPT !.timer = "off", !.legs = <<>>, !.mic = 0]
<1>1. RingsAlone(s.ctxs[i])
  BY DEF Silent, RingAlone
<1>2. RingsAlone(y)
  BY <1>1 DEF RingsAlone
<1>3. PICK t : t = Teardown(s, i)
  OBVIOUS
<1>4. t.ctxs = [s.ctxs EXCEPT ![i] = y]
  BY <1>3 DEF Teardown, Forget, Shaped, Fields
<1>5. t.open \subseteq s.open /\ t.cur \in {0, s.cur}
  BY <1>3 DEF Teardown, Forget, Shaped, Fields
<1> HIDE DEF y
<1> QED
  BY <1>2, <1>3, <1>4, <1>5, SilentStill

LEMMA SilentTimerOff ==
    ASSUME NEW s, Shaped(s), Silent(s), NEW i \in DOMAIN s.ctxs
    PROVE  LET t == [s EXCEPT !.ctxs[i].timer = "off"] IN Silent(t) /\ Shaped(t) /\ Grows(s, t)
<1> DEFINE y == [s.ctxs[i] EXCEPT !.timer = "off"]
<1>1. RingsAlone(s.ctxs[i])
  BY DEF Silent, RingAlone
<1>2. RingsAlone(y)
  BY <1>1 DEF RingsAlone
<1>3. PICK t : t = [s EXCEPT !.ctxs[i].timer = "off"]
  OBVIOUS
<1>4. t.ctxs = [s.ctxs EXCEPT ![i] = y] /\ t.open \subseteq s.open /\ t.cur = s.cur
  BY <1>3 DEF Shaped, Fields
<1>5. Grows(s, t)
  BY <1>3 DEF Shaped, Fields, Grows
<1> HIDE DEF y
<1>6. Silent(t)
  BY <1>2, <1>4, SilentStill
<1> QED
  BY <1>3, <1>5, <1>6 DEF Grows

LEMMA SilentKept ==
    ASSUME NEW s, Shaped(s), Silent(s)
    PROVE  /\ \A c : Silent(TimerOff(s, c))
           /\ \A c : Silent(Cleared(Forget(s, c)))
           /\ \A c : s.cur # 0 => Silent(Elsewhere(s, c))
<1>1. \A c : Silent(TimerOff(s, c))
  BY SilentTimerOff DEF TimerOff, InCall, Silent
<1>2. \A c : Silent(Cleared(Forget(s, c)))
  BY DEF Silent, Cleared, Forget, Shaped, Fields
<1>3. ASSUME NEW c, s.cur # 0 PROVE Silent(Elsewhere(s, c))
  <2>1. PICK u : u = [s EXCEPT !.ctxs[s.cur].timer = "off"]
    OBVIOUS
  <2>2. Silent(u) /\ Shaped(u)
    BY <1>3, <2>1, SilentTimerOff DEF Silent
  <2>3. Elsewhere(s, c) = Cleared([u EXCEPT !.sdps = {x \in s.sdps : x.call # c}])
    BY <2>1 DEF Elsewhere
  <2> QED
    BY <2>2, <2>3 DEF Silent, Cleared, Shaped, Fields
<1> QED
  BY <1>1, <1>2, <1>3
LEMMA KeptLegs ==
    ASSUME NEW s, Shaped(s)
    PROVE  /\ \A i, p : Grows(s, WithoutSession(s, i, p))
           /\ \A i, p : Grows(s, OfferTo(s, i, p))
           /\ \A i, m : Grows(s, MeshAnswer(s, i, m))
<1>0. \A t, u : Grows(s, t) /\ Grows(t, u) => Grows(s, u)
  BY DEF Grows, Shaped
<1>1. ASSUME NEW i, NEW p PROVE Grows(s, WithoutSession(s, i, p))
  <2>1. PICK t : t = [s EXCEPT !.ctxs[i].legs =
                          [q \in DOMAIN s.ctxs[i].legs \ {p} |-> s.ctxs[i].legs[q]],
                               !.ctxs[i].peers = @ \ {p}]
    OBVIOUS
  <2>2. Grows(s, t)
    BY <2>1 DEF Grows, Shaped, Fields
  <2>3. Grows(t, Teardown(t, i))
    BY <2>2, Kept DEF Grows
  <2>4. WithoutSession(s, i, p) \in {t, Teardown(t, i)}
    BY <2>1 DEF WithoutSession
  <2> QED
    BY <1>0, <2>2, <2>3, <2>4
<1>2. ASSUME NEW i, NEW p PROVE Grows(s, OfferTo(s, i, p))
  BY Kept DEF OfferTo
<1>3. ASSUME NEW i, NEW m PROVE Grows(s, MeshAnswer(s, i, m))
  <2>1. PICK t : t = [s EXCEPT !.ctxs[i].peers = @ \cup {OwnerOf[m.from]}]
    OBVIOUS
  <2>2. Grows(s, t)
    BY <2>1 DEF Grows, Shaped, Fields
  <2>3. Grows(t, WithSession(t, OwnerOf[m.from], Answering(m.from)))
    BY <2>2, Kept DEF Grows
  <2>4. MeshAnswer(s, i, m) \in {s, WithSession(t, OwnerOf[m.from], Answering(m.from))}
    BY <2>1 DEF MeshAnswer
  <2> QED
    BY <1>0, <2>2, <2>3, <2>4, Kept
<1> QED
  BY <1>1, <1>2, <1>3

LEMMA SilentWithout ==
    ASSUME NEW s, Shaped(s), Silent(s), NEW i \in DOMAIN s.ctxs, NEW p
    PROVE  Silent(WithoutSession(s, i, p))
<1> DEFINE legs == [q \in DOMAIN s.ctxs[i].legs \ {p} |-> s.ctxs[i].legs[q]]
           y == [s.ctxs[i] EXCEPT !.legs = legs, !.peers = @ \ {p}]
<1>1. RingsAlone(s.ctxs[i])
  BY DEF Silent, RingAlone
<1>2. DOMAIN legs = {}
  BY <1>1 DEF RingsAlone
<1> HIDE DEF legs
<1>3. RingsAlone(y)
  BY <1>1, <1>2 DEF RingsAlone
<1>4. PICK t : t = [s EXCEPT !.ctxs[i].legs = legs, !.ctxs[i].peers = @ \ {p}]
  OBVIOUS
<1>5. t.ctxs = [s.ctxs EXCEPT ![i] = y] /\ t.open \subseteq s.open /\ t.cur = s.cur
  BY <1>4 DEF Shaped, Fields
<1> HIDE DEF y
<1>6. Silent(t)
  BY <1>3, <1>5, SilentStill
<1>7. Shaped(t)
  BY <1>4 DEF Shaped, Fields
<1>8. i \in DOMAIN t.ctxs
  BY <1>5
<1>9. WithoutSession(s, i, p) \in {t, Teardown(t, i)}
  BY <1>4 DEF WithoutSession, legs
<1> QED
  BY <1>6, <1>7, <1>8, <1>9, SilentTeardown

-----------------------------------------------------------------------------
(* What is sent is sent in one's own name.                                     *)

LEMMA EventsAre ==
    ASSUME NEW d, NEW kind, NEW c, NEW P, NEW sdp, NEW named
    PROVE  \A m \in Wrapped(kind, c, d, P, sdp, named) : m.from = d /\ m.kind = kind
BY DEF Wrapped, Event

LEMMA OffersAre ==
    ASSUME NEW d, NEW c, NEW P, NEW named
    PROVE  \A m \in Offers(c, d, P, named) : m.from = d
<1> SUFFICES ASSUME NEW p \in P, NEW m \in
                    Wrapped("offer", c, d, {p}, [from |-> d, to |-> p, gen |-> 0], named)
             PROVE  m.from = d
  BY DEF Offers
<1> QED
  BY EventsAre

LEMMA LegEventsAre ==
    ASSUME NEW d, NEW s, NEW i
    PROVE  /\ \A p : \A m \in OfferEvents(s, d, i, p) : m.from = d
           /\ \A x : \A m \in MeshAnswerEvents(s, d, i, x) : m.from = d
BY OffersAre, EventsAre DEF OfferEvents, MeshAnswerEvents

-----------------------------------------------------------------------------
(* One device's step: it keeps the invariant if the device has been clicked,   *)
(* or is still asleep.                                                         *)

LEMMA Step ==
    ASSUME ClickInv, NEW d \in Device, NEW t, NEW J,
           dev' = [dev EXCEPT ![d] = t], jobs' = [jobs EXCEPT ![d] = J],
           Grows(dev[d], t), \A m \in net' : m \in net \/ m.from = d,
           Unclicked(t) => Asleep(d, t, J, net')
    PROVE  ClickInv'
<1>1. /\ dev' = [e \in Device |-> dev'[e]] /\ jobs' = [e \in Device |-> jobs'[e]]
      /\ dev'[d] = t /\ jobs'[d] = J
  BY DEF ClickInv
<1>2. \A e \in Device : e # d => dev'[e] = dev[e] /\ jobs'[e] = jobs[e]
  BY DEF ClickInv
<1>3. \A e \in Device : Shaped(dev'[e])
  BY <1>1, <1>2 DEF ClickInv, Grows
<1>4. ASSUME NEW e \in Device, Unclicked(dev'[e]) PROVE Asleep(e, dev'[e], jobs'[e], net')
  <2>1. CASE e = d
    BY <1>1, <1>4, <2>1
  <2>2. CASE e # d
    <3>1. Asleep(e, dev[e], jobs[e], net)
      BY <1>2, <1>4, <2>2 DEF ClickInv
    <3> QED
      BY <1>2, <2>2, <3>1 DEF Asleep, Rejects
  <2> QED
    BY <2>1, <2>2
<1> QED
  BY <1>1, <1>3, <1>4 DEF ClickInv

LEMMA Before ==
    ASSUME ClickInv, NEW d \in Device, NEW t, Grows(dev[d], t), Unclicked(t)
    PROVE  Asleep(d, dev[d], jobs[d], net)
BY DEF ClickInv, Grows, Shaped, Unclicked

LEMMA Here ==
    ASSUME ClickInv, NEW d \in Device
    PROVE  /\ dev' = dev => dev' = [dev EXCEPT ![d] = dev[d]]
           /\ jobs' = jobs => jobs' = [jobs EXCEPT ![d] = jobs[d]]
           /\ d \in DOMAIN dev /\ d \in DOMAIN jobs /\ Shaped(dev[d]) /\ Grows(dev[d], dev[d])
BY Kept DEF ClickInv

(* A step that only a device that is awake can take.                           *)
LEMMA AwakeStep ==
    ASSUME ClickInv, NEW d \in Device, NEW t, NEW J,
           dev' = [dev EXCEPT ![d] = t], jobs' = [jobs EXCEPT ![d] = J],
           Grows(dev[d], t), \A m \in net' : m \in net \/ m.from = d,
           ~(Silent(dev[d]) /\ Waits(jobs[d]))
    PROVE  ClickInv'
BY Before, Step DEF Asleep
LEMMA DecliningIs ==
    ASSUME ClickInv, NEW d \in Device, NEW c, NEW J, Declining(d, c, J)
    PROVE  /\ \E K : /\ jobs' = [jobs EXCEPT ![d] = K]
                     /\ \A j \in K : j \in J \/ j.op = "decline"
           /\ \A m \in net' : m \in net \/ (m.from = d /\ m.kind = "reject")
<1> DEFINE K == J \cup {[op |-> "decline", call |-> c]}
<1>1. CASE jobs' = [jobs EXCEPT ![d] = J] /\ net' = net
  BY <1>1
<1>2. CASE /\ jobs' = [jobs EXCEPT ![d] = K]
           /\ net' = net \cup
                Wrapped("reject", c, d, dev[d].ctxs[dev[d].cur].peers \cup {OwnerOf[d]}, NoLeg, {})
  <2>1. \A j \in K : j \in J \/ j.op = "decline"
    OBVIOUS
  <2>2. \A m \in Wrapped("reject", c, d, dev[d].ctxs[dev[d].cur].peers \cup {OwnerOf[d]}, NoLeg, {}) :
            m.from = d /\ m.kind = "reject"
    BY EventsAre
  <2>3. \E L : jobs' = [jobs EXCEPT ![d] = L] /\ \A j \in L : j \in J \/ j.op = "decline"
    <3> HIDE DEF K
    <3> QED
      BY <1>2, <2>1
  <2> QED
    BY <1>2, <2>2, <2>3
<1> QED
  BY <1>1, <1>2 DEF Declining, Publish

LEMMA RingingAlone ==
    ASSUME NEW s, Silent(s)
    PROVE  /\ s.cur # 0 => s.cur \in DOMAIN s.ctxs /\ s.ctxs[s.cur].phase = "ringing"
           /\ \A i \in DOMAIN s.ctxs : DOMAIN s.ctxs[i].legs = {}
           /\ \A c : ~Active(s, c)
BY DEF Silent, RingAlone, RingsAlone, Active, InCall

LEMMA HangingUpIs ==
    ASSUME ClickInv, NEW d \in Device, HangingUp(d)
    PROVE  /\ \E K : jobs' = [jobs EXCEPT ![d] = K] /\ (Silent(dev[d]) => K = jobs[d])
           /\ \A m \in net' : m \in net \/ m.from = d
           /\ Silent(dev[d]) => net' = net
<1>1. CASE jobs' = jobs /\ net' = net
  BY <1>1, Here
<1>2. CASE ~(jobs' = jobs /\ net' = net)
  <2>1. ~Silent(dev[d])
    BY <1>2, RingingAlone DEF HangingUp
  <2>2. /\ jobs' = [jobs EXCEPT ![d] = jobs[d] \cup {[op |-> "hangup", ctx |-> dev[d].cur]}]
        /\ net' = net \cup Wrapped("hangup", dev[d].ctxs[dev[d].cur].call, d,
                                   dev[d].ctxs[dev[d].cur].peers, NoLeg, {})
    BY <1>2, Here DEF HangingUp, Publish
  <2>3. \E K : jobs' = [jobs EXCEPT ![d] = K]
    BY <2>2
  <2>4. \A m \in Wrapped("hangup", dev[d].ctxs[dev[d].cur].call, d,
                         dev[d].ctxs[dev[d].cur].peers, NoLeg, {}) : m.from = d
    BY EventsAre
  <2> QED
    BY <2>1, <2>2, <2>3, <2>4
<1> QED
  BY <1>1, <1>2

(* What a device does to itself while it only rings, with rejects at most.     *)
LEMMA AsleepStep ==
    ASSUME ClickInv, NEW d \in Device, NEW t, NEW J,
           dev' = [dev EXCEPT ![d] = t], jobs' = [jobs EXCEPT ![d] = J],
           Grows(dev[d], t),
           \A m \in net' : m \in net \/ (m.from = d /\ m.kind = "reject"),
           Silent(dev[d]) => Silent(t),
           \A j \in J : j \in jobs[d] \/ j.op \in {"decline", "roster"}
    PROVE  ClickInv'
<1>1. Unclicked(t) => Asleep(d, t, J, net')
  <2> SUFFICES ASSUME Unclicked(t) PROVE Asleep(d, t, J, net')
    OBVIOUS
  <2>1. Asleep(d, dev[d], jobs[d], net)
    BY Before
  <2> QED
    BY <2>1 DEF Asleep, Waits, Rejects
<1> QED
  BY <1>1, Step

LEMMA UserSteps ==
    ASSUME ClickInv, NEW d \in Device, User(d)
    PROVE  ClickInv'
<1> DEFINE s == dev[d]
<1>0. Shaped(s) /\ d \in DOMAIN dev /\ d \in DOMAIN jobs /\ Grows(s, s)
  BY Here
<1>1. CASE StartCall(d)
  <2>1. PICK t : t = [s EXCEPT !.starts = s.starts + 1]
    OBVIOUS
  <2>2. Grows(s, t) /\ ~Unclicked(t)
    BY <1>0, <2>1 DEF Grows, Shaped, Fields, Unclicked
  <2>3. dev' = [dev EXCEPT ![d] = t] /\ net' = net /\ \E J : jobs' = [jobs EXCEPT ![d] = J]
    BY <1>0, <1>1, <2>1 DEF StartCall
  <2> QED
    BY <2>2, <2>3, Step
<1>2. CASE AcceptCall(d)
  <2>1. PICK u : u = [s EXCEPT !.ctxs[s.cur].timer = "off"]
    OBVIOUS
  <2>2. PICK t : t = [u EXCEPT !.accepts = s.accepts + 1]
    OBVIOUS
  <2>3. Shaped(u) /\ u.starts = s.starts /\ u.accepts = s.accepts
    BY <1>0, <2>1 DEF Shaped, Fields
  <2>4. Grows(s, t) /\ ~Unclicked(t)
    BY <1>0, <2>2, <2>3 DEF Grows, Shaped, Fields, Unclicked
  <2>5. net' = net /\ \E J : jobs' = [jobs EXCEPT ![d] = J]
    BY <1>2 DEF AcceptCall
  <2>6. dev' = [dev EXCEPT ![d] = t]
    BY <1>0, <1>2, <2>1, <2>2 DEF AcceptCall, Shaped, Fields
  <2> QED
    BY <2>4, <2>5, <2>6, Step
<1>3. CASE DeclineCall(d)
  <2>1. PICK t : t = TimerOff(s, s.store.call)
    OBVIOUS
  <2>2. dev' = [dev EXCEPT ![d] = t] /\ Declining(d, s.store.call, jobs[d])
    BY <1>0, <1>3, <2>1 DEF DeclineCall
  <2>3. Grows(s, t) /\ (Silent(s) => Silent(t))
    BY <1>0, <2>1, Kept, SilentKept
  <2>4. PICK K : jobs' = [jobs EXCEPT ![d] = K] /\ \A j \in K : j \in jobs[d] \/ j.op = "decline"
    BY <2>2, DecliningIs
  <2>5. \A m \in net' : m \in net \/ (m.from = d /\ m.kind = "reject")
    BY <2>2, DecliningIs
  <2> QED
    BY <2>2, <2>3, <2>4, <2>5, AsleepStep
<1>4. CASE Hangup(d)
  <2>1. dev' = [dev EXCEPT ![d] = s] /\ HangingUp(d)
    BY <1>4, Here DEF Hangup
  <2>2. PICK K : jobs' = [jobs EXCEPT ![d] = K] /\ (Silent(s) => K = jobs[d])
    BY <2>1, HangingUpIs
  <2>3. (\A m \in net' : m \in net \/ m.from = d) /\ (Silent(s) => net' = net)
    BY <2>1, HangingUpIs
  <2>4. CASE Silent(s)
    BY <1>0, <2>1, <2>2, <2>3, <2>4, AsleepStep
  <2>5. CASE ~Silent(s)
    BY <1>0, <2>1, <2>2, <2>3, <2>5, AwakeStep
  <2> QED
    BY <2>4, <2>5
<1>5. CASE Destroy(d)
  <2>1. PICK u : u = [s EXCEPT !.destroyed = TRUE]
    OBVIOUS
  <2>2. PICK v : v = IF u.cur = 0 THEN u ELSE Teardown(u, u.cur)
    OBVIOUS
  <2>3. PICK t : t = [v EXCEPT !.sdps = {}, !.stash = {}]
    OBVIOUS
  <2>4. dev' = [dev EXCEPT ![d] = t] /\ jobs' = jobs /\ net' = net
    <3>1. s.cur = u.cur
      BY <1>0, <2>1 DEF Shaped, Fields
    <3> QED
      BY <1>0, <1>5, <2>1, <2>2, <2>3, <3>1 DEF Destroy
  <2>5. Grows(s, u) /\ (Silent(s) => Silent(u))
    BY <1>0, <2>1 DEF Grows, Shaped, Fields, Silent
  <2>6. Grows(u, v) /\ (Silent(u) => Silent(v))
    BY <2>2, <2>5, Kept, SilentTeardown DEF Grows, Silent
  <2>7. Grows(v, t) /\ (Silent(v) => Silent(t))
    BY <2>3, <2>6 DEF Grows, Shaped, Fields, Silent
  <2>8. Grows(s, t) /\ (Silent(s) => Silent(t))
    BY <1>0, <2>5, <2>6, <2>7 DEF Grows, Shaped
  <2> QED
    BY <2>4, <2>8, Here, AsleepStep
<1> QED
  BY <1>1, <1>2, <1>3, <1>4, <1>5 DEF User
LEMMA JobMoves ==
    ASSUME ClickInv, NEW d \in Device, NEW j,
           Finish(d, j) \/ \E k : Become(d, j, k)
    PROVE  \E J : jobs' = [jobs EXCEPT ![d] = J]
BY Here DEF Finish, Become

(* A suspended call goes on: a device with one has been clicked.               *)
LEMMA CallSteps ==
    ASSUME ClickInv, NEW d \in Device, NEW j \in jobs[d], ~(j.op \in {"decline", "roster"}),
           \/ MediaForStart(d, j) \/ OffersPublished(d, j) \/ MediaForAccept(d, j)
           \/ MediaTooLate(d, j) \/ AnswersPublished(d, j) \/ JoinMesh(d, j)
           \/ TakeStash(d, j) \/ AnswerStashed(d, j) \/ HungUp(d, j)
           \/ StartRefused(d, j) \/ OfferFails(d, j) \/ AcceptRefused(d, j) \/ AnswerFails(d, j)
    PROVE  ClickInv'
<1> DEFINE s == dev[d]
<1>0. Shaped(s) /\ d \in DOMAIN dev /\ d \in DOMAIN jobs /\ Grows(s, s) /\ ~Waits(jobs[d])
  BY Here DEF Waits
<1> SUFFICES /\ \E t : dev' = [dev EXCEPT ![d] = t] /\ Grows(s, t)
             /\ \E J : jobs' = [jobs EXCEPT ![d] = J]
             /\ \A m \in net' : m \in net \/ m.from = d
  BY <1>0, AwakeStep
<1>1. CASE MediaForStart(d, j)
  <2>1. (Finish(d, j) \/ \E k : Become(d, j, k))
        /\ net' = net \cup Offers(j.call, d, j.targets, j.targets)
    BY <1>1 DEF MediaForStart, Publish
  <2>2. PICK c, shown :
            dev' = [dev EXCEPT ![d] =
                [s EXCEPT !.ctxs = Append(@, c), !.cur = Len(s.ctxs) + 1,
                          !.open = @ \cup {NewMic(s)}, !.store = shown]]
    BY <1>1 DEF MediaForStart
  <2>3. Grows(s, [s EXCEPT !.ctxs = Append(@, c), !.cur = Len(s.ctxs) + 1,
                           !.open = @ \cup {NewMic(s)}, !.store = shown])
    BY <1>0 DEF Grows, Shaped, Fields
  <2>4. \A m \in net' : m \in net \/ m.from = d
    BY <2>1, OffersAre
  <2>5. \E t : dev' = [dev EXCEPT ![d] = t] /\ Grows(s, t)
    BY <2>2, <2>3
  <2> QED
    BY <2>1, <2>4, <2>5, JobMoves
<1>2. CASE OffersPublished(d, j) \/ AnswersPublished(d, j)
  BY <1>0, <1>2, Here, JobMoves DEF OffersPublished, AnswersPublished
<1>3. CASE MediaForAccept(d, j)
  <2>1. PICK x, k :
          /\ x \in s.sdps
          /\ dev' = [dev EXCEPT ![d] =
                WithSession([s EXCEPT !.ctxs[j.ctx].phase = "active", !.ctxs[j.ctx].mic = NewMic(s),
                                !.open = @ \cup {NewMic(s)},
                                !.sdps = {y \in @ : y.call # s.ctxs[j.ctx].call},
                                !.store = Shows("active", s.ctxs[j.ctx].call, Nobody)],
                            s.store.caller, Answering(x.sdp.from))]
          /\ net' \subseteq net \cup Wrapped("answer", s.ctxs[j.ctx].call, d,
                                    s.ctxs[j.ctx].peers \cup {OwnerOf[d]}, x.sdp, {})
          /\ Become(d, j, k)
    BY <1>3 DEF MediaForAccept, Publish
  <2>2. PICK u : u = [s EXCEPT !.ctxs[j.ctx].phase = "active", !.ctxs[j.ctx].mic = NewMic(s),
                                !.open = @ \cup {NewMic(s)},
                                !.sdps = {y \in @ : y.call # s.ctxs[j.ctx].call},
                                !.store = Shows("active", s.ctxs[j.ctx].call, Nobody)]
    OBVIOUS
  <2>3. Grows(s, u)
    BY <1>0, <2>2 DEF Grows, Shaped, Fields
  <2>4. PICK t : t = WithSession(u, s.store.caller, Answering(x.sdp.from))
    OBVIOUS
  <2>5. Grows(s, t)
    BY <1>0, <2>3, <2>4, Kept DEF Grows, Shaped
  <2>6. dev' = [dev EXCEPT ![d] = t]
    BY <2>1, <2>2, <2>4
  <2>7. \A m \in net' : m \in net \/ m.from = d
    BY <2>1, EventsAre
  <2>8. \E J : jobs' = [jobs EXCEPT ![d] = J]
    BY <2>1, JobMoves
  <2> QED
    BY <2>5, <2>6, <2>7, <2>8
<1>4. CASE MediaTooLate(d, j)
  <2>1. PICK u : u = [s EXCEPT !.ctxs[j.ctx].phase = "active", !.ctxs[j.ctx].mic = 0]
    OBVIOUS
  <2>2. PICK t : t = TimerOff(u, s.ctxs[j.ctx].call)
    OBVIOUS
  <2>3. Grows(s, u)
    BY <1>0, <2>1 DEF Grows, Shaped, Fields
  <2>4. Grows(s, t)
    BY <1>0, <2>2, <2>3, Kept DEF Grows, Shaped
  <2>5. dev' = [dev EXCEPT ![d] = t] /\ Declining(d, s.ctxs[j.ctx].call, jobs[d] \ {j})
    BY <1>4, <2>1, <2>2 DEF MediaTooLate
  <2>6. \E J : jobs' = [jobs EXCEPT ![d] = J]
    BY <2>5, DecliningIs
  <2>7. \A m \in net' : m \in net \/ m.from = d
    BY <2>5, DecliningIs
  <2> QED
    BY <2>4, <2>5, <2>6, <2>7
<1>5. CASE JoinMesh(d, j)
  <2>1. PICK p : \/ /\ dev' = [dev EXCEPT ![d] = OfferTo(s, j.ctx, p)]
                    /\ net' = net \cup OfferEvents(s, d, j.ctx, p)
                 \/ dev' = dev /\ net' = net
    BY <1>5 DEF JoinMesh, Publish
  <2>2. Finish(d, j) \/ \E k : Become(d, j, k)
    BY <1>5 DEF JoinMesh
  <2>3. \A m \in net' : m \in net \/ m.from = d
    BY <2>1, LegEventsAre
  <2>4. \E t : dev' = [dev EXCEPT ![d] = t] /\ Grows(s, t)
    BY <1>0, <2>1, KeptLegs, Here
  <2> QED
    BY <2>2, <2>3, <2>4, JobMoves
<1>6. CASE TakeStash(d, j)
  <2>1. PICK X : dev' = [dev EXCEPT ![d] = [s EXCEPT !.stash = X]]
    BY <1>0, <1>6 DEF TakeStash
  <2>2. Grows(s, [s EXCEPT !.stash = X])
    BY <1>0 DEF Grows, Shaped, Fields
  <2>3. (Finish(d, j) \/ \E k : Become(d, j, k)) /\ net' = net
    BY <1>6 DEF TakeStash
  <2>4. \E t : dev' = [dev EXCEPT ![d] = t] /\ Grows(s, t)
    BY <2>1, <2>2
  <2> QED
    BY <2>3, <2>4, JobMoves
<1>7. CASE AnswerStashed(d, j)
  <2>1. PICK x : /\ dev' = [dev EXCEPT ![d] = MeshAnswer(s, j.ctx, x)]
                 /\ net' = net \cup MeshAnswerEvents(s, d, j.ctx, x)
                 /\ Finish(d, j) \/ \E k : Become(d, j, k)
    BY <1>7 DEF AnswerStashed, Publish
  <2>2. \A m \in net' : m \in net \/ m.from = d
    BY <2>1, LegEventsAre
  <2>3. Grows(s, MeshAnswer(s, j.ctx, x))
    BY <1>0, KeptLegs
  <2>4. \E t : dev' = [dev EXCEPT ![d] = t] /\ Grows(s, t)
    BY <2>1, <2>3
  <2> QED
    BY <2>1, <2>2, <2>4, JobMoves
<1>8. CASE HungUp(d, j) \/ AnswerFails(d, j)
  <2>1. dev' = [dev EXCEPT ![d] = Teardown(s, j.ctx)] /\ Finish(d, j) /\ net' = net
    BY <1>0, <1>8 DEF HungUp, AnswerFails
  <2>2. Grows(s, Teardown(s, j.ctx))
    BY <1>0, Kept
  <2>3. \E t : dev' = [dev EXCEPT ![d] = t] /\ Grows(s, t)
    BY <2>1, <2>2
  <2> QED
    BY <2>1, <2>3, JobMoves
<1>9. CASE StartRefused(d, j)
  BY <1>0, <1>9, Here, JobMoves DEF StartRefused
<1>10. CASE OfferFails(d, j)
  <2>1. dev' = [dev EXCEPT ![d] = Teardown(s, s.cur)] \/ dev' = [dev EXCEPT ![d] = s]
    BY <1>0, <1>10 DEF OfferFails
  <2>2. Grows(s, Teardown(s, s.cur))
    BY <1>0, Kept
  <2>3. Finish(d, j) /\ net' = net
    BY <1>10 DEF OfferFails
  <2>4. \E t : dev' = [dev EXCEPT ![d] = t] /\ Grows(s, t)
    BY <1>0, <2>1, <2>2
  <2> QED
    BY <2>3, <2>4, JobMoves
<1>11. CASE AcceptRefused(d, j)
  <2>1. /\ dev' = [dev EXCEPT ![d] = TimerOff(s, s.ctxs[j.ctx].call)]
        /\ Declining(d, s.ctxs[j.ctx].call, jobs[d] \ {j})
    BY <1>0, <1>11 DEF AcceptRefused
  <2>2. Grows(s, TimerOff(s, s.ctxs[j.ctx].call))
    BY <1>0, Kept
  <2>3. \E J : jobs' = [jobs EXCEPT ![d] = J]
    BY <2>1, DecliningIs
  <2>4. \A m \in net' : m \in net \/ m.from = d
    BY <2>1, DecliningIs
  <2>5. \E t : dev' = [dev EXCEPT ![d] = t] /\ Grows(s, t)
    BY <2>1, <2>2
  <2> QED
    BY <2>3, <2>4, <2>5
<1> QED
  BY <1>1, <1>2, <1>3, <1>4, <1>5, <1>6, <1>7, <1>8, <1>9, <1>10, <1>11

LEMMA ResumeSteps ==
    ASSUME ClickInv, NEW d \in Device, Resume(d) \/ Break(d)
    PROVE  ClickInv'
<1> DEFINE s == dev[d]
<1>0. Shaped(s) /\ d \in DOMAIN dev /\ d \in DOMAIN jobs /\ Grows(s, s)
  BY Here
<1>1. PICK j \in jobs[d] :
        \/ MediaForStart(d, j) \/ OffersPublished(d, j) \/ MediaForAccept(d, j)
        \/ MediaTooLate(d, j) \/ AnswersPublished(d, j) \/ JoinMesh(d, j)
        \/ TakeStash(d, j) \/ AnswerStashed(d, j) \/ HungUp(d, j)
        \/ StartRefused(d, j) \/ OfferFails(d, j) \/ AcceptRefused(d, j) \/ AnswerFails(d, j)
        \/ Declined(d, j) \/ RosterResolved(d, j)
  BY DEF Resume, Break
<1>2. CASE Declined(d, j)
  <2>1. PICK t : t = Cleared(Forget(s, j.call))
    OBVIOUS
  <2>2. Grows(s, t)
    <3>1. PICK v : v = Forget(s, j.call)
      OBVIOUS
    <3>2. Grows(s, v)
      BY <1>0, <3>1, Kept
    <3>3. Grows(v, t)
      BY <2>1, <3>1, <3>2, Kept DEF Grows
    <3> QED
      BY <1>0, <3>2, <3>3 DEF Grows, Shaped
  <2>3. Silent(s) => Silent(t)
    BY <1>0, <2>1, SilentKept
  <2>4. dev' = [dev EXCEPT ![d] = t] /\ jobs' = [jobs EXCEPT ![d] = jobs[d] \ {j}] /\ net' = net
    BY <1>0, <1>2, <2>1 DEF Declined, Finish
  <2> QED
    BY <2>2, <2>3, <2>4, AsleepStep
<1>3. CASE RosterResolved(d, j)
  <2>1. PICK m, X, shown, roster, peers :
            dev' = [dev EXCEPT ![d] =
                [s EXCEPT !.sdps = X,
                          !.ctxs = Append(@, NewContext(m.call, "ringing", roster, peers, "ring", 0)),
                          !.cur = Len(s.ctxs) + 1, !.store = shown]]
    BY <1>3 DEF RosterResolved
  <2>2. PICK c : c = NewContext(m.call, "ringing", roster, peers, "ring", 0)
    OBVIOUS
  <2>3. RingsAlone(c)
    BY <2>2 DEF RingsAlone, NewContext
  <2>4. PICK t : t = [s EXCEPT !.sdps = X, !.ctxs = Append(@, c),
                               !.cur = Len(s.ctxs) + 1, !.store = shown]
    OBVIOUS
  <2>5. Grows(s, t) /\ t.ctxs = Append(s.ctxs, c) /\ t.open = s.open /\ t.cur = Len(s.ctxs) + 1
    BY <1>0, <2>4 DEF Grows, Shaped, Fields
  <2>6. Silent(s) => Silent(t)
    BY <2>3, <2>5, Added DEF Silent
  <2>7. dev' = [dev EXCEPT ![d] = t]
    BY <2>1, <2>2, <2>4
  <2>8. jobs' = [jobs EXCEPT ![d] = jobs[d] \ {j}] /\ net' = net
    BY <1>0, <1>3 DEF RosterResolved, Finish
  <2> QED
    BY <2>5, <2>6, <2>7, <2>8, AsleepStep
<1>4. CASE ~(Declined(d, j) \/ RosterResolved(d, j))
  <2>1. ~(j.op \in {"decline", "roster"})
    BY <1>1, <1>4 DEF Running, MediaForStart, OffersPublished, MediaForAccept, MediaTooLate,
          AnswersPublished, JoinMesh, TakeStash, AnswerStashed, HungUp, StartRefused, OfferFails,
          AcceptRefused, AnswerFails
  <2> QED
    BY <1>1, <1>4, <2>1, CallSteps
<1> QED
  BY <1>2, <1>3, <1>4
LEMMA TimerSteps ==
    ASSUME ClickInv, NEW d \in Device, NEW i \in DOMAIN dev[d].ctxs, Timer(d, i)
    PROVE  ClickInv'
<1> DEFINE s == dev[d]
<1>0. Shaped(s) /\ d \in DOMAIN dev /\ d \in DOMAIN jobs
  BY Here
<1>1. PICK u : u = [s EXCEPT !.ctxs[i].timer = "off"]
  OBVIOUS
<1>2. Grows(s, u)
  BY <1>0, <1>1 DEF Grows, Shaped, Fields
<1>3. Silent(s) => Silent(u)
  BY <1>0, <1>1, SilentTimerOff
<1>4. CASE dev' = [dev EXCEPT ![d] = TimerOff(u, u.ctxs[i].call)]
           /\ Declining(d, u.ctxs[i].call, jobs[d])
  <2>1. PICK t : t = TimerOff(u, u.ctxs[i].call)
    OBVIOUS
  <2>2. Grows(u, t) /\ (Silent(u) => Silent(t))
    BY <1>2, <2>1, Kept, SilentKept DEF Grows
  <2>3. Grows(s, t) /\ (Silent(s) => Silent(t))
    BY <1>0, <1>2, <1>3, <2>2 DEF Grows, Shaped
  <2>4. PICK K : jobs' = [jobs EXCEPT ![d] = K] /\ \A j \in K : j \in jobs[d] \/ j.op = "decline"
    BY <1>4, DecliningIs
  <2>5. \A m \in net' : m \in net \/ (m.from = d /\ m.kind = "reject")
    BY <1>4, DecliningIs
  <2> QED
    BY <1>4, <2>1, <2>3, <2>4, <2>5, AsleepStep
<1>5. CASE dev' = [dev EXCEPT ![d] = u] /\ HangingUp(d)
  <2>1. PICK K : jobs' = [jobs EXCEPT ![d] = K] /\ (Silent(s) => K = jobs[d])
    BY <1>5, HangingUpIs
  <2>2. (\A m \in net' : m \in net \/ m.from = d) /\ (Silent(s) => net' = net)
    BY <1>5, HangingUpIs
  <2>3. CASE Silent(s)
    BY <1>2, <1>3, <1>5, <2>1, <2>2, <2>3, AsleepStep
  <2>4. CASE ~Silent(s)
    BY <1>2, <1>5, <2>1, <2>2, <2>4, AwakeStep
  <2> QED
    BY <2>3, <2>4
<1>6. CASE dev' = [dev EXCEPT ![d] = u] /\ jobs' = jobs /\ net' = net
  BY <1>2, <1>3, <1>6, Here, AsleepStep
<1> QED
  BY <1>1, <1>4, <1>5, <1>6 DEF Timer

(* A connection needs a leg, which a device that only rings does not have.     *)
LEMMA ConnectsSteps ==
    ASSUME ClickInv, NEW d \in Device, NEW i \in DOMAIN dev[d].ctxs, Connects(d, i)
    PROVE  ClickInv'
<1>0. Shaped(dev[d]) /\ d \in DOMAIN dev
  BY Here
<1>1. PICK q \in DOMAIN dev[d].ctxs[i].legs :
        dev' = [dev EXCEPT ![d] =
            LET t == [@ EXCEPT !.ctxs[i].legs[q].conn = "connected"]
            IN  IF InCall(t, t.ctxs[i].call) THEN [t EXCEPT !.ctxs[t.cur].timer = "off"] ELSE t]
  BY DEF Connects
<1>2. ~Silent(dev[d])
  BY <1>1, RingingAlone
<1>3. PICK t : t = [dev[d] EXCEPT !.ctxs[i].legs[q].conn = "connected"]
  OBVIOUS
<1>4. Grows(dev[d], t)
  BY <1>0, <1>3 DEF Grows, Shaped, Fields
<1>5. PICK u : u = IF InCall(t, t.ctxs[i].call) THEN [t EXCEPT !.ctxs[t.cur].timer = "off"] ELSE t
  OBVIOUS
<1>6. Grows(dev[d], u)
  BY <1>0, <1>4, <1>5 DEF Grows, Shaped, Fields
<1>7. dev' = [dev EXCEPT ![d] = u]
  BY <1>0, <1>1, <1>3, <1>5
<1>8. jobs' = [jobs EXCEPT ![d] = jobs[d]] /\ net' = net
  BY Here DEF Connects
<1> QED
  BY <1>2, <1>6, <1>7, <1>8, AwakeStep

LEMMA FailureSteps ==
    ASSUME ClickInv, NEW d \in Device, NEW i \in DOMAIN dev[d].ctxs, ConnectionFails(d, i)
    PROVE  ClickInv'
<1>0. Shaped(dev[d]) /\ d \in DOMAIN dev
  BY Here
<1>1. PICK q \in DOMAIN dev[d].ctxs[i].legs :
        \/ /\ dev' = [dev EXCEPT ![d].ctxs[i] = Restarted(@, q)]
           /\ Publish(Wrapped("renegotiate", dev[d].ctxs[i].call, d, {q},
                              [from |-> d, to |-> q, gen |-> 1], {}))
        \/ /\ dev' = [dev EXCEPT ![d] =
                WithoutSession([dev[d] EXCEPT !.ctxs[i].retried = @ \ {q}], i, q)]
           /\ UNCHANGED net
  BY DEF ConnectionFails
<1>2. ~Silent(dev[d])
  BY <1>1, RingingAlone
<1>3. jobs' = [jobs EXCEPT ![d] = jobs[d]]
  BY Here DEF ConnectionFails
<1>4. \A m \in net' : m \in net \/ m.from = d
  <2>1. \A m \in Wrapped("renegotiate", dev[d].ctxs[i].call, d, {q},
                         [from |-> d, to |-> q, gen |-> 1], {}) : m.from = d
    BY EventsAre
  <2> QED
    BY <1>1, <2>1 DEF Publish
<1>5. PICK t : t = [dev[d] EXCEPT !.ctxs[i] = Restarted(@, q)]
  OBVIOUS
<1>6. Grows(dev[d], t)
  BY <1>0, <1>5 DEF Grows, Shaped, Fields
<1>7. PICK u : u = [dev[d] EXCEPT !.ctxs[i].retried = @ \ {q}]
  OBVIOUS
<1>8. Grows(dev[d], u)
  BY <1>0, <1>7 DEF Grows, Shaped, Fields
<1>9. Grows(u, WithoutSession(u, i, q))
  BY <1>8, KeptLegs DEF Grows
<1>10. Grows(dev[d], WithoutSession(u, i, q))
  BY <1>0, <1>8, <1>9 DEF Grows, Shaped
<1>11. dev' = [dev EXCEPT ![d] = t] \/ dev' = [dev EXCEPT ![d] = WithoutSession(u, i, q)]
  BY <1>0, <1>1, <1>5, <1>7
<1> QED
  BY <1>2, <1>3, <1>4, <1>6, <1>10, <1>11, AwakeStep

LEMMA OfferSteps ==
    ASSUME ClickInv, NEW d \in Device, NEW m \in net,
           HandleMeshOffer(d, m) \/ HandleOffer(d, m)
    PROVE  ClickInv'
<1> DEFINE s == dev[d]
<1>0. /\ Shaped(s) /\ Grows(s, s)
      /\ dev' = dev => dev' = [dev EXCEPT ![d] = s]
      /\ jobs' = jobs => jobs' = [jobs EXCEPT ![d] = jobs[d]]
      /\ d \in DOMAIN dev /\ d \in DOMAIN jobs
  BY Here
<1>1. CASE HandleMeshOffer(d, m)
  <2>0. jobs' = [jobs EXCEPT ![d] = jobs[d]]
    BY <1>0, <1>1 DEF HandleMeshOffer
  <2>1. CASE dev' = dev /\ Consume(m, {})
    BY <1>0, <2>0, <2>1, AsleepStep DEF Consume
  <2>2. CASE /\ Active(s, m.call) /\ dev' = [dev EXCEPT ![d] = MeshAnswer(s, s.cur, m)]
             /\ Consume(m, MeshAnswerEvents(s, d, s.cur, m))
    <3>1. ~Silent(s)
      BY <2>2, RingingAlone
    <3>2. Grows(s, MeshAnswer(s, s.cur, m))
      BY <1>0, KeptLegs
    <3>3. \A x \in net' : x \in net \/ x.from = d
      BY <2>2, LegEventsAre DEF Consume
    <3> QED
      BY <2>0, <2>2, <3>1, <3>2, <3>3, AwakeStep
  <2>3. CASE (\E X : dev' = [dev EXCEPT ![d] = [s EXCEPT !.stash = X]]) /\ Consume(m, {})
    <3>1. PICK X : dev' = [dev EXCEPT ![d] = [s EXCEPT !.stash = X]]
      BY <2>3
    <3>2. PICK t : t = [s EXCEPT !.stash = X]
      OBVIOUS
    <3>3. Grows(s, t) /\ (Silent(s) => Silent(t))
      BY <1>0, <3>2 DEF Grows, Shaped, Fields, Silent
    <3>4. \A x \in net' : x \in net
      BY <2>3 DEF Consume
    <3> QED
      BY <2>0, <3>1, <3>2, <3>3, <3>4, AsleepStep
  <2> QED
    BY <1>0, <1>1, <2>1, <2>2, <2>3 DEF HandleMeshOffer
<1>2. CASE HandleOffer(d, m)
  <2>1. CASE /\ jobs' = [jobs EXCEPT ![d] = jobs[d] \cup {[op |-> "roster", offer |-> m]}]
             /\ Consume(m, {})
    <3>1. dev' = [dev EXCEPT ![d] = s] /\ \A x \in net' : x \in net
      BY <1>0, <1>2, <2>1 DEF HandleOffer, Consume
    <3>2. PICK j : j = [op |-> "roster", offer |-> m]
      OBVIOUS
    <3>3. j.op \in {"decline", "roster"}
      BY <3>2
    <3>4. PICK J : J = jobs[d] \cup {j}
      OBVIOUS
    <3>5. jobs' = [jobs EXCEPT ![d] = J] /\ \A k \in J : k \in jobs[d] \/ k = j
      BY <2>1, <3>2, <3>4
    <3> QED
      BY <1>0, <3>1, <3>3, <3>5, AsleepStep
  <2>2. CASE jobs' = jobs /\ Consume(m, Wrapped("reject", m.call, d, {OwnerOf[m.from]}, NoLeg, {}))
    <3>1. dev' = [dev EXCEPT ![d] = s]
      BY <1>0, <1>2 DEF HandleOffer
    <3>2. \A x \in net' : x \in net \/ (x.from = d /\ x.kind = "reject")
      BY <2>2, EventsAre DEF Consume
    <3> QED
      BY <1>0, <2>2, <3>1, <3>2, AsleepStep
  <2> QED
    BY <1>0, <1>2, <2>1, <2>2 DEF HandleOffer
<1> QED
  BY <1>1, <1>2

LEMMA EchoSteps ==
    ASSUME ClickInv, NEW d \in Device, NEW m \in net, HandleEcho(d, m) \/ HandleHangup(d, m)
    PROVE  ClickInv'
<1> DEFINE s == dev[d]
<1>0. Shaped(s) /\ Grows(s, s) /\ d \in DOMAIN dev
  BY Here
<1>1. jobs' = [jobs EXCEPT ![d] = jobs[d]] /\ \A x \in net' : x \in net
  BY Here DEF HandleEcho, HandleHangup, Consume
<1>2. PICK t : /\ dev' = [dev EXCEPT ![d] = t]
               /\ \/ t = s
                  \/ s.cur # 0 /\ t = Elsewhere(s, m.call)
                  \/ s.cur # 0 /\ t = WithoutSession(s, s.cur, OwnerOf[m.from])
  BY <1>0 DEF HandleEcho, HandleHangup, Ringing, Active, InCall
<1>3. Grows(s, t)
  BY <1>0, <1>2, Kept, KeptLegs
<1>4. Silent(s) => Silent(t)
  BY <1>0, <1>2, SilentKept, SilentWithout DEF Silent
<1> QED
  BY <1>1, <1>2, <1>3, <1>4, AsleepStep

LEMMA AnswerSteps ==
    ASSUME ClickInv, NEW d \in Device, NEW m \in net, HandleAnswer(d, m) \/ HandleRenegotiate(d, m)
    PROVE  ClickInv'
<1> DEFINE s == dev[d]
           i == s.cur
           p == OwnerOf[m.from]
<1>0. /\ Shaped(s) /\ Grows(s, s) /\ d \in DOMAIN dev
      /\ dev' = dev => dev' = [dev EXCEPT ![d] = s]
  BY Here
<1>1. jobs' = [jobs EXCEPT ![d] = jobs[d]]
  BY Here DEF HandleAnswer, HandleRenegotiate
<1>2. CASE dev' = dev /\ Consume(m, {})
  BY <1>0, <1>1, <1>2, AsleepStep DEF Consume
<1>3. CASE Active(s, m.call) /\ HandleAnswer(d, m)
  <2>1. PICK joined : joined = [s EXCEPT !.ctxs[i].peers = @ \cup {p}]
    OBVIOUS
  <2>2. Grows(s, joined)
    BY <1>0, <2>1 DEF Grows, Shaped, Fields
  <2>3. Grows(s, OfferTo(joined, i, p))
    BY <1>0, <2>2, KeptLegs DEF Grows, Shaped
  <2>4. PICK answered :
            answered = [s EXCEPT !.ctxs[i].legs[p] = AfterAnswer(@, d, p, m),
                                 !.ctxs[i].renegotiating = @ \ {p}]
    OBVIOUS
  <2>5. Grows(s, answered)
    BY <1>0, <2>4 DEF Grows, Shaped, Fields
  <2>6. /\ \E t \in {s, joined, OfferTo(joined, i, p), answered} : dev' = [dev EXCEPT ![d] = t]
        /\ \E E \in {{}, OfferEvents(joined, d, i, p)} : Consume(m, E)
    BY <1>0, <1>3, <2>1, <2>4 DEF HandleAnswer
  <2>7. \A x \in net' : x \in net \/ x.from = d
    BY <2>6, LegEventsAre DEF Consume
  <2> QED
    BY <1>0, <1>1, <1>3, <2>2, <2>3, <2>5, <2>6, <2>7, RingingAlone, AwakeStep
<1>4. CASE Active(s, m.call) /\ HandleRenegotiate(d, m)
  <2>1. PICK t : t = [s EXCEPT !.ctxs[i] = Renegotiated(@, p, m)]
    OBVIOUS
  <2>2. Grows(s, t)
    BY <1>0, <2>1 DEF Grows, Shaped, Fields, Renegotiated
  <2>3. /\ \E u \in {s, t} : dev' = [dev EXCEPT ![d] = u]
        /\ \E E \in {{}, Wrapped("answer", m.call, d, {p}, m.sdp, {})} : Consume(m, E)
    BY <1>0, <1>4, <2>1 DEF HandleRenegotiate
  <2>4. \A x \in net' : x \in net \/ x.from = d
    BY <2>3, EventsAre DEF Consume
  <2> QED
    BY <1>0, <1>1, <1>4, <2>2, <2>3, <2>4, RingingAlone, AwakeStep
<1>5. ~Active(s, m.call) => dev' = dev /\ Consume(m, {})
  BY DEF HandleAnswer, HandleRenegotiate
<1> QED
  BY <1>2, <1>3, <1>4, <1>5

-----------------------------------------------------------------------------
(* A device whose user has clicked nothing has no open microphone and no leg,  *)
(* and sends nothing but rejects, for any devices, users, groups and bounds:   *)
(* NothingBeforeTheClick, from the handlers of callManager.ts.                 *)

THEOREM NothingStartsByItself == Spec => []NothingBeforeTheClick
<1>1. Init => ClickInv
  <2> SUFFICES ASSUME Init PROVE ClickInv
    OBVIOUS
  <2>1. ASSUME NEW d \in Device PROVE Shaped(dev[d]) /\ Asleep(d, dev[d], jobs[d], net)
    <3>1. dev[d] = Fresh /\ jobs[d] = {} /\ net = {}
      BY DEF Init
    <3>2. RingAlone(<<>>)
      <4>1. <<>> \in Seq({})
        OBVIOUS
      <4> QED
        BY <4>1 DEF RingAlone
    <3> QED
      BY <3>1, <3>2 DEF Fresh, Shaped, Fields, Asleep, Silent, Waits, Rejects
  <2> QED
    BY <2>1 DEF Init, ClickInv
<1>2. ClickInv /\ [Next]_vars => ClickInv'
  <2> SUFFICES ASSUME ClickInv, [Next]_vars PROVE ClickInv'
    OBVIOUS
  <2>1. CASE UNCHANGED vars
    BY <2>1 DEF vars, ClickInv, Shaped, Asleep, Unclicked, Silent, RingAlone, Waits, Rejects
  <2>2. ASSUME NEW d \in Device, User(d) \/ Resume(d) \/ Break(d) \/ Clock(d) \/ Network(d)
        PROVE  ClickInv'
    <3>1. CASE User(d)
      BY <3>1, UserSteps
    <3>2. CASE Resume(d) \/ Break(d)
      BY <3>2, ResumeSteps
    <3>3. CASE Clock(d)
      BY <3>3, TimerSteps DEF Clock
    <3>4. CASE Network(d)
      BY <3>4, ConnectsSteps, FailureSteps, OfferSteps, EchoSteps, AnswerSteps DEF Network
    <3> QED
      BY <2>2, <3>1, <3>2, <3>3, <3>4
  <2> QED
    BY <2>1, <2>2 DEF Next
<1>3. ClickInv => NothingBeforeTheClick
  <2> SUFFICES ASSUME ClickInv, NEW d \in Device, ~Clicked(d)
               PROVE  /\ dev[d].open = {}
                      /\ \A i \in DOMAIN dev[d].ctxs : DOMAIN dev[d].ctxs[i].legs = {}
                      /\ \A m \in net : m.from = d => m.kind = "reject"
    BY DEF NothingBeforeTheClick
  <2>1. Asleep(d, dev[d], jobs[d], net)
    BY DEF ClickInv, Clicked, Unclicked, Shaped
  <2> QED
    BY <2>1, RingingAlone DEF Asleep, Silent, Rejects
<1> QED
  BY <1>1, <1>2, <1>3, PTL DEF Spec
-----------------------------------------------------------------------------
(* Devices that take part in one call each. A state has one context at most,   *)
(* which the screen shows while it is current.                                 *)

Sequence(q) == \E S : q \in Seq(S)
HasShape(x) == {"call", "phase", "mic", "timer"} \subseteq DOMAIN x

OneContext(s) ==
    /\ DOMAIN s = Fields
    /\ Sequence(s.ctxs) /\ DOMAIN s.ctxs \subseteq {1} /\ s.cur \in {0} \cup DOMAIN s.ctxs
    /\ \A i \in DOMAIN s.ctxs : HasShape(s.ctxs[i])

(* The parts of StoreMatchesContext and of MicReleased that are about s.       *)
OnScreen(s) ==
    /\ s.store.shows = "incoming" => Ringing(s, s.store.call)
    /\ s.store.shows = "active" => Active(s, s.store.call)
    /\ s.store.shows = "idle" => s.cur = 0
    /\ s.store.shows \in {"incoming", "active", "idle"}
Listening(s) == \A n \in s.open : s.cur # 0 /\ s.ctxs[s.cur].mic = n

RingsOnly(s) == s.cur # 0 => s.ctxs[s.cur].phase = "ringing"
StillRings(s) ==
    s.cur # 0 =>
        /\ s.ctxs[s.cur].phase = "ringing" =>
              s.open = {} /\ \E x \in s.sdps : x.call = s.ctxs[s.cur].call
        /\ s.ctxs[s.cur].timer = "ring" => s.ctxs[s.cur].phase = "ringing"

StateOne(s) == OneContext(s) /\ OnScreen(s) /\ Listening(s) /\ StillRings(s)

(* One acceptCall at a time, which has stopped the ring timer; declineCall has *)
(* a context that rings, and no acceptCall beside it.                          *)
JobsOne(s, J) ==
    /\ \A j \in J : j.op \in {"dial", "hangup", "accept"} => j.ctx \in DOMAIN s.ctxs
    /\ \A j, k \in J : j.op = "accept" /\ k.op = "accept" => j = k
    /\ \A j \in J : j.op = "accept" =>
          /\ {"op", "at", "ctx", "todo"} \subseteq DOMAIN j
          /\ \A i \in DOMAIN s.ctxs : s.ctxs[i].timer # "ring"
          /\ j.at = "media" => RingsOnly(s)
    /\ \A j \in J : j.op = "decline" =>
          (\A k \in J : k.op # "accept") /\ DOMAIN s.ctxs # {} /\ RingsOnly(s)

OneCallInv ==
    /\ dev = [d \in Device |-> dev[d]] /\ jobs = [d \in Device |-> jobs[d]]
    /\ \A d \in Device : StateOne(dev[d]) /\ JobsOne(dev[d], jobs[d])

-----------------------------------------------------------------------------
(* What the handlers leave as it was.                                          *)

Alike(x, y) ==
    /\ HasShape(y) /\ y.call = x.call /\ y.phase = x.phase /\ y.mic = x.mic
    /\ y.timer \in {x.timer, "off"}
Untouched(s, t) ==
    /\ DOMAIN t = Fields /\ t.cur = s.cur /\ t.store = s.store /\ t.open = s.open
    /\ t.sdps = s.sdps
    /\ Sequence(t.ctxs) /\ DOMAIN t.ctxs = DOMAIN s.ctxs
    /\ \A i \in DOMAIN s.ctxs : Alike(s.ctxs[i], t.ctxs[i])

LEMMA UntouchedOne ==
    ASSUME NEW s, StateOne(s), NEW t, Untouched(s, t)
    PROVE  StateOne(t) /\ \A J : JobsOne(s, J) => JobsOne(t, J)
<1>1. OneContext(t)
  BY DEF StateOne, OneContext, Untouched, Alike
<1>2. s.cur # 0 => s.cur \in DOMAIN s.ctxs /\ Alike(s.ctxs[s.cur], t.ctxs[s.cur]) /\ t.cur = s.cur
  BY DEF StateOne, OneContext, Untouched
<1>3. OnScreen(t)
  BY <1>2 DEF StateOne, Untouched, Alike, OnScreen, Ringing, Active, InCall
<1>4. Listening(t)
  BY <1>2 DEF StateOne, Untouched, Alike, Listening
<1>5. StillRings(t)
  BY <1>2 DEF StateOne, Untouched, Alike, StillRings
<1>6. ASSUME NEW J, JobsOne(s, J) PROVE JobsOne(t, J)
  <2>1. RingsOnly(s) => RingsOnly(t)
    BY <1>2 DEF RingsOnly, Untouched, Alike
  <2>2. \A i \in DOMAIN t.ctxs : s.ctxs[i].timer # "ring" => t.ctxs[i].timer # "ring"
    BY DEF Untouched, Alike
  <2>3. DOMAIN t.ctxs = DOMAIN s.ctxs
    BY DEF Untouched
  <2> QED
    BY <1>6, <2>1, <2>2, <2>3 DEF JobsOne
<1> QED
  BY <1>1, <1>3, <1>4, <1>5, <1>6 DEF StateOne

LEMMA SequenceReplaced ==
    ASSUME NEW q, Sequence(q), NEW i \in DOMAIN q, NEW x
    PROVE  Sequence([q EXCEPT ![i] = x])
<1>1. PICK S : q \in Seq(S)
  BY DEF Sequence
<1>2. q \in Seq(S \cup {x}) /\ x \in S \cup {x}
  BY <1>1
<1>3. [q EXCEPT ![i] = x] \in Seq(S \cup {x})
  BY <1>2
<1> QED
  BY <1>3 DEF Sequence

LEMMA UntouchedBy ==
    ASSUME NEW s, OneContext(s), NEW i \in DOMAIN s.ctxs, NEW y, Alike(s.ctxs[i], y),
           NEW t, t = [s EXCEPT !.ctxs = [s.ctxs EXCEPT ![i] = y]]
    PROVE  Untouched(s, t)
<1>1. /\ DOMAIN t = Fields /\ t.cur = s.cur /\ t.store = s.store /\ t.open = s.open
      /\ t.sdps = s.sdps /\ t.ctxs = [s.ctxs EXCEPT ![i] = y]
  BY DEF OneContext, Fields
<1>2. Sequence(t.ctxs)
  BY <1>1, SequenceReplaced DEF OneContext
<1>3. \A k \in DOMAIN s.ctxs : Alike(s.ctxs[k], t.ctxs[k])
  BY <1>1 DEF OneContext, Alike
<1> QED
  BY <1>1, <1>2, <1>3 DEF Untouched

LEMMA UntouchedAgain ==
    ASSUME NEW s, NEW t, NEW u, Untouched(s, t), Untouched(t, u) PROVE Untouched(s, u)
BY DEF Untouched, Alike

LEMMA UntouchedSame == ASSUME NEW s, OneContext(s) PROVE Untouched(s, s)
BY DEF Untouched, OneContext, Alike

LEMMA UntouchedContext ==
    ASSUME NEW s, NEW t, OneContext(s), Untouched(s, t) PROVE OneContext(t)
BY DEF Untouched, OneContext, Alike

LEMMA LegsUntouched ==
    ASSUME NEW s, OneContext(s)
    PROVE  /\ \A c : Untouched(s, TimerOff(s, c))
           /\ \A p, session : s.cur # 0 => Untouched(s, WithSession(s, p, session))
           /\ \A i, p : NoOfferTo(s, i, p) \/ s.cur # 0 => Untouched(s, OfferTo(s, i, p))
           /\ \A i \in DOMAIN s.ctxs : \A m : NoOfferTo(s, i, OwnerOf[m.from]) \/ s.cur # 0 =>
                  Untouched(s, MeshAnswer(s, i, m))
<1>0. s.cur # 0 => s.cur \in DOMAIN s.ctxs
  BY DEF OneContext
<1>1. ASSUME NEW c PROVE Untouched(s, TimerOff(s, c))
  <2>1. CASE s.destroyed \/ ~InCall(s, c)
    BY <2>1, UntouchedSame DEF TimerOff
  <2>2. CASE ~(s.destroyed \/ ~InCall(s, c))
    <3>1. s.cur \in DOMAIN s.ctxs /\ HasShape(s.ctxs[s.cur])
      BY <2>2 DEF InCall, OneContext
    <3>2. PICK y : y = [s.ctxs[s.cur] EXCEPT !.timer = "off"]
      OBVIOUS
    <3>3. Alike(s.ctxs[s.cur], y)
      BY <3>1, <3>2 DEF Alike, HasShape
    <3>4. TimerOff(s, c) = [s EXCEPT !.ctxs = [s.ctxs EXCEPT ![s.cur] = y]]
      BY <2>2, <3>2 DEF TimerOff, OneContext
    <3> QED
      BY <3>1, <3>3, <3>4, UntouchedBy
  <2> QED
    BY <2>1, <2>2
<1>2. ASSUME NEW u, OneContext(u), u.cur # 0, NEW p, NEW session
      PROVE  Untouched(u, WithSession(u, p, session))
  <2>1. u.cur \in DOMAIN u.ctxs /\ HasShape(u.ctxs[u.cur])
    BY <1>2 DEF OneContext
  <2>2. PICK legs : legs = [q \in DOMAIN u.ctxs[u.cur].legs \cup {p} |->
                              IF q = p THEN session ELSE u.ctxs[u.cur].legs[q]]
    OBVIOUS
  <2>3. PICK y : y = [u.ctxs[u.cur] EXCEPT !.legs = legs]
    OBVIOUS
  <2>4. Alike(u.ctxs[u.cur], y)
    BY <2>1, <2>3 DEF Alike, HasShape
  <2>5. WithSession(u, p, session) = [u EXCEPT !.ctxs = [u.ctxs EXCEPT ![u.cur] = y]]
    BY <2>1, <2>2, <2>3 DEF WithSession, OneContext
  <2> QED
    BY <1>2, <2>1, <2>4, <2>5, UntouchedBy
<1>3. ASSUME NEW i, NEW p, NoOfferTo(s, i, p) \/ s.cur # 0 PROVE Untouched(s, OfferTo(s, i, p))
  BY <1>2, <1>3, UntouchedSame DEF OfferTo
<1>4. ASSUME NEW i \in DOMAIN s.ctxs, NEW m, NoOfferTo(s, i, OwnerOf[m.from]) \/ s.cur # 0
      PROVE  Untouched(s, MeshAnswer(s, i, m))
  <2>1. CASE NoOfferTo(s, i, OwnerOf[m.from])
    BY <2>1, UntouchedSame DEF MeshAnswer
  <2>2. CASE ~NoOfferTo(s, i, OwnerOf[m.from])
    <3>1. PICK y : y = [s.ctxs[i] EXCEPT !.peers = @ \cup {OwnerOf[m.from]}]
      OBVIOUS
    <3>2. Alike(s.ctxs[i], y)
      BY <3>1 DEF Alike, HasShape, OneContext
    <3>3. PICK t : t = [s EXCEPT !.ctxs = [s.ctxs EXCEPT ![i] = y]]
      OBVIOUS
    <3>4. Untouched(s, t)
      BY <3>2, <3>3, UntouchedBy
    <3>5. MeshAnswer(s, i, m) = WithSession(t, OwnerOf[m.from], Answering(m.from))
      BY <2>2, <3>1, <3>3 DEF MeshAnswer
    <3>6. OneContext(t) /\ t.cur # 0
      BY <1>4, <2>2, <3>4, UntouchedContext DEF Untouched
    <3> QED
      BY <1>2, <3>4, <3>5, <3>6, UntouchedAgain
  <2> QED
    BY <2>1, <2>2
<1> QED
  BY <1>1, <1>2, <1>3, <1>4

(* A context that is no longer the current one.                                *)
Ended(s, t) ==
    /\ OneContext(t) /\ DOMAIN t.ctxs = DOMAIN s.ctxs
    /\ t.cur = 0 /\ t.store.shows = "idle" /\ t.open = {}
    /\ \A i \in DOMAIN s.ctxs : t.ctxs[i].timer \in {s.ctxs[i].timer, "off"}

LEMMA EndedOne ==
    ASSUME NEW s, StateOne(s), NEW t, Ended(s, t)
    PROVE  StateOne(t) /\ \A J : JobsOne(s, J) => JobsOne(t, J)
<1>1. StateOne(t)
  BY DEF StateOne, Ended, OnScreen, Listening, StillRings
<1>2. ASSUME NEW J, JobsOne(s, J) PROVE JobsOne(t, J)
  <2>1. RingsOnly(t)
    BY DEF RingsOnly, Ended
  <2>2. \A i \in DOMAIN t.ctxs : s.ctxs[i].timer # "ring" => t.ctxs[i].timer # "ring"
    BY DEF Ended
  <2>3. DOMAIN t.ctxs = DOMAIN s.ctxs
    BY DEF Ended
  <2> QED
    BY <1>2, <2>1, <2>2, <2>3 DEF JobsOne
<1> QED
  BY <1>1, <1>2

LEMMA OpenIsCurrent ==
    ASSUME NEW s, StateOne(s)
    PROVE  /\ \A i \in DOMAIN s.ctxs : s.open \ {s.ctxs[i].mic} = {}
           /\ RingsOnly(s) => s.open = {}
           /\ s.cur = 0 => s.open = {}
BY DEF StateOne, OneContext, Listening, RingsOnly, StillRings

LEMMA TornDown ==
    ASSUME NEW s, StateOne(s), NEW i \in DOMAIN s.ctxs
    PROVE  Ended(s, Teardown(s, i))
<1>1. HasShape(s.ctxs[i]) /\ (s.cur # 0 => s.cur = i)
  BY DEF StateOne, OneContext
<1>2. PICK y : y = [s.ctxs[i] EXCEPT !.timer = "off", !.legs = <<>>, !.mic = 0]
  OBVIOUS
<1>3. HasShape(y) /\ y.timer = "off"
  BY <1>1, <1>2 DEF HasShape
<1>4. PICK t : t = Teardown(s, i)
  OBVIOUS
<1>5. t.ctxs = [s.ctxs EXCEPT ![i] = y]
  BY <1>2, <1>4 DEF Teardown, Forget, StateOne, OneContext, Fields
<1>6. DOMAIN t = Fields /\ t.store = Idle /\ t.open = s.open \ {s.ctxs[i].mic} /\ t.cur = 0
  BY <1>1, <1>4 DEF Teardown, Forget, StateOne, OneContext, Fields, InCall
<1>7. Sequence(t.ctxs) /\ DOMAIN t.ctxs = DOMAIN s.ctxs
  BY <1>5, SequenceReplaced DEF StateOne, OneContext
<1>8. \A k \in DOMAIN s.ctxs : HasShape(t.ctxs[k]) /\ t.ctxs[k].timer \in {s.ctxs[k].timer, "off"}
  BY <1>3, <1>5 DEF StateOne, OneContext
<1>9. t.open = {} /\ t.store.shows = "idle"
  BY <1>6, OpenIsCurrent DEF Idle
<1> QED
  BY <1>4, <1>6, <1>7, <1>8, <1>9 DEF Ended, OneContext, StateOne

LEMMA EndedAgain ==
    ASSUME NEW s, NEW t, NEW u, OneContext(s), Untouched(s, t), Ended(t, u)
    PROVE  Ended(s, u)
BY DEF Ended, Untouched, Alike

LEMMA Withdrawn ==
    ASSUME NEW s, StateOne(s), NEW i \in DOMAIN s.ctxs, NEW p
    PROVE  LET t == WithoutSession(s, i, p) IN Untouched(s, t) \/ Ended(s, t)
<1>1. PICK legs : legs = [q \in DOMAIN s.ctxs[i].legs \ {p} |-> s.ctxs[i].legs[q]]
  OBVIOUS
<1>2. PICK y : y = [s.ctxs[i] EXCEPT !.legs = legs, !.peers = @ \ {p}]
  OBVIOUS
<1>3. Alike(s.ctxs[i], y)
  BY <1>2 DEF Alike, HasShape, StateOne, OneContext
<1>4. PICK t : t = [s EXCEPT !.ctxs = [s.ctxs EXCEPT ![i] = y]]
  OBVIOUS
<1>5. Untouched(s, t)
  BY <1>3, <1>4, UntouchedBy DEF StateOne
<1>6. t = [s EXCEPT !.ctxs[i].legs = legs, !.ctxs[i].peers = @ \ {p}]
  BY <1>2, <1>4 DEF StateOne, OneContext, Fields
<1>7. WithoutSession(s, i, p) \in {t, Teardown(t, i)}
  BY <1>1, <1>6 DEF WithoutSession
<1>8. Ended(t, Teardown(t, i))
  BY <1>5, UntouchedOne, TornDown DEF Untouched
<1> QED
  BY <1>5, <1>7, <1>8, EndedAgain DEF StateOne

LEMMA DroppedOne ==
    ASSUME NEW s, StateOne(s), RingsOnly(s)
    PROVE  /\ \A c : Ended(s, Cleared(Forget(s, c)))
           /\ \A c : s.cur # 0 => Ended(s, Elsewhere(s, c))
<1>1. s.open = {}
  BY OpenIsCurrent
<1>2. ASSUME NEW c PROVE Ended(s, Cleared(Forget(s, c)))
  BY <1>1 DEF Ended, Cleared, Forget, Idle, StateOne, OneContext, Fields
<1>3. ASSUME NEW c, s.cur # 0 PROVE Ended(s, Elsewhere(s, c))
  <2>1. PICK y : y = [s.ctxs[s.cur] EXCEPT !.timer = "off"]
    OBVIOUS
  <2>2. s.cur \in DOMAIN s.ctxs /\ Alike(s.ctxs[s.cur], y)
    BY <1>3, <2>1 DEF Alike, HasShape, StateOne, OneContext
  <2>3. PICK t : t = [s EXCEPT !.ctxs = [s.ctxs EXCEPT ![s.cur] = y]]
    OBVIOUS
  <2>4. Untouched(s, t)
    BY <2>2, <2>3, UntouchedBy DEF StateOne
  <2>5. Elsewhere(s, c) = Cleared([t EXCEPT !.sdps = {x \in @ : x.call # c}])
    BY <2>1, <2>3 DEF Elsewhere
  <2>6. OneContext(t) /\ t.open = {}
    BY <1>1, <2>4, UntouchedContext DEF StateOne, Untouched
  <2>7. Ended(t, Elsewhere(s, c))
    BY <2>5, <2>6 DEF Ended, Cleared, Idle, OneContext, Fields
  <2> QED
    BY <2>4, <2>7, EndedAgain DEF StateOne
<1> QED
  BY <1>2, <1>3

-----------------------------------------------------------------------------
(* What may happen to the suspended functions.                                 *)

LEMMA FewerJobs ==
    ASSUME NEW s, NEW J, JobsOne(s, J), NEW K, K \subseteq J
    PROVE  JobsOne(s, K)
BY DEF JobsOne

LEMMA OneMoreJob ==
    ASSUME NEW s, NEW J, JobsOne(s, J), NEW k,
           \/ k.op \in {"start", "roster"}
           \/ k.op \in {"dial", "hangup"} /\ k.ctx \in DOMAIN s.ctxs
    PROVE  JobsOne(s, J \cup {k})
BY DEF JobsOne

LEMMA AcceptMoves ==
    ASSUME NEW s, NEW J, JobsOne(s, J), NEW j \in J, j.op = "accept", NEW k, k.op = "accept",
           k.at # "media", k.ctx = j.ctx, {"op", "at", "ctx", "todo"} \subseteq DOMAIN k
    PROVE  JobsOne(s, (J \ {j}) \cup {k})
BY DEF JobsOne

LEMMA DeclineAdded ==
    ASSUME NEW s, NEW J, JobsOne(s, J), NEW k, k.op = "decline", \A j \in J : j.op # "accept",
           DOMAIN s.ctxs # {}, RingsOnly(s)
    PROVE  JobsOne(s, J \cup {k})
BY DEF JobsOne

LEMMA DecliningOne ==
    ASSUME OneCallInv, NEW d \in Device, NEW c, NEW J, Declining(d, c, J),
           NEW s, s = dev[d], NEW t, Untouched(s, t) \/ (Ended(s, t) /\ s.cur = 0), JobsOne(s, J),
           InCall(s, c) => RingsOnly(s) /\ \A j \in J : j.op # "accept"
    PROVE  \E K : jobs' = [jobs EXCEPT ![d] = K] /\ JobsOne(t, K)
<1>1. StateOne(s)
  BY DEF OneCallInv
<1>2. \A K : JobsOne(s, K) => JobsOne(t, K)
  BY <1>1, UntouchedOne, EndedOne
<1>3. CASE jobs' = [jobs EXCEPT ![d] = J]
  BY <1>2, <1>3
<1>4. CASE InCall(s, c) /\ jobs' = [jobs EXCEPT ![d] = J \cup {[op |-> "decline", call |-> c]}]
  <2>1. PICK k : k = [op |-> "decline", call |-> c]
    OBVIOUS
  <2>2. DOMAIN s.ctxs # {}
    BY <1>1, <1>4 DEF InCall, StateOne, OneContext
  <2>3. JobsOne(s, J \cup {k})
    BY <1>4, <2>1, <2>2, DeclineAdded
  <2> QED
    BY <1>2, <1>4, <2>1, <2>3
<1> QED
  BY <1>3, <1>4 DEF Declining

LEMMA HangingUpOne ==
    ASSUME OneCallInv, NEW d \in Device, HangingUp(d), NEW t, Untouched(dev[d], t)
    PROVE  \E K : jobs' = [jobs EXCEPT ![d] = K] /\ JobsOne(t, K)
<1>1. StateOne(dev[d]) /\ JobsOne(dev[d], jobs[d]) /\ (jobs' = jobs => jobs' = [jobs EXCEPT ![d] = jobs[d]])
      /\ d \in DOMAIN jobs
  BY DEF OneCallInv
<1>2. \A K : JobsOne(dev[d], K) => JobsOne(t, K)
  BY <1>1, UntouchedOne
<1>3. CASE jobs' = jobs
  BY <1>1, <1>2, <1>3
<1>4. CASE /\ dev[d].cur # 0
           /\ jobs' = [jobs EXCEPT ![d] = @ \cup {[op |-> "hangup", ctx |-> dev[d].cur]}]
  <2>1. PICK k : k = [op |-> "hangup", ctx |-> dev[d].cur]
    OBVIOUS
  <2>2. JobsOne(dev[d], jobs[d] \cup {k})
    BY <1>1, <1>4, <2>1, OneMoreJob DEF StateOne, OneContext
  <2> QED
    BY <1>1, <1>2, <1>4, <2>1, <2>2
<1> QED
  BY <1>3, <1>4 DEF HangingUp

LEMMA OneStep ==
    ASSUME OneCallInv, NEW d \in Device, NEW t, NEW J,
           dev' = [dev EXCEPT ![d] = t], jobs' = [jobs EXCEPT ![d] = J],
           StateOne(t), JobsOne(t, J)
    PROVE  OneCallInv'
<1>1. /\ dev' = [e \in Device |-> dev'[e]] /\ jobs' = [e \in Device |-> jobs'[e]]
      /\ dev'[d] = t /\ jobs'[d] = J
  BY DEF OneCallInv
<1>2. \A e \in Device : e # d => dev'[e] = dev[e] /\ jobs'[e] = jobs[e]
  BY DEF OneCallInv
<1> QED
  BY <1>1, <1>2 DEF OneCallInv

(* A step that leaves the call as it was, or ends it.                          *)
LEMMA QuietStep ==
    ASSUME OneCallInv, NEW d \in Device, NEW t, NEW J,
           dev' = [dev EXCEPT ![d] = t], jobs' = [jobs EXCEPT ![d] = J],
           Untouched(dev[d], t) \/ Ended(dev[d], t), JobsOne(dev[d], J)
    PROVE  OneCallInv'
<1>1. StateOne(dev[d])
  BY DEF OneCallInv
<1>2. StateOne(t) /\ JobsOne(t, J)
  BY <1>1, UntouchedOne, EndedOne
<1> QED
  BY <1>2, OneStep

LEMMA HereOne ==
    ASSUME OneCallInv, NEW d \in Device
    PROVE  /\ dev' = dev => dev' = [dev EXCEPT ![d] = dev[d]]
           /\ jobs' = jobs => jobs' = [jobs EXCEPT ![d] = jobs[d]]
           /\ d \in DOMAIN dev /\ d \in DOMAIN jobs
           /\ StateOne(dev[d]) /\ JobsOne(dev[d], jobs[d]) /\ OneContext(dev[d])
           /\ Untouched(dev[d], dev[d])
BY UntouchedSame DEF OneCallInv, StateOne

LEMMA TimerUntouched ==
    ASSUME NEW s, OneContext(s), NEW i \in DOMAIN s.ctxs, NEW t, t = [s EXCEPT !.ctxs[i].timer = "off"]
    PROVE  Untouched(s, t)
<1>1. PICK y : y = [s.ctxs[i] EXCEPT !.timer = "off"]
  OBVIOUS
<1>2. Alike(s.ctxs[i], y)
  BY <1>1 DEF Alike, HasShape, OneContext
<1>3. t = [s EXCEPT !.ctxs = [s.ctxs EXCEPT ![i] = y]]
  BY <1>1
<1> QED
  BY <1>2, <1>3, UntouchedBy

LEMMA FieldsUntouched ==
    ASSUME NEW s, OneContext(s), NEW n
    PROVE  /\ Untouched(s, [s EXCEPT !.starts = n]) /\ Untouched(s, [s EXCEPT !.accepts = n])
           /\ Untouched(s, [s EXCEPT !.stash = n]) /\ Untouched(s, [s EXCEPT !.destroyed = n])
BY DEF Untouched, OneContext, Alike, Fields

LEMMA OneUser ==
    ASSUME OneCallInv, ~SecondClicks, NEW d \in Device, User(d)
    PROVE  OneCallInv'
<1>0. PICK s : s = dev[d]
  OBVIOUS
<1>h. /\ StateOne(s) /\ OneContext(s) /\ JobsOne(s, jobs[d]) /\ Untouched(s, s)
      /\ d \in DOMAIN dev /\ d \in DOMAIN jobs
  BY <1>0, HereOne
<1>1. CASE StartCall(d)
  <2>1. PICK targets \in Targets :
          /\ dev' = [dev EXCEPT ![d] = [s EXCEPT !.starts = s.starts + 1]]
          /\ jobs' = [jobs EXCEPT ![d] = jobs[d] \cup
                {[op |-> "start", call |-> [by |-> d, n |-> s.starts + 1], targets |-> targets]}]
    BY <1>0, <1>h, <1>1 DEF StartCall
  <2>2. PICK k : k = [op |-> "start", call |-> [by |-> d, n |-> s.starts + 1], targets |-> targets]
    OBVIOUS
  <2>3. JobsOne(s, jobs[d] \cup {k})
    BY <1>h, <2>2, OneMoreJob
  <2>4. Untouched(s, [s EXCEPT !.starts = s.starts + 1])
    BY <1>h, FieldsUntouched
  <2> QED
    BY <1>0, <2>1, <2>2, <2>3, <2>4, QuietStep
<1>2. CASE AcceptCall(d)
  <2>1. Ringing(s, s.store.call) /\ \A j \in jobs[d] : j.op \notin {"start", "accept", "decline"}
    BY <1>0, <1>2 DEF AcceptCall, Handling
  <2>2. s.cur \in DOMAIN s.ctxs /\ s.ctxs[s.cur].phase = "ringing" /\ DOMAIN s.ctxs = {s.cur}
    BY <1>h, <2>1 DEF Ringing, InCall, OneContext
  <2>3. PICK u : u = [s EXCEPT !.ctxs[s.cur].timer = "off"]
    OBVIOUS
  <2>4. Untouched(s, u) /\ OneContext(u)
    BY <1>h, <2>2, <2>3, TimerUntouched, UntouchedContext
  <2>5. PICK t : t = [u EXCEPT !.accepts = @ + 1]
    OBVIOUS
  <2>6. Untouched(s, t)
    <3>1. Untouched(u, t)
      BY <2>4, <2>5, FieldsUntouched
    <3> QED
      BY <2>4, <3>1, UntouchedAgain
  <2>7. PICK k : k = [op |-> "accept", at |-> "media", ctx |-> s.cur, click |-> s.accepts,
                      todo |-> {}]
    OBVIOUS
  <2>8. /\ dev' = [dev EXCEPT ![d] = t] /\ jobs' = [jobs EXCEPT ![d] = jobs[d] \cup {k}]
    BY <1>0, <1>h, <1>2, <2>3, <2>5, <2>7 DEF AcceptCall
  <2>9. t.cur = s.cur /\ t.ctxs[s.cur].timer = "off" /\ t.ctxs[s.cur].phase = "ringing"
        /\ DOMAIN t.ctxs = {s.cur}
    BY <1>h, <2>2, <2>3, <2>4, <2>5 DEF OneContext, Untouched, Alike, HasShape, Fields
  <2>10. StateOne(t) /\ JobsOne(t, jobs[d])
    BY <1>h, <2>6, UntouchedOne
  <2>11. JobsOne(t, jobs[d] \cup {k})
    <3>1. /\ k.op = "accept" /\ k.ctx = s.cur /\ {"op", "at", "ctx", "todo"} \subseteq DOMAIN k
      BY <2>7
    <3>2. RingsOnly(t) /\ \A i \in DOMAIN t.ctxs : t.ctxs[i].timer # "ring"
      BY <2>9 DEF RingsOnly
    <3> QED
      BY <2>1, <2>9, <2>10, <3>1, <3>2 DEF JobsOne
  <2> QED
    BY <2>8, <2>10, <2>11, OneStep
<1>3. CASE DeclineCall(d)
  <2>1. PICK t : t = TimerOff(s, s.store.call)
    OBVIOUS
  <2>2. dev' = [dev EXCEPT ![d] = t] /\ Declining(d, s.store.call, jobs[d])
    BY <1>0, <1>h, <1>3, <2>1 DEF DeclineCall
  <2>3. s.store.shows = "incoming" /\ \A j \in jobs[d] : j.op # "accept"
    BY <1>0, <1>3 DEF DeclineCall, Handling
  <2>4. RingsOnly(s)
    BY <1>h, <2>3 DEF StateOne, OnScreen, Ringing, RingsOnly
  <2>5. Untouched(s, t)
    BY <1>h, <2>1, LegsUntouched
  <2>6. PICK K : jobs' = [jobs EXCEPT ![d] = K] /\ JobsOne(t, K)
    BY <1>0, <1>h, <2>2, <2>3, <2>4, <2>5, DecliningOne
  <2> QED
    BY <1>h, <2>2, <2>5, <2>6, UntouchedOne, OneStep
<1>4. CASE Hangup(d)
  <2>1. HangingUp(d) /\ dev' = [dev EXCEPT ![d] = s]
    BY <1>0, <1>4, HereOne DEF Hangup
  <2> QED
    BY <1>0, <1>h, <2>1, HangingUpOne, OneStep
<1>5. CASE Destroy(d)
  <2>1. PICK u : u = [s EXCEPT !.destroyed = TRUE]
    OBVIOUS
  <2>2. Untouched(s, u) /\ StateOne(u) /\ JobsOne(u, jobs[d])
    BY <1>h, <2>1, FieldsUntouched, UntouchedOne
  <2>3. PICK v : v = IF u.cur = 0 THEN u ELSE Teardown(u, u.cur)
    OBVIOUS
  <2>4. StateOne(v) /\ JobsOne(v, jobs[d]) /\ v.cur = 0
    <3>1. CASE u.cur = 0
      BY <2>2, <2>3, <3>1
    <3>2. CASE u.cur # 0
      <4>1. Ended(u, v)
        BY <2>2, <2>3, <3>2, TornDown DEF StateOne, OneContext
      <4> QED
        BY <2>2, <4>1, EndedOne DEF Ended
    <3> QED
      BY <3>1, <3>2
  <2>5. PICK t : t = [v EXCEPT !.sdps = {}, !.stash = {}]
    OBVIOUS
  <2>6. /\ DOMAIN t = Fields /\ t.ctxs = v.ctxs /\ t.cur = v.cur /\ t.open = v.open
        /\ t.store = v.store
    BY <2>4, <2>5 DEF StateOne, OneContext, Fields
  <2>7. StateOne(t)
    BY <2>4, <2>6 DEF StateOne, OneContext, OnScreen, Ringing, Active, InCall, Listening, StillRings
  <2>8. JobsOne(t, jobs[d])
    BY <2>4, <2>6 DEF JobsOne, RingsOnly
  <2>9. dev' = [dev EXCEPT ![d] = t] /\ jobs' = jobs
    <3>1. u.cur = s.cur
      BY <2>2 DEF Untouched
    <3> QED
      BY <1>0, <1>h, <1>5, <2>1, <2>3, <2>5, <3>1 DEF Destroy
  <2> QED
    BY <2>7, <2>8, <2>9, HereOne, OneStep
<1> QED
  BY <1>1, <1>2, <1>3, <1>4, <1>5 DEF User

LEMMA NoContextYet ==
    ASSUME NEW s, StateOne(s), MaxContexts <= 1, Len(s.ctxs) < MaxContexts, NEW c, HasShape(c)
    PROVE  /\ Sequence(Append(s.ctxs, c)) /\ DOMAIN Append(s.ctxs, c) = {1}
           /\ Append(s.ctxs, c)[1] = c /\ Len(s.ctxs) = 0
           /\ DOMAIN s.ctxs = {} /\ s.cur = 0 /\ s.open = {}
<1>1. PICK S : s.ctxs \in Seq(S)
  BY DEF StateOne, OneContext, Sequence
<1>2. Len(s.ctxs) = 0
  <2>1. Len(s.ctxs) \in Nat /\ MaxContexts \in Nat
    BY <1>1, DevicesAssumption
  <2> QED
    BY <2>1
<1>3. s.ctxs \in Seq(S \cup {c}) /\ c \in S \cup {c}
  BY <1>1
<1>4. Append(s.ctxs, c) \in Seq(S \cup {c}) /\ DOMAIN Append(s.ctxs, c) = 1..1
      /\ Append(s.ctxs, c)[1] = c
  BY <1>2, <1>3
<1>5. DOMAIN s.ctxs = {}
  BY <1>1, <1>2
<1> QED
  BY <1>2, <1>4, <1>5, OpenIsCurrent DEF Sequence, StateOne, OneContext

LEMMA NoJobsYet ==
    ASSUME NEW s, NEW J, JobsOne(s, J), DOMAIN s.ctxs = {}, NEW t
    PROVE  JobsOne(t, J)
BY DEF JobsOne

LEMMA OneStart ==
    ASSUME OneCallInv, MaxContexts <= 1, NEW d \in Device, NEW j \in jobs[d], MediaForStart(d, j)
    PROVE  OneCallInv'
<1>0. PICK s : s = dev[d]
  OBVIOUS
<1>h. /\ StateOne(s) /\ OneContext(s) /\ JobsOne(s, jobs[d])
      /\ d \in DOMAIN dev /\ d \in DOMAIN jobs
  BY <1>0, HereOne
<1>1. PICK mic : mic = NewMic(s)
  OBVIOUS
<1>2. PICK x : x = NewContext(j.call, "active", j.targets \cup {OwnerOf[d]}, j.targets, "dial", mic)
  OBVIOUS
<1>3. PICK c : c = [x EXCEPT !.legs = [p \in j.targets |-> Offering]]
  OBVIOUS
<1>4. PICK t : t = [s EXCEPT !.ctxs = Append(@, c), !.cur = Len(s.ctxs) + 1,
                    !.open = @ \cup {mic}, !.store = Shows("active", j.call, Nobody)]
  OBVIOUS
<1>5. dev' = [dev EXCEPT ![d] = t] /\ Len(s.ctxs) < MaxContexts
  BY <1>0, <1>1, <1>2, <1>3, <1>4 DEF MediaForStart
<1>6. HasShape(c) /\ c.call = j.call /\ c.phase = "active" /\ c.mic = mic /\ c.timer = "dial"
  BY <1>2, <1>3 DEF NewContext, HasShape
<1>7. /\ DOMAIN t = Fields /\ t.ctxs = Append(s.ctxs, c) /\ t.cur = Len(s.ctxs) + 1
      /\ t.open = s.open \cup {mic} /\ t.store = Shows("active", j.call, Nobody)
  BY <1>4, <1>h DEF OneContext, Fields
<1>8. /\ Sequence(t.ctxs) /\ DOMAIN t.ctxs = {1} /\ t.ctxs[1] = c /\ t.cur = 1
      /\ t.open = {mic} /\ DOMAIN s.ctxs = {}
  BY <1>h, <1>5, <1>6, <1>7, NoContextYet
<1>9. StateOne(t)
  BY <1>6, <1>7, <1>8 DEF StateOne, OneContext, OnScreen, Active, InCall, Shows, Listening, StillRings
<1>10. PICK k : k = [op |-> "dial", ctx |-> 1]
  OBVIOUS
<1>11. JobsOne(t, jobs[d] \ {j}) /\ JobsOne(t, (jobs[d] \ {j}) \cup {k})
  <2>1. JobsOne(t, jobs[d] \ {j})
    BY <1>h, <1>8, NoJobsYet, FewerJobs
  <2> QED
    BY <1>8, <1>10, <2>1, OneMoreJob
<1>12. jobs' = [jobs EXCEPT ![d] = jobs[d] \ {j}] \/ jobs' = [jobs EXCEPT ![d] = (jobs[d] \ {j}) \cup {k}]
  <2>1. Len(s.ctxs) + 1 = 1
    BY <1>7, <1>8
  <2> QED
    BY <1>0, <1>h, <1>10, <2>1 DEF MediaForStart, Become, Finish
<1> QED
  BY <1>5, <1>9, <1>11, <1>12, OneStep

LEMMA OneRoster ==
    ASSUME OneCallInv, MaxContexts <= 1, NEW d \in Device, NEW j \in jobs[d], RosterResolved(d, j)
    PROVE  OneCallInv'
<1>0. PICK s, m : s = dev[d] /\ m = j.offer
  OBVIOUS
<1>h. /\ StateOne(s) /\ OneContext(s) /\ JobsOne(s, jobs[d])
      /\ d \in DOMAIN dev /\ d \in DOMAIN jobs
  BY <1>0, HereOne
<1>1. PICK c : c = NewContext(m.call, "ringing", Roster(d, m), OfferPeers(d, m), "ring", 0)
  OBVIOUS
<1>2. PICK y : y = [call |-> m.call, sdp |-> m.sdp]
  OBVIOUS
<1>3. PICK X : X = {x \in s.sdps : x.call # m.call} \cup {y}
  OBVIOUS
<1>4. PICK t : t = [s EXCEPT !.sdps = X, !.ctxs = Append(@, c), !.cur = Len(s.ctxs) + 1,
                    !.store = Shows("incoming", m.call, OwnerOf[m.from])]
  OBVIOUS
<1>5. dev' = [dev EXCEPT ![d] = t] /\ Len(s.ctxs) < MaxContexts
  BY <1>0, <1>1, <1>2, <1>3, <1>4 DEF RosterResolved
<1>6. HasShape(c) /\ c.call = m.call /\ c.phase = "ringing" /\ c.timer = "ring"
  BY <1>1 DEF NewContext, HasShape
<1>7. /\ DOMAIN t = Fields /\ t.ctxs = Append(s.ctxs, c) /\ t.cur = Len(s.ctxs) + 1
      /\ t.open = s.open /\ t.store = Shows("incoming", m.call, OwnerOf[m.from]) /\ t.sdps = X
  BY <1>4, <1>h DEF OneContext, Fields
<1>8. /\ Sequence(t.ctxs) /\ DOMAIN t.ctxs = {1} /\ t.ctxs[1] = c /\ t.cur = 1
      /\ t.open = {} /\ DOMAIN s.ctxs = {}
  BY <1>h, <1>5, <1>6, <1>7, NoContextYet
<1>9. y \in t.sdps /\ y.call = m.call
  BY <1>2, <1>3, <1>7
<1>10. StateOne(t)
  BY <1>6, <1>7, <1>8, <1>9
     DEF StateOne, OneContext, OnScreen, Ringing, InCall, Shows, Listening, StillRings
<1>11. JobsOne(t, jobs[d] \ {j}) /\ jobs' = [jobs EXCEPT ![d] = jobs[d] \ {j}]
  <2>1. jobs' = [jobs EXCEPT ![d] = jobs[d] \ {j}]
    BY <1>h DEF RosterResolved, Finish
  <2> QED
    BY <1>h, <1>8, <2>1, NoJobsYet, FewerJobs
<1> QED
  BY <1>5, <1>10, <1>11, OneStep

(* Media that comes in time: the call rang, so no stream was open.             *)
LEMMA OneMedia ==
    ASSUME OneCallInv, NEW d \in Device, NEW j \in jobs[d], MediaForAccept(d, j)
    PROVE  OneCallInv'
<1>0. PICK s : s = dev[d]
  OBVIOUS
<1>h. /\ StateOne(s) /\ OneContext(s) /\ JobsOne(s, jobs[d])
      /\ d \in DOMAIN dev /\ d \in DOMAIN jobs
  BY <1>0, HereOne
<1>1. PICK mic, i, c : mic = NewMic(s) /\ i = j.ctx /\ c = s.ctxs[j.ctx].call
  OBVIOUS
<1>2. PICK u : u = [s EXCEPT !.ctxs[i].phase = "active", !.ctxs[i].mic = mic,
                       !.open = @ \cup {mic}, !.sdps = {x \in @ : x.call # c},
                       !.store = Shows("active", c, Nobody)]
  OBVIOUS
<1>3. PICK k : k = [j EXCEPT !.at = "answer", !.todo = s.ctxs[j.ctx].peers \ {s.store.caller}]
  OBVIOUS
<1>4. PICK session :
        /\ dev' = [dev EXCEPT ![d] = WithSession(u, s.store.caller, session)]
        /\ jobs' = [jobs EXCEPT ![d] = (jobs[d] \ {j}) \cup {k}]
        /\ j.op = "accept" /\ j.at = "media" /\ s.store.shows = "incoming"
  <2>1. PICK x \in s.sdps :
          /\ dev' = [dev EXCEPT ![d] = WithSession(u, s.store.caller, Answering(x.sdp.from))]
          /\ Become(d, j, k)
    BY <1>0, <1>1, <1>2, <1>3 DEF MediaForAccept
  <2>2. PICK session : session = Answering(x.sdp.from)
    OBVIOUS
  <2>3. j.op = "accept" /\ j.at = "media" /\ s.store.shows = "incoming"
    BY <1>0 DEF MediaForAccept, Running
  <2> QED
    BY <1>h, <2>1, <2>2, <2>3 DEF Become
<1>5. i \in DOMAIN s.ctxs /\ s.cur # 0 /\ s.cur = i /\ i = 1
  <2>1. i \in DOMAIN s.ctxs
    BY <1>h, <1>1, <1>4 DEF JobsOne
  <2>2. s.cur # 0
    BY <1>h, <1>4 DEF StateOne, OnScreen, Ringing, InCall
  <2> QED
    BY <1>h, <2>1, <2>2 DEF OneContext
<1>6. RingsOnly(s) /\ s.open = {} /\ \A n \in DOMAIN s.ctxs : s.ctxs[n].timer # "ring"
  BY <1>h, <1>4, OpenIsCurrent DEF JobsOne
<1>7. PICK y : y = [s.ctxs[i] EXCEPT !.phase = "active", !.mic = mic]
  OBVIOUS
<1>8. HasShape(y) /\ y.call = c /\ y.phase = "active" /\ y.mic = mic /\ y.timer # "ring"
  <2>1. HasShape(s.ctxs[i]) /\ s.ctxs[i].timer # "ring" /\ s.ctxs[i].call = c
    BY <1>h, <1>1, <1>5, <1>6 DEF OneContext
  <2> QED
    BY <1>7, <2>1 DEF HasShape
<1>9. /\ DOMAIN u = Fields /\ u.ctxs = [s.ctxs EXCEPT ![i] = y] /\ u.cur = s.cur
      /\ u.open = {mic} /\ u.store = Shows("active", c, Nobody)
  BY <1>2, <1>6, <1>7, <1>h DEF OneContext, Fields
<1>10. Sequence(u.ctxs) /\ DOMAIN u.ctxs = DOMAIN s.ctxs /\ u.ctxs[i] = y
  BY <1>h, <1>5, <1>9, SequenceReplaced DEF OneContext
<1>11. StateOne(u)
  <2>1. OneContext(u)
    BY <1>h, <1>5, <1>8, <1>9, <1>10 DEF OneContext
  <2> QED
    BY <1>5, <1>8, <1>9, <1>10, <2>1
       DEF StateOne, OnScreen, Active, InCall, Shows, Listening, StillRings
<1>12. JobsOne(u, (jobs[d] \ {j}) \cup {k})
  <2>1. k.op = "accept" /\ k.at = "answer" /\ k.ctx = i
        /\ {"op", "at", "ctx", "todo"} \subseteq DOMAIN k
    BY <1>h, <1>1, <1>3, <1>4 DEF JobsOne
  <2>2. JobsOne(s, (jobs[d] \ {j}) \cup {k})
    BY <1>h, <1>1, <1>4, <2>1, AcceptMoves
  <2>3. \A n \in DOMAIN u.ctxs : u.ctxs[n].timer # "ring"
    BY <1>h, <1>5, <1>8, <1>10 DEF OneContext
  <2>4. \A l \in (jobs[d] \ {j}) \cup {k} : l.op = "accept" => l.at = "answer"
    BY <1>h, <1>4, <2>1 DEF JobsOne
  <2>5. \A l \in (jobs[d] \ {j}) \cup {k} : l.op # "decline"
    BY <1>h, <1>4, <2>1 DEF JobsOne
  <2> QED
    BY <1>10, <2>2, <2>3, <2>4, <2>5 DEF JobsOne
<1>13. PICK t : t = WithSession(u, s.store.caller, session)
  OBVIOUS
<1>14. Untouched(u, t)
  BY <1>5, <1>9, <1>11, <1>13, LegsUntouched DEF StateOne
<1>15. StateOne(t) /\ JobsOne(t, (jobs[d] \ {j}) \cup {k})
  BY <1>11, <1>12, <1>14, UntouchedOne
<1> QED
  BY <1>4, <1>13, <1>15, OneStep

(* Media that comes too late: the call is over.                                *)
LEMMA OneLateMedia ==
    ASSUME OneCallInv, NEW d \in Device, NEW j \in jobs[d], MediaTooLate(d, j)
    PROVE  OneCallInv'
<1>0. PICK s : s = dev[d]
  OBVIOUS
<1>h. /\ StateOne(s) /\ OneContext(s) /\ JobsOne(s, jobs[d])
      /\ d \in DOMAIN dev /\ d \in DOMAIN jobs
  BY <1>0, HereOne
<1>1. PICK i, c : i = j.ctx /\ c = s.ctxs[j.ctx].call
  OBVIOUS
<1>2. PICK u : u = [s EXCEPT !.ctxs[i].phase = "active", !.ctxs[i].mic = 0]
  OBVIOUS
<1>3. /\ dev' = [dev EXCEPT ![d] = TimerOff(u, c)] /\ Declining(d, c, jobs[d] \ {j})
      /\ j.op = "accept" /\ j.at = "media"
      /\ s.store.shows # "incoming" \/ ~\E x \in s.sdps : x.call = c
  BY <1>0, <1>1, <1>2 DEF MediaTooLate, Running
<1>4. i \in DOMAIN s.ctxs /\ RingsOnly(s)
  BY <1>h, <1>1, <1>3 DEF JobsOne
<1>5. s.cur = 0
  <2> SUFFICES ASSUME s.cur # 0 PROVE FALSE
    OBVIOUS
  <2>1. s.cur = i /\ s.ctxs[i].phase = "ringing"
    BY <1>h, <1>4 DEF RingsOnly, OneContext
  <2>2. \E x \in s.sdps : x.call = c
    BY <1>1, <1>h, <2>1 DEF StateOne, StillRings
  <2>3. s.store.shows = "incoming"
    BY <1>h, <2>1 DEF StateOne, OnScreen, Active
  <2> QED
    BY <1>3, <2>2, <2>3
<1>6. PICK y : y = [s.ctxs[i] EXCEPT !.phase = "active", !.mic = 0]
  OBVIOUS
<1>7. HasShape(y) /\ y.timer = s.ctxs[i].timer
  BY <1>h, <1>4, <1>6 DEF HasShape, OneContext
<1>8. /\ DOMAIN u = Fields /\ u.ctxs = [s.ctxs EXCEPT ![i] = y] /\ u.cur = 0
      /\ u.open = s.open /\ u.store = s.store
  BY <1>2, <1>5, <1>6, <1>h DEF OneContext, Fields
<1>9. OneContext(u) /\ DOMAIN u.ctxs = DOMAIN s.ctxs
  <2>1. Sequence(u.ctxs) /\ DOMAIN u.ctxs = DOMAIN s.ctxs
    BY <1>h, <1>4, <1>8, SequenceReplaced DEF OneContext
  <2>2. \A n \in DOMAIN s.ctxs : HasShape(u.ctxs[n])
    BY <1>h, <1>7, <1>8 DEF OneContext
  <2> QED
    BY <1>h, <1>8, <2>1, <2>2 DEF OneContext
<1>10. Ended(s, u)
  <2>1. s.store.shows = "idle" /\ s.open = {}
    BY <1>h, <1>5, OpenIsCurrent DEF StateOne, OnScreen, Ringing, Active, InCall
  <2>2. \A n \in DOMAIN s.ctxs : u.ctxs[n].timer \in {s.ctxs[n].timer, "off"}
    BY <1>h, <1>7, <1>8 DEF OneContext
  <2> QED
    BY <1>8, <1>9, <2>1, <2>2 DEF Ended
<1>11. TimerOff(u, c) = u
  BY <1>8 DEF TimerOff, InCall
<1>12. JobsOne(s, jobs[d] \ {j})
  BY <1>h, FewerJobs
<1>13. ~InCall(s, c)
  BY <1>5 DEF InCall
<1>14. PICK K : jobs' = [jobs EXCEPT ![d] = K] /\ JobsOne(u, K)
  BY <1>0, <1>3, <1>5, <1>10, <1>12, <1>13, DecliningOne
<1> QED
  BY <1>h, <1>3, <1>10, <1>11, <1>14, EndedOne, OneStep

LEMMA OneResume ==
    ASSUME OneCallInv, MaxContexts <= 1, NEW d \in Device, Resume(d) \/ Break(d)
    PROVE  OneCallInv'
<1>0. PICK s : s = dev[d]
  OBVIOUS
<1>h. /\ StateOne(s) /\ OneContext(s) /\ JobsOne(s, jobs[d]) /\ Untouched(s, s)
      /\ d \in DOMAIN dev /\ d \in DOMAIN jobs
      /\ dev' = dev => dev' = [dev EXCEPT ![d] = s]
      /\ \A J : J \subseteq jobs[d] => JobsOne(s, J)
  BY <1>0, HereOne, FewerJobs
<1>1. PICK j \in jobs[d] :
        \/ MediaForStart(d, j) \/ OffersPublished(d, j) \/ MediaForAccept(d, j)
        \/ MediaTooLate(d, j) \/ AnswersPublished(d, j) \/ JoinMesh(d, j)
        \/ TakeStash(d, j) \/ AnswerStashed(d, j) \/ HungUp(d, j)
        \/ StartRefused(d, j) \/ OfferFails(d, j) \/ AcceptRefused(d, j) \/ AnswerFails(d, j)
        \/ Declined(d, j) \/ RosterResolved(d, j)
  BY DEF Resume, Break
<1>2. CASE MediaForStart(d, j) \/ MediaForAccept(d, j) \/ MediaTooLate(d, j) \/ RosterResolved(d, j)
  BY <1>2, OneStart, OneMedia, OneLateMedia, OneRoster
<1>3. CASE OffersPublished(d, j) \/ StartRefused(d, j)
  <2>1. dev' = [dev EXCEPT ![d] = s] /\ jobs' = [jobs EXCEPT ![d] = jobs[d] \ {j}]
    BY <1>h, <1>3 DEF OffersPublished, StartRefused, Finish
  <2>2. JobsOne(s, jobs[d] \ {j})
    BY <1>h
  <2> QED
    BY <1>0, <1>h, <2>1, <2>2, QuietStep
<1>4. ASSUME j.op = "accept", NEW k, k.op = "accept", k.at # "media", k.ctx = j.ctx,
             {"op", "at", "ctx", "todo"} \subseteq DOMAIN k
      PROVE  JobsOne(s, (jobs[d] \ {j}) \cup {k})
  BY <1>h, <1>4, AcceptMoves
<1>5. ASSUME j.op = "accept", j.at # "media" , NEW todo
      PROVE  JobsOne(s, (jobs[d] \ {j}) \cup {[j EXCEPT !.todo = todo]})
  <2>1. PICK k : k = [j EXCEPT !.todo = todo]
    OBVIOUS
  <2>2. k.op = "accept" /\ k.at = j.at /\ k.ctx = j.ctx
        /\ {"op", "at", "ctx", "todo"} \subseteq DOMAIN k
    BY <1>h, <1>5, <2>1 DEF JobsOne
  <2> QED
    BY <1>4, <1>5, <2>1, <2>2
<1>6. ASSUME j.op = "accept", NEW todo, NEW at \in {"drain", "mesh"}
      PROVE  /\ JobsOne(s, (jobs[d] \ {j}) \cup {[j EXCEPT !.at = at, !.todo = todo]})
             /\ JobsOne(s, (jobs[d] \ {j}) \cup {[j EXCEPT !.at = at]})
  <2>1. PICK k : k = [j EXCEPT !.at = at, !.todo = todo]
    OBVIOUS
  <2>2. PICK l : l = [j EXCEPT !.at = at]
    OBVIOUS
  <2>3. k.op = "accept" /\ k.at # "media" /\ k.ctx = j.ctx
        /\ {"op", "at", "ctx", "todo"} \subseteq DOMAIN k
    BY <1>h, <1>6, <2>1 DEF JobsOne
  <2>4. l.op = "accept" /\ l.at # "media" /\ l.ctx = j.ctx
        /\ {"op", "at", "ctx", "todo"} \subseteq DOMAIN l
    BY <1>h, <1>6, <2>2 DEF JobsOne
  <2> QED
    BY <1>4, <1>6, <2>1, <2>2, <2>3, <2>4
<1>7. CASE AnswersPublished(d, j)
  <2>1. /\ dev' = [dev EXCEPT ![d] = s] /\ j.op = "accept"
        /\ jobs' = [jobs EXCEPT ![d] = (jobs[d] \ {j}) \cup {[j EXCEPT !.at = "mesh"]}]
    BY <1>h, <1>7 DEF AnswersPublished, Become, Running
  <2> QED
    BY <1>0, <1>h, <1>6, <2>1, QuietStep
<1>8. CASE JoinMesh(d, j)
  <2>1. j.op = "accept" /\ j.at = "mesh"
    BY <1>8 DEF JoinMesh, Running
  <2>2. PICK p :
          /\ \/ (NoOfferTo(s, j.ctx, p) \/ s.cur # 0) /\ dev' = [dev EXCEPT ![d] = OfferTo(s, j.ctx, p)]
             \/ dev' = dev
          /\ Finish(d, j) \/ Become(d, j, [j EXCEPT !.todo = @ \ {p}])
    BY <1>0, <1>8 DEF JoinMesh
  <2>3. PICK t : Untouched(s, t) /\ dev' = [dev EXCEPT ![d] = t]
    BY <1>h, <2>2, LegsUntouched
  <2>4. PICK K : jobs' = [jobs EXCEPT ![d] = K] /\ JobsOne(s, K)
    <3>1. PICK todo : todo = j.todo \ {p}
      OBVIOUS
    <3>2. Finish(d, j) \/ Become(d, j, [j EXCEPT !.todo = todo])
      BY <2>2, <3>1
    <3>3. JobsOne(s, (jobs[d] \ {j}) \cup {[j EXCEPT !.todo = todo]}) /\ JobsOne(s, jobs[d] \ {j})
      BY <1>h, <1>5, <2>1
    <3> QED
      BY <1>h, <3>2, <3>3 DEF Finish, Become
  <2> QED
    BY <1>0, <2>3, <2>4, QuietStep
<1>9. CASE TakeStash(d, j)
  <2>1. j.op = "accept" /\ j.at = "mesh"
    BY <1>9 DEF TakeStash, Running
  <2>2. PICK mine : mine = {x \in s.stash : x.call = s.ctxs[j.ctx].call}
    OBVIOUS
  <2>3. /\ dev' = [dev EXCEPT ![d] = [s EXCEPT !.stash = s.stash \ mine]]
        /\ Finish(d, j) \/ Become(d, j, [j EXCEPT !.at = "drain", !.todo = mine])
    BY <1>0, <1>h, <1>9, <2>2 DEF TakeStash
  <2>4. Untouched(s, [s EXCEPT !.stash = s.stash \ mine])
    BY <1>h, FieldsUntouched
  <2>5. PICK K : jobs' = [jobs EXCEPT ![d] = K] /\ JobsOne(s, K)
    <3>1. JobsOne(s, (jobs[d] \ {j}) \cup {[j EXCEPT !.at = "drain", !.todo = mine]})
          /\ JobsOne(s, jobs[d] \ {j})
      BY <1>h, <1>6, <2>1
    <3> QED
      BY <1>h, <2>3, <3>1 DEF Finish, Become
  <2> QED
    BY <1>0, <2>3, <2>4, <2>5, QuietStep
<1>10. CASE AnswerStashed(d, j)
  <2>1. j.op = "accept" /\ j.at = "drain" /\ j.ctx \in DOMAIN s.ctxs
    BY <1>h, <1>10 DEF AnswerStashed, Running, JobsOne
  <2>2. PICK x : /\ NoOfferTo(s, j.ctx, OwnerOf[x.from]) \/ s.cur # 0
                 /\ dev' = [dev EXCEPT ![d] = MeshAnswer(s, j.ctx, x)]
                 /\ Finish(d, j) \/ Become(d, j, [j EXCEPT !.todo = @ \ {x}])
    BY <1>0, <1>10 DEF AnswerStashed
  <2>3. Untouched(s, MeshAnswer(s, j.ctx, x))
    BY <1>h, <2>1, <2>2, LegsUntouched
  <2>4. PICK K : jobs' = [jobs EXCEPT ![d] = K] /\ JobsOne(s, K)
    <3>1. PICK todo : todo = j.todo \ {x}
      OBVIOUS
    <3>2. Finish(d, j) \/ Become(d, j, [j EXCEPT !.todo = todo])
      BY <2>2, <3>1
    <3>3. JobsOne(s, (jobs[d] \ {j}) \cup {[j EXCEPT !.todo = todo]}) /\ JobsOne(s, jobs[d] \ {j})
      BY <1>h, <1>5, <2>1
    <3> QED
      BY <1>h, <3>2, <3>3 DEF Finish, Become
  <2> QED
    BY <1>0, <2>2, <2>3, <2>4, QuietStep
<1>11. CASE HungUp(d, j) \/ AnswerFails(d, j) \/ OfferFails(d, j)
  <2>1. PICK J : J = jobs[d] \ {j}
    OBVIOUS
  <2>2. JobsOne(s, J) /\ jobs' = [jobs EXCEPT ![d] = J]
    BY <1>h, <1>11, <2>1 DEF HungUp, AnswerFails, OfferFails, Finish
  <2>3. ASSUME NEW i \in DOMAIN s.ctxs, dev' = [dev EXCEPT ![d] = Teardown(s, i)]
        PROVE  OneCallInv'
    <3>1. Ended(s, Teardown(s, i))
      BY <1>h, TornDown
    <3> QED
      BY <1>0, <2>2, <2>3, <3>1, QuietStep
  <2>4. CASE HungUp(d, j) \/ AnswerFails(d, j)
    <3>1. dev' = [dev EXCEPT ![d] = Teardown(s, j.ctx)] /\ j.op \in {"hangup", "accept"}
      BY <1>0, <1>h, <2>4 DEF HungUp, AnswerFails, Running
    <3> QED
      BY <1>h, <2>3, <3>1 DEF JobsOne
  <2>5. CASE OfferFails(d, j)
    <3>1. \/ dev' = [dev EXCEPT ![d] = Teardown(s, s.cur)] /\ s.cur # 0
          \/ dev' = [dev EXCEPT ![d] = s]
      BY <1>0, <1>h, <2>5 DEF OfferFails, InCall
    <3>2. CASE dev' = [dev EXCEPT ![d] = s]
      BY <1>0, <1>h, <2>2, <3>2, QuietStep
    <3> QED
      BY <1>h, <2>3, <3>1, <3>2 DEF OneContext
  <2> QED
    BY <1>11, <2>4, <2>5
<1>12. CASE AcceptRefused(d, j)
  <2>1. PICK c, t : c = s.ctxs[j.ctx].call /\ t = TimerOff(s, c)
    OBVIOUS
  <2>2. /\ dev' = [dev EXCEPT ![d] = t] /\ Declining(d, c, jobs[d] \ {j})
        /\ j.op = "accept" /\ j.at = "media"
    BY <1>0, <1>h, <1>12, <2>1 DEF AcceptRefused, Running
  <2>3. RingsOnly(s) /\ \A k \in jobs[d] \ {j} : k.op # "accept"
    BY <1>h, <2>2 DEF JobsOne
  <2>4. Untouched(s, t) /\ JobsOne(s, jobs[d] \ {j})
    BY <1>h, <2>1, LegsUntouched
  <2>5. PICK K : jobs' = [jobs EXCEPT ![d] = K] /\ JobsOne(t, K)
    BY <1>0, <2>2, <2>3, <2>4, DecliningOne
  <2> QED
    BY <1>h, <2>2, <2>4, <2>5, UntouchedOne, OneStep
<1>13. CASE Declined(d, j)
  <2>1. /\ dev' = [dev EXCEPT ![d] = Cleared(Forget(s, j.call))]
        /\ jobs' = [jobs EXCEPT ![d] = jobs[d] \ {j}] /\ j.op = "decline"
    BY <1>0, <1>h, <1>13 DEF Declined, Finish, Running
  <2>2. RingsOnly(s)
    BY <1>h, <2>1 DEF JobsOne
  <2>3. PICK t, J : t = Cleared(Forget(s, j.call)) /\ J = jobs[d] \ {j}
    OBVIOUS
  <2>4. Ended(s, t) /\ JobsOne(s, J)
    BY <1>h, <2>2, <2>3, DroppedOne
  <2> QED
    BY <1>0, <2>1, <2>3, <2>4, QuietStep
<1> QED
  BY <1>1, <1>2, <1>3, <1>7, <1>8, <1>9, <1>10, <1>11, <1>12, <1>13

LEMMA OneTimer ==
    ASSUME OneCallInv, NEW d \in Device, NEW i \in DOMAIN dev[d].ctxs, Timer(d, i)
    PROVE  OneCallInv'
<1>0. PICK s : s = dev[d]
  OBVIOUS
<1>h. /\ StateOne(s) /\ OneContext(s) /\ JobsOne(s, jobs[d])
      /\ d \in DOMAIN dev /\ d \in DOMAIN jobs /\ i \in DOMAIN s.ctxs
  BY <1>0, HereOne
<1>1. PICK u : u = [s EXCEPT !.ctxs[i].timer = "off"]
  OBVIOUS
<1>2. Untouched(s, u) /\ OneContext(u)
  BY <1>1, <1>h, TimerUntouched, UntouchedContext
<1>3. CASE /\ s.ctxs[i].timer = "ring" /\ dev' = [dev EXCEPT ![d] = TimerOff(u, u.ctxs[i].call)]
           /\ Declining(d, u.ctxs[i].call, jobs[d])
  <2>1. PICK c, t : c = u.ctxs[i].call /\ t = TimerOff(u, c)
    OBVIOUS
  <2>2. Untouched(s, t)
    BY <1>2, <2>1, LegsUntouched, UntouchedAgain
  <2>3. RingsOnly(s) /\ \A j \in jobs[d] : j.op # "accept"
    <3>1. \A j \in jobs[d] : j.op # "accept"
      BY <1>h, <1>3 DEF JobsOne
    <3>2. s.cur # 0 => s.cur = i
      BY <1>h DEF OneContext
    <3> QED
      BY <1>h, <1>3, <3>1, <3>2 DEF StateOne, StillRings, RingsOnly
  <2>4. PICK K : jobs' = [jobs EXCEPT ![d] = K] /\ JobsOne(t, K)
    BY <1>0, <1>3, <1>h, <2>1, <2>2, <2>3, DecliningOne
  <2> QED
    BY <1>3, <1>h, <2>1, <2>2, <2>4, UntouchedOne, OneStep
<1>4. CASE dev' = [dev EXCEPT ![d] = u] /\ HangingUp(d)
  <2>1. PICK K : jobs' = [jobs EXCEPT ![d] = K] /\ JobsOne(u, K)
    BY <1>0, <1>2, <1>4, HangingUpOne
  <2> QED
    BY <1>2, <1>4, <1>h, <2>1, UntouchedOne, OneStep
<1>5. CASE dev' = [dev EXCEPT ![d] = u] /\ jobs' = jobs
  BY <1>0, <1>2, <1>5, <1>h, HereOne, QuietStep
<1> QED
  BY <1>0, <1>1, <1>3, <1>4, <1>5 DEF Timer

LEMMA OneConnects ==
    ASSUME OneCallInv, NEW d \in Device, NEW i \in DOMAIN dev[d].ctxs, Connects(d, i)
    PROVE  OneCallInv'
<1>0. PICK s : s = dev[d]
  OBVIOUS
<1>h. /\ StateOne(s) /\ OneContext(s) /\ JobsOne(s, jobs[d])
      /\ d \in DOMAIN dev /\ i \in DOMAIN s.ctxs
  BY <1>0, HereOne
<1>1. PICK q \in DOMAIN dev[d].ctxs[i].legs :
        dev' = [dev EXCEPT ![d] =
            LET t == [@ EXCEPT !.ctxs[i].legs[q].conn = "connected"]
            IN  IF InCall(t, t.ctxs[i].call) THEN [t EXCEPT !.ctxs[t.cur].timer = "off"] ELSE t]
  BY DEF Connects
<1>2. PICK y : y = [s.ctxs[i] EXCEPT !.legs[q].conn = "connected"]
  OBVIOUS
<1>3. PICK t : t = [s EXCEPT !.ctxs = [s.ctxs EXCEPT ![i] = y]]
  OBVIOUS
<1>4. Untouched(s, t) /\ OneContext(t)
  <2>1. Alike(s.ctxs[i], y)
    BY <1>2, <1>h DEF Alike, HasShape, OneContext
  <2>2. Untouched(s, t)
    BY <1>3, <1>h, <2>1, UntouchedBy
  <2> QED
    BY <1>h, <2>2, UntouchedContext
<1>5. PICK u : u = IF InCall(t, t.ctxs[i].call) THEN [t EXCEPT !.ctxs[t.cur].timer = "off"] ELSE t
  OBVIOUS
<1>6. Untouched(s, u)
  <2>1. CASE InCall(t, t.ctxs[i].call)
    <3>1. t.cur \in DOMAIN t.ctxs
      BY <1>4, <2>1 DEF InCall, OneContext
    <3>2. Untouched(t, u)
      BY <1>4, <1>5, <2>1, <3>1, TimerUntouched
    <3> QED
      BY <1>4, <3>2, UntouchedAgain
  <2>2. CASE ~InCall(t, t.ctxs[i].call)
    BY <1>4, <1>5, <2>2
  <2> QED
    BY <2>1, <2>2
<1>7. dev' = [dev EXCEPT ![d] = u]
  <2>1. t = [s EXCEPT !.ctxs[i].legs[q].conn = "connected"]
    BY <1>2, <1>3
  <2> QED
    BY <1>0, <1>h, <1>1, <1>5, <2>1
<1>8. jobs' = [jobs EXCEPT ![d] = jobs[d]]
  BY HereOne DEF Connects
<1> QED
  BY <1>0, <1>h, <1>6, <1>7, <1>8, QuietStep

LEMMA OneFailure ==
    ASSUME OneCallInv, NEW d \in Device, NEW i \in DOMAIN dev[d].ctxs, ConnectionFails(d, i)
    PROVE  OneCallInv'
<1>0. PICK s : s = dev[d]
  OBVIOUS
<1>h. /\ StateOne(s) /\ OneContext(s) /\ JobsOne(s, jobs[d])
      /\ d \in DOMAIN dev /\ i \in DOMAIN s.ctxs /\ HasShape(s.ctxs[i])
  BY <1>0, HereOne DEF OneContext
<1>1. PICK q \in DOMAIN s.ctxs[i].legs :
        \/ dev' = [dev EXCEPT ![d].ctxs[i] = Restarted(@, q)]
        \/ dev' = [dev EXCEPT ![d] = WithoutSession([s EXCEPT !.ctxs[i].retried = @ \ {q}], i, q)]
  BY <1>0 DEF ConnectionFails
<1>2. jobs' = [jobs EXCEPT ![d] = jobs[d]]
  BY HereOne DEF ConnectionFails
<1>3. CASE dev' = [dev EXCEPT ![d].ctxs[i] = Restarted(@, q)]
  <2>1. PICK y : y = Restarted(s.ctxs[i], q)
    OBVIOUS
  <2>2. Alike(s.ctxs[i], y)
    BY <1>h, <2>1 DEF Alike, HasShape, Restarted
  <2>3. PICK t : t = [s EXCEPT !.ctxs = [s.ctxs EXCEPT ![i] = y]]
    OBVIOUS
  <2>4. Untouched(s, t)
    BY <1>h, <2>2, <2>3, UntouchedBy
  <2>5. dev' = [dev EXCEPT ![d] = t]
    BY <1>0, <1>3, <1>h, <2>1, <2>3
  <2> QED
    BY <1>0, <1>2, <1>h, <2>4, <2>5, QuietStep
<1>4. CASE dev' = [dev EXCEPT ![d] = WithoutSession([s EXCEPT !.ctxs[i].retried = @ \ {q}], i, q)]
  <2>1. PICK y : y = [s.ctxs[i] EXCEPT !.retried = @ \ {q}]
    OBVIOUS
  <2>2. Alike(s.ctxs[i], y)
    BY <1>h, <2>1 DEF Alike, HasShape
  <2>3. PICK t : t = [s EXCEPT !.ctxs[i].retried = @ \ {q}]
    OBVIOUS
  <2>4. t = [s EXCEPT !.ctxs = [s.ctxs EXCEPT ![i] = y]]
    BY <2>1, <2>3
  <2>5. Untouched(s, t)
    BY <1>h, <2>2, <2>4, UntouchedBy
  <2>6. StateOne(t) /\ i \in DOMAIN t.ctxs
    BY <1>h, <2>5, UntouchedOne DEF Untouched
  <2>7. PICK u : u = WithoutSession(t, i, q)
    OBVIOUS
  <2>8. Untouched(t, u) \/ Ended(t, u)
    BY <2>6, <2>7, Withdrawn
  <2>9. Untouched(s, u) \/ Ended(s, u)
    BY <1>h, <2>5, <2>8, UntouchedAgain, EndedAgain
  <2> QED
    BY <1>0, <1>2, <1>4, <1>h, <2>3, <2>7, <2>9, QuietStep
<1> QED
  BY <1>1, <1>3, <1>4

LEMMA OneOffer ==
    ASSUME OneCallInv, NEW d \in Device, NEW m \in net, HandleMeshOffer(d, m) \/ HandleOffer(d, m)
    PROVE  OneCallInv'
<1>0. PICK s : s = dev[d]
  OBVIOUS
<1>h. /\ StateOne(s) /\ OneContext(s) /\ JobsOne(s, jobs[d]) /\ Untouched(s, s)
      /\ d \in DOMAIN dev /\ d \in DOMAIN jobs
      /\ dev' = dev => dev' = [dev EXCEPT ![d] = s]
      /\ jobs' = jobs => jobs' = [jobs EXCEPT ![d] = jobs[d]]
  BY <1>0, HereOne
<1>1. CASE HandleMeshOffer(d, m)
  <2>1. jobs' = [jobs EXCEPT ![d] = jobs[d]] /\ InCall(s, m.call)
    BY <1>0, <1>1, <1>h DEF HandleMeshOffer
  <2>2. CASE dev' = dev
    BY <1>0, <1>h, <2>1, <2>2, QuietStep
  <2>3. CASE dev' = [dev EXCEPT ![d] = MeshAnswer(s, s.cur, m)]
    <3>1. Untouched(s, MeshAnswer(s, s.cur, m))
      BY <1>h, <2>1, LegsUntouched DEF InCall, OneContext
    <3> QED
      BY <1>0, <1>h, <2>1, <2>3, <3>1, QuietStep
  <2>4. CASE \E X : dev' = [dev EXCEPT ![d] = [s EXCEPT !.stash = X]]
    <3>1. PICK X : dev' = [dev EXCEPT ![d] = [s EXCEPT !.stash = X]]
      BY <2>4
    <3>2. Untouched(s, [s EXCEPT !.stash = X])
      BY <1>h, FieldsUntouched
    <3> QED
      BY <1>0, <1>h, <2>1, <3>1, <3>2, QuietStep
  <2>5. PICK X : X = {x \in s.stash : x.call # m.call \/ OwnerOf[x.from] # OwnerOf[m.from]}
                        \cup {[call |-> m.call, from |-> m.from, sdp |-> m.sdp]}
    OBVIOUS
  <2> QED
    BY <1>0, <1>h, <1>1, <2>2, <2>3, <2>4, <2>5 DEF HandleMeshOffer
<1>2. CASE HandleOffer(d, m)
  <2>1. PICK j : j = [op |-> "roster", offer |-> m]
    OBVIOUS
  <2>2. PICK J : J = jobs[d] \cup {j}
    OBVIOUS
  <2>3. JobsOne(s, J)
    BY <1>h, <2>1, <2>2, OneMoreJob
  <2>4. /\ dev' = [dev EXCEPT ![d] = s]
        /\ jobs' = [jobs EXCEPT ![d] = J] \/ jobs' = [jobs EXCEPT ![d] = jobs[d]]
    BY <1>h, <1>2, <2>1, <2>2 DEF HandleOffer
  <2> QED
    BY <1>0, <1>h, <2>3, <2>4, QuietStep
<1> QED
  BY <1>1, <1>2

LEMMA OneEcho ==
    ASSUME OneCallInv, NEW d \in Device, NEW m \in net, HandleEcho(d, m) \/ HandleHangup(d, m)
    PROVE  OneCallInv'
<1>0. PICK s : s = dev[d]
  OBVIOUS
<1>h. /\ StateOne(s) /\ OneContext(s) /\ JobsOne(s, jobs[d]) /\ Untouched(s, s) /\ d \in DOMAIN dev
  BY <1>0, HereOne
<1>1. jobs' = [jobs EXCEPT ![d] = jobs[d]]
  BY HereOne DEF HandleEcho, HandleHangup
<1>2. PICK t : /\ dev' = [dev EXCEPT ![d] = t]
               /\ \/ t = s
                  \/ Ringing(s, m.call) /\ t = Elsewhere(s, m.call)
                  \/ InCall(s, m.call) /\ t = WithoutSession(s, s.cur, OwnerOf[m.from])
  BY <1>0, <1>h DEF HandleEcho, HandleHangup
<1>3. ASSUME Ringing(s, m.call), t = Elsewhere(s, m.call)
      PROVE  Ended(s, t)
  <2>1. RingsOnly(s) /\ s.cur # 0
    BY <1>3 DEF RingsOnly, Ringing, InCall
  <2> QED
    BY <1>h, <1>3, <2>1, DroppedOne
<1>4. ASSUME InCall(s, m.call), t = WithoutSession(s, s.cur, OwnerOf[m.from])
      PROVE  Untouched(s, t) \/ Ended(s, t)
  BY <1>h, <1>4, Withdrawn DEF InCall, OneContext
<1>5. Untouched(s, t) \/ Ended(s, t)
  BY <1>2, <1>h, <1>3, <1>4
<1> QED
  BY <1>0, <1>1, <1>2, <1>5, <1>h, QuietStep

LEMMA OneAnswer ==
    ASSUME OneCallInv, NEW d \in Device, NEW m \in net, HandleAnswer(d, m) \/ HandleRenegotiate(d, m)
    PROVE  OneCallInv'
<1>0. PICK s, i, p : s = dev[d] /\ i = s.cur /\ p = OwnerOf[m.from]
  OBVIOUS
<1>h. /\ StateOne(s) /\ OneContext(s) /\ JobsOne(s, jobs[d]) /\ Untouched(s, s) /\ d \in DOMAIN dev
      /\ dev' = dev => dev' = [dev EXCEPT ![d] = s]
  BY <1>0, HereOne
<1>1. jobs' = [jobs EXCEPT ![d] = jobs[d]]
  BY HereOne DEF HandleAnswer, HandleRenegotiate
<1>2. CASE dev' = dev
  BY <1>0, <1>h, <1>1, <1>2, QuietStep
<1>3. ASSUME Active(s, m.call)
      PROVE  i # 0 /\ i \in DOMAIN s.ctxs /\ HasShape(s.ctxs[i])
  BY <1>0, <1>h, <1>3 DEF Active, InCall, OneContext
<1>4. CASE Active(s, m.call) /\ HandleAnswer(d, m)
  <2>1. PICK y : y = [s.ctxs[i] EXCEPT !.peers = @ \cup {p}]
    OBVIOUS
  <2>2. PICK joined : joined = [s EXCEPT !.ctxs[i].peers = @ \cup {p}]
    OBVIOUS
  <2>3. joined = [s EXCEPT !.ctxs = [s.ctxs EXCEPT ![i] = y]]
    BY <2>1, <2>2
  <2>4. Alike(s.ctxs[i], y)
    BY <1>3, <1>4, <2>1 DEF Alike, HasShape
  <2>5. Untouched(s, joined)
    BY <1>h, <1>3, <1>4, <2>3, <2>4, UntouchedBy
  <2>6. PICK u : u = OfferTo(joined, i, p)
    OBVIOUS
  <2>7. Untouched(s, u)
    <3>1. OneContext(joined) /\ joined.cur # 0
      BY <1>0, <1>h, <1>3, <1>4, <2>5, UntouchedContext DEF Untouched
    <3>2. Untouched(joined, u)
      BY <2>6, <3>1, LegsUntouched
    <3> QED
      BY <2>5, <3>2, UntouchedAgain
  <2>8. PICK z : z = [s.ctxs[i] EXCEPT !.legs[p] = AfterAnswer(@, d, p, m),
                                       !.renegotiating = @ \ {p}]
    OBVIOUS
  <2>9. Alike(s.ctxs[i], z)
    BY <1>3, <1>4, <2>8 DEF Alike, HasShape
  <2>10. PICK v : v = [s EXCEPT !.ctxs[i].legs[p] = AfterAnswer(@, d, p, m),
                                !.ctxs[i].renegotiating = @ \ {p}]
    OBVIOUS
  <2>11. v = [s EXCEPT !.ctxs = [s.ctxs EXCEPT ![i] = z]]
    BY <1>3, <1>4, <1>h, <2>8, <2>10 DEF OneContext
  <2>12. Untouched(s, v)
    BY <1>h, <1>3, <1>4, <2>9, <2>11, UntouchedBy
  <2>13. \E t \in {s, joined, u, v} : dev' = [dev EXCEPT ![d] = t]
    BY <1>0, <1>h, <1>4, <2>2, <2>6, <2>10 DEF HandleAnswer
  <2> QED
    BY <1>0, <1>1, <1>h, <2>5, <2>7, <2>12, <2>13, QuietStep
<1>5. CASE Active(s, m.call) /\ HandleRenegotiate(d, m)
  <2>1. PICK z : z = Renegotiated(s.ctxs[i], p, m)
    OBVIOUS
  <2>2. Alike(s.ctxs[i], z)
    BY <1>3, <1>5, <2>1 DEF Alike, HasShape, Renegotiated
  <2>3. PICK v : v = [s EXCEPT !.ctxs = [s.ctxs EXCEPT ![i] = z]]
    OBVIOUS
  <2>4. Untouched(s, v)
    BY <1>h, <1>3, <1>5, <2>2, <2>3, UntouchedBy
  <2>5. \E t \in {s, v} : dev' = [dev EXCEPT ![d] = t]
    BY <1>0, <1>h, <1>3, <1>5, <2>1, <2>3 DEF HandleRenegotiate
  <2> QED
    BY <1>0, <1>1, <1>h, <2>4, <2>5, QuietStep
<1>6. ~Active(s, m.call) => dev' = dev
  BY <1>0 DEF HandleAnswer, HandleRenegotiate
<1> QED
  BY <1>2, <1>4, <1>5, <1>6

LEMMA OneCallInit == Init => OneCallInv
<1> SUFFICES ASSUME Init PROVE OneCallInv
  OBVIOUS
<1>1. StateOne(Fresh)
  <2>1. Fresh.ctxs = <<>> /\ Sequence(<<>>) /\ DOMAIN <<>> = {}
    <3>1. <<>> \in Seq({})
      OBVIOUS
    <3> QED
      BY <3>1 DEF Sequence, Fresh
  <2>2. DOMAIN Fresh = Fields /\ Fresh.cur = 0 /\ Fresh.open = {} /\ Fresh.store.shows = "idle"
    BY DEF Fresh, Fields, Idle
  <2> QED
    BY <2>1, <2>2 DEF StateOne, OneContext, OnScreen, Listening, StillRings
<1>2. JobsOne(Fresh, {})
  BY DEF JobsOne
<1> QED
  BY <1>1, <1>2 DEF Init, OneCallInv

LEMMA OneCallStep ==
    ASSUME MaxContexts <= 1, ~SecondClicks
    PROVE  OneCallInv /\ [Next]_vars => OneCallInv'
<1> SUFFICES ASSUME OneCallInv, [Next]_vars PROVE OneCallInv'
  OBVIOUS
<1>1. CASE UNCHANGED vars
  BY <1>1 DEF vars, OneCallInv
<1>2. ASSUME NEW d \in Device, User(d) \/ Resume(d) \/ Break(d) \/ Clock(d) \/ Network(d)
      PROVE  OneCallInv'
  <2>1. CASE User(d)
    BY <2>1, OneUser
  <2>2. CASE Resume(d) \/ Break(d)
    BY <2>2, OneResume
  <2>3. CASE Clock(d)
    BY <2>3, OneTimer DEF Clock
  <2>4. CASE Network(d)
    BY <2>4, OneConnects, OneFailure, OneOffer, OneEcho, OneAnswer DEF Network
  <2> QED
    BY <1>2, <2>1, <2>2, <2>3, <2>4
<1> QED
  BY <1>1, <1>2 DEF Next

(* For devices that take part in one call each, and users who click once while *)
(* a click is handled, the call the store shows is the current context in that *)
(* phase: callStore and this.ctx agree after every step.                       *)
THEOREM ScreenShowsTheCall ==
    ASSUME MaxContexts <= 1, ~SecondClicks
    PROVE  Spec => []StoreMatchesContext
<1>1. OneCallInv => StoreMatchesContext
  BY DEF OneCallInv, StateOne, OnScreen, StoreMatchesContext
<1> QED
  BY OneCallInit, OneCallStep, <1>1, PTL DEF Spec

(* For the same devices, a stream that is open is the one of the current       *)
(* context: decline, hang-up, time-out, a lost connection, an echo and the     *)
(* destruction of the manager all release it.                                  *)
THEOREM MicrophoneIsReleased ==
    ASSUME MaxContexts <= 1, ~SecondClicks
    PROVE  Spec => []MicReleased
<1>1. OneCallInv => MicReleased
  BY DEF OneCallInv, StateOne, Listening, MicReleased
<1> QED
  BY OneCallInit, OneCallStep, <1>1, PTL DEF Spec
-----------------------------------------------------------------------------
(* Types.  What a context, a call manager, a suspended function and an event   *)
(* may hold, on a device d.                                                    *)

LegMap(d) == UNION {[P -> Session] : P \in SUBSET Peers(d)}

ContextFields == {"call", "phase", "roster", "peers", "legs", "retried", "renegotiating",
                  "mic", "timer"}
GoodContext(d, x) ==
    /\ DOMAIN x = ContextFields
    /\ x.call \in CallId /\ x.phase \in {"ringing", "active"} /\ x.roster \subseteq Pubkey
    /\ x.peers \subseteq Peers(d) /\ x.legs \in LegMap(d)
    /\ x.retried \subseteq Pubkey /\ x.renegotiating \subseteq Pubkey
    /\ x.mic \in Nat /\ x.timer \in {"off", "ring", "dial"}

SdpRecord == [call : CallId, sdp : Sdp]
StashRecord == [call : CallId, from : Device, sdp : Sdp]
StoreType == [shows : {"idle", "incoming", "active"}, call : CallId \cup {NoCall},
              caller : Pubkey \cup {Nobody}]

(* A screen that rings has a context, and shows a caller who is someone else;   *)
(* what is stashed is of someone else, too.                                     *)
Good(d, s) ==
    /\ DOMAIN s = Fields
    /\ Sequence(s.ctxs) /\ Len(s.ctxs) <= MaxContexts /\ s.cur \in {0} \cup DOMAIN s.ctxs
    /\ \A i \in DOMAIN s.ctxs : GoodContext(d, s.ctxs[i])
    /\ s.store \in StoreType
    /\ s.store.shows = "incoming" => s.cur # 0 /\ s.store.caller \in Peers(d)
    /\ IsFiniteSet(s.open)
    /\ s.sdps \subseteq SdpRecord /\ s.stash \subseteq StashRecord
    /\ \A x \in s.stash : OwnerOf[x.from] # OwnerOf[d]
    /\ s.starts \in Nat

GoodEvent(m) ==
    /\ m.from \in Device
    /\ m.kind = "offer" => /\ m.call \in CallId /\ m.sdp \in Sdp /\ m.named \subseteq Pubkey
                           /\ OwnerOf[m.from] # OwnerOf[m.to]

(* The suspended functions of a device with the contexts of s.                  *)
GoodJob(d, s, j) ==
    /\ j.op = "start" => j.call \in CallId /\ j.targets \subseteq Peers(d)
    /\ j.op \in {"dial", "hangup", "accept"} => j.ctx \in DOMAIN s.ctxs
    /\ j.op = "accept" =>
          /\ {"op", "at", "ctx", "todo"} \subseteq DOMAIN j
          /\ j.at \in {"media", "answer", "mesh"} => j.todo \subseteq Peers(d)
          /\ j.at = "drain" => j.todo \subseteq StashRecord
                               /\ \A x \in j.todo : OwnerOf[x.from] # OwnerOf[d]
    /\ j.op = "roster" => GoodEvent(j.offer) /\ j.offer.kind = "offer" /\ j.offer.to = d

TypeInv ==
    /\ dev = [d \in Device |-> dev[d]] /\ jobs = [d \in Device |-> jobs[d]]
    /\ \A d \in Device : Good(d, dev[d]) /\ \A j \in jobs[d] : GoodJob(d, dev[d], j)
    /\ \A m \in net : GoodEvent(m)

(* A state that has the same contexts, or more.                                 *)
Onward(d, s, t) == Good(d, t) /\ DOMAIN s.ctxs \subseteq DOMAIN t.ctxs

LEMMA GoodTypes == TypeInv => TypeOK
<1> SUFFICES ASSUME TypeInv, NEW d \in Device
             PROVE  LET s == dev[d] IN
                /\ \A i \in DOMAIN s.ctxs : LET x == s.ctxs[i] IN
                    /\ [k \in DOMAIN x \ {"legs"} |-> x[k]] \in Context
                    /\ DOMAIN x.legs \cup x.peers \subseteq Peers(d)
                    /\ \A p \in DOMAIN x.legs : x.legs[p] \in Session
                /\ s.cur \in 0..Len(s.ctxs) /\ Len(s.ctxs) <= MaxContexts
                /\ s.store \in [shows : {"idle", "incoming", "active"}, call : CallId \cup {NoCall},
                                caller : Pubkey \cup {Nobody}]
                /\ s.sdps \subseteq [call : CallId, sdp : Sdp]
                /\ s.stash \subseteq [call : CallId, from : Device, sdp : Sdp]
  BY DEF TypeOK
<1>1. PICK s : s = dev[d]
  OBVIOUS
<1>2. Good(d, s)
  BY <1>1 DEF TypeInv
<1>3. ASSUME NEW x, GoodContext(d, x)
      PROVE  /\ [k \in DOMAIN x \ {"legs"} |-> x[k]] \in Context
             /\ DOMAIN x.legs \cup x.peers \subseteq Peers(d)
             /\ \A p \in DOMAIN x.legs : x.legs[p] \in Session
  <2>1. DOMAIN x \ {"legs"} = {"call", "phase", "roster", "peers", "retried", "renegotiating",
                               "mic", "timer"}
    BY <1>3 DEF GoodContext, ContextFields
  <2>2. x.peers \subseteq Pubkey
    BY <1>3 DEF GoodContext, Peers
  <2>3. [k \in DOMAIN x \ {"legs"} |-> x[k]] =
          [call |-> x.call, phase |-> x.phase, roster |-> x.roster, peers |-> x.peers,
           retried |-> x.retried, renegotiating |-> x.renegotiating, mic |-> x.mic,
           timer |-> x.timer]
    BY <2>1
  <2>4. PICK P \in SUBSET Peers(d) : x.legs \in [P -> Session]
    BY <1>3 DEF GoodContext, LegMap
  <2> QED BY <1>3, <2>2, <2>3, <2>4 DEF GoodContext, Context
<1>4. s.cur \in 0..Len(s.ctxs)
  <2>1. PICK S : s.ctxs \in Seq(S)
    BY <1>2 DEF Good, Sequence
  <2> QED BY <1>2, <2>1 DEF Good
<1> QED BY <1>1, <1>2, <1>3, <1>4 DEF Good, StoreType, SdpRecord, StashRecord

(* The legs of a context.                                                      *)
LEMMA LegMaps ==
    ASSUME NEW d \in Device
    PROVE  /\ <<>> \in LegMap(d) /\ DOMAIN <<>> = {}
           /\ \A P \in SUBSET Peers(d) : \A e \in Session : [p \in P |-> e] \in LegMap(d)
           /\ \A f \in LegMap(d) : DOMAIN f \subseteq Peers(d) /\ \A p \in DOMAIN f : f[p] \in Session
           /\ \A f \in LegMap(d) : \A p : [q \in DOMAIN f \ {p} |-> f[q]] \in LegMap(d)
           /\ \A f \in LegMap(d) : \A p \in Peers(d) : \A e \in Session :
                 [q \in DOMAIN f \cup {p} |-> IF q = p THEN e ELSE f[q]] \in LegMap(d)
           /\ \A f \in LegMap(d) : \A p \in DOMAIN f : \A e \in Session :
                 [f EXCEPT ![p] = e] \in LegMap(d)
<1>1. <<>> \in [{} -> Session] /\ {} \in SUBSET Peers(d) /\ DOMAIN <<>> = {}
  OBVIOUS
<1>2. \A P \in SUBSET Peers(d) : \A e \in Session : [p \in P |-> e] \in [P -> Session]
  OBVIOUS
<1>3. ASSUME NEW f \in LegMap(d)
      PROVE  /\ DOMAIN f \subseteq Peers(d) /\ \A p \in DOMAIN f : f[p] \in Session
             /\ f \in [DOMAIN f -> Session]
  <2>1. PICK P \in SUBSET Peers(d) : f \in [P -> Session]
    BY DEF LegMap
  <2> QED BY <2>1
<1>4. ASSUME NEW f \in LegMap(d), NEW p PROVE [q \in DOMAIN f \ {p} |-> f[q]] \in LegMap(d)
  <2>1. DOMAIN f \ {p} \in SUBSET Peers(d)
    BY <1>3
  <2>2. [q \in DOMAIN f \ {p} |-> f[q]] \in [DOMAIN f \ {p} -> Session]
    BY <1>3
  <2> QED BY <2>1, <2>2 DEF LegMap
<1>5. ASSUME NEW f \in LegMap(d), NEW p \in Peers(d), NEW e \in Session
      PROVE  [q \in DOMAIN f \cup {p} |-> IF q = p THEN e ELSE f[q]] \in LegMap(d)
  <2>1. DOMAIN f \cup {p} \in SUBSET Peers(d)
    BY <1>3
  <2>2. [q \in DOMAIN f \cup {p} |-> IF q = p THEN e ELSE f[q]] \in [DOMAIN f \cup {p} -> Session]
    BY <1>3
  <2> QED BY <2>1, <2>2 DEF LegMap
<1>6. ASSUME NEW f \in LegMap(d), NEW p \in DOMAIN f, NEW e \in Session
      PROVE  [f EXCEPT ![p] = e] \in LegMap(d)
  <2>1. DOMAIN f \in SUBSET Peers(d) /\ [f EXCEPT ![p] = e] \in [DOMAIN f -> Session]
    BY <1>3
  <2> QED BY <2>1 DEF LegMap
<1>7. \A P \in SUBSET Peers(d) : \A f \in [P -> Session] : f \in LegMap(d)
  BY DEF LegMap
<1> QED BY <1>1, <1>2, <1>3, <1>4, <1>5, <1>6, <1>7

(* A free stream number is a number.                                           *)
LEMMA StreamNumber ==
    ASSUME NEW s, IsFiniteSet(s.open)
    PROVE  NewMic(s) \in Nat /\ NewMic(s) # 0 /\ IsFiniteSet(s.open \cup {NewMic(s)})
<1>1. PICK k : k = Cardinality(s.open)
  OBVIOUS
<1>2. k \in Nat
  BY <1>1, FS_CardinalityType
<1>3. \E n \in 1..(k + 1) : n \notin s.open
  <2> SUFFICES ASSUME 1..(k + 1) \subseteq s.open PROVE FALSE
    OBVIOUS
  <2>1. IsFiniteSet(1..(k + 1)) /\ Cardinality(1..(k + 1)) = k + 1
    BY <1>2, FS_Interval
  <2>2. Cardinality(1..(k + 1)) <= k
    BY <1>1, FS_Subset
  <2> QED BY <1>2, <2>1, <2>2
<1>4. NewMic(s) \in 1..(k + 1)
  BY <1>1, <1>3 DEF NewMic
<1> QED BY <1>2, <1>4, FS_AddElement

-----------------------------------------------------------------------------
(* What the handlers make of a good state.                                     *)

LEMMA Reached ==
    ASSUME NEW d \in Device, NEW s, Good(d, s), NEW i \in DOMAIN s.ctxs
    PROVE  /\ GoodContext(d, s.ctxs[i]) /\ i # 0 /\ (s.cur # 0 => s.cur \in DOMAIN s.ctxs)
           /\ DOMAIN s.ctxs = 1..Len(s.ctxs) /\ Len(s.ctxs) \in Nat
<1>1. PICK S : s.ctxs \in Seq(S)
  BY DEF Good, Sequence
<1> QED BY <1>1 DEF Good

LEMMA OnwardAgain ==
    ASSUME NEW d, NEW s, NEW t, NEW u, Onward(d, s, t), Onward(d, t, u)
    PROVE  Onward(d, s, u)
BY DEF Onward

(* One context is replaced by another.                                         *)
LEMMA ContextSwapped ==
    ASSUME NEW d \in Device, NEW s, Good(d, s), NEW i \in DOMAIN s.ctxs, NEW y, GoodContext(d, y),
           NEW t, t = [s EXCEPT !.ctxs = [s.ctxs EXCEPT ![i] = y]]
    PROVE  Onward(d, s, t) /\ t.ctxs[i] = y /\ DOMAIN t.ctxs = DOMAIN s.ctxs
<1>1. /\ DOMAIN t = Fields /\ t.ctxs = [s.ctxs EXCEPT ![i] = y]
      /\ t.cur = s.cur /\ t.store = s.store /\ t.open = s.open /\ t.sdps = s.sdps
      /\ t.stash = s.stash /\ t.starts = s.starts
  BY DEF Good, Fields
<1>2. PICK S : s.ctxs \in Seq(S)
  BY DEF Good, Sequence
<1>3. Sequence(t.ctxs)
  BY <1>1, SequenceReplaced DEF Good
<1>4. Len(t.ctxs) = Len(s.ctxs)
  <2>1. s.ctxs \in Seq(S \cup {y}) /\ y \in S \cup {y}
    BY <1>2
  <2> QED BY <1>1, <2>1
<1>5. \A k \in DOMAIN t.ctxs : GoodContext(d, t.ctxs[k])
  BY <1>1 DEF Good
<1>6. DOMAIN t.ctxs = DOMAIN s.ctxs /\ t.ctxs[i] = y
  BY <1>1
<1> QED BY <1>1, <1>3, <1>4, <1>5, <1>6 DEF Good, Onward

LEMMA TimerStopped ==
    ASSUME NEW d \in Device, NEW s, Good(d, s), NEW i \in DOMAIN s.ctxs,
           NEW t, t = [s EXCEPT !.ctxs[i].timer = "off"]
    PROVE  Onward(d, s, t)
<1>1. PICK y : y = [s.ctxs[i] EXCEPT !.timer = "off"]
  OBVIOUS
<1>2. GoodContext(d, y)
  BY <1>1, Reached DEF GoodContext, ContextFields
<1>3. t = [s EXCEPT !.ctxs = [s.ctxs EXCEPT ![i] = y]]
  BY <1>1
<1> QED BY <1>2, <1>3, ContextSwapped

(* The fields that say nothing of a context.                                   *)
LEMMA FieldsAside ==
    ASSUME NEW d, NEW s, Good(d, s)
    PROVE  /\ Onward(d, s, s)
           /\ \A X \in SUBSET s.sdps : Onward(d, s, [s EXCEPT !.sdps = X])
           /\ \A X \in SUBSET s.stash : Onward(d, s, [s EXCEPT !.stash = X])
           /\ \A n \in Nat : Onward(d, s, [s EXCEPT !.starts = n])
           /\ \A n : Onward(d, s, [s EXCEPT !.accepts = n])
           /\ \A n : Onward(d, s, [s EXCEPT !.destroyed = n])
<1>1. Onward(d, s, s)
  BY DEF Onward
<1>2. ASSUME NEW X \in SUBSET s.sdps PROVE Onward(d, s, [s EXCEPT !.sdps = X])
  BY DEF Onward, Good, Fields
<1>3. ASSUME NEW X \in SUBSET s.stash PROVE Onward(d, s, [s EXCEPT !.stash = X])
  BY DEF Onward, Good, Fields
<1>4. ASSUME NEW n \in Nat PROVE Onward(d, s, [s EXCEPT !.starts = n])
  BY DEF Onward, Good, Fields
<1>5. ASSUME NEW n PROVE Onward(d, s, [s EXCEPT !.accepts = n]) /\ Onward(d, s, [s EXCEPT !.destroyed = n])
  BY DEF Onward, Good, Fields
<1> QED BY <1>1, <1>2, <1>3, <1>4, <1>5

LEMMA StopsAndClears ==
    ASSUME NEW d \in Device, NEW s, Good(d, s)
    PROVE  /\ \A c : Onward(d, s, Forget(s, c)) /\ Onward(d, s, Cleared(s))
           /\ \A c : Onward(d, s, TimerOff(s, c))
           /\ \A c : s.cur # 0 => Onward(d, s, Elsewhere(s, c))
<1>0. \A u : Good(d, u) => Onward(d, u, Cleared(u))
  BY DEF Onward, Good, Fields, Cleared, Idle, StoreType
<1>1. ASSUME NEW c PROVE Onward(d, s, Forget(s, c))
  BY DEF Onward, Good, Fields, Forget
<1>2. ASSUME NEW c PROVE Onward(d, s, TimerOff(s, c))
  BY TimerStopped, FieldsAside, Reached DEF TimerOff, InCall, Good
<1>3. ASSUME NEW c, s.cur # 0 PROVE Onward(d, s, Elsewhere(s, c))
  <2>1. PICK u : u = [s EXCEPT !.ctxs[s.cur].timer = "off"]
    OBVIOUS
  <2>2. Onward(d, s, u)
    BY <1>3, <2>1, TimerStopped DEF Good
  <2>3. PICK v : v = [u EXCEPT !.sdps = {x \in u.sdps : x.call # c}]
    OBVIOUS
  <2>4. Onward(d, u, v)
    BY <2>2, <2>3, FieldsAside DEF Onward
  <2>5. Elsewhere(s, c) = Cleared(v)
    <3>1. v = [s EXCEPT !.ctxs[s.cur].timer = "off", !.sdps = {x \in @ : x.call # c}]
      BY <2>1, <2>3 DEF Good, Fields
    <3> QED BY <3>1 DEF Elsewhere
  <2>6. Onward(d, v, Cleared(v))
    BY <1>0, <2>4 DEF Onward
  <2> QED BY <2>2, <2>4, <2>5, <2>6, OnwardAgain
<1> QED BY <1>0, <1>1, <1>2, <1>3

LEMMA TornDownGood ==
    ASSUME NEW d \in Device, NEW s, Good(d, s), NEW i \in DOMAIN s.ctxs
    PROVE  Onward(d, s, Teardown(s, i))
<1>1. PICK y : y = [s.ctxs[i] EXCEPT !.timer = "off", !.legs = <<>>, !.mic = 0]
  OBVIOUS
<1>2. GoodContext(d, y)
  BY <1>1, Reached, LegMaps DEF GoodContext, ContextFields
<1>3. PICK u : u = [s EXCEPT !.ctxs = [s.ctxs EXCEPT ![i] = y]]
  OBVIOUS
<1>4. Onward(d, s, u) /\ DOMAIN u.ctxs = DOMAIN s.ctxs
  BY <1>2, <1>3, ContextSwapped
<1>5. PICK t : t = Teardown(s, i)
  OBVIOUS
<1>6. /\ DOMAIN t = Fields /\ t.ctxs = u.ctxs /\ t.store = Idle /\ t.cur \in {0, s.cur}
      /\ t.sdps \subseteq s.sdps /\ t.stash \subseteq s.stash /\ t.starts = s.starts
      /\ t.open \subseteq s.open /\ (t.open = s.open \ {s.ctxs[i].mic})
  BY <1>1, <1>3, <1>5 DEF Teardown, Forget, Good, Fields
<1>7. IsFiniteSet(t.open)
  BY <1>6, FS_Subset DEF Good
<1>8. t.store \in StoreType /\ t.store.shows = "idle"
  BY <1>6 DEF Idle, StoreType
<1> QED BY <1>4, <1>5, <1>6, <1>7, <1>8 DEF Onward, Good

LEMMA LegAdded ==
    ASSUME NEW d \in Device, NEW s, Good(d, s), s.cur # 0, NEW p \in Peers(d), NEW e \in Session
    PROVE  Onward(d, s, WithSession(s, p, e))
<1>1. PICK legs : legs = [q \in DOMAIN s.ctxs[s.cur].legs \cup {p} |->
                            IF q = p THEN e ELSE s.ctxs[s.cur].legs[q]]
  OBVIOUS
<1>2. PICK y : y = [s.ctxs[s.cur] EXCEPT !.legs = legs]
  OBVIOUS
<1>3. s.cur \in DOMAIN s.ctxs /\ GoodContext(d, s.ctxs[s.cur])
  BY Reached DEF Good
<1>4. legs \in LegMap(d)
  BY <1>1, <1>3, LegMaps DEF GoodContext
<1>5. GoodContext(d, y)
  BY <1>2, <1>3, <1>4 DEF GoodContext, ContextFields
<1>6. WithSession(s, p, e) = [s EXCEPT !.ctxs = [s.ctxs EXCEPT ![s.cur] = y]]
  BY <1>1, <1>2, <1>3 DEF WithSession
<1> QED BY <1>3, <1>5, <1>6, ContextSwapped

LEMMA Sessions ==
    /\ Offering \in Session /\ \A e \in Device : Answering(e) \in Session
BY DEF Offering, Answering, Session

LEMMA LegsGood ==
    ASSUME NEW d \in Device, NEW s, Good(d, s)
    PROVE  /\ \A i : \A p \in Peers(d) : NoOfferTo(s, i, p) \/ s.cur # 0 => Onward(d, s, OfferTo(s, i, p))
           /\ \A i \in DOMAIN s.ctxs : \A m :
                 /\ m.from \in Device /\ OwnerOf[m.from] \in Peers(d)
                 /\ NoOfferTo(s, i, OwnerOf[m.from]) \/ s.cur # 0
                 => Onward(d, s, MeshAnswer(s, i, m))
           /\ \A i \in DOMAIN s.ctxs : \A p : Onward(d, s, WithoutSession(s, i, p))
<1>1. ASSUME NEW i, NEW p \in Peers(d), NoOfferTo(s, i, p) \/ s.cur # 0
      PROVE  Onward(d, s, OfferTo(s, i, p))
  BY <1>1, LegAdded, Sessions, FieldsAside DEF OfferTo
<1>2. ASSUME NEW i \in DOMAIN s.ctxs, NEW m, m.from \in Device, OwnerOf[m.from] \in Peers(d),
             NoOfferTo(s, i, OwnerOf[m.from]) \/ s.cur # 0
      PROVE  Onward(d, s, MeshAnswer(s, i, m))
  <2>1. CASE NoOfferTo(s, i, OwnerOf[m.from])
    BY <2>1, FieldsAside DEF MeshAnswer
  <2>2. CASE ~NoOfferTo(s, i, OwnerOf[m.from])
    <3>1. PICK p, e : p = OwnerOf[m.from] /\ e = Answering(m.from)
      OBVIOUS
    <3>2. PICK y : y = [s.ctxs[i] EXCEPT !.peers = @ \cup {p}]
      OBVIOUS
    <3>3. GoodContext(d, y)
      BY <1>2, <3>1, <3>2, Reached DEF GoodContext, ContextFields
    <3>4. PICK t : t = [s EXCEPT !.ctxs = [s.ctxs EXCEPT ![i] = y]]
      OBVIOUS
    <3>5. Onward(d, s, t) /\ t.cur = s.cur
      <4>1. t.cur = s.cur
        BY <3>4 DEF Good, Fields
      <4> QED BY <3>3, <3>4, <4>1, ContextSwapped
    <3>6. Onward(d, t, WithSession(t, p, e))
      BY <1>2, <2>2, <3>1, <3>5, LegAdded, Sessions DEF Onward
    <3>7. MeshAnswer(s, i, m) = WithSession(t, p, e)
      BY <2>2, <3>1, <3>2, <3>4 DEF MeshAnswer
    <3> QED BY <3>5, <3>6, <3>7, OnwardAgain
  <2> QED BY <2>1, <2>2
<1>3. ASSUME NEW i \in DOMAIN s.ctxs, NEW p PROVE Onward(d, s, WithoutSession(s, i, p))
  <2>1. PICK legs : legs = [q \in DOMAIN s.ctxs[i].legs \ {p} |-> s.ctxs[i].legs[q]]
    OBVIOUS
  <2>2. PICK y : y = [s.ctxs[i] EXCEPT !.legs = legs, !.peers = @ \ {p}]
    OBVIOUS
  <2>3. GoodContext(d, s.ctxs[i]) /\ legs \in LegMap(d)
    BY <2>1, Reached, LegMaps DEF GoodContext
  <2>4. GoodContext(d, y)
    BY <2>2, <2>3 DEF GoodContext, ContextFields
  <2>5. PICK t : t = [s EXCEPT !.ctxs = [s.ctxs EXCEPT ![i] = y]]
    OBVIOUS
  <2>6. Onward(d, s, t) /\ i \in DOMAIN t.ctxs
    BY <2>4, <2>5, ContextSwapped
  <2>7. t = [s EXCEPT !.ctxs[i].legs = legs, !.ctxs[i].peers = @ \ {p}]
    BY <2>2, <2>5 DEF Good, Fields
  <2>8. WithoutSession(s, i, p) \in {t, Teardown(t, i)}
    BY <2>1, <2>7 DEF WithoutSession
  <2>9. Onward(d, t, Teardown(t, i))
    BY <2>6, TornDownGood DEF Onward
  <2> QED BY <2>6, <2>8, <2>9, OnwardAgain
<1> QED BY <1>1, <1>2, <1>3

-----------------------------------------------------------------------------
(* What is sent, and the roster of an offer.                                   *)

LEMMA SentGood ==
    ASSUME NEW d \in Device, NEW c, NEW P
    PROVE  /\ \A kind \in {"answer", "reject", "hangup", "renegotiate"} : \A sdp, named :
                 \A m \in Wrapped(kind, c, d, P, sdp, named) : GoodEvent(m)
           /\ \A named \in SUBSET Pubkey : c \in CallId /\ P \subseteq Peers(d) =>
                 \A m \in Offers(c, d, P, named) : GoodEvent(m)
<1>1. ASSUME NEW kind \in {"answer", "reject", "hangup", "renegotiate"}, NEW sdp, NEW named,
             NEW m \in Wrapped(kind, c, d, P, sdp, named)
      PROVE  GoodEvent(m)
  BY <1>1 DEF Wrapped, Event, GoodEvent
<1>2. ASSUME NEW named \in SUBSET Pubkey, c \in CallId, P \subseteq Peers(d),
             NEW m \in Offers(c, d, P, named)
      PROVE  GoodEvent(m)
  <2>1. PICK p \in P : m \in Wrapped("offer", c, d, {p}, [from |-> d, to |-> p, gen |-> 0], named)
    BY DEF Offers
  <2>2. PICK sdp : sdp = [from |-> d, to |-> p, gen |-> 0]
    OBVIOUS
  <2>3. sdp \in Sdp
    BY <1>2, <2>2 DEF Sdp, Peers
  <2>4. PICK e \in Device : OwnerOf[e] = p /\ m = Event("offer", c, d, e, sdp, named)
    BY <2>1, <2>2 DEF Wrapped
  <2>5. OwnerOf[d] # p
    BY <1>2 DEF Peers
  <2> QED BY <1>2, <2>3, <2>4, <2>5 DEF Event, GoodEvent
<1> QED BY <1>1, <1>2

LEMMA LegEventsGood ==
    ASSUME NEW d \in Device, NEW s, Good(d, s), NEW i \in DOMAIN s.ctxs
    PROVE  /\ \A p \in Peers(d) : \A m \in OfferEvents(s, d, i, p) : GoodEvent(m)
           /\ \A x : \A m \in MeshAnswerEvents(s, d, i, x) : GoodEvent(m)
<1>1. s.ctxs[i].call \in CallId /\ s.ctxs[i].peers \in SUBSET Pubkey
  BY Reached DEF GoodContext, Peers
<1> QED BY <1>1, SentGood DEF OfferEvents, MeshAnswerEvents

(* The roster is one of the groups, or the two of us.                          *)
LEMMA RosterGood ==
    ASSUME IsFiniteSet(Pubkey), NEW d \in Device, NEW m, GoodEvent(m), m.kind = "offer", m.to = d
    PROVE  /\ Roster(d, m) \subseteq Pubkey /\ OfferPeers(d, m) \subseteq Peers(d)
           /\ OfferPeers(d, m) \subseteq Roster(d, m)
<1> DEFINE named == m.named \cup {OwnerOf[m.from]}
           own == {g \in Groups : {OwnerOf[d], OwnerOf[m.from]} \subseteq g}
<1>1. OwnerOf[m.from] \in Pubkey /\ OwnerOf[d] \in Pubkey /\ OwnerOf[m.from] # OwnerOf[d]
  BY DevicesAssumption DEF GoodEvent
<1>2. named \subseteq Pubkey /\ IsFiniteSet(named)
  BY <1>1, FS_Subset DEF GoodEvent
<1>3. Roster(d, m) \subseteq Pubkey /\ OwnerOf[m.from] \in Roster(d, m)
  <2>1. CASE own = {}
    BY <1>1, <2>1 DEF Roster
  <2>2. CASE own # {}
    <3>1. PICK N : N = Cardinality(named) /\ N \in Nat
      BY <1>2, FS_CardinalityType
    <3>2. \A g \in own : Cardinality(named \cap g) \in 0..N
      <4> SUFFICES ASSUME NEW g \in own PROVE Cardinality(named \cap g) \in 0..N
        OBVIOUS
      <4>1. named \cap g \in SUBSET named
        OBVIOUS
      <4> HIDE DEF named, own
      <4> QED BY <1>2, <3>1, <4>1, FS_Subset, FS_CardinalityType
    <3> DEFINE Missing == {N - Cardinality(named \cap g) : g \in own}
    <3>3. Missing \subseteq Nat /\ Missing # {}
      <4>1. ASSUME NEW g \in own PROVE N - Cardinality(named \cap g) \in Nat
        <5> HIDE DEF named, own
        <5> QED BY <3>1, <3>2
      <4> HIDE DEF named, own
      <4> QED BY <2>2, <4>1
    <3>4. PICK x \in Missing : \A y \in Missing : ~ (<<y, x>> \in OpToRel(<, Nat))
      <4> HIDE DEF Missing
      <4> QED BY <3>3, NatLessThanWellFounded, WFMin, Zenon
    <3>5. \A y \in Missing : ~ (y < x)
      BY <3>3, <3>4, Zenon DEF OpToRel
    <3>6. PICK g \in own : x = N - Cardinality(named \cap g)
      OBVIOUS
    <3>7. \A h \in own : Cardinality(named \cap h) <= Cardinality(named \cap g)
      <4> SUFFICES ASSUME NEW h \in own
                   PROVE  Cardinality(named \cap h) <= Cardinality(named \cap g)
        OBVIOUS
      <4>1. ~ (N - Cardinality(named \cap h) < N - Cardinality(named \cap g))
        BY <3>5, <3>6
      <4>2. Cardinality(named \cap h) \in 0..N /\ Cardinality(named \cap g) \in 0..N
        BY <3>2
      <4> HIDE DEF named, own
      <4> QED BY <3>1, <4>1, <4>2
    <3>8. Roster(d, m) = CHOOSE g2 \in own : \A h \in own :
                            Cardinality(named \cap h) <= Cardinality(named \cap g2)
      BY <2>2 DEF Roster
    <3>9. Roster(d, m) \in own
      <4> HIDE DEF named, own
      <4> QED BY <3>7, <3>8
    <3> QED BY <3>9, DevicesAssumption
  <2> QED BY <2>1, <2>2
<1> HIDE DEF named, own
<1>4. OfferPeers(d, m) \subseteq Peers(d) /\ OfferPeers(d, m) \subseteq Roster(d, m)
  BY <1>1, <1>3 DEF OfferPeers, Peers
<1> QED BY <1>3, <1>4

-----------------------------------------------------------------------------
(* The steps.                                                                  *)

LEMMA JobsOnward ==
    ASSUME NEW d, NEW s, NEW t, Onward(d, s, t), NEW j, GoodJob(d, s, j)
    PROVE  GoodJob(d, t, j)
BY DEF GoodJob, Onward

LEMMA GoodStep ==
    ASSUME TypeInv, NEW d \in Device, NEW t, NEW J,
           dev' = [dev EXCEPT ![d] = t], jobs' = [jobs EXCEPT ![d] = J],
           Onward(d, dev[d], t), \A j \in J : j \in jobs[d] \/ GoodJob(d, t, j),
           \A m \in net' : m \in net \/ GoodEvent(m)
    PROVE  TypeInv'
<1>1. /\ dev' = [e \in Device |-> dev'[e]] /\ jobs' = [e \in Device |-> jobs'[e]]
      /\ dev'[d] = t /\ jobs'[d] = J
  BY DEF TypeInv
<1>2. \A e \in Device : e # d => dev'[e] = dev[e] /\ jobs'[e] = jobs[e]
  BY DEF TypeInv
<1>3. \A m \in net' : GoodEvent(m)
  BY DEF TypeInv
<1>4. Good(d, t) /\ \A j \in J : GoodJob(d, t, j)
  BY JobsOnward DEF TypeInv, Onward
<1>5. ASSUME NEW e \in Device PROVE Good(e, dev'[e]) /\ \A j \in jobs'[e] : GoodJob(e, dev'[e], j)
  BY <1>1, <1>2, <1>4 DEF TypeInv
<1> QED BY <1>1, <1>3, <1>5 DEF TypeInv

LEMMA HereGood ==
    ASSUME TypeInv, NEW d \in Device
    PROVE  /\ dev' = dev => dev' = [dev EXCEPT ![d] = dev[d]]
           /\ jobs' = jobs => jobs' = [jobs EXCEPT ![d] = jobs[d]]
           /\ d \in DOMAIN dev /\ d \in DOMAIN jobs
           /\ Good(d, dev[d]) /\ \A j \in jobs[d] : GoodJob(d, dev[d], j)
           /\ Onward(d, dev[d], dev[d])
BY FieldsAside DEF TypeInv

(* declineCall and hangup up to their publishes.                               *)
LEMMA DecliningGood ==
    ASSUME TypeInv, NEW d \in Device, NEW c, NEW J, Declining(d, c, J), J \subseteq jobs[d],
           NEW t
    PROVE  \E K : /\ jobs' = [jobs EXCEPT ![d] = K]
                  /\ \A j \in K : j \in jobs[d] \/ GoodJob(d, t, j)
                  /\ \A m \in net' : m \in net \/ GoodEvent(m)
<1>1. CASE jobs' = [jobs EXCEPT ![d] = J] /\ UNCHANGED net
  BY <1>1
<1>2. CASE /\ jobs' = [jobs EXCEPT ![d] = J \cup {[op |-> "decline", call |-> c]}]
           /\ Publish(Wrapped("reject", c, d, dev[d].ctxs[dev[d].cur].peers \cup {OwnerOf[d]}, NoLeg, {}))
  <2>1. PICK k : k = [op |-> "decline", call |-> c]
    OBVIOUS
  <2>2. GoodJob(d, t, k)
    BY <2>1 DEF GoodJob
  <2>3. \A m \in net' : m \in net \/ GoodEvent(m)
    BY <1>2, SentGood DEF Publish
  <2> QED BY <1>2, <2>1, <2>2, <2>3
<1> QED BY <1>1, <1>2 DEF Declining

LEMMA HangingUpGood ==
    ASSUME TypeInv, NEW d \in Device, HangingUp(d), NEW t, Onward(d, dev[d], t)
    PROVE  \E K : /\ jobs' = [jobs EXCEPT ![d] = K]
                  /\ \A j \in K : j \in jobs[d] \/ GoodJob(d, t, j)
                  /\ \A m \in net' : m \in net \/ GoodEvent(m)
<1>1. CASE UNCHANGED <<jobs, net>>
  BY <1>1, HereGood
<1>2. CASE /\ dev[d].cur # 0
           /\ jobs' = [jobs EXCEPT ![d] = @ \cup {[op |-> "hangup", ctx |-> dev[d].cur]}]
           /\ Publish(Wrapped("hangup", dev[d].ctxs[dev[d].cur].call, d,
                              dev[d].ctxs[dev[d].cur].peers, NoLeg, {}))
  <2>1. PICK k : k = [op |-> "hangup", ctx |-> dev[d].cur]
    OBVIOUS
  <2>2. dev[d].cur \in DOMAIN dev[d].ctxs
    BY <1>2 DEF TypeInv, Good
  <2>3. GoodJob(d, t, k)
    BY <2>1, <2>2 DEF GoodJob, Onward
  <2>4. \A m \in net' : m \in net \/ GoodEvent(m)
    BY <1>2, SentGood DEF Publish
  <2>5. jobs' = [jobs EXCEPT ![d] = jobs[d] \cup {k}]
    BY <1>2, <2>1, HereGood
  <2> QED BY <2>3, <2>4, <2>5
<1> QED BY <1>1, <1>2 DEF HangingUp

LEMMA UserGood ==
    ASSUME TypeInv, NEW d \in Device, User(d)
    PROVE  TypeInv'
<1>0. PICK s : s = dev[d]
  OBVIOUS
<1>h. /\ Good(d, s) /\ Onward(d, s, s) /\ d \in DOMAIN dev /\ d \in DOMAIN jobs
  BY <1>0, HereGood
<1>1. CASE StartCall(d)
  <2>1. PICK targets \in Targets :
          /\ OwnerOf[d] \notin targets /\ s.starts < MaxStarts
          /\ dev' = [dev EXCEPT ![d] = [s EXCEPT !.starts = s.starts + 1]]
          /\ jobs' = [jobs EXCEPT ![d] = jobs[d] \cup
                {[op |-> "start", call |-> [by |-> d, n |-> s.starts + 1], targets |-> targets]}]
          /\ net' = net
    BY <1>0, <1>h, <1>1 DEF StartCall
  <2>2. PICK k : k = [op |-> "start", call |-> [by |-> d, n |-> s.starts + 1], targets |-> targets]
    OBVIOUS
  <2>3. s.starts + 1 \in 1..MaxStarts /\ s.starts + 1 \in Nat
    BY <1>h, <2>1, DevicesAssumption DEF Good
  <2>4. k.op = "start" /\ k.call \in CallId /\ k.targets \subseteq Peers(d)
    <3>1. targets \subseteq Peers(d)
      BY <2>1, DevicesAssumption DEF Peers
    <3>2. [by |-> d, n |-> s.starts + 1] \in CallId
      BY <2>3 DEF CallId
    <3> QED BY <2>2, <3>1, <3>2
  <2>5. PICK t : t = [s EXCEPT !.starts = s.starts + 1]
    OBVIOUS
  <2>6. Onward(d, s, t) /\ GoodJob(d, t, k)
    BY <1>h, <2>3, <2>4, <2>5, FieldsAside DEF GoodJob
  <2>7. PICK J : J = jobs[d] \cup {k}
    OBVIOUS
  <2>8. dev' = [dev EXCEPT ![d] = t] /\ jobs' = [jobs EXCEPT ![d] = J] /\ net' = net
    BY <2>1, <2>2, <2>5, <2>7
  <2> QED BY <1>0, <2>6, <2>7, <2>8, GoodStep
<1>2. CASE AcceptCall(d)
  <2>1. s.cur \in DOMAIN s.ctxs /\ s.cur # 0
    BY <1>0, <1>h, <1>2 DEF AcceptCall, Ringing, InCall, Good
  <2>2. PICK u : u = [s EXCEPT !.ctxs[s.cur].timer = "off"]
    OBVIOUS
  <2>3. Onward(d, s, u)
    BY <1>h, <2>1, <2>2, TimerStopped
  <2>4. PICK t : t = [u EXCEPT !.accepts = @ + 1]
    OBVIOUS
  <2>5. Onward(d, s, t)
    <3>1. Onward(d, u, t)
      BY <2>3, <2>4, FieldsAside DEF Onward
    <3> QED BY <2>3, <3>1, OnwardAgain
  <2>6. PICK k : k = [op |-> "accept", at |-> "media", ctx |-> s.cur, click |-> s.accepts,
                      todo |-> {}]
    OBVIOUS
  <2>7. GoodJob(d, t, k)
    BY <2>1, <2>5, <2>6 DEF GoodJob, Onward
  <2>8. /\ dev' = [dev EXCEPT ![d] = t] /\ jobs' = [jobs EXCEPT ![d] = jobs[d] \cup {k}]
        /\ net' = net
    BY <1>0, <1>h, <1>2, <2>2, <2>4, <2>6 DEF AcceptCall
  <2> QED BY <1>0, <2>5, <2>7, <2>8, GoodStep
<1>3. CASE DeclineCall(d)
  <2>1. PICK t : t = TimerOff(s, s.store.call)
    OBVIOUS
  <2>2. dev' = [dev EXCEPT ![d] = t] /\ Declining(d, s.store.call, jobs[d])
    BY <1>0, <1>h, <1>3, <2>1 DEF DeclineCall
  <2>3. Onward(d, s, t)
    BY <1>h, <2>1, StopsAndClears
  <2>4. PICK K : /\ jobs' = [jobs EXCEPT ![d] = K]
                 /\ \A j \in K : j \in jobs[d] \/ GoodJob(d, t, j)
                 /\ \A m \in net' : m \in net \/ GoodEvent(m)
    BY <2>2, DecliningGood
  <2> QED BY <1>0, <2>2, <2>3, <2>4, GoodStep
<1>4. CASE Hangup(d)
  <2>1. HangingUp(d) /\ dev' = [dev EXCEPT ![d] = s]
    BY <1>0, <1>4, HereGood DEF Hangup
  <2>2. PICK K : /\ jobs' = [jobs EXCEPT ![d] = K]
                 /\ \A j \in K : j \in jobs[d] \/ GoodJob(d, s, j)
                 /\ \A m \in net' : m \in net \/ GoodEvent(m)
    BY <1>0, <1>h, <2>1, HangingUpGood
  <2> QED BY <1>0, <1>h, <2>1, <2>2, GoodStep
<1>5. CASE Destroy(d)
  <2>1. PICK u : u = [s EXCEPT !.destroyed = TRUE]
    OBVIOUS
  <2>2. Onward(d, s, u) /\ u.cur = s.cur
    BY <1>h, <2>1, FieldsAside DEF Good, Fields
  <2>3. PICK v : v = IF s.cur = 0 THEN u ELSE Teardown(u, u.cur)
    OBVIOUS
  <2>4. Onward(d, s, v)
    <3>1. CASE s.cur = 0
      BY <2>2, <2>3, <3>1
    <3>2. CASE s.cur # 0
      <4>1. u.cur \in DOMAIN u.ctxs
        BY <2>2, <3>2 DEF Onward, Good
      <4> QED BY <2>2, <2>3, <3>2, <4>1, TornDownGood, OnwardAgain DEF Onward
    <3> QED BY <3>1, <3>2
  <2>5. PICK w : w = [v EXCEPT !.sdps = {}]
    OBVIOUS
  <2>6. Onward(d, v, w)
    BY <2>4, <2>5, FieldsAside DEF Onward
  <2>7. PICK t : t = [w EXCEPT !.stash = {}]
    OBVIOUS
  <2>8. Onward(d, w, t)
    BY <2>6, <2>7, FieldsAside DEF Onward
  <2>9. Onward(d, s, t)
    BY <2>4, <2>6, <2>8, OnwardAgain
  <2>10. dev' = [dev EXCEPT ![d] = t] /\ jobs' = jobs /\ net' = net
    <3>1. t = [v EXCEPT !.sdps = {}, !.stash = {}]
      BY <2>5, <2>7
    <3>2. v = IF u.cur = 0 THEN u ELSE Teardown(u, u.cur)
      BY <2>2, <2>3
    <3> QED BY <1>0, <1>5, <2>1, <3>1, <3>2 DEF Destroy
  <2> QED BY <1>0, <2>9, <2>10, HereGood, GoodStep
<1> QED BY <1>1, <1>2, <1>3, <1>4, <1>5 DEF User

(* A context more, which becomes the current one.                               *)
LEMMA ContextAdded ==
    ASSUME NEW d \in Device, NEW s, Good(d, s), Len(s.ctxs) < MaxContexts,
           NEW c, GoodContext(d, c),
           NEW t, DOMAIN t = Fields, t.ctxs = Append(s.ctxs, c), t.cur = Len(s.ctxs) + 1,
           t.store \in StoreType, t.store.shows = "incoming" => t.store.caller \in Peers(d),
           IsFiniteSet(t.open), t.sdps \subseteq SdpRecord, t.stash = s.stash, t.starts = s.starts
    PROVE  Onward(d, s, t) /\ Len(s.ctxs) + 1 \in DOMAIN t.ctxs
<1>1. PICK S : s.ctxs \in Seq(S)
  BY DEF Good, Sequence
<1>2. s.ctxs \in Seq(S \cup {c}) /\ c \in S \cup {c}
  BY <1>1
<1>3. /\ t.ctxs \in Seq(S \cup {c}) /\ Len(t.ctxs) = Len(s.ctxs) + 1
      /\ DOMAIN t.ctxs = 1..(Len(s.ctxs) + 1) /\ DOMAIN s.ctxs = 1..Len(s.ctxs)
      /\ Len(s.ctxs) \in Nat
      /\ \A i \in DOMAIN t.ctxs : (i \in DOMAIN s.ctxs /\ t.ctxs[i] = s.ctxs[i]) \/ t.ctxs[i] = c
  BY <1>2
<1>4. \A i \in DOMAIN t.ctxs : GoodContext(d, t.ctxs[i])
  BY <1>3 DEF Good
<1>5. Sequence(t.ctxs)
  BY <1>3 DEF Sequence
<1>6. Len(t.ctxs) <= MaxContexts /\ t.cur \in DOMAIN t.ctxs /\ t.cur # 0
      /\ DOMAIN s.ctxs \subseteq DOMAIN t.ctxs
  BY <1>3, DevicesAssumption
<1>7. \A x \in t.stash : OwnerOf[x.from] # OwnerOf[d]
  BY DEF Good
<1>8. t.stash \subseteq StashRecord /\ t.starts \in Nat
  BY DEF Good
<1> QED BY <1>4, <1>5, <1>6, <1>7, <1>8 DEF Good, Onward

LEMMA StartGood ==
    ASSUME TypeInv, NEW d \in Device, NEW j \in jobs[d], MediaForStart(d, j)
    PROVE  TypeInv'
<1>0. PICK s : s = dev[d]
  OBVIOUS
<1>h. /\ Good(d, s) /\ d \in DOMAIN dev /\ d \in DOMAIN jobs
  BY <1>0, HereGood
<1>1. PICK mic : mic = NewMic(s)
  OBVIOUS
<1>2. PICK x : x = NewContext(j.call, "active", j.targets \cup {OwnerOf[d]}, j.targets, "dial", mic)
  OBVIOUS
<1>3. PICK legs : legs = [p \in j.targets |-> Offering]
  OBVIOUS
<1>4. PICK c : c = [x EXCEPT !.legs = legs]
  OBVIOUS
<1>5. PICK t : t = [s EXCEPT !.ctxs = Append(@, c), !.cur = Len(s.ctxs) + 1,
                    !.open = @ \cup {mic}, !.store = Shows("active", j.call, Nobody)]
  OBVIOUS
<1>6. dev' = [dev EXCEPT ![d] = t] /\ Len(s.ctxs) < MaxContexts /\ j.op = "start"
      /\ Publish(Offers(j.call, d, j.targets, j.targets))
  BY <1>0, <1>1, <1>2, <1>3, <1>4, <1>5 DEF MediaForStart, Running
<1>7. j.call \in CallId /\ j.targets \subseteq Peers(d) /\ mic \in Nat /\ OwnerOf[d] \in Pubkey
      /\ IsFiniteSet(s.open \cup {mic})
  BY <1>0, <1>1, <1>6, StreamNumber, DevicesAssumption DEF TypeInv, GoodJob, Good
<1>8. legs \in LegMap(d)
  BY <1>3, <1>7, LegMaps, Sessions
<1>9. GoodContext(d, c)
  <2>1. /\ DOMAIN x = ContextFields /\ x.call = j.call /\ x.phase = "active"
        /\ x.roster = j.targets \cup {OwnerOf[d]} /\ x.peers = j.targets
        /\ x.retried = {} /\ x.renegotiating = {} /\ x.mic = mic /\ x.timer = "dial"
    BY <1>2 DEF NewContext, ContextFields
  <2>2. x.roster \subseteq Pubkey
    BY <1>7, <2>1 DEF Peers
  <2> QED BY <1>4, <1>7, <1>8, <2>1, <2>2 DEF GoodContext, ContextFields
<1>10. /\ DOMAIN t = Fields /\ t.ctxs = Append(s.ctxs, c) /\ t.cur = Len(s.ctxs) + 1
       /\ t.open = s.open \cup {mic} /\ t.store = Shows("active", j.call, Nobody)
       /\ t.sdps = s.sdps /\ t.stash = s.stash /\ t.starts = s.starts
  BY <1>5, <1>h DEF Good, Fields
<1>11. t.store \in StoreType /\ t.store.shows = "active"
  BY <1>7, <1>10 DEF Shows, StoreType
<1>12. t.sdps \subseteq SdpRecord
  BY <1>10, <1>h DEF Good
<1>13. Onward(d, s, t) /\ Len(s.ctxs) + 1 \in DOMAIN t.ctxs
  BY <1>h, <1>6, <1>7, <1>9, <1>10, <1>11, <1>12, ContextAdded
<1>14. PICK k : k = [op |-> "dial", ctx |-> Len(s.ctxs) + 1]
  OBVIOUS
<1>15. GoodJob(d, t, k)
  BY <1>13, <1>14 DEF GoodJob
<1>16. PICK J : jobs' = [jobs EXCEPT ![d] = J] /\ J \subseteq jobs[d] \cup {k}
  <2>1. jobs' = [jobs EXCEPT ![d] = jobs[d] \ {j}] \/ jobs' = [jobs EXCEPT ![d] = (jobs[d] \ {j}) \cup {k}]
    BY <1>0, <1>h, <1>14 DEF MediaForStart, Become, Finish
  <2> QED BY <2>1
<1>17. \A m \in net' : m \in net \/ GoodEvent(m)
  <2>1. j.targets \in SUBSET Pubkey
    BY <1>7 DEF Peers
  <2> QED BY <1>6, <1>7, <2>1, SentGood DEF Publish
<1> QED BY <1>0, <1>6, <1>13, <1>15, <1>16, <1>17, GoodStep

LEMMA RosterStep ==
    ASSUME IsFiniteSet(Pubkey), TypeInv, NEW d \in Device, NEW j \in jobs[d], RosterResolved(d, j)
    PROVE  TypeInv'
<1>0. PICK s, m : s = dev[d] /\ m = j.offer
  OBVIOUS
<1>h. /\ Good(d, s) /\ d \in DOMAIN dev /\ d \in DOMAIN jobs
  BY <1>0, HereGood
<1>1. PICK c : c = NewContext(m.call, "ringing", Roster(d, m), OfferPeers(d, m), "ring", 0)
  OBVIOUS
<1>2. PICK y : y = [call |-> m.call, sdp |-> m.sdp]
  OBVIOUS
<1>3. PICK X : X = {x \in s.sdps : x.call # m.call} \cup {y}
  OBVIOUS
<1>4. PICK t : t = [s EXCEPT !.sdps = X, !.ctxs = Append(@, c), !.cur = Len(s.ctxs) + 1,
                    !.store = Shows("incoming", m.call, OwnerOf[m.from])]
  OBVIOUS
<1>5. dev' = [dev EXCEPT ![d] = t] /\ Len(s.ctxs) < MaxContexts /\ j.op = "roster" /\ net' = net
  BY <1>0, <1>1, <1>2, <1>3, <1>4 DEF RosterResolved, Running
<1>6. GoodEvent(m) /\ m.kind = "offer" /\ m.to = d
  BY <1>0, <1>5 DEF TypeInv, GoodJob
<1>7. m.call \in CallId /\ m.sdp \in Sdp /\ OwnerOf[m.from] \in Peers(d)
  BY <1>6, DevicesAssumption DEF GoodEvent, Peers
<1>8. Roster(d, m) \subseteq Pubkey /\ OfferPeers(d, m) \subseteq Peers(d)
  BY <1>6, RosterGood
<1>9. GoodContext(d, c)
  <2>1. /\ DOMAIN c = ContextFields /\ c.call = m.call /\ c.phase = "ringing"
        /\ c.roster = Roster(d, m) /\ c.peers = OfferPeers(d, m) /\ c.legs = <<>>
        /\ c.retried = {} /\ c.renegotiating = {} /\ c.mic = 0 /\ c.timer = "ring"
    BY <1>1 DEF NewContext, ContextFields
  <2> QED BY <1>7, <1>8, <2>1, LegMaps DEF GoodContext
<1>10. /\ DOMAIN t = Fields /\ t.ctxs = Append(s.ctxs, c) /\ t.cur = Len(s.ctxs) + 1
       /\ t.open = s.open /\ t.store = Shows("incoming", m.call, OwnerOf[m.from])
       /\ t.sdps = X /\ t.stash = s.stash /\ t.starts = s.starts
  BY <1>4, <1>h DEF Good, Fields
<1>11. t.store \in StoreType /\ t.store.caller \in Peers(d)
  BY <1>7, <1>10 DEF Shows, StoreType, Peers
<1>12. t.sdps \subseteq SdpRecord
  <2>1. y \in SdpRecord
    BY <1>2, <1>7 DEF SdpRecord
  <2> QED BY <1>3, <1>10, <1>h, <2>1 DEF Good
<1>13. IsFiniteSet(t.open)
  BY <1>10, <1>h DEF Good
<1>14. Onward(d, s, t)
  BY <1>h, <1>5, <1>9, <1>10, <1>11, <1>12, <1>13, ContextAdded
<1>15. PICK J : J = jobs[d] \ {j}
  OBVIOUS
<1>16. jobs' = [jobs EXCEPT ![d] = J] /\ \A k \in J : k \in jobs[d]
  BY <1>h, <1>15 DEF RosterResolved, Finish
<1> QED BY <1>0, <1>5, <1>14, <1>16, GoodStep

LEMMA MediaGood ==
    ASSUME TypeInv, NEW d \in Device, NEW j \in jobs[d], MediaForAccept(d, j)
    PROVE  TypeInv'
<1>0. PICK s : s = dev[d]
  OBVIOUS
<1>h. /\ Good(d, s) /\ GoodJob(d, s, j) /\ d \in DOMAIN dev /\ d \in DOMAIN jobs
  BY <1>0, HereGood
<1>1. PICK mic, i, c : mic = NewMic(s) /\ i = j.ctx /\ c = s.ctxs[j.ctx].call
  OBVIOUS
<1>2. PICK u : u = [s EXCEPT !.ctxs[i].phase = "active", !.ctxs[i].mic = mic,
                       !.open = @ \cup {mic}, !.sdps = {x \in @ : x.call # c},
                       !.store = Shows("active", c, Nobody)]
  OBVIOUS
<1>3. PICK k : k = [j EXCEPT !.at = "answer", !.todo = s.ctxs[j.ctx].peers \ {s.store.caller}]
  OBVIOUS
<1>4. PICK x \in s.sdps :
        /\ dev' = [dev EXCEPT ![d] = WithSession(u, s.store.caller, Answering(x.sdp.from))]
        /\ Publish({m \in Wrapped("answer", c, d, s.ctxs[j.ctx].peers \cup {OwnerOf[d]}, x.sdp, {}) :
                        m.to # d})
        /\ Become(d, j, k)
        /\ j.op = "accept" /\ j.at = "media" /\ s.store.shows = "incoming"
  BY <1>0, <1>1, <1>2, <1>3 DEF MediaForAccept, Running
<1>5. i \in DOMAIN s.ctxs /\ GoodContext(d, s.ctxs[i]) /\ s.cur # 0 /\ s.store.caller \in Peers(d)
  BY <1>h, <1>1, <1>4, Reached DEF GoodJob, Good
<1>6. mic \in Nat /\ IsFiniteSet(s.open \cup {mic}) /\ c \in CallId
  BY <1>h, <1>1, <1>5, StreamNumber DEF Good, GoodContext
<1>7. PICK y : y = [s.ctxs[i] EXCEPT !.phase = "active", !.mic = mic]
  OBVIOUS
<1>8. GoodContext(d, y)
  BY <1>5, <1>6, <1>7 DEF GoodContext, ContextFields
<1>9. PICK v : v = [s EXCEPT !.ctxs = [s.ctxs EXCEPT ![i] = y]]
  OBVIOUS
<1>10. Onward(d, s, v) /\ DOMAIN v.ctxs = DOMAIN s.ctxs
  BY <1>h, <1>5, <1>8, <1>9, ContextSwapped
<1>11. /\ DOMAIN u = Fields /\ u.ctxs = v.ctxs /\ u.cur = v.cur /\ u.cur = s.cur
       /\ u.open = s.open \cup {mic} /\ u.store = Shows("active", c, Nobody)
       /\ u.sdps \subseteq s.sdps /\ u.stash = s.stash /\ u.starts = s.starts
  <2>1. v.ctxs = [s.ctxs EXCEPT ![i] = y] /\ v.cur = s.cur
    BY <1>9, <1>h DEF Good, Fields
  <2>2. u.ctxs = [s.ctxs EXCEPT ![i] = y]
    BY <1>2, <1>7, <1>h DEF Good, Fields
  <2>3. /\ DOMAIN u = Fields /\ u.cur = s.cur
        /\ u.open = s.open \cup {mic} /\ u.store = Shows("active", c, Nobody)
        /\ u.sdps \subseteq s.sdps /\ u.stash = s.stash /\ u.starts = s.starts
    BY <1>2, <1>h DEF Good, Fields
  <2> QED BY <2>1, <2>2, <2>3
<1>12. u.store \in StoreType /\ u.store.shows = "active"
  BY <1>6, <1>11 DEF Shows, StoreType
<1>13. Onward(d, s, u)
  <2>1. /\ Sequence(u.ctxs) /\ Len(u.ctxs) <= MaxContexts /\ u.cur \in {0} \cup DOMAIN u.ctxs
        /\ \A n \in DOMAIN u.ctxs : GoodContext(d, u.ctxs[n])
    BY <1>10, <1>11 DEF Good, Onward
  <2>2. u.sdps \subseteq SdpRecord /\ u.stash \subseteq StashRecord /\ u.starts \in Nat
        /\ \A z \in u.stash : OwnerOf[z.from] # OwnerOf[d]
    BY <1>h, <1>11 DEF Good
  <2>3. IsFiniteSet(u.open)
    BY <1>6, <1>11
  <2>4. DOMAIN s.ctxs \subseteq DOMAIN u.ctxs
    BY <1>10, <1>11
  <2> QED BY <1>11, <1>12, <2>1, <2>2, <2>3, <2>4 DEF Good, Onward
<1>14. PICK e : e = Answering(x.sdp.from)
  OBVIOUS
<1>15. e \in Session
  <2>1. x.sdp.from \in Device
    BY <1>h DEF Good, SdpRecord, Sdp
  <2> QED BY <1>14, <2>1, Sessions
<1>16. PICK t : t = WithSession(u, s.store.caller, e)
  OBVIOUS
<1>17. Onward(d, u, t)
  BY <1>5, <1>11, <1>13, <1>15, <1>16, LegAdded DEF Onward
<1>18. Onward(d, s, t)
  BY <1>13, <1>17, OnwardAgain
<1>19. GoodJob(d, t, k)
  <2>1. GoodJob(d, t, j)
    BY <1>h, <1>18, JobsOnward
  <2>2. k.op = "accept" /\ k.at = "answer" /\ k.ctx = j.ctx
        /\ {"op", "at", "ctx", "todo"} \subseteq DOMAIN k
        /\ k.todo = s.ctxs[i].peers \ {s.store.caller}
    BY <1>h, <1>1, <1>3, <1>4 DEF GoodJob
  <2>3. k.todo \subseteq Peers(d)
    BY <1>5, <2>2 DEF GoodContext
  <2> QED BY <1>4, <2>1, <2>2, <2>3 DEF GoodJob
<1>20. PICK J : J = (jobs[d] \ {j}) \cup {k}
  OBVIOUS
<1>21. jobs' = [jobs EXCEPT ![d] = J] /\ dev' = [dev EXCEPT ![d] = t]
       /\ \A l \in J : l \in jobs[d] \/ GoodJob(d, t, l)
  BY <1>h, <1>4, <1>14, <1>16, <1>19, <1>20 DEF Become
<1>22. \A m \in net' : m \in net \/ GoodEvent(m)
  BY <1>4, SentGood DEF Publish
<1> QED BY <1>0, <1>18, <1>21, <1>22, GoodStep

LEMMA LateMediaGood ==
    ASSUME TypeInv, NEW d \in Device, NEW j \in jobs[d], MediaTooLate(d, j)
    PROVE  TypeInv'
<1>0. PICK s : s = dev[d]
  OBVIOUS
<1>h. /\ Good(d, s) /\ GoodJob(d, s, j) /\ d \in DOMAIN dev /\ d \in DOMAIN jobs
  BY <1>0, HereGood
<1>1. PICK i, c : i = j.ctx /\ c = s.ctxs[j.ctx].call
  OBVIOUS
<1>2. PICK y : y = [s.ctxs[i] EXCEPT !.phase = "active", !.mic = 0]
  OBVIOUS
<1>3. PICK u : u = [s EXCEPT !.ctxs = [s.ctxs EXCEPT ![i] = y]]
  OBVIOUS
<1>4. /\ dev' = [dev EXCEPT ![d] = TimerOff(u, c)] /\ Declining(d, c, jobs[d] \ {j})
      /\ j.op = "accept"
  <2>1. u = [s EXCEPT !.ctxs[i].phase = "active", !.ctxs[i].mic = 0]
    BY <1>2, <1>3 DEF Good, Fields
  <2> QED BY <1>0, <1>1, <2>1 DEF MediaTooLate, Running
<1>5. i \in DOMAIN s.ctxs
  BY <1>h, <1>1, <1>4 DEF GoodJob
<1>6. GoodContext(d, y)
  BY <1>h, <1>2, <1>5, Reached DEF GoodContext, ContextFields
<1>7. Onward(d, s, u)
  BY <1>h, <1>3, <1>5, <1>6, ContextSwapped
<1>8. PICK t : t = TimerOff(u, c)
  OBVIOUS
<1>9. Onward(d, s, t)
  BY <1>7, <1>8, StopsAndClears, OnwardAgain DEF Onward
<1>10. PICK K : /\ jobs' = [jobs EXCEPT ![d] = K]
                /\ \A k \in K : k \in jobs[d] \/ GoodJob(d, t, k)
                /\ \A m \in net' : m \in net \/ GoodEvent(m)
  BY <1>4, DecliningGood
<1> QED BY <1>0, <1>4, <1>8, <1>9, <1>10, GoodStep

LEMMA ResumeGood ==
    ASSUME IsFiniteSet(Pubkey), TypeInv, NEW d \in Device, Resume(d) \/ Break(d)
    PROVE  TypeInv'
<1>0. PICK s : s = dev[d]
  OBVIOUS
<1>h. /\ Good(d, s) /\ Onward(d, s, s) /\ d \in DOMAIN dev /\ d \in DOMAIN jobs
      /\ dev' = dev => dev' = [dev EXCEPT ![d] = s]
      /\ \A j \in jobs[d] : GoodJob(d, s, j)
  BY <1>0, HereGood
<1>1. PICK j \in jobs[d] :
        \/ MediaForStart(d, j) \/ OffersPublished(d, j) \/ MediaForAccept(d, j)
        \/ MediaTooLate(d, j) \/ AnswersPublished(d, j) \/ JoinMesh(d, j)
        \/ TakeStash(d, j) \/ AnswerStashed(d, j) \/ HungUp(d, j)
        \/ StartRefused(d, j) \/ OfferFails(d, j) \/ AcceptRefused(d, j) \/ AnswerFails(d, j)
        \/ Declined(d, j) \/ RosterResolved(d, j)
  BY DEF Resume, Break
<1>2. CASE MediaForStart(d, j) \/ MediaForAccept(d, j) \/ MediaTooLate(d, j) \/ RosterResolved(d, j)
  BY <1>2, StartGood, MediaGood, LateMediaGood, RosterStep
\* The function ends, or goes on as k.
<1>3. ASSUME NEW t, dev' = [dev EXCEPT ![d] = t], Onward(d, s, t), NEW k,
             Finish(d, j) \/ (Become(d, j, k) /\ GoodJob(d, s, k)),
             \A m \in net' : m \in net \/ GoodEvent(m)
      PROVE  TypeInv'
  <2>1. PICK J : jobs' = [jobs EXCEPT ![d] = J] /\ \A l \in J : l \in jobs[d] \/ GoodJob(d, s, l)
    <3>1. CASE Finish(d, j)
      <4>1. jobs' = [jobs EXCEPT ![d] = jobs[d] \ {j}]
        BY <1>h, <3>1 DEF Finish
      <4> QED BY <4>1
    <3>2. CASE Become(d, j, k) /\ GoodJob(d, s, k)
      <4>1. jobs' = [jobs EXCEPT ![d] = (jobs[d] \ {j}) \cup {k}]
        BY <1>h, <3>2 DEF Become
      <4> QED BY <3>2, <4>1
    <3> QED BY <1>3, <3>1, <3>2
  <2>2. \A l \in J : l \in jobs[d] \/ GoodJob(d, t, l)
    BY <1>3, <2>1, JobsOnward
  <2> QED BY <1>0, <1>3, <2>1, <2>2, GoodStep
<1>4. CASE OffersPublished(d, j) \/ StartRefused(d, j)
  BY <1>h, <1>3, <1>4 DEF OffersPublished, StartRefused
<1>5. CASE AnswersPublished(d, j)
  <2>1. PICK k : k = [j EXCEPT !.at = "mesh"]
    OBVIOUS
  <2>2. j.op = "accept" /\ j.at = "answer" /\ GoodJob(d, s, j) /\ Become(d, j, k) /\ net' = net
        /\ dev' = dev
    BY <1>h, <1>5, <2>1 DEF AnswersPublished, Running
  <2>3. k.op = "accept" /\ k.at = "mesh" /\ k.ctx = j.ctx /\ k.todo = j.todo
        /\ {"op", "at", "ctx", "todo"} \subseteq DOMAIN k
    BY <2>1, <2>2 DEF GoodJob
  <2>4. GoodJob(d, s, k)
    BY <2>2, <2>3 DEF GoodJob
  <2> QED BY <1>h, <1>3, <2>2, <2>4
<1>6. CASE JoinMesh(d, j)
  <2>1. j.op = "accept" /\ j.at = "mesh" /\ GoodJob(d, s, j)
    BY <1>h, <1>6 DEF JoinMesh, Running
  <2>2. j.ctx \in DOMAIN s.ctxs /\ j.todo \subseteq Peers(d)
    BY <2>1 DEF GoodJob
  <2>3. PICK p \in j.todo :
          /\ \/ /\ NoOfferTo(s, j.ctx, p) \/ s.cur # 0
                /\ dev' = [dev EXCEPT ![d] = OfferTo(s, j.ctx, p)]
                /\ Publish(OfferEvents(s, d, j.ctx, p))
             \/ dev' = dev /\ net' = net
          /\ Finish(d, j) \/ Become(d, j, [j EXCEPT !.todo = @ \ {p}])
    BY <1>0, <1>6 DEF JoinMesh
  <2>4. PICK t : Onward(d, s, t) /\ dev' = [dev EXCEPT ![d] = t]
    BY <1>h, <2>2, <2>3, LegsGood
  <2>5. \A m \in net' : m \in net \/ GoodEvent(m)
    BY <1>h, <2>2, <2>3, LegEventsGood DEF Publish
  <2>6. PICK k : k = [j EXCEPT !.todo = @ \ {p}]
    OBVIOUS
  <2>7. GoodJob(d, s, k)
    <3>1. k.op = "accept" /\ k.at = "mesh" /\ k.ctx = j.ctx /\ k.todo \subseteq j.todo
          /\ {"op", "at", "ctx", "todo"} \subseteq DOMAIN k
      BY <2>1, <2>6 DEF GoodJob
    <3> QED BY <2>2, <3>1 DEF GoodJob
  <2> QED BY <1>3, <2>3, <2>4, <2>5, <2>6, <2>7
<1>7. CASE TakeStash(d, j)
  <2>1. j.op = "accept" /\ j.at = "mesh" /\ GoodJob(d, s, j)
    BY <1>h, <1>7 DEF TakeStash, Running
  <2>2. PICK mine : mine = {x \in s.stash : x.call = s.ctxs[j.ctx].call}
    OBVIOUS
  <2>3. PICK k : k = [j EXCEPT !.at = "drain", !.todo = mine]
    OBVIOUS
  <2>4. PICK t : t = [s EXCEPT !.stash = s.stash \ mine]
    OBVIOUS
  <2>5. dev' = [dev EXCEPT ![d] = t] /\ (Finish(d, j) \/ Become(d, j, k)) /\ net' = net
    BY <1>0, <1>h, <1>7, <2>2, <2>3, <2>4 DEF TakeStash
  <2>6. Onward(d, s, t)
    BY <1>h, <2>4, FieldsAside
  <2>7. GoodJob(d, s, k)
    <3>1. k.op = "accept" /\ k.at = "drain" /\ k.ctx = j.ctx /\ k.todo = mine
          /\ {"op", "at", "ctx", "todo"} \subseteq DOMAIN k
      BY <2>1, <2>3 DEF GoodJob
    <3>2. mine \subseteq StashRecord /\ \A x \in mine : OwnerOf[x.from] # OwnerOf[d]
      BY <1>h, <2>2 DEF Good
    <3> QED BY <2>1, <3>1, <3>2 DEF GoodJob
  <2> QED BY <1>3, <2>5, <2>6, <2>7
<1>8. CASE AnswerStashed(d, j)
  <2>1. j.op = "accept" /\ j.at = "drain" /\ GoodJob(d, s, j)
    BY <1>h, <1>8 DEF AnswerStashed, Running
  <2>2. PICK x \in j.todo :
          /\ NoOfferTo(s, j.ctx, OwnerOf[x.from]) \/ s.cur # 0
          /\ dev' = [dev EXCEPT ![d] = MeshAnswer(s, j.ctx, x)]
          /\ Publish(MeshAnswerEvents(s, d, j.ctx, x))
          /\ Finish(d, j) \/ Become(d, j, [j EXCEPT !.todo = @ \ {x}])
    BY <1>0, <1>8 DEF AnswerStashed
  <2>3. /\ j.ctx \in DOMAIN s.ctxs /\ j.todo \subseteq StashRecord
        /\ \A y \in j.todo : OwnerOf[y.from] # OwnerOf[d]
    BY <2>1 DEF GoodJob
  <2>4. x.from \in Device /\ OwnerOf[x.from] \in Peers(d)
    <3>1. x.from \in Device
      BY <2>3 DEF StashRecord
    <3> QED BY <2>3, <3>1, DevicesAssumption DEF Peers
  <2>5. PICK t : t = MeshAnswer(s, j.ctx, x)
    OBVIOUS
  <2>6. Onward(d, s, t)
    BY <1>h, <2>2, <2>3, <2>4, <2>5, LegsGood
  <2>7. \A m \in net' : m \in net \/ GoodEvent(m)
    BY <1>h, <2>2, <2>3, LegEventsGood DEF Publish
  <2>8. PICK k : k = [j EXCEPT !.todo = @ \ {x}]
    OBVIOUS
  <2>9. GoodJob(d, s, k)
    <3>1. k.op = "accept" /\ k.at = "drain" /\ k.ctx = j.ctx /\ k.todo \subseteq j.todo
          /\ {"op", "at", "ctx", "todo"} \subseteq DOMAIN k
      BY <2>1, <2>8 DEF GoodJob
    <3> QED BY <2>3, <3>1 DEF GoodJob
  <2> QED BY <1>3, <2>2, <2>5, <2>6, <2>7, <2>8, <2>9
<1>9. CASE HungUp(d, j) \/ AnswerFails(d, j)
  <2>1. dev' = [dev EXCEPT ![d] = Teardown(s, j.ctx)] /\ j.op \in {"hangup", "accept"}
        /\ Finish(d, j) /\ net' = net
    BY <1>0, <1>h, <1>9 DEF HungUp, AnswerFails, Running
  <2>2. j.ctx \in DOMAIN s.ctxs
    BY <1>h, <2>1 DEF GoodJob
  <2> QED BY <1>h, <1>3, <2>1, <2>2, TornDownGood
<1>10. CASE OfferFails(d, j)
  <2>1. /\ \/ dev' = [dev EXCEPT ![d] = Teardown(s, s.cur)] /\ s.cur # 0
           \/ dev' = [dev EXCEPT ![d] = s]
        /\ Finish(d, j) /\ net' = net
    BY <1>0, <1>h, <1>10 DEF OfferFails, InCall
  <2>2. s.cur # 0 => Onward(d, s, Teardown(s, s.cur))
    BY <1>h, TornDownGood DEF Good
  <2> QED BY <1>h, <1>3, <2>1, <2>2
<1>11. CASE AcceptRefused(d, j)
  <2>1. PICK c, t, J : c = s.ctxs[j.ctx].call /\ t = TimerOff(s, c) /\ J = jobs[d] \ {j}
    OBVIOUS
  <2>2. dev' = [dev EXCEPT ![d] = t] /\ Declining(d, c, J)
    BY <1>0, <1>h, <1>11, <2>1 DEF AcceptRefused
  <2>3. Onward(d, s, t)
    BY <1>h, <2>1, StopsAndClears
  <2>4. PICK K : /\ jobs' = [jobs EXCEPT ![d] = K]
                 /\ \A k \in K : k \in jobs[d] \/ GoodJob(d, t, k)
                 /\ \A m \in net' : m \in net \/ GoodEvent(m)
    BY <2>1, <2>2, DecliningGood
  <2> QED BY <1>0, <2>2, <2>3, <2>4, GoodStep
<1>12. CASE Declined(d, j)
  <2>1. PICK u, t : u = Forget(s, j.call) /\ t = Cleared(u)
    OBVIOUS
  <2>2. dev' = [dev EXCEPT ![d] = t] /\ Finish(d, j) /\ net' = net
    BY <1>0, <1>h, <1>12, <2>1 DEF Declined
  <2>3. Onward(d, s, u)
    BY <1>h, <2>1, StopsAndClears
  <2>4. Onward(d, s, t)
    BY <2>1, <2>3, StopsAndClears, OnwardAgain DEF Onward
  <2> QED BY <1>3, <2>2, <2>4
<1> QED BY <1>1, <1>2, <1>4, <1>5, <1>6, <1>7, <1>8, <1>9, <1>10, <1>11, <1>12

LEMMA TimerGood ==
    ASSUME TypeInv, NEW d \in Device, NEW i \in DOMAIN dev[d].ctxs, Timer(d, i)
    PROVE  TypeInv'
<1>0. PICK s : s = dev[d]
  OBVIOUS
<1>h. /\ Good(d, s) /\ d \in DOMAIN dev /\ d \in DOMAIN jobs /\ i \in DOMAIN s.ctxs
  BY <1>0, HereGood
<1>1. PICK u : u = [s EXCEPT !.ctxs[i].timer = "off"]
  OBVIOUS
<1>2. Onward(d, s, u)
  BY <1>1, <1>h, TimerStopped
<1>3. CASE /\ dev' = [dev EXCEPT ![d] = TimerOff(u, u.ctxs[i].call)]
           /\ Declining(d, u.ctxs[i].call, jobs[d])
  <2>1. PICK c, t : c = u.ctxs[i].call /\ t = TimerOff(u, c)
    OBVIOUS
  <2>2. Onward(d, s, t)
    BY <1>2, <2>1, StopsAndClears, OnwardAgain DEF Onward
  <2>3. PICK K : /\ jobs' = [jobs EXCEPT ![d] = K]
                 /\ \A j \in K : j \in jobs[d] \/ GoodJob(d, t, j)
                 /\ \A m \in net' : m \in net \/ GoodEvent(m)
    BY <1>3, <2>1, DecliningGood
  <2> QED BY <1>0, <1>3, <2>1, <2>2, <2>3, GoodStep
<1>4. CASE dev' = [dev EXCEPT ![d] = u] /\ HangingUp(d)
  <2>1. PICK K : /\ jobs' = [jobs EXCEPT ![d] = K]
                 /\ \A j \in K : j \in jobs[d] \/ GoodJob(d, u, j)
                 /\ \A m \in net' : m \in net \/ GoodEvent(m)
    BY <1>0, <1>2, <1>4, HangingUpGood
  <2> QED BY <1>0, <1>2, <1>4, <2>1, GoodStep
<1>5. CASE dev' = [dev EXCEPT ![d] = u] /\ jobs' = jobs /\ net' = net
  BY <1>0, <1>2, <1>5, HereGood, GoodStep
<1> QED BY <1>0, <1>1, <1>3, <1>4, <1>5 DEF Timer

LEMMA ConnectsGood ==
    ASSUME TypeInv, NEW d \in Device, NEW i \in DOMAIN dev[d].ctxs, Connects(d, i)
    PROVE  TypeInv'
<1>0. PICK s : s = dev[d]
  OBVIOUS
<1>h. Good(d, s) /\ d \in DOMAIN dev /\ i \in DOMAIN s.ctxs /\ GoodContext(d, s.ctxs[i])
  BY <1>0, HereGood, Reached
<1>1. PICK q \in DOMAIN s.ctxs[i].legs :
        dev' = [dev EXCEPT ![d] =
            LET t == [@ EXCEPT !.ctxs[i].legs[q].conn = "connected"]
            IN  IF InCall(t, t.ctxs[i].call) THEN [t EXCEPT !.ctxs[t.cur].timer = "off"] ELSE t]
  BY <1>0 DEF Connects
<1>2. PICK e : e = [s.ctxs[i].legs[q] EXCEPT !.conn = "connected"]
  OBVIOUS
<1>3. e \in Session
  <2>1. s.ctxs[i].legs[q] \in Session
    BY <1>h, LegMaps DEF GoodContext
  <2> QED BY <1>2, <2>1 DEF Session
<1>4. PICK legs : legs = [s.ctxs[i].legs EXCEPT ![q] = e]
  OBVIOUS
<1>5. legs \in LegMap(d)
  BY <1>h, <1>3, <1>4, LegMaps DEF GoodContext
<1>6. PICK y : y = [s.ctxs[i] EXCEPT !.legs = legs]
  OBVIOUS
<1>7. GoodContext(d, y)
  BY <1>h, <1>5, <1>6 DEF GoodContext, ContextFields
<1>8. PICK t : t = [s EXCEPT !.ctxs = [s.ctxs EXCEPT ![i] = y]]
  OBVIOUS
<1>9. Onward(d, s, t)
  BY <1>h, <1>7, <1>8, ContextSwapped
<1>10. PICK u : u = IF InCall(t, t.ctxs[i].call) THEN [t EXCEPT !.ctxs[t.cur].timer = "off"] ELSE t
  OBVIOUS
<1>11. Onward(d, s, u)
  <2>1. CASE InCall(t, t.ctxs[i].call)
    <3>1. t.cur \in DOMAIN t.ctxs
      BY <1>9, <2>1 DEF InCall, Onward, Good
    <3>2. Onward(d, t, u)
      BY <1>9, <1>10, <2>1, <3>1, TimerStopped DEF Onward
    <3> QED BY <1>9, <3>2, OnwardAgain
  <2>2. CASE ~InCall(t, t.ctxs[i].call)
    BY <1>9, <1>10, <2>2
  <2> QED BY <2>1, <2>2
<1>12. dev' = [dev EXCEPT ![d] = u]
  <2>1. t = [s EXCEPT !.ctxs[i].legs[q].conn = "connected"]
    BY <1>2, <1>4, <1>6, <1>8
  <2> QED BY <1>0, <1>h, <1>1, <1>10, <2>1
<1>13. jobs' = [jobs EXCEPT ![d] = jobs[d]] /\ net' = net
  BY HereGood DEF Connects
<1> QED BY <1>0, <1>11, <1>12, <1>13, GoodStep

LEMMA FailureGood ==
    ASSUME TypeInv, NEW d \in Device, NEW i \in DOMAIN dev[d].ctxs, ConnectionFails(d, i)
    PROVE  TypeInv'
<1>0. PICK s : s = dev[d]
  OBVIOUS
<1>h. /\ Good(d, s) /\ d \in DOMAIN dev /\ i \in DOMAIN s.ctxs /\ GoodContext(d, s.ctxs[i])
  BY <1>0, HereGood, Reached
<1>1. PICK q \in DOMAIN s.ctxs[i].legs :
        \/ /\ dev' = [dev EXCEPT ![d].ctxs[i] = Restarted(@, q)]
           /\ Publish(Wrapped("renegotiate", s.ctxs[i].call, d, {q}, [from |-> d, to |-> q, gen |-> 1], {}))
        \/ /\ dev' = [dev EXCEPT ![d] = WithoutSession([s EXCEPT !.ctxs[i].retried = @ \ {q}], i, q)]
           /\ net' = net
  BY <1>0 DEF ConnectionFails
<1>2. jobs' = [jobs EXCEPT ![d] = jobs[d]]
  BY HereGood DEF ConnectionFails
<1>3. CASE /\ dev' = [dev EXCEPT ![d].ctxs[i] = Restarted(@, q)]
           /\ Publish(Wrapped("renegotiate", s.ctxs[i].call, d, {q}, [from |-> d, to |-> q, gen |-> 1], {}))
  <2>1. PICK e : e = [s.ctxs[i].legs[q] EXCEPT !.conn = "failed", !.sig = "offered", !.gen = 1]
    OBVIOUS
  <2>2. s.ctxs[i].legs[q] \in Session /\ q \in Pubkey
    BY <1>h, LegMaps DEF GoodContext, Peers
  <2>3. e \in Session
    <3>1. PICK a : a = s.ctxs[i].legs[q]
      OBVIOUS
    <3>2. e = [sig |-> "offered", gen |-> 1, remote |-> a.remote, fits |-> a.fits,
               conn |-> "failed"]
      BY <2>1, <2>2, <3>1 DEF Session
    <3>3. a.remote \in Device \cup {Nobody} /\ a.fits \in BOOLEAN
      BY <2>2, <3>1 DEF Session
    <3> QED BY <3>2, <3>3 DEF Session
  <2>4. PICK legs : legs = [s.ctxs[i].legs EXCEPT ![q] = e]
    OBVIOUS
  <2>5. legs \in LegMap(d)
    BY <1>h, <2>3, <2>4, LegMaps DEF GoodContext
  <2>6. PICK y : y = Restarted(s.ctxs[i], q)
    OBVIOUS
  <2>7. y = [s.ctxs[i] EXCEPT !.legs = legs, !.retried = @ \cup {q}, !.renegotiating = @ \cup {q}]
    BY <2>1, <2>4, <2>6 DEF Restarted
  <2>8. GoodContext(d, y)
    BY <1>h, <2>2, <2>5, <2>7 DEF GoodContext, ContextFields
  <2>9. PICK t : t = [s EXCEPT !.ctxs = [s.ctxs EXCEPT ![i] = y]]
    OBVIOUS
  <2>10. Onward(d, s, t)
    BY <1>h, <2>8, <2>9, ContextSwapped
  <2>11. dev' = [dev EXCEPT ![d] = t]
    BY <1>0, <1>3, <1>h, <2>6, <2>9
  <2>12. \A m \in net' : m \in net \/ GoodEvent(m)
    BY <1>3, SentGood DEF Publish
  <2> QED BY <1>0, <1>2, <2>10, <2>11, <2>12, GoodStep
<1>4. CASE /\ dev' = [dev EXCEPT ![d] = WithoutSession([s EXCEPT !.ctxs[i].retried = @ \ {q}], i, q)]
           /\ net' = net
  <2>1. PICK y : y = [s.ctxs[i] EXCEPT !.retried = @ \ {q}]
    OBVIOUS
  <2>2. GoodContext(d, y)
    BY <1>h, <2>1 DEF GoodContext, ContextFields
  <2>3. PICK t : t = [s EXCEPT !.ctxs[i].retried = @ \ {q}]
    OBVIOUS
  <2>4. t = [s EXCEPT !.ctxs = [s.ctxs EXCEPT ![i] = y]]
    BY <2>1, <2>3
  <2>5. Onward(d, s, t) /\ i \in DOMAIN t.ctxs
    BY <1>h, <2>2, <2>4, ContextSwapped
  <2>6. PICK u : u = WithoutSession(t, i, q)
    OBVIOUS
  <2>7. Onward(d, s, u)
    BY <2>5, <2>6, LegsGood, OnwardAgain DEF Onward
  <2> QED BY <1>0, <1>2, <1>4, <2>3, <2>6, <2>7, GoodStep
<1> QED BY <1>1, <1>3, <1>4

LEMMA OfferGood ==
    ASSUME TypeInv, NEW d \in Device, NEW m \in net, HandleMeshOffer(d, m) \/ HandleOffer(d, m)
    PROVE  TypeInv'
<1>0. PICK s : s = dev[d]
  OBVIOUS
<1>h. /\ Good(d, s) /\ Onward(d, s, s) /\ d \in DOMAIN dev /\ d \in DOMAIN jobs
      /\ dev' = dev => dev' = [dev EXCEPT ![d] = s]
      /\ jobs' = jobs => jobs' = [jobs EXCEPT ![d] = jobs[d]]
  BY <1>0, HereGood
<1>m. /\ GoodEvent(m) /\ m.kind = "offer" /\ m.to = d
      /\ m.from \in Device /\ m.call \in CallId /\ m.sdp \in Sdp
      /\ OwnerOf[m.from] # OwnerOf[d] /\ OwnerOf[m.from] \in Peers(d)
  <2>1. GoodEvent(m) /\ m.kind = "offer" /\ m.to = d
    BY DEF TypeInv, HandleMeshOffer, HandleOffer, Receive
  <2> QED BY <2>1, DevicesAssumption DEF GoodEvent, Peers
<1>1. CASE HandleMeshOffer(d, m)
  <2>1. jobs' = [jobs EXCEPT ![d] = jobs[d]] /\ s.cur # 0 /\ s.cur \in DOMAIN s.ctxs
    <3>1. jobs' = jobs /\ s.cur # 0
      BY <1>0, <1>1 DEF HandleMeshOffer, InCall
    <3>2. s.cur \in DOMAIN s.ctxs
      BY <1>h, <3>1 DEF Good
    <3> QED BY <1>h, <3>1, <3>2
  <2>2. CASE dev' = dev /\ Consume(m, {})
    <3>1. \A n \in net' : n \in net
      BY <2>2 DEF Consume
    <3> QED BY <1>0, <1>h, <2>1, <2>2, <3>1, GoodStep
  <2>3. CASE dev' = [dev EXCEPT ![d] = MeshAnswer(s, s.cur, m)]
             /\ Consume(m, MeshAnswerEvents(s, d, s.cur, m))
    <3>1. PICK t : t = MeshAnswer(s, s.cur, m)
      OBVIOUS
    <3>2. Onward(d, s, t)
      BY <1>h, <1>m, <2>1, <3>1, LegsGood
    <3>3. \A n \in net' : n \in net \/ GoodEvent(n)
      BY <1>h, <2>1, <2>3, LegEventsGood DEF Consume
    <3> QED BY <1>0, <2>1, <2>3, <3>1, <3>2, <3>3, GoodStep
  <2>4. PICK x : x = [call |-> m.call, from |-> m.from, sdp |-> m.sdp]
    OBVIOUS
  <2>5. PICK X : X = {y \in s.stash : y.call # m.call \/ OwnerOf[y.from] # OwnerOf[m.from]}
                        \cup {x}
    OBVIOUS
  <2>6. CASE dev' = [dev EXCEPT ![d] = [s EXCEPT !.stash = X]] /\ Consume(m, {})
    <3>1. x \in StashRecord /\ OwnerOf[x.from] # OwnerOf[d]
      BY <1>m, <2>4 DEF StashRecord
    <3>2. X \subseteq StashRecord /\ \A y \in X : OwnerOf[y.from] # OwnerOf[d]
      BY <1>h, <2>5, <3>1 DEF Good
    <3>3. PICK t : t = [s EXCEPT !.stash = X]
      OBVIOUS
    <3>4. /\ DOMAIN t = Fields /\ t.ctxs = s.ctxs /\ t.cur = s.cur /\ t.store = s.store
          /\ t.open = s.open /\ t.sdps = s.sdps /\ t.stash = X /\ t.starts = s.starts
      BY <1>h, <3>3 DEF Good, Fields
    <3>5. Onward(d, s, t)
      BY <1>h, <3>2, <3>4 DEF Good, Onward
    <3>6. \A n \in net' : n \in net
      BY <2>6 DEF Consume
    <3> QED BY <1>0, <2>1, <2>6, <3>3, <3>5, <3>6, GoodStep
  <2> QED
    BY <1>0, <1>h, <1>1, <2>2, <2>3, <2>4, <2>5, <2>6 DEF HandleMeshOffer
<1>2. CASE HandleOffer(d, m)
  <2>1. PICK j : j = [op |-> "roster", offer |-> m]
    OBVIOUS
  <2>2. PICK J : J = jobs[d] \cup {j}
    OBVIOUS
  <2>3. GoodJob(d, s, j)
    BY <1>m, <2>1 DEF GoodJob
  <2>4. /\ dev' = [dev EXCEPT ![d] = s]
        /\ jobs' = [jobs EXCEPT ![d] = J] \/ jobs' = [jobs EXCEPT ![d] = jobs[d]]
    BY <1>h, <1>2, <2>1, <2>2 DEF HandleOffer
  <2>5. \A n \in net' : n \in net \/ GoodEvent(n)
    BY <1>2, SentGood DEF HandleOffer, Consume
  <2>6. PICK K : jobs' = [jobs EXCEPT ![d] = K] /\ \A l \in K : l \in jobs[d] \/ GoodJob(d, s, l)
    BY <2>2, <2>3, <2>4
  <2> QED BY <1>0, <1>h, <2>4, <2>5, <2>6, GoodStep
<1> QED BY <1>1, <1>2

LEMMA EchoGood ==
    ASSUME TypeInv, NEW d \in Device, NEW m \in net, HandleEcho(d, m) \/ HandleHangup(d, m)
    PROVE  TypeInv'
<1>0. PICK s : s = dev[d]
  OBVIOUS
<1>h. Good(d, s) /\ Onward(d, s, s) /\ d \in DOMAIN dev
  BY <1>0, HereGood
<1>1. jobs' = [jobs EXCEPT ![d] = jobs[d]]
  BY HereGood DEF HandleEcho, HandleHangup
<1>2. PICK t : /\ dev' = [dev EXCEPT ![d] = t]
               /\ \/ t = s
                  \/ s.cur # 0 /\ t = Elsewhere(s, m.call)
                  \/ s.cur # 0 /\ t = WithoutSession(s, s.cur, OwnerOf[m.from])
  BY <1>0, <1>h DEF HandleEcho, HandleHangup, Ringing, InCall
<1>3. s.cur # 0 => s.cur \in DOMAIN s.ctxs
  BY <1>h, Reached DEF Good
<1>4. Onward(d, s, t)
  BY <1>2, <1>3, <1>h, StopsAndClears, LegsGood
<1>5. \A n \in net' : n \in net
  BY DEF HandleEcho, HandleHangup, Consume
<1> QED BY <1>0, <1>1, <1>2, <1>4, <1>5, GoodStep

LEMMA AnswerGood ==
    ASSUME TypeInv, NEW d \in Device, NEW m \in net, HandleAnswer(d, m)
    PROVE  TypeInv'
<1>0. PICK s, i, p : s = dev[d] /\ i = s.cur /\ p = OwnerOf[m.from]
  OBVIOUS
<1>h. /\ Good(d, s) /\ Onward(d, s, s) /\ d \in DOMAIN dev
      /\ dev' = dev => dev' = [dev EXCEPT ![d] = s]
  BY <1>0, HereGood
<1>m. m.from \in Device /\ p \in Peers(d)
  <2>1. m.from \in Device
    BY DEF TypeInv, GoodEvent
  <2> QED BY <1>0, <2>1, DevicesAssumption DEF HandleAnswer, FromSelf, Peers
<1>1. jobs' = [jobs EXCEPT ![d] = jobs[d]]
  BY HereGood DEF HandleAnswer
<1>2. CASE dev' = dev /\ Consume(m, {})
  <2>1. \A n \in net' : n \in net
    BY <1>2 DEF Consume
  <2> QED BY <1>0, <1>h, <1>1, <1>2, <2>1, GoodStep
<1>3. CASE ~(dev' = dev /\ Consume(m, {}))
  <2>0. i # 0 /\ i \in DOMAIN s.ctxs /\ GoodContext(d, s.ctxs[i])
    <3>1. i # 0
      BY <1>0, <1>3 DEF HandleAnswer, Active, InCall
    <3> QED BY <1>0, <1>h, <3>1, Reached DEF Good
  <2>1. PICK y : y = [s.ctxs[i] EXCEPT !.peers = @ \cup {p}]
    OBVIOUS
  <2>2. PICK joined : joined = [s EXCEPT !.ctxs[i].peers = @ \cup {p}]
    OBVIOUS
  <2>3. joined = [s EXCEPT !.ctxs = [s.ctxs EXCEPT ![i] = y]]
    BY <2>1, <2>2
  <2>4. GoodContext(d, y)
    BY <1>m, <2>0, <2>1 DEF GoodContext, ContextFields
  <2>5. Onward(d, s, joined) /\ i \in DOMAIN joined.ctxs /\ joined.cur = s.cur
    <3>1. joined.cur = s.cur
      BY <1>h, <2>2 DEF Good, Fields
    <3> QED BY <1>h, <2>0, <2>3, <2>4, <3>1, ContextSwapped
  <2>6. PICK u : u = OfferTo(joined, i, p)
    OBVIOUS
  <2>7. Onward(d, s, u)
    <3>1. Onward(d, joined, u)
      BY <1>0, <1>m, <2>0, <2>5, <2>6, LegsGood DEF Onward
    <3> QED BY <2>5, <3>1, OnwardAgain
  <2>8. CASE /\ dev' = [dev EXCEPT ![d] = u] /\ Consume(m, OfferEvents(joined, d, i, p))
    <3>1. \A n \in net' : n \in net \/ GoodEvent(n)
      BY <1>m, <2>5, <2>8, LegEventsGood DEF Consume, Onward
    <3> QED BY <1>0, <1>1, <2>7, <2>8, <3>1, GoodStep
  <2>9. CASE dev' = [dev EXCEPT ![d] = joined] /\ Consume(m, {})
    <3>1. \A n \in net' : n \in net
      BY <2>9 DEF Consume
    <3> QED BY <1>0, <1>1, <2>5, <2>9, <3>1, GoodStep
  <2>10. CASE dev' = [dev EXCEPT ![d] = s] /\ Consume(m, {})
    <3>1. \A n \in net' : n \in net
      BY <2>10 DEF Consume
    <3> QED BY <1>0, <1>1, <1>h, <2>10, <3>1, GoodStep
  <2>11. PICK v : v = [s EXCEPT !.ctxs[i].legs[p] = AfterAnswer(@, d, p, m),
                                !.ctxs[i].renegotiating = @ \ {p}]
    OBVIOUS
  <2>12. CASE p \in DOMAIN s.ctxs[i].legs /\ dev' = [dev EXCEPT ![d] = v] /\ Consume(m, {})
    <3>1. PICK a, e : a = s.ctxs[i].legs[p] /\ e = AfterAnswer(a, d, p, m)
      OBVIOUS
    <3>2. a \in Session
      BY <2>0, <2>12, <3>1, LegMaps DEF GoodContext
    <3>3. Checking(a.conn) \in {"new", "again"}
      BY DEF Checking
    <3>4. e \in Session
      <4>1. e = [sig |-> "stable", gen |-> a.gen, remote |-> m.from,
                 fits |-> (m.sdp = [from |-> d, to |-> p, gen |-> a.gen]),
                 conn |-> Checking(a.conn)]
        BY <3>1, <3>2 DEF AfterAnswer, Session
      <4>2. (m.sdp = [from |-> d, to |-> p, gen |-> a.gen]) \in BOOLEAN
        OBVIOUS
      <4>3. a.gen \in 0..1
        BY <3>2 DEF Session
      <4> QED BY <1>m, <3>3, <4>1, <4>2, <4>3 DEF Session
    <3>5. PICK legs : legs = [s.ctxs[i].legs EXCEPT ![p] = e]
      OBVIOUS
    <3>6. legs \in LegMap(d)
      BY <2>0, <2>12, <3>4, <3>5, LegMaps DEF GoodContext
    <3>7. PICK z : z = [s.ctxs[i] EXCEPT !.legs = legs, !.renegotiating = @ \ {p}]
      OBVIOUS
    <3>8. GoodContext(d, z)
      BY <2>0, <3>6, <3>7 DEF GoodContext, ContextFields
    <3>9. v = [s EXCEPT !.ctxs = [s.ctxs EXCEPT ![i] = z]]
      BY <1>h, <2>0, <2>11, <3>1, <3>5, <3>7 DEF Good, Fields
    <3>10. Onward(d, s, v)
      BY <1>h, <2>0, <3>8, <3>9, ContextSwapped
    <3>11. \A n \in net' : n \in net
      BY <2>12 DEF Consume
    <3> QED BY <1>0, <1>1, <2>12, <3>10, <3>11, GoodStep
  <2> QED
    BY <1>0, <1>3, <2>2, <2>6, <2>8, <2>9, <2>10, <2>11, <2>12 DEF HandleAnswer
<1> QED BY <1>2, <1>3

LEMMA RenegotiateGood ==
    ASSUME TypeInv, NEW d \in Device, NEW m \in net, HandleRenegotiate(d, m)
    PROVE  TypeInv'
<1>0. PICK s, i, p : s = dev[d] /\ i = s.cur /\ p = OwnerOf[m.from]
  OBVIOUS
<1>h. /\ Good(d, s) /\ Onward(d, s, s) /\ d \in DOMAIN dev
      /\ dev' = dev => dev' = [dev EXCEPT ![d] = s]
  BY <1>0, HereGood
<1>m. m.from \in Device
  BY DEF TypeInv, GoodEvent
<1>1. jobs' = [jobs EXCEPT ![d] = jobs[d]]
  BY HereGood DEF HandleRenegotiate
<1>2. CASE dev' = dev /\ Consume(m, {})
  <2>1. \A n \in net' : n \in net
    BY <1>2 DEF Consume
  <2> QED BY <1>0, <1>h, <1>1, <1>2, <2>1, GoodStep
<1>3. CASE ~(dev' = dev /\ Consume(m, {}))
  <2>0. i # 0 /\ i \in DOMAIN s.ctxs /\ GoodContext(d, s.ctxs[i]) /\ p \in DOMAIN s.ctxs[i].legs
    <3>1. i # 0 /\ p \in DOMAIN s.ctxs[i].legs
      BY <1>0, <1>3 DEF HandleRenegotiate, Active, InCall
    <3> QED BY <1>0, <1>h, <3>1, Reached DEF Good
  <2>1. PICK z : z = Renegotiated(s.ctxs[i], p, m)
    OBVIOUS
  <2>2. PICK v : v = [s EXCEPT !.ctxs = [s.ctxs EXCEPT ![i] = z]]
    OBVIOUS
  <2>3. dev' = [dev EXCEPT ![d] = v] /\ Consume(m, Wrapped("answer", m.call, d, {p}, m.sdp, {}))
    BY <1>0, <1>h, <1>3, <2>1, <2>2 DEF HandleRenegotiate
  <2>4. PICK a, e : /\ a = s.ctxs[i].legs[p]
                    /\ e = [a EXCEPT !.sig = "stable", !.remote = m.from,
                                     !.fits = TRUE, !.conn = Checking(@)]
    OBVIOUS
  <2>5. a \in Session
    BY <2>0, <2>4, LegMaps DEF GoodContext
  <2>6. e \in Session
    <3>1. Checking(a.conn) \in {"new", "again"}
      BY DEF Checking
    <3>2. e = [sig |-> "stable", gen |-> a.gen, remote |-> m.from, fits |-> TRUE,
               conn |-> Checking(a.conn)]
      BY <2>4, <2>5 DEF Session
    <3>3. a.gen \in 0..1
      BY <2>5 DEF Session
    <3> QED BY <1>m, <3>1, <3>2, <3>3 DEF Session
  <2>7. PICK legs : legs = [s.ctxs[i].legs EXCEPT ![p] = e]
    OBVIOUS
  <2>8. legs \in LegMap(d)
    BY <2>0, <2>6, <2>7, LegMaps DEF GoodContext
  <2>9. z = [s.ctxs[i] EXCEPT !.renegotiating = @ \ {p}, !.legs = legs]
    <3>1. PICK x : x = s.ctxs[i]
      OBVIOUS
    <3>2. {"renegotiating", "legs"} \subseteq DOMAIN x
      BY <2>0, <3>1 DEF GoodContext, ContextFields
    <3>3. e = [x.legs[p] EXCEPT !.sig = "stable", !.remote = m.from, !.fits = TRUE,
                               !.conn = Checking(x.legs[p].conn)]
      BY <2>4, <3>1
    <3>4. z = [x EXCEPT !.renegotiating = @ \ {p}, !.legs[p] = e]
      BY <2>1, <3>1, <3>2, <3>3 DEF Renegotiated
    <3> QED BY <2>7, <3>1, <3>2, <3>4
  <2>10. GoodContext(d, z)
    BY <2>0, <2>8, <2>9 DEF GoodContext, ContextFields
  <2>11. Onward(d, s, v)
    BY <1>h, <2>0, <2>2, <2>10, ContextSwapped
  <2>12. \A n \in net' : n \in net \/ GoodEvent(n)
    BY <2>3, SentGood DEF Consume
  <2> QED BY <1>0, <1>1, <2>3, <2>11, <2>12, GoodStep
<1> QED BY <1>2, <1>3

-----------------------------------------------------------------------------

LEMMA TypeInit == Init => TypeInv
<1> SUFFICES ASSUME Init, NEW d \in Device PROVE Good(d, Fresh)
  BY DEF Init, TypeInv
<1>1. <<>> \in Seq({}) /\ DOMAIN <<>> = {} /\ Len(<<>>) = 0
  OBVIOUS
<1>2. /\ DOMAIN Fresh = Fields /\ Fresh.ctxs = <<>> /\ Fresh.cur = 0 /\ Fresh.store = Idle
      /\ Fresh.open = {} /\ Fresh.sdps = {} /\ Fresh.stash = {} /\ Fresh.starts = 0
  BY DEF Fresh, Fields
<1>3. Idle \in StoreType /\ Idle.shows = "idle"
  BY DEF Idle, StoreType
<1>4. 0 <= MaxContexts
  BY DevicesAssumption
<1>5. IsFiniteSet({})
  BY FS_EmptySet
<1> QED BY <1>1, <1>2, <1>3, <1>4, <1>5 DEF Good, Sequence

LEMMA TypeStep ==
    ASSUME IsFiniteSet(Pubkey)
    PROVE  TypeInv /\ [Next]_vars => TypeInv'
<1> SUFFICES ASSUME TypeInv, [Next]_vars PROVE TypeInv'
  OBVIOUS
<1>1. CASE UNCHANGED vars
  BY <1>1 DEF vars, TypeInv
<1>2. ASSUME NEW d \in Device, User(d) \/ Resume(d) \/ Break(d) \/ Clock(d) \/ Network(d)
      PROVE  TypeInv'
  <2>1. CASE User(d)
    BY <2>1, UserGood
  <2>2. CASE Resume(d) \/ Break(d)
    BY <2>2, ResumeGood
  <2>3. CASE Clock(d)
    BY <2>3, TimerGood DEF Clock
  <2>4. CASE Network(d)
    BY <2>4, ConnectsGood, FailureGood, OfferGood, EchoGood, AnswerGood, RenegotiateGood
    DEF Network
  <2> QED BY <1>2, <2>1, <2>2, <2>3, <2>4
<1> QED BY <1>1, <1>2 DEF Next

(* For any devices of finitely many users, whatever calls they start, take and *)
(* leave at once: what a call manager and its store hold stays well formed, no *)
(* leg and no peer is the user's own (callManager.ts drops its own key from    *)
(* every peer list), and a call that rings shows someone else as its caller.   *)
THEOREM CallsKeepTheirTypes ==
    ASSUME IsFiniteSet(Pubkey)
    PROVE  Spec => []TypeOK
BY TypeInit, TypeStep, GoodTypes, PTL DEF Spec

-----------------------------------------------------------------------------
(* Legs.  Each user has one device, which takes part in one call, and nothing  *)
(* fails.  A leg is formed by a device that sends an offer or that has one to  *)
(* answer; what becomes of an offer is followed until its own leg is formed.   *)

OneDeviceEach == \A d, e \in Device : OwnerOf[d] = OwnerOf[e] => d = e

(* A device that is out of call c for good, or on its way out.                 *)
Gone(s, J, c) ==
    \/ \E j \in J : j.op = "decline" /\ j.call = c
    \/ \E j \in J : j.op = "hangup" /\ s.ctxs[j.ctx].call = c
    \/ DOMAIN s.ctxs # {} /\ ~InCall(s, c)
HasLeg(s, c, p) == InCall(s, c) /\ p \in DOMAIN s.ctxs[s.cur].legs
Shut(s, c, p) == InCall(s, c) /\ ~Authorized(s, p)

Joining(J) == {j \in J : j.op = "accept" /\ j.at \in {"answer", "mesh"}}
Draining(J) == {j \in J : j.op = "accept" /\ j.at = "drain"}

(* An offer of call c from device e, under way or with d, which has no leg yet. *)
Offered(M, d, c, e) == \E m \in M : m.kind = "offer" /\ m.call = c /\ m.from = e /\ m.to = d
Holds(s, J, c, e) ==
    \/ \E j \in J : j.op = "roster" /\ j.offer.call = c /\ j.offer.from = e
    \/ \E x \in s.stash : x.call = c /\ x.from = e
    \/ \E j \in Draining(J) : \E x \in j.todo : x.call = c /\ x.from = e
    \/ Ringing(s, c) /\ s.store.caller = OwnerOf[e]
Pending(d, s, J, M, c, e) == Offered(M, d, c, e) \/ Holds(s, J, c, e)

(* The current call of one device.  Peers and stashed senders are in its        *)
(* roster; what it has yet to offer or to answer, acceptCall has on its list.   *)
Joins(d, s, J) ==
    /\ ~s.destroyed
    /\ DOMAIN s.ctxs = {} => s.stash = {}
    /\ s.cur # 0 => LET x == s.ctxs[s.cur] IN
        /\ x.peers \subseteq x.roster
        /\ \A y \in s.stash : OwnerOf[y.from] \in x.roster
        /\ \A j \in J : j.op = "accept" /\ j.at # "media" => x.phase = "active"
        /\ \A j \in Draining(J) : \A y \in j.todo : y.call = x.call /\ OwnerOf[y.from] \in x.roster
        /\ x.phase = "active" =>
              /\ x.mic # 0
              /\ \A p \in x.peers : Initiates(d, p) =>
                    p \in DOMAIN x.legs \/ \E j \in Joining(J) : p \in j.todo
              /\ (\E y \in s.stash : y.call = x.call) => Joining(J) # {}

(* An offer to e has left a leg at d; a leg at e is being or has been met by d. *)
OfferLegs(d, e, c) ==
    Pending(e, dev[e], jobs[e], net, c, d) =>
        \/ HasLeg(dev[d], c, OwnerOf[e])
        \/ Gone(dev[d], jobs[d], c) \/ Gone(dev[e], jobs[e], c)
LegOffers(d, e, c) ==
    HasLeg(dev[e], c, OwnerOf[d]) =>
        \/ Pending(d, dev[d], jobs[d], net, c, e)
        \/ HasLeg(dev[d], c, OwnerOf[e]) \/ Shut(dev[d], c, OwnerOf[e])
        \/ Gone(dev[d], jobs[d], c) \/ Gone(dev[e], jobs[e], c)

MeshInv ==
    /\ failures = 0
    /\ \A d \in Device : Joins(d, dev[d], jobs[d])
    /\ \A m \in net : m.kind \in {"reject", "hangup"} => Gone(dev[m.from], jobs[m.from], m.call)
    /\ \A d, e \in Device : \A c \in CallId : d # e => OfferLegs(d, e, c) /\ LegOffers(d, e, c)

-----------------------------------------------------------------------------
(* What a step of device d, to state t and jobs K, must do for the others.     *)

Sends(d, t, K) ==
    /\ \A m \in net : m.to # d => m \in net'
    /\ \A m \in net' : m \in net \/
          /\ m.from = d
          /\ m.kind = "offer" => HasLeg(t, m.call, OwnerOf[m.to])
          /\ m.kind \in {"reject", "hangup"} => Gone(t, K, m.call)

Stays(d, t, K) ==
    /\ \A c : Gone(dev[d], jobs[d], c) => Gone(t, K, c)
    /\ \A c, p : Shut(dev[d], c, p) => Shut(t, c, p) \/ Gone(t, K, c)
    /\ \A c, p : HasLeg(dev[d], c, p) =>
          \/ HasLeg(t, c, p) \/ Gone(t, K, c)
          \/ \E e \in Device : OwnerOf[e] = p /\ Gone(dev[e], jobs[e], c)

Follows(d, t, K) ==
    \A e \in Device \ {d} : \A c :
        /\ Pending(d, dev[d], jobs[d], net, c, e) =>
              \/ Pending(d, t, K, net', c, e)
              \/ HasLeg(t, c, OwnerOf[e]) \/ Shut(t, c, OwnerOf[e]) \/ Gone(t, K, c)
        /\ Pending(d, t, K, net', c, e) => Pending(d, dev[d], jobs[d], net, c, e) \/ Gone(t, K, c)
        /\ HasLeg(t, c, OwnerOf[e]) =>
              \/ HasLeg(dev[d], c, OwnerOf[e]) \/ Gone(t, K, c)
              \/ Pending(d, dev[d], jobs[d], net, c, e) \/ Offered(net', e, c, d)

Move(d, t, K) == Sends(d, t, K) /\ Stays(d, t, K) /\ Follows(d, t, K)

LEMMA MeshStep ==
    ASSUME OneDeviceEach, MeshInv, OneCallInv, TypeInv, NEW d \in Device, NEW t, NEW K,
           dev' = [dev EXCEPT ![d] = t], jobs' = [jobs EXCEPT ![d] = K], failures' = failures,
           Joins(d, t, K), Move(d, t, K)
    PROVE  MeshInv'
<1>1. dev'[d] = t /\ jobs'[d] = K
  BY DEF OneCallInv
<1>2. \A e \in Device : e # d => dev'[e] = dev[e] /\ jobs'[e] = jobs[e]
  BY DEF OneCallInv
<1>3. failures' = 0 /\ \A e \in Device : Joins(e, dev'[e], jobs'[e])
  BY <1>1, <1>2 DEF MeshInv
<1>4. \A e \in Device : \A c : Gone(dev[e], jobs[e], c) => Gone(dev'[e], jobs'[e], c)
  BY <1>1, <1>2 DEF Move, Stays
<1>5. ASSUME NEW m \in net', m.kind \in {"reject", "hangup"}
      PROVE  Gone(dev'[m.from], jobs'[m.from], m.call)
  <2>1. CASE m \in net
    <3>1. m.from \in Device
      BY <2>1 DEF TypeInv, GoodEvent
    <3> QED BY <1>4, <1>5, <2>1, <3>1 DEF MeshInv
  <2>2. CASE m \notin net
    BY <1>1, <1>5, <2>2 DEF Move, Sends
  <2> QED BY <2>1, <2>2
<1>6. ASSUME NEW e \in Device, NEW f \in Device, NEW c, e # d, f # d, f # e
      PROVE  Pending(e, dev'[e], jobs'[e], net', c, f) <=> Pending(e, dev[e], jobs[e], net, c, f)
  <2>1. Offered(net', e, c, f) <=> Offered(net, e, c, f)
    BY <1>6 DEF Offered, Move, Sends
  <2> QED BY <1>2, <1>6, <2>1 DEF Pending
<1>7. ASSUME NEW e \in Device, NEW c, e # d, Pending(e, dev'[e], jobs'[e], net', c, d)
      PROVE  Pending(e, dev[e], jobs[e], net, c, d) \/ HasLeg(t, c, OwnerOf[e])
  <2>1. Offered(net', e, c, d) => Offered(net, e, c, d) \/ HasLeg(t, c, OwnerOf[e])
    BY <1>7 DEF Offered, Move, Sends
  <2> QED BY <1>2, <1>7, <2>1 DEF Pending
<1>8. ASSUME NEW e \in Device, NEW c, e # d, Pending(e, dev[e], jobs[e], net, c, d)
      PROVE  Pending(e, dev'[e], jobs'[e], net', c, d)
  <2>1. Offered(net, e, c, d) => Offered(net', e, c, d)
    BY <1>8 DEF Offered, Move, Sends
  <2> QED BY <1>2, <1>8, <2>1 DEF Pending
<1>9. ASSUME NEW e \in Device, NEW c, e # d, HasLeg(dev[d], c, OwnerOf[e])
      PROVE  HasLeg(t, c, OwnerOf[e]) \/ Gone(t, K, c) \/ Gone(dev'[e], jobs'[e], c)
  <2>1. CASE \E f \in Device : OwnerOf[f] = OwnerOf[e] /\ Gone(dev[f], jobs[f], c)
    BY <1>4, <2>1 DEF OneDeviceEach
  <2> QED BY <1>9, <2>1 DEF Move, Stays
<1>10. ASSUME NEW e \in Device, NEW f \in Device, NEW c \in CallId, e # f
       PROVE  OfferLegs(e, f, c)'
  <2> SUFFICES ASSUME Pending(f, dev'[f], jobs'[f], net', c, e)
               PROVE  \/ HasLeg(dev'[e], c, OwnerOf[f])
                      \/ Gone(dev'[e], jobs'[e], c) \/ Gone(dev'[f], jobs'[f], c)
    BY DEF OfferLegs, Pending, Offered, Holds, Draining, HasLeg, Gone, InCall, Ringing
  <2>0. OfferLegs(e, f, c)
    BY <1>10 DEF MeshInv
  <2>1. CASE e = d
    <3>1. Pending(f, dev[f], jobs[f], net, c, d) \/ HasLeg(t, c, OwnerOf[f])
      BY <1>7, <1>10, <2>1
    <3> QED BY <1>1, <1>4, <1>9, <1>10, <2>0, <2>1, <3>1 DEF OfferLegs
  <2>2. CASE f = d
    <3>1. Pending(d, dev[d], jobs[d], net, c, e) \/ Gone(t, K, c)
      BY <1>1, <1>10, <2>2 DEF Move, Follows
    <3> QED BY <1>1, <1>2, <1>4, <1>10, <2>0, <2>2, <3>1 DEF OfferLegs
  <2>3. CASE e # d /\ f # d
    BY <1>2, <1>6, <1>10, <2>0, <2>3 DEF OfferLegs
  <2> QED BY <2>1, <2>2, <2>3
<1>11. ASSUME NEW e \in Device, NEW f \in Device, NEW c \in CallId, e # f
       PROVE  LegOffers(e, f, c)'
  <2> SUFFICES ASSUME HasLeg(dev'[f], c, OwnerOf[e])
               PROVE  \/ Pending(e, dev'[e], jobs'[e], net', c, f)
                      \/ HasLeg(dev'[e], c, OwnerOf[f]) \/ Shut(dev'[e], c, OwnerOf[f])
                      \/ Gone(dev'[e], jobs'[e], c) \/ Gone(dev'[f], jobs'[f], c)
    BY DEF LegOffers, Pending, Offered, Holds, Draining, HasLeg, Shut, Gone, InCall, Ringing, Authorized
  <2>0. OfferLegs(e, f, c) /\ LegOffers(e, f, c)
    BY <1>11 DEF MeshInv
  <2>1. CASE e = d
    <3>1. HasLeg(dev[f], c, OwnerOf[d])
      BY <1>2, <1>11, <2>1
    <3>2. CASE Pending(d, dev[d], jobs[d], net, c, f)
      BY <1>1, <1>11, <2>1, <3>2 DEF Move, Follows
    <3>3. CASE HasLeg(dev[d], c, OwnerOf[f])
      BY <1>1, <1>9, <1>11, <2>1, <3>3
    <3>4. CASE Shut(dev[d], c, OwnerOf[f])
      BY <1>1, <2>1, <3>4 DEF Move, Stays
    <3> QED BY <1>4, <1>11, <2>0, <2>1, <3>1, <3>2, <3>3, <3>4 DEF LegOffers
  <2>2. CASE f = d
    <3>1. \/ HasLeg(dev[d], c, OwnerOf[e]) \/ Gone(t, K, c)
          \/ Pending(d, dev[d], jobs[d], net, c, e) \/ Offered(net', e, c, d)
      BY <1>1, <1>11, <2>2 DEF Move, Follows
    <3>2. CASE HasLeg(dev[d], c, OwnerOf[e])
      BY <1>2, <1>4, <1>8, <1>11, <2>0, <2>2, <3>2 DEF LegOffers
    <3>3. CASE Pending(d, dev[d], jobs[d], net, c, e)
      BY <1>2, <1>4, <1>11, <2>0, <2>2, <3>3 DEF OfferLegs
    <3>4. CASE Offered(net', e, c, d)
      BY <2>2, <3>4 DEF Pending
    <3> QED BY <1>1, <2>2, <3>1, <3>2, <3>3, <3>4
  <2>3. CASE e # d /\ f # d
    BY <1>2, <1>6, <1>11, <2>0, <2>3 DEF LegOffers
  <2> QED BY <2>1, <2>2, <2>3
<1> QED BY <1>3, <1>5, <1>10, <1>11 DEF MeshInv

-----------------------------------------------------------------------------
(* What a device that MeshInv describes looks like.                            *)
LEMMA HereMesh ==
    ASSUME MeshInv, OneCallInv, TypeInv, NEW d \in Device, NEW s, s = dev[d]
    PROVE  /\ StateOne(s) /\ OneContext(s) /\ JobsOne(s, jobs[d])
           /\ Good(d, s) /\ \A j \in jobs[d] : GoodJob(d, s, j)
           /\ Joins(d, s, jobs[d]) /\ ~s.destroyed
           /\ d \in DOMAIN dev /\ d \in DOMAIN jobs
           /\ dev' = dev => dev' = [dev EXCEPT ![d] = s]
           /\ jobs' = jobs => jobs' = [jobs EXCEPT ![d] = jobs[d]]
           /\ s.cur # 0 => /\ s.cur = 1 /\ DOMAIN s.ctxs = {1} /\ GoodContext(d, s.ctxs[s.cur])
                           /\ DOMAIN s.ctxs[s.cur].legs \subseteq Peers(d)
<1>1. StateOne(s) /\ OneContext(s) /\ JobsOne(s, jobs[d])
  BY HereOne
<1>2. Good(d, s) /\ \A j \in jobs[d] : GoodJob(d, s, j)
  BY DEF TypeInv
<1>3. ASSUME s.cur # 0
      PROVE  /\ s.cur = 1 /\ DOMAIN s.ctxs = {1} /\ GoodContext(d, s.ctxs[s.cur])
             /\ DOMAIN s.ctxs[s.cur].legs \subseteq Peers(d)
  <2>1. s.cur = 1 /\ DOMAIN s.ctxs = {1} /\ GoodContext(d, s.ctxs[s.cur])
    BY <1>1, <1>2, <1>3 DEF OneContext, Good
  <2>2. s.ctxs[s.cur].legs \in LegMap(d)
    BY <2>1 DEF GoodContext
  <2> QED BY <2>1, <2>2 DEF LegMap
<1>4. Joins(d, s, jobs[d]) /\ ~s.destroyed
  BY DEF MeshInv, Joins
<1> QED BY <1>1, <1>2, <1>3, <1>4, HereOne

(* A step after which the device is in no call, though it has been in one.      *)
LEMMA OverMove ==
    ASSUME NEW d \in Device, NEW t, NEW K,
           t.cur = 0, DOMAIN t.ctxs # {}, ~t.destroyed,
           \A m \in net : m.to # d => m \in net',
           \A m \in net' : m \in net \/ (m.from = d /\ m.kind # "offer")
    PROVE  Joins(d, t, K) /\ Move(d, t, K)
<1>1. \A c : Gone(t, K, c)
  BY DEF Gone, InCall
<1>2. Joins(d, t, K)
  BY DEF Joins
<1> QED BY <1>1, <1>2 DEF Move, Sends, Stays, Follows

(* A step after which the device is in the same call, in the same phase.        *)
SameCall(s, t) ==
    /\ DOMAIN t.ctxs = DOMAIN s.ctxs /\ t.cur = s.cur
    /\ \A i \in DOMAIN s.ctxs :
          /\ t.ctxs[i].call = s.ctxs[i].call /\ t.ctxs[i].phase = s.ctxs[i].phase
          /\ t.ctxs[i].roster = s.ctxs[i].roster
SameEnds(J, K) == \A j \in J : j.op \in {"decline", "hangup"} => j \in K

LEMMA CallStays ==
    ASSUME NEW s, NEW t, NEW J, NEW K, OneContext(s), JobsOne(s, J), SameCall(s, t), SameEnds(J, K)
    PROVE  /\ \A c : InCall(t, c) <=> InCall(s, c)
           /\ \A c : Ringing(t, c) <=> Ringing(s, c)
           /\ \A c : Active(t, c) <=> Active(s, c)
           /\ \A c, p : Shut(t, c, p) <=> Shut(s, c, p)
           /\ \A c : Gone(s, J, c) => Gone(t, K, c)
           /\ s.cur # 0 => s.cur \in DOMAIN s.ctxs
<1>0. s.cur # 0 => s.cur \in DOMAIN s.ctxs
  BY DEF OneContext
<1>1. \A c : InCall(t, c) <=> InCall(s, c)
  BY <1>0 DEF SameCall, InCall
<1>2. \A c : Ringing(t, c) <=> Ringing(s, c)
  BY <1>0, <1>1 DEF SameCall, Ringing, InCall
<1>3. \A c : Active(t, c) <=> Active(s, c)
  BY <1>0, <1>1 DEF SameCall, Active, InCall
<1>4. \A c, p : Shut(t, c, p) <=> Shut(s, c, p)
  BY <1>0, <1>1 DEF SameCall, Shut, Authorized, InCall
<1>5. ASSUME NEW c, Gone(s, J, c) PROVE Gone(t, K, c)
  <2>1. CASE \E j \in J : j.op = "hangup" /\ s.ctxs[j.ctx].call = c
    <3>1. PICK j \in J : j.op = "hangup" /\ s.ctxs[j.ctx].call = c
      BY <2>1
    <3>2. j.ctx \in DOMAIN s.ctxs /\ j \in K
      BY <3>1 DEF JobsOne, SameEnds
    <3> QED BY <3>1, <3>2 DEF Gone, SameCall
  <2>2. CASE \E j \in J : j.op = "decline" /\ j.call = c
    BY <2>2 DEF Gone, SameEnds
  <2>3. CASE DOMAIN s.ctxs # {} /\ ~InCall(s, c)
    BY <1>1, <2>3 DEF Gone, SameCall
  <2> QED BY <1>5, <2>1, <2>2, <2>3 DEF Gone
<1> QED BY <1>0, <1>1, <1>2, <1>3, <1>4, <1>5

(* A step that is not about legs: nothing is added to them or to what is held.  *)
Calm(s, t) ==
    /\ SameCall(s, t) /\ t.stash = s.stash /\ t.store = s.store /\ t.destroyed = s.destroyed
    /\ \A i \in DOMAIN s.ctxs :
          /\ t.ctxs[i].peers = s.ctxs[i].peers /\ t.ctxs[i].mic = s.ctxs[i].mic
          /\ DOMAIN t.ctxs[i].legs = DOMAIN s.ctxs[i].legs
CalmJobs(J, K) ==
    /\ SameEnds(J, K)
    /\ \A j \in J : j.op = "roster" => j \in K
    /\ \A j \in K : j.op = "roster" => j \in J
    /\ Draining(K) = Draining(J)
    /\ \A j \in Joining(J) : \E k \in Joining(K) : k.todo = j.todo
    /\ \A k \in K : k.op = "accept" /\ k.at # "media" => \E j \in J : j.op = "accept" /\ j.at # "media"

LEMMA CalmMove ==
    ASSUME NEW d \in Device, NEW s, s = dev[d], OneContext(s), JobsOne(s, jobs[d]),
           Joins(d, s, jobs[d]), NEW t, NEW K, Calm(s, t), CalmJobs(jobs[d], K),
           \A m \in net : m.to # d \/ m.kind = "offer" => m \in net',
           \A m \in net' : m \in net \/
              /\ m.from = d /\ m.kind # "offer"
              /\ m.kind \in {"reject", "hangup"} => Gone(t, K, m.call)
    PROVE  Joins(d, t, K) /\ Move(d, t, K)
<1>1. PICK J : J = jobs[d]
  OBVIOUS
<1>2. SameCall(s, t) /\ SameEnds(J, K)
  BY <1>1 DEF Calm, CalmJobs
<1>3. /\ \A c : InCall(t, c) <=> InCall(s, c)
      /\ \A c : Ringing(t, c) <=> Ringing(s, c)
      /\ \A c, p : Shut(t, c, p) <=> Shut(s, c, p)
      /\ \A c : Gone(s, J, c) => Gone(t, K, c)
      /\ s.cur # 0 => s.cur \in DOMAIN s.ctxs
  BY <1>1, <1>2, CallStays
<1>4. \A c, p : HasLeg(t, c, p) <=> HasLeg(s, c, p)
  BY <1>3 DEF HasLeg, Calm, SameCall, InCall
<1>5. \A c, e : Holds(t, K, c, e) <=> Holds(s, J, c, e)
  BY <1>1, <1>3 DEF Holds, Calm, CalmJobs
<1>6. \A c, e : Offered(net, d, c, e) => Offered(net', d, c, e)
  BY DEF Offered
<1>7. \A c : \A e \in Device \ {d} : Offered(net', d, c, e) => Offered(net, d, c, e)
  BY DEF Offered
<1>8. Stays(d, t, K)
  BY <1>1, <1>3, <1>4 DEF Stays
<1>9. Follows(d, t, K)
  BY <1>1, <1>4, <1>5, <1>6, <1>7 DEF Follows, Pending
<1>10. Sends(d, t, K)
  BY DEF Sends
<1>11. Joins(d, t, K)
  <2>1. ~t.destroyed /\ (DOMAIN t.ctxs = {} => t.stash = {})
    BY DEF Joins, Calm, SameCall
  <2>2. ASSUME t.cur # 0
        PROVE  LET x == t.ctxs[t.cur] IN
                /\ x.peers \subseteq x.roster
                /\ \A y \in t.stash : OwnerOf[y.from] \in x.roster
                /\ \A j \in K : j.op = "accept" /\ j.at # "media" => x.phase = "active"
                /\ \A j \in Draining(K) : \A y \in j.todo : y.call = x.call /\ OwnerOf[y.from] \in x.roster
                /\ x.phase = "active" =>
                      /\ x.mic # 0
                      /\ \A p \in x.peers : Initiates(d, p) =>
                            p \in DOMAIN x.legs \/ \E j \in Joining(K) : p \in j.todo
                      /\ (\E y \in t.stash : y.call = x.call) => Joining(K) # {}
    <3>1. PICK x, y : x = s.ctxs[s.cur] /\ y = t.ctxs[t.cur]
      OBVIOUS
    <3>2. /\ y.call = x.call /\ y.phase = x.phase /\ y.roster = x.roster /\ y.peers = x.peers
          /\ y.mic = x.mic /\ DOMAIN y.legs = DOMAIN x.legs /\ s.cur # 0
      BY <1>3, <2>2, <3>1 DEF Calm, SameCall
    <3>3. t.stash = s.stash /\ Draining(K) = Draining(J)
      BY <1>1 DEF Calm, CalmJobs
    <3>4. \A p : (\E j \in Joining(J) : p \in j.todo) => \E j \in Joining(K) : p \in j.todo
      BY <1>1 DEF CalmJobs
    <3>5. Joining(J) # {} => Joining(K) # {}
      BY <1>1 DEF CalmJobs
    <3>6. \A k \in K : k.op = "accept" /\ k.at # "media" => x.phase = "active"
      BY <1>1, <3>1, <3>2 DEF CalmJobs, Joins
    <3> QED BY <1>1, <3>1, <3>2, <3>3, <3>4, <3>5, <3>6 DEF Joins
  <2> QED BY <2>1, <2>2 DEF Joins
<1> QED BY <1>8, <1>9, <1>10, <1>11 DEF Move

-----------------------------------------------------------------------------
(* What is sent.                                                               *)
LEMMA OffersReach ==
    ASSUME NEW d, NEW c, NEW P, NEW named
    PROVE  /\ \A m \in Offers(c, d, P, named) :
                  m.kind = "offer" /\ m.from = d /\ m.call = c /\ OwnerOf[m.to] \in P
           /\ \A e \in Device : OwnerOf[e] \in P => Offered(Offers(c, d, P, named), e, c, d)
<1>1. ASSUME NEW m \in Offers(c, d, P, named)
      PROVE  m.kind = "offer" /\ m.from = d /\ m.call = c /\ OwnerOf[m.to] \in P
  <2>1. PICK p \in P : m \in Wrapped("offer", c, d, {p}, [from |-> d, to |-> p, gen |-> 0], named)
    BY DEF Offers
  <2>2. PICK sdp : sdp = [from |-> d, to |-> p, gen |-> 0]
    OBVIOUS
  <2>3. PICK e \in Device : OwnerOf[e] \in {p} /\ m = Event("offer", c, d, e, sdp, named)
    BY <2>1, <2>2 DEF Wrapped
  <2> QED BY <2>3 DEF Event
<1>2. ASSUME NEW e \in Device, OwnerOf[e] \in P PROVE Offered(Offers(c, d, P, named), e, c, d)
  <2>1. PICK p, sdp : p = OwnerOf[e] /\ sdp = [from |-> d, to |-> p, gen |-> 0]
    OBVIOUS
  <2>2. PICK m : m = Event("offer", c, d, e, sdp, named)
    OBVIOUS
  <2>3. m \in Wrapped("offer", c, d, {p}, sdp, named)
    BY <2>1, <2>2 DEF Wrapped
  <2>4. m \in Offers(c, d, P, named)
    BY <1>2, <2>1, <2>3 DEF Offers
  <2>5. m.kind = "offer" /\ m.call = c /\ m.from = d /\ m.to = e
    BY <2>2 DEF Event
  <2> QED BY <2>4, <2>5 DEF Offered
<1> QED BY <1>1, <1>2

LEMMA WrappedAre ==
    ASSUME NEW d, NEW kind, NEW c, NEW P, NEW sdp, NEW named
    PROVE  \A m \in Wrapped(kind, c, d, P, sdp, named) : m.from = d /\ m.kind = kind /\ m.call = c
BY DEF Wrapped, Event

-----------------------------------------------------------------------------
(* The steps that create a context.                                            *)

(* Before that, there is neither a leg nor an end to speak of.                  *)
LEMMA NothingYet ==
    ASSUME NEW d, NEW s, OneContext(s), DOMAIN s.ctxs = {}, Joins(d, s, jobs[d]),
           JobsOne(s, jobs[d])
    PROVE  /\ \A c : ~Gone(s, jobs[d], c) /\ ~InCall(s, c)
           /\ s.stash = {} /\ Draining(jobs[d]) = {}
           /\ \A j \in jobs[d] : j.op \notin {"accept", "decline", "hangup", "dial"}
<1>1. s.cur = 0 /\ s.stash = {}
  BY DEF OneContext, Joins
<1>2. \A j \in jobs[d] : j.op \notin {"accept", "decline", "hangup", "dial"}
  BY DEF JobsOne
<1> QED BY <1>1, <1>2 DEF Gone, InCall, Draining

LEMMA StartMesh ==
    ASSUME OneDeviceEach, MeshInv, OneCallInv, TypeInv, MaxContexts <= 1, MaxFailures = 0,
           NEW d \in Device, NEW j \in jobs[d], MediaForStart(d, j)
    PROVE  MeshInv'
<1>0. PICK s : s = dev[d]
  OBVIOUS
<1>h. /\ StateOne(s) /\ OneContext(s) /\ JobsOne(s, jobs[d]) /\ Good(d, s) /\ Joins(d, s, jobs[d])
      /\ GoodJob(d, s, j) /\ ~s.destroyed /\ d \in DOMAIN dev /\ d \in DOMAIN jobs
  BY <1>0, HereMesh
<1>1. PICK mic : mic = NewMic(s)
  OBVIOUS
<1>2. PICK x : x = NewContext(j.call, "active", j.targets \cup {OwnerOf[d]}, j.targets, "dial", mic)
  OBVIOUS
<1>3. PICK legs : legs = [p \in j.targets |-> Offering]
  OBVIOUS
<1>4. PICK c : c = [x EXCEPT !.legs = legs]
  OBVIOUS
<1>5. PICK t : t = [s EXCEPT !.ctxs = Append(@, c), !.cur = Len(s.ctxs) + 1,
                    !.open = @ \cup {mic}, !.store = Shows("active", j.call, Nobody)]
  OBVIOUS
<1>6. dev' = [dev EXCEPT ![d] = t] /\ Len(s.ctxs) < MaxContexts /\ j.op = "start"
      /\ net' = net \cup Offers(j.call, d, j.targets, j.targets) /\ failures' = failures
  BY <1>0, <1>1, <1>2, <1>3, <1>4, <1>5 DEF MediaForStart, Running, Publish
<1>7. PICK K : K = jobs[d] \ {j}
  OBVIOUS
<1>8. jobs' = [jobs EXCEPT ![d] = K]
  <2>1. ~(failures < MaxFailures)
    BY DEF MeshInv
  <2> QED BY <1>h, <1>7, <2>1 DEF MediaForStart, Finish
<1>9. /\ HasShape(c) /\ c.call = j.call /\ c.phase = "active" /\ c.roster = j.targets \cup {OwnerOf[d]}
      /\ c.peers = j.targets /\ DOMAIN c.legs = j.targets /\ c.mic # 0
  <2>1. mic # 0
    BY <1>1, <1>h, StreamNumber DEF Good
  <2>2. /\ HasShape(x) /\ x.call = j.call /\ x.phase = "active" /\ x.mic = mic
        /\ x.roster = j.targets \cup {OwnerOf[d]} /\ x.peers = j.targets /\ "legs" \in DOMAIN x
    BY <1>2 DEF NewContext, HasShape
  <2> QED BY <1>3, <1>4, <2>1, <2>2 DEF HasShape
<1>10. /\ t.ctxs = Append(s.ctxs, c) /\ t.cur = Len(s.ctxs) + 1
       /\ t.stash = s.stash /\ t.destroyed = s.destroyed
  BY <1>5, <1>h DEF Good, Fields
<1>11. DOMAIN t.ctxs = {1} /\ t.ctxs[1] = c /\ t.cur = 1 /\ DOMAIN s.ctxs = {}
  BY <1>h, <1>6, <1>9, <1>10, NoContextYet
<1>12. /\ \A a : ~Gone(s, jobs[d], a) /\ ~InCall(s, a)
       /\ s.stash = {} /\ Draining(jobs[d]) = {}
       /\ \A k \in jobs[d] : k.op \notin {"accept", "decline", "hangup", "dial"}
  BY <1>h, <1>11, NothingYet
<1>13. Joins(d, t, K)
  BY <1>h, <1>7, <1>9, <1>10, <1>11, <1>12 DEF Joins, Draining
<1>14. \A a, p : HasLeg(t, a, p) <=> a = j.call /\ p \in j.targets
  BY <1>9, <1>11 DEF HasLeg, InCall
<1>15. Sends(d, t, K)
  <2>1. \A m \in Offers(j.call, d, j.targets, j.targets) :
           m.from = d /\ m.kind = "offer" /\ HasLeg(t, m.call, OwnerOf[m.to])
    BY <1>14, OffersReach
  <2> QED BY <1>6, <2>1 DEF Sends
<1>16. Stays(d, t, K)
  BY <1>0, <1>12 DEF Stays, HasLeg, Shut
<1>17. \A a, e : Holds(t, K, a, e) <=> Holds(s, jobs[d], a, e)
  <2>1. Draining(K) = {} /\ Draining(jobs[d]) = {} /\ t.stash = {} /\ s.stash = {}
    BY <1>7, <1>10, <1>12 DEF Draining
  <2>2. \A a : ~Ringing(t, a) /\ ~Ringing(s, a)
    BY <1>9, <1>11, <1>12 DEF Ringing, InCall
  <2> QED BY <1>6, <1>7, <2>1, <2>2 DEF Holds
<1>18. \A e \in Device \ {d} : \A a : Offered(net', d, a, e) <=> Offered(net, d, a, e)
  <2>1. \A m \in Offers(j.call, d, j.targets, j.targets) : m.from = d
    BY OffersReach
  <2> QED BY <1>6, <2>1 DEF Offered
<1>19. \A e \in Device \ {d} : \A a : HasLeg(t, a, OwnerOf[e]) => Offered(net', e, a, d)
  BY <1>6, <1>14, OffersReach DEF Offered
<1>20. Follows(d, t, K)
  BY <1>0, <1>17, <1>18, <1>19 DEF Follows, Pending
<1> QED BY <1>6, <1>8, <1>13, <1>15, <1>16, <1>20, MeshStep DEF Move

LEMMA RosterMesh ==
    ASSUME OneDeviceEach, IsFiniteSet(Pubkey), MeshInv, OneCallInv, TypeInv, MaxContexts <= 1,
           NEW d \in Device, NEW j \in jobs[d], RosterResolved(d, j)
    PROVE  MeshInv'
<1>0. PICK s, m : s = dev[d] /\ m = j.offer
  OBVIOUS
<1>h. /\ StateOne(s) /\ OneContext(s) /\ JobsOne(s, jobs[d]) /\ Good(d, s) /\ Joins(d, s, jobs[d])
      /\ GoodJob(d, s, j) /\ ~s.destroyed /\ d \in DOMAIN dev /\ d \in DOMAIN jobs
  BY <1>0, HereMesh
<1>1. PICK c : c = NewContext(m.call, "ringing", Roster(d, m), OfferPeers(d, m), "ring", 0)
  OBVIOUS
<1>2. PICK X : X = {x \in s.sdps : x.call # m.call} \cup {[call |-> m.call, sdp |-> m.sdp]}
  OBVIOUS
<1>3. PICK t : t = [s EXCEPT !.sdps = X, !.ctxs = Append(@, c), !.cur = Len(s.ctxs) + 1,
                    !.store = Shows("incoming", m.call, OwnerOf[m.from])]
  OBVIOUS
<1>4. PICK K : K = jobs[d] \ {j}
  OBVIOUS
<1>5. /\ dev' = [dev EXCEPT ![d] = t] /\ Len(s.ctxs) < MaxContexts /\ j.op = "roster"
      /\ net' = net /\ failures' = failures /\ jobs' = [jobs EXCEPT ![d] = K]
  BY <1>0, <1>1, <1>2, <1>3, <1>4, <1>h DEF RosterResolved, Running, Finish
<1>6. GoodEvent(m) /\ m.kind = "offer" /\ m.to = d /\ m.from \in Device
  BY <1>0, <1>5, <1>h DEF GoodJob, GoodEvent
<1>7. OfferPeers(d, m) \subseteq Roster(d, m)
  BY <1>6, RosterGood
<1>8. /\ HasShape(c) /\ c.call = m.call /\ c.phase = "ringing"
      /\ c.roster = Roster(d, m) /\ c.peers = OfferPeers(d, m) /\ DOMAIN c.legs = {}
  BY <1>1 DEF NewContext, HasShape
<1>9. /\ t.ctxs = Append(s.ctxs, c) /\ t.cur = Len(s.ctxs) + 1
      /\ t.stash = s.stash /\ t.destroyed = s.destroyed
      /\ t.store = Shows("incoming", m.call, OwnerOf[m.from])
  BY <1>3, <1>h DEF Good, Fields
<1>10. DOMAIN t.ctxs = {1} /\ t.ctxs[1] = c /\ t.cur = 1 /\ DOMAIN s.ctxs = {}
  BY <1>h, <1>5, <1>8, <1>9, NoContextYet
<1>11. /\ \A a : ~Gone(s, jobs[d], a) /\ ~InCall(s, a)
       /\ s.stash = {} /\ Draining(jobs[d]) = {}
       /\ \A k \in jobs[d] : k.op \notin {"accept", "decline", "hangup", "dial"}
  BY <1>h, <1>10, NothingYet
<1>12. Joins(d, t, K)
  BY <1>h, <1>4, <1>7, <1>8, <1>9, <1>10, <1>11 DEF Joins, Draining
<1>13. \A a, p : ~HasLeg(t, a, p)
  BY <1>8, <1>10 DEF HasLeg
<1>14. Stays(d, t, K)
  BY <1>0, <1>11 DEF Stays, HasLeg, Shut
<1>15. \A a : Ringing(t, a) <=> a = m.call
  BY <1>8, <1>10 DEF Ringing, InCall
<1>16. \A e \in Device : \A a : Holds(t, K, a, e) <=> Holds(s, jobs[d], a, e)
  <2>1. Draining(K) = {} /\ Draining(jobs[d]) = {} /\ t.stash = {} /\ s.stash = {}
    BY <1>4, <1>9, <1>11 DEF Draining
  <2>2. \A a : ~Ringing(s, a)
    BY <1>11 DEF Ringing
  <2>3. \A e \in Device : t.store.caller = OwnerOf[e] <=> e = m.from
    BY <1>6, <1>9 DEF Shows, OneDeviceEach
  <2>4. ASSUME NEW e \in Device, NEW a
        PROVE  Holds(s, jobs[d], a, e) <=>
                 \E k \in jobs[d] : k.op = "roster" /\ k.offer.call = a /\ k.offer.from = e
    BY <2>1, <2>2 DEF Holds
  <2>5. ASSUME NEW e \in Device, NEW a
        PROVE  Holds(t, K, a, e) <=>
                 \/ \E k \in K : k.op = "roster" /\ k.offer.call = a /\ k.offer.from = e
                 \/ a = m.call /\ e = m.from
    BY <1>15, <2>1, <2>3 DEF Holds
  <2> SUFFICES ASSUME NEW e \in Device, NEW a
               PROVE  Holds(t, K, a, e) <=> Holds(s, jobs[d], a, e)
    OBVIOUS
  <2> DEFINE Brought(k) == k.op = "roster" /\ k.offer.call = a /\ k.offer.from = e
  <2>6. Brought(j) <=> a = m.call /\ e = m.from
    BY <1>0, <1>5
  <2>7. (\E k \in jobs[d] : Brought(k)) <=> (\E k \in K : Brought(k)) \/ Brought(j)
    BY <1>4
  <2> QED BY <2>4, <2>5, <2>6, <2>7
<1>17. Follows(d, t, K)
  BY <1>0, <1>5, <1>13, <1>16 DEF Follows, Pending
<1>18. Sends(d, t, K)
  BY <1>5 DEF Sends
<1> QED BY <1>5, <1>12, <1>14, <1>17, <1>18, MeshStep DEF Move

-----------------------------------------------------------------------------
(* Steps within a call.                                                        *)

(* A context that gets another leg, or loses one.                              *)
LEMMA LegGrows ==
    ASSUME NEW s, DOMAIN s = Fields, s.cur \in DOMAIN s.ctxs, DOMAIN s.ctxs[s.cur] = ContextFields,
           NEW p, NEW session, NEW t, t = WithSession(s, p, session)
    PROVE  /\ SameCall(s, t) /\ t.stash = s.stash /\ t.store = s.store /\ t.destroyed = s.destroyed
           /\ t.ctxs[s.cur].peers = s.ctxs[s.cur].peers /\ t.ctxs[s.cur].mic = s.ctxs[s.cur].mic
           /\ DOMAIN t.ctxs[s.cur].legs = DOMAIN s.ctxs[s.cur].legs \cup {p}
<1>1. PICK legs : legs = [q \in DOMAIN s.ctxs[s.cur].legs \cup {p} |->
                            IF q = p THEN session ELSE s.ctxs[s.cur].legs[q]]
  OBVIOUS
<1>2. PICK y : y = [s.ctxs[s.cur] EXCEPT !.legs = legs]
  OBVIOUS
<1>3. /\ y.call = s.ctxs[s.cur].call /\ y.phase = s.ctxs[s.cur].phase /\ y.legs = legs
      /\ y.roster = s.ctxs[s.cur].roster /\ y.peers = s.ctxs[s.cur].peers /\ y.mic = s.ctxs[s.cur].mic
  BY <1>2 DEF ContextFields
<1>4. PICK ctxs : ctxs = [s.ctxs EXCEPT ![s.cur] = y]
  OBVIOUS
<1>5. t = [s EXCEPT !.ctxs = ctxs]
  BY <1>1, <1>2, <1>4 DEF WithSession
<1>6. /\ t.ctxs = ctxs /\ t.cur = s.cur /\ t.stash = s.stash /\ t.store = s.store
      /\ t.destroyed = s.destroyed
  BY <1>5 DEF Fields
<1>7. DOMAIN ctxs = DOMAIN s.ctxs /\ ctxs[s.cur] = y /\ \A i \in DOMAIN s.ctxs : i # s.cur => ctxs[i] = s.ctxs[i]
  BY <1>4
<1>8. DOMAIN legs = DOMAIN s.ctxs[s.cur].legs \cup {p}
  BY <1>1
<1> QED BY <1>3, <1>6, <1>7, <1>8 DEF SameCall

LEMMA CallMove ==
    ASSUME NEW d \in Device, NEW s, s = dev[d], OneContext(s), JobsOne(s, jobs[d]),
           NEW t, NEW K, SameCall(s, t), SameEnds(jobs[d], K),
           \A c, p : HasLeg(s, c, p) =>
               HasLeg(t, c, p) \/ \E e \in Device : OwnerOf[e] = p /\ Gone(dev[e], jobs[e], c),
           \A c : \A e \in Device \ {d} : HasLeg(t, c, OwnerOf[e]) =>
               HasLeg(s, c, OwnerOf[e]) \/ Pending(d, s, jobs[d], net, c, e) \/ Offered(net', e, c, d),
           \A c : \A e \in Device \ {d} : Holds(s, jobs[d], c, e) => Holds(t, K, c, e) \/ HasLeg(t, c, OwnerOf[e]),
           \A c : \A e \in Device \ {d} : Holds(t, K, c, e) => Pending(d, s, jobs[d], net, c, e),
           \A m \in net : m.to = d /\ m.kind = "offer" /\ m \notin net' =>
               \/ Holds(t, K, m.call, m.from) \/ HasLeg(t, m.call, OwnerOf[m.from])
               \/ Shut(t, m.call, OwnerOf[m.from]),
           Sends(d, t, K)
    PROVE  Move(d, t, K)
<1>1. PICK J : J = jobs[d]
  OBVIOUS
<1>2. /\ \A c, p : Shut(t, c, p) <=> Shut(s, c, p)
      /\ \A c : Gone(s, J, c) => Gone(t, K, c)
  BY <1>1, CallStays
<1>3. Stays(d, t, K)
  BY <1>1, <1>2 DEF Stays
<1>4. ASSUME NEW c, NEW e \in Device \ {d}, Offered(net, d, c, e)
      PROVE  \/ Offered(net', d, c, e) \/ Holds(t, K, c, e)
             \/ HasLeg(t, c, OwnerOf[e]) \/ Shut(t, c, OwnerOf[e])
  BY <1>4 DEF Offered
<1>5. \A c : \A e \in Device \ {d} : Offered(net', d, c, e) => Offered(net, d, c, e)
  BY DEF Offered, Sends
<1>6. Follows(d, t, K)
  BY <1>1, <1>4, <1>5 DEF Follows, Pending
<1> QED BY <1>3, <1>6 DEF Move

(* The user's media comes in time.                                             *)
LEMMA MediaMesh ==
    ASSUME OneDeviceEach, MeshInv, OneCallInv, TypeInv,
           NEW d \in Device, NEW j \in jobs[d], MediaForAccept(d, j)
    PROVE  MeshInv'
<1>0. PICK s, J : s = dev[d] /\ J = jobs[d]
  OBVIOUS
<1>h. /\ StateOne(s) /\ OneContext(s) /\ JobsOne(s, J) /\ Good(d, s) /\ Joins(d, s, J)
      /\ GoodJob(d, s, j) /\ ~s.destroyed /\ d \in DOMAIN dev /\ d \in DOMAIN jobs
  BY <1>0, HereMesh
<1>1. PICK mic, c, p : mic = NewMic(s) /\ c = s.ctxs[j.ctx].call /\ p = s.store.caller
  OBVIOUS
<1>2. PICK sdps : sdps = {x \in s.sdps : x.call # c}
  OBVIOUS
<1>3. PICK u : u = [s EXCEPT !.ctxs[j.ctx].phase = "active", !.ctxs[j.ctx].mic = mic,
                             !.open = @ \cup {mic}, !.sdps = sdps, !.store = Shows("active", c, Nobody)]
  OBVIOUS
<1>4. PICK todo : todo = s.ctxs[j.ctx].peers \ {p}
  OBVIOUS
<1>5. PICK k : k = [j EXCEPT !.at = "answer", !.todo = todo]
  OBVIOUS
<1>6. PICK K : K = (J \ {j}) \cup {k}
  OBVIOUS
<1>7. PICK session, sdp :
        /\ dev' = [dev EXCEPT ![d] = WithSession(u, p, session)]
        /\ jobs' = [jobs EXCEPT ![d] = K] /\ failures' = failures
        /\ net' = net \cup {m \in Wrapped("answer", c, d, s.ctxs[j.ctx].peers \cup {OwnerOf[d]}, sdp, {}) :
                                m.to # d}
        /\ j.op = "accept" /\ j.at = "media" /\ s.store.shows = "incoming"
  <2>1. PICK x \in s.sdps :
          /\ dev' = [dev EXCEPT ![d] = WithSession(u, p, Answering(x.sdp.from))]
          /\ net' = net \cup {m \in Wrapped("answer", c, d, s.ctxs[j.ctx].peers \cup {OwnerOf[d]},
                                            x.sdp, {}) : m.to # d}
          /\ Become(d, j, k)
    BY <1>0, <1>1, <1>2, <1>3, <1>4, <1>5 DEF MediaForAccept, Publish
  <2>2. PICK session, sdp : session = Answering(x.sdp.from) /\ sdp = x.sdp
    OBVIOUS
  <2>3. j.op = "accept" /\ j.at = "media" /\ s.store.shows = "incoming" /\ failures' = failures
    BY <1>0 DEF MediaForAccept, Running
  <2> QED BY <1>0, <1>h, <1>6, <2>1, <2>2, <2>3 DEF Become
<1>8. /\ s.cur = 1 /\ DOMAIN s.ctxs = {1} /\ j.ctx = 1 /\ Ringing(s, c) /\ p \in Peers(d)
      /\ s.ctxs[1].phase = "ringing" /\ GoodContext(d, s.ctxs[1])
  <2>1. s.cur # 0 /\ Ringing(s, s.store.call) /\ p \in Peers(d)
    BY <1>h, <1>1, <1>7 DEF StateOne, OnScreen, Ringing, InCall, Good
  <2>2. s.cur = 1 /\ DOMAIN s.ctxs = {1} /\ j.ctx = 1
    BY <1>0, <1>h, <1>7, <2>1 DEF OneContext, JobsOne
  <2> QED BY <1>h, <1>1, <2>1, <2>2 DEF Ringing, InCall, Good
<1>9. /\ k.op = "accept" /\ k.at = "answer" /\ k.todo = todo
      /\ \A l \in J : l.op = "accept" => l = j
      /\ \A l \in J : l.op # "decline"
  BY <1>h, <1>5, <1>7, <1>0 DEF JobsOne
<1>10. Draining(K) = {} /\ Draining(J) = {} /\ Joining(K) = {k}
  BY <1>6, <1>7, <1>9 DEF Draining, Joining
<1>11. PICK y : y = [s.ctxs[1] EXCEPT !.phase = "active", !.mic = mic]
  OBVIOUS
<1>12. /\ y.call = c /\ y.phase = "active" /\ y.mic = mic /\ y.roster = s.ctxs[1].roster
       /\ y.peers = s.ctxs[1].peers /\ y.legs = s.ctxs[1].legs /\ DOMAIN y = ContextFields
  BY <1>1, <1>8, <1>11 DEF GoodContext, ContextFields
<1>13. /\ DOMAIN u = Fields /\ u.ctxs = [s.ctxs EXCEPT ![1] = y] /\ u.cur = 1
       /\ u.stash = s.stash /\ u.destroyed = s.destroyed /\ u.store = Shows("active", c, Nobody)
  BY <1>h, <1>3, <1>8, <1>11 DEF Good, Fields
<1>14. DOMAIN u.ctxs = {1} /\ u.ctxs[1] = y
  BY <1>8, <1>13
<1>15. PICK t : t = WithSession(u, p, session)
  OBVIOUS
<1>16. /\ SameCall(u, t) /\ t.stash = u.stash /\ t.store = u.store /\ t.destroyed = u.destroyed
       /\ t.ctxs[1].peers = y.peers /\ t.ctxs[1].mic = y.mic
       /\ DOMAIN t.ctxs[1].legs = DOMAIN y.legs \cup {p}
  <2>1. u.cur \in DOMAIN u.ctxs /\ u.ctxs[u.cur] = y /\ DOMAIN u = Fields
    BY <1>13, <1>14
  <2>2. DOMAIN u.ctxs[u.cur] = ContextFields
    BY <1>12, <2>1
  <2>3. /\ SameCall(u, t) /\ t.stash = u.stash /\ t.store = u.store /\ t.destroyed = u.destroyed
        /\ t.ctxs[u.cur].peers = u.ctxs[u.cur].peers /\ t.ctxs[u.cur].mic = u.ctxs[u.cur].mic
        /\ DOMAIN t.ctxs[u.cur].legs = DOMAIN u.ctxs[u.cur].legs \cup {p}
    BY <1>15, <2>1, <2>2, LegGrows
  <2> QED BY <1>13, <1>14, <2>3
<1>17. /\ t.cur = 1 /\ DOMAIN t.ctxs = {1} /\ t.ctxs[1].call = c /\ t.ctxs[1].phase = "active"
       /\ t.ctxs[1].roster = s.ctxs[1].roster /\ t.ctxs[1].peers = s.ctxs[1].peers
       /\ t.ctxs[1].mic # 0 /\ t.stash = s.stash /\ ~t.destroyed
       /\ DOMAIN t.ctxs[1].legs = DOMAIN s.ctxs[1].legs \cup {p}
  <2>1. mic # 0
    BY <1>1, <1>h, StreamNumber DEF Good
  <2> QED BY <1>h, <1>12, <1>13, <1>14, <1>16, <2>1 DEF SameCall
<1>18. Joins(d, t, K)
  <2>1. \A q \in t.ctxs[1].peers : q \in DOMAIN t.ctxs[1].legs \/ q \in k.todo
    BY <1>4, <1>8, <1>9, <1>17
  <2>2. t.ctxs[1].peers \subseteq t.ctxs[1].roster /\ \A x \in t.stash : OwnerOf[x.from] \in t.ctxs[1].roster
    BY <1>h, <1>8, <1>17 DEF Joins
  <2> QED BY <1>10, <1>17, <2>1, <2>2 DEF Joins
<1>19. /\ \A a : InCall(t, a) <=> InCall(s, a)
       /\ \A a, q : Shut(t, a, q) <=> Shut(s, a, q)
       /\ \A a, q : HasLeg(t, a, q) <=> HasLeg(s, a, q) \/ (a = c /\ q = p)
       /\ \A a : ~Ringing(t, a)
  <2>1. \A a : (InCall(t, a) <=> a = c) /\ (InCall(s, a) <=> a = c)
    BY <1>1, <1>8, <1>17 DEF InCall
  <2>2. \A a, q : Shut(t, a, q) <=> Shut(s, a, q)
    BY <1>8, <1>17, <2>1 DEF Shut, Authorized
  <2>3. \A a, q : HasLeg(t, a, q) <=> HasLeg(s, a, q) \/ (a = c /\ q = p)
    BY <1>8, <1>17, <2>1 DEF HasLeg
  <2>4. \A a : ~Ringing(t, a)
    BY <1>17 DEF Ringing
  <2> QED BY <2>1, <2>2, <2>3, <2>4
<1>20. \A a : Gone(s, J, a) => Gone(t, K, a)
  <2>1. \A l \in J : l.op = "hangup" => l \in K /\ t.ctxs[l.ctx].call = s.ctxs[l.ctx].call
    BY <1>1, <1>6, <1>7, <1>8, <1>17, <1>h DEF JobsOne
  <2> QED BY <1>8, <1>9, <1>17, <1>19, <2>1 DEF Gone
<1>21. Stays(d, t, K)
  BY <1>0, <1>19, <1>20 DEF Stays
<1>22. ASSUME NEW e \in Device, NEW a
       PROVE  /\ Holds(t, K, a, e) => Holds(s, J, a, e)
              /\ Holds(s, J, a, e) => Holds(t, K, a, e) \/ HasLeg(t, a, OwnerOf[e])
              /\ HasLeg(t, a, OwnerOf[e]) => HasLeg(s, a, OwnerOf[e]) \/ Holds(s, J, a, e)
  <2>1. \A l : l.op = "roster" => (l \in K <=> l \in J)
    BY <1>6, <1>7, <1>9
  <2>2. Ringing(s, a) <=> a = c
    BY <1>1, <1>8 DEF Ringing, InCall
  <2>3. Holds(t, K, a, e) => Holds(s, J, a, e)
    BY <1>10, <1>17, <1>19, <2>1 DEF Holds
  <2>4. Holds(s, J, a, e) => Holds(t, K, a, e) \/ (a = c /\ OwnerOf[e] = p)
    BY <1>1, <1>10, <1>17, <2>1, <2>2 DEF Holds
  <2>5. a = c /\ OwnerOf[e] = p => Holds(s, J, a, e)
    BY <1>1, <2>2 DEF Holds
  <2> QED BY <1>19, <2>3, <2>4, <2>5
<1>23. \A m \in net' : m \in net \/ (m.from = d /\ m.kind = "answer")
  BY <1>7, WrappedAre
<1>24. Sends(d, t, K)
  BY <1>7, <1>23 DEF Sends
<1>25. \A e \in Device \ {d} : \A a : Offered(net', d, a, e) <=> Offered(net, d, a, e)
  BY <1>7, <1>23 DEF Offered
<1>26. Follows(d, t, K)
  BY <1>0, <1>22, <1>25 DEF Follows, Pending
<1> QED BY <1>7, <1>15, <1>18, <1>21, <1>24, <1>26, MeshStep DEF Move

-----------------------------------------------------------------------------
(* Suspended functions that go on.                                             *)

LEMMA StillThere ==
    ASSUME NEW s, DOMAIN s = Fields
    PROVE  /\ \A c : Cleared(Forget(s, c)).destroyed = s.destroyed
           /\ \A c : Elsewhere(s, c).destroyed = s.destroyed
           /\ \A i : Teardown(s, i).destroyed = s.destroyed
<1>1. \A c : Cleared(Forget(s, c)).destroyed = s.destroyed
  BY DEF Cleared, Forget, Fields
<1>2. \A c : Elsewhere(s, c).destroyed = s.destroyed
  BY DEF Elsewhere, Cleared, Fields
<1>3. \A i : Teardown(s, i).destroyed = s.destroyed
  BY DEF Teardown, Forget, Fields
<1> QED BY <1>1, <1>2, <1>3

LEMMA OverMesh ==
    ASSUME OneDeviceEach, MeshInv, OneCallInv, TypeInv, NEW d \in Device, NEW t, NEW K,
           dev' = [dev EXCEPT ![d] = t], jobs' = [jobs EXCEPT ![d] = K], failures' = failures,
           Ended(dev[d], t), DOMAIN dev[d].ctxs # {}, ~t.destroyed,
           \A m \in net : m.to # d => m \in net',
           \A m \in net' : m \in net \/ (m.from = d /\ m.kind # "offer")
    PROVE  MeshInv'
<1>1. t.cur = 0 /\ DOMAIN t.ctxs # {}
  BY DEF Ended
<1>2. Joins(d, t, K) /\ Move(d, t, K)
  BY <1>1, OverMove
<1> QED BY <1>2, MeshStep

LEMMA CalmMesh ==
    ASSUME OneDeviceEach, MeshInv, OneCallInv, TypeInv, NEW d \in Device, NEW t, NEW K,
           dev' = [dev EXCEPT ![d] = t], jobs' = [jobs EXCEPT ![d] = K], failures' = failures,
           Calm(dev[d], t), CalmJobs(jobs[d], K),
           \A m \in net : m.to # d \/ m.kind = "offer" => m \in net',
           \A m \in net' : m \in net \/
              /\ m.from = d /\ m.kind # "offer"
              /\ m.kind \in {"reject", "hangup"} => Gone(t, K, m.call)
    PROVE  MeshInv'
<1>1. /\ OneContext(dev[d]) /\ JobsOne(dev[d], jobs[d]) /\ Joins(d, dev[d], jobs[d])
  BY HereMesh
<1>2. Joins(d, t, K) /\ Move(d, t, K)
  BY <1>1, CalmMove
<1> QED BY <1>2, MeshStep

LEMMA CalmHere == ASSUME NEW s PROVE Calm(s, s)
BY DEF Calm, SameCall

LEMMA LateMesh ==
    ASSUME OneDeviceEach, MeshInv, OneCallInv, TypeInv,
           NEW d \in Device, NEW j \in jobs[d], MediaTooLate(d, j)
    PROVE  MeshInv'
<1>0. PICK s, J : s = dev[d] /\ J = jobs[d]
  OBVIOUS
<1>h. /\ StateOne(s) /\ OneContext(s) /\ JobsOne(s, J) /\ Good(d, s)
      /\ ~s.destroyed /\ d \in DOMAIN dev /\ d \in DOMAIN jobs
  BY <1>0, HereMesh
<1>1. PICK c, i : c = s.ctxs[j.ctx].call /\ i = j.ctx
  OBVIOUS
<1>2. PICK u : u = [s EXCEPT !.ctxs[i].phase = "active", !.ctxs[i].mic = 0]
  OBVIOUS
<1>3. PICK K : K = J \ {j}
  OBVIOUS
<1>4. /\ dev' = [dev EXCEPT ![d] = TimerOff(u, c)] /\ failures' = failures
      /\ Declining(d, c, K)
      /\ j.op = "accept" /\ j.at = "media"
      /\ s.store.shows # "incoming" \/ ~\E x \in s.sdps : x.call = c
  <2>1. TimerOff([s EXCEPT !.ctxs[j.ctx].phase = "active", !.ctxs[j.ctx].mic = 0], c) = TimerOff(u, c)
    BY <1>1, <1>2
  <2> QED BY <1>0, <1>1, <1>3, <2>1 DEF MediaTooLate, Running
<1>5. i \in DOMAIN s.ctxs /\ RingsOnly(s)
  BY <1>0, <1>1, <1>4, <1>h DEF JobsOne
<1>6. s.cur = 0
  <2> SUFFICES ASSUME s.cur # 0 PROVE FALSE
    OBVIOUS
  <2>1. s.cur = i /\ s.ctxs[i].phase = "ringing" /\ Ringing(s, c)
    BY <1>1, <1>5, <1>h DEF OneContext, RingsOnly, Ringing, InCall
  <2>2. s.store.shows = "incoming"
    BY <1>h, <2>1 DEF StateOne, OnScreen, Active
  <2>3. \E x \in s.sdps : x.call = c
    BY <1>h, <1>1, <2>1 DEF StateOne, StillRings
  <2> QED BY <1>4, <2>2, <2>3
<1>7. /\ DOMAIN u.ctxs = DOMAIN s.ctxs /\ u.cur = 0 /\ u.destroyed = s.destroyed
  BY <1>2, <1>6, <1>h DEF Good, Fields
<1>8. TimerOff(u, c) = u
  BY <1>7 DEF TimerOff, InCall
<1>9. jobs' = [jobs EXCEPT ![d] = K] /\ net' = net
  BY <1>0, <1>4, <1>6 DEF Declining, InCall
<1>10. Joins(d, u, K) /\ Move(d, u, K)
  BY <1>5, <1>7, <1>9, <1>h, OverMove
<1> QED BY <1>4, <1>8, <1>9, <1>10, MeshStep

LEMMA EndMesh ==
    ASSUME OneDeviceEach, MeshInv, OneCallInv, TypeInv,
           NEW d \in Device, NEW j \in jobs[d], Declined(d, j) \/ HungUp(d, j)
    PROVE  MeshInv'
<1>0. PICK s, K : s = dev[d] /\ K = jobs[d] \ {j}
  OBVIOUS
<1>h. /\ StateOne(s) /\ JobsOne(s, jobs[d]) /\ Good(d, s)
      /\ ~s.destroyed /\ d \in DOMAIN dev /\ d \in DOMAIN jobs
  BY <1>0, HereMesh
<1>1. jobs' = [jobs EXCEPT ![d] = K] /\ failures' = failures /\ net' = net
  BY <1>0, <1>h DEF Declined, HungUp, Finish
<1>2. CASE Declined(d, j)
  <2>1. PICK t : t = Cleared(Forget(s, j.call))
    OBVIOUS
  <2>2. dev' = [dev EXCEPT ![d] = t] /\ j.op = "decline"
    BY <1>0, <1>2, <1>h, <2>1 DEF Declined, Running
  <2>3. Ended(s, t) /\ DOMAIN s.ctxs # {}
    BY <1>h, <2>1, <2>2, DroppedOne DEF JobsOne
  <2>4. ~t.destroyed
    BY <1>h, <2>1, StillThere DEF Good
  <2> QED BY <1>0, <1>1, <2>2, <2>3, <2>4, OverMesh
<1>3. CASE HungUp(d, j)
  <2>1. PICK t : t = Teardown(s, j.ctx)
    OBVIOUS
  <2>2. dev' = [dev EXCEPT ![d] = t] /\ j.op = "hangup"
    BY <1>0, <1>3, <1>h, <2>1 DEF HungUp, Running
  <2>3. j.ctx \in DOMAIN s.ctxs
    BY <1>h, <2>2 DEF JobsOne
  <2>4. Ended(s, t) /\ DOMAIN s.ctxs # {}
    BY <1>h, <2>1, <2>3, TornDown
  <2>5. ~t.destroyed
    BY <1>h, <2>1, StillThere DEF Good
  <2> QED BY <1>0, <1>1, <2>2, <2>4, <2>5, OverMesh
<1> QED BY <1>2, <1>3

LEMMA PublishedMesh ==
    ASSUME OneDeviceEach, MeshInv, OneCallInv, TypeInv,
           NEW d \in Device, NEW j \in jobs[d], OffersPublished(d, j) \/ AnswersPublished(d, j)
    PROVE  MeshInv'
<1>0. PICK s, J : s = dev[d] /\ J = jobs[d]
  OBVIOUS
<1>h. /\ JobsOne(s, J) /\ d \in DOMAIN jobs
      /\ dev' = dev => dev' = [dev EXCEPT ![d] = s]
  BY <1>0, HereMesh
<1>1. dev' = [dev EXCEPT ![d] = s] /\ failures' = failures /\ net' = net
  BY <1>h DEF OffersPublished, AnswersPublished
<1>2. CASE OffersPublished(d, j)
  <2>1. PICK K : K = J \ {j}
    OBVIOUS
  <2>2. jobs' = [jobs EXCEPT ![d] = K] /\ j.op = "dial"
    BY <1>0, <1>2, <1>h, <2>1 DEF OffersPublished, Finish, Running
  <2>3. CalmJobs(J, K)
    BY <2>1, <2>2 DEF CalmJobs, SameEnds, Draining, Joining
  <2> QED BY <1>0, <1>1, <2>2, <2>3, CalmHere, CalmMesh
<1>3. CASE AnswersPublished(d, j)
  <2>1. PICK k : k = [j EXCEPT !.at = "mesh"]
    OBVIOUS
  <2>2. PICK K : K = (J \ {j}) \cup {k}
    OBVIOUS
  <2>3. jobs' = [jobs EXCEPT ![d] = K] /\ j.op = "accept" /\ j.at = "answer"
    BY <1>0, <1>3, <1>h, <2>1, <2>2 DEF AnswersPublished, Become, Running
  <2>4. k.op = "accept" /\ k.at = "mesh" /\ k.todo = j.todo
    BY <1>0, <1>h, <2>1, <2>3 DEF JobsOne
  <2>5. CalmJobs(J, K)
    <3>1. Draining(K) = Draining(J)
      BY <2>2, <2>3, <2>4 DEF Draining
    <3>2. \A l \in Joining(J) : \E m \in Joining(K) : m.todo = l.todo
      BY <2>2, <2>4 DEF Joining
    <3>3. \A l \in K : l.op = "accept" /\ l.at # "media" => \E m \in J : m.op = "accept" /\ m.at # "media"
      BY <1>0, <2>3
    <3> QED BY <2>2, <2>3, <2>4, <3>1, <3>2, <3>3 DEF CalmJobs, SameEnds
  <2> QED BY <1>0, <1>1, <2>3, <2>5, CalmHere, CalmMesh
<1> QED BY <1>2, <1>3

-----------------------------------------------------------------------------
(* acceptCall after the media: the offers to the other callees, and the answers *)
(* to the offers that came before it.                                          *)

(* The current context with other peers, or with a leg that answers an offer.   *)
WithPeers(s, P) == [s EXCEPT !.ctxs[s.cur].peers = P]

LEMMA PeersChange ==
    ASSUME NEW s, DOMAIN s = Fields, s.cur \in DOMAIN s.ctxs, DOMAIN s.ctxs[s.cur] = ContextFields,
           NEW P, NEW t, t = WithPeers(s, P)
    PROVE  /\ SameCall(s, t) /\ t.stash = s.stash /\ t.store = s.store /\ t.destroyed = s.destroyed
           /\ t.ctxs[s.cur].peers = P /\ t.ctxs[s.cur].mic = s.ctxs[s.cur].mic
           /\ t.ctxs[s.cur].legs = s.ctxs[s.cur].legs
           /\ DOMAIN t = Fields /\ DOMAIN t.ctxs[s.cur] = ContextFields
           /\ t.cur = s.cur /\ t.cur \in DOMAIN t.ctxs
<1>1. PICK y : y = [s.ctxs[s.cur] EXCEPT !.peers = P]
  OBVIOUS
<1>2. /\ y.call = s.ctxs[s.cur].call /\ y.phase = s.ctxs[s.cur].phase /\ y.legs = s.ctxs[s.cur].legs
      /\ y.roster = s.ctxs[s.cur].roster /\ y.peers = P /\ y.mic = s.ctxs[s.cur].mic
      /\ DOMAIN y = ContextFields
  BY <1>1 DEF ContextFields
<1>3. PICK ctxs : ctxs = [s.ctxs EXCEPT ![s.cur] = y]
  OBVIOUS
<1>4. t = [s EXCEPT !.ctxs = ctxs]
  BY <1>1, <1>3 DEF WithPeers
<1>5. /\ t.ctxs = ctxs /\ t.cur = s.cur /\ t.stash = s.stash /\ t.store = s.store
      /\ t.destroyed = s.destroyed /\ DOMAIN t = Fields
  BY <1>4 DEF Fields
<1>6. DOMAIN ctxs = DOMAIN s.ctxs /\ ctxs[s.cur] = y /\ \A i \in DOMAIN s.ctxs : i # s.cur => ctxs[i] = s.ctxs[i]
  BY <1>3
<1> QED BY <1>2, <1>5, <1>6 DEF SameCall

LEMMA SameCallAgain ==
    ASSUME NEW s, NEW t, NEW u, SameCall(s, t), SameCall(t, u) PROVE SameCall(s, u)
BY DEF SameCall

LEMMA AnswerGrows ==
    ASSUME NEW s, DOMAIN s = Fields, s.cur \in DOMAIN s.ctxs, DOMAIN s.ctxs[s.cur] = ContextFields,
           NEW m, NEW p, p = OwnerOf[m.from], ~NoOfferTo(s, s.cur, p), NEW t, t = MeshAnswer(s, s.cur, m)
    PROVE  /\ SameCall(s, t) /\ t.stash = s.stash /\ t.store = s.store /\ t.destroyed = s.destroyed
           /\ t.ctxs[s.cur].peers = s.ctxs[s.cur].peers \cup {p}
           /\ t.ctxs[s.cur].mic = s.ctxs[s.cur].mic
           /\ DOMAIN t.ctxs[s.cur].legs = DOMAIN s.ctxs[s.cur].legs \cup {p}
<1>1. PICK P : P = s.ctxs[s.cur].peers \cup {p}
  OBVIOUS
<1>2. PICK u : u = WithPeers(s, P)
  OBVIOUS
<1>3. PICK session : session = Answering(m.from)
  OBVIOUS
<1>4. t = WithSession(u, p, session)
  BY <1>1, <1>2, <1>3 DEF MeshAnswer, WithPeers
<1>5. /\ SameCall(s, u) /\ u.stash = s.stash /\ u.store = s.store /\ u.destroyed = s.destroyed
      /\ u.ctxs[s.cur].peers = P /\ u.ctxs[s.cur].mic = s.ctxs[s.cur].mic
      /\ u.ctxs[s.cur].legs = s.ctxs[s.cur].legs
      /\ DOMAIN u = Fields /\ DOMAIN u.ctxs[s.cur] = ContextFields
      /\ u.cur = s.cur /\ u.cur \in DOMAIN u.ctxs
  BY <1>2, PeersChange
<1>6. /\ SameCall(u, t) /\ t.stash = u.stash /\ t.store = u.store /\ t.destroyed = u.destroyed
      /\ t.ctxs[u.cur].peers = u.ctxs[u.cur].peers /\ t.ctxs[u.cur].mic = u.ctxs[u.cur].mic
      /\ DOMAIN t.ctxs[u.cur].legs = DOMAIN u.ctxs[u.cur].legs \cup {p}
  <2>1. DOMAIN u = Fields /\ u.cur \in DOMAIN u.ctxs
    BY <1>5
  <2>2. DOMAIN u.ctxs[u.cur] = ContextFields
    BY <1>5
  <2> QED BY <1>4, <2>1, <2>2, LegGrows
<1>7. SameCall(s, t)
  BY <1>5, <1>6, SameCallAgain
<1> QED BY <1>1, <1>5, <1>6, <1>7

(* The one acceptCall of a device.                                             *)
LEMMA AcceptAlone ==
    ASSUME NEW d, NEW s, NEW J, OneContext(s), JobsOne(s, J), Joins(d, s, J),
           NEW j \in J, j.op = "accept", j.at # "media"
    PROVE  /\ j.ctx \in DOMAIN s.ctxs /\ {"op", "at", "ctx", "todo"} \subseteq DOMAIN j
           /\ \A l \in J : l.op = "accept" => l = j
           /\ \A l \in J : l.op # "decline"
           /\ s.cur # 0 => /\ s.cur = j.ctx /\ s.ctxs[s.cur].phase = "active"
                           /\ s.ctxs[s.cur].mic # 0
           /\ \A c : ~Ringing(s, c)
<1>1. j.ctx \in DOMAIN s.ctxs /\ {"op", "at", "ctx", "todo"} \subseteq DOMAIN j
  BY DEF JobsOne
<1>2. (\A l \in J : l.op = "accept" => l = j) /\ \A l \in J : l.op # "decline"
  BY DEF JobsOne
<1>3. ASSUME s.cur # 0
      PROVE  s.cur = j.ctx /\ s.ctxs[s.cur].phase = "active" /\ s.ctxs[s.cur].mic # 0
  BY <1>1, <1>3 DEF OneContext, Joins
<1>4. \A c : ~Ringing(s, c)
  BY <1>3 DEF Ringing, InCall
<1> QED BY <1>1, <1>2, <1>3, <1>4

(* A step of acceptCall that finds no call any more.                            *)
LEMMA NoCallMesh ==
    ASSUME OneDeviceEach, MeshInv, OneCallInv, TypeInv, NEW d \in Device, NEW t, NEW K,
           dev[d].cur = 0, DOMAIN dev[d].ctxs # {},
           t.ctxs = dev[d].ctxs, t.cur = 0, t.destroyed = dev[d].destroyed,
           dev' = [dev EXCEPT ![d] = t], jobs' = [jobs EXCEPT ![d] = K],
           failures' = failures, net' = net
    PROVE  MeshInv'
<1>1. Joins(d, t, K) /\ Move(d, t, K)
  BY OverMove, HereMesh
<1> QED BY <1>1, MeshStep

LEMMA JoinMeshMesh ==
    ASSUME OneDeviceEach, MeshInv, OneCallInv, TypeInv,
           NEW d \in Device, NEW j \in jobs[d], JoinMesh(d, j)
    PROVE  MeshInv'
<1>0. PICK s, J : s = dev[d] /\ J = jobs[d]
  OBVIOUS
<1>h. /\ OneContext(s) /\ JobsOne(s, J) /\ Good(d, s) /\ Joins(d, s, J)
      /\ d \in DOMAIN dev /\ d \in DOMAIN jobs
      /\ dev' = dev => dev' = [dev EXCEPT ![d] = s]
      /\ s.cur # 0 => s.cur \in DOMAIN s.ctxs /\ DOMAIN s.ctxs[s.cur] = ContextFields
  BY <1>0, HereMesh DEF GoodContext
<1>1. j.op = "accept" /\ j.at = "mesh" /\ failures' = failures
  BY DEF JoinMesh, Running
<1>2. PICK p \in j.todo :
        IF Initiates(d, p) /\ (NoOfferTo(s, j.ctx, p) \/ s.cur # 0)
        THEN /\ dev' = [dev EXCEPT ![d] = OfferTo(s, j.ctx, p)]
             /\ Publish(OfferEvents(s, d, j.ctx, p))
             /\ Become(d, j, [j EXCEPT !.todo = @ \ {p}])
        ELSE /\ IF Initiates(d, p) THEN Finish(d, j)
                ELSE Become(d, j, [j EXCEPT !.todo = @ \ {p}])
             /\ UNCHANGED <<dev, net>>
  BY <1>0 DEF JoinMesh
<1>3. /\ j.ctx \in DOMAIN s.ctxs /\ {"op", "at", "ctx", "todo"} \subseteq DOMAIN j
      /\ \A l \in J : l.op = "accept" => l = j
      /\ s.cur # 0 => s.cur = j.ctx /\ s.ctxs[s.cur].phase = "active" /\ s.ctxs[s.cur].mic # 0
      /\ \A c : ~Ringing(s, c)
  BY <1>0, <1>1, <1>h, AcceptAlone
<1>4. PICK todo : todo = j.todo \ {p}
  OBVIOUS
<1>5. PICK k : k = [j EXCEPT !.todo = todo]
  OBVIOUS
<1>6. k.op = "accept" /\ k.at = "mesh" /\ k.todo = todo
  BY <1>1, <1>3, <1>5
<1>7. k = [j EXCEPT !.todo = @ \ {p}]
  BY <1>4, <1>5
<1>8. CASE s.cur = 0
  <2>1. dev' = [dev EXCEPT ![d] = s] /\ net' = net
    <3>1. CASE NoOfferTo(s, j.ctx, p)
      <4>1. OfferTo(s, j.ctx, p) = s /\ OfferEvents(s, d, j.ctx, p) = {}
        BY <3>1 DEF OfferTo, OfferEvents
      <4> QED BY <1>2, <1>h, <4>1 DEF Publish
    <3>2. CASE ~NoOfferTo(s, j.ctx, p)
      BY <1>2, <1>8, <1>h, <3>2
    <3> QED BY <3>1, <3>2
  <2>2. PICK K : jobs' = [jobs EXCEPT ![d] = K]
    BY <1>2, <1>7, <1>h DEF Become, Finish
  <2>3. DOMAIN s.ctxs # {}
    BY <1>3
  <2> QED BY <1>0, <1>1, <1>8, <2>1, <2>2, <2>3, NoCallMesh
<1>9. CASE s.cur # 0
  <2>1. PICK i, x : i = s.cur /\ x = s.ctxs[i]
    OBVIOUS
  <2>2. /\ i = j.ctx /\ i # 0 /\ i \in DOMAIN s.ctxs /\ x.phase = "active" /\ x.mic # 0
        /\ DOMAIN x = ContextFields
    BY <1>3, <1>9, <1>h, <2>1
  <2>3. PICK K : K = (J \ {j}) \cup {k}
    OBVIOUS
  <2>4. jobs' = [jobs EXCEPT ![d] = K]
    BY <1>0, <1>2, <1>7, <1>9, <1>h, <2>3 DEF Become
  <2>5. Draining(K) = {} /\ Draining(J) = {} /\ Joining(K) = {k} /\ Joining(J) = {j}
    BY <1>0, <1>1, <1>3, <1>6, <2>3 DEF Draining, Joining
  <2>6. SameEnds(J, K) /\ \A l : l.op = "roster" => (l \in K <=> l \in J)
    BY <1>1, <1>6, <2>3 DEF SameEnds
  <2>7. /\ x.peers \subseteq x.roster /\ \A y \in s.stash : OwnerOf[y.from] \in x.roster
        /\ \A q \in x.peers : Initiates(d, q) => q \in DOMAIN x.legs \/ q \in j.todo
        /\ ~s.destroyed
    BY <1>9, <1>h, <2>1, <2>2, <2>5 DEF Joins
  <2>8. CASE Initiates(d, p) /\ ~NoOfferTo(s, i, p)
    <3>1. PICK session, t : session = Offering /\ t = WithSession(s, p, session)
      OBVIOUS
    <3>2. /\ dev' = [dev EXCEPT ![d] = t]
          /\ net' = net \cup Offers(x.call, d, {p}, x.peers)
      BY <1>2, <1>9, <2>1, <2>2, <2>8, <3>1 DEF OfferTo, OfferEvents, Publish
    <3>3. /\ SameCall(s, t) /\ t.stash = s.stash /\ t.destroyed = s.destroyed
          /\ t.ctxs[s.cur].peers = s.ctxs[s.cur].peers /\ t.ctxs[s.cur].mic = s.ctxs[s.cur].mic
          /\ DOMAIN t.ctxs[s.cur].legs = DOMAIN s.ctxs[s.cur].legs \cup {p}
      <4>1. DOMAIN s = Fields
        BY <1>h DEF Good
      <4> QED BY <1>9, <1>h, <3>1, <4>1, LegGrows
    <3>4. /\ t.cur = i /\ DOMAIN t.ctxs = DOMAIN s.ctxs /\ t.ctxs[i].call = x.call
          /\ t.ctxs[i].phase = "active" /\ t.ctxs[i].roster = x.roster /\ t.ctxs[i].peers = x.peers
          /\ t.ctxs[i].mic # 0 /\ DOMAIN t.ctxs[i].legs = DOMAIN x.legs \cup {p}
      BY <2>1, <2>2, <3>3 DEF SameCall
    <3>5. Joins(d, t, K)
      <4>1. \A q \in x.peers : Initiates(d, q) => q \in DOMAIN t.ctxs[i].legs \/ q \in k.todo
        BY <1>4, <1>6, <2>7, <3>4
      <4> QED BY <2>2, <2>5, <2>7, <3>3, <3>4, <4>1 DEF Joins
    <3>6. \A c, q : HasLeg(t, c, q) <=> HasLeg(s, c, q) \/ (c = x.call /\ q = p)
      BY <1>9, <2>1, <3>4 DEF HasLeg, InCall
    <3>7. \A c, e : Holds(t, K, c, e) <=> Holds(s, J, c, e)
      <4>1. \A c : ~Ringing(t, c)
        BY <3>4 DEF Ringing
      <4> QED BY <1>3, <2>5, <2>6, <3>3, <4>1 DEF Holds
    <3>8. /\ \A m \in Offers(x.call, d, {p}, x.peers) :
                m.from = d /\ m.kind = "offer" /\ m.call = x.call /\ OwnerOf[m.to] = p
          /\ \A e \in Device : OwnerOf[e] = p => Offered(Offers(x.call, d, {p}, x.peers), e, x.call, d)
      BY OffersReach
    <3>9. Sends(d, t, K)
      BY <3>2, <3>6, <3>8 DEF Sends
    <3>10. \A e \in Device : OwnerOf[e] = p => Offered(net', e, x.call, d)
      BY <3>2, <3>8 DEF Offered
    <3>11. Move(d, t, K)
      BY <1>0, <1>h, <2>6, <3>2, <3>3, <3>6, <3>7, <3>9, <3>10, CallMove DEF Pending
    <3> QED BY <1>1, <2>4, <3>2, <3>5, <3>11, MeshStep
  <2>9. CASE ~(Initiates(d, p) /\ ~NoOfferTo(s, i, p))
    <3>1. dev' = [dev EXCEPT ![d] = s] /\ net' = net
      <4>1. CASE NoOfferTo(s, i, p)
        <5>1. OfferTo(s, i, p) = s /\ OfferEvents(s, d, i, p) = {}
          BY <4>1 DEF OfferTo, OfferEvents
        <5> QED BY <1>2, <1>h, <2>2, <5>1 DEF Publish
      <4>2. CASE ~Initiates(d, p)
        BY <1>2, <1>h, <4>2
      <4> QED BY <2>9, <4>1, <4>2
    <3>2. Initiates(d, p) => p \in DOMAIN x.legs
      BY <2>1, <2>2, <2>9 DEF NoOfferTo
    <3>3. Joins(d, s, K)
      <4>1. \A q \in x.peers : Initiates(d, q) => q \in DOMAIN x.legs \/ q \in k.todo
        BY <1>4, <1>6, <2>7, <3>2
      <4> QED BY <2>1, <2>2, <2>5, <2>7, <4>1 DEF Joins
    <3>4. \A c, e : Holds(s, K, c, e) <=> Holds(s, J, c, e)
      BY <2>5, <2>6 DEF Holds
    <3>5. Sends(d, s, K)
      BY <3>1 DEF Sends
    <3>6. Move(d, s, K)
      <4>1. SameCall(s, s)
        BY DEF SameCall
      <4> QED BY <1>0, <1>h, <2>6, <3>1, <3>4, <3>5, <4>1, CallMove DEF Pending
    <3> QED BY <1>1, <2>4, <3>1, <3>3, <3>6, MeshStep
  <2> QED BY <2>8, <2>9
<1> QED BY <1>8, <1>9

LEMMA TakeStashMesh ==
    ASSUME OneDeviceEach, MeshInv, OneCallInv, TypeInv,
           NEW d \in Device, NEW j \in jobs[d], TakeStash(d, j)
    PROVE  MeshInv'
<1>0. PICK s, J : s = dev[d] /\ J = jobs[d]
  OBVIOUS
<1>h. /\ OneContext(s) /\ JobsOne(s, J) /\ Good(d, s) /\ Joins(d, s, J)
      /\ d \in DOMAIN dev /\ d \in DOMAIN jobs
  BY <1>0, HereMesh
<1>1. j.op = "accept" /\ j.at = "mesh" /\ j.todo = {} /\ failures' = failures /\ net' = net
  BY DEF TakeStash, Running
<1>2. PICK mine : mine = {x \in s.stash : x.call = s.ctxs[j.ctx].call}
  OBVIOUS
<1>3. PICK t : t = [s EXCEPT !.stash = s.stash \ mine]
  OBVIOUS
<1>4. PICK k : k = [j EXCEPT !.at = "drain", !.todo = mine]
  OBVIOUS
<1>5. PICK K : K = IF mine = {} THEN J \ {j} ELSE (J \ {j}) \cup {k}
  OBVIOUS
<1>6. dev' = [dev EXCEPT ![d] = t] /\ jobs' = [jobs EXCEPT ![d] = K]
  BY <1>0, <1>2, <1>3, <1>4, <1>5, <1>h DEF TakeStash, Finish, Become
<1>7. /\ j.ctx \in DOMAIN s.ctxs /\ {"op", "at", "ctx", "todo"} \subseteq DOMAIN j
      /\ \A l \in J : l.op = "accept" => l = j
      /\ s.cur # 0 => s.cur = j.ctx /\ s.ctxs[s.cur].phase = "active" /\ s.ctxs[s.cur].mic # 0
      /\ \A c : ~Ringing(s, c)
  BY <1>0, <1>1, <1>h, AcceptAlone
<1>8. k.op = "accept" /\ k.at = "drain" /\ k.todo = mine
  BY <1>1, <1>4, <1>7
<1>9. /\ t.ctxs = s.ctxs /\ t.cur = s.cur /\ t.destroyed = s.destroyed
      /\ t.stash = s.stash \ mine
  BY <1>3, <1>h DEF Good, Fields
<1>10. CASE s.cur = 0
  <2>1. DOMAIN s.ctxs # {}
    BY <1>7
  <2> QED BY <1>0, <1>1, <1>6, <1>9, <1>10, <2>1, NoCallMesh
<1>11. CASE s.cur # 0
  <2>1. PICK x : x = s.ctxs[s.cur]
    OBVIOUS
  <2>2. x = s.ctxs[j.ctx] /\ x.phase = "active" /\ x.mic # 0
    BY <1>7, <1>11, <2>1
  <2>3. Joining(J) = {j} /\ Draining(J) = {} /\ Draining(K) = (IF mine = {} THEN {} ELSE {k})
    BY <1>0, <1>1, <1>5, <1>7, <1>8 DEF Joining, Draining
  <2>4. SameEnds(J, K) /\ \A l : l.op = "roster" => (l \in K <=> l \in J)
    BY <1>1, <1>5, <1>8 DEF SameEnds
  <2>5. /\ x.peers \subseteq x.roster /\ \A y \in s.stash : OwnerOf[y.from] \in x.roster
        /\ \A q \in x.peers : Initiates(d, q) => q \in DOMAIN x.legs
        /\ ~s.destroyed
    BY <1>1, <1>11, <1>h, <2>1, <2>2, <2>3 DEF Joins
  <2>6. Joins(d, t, K)
    <3>1. \A y \in t.stash : y.call # x.call
      BY <1>2, <1>9, <2>2
    <3>2. \A l \in Draining(K) : \A y \in l.todo : y.call = x.call /\ OwnerOf[y.from] \in x.roster
      BY <1>2, <1>8, <2>2, <2>3, <2>5
    <3>3. t.ctxs[t.cur] = x /\ DOMAIN t.ctxs # {} /\ ~t.destroyed
      BY <1>7, <1>9, <2>1, <2>5
    <3>4. \A y \in t.stash : OwnerOf[y.from] \in x.roster
      BY <1>9, <2>5
    <3> QED BY <2>2, <2>5, <3>1, <3>2, <3>3, <3>4 DEF Joins
  <2>7. \A c, q : HasLeg(t, c, q) <=> HasLeg(s, c, q)
    BY <1>9 DEF HasLeg, InCall
  <2>8. \A c, e : Holds(t, K, c, e) <=> Holds(s, J, c, e)
    <3>1. \A c : ~Ringing(t, c)
      BY <1>7, <1>9 DEF Ringing, InCall
    <3>2. ASSUME NEW c, NEW e
          PROVE  (\E y \in s.stash : y.call = c /\ y.from = e) <=>
                     \/ \E y \in t.stash : y.call = c /\ y.from = e
                     \/ \E l \in Draining(K) : \E y \in l.todo : y.call = c /\ y.from = e
      <4>1. (\E l \in Draining(K) : \E y \in l.todo : y.call = c /\ y.from = e) <=>
                \E y \in mine : y.call = c /\ y.from = e
        BY <1>8, <2>3
      <4>2. mine \subseteq s.stash
        BY <1>2
      <4> QED BY <1>9, <4>1, <4>2
    <3>3. \A c, e : (\E l \in J : l.op = "roster" /\ l.offer.call = c /\ l.offer.from = e) <=>
                    (\E l \in K : l.op = "roster" /\ l.offer.call = c /\ l.offer.from = e)
      BY <2>4
    <3> QED BY <1>7, <2>3, <3>1, <3>2, <3>3 DEF Holds
  <2>9. Sends(d, t, K)
    BY <1>1 DEF Sends
  <2>10. SameCall(s, t)
    BY <1>9 DEF SameCall
  <2>11. Move(d, t, K)
    BY <1>0, <1>1, <1>h, <2>4, <2>7, <2>8, <2>9, <2>10, CallMove DEF Pending
  <2> QED BY <1>1, <1>6, <2>6, <2>11, MeshStep
<1> QED BY <1>10, <1>11

LEMMA AnswerStashedMesh ==
    ASSUME OneDeviceEach, MeshInv, OneCallInv, TypeInv,
           NEW d \in Device, NEW j \in jobs[d], AnswerStashed(d, j)
    PROVE  MeshInv'
<1>0. PICK s, J : s = dev[d] /\ J = jobs[d]
  OBVIOUS
<1>h. /\ OneContext(s) /\ JobsOne(s, J) /\ Good(d, s) /\ Joins(d, s, J) /\ GoodJob(d, s, j)
      /\ d \in DOMAIN dev /\ d \in DOMAIN jobs /\ DOMAIN s = Fields
      /\ s.cur # 0 => s.cur \in DOMAIN s.ctxs /\ DOMAIN s.ctxs[s.cur] = ContextFields
  <2>1. /\ OneContext(s) /\ JobsOne(s, J) /\ Good(d, s) /\ Joins(d, s, J) /\ GoodJob(d, s, j)
        /\ d \in DOMAIN dev /\ d \in DOMAIN jobs
    BY <1>0, HereMesh
  <2>2. s.cur # 0 => s.cur \in DOMAIN s.ctxs /\ DOMAIN s.ctxs[s.cur] = ContextFields
    BY <1>0, HereMesh DEF GoodContext
  <2>3. DOMAIN s = Fields
    BY <2>1 DEF Good
  <2> QED BY <2>1, <2>2, <2>3
<1>1. j.op = "accept" /\ j.at = "drain" /\ failures' = failures
  BY DEF AnswerStashed, Running
<1>2. PICK y \in j.todo :
        /\ NoOfferTo(s, j.ctx, OwnerOf[y.from]) \/ s.cur # 0
        /\ dev' = [dev EXCEPT ![d] = MeshAnswer(s, j.ctx, y)]
        /\ Publish(MeshAnswerEvents(s, d, j.ctx, y))
        /\ IF j.todo = {y} THEN Finish(d, j) ELSE Become(d, j, [j EXCEPT !.todo = @ \ {y}])
  BY <1>0 DEF AnswerStashed
<1>3. /\ j.ctx \in DOMAIN s.ctxs /\ {"op", "at", "ctx", "todo"} \subseteq DOMAIN j
      /\ \A l \in J : l.op = "accept" => l = j
      /\ s.cur # 0 => s.cur = j.ctx /\ s.ctxs[s.cur].phase = "active" /\ s.ctxs[s.cur].mic # 0
      /\ \A c : ~Ringing(s, c)
  BY <1>0, <1>1, <1>h, AcceptAlone
<1>4. PICK t, p : t = MeshAnswer(s, j.ctx, y) /\ p = OwnerOf[y.from]
  OBVIOUS
<1>5. NoOfferTo(s, j.ctx, p) => t = s /\ net' = net
  <2> SUFFICES ASSUME NoOfferTo(s, j.ctx, p) PROVE t = s /\ net' = net
    OBVIOUS
  <2>1. MeshAnswer(s, j.ctx, y) = s /\ MeshAnswerEvents(s, d, j.ctx, y) = {}
    BY <1>4 DEF MeshAnswer, MeshAnswerEvents
  <2> QED BY <1>2, <1>4, <2>1 DEF Publish
<1>6. PICK todo : todo = j.todo \ {y}
  OBVIOUS
<1>7. PICK k : k = [j EXCEPT !.todo = todo]
  OBVIOUS
<1>8. k.op = "accept" /\ k.at = "drain" /\ k.todo = todo /\ k = [j EXCEPT !.todo = @ \ {y}]
  BY <1>1, <1>3, <1>6, <1>7
<1>9. PICK K : K = IF j.todo = {y} THEN J \ {j} ELSE (J \ {j}) \cup {k}
  OBVIOUS
<1>10. dev' = [dev EXCEPT ![d] = t] /\ jobs' = [jobs EXCEPT ![d] = K]
  BY <1>0, <1>2, <1>4, <1>8, <1>9, <1>h DEF Finish, Become
<1>11. CASE s.cur = 0
  <2>1. DOMAIN s.ctxs # {}
    BY <1>3
  <2>2. t = s /\ net' = net
    BY <1>2, <1>4, <1>5, <1>11
  <2> QED BY <1>0, <1>1, <1>10, <1>11, <2>1, <2>2, NoCallMesh
<1>12. CASE s.cur # 0
  <2>1. PICK x : x = s.ctxs[s.cur]
    OBVIOUS
  <2>2. s.cur = j.ctx /\ x.phase = "active" /\ x.mic # 0 /\ s.cur \in DOMAIN s.ctxs
    BY <1>3, <1>12, <1>h, <2>1
  <2>3. Joining(J) = {} /\ Draining(J) = {j}
    BY <1>0, <1>1, <1>3 DEF Joining, Draining
  <2>4. Joining(K) = {} /\ Draining(K) = IF j.todo = {y} THEN {} ELSE {k}
    BY <1>3, <1>8, <1>9 DEF Joining, Draining
  <2>5. SameEnds(J, K) /\ \A l : l.op = "roster" => (l \in K <=> l \in J)
    BY <1>1, <1>8, <1>9 DEF SameEnds
  <2>6. /\ x.peers \subseteq x.roster /\ \A z \in s.stash : OwnerOf[z.from] \in x.roster
        /\ \A q \in x.peers : Initiates(d, q) => q \in DOMAIN x.legs
        /\ \A z \in s.stash : z.call # x.call
        /\ \A z \in j.todo : z.call = x.call /\ OwnerOf[z.from] \in x.roster
        /\ ~s.destroyed
    BY <1>12, <1>h, <2>1, <2>2, <2>3 DEF Joins
  <2>7. /\ SameCall(s, t) /\ t.stash = s.stash /\ t.destroyed = s.destroyed
        /\ t.ctxs[s.cur].peers \subseteq x.peers \cup {p}
        /\ t.ctxs[s.cur].mic = x.mic
        /\ DOMAIN t.ctxs[s.cur].legs = DOMAIN x.legs \cup {p}
    <3>1. CASE NoOfferTo(s, s.cur, p)
      <4>1. p \in DOMAIN x.legs
        BY <2>1, <2>2, <3>1 DEF NoOfferTo
      <4>2. t = s
        BY <1>5, <2>2, <3>1
      <4> QED BY <2>1, <4>1, <4>2 DEF SameCall
    <3>2. CASE ~NoOfferTo(s, s.cur, p)
      <4>1. t = MeshAnswer(s, s.cur, y) /\ DOMAIN s = Fields
        BY <1>4, <1>h, <2>2
      <4>2. s.cur \in DOMAIN s.ctxs /\ DOMAIN s.ctxs[s.cur] = ContextFields
        BY <1>12, <1>h
      <4>3. /\ SameCall(s, t) /\ t.stash = s.stash /\ t.store = s.store /\ t.destroyed = s.destroyed
            /\ t.ctxs[s.cur].peers = s.ctxs[s.cur].peers \cup {p}
            /\ t.ctxs[s.cur].mic = s.ctxs[s.cur].mic
            /\ DOMAIN t.ctxs[s.cur].legs = DOMAIN s.ctxs[s.cur].legs \cup {p}
        BY <1>4, <3>2, <4>1, <4>2, AnswerGrows
      <4> QED BY <2>1, <4>3
    <3> QED BY <3>1, <3>2
  <2>8. /\ t.cur = s.cur /\ DOMAIN t.ctxs = DOMAIN s.ctxs /\ t.ctxs[s.cur].call = x.call
        /\ t.ctxs[s.cur].phase = "active" /\ t.ctxs[s.cur].roster = x.roster
    BY <2>1, <2>2, <2>7 DEF SameCall
  <2>9. Joins(d, t, K)
    <3>1. \A q \in t.ctxs[s.cur].peers : Initiates(d, q) => q \in DOMAIN t.ctxs[s.cur].legs
      BY <2>6, <2>7
    <3>2. t.ctxs[s.cur].peers \subseteq x.roster
      BY <1>4, <2>6, <2>7
    <3>3. \A l \in Draining(K) : \A z \in l.todo : z.call = x.call /\ OwnerOf[z.from] \in x.roster
      BY <1>6, <1>8, <2>4, <2>6
    <3> QED BY <2>2, <2>6, <2>7, <2>8, <3>1, <3>2, <3>3 DEF Joins
  <2>10. \A c, q : HasLeg(t, c, q) <=> HasLeg(s, c, q) \/ (c = x.call /\ q = p)
    BY <1>12, <2>1, <2>7, <2>8 DEF HasLeg, InCall
  <2>11. \A c : ~Ringing(t, c)
    BY <2>8 DEF Ringing
  <2>12. \A c, e : (\E l \in J : l.op = "roster" /\ l.offer.call = c /\ l.offer.from = e) <=>
                   (\E l \in K : l.op = "roster" /\ l.offer.call = c /\ l.offer.from = e)
    BY <2>5
  <2>13. ASSUME NEW c, NEW e
         PROVE  /\ (\E l \in Draining(J) : \E z \in l.todo : z.call = c /\ z.from = e) <=>
                       \E z \in j.todo : z.call = c /\ z.from = e
                /\ (\E l \in Draining(K) : \E z \in l.todo : z.call = c /\ z.from = e) <=>
                       \E z \in todo : z.call = c /\ z.from = e
    BY <1>6, <1>8, <2>3, <2>4
  <2> DEFINE Brings(S, c, e) == \E l \in S : l.op = "roster" /\ l.offer.call = c /\ l.offer.from = e
             Listed(S, c, e) == \E z \in S : z.call = c /\ z.from = e
  <2>14. ASSUME NEW c, NEW e
         PROVE  /\ Holds(s, J, c, e) <=> Brings(J, c, e) \/ Listed(s.stash, c, e) \/ Listed(j.todo, c, e)
                /\ Holds(t, K, c, e) <=> Brings(J, c, e) \/ Listed(s.stash, c, e) \/ Listed(todo, c, e)
    <3>1. Holds(s, J, c, e) <=>
              \/ Brings(J, c, e) \/ Listed(s.stash, c, e)
              \/ \E l \in Draining(J) : Listed(l.todo, c, e)
      BY <1>3 DEF Holds
    <3>2. Holds(t, K, c, e) <=>
              \/ Brings(K, c, e) \/ Listed(t.stash, c, e)
              \/ \E l \in Draining(K) : Listed(l.todo, c, e)
      BY <2>11 DEF Holds
    <3> QED BY <2>7, <2>12, <2>13, <3>1, <3>2
  <2>15. ASSUME NEW c, NEW e
         PROVE  /\ Holds(s, J, c, e) => Holds(t, K, c, e) \/ HasLeg(t, c, OwnerOf[e])
                /\ Holds(t, K, c, e) => Holds(s, J, c, e)
    <3>1. Listed(j.todo, c, e) => Listed(todo, c, e) \/ (y.call = c /\ y.from = e)
      BY <1>6
    <3>2. y.call = c /\ y.from = e => HasLeg(t, c, OwnerOf[e])
      BY <1>4, <2>6, <2>10
    <3>3. Listed(todo, c, e) => Listed(j.todo, c, e)
      BY <1>6
    <3> HIDE DEF Brings, Listed
    <3> QED BY <2>14, <3>1, <3>2, <3>3
  <2>16. ASSUME NEW c, NEW e \in Device, HasLeg(t, c, OwnerOf[e])
         PROVE  HasLeg(s, c, OwnerOf[e]) \/ Holds(s, J, c, e)
    <3>1. CASE c = x.call /\ OwnerOf[e] = p
      <4>1. y.from \in Device
        BY <1>1, <1>h DEF GoodJob, StashRecord
      <4>2. y.from = e /\ y.call = c
        BY <1>4, <2>6, <3>1, <4>1 DEF OneDeviceEach
      <4> QED BY <2>13, <4>2 DEF Holds
    <3> QED BY <2>10, <2>16, <3>1
  <2>17. \A m \in net' : m \in net \/ (m.from = d /\ m.kind = "answer")
    BY <1>2, WrappedAre DEF Publish, MeshAnswerEvents
  <2>18. \A m \in net : m \in net'
    BY <1>2 DEF Publish
  <2>19. Sends(d, t, K)
    BY <2>17, <2>18 DEF Sends
  <2>20. Move(d, t, K)
    BY <1>0, <1>h, <2>5, <2>7, <2>10, <2>15, <2>16, <2>18, <2>19, CallMove DEF Pending
  <2> QED BY <1>1, <1>10, <2>9, <2>20, MeshStep
<1> QED BY <1>11, <1>12

LEMMA ResumeMesh ==
    ASSUME OneDeviceEach, IsFiniteSet(Pubkey), MaxContexts <= 1, MaxFailures = 0,
           MeshInv, OneCallInv, TypeInv, NEW d \in Device, Resume(d) \/ Break(d)
    PROVE  MeshInv'
<1>1. CASE Resume(d)
  <2>1. PICK j \in jobs[d] :
          \/ MediaForStart(d, j) \/ OffersPublished(d, j) \/ MediaForAccept(d, j)
          \/ MediaTooLate(d, j) \/ AnswersPublished(d, j) \/ JoinMesh(d, j)
          \/ TakeStash(d, j) \/ AnswerStashed(d, j) \/ Declined(d, j) \/ HungUp(d, j)
          \/ RosterResolved(d, j)
    BY <1>1 DEF Resume
  <2> QED BY <2>1, StartMesh, PublishedMesh, MediaMesh, LateMesh, JoinMeshMesh, TakeStashMesh,
             AnswerStashedMesh, EndMesh, RosterMesh
<1>2. CASE Break(d)
  <2>1. Fail
    BY <1>2 DEF Break, StartRefused, OfferFails, AcceptRefused, AnswerFails
  <2> QED BY <2>1 DEF Fail, MeshInv
<1> QED BY <1>1, <1>2

-----------------------------------------------------------------------------
(* The user, the timers and the connections change no leg.                     *)

Whole(s) ==
    /\ DOMAIN s = Fields /\ (s.cur # 0 => s.cur \in DOMAIN s.ctxs)
    /\ \A i \in DOMAIN s.ctxs : DOMAIN s.ctxs[i] = ContextFields

LEMMA ContextCalm ==
    ASSUME NEW s, Whole(s), NEW i \in DOMAIN s.ctxs, NEW y,
           DOMAIN y = ContextFields, y.call = s.ctxs[i].call, y.phase = s.ctxs[i].phase,
           y.roster = s.ctxs[i].roster, y.peers = s.ctxs[i].peers, y.mic = s.ctxs[i].mic,
           DOMAIN y.legs = DOMAIN s.ctxs[i].legs,
           NEW t, t = [s EXCEPT !.ctxs = [s.ctxs EXCEPT ![i] = y]]
    PROVE  Calm(s, t) /\ Whole(t)
<1>1. /\ t.ctxs = [s.ctxs EXCEPT ![i] = y] /\ t.cur = s.cur /\ t.stash = s.stash
      /\ t.store = s.store /\ t.destroyed = s.destroyed /\ DOMAIN t = Fields
  BY DEF Whole, Fields
<1>2. DOMAIN t.ctxs = DOMAIN s.ctxs /\ t.ctxs[i] = y
      /\ \A k \in DOMAIN s.ctxs : k # i => t.ctxs[k] = s.ctxs[k]
  BY <1>1
<1>3. Calm(s, t)
  BY <1>1, <1>2 DEF Calm, SameCall
<1> QED BY <1>1, <1>2, <1>3 DEF Whole

LEMMA TimerCalm ==
    ASSUME NEW s, Whole(s), NEW i \in DOMAIN s.ctxs, NEW t, t = [s EXCEPT !.ctxs[i].timer = "off"]
    PROVE  Calm(s, t) /\ Whole(t)
<1>1. PICK y : y = [s.ctxs[i] EXCEPT !.timer = "off"]
  OBVIOUS
<1>2. /\ DOMAIN y = ContextFields /\ y.call = s.ctxs[i].call /\ y.phase = s.ctxs[i].phase
      /\ y.roster = s.ctxs[i].roster /\ y.peers = s.ctxs[i].peers /\ y.mic = s.ctxs[i].mic
      /\ DOMAIN y.legs = DOMAIN s.ctxs[i].legs
  BY <1>1 DEF Whole, ContextFields
<1>3. t = [s EXCEPT !.ctxs = [s.ctxs EXCEPT ![i] = y]]
  BY <1>1
<1> QED BY <1>2, <1>3, ContextCalm

LEMMA CalmAgain ==
    ASSUME NEW s, NEW t, NEW u, Calm(s, t), Calm(t, u) PROVE Calm(s, u)
BY DEF Calm, SameCall

LEMMA TimerOffCalm ==
    ASSUME NEW s, Whole(s), NEW c PROVE Calm(s, TimerOff(s, c)) /\ Whole(TimerOff(s, c))
<1>1. CASE s.destroyed \/ ~InCall(s, c)
  BY <1>1, CalmHere DEF TimerOff
<1>2. CASE ~(s.destroyed \/ ~InCall(s, c))
  <2>1. s.cur \in DOMAIN s.ctxs
    BY <1>2 DEF Whole, InCall
  <2>2. TimerOff(s, c) = [s EXCEPT !.ctxs[s.cur].timer = "off"]
    BY <1>2 DEF TimerOff
  <2> QED BY <2>1, <2>2, TimerCalm
<1> QED BY <1>1, <1>2

LEMMA HereWhole ==
    ASSUME MeshInv, OneCallInv, TypeInv, NEW d \in Device PROVE Whole(dev[d])
<1>1. PICK s : s = dev[d]
  OBVIOUS
<1>2. Good(d, s) /\ OneContext(s)
  BY <1>1, HereMesh
<1>3. DOMAIN s = Fields /\ \A i \in DOMAIN s.ctxs : DOMAIN s.ctxs[i] = ContextFields
  BY <1>2 DEF Good, GoodContext
<1>4. s.cur # 0 => s.cur \in DOMAIN s.ctxs
  BY <1>2 DEF OneContext
<1> QED BY <1>1, <1>3, <1>4 DEF Whole

LEMMA MoreJobs ==
    ASSUME NEW J, NEW k, k.op \in {"start", "decline", "hangup"} \/ (k.op = "accept" /\ k.at = "media")
    PROVE  CalmJobs(J, J \cup {k})
<1>1. k.op # "roster" /\ ~(k.op = "accept" /\ k.at # "media")
  OBVIOUS
<1>2. Draining(J \cup {k}) = Draining(J)
  BY <1>1 DEF Draining
<1>3. Joining(J) \subseteq Joining(J \cup {k})
  BY DEF Joining
<1> QED BY <1>1, <1>2, <1>3 DEF CalmJobs, SameEnds

LEMMA SameJobs == ASSUME NEW J PROVE CalmJobs(J, J)
BY DEF CalmJobs, SameEnds, Joining

(* declineCall and hangup up to their publishes: the device is on its way out.  *)
LEMMA DecliningMesh ==
    ASSUME OneDeviceEach, MeshInv, OneCallInv, TypeInv, NEW d \in Device, NEW c,
           Declining(d, c, jobs[d]), NEW t, Calm(dev[d], t), dev' = [dev EXCEPT ![d] = t],
           failures' = failures
    PROVE  MeshInv'
<1>1. CASE jobs' = [jobs EXCEPT ![d] = jobs[d]] /\ net' = net
  BY <1>1, SameJobs, CalmMesh
<1>2. CASE /\ jobs' = [jobs EXCEPT ![d] = jobs[d] \cup {[op |-> "decline", call |-> c]}]
           /\ Publish(Wrapped("reject", c, d, dev[d].ctxs[dev[d].cur].peers \cup {OwnerOf[d]}, NoLeg, {}))
  <2>1. PICK k : k = [op |-> "decline", call |-> c]
    OBVIOUS
  <2>2. PICK K : K = jobs[d] \cup {k}
    OBVIOUS
  <2>3. CalmJobs(jobs[d], K)
    BY <2>1, <2>2, MoreJobs
  <2>4. Gone(t, K, c)
    BY <2>1, <2>2 DEF Gone
  <2>5. /\ \A m \in net : m \in net'
        /\ \A m \in net' : m \in net \/ (m.from = d /\ m.kind = "reject" /\ m.call = c)
    BY <1>2, WrappedAre DEF Publish
  <2>6. \A m \in net' : m \in net \/
            /\ m.from = d /\ m.kind # "offer"
            /\ m.kind \in {"reject", "hangup"} => Gone(t, K, m.call)
    BY <2>4, <2>5
  <2> QED BY <1>2, <2>1, <2>2, <2>3, <2>5, <2>6, CalmMesh
<1> QED BY <1>1, <1>2 DEF Declining

LEMMA HangingUpMesh ==
    ASSUME OneDeviceEach, MeshInv, OneCallInv, TypeInv, NEW d \in Device,
           HangingUp(d), NEW t, Calm(dev[d], t), dev' = [dev EXCEPT ![d] = t], failures' = failures
    PROVE  MeshInv'
<1>1. CASE jobs' = jobs /\ net' = net
  <2>1. jobs' = [jobs EXCEPT ![d] = jobs[d]]
    BY <1>1, HereMesh
  <2> QED BY <1>1, <2>1, SameJobs, CalmMesh
<1>2. CASE /\ dev[d].cur # 0
           /\ jobs' = [jobs EXCEPT ![d] = @ \cup {[op |-> "hangup", ctx |-> dev[d].cur]}]
           /\ Publish(Wrapped("hangup", dev[d].ctxs[dev[d].cur].call, d, dev[d].ctxs[dev[d].cur].peers, NoLeg, {}))
  <2>1. PICK k, c : k = [op |-> "hangup", ctx |-> dev[d].cur] /\ c = dev[d].ctxs[dev[d].cur].call
    OBVIOUS
  <2>2. PICK K : K = jobs[d] \cup {k}
    OBVIOUS
  <2>3. CalmJobs(jobs[d], K)
    BY <2>1, <2>2, MoreJobs
  <2>4. Gone(t, K, c)
    <3>1. dev[d].cur \in DOMAIN dev[d].ctxs
      BY <1>2, HereWhole DEF Whole
    <3>2. t.ctxs[k.ctx].call = c
      BY <2>1, <3>1 DEF Calm, SameCall
    <3> QED BY <2>1, <2>2, <3>2 DEF Gone
  <2>5. /\ \A m \in net : m \in net'
        /\ \A m \in net' : m \in net \/ (m.from = d /\ m.kind = "hangup" /\ m.call = c)
    BY <1>2, <2>1, WrappedAre DEF Publish
  <2>6. \A m \in net' : m \in net \/
            /\ m.from = d /\ m.kind # "offer"
            /\ m.kind \in {"reject", "hangup"} => Gone(t, K, m.call)
    BY <2>4, <2>5
  <2>7. jobs' = [jobs EXCEPT ![d] = K]
    BY <1>2, <2>1, <2>2, HereMesh
  <2> QED BY <2>3, <2>5, <2>6, <2>7, CalmMesh
<1> QED BY <1>1, <1>2 DEF HangingUp

LEMMA UserMesh ==
    ASSUME OneDeviceEach, Unmounts = {}, MeshInv, OneCallInv, TypeInv, NEW d \in Device, User(d)
    PROVE  MeshInv'
<1>0. PICK s, J : s = dev[d] /\ J = jobs[d]
  OBVIOUS
<1>h. /\ Whole(s) /\ d \in DOMAIN dev /\ d \in DOMAIN jobs
      /\ dev' = dev => dev' = [dev EXCEPT ![d] = s]
  BY <1>0, HereMesh, HereWhole
<1>1. CASE StartCall(d)
  <2>1. PICK targets : /\ dev' = [dev EXCEPT ![d] = [s EXCEPT !.starts = s.starts + 1]]
                       /\ jobs' = [jobs EXCEPT ![d] = J \cup
                            {[op |-> "start", call |-> [by |-> d, n |-> s.starts + 1],
                              targets |-> targets]}]
                       /\ net' = net /\ failures' = failures
    BY <1>0, <1>h, <1>1 DEF StartCall
  <2>2. PICK k : k = [op |-> "start", call |-> [by |-> d, n |-> s.starts + 1], targets |-> targets]
    OBVIOUS
  <2>3. PICK t : t = [s EXCEPT !.starts = s.starts + 1]
    OBVIOUS
  <2>4. Calm(s, t)
    BY <1>h, <2>3 DEF Whole, Fields, Calm, SameCall
  <2>5. CalmJobs(J, J \cup {k})
    BY <2>2, MoreJobs
  <2> QED BY <1>0, <2>1, <2>2, <2>3, <2>4, <2>5, CalmMesh
<1>2. CASE AcceptCall(d)
  <2>1. s.cur \in DOMAIN s.ctxs
    BY <1>0, <1>h, <1>2 DEF AcceptCall, Ringing, InCall, Whole
  <2>2. PICK u : u = [s EXCEPT !.ctxs[s.cur].timer = "off"]
    OBVIOUS
  <2>3. PICK t : t = [u EXCEPT !.accepts = @ + 1]
    OBVIOUS
  <2>4. PICK k : k = [op |-> "accept", at |-> "media", ctx |-> s.cur, click |-> s.accepts,
                      todo |-> {}]
    OBVIOUS
  <2>5. /\ dev' = [dev EXCEPT ![d] = t] /\ jobs' = [jobs EXCEPT ![d] = J \cup {k}]
        /\ net' = net /\ failures' = failures
    BY <1>0, <1>h, <1>2, <2>2, <2>3, <2>4 DEF AcceptCall
  <2>6. Calm(s, u) /\ Whole(u)
    BY <1>h, <2>1, <2>2, TimerCalm
  <2>7. Calm(u, t)
    BY <2>3, <2>6 DEF Whole, Fields, Calm, SameCall
  <2>8. Calm(s, t)
    BY <2>6, <2>7, CalmAgain
  <2>9. CalmJobs(J, J \cup {k})
    <3>1. k.op = "accept" /\ k.at = "media"
      BY <2>4
    <3> QED BY <3>1, MoreJobs
  <2> QED BY <1>0, <2>5, <2>8, <2>9, CalmMesh
<1>3. CASE DeclineCall(d)
  <2>1. PICK t : t = TimerOff(s, s.store.call)
    OBVIOUS
  <2>2. /\ dev' = [dev EXCEPT ![d] = t] /\ Declining(d, s.store.call, jobs[d])
        /\ failures' = failures
    BY <1>0, <1>h, <1>3, <2>1 DEF DeclineCall
  <2>3. Calm(s, t)
    BY <1>h, <2>1, TimerOffCalm
  <2> QED BY <1>0, <2>2, <2>3, DecliningMesh
<1>4. CASE Hangup(d)
  <2>1. HangingUp(d) /\ dev' = [dev EXCEPT ![d] = s] /\ failures' = failures
    BY <1>0, <1>4, <1>h DEF Hangup
  <2> QED BY <1>0, <2>1, CalmHere, HangingUpMesh
<1>5. CASE Destroy(d)
  BY <1>5 DEF Destroy
<1> QED BY <1>1, <1>2, <1>3, <1>4, <1>5 DEF User

LEMMA TimerMesh ==
    ASSUME OneDeviceEach, MeshInv, OneCallInv, TypeInv, NEW d \in Device,
           NEW i \in DOMAIN dev[d].ctxs, Timer(d, i)
    PROVE  MeshInv'
<1>0. PICK s, t, c : s = dev[d] /\ t = [s EXCEPT !.ctxs[i].timer = "off"] /\ c = t.ctxs[i].call
  OBVIOUS
<1>h. /\ Whole(s) /\ d \in DOMAIN dev /\ d \in DOMAIN jobs /\ i \in DOMAIN s.ctxs
      /\ jobs' = jobs => jobs' = [jobs EXCEPT ![d] = jobs[d]]
  BY <1>0, HereMesh, HereWhole
<1>1. Calm(s, t) /\ Whole(t) /\ failures' = failures
  BY <1>0, <1>h, TimerCalm DEF Timer
<1>2. CASE dev' = [dev EXCEPT ![d] = TimerOff(t, c)] /\ Declining(d, c, jobs[d])
  <2>1. Calm(s, TimerOff(t, c))
    BY <1>1, TimerOffCalm, CalmAgain
  <2> QED BY <1>0, <1>1, <1>2, <2>1, DecliningMesh
<1>3. CASE dev' = [dev EXCEPT ![d] = t] /\ HangingUp(d)
  BY <1>0, <1>1, <1>3, HangingUpMesh
<1>4. CASE dev' = [dev EXCEPT ![d] = t] /\ jobs' = jobs /\ net' = net
  BY <1>0, <1>1, <1>4, <1>h, SameJobs, CalmMesh
<1> QED BY <1>0, <1>2, <1>3, <1>4 DEF Timer

LEMMA ConnectsMesh ==
    ASSUME OneDeviceEach, MeshInv, OneCallInv, TypeInv, NEW d \in Device,
           NEW i \in DOMAIN dev[d].ctxs, Connects(d, i)
    PROVE  MeshInv'
<1>0. PICK s : s = dev[d]
  OBVIOUS
<1>h. /\ Whole(s) /\ d \in DOMAIN dev /\ i \in DOMAIN s.ctxs
      /\ jobs' = jobs => jobs' = [jobs EXCEPT ![d] = jobs[d]]
  BY <1>0, HereMesh, HereWhole
<1>1. PICK q \in DOMAIN s.ctxs[i].legs :
        dev' = [dev EXCEPT ![d] =
            LET t == [@ EXCEPT !.ctxs[i].legs[q].conn = "connected"]
            IN  IF InCall(t, t.ctxs[i].call) THEN [t EXCEPT !.ctxs[t.cur].timer = "off"] ELSE t]
  BY <1>0 DEF Connects
<1>2. PICK e : e = [s.ctxs[i].legs[q] EXCEPT !.conn = "connected"]
  OBVIOUS
<1>3. PICK legs : legs = [s.ctxs[i].legs EXCEPT ![q] = e]
  OBVIOUS
<1>4. PICK y : y = [s.ctxs[i] EXCEPT !.legs = legs]
  OBVIOUS
<1>5. PICK t : t = [s EXCEPT !.ctxs = [s.ctxs EXCEPT ![i] = y]]
  OBVIOUS
<1>6. Calm(s, t) /\ Whole(t)
  <2>1. /\ DOMAIN y = ContextFields /\ y.call = s.ctxs[i].call /\ y.phase = s.ctxs[i].phase
        /\ y.roster = s.ctxs[i].roster /\ y.peers = s.ctxs[i].peers /\ y.mic = s.ctxs[i].mic
        /\ y.legs = legs
    BY <1>h, <1>4 DEF Whole, ContextFields
  <2>2. DOMAIN y.legs = DOMAIN s.ctxs[i].legs
    BY <1>3, <2>1
  <2> QED BY <1>h, <1>5, <2>1, <2>2, ContextCalm
<1>7. PICK u : u = IF InCall(t, t.ctxs[i].call) THEN [t EXCEPT !.ctxs[t.cur].timer = "off"] ELSE t
  OBVIOUS
<1>8. Calm(s, u)
  <2>1. CASE InCall(t, t.ctxs[i].call)
    <3>1. t.cur \in DOMAIN t.ctxs
      BY <1>6, <2>1 DEF InCall, Whole
    <3>2. Calm(t, u)
      BY <1>6, <1>7, <2>1, <3>1, TimerCalm
    <3> QED BY <1>6, <3>2, CalmAgain
  <2>2. CASE ~InCall(t, t.ctxs[i].call)
    BY <1>6, <1>7, <2>2
  <2> QED BY <2>1, <2>2
<1>9. dev' = [dev EXCEPT ![d] = u]
  <2>1. t = [s EXCEPT !.ctxs[i].legs[q].conn = "connected"]
    BY <1>2, <1>3, <1>4, <1>5
  <2> QED BY <1>0, <1>h, <1>1, <1>7, <2>1
<1>10. jobs' = [jobs EXCEPT ![d] = jobs[d]] /\ net' = net /\ failures' = failures
  BY <1>h DEF Connects
<1> QED BY <1>0, <1>8, <1>9, <1>10, SameJobs, CalmMesh

-----------------------------------------------------------------------------
(* Signalling events.                                                          *)

(* An event that changes no leg: at most it is answered.                        *)
LEMMA CalmReceive ==
    ASSUME OneDeviceEach, MeshInv, OneCallInv, TypeInv, NEW d \in Device, NEW m \in net,
           m.to = d, m.kind # "offer", NEW t, Calm(dev[d], t), NEW X,
           \A n \in X : n.from = d /\ n.kind = "answer",
           dev' = [dev EXCEPT ![d] = t], jobs' = jobs, failures' = failures, Consume(m, X)
    PROVE  MeshInv'
<1>1. jobs' = [jobs EXCEPT ![d] = jobs[d]]
  BY HereMesh
<1>2. /\ \A n \in net : n.to # d \/ n.kind = "offer" => n \in net'
      /\ \A n \in net' : n \in net \/ (n.from = d /\ n.kind = "answer")
  BY DEF Consume
<1>3. PICK K : K = jobs[d]
  OBVIOUS
<1>4. \A n \in net' : n \in net \/
          /\ n.from = d /\ n.kind # "offer"
          /\ n.kind \in {"reject", "hangup"} => Gone(t, K, n.call)
  BY <1>2
<1> QED BY <1>1, <1>2, <1>3, <1>4, SameJobs, CalmMesh

LEMMA EchoMesh ==
    ASSUME OneDeviceEach, MeshInv, OneCallInv, TypeInv, NEW d \in Device, NEW m \in net,
           HandleEcho(d, m)
    PROVE  MeshInv'
<1>0. PICK s : s = dev[d]
  OBVIOUS
<1>h. /\ StateOne(s) /\ DOMAIN s = Fields /\ ~s.destroyed /\ d \in DOMAIN dev
      /\ dev' = dev => dev' = [dev EXCEPT ![d] = s]
      /\ jobs' = [jobs EXCEPT ![d] = jobs[d]]
      /\ s.cur # 0 => DOMAIN s.ctxs # {}
  <2>1. /\ StateOne(s) /\ Good(d, s) /\ ~s.destroyed /\ d \in DOMAIN dev
        /\ dev' = dev => dev' = [dev EXCEPT ![d] = s]
        /\ s.cur # 0 => DOMAIN s.ctxs # {}
    BY <1>0, HereMesh
  <2>2. jobs' = [jobs EXCEPT ![d] = jobs[d]]
    BY HereMesh DEF HandleEcho
  <2> QED BY <2>1, <2>2 DEF Good
<1>1. m.to = d /\ m.kind # "offer" /\ Consume(m, {}) /\ jobs' = jobs /\ failures' = failures
  BY DEF HandleEcho, Receive
<1>2. CASE Ringing(s, m.call)
  <2>1. PICK t : t = Elsewhere(s, m.call)
    OBVIOUS
  <2>2. dev' = [dev EXCEPT ![d] = t]
    BY <1>0, <1>2, <1>h, <2>1 DEF HandleEcho
  <2>3. s.cur # 0 /\ RingsOnly(s)
    BY <1>2 DEF Ringing, InCall, RingsOnly
  <2>4. Ended(s, t) /\ ~t.destroyed
    BY <1>h, <2>1, <2>3, DroppedOne, StillThere
  <2>5. /\ \A n \in net : n.to # d => n \in net'
        /\ \A n \in net' : n \in net
    BY <1>1 DEF Consume
  <2> QED BY <1>0, <1>1, <1>h, <2>2, <2>3, <2>4, <2>5, OverMesh
<1>3. CASE ~Ringing(s, m.call)
  <2>1. dev' = [dev EXCEPT ![d] = s]
    BY <1>0, <1>3, <1>h DEF HandleEcho
  <2> QED BY <1>0, <1>1, <2>1, CalmHere, CalmReceive
<1> QED BY <1>2, <1>3

LEMMA RenegotiateMesh ==
    ASSUME OneDeviceEach, MeshInv, OneCallInv, TypeInv, NEW d \in Device, NEW m \in net,
           HandleRenegotiate(d, m)
    PROVE  MeshInv'
<1>0. PICK s, i, p : s = dev[d] /\ i = s.cur /\ p = OwnerOf[m.from]
  OBVIOUS
<1>h. Whole(s) /\ d \in DOMAIN dev /\ (dev' = dev => dev' = [dev EXCEPT ![d] = s])
  BY <1>0, HereMesh, HereWhole
<1>1. m.to = d /\ m.kind # "offer" /\ jobs' = jobs /\ failures' = failures
  BY DEF HandleRenegotiate, Receive
<1>2. CASE dev' = dev /\ Consume(m, {})
  BY <1>0, <1>1, <1>2, <1>h, CalmHere, CalmReceive
<1>3. CASE ~(dev' = dev /\ Consume(m, {}))
  <2>1. i # 0 /\ i \in DOMAIN s.ctxs /\ p \in DOMAIN s.ctxs[i].legs
    <3>1. i # 0 /\ p \in DOMAIN s.ctxs[i].legs
      BY <1>0, <1>3 DEF HandleRenegotiate, Active, InCall
    <3> QED BY <1>0, <1>h, <3>1 DEF Whole
  <2>2. PICK x, z : x = s.ctxs[i] /\ z = Renegotiated(x, p, m)
    OBVIOUS
  <2>3. PICK v : v = [s EXCEPT !.ctxs = [s.ctxs EXCEPT ![i] = z]]
    OBVIOUS
  <2>4. dev' = [dev EXCEPT ![d] = v] /\ Consume(m, Wrapped("answer", m.call, d, {p}, m.sdp, {}))
    BY <1>0, <1>h, <1>3, <2>2, <2>3 DEF HandleRenegotiate
  <2>5. PICK e : e = [x.legs[p] EXCEPT !.sig = "stable", !.remote = m.from, !.fits = TRUE,
                                      !.conn = Checking(x.legs[p].conn)]
    OBVIOUS
  <2>6. PICK legs : legs = [x.legs EXCEPT ![p] = e]
    OBVIOUS
  <2>7. DOMAIN x = ContextFields
    BY <1>h, <2>1, <2>2 DEF Whole
  <2>8. z = [x EXCEPT !.renegotiating = @ \ {p}, !.legs = legs]
    <3>1. z = [x EXCEPT !.renegotiating = @ \ {p}, !.legs[p] = e]
      BY <2>2, <2>5, <2>7 DEF Renegotiated, ContextFields
    <3> QED BY <2>6, <2>7, <3>1 DEF ContextFields
  <2>9. /\ DOMAIN z = ContextFields /\ z.call = x.call /\ z.phase = x.phase
        /\ z.roster = x.roster /\ z.peers = x.peers /\ z.mic = x.mic /\ z.legs = legs
    BY <2>7, <2>8 DEF ContextFields
  <2>10. DOMAIN z.legs = DOMAIN x.legs
    BY <2>6, <2>9
  <2>11. Calm(s, v)
    BY <1>h, <2>1, <2>2, <2>3, <2>9, <2>10, ContextCalm
  <2>12. \A n \in Wrapped("answer", m.call, d, {p}, m.sdp, {}) : n.from = d /\ n.kind = "answer"
    BY WrappedAre
  <2> QED BY <1>0, <1>1, <2>4, <2>11, <2>12, CalmReceive
<1> QED BY <1>2, <1>3

(* Another callee answers: a peer, and a leg where we are to offer one.         *)
LEMMA AnswerMesh ==
    ASSUME OneDeviceEach, MeshInv, OneCallInv, TypeInv, NEW d \in Device, NEW m \in net,
           HandleAnswer(d, m)
    PROVE  MeshInv'
<1>0. PICK s, J, i, p : s = dev[d] /\ J = jobs[d] /\ i = s.cur /\ p = OwnerOf[m.from]
  OBVIOUS
<1>h. /\ OneContext(s) /\ JobsOne(s, J) /\ Joins(d, s, J) /\ Whole(s) /\ d \in DOMAIN dev
      /\ dev' = dev => dev' = [dev EXCEPT ![d] = s]
      /\ jobs' = jobs => jobs' = [jobs EXCEPT ![d] = J]
  BY <1>0, HereMesh, HereWhole
<1>1. m.to = d /\ m.kind = "answer" /\ jobs' = jobs /\ failures' = failures
  BY DEF HandleAnswer, Receive
<1>2. CASE dev' = dev /\ Consume(m, {})
  BY <1>0, <1>1, <1>2, <1>h, CalmHere, CalmReceive
<1>3. CASE ~(dev' = dev /\ Consume(m, {}))
  <2>1. Active(s, m.call) /\ Authorized(s, p)
    BY <1>0, <1>3 DEF HandleAnswer
  <2>2. PICK x : x = s.ctxs[i]
    OBVIOUS
  <2>3. /\ i # 0 /\ i \in DOMAIN s.ctxs /\ DOMAIN x = ContextFields /\ DOMAIN s = Fields
        /\ x.phase = "active" /\ x.call = m.call /\ p \in x.roster
    BY <1>0, <1>h, <2>1, <2>2 DEF Active, InCall, Authorized, Whole
  <2>4. x.mic # 0 /\ x.peers \subseteq x.roster /\ s.cur # 0
    BY <1>0, <1>h, <2>2, <2>3 DEF Joins
  <2>5. CASE p \in DOMAIN x.legs
    <3>1. CASE x.legs[p].sig = "stable"
      <4>1. dev' = [dev EXCEPT ![d] = s] /\ Consume(m, {})
        BY <1>0, <2>1, <2>2, <2>5, <3>1 DEF HandleAnswer
      <4> QED BY <1>0, <1>1, <4>1, CalmHere, CalmReceive
    <3>2. CASE x.legs[p].sig # "stable"
      <4>1. PICK e : e = AfterAnswer(x.legs[p], d, p, m)
        OBVIOUS
      <4>2. PICK legs : legs = [x.legs EXCEPT ![p] = e]
        OBVIOUS
      <4>3. PICK z : z = [x EXCEPT !.legs = legs, !.renegotiating = @ \ {p}]
        OBVIOUS
      <4>4. PICK v : v = [s EXCEPT !.ctxs = [s.ctxs EXCEPT ![i] = z]]
        OBVIOUS
      <4>5. PICK w : w = [s EXCEPT !.ctxs[i].legs[p] = AfterAnswer(@, d, p, m),
                                   !.ctxs[i].renegotiating = @ \ {p}]
        OBVIOUS
      <4>6. dev' = [dev EXCEPT ![d] = w] /\ Consume(m, {})
        BY <1>0, <1>h, <2>1, <2>2, <2>5, <3>2, <4>5 DEF HandleAnswer
      <4>7. w = v
        BY <2>2, <2>3, <4>1, <4>2, <4>3, <4>4, <4>5 DEF Fields
      <4>8. /\ DOMAIN z = ContextFields /\ z.call = x.call /\ z.phase = x.phase
            /\ z.roster = x.roster /\ z.peers = x.peers /\ z.mic = x.mic /\ z.legs = legs
        BY <2>3, <4>3 DEF ContextFields
      <4>9. DOMAIN z.legs = DOMAIN x.legs
        BY <4>2, <4>8
      <4>10. Calm(s, v)
        BY <1>h, <2>2, <2>3, <4>4, <4>8, <4>9, ContextCalm
      <4> QED BY <1>0, <1>1, <4>6, <4>7, <4>10, CalmReceive
    <3> QED BY <3>1, <3>2
  <2>6. CASE p \notin DOMAIN x.legs
    <3>1. PICK P, u : P = x.peers \cup {p} /\ u = WithPeers(s, P)
      OBVIOUS
    <3>2. u = [s EXCEPT !.ctxs[i].peers = @ \cup {p}]
      BY <1>0, <2>2, <3>1 DEF WithPeers
    <3>3. /\ SameCall(s, u) /\ u.stash = s.stash /\ u.store = s.store /\ u.destroyed = s.destroyed
          /\ u.ctxs[i].peers = P /\ u.ctxs[i].mic = x.mic /\ u.ctxs[i].legs = x.legs
          /\ DOMAIN u = Fields /\ DOMAIN u.ctxs[i] = ContextFields
          /\ u.cur = i /\ u.cur \in DOMAIN u.ctxs
      <4>1. DOMAIN s = Fields /\ s.cur \in DOMAIN s.ctxs
        BY <1>0, <2>3
      <4>2. DOMAIN s.ctxs[s.cur] = ContextFields
        BY <1>0, <2>2, <2>3
      <4>3. /\ SameCall(s, u) /\ u.stash = s.stash /\ u.store = s.store /\ u.destroyed = s.destroyed
            /\ u.ctxs[s.cur].peers = P /\ u.ctxs[s.cur].mic = s.ctxs[s.cur].mic
            /\ u.ctxs[s.cur].legs = s.ctxs[s.cur].legs
            /\ DOMAIN u = Fields /\ DOMAIN u.ctxs[s.cur] = ContextFields
            /\ u.cur = s.cur /\ u.cur \in DOMAIN u.ctxs
        BY <3>1, <4>1, <4>2, PeersChange
      <4> QED BY <1>0, <2>2, <4>3
    <3>4. u.ctxs[i].call = m.call
      BY <2>2, <2>3, <3>3 DEF SameCall
    <3>5. ~NoOfferTo(u, i, p)
      BY <2>4, <2>6, <3>3 DEF NoOfferTo
    <3>6. PICK legs, t, X :
            /\ dev' = [dev EXCEPT ![d] = t] /\ Consume(m, X)
            /\ SameCall(s, t) /\ t.stash = s.stash /\ t.store = s.store /\ t.destroyed = s.destroyed
            /\ t.ctxs[i].peers = P /\ t.ctxs[i].mic = x.mic /\ DOMAIN t.ctxs[i].legs = legs
            /\ \/ Initiates(d, p) /\ legs = DOMAIN x.legs \cup {p} /\ X = Offers(m.call, d, {p}, P)
               \/ ~Initiates(d, p) /\ legs = DOMAIN x.legs /\ X = {}
      <4>1. CASE Initiates(d, p)
        <5>1. PICK session, t : session = Offering /\ t = WithSession(u, p, session)
          OBVIOUS
        <5>2. OfferTo(u, i, p) = t /\ OfferEvents(u, d, i, p) = Offers(m.call, d, {p}, P)
          BY <3>3, <3>4, <3>5, <5>1 DEF OfferTo, OfferEvents
        <5>3. dev' = [dev EXCEPT ![d] = OfferTo(u, i, p)] /\ Consume(m, OfferEvents(u, d, i, p))
          BY <1>0, <2>1, <2>2, <2>6, <3>2, <4>1 DEF HandleAnswer
        <5>4. /\ SameCall(u, t) /\ t.stash = u.stash /\ t.store = u.store
              /\ t.destroyed = u.destroyed
              /\ t.ctxs[u.cur].peers = u.ctxs[u.cur].peers /\ t.ctxs[u.cur].mic = u.ctxs[u.cur].mic
              /\ DOMAIN t.ctxs[u.cur].legs = DOMAIN u.ctxs[u.cur].legs \cup {p}
          <6>1. DOMAIN u.ctxs[u.cur] = ContextFields
            BY <3>3
          <6> QED BY <3>3, <5>1, <6>1, LegGrows
        <5>5. SameCall(s, t)
          BY <3>3, <5>4, SameCallAgain
        <5>6. /\ t.stash = s.stash /\ t.store = s.store /\ t.destroyed = s.destroyed
              /\ t.ctxs[i].peers = P /\ t.ctxs[i].mic = x.mic
              /\ DOMAIN t.ctxs[i].legs = DOMAIN x.legs \cup {p}
          BY <3>3, <5>4
        <5> QED BY <4>1, <5>2, <5>3, <5>5, <5>6
      <4>2. CASE ~Initiates(d, p)
        <5>1. dev' = [dev EXCEPT ![d] = u] /\ Consume(m, {})
          BY <1>0, <2>1, <2>2, <2>6, <3>2, <4>2 DEF HandleAnswer
        <5> QED BY <3>3, <4>2, <5>1
      <4> QED BY <4>1, <4>2
    <3>7. /\ t.cur = i /\ DOMAIN t.ctxs = DOMAIN s.ctxs /\ t.ctxs[i].call = m.call
          /\ t.ctxs[i].phase = "active" /\ t.ctxs[i].roster = x.roster
      BY <1>0, <2>2, <2>3, <3>6 DEF SameCall
    <3>8. Joins(d, t, J)
      <4>1. /\ \A q \in x.peers : Initiates(d, q) =>
                  q \in DOMAIN x.legs \/ \E j \in Joining(J) : q \in j.todo
            /\ (\E y \in s.stash : y.call = x.call) => Joining(J) # {}
            /\ \A y \in s.stash : OwnerOf[y.from] \in x.roster
            /\ \A j \in Draining(J) : \A y \in j.todo : y.call = x.call /\ OwnerOf[y.from] \in x.roster
            /\ ~s.destroyed
        BY <1>0, <1>h, <2>2, <2>3, <2>4 DEF Joins
      <4>2. \A q \in P : Initiates(d, q) => q \in legs \/ \E j \in Joining(J) : q \in j.todo
        BY <3>1, <3>6, <4>1
      <4>3. P \subseteq x.roster
        BY <2>3, <2>4, <3>1
      <4> QED BY <2>3, <2>4, <3>6, <3>7, <4>1, <4>2, <4>3 DEF Joins
    <3>9. \A c, q : HasLeg(t, c, q) <=> c = m.call /\ q \in legs
      BY <2>3, <3>6, <3>7 DEF HasLeg, InCall
    <3>10. \A c, q : HasLeg(s, c, q) <=> c = m.call /\ q \in DOMAIN x.legs
      BY <1>0, <2>2, <2>3 DEF HasLeg, InCall
    <3>11. \A c, e : Holds(t, J, c, e) <=> Holds(s, J, c, e)
      <4>1. \A c : ~Ringing(t, c) /\ ~Ringing(s, c)
        BY <1>0, <2>2, <2>3, <3>7 DEF Ringing
      <4> QED BY <3>6, <4>1 DEF Holds
    <3>12. /\ \A n \in X : n.from = d /\ n.kind = "offer" /\ HasLeg(t, n.call, OwnerOf[n.to])
           /\ \A e \in Device : OwnerOf[e] \in legs \ DOMAIN x.legs => Offered(X, e, m.call, d)
      BY <3>6, <3>9, OffersReach
    <3>13. Sends(d, t, J)
      BY <1>1, <3>6, <3>12 DEF Sends, Consume
    <3>14. \A e \in Device : OwnerOf[e] \in legs \ DOMAIN x.legs => Offered(net', e, m.call, d)
      BY <3>6, <3>12 DEF Offered, Consume
    <3>15. \A n \in net : n.kind = "offer" => n \in net'
      BY <1>1, <3>6 DEF Consume
    <3>16. SameEnds(J, J)
      BY DEF SameEnds
    <3>17. /\ \A c, q : HasLeg(s, c, q) => HasLeg(t, c, q)
           /\ \A c : \A e \in Device \ {d} : HasLeg(t, c, OwnerOf[e]) =>
                  HasLeg(s, c, OwnerOf[e]) \/ Offered(net', e, c, d)
      BY <3>6, <3>9, <3>10, <3>14
    <3>18. Move(d, t, J)
      BY <1>0, <1>h, <3>6, <3>11, <3>13, <3>15, <3>16, <3>17, CallMove DEF Pending
    <3>19. jobs' = [jobs EXCEPT ![d] = J]
      BY <1>1, <1>h
    <3> QED BY <1>1, <3>6, <3>8, <3>18, <3>19, MeshStep
  <2> QED BY <2>5, <2>6
<1> QED BY <1>2, <1>3

(* A peer hangs up or declines: its leg goes, and the call with the last one.   *)
LEMMA HangupMesh ==
    ASSUME OneDeviceEach, MeshInv, OneCallInv, TypeInv, NEW d \in Device, NEW m \in net,
           HandleHangup(d, m)
    PROVE  MeshInv'
<1>0. PICK s, J, i, p : s = dev[d] /\ J = jobs[d] /\ i = s.cur /\ p = OwnerOf[m.from]
  OBVIOUS
<1>h. /\ StateOne(s) /\ OneContext(s) /\ JobsOne(s, J) /\ Joins(d, s, J) /\ Whole(s)
      /\ d \in DOMAIN dev /\ ~s.destroyed
      /\ jobs' = jobs => jobs' = [jobs EXCEPT ![d] = J]
  BY <1>0, HereMesh, HereWhole
<1>1. m.to = d /\ m.kind \in {"reject", "hangup"} /\ jobs' = jobs /\ failures' = failures
      /\ Consume(m, {}) /\ m.from \in Device
  BY DEF HandleHangup, Receive, TypeInv, GoodEvent
<1>2. PICK hit : hit <=> /\ InCall(s, m.call) /\ Authorized(s, p)
                         /\ m.kind = "hangup" \/ Active(s, m.call)
  OBVIOUS
<1>3. CASE ~hit
  <2>1. dev' = [dev EXCEPT ![d] = s]
    BY <1>0, <1>2, <1>3, <1>h DEF HandleHangup
  <2> QED BY <1>0, <1>1, <2>1, CalmHere, CalmReceive
<1>4. CASE hit
  <2>1. PICK x : x = s.ctxs[i]
    OBVIOUS
  <2>2. i # 0 /\ i \in DOMAIN s.ctxs /\ DOMAIN x = ContextFields /\ DOMAIN s = Fields /\ x.call = m.call
    BY <1>0, <1>2, <1>4, <1>h, <2>1 DEF InCall, Whole
  <2>3. PICK legs : legs = [q \in DOMAIN x.legs \ {p} |-> x.legs[q]]
    OBVIOUS
  <2>4. PICK z : z = [x EXCEPT !.legs = legs, !.peers = @ \ {p}]
    OBVIOUS
  <2>5. PICK u : u = [s EXCEPT !.ctxs = [s.ctxs EXCEPT ![i] = z]]
    OBVIOUS
  <2>6. u = [s EXCEPT !.ctxs[i].legs = legs, !.ctxs[i].peers = @ \ {p}]
    BY <2>1, <2>2, <2>4, <2>5 DEF Fields
  <2>7. dev' = [dev EXCEPT ![d] = IF DOMAIN x.legs \subseteq {p} THEN Teardown(u, i) ELSE u]
    <3>1. dev' = [dev EXCEPT ![d] = WithoutSession(s, i, p)]
      BY <1>0, <1>2, <1>4, <1>h DEF HandleHangup
    <3>2. WithoutSession(s, i, p) = IF DOMAIN x.legs \subseteq {p} THEN Teardown(u, i) ELSE u
      BY <2>1, <2>3, <2>6 DEF WithoutSession
    <3> QED BY <3>1, <3>2
  <2>8. /\ DOMAIN z = ContextFields /\ z.call = x.call /\ z.phase = x.phase /\ z.roster = x.roster
        /\ z.peers = x.peers \ {p} /\ z.mic = x.mic /\ z.legs = legs /\ DOMAIN legs = DOMAIN x.legs \ {p}
    BY <2>2, <2>3, <2>4 DEF ContextFields
  <2>9. /\ u.ctxs = [s.ctxs EXCEPT ![i] = z] /\ u.cur = s.cur /\ u.stash = s.stash
        /\ u.store = s.store /\ u.destroyed = s.destroyed /\ DOMAIN u = Fields
    BY <2>2, <2>5 DEF Fields
  <2>10. DOMAIN u.ctxs = DOMAIN s.ctxs /\ u.ctxs[i] = z /\ \A k \in DOMAIN s.ctxs : k # i => u.ctxs[k] = s.ctxs[k]
    BY <2>2, <2>9
  <2>11. /\ \A n \in net : n.to # d \/ n.kind = "offer" => n \in net'
         /\ \A n \in net' : n \in net
    BY <1>1 DEF Consume
  <2>12. CASE DOMAIN x.legs \subseteq {p}
    <3>1. PICK t : t = Teardown(u, i)
      OBVIOUS
    <3>2. Alike(s.ctxs[i], z)
      BY <1>h, <2>1, <2>2, <2>4 DEF Alike, HasShape, OneContext
    <3>3. Untouched(s, u)
      BY <1>h, <2>2, <2>5, <3>2, UntouchedBy
    <3>4. StateOne(u)
      BY <1>h, <3>3, UntouchedOne
    <3>5. Ended(u, t)
      BY <2>2, <2>10, <3>1, <3>4, TornDown
    <3>6. Ended(s, t)
      BY <1>h, <3>3, <3>5, EndedAgain
    <3>7. ~t.destroyed
      BY <1>h, <2>9, <3>1, StillThere
    <3>8. dev' = [dev EXCEPT ![d] = t] /\ jobs' = [jobs EXCEPT ![d] = J] /\ DOMAIN s.ctxs # {}
      BY <1>1, <1>h, <2>2, <2>7, <2>12, <3>1
    <3> QED BY <1>0, <1>1, <2>11, <3>6, <3>7, <3>8, OverMesh
  <2>13. CASE ~(DOMAIN x.legs \subseteq {p})
    <3>1. dev' = [dev EXCEPT ![d] = u] /\ jobs' = [jobs EXCEPT ![d] = J]
      BY <1>1, <1>h, <2>7, <2>13
    <3>2. SameCall(s, u) /\ SameEnds(J, J)
      BY <2>1, <2>8, <2>9, <2>10 DEF SameCall, SameEnds
    <3>3. Joins(d, u, J)
      <4>1. /\ x.peers \subseteq x.roster
            /\ \A y \in s.stash : OwnerOf[y.from] \in x.roster
            /\ \A j \in J : j.op = "accept" /\ j.at # "media" => x.phase = "active"
            /\ \A j \in Draining(J) : \A y \in j.todo : y.call = x.call /\ OwnerOf[y.from] \in x.roster
            /\ x.phase = "active" =>
                  /\ x.mic # 0
                  /\ \A q \in x.peers : Initiates(d, q) =>
                        q \in DOMAIN x.legs \/ \E j \in Joining(J) : q \in j.todo
                  /\ (\E y \in s.stash : y.call = x.call) => Joining(J) # {}
        BY <1>0, <1>h, <2>1, <2>2 DEF Joins
      <4>2. z.phase = "active" =>
                \A q \in z.peers : Initiates(d, q) =>
                    q \in DOMAIN z.legs \/ \E j \in Joining(J) : q \in j.todo
        BY <2>8, <4>1
      <4>3. u.ctxs[u.cur] = z /\ DOMAIN u.ctxs # {} /\ ~u.destroyed
        BY <1>0, <1>h, <2>2, <2>9, <2>10
      <4> QED BY <2>8, <2>9, <4>1, <4>2, <4>3 DEF Joins
    <3>4. \A c, q : HasLeg(s, c, q) => HasLeg(u, c, q) \/ (c = m.call /\ q = p)
      BY <1>0, <2>1, <2>2, <2>8, <2>9, <2>10 DEF HasLeg, InCall
    <3>5. \A c, q : HasLeg(u, c, q) => HasLeg(s, c, q)
      BY <1>0, <2>1, <2>2, <2>8, <2>9, <2>10 DEF HasLeg, InCall
    <3>6. Gone(dev[m.from], jobs[m.from], m.call)
      BY <1>1 DEF MeshInv
    <3>7. \A c, q : HasLeg(s, c, q) =>
              HasLeg(u, c, q) \/ \E e \in Device : OwnerOf[e] = q /\ Gone(dev[e], jobs[e], c)
      BY <1>0, <1>1, <3>4, <3>6
    <3>8. \A c, e : Holds(u, J, c, e) <=> Holds(s, J, c, e)
      <4>1. \A c : Ringing(u, c) <=> Ringing(s, c)
        BY <1>h, <3>2, CallStays
      <4> QED BY <2>9, <4>1 DEF Holds
    <3>9. Sends(d, u, J)
      BY <2>11 DEF Sends
    <3>10. Move(d, u, J)
      BY <1>0, <1>h, <2>11, <3>2, <3>5, <3>7, <3>8, <3>9, CallMove DEF Pending
    <3> QED BY <1>1, <3>1, <3>3, <3>10, MeshStep
  <2> QED BY <2>12, <2>13
<1> QED BY <1>3, <1>4

(* An offer of the call the device is in: answered, kept, or from a stranger.   *)
LEMMA MeshOfferMesh ==
    ASSUME OneDeviceEach, MeshInv, OneCallInv, TypeInv, NEW d \in Device, NEW m \in net,
           HandleMeshOffer(d, m)
    PROVE  MeshInv'
<1>0. PICK s, J, i, p : s = dev[d] /\ J = jobs[d] /\ i = s.cur /\ p = OwnerOf[m.from]
  OBVIOUS
<1>h. /\ OneContext(s) /\ JobsOne(s, J) /\ Joins(d, s, J) /\ Whole(s) /\ Good(d, s)
      /\ d \in DOMAIN dev /\ ~s.destroyed
      /\ dev' = dev => dev' = [dev EXCEPT ![d] = s]
      /\ jobs' = jobs => jobs' = [jobs EXCEPT ![d] = J]
  BY <1>0, HereMesh, HereWhole
<1>1. /\ m.to = d /\ m.kind = "offer" /\ InCall(s, m.call) /\ failures' = failures
      /\ jobs' = [jobs EXCEPT ![d] = J] /\ m.from \in Device
  BY <1>0, <1>h DEF HandleMeshOffer, Receive, TypeInv, GoodEvent
<1>2. PICK x : x = s.ctxs[i]
  OBVIOUS
<1>3. i # 0 /\ i \in DOMAIN s.ctxs /\ DOMAIN x = ContextFields /\ DOMAIN s = Fields /\ x.call = m.call
  BY <1>0, <1>1, <1>2, <1>h DEF InCall, Whole
<1>4. SameEnds(J, J) /\ SameCall(s, s)
  BY DEF SameEnds, SameCall
<1>5. \A e \in Device : OwnerOf[e] = p => e = m.from
  BY <1>0, <1>1 DEF OneDeviceEach
<1>6. Offered(net, d, m.call, m.from)
  BY <1>1 DEF Offered
<1>7. CASE ~Authorized(s, p) /\ Consume(m, {}) /\ dev' = [dev EXCEPT ![d] = s]
  <2>1. Sends(d, s, J)
    BY <1>1, <1>7 DEF Sends, Consume
  <2>2. \A n \in net : n.to = d /\ n.kind = "offer" /\ n \notin net' => Shut(s, n.call, OwnerOf[n.from])
    BY <1>0, <1>1, <1>7 DEF Consume, Shut
  <2>3. Move(d, s, J)
    BY <1>0, <1>h, <1>4, <2>1, <2>2, CallMove DEF Pending
  <2> QED BY <1>0, <1>1, <1>7, <1>h, <2>3, MeshStep
<1>8. CASE /\ Authorized(s, p) /\ Active(s, m.call)
           /\ Consume(m, MeshAnswerEvents(s, d, i, m)) /\ dev' = [dev EXCEPT ![d] = MeshAnswer(s, i, m)]
  <2>1. p \in x.roster /\ x.phase = "active"
    BY <1>0, <1>2, <1>8 DEF Authorized, Active
  <2>2. /\ x.mic # 0 /\ x.peers \subseteq x.roster
        /\ \A q \in x.peers : Initiates(d, q) =>
              q \in DOMAIN x.legs \/ \E j \in Joining(J) : q \in j.todo
        /\ (\E y \in s.stash : y.call = x.call) => Joining(J) # {}
        /\ \A y \in s.stash : OwnerOf[y.from] \in x.roster
        /\ \A j \in Draining(J) : \A y \in j.todo : y.call = x.call /\ OwnerOf[y.from] \in x.roster
    BY <1>0, <1>2, <1>3, <1>h, <2>1 DEF Joins
  <2>3. PICK t : t = MeshAnswer(s, i, m)
    OBVIOUS
  <2>4. /\ SameCall(s, t) /\ t.stash = s.stash /\ t.store = s.store /\ t.destroyed = s.destroyed
        /\ t.ctxs[i].peers \subseteq x.peers \cup {p} /\ t.ctxs[i].mic = x.mic
        /\ DOMAIN t.ctxs[i].legs = DOMAIN x.legs \cup {p}
    <3>1. CASE NoOfferTo(s, i, p)
      <4>1. p \in DOMAIN x.legs
        BY <1>2, <2>2, <3>1 DEF NoOfferTo
      <4>2. t = s
        BY <1>0, <2>3, <3>1 DEF MeshAnswer
      <4> QED BY <1>2, <1>4, <4>1, <4>2
    <3>2. CASE ~NoOfferTo(s, i, p)
      <4>0. ~NoOfferTo(s, s.cur, p)
        BY <1>0, <3>2
      <4>p. p = OwnerOf[m.from]
        BY <1>0
      <4>1. t = MeshAnswer(s, s.cur, m) /\ DOMAIN s = Fields
        BY <1>0, <1>3, <2>3
      <4>c. s.cur \in DOMAIN s.ctxs
        BY <1>0, <1>3
      <4>2. DOMAIN s.ctxs[s.cur] = ContextFields
        BY <1>0, <1>2, <1>3
      <4>3. /\ SameCall(s, t) /\ t.stash = s.stash /\ t.store = s.store /\ t.destroyed = s.destroyed
            /\ t.ctxs[s.cur].peers = s.ctxs[s.cur].peers \cup {p}
            /\ t.ctxs[s.cur].mic = s.ctxs[s.cur].mic
            /\ DOMAIN t.ctxs[s.cur].legs = DOMAIN s.ctxs[s.cur].legs \cup {p}
        BY <4>0, <4>1, <4>2, <4>c, <4>p, AnswerGrows
      <4> QED BY <1>0, <1>2, <4>3
    <3> QED BY <3>1, <3>2
  <2>5. /\ t.cur = i /\ DOMAIN t.ctxs = DOMAIN s.ctxs /\ t.ctxs[i].call = m.call
        /\ t.ctxs[i].phase = "active" /\ t.ctxs[i].roster = x.roster
    BY <1>0, <1>2, <1>3, <2>1, <2>4 DEF SameCall
  <2>6. Joins(d, t, J)
    <3>1. \A q \in t.ctxs[i].peers : Initiates(d, q) =>
              q \in DOMAIN t.ctxs[i].legs \/ \E j \in Joining(J) : q \in j.todo
      BY <2>2, <2>4
    <3>2. t.ctxs[i].peers \subseteq x.roster
      BY <2>1, <2>2, <2>4
    <3> QED BY <1>3, <1>h, <2>2, <2>4, <2>5, <3>1, <3>2 DEF Joins
  <2>7. \A c, q : HasLeg(t, c, q) <=> HasLeg(s, c, q) \/ (c = m.call /\ q = p)
    BY <1>0, <1>2, <1>3, <2>4, <2>5 DEF HasLeg, InCall
  <2>8. \A c, e : Holds(t, J, c, e) <=> Holds(s, J, c, e)
    <3>1. \A c : ~Ringing(t, c) /\ ~Ringing(s, c)
      BY <1>0, <1>2, <2>1, <2>5 DEF Ringing
    <3> QED BY <2>4, <3>1 DEF Holds
  <2>9. \A n \in MeshAnswerEvents(s, d, i, m) : n.from = d /\ n.kind = "answer"
    BY WrappedAre DEF MeshAnswerEvents
  <2>10. /\ \A n \in net : n # m => n \in net'
         /\ \A n \in net' : n \in net \/ (n.from = d /\ n.kind = "answer")
    BY <1>8, <2>9 DEF Consume
  <2>11. Sends(d, t, J)
    BY <1>1, <2>10 DEF Sends
  <2>12. \A n \in net : n.to = d /\ n.kind = "offer" /\ n \notin net' => HasLeg(t, n.call, OwnerOf[n.from])
    BY <1>0, <2>7, <2>10
  <2>13. \A c : \A e \in Device \ {d} : HasLeg(t, c, OwnerOf[e]) =>
             HasLeg(s, c, OwnerOf[e]) \/ Pending(d, s, J, net, c, e)
    BY <1>5, <1>6, <2>7 DEF Pending
  <2>14. Move(d, t, J)
    BY <1>0, <1>h, <1>4, <2>4, <2>7, <2>8, <2>11, <2>12, <2>13, CallMove DEF Pending
  <2> QED BY <1>1, <1>8, <2>3, <2>6, <2>14, MeshStep
<1>9. CASE /\ Authorized(s, p) /\ Ringing(s, m.call) /\ Consume(m, {})
           /\ dev' = [dev EXCEPT ![d].stash =
                {y \in @ : y.call # m.call \/ OwnerOf[y.from] # OwnerOf[m.from]}
                    \cup {[call |-> m.call, from |-> m.from, sdp |-> m.sdp]}]
  <2>1. p \in x.roster /\ x.phase = "ringing"
    BY <1>0, <1>2, <1>9 DEF Authorized, Ringing
  <2>2. PICK r : r = [call |-> m.call, from |-> m.from, sdp |-> m.sdp]
    OBVIOUS
  <2>3. PICK rest : rest = {y \in s.stash : y.call # m.call \/ OwnerOf[y.from] # OwnerOf[m.from]}
    OBVIOUS
  <2>4. PICK t : t = [s EXCEPT !.stash = rest \cup {r}]
    OBVIOUS
  <2>5. dev' = [dev EXCEPT ![d] = t]
    BY <1>0, <1>9, <1>h, <2>2, <2>3, <2>4
  <2>6. /\ t.ctxs = s.ctxs /\ t.cur = s.cur /\ t.store = s.store /\ t.destroyed = s.destroyed
        /\ t.stash = rest \cup {r}
    BY <1>3, <2>4 DEF Fields
  <2>7. SameCall(s, t)
    BY <2>6 DEF SameCall
  <2>8. Joins(d, t, J)
    <3>1. /\ x.peers \subseteq x.roster
          /\ \A y \in s.stash : OwnerOf[y.from] \in x.roster
          /\ \A j \in J : j.op = "accept" /\ j.at # "media" => x.phase = "active"
          /\ \A j \in Draining(J) : \A y \in j.todo : y.call = x.call /\ OwnerOf[y.from] \in x.roster
      BY <1>0, <1>2, <1>3, <1>h DEF Joins
    <3>2. \A y \in t.stash : OwnerOf[y.from] \in x.roster
      BY <1>0, <2>1, <2>2, <2>3, <2>6, <3>1
    <3>3. t.ctxs[t.cur] = x /\ DOMAIN t.ctxs # {} /\ ~t.destroyed
      BY <1>0, <1>2, <1>3, <1>h, <2>6
    <3> QED BY <2>1, <3>1, <3>2, <3>3 DEF Joins
  <2>9. \A c, q : HasLeg(t, c, q) <=> HasLeg(s, c, q)
    BY <2>6 DEF HasLeg, InCall
  <2>10. /\ \A y \in s.stash : y \notin rest => y.call = m.call /\ y.from = m.from
         /\ r.call = m.call /\ r.from = m.from
    <3>1. \A y \in s.stash : y.from \in Device
      BY <1>h DEF Good, StashRecord
    <3> QED BY <1>0, <1>5, <2>2, <2>3, <3>1
  <2> DEFINE Listed(S, c, e) == \E y \in S : y.call = c /\ y.from = e
  <2>11. ASSUME NEW c, NEW e
         PROVE  Listed(t.stash, c, e) <=> Listed(s.stash, c, e) \/ (c = m.call /\ e = m.from)
    BY <2>3, <2>6, <2>10
  <2>12. ASSUME NEW c, NEW e
         PROVE  Holds(t, J, c, e) <=> Holds(s, J, c, e) \/ (c = m.call /\ e = m.from)
    <3> DEFINE Else == \/ \E j \in J : j.op = "roster" /\ j.offer.call = c /\ j.offer.from = e
                       \/ \E j \in Draining(J) : \E y \in j.todo : y.call = c /\ y.from = e
                       \/ Ringing(s, c) /\ s.store.caller = OwnerOf[e]
    <3>1. Holds(s, J, c, e) <=> Else \/ Listed(s.stash, c, e)
      BY DEF Holds
    <3>2. Holds(t, J, c, e) <=> Else \/ Listed(t.stash, c, e)
      BY <2>6 DEF Holds, Ringing, InCall
    <3> HIDE DEF Else, Listed
    <3> QED BY <2>11, <3>1, <3>2
  <2>13. Sends(d, t, J)
    BY <1>1, <1>9 DEF Sends, Consume
  <2>14. \A n \in net : n.to = d /\ n.kind = "offer" /\ n \notin net' => Holds(t, J, n.call, n.from)
    BY <1>9, <2>12 DEF Consume
  <2>15. \A c, e : Holds(t, J, c, e) => Pending(d, s, J, net, c, e)
    BY <1>6, <2>12 DEF Pending
  <2>16. \A c, e : Holds(s, J, c, e) => Holds(t, J, c, e)
    BY <2>12
  <2>17. Move(d, t, J)
    BY <1>0, <1>h, <1>4, <2>7, <2>9, <2>13, <2>14, <2>15, <2>16, CallMove
  <2> QED BY <1>1, <2>5, <2>8, <2>17, MeshStep
<1> QED BY <1>0, <1>7, <1>8, <1>9, <1>h DEF HandleMeshOffer

(* An offer of another call: refused by a device that is in a call, or resolved. *)
LEMMA OfferMesh ==
    ASSUME OneDeviceEach, MeshInv, OneCallInv, TypeInv, NEW d \in Device, NEW m \in net,
           HandleOffer(d, m)
    PROVE  MeshInv'
<1>0. PICK s, J : s = dev[d] /\ J = jobs[d]
  OBVIOUS
<1>h. /\ StateOne(s) /\ OneContext(s) /\ JobsOne(s, J) /\ Joins(d, s, J)
      /\ d \in DOMAIN dev /\ d \in DOMAIN jobs
      /\ dev' = dev => dev' = [dev EXCEPT ![d] = s]
      /\ jobs' = jobs => jobs' = [jobs EXCEPT ![d] = J]
  BY <1>0, HereMesh
<1>1. /\ m.to = d /\ m.kind = "offer" /\ ~InCall(s, m.call) /\ failures' = failures
      /\ dev' = [dev EXCEPT ![d] = s] /\ m.from \in Device
  BY <1>0, <1>h DEF HandleOffer, Receive, TypeInv, GoodEvent
<1>2. CASE /\ s.store.shows = "active" /\ jobs' = [jobs EXCEPT ![d] = J]
           /\ Consume(m, Wrapped("reject", m.call, d, {OwnerOf[m.from]}, NoLeg, {}))
  <2>1. Gone(s, J, m.call)
    <3>1. s.cur # 0
      BY <1>2, <1>h DEF StateOne, OnScreen, Active, InCall
    <3>2. DOMAIN s.ctxs # {}
      BY <1>h, <3>1 DEF OneContext
    <3> QED BY <1>1, <3>2 DEF Gone
  <2>2. /\ \A n \in net : n # m => n \in net'
        /\ \A n \in net' : n \in net \/ (n.from = d /\ n.kind = "reject" /\ n.call = m.call)
    BY <1>2, WrappedAre DEF Consume
  <2>3. Sends(d, s, J)
    BY <1>1, <2>1, <2>2 DEF Sends
  <2>4. Stays(d, s, J)
    BY <1>0 DEF Stays
  <2>5. \A c : \A e \in Device \ {d} : Offered(net, d, c, e) => Offered(net', d, c, e) \/ c = m.call
    BY <2>2 DEF Offered
  <2>6. \A c : \A e \in Device \ {d} : Offered(net', d, c, e) => Offered(net, d, c, e)
    BY <2>2 DEF Offered
  <2>7. Follows(d, s, J)
    BY <1>0, <2>1, <2>5, <2>6 DEF Follows, Pending
  <2> QED BY <1>0, <1>1, <1>2, <1>h, <2>3, <2>4, <2>7, MeshStep DEF Move
<1>3. CASE /\ jobs' = [jobs EXCEPT ![d] = J \cup {[op |-> "roster", offer |-> m]}]
           /\ Consume(m, {})
  <2>1. PICK k : k = [op |-> "roster", offer |-> m]
    OBVIOUS
  <2>2. PICK K : K = J \cup {k}
    OBVIOUS
  <2>3. jobs' = [jobs EXCEPT ![d] = K] /\ k.op = "roster" /\ k.offer = m
    BY <1>3, <2>1, <2>2
  <2>4. Draining(K) = Draining(J) /\ Joining(K) = Joining(J)
    BY <2>2, <2>3 DEF Draining, Joining
  <2>5. \A j \in K : j.op = "accept" => j \in J
    BY <2>2, <2>3
  <2>6. Joins(d, s, K)
    BY <1>h, <2>4, <2>5 DEF Joins
  <2>7. SameCall(s, s) /\ SameEnds(J, K)
    BY <2>2 DEF SameCall, SameEnds
  <2> DEFINE Brings(S, c, e) == \E j \in S : j.op = "roster" /\ j.offer.call = c /\ j.offer.from = e
  <2>8. ASSUME NEW c, NEW e
        PROVE  Brings(K, c, e) <=> Brings(J, c, e) \/ (c = m.call /\ e = m.from)
    BY <2>2, <2>3
  <2>9. ASSUME NEW c, NEW e
        PROVE  Holds(s, K, c, e) <=> Holds(s, J, c, e) \/ (c = m.call /\ e = m.from)
    <3> DEFINE Else == \/ \E y \in s.stash : y.call = c /\ y.from = e
                       \/ \E j \in Draining(J) : \E y \in j.todo : y.call = c /\ y.from = e
                       \/ Ringing(s, c) /\ s.store.caller = OwnerOf[e]
    <3>1. Holds(s, J, c, e) <=> Else \/ Brings(J, c, e)
      BY DEF Holds
    <3>2. Holds(s, K, c, e) <=> Else \/ Brings(K, c, e)
      BY <2>4 DEF Holds
    <3> HIDE DEF Else, Brings
    <3> QED BY <2>8, <3>1, <3>2
  <2>10. Offered(net, d, m.call, m.from)
    BY <1>1 DEF Offered
  <2>11. Sends(d, s, K)
    BY <1>1, <1>3 DEF Sends, Consume
  <2>12. \A n \in net : n.to = d /\ n.kind = "offer" /\ n \notin net' => Holds(s, K, n.call, n.from)
    BY <1>3, <2>9 DEF Consume
  <2>13. /\ \A c, e : Holds(s, K, c, e) => Pending(d, s, J, net, c, e)
         /\ \A c, e : Holds(s, J, c, e) => Holds(s, K, c, e)
    BY <2>9, <2>10 DEF Pending
  <2>14. Move(d, s, K)
    BY <1>0, <1>h, <2>7, <2>11, <2>12, <2>13, CallMove
  <2> QED BY <1>1, <2>3, <2>6, <2>14, MeshStep
<1> QED BY <1>0, <1>2, <1>3, <1>h DEF HandleOffer

LEMMA NetworkMesh ==
    ASSUME OneDeviceEach, MaxFailures = 0, MeshInv, OneCallInv, TypeInv, NEW d \in Device,
           Network(d)
    PROVE  MeshInv'
<1>1. ASSUME NEW i \in DOMAIN dev[d].ctxs, ConnectionFails(d, i) PROVE FALSE
  <2>1. Fail
    BY <1>1 DEF ConnectionFails
  <2> QED BY <2>1 DEF Fail, MeshInv
<1> QED BY <1>1, ConnectsMesh, MeshOfferMesh, OfferMesh, EchoMesh, AnswerMesh, HangupMesh, RenegotiateMesh
    DEF Network

-----------------------------------------------------------------------------

LEMMA MeshInit == Init => MeshInv
<1> SUFFICES ASSUME Init PROVE MeshInv
  OBVIOUS
<1>1. \A d \in Device : dev[d] = Fresh /\ jobs[d] = {}
  BY DEF Init
<1>2. net = {} /\ failures = 0
  BY DEF Init
<1>3. /\ Fresh.ctxs = <<>> /\ Fresh.cur = 0 /\ Fresh.stash = {} /\ ~Fresh.destroyed
      /\ DOMAIN Fresh.ctxs = {}
  BY DEF Fresh
<1>4. \A d \in Device : Joins(d, dev[d], jobs[d])
  BY <1>1, <1>3 DEF Joins
<1>5. \A d \in Device : \A c, p : ~HasLeg(dev[d], c, p) /\ ~Ringing(dev[d], c)
  BY <1>1, <1>3 DEF HasLeg, Ringing, InCall
<1>6. \A d, e \in Device : \A c : ~Pending(d, dev[d], jobs[d], net, c, e)
  BY <1>1, <1>2, <1>3, <1>5 DEF Pending, Offered, Holds, Draining
<1>7. \A d, e \in Device : \A c : OfferLegs(d, e, c) /\ LegOffers(d, e, c)
  BY <1>5, <1>6 DEF OfferLegs, LegOffers
<1> QED BY <1>2, <1>4, <1>7 DEF MeshInv

LEMMA MeshNext ==
    ASSUME OneDeviceEach, IsFiniteSet(Pubkey), MaxContexts <= 1, MaxFailures = 0, Unmounts = {}
    PROVE  MeshInv /\ OneCallInv /\ TypeInv /\ [Next]_vars => MeshInv'
<1> SUFFICES ASSUME MeshInv, OneCallInv, TypeInv, [Next]_vars PROVE MeshInv'
  OBVIOUS
<1>1. CASE UNCHANGED vars
  <2>1. dev' = dev /\ jobs' = jobs /\ net' = net /\ failures' = failures
    BY <1>1 DEF vars
  <2> QED BY <2>1 DEF MeshInv, Joins, OfferLegs, LegOffers, Pending, Offered, Holds, Gone, HasLeg,
             Shut, Joining, Draining, InCall, Ringing, Authorized, Initiates
<1>2. ASSUME NEW d \in Device, User(d) \/ Resume(d) \/ Break(d) \/ Clock(d) \/ Network(d)
      PROVE  MeshInv'
  <2>1. CASE User(d)
    BY <2>1, UserMesh
  <2>2. CASE Resume(d) \/ Break(d)
    BY <2>2, ResumeMesh
  <2>3. CASE Clock(d)
    BY <2>3, TimerMesh DEF Clock
  <2>4. CASE Network(d)
    BY <2>4, NetworkMesh
  <2> QED BY <1>2, <2>1, <2>2, <2>3, <2>4
<1> QED BY <1>1, <1>2 DEF Next

LEMMA MeshMet ==
    ASSUME OneDeviceEach, MeshInv, OneCallInv, TypeInv PROVE MeshComplete
<1> SUFFICES ASSUME Quiet, NEW d \in Device, NEW e \in Device, NEW s, s = dev[d], NEW t, t = dev[e],
                    OwnerOf[d] # OwnerOf[e], s.cur # 0, t.cur # 0,
                    Active(s, t.ctxs[t.cur].call), Active(t, s.ctxs[s.cur].call),
                    OwnerOf[e] \in s.ctxs[s.cur].peers, OwnerOf[d] \in t.ctxs[t.cur].peers
             PROVE  OwnerOf[e] \in DOMAIN s.ctxs[s.cur].legs
  BY DEF MeshComplete
<1>1. PICK x, y, c : x = s.ctxs[s.cur] /\ y = t.ctxs[t.cur] /\ c = x.call
  OBVIOUS
<1>2. /\ x.phase = "active" /\ y.phase = "active" /\ y.call = c
      /\ InCall(s, c) /\ InCall(t, c) /\ ~Ringing(s, c)
  BY <1>1 DEF Active, InCall, Ringing
<1>3. jobs[d] = {} /\ jobs[e] = {} /\ (\A m \in net : m.to = d => s.destroyed)
  BY DEF Quiet
<1>4. /\ Joins(d, s, {}) /\ Joins(e, t, {}) /\ ~s.destroyed /\ GoodContext(d, s.ctxs[s.cur])
  <2>1. Joins(d, s, jobs[d]) /\ ~s.destroyed /\ (s.cur # 0 => GoodContext(d, s.ctxs[s.cur]))
    BY HereMesh
  <2>2. Joins(e, t, jobs[e])
    BY HereMesh
  <2> QED BY <1>3, <2>1, <2>2
<1>5. Joining({}) = {} /\ Draining({}) = {}
  BY DEF Joining, Draining
<1>6. /\ x.peers \subseteq x.roster /\ (\A z \in s.stash : z.call # c)
      /\ \A q \in x.peers : Initiates(d, q) => q \in DOMAIN x.legs
  BY <1>1, <1>2, <1>4, <1>5 DEF Joins
<1>7. \A q \in y.peers : Initiates(e, q) => q \in DOMAIN y.legs
  BY <1>1, <1>2, <1>4, <1>5 DEF Joins
<1>8. CASE Initiates(d, OwnerOf[e])
  BY <1>1, <1>6, <1>8
<1>9. CASE ~Initiates(d, OwnerOf[e])
  <2>1. Initiates(e, OwnerOf[d])
    <3>1. PICK p, q : p = OwnerOf[d] /\ q = OwnerOf[e]
      OBVIOUS
    <3>2. p \in Pubkey /\ q \in Pubkey /\ p # q
      BY <3>1, DevicesAssumption
    <3>3. RankOf[p] \in Nat /\ RankOf[q] \in Nat /\ RankOf[p] # RankOf[q]
      BY <3>2, DevicesAssumption
    <3>4. ~(RankOf[p] < RankOf[q])
      BY <1>9, <3>1 DEF Initiates
    <3> QED BY <3>1, <3>3, <3>4 DEF Initiates
  <2>2. HasLeg(t, c, OwnerOf[d])
    BY <1>1, <1>2, <1>7, <2>1 DEF HasLeg
  <2>3. LegOffers(d, e, c)
    BY <1>1, <1>4 DEF MeshInv, GoodContext
  <2>4. ~Pending(d, s, {}, net, c, e)
    BY <1>2, <1>3, <1>4, <1>5, <1>6 DEF Pending, Offered, Holds
  <2>5. ~Shut(s, c, OwnerOf[e])
    BY <1>1, <1>6 DEF Shut, Authorized
  <2>6. ~Gone(s, {}, c) /\ ~Gone(t, {}, c)
    BY <1>2 DEF Gone
  <2>7. HasLeg(s, c, OwnerOf[e])
    BY <1>3, <2>2, <2>3, <2>4, <2>5, <2>6 DEF LegOffers
  <2> QED BY <2>7 DEF HasLeg
<1> QED BY <1>8, <1>9

(* For any number of users of one device each, whatever their keys' order, the  *)
(* groups they share and the calls they start, take, leave or let ring out, each *)
(* device taking part in one call: once everything sent has arrived, any two     *)
(* that are in a call and count each other among its peers have a leg between    *)
(* them, whichever of them accepted first. It is so while nothing fails: the     *)
(* lower key offers the leg once, as it accepts or when the other's answer comes, *)
(* and an offer that comes before its receiver has accepted is stashed, answered  *)
(* by acceptCall and never sent again (callManager.ts).                           *)
THEOREM LegsAreComplete ==
    ASSUME OneDeviceEach, IsFiniteSet(Pubkey), MaxContexts <= 1, ~SecondClicks,
           MaxFailures = 0, Unmounts = {}
    PROVE  Spec => []MeshComplete
<1>1. Init => MeshInv /\ OneCallInv /\ TypeInv
  BY MeshInit, OneCallInit, TypeInit
<1>2. MeshInv /\ OneCallInv /\ TypeInv /\ [Next]_vars => (MeshInv /\ OneCallInv /\ TypeInv)'
  BY MeshNext, OneCallStep, TypeStep
<1>3. MeshInv /\ OneCallInv /\ TypeInv => MeshComplete
  BY MeshMet
<1> QED BY <1>1, <1>2, <1>3, PTL DEF Spec
=============================================================================
