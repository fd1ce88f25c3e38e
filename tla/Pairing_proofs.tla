---------------------------- MODULE Pairing_proofs ----------------------------
(* Theorems about Pairing, for any devices, clock, TTL and grace: a code admits  *)
(* until its grace ends, an echo is admitted exactly when it comes in time,       *)
(* nothing undoes what the user decided about a contact, and an intent is held    *)
(* until it is settled.                                                          *)
(*                                                                              *)
(* That an echo in time is admitted rests on where its nonce comes from: from     *)
(* the code the issuer has shown, through the scanner's intent, its calls and     *)
(* its run (Traced), and the issuer's storage still holds it (GraceKept).         *)
EXTENDS Pairing, FiniteSetTheorems, TLAPS

(* Every nonce under way was shown by the device it is on its way to.             *)
Traced ==
    /\ \A d, p \in Device : intents[d][p] # None => intents[d][p] \in issued[p]
    /\ \A d \in Device : \A c \in calls[d] : \A i \in c.todo : i.nonce \in issued[i.of]
    /\ \A d, p \in Device : flights[d][p] # None => flights[d][p].nonce \in issued[p]
    /\ \A e \in echoes : e.nonce \in issued[e.to]

(* The purge of strangers finds no contact to remove, and whoever was admitted     *)
(* in this session is still a contact.                                            *)
Acquainted ==
    /\ \A d, p \in Device : contacts[d][p] # Absent => p \in known[d]
    /\ \A d \in Device : \A p \in admitted[d] : contacts[d][p] # Absent

(* The inductive invariant.                                                      *)
PairingInv == TypeOK /\ GraceKept /\ Traced /\ Acquainted

(* The parts that the scanner's steps rewrite: type and origin of each.            *)
IntentsInv ==
    /\ intents \in [Device -> [Device -> Nonce \cup {None}]]
    /\ \A d, p \in Device : intents[d][p] # None => intents[d][p] \in issued[p]
CallsInv ==
    /\ calls \in [Device -> SUBSET Call]
    /\ \A d \in Device : \A c \in calls[d] :
          /\ c.awaits # None => flights[d][c.awaits] # None
          /\ \A i \in c.todo : i.nonce \in issued[i.of]
FlightsInv ==
    /\ flights \in [Device -> [Device -> Flight \cup {None}]]
    /\ \A d, p \in Device : flights[d][p] # None => flights[d][p].nonce \in issued[p]

-----------------------------------------------------------------------------
(* Facts about the helpers                                                      *)

LEMMA NoncesAreNumbers ==
    /\ Nonce \subseteq Nat /\ None \notin Nonce /\ None \notin Device
    /\ None \notin Flight /\ Absent \notin Contact
<1>1. Nonce \subseteq Nat /\ None \notin Nat /\ None \notin Device
  BY PairingAssumption DEF Nonce
<1>2. Flight \subseteq [nonce : Nat, stage : Stage]
  BY <1>1 DEF Flight
<1>3. None \notin [nonce : Nat, stage : Stage]
  BY PairingAssumption
<1>4. Absent \notin Contact
  BY PairingAssumption DEF Contact
<1> QED BY <1>1, <1>2, <1>3, <1>4

LEMMA PruneKeeps ==
    ASSUME NEW S, NEW t
    PROVE  /\ Prune(S, t) \subseteq S
           /\ \A n \in S : t <= n + Grace => n \in Prune(S, t)
BY DEF Prune

(* What is written to one entry of a table of pairs of devices.                   *)
LEMMA ContactEntry ==
    ASSUME TypeOK, NEW d \in Device, NEW p \in Device, NEW x \in Contact,
           contacts' = [contacts EXCEPT ![d][p] = x]
    PROVE  /\ contacts' \in [Device -> [Device -> Contact \cup {Absent}]]
           /\ \A q, r \in Device :
                contacts'[q][r] = IF q = d /\ r = p THEN x ELSE contacts[q][r]
BY DEF TypeOK

LEMMA IntentEntry ==
    ASSUME TypeOK, NEW d \in Device, NEW p \in Device, NEW x \in Nonce \cup {None},
           intents' = [intents EXCEPT ![d][p] = x]
    PROVE  /\ intents' \in [Device -> [Device -> Nonce \cup {None}]]
           /\ \A q, r \in Device :
                intents'[q][r] = IF q = d /\ r = p THEN x ELSE intents[q][r]
BY DEF TypeOK

LEMMA FlightEntry ==
    ASSUME TypeOK, NEW d \in Device, NEW p \in Device, NEW x \in Flight \cup {None},
           flights' = [flights EXCEPT ![d][p] = x]
    PROVE  /\ flights' \in [Device -> [Device -> Flight \cup {None}]]
           /\ \A q, r \in Device :
                flights'[q][r] = IF q = d /\ r = p THEN x ELSE flights[q][r]
BY DEF TypeOK

LEMMA HeldIsTraced ==
    ASSUME TypeOK, Traced, NEW d \in Device
    PROVE  /\ Held(d) \subseteq Intent
           /\ \A i \in Held(d) : i.nonce \in issued[i.of]
BY NoncesAreNumbers DEF TypeOK, Traced, Held, Intent

(* The copies of one echo are finitely many, so the next one has a number.        *)
LEMMA SentType ==
    ASSUME TypeOK, Traced, NEW d \in Device, NEW p \in Device, flights[d][p] # None
    PROVE  /\ echoes \subseteq Sent(d, p) /\ Sent(d, p) \subseteq Echo
           /\ \A e \in Sent(d, p) : e.nonce \in issued[e.to]
<1> DEFINE n == flights[d][p].nonce
           copies == {e \in echoes : e.from = d /\ e.to = p /\ e.nonce = n}
           k == IF Cardinality(copies) < MaxCopies THEN Cardinality(copies) + 1 ELSE MaxCopies
           Number[e \in copies] == e.copy
<1>1. flights[d][p] \in Flight
  BY DEF TypeOK
<1>2. n \in Nonce /\ n \in issued[p]
  BY <1>1 DEF Flight, Traced
<1>3. Cardinality(copies) \in Nat
  <2>1. IsFiniteSet(1..MaxCopies)
    <3>1. 1 \in Int /\ MaxCopies \in Int
      BY PairingAssumption
    <3> QED BY <3>1, FS_Interval
  <2>2. Number \in Injection(copies, 1..MaxCopies)
    <3>1. \A e \in copies : e \in Echo
      BY DEF TypeOK
    <3>2. Number \in [copies -> 1..MaxCopies]
      BY <3>1 DEF Echo
    <3>3. ASSUME NEW a \in copies, NEW b \in copies, Number[a] = Number[b] PROVE a = b
      BY <3>1, <3>3 DEF Echo
    <3> QED BY <3>2, <3>3 DEF Injection, IsInjective
  <2>3. IsFiniteSet(copies)
    BY <2>1, <2>2, FS_Injection
  <2> QED BY <2>3, FS_CardinalityType
<1>4. k \in 1..MaxCopies
  BY <1>3, PairingAssumption
<1>5. Sent(d, p) = echoes \cup {[from |-> d, to |-> p, nonce |-> n, copy |-> k]}
  BY DEF Sent
<1>6. [from |-> d, to |-> p, nonce |-> n, copy |-> k] \in Echo
  BY <1>2, <1>4 DEF Echo
<1> HIDE DEF n, k
<1> QED BY <1>2, <1>5, <1>6 DEF TypeOK, Traced

-----------------------------------------------------------------------------
(* The parts of the invariant that a step leaves alone.                          *)

LEMMA GraceUntouched ==
    ASSUME GraceKept, UNCHANGED <<now, issued, stored>>
    PROVE  GraceKept'
BY DEF GraceKept

LEMMA AcquaintedUntouched ==
    ASSUME Acquainted, UNCHANGED <<contacts, known, admitted>>
    PROVE  Acquainted'
BY DEF Acquainted

LEMMA TracedUntouched ==
    ASSUME Traced, UNCHANGED <<issued, intents, calls, flights, echoes>>
    PROVE  Traced'
BY DEF Traced

-----------------------------------------------------------------------------
(* The initial states, and one lemma for each action                             *)

LEMMA InitPairing == Init => PairingInv
<1> SUFFICES ASSUME Init PROVE PairingInv
  OBVIOUS
<1>1. TypeOK
  BY PairingAssumption DEF Init, TypeOK
<1>2. GraceKept /\ Traced /\ Acquainted
  BY DEF Init, GraceKept, Traced, Acquainted
<1> QED BY <1>1, <1>2 DEF PairingInv

LEMMA ShareCodeStep ==
    ASSUME PairingInv, NEW d \in Device, ShareCode(d)
    PROVE  PairingInv'
<1> USE DEF PairingInv
<1> DEFINE fresh == now + TTL
<1>1. now \in Nat /\ TTL \in Nat /\ Grace \in Nat /\ fresh \in Nonce /\ now <= fresh + Grace
  BY PairingAssumption DEF TypeOK, Nonce
<1>2. /\ issued' = [issued EXCEPT ![d] = @ \cup {fresh}]
      /\ active' = [active EXCEPT ![d] = fresh]
      /\ stored' = [stored EXCEPT ![d] = Prune(@ \cup {fresh}, now)]
      /\ UNCHANGED <<now, contacts, known, echoes, failures, restarts,
                     seen, admitting, admitted, scannerVars>>
  BY DEF ShareCode
<1> HIDE DEF fresh
<1>3. TypeOK'
  <2>1. Prune(stored[d] \cup {fresh}, now) \subseteq Nonce
    BY <1>1, PruneKeeps DEF TypeOK
  <2>2. issued' \in [Device -> SUBSET Nonce] /\ stored' \in [Device -> SUBSET Nonce]
        /\ active' \in [Device -> Nonce \cup {None}]
    BY <1>1, <1>2, <2>1 DEF TypeOK
  <2> QED BY <1>2, <2>2 DEF TypeOK, scannerVars
<1>4. GraceKept'
  <2> SUFFICES ASSUME NEW q \in Device, NEW n \in issued'[q], now <= n + Grace
               PROVE  n \in stored'[q]
    BY <1>2 DEF GraceKept
  <2>1. CASE q # d
    BY <1>2, <2>1 DEF TypeOK, GraceKept
  <2>2. CASE q = d
    <3>1. n \in stored[d] \cup {fresh}
      BY <1>2, <2>2 DEF TypeOK, GraceKept
    <3> QED BY <1>2, <2>2, <3>1, PruneKeeps DEF TypeOK
  <2> QED BY <2>1, <2>2
<1>5. \A q \in Device : issued[q] \subseteq issued'[q]
  BY <1>2 DEF TypeOK
<1>6. Traced'
  BY <1>2, <1>5 DEF Traced, TypeOK, Intent, Call, Echo, scannerVars
<1>7. Acquainted'
  BY <1>2, AcquaintedUntouched
<1> QED BY <1>3, <1>4, <1>6, <1>7

(* Steps of the scanner leave the contacts and the issuer's side alone.            *)
LEMMA ScannerStep ==
    ASSUME PairingInv, IntentsInv', CallsInv', FlightsInv', named' \in [Device -> BOOLEAN],
           echoes \subseteq echoes', echoes' \subseteq Echo,
           \A e \in echoes' : e.nonce \in issued[e.to],
           failures' \in 0..MaxFailures,
           UNCHANGED <<now, contacts, known, restarts, issuerVars>>
    PROVE  PairingInv'
<1> USE DEF PairingInv
<1>1. TypeOK'
  BY DEF TypeOK, IntentsInv, CallsInv, FlightsInv, issuerVars
<1>2. Traced'
  BY DEF Traced, IntentsInv, CallsInv, FlightsInv, issuerVars
<1> QED BY <1>1, <1>2, GraceUntouched, AcquaintedUntouched DEF issuerVars

LEMMA PartsOfInv == PairingInv => IntentsInv /\ CallsInv /\ FlightsInv
BY DEF PairingInv, TypeOK, Traced, IntentsInv, CallsInv, FlightsInv

(* A call that is started works through traced intents.                           *)
LEMMA StartCallStep ==
    ASSUME PairingInv, NEW d \in Device, NEW todo \in SUBSET Intent, NEW nm \in BOOLEAN,
           \A i \in todo : i.nonce \in issued[i.of],
           StartCall(d, todo, nm), UNCHANGED <<flights, issued>>
    PROVE  CallsInv'
<1> DEFINE call == [todo |-> todo, awaits |-> None, at |-> now, named |-> nm]
<1>1. call \in Call
  BY DEF Call, PairingInv, TypeOK
<1>2. call.awaits = None /\ call.todo = todo
  OBVIOUS
<1>3. calls' = [calls EXCEPT ![d] = IF todo = {} THEN @ ELSE @ \cup {call}]
  BY DEF StartCall
<1> HIDE DEF call
<1> QED BY <1>1, <1>2, <1>3, PartsOfInv DEF CallsInv

(* A call goes on, with a run it now waits for or with none.                       *)
LEMMA SteppedStep ==
    ASSUME PairingInv, NEW d \in Device, NEW c \in calls[d], NEW i \in c.todo,
           NEW awaits \in Device \cup {None}, calls' = Stepped(d, c, i, awaits),
           awaits # None => flights'[d][awaits] # None,
           \A q, r \in Device : flights[q][r] # None => flights'[q][r] # None,
           UNCHANGED issued
    PROVE  CallsInv'
<1> DEFINE next == [c EXCEPT !.todo = @ \ {i}, !.awaits = awaits]
<1>1. c \in Call /\ CallsInv
  BY PartsOfInv DEF PairingInv, TypeOK
<1>2. next \in Call /\ next.awaits = awaits /\ next.todo \subseteq c.todo
  BY <1>1 DEF Call
<1>3. calls' = [calls EXCEPT ![d] = (@ \ {c}) \cup
                  (IF next.todo = {} /\ awaits = None THEN {} ELSE {next})]
  BY DEF Stepped
<1> HIDE DEF next
<1>4. calls' \in [Device -> SUBSET Call]
  BY <1>1, <1>2, <1>3 DEF CallsInv
<1>5. \A q \in Device : \A x \in calls'[q] : x \in calls[q] \/ (q = d /\ x = next)
  BY <1>1, <1>3 DEF CallsInv
<1>6. ASSUME NEW q \in Device, NEW x \in calls'[q]
      PROVE  /\ x.awaits # None => flights'[q][x.awaits] # None
             /\ \A j \in x.todo : j.nonce \in issued'[j.of]
  <2>1. CASE x \in calls[q]
    <3>1. x.awaits \in Device \cup {None}
      BY <1>1, <2>1 DEF CallsInv, Call
    <3> QED BY <1>1, <2>1, <3>1 DEF CallsInv
  <2>2. CASE q = d /\ x = next
    BY <1>1, <1>2, <2>2 DEF CallsInv
  <2> QED BY <1>5, <2>1, <2>2
<1> QED BY <1>4, <1>6 DEF CallsInv

(* The run of an issuer ends, and everyone who waited for it goes on.               *)
LEMMA ReturnedStep ==
    ASSUME PairingInv, NEW d \in Device, NEW p \in Device, calls' = Returned(d, p),
           flights' = [flights EXCEPT ![d][p] = None], UNCHANGED issued
    PROVE  CallsInv' /\ FlightsInv'
<1> DEFINE waiting == {c \in calls[d] : c.awaits = p}
           freed == {[c EXCEPT !.awaits = None] : c \in {w \in waiting : w.todo # {}}}
<1>1. CallsInv /\ FlightsInv /\ TypeOK
  BY PartsOfInv DEF PairingInv
<1>2. \A q, r \in Device : flights'[q][r] = IF q = d /\ r = p THEN None ELSE flights[q][r]
  BY <1>1, FlightEntry, SMTT(20), ZenonT(40)
<1>3. FlightsInv'
  BY <1>1, <1>2, FlightEntry DEF FlightsInv
<1>4. freed \subseteq Call
  BY <1>1 DEF CallsInv, Call
<1>5. \A x \in freed : x.awaits = None /\ \A j \in x.todo : j.nonce \in issued[j.of]
  BY <1>1 DEF CallsInv, Call
<1>6. calls' = [calls EXCEPT ![d] = (@ \ waiting) \cup freed]
  BY DEF Returned
<1> HIDE DEF freed
<1>7. calls' \in [Device -> SUBSET Call]
  BY <1>1, <1>4, <1>6 DEF CallsInv
<1>8. \A q \in Device : \A x \in calls'[q] :
         \/ x \in calls[q] /\ (q = d => x.awaits # p)
         \/ x \in freed
  BY <1>1, <1>6 DEF CallsInv
<1>9. ASSUME NEW q \in Device, NEW x \in calls'[q]
      PROVE  /\ x.awaits # None => flights'[q][x.awaits] # None
             /\ \A j \in x.todo : j.nonce \in issued'[j.of]
  <2>1. CASE x \in freed
    BY <1>5, <2>1
  <2>2. CASE x \in calls[q] /\ (q = d => x.awaits # p)
    <3>1. x.awaits \in Device \cup {None}
      BY <1>1, <2>2 DEF CallsInv, Call
    <3> QED BY <1>1, <1>2, <2>2, <3>1 DEF CallsInv
  <2> QED BY <1>8, <2>1, <2>2
<1> QED BY <1>3, <1>7, <1>9 DEF CallsInv

LEMMA ScanStep ==
    ASSUME PairingInv, NEW d \in Device, NEW p \in Device, NEW n \in issued[p], Scan(d, p, n)
    PROVE  PairingInv'
<1> USE DEF PairingInv
<1>1. n \in Nonce
  BY DEF TypeOK
<1>2. /\ contacts' \in [Device -> [Device -> Contact \cup {Absent}]]
      /\ known' \in [Device -> SUBSET Device]
      /\ Acquainted'
  <2>1. CASE UNCHANGED <<contacts, known>>
    BY <2>1, AcquaintedUntouched DEF TypeOK, Scan, issuerVars
  <2>2. CASE /\ known' = [known EXCEPT ![d] = @ \cup {p}]
             /\ contacts' = [contacts EXCEPT ![d][p] = [pending |-> FALSE, archived |-> FALSE]]
    <3> DEFINE fresh == [pending |-> FALSE, archived |-> FALSE]
    <3>1. fresh \in Contact
      BY DEF Contact
    <3>2. fresh # Absent
      BY <3>1, NoncesAreNumbers
    <3>3. contacts' = [contacts EXCEPT ![d][p] = fresh]
      BY <2>2
    <3>4. TypeOK
      OBVIOUS
    <3> HIDE DEF fresh, PairingInv
    <3>5. /\ contacts' \in [Device -> [Device -> Contact \cup {Absent}]]
          /\ \A q, r \in Device :
               contacts'[q][r] = IF q = d /\ r = p THEN fresh ELSE contacts[q][r]
      BY <3>1, <3>3, <3>4, ContactEntry, SMTT(20), ZenonT(40)
    <3>6. /\ known' \in [Device -> SUBSET Device] /\ p \in known'[d]
          /\ \A q \in Device : known[q] \subseteq known'[q]
      BY <2>2, <3>4 DEF TypeOK
    <3>7. UNCHANGED admitted
      BY DEF Scan, issuerVars
    <3> QED BY <3>2, <3>4, <3>5, <3>6, <3>7 DEF PairingInv, Acquainted, TypeOK
  <2> QED BY <2>1, <2>2 DEF Scan
<1>4. GraceKept'
  BY GraceUntouched DEF Scan, issuerVars
<1>5. /\ UNCHANGED <<now, named, flights, echoes, failures, restarts, issuerVars>>
      /\ \/ /\ intents' = [intents EXCEPT ![d][p] = n]
            /\ StartCall(d, {[of |-> p, nonce |-> n]}, named[d])
         \/ UNCHANGED <<intents, calls>>
  BY DEF Scan
<1>6. IntentsInv'
  <2>1. CASE intents' = [intents EXCEPT ![d][p] = n]
    BY <1>1, <1>5, <2>1, IntentEntry, PartsOfInv DEF IntentsInv, issuerVars
  <2>2. CASE UNCHANGED intents
    BY <1>5, <2>2, PartsOfInv DEF IntentsInv, issuerVars
  <2> QED BY <1>5, <2>1, <2>2
<1>7. CallsInv' /\ FlightsInv'
  <2>1. CASE StartCall(d, {[of |-> p, nonce |-> n]}, named[d])
    <3>1. {[of |-> p, nonce |-> n]} \in SUBSET Intent
      BY <1>1 DEF Intent
    <3>2. \A i \in {[of |-> p, nonce |-> n]} : i.nonce \in issued[i.of]
      OBVIOUS
    <3> QED BY <2>1, <3>1, <3>2, <1>5, StartCallStep, PartsOfInv, SMTT(20), ZenonT(40) DEF TypeOK, FlightsInv, issuerVars
  <2>2. CASE UNCHANGED <<intents, calls>>
    BY <1>5, <2>2, PartsOfInv DEF CallsInv, FlightsInv, issuerVars
  <2> QED BY <1>5, <2>1, <2>2
<1>8. TypeOK'
  BY <1>2, <1>5, <1>6, <1>7 DEF TypeOK, IntentsInv, CallsInv, FlightsInv, issuerVars
<1>9. Traced'
  BY <1>5, <1>6, <1>7 DEF Traced, IntentsInv, CallsInv, FlightsInv, issuerVars
<1> QED BY <1>2, <1>4, <1>8, <1>9

(* A drain, with or without a first name.                                         *)
LEMMA DrainStep ==
    ASSUME PairingInv, NEW d \in Device, NEW nm \in BOOLEAN, StartCall(d, Held(d), nm),
           named' \in [Device -> BOOLEAN],
           UNCHANGED <<now, contacts, known, intents, flights, echoes,
                       failures, restarts, issuerVars>>
    PROVE  PairingInv'
<1>1. CallsInv'
  BY HeldIsTraced, StartCallStep DEF PairingInv, issuerVars
<1>2. IntentsInv' /\ FlightsInv'
  BY PartsOfInv DEF IntentsInv, FlightsInv, issuerVars
<1> QED BY <1>1, <1>2, ScannerStep DEF PairingInv, TypeOK, Traced, issuerVars

LEMMA ProcessIntentStep ==
    ASSUME PairingInv, NEW d \in Device, NEW c \in calls[d], NEW i \in c.todo,
           ProcessIntent(d, c, i)
    PROVE  PairingInv'
<1> DEFINE Runs(stage) == flights' = [flights EXCEPT ![d][i.of] = [nonce |-> i.nonce, stage |-> stage]]
<1>1. i \in Intent /\ i.of \in Device /\ i.nonce \in Nonce /\ i.nonce \in issued[i.of]
  BY PartsOfInv DEF PairingInv, TypeOK, Call, Intent, CallsInv
<1>2. UNCHANGED <<now, contacts, known, named, echoes, failures, restarts, issuerVars>>
  BY DEF ProcessIntent
<1>3. ASSUME NEW stage \in Stage, Runs(stage), flights[d][i.of] = None,
             calls' = Stepped(d, c, i, i.of)
      PROVE  CallsInv' /\ FlightsInv'
  <2> DEFINE x == [nonce |-> i.nonce, stage |-> stage]
  <2>1. x \in Flight /\ x.nonce = i.nonce
    BY <1>1 DEF Flight
  <2>2. x # None
    BY <2>1, NoncesAreNumbers
  <2>3. flights' = [flights EXCEPT ![d][i.of] = x]
    BY <1>3
  <2> HIDE DEF x
  <2>4. /\ flights' \in [Device -> [Device -> Flight \cup {None}]]
        /\ \A q, r \in Device :
             flights'[q][r] = IF q = d /\ r = i.of THEN x ELSE flights[q][r]
    BY <1>1, <2>1, <2>3, FlightEntry, SMTT(20), ZenonT(40) DEF PairingInv
  <2>5. FlightsInv'
    BY <1>1, <1>2, <2>1, <2>4, PartsOfInv DEF FlightsInv, issuerVars
  <2>6. CallsInv'
    BY <1>1, <1>2, <1>3, <2>2, <2>4, SteppedStep DEF issuerVars
  <2> QED BY <2>5, <2>6
<1>4. CASE flights[d][i.of] # None /\ calls' = Stepped(d, c, i, i.of) /\ UNCHANGED <<intents, flights>>
  <2>1. CallsInv'
    BY <1>1, <1>2, <1>4, SteppedStep DEF issuerVars
  <2>2. IntentsInv' /\ FlightsInv'
    BY <1>2, <1>4, PartsOfInv DEF IntentsInv, FlightsInv, issuerVars
  <2> QED BY <1>2, <2>1, <2>2, ScannerStep DEF PairingInv, TypeOK, Traced, issuerVars
<1>5. CASE /\ flights[d][i.of] = None /\ Runs("closing")
           /\ intents' = [intents EXCEPT ![d][i.of] = None]
           /\ calls' = Stepped(d, c, i, i.of)
  <2>1. CallsInv' /\ FlightsInv'
    BY <1>3, <1>5 DEF Stage
  <2>2. IntentsInv'
    BY <1>1, <1>2, <1>5, IntentEntry, PartsOfInv DEF PairingInv, IntentsInv, issuerVars
  <2> QED BY <1>2, <2>1, <2>2, ScannerStep DEF PairingInv, TypeOK, Traced, issuerVars
<1>6. CASE calls' = Stepped(d, c, i, None) /\ UNCHANGED <<intents, flights>>
  <2>1. CallsInv'
    BY <1>1, <1>2, <1>6, SteppedStep DEF issuerVars
  <2>2. IntentsInv' /\ FlightsInv'
    BY <1>2, <1>6, PartsOfInv DEF IntentsInv, FlightsInv, issuerVars
  <2> QED BY <1>2, <2>1, <2>2, ScannerStep DEF PairingInv, TypeOK, Traced, issuerVars
<1>7. CASE /\ flights[d][i.of] = None /\ Runs("connecting")
           /\ calls' = Stepped(d, c, i, i.of) /\ UNCHANGED intents
  <2>1. CallsInv' /\ FlightsInv'
    BY <1>3, <1>7 DEF Stage
  <2>2. IntentsInv'
    BY <1>2, <1>7, PartsOfInv DEF IntentsInv, issuerVars
  <2> QED BY <1>2, <2>1, <2>2, ScannerStep DEF PairingInv, TypeOK, Traced, issuerVars
<1> QED BY <1>4, <1>5, <1>6, <1>7 DEF ProcessIntent

(* A run goes on to its next stage: nobody who waits for it is affected.            *)
LEMMA ReplacedRun ==
    ASSUME PairingInv, NEW d \in Device, NEW p \in Device, NEW x \in Flight,
           flights[d][p] # None, x.nonce = flights[d][p].nonce,
           flights' = [flights EXCEPT ![d][p] = x], UNCHANGED <<calls, issued>>
    PROVE  CallsInv' /\ FlightsInv'
<1>1. CallsInv /\ FlightsInv /\ TypeOK /\ x # None
  BY PartsOfInv, NoncesAreNumbers DEF PairingInv
<1>2. x \in Flight \cup {None}
  OBVIOUS
<1>3. /\ flights' \in [Device -> [Device -> Flight \cup {None}]]
      /\ \A q, r \in Device : flights'[q][r] = IF q = d /\ r = p THEN x ELSE flights[q][r]
  BY <1>1, <1>2, FlightEntry
<1>4. FlightsInv'
  BY <1>1, <1>3 DEF FlightsInv
<1>5. ASSUME NEW q \in Device, NEW c \in calls[q], c.awaits # None
      PROVE  flights'[q][c.awaits] # None
  <2>1. c.awaits \in Device
    BY <1>1, <1>5 DEF CallsInv, Call
  <2> QED BY <1>1, <1>3, <1>5, <2>1 DEF CallsInv
<1> QED BY <1>1, <1>4, <1>5 DEF CallsInv

LEMMA NextStageStep ==
    ASSUME PairingInv, NEW d \in Device, NEW p \in Device, NEW stage \in Stage,
           flights[d][p] # None, flights' = [flights EXCEPT ![d][p].stage = stage],
           UNCHANGED <<calls, issued>>
    PROVE  CallsInv' /\ FlightsInv'
<1> DEFINE x == [flights[d][p] EXCEPT !.stage = stage]
<1>1. flights[d][p] \in Flight /\ FlightsInv
  BY PartsOfInv DEF PairingInv, TypeOK
<1>2. x \in Flight /\ x.nonce = flights[d][p].nonce
  BY <1>1 DEF Flight
<1>3. flights' = [flights EXCEPT ![d][p] = x]
  BY <1>1 DEF FlightsInv
<1> HIDE DEF x
<1> QED BY <1>2, <1>3, ReplacedRun

LEMMA PublishEchoStep ==
    ASSUME PairingInv, NEW d \in Device, NEW p \in Device, PublishEcho(d, p)
    PROVE  PairingInv'
<1>1. /\ flights[d][p] # None /\ echoes' = Sent(d, p)
      /\ flights' = [flights EXCEPT ![d][p].stage = "published"]
      /\ UNCHANGED <<now, contacts, known, named, intents, calls, failures, restarts, issuerVars>>
  BY DEF PublishEcho
<1>2. CallsInv' /\ FlightsInv'
  BY <1>1, NextStageStep DEF Stage, issuerVars
<1>3. IntentsInv'
  BY <1>1, PartsOfInv DEF IntentsInv, issuerVars
<1>4. echoes \subseteq echoes' /\ echoes' \subseteq Echo /\ \A e \in echoes' : e.nonce \in issued[e.to]
  BY <1>1, SentType DEF PairingInv
<1> QED BY <1>1, <1>2, <1>3, <1>4, ScannerStep DEF PairingInv, TypeOK

LEMMA SendFailsStep ==
    ASSUME PairingInv, NEW d \in Device, NEW p \in Device, SendFails(d, p)
    PROVE  PairingInv'
<1>1. /\ flights[d][p] # None /\ failures' = failures + 1 /\ failures < MaxFailures
      /\ echoes' = echoes \/ echoes' = Sent(d, p)
      /\ flights' = [flights EXCEPT ![d][p] = None] /\ calls' = Returned(d, p)
      /\ UNCHANGED <<now, contacts, known, named, intents, restarts, issuerVars>>
  BY DEF SendFails, AfterFailure
<1>2. CallsInv' /\ FlightsInv'
  BY <1>1, ReturnedStep DEF issuerVars
<1>3. IntentsInv'
  BY <1>1, PartsOfInv DEF IntentsInv, issuerVars
<1>4. echoes \subseteq echoes' /\ echoes' \subseteq Echo /\ \A e \in echoes' : e.nonce \in issued[e.to]
  BY <1>1, SentType DEF PairingInv, TypeOK, Traced
<1>5. failures' \in 0..MaxFailures
  BY <1>1, PairingAssumption DEF PairingInv, TypeOK
<1> QED BY <1>1, <1>2, <1>3, <1>4, <1>5, ScannerStep DEF PairingInv, TypeOK

LEMMA DeleteIntentStep ==
    ASSUME PairingInv, NEW d \in Device, NEW p \in Device, DeleteIntent(d, p)
    PROVE  PairingInv'
<1>1. /\ flights[d][p] # None /\ intents' = [intents EXCEPT ![d][p] = None]
      /\ flights' = [flights EXCEPT ![d][p].stage = "closing"]
      /\ UNCHANGED <<now, contacts, known, named, calls, echoes, failures, restarts, issuerVars>>
  BY DEF DeleteIntent
<1>2. CallsInv' /\ FlightsInv'
  BY <1>1, NextStageStep DEF Stage, issuerVars
<1>3. IntentsInv'
  BY <1>1, IntentEntry, PartsOfInv DEF PairingInv, IntentsInv, issuerVars
<1> QED BY <1>1, <1>2, <1>3, ScannerStep DEF PairingInv, TypeOK, Traced

LEMMA EndFlightStep ==
    ASSUME PairingInv, NEW d \in Device, NEW p \in Device, EndFlight(d, p)
    PROVE  PairingInv'
<1>1. /\ flights' = [flights EXCEPT ![d][p] = None] /\ calls' = Returned(d, p)
      /\ UNCHANGED <<now, contacts, known, named, intents, echoes, failures, restarts, issuerVars>>
  BY DEF EndFlight
<1>2. CallsInv' /\ FlightsInv'
  BY <1>1, ReturnedStep DEF issuerVars
<1>3. IntentsInv'
  BY <1>1, PartsOfInv DEF IntentsInv, issuerVars
<1> QED BY <1>1, <1>2, <1>3, ScannerStep DEF PairingInv, TypeOK, Traced

(* The sender of an echo becomes a contact, or stays the one it was.                *)
LEMMA RememberPendingType ==
    ASSUME PairingInv, NEW d \in Device, NEW p \in Device,
           contacts' = RememberPending(d, p)
    PROVE  /\ contacts' \in [Device -> [Device -> Contact \cup {Absent}]]
           /\ \A q, r \in Device : ~(q = d /\ r = p) => contacts'[q][r] = contacts[q][r]
           /\ contacts[d][p] # Absent => contacts'[d][p] = contacts[d][p]
           /\ contacts'[d][p] # Absent
<1> DEFINE fresh == [pending |-> TRUE, archived |-> FALSE]
<1>1. fresh \in Contact
  BY DEF Contact
<1>2. fresh # Absent
  BY <1>1, NoncesAreNumbers
<1>3. CASE contacts[d][p] # Absent
  BY <1>3 DEF PairingInv, TypeOK, RememberPending
<1>4. CASE contacts[d][p] = Absent
  <2>1. contacts' = [contacts EXCEPT ![d][p] = fresh]
    BY <1>4 DEF RememberPending
  <2> HIDE DEF fresh
  <2>2. TypeOK /\ fresh \in Contact
    BY <1>1 DEF PairingInv
  <2>3. /\ contacts' \in [Device -> [Device -> Contact \cup {Absent}]]
        /\ \A q, r \in Device :
             contacts'[q][r] = IF q = d /\ r = p THEN fresh ELSE contacts[q][r]
    BY <2>1, <2>2 DEF TypeOK
  <2> QED BY <1>2, <1>4, <2>3
<1> QED BY <1>3, <1>4

LEMMA HandlePairingAckStep ==
    ASSUME PairingInv, NEW d \in Device, NEW e \in echoes, HandlePairingAck(d, e)
    PROVE  PairingInv'
<1> USE DEF PairingInv
<1>1. /\ stored' = [stored EXCEPT ![d] = Prune(@, now)]
      /\ UNCHANGED <<now, issued, active, echoes, failures, restarts, scannerVars>>
  BY DEF HandlePairingAck
<1>2. e \in Echo /\ e.from \in Device
  BY DEF TypeOK, Echo
<1>3. stored' \in [Device -> SUBSET Nonce]
  BY <1>1, PruneKeeps DEF TypeOK
<1>4. GraceKept'
  <2> SUFFICES ASSUME NEW q \in Device, NEW n \in issued[q], now <= n + Grace
               PROVE  n \in stored'[q]
    BY <1>1 DEF GraceKept
  <2>1. n \in stored[q]
    BY DEF GraceKept
  <2> QED BY <1>1, <2>1, PruneKeeps DEF TypeOK
<1>5. Traced'
  BY <1>1, TracedUntouched DEF scannerVars
<1>6. CASE /\ seen' = [seen EXCEPT ![d] = @ \cup {e}]
           /\ UNCHANGED <<contacts, known, admitting, admitted>>
  <2>1. TypeOK'
    BY <1>1, <1>3, <1>6 DEF TypeOK, scannerVars
  <2> QED BY <1>4, <1>5, <1>6, <2>1, AcquaintedUntouched
<1>7. CASE /\ known' = [known EXCEPT ![d] = @ \cup {e.from}]
           /\ contacts' = RememberPending(d, e.from)
           /\ admitted' = [admitted EXCEPT ![d] = @ \cup {e.from}]
           /\ admitting' = [admitting EXCEPT ![d] = @ \cup {e}]
           /\ UNCHANGED seen
  <2>1. /\ contacts' \in [Device -> [Device -> Contact \cup {Absent}]]
        /\ \A q, r \in Device : ~(q = d /\ r = e.from) => contacts'[q][r] = contacts[q][r]
        /\ contacts'[d][e.from] # Absent
    BY <1>2, <1>7, RememberPendingType
  <2>2. /\ known' \in [Device -> SUBSET Device] /\ admitted' \in [Device -> SUBSET Device]
        /\ admitting' \in [Device -> SUBSET echoes]
    BY <1>2, <1>7 DEF TypeOK
  <2>3. TypeOK'
    BY <1>1, <1>3, <1>7, <2>1, <2>2 DEF TypeOK, scannerVars
  <2>4. ASSUME NEW q \in Device, NEW r \in Device, contacts'[q][r] # Absent
        PROVE  r \in known'[q]
    BY <1>2, <1>7, <2>1, <2>4 DEF TypeOK, Acquainted
  <2>5. ASSUME NEW q \in Device, NEW r \in admitted'[q] PROVE contacts'[q][r] # Absent
    <3>1. (r \in admitted[q] \/ (q = d /\ r = e.from)) /\ r \in Device
      BY <1>2, <1>7 DEF TypeOK
    <3> QED BY <2>1, <3>1 DEF Acquainted
  <2> QED BY <1>4, <1>5, <2>3, <2>4, <2>5 DEF Acquainted
<1> QED BY <1>6, <1>7 DEF HandlePairingAck

LEMMA MarkProcessedStep ==
    ASSUME PairingInv, NEW d \in Device, NEW e \in echoes, MarkProcessed(d, e)
    PROVE  PairingInv'
<1> USE DEF PairingInv
<1>1. /\ admitting' = [admitting EXCEPT ![d] = @ \ {e}]
      /\ seen' = [seen EXCEPT ![d] = @ \cup {e}]
      /\ UNCHANGED <<now, contacts, known, issued, active, stored, admitted, echoes,
                     failures, restarts, scannerVars>>
  BY DEF MarkProcessed
<1>2. TypeOK'
  BY <1>1 DEF TypeOK, scannerVars
<1> QED BY <1>1, <1>2, GraceUntouched, AcquaintedUntouched, TracedUntouched DEF scannerVars

(* A decision of the user about a contact.                                         *)
LEMMA DecisionStep ==
    ASSUME PairingInv, NEW d \in Device, NEW p \in Device, contacts[d][p] # Absent,
           NEW x \in Contact, contacts' = [contacts EXCEPT ![d][p] = x],
           UNCHANGED <<now, known, echoes, failures, restarts, issuerVars, scannerVars>>
    PROVE  PairingInv'
<1> USE DEF PairingInv
<1>1. x # Absent
  BY NoncesAreNumbers
<1>2. /\ contacts' \in [Device -> [Device -> Contact \cup {Absent}]]
      /\ \A q, r \in Device : contacts'[q][r] = IF q = d /\ r = p THEN x ELSE contacts[q][r]
  BY DEF TypeOK
<1>3. \A q, r \in Device : contacts'[q][r] # Absent <=> contacts[q][r] # Absent
  BY <1>1, <1>2
<1>4. TypeOK'
  BY <1>2 DEF TypeOK, issuerVars, scannerVars
<1>5. Acquainted'
  BY <1>3 DEF TypeOK, Acquainted, issuerVars
<1> QED BY <1>4, <1>5, GraceUntouched, TracedUntouched DEF issuerVars, scannerVars

(* ConfirmContact, BlockContact and UnblockContact rewrite one field.               *)
LEMMA ChangedContact ==
    ASSUME PairingInv, NEW d \in Device, NEW p \in Device, contacts[d][p] # Absent,
           NEW b \in BOOLEAN
    PROVE  /\ [contacts[d][p] EXCEPT !.pending = b] \in Contact
           /\ [contacts[d][p] EXCEPT !.archived = b] \in Contact
           /\ [contacts EXCEPT ![d][p].pending = b] =
                 [contacts EXCEPT ![d][p] = [contacts[d][p] EXCEPT !.pending = b]]
           /\ [contacts EXCEPT ![d][p].archived = b] =
                 [contacts EXCEPT ![d][p] = [contacts[d][p] EXCEPT !.archived = b]]
<1>1. contacts[d][p] \in Contact
  BY DEF PairingInv, TypeOK
<1>2. /\ [contacts[d][p] EXCEPT !.pending = b] \in Contact
      /\ [contacts[d][p] EXCEPT !.archived = b] \in Contact
  BY <1>1 DEF Contact
<1> QED BY <1>2 DEF PairingInv, TypeOK

LEMMA DecisionsStep ==
    ASSUME PairingInv, NEW d \in Device, NEW p \in Device,
           ConfirmContact(d, p) \/ BlockContact(d, p) \/ UnblockContact(d, p)
    PROVE  PairingInv'
<1>1. CASE ConfirmContact(d, p)
  BY <1>1, ChangedContact, DecisionStep DEF ConfirmContact
<1>2. CASE BlockContact(d, p)
  BY <1>2, ChangedContact, DecisionStep DEF BlockContact
<1>3. CASE UnblockContact(d, p)
  BY <1>3, ChangedContact, DecisionStep DEF UnblockContact, IsBlocked
<1> QED BY <1>1, <1>2, <1>3

LEMMA RestartStep ==
    ASSUME PairingInv, NEW d \in Device, Restart(d)
    PROVE  PairingInv'
<1> USE DEF PairingInv
<1> DEFINE drain == [todo |-> Held(d), awaits |-> None, at |-> now, named |-> named[d]]
<1>1. /\ restarts < MaxRestarts /\ restarts' = restarts + 1
      /\ active' = [active EXCEPT ![d] = None]
      /\ admitted' = [admitted EXCEPT ![d] = {}]
      /\ admitting' = [admitting EXCEPT ![d] = {}]
      /\ flights' = [flights EXCEPT ![d] = [p \in Device |-> None]]
      /\ contacts' = [contacts EXCEPT ![d] = Purged(d)]
      /\ calls' = [calls EXCEPT ![d] = IF Held(d) = {} THEN {} ELSE {drain}]
      /\ UNCHANGED <<now, issued, stored, known, named, intents, echoes, seen, failures>>
  BY DEF Restart
<1>2. contacts' = contacts
  <2>1. Purged(d) = contacts[d]
    BY DEF Purged, TypeOK, Acquainted
  <2> QED BY <1>1, <2>1 DEF TypeOK
<1>3. drain \in Call /\ drain.awaits = None /\ drain.todo = Held(d)
  BY HeldIsTraced DEF Call, TypeOK
<1> HIDE DEF drain
<1>4. FlightsInv'
  BY <1>1, PartsOfInv DEF FlightsInv
<1>5. CallsInv'
  <2>1. calls' \in [Device -> SUBSET Call]
    BY <1>1, <1>3, PartsOfInv DEF CallsInv
  <2>2. ASSUME NEW q \in Device, NEW c \in calls'[q]
        PROVE  /\ c.awaits # None => flights'[q][c.awaits] # None
               /\ \A i \in c.todo : i.nonce \in issued[i.of]
    <3>1. CASE q = d
      <4>1. c = drain
        BY <1>1, <2>2, <3>1, PartsOfInv DEF CallsInv
      <4> QED BY <1>3, <4>1, HeldIsTraced
    <3>2. CASE q # d
      BY <1>1, <3>2, PartsOfInv DEF CallsInv, FlightsInv
    <3> QED BY <3>1, <3>2
  <2> QED BY <1>1, <2>1, <2>2 DEF CallsInv
<1>6. IntentsInv'
  BY <1>1, PartsOfInv DEF IntentsInv
<1>7. restarts' \in 0..MaxRestarts
  BY <1>1, PairingAssumption DEF TypeOK
<1>8. TypeOK'
  <2>1. /\ active' \in [Device -> Nonce \cup {None}]
        /\ admitted' \in [Device -> SUBSET Device]
        /\ admitting' \in [Device -> SUBSET echoes]
    BY <1>1 DEF TypeOK
  <2>2. UNCHANGED <<now, issued, stored, known, named, echoes, seen, failures, contacts>>
    BY <1>1, <1>2
  <2>3. /\ flights' \in [Device -> [Device -> Flight \cup {None}]]
        /\ calls' \in [Device -> SUBSET Call]
        /\ intents' \in [Device -> [Device -> Nonce \cup {None}]]
        /\ \A q \in Device : \A c \in calls'[q] : c.awaits # None => flights'[q][c.awaits] # None
    BY <1>4, <1>5, <1>6 DEF FlightsInv, CallsInv, IntentsInv
  <2> QED BY <1>7, <2>1, <2>2, <2>3 DEF TypeOK
<1>9. Traced'
  BY <1>1, <1>4, <1>5, <1>6 DEF Traced, FlightsInv, CallsInv, IntentsInv
<1>10. Acquainted'
  BY <1>1, <1>2 DEF Acquainted, TypeOK
<1> QED BY <1>1, <1>8, <1>9, <1>10, GraceUntouched

LEMMA TickStep ==
    ASSUME PairingInv, Tick
    PROVE  PairingInv'
<1> USE DEF PairingInv
<1>1. /\ now' \in 0..MaxClock /\ now' = now + 1
      /\ UNCHANGED <<contacts, known, echoes, failures, restarts, issuerVars, scannerVars>>
  BY PairingAssumption DEF Tick, TypeOK
<1>2. TypeOK'
  BY <1>1 DEF TypeOK, issuerVars, scannerVars
<1>3. GraceKept'
  <2> SUFFICES ASSUME NEW d \in Device, NEW n \in issued[d], now' <= n + Grace
               PROVE  n \in stored[d]
    BY <1>1 DEF GraceKept, issuerVars
  <2>1. n \in Nat /\ now \in Nat /\ Grace \in Nat
    BY PairingAssumption, NoncesAreNumbers DEF TypeOK
  <2>2. now <= n + Grace
    BY <1>1, <2>1
  <2> QED BY <2>2 DEF GraceKept
<1> QED BY <1>1, <1>2, <1>3, AcquaintedUntouched, TracedUntouched DEF issuerVars, scannerVars

LEMMA NextPairing == PairingInv /\ [Next]_vars => PairingInv'
<1> SUFFICES ASSUME PairingInv, [Next]_vars PROVE PairingInv'
  OBVIOUS
<1>1. CASE Tick
  BY <1>1, TickStep
<1>2. ASSUME NEW d \in Device, ShareCode(d) \/ Drain(d) \/ SetName(d) \/ Restart(d)
      PROVE  PairingInv'
  <2>1. CASE Drain(d)
    BY <2>1, DrainStep DEF Drain, PairingInv, TypeOK
  <2>2. CASE SetName(d)
    <3>1. named' \in [Device -> BOOLEAN]
      BY <2>2 DEF SetName, PairingInv, TypeOK
    <3> QED BY <2>2, <3>1, DrainStep DEF SetName
  <2> QED BY <1>2, <2>1, <2>2, ShareCodeStep, RestartStep
<1>3. ASSUME NEW d \in Device, Calls(d) PROVE PairingInv'
  BY <1>3, ProcessIntentStep DEF Calls
<1>4. ASSUME NEW d \in Device, Flies(d) PROVE PairingInv'
  BY <1>4, PublishEchoStep, DeleteIntentStep, EndFlightStep DEF Flies
<1>5. ASSUME NEW d \in Device, Reads(d) PROVE PairingInv'
  BY <1>5, HandlePairingAckStep, MarkProcessedStep DEF Reads
<1>6. ASSUME NEW d \in Device, NEW p \in Device,
             \/ \E n \in issued[p] : Scan(d, p, n)
             \/ SendFails(d, p)
             \/ ConfirmContact(d, p) \/ BlockContact(d, p) \/ UnblockContact(d, p)
      PROVE  PairingInv'
  BY <1>6, ScanStep, SendFailsStep, DecisionsStep
<1>7. CASE UNCHANGED vars
  <2>1. UNCHANGED <<now, issued, active, stored, contacts, known, named, intents, calls,
                    flights, echoes, seen, admitting, admitted, failures, restarts>>
    BY <1>7 DEF vars, issuerVars, scannerVars
  <2>2. TypeOK'
    BY <2>1 DEF PairingInv, TypeOK
  <2> QED BY <2>1, <2>2, GraceUntouched, AcquaintedUntouched, TracedUntouched DEF PairingInv
<1> QED BY <1>1, <1>2, <1>3, <1>4, <1>5, <1>6, <1>7 DEF Next

-----------------------------------------------------------------------------
(* The theorems                                                                *)

(* Every reachable state satisfies the inductive invariant: every nonce an echo,   *)
(* a run, a call or a stored intent carries is one its issuer has shown.            *)
THEOREM PairingInvariant == Spec => []PairingInv
<1>1. Init => PairingInv
  BY InitPairing
<1>2. PairingInv /\ [Next]_vars => PairingInv'
  BY NextPairing
<1> QED BY <1>1, <1>2, PTL DEF Spec

(* The stores, the calls and the runs keep their types, and a call only waits for  *)
(* a run that is there: attemptOrQueuePairingEcho and drainPendingIntents return.    *)
THEOREM TypeCorrect == Spec => []TypeOK
<1>1. PairingInv => TypeOK
  BY DEF PairingInv
<1> QED BY <1>1, PairingInvariant, PTL

(* A code that was shown keeps admitting until its grace ends (pruneExpiredNonces,  *)
(* getOwnShareCard).                                                             *)
THEOREM CodesKeepTheirGrace == Spec => []GraceKept
<1>1. PairingInv => GraceKept
  BY DEF PairingInv
<1> QED BY <1>1, PairingInvariant, PTL

-----------------------------------------------------------------------------
(* Only its own handler handles an echo, and decides by the clock alone.            *)
LEMMA HandledByItsHandler ==
    ASSUME PairingInv, [Next]_vars, NEW d \in Device, NEW e \in echoes, Handled(d, e)
    PROVE  HandlePairingAck(d, e)
<1> USE DEF PairingInv
<1>1. /\ seen \in [Device -> SUBSET echoes] /\ admitting \in [Device -> SUBSET echoes]
      /\ ~UNCHANGED <<seen, admitting>>
  BY DEF Handled, TypeOK
<1>2. \/ \E q \in Device : Restart(q)
      \/ \E q \in Device : Reads(q)
  <2>1. ~UNCHANGED vars /\ ~Tick
    BY <1>1 DEF vars, issuerVars, Tick
  <2>2. ASSUME NEW q \in Device
        PROVE  ~ShareCode(q) /\ ~Drain(q) /\ ~SetName(q)
    BY <1>1 DEF issuerVars, ShareCode, Drain, SetName
  <2>3. ASSUME NEW q \in Device PROVE ~Calls(q)
    BY <1>1 DEF issuerVars, Calls, ProcessIntent
  <2>4. ASSUME NEW q \in Device PROVE ~Flies(q)
    BY <1>1 DEF issuerVars, Flies, PublishEcho, DeleteIntent, EndFlight
  <2>5. ASSUME NEW q \in Device, NEW r \in Device
        PROVE  /\ \A n \in issued[r] : ~Scan(q, r, n)
               /\ ~SendFails(q, r) /\ ~ConfirmContact(q, r)
               /\ ~BlockContact(q, r) /\ ~UnblockContact(q, r)
    BY <1>1 DEF issuerVars, Scan, SendFails, ConfirmContact, BlockContact, UnblockContact
  <2> QED BY <2>1, <2>2, <2>3, <2>4, <2>5 DEF Next
<1>3. ASSUME NEW q \in Device, Restart(q) PROVE FALSE
  BY <1>1, <1>3 DEF Restart, Handled
<1>4. PICK q \in Device : Reads(q)
  BY <1>2, <1>3
<1>5. PICK x \in echoes : HandlePairingAck(q, x) \/ MarkProcessed(q, x)
  BY <1>4 DEF Reads
<1>6. ~MarkProcessed(q, x)
  BY <1>1 DEF MarkProcessed, Handled
<1>7. q = d /\ x = e
  BY <1>1, <1>5, <1>6 DEF HandlePairingAck, Handled
<1> QED BY <1>5, <1>6, <1>7

LEMMA AdmissionDecides ==
    ASSUME PairingInv, NEW d \in Device, NEW e \in echoes, HandlePairingAck(d, e)
    PROVE  IF now <= e.nonce + Grace
             THEN e.from \in known'[d] /\ contacts'[d][e.from] # Absent
             ELSE contacts'[d] = contacts[d] /\ known'[d] = known[d]
<1> USE DEF PairingInv
<1>1. e \in Echo /\ e.to = d /\ e.from \in Device /\ e.nonce \in issued[d]
  BY DEF TypeOK, Echo, Traced, HandlePairingAck
<1>2. stored' = [stored EXCEPT ![d] = Prune(@, now)]
  BY DEF HandlePairingAck
<1>3. Admissible(e.nonce, stored'[d], now) <=> now <= e.nonce + Grace
  BY <1>1, <1>2, PruneKeeps DEF Admissible, GraceKept, TypeOK
<1>4. CASE Admissible(e.nonce, stored'[d], now) /\ e.from \notin admitted[d]
  <2>1. /\ known' = [known EXCEPT ![d] = @ \cup {e.from}]
        /\ contacts' = RememberPending(d, e.from)
    BY <1>4 DEF HandlePairingAck
  <2>2. contacts'[d][e.from] # Absent
    BY <1>1, <2>1, RememberPendingType
  <2>3. e.from \in known'[d]
    BY <2>1 DEF TypeOK
  <2> QED BY <1>3, <1>4, <2>2, <2>3
<1>5. CASE ~Admissible(e.nonce, stored'[d], now) \/ e.from \in admitted[d]
  <2>1. UNCHANGED <<contacts, known>>
    BY <1>5 DEF HandlePairingAck
  <2>2. e.from \in admitted[d] => e.from \in known[d] /\ contacts[d][e.from] # Absent
    BY <1>1 DEF Acquainted
  <2> QED BY <1>3, <1>5, <2>1, <2>2
<1> QED BY <1>4, <1>5

(* An echo that comes within the grace of its nonce makes the scanner a contact and *)
(* a known peer, and a later one changes nothing (handlePairingAck), whatever was    *)
(* sent twice, handled before or forgotten by a page load.                         *)
THEOREM EchoesAdmitInTime == Spec => AdmittedExactlyInTime
<1>1. PairingInv /\ [Next]_vars =>
        \A d \in Device : \A e \in echoes : Handled(d, e) =>
          IF now <= e.nonce + Grace
            THEN e.from \in known'[d] /\ contacts'[d][e.from] # Absent
            ELSE contacts'[d] = contacts[d] /\ known'[d] = known[d]
  BY HandledByItsHandler, AdmissionDecides
<1> QED BY <1>1, PairingInvariant, PTL DEF Spec, AdmittedExactlyInTime

-----------------------------------------------------------------------------
(* What may happen to a contact in one step.                                       *)
Kept(d, p) ==
    /\ contacts'[d][p] # Absent
    /\ contacts'[d][p].pending => contacts[d][p].pending
    /\ contacts[d][p].archived => contacts'[d][p].archived \/ UnblockContact(d, p)

LEMMA KeptByDecisions ==
    ASSUME PairingInv, NEW q \in Device, NEW r \in Device,
           ConfirmContact(q, r) \/ BlockContact(q, r) \/ UnblockContact(q, r),
           NEW d \in Device, NEW p \in Device, contacts[d][p] # Absent
    PROVE  Kept(d, p)
<1>1. contacts \in [Device -> [Device -> Contact \cup {Absent}]] /\ contacts[d][p] \in Contact
  BY DEF PairingInv, TypeOK
<1>2. CASE ~(q = d /\ r = p)
  <2>1. contacts'[d][p] = contacts[d][p]
    BY <1>1, <1>2 DEF ConfirmContact, BlockContact, UnblockContact
  <2> QED BY <2>1 DEF Kept
<1>3. CASE q = d /\ r = p
  <2>1. /\ [contacts[d][p] EXCEPT !.pending = FALSE] # Absent
        /\ [contacts[d][p] EXCEPT !.archived = TRUE] # Absent
        /\ [contacts[d][p] EXCEPT !.archived = FALSE] # Absent
    BY ChangedContact, NoncesAreNumbers, SMTT(30), ZenonT(40)
  <2>2. CASE ConfirmContact(d, p)
    <3>1. contacts'[d][p] = [contacts[d][p] EXCEPT !.pending = FALSE]
      BY <1>1, <2>2 DEF ConfirmContact
    <3> QED BY <1>1, <2>1, <3>1 DEF Kept, Contact
  <2>3. CASE BlockContact(d, p)
    <3>1. contacts'[d][p] = [contacts[d][p] EXCEPT !.archived = TRUE]
      BY <1>1, <2>3 DEF BlockContact
    <3> QED BY <1>1, <2>1, <3>1 DEF Kept, Contact
  <2>4. CASE UnblockContact(d, p)
    <3>1. contacts'[d][p] = [contacts[d][p] EXCEPT !.archived = FALSE]
      BY <1>1, <2>4 DEF UnblockContact
    <3> QED BY <1>1, <2>1, <2>4, <3>1 DEF Kept, Contact
  <2> QED BY <1>3, <2>2, <2>3, <2>4
<1> QED BY <1>2, <1>3

LEMMA KeptByEveryStep ==
    ASSUME PairingInv, [Next]_vars, NEW d \in Device, NEW p \in Device, contacts[d][p] # Absent
    PROVE  Kept(d, p)
<1> USE DEF PairingInv
<1>1. SUFFICES ASSUME contacts'[d][p] # contacts[d][p] PROVE Kept(d, p)
  BY DEF Kept
<1>2. \E q \in Device :
        \/ Restart(q) \/ Reads(q)
        \/ \E r \in Device :
             \/ \E n \in issued[r] : Scan(q, r, n)
             \/ ConfirmContact(q, r) \/ BlockContact(q, r) \/ UnblockContact(q, r)
  <2>1. contacts' # contacts
    BY <1>1
  <2>2. ~UNCHANGED vars /\ ~Tick
    BY <2>1 DEF vars, Tick
  <2>3. ASSUME NEW q \in Device
        PROVE  ~ShareCode(q) /\ ~Drain(q) /\ ~SetName(q)
    BY <2>1 DEF ShareCode, Drain, SetName
  <2>4. ASSUME NEW q \in Device PROVE ~Calls(q)
    BY <2>1 DEF Calls, ProcessIntent
  <2>5. ASSUME NEW q \in Device PROVE ~Flies(q)
    BY <2>1 DEF Flies, PublishEcho, DeleteIntent, EndFlight
  <2>6. ASSUME NEW q \in Device, NEW r \in Device PROVE ~SendFails(q, r)
    BY <2>1 DEF SendFails
  <2> QED BY <2>2, <2>3, <2>4, <2>5, <2>6 DEF Next
<1>3. PICK q \in Device :
        \/ Restart(q) \/ Reads(q)
        \/ \E r \in Device :
             \/ \E n \in issued[r] : Scan(q, r, n)
             \/ ConfirmContact(q, r) \/ BlockContact(q, r) \/ UnblockContact(q, r)
  BY <1>2
<1>4. CASE Restart(q)
  <2>1. Purged(q) = contacts[q]
    BY DEF Purged, TypeOK, Acquainted
  <2>2. contacts' = [contacts EXCEPT ![q] = Purged(q)]
    BY <1>4 DEF Restart
  <2>3. contacts' = contacts
    BY <2>1, <2>2 DEF TypeOK
  <2> QED BY <1>1, <2>3
<1>5. CASE Reads(q)
  <2>1. PICK e \in echoes : HandlePairingAck(q, e) \/ MarkProcessed(q, e)
    BY <1>5 DEF Reads
  <2>2. contacts' = RememberPending(q, e.from)
    BY <1>1, <2>1 DEF HandlePairingAck, MarkProcessed
  <2>3. e.from \in Device
    BY DEF TypeOK, Echo
  <2> QED BY <1>1, <2>2, <2>3, RememberPendingType
<1>6. ASSUME NEW r \in Device, NEW n \in issued[r], Scan(q, r, n) PROVE Kept(d, p)
  <2>1. /\ contacts[q][r] = Absent
        /\ contacts' = [contacts EXCEPT ![q][r] = [pending |-> FALSE, archived |-> FALSE]]
    BY <1>1, <1>6 DEF Scan
  <2> QED BY <1>1, <2>1 DEF TypeOK
<1>7. ASSUME NEW r \in Device, ConfirmContact(q, r) \/ BlockContact(q, r) \/ UnblockContact(q, r)
      PROVE  Kept(d, p)
  BY <1>7, KeptByDecisions
<1> QED BY <1>3, <1>4, <1>5, <1>6, <1>7

(* No echo, scan, purge or page load undoes what the user decided about a contact.  *)
THEOREM DecisionsStick == Spec => DecisionSticks
<1>1. PairingInv /\ [Next]_vars =>
        \A d, p \in Device : contacts[d][p] # Absent =>
          /\ contacts'[d][p] # Absent
          /\ contacts'[d][p].pending => contacts[d][p].pending
          /\ contacts[d][p].archived => contacts'[d][p].archived \/ UnblockContact(d, p)
  BY KeptByEveryStep DEF Kept
<1> QED BY <1>1, PairingInvariant, PTL DEF Spec, DecisionSticks
-----------------------------------------------------------------------------
(* HeldUntilSettled.  Where an intent is deleted, a call tells that its window is  *)
(* over, or a run tells that an echo is out.                                       *)

(* A call's time is that of its start.                                             *)
CallsStarted == \A d \in Device : \A c \in calls[d] : c.at <= now

(* A run is past its send only when an echo of its nonce is on the relays.          *)
EchoOf(d, p, n) == \E e \in echoes : e.from = d /\ e.to = p /\ e.nonce = n
SentBeforeClosing ==
    \A d, p \in Device : flights[d][p] # None /\ flights[d][p].stage = "published" =>
        EchoOf(d, p, flights[d][p].nonce)

LEMMA InitStarted == Init => CallsStarted /\ SentBeforeClosing
<1> SUFFICES ASSUME Init PROVE CallsStarted /\ SentBeforeClosing
  OBVIOUS
<1>1. /\ \A d \in Device : calls[d] = {}
      /\ \A d, p \in Device : flights[d][p] = None
  BY DEF Init
<1> QED BY <1>1 DEF CallsStarted, SentBeforeClosing

(* What the steps do to the calls: the time of each is kept, or is the present.      *)
KeepTheirTime ==
    \A d \in Device : \A c \in calls'[d] : c.at = now \/ \E x \in calls[d] : c.at = x.at

LEMMA StartedTime ==
    ASSUME TypeOK, NEW d \in Device, NEW todo, NEW nm, StartCall(d, todo, nm)
    PROVE  KeepTheirTime
<1> DEFINE call == [todo |-> todo, awaits |-> None, at |-> now, named |-> nm]
<1>1. call.at = now
  OBVIOUS
<1>2. calls' = [calls EXCEPT ![d] = IF todo = {} THEN @ ELSE @ \cup {call}]
  BY DEF StartCall
<1> HIDE DEF call
<1>3. \A q \in Device : \A c \in calls'[q] : c \in calls[q] \/ c = call
  BY <1>2 DEF TypeOK
<1> QED BY <1>1, <1>3 DEF KeepTheirTime

LEMMA SteppedTime ==
    ASSUME TypeOK, NEW d \in Device, NEW c \in calls[d], NEW i \in c.todo, NEW awaits,
           calls' = Stepped(d, c, i, awaits)
    PROVE  KeepTheirTime
<1> DEFINE next == [c EXCEPT !.todo = @ \ {i}, !.awaits = awaits]
<1>1. c \in Call
  BY DEF TypeOK
<1>2. next.at = c.at
  BY <1>1 DEF Call
<1>3. calls' = [calls EXCEPT ![d] = (@ \ {c}) \cup
                  (IF next.todo = {} /\ awaits = None THEN {} ELSE {next})]
  BY DEF Stepped
<1> HIDE DEF next
<1>4. \A q \in Device : \A x \in calls'[q] : x \in calls[q] \/ (q = d /\ x = next)
  BY <1>3 DEF TypeOK
<1> QED BY <1>2, <1>4 DEF KeepTheirTime

LEMMA ReturnedTime ==
    ASSUME TypeOK, NEW d \in Device, NEW p \in Device, calls' = Returned(d, p)
    PROVE  KeepTheirTime
<1> DEFINE waiting == {c \in calls[d] : c.awaits = p}
           freed == {[c EXCEPT !.awaits = None] : c \in {w \in waiting : w.todo # {}}}
<1>1. \A x \in freed : \E c \in calls[d] : x.at = c.at
  BY DEF TypeOK, Call
<1>2. calls' = [calls EXCEPT ![d] = (@ \ waiting) \cup freed]
  BY DEF Returned
<1> HIDE DEF freed
<1>3. \A q \in Device : \A x \in calls'[q] : x \in calls[q] \/ (q = d /\ x \in freed)
  BY <1>2 DEF TypeOK
<1> QED BY <1>1, <1>3 DEF KeepTheirTime

LEMMA RestartedTime ==
    ASSUME TypeOK, NEW d \in Device, Restart(d)
    PROVE  KeepTheirTime
<1> DEFINE call == [todo |-> Held(d), awaits |-> None, at |-> now, named |-> named[d]]
<1>1. call.at = now
  OBVIOUS
<1>2. calls' = [calls EXCEPT ![d] = IF Held(d) = {} THEN {} ELSE {call}]
  BY DEF Restart
<1> HIDE DEF call
<1>3. \A q \in Device : \A c \in calls'[q] : c \in calls[q] \/ c = call
  BY <1>2 DEF TypeOK
<1> QED BY <1>1, <1>3 DEF KeepTheirTime

LEMMA StartedStaysSo ==
    ASSUME PairingInv, CallsStarted, [Next]_vars
    PROVE  CallsStarted'
<1>1. TypeOK /\ now \in Nat
  BY DEF PairingInv, TypeOK
<1>2. KeepTheirTime /\ now' \in Nat /\ now <= now'
  <2>1. CASE UNCHANGED <<now, calls>>
    BY <1>1, <2>1 DEF KeepTheirTime
  <2>2. CASE Tick
    BY <1>1, <2>2 DEF Tick, scannerVars, KeepTheirTime
  <2>3. ASSUME NEW d \in Device, ShareCode(d) \/ Reads(d) PROVE UNCHANGED <<now, calls>>
    BY <2>3 DEF ShareCode, Reads, HandlePairingAck, MarkProcessed, scannerVars
  <2>4. ASSUME NEW d \in Device, NEW p \in Device,
               ConfirmContact(d, p) \/ BlockContact(d, p) \/ UnblockContact(d, p)
        PROVE  UNCHANGED <<now, calls>>
    BY <2>4 DEF ConfirmContact, BlockContact, UnblockContact, scannerVars
  <2>5. ASSUME NEW d \in Device, Drain(d) \/ SetName(d) PROVE KeepTheirTime /\ now' = now
    BY <1>1, <2>5, StartedTime DEF Drain, SetName
  <2>6. ASSUME NEW d \in Device, NEW p \in Device, NEW n \in issued[p], Scan(d, p, n)
        PROVE  KeepTheirTime /\ now' = now
    <3>1. CASE UNCHANGED calls
      BY <1>1, <2>6, <3>1 DEF Scan, KeepTheirTime
    <3>2. CASE StartCall(d, {[of |-> p, nonce |-> n]}, named[d])
      BY <1>1, <2>6, <3>2, StartedTime DEF Scan
    <3> QED BY <2>6, <3>1, <3>2 DEF Scan
  <2>7. ASSUME NEW d \in Device, Calls(d) PROVE KeepTheirTime /\ now' = now
    <3>1. PICK c \in calls[d] : \E i \in c.todo : ProcessIntent(d, c, i)
      BY <2>7 DEF Calls
    <3>2. PICK i \in c.todo : ProcessIntent(d, c, i)
      BY <3>1
    <3>3. now' = now /\ (calls' = Stepped(d, c, i, i.of) \/ calls' = Stepped(d, c, i, None))
      BY <3>2 DEF ProcessIntent
    <3> QED BY <1>1, <3>3, SteppedTime
  <2>8. ASSUME NEW d \in Device, Flies(d) PROVE KeepTheirTime /\ now' = now
    <3>1. PICK p \in Device : PublishEcho(d, p) \/ DeleteIntent(d, p) \/ EndFlight(d, p)
      BY <2>8 DEF Flies
    <3>2. now' = now /\ (calls' = calls \/ calls' = Returned(d, p))
      BY <3>1 DEF PublishEcho, DeleteIntent, EndFlight
    <3>3. CASE calls' = calls
      BY <3>2, <3>3 DEF KeepTheirTime
    <3>4. CASE calls' = Returned(d, p)
      BY <1>1, <3>2, <3>4, ReturnedTime
    <3> QED BY <3>2, <3>3, <3>4
  <2>9. ASSUME NEW d \in Device, NEW p \in Device, SendFails(d, p)
        PROVE  KeepTheirTime /\ now' = now
    BY <1>1, <2>9, ReturnedTime DEF SendFails
  <2>10. ASSUME NEW d \in Device, Restart(d) PROVE KeepTheirTime /\ now' = now
    BY <1>1, <2>10, RestartedTime DEF Restart
  <2>11. CASE UNCHANGED vars
    BY <2>1, <2>11 DEF vars, scannerVars
  <2>12. now' = now => now' \in Nat /\ now <= now'
    BY <1>1
  <2> QED BY <2>1, <2>2, <2>3, <2>4, <2>5, <2>6, <2>7, <2>8, <2>9, <2>10, <2>11, <2>12 DEF Next
<1>3. \A d \in Device : \A c \in calls[d] : c.at \in Nat
  BY <1>1 DEF TypeOK, Call
<1> QED BY <1>1, <1>2, <1>3 DEF CallsStarted, KeepTheirTime

(* Every step but PublishEcho leaves the runs past their send where they were, or   *)
(* moves them on; the echoes only grow.                                           *)
LEMMA SentStaysSo ==
    ASSUME PairingInv, SentBeforeClosing, [Next]_vars
    PROVE  SentBeforeClosing'
<1>1. TypeOK /\ Traced
  BY DEF PairingInv
<1> DEFINE Past(f) == f # None /\ f.stage = "published"
           Only == \A q, r \in Device : Past(flights'[q][r]) => flights'[q][r] = flights[q][r]
<1>2. ASSUME echoes \subseteq echoes', Only PROVE SentBeforeClosing'
  BY <1>2 DEF SentBeforeClosing, EchoOf
<1>3. ASSUME UNCHANGED <<echoes, flights>> PROVE SentBeforeClosing'
  BY <1>3 DEF SentBeforeClosing, EchoOf
<1>4. ASSUME NEW d \in Device, NEW p \in Device, NEW x \in Flight \cup {None}, ~Past(x),
             flights' = [flights EXCEPT ![d][p] = x]
      PROVE  Only
  <2>1. \A q, r \in Device : flights'[q][r] = IF q = d /\ r = p THEN x ELSE flights[q][r]
    BY <1>1, <1>4, FlightEntry, SMTT(20), ZenonT(40)
  <2> QED BY <1>4, <2>1
<1>5. ASSUME NEW d \in Device, NEW p \in Device, PublishEcho(d, p) PROVE SentBeforeClosing'
  <2> DEFINE x == [flights[d][p] EXCEPT !.stage = "published"]
             k == IF Cardinality({e \in echoes : e.from = d /\ e.to = p /\ e.nonce = flights[d][p].nonce})
                       < MaxCopies
                    THEN Cardinality({e \in echoes : e.from = d /\ e.to = p /\ e.nonce = flights[d][p].nonce}) + 1
                    ELSE MaxCopies
             sent == [from |-> d, to |-> p, nonce |-> flights[d][p].nonce, copy |-> k]
  <2>1. flights[d][p] # None /\ flights[d][p] \in Flight
    BY <1>1, <1>5 DEF PublishEcho, TypeOK
  <2>2. x \in Flight /\ x.nonce = flights[d][p].nonce
    BY <2>1 DEF Flight, Stage
  <2>3. flights' = [flights EXCEPT ![d][p] = x]
    BY <1>1, <1>5 DEF PublishEcho, TypeOK
  <2>4. sent.from = d /\ sent.to = p /\ sent.nonce = flights[d][p].nonce
    OBVIOUS
  <2>5. echoes' = echoes \cup {sent}
    BY <1>5 DEF PublishEcho, Sent
  <2> HIDE DEF x, sent, k
  <2>6. x \in Flight \cup {None}
    BY <2>2
  <2>7. \A q, r \in Device : flights'[q][r] = IF q = d /\ r = p THEN x ELSE flights[q][r]
    BY <1>1, <2>3, <2>6, FlightEntry, SMTT(20), ZenonT(40)
  <2> QED BY <2>2, <2>4, <2>5, <2>7 DEF SentBeforeClosing, EchoOf
<1>6. ASSUME NEW d \in Device, NEW p \in Device, DeleteIntent(d, p) PROVE SentBeforeClosing'
  <2> DEFINE x == [flights[d][p] EXCEPT !.stage = "closing"]
  <2>1. flights[d][p] # None /\ flights[d][p] \in Flight
    BY <1>1, <1>6 DEF DeleteIntent, TypeOK
  <2>2. x \in Flight \cup {None} /\ ~Past(x)
    BY <2>1 DEF Flight, Stage
  <2>3. flights' = [flights EXCEPT ![d][p] = x]
    BY <1>1, <1>6 DEF DeleteIntent, TypeOK
  <2> HIDE DEF x, Past
  <2>4. Only
    BY <1>4, <2>2, <2>3
  <2> QED BY <1>2, <1>6, <2>4 DEF DeleteIntent
<1>7. ASSUME NEW d \in Device, NEW p \in Device, EndFlight(d, p) \/ SendFails(d, p)
      PROVE  SentBeforeClosing'
  <2>1. flights' = [flights EXCEPT ![d][p] = None] /\ flights[d][p] # None
    BY <1>7 DEF EndFlight, SendFails, AfterFailure
  <2>2. Only
    BY <1>4, <2>1
  <2>3. echoes \subseteq echoes'
    BY <1>1, <1>7, <2>1, SentType DEF EndFlight, SendFails
  <2> QED BY <1>2, <2>2, <2>3
<1>8. ASSUME NEW d \in Device, Calls(d) PROVE SentBeforeClosing'
  <2>1. PICK c \in calls[d] : \E i \in c.todo : ProcessIntent(d, c, i)
    BY <1>8 DEF Calls
  <2>2. PICK i \in c.todo : ProcessIntent(d, c, i)
    BY <2>1
  <2>3. i \in Intent
    BY <1>1 DEF TypeOK, Call
  <2>4. i.of \in Device /\ i.nonce \in Nonce /\ UNCHANGED echoes
    BY <2>2, <2>3 DEF ProcessIntent, Intent
  <2>5. CASE UNCHANGED flights
    BY <1>3, <2>4, <2>5
  <2>6. ASSUME NEW stage \in {"connecting", "closing"},
               flights' = [flights EXCEPT ![d][i.of] = [nonce |-> i.nonce, stage |-> stage]]
        PROVE  SentBeforeClosing'
    <3> DEFINE x == [nonce |-> i.nonce, stage |-> stage]
    <3>1. x \in Flight \cup {None} /\ ~Past(x)
      BY <2>4, <2>6 DEF Flight, Stage
    <3>2. flights' = [flights EXCEPT ![d][i.of] = x]
      BY <2>6
    <3> HIDE DEF x, Past
    <3>3. Only
      BY <1>4, <2>4, <3>1, <3>2
    <3> QED BY <1>2, <2>4, <3>3
  <2> QED BY <2>2, <2>5, <2>6 DEF ProcessIntent
<1>9. ASSUME NEW d \in Device, Restart(d) PROVE SentBeforeClosing'
  <2>1. flights' = [flights EXCEPT ![d] = [p \in Device |-> None]] /\ UNCHANGED echoes
    BY <1>9 DEF Restart
  <2>2. Only
    BY <1>1, <2>1 DEF TypeOK
  <2> QED BY <1>2, <2>1, <2>2
<1>10. ASSUME NEW d \in Device, ShareCode(d) \/ Drain(d) \/ SetName(d) \/ Reads(d)
       PROVE  SentBeforeClosing'
  BY <1>3, <1>10 DEF ShareCode, Drain, SetName, Reads, HandlePairingAck, MarkProcessed, scannerVars
<1>11. ASSUME NEW d \in Device, NEW p \in Device,
              \/ \E n \in issued[p] : Scan(d, p, n)
              \/ ConfirmContact(d, p) \/ BlockContact(d, p) \/ UnblockContact(d, p)
       PROVE  SentBeforeClosing'
  BY <1>3, <1>11 DEF Scan, ConfirmContact, BlockContact, UnblockContact, scannerVars
<1>12. CASE Tick \/ UNCHANGED vars
  BY <1>3, <1>12 DEF Tick, vars, scannerVars
<1>13. ASSUME NEW d \in Device, Flies(d) PROVE SentBeforeClosing'
  BY <1>5, <1>6, <1>7, <1>13 DEF Flies
<1> QED BY <1>5, <1>7, <1>8, <1>9, <1>10, <1>11, <1>12, <1>13 DEF Next

(* A run that gives up the intent it finds: the one it was started for, or another. *)
LEMMA ForgottenByARun ==
    ASSUME PairingInv, NEW d \in Device, NEW p \in Device, NEW n \in issued[p],
           flights'[d][p] # None, flights'[d][p].nonce = n, intents[d][p] # n
    PROVE  GivesUpAnother(d, p)
BY DEF GivesUpAnother

(* The drop of a call, and the deletion after a send, are the only steps that take   *)
(* an intent away.                                                                 *)
LEMMA DropSettles ==
    ASSUME PairingInv, CallsStarted, NEW d \in Device, NEW c \in calls[d], NEW i \in c.todo,
           ProcessIntent(d, c, i), NEW q \in Device, NEW p \in Device,
           intents[q][p] # None, intents'[q][p] = None
    PROVE  \/ now > intents[q][p] \/ IsBlocked(q, p)
           \/ GivesUpAnother(q, p)
<1> DEFINE x == [nonce |-> i.nonce, stage |-> "closing"]
<1>1. TypeOK /\ c \in Call /\ i \in Intent /\ i.nonce \in issued[i.of]
  BY DEF PairingInv, TypeOK, Call, Traced
<1>2. i.of \in Device /\ i.nonce \in Nonce /\ c.at \in Nat /\ now \in Nat /\ c.at <= now
  BY <1>1 DEF Intent, Call, CallsStarted, TypeOK
<1>3. /\ Dropped(d, i, c.at) /\ intents' = [intents EXCEPT ![d][i.of] = None]
      /\ flights' = [flights EXCEPT ![d][i.of] = [nonce |-> i.nonce, stage |-> "closing"]]
  BY DEF ProcessIntent
<1>4. x \in Flight /\ x.nonce = i.nonce
  BY <1>2 DEF Flight, Stage
<1>5. flights' = [flights EXCEPT ![d][i.of] = x]
  BY <1>3
<1> HIDE DEF x
<1>6. q = d /\ p = i.of
  BY <1>1, <1>2, <1>3, IntentEntry, SMTT(20), ZenonT(40)
<1>7. CASE IsBlocked(d, i.of)
  BY <1>6, <1>7
<1>8. CASE c.at > i.nonce /\ intents[q][p] = i.nonce
  <2>1. i.nonce \in Nat
    BY <1>2, NoncesAreNumbers
  <2>2. now > i.nonce
    BY <1>2, <1>8, <2>1
  <2> QED BY <1>8, <2>2
<1>9. CASE intents[q][p] # i.nonce
  <2>1. x \in Flight \cup {None}
    BY <1>4
  <2>2. flights'[d][i.of] = x
    BY <1>1, <1>2, <1>5, <2>1, FlightEntry, SMTT(20), ZenonT(40)
  <2>3. x # None
    BY <1>4, NoncesAreNumbers
  <2> QED BY <1>1, <1>2, <1>4, <1>6, <1>9, <2>2, <2>3, ForgottenByARun
<1> QED BY <1>3, <1>7, <1>8, <1>9 DEF Dropped

LEMMA DeletionSettles ==
    ASSUME PairingInv, SentBeforeClosing, NEW d \in Device, NEW r \in Device,
           DeleteIntent(d, r), NEW q \in Device, NEW p \in Device,
           intents[q][p] # None, intents'[q][p] = None
    PROVE  EchoOf(q, p, intents[q][p]) \/ GivesUpAnother(q, p)
<1> DEFINE x == [flights[d][r] EXCEPT !.stage = "closing"]
<1>1. TypeOK /\ flights[d][r] # None /\ flights[d][r].stage = "published"
  BY DEF PairingInv, DeleteIntent
<1>2. flights[d][r] \in Flight /\ flights[d][r].nonce \in issued[r]
  BY <1>1 DEF TypeOK, PairingInv, Traced
<1>3. EchoOf(d, r, flights[d][r].nonce)
  BY <1>1 DEF SentBeforeClosing
<1>4. q = d /\ p = r
  BY <1>1, IntentEntry, SMTT(20), ZenonT(40) DEF DeleteIntent
<1>5. x \in Flight /\ x.nonce = flights[d][r].nonce
  BY <1>2 DEF Flight, Stage
<1>6. flights' = [flights EXCEPT ![d][r] = x]
  BY <1>1 DEF DeleteIntent, TypeOK
<1> HIDE DEF x
<1>7. CASE intents[q][p] = flights[d][r].nonce
  BY <1>3, <1>4, <1>7
<1>8. CASE intents[q][p] # flights[d][r].nonce
  <2>1. x \in Flight \cup {None}
    BY <1>5
  <2>2. flights'[d][r] = x
    BY <1>1, <1>6, <2>1, FlightEntry, SMTT(20), ZenonT(40)
  <2>3. x # None
    BY <1>5, NoncesAreNumbers
  <2> QED BY <1>2, <1>4, <1>5, <1>8, <2>2, <2>3, ForgottenByARun
<1> QED BY <1>7, <1>8

(* An intent is held until its window is over, its issuer is blocked, or an echo of  *)
(* it is on the relays, or until a run of another code of that issuer deletes it       *)
(* (processIntentCore, deletePendingIntent).                                       *)
THEOREM IntentsAreHeld == Spec => HeldUntilSettled
<1> DEFINE Settled(d, p) ==
        \/ now > intents[d][p] \/ IsBlocked(d, p)
        \/ EchoOf(d, p, intents[d][p]) \/ GivesUpAnother(d, p)
    Inv == PairingInv /\ CallsStarted /\ SentBeforeClosing
<1>1. Init => Inv
  BY InitPairing, InitStarted
<1>2. Inv /\ [Next]_vars => Inv'
  BY NextPairing, StartedStaysSo, SentStaysSo
<1>3. ASSUME Inv, [Next]_vars, NEW q \in Device, NEW p \in Device,
             intents[q][p] # None, intents'[q][p] = None
      PROVE  Settled(q, p)
  <2>1. TypeOK
    BY <1>3 DEF PairingInv
  <2>2. CASE UNCHANGED intents
    BY <1>3, <2>2
  <2>3. ASSUME NEW d \in Device, Calls(d) PROVE Settled(q, p)
    <3>1. PICK c \in calls[d] : \E i \in c.todo : ProcessIntent(d, c, i)
      BY <2>3 DEF Calls
    <3> QED BY <1>3, <3>1, DropSettles
  <2>4. ASSUME NEW d \in Device, Flies(d) PROVE Settled(q, p)
    <3>1. PICK r \in Device : PublishEcho(d, r) \/ DeleteIntent(d, r) \/ EndFlight(d, r)
      BY <2>4 DEF Flies
    <3>2. CASE PublishEcho(d, r) \/ EndFlight(d, r)
      BY <2>2, <3>2 DEF PublishEcho, EndFlight
    <3>3. CASE DeleteIntent(d, r)
      BY <1>3, <3>3, DeletionSettles
    <3> QED BY <3>1, <3>2, <3>3
  <2>5. ASSUME NEW d \in Device, NEW r \in Device, NEW n \in issued[r], Scan(d, r, n)
        PROVE  Settled(q, p)
    <3>1. CASE intents' = [intents EXCEPT ![d][r] = n]
      <4>1. n \in Nonce /\ n # None
        BY <2>1, NoncesAreNumbers DEF TypeOK
      <4>2. n \in Nonce \cup {None}
        BY <4>1
      <4>3. intents'[q][p] = IF q = d /\ p = r THEN n ELSE intents[q][p]
        BY <2>1, <3>1, <4>2, IntentEntry, SMTT(20), ZenonT(40)
      <4> QED BY <1>3, <4>1, <4>3
    <3> QED BY <2>2, <2>5, <3>1 DEF Scan
  <2>6. ASSUME NEW d \in Device,
               ShareCode(d) \/ Drain(d) \/ SetName(d) \/ Restart(d) \/ Reads(d)
        PROVE  UNCHANGED intents
    BY <2>6 DEF ShareCode, Drain, SetName, Restart, Reads, HandlePairingAck, MarkProcessed,
                scannerVars
  <2>7. ASSUME NEW d \in Device, NEW r \in Device,
               \/ SendFails(d, r)
               \/ ConfirmContact(d, r) \/ BlockContact(d, r) \/ UnblockContact(d, r)
        PROVE  UNCHANGED intents
    BY <2>7 DEF SendFails, ConfirmContact, BlockContact, UnblockContact, scannerVars
  <2>8. CASE Tick \/ UNCHANGED vars
    BY <2>2, <2>8 DEF Tick, vars, scannerVars
  <2> QED BY <1>3, <2>2, <2>3, <2>4, <2>5, <2>6, <2>7, <2>8 DEF Next
<1>4. Inv /\ [Next]_vars =>
        \A d, p \in Device : intents[d][p] # None /\ intents'[d][p] = None =>
            \/ now > intents[d][p] \/ IsBlocked(d, p)
            \/ \E e \in echoes : e.from = d /\ e.to = p /\ e.nonce = intents[d][p]
            \/ GivesUpAnother(d, p)
  BY <1>3 DEF EchoOf
<1> HIDE DEF Inv
<1> QED BY <1>1, <1>2, <1>4, PTL DEF Spec, HeldUntilSettled
=============================================================================
