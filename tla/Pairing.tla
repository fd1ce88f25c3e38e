------------------------------- MODULE Pairing -------------------------------
(* Pairing two people who met: one shows a code with a nonce that lives for a   *)
(* while (nonceStore), the other scans it, takes the issuer as a contact and     *)
(* echoes the nonce (pendingIntent, sendPairingAck); the issuer who reads the    *)
(* echo in time takes the scanner as a contact to be confirmed                  *)
(* (handlePairingAck).  Beside that the users confirm, block and unblock, and    *)
(* apps are restarted at any point.                                             *)
(*                                                                              *)
(* Every device runs both roles.  A nonce is told apart by its issuer and its    *)
(* expiresAt: two minted in one tick of the clock live and die together.         *)
EXTENDS Naturals, FiniteSets

CONSTANTS
    Device,
    TTL,            \* NONCE_TTL_SEC in ticks
    Grace,          \* NONCE_GRACE_SEC in ticks
    Sharers,        \* devices whose user shows a code
    Scanners,       \* devices whose user scans codes
    Nameless,       \* devices whose user has no shareable name at first
    Blockers,       \* devices whose user blocks and unblocks
    MaxClock,       \* bound: ticks of a behaviour
    LastShow,       \* bound: the last tick at which a code is shown
    MaxCopies,      \* bound: copies of one echo told apart, later ones count as the last
    MaxFailures,    \* bound: sends that fail
    MaxRestarts,    \* bound: page loads after the first
    MaxCalls,       \* bound: scans and drains of a device at one time
    Absent, None

(* Where a run of processIntentCore stands.                                      *)
Stage == {"connecting", "published", "closing"}

ASSUME PairingAssumption ==
    /\ {TTL, Grace, LastShow, MaxClock, MaxFailures, MaxRestarts, MaxCalls} \subseteq Nat
    /\ MaxCopies \in Nat \ {0}
    /\ Sharers \cup Scanners \cup Nameless \cup Blockers \subseteq Device
    /\ None \notin Device \cup Nat \cup [nonce : Nat, stage : Stage]
    /\ Absent \notin [pending : BOOLEAN, archived : BOOLEAN]

VARIABLES
    now,        \* the clock all devices share
    issued,     \* the codes a device has shown: anyone may have a picture of them
    active,     \* activeNonce, in memory
    stored,     \* few-pairing-nonces
    contacts,   \* lp_contacts_v1
    known,      \* the ever-known peers
    named,      \* hasShareableName of the profile
    intents,    \* few-pairing-intents: the nonce held for each issuer
    calls,      \* attemptOrQueuePairingEcho and drainPendingIntents, running
    flights,    \* inFlightByIssuer: the run of processIntentCore for each issuer
    echoes,     \* pairing-acks on the relays
    seen,       \* processedGiftWraps, kept in storage
    admitting,  \* echoes whose handler has admitted and not yet returned
    admitted,   \* pairingAckAdmissions, in memory
    failures, restarts

issuerVars  == <<issued, active, stored, seen, admitting, admitted>>
scannerVars == <<named, intents, calls, flights>>
vars == <<now, contacts, known, echoes, failures, restarts, issuerVars, scannerVars>>

Nonce == 0..MaxClock + TTL
Contact == [pending : BOOLEAN, archived : BOOLEAN]
Intent == [of : Device, nonce : Nonce]
Call == [todo : SUBSET Intent, awaits : Device \cup {None},
         at : 0..MaxClock, named : BOOLEAN]
Flight == [nonce : Nonce, stage : Stage]
Echo == [from : Device, to : Device, nonce : Nonce, copy : 1..MaxCopies]

IsBlocked(d, p) == contacts[d][p] # Absent /\ contacts[d][p].archived

----------------------------------------------------------------------------
(* The issuer's nonces                                                         *)

(* pruneExpiredNonces and isNonceAdmissible.                                    *)
Prune_AtExpiry(nonces, t) == {n \in nonces : t <= n}  (* Mutant: no grace *)
Prune(nonces, t) == {n \in nonces : t <= n + Grace}
Admissible_TillExpiry(n, nonces, t) == n \in nonces /\ t <= n  (* Mutant: no grace *)
Admissible(n, nonces, t) == n \in nonces /\ t <= n + Grace

HasActive(d) == active[d] # None /\ now <= active[d]

(* getOwnShareCard: no code without a name; the active nonce while it lives.     *)
ShareCode(d) ==
    /\ d \in Sharers /\ named[d] /\ ~HasActive(d) /\ now <= LastShow
    /\ LET fresh == now + TTL IN
       /\ issued' = [issued EXCEPT ![d] = @ \cup {fresh}]
       /\ active' = [active EXCEPT ![d] = fresh]
       /\ stored' = [stored EXCEPT ![d] = Prune(@ \cup {fresh}, now)]
    /\ UNCHANGED <<now, contacts, known, echoes, failures, restarts,
                   seen, admitting, admitted, scannerVars>>

----------------------------------------------------------------------------
(* The scanner's echo                                                          *)

StartCall(d, todo, nm) ==
    LET call == [todo |-> todo, awaits |-> None, at |-> now, named |-> nm]
    IN calls' = [calls EXCEPT ![d] =
                   IF todo = {} THEN @ ELSE @ \cup {call}]

(* addContactByNpub, then processContactInput's candidate: a code that still     *)
(* lives, of a peer who is not blocked.  attemptOrQueuePairingEcho saves the      *)
(* intent before it processes it; the save is issued at once.                     *)
Scan(d, p, n) ==
    /\ d \in Scanners /\ p # d /\ n \in issued[p]
    /\ Cardinality(calls[d]) < MaxCalls
    /\ IF contacts[d][p] = Absent
         THEN /\ known' = [known EXCEPT ![d] = @ \cup {p}]
              /\ contacts' = [contacts EXCEPT ![d][p] = [pending |-> FALSE, archived |-> FALSE]]
         ELSE UNCHANGED <<contacts, known>>
    /\ IF now <= n /\ ~IsBlocked(d, p)
         THEN /\ intents' = [intents EXCEPT ![d][p] = n]
              /\ StartCall(d, {[of |-> p, nonce |-> n]}, named[d])
         ELSE UNCHANGED <<intents, calls>>
    /\ UNCHANGED <<now, named, flights, echoes, failures, restarts, issuerVars>>

(* drainPendingIntents: works through the intents it loaded, in any order, with   *)
(* the time and the name of its start.                                          *)
Held(d) == {[of |-> p, nonce |-> intents[d][p]] : p \in {q \in Device : intents[d][q] # None}}
Drain(d) ==                                             \* window 'online'
    /\ Held(d) # {} /\ Cardinality(calls[d]) < MaxCalls
    /\ StartCall(d, Held(d), named[d])
    /\ UNCHANGED <<now, contacts, known, named, intents, flights, echoes,
                   failures, restarts, issuerVars>>

(* saveProfile with a first name: the profile page and the watcher, whose effect *)
(* depends on the name, each start the same drain.                              *)
SetName(d) ==
    /\ ~named[d]
    /\ named' = [named EXCEPT ![d] = TRUE]
    /\ StartCall(d, Held(d), TRUE)
    /\ UNCHANGED <<now, contacts, known, intents, flights, echoes,
                   failures, restarts, issuerVars>>

(* What a call is after one of its intents: it waits for the run it started or    *)
(* found, or goes on; it returns after the last.                                *)
Stepped(d, c, i, awaits) ==
    LET next == [c EXCEPT !.todo = @ \ {i}, !.awaits = awaits]
    IN [calls EXCEPT ![d] = (@ \ {c}) \cup
          (IF next.todo = {} /\ awaits = None THEN {} ELSE {next})]

Returned(d, p) ==
    LET waiting == {c \in calls[d] : c.awaits = p}
        freed == {[c EXCEPT !.awaits = None] : c \in {w \in waiting : w.todo # {}}}
    IN [calls EXCEPT ![d] = (@ \ waiting) \cup freed]

Dropped_AtExpiry(d, i, at) == at >= i.nonce \/ IsBlocked(d, i.of)  (* Mutant: off by one *)
Dropped(d, i, at) == at > i.nonce \/ IsBlocked(d, i.of)

(* processIntent up to its first await.                                          *)
ProcessIntent(d, c, i) ==
    /\ c \in calls[d] /\ c.awaits = None /\ i \in c.todo
    /\ \/ /\ flights[d][i.of] # None                     \* shares the run it finds
          /\ calls' = Stepped(d, c, i, i.of)
          /\ UNCHANGED <<intents, flights>>
       \/ /\ flights[d][i.of] = None
          /\ Dropped(d, i, c.at)                         \* expired, droppedBlocked
          /\ intents' = [intents EXCEPT ![d][i.of] = None]
          /\ flights' = [flights EXCEPT ![d][i.of] = [nonce |-> i.nonce, stage |-> "closing"]]
          /\ calls' = Stepped(d, c, i, i.of)
       \/ /\ flights[d][i.of] = None
          /\ ~Dropped(d, i, c.at) /\ ~c.named            \* deferred
          /\ calls' = Stepped(d, c, i, None)
          /\ UNCHANGED <<intents, flights>>
       \/ /\ flights[d][i.of] = None
          /\ ~Dropped(d, i, c.at) /\ c.named
          /\ flights' = [flights EXCEPT ![d][i.of] = [nonce |-> i.nonce, stage |-> "connecting"]]
          /\ calls' = Stepped(d, c, i, i.of)
          /\ UNCHANGED intents
    /\ UNCHANGED <<now, contacts, known, named, echoes, failures, restarts, issuerVars>>

Sent(d, p) ==
    LET n == flights[d][p].nonce
        sent == Cardinality({e \in echoes : e.from = d /\ e.to = p /\ e.nonce = n})
    IN echoes \cup {[from |-> d, to |-> p, nonce |-> n,
                     copy |-> IF sent < MaxCopies THEN sent + 1 ELSE MaxCopies]}

(* sendPairingAck after resolveSendDeps: the echo is on the relays.               *)
PublishEcho(d, p) ==
    /\ flights[d][p] # None /\ flights[d][p].stage = "connecting"
    /\ echoes' = Sent(d, p)
    /\ flights' = [flights EXCEPT ![d][p].stage = "published"]
    /\ UNCHANGED <<now, contacts, known, named, intents, calls, failures, restarts, issuerVars>>

(* 'queued-for-retry': offline, a signer's error, or a publish that did reach a   *)
(* relay but whose answer did not come back.  The lock goes in `finally`.         *)
AfterFailure(d, p) == [flights EXCEPT ![d][p] = None]
SendFails(d, p) ==
    /\ flights[d][p] # None /\ flights[d][p].stage = "connecting"
    /\ failures < MaxFailures /\ failures' = failures + 1
    /\ \/ UNCHANGED echoes
       \/ echoes' = Sent(d, p)
    /\ flights' = AfterFailure(d, p)
    /\ calls' = Returned(d, p)
    /\ UNCHANGED <<now, contacts, known, named, intents, restarts, issuerVars>>

(* The profile announce after the echo has been tried: the intent is deleted, by  *)
(* its issuer, whatever nonce it holds by now.                                   *)
DeleteIntent(d, p) ==
    /\ flights[d][p] # None /\ flights[d][p].stage = "published"
    /\ intents' = [intents EXCEPT ![d][p] = None]
    /\ flights' = [flights EXCEPT ![d][p].stage = "closing"]
    /\ UNCHANGED <<now, contacts, known, named, calls, echoes, failures, restarts, issuerVars>>

EndFlight(d, p) ==
    /\ flights[d][p] # None /\ flights[d][p].stage = "closing"
    /\ flights' = [flights EXCEPT ![d][p] = None]
    /\ calls' = Returned(d, p)
    /\ UNCHANGED <<now, contacts, known, named, intents, echoes, failures, restarts, issuerVars>>

----------------------------------------------------------------------------
(* The issuer reads an echo                                                    *)

(* rememberPendingContact: an existing entry is left as it is.                     *)
RememberPending_Anew(d, p) ==  (* Mutant: an existing entry is replaced *)
    [contacts EXCEPT ![d][p] = [pending |-> TRUE, archived |-> FALSE]]
RememberPending(d, p) ==
    IF contacts[d][p] # Absent THEN contacts
    ELSE [contacts EXCEPT ![d][p] = [pending |-> TRUE, archived |-> FALSE]]

(* handlePairingAck to its admission: prune, check the nonce, admit a sender not   *)
(* yet admitted in this session.  A refused echo is marked as processed at once,  *)
(* an admitted one after the announce.                                          *)
HandlePairingAck(d, e) ==
    /\ e \in echoes /\ e.to = d /\ e \notin seen[d] \cup admitting[d]
    /\ stored' = [stored EXCEPT ![d] = Prune(@, now)]
    /\ \/ /\ ~Admissible(e.nonce, stored'[d], now) \/ e.from \in admitted[d]
          /\ seen' = [seen EXCEPT ![d] = @ \cup {e}]
          /\ UNCHANGED <<contacts, known, admitting, admitted>>
       \/ /\ Admissible(e.nonce, stored'[d], now) /\ e.from \notin admitted[d]
          /\ known' = [known EXCEPT ![d] = @ \cup {e.from}]
          /\ contacts' = RememberPending(d, e.from)
          /\ admitted' = [admitted EXCEPT ![d] = @ \cup {e.from}]
          /\ admitting' = [admitting EXCEPT ![d] = @ \cup {e}]
          /\ UNCHANGED seen
    /\ UNCHANGED <<now, issued, active, echoes, failures, restarts, scannerVars>>

MarkProcessed(d, e) ==
    /\ e \in admitting[d]
    /\ admitting' = [admitting EXCEPT ![d] = @ \ {e}]
    /\ seen' = [seen EXCEPT ![d] = @ \cup {e}]
    /\ UNCHANGED <<now, contacts, known, issued, active, stored, admitted, echoes,
                   failures, restarts, scannerVars>>

----------------------------------------------------------------------------
(* The users' decisions, the app, the clock                                    *)

ConfirmContact(d, p) ==
    /\ contacts[d][p] # Absent /\ contacts[d][p].pending
    /\ contacts' = [contacts EXCEPT ![d][p].pending = FALSE]
    /\ UNCHANGED <<now, known, echoes, failures, restarts, issuerVars, scannerVars>>

(* performBlockContact and performUnblockContact: archiveContact,                 *)
(* unarchiveContact.                                                            *)
BlockContact(d, p) ==
    /\ d \in Blockers
    /\ contacts[d][p] # Absent /\ ~contacts[d][p].archived
    /\ contacts' = [contacts EXCEPT ![d][p].archived = TRUE]
    /\ UNCHANGED <<now, known, echoes, failures, restarts, issuerVars, scannerVars>>

UnblockContact(d, p) ==
    /\ IsBlocked(d, p)
    /\ contacts' = [contacts EXCEPT ![d][p].archived = FALSE]
    /\ UNCHANGED <<now, known, echoes, failures, restarts, issuerVars, scannerVars>>

(* A page load: what was in memory is gone; the mount purges contacts of strangers *)
(* and drains.                                                                   *)
Purged(d) == [p \in Device |-> IF p \in known[d] THEN contacts[d][p] ELSE Absent]
Restart(d) ==
    /\ restarts < MaxRestarts /\ restarts' = restarts + 1
    /\ active' = [active EXCEPT ![d] = None]
    /\ admitted' = [admitted EXCEPT ![d] = {}]
    /\ admitting' = [admitting EXCEPT ![d] = {}]
    /\ flights' = [flights EXCEPT ![d] = [p \in Device |-> None]]
    /\ contacts' = [contacts EXCEPT ![d] = Purged(d)]
    /\ calls' = [calls EXCEPT ![d] = IF Held(d) = {} THEN {} ELSE
          {[todo |-> Held(d), awaits |-> None, at |-> now, named |-> named[d]]}]
    /\ UNCHANGED <<now, issued, stored, known, named, intents, echoes, seen, failures>>

Tick == /\ now < MaxClock /\ now' = now + 1
        /\ UNCHANGED <<contacts, known, echoes, failures, restarts, issuerVars, scannerVars>>

----------------------------------------------------------------------------
Init ==
    /\ now = 0 /\ failures = 0 /\ restarts = 0 /\ echoes = {}
    /\ issued = [d \in Device |-> {}] /\ stored = issued /\ known = issued
    /\ seen = issued /\ admitting = issued /\ admitted = issued /\ calls = issued
    /\ active = [d \in Device |-> None]
    /\ contacts = [d \in Device |-> [p \in Device |-> Absent]]
    /\ intents = [d \in Device |-> [p \in Device |-> None]] /\ flights = intents
    /\ named = [d \in Device |-> d \notin Nameless]

Calls(d) == \E c \in calls[d] : \E i \in c.todo : ProcessIntent(d, c, i)
Flies(d) == \E p \in Device : PublishEcho(d, p) \/ DeleteIntent(d, p) \/ EndFlight(d, p)
Reads(d) == \E e \in echoes : HandlePairingAck(d, e) \/ MarkProcessed(d, e)

Next ==
    \/ Tick
    \/ \E d \in Device :
        \/ ShareCode(d) \/ Drain(d) \/ SetName(d) \/ Restart(d)
        \/ Calls(d) \/ Flies(d) \/ Reads(d)
        \/ \E p \in Device :
            \/ \E n \in issued[p] : Scan(d, p, n)
            \/ SendFails(d, p)
            \/ ConfirmContact(d, p) \/ BlockContact(d, p) \/ UnblockContact(d, p)

Spec == Init /\ [][Next]_vars

----------------------------------------------------------------------------
(* What every state looks like.                                                 *)
TypeOK ==
    /\ now \in 0..MaxClock
    /\ issued \in [Device -> SUBSET Nonce] /\ stored \in [Device -> SUBSET Nonce]
    /\ active \in [Device -> Nonce \cup {None}]
    /\ contacts \in [Device -> [Device -> Contact \cup {Absent}]]
    /\ known \in [Device -> SUBSET Device]
    /\ named \in [Device -> BOOLEAN]
    /\ intents \in [Device -> [Device -> Nonce \cup {None}]]
    /\ calls \in [Device -> SUBSET Call]
    /\ flights \in [Device -> [Device -> Flight \cup {None}]]
    /\ echoes \subseteq Echo
    /\ seen \in [Device -> SUBSET echoes] /\ admitting \in [Device -> SUBSET echoes]
    /\ admitted \in [Device -> SUBSET Device]
    /\ failures \in 0..MaxFailures /\ restarts \in 0..MaxRestarts
    /\ \A d \in Device : \A c \in calls[d] : c.awaits # None => flights[d][c.awaits] # None

(* A code keeps admitting until its grace ends, whatever codes were shown since  *)
(* and however often the app was closed: no sweep takes its nonce earlier.        *)
GraceKept ==
    \A d \in Device : \A n \in issued[d] : now <= n + Grace => n \in stored[d]

(* An echo that reaches its issuer in time makes the scanner a contact and a known *)
(* peer, and one that comes later does not.                                      *)
Handled(d, e) == /\ e \notin seen[d] \cup admitting[d]
                 /\ e \in seen'[d] \cup admitting'[d]
AdmittedExactlyInTime ==
    [][\A d \in Device : \A e \in echoes : Handled(d, e) =>
         IF now <= e.nonce + Grace
           THEN e.from \in known'[d] /\ contacts'[d][e.from] # Absent
           ELSE contacts'[d] = contacts[d] /\ known'[d] = known[d]]_vars

(* What the user decided about a contact stands: no echo, repeated or not, no scan *)
(* and no restart removes a contact, asks again for one that was confirmed or     *)
(* added by hand, or unblocks one.                                               *)
DecisionSticks ==
    [][\A d, p \in Device : contacts[d][p] # Absent =>
         /\ contacts'[d][p] # Absent
         /\ contacts'[d][p].pending => contacts[d][p].pending
         /\ contacts[d][p].archived => contacts'[d][p].archived \/ UnblockContact(d, p)]_vars

(* A held intent is given up only when its window is over, its issuer is blocked, *)
(* or an echo of it is on the relays: never by a failed send, a run that was       *)
(* shared or a restart.  The exception is an intent whose issuer has shown another *)
(* code too: a run of that one deletes it, as the deletion goes by issuer.         *)
GivesUpAnother(d, p) ==
    flights'[d][p] # None /\ flights'[d][p].nonce \in issued[p] \ {intents[d][p]}
HeldUntilSettled ==
    [][\A d, p \in Device : intents[d][p] # None /\ intents'[d][p] = None =>
         \/ now > intents[d][p] \/ IsBlocked(d, p)
         \/ \E e \in echoes : e.from = d /\ e.to = p /\ e.nonce = intents[d][p]
         \/ GivesUpAnother(d, p)]_vars
=============================================================================
