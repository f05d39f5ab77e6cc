-------------------------------- MODULE Daddy --------------------------------
(***************************************************************************)
(* A Daddy: the sessions of internal/network (messaging.go, daddy.go,      *)
(* protocol.go) on top of the tables of HeldStore.  A session belongs to   *)
(* the identity that the handshake authenticated and serves its requests   *)
(* one after the other; sessions, the goroutines that forward accepted     *)
(* envelopes (relayHeldMessage) and the cleanup run concurrently.          *)
(*                                                                         *)
(* Each step of a Daddy is a step of HeldStore or leaves its tables alone  *)
(* (StoreUsed): what HeldStoreProofs proves holds here.                    *)
(***************************************************************************)
EXTENDS HeldStore

CONSTANTS
  Forwarders,          \* the forwarding goroutines, enough for every user
  Closed,              \* a session that does not exist
  Done,                \* a forwarder that does not exist
  Unbound,             \* the mailbox of a session that has named none
  HeldMessageTTL,
  maxRouteLifetime,
  maxHeldMessageBatch,
  MailboxOwnersGlobal,
  RoutesPerIdentity,
  RelayForwardLimit    \* goroutines for the envelopes of one user

VARIABLES
  session,  \* the sessions being served; handler c of HeldStore serves c
  owner,    \* mailbox_owners
  route,    \* mailbox_routes: when the route of a mailbox expires, 0 for none
  forward,  \* the goroutines of scheduleRelayHeldMessage
  active,   \* relayForwardState.active
  handed    \* history: the identities each envelope has been handed to

daddyVars == <<session, owner, route, forward, active, handed>>

\* relaying: the handler at work is that of a GHOST_FORWARD.
Session == [peer : Users, mailbox : Mailboxes \cup {Unbound},
            fetched : SUBSET Envelopes, relaying : BOOLEAN]

Forward == [user : Users, id : Envelopes, mailbox : Mailboxes,
            phase : {"lookup", "dial", "delete"}]

ASSUME DaddyAssumption ==
  /\ Closed \notin Session
  /\ Done \notin Forward
  /\ Unbound \notin Mailboxes
  /\ HeldMessageTTL \in 1 .. MaxEnvelopeRetention
  /\ maxRouteLifetime \in Nat
  /\ maxHeldMessageBatch \in Nat \ {0}
  /\ MailboxOwnersGlobal \in Nat
  /\ RoutesPerIdentity \in Nat
  /\ RelayForwardLimit \in Nat
  /\ IsFiniteSet(Forwarders)

-----------------------------------------------------------------------------
(***************************************************************************)
(* Authorization                                                           *)
(***************************************************************************)

\* authorizeMailboxID: a session works for the first mailbox it names.
InScope(s, m) == session[s].mailbox \in {Unbound, m}
Bind(s, m) == IF InScope(s, m) THEN m ELSE session[s].mailbox

\* Mutant: the session's scope is enough.
ScopeOnly(s, m) == InScope(s, m)

\* authorizeMailboxOwner
Authorized(s, m) == InScope(s, m) /\ owner[m] = session[s].peer

\* The session is waiting for its next request.
Serving(s) == open /\ session[s] # Closed /\ call[s] = Idle

ActiveRoutes(u) == {m \in Mailboxes : owner[m] = u /\ route[m] > now}
Claimed == {m \in Mailboxes : owner[m] # NoUser}

-----------------------------------------------------------------------------
(***************************************************************************)
(* The sessions                                                            *)
(***************************************************************************)

DaddyInit ==
  /\ Init
  /\ session = [s \in Callers |-> Closed]
  /\ owner = [m \in Mailboxes |-> NoUser]
  /\ route = [m \in Mailboxes |-> 0]
  /\ forward = [f \in Forwarders |-> Done]
  /\ active = [u \in Users |-> 0]
  /\ handed = [e \in Envelopes |-> {}]

Accept(s, u) ==
  /\ open
  /\ session[s] = Closed
  /\ session' = [session EXCEPT ![s] =
                   [peer |-> u, mailbox |-> Unbound, fetched |-> {},
                    relaying |-> FALSE]]
  /\ UNCHANGED <<vars, owner, route, forward, active, handed>>

\* The peer closes the connection, or its deadline or its requests run out.
Close(s) ==
  /\ Serving(s)
  /\ session' = [session EXCEPT ![s] = Closed]
  /\ UNCHANGED <<vars, owner, route, forward, active, handed>>

Capped(expires) ==
  IF expires > now + maxRouteLifetime THEN now + maxRouteLifetime ELSE expires

\* SetOwnedMailboxRoute: the first registration of a mailbox claims it.  A claim
\* made by a transaction that then meets the route quota is rolled back.
SetOwned(u, m, expires) ==
  IF /\ expires > now
     /\ \/ owner[m] = u
        \/ /\ owner[m] = NoUser
           /\ Cardinality(Claimed) < MailboxOwnersGlobal
     /\ Cardinality(ActiveRoutes(u) \ {m}) < RoutesPerIdentity
  THEN /\ owner' = [owner EXCEPT ![m] = u]
       /\ route' = [route EXCEPT ![m] = expires]
  ELSE UNCHANGED <<owner, route>>

\* handleRegisterRoute: a refusal is answered and leaves the session open.
RegisterRoute(s, m, expires) ==
  /\ Serving(s)
  /\ session' = [session EXCEPT ![s].mailbox = Bind(s, m)]
  /\ IF InScope(s, m)
     THEN SetOwned(session[s].peer, m, Capped(expires))
     ELSE UNCHANGED <<owner, route>>
  /\ UNCHANGED <<vars, forward, active, handed>>

\* handleHoldMessage, up to the transaction.  The mailbox an envelope is for is
\* not in the session's scope: anyone may write to it.
Hold(s, q) ==
  /\ Serving(s)
  /\ q.user = session[s].peer
  /\ BeginHold(s, q, now + HeldMessageTTL)
  /\ UNCHANGED daddyVars

StoreHold(s) ==
  /\ CommitHold(s) \/ FailHold(s)
  /\ UNCHANGED daddyVars

\* DeleteExpiredMailboxRoutes
Swept == [m \in Mailboxes |-> IF route[m] > now THEN route[m] ELSE 0]

\* handleGhostForward: the mailbox's route and the other Daddies are tried in
\* turn; the envelope is held here when nobody takes it.
GhostForward(s, q) ==
  /\ Serving(s)
  /\ q.user = session[s].peer
  /\ \/ UNCHANGED route
     \/ route[q.mailbox] > now /\ route' = Swept
  /\ \/ UNCHANGED <<vars, session>>
     \/ /\ BeginHold(s, q, now + HeldMessageTTL)
        /\ session' = [session EXCEPT ![s].relaying = TRUE]
  /\ UNCHANGED <<owner, forward, active, handed>>

\* scheduleRelayHeldMessage
Schedule(u, q) ==
  IF active[u] >= RelayForwardLimit
  THEN UNCHANGED <<forward, active>>
  ELSE \E f \in Forwarders :
         /\ forward[f] = Done
         /\ forward' = [forward EXCEPT ![f] =
                          [user |-> u, id |-> q.id, mailbox |-> q.mailbox,
                           phase |-> "lookup"]]
         /\ active' = [active EXCEPT ![u] = @ + 1]

\* The answer; when it cannot be sent the session ends and nothing is forwarded.
\* An envelope held by a GHOST_FORWARD waits for its owner.
HoldAck(s) ==
  /\ Return(s)
  /\ \/ /\ call[s].status = "held" /\ ~session[s].relaying
        /\ Schedule(session[s].peer, call[s].request)
        /\ UNCHANGED session
     \/ /\ call[s].status # "held" \/ session[s].relaying
        /\ session' = [session EXCEPT ![s].relaying = FALSE]
        /\ UNCHANGED <<forward, active>>
     \/ /\ session' = [session EXCEPT ![s] = Closed]
        /\ UNCHANGED <<forward, active>>
  /\ UNCHANGED <<owner, route, handed>>

\* ListOpaqueHeldMessages: unexpired rows, as many as fit.  Which ones, when
\* there are more, is left open here (MailFlow).
Batches(m) ==
  LET rows == Addressed(Unexpired(held, now), m) IN
  {batch \in SUBSET rows : /\ Cardinality(batch) <= maxHeldMessageBatch
                           /\ batch = {} => rows = {}}

\* handleFetchMessages: an owner is handed a batch.
FetchMessages(s, m) ==
  /\ Serving(s)
  /\ IF Authorized(s, m)
     THEN \E batch \in Batches(m) :
            LET ids == {r.id : r \in batch} IN
            /\ session' = [session EXCEPT ![s].mailbox = m,
                                          ![s].fetched = @ \cup ids]
            /\ handed' = [e \in Envelopes |->
                            IF e \in ids
                            THEN handed[e] \cup {session[s].peer}
                            ELSE handed[e]]
     ELSE /\ session' = [session EXCEPT ![s].mailbox = Bind(s, m)]
          /\ UNCHANGED handed
  /\ UNCHANGED <<vars, owner, route, forward, active>>

\* Mutant: the envelope need not have been offered in this session.
AckAnything(s, id, m, status) ==
  /\ Serving(s)
  /\ \/ /\ Authorized(s, m)
        /\ status = "delivered"
        /\ Delete(id, m)
        /\ UNCHANGED session
     \/ /\ ~Authorized(s, m)
        /\ session' = [session EXCEPT ![s] = Closed]
        /\ UNCHANGED vars
  /\ UNCHANGED <<owner, route, forward, active, handed>>

\* handleDeliveryAck.  Every error ends the session: an acknowledgement of an
\* envelope that was not offered in it, or was already acknowledged, or whose
\* row is gone.  A rejected envelope stays.
DeliveryAck(s, id, m, status) ==
  LET valid == Authorized(s, m) /\ id \in session[s].fetched
      gone  == \A r \in held : r.id # id \/ r.mailbox # m
      acked == [session EXCEPT ![s].mailbox = m, ![s].fetched = @ \ {id}]
  IN /\ Serving(s)
     /\ \/ /\ valid /\ status = "delivered"
           /\ Delete(id, m)
           /\ session' = acked
        \/ /\ valid /\ status = "rejected"
           /\ session' = acked
           /\ UNCHANGED vars
        \/ /\ ~valid \/ (status = "delivered" /\ gone)
           /\ session' = [session EXCEPT ![s] = Closed]
           /\ UNCHANGED vars
     /\ UNCHANGED <<owner, route, forward, active, handed>>

-----------------------------------------------------------------------------
(***************************************************************************)
(* relayHeldMessage, a goroutine with a slot of the submitter's            *)
(***************************************************************************)

\* Mutant: the slot is given back when the envelope was delivered only.
FinishDelivered(f) ==
  /\ forward' = [forward EXCEPT ![f] = Done]
  /\ active' = IF forward[f].phase = "delete"
               THEN [active EXCEPT ![forward[f].user] = @ - 1] ELSE active

\* The deferred release of the slot.
Finish(f) ==
  /\ forward' = [forward EXCEPT ![f] = Done]
  /\ active' = [active EXCEPT ![forward[f].user] = @ - 1]

\* GetMailboxRoute
ForwardLookup(f) ==
  /\ forward[f] # Done
  /\ forward[f].phase = "lookup"
  /\ IF route[forward[f].mailbox] > now
     THEN /\ forward' = [forward EXCEPT ![f].phase = "dial"]
          /\ UNCHANGED active
     ELSE Finish(f)
  /\ UNCHANGED <<vars, session, owner, route, handed>>

\* Mutant: whoever answers is the recipient.
ForwardDialAnyone(f, u) ==
  /\ forward[f] # Done
  /\ forward[f].phase = "dial"
  /\ handed' = [handed EXCEPT ![forward[f].id] = @ \cup {u}]
  /\ forward' = [forward EXCEPT ![f].phase = "delete"]
  /\ UNCHANGED <<vars, session, owner, route, active>>

\* deliverEnvelopeToAddress: identity u answers at the address of the route.
\* The envelope is sent to an owner only, who may refuse it or whose answer may
\* be lost.
ForwardDial(f, u) ==
  /\ forward[f] # Done
  /\ forward[f].phase = "dial"
  /\ IF owner[forward[f].mailbox] = u
     THEN /\ handed' = [handed EXCEPT ![forward[f].id] = @ \cup {u}]
          /\ \/ /\ forward' = [forward EXCEPT ![f].phase = "delete"]
                /\ UNCHANGED active
             \/ Finish(f)
     ELSE UNCHANGED handed /\ Finish(f)
  /\ UNCHANGED <<vars, session, owner, route>>

\* Nobody answers.
ForwardFail(f) ==
  /\ forward[f] # Done
  /\ forward[f].phase = "dial"
  /\ Finish(f)
  /\ UNCHANGED <<vars, session, owner, route, handed>>

\* Mutant: what was delivered may be held again.
ForwardForgets(f) ==
  /\ forward[f] # Done
  /\ forward[f].phase = "delete"
  /\ \/ DeleteForgets(forward[f].id, forward[f].mailbox)
     \/ /\ \A r \in held : r.id # forward[f].id \/ r.mailbox # forward[f].mailbox
        /\ UNCHANGED vars
  /\ Finish(f)
  /\ UNCHANGED <<session, owner, route, handed>>

\* The envelope was delivered; that its row is gone already is no error.
ForwardDelete(f) ==
  /\ forward[f] # Done
  /\ forward[f].phase = "delete"
  /\ \/ Delete(forward[f].id, forward[f].mailbox)
     \/ /\ \A r \in held : r.id # forward[f].id \/ r.mailbox # forward[f].mailbox
        /\ UNCHANGED vars
  /\ Finish(f)
  /\ UNCHANGED <<session, owner, route, handed>>

-----------------------------------------------------------------------------
(***************************************************************************)
(* The daemon                                                              *)
(***************************************************************************)

\* StartCleanupRoutine: two statements, each of which may fail on its own.
CleanEnvelopes == Expire /\ UNCHANGED daddyVars

CleanRoutes ==
  /\ open
  /\ route' = Swept
  /\ UNCHANGED <<vars, session, owner, forward, active, handed>>

Start == Open /\ UNCHANGED daddyVars

\* Sessions and goroutines die with the process; the tables stay.
Stop ==
  /\ Crash
  /\ session' = [s \in Callers |-> Closed]
  /\ forward' = [f \in Forwarders |-> Done]
  /\ active' = [u \in Users |-> 0]
  /\ UNCHANGED <<owner, route, handed>>

Clock == Tick /\ UNCHANGED daddyVars

Forwarding(f) ==
  \/ ForwardLookup(f)
  \/ \E u \in Users : ForwardDial(f, u)
  \/ ForwardFail(f)
  \/ ForwardDelete(f)

DaddyNext ==
  \/ \E s \in Callers :
       \/ \E u \in Users : Accept(s, u)
       \/ Close(s)
       \/ \E q \in Submissions : Hold(s, q) \/ GhostForward(s, q)
       \/ StoreHold(s)
       \/ HoldAck(s)
       \/ \E m \in Mailboxes :
            \/ \E expires \in now .. now + maxRouteLifetime + 1 :
                 RegisterRoute(s, m, expires)
            \/ FetchMessages(s, m)
            \/ \E id \in Envelopes, status \in {"delivered", "rejected"} :
                 DeliveryAck(s, id, m, status)
  \/ \E f \in Forwarders : Forwarding(f)
  \/ CleanEnvelopes
  \/ CleanRoutes
  \/ Start
  \/ Stop
  \/ Clock

DaddySpec == DaddyInit /\ [][DaddyNext]_<<vars, daddyVars>>

-----------------------------------------------------------------------------
(***************************************************************************)
(* Properties                                                              *)
(***************************************************************************)

\* The types of the sessions, of the registrations and of the forwarders.
DaddyTypeOK ==
  /\ session \in [Callers -> Session \cup {Closed}]
  /\ owner \in [Mailboxes -> Users \cup {NoUser}]
  /\ route \in [Mailboxes -> Nat]
  /\ forward \in [Forwarders -> Forward \cup {Done}]
  /\ active \in [Users -> Nat]
  /\ handed \in [Envelopes -> SUBSET Users]

\* A session that has envelopes to acknowledge belongs to the owner of the only
\* mailbox it works for, and was handed every one of them.
SessionsAreScoped ==
  \A s \in Callers :
    (session[s] # Closed /\ session[s].fetched # {}) =>
      /\ session[s].mailbox # Unbound
      /\ owner[session[s].mailbox] = session[s].peer
      /\ \A e \in session[s].fetched : session[s].peer \in handed[e]

\* An envelope is only ever handed to the identity that owns its mailbox, by a
\* fetch or by a forwarder, whoever answers at the address of its route.
OnlyOwnersReceive ==
  \A q \in Submissions :
    (\A p \in Submissions \cup LegacyRows :
       p.id = q.id => p.mailbox = q.mailbox) =>
      handed[q.id] \subseteq {owner[q.mailbox]}

\* An envelope leaves the Daddy before it has expired only when the owner of
\* its mailbox has been handed it: no acknowledgement out of order, forwarder
\* that lost its race with a fetch, or restart removes what nobody received.
RemovedOnlyWhenHanded ==
  [][\A r \in held :
       r \notin held' =>
         r.expires <= now \/ owner[r.mailbox] \in handed[r.id]]_<<vars, daddyVars>>

\* Until it expires, an envelope that the replay guard knows, and will not hold
\* again, is still held or has been handed to the owner of its mailbox.  With
\* AcknowledgedIsRecorded: whoever was told "held" or "already_stored" need not
\* send again, whatever acknowledgements, forwarders and restarts do.
KeptUntilHanded ==
  \A r \in dedup :
    r.expires > now => r \in held \/ owner[r.mailbox] \in handed[r.id]

\* The slots counted for a user are the forwarders that work for it, never more
\* than the limit: every way a forwarder ends gives its slot back, once.
ForwardsAccounted ==
  \A u \in Users :
    /\ active[u] = Cardinality({f \in Forwarders :
                                  forward[f] # Done /\ forward[f].user = u})
    /\ active[u] <= RelayForwardLimit

\* However many sessions register at once, no identity keeps more routes, and
\* the Daddy no more owners, than the limits (SetOwnedMailboxRoute).
RegistrationsBounded ==
  /\ Cardinality(Claimed) <= MailboxOwnersGlobal
  /\ \A u \in Users : Cardinality(ActiveRoutes(u)) <= RoutesPerIdentity

\* What one identity can take of a Daddy, beyond the tables, is bounded.
LimitsKept == ForwardsAccounted /\ RegistrationsBounded

\* A mailbox that was claimed is never anybody else's.
OwnersAreFinal ==
  [][\A m \in Mailboxes :
       owner[m] # NoUser => owner'[m] = owner[m]]_<<vars, daddyVars>>

\* A handler at work has a session, of the identity its request is charged to.
HandlersServe ==
  \A s \in Callers :
    call[s] # Idle => /\ session[s] # Closed
                      /\ session[s].peer = call[s].request.user

\* A forwarder that is about to delete an envelope delivered it to the owner.
ForwardersAreHonest ==
  \A f \in Forwarders :
    (forward[f] # Done /\ forward[f].phase = "delete") =>
      /\ owner[forward[f].mailbox] \in Users
      /\ owner[forward[f].mailbox] \in handed[forward[f].id]

\* Sessions, handlers and forwarders act on behalf of the identities they were
\* started for, in every interleaving with each other, with the cleanup and
\* with restarts.  Inductive, given TypeOK (DaddyProofs).
DaddyInv ==
  /\ DaddyTypeOK
  /\ SessionsAreScoped
  /\ HandlersServe
  /\ ForwardersAreHonest
  /\ ForwardsAccounted

\* A Daddy uses its tables through the operations of HeldStore only, so that
\* the theorems of HeldStoreProofs are about it.
StoreUsed == Spec
==============================================================================
