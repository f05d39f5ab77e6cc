----------------------------- MODULE DaddyProofs -----------------------------
(***************************************************************************)
(* Proofs about Daddy, for every set of sessions, identities, mailboxes,   *)
(* envelopes and forwarders.  HeldStoreProofs carries over through         *)
(* TablesUsedAsSpecified.                                                  *)
(***************************************************************************)
EXTENDS Daddy, HeldStoreProofs

allVars == <<vars, daddyVars>>

-----------------------------------------------------------------------------
(***************************************************************************)
(* The tables                                                              *)
(***************************************************************************)

\* A hold asks for an expiry that HeldStore allows.
LEMMA TTLAllowed ==
  ASSUME TypeOK
  PROVE  now + HeldMessageTTL \in now .. now + MaxEnvelopeRetention + 1
BY DaddyAssumption, HeldStoreAssumption DEF TypeOK

LEMMA StepUsesStore ==
  ASSUME TypeOK, DaddyTypeOK, [DaddyNext]_allVars
  PROVE  [Next]_vars
<1>1. ASSUME NEW s \in Callers, NEW u \in Users, Accept(s, u)
      PROVE  [Next]_vars
  BY <1>1 DEF Accept
<1>2. ASSUME NEW s \in Callers, Close(s)
      PROVE  [Next]_vars
  BY <1>2 DEF Close
<1>3. ASSUME NEW s \in Callers, NEW q \in Submissions,
             Hold(s, q) \/ GhostForward(s, q)
      PROVE  [Next]_vars
  BY <1>3, TTLAllowed DEF Hold, GhostForward, Next
<1>4. ASSUME NEW s \in Callers, StoreHold(s)
      PROVE  [Next]_vars
  BY <1>4 DEF StoreHold, Next
<1>5. ASSUME NEW s \in Callers, HoldAck(s)
      PROVE  [Next]_vars
  BY <1>5 DEF HoldAck, Next
<1>6. ASSUME NEW s \in Callers, NEW m \in Mailboxes, NEW expires,
             RegisterRoute(s, m, expires)
      PROVE  [Next]_vars
  BY <1>6 DEF RegisterRoute
<1>7. ASSUME NEW s \in Callers, NEW m \in Mailboxes, FetchMessages(s, m)
      PROVE  [Next]_vars
  BY <1>7 DEF FetchMessages
<1>8. ASSUME NEW s \in Callers, NEW m \in Mailboxes, NEW id \in Envelopes,
             NEW status, DeliveryAck(s, id, m, status)
      PROVE  [Next]_vars
  BY <1>8 DEF DeliveryAck, Next
<1>9. ASSUME NEW f \in Forwarders, Forwarding(f)
      PROVE  [Next]_vars
  BY <1>9 DEF Forwarding, ForwardLookup, ForwardDial, ForwardFail,
              ForwardDelete, Next, DaddyTypeOK, Forward
<1>10. CASE CleanEnvelopes \/ CleanRoutes \/ Start \/ Stop \/ Clock
  BY <1>10 DEF CleanEnvelopes, CleanRoutes, Start, Stop, Clock, Next
<1>11. CASE UNCHANGED allVars
  BY <1>11 DEF allVars
<1>12. QED
  BY <1>1, <1>2, <1>3, <1>4, <1>5, <1>6, <1>7, <1>8, <1>9, <1>10, <1>11
     DEF DaddyNext

-----------------------------------------------------------------------------
(***************************************************************************)
(* The slots of the forwarders                                             *)
(***************************************************************************)

Working(u) == {f \in Forwarders : forward[f] # Done /\ forward[f].user = u}

\* Taking a slot and giving one back, the only changes to the counters.
TakesSlot(u, q) ==
  \E f \in Forwarders :
    /\ active[u] < RelayForwardLimit
    /\ forward[f] = Done
    /\ forward' = [forward EXCEPT ![f] =
                     [user |-> u, id |-> q.id, mailbox |-> q.mailbox,
                      phase |-> "lookup"]]
    /\ active' = [active EXCEPT ![u] = @ + 1]

LEMMA WorkingFinite ==
  ASSUME NEW u
  PROVE  /\ IsFiniteSet(Working(u))
         /\ Cardinality(Working(u)) \in Nat
<1>1. Working(u) \in SUBSET Forwarders
  BY DEF Working
<1>2. QED
  BY <1>1, DaddyAssumption, FS_Subset, FS_CardinalityType

LEMMA TakingASlot ==
  ASSUME DaddyTypeOK, ForwardsAccounted, NEW u \in Users, NEW q \in Submission,
         TakesSlot(u, q)
  PROVE  /\ forward' \in [Forwarders -> Forward \cup {Done}]
         /\ active' \in [Users -> Nat]
         /\ ForwardsAccounted'
<1> USE DaddyAssumption
<1>1. PICK f \in Forwarders :
        /\ active[u] < RelayForwardLimit
        /\ forward[f] = Done
        /\ forward' = [forward EXCEPT ![f] =
                         [user |-> u, id |-> q.id, mailbox |-> q.mailbox,
                          phase |-> "lookup"]]
        /\ active' = [active EXCEPT ![u] = @ + 1]
  BY DEF TakesSlot
<1>2. [user |-> u, id |-> q.id, mailbox |-> q.mailbox, phase |-> "lookup"]
        \in Forward
  BY DEF Forward, Submission
<1>3. forward' \in [Forwarders -> Forward \cup {Done}]
  BY <1>1, <1>2 DEF DaddyTypeOK
<1>4. active' \in [Users -> Nat]
  BY <1>1 DEF DaddyTypeOK
<1>5. /\ forward'[f] # Done /\ forward'[f].user = u
      /\ \A g \in Forwarders : g # f => forward'[g] = forward[g]
  BY <1>1, <1>2 DEF DaddyTypeOK
<1>6. Working(u)' = Working(u) \cup {f} /\ f \notin Working(u)
  BY <1>1, <1>5 DEF Working
<1>7. \A v \in Users : v # u => Working(v)' = Working(v)
  BY <1>1, <1>5 DEF Working
<1>8. Cardinality(Working(u)') = Cardinality(Working(u)) + 1
  BY <1>6, WorkingFinite, FS_AddElement
<1>9. ForwardsAccounted'
  <2> SUFFICES ASSUME NEW v \in Users
               PROVE  /\ active'[v] = Cardinality(Working(v)')
                      /\ active'[v] <= RelayForwardLimit
    BY DEF ForwardsAccounted, Working
  <2>1. active[v] = Cardinality(Working(v)) /\ active[v] <= RelayForwardLimit
    BY DEF ForwardsAccounted, Working
  <2>2. CASE v = u
    BY <1>1, <1>8, <2>1, <2>2 DEF DaddyTypeOK
  <2>3. CASE v # u
    BY <1>1, <1>7, <2>1, <2>3 DEF DaddyTypeOK
  <2>4. QED
    BY <2>2, <2>3
<1>10. QED
  BY <1>3, <1>4, <1>9

LEMMA GivingASlotBack ==
  ASSUME DaddyTypeOK, ForwardsAccounted, NEW f \in Forwarders,
         forward[f] # Done, Finish(f)
  PROVE  /\ forward' \in [Forwarders -> Forward \cup {Done}]
         /\ active' \in [Users -> Nat]
         /\ ForwardsAccounted'
<1> USE DaddyAssumption
<1>1. PICK u \in Users : u = forward[f].user
  BY DEF DaddyTypeOK, Forward
<1>2. forward' = [forward EXCEPT ![f] = Done]
  BY DEF Finish
<1>3. active' = [active EXCEPT ![u] = @ - 1]
  BY <1>1 DEF Finish
<1>4. f \in Working(u) /\ Working(u)' = Working(u) \ {f}
  BY <1>1, <1>2 DEF Working, DaddyTypeOK
<1>5. \A v \in Users : v # u => Working(v)' = Working(v)
  BY <1>1, <1>2 DEF Working, DaddyTypeOK
<1>6. Cardinality(Working(u)') = Cardinality(Working(u)) - 1
  BY <1>4, WorkingFinite, FS_RemoveElement
<1>7. Cardinality(Working(u)') \in Nat
  <2>1. IsFiniteSet(Working(u)')
    BY <1>4, WorkingFinite, FS_RemoveElement
  <2>2. QED
    BY <2>1, FS_CardinalityType
<1>8. forward' \in [Forwarders -> Forward \cup {Done}]
  BY <1>2 DEF DaddyTypeOK
<1>9. active[u] = Cardinality(Working(u)) /\ active[u] <= RelayForwardLimit
  BY <1>1 DEF ForwardsAccounted, Working
<1>10. active' \in [Users -> Nat]
  BY <1>1, <1>3, <1>6, <1>7, <1>9 DEF DaddyTypeOK
<1>11. ForwardsAccounted'
  <2> SUFFICES ASSUME NEW v \in Users
               PROVE  /\ active'[v] = Cardinality(Working(v)')
                      /\ active'[v] <= RelayForwardLimit
    BY DEF ForwardsAccounted, Working
  <2>1. active[v] = Cardinality(Working(v)) /\ active[v] <= RelayForwardLimit
    BY DEF ForwardsAccounted, Working
  <2>2. CASE v = u
    BY <1>1, <1>3, <1>6, <1>7, <2>1, <2>2 DEF DaddyTypeOK
  <2>3. CASE v # u
    BY <1>3, <1>5, <2>1, <2>3 DEF DaddyTypeOK
  <2>4. QED
    BY <2>2, <2>3
<1>12. QED
  BY <1>8, <1>10, <1>11

-----------------------------------------------------------------------------
(***************************************************************************)
(* The inductive invariant                                                 *)
(***************************************************************************)

\* The parts about the sessions and the forwarders that neither the store nor
\* the clock can disturb.
Local ==
  /\ DaddyTypeOK
  /\ SessionsAreScoped
  /\ ForwardersAreHonest
  /\ ForwardsAccounted

LEMMA UnchangedKeepsLocal ==
  ASSUME Local, UNCHANGED daddyVars
  PROVE  Local'
BY DEF Local, DaddyTypeOK, SessionsAreScoped, ForwardersAreHonest,
       ForwardsAccounted, daddyVars

LEMMA InitLocal ==
  ASSUME DaddyInit
  PROVE  Local
<1>1. DaddyTypeOK
  BY DEF DaddyInit, DaddyTypeOK
<1>2. SessionsAreScoped
  BY DEF DaddyInit, SessionsAreScoped
<1>3. ForwardersAreHonest
  BY DEF DaddyInit, ForwardersAreHonest
<1>4. ForwardsAccounted
  <2> SUFFICES ASSUME NEW u \in Users
               PROVE  /\ active[u] = Cardinality(Working(u))
                      /\ active[u] <= RelayForwardLimit
    BY DEF ForwardsAccounted, Working
  <2>1. Working(u) = {}
    BY DEF DaddyInit, Working
  <2>2. QED
    BY <2>1, FS_EmptySet, DaddyAssumption DEF DaddyInit
<1>5. QED
  BY <1>1, <1>2, <1>3, <1>4 DEF Local

LEMMA AcceptKeeps ==
  ASSUME Local, NEW s \in Callers, NEW u \in Users, Accept(s, u)
  PROVE  Local'
<1>1. [peer |-> u, mailbox |-> Unbound, fetched |-> {}, relaying |-> FALSE]
        \in Session
  BY DEF Session
<1>2. DaddyTypeOK'
  BY <1>1 DEF Accept, Local, DaddyTypeOK
<1>3. SessionsAreScoped'
  BY DEF Accept, Local, SessionsAreScoped, DaddyTypeOK
<1>4. ForwardersAreHonest' /\ ForwardsAccounted'
  BY DEF Accept, Local, ForwardersAreHonest, ForwardsAccounted
<1>5. QED
  BY <1>2, <1>3, <1>4 DEF Local

LEMMA CloseKeeps ==
  ASSUME Local, NEW s \in Callers,
         session' = [session EXCEPT ![s] = Closed],
         UNCHANGED <<owner, route, forward, active, handed>>
  PROVE  Local'
<1>1. DaddyTypeOK'
  BY DEF Local, DaddyTypeOK
<1>2. SessionsAreScoped'
  BY DEF Local, SessionsAreScoped, DaddyTypeOK
<1>3. ForwardersAreHonest' /\ ForwardsAccounted'
  BY DEF Local, ForwardersAreHonest, ForwardsAccounted
<1>4. QED
  BY <1>1, <1>2, <1>3 DEF Local

\* What a handler is doing concerns nobody else.
LEMMA RelayingKeeps ==
  ASSUME Local, NEW s \in Callers, session[s] # Closed, NEW busy \in BOOLEAN,
         session' = [session EXCEPT ![s].relaying = busy],
         UNCHANGED <<owner, forward, active, handed>>,
         route' \in [Mailboxes -> Nat]
  PROVE  Local'
<1>1. session[s] \in Session
  BY DEF Local, DaddyTypeOK
<1>2. \A c \in Callers :
        session[c] # Closed =>
          /\ session'[c].mailbox = session[c].mailbox
          /\ session'[c].peer = session[c].peer
          /\ session'[c].fetched = session[c].fetched
  BY <1>1 DEF Local, DaddyTypeOK, Session
<1>3. \A c \in Callers : session'[c] # Closed => session[c] # Closed
  BY DEF Local, DaddyTypeOK
<1>4. session' \in [Callers -> Session \cup {Closed}]
  BY <1>1 DEF Local, DaddyTypeOK, Session
<1>5. DaddyTypeOK'
  BY <1>4 DEF Local, DaddyTypeOK
<1>6. SessionsAreScoped'
  BY <1>2, <1>3 DEF Local, SessionsAreScoped
<1>7. ForwardersAreHonest' /\ ForwardsAccounted'
  BY DEF Local, ForwardersAreHonest, ForwardsAccounted
<1>8. QED
  BY <1>5, <1>6, <1>7 DEF Local

LEMMA SweptRoutes ==
  ASSUME Local
  PROVE  Swept \in [Mailboxes -> Nat]
BY DEF Local, DaddyTypeOK, Swept

LEMMA GhostForwardKeeps ==
  ASSUME Local, NEW s \in Callers, NEW q \in Submissions, GhostForward(s, q)
  PROVE  Local'
<1>1. /\ session[s] # Closed
      /\ route' \in [Mailboxes -> Nat]
      /\ UNCHANGED <<owner, forward, active, handed>>
  BY SweptRoutes DEF GhostForward, Serving, Local, DaddyTypeOK
<1>2. CASE session' = [session EXCEPT ![s].relaying = TRUE]
  BY <1>1, <1>2, RelayingKeeps
<1>3. CASE UNCHANGED session
  <2>1. DaddyTypeOK'
    BY <1>1, <1>3 DEF Local, DaddyTypeOK
  <2>2. SessionsAreScoped' /\ ForwardersAreHonest' /\ ForwardsAccounted'
    BY <1>1, <1>3 DEF Local, SessionsAreScoped, ForwardersAreHonest,
                      ForwardsAccounted
  <2>3. QED
    BY <2>1, <2>2 DEF Local
<1>4. QED
  BY <1>2, <1>3 DEF GhostForward

LEMMA BoundSession ==
  ASSUME DaddyTypeOK, NEW s \in Callers, session[s] # Closed,
         NEW m \in Mailboxes
  PROVE  /\ session[s] \in Session
         /\ Bind(s, m) \in Mailboxes
         /\ [session[s] EXCEPT !.mailbox = Bind(s, m)] \in Session
         /\ session[s].mailbox # Unbound => Bind(s, m) = session[s].mailbox
         /\ session[s].peer \in Users
<1>1. session[s] \in Session
  BY DEF DaddyTypeOK
<1>2. Bind(s, m) \in Mailboxes
  BY <1>1 DEF Bind, InScope, Session
<1>3. QED
  BY <1>1, <1>2, DaddyAssumption DEF Bind, InScope, Session

LEMMA RegisterKeeps ==
  ASSUME TypeOK, Local, NEW s \in Callers, NEW m \in Mailboxes,
         NEW expires \in Nat, RegisterRoute(s, m, expires)
  PROVE  Local'
<1> USE DaddyAssumption, HeldStoreAssumption
<1>1. /\ session[s] # Closed
      /\ session' = [session EXCEPT ![s].mailbox = Bind(s, m)]
      /\ UNCHANGED <<forward, active, handed>>
  BY DEF RegisterRoute, Serving
<1>2. \/ owner' = owner
      \/ /\ owner[m] \in {NoUser, session[s].peer}
         /\ owner' = [owner EXCEPT ![m] = session[s].peer]
  BY DEF RegisterRoute, SetOwned
<1>3. route' \in [Mailboxes -> Nat]
  BY DEF RegisterRoute, SetOwned, Capped, Local, DaddyTypeOK, TypeOK
<1>4. session[s].peer \in Users
  BY <1>1, BoundSession DEF Local
<1>5. owner' \in [Mailboxes -> Users \cup {NoUser}]
  BY <1>2, <1>4 DEF Local, DaddyTypeOK
<1>6. session' \in [Callers -> Session \cup {Closed}]
  BY <1>1, BoundSession DEF Local, DaddyTypeOK
<1>7. \A n \in Mailboxes : owner[n] \in Users => owner'[n] = owner[n]
  BY <1>2 DEF Local, DaddyTypeOK
<1>8. DaddyTypeOK'
  BY <1>1, <1>3, <1>5, <1>6 DEF Local, DaddyTypeOK
<1>9. SessionsAreScoped'
  <2> SUFFICES ASSUME NEW c \in Callers,
                      session'[c] # Closed, session'[c].fetched # {}
               PROVE  /\ session'[c].mailbox # Unbound
                      /\ owner'[session'[c].mailbox] = session'[c].peer
                      /\ \A e \in session'[c].fetched :
                           session'[c].peer \in handed'[e]
    BY DEF SessionsAreScoped
  <2>1. session[c] # Closed /\ session[c] \in Session
    BY <1>1 DEF Local, DaddyTypeOK
  <2>2. /\ session'[c].fetched = session[c].fetched
        /\ session'[c].peer = session[c].peer
    BY <1>1, <2>1 DEF Local, DaddyTypeOK, Session
  <2>3. /\ session[c].mailbox # Unbound
        /\ owner[session[c].mailbox] = session[c].peer
        /\ \A e \in session[c].fetched : session[c].peer \in handed[e]
    BY <2>1, <2>2 DEF Local, SessionsAreScoped
  <2>4. session'[c].mailbox = session[c].mailbox
    BY <1>1, <2>1, <2>3, BoundSession DEF Local, DaddyTypeOK, Session
  <2>5. session[c].mailbox \in Mailboxes /\ session[c].peer \in Users
    BY <2>1, <2>3 DEF Session
  <2>6. QED
    BY <1>1, <1>7, <2>2, <2>3, <2>4, <2>5
<1>10. ForwardersAreHonest'
  BY <1>1, <1>7 DEF Local, DaddyTypeOK, ForwardersAreHonest, Forward
<1>11. ForwardsAccounted'
  BY <1>1 DEF Local, ForwardsAccounted
<1>12. QED
  BY <1>8, <1>9, <1>10, <1>11 DEF Local

LEMMA SlotStepKeeps ==
  ASSUME Local, UNCHANGED <<session, owner, route>>,
         forward' \in [Forwarders -> Forward \cup {Done}],
         active' \in [Users -> Nat], ForwardsAccounted',
         handed' \in [Envelopes -> SUBSET Users],
         \A e \in Envelopes : handed[e] \subseteq handed'[e],
         \A f \in Forwarders :
           (forward'[f] # Done /\ forward'[f].phase = "delete") =>
             \/ forward'[f] = forward[f]
             \/ /\ owner[forward'[f].mailbox] \in Users
                /\ owner[forward'[f].mailbox] \in handed'[forward'[f].id]
  PROVE  Local'
<1>1. DaddyTypeOK'
  BY DEF Local, DaddyTypeOK
<1>2. SessionsAreScoped'
  BY DEF Local, SessionsAreScoped, DaddyTypeOK, Session
<1>3. ForwardersAreHonest'
  BY DEF Local, ForwardersAreHonest, DaddyTypeOK, Forward
<1>4. QED
  BY <1>1, <1>2, <1>3 DEF Local

LEMMA FinishKeeps ==
  ASSUME Local, NEW f \in Forwarders, forward[f] # Done, Finish(f),
         UNCHANGED <<session, owner, route>>,
         handed' \in [Envelopes -> SUBSET Users],
         \A e \in Envelopes : handed[e] \subseteq handed'[e]
  PROVE  Local'
<1>1. /\ forward' \in [Forwarders -> Forward \cup {Done}]
      /\ active' \in [Users -> Nat]
      /\ ForwardsAccounted'
  BY GivingASlotBack DEF Local
<1>2. \A g \in Forwarders : forward'[g] # Done => forward'[g] = forward[g]
  BY DEF Finish, Local, DaddyTypeOK
<1>3. QED
  BY <1>1, <1>2, SlotStepKeeps

LEMMA HoldAckKeeps ==
  ASSUME TypeOK, Local, NEW s \in Callers, session[s] # Closed, HoldAck(s)
  PROVE  Local'
<1>1. CASE /\ session' = [session EXCEPT ![s].relaying = FALSE]
           /\ UNCHANGED <<forward, active>>
  <2>1. UNCHANGED <<owner, route, handed>>
    BY DEF HoldAck
  <2>2. route' \in [Mailboxes -> Nat]
    BY <2>1 DEF Local, DaddyTypeOK
  <2>3. QED
    BY <1>1, <2>1, <2>2, RelayingKeeps
<1>2. CASE /\ session' = [session EXCEPT ![s] = Closed]
           /\ UNCHANGED <<forward, active>>
  BY <1>2, CloseKeeps DEF HoldAck
<1>3. CASE Schedule(session[s].peer, call[s].request) /\ UNCHANGED session
  <2>1. UNCHANGED <<session, owner, route, handed>>
    BY <1>3 DEF HoldAck
  <2>2. PICK u \in Users : u = session[s].peer
    BY DEF Local, DaddyTypeOK, Session
  <2>3. PICK q \in Submission : q = call[s].request
    BY DEF HoldAck, Return, TypeOK, Call
  <2>4. CASE UNCHANGED <<forward, active>>
    BY <2>1, <2>4, UnchangedKeepsLocal DEF daddyVars
  <2>5. CASE TakesSlot(u, q)
    <3>1. /\ forward' \in [Forwarders -> Forward \cup {Done}]
          /\ active' \in [Users -> Nat]
          /\ ForwardsAccounted'
      BY <2>5, TakingASlot DEF Local
    <3>2. \A g \in Forwarders :
            forward'[g] = forward[g] \/ forward'[g].phase = "lookup"
      BY <2>5 DEF TakesSlot, Local, DaddyTypeOK
    <3>3. QED
      BY <2>1, <3>1, <3>2, SlotStepKeeps DEF Local, DaddyTypeOK
  <2>6. QED
    BY <1>3, <2>2, <2>3, <2>4, <2>5, DaddyAssumption
       DEF Schedule, TakesSlot, Local, DaddyTypeOK
<1>4. QED
  BY <1>1, <1>2, <1>3 DEF HoldAck

LEMMA FetchKeeps ==
  ASSUME TypeOK, Local, NEW s \in Callers, NEW m \in Mailboxes,
         FetchMessages(s, m)
  PROVE  Local'
<1> USE DaddyAssumption, HeldStoreAssumption
<1>1. session[s] # Closed /\ UNCHANGED <<owner, route, forward, active>>
  BY DEF FetchMessages, Serving
<1>2. session[s] \in Session /\ session[s].peer \in Users
  BY <1>1, BoundSession DEF Local
<1>3. CASE Authorized(s, m)
  <2>1. PICK batch \in SUBSET Addressed(Unexpired(held, now), m) :
          /\ session' = [session EXCEPT
                           ![s].mailbox = m,
                           ![s].fetched = @ \cup {r.id : r \in batch}]
          /\ handed' = [e \in Envelopes |->
                          IF e \in {r.id : r \in batch}
                          THEN handed[e] \cup {session[s].peer}
                          ELSE handed[e]]
    BY <1>3 DEF FetchMessages, Batches
  <2> DEFINE ids == {r.id : r \in batch}
  <2>2. ids \subseteq Envelopes
    BY <2>1 DEF TypeOK, Addressed, Unexpired, Row
  <2>3. session'[s] = [session[s] EXCEPT !.mailbox = m,
                                         !.fetched = @ \cup ids]
    BY <2>1 DEF Local, DaddyTypeOK
  <2>4. session'[s] \in Session
    BY <1>2, <2>2, <2>3 DEF Session
  <2>5. session' \in [Callers -> Session \cup {Closed}]
    BY <2>1, <2>3, <2>4 DEF Local, DaddyTypeOK
  <2>6. /\ handed' \in [Envelopes -> SUBSET Users]
        /\ \A e \in Envelopes : handed[e] \subseteq handed'[e]
        /\ \A e \in ids : session[s].peer \in handed'[e]
    BY <1>2, <2>1, <2>2 DEF Local, DaddyTypeOK
  <2>7. DaddyTypeOK'
    BY <1>1, <2>5, <2>6 DEF Local, DaddyTypeOK
  <2>8. SessionsAreScoped'
    <3> SUFFICES ASSUME NEW c \in Callers,
                        session'[c] # Closed, session'[c].fetched # {}
                 PROVE  /\ session'[c].mailbox # Unbound
                        /\ owner[session'[c].mailbox] = session'[c].peer
                        /\ \A e \in session'[c].fetched :
                             session'[c].peer \in handed'[e]
      BY <1>1 DEF SessionsAreScoped
    <3>1. CASE c = s
      <4>1. /\ session'[s].mailbox = m
            /\ session'[s].peer = session[s].peer
            /\ session'[s].fetched = session[s].fetched \cup ids
        BY <1>2, <2>3 DEF Session
      <4>2. owner[m] = session[s].peer
        BY <1>3 DEF Authorized
      <4>3. \A e \in session[s].fetched : session[s].peer \in handed'[e]
        BY <1>1, <1>2, <2>6 DEF Local, SessionsAreScoped, Session
      <4>4. QED
        BY <2>6, <3>1, <4>1, <4>2, <4>3
    <3>2. CASE c # s
      <4>1. session'[c] = session[c] /\ session[c] \in Session
        BY <2>1, <3>2 DEF Local, DaddyTypeOK
      <4>2. QED
        BY <2>6, <4>1 DEF Local, SessionsAreScoped, Session
    <3>3. QED
      BY <3>1, <3>2
  <2>9. ForwardersAreHonest'
    BY <1>1, <2>6 DEF Local, ForwardersAreHonest, DaddyTypeOK, Forward
  <2>10. ForwardsAccounted'
    BY <1>1 DEF Local, ForwardsAccounted
  <2>11. QED
    BY <2>7, <2>8, <2>9, <2>10 DEF Local
<1>4. CASE ~Authorized(s, m)
  <2>1. session' = [session EXCEPT ![s].mailbox = Bind(s, m)]
        /\ UNCHANGED handed
    BY <1>4 DEF FetchMessages
  <2>2. DaddyTypeOK'
    BY <1>1, <2>1, BoundSession DEF Local, DaddyTypeOK
  <2>3. SessionsAreScoped'
    <3> SUFFICES ASSUME NEW c \in Callers,
                        session'[c] # Closed, session'[c].fetched # {}
                 PROVE  /\ session[c] # Closed
                        /\ session'[c].mailbox = session[c].mailbox
                        /\ session'[c].peer = session[c].peer
                        /\ session'[c].fetched = session[c].fetched
      BY <1>1, <2>1 DEF SessionsAreScoped, Local
    <3>1. session[c] # Closed /\ session[c] \in Session
      BY <1>1, <2>1 DEF Local, DaddyTypeOK
    <3>2. /\ session'[c].peer = session[c].peer
          /\ session'[c].fetched = session[c].fetched
      BY <2>1, <3>1 DEF Local, DaddyTypeOK, Session
    <3>3. session[c].mailbox # Unbound
      BY <3>1, <3>2 DEF Local, SessionsAreScoped
    <3>4. session'[c].mailbox = session[c].mailbox
      BY <2>1, <3>1, <3>3, BoundSession DEF Local, DaddyTypeOK, Session
    <3>5. QED
      BY <3>1, <3>2, <3>4
  <2>4. ForwardersAreHonest' /\ ForwardsAccounted'
    BY <1>1, <2>1 DEF Local, ForwardersAreHonest, ForwardsAccounted
  <2>5. QED
    BY <2>2, <2>3, <2>4 DEF Local
<1>5. QED
  BY <1>3, <1>4

LEMMA AckKeeps ==
  ASSUME TypeOK, Local, NEW s \in Callers, NEW m \in Mailboxes,
         NEW id \in Envelopes, NEW status, DeliveryAck(s, id, m, status)
  PROVE  Local'
<1>1. session[s] # Closed /\ UNCHANGED <<owner, route, forward, active, handed>>
  BY DEF DeliveryAck, Serving
<1>2. session[s] \in Session
  BY <1>1, BoundSession DEF Local
<1>3. CASE session' = [session EXCEPT ![s] = Closed]
  BY <1>1, <1>3, CloseKeeps
<1>4. CASE /\ Authorized(s, m)
           /\ session' = [session EXCEPT ![s].mailbox = m,
                                         ![s].fetched = @ \ {id}]
  <2>1. session'[s] = [session[s] EXCEPT !.mailbox = m, !.fetched = @ \ {id}]
    BY <1>4 DEF Local, DaddyTypeOK
  <2>2. session'[s] \in Session
    BY <1>2, <2>1 DEF Session
  <2>3. DaddyTypeOK'
    BY <1>1, <1>4, <2>1, <2>2 DEF Local, DaddyTypeOK
  <2>4. SessionsAreScoped'
    <3> SUFFICES ASSUME NEW c \in Callers,
                        session'[c] # Closed, session'[c].fetched # {}
                 PROVE  /\ session'[c].mailbox # Unbound
                        /\ owner[session'[c].mailbox] = session'[c].peer
                        /\ \A e \in session'[c].fetched :
                             session'[c].peer \in handed[e]
      BY <1>1 DEF SessionsAreScoped
    <3>1. CASE c = s
      <4>1. /\ session'[s].mailbox = m
            /\ session'[s].peer = session[s].peer
            /\ session'[s].fetched = session[s].fetched \ {id}
        BY <1>2, <2>1 DEF Session
      <4>2. \A e \in session[s].fetched : session[s].peer \in handed[e]
        BY <1>1, <1>2 DEF Local, SessionsAreScoped
      <4>3. QED
        BY <1>4, <3>1, <4>1, <4>2, DaddyAssumption DEF Authorized
    <3>2. CASE c # s
      BY <1>4, <3>2 DEF Local, SessionsAreScoped, DaddyTypeOK
    <3>3. QED
      BY <3>1, <3>2
  <2>5. ForwardersAreHonest' /\ ForwardsAccounted'
    BY <1>1 DEF Local, ForwardersAreHonest, ForwardsAccounted
  <2>6. QED
    BY <2>3, <2>4, <2>5 DEF Local
<1>5. QED
  BY <1>3, <1>4 DEF DeliveryAck

LEMMA ForwardingKeeps ==
  ASSUME TypeOK, Local, NEW f \in Forwarders, Forwarding(f)
  PROVE  Local'
<1>1. /\ forward[f] # Done
      /\ forward[f] \in Forward
      /\ UNCHANGED <<session, owner, route>>
  BY DEF Forwarding, ForwardLookup, ForwardDial, ForwardFail, ForwardDelete,
         Local, DaddyTypeOK
<1>2. ASSUME Finish(f), UNCHANGED handed PROVE Local'
  BY <1>1, <1>2, FinishKeeps DEF Local, DaddyTypeOK
<1>3. CASE ForwardLookup(f)
  <2>1. CASE forward' = [forward EXCEPT ![f].phase = "dial"] /\ UNCHANGED active
    <3>1. forward'[f] = [forward[f] EXCEPT !.phase = "dial"]
          /\ forward'[f] \in Forward /\ forward'[f].user = forward[f].user
          /\ forward'[f].phase = "dial"
      BY <1>1, <2>1 DEF Local, DaddyTypeOK, Forward
    <3>2. forward' \in [Forwarders -> Forward \cup {Done}]
      BY <2>1, <3>1 DEF Local, DaddyTypeOK
    <3>3. \A g \in Forwarders : g # f => forward'[g] = forward[g]
      BY <2>1 DEF Local, DaddyTypeOK
    <3>4. \A u \in Users : Working(u)' = Working(u)
      BY <1>1, <3>1, <3>3, DaddyAssumption DEF Working
    <3>5. ForwardsAccounted'
      BY <2>1, <3>4 DEF Local, ForwardsAccounted, Working
    <3>6. UNCHANGED handed
      BY <1>3 DEF ForwardLookup
    <3>7. QED
      BY <1>1, <2>1, <3>1, <3>2, <3>3, <3>5, <3>6, SlotStepKeeps
         DEF Local, DaddyTypeOK
  <2>2. CASE Finish(f)
    BY <1>2, <1>3, <2>2 DEF ForwardLookup
  <2>3. QED
    BY <1>3, <2>1, <2>2 DEF ForwardLookup
<1>4. ASSUME NEW u \in Users, ForwardDial(f, u) PROVE Local'
  <2>1. CASE owner[forward[f].mailbox] = u
    <3>1. handed' = [handed EXCEPT ![forward[f].id] = @ \cup {u}]
      BY <1>4, <2>1 DEF ForwardDial
    <3>2. /\ handed' \in [Envelopes -> SUBSET Users]
          /\ \A e \in Envelopes : handed[e] \subseteq handed'[e]
          /\ u \in handed'[forward[f].id]
      BY <1>1, <3>1 DEF Local, DaddyTypeOK, Forward
    <3>3. CASE Finish(f)
      BY <1>1, <3>2, <3>3, FinishKeeps
    <3>4. CASE forward' = [forward EXCEPT ![f].phase = "delete"]
               /\ UNCHANGED active
      <4>1. /\ forward'[f] \in Forward
            /\ forward'[f].user = forward[f].user
            /\ forward'[f].mailbox = forward[f].mailbox
            /\ forward'[f].id = forward[f].id
        BY <1>1, <3>4 DEF Local, DaddyTypeOK, Forward
      <4>2. forward' \in [Forwarders -> Forward \cup {Done}]
        BY <3>4, <4>1 DEF Local, DaddyTypeOK
      <4>3. \A g \in Forwarders : g # f => forward'[g] = forward[g]
        BY <3>4 DEF Local, DaddyTypeOK
      <4>4. \A v \in Users : Working(v)' = Working(v)
        BY <1>1, <4>1, <4>3, DaddyAssumption DEF Working
      <4>5. ForwardsAccounted'
        BY <3>4, <4>4 DEF Local, ForwardsAccounted, Working
      <4>6. QED
        BY <1>1, <2>1, <3>2, <3>4, <4>1, <4>2, <4>3, <4>5, SlotStepKeeps
           DEF Local, DaddyTypeOK
    <3>5. QED
      BY <1>4, <2>1, <3>3, <3>4 DEF ForwardDial
  <2>2. CASE owner[forward[f].mailbox] # u
    BY <1>2, <1>4, <2>2 DEF ForwardDial
  <2>3. QED
    BY <2>1, <2>2
<1>5. CASE ForwardFail(f)
  BY <1>2, <1>5 DEF ForwardFail
<1>6. CASE ForwardDelete(f)
  BY <1>2, <1>6 DEF ForwardDelete
<1>7. QED
  BY <1>3, <1>4, <1>5, <1>6 DEF Forwarding

LEMMA StopKeeps ==
  ASSUME Local, Stop
  PROVE  Local'
<1>1. DaddyTypeOK'
  BY DEF Stop, Local, DaddyTypeOK
<1>2. SessionsAreScoped' /\ ForwardersAreHonest'
  BY DEF Stop, SessionsAreScoped, ForwardersAreHonest
<1>3. ForwardsAccounted'
  <2> SUFFICES ASSUME NEW u \in Users
               PROVE  /\ active'[u] = Cardinality(Working(u)')
                      /\ active'[u] <= RelayForwardLimit
    BY DEF ForwardsAccounted, Working
  <2>1. Working(u)' = {}
    BY DEF Stop, Working
  <2>2. QED
    BY <2>1, FS_EmptySet, DaddyAssumption DEF Stop
<1>4. QED
  BY <1>1, <1>2, <1>3 DEF Local

LEMMA CleanRoutesKeeps ==
  ASSUME Local, CleanRoutes
  PROVE  Local'
<1>1. DaddyTypeOK'
  BY SweptRoutes DEF CleanRoutes, Local, DaddyTypeOK
<1>2. SessionsAreScoped' /\ ForwardersAreHonest' /\ ForwardsAccounted'
  BY DEF CleanRoutes, Local, SessionsAreScoped, ForwardersAreHonest,
         ForwardsAccounted
<1>3. QED
  BY <1>1, <1>2 DEF Local

LEMMA HandlersKeepServing ==
  ASSUME TypeOK, TypeOK', Local, Local', HandlersServe, [DaddyNext]_allVars
  PROVE  HandlersServe'
<1> SUFFICES ASSUME NEW c \in Callers, call'[c] # Idle
             PROVE  /\ session'[c] # Closed
                    /\ session'[c].peer = call'[c].request.user
  BY DEF HandlersServe
<1>1. HandlersServe /\ Idle \notin Call /\ Closed \notin Session
  BY HeldStoreAssumption, DaddyAssumption
<1>2. /\ call \in [Callers -> Call \cup {Idle}]
      /\ session \in [Callers -> Session \cup {Closed}]
  BY DEF TypeOK, Local, DaddyTypeOK
<1>3. CASE UNCHANGED call /\ session'[c] = session[c]
  BY <1>1, <1>3 DEF HandlersServe
<1>4. ASSUME NEW s \in Callers, NEW u \in Users, Accept(s, u)
      PROVE  session'[c] # Closed /\ session'[c].peer = call'[c].request.user
  <2>1. UNCHANGED call /\ c # s
    BY <1>1, <1>4 DEF Accept, vars, HandlersServe
  <2>2. session'[c] = session[c]
    BY <1>2, <1>4, <2>1 DEF Accept
  <2>3. QED
    BY <1>3, <2>1, <2>2
<1>5. ASSUME NEW s \in Callers, Serving(s), UNCHANGED call,
             \A d \in Callers : d # s => session'[d] = session[d]
      PROVE  session'[c] # Closed /\ session'[c].peer = call'[c].request.user
  <2>1. c # s
    BY <1>5 DEF Serving
  <2>2. QED
    BY <1>3, <1>5, <2>1
<1>6. ASSUME NEW s \in Callers, Close(s)
      PROVE  session'[c] # Closed /\ session'[c].peer = call'[c].request.user
  BY <1>2, <1>5, <1>6 DEF Close, vars
<1>7. ASSUME NEW s \in Callers, NEW q \in Submissions, Hold(s, q)
      PROVE  session'[c] # Closed /\ session'[c].peer = call'[c].request.user
  <2>1. UNCHANGED session
    BY <1>7 DEF Hold, daddyVars
  <2>2. CASE c = s
    BY <1>2, <1>7, <2>1, <2>2 DEF Hold, BeginHold, Serving
  <2>3. CASE c # s
    <3>1. call'[c] = call[c]
      BY <1>2, <1>7, <2>3 DEF Hold, BeginHold
    <3>2. QED
      BY <1>1, <2>1, <3>1 DEF HandlersServe
  <2>4. QED
    BY <2>2, <2>3
<1>18. ASSUME NEW s \in Callers, NEW q \in Submissions, GhostForward(s, q)
       PROVE  session'[c] # Closed /\ session'[c].peer = call'[c].request.user
  <2>1. session[s] \in Session /\ call[s] = Idle
    BY <1>2, <1>18 DEF GhostForward, Serving
  <2>2. CASE UNCHANGED <<vars, session>>
    BY <1>3, <2>2 DEF vars
  <2>3. CASE /\ BeginHold(s, q, now + HeldMessageTTL)
             /\ session' = [session EXCEPT ![s].relaying = TRUE]
    <3>1. CASE c = s
      <4>1. call'[s].request.user = session[s].peer
        BY <1>2, <1>18, <2>3 DEF GhostForward, BeginHold
      <4>2. session'[s] \in Session /\ session'[s].peer = session[s].peer
        BY <1>2, <2>1, <2>3 DEF Session
      <4>3. QED
        BY <1>1, <3>1, <4>1, <4>2
    <3>2. CASE c # s
      <4>1. call'[c] = call[c] /\ session'[c] = session[c]
        BY <1>2, <2>3, <3>2 DEF BeginHold
      <4>2. QED
        BY <1>1, <4>1 DEF HandlersServe
    <3>3. QED
      BY <3>1, <3>2
  <2>4. QED
    BY <1>18, <2>2, <2>3 DEF GhostForward
<1>8. ASSUME NEW s \in Callers, StoreHold(s)
      PROVE  session'[c] # Closed /\ session'[c].peer = call'[c].request.user
  <2>1. UNCHANGED session
    BY <1>8 DEF StoreHold, daddyVars
  <2>2. PICK status : call' = [call EXCEPT ![s].status = status]
    BY <1>8 DEF StoreHold, CommitHold, FailHold, Refuse, Admit
  <2>3. call[c] # Idle
    BY <1>8, <2>2, <1>2 DEF StoreHold, CommitHold, FailHold
  <2>4. call'[c].request = call[c].request
    BY <1>2, <2>2, <2>3 DEF Call
  <2>5. QED
    BY <1>1, <2>1, <2>3, <2>4 DEF HandlersServe
<1>9. ASSUME NEW s \in Callers, HoldAck(s)
      PROVE  session'[c] # Closed /\ session'[c].peer = call'[c].request.user
  <2>1. call' = [call EXCEPT ![s] = Idle]
    BY <1>9 DEF HoldAck, Return
  <2>2. c # s /\ call'[c] = call[c]
    BY <1>2, <2>1
  <2>3. session'[c] = session[c]
    BY <1>2, <1>9, <2>2 DEF HoldAck
  <2>4. QED
    BY <1>1, <2>2, <2>3 DEF HandlersServe
<1>10. ASSUME NEW s \in Callers, NEW m \in Mailboxes, NEW expires,
              RegisterRoute(s, m, expires)
       PROVE  session'[c] # Closed /\ session'[c].peer = call'[c].request.user
  BY <1>2, <1>5, <1>10 DEF RegisterRoute, vars
<1>11. ASSUME NEW s \in Callers, NEW m \in Mailboxes, FetchMessages(s, m)
       PROVE  session'[c] # Closed /\ session'[c].peer = call'[c].request.user
  BY <1>2, <1>5, <1>11 DEF FetchMessages, vars
<1>12. ASSUME NEW s \in Callers, NEW m \in Mailboxes, NEW id \in Envelopes,
              NEW status, DeliveryAck(s, id, m, status)
       PROVE  session'[c] # Closed /\ session'[c].peer = call'[c].request.user
  BY <1>2, <1>5, <1>12 DEF DeliveryAck, Delete, vars
<1>13. ASSUME NEW f \in Forwarders, Forwarding(f)
       PROVE  session'[c] # Closed /\ session'[c].peer = call'[c].request.user
  BY <1>3, <1>13 DEF Forwarding, ForwardLookup, ForwardDial, ForwardFail,
                     ForwardDelete, Delete, vars
<1>14. CASE CleanEnvelopes \/ CleanRoutes \/ Start \/ Clock
  BY <1>3, <1>14 DEF CleanEnvelopes, CleanRoutes, Start, Clock, Expire, Open,
                     Tick, vars, daddyVars
<1>15. CASE Stop
  BY <1>15 DEF Stop, Crash
<1>16. CASE UNCHANGED allVars
  BY <1>3, <1>16 DEF allVars, vars, daddyVars
<1>17. QED
  BY <1>4, <1>6, <1>7, <1>8, <1>9, <1>10, <1>11, <1>12, <1>13, <1>14, <1>15,
     <1>16, <1>18 DEF DaddyNext

LEMMA StepKeepsLocal ==
  ASSUME TypeOK, Local, HandlersServe, [DaddyNext]_allVars
  PROVE  Local'
<1>1. ASSUME NEW s \in Callers, NEW u \in Users, Accept(s, u) PROVE Local'
  BY <1>1, AcceptKeeps
<1>2. ASSUME NEW s \in Callers, Close(s) PROVE Local'
  BY <1>2, CloseKeeps DEF Close
<1>3. ASSUME NEW s \in Callers, NEW q \in Submissions, Hold(s, q) PROVE Local'
  BY <1>3, UnchangedKeepsLocal DEF Hold
<1>15. ASSUME NEW s \in Callers, NEW q \in Submissions, GhostForward(s, q)
       PROVE  Local'
  BY <1>15, GhostForwardKeeps
<1>4. ASSUME NEW s \in Callers, StoreHold(s) PROVE Local'
  BY <1>4, UnchangedKeepsLocal DEF StoreHold
<1>5. ASSUME NEW s \in Callers, HoldAck(s) PROVE Local'
  <2>1. session[s] # Closed
    BY <1>5 DEF HoldAck, Return, HandlersServe
  <2>2. QED
    BY <1>5, <2>1, HoldAckKeeps
<1>6. ASSUME NEW s \in Callers, NEW m \in Mailboxes,
             NEW expires \in now .. now + maxRouteLifetime + 1,
             RegisterRoute(s, m, expires)
      PROVE  Local'
  <2>1. expires \in Nat
    BY DaddyAssumption DEF TypeOK
  <2>2. QED
    BY <1>6, <2>1, RegisterKeeps
<1>7. ASSUME NEW s \in Callers, NEW m \in Mailboxes, FetchMessages(s, m)
      PROVE  Local'
  BY <1>7, FetchKeeps
<1>8. ASSUME NEW s \in Callers, NEW m \in Mailboxes, NEW id \in Envelopes,
             NEW status, DeliveryAck(s, id, m, status)
      PROVE  Local'
  BY <1>8, AckKeeps
<1>9. ASSUME NEW f \in Forwarders, Forwarding(f) PROVE Local'
  BY <1>9, ForwardingKeeps
<1>10. CASE CleanEnvelopes \/ Start \/ Clock
  BY <1>10, UnchangedKeepsLocal DEF CleanEnvelopes, Start, Clock
<1>11. CASE CleanRoutes
  BY <1>11, CleanRoutesKeeps
<1>12. CASE Stop
  BY <1>12, StopKeeps
<1>13. CASE UNCHANGED allVars
  BY <1>13, UnchangedKeepsLocal DEF allVars
<1>14. QED
  BY <1>1, <1>2, <1>3, <1>4, <1>5, <1>6, <1>7, <1>8, <1>9, <1>10, <1>11,
     <1>12, <1>13, <1>15 DEF DaddyNext

-----------------------------------------------------------------------------
(***************************************************************************)
(* The theorems                                                            *)
(***************************************************************************)

\* One step: the tables stay well typed and the invariant holds again.
LEMMA DaddyStep ==
  ASSUME TypeOK, DaddyInv, [DaddyNext]_allVars
  PROVE  TypeOK' /\ DaddyInv' /\ [Next]_vars
<1>1. Local /\ HandlersServe
  BY DEF DaddyInv, Local
<1>2. [Next]_vars
  BY <1>1, StepUsesStore DEF Local
<1>3. TypeOK'
  BY <1>2, TypeStep
<1>4. Local'
  BY <1>1, StepKeepsLocal
<1>5. HandlersServe'
  BY <1>1, <1>3, <1>4, HandlersKeepServing
<1>6. QED
  BY <1>2, <1>3, <1>4, <1>5 DEF DaddyInv, Local

LEMMA DaddyStart ==
  ASSUME DaddyInit
  PROVE  TypeOK /\ DaddyInv
<1>1. Init
  BY DEF DaddyInit
<1>2. TypeOK
  BY <1>1, TypeStart
<1>3. HandlersServe
  BY <1>1 DEF Init, HandlersServe
<1>4. QED
  BY <1>2, <1>3, InitLocal DEF Local, DaddyInv

\* In every interleaving of sessions, forwarders, cleanup and restarts, each
\* acts for the identity it was started for.
THEOREM DaddyCorrect == DaddySpec => []DaddyInv
<1>1. DaddyInit => TypeOK /\ DaddyInv
  BY DaddyStart
<1>2. TypeOK /\ DaddyInv /\ [DaddyNext]_allVars => TypeOK' /\ DaddyInv'
  BY DaddyStep
<1>3. QED
  BY <1>1, <1>2, PTL DEF DaddySpec, allVars

\* The sessions' part of it: what a session may acknowledge belongs to the
\* mailbox of its peer and was handed to it.
THEOREM SessionsStayScoped == DaddySpec => []SessionsAreScoped
<1>1. DaddyInv => SessionsAreScoped
  BY DEF DaddyInv
<1>2. QED
  BY <1>1, DaddyCorrect, PTL

\* The forwarders' part: the slots of a user are counted exactly and bounded.
THEOREM SlotsStayAccounted == DaddySpec => []ForwardsAccounted
<1>1. DaddyInv => ForwardsAccounted
  BY DEF DaddyInv
<1>2. QED
  BY <1>1, DaddyCorrect, PTL

\* A Daddy is a HeldStore: every theorem of HeldStoreProofs is about it too.
THEOREM TablesUsedAsSpecified == DaddySpec => StoreUsed
<1>1. DaddyInit => Init /\ TypeOK /\ DaddyInv
  BY DaddyStart DEF DaddyInit
<1>2. TypeOK /\ DaddyInv /\ [DaddyNext]_allVars
        => TypeOK' /\ DaddyInv' /\ [Next]_vars
  BY DaddyStep
<1>3. QED
  BY <1>1, <1>2, PTL DEF DaddySpec, StoreUsed, Spec, allVars

\* Nothing that has not expired leaves the tables before its owner has it.
LEMMA RemovalStep ==
  ASSUME TypeOK, DaddyInv, [DaddyNext]_allVars,
         NEW r \in held, r \notin held', ~(r.expires <= now)
  PROVE  owner[r.mailbox] \in handed[r.id]
<1>1. r \in Row /\ r.expires \in Nat /\ now \in Nat
  BY DEF TypeOK, Row
<1>2. ASSUME NEW t, t \in Nat, t <= now PROVE r \in Unexpired(held, t)
  BY <1>1, <1>2 DEF Unexpired
<1>3. ASSUME UNCHANGED held PROVE FALSE
  BY <1>3
<1>4. ASSUME NEW s \in Callers, StoreHold(s) PROVE FALSE
  <2>1. CASE FailHold(s)
    BY <1>3, <2>1 DEF FailHold, Refuse
  <2>2. CASE CommitHold(s)
    <3>1. call[s] \in Call
      BY <2>2, CommitCases DEF TypeOK
    <3>2. ASSUME NEW t \in call[s].since .. now, Committed(s, t) PROVE FALSE
      <4>1. t \in Nat /\ t <= now
        BY <1>1, <3>1, <3>2 DEF Call
      <4>2. QED
        BY <1>2, <3>2, <4>1 DEF Committed
    <3>3. ASSUME NEW status, Refuse(s, status) PROVE FALSE
      BY <1>3, <3>3 DEF Refuse
    <3>4. QED
      BY <2>2, <3>2, <3>3, CommitCases DEF AlreadyKnown
  <2>3. QED
    BY <1>4, <2>1, <2>2 DEF StoreHold
<1>5. ASSUME NEW id \in Envelopes, NEW m \in Mailboxes, Delete(id, m)
      PROVE  r.id = id /\ r.mailbox = m
  BY <1>5 DEF Delete
<1>6. ASSUME NEW s \in Callers, NEW m \in Mailboxes, NEW id \in Envelopes,
             NEW status, DeliveryAck(s, id, m, status)
      PROVE  owner[r.mailbox] \in handed[r.id]
  <2>1. CASE UNCHANGED vars
    BY <1>3, <2>1 DEF vars
  <2>2. CASE /\ Authorized(s, m)
             /\ id \in session[s].fetched
             /\ Delete(id, m)
    <3>1. session[s] # Closed
      BY <1>6 DEF DeliveryAck, Serving
    <3>2. session[s].peer \in handed[id]
      BY <2>2, <3>1 DEF DaddyInv, SessionsAreScoped
    <3>3. QED
      BY <1>5, <2>2, <3>2 DEF Authorized
  <2>3. QED
    BY <1>6, <2>1, <2>2 DEF DeliveryAck
<1>7. ASSUME NEW f \in Forwarders, Forwarding(f)
      PROVE  owner[r.mailbox] \in handed[r.id]
  <2>1. CASE UNCHANGED vars
    BY <1>3, <2>1 DEF vars
  <2>2. CASE ForwardDelete(f) /\ Delete(forward[f].id, forward[f].mailbox)
    <3>1. forward[f] # Done /\ forward[f].phase = "delete"
      BY <2>2 DEF ForwardDelete
    <3>2. forward[f].id \in Envelopes /\ forward[f].mailbox \in Mailboxes
      BY <3>1 DEF DaddyInv, DaddyTypeOK, Forward
    <3>3. QED
      BY <1>5, <2>2, <3>1, <3>2 DEF DaddyInv, ForwardersAreHonest
  <2>3. QED
    BY <1>7, <2>1, <2>2
       DEF Forwarding, ForwardLookup, ForwardDial, ForwardFail, ForwardDelete
<1>8. ASSUME CleanEnvelopes PROVE FALSE
  BY <1>1, <1>2, <1>8 DEF CleanEnvelopes, Expire
<1>9. ASSUME NEW s \in Callers,
             \/ \E u \in Users : Accept(s, u)
             \/ Close(s)
             \/ \E m \in Mailboxes :
                  \/ \E expires \in now .. now + maxRouteLifetime + 1 :
                       RegisterRoute(s, m, expires)
                  \/ FetchMessages(s, m)
      PROVE  FALSE
  BY <1>3, <1>9 DEF Accept, Close, FetchMessages, RegisterRoute, vars
<1>10. ASSUME NEW s \in Callers,
              \/ \E q \in Submissions : Hold(s, q) \/ GhostForward(s, q)
              \/ HoldAck(s)
       PROVE  FALSE
  BY <1>3, <1>10 DEF Hold, GhostForward, BeginHold, HoldAck, Return, vars
<1>11. ASSUME CleanRoutes \/ Start \/ Stop \/ Clock \/ UNCHANGED allVars
       PROVE  FALSE
  BY <1>3, <1>11
     DEF CleanRoutes, Start, Open, Stop, Crash, Clock, Tick, allVars, vars
<1>12. QED
  BY <1>4, <1>6, <1>7, <1>8, <1>9, <1>10, <1>11 DEF DaddyNext

\* Whatever order acknowledgements, forwarders and restarts come in, an envelope
\* that has not expired is removed only when its owner has been handed it.
THEOREM NothingRemovedUnseen == DaddySpec => RemovedOnlyWhenHanded
<1> DEFINE Seen == \A r \in held :
                     r \notin held' =>
                       r.expires <= now \/ owner[r.mailbox] \in handed[r.id]
<1>1. TypeOK /\ DaddyInv /\ [DaddyNext]_allVars => [Seen]_allVars
  BY RemovalStep
<1>2. DaddyInit => TypeOK /\ DaddyInv
  BY DaddyStart
<1>3. TypeOK /\ DaddyInv /\ [DaddyNext]_allVars => TypeOK' /\ DaddyInv'
  BY DaddyStep
<1>4. QED
  BY <1>1, <1>2, <1>3, PTL DEF DaddySpec, RemovedOnlyWhenHanded, allVars

-----------------------------------------------------------------------------
(***************************************************************************)
(* Who is handed an envelope                                               *)
(***************************************************************************)

\* An envelope of this ID was submitted, or found, for this mailbox.
Known(id, m) ==
  \E q \in Submissions \cup LegacyRows : q.id = id /\ q.mailbox = m

StoreSourced ==
  /\ \A r \in held : Known(r.id, r.mailbox)
  /\ \A c \in Callers : call[c] # Idle => call[c].request \in Submissions

\* What is held, asked for or forwarded is what somebody submitted.
Sourced ==
  /\ StoreSourced
  /\ \A f \in Forwarders :
       forward[f] # Done => Known(forward[f].id, forward[f].mailbox)

LEMMA SourcedStart ==
  ASSUME DaddyInit
  PROVE  Sourced
<1>1. \A r \in held : r \in LegacyRows
  BY DEF DaddyInit, Init
<1>2. StoreSourced
  BY <1>1 DEF DaddyInit, Init, StoreSourced, Known
<1>3. QED
  BY <1>2 DEF DaddyInit, Sourced

LEMMA StoreSourcedStep ==
  ASSUME TypeOK, StoreSourced, [Next]_vars
  PROVE  StoreSourced'
<1> USE HeldStoreAssumption
<1>1. ASSUME NEW c \in Callers, NEW q \in Submissions, NEW expires,
             BeginHold(c, q, expires)
      PROVE  StoreSourced'
  BY <1>1 DEF BeginHold, StoreSourced, TypeOK, Known
<1>2. ASSUME NEW c \in Callers, CommitHold(c) \/ FailHold(c)
      PROVE  StoreSourced'
  <2>1. call[c] # Idle /\ call[c] \in Call /\ call[c].request \in Submissions
    BY <1>2, CommitCases DEF FailHold, StoreSourced, TypeOK
  <2>2. \E status : call' = [call EXCEPT ![c].status = status]
    BY <1>2, CommitCases DEF FailHold, Refuse, Committed, AlreadyKnown
  <2>3. \A d \in Callers : call'[d] # Idle => call'[d].request \in Submissions
    BY <2>1, <2>2 DEF StoreSourced, TypeOK, Call
  <2>4. \A r \in held' :
          r \in held \/ r = RowOf(call[c].request, call[c].expires)
    <3>1. CASE FailHold(c)
      BY <3>1 DEF FailHold, Refuse
    <3>2. ASSUME NEW t, Committed(c, t)
          PROVE  \A r \in held' :
                   r \in held \/ r = RowOf(call[c].request, call[c].expires)
      BY <3>2 DEF Committed, Unexpired
    <3>3. ASSUME NEW status, Refuse(c, status)
          PROVE  \A r \in held' : r \in held
      BY <3>3 DEF Refuse
    <3>4. QED
      BY <1>2, <3>1, <3>2, <3>3, CommitCases DEF AlreadyKnown
  <2>5. \A r \in held' : Known(r.id, r.mailbox)
    BY <2>1, <2>4 DEF StoreSourced, Known, RowOf
  <2>6. QED
    BY <2>3, <2>5 DEF StoreSourced, Known
<1>3. ASSUME NEW c \in Callers, Return(c)
      PROVE  StoreSourced'
  BY <1>3 DEF Return, StoreSourced, TypeOK, Known
<1>4. CASE \/ \E id \in Envelopes, mailbox \in Mailboxes : Delete(id, mailbox)
           \/ Expire
  BY <1>4 DEF Delete, Expire, Unexpired, StoreSourced, Known
<1>5. CASE Tick \/ Open \/ Crash \/ UNCHANGED vars
  BY <1>5 DEF Tick, Open, Crash, vars, StoreSourced, Known
<1>6. QED
  BY <1>1, <1>2, <1>3, <1>4, <1>5 DEF Next

\* A forwarder carries on with its envelope, or takes one just held.
LEMMA ForwardsStep ==
  ASSUME TypeOK, Local, Sourced, [DaddyNext]_allVars,
         NEW f \in Forwarders, forward'[f] # Done
  PROVE  Known(forward'[f].id, forward'[f].mailbox)
<1>1. CASE forward'[f] = forward[f]
  BY <1>1 DEF Sourced
<1>2. ASSUME NEW s \in Callers, HoldAck(s), forward'[f] # forward[f]
      PROVE  Known(forward'[f].id, forward'[f].mailbox)
  <2>1. call[s] # Idle /\ call[s].request \in Submissions
    BY <1>2 DEF HoldAck, Return, Sourced, StoreSourced
  <2>2. Schedule(session[s].peer, call[s].request)
    BY <1>2 DEF HoldAck
  <2>3. /\ forward'[f].id = call[s].request.id
        /\ forward'[f].mailbox = call[s].request.mailbox
    BY <1>2, <2>2 DEF Schedule, Local, DaddyTypeOK
  <2>4. QED
    BY <2>1, <2>3 DEF Known
<1>3. ASSUME NEW g \in Forwarders, Forwarding(g), forward'[f] # forward[f]
      PROVE  Known(forward'[f].id, forward'[f].mailbox)
  <2>1. forward[g] # Done /\ forward[g] \in Forward
    BY <1>3 DEF Forwarding, ForwardLookup, ForwardDial, ForwardFail,
                ForwardDelete, Local, DaddyTypeOK
  <2>2. \/ \E phase : forward' = [forward EXCEPT ![g].phase = phase]
        \/ forward' = [forward EXCEPT ![g] = Done]
    BY <1>3 DEF Forwarding, ForwardLookup, ForwardDial, ForwardFail,
                ForwardDelete, Finish
  <2>3. f = g
    BY <1>3, <2>2 DEF Local, DaddyTypeOK
  <2>4. /\ forward'[f].id = forward[f].id
        /\ forward'[f].mailbox = forward[f].mailbox
    BY <2>1, <2>2, <2>3 DEF Local, DaddyTypeOK, Forward
  <2>5. QED
    BY <2>1, <2>3, <2>4 DEF Sourced
<1>4. CASE Stop
  BY <1>4 DEF Stop
<1>5. ASSUME NEW s \in Callers,
             \/ \E u \in Users : Accept(s, u)
             \/ Close(s)
             \/ \E q \in Submissions : Hold(s, q) \/ GhostForward(s, q)
             \/ StoreHold(s)
             \/ \E m \in Mailboxes :
                  \/ \E expires \in now .. now + maxRouteLifetime + 1 :
                       RegisterRoute(s, m, expires)
                  \/ FetchMessages(s, m)
                  \/ \E id \in Envelopes, status \in {"delivered", "rejected"} :
                       DeliveryAck(s, id, m, status)
      PROVE  UNCHANGED forward
  BY <1>5 DEF Accept, Close, Hold, GhostForward, StoreHold, RegisterRoute,
              FetchMessages, DeliveryAck, daddyVars
<1>6. CASE CleanEnvelopes \/ CleanRoutes \/ Start \/ Clock \/ UNCHANGED allVars
  BY <1>1, <1>6 DEF CleanEnvelopes, CleanRoutes, Start, Clock, allVars, daddyVars
<1>7. QED
  BY <1>1, <1>2, <1>3, <1>4, <1>5, <1>6 DEF DaddyNext

LEMMA SourcedStep ==
  ASSUME TypeOK, DaddyInv, Sourced, [DaddyNext]_allVars
  PROVE  Sourced'
<1>1. StoreSourced'
  BY DaddyStep, StoreSourcedStep DEF Sourced
<1>2. Local
  BY DEF DaddyInv, Local
<1>3. \A f \in Forwarders :
        forward'[f] # Done => Known(forward'[f].id, forward'[f].mailbox)
  BY <1>2, ForwardsStep
<1>4. QED
  BY <1>1, <1>3 DEF Sourced, Known

\* An envelope is handed to the owner of a mailbox it is known for; a mailbox
\* that has an owner keeps it.
NewlyHanded ==
  /\ owner' = owner
  /\ \A e \in Envelopes : handed[e] \subseteq handed'[e]
  /\ \A e \in Envelopes : \A u \in handed'[e] :
       u \in handed[e] \/ \E m \in Mailboxes : owner[m] = u /\ Known(e, m)

OwnersStay ==
  /\ handed' = handed
  /\ \A m \in Mailboxes : owner[m] \in Users => owner'[m] = owner[m]

LEMMA HandedStep ==
  ASSUME TypeOK, Local, Sourced, [DaddyNext]_allVars
  PROVE  NewlyHanded \/ OwnersStay
<1> USE DaddyAssumption, HeldStoreAssumption
<1>1. ASSUME NEW s \in Callers, NEW m \in Mailboxes, FetchMessages(s, m)
      PROVE  NewlyHanded
  <2>1. UNCHANGED owner
    BY <1>1 DEF FetchMessages
  <2>2. CASE UNCHANGED handed
    BY <2>1, <2>2 DEF NewlyHanded
  <2>3. CASE Authorized(s, m)
    <3>1. PICK batch \in SUBSET Addressed(Unexpired(held, now), m) :
            handed' = [e \in Envelopes |->
                         IF e \in {r.id : r \in batch}
                         THEN handed[e] \cup {session[s].peer}
                         ELSE handed[e]]
      BY <1>1, <2>3 DEF FetchMessages, Batches
    <3>2. \A r \in batch : Known(r.id, m)
      BY DEF Sourced, StoreSourced, Addressed, Unexpired
    <3>3. owner[m] = session[s].peer
      BY <2>3 DEF Authorized
    <3>4. QED
      BY <2>1, <3>1, <3>2, <3>3 DEF NewlyHanded
  <2>4. QED
    BY <1>1, <2>2, <2>3 DEF FetchMessages
<1>2. ASSUME NEW f \in Forwarders, NEW u \in Users, ForwardDial(f, u)
      PROVE  NewlyHanded
  <2>1. /\ forward[f] # Done /\ forward[f] \in Forward
        /\ UNCHANGED owner
    BY <1>2 DEF ForwardDial, Local, DaddyTypeOK
  <2>2. CASE UNCHANGED handed
    BY <2>1, <2>2 DEF NewlyHanded
  <2>3. CASE /\ owner[forward[f].mailbox] = u
             /\ handed' = [handed EXCEPT ![forward[f].id] = @ \cup {u}]
    <3>1. Known(forward[f].id, forward[f].mailbox)
      BY <2>1 DEF Sourced
    <3>2. forward[f].mailbox \in Mailboxes
      BY <2>1 DEF Forward
    <3>3. QED
      BY <2>1, <2>3, <3>1, <3>2 DEF NewlyHanded, Local, DaddyTypeOK
  <2>4. QED
    BY <1>2, <2>2, <2>3 DEF ForwardDial
<1>3. ASSUME NEW s \in Callers, NEW m \in Mailboxes, NEW expires,
             RegisterRoute(s, m, expires)
      PROVE  OwnersStay
  <2>1. session[s] # Closed /\ session[s].peer \in Users
    BY <1>3, BoundSession DEF RegisterRoute, Serving, Local
  <2>2. \/ owner' = owner
        \/ /\ owner[m] \in {NoUser, session[s].peer}
           /\ owner' = [owner EXCEPT ![m] = session[s].peer]
    BY <1>3 DEF RegisterRoute, SetOwned
  <2>3. QED
    BY <1>3, <2>1, <2>2 DEF RegisterRoute, OwnersStay, Local, DaddyTypeOK
<1>4. CASE UNCHANGED <<owner, handed>>
  BY <1>4 DEF OwnersStay
<1>5. ASSUME NEW s \in Callers,
             \/ \E u \in Users : Accept(s, u)
             \/ Close(s)
             \/ \E q \in Submissions : Hold(s, q) \/ GhostForward(s, q)
             \/ StoreHold(s)
             \/ HoldAck(s)
             \/ \E m \in Mailboxes, id \in Envelopes,
                   status \in {"delivered", "rejected"} :
                  DeliveryAck(s, id, m, status)
      PROVE  UNCHANGED <<owner, handed>>
  BY <1>5 DEF Accept, Close, Hold, GhostForward, StoreHold, HoldAck,
              DeliveryAck, daddyVars
<1>6. ASSUME NEW f \in Forwarders,
             ForwardLookup(f) \/ ForwardFail(f) \/ ForwardDelete(f)
      PROVE  UNCHANGED <<owner, handed>>
  BY <1>6 DEF ForwardLookup, ForwardFail, ForwardDelete
<1>7. CASE CleanEnvelopes \/ CleanRoutes \/ Start \/ Stop \/ Clock
           \/ UNCHANGED allVars
  BY <1>4, <1>7
     DEF CleanEnvelopes, CleanRoutes, Start, Stop, Clock, allVars, daddyVars
<1>8. QED
  BY <1>1, <1>2, <1>3, <1>4, <1>5, <1>6, <1>7 DEF DaddyNext, Forwarding

LEMMA OnlyOwnersStep ==
  ASSUME TypeOK, DaddyInv, Sourced, OnlyOwnersReceive, [DaddyNext]_allVars
  PROVE  OnlyOwnersReceive'
<1> SUFFICES ASSUME NEW q \in Submissions,
                    \A p \in Submissions \cup LegacyRows :
                      p.id = q.id => p.mailbox = q.mailbox,
                    NEW u \in handed'[q.id]
             PROVE  u = owner'[q.mailbox]
  BY DEF OnlyOwnersReceive
<1>1. /\ q.id \in Envelopes /\ q.mailbox \in Mailboxes
      /\ handed[q.id] \subseteq {owner[q.mailbox]}
      /\ handed[q.id] \subseteq Users
  BY HeldStoreAssumption
     DEF Submission, OnlyOwnersReceive, DaddyInv, DaddyTypeOK
<1>2. Local
  BY DEF DaddyInv, Local
<1>3. CASE NewlyHanded
  <2>1. CASE u \in handed[q.id]
    BY <1>1, <1>3, <2>1 DEF NewlyHanded
  <2>2. CASE \E m \in Mailboxes : owner[m] = u /\ Known(q.id, m)
    BY <1>3, <2>2 DEF NewlyHanded, Known
  <2>3. QED
    BY <1>1, <1>3, <2>1, <2>2 DEF NewlyHanded
<1>4. CASE OwnersStay
  BY <1>1, <1>4 DEF OwnersStay
<1>5. QED
  BY <1>2, <1>3, <1>4, HandedStep

\* Whoever answers at a route, claims a mailbox late or acknowledges out of
\* order: an envelope is handed to the owner of its mailbox and to nobody else.
THEOREM OwnersOnly == DaddySpec => []OnlyOwnersReceive
<1> DEFINE IInv == TypeOK /\ DaddyInv /\ Sourced /\ OnlyOwnersReceive
<1>1. DaddyInit => IInv
  <2>1. DaddyInit => OnlyOwnersReceive
    BY HeldStoreAssumption DEF DaddyInit, OnlyOwnersReceive, Submission
  <2>2. QED
    BY <2>1, DaddyStart, SourcedStart
<1>2. IInv /\ [DaddyNext]_allVars => IInv'
  BY DaddyStep, SourcedStep, OnlyOwnersStep
<1>3. IInv => OnlyOwnersReceive
  OBVIOUS
<1> HIDE DEF IInv
<1>4. QED
  BY <1>1, <1>2, <1>3, PTL DEF DaddySpec, allVars

-----------------------------------------------------------------------------
(***************************************************************************)
(* Registrations                                                           *)
(***************************************************************************)

\* mailbox_owners has no row removed or replaced: who claimed a mailbox first
\* collects its envelopes for good.
THEOREM OwnersStayFinal == DaddySpec => OwnersAreFinal
<1> DEFINE Final == \A m \in Mailboxes : owner[m] # NoUser => owner'[m] = owner[m]
           IInv == TypeOK /\ DaddyInv /\ Sourced
<1>1. DaddyInit => IInv
  BY DaddyStart, SourcedStart
<1>2. IInv /\ [DaddyNext]_allVars => IInv'
  BY DaddyStep, SourcedStep
<1>3. IInv /\ [DaddyNext]_allVars => Final
  <2> SUFFICES ASSUME IInv, [DaddyNext]_allVars,
                      NEW m \in Mailboxes, owner[m] # NoUser
               PROVE  owner'[m] = owner[m]
    OBVIOUS
  <2>1. owner[m] \in Users
    BY DEF DaddyInv, DaddyTypeOK
  <2>2. NewlyHanded \/ OwnersStay
    BY HandedStep DEF DaddyInv, Local
  <2>3. QED
    BY <2>1, <2>2 DEF NewlyHanded, OwnersStay
<1> HIDE DEF IInv, Final
<1>4. DaddySpec => [][Final]_allVars
  BY <1>1, <1>2, <1>3, PTL DEF DaddySpec, allVars
<1>5. QED
  BY <1>4 DEF OwnersAreFinal, Final, allVars

\* The limits count what there is: owners are finitely many.
RegInv == IsFiniteSet(Claimed) /\ RegistrationsBounded

LEMMA ActiveFinite ==
  ASSUME IsFiniteSet(Claimed), NEW u \in Users
  PROVE  /\ IsFiniteSet(ActiveRoutes(u))
         /\ Cardinality(ActiveRoutes(u)) \in Nat
<1>1. ActiveRoutes(u) \in SUBSET Claimed
  BY HeldStoreAssumption DEF ActiveRoutes, Claimed
<1>2. QED
  BY <1>1, FS_Subset, FS_CardinalityType

LEMMA TimeGoesOn ==
  ASSUME TypeOK, [Next]_vars
  PROVE  now' \in Nat /\ now <= now'
BY CommitCases DEF TypeOK, Next, vars, Tick, Open, BeginHold, FailHold, Return, Delete,
       Expire, Crash

\* Routes that are left alone, swept or run out only become fewer.
LEMMA FewerRoutes ==
  ASSUME TypeOK, DaddyTypeOK, RegInv, [Next]_vars, UNCHANGED owner,
         route' \in {route, Swept}
  PROVE  RegInv'
<1>1. now \in Nat /\ now' \in Nat /\ now <= now'
  BY TimeGoesOn DEF TypeOK
<1>2. Claimed' = Claimed
  BY DEF Claimed
<1>3. ASSUME NEW u \in Users
      PROVE  Cardinality(ActiveRoutes(u)') <= RoutesPerIdentity
  <2>1. \A m \in Mailboxes : route'[m] \in {route[m], 0} /\ route[m] \in Nat
    BY DEF Swept, DaddyTypeOK
  <2>2. ActiveRoutes(u)' \in SUBSET ActiveRoutes(u)
    BY <1>1, <2>1 DEF ActiveRoutes
  <2>3. /\ IsFiniteSet(ActiveRoutes(u)) /\ Cardinality(ActiveRoutes(u)) \in Nat
        /\ Cardinality(ActiveRoutes(u)) <= RoutesPerIdentity
    BY ActiveFinite DEF RegInv, RegistrationsBounded
  <2>4. /\ Cardinality(ActiveRoutes(u)') <= Cardinality(ActiveRoutes(u))
        /\ Cardinality(ActiveRoutes(u)') \in Nat
    BY <2>2, <2>3, FS_Subset, FS_CardinalityType
  <2>5. QED
    BY <2>3, <2>4, DaddyAssumption
<1>4. QED
  BY <1>2, <1>3 DEF RegInv, RegistrationsBounded

LEMMA OneMoreIsBounded ==
  ASSUME NEW S, IsFiniteSet(S), NEW x, NEW limit \in Nat, Cardinality(S) < limit
  PROVE  /\ IsFiniteSet(S \cup {x})
         /\ Cardinality(S \cup {x}) <= limit
<1>0. Cardinality(S) \in Nat
  BY FS_CardinalityType
<1>1. CASE x \in S
  <2>1. S \cup {x} = S
    BY <1>1
  <2>2. QED
    BY <1>0, <2>1
<1>2. CASE x \notin S
  <2>1. /\ IsFiniteSet(S \cup {x})
        /\ Cardinality(S \cup {x}) = Cardinality(S) + 1
    BY <1>2, FS_AddElement
  <2>2. QED
    BY <1>0, <2>1
<1>3. QED
  BY <1>1, <1>2

\* SetOwnedMailboxRoute, for identity u.
LEMMA SetOwnedBounded ==
  ASSUME DaddyTypeOK, RegInv, NEW u \in Users, NEW m \in Mailboxes, NEW expires,
         SetOwned(u, m, expires), UNCHANGED now
  PROVE  RegInv'
<1> USE DaddyAssumption
<1>1. CASE UNCHANGED <<owner, route>>
  BY <1>1 DEF RegInv, RegistrationsBounded, Claimed, ActiveRoutes
<1>2. CASE /\ \/ owner[m] = u
              \/ /\ owner[m] = NoUser
                 /\ Cardinality(Claimed) < MailboxOwnersGlobal
           /\ Cardinality(ActiveRoutes(u) \ {m}) < RoutesPerIdentity
           /\ owner' = [owner EXCEPT ![m] = u]
           /\ route' = [route EXCEPT ![m] = expires]
  <2>1. u # NoUser /\ owner' \in [Mailboxes -> Users \cup {NoUser}]
    BY <1>2, HeldStoreAssumption DEF DaddyTypeOK
  <2>2. Claimed' = Claimed \cup {m}
    BY <1>2, <2>1 DEF Claimed, DaddyTypeOK
  <2>3. IsFiniteSet(Claimed') /\ Cardinality(Claimed') <= MailboxOwnersGlobal
    <3>1. CASE owner[m] = u
      <4>1. Claimed' = Claimed
        BY <2>1, <2>2, <3>1 DEF Claimed
      <4>2. QED
        BY <4>1 DEF RegInv, RegistrationsBounded
    <3>2. CASE Cardinality(Claimed) < MailboxOwnersGlobal
      BY <2>2, <3>2, OneMoreIsBounded DEF RegInv
    <3>3. QED
      BY <1>2, <3>1, <3>2
  <2>4. ASSUME NEW v \in Users
        PROVE  Cardinality(ActiveRoutes(v)') <= RoutesPerIdentity
    <3>1. CASE v = u
      <4> DEFINE Others == ActiveRoutes(u) \ {m}
      <4>1. ActiveRoutes(v)' \in SUBSET (Others \cup {m})
        BY <1>2, <3>1 DEF ActiveRoutes, DaddyTypeOK
      <4>2. IsFiniteSet(Others)
        BY ActiveFinite, FS_Difference DEF RegInv
      <4>3. /\ IsFiniteSet(Others \cup {m})
            /\ Cardinality(Others \cup {m}) <= RoutesPerIdentity
        BY <1>2, <4>2, OneMoreIsBounded
      <4> HIDE DEF Others
      <4>4. /\ Cardinality(Others \cup {m}) \in Nat
            /\ Cardinality(ActiveRoutes(v)') \in Nat
            /\ Cardinality(ActiveRoutes(v)') <= Cardinality(Others \cup {m})
        BY <4>1, <4>3, FS_Subset, FS_CardinalityType
      <4>5. QED
        BY <4>3, <4>4
    <3>2. CASE v # u
      <4>0. v # NoUser
        BY HeldStoreAssumption
      <4>1. ActiveRoutes(v)' = ActiveRoutes(v)
        BY <1>2, <2>1, <3>2, <4>0 DEF ActiveRoutes, DaddyTypeOK
      <4>2. QED
        BY <4>1 DEF RegInv, RegistrationsBounded
    <3>3. QED
      BY <3>1, <3>2
  <2>5. QED
    BY <2>3, <2>4 DEF RegInv, RegistrationsBounded
<1>3. QED
  BY <1>1, <1>2 DEF SetOwned

LEMMA RegStep ==
  ASSUME TypeOK, DaddyInv, RegInv, [DaddyNext]_allVars
  PROVE  RegInv'
<1>1. [Next]_vars /\ DaddyTypeOK
  BY DaddyStep DEF DaddyInv
<1>2. ASSUME UNCHANGED owner, route' \in {route, Swept} PROVE RegInv'
  BY <1>1, <1>2, FewerRoutes
<1>3. ASSUME NEW s \in Callers, NEW m \in Mailboxes, NEW expires,
             RegisterRoute(s, m, expires)
      PROVE  RegInv'
  <2>1. session[s] # Closed /\ session[s].peer \in Users
    BY <1>3, BoundSession DEF RegisterRoute, Serving, DaddyInv, Local
  <2>2. UNCHANGED now
    BY <1>3 DEF RegisterRoute, vars
  <2>3. CASE SetOwned(session[s].peer, m, Capped(expires))
    BY <1>1, <2>1, <2>2, <2>3, SetOwnedBounded
  <2>4. CASE UNCHANGED <<owner, route>>
    BY <1>2, <2>4
  <2>5. QED
    BY <1>3, <2>3, <2>4 DEF RegisterRoute
<1>4. ASSUME NEW s \in Callers,
             \/ \E u \in Users : Accept(s, u)
             \/ Close(s)
             \/ \E q \in Submissions : Hold(s, q) \/ GhostForward(s, q)
             \/ StoreHold(s)
             \/ HoldAck(s)
             \/ \E m \in Mailboxes :
                  \/ FetchMessages(s, m)
                  \/ \E id \in Envelopes, status \in {"delivered", "rejected"} :
                       DeliveryAck(s, id, m, status)
      PROVE  RegInv'
  BY <1>2, <1>4 DEF Accept, Close, Hold, GhostForward, StoreHold, HoldAck,
                    FetchMessages, DeliveryAck, daddyVars
<1>5. ASSUME NEW f \in Forwarders, Forwarding(f) PROVE RegInv'
  BY <1>2, <1>5 DEF Forwarding, ForwardLookup, ForwardDial, ForwardFail, ForwardDelete
<1>6. CASE CleanEnvelopes \/ CleanRoutes \/ Start \/ Stop \/ Clock
           \/ UNCHANGED allVars
  BY <1>2, <1>6
     DEF CleanEnvelopes, CleanRoutes, Start, Stop, Clock, allVars, daddyVars
<1>7. QED
  BY <1>3, <1>4, <1>5, <1>6 DEF DaddyNext

\* Slots, owners and routes stay within the limits of the Daddy, in every
\* interleaving of sessions and forwarders.
THEOREM LimitsStayKept == DaddySpec => []LimitsKept
<1> DEFINE IInv == TypeOK /\ DaddyInv /\ RegInv
<1>1. DaddyInit => IInv
  <2> SUFFICES ASSUME DaddyInit PROVE RegInv
    BY DaddyStart
  <2>1. Claimed = {} /\ \A u \in Users : ActiveRoutes(u) = {}
    BY HeldStoreAssumption DEF DaddyInit, Claimed, ActiveRoutes
  <2>2. QED
    BY <2>1, FS_EmptySet, DaddyAssumption DEF RegInv, RegistrationsBounded
<1>2. IInv /\ [DaddyNext]_allVars => IInv'
  BY DaddyStep, RegStep
<1>3. IInv => LimitsKept
  BY DEF DaddyInv, RegInv, LimitsKept
<1> HIDE DEF IInv
<1>4. QED
  BY <1>1, <1>2, <1>3, PTL DEF DaddySpec, allVars

-----------------------------------------------------------------------------
(***************************************************************************)
(* What an answer to a sender is worth                                     *)
(***************************************************************************)

\* A new replay record is that of an envelope that is held.
LEMMA RecordsStep ==
  ASSUME TypeOK, [Next]_vars, NEW r \in dedup', r \notin dedup
  PROVE  r \in held'
<1>1. CASE held' = held /\ dedup' = Unexpired(held, now)
  BY <1>1 DEF Unexpired
<1>2. ASSUME NEW c \in Callers, NEW t, Committed(c, t)
      PROVE  r \in held'
  BY <1>2 DEF Committed, Unexpired
<1>3. QED
  BY <1>1, <1>2, TableChanges

LEMMA KeptStep ==
  ASSUME TypeOK, DaddyInv, Sourced, KeptUntilHanded, [DaddyNext]_allVars
  PROVE  KeptUntilHanded'
<1>1. [Next]_vars /\ TypeOK' /\ DaddyInv'
  BY DaddyStep
<1>2. SUFFICES ASSUME NEW r \in dedup', r.expires > now', r \notin held'
               PROVE  owner'[r.mailbox] \in handed'[r.id]
  BY DEF KeptUntilHanded
<1>3. r \in dedup /\ r \in Row
  BY <1>1, <1>2, RecordsStep DEF TypeOK
<1>4. ~(r.expires <= now)
  BY <1>1, <1>2, <1>3, TimeGoesOn DEF TypeOK, Row
<1>5. owner[r.mailbox] \in handed[r.id]
  <2>1. CASE r \in held
    BY <1>2, <1>4, <2>1, RemovalStep
  <2>2. CASE r \notin held
    BY <1>3, <1>4, <2>2 DEF KeptUntilHanded, TypeOK, Row
  <2>3. QED
    BY <2>1, <2>2
<1>6. /\ r.id \in Envelopes /\ r.mailbox \in Mailboxes
      /\ owner[r.mailbox] \in Users
  BY <1>3, <1>5 DEF Row, DaddyInv, DaddyTypeOK
<1>7. NewlyHanded \/ OwnersStay
  BY HandedStep DEF DaddyInv, Local
<1>8. QED
  BY <1>5, <1>6, <1>7 DEF NewlyHanded, OwnersStay

\* No acknowledgement out of order, forwarder that lost a race or restart makes
\* the replay guard refuse an envelope that its recipient will never see.
THEOREM KnownIsKept == DaddySpec => []KeptUntilHanded
<1> DEFINE IInv == TypeOK /\ DaddyInv /\ Sourced /\ KeptUntilHanded
<1>1. DaddyInit => IInv
  BY DaddyStart, SourcedStart DEF DaddyInit, Init, KeptUntilHanded
<1>2. IInv /\ [DaddyNext]_allVars => IInv'
  BY DaddyStep, SourcedStep, KeptStep
<1>3. IInv => KeptUntilHanded
  OBVIOUS
<1> HIDE DEF IInv
<1>4. QED
  BY <1>1, <1>2, <1>3, PTL DEF DaddySpec, allVars

\* A sender that was answered "held" or "already_stored" is done: until the time
\* the answer promises, the envelope of its content is held for the mailbox, or
\* the owner of that mailbox has been handed it.
AnswersAreKept ==
  \A c \in Callers :
    (call[c] # Idle /\ call[c].status \in {"held", "already_stored"}) =>
      LET q == call[c].request IN
      \/ \E r \in held : r.id = q.id /\ SameContent(r, q)
      \/ owner[q.mailbox] \in handed[q.id]
      \/ now >= Deadline(c)

\* AcknowledgedIsRecorded (the tables) and KeptUntilHanded (the sessions) give
\* what handleHoldMessage's answer means to the sender.
THEOREM SendersAreDone == DaddySpec => []AnswersAreKept
<1>1. TypeOK /\ AcknowledgedIsRecorded /\ KeptUntilHanded => AnswersAreKept
  <2> SUFFICES ASSUME TypeOK, AcknowledgedIsRecorded, KeptUntilHanded,
                      NEW c \in Callers, call[c] # Idle,
                      call[c].status \in {"held", "already_stored"},
                      ~(now >= Deadline(c))
               PROVE  LET q == call[c].request
                      IN \/ \E r \in held : r.id = q.id /\ SameContent(r, q)
                         \/ owner[q.mailbox] \in handed[q.id]
    BY DEF AnswersAreKept
  <2>1. PICK r \in dedup : /\ r.id = call[c].request.id
                           /\ r.mailbox = call[c].request.mailbox
                           /\ r.payload = call[c].request.payload
                           /\ r.expires >= Deadline(c)
    BY DEF AcknowledgedIsRecorded
  <2>2. Deadline(c) \in Nat /\ r.expires \in Nat /\ now \in Nat
    BY DEF TypeOK, Row, Call, Deadline
  <2>3. r \in held \/ owner[r.mailbox] \in handed[r.id]
    BY <2>1, <2>2 DEF KeptUntilHanded
  <2>4. QED
    BY <2>1, <2>3 DEF SameContent
<1>2. QED
  BY <1>1, TablesUsedAsSpecified, TypeCorrect, AnswersAreTrue, KnownIsKept, PTL
     DEF StoreUsed

\* What one Daddy promises about its tables (EnvelopePromise, quotas, replay
\* guard), it keeps whatever sessions, forwarders and restarts do to them.
THEOREM DaddyKeepsPromise ==
  DaddySpec => PromiseKept /\ NeverLostBeforeExpiry /\ [](StoreInv /\ QuotasRespected)
BY TablesUsedAsSpecified, ImplementsPromise, NothingLost, ReplayGuard, QuotasHold,
   PTL DEF StoreUsed
==============================================================================
