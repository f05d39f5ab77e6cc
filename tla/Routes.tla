-------------------------------- MODULE Routes --------------------------------
(***************************************************************************)
(* The routes to one node's mailbox: the daemon's loop that registers them *)
(* with every Daddy (DialPersistentWithRetry and RegisterRouteWithDaddy in *)
(* internal/network/daddy.go), and the tables from which senders take an   *)
(* address (mailbox_routes, which is both a Daddy's registrations and a    *)
(* sender's cache of the routes it looked up, and peer_routes).            *)
(*                                                                         *)
(* Every moment of the future (the expiry of a row, the next refresh, the  *)
(* end of a wait) is the number of seconds until it comes; a moment of the *)
(* past is 0.  A row that has expired is no row, since every query ignores *)
(* it.  The clocks of the hosts agree.  MaxPass bounds the duration of one *)
(* pass of the loop, which is a sequence of sessions with a deadline each. *)
(***************************************************************************)
EXTENDS Integers, Sequences

CONSTANTS
  Relays,           \* the Daddies, in the order of DaddyAddresses
  Dead,             \* the Daddies that never answer
  Senders,          \* hosts that send to the node; a Daddy may be one
  Addresses,        \* where the node may listen
  SourcePort,       \* the client end of a connection: nobody listens there
  Nowhere,
  DefaultRouteTTL,
  RetryInterval,
  MaxPass           \* bound on the duration of a pass of the loop

Daddies == {Relays[k] : k \in DOMAIN Relays}
Hosts == Daddies \cup Senders

Route == [address : Addresses \cup {SourcePort, Nowhere},
          left : 0 .. DefaultRouteTTL]
NoRoute == [address |-> Nowhere, left |-> 0]

ASSUME RoutesAssumption ==
  /\ Relays \in Seq(Daddies) /\ Relays # <<>>
  /\ \A j, k \in DOMAIN Relays : Relays[j] = Relays[k] => j = k
  /\ Dead \subseteq Daddies
  /\ Addresses # {}
  /\ SourcePort \notin Addresses /\ Nowhere \notin Addresses
  /\ SourcePort # Nowhere
  /\ DefaultRouteTTL \in Nat \ {0}
  /\ RetryInterval \in Nat \ {0}
  /\ MaxPass \in Nat

VARIABLES
  here,           \* where the node listens
  phase,          \* the daemon's loop
  timer,          \* until the timer fires, or the most the pass can still take
  untilRefresh,   \* nextRouteRefresh
  registering,    \* registerRoutes
  registered,     \* routesRegistered
  index,          \* the Daddy whose turn it is
  request,        \* the registration on its way
  mailboxRoute,   \* mailbox_routes at every host
  peerRoute,      \* peer_routes at every sender
  lookup,         \* a Daddy's answer that a sender has not stored yet
  kept,           \* history: the Daddy took the last registration
  lately          \* history: for how long an address may still be found

loop == <<phase, timer, untilRefresh, registering, registered, index, request>>
tables == <<mailboxRoute, peerRoute, lookup>>
vars == <<here, loop, tables, kept, lately>>

Less(n) == IF n > 0 THEN n - 1 ELSE 0
Aged(route) == IF route.left > 1 THEN [route EXCEPT !.left = @ - 1] ELSE NoRoute

Init ==
  /\ here \in Addresses
  /\ phase = "stopped" /\ timer = 0 /\ untilRefresh = 0
  /\ registering = FALSE /\ registered = FALSE
  /\ index = 1
  /\ request = NoRoute
  /\ mailboxRoute = [h \in Hosts |-> NoRoute]
  /\ peerRoute = [h \in Senders |-> NoRoute]
  /\ lookup = [h \in Senders |-> NoRoute]
  /\ kept = [d \in Daddies |-> FALSE]
  /\ lately = [a \in Addresses |->
                 IF a = here THEN DefaultRouteTTL + MaxPass ELSE 0]

-----------------------------------------------------------------------------
(***************************************************************************)
(* The loop                                                                *)
(***************************************************************************)

\* A pass registers the routes when their refresh is due.
Begin(until) ==
  /\ phase' = IF until = 0 THEN "discover" ELSE "rest"
  /\ registering' = (until = 0)
  /\ registered' = TRUE
  /\ timer' = MaxPass
  /\ index' = 1

Start ==
  /\ phase = "stopped"
  /\ untilRefresh' = 0
  /\ Begin(0)
  /\ UNCHANGED <<here, request, tables, kept, lately>>

Wake ==
  /\ phase = "asleep"
  /\ timer = 0
  /\ Begin(untilRefresh)
  /\ UNCHANGED <<here, untilRefresh, request, tables, kept, lately>>

\* Mutant: one Daddy too many.
ProceedPast(done) ==
  /\ registered' = (registered /\ done)
  /\ index' = index + 1
  /\ phase' = IF index <= Len(Relays) THEN "discover" ELSE "rest"
  /\ request' = NoRoute
  /\ UNCHANGED <<here, timer, untilRefresh, registering, peerRoute, lookup,
                 lately>>

\* On to the next Daddy.
Proceed(done) ==
  /\ registered' = (registered /\ done)
  /\ index' = index + 1
  /\ phase' = IF index < Len(Relays) THEN "discover" ELSE "rest"
  /\ request' = NoRoute
  /\ UNCHANGED <<here, timer, untilRefresh, registering, peerRoute, lookup,
                 lately>>

\* discoverAdvertisedAddress
Discover ==
  /\ phase = "discover"
  /\ phase' = "dial"
  /\ request' = [address |-> here, left |-> 0]
  /\ UNCHANGED <<here, timer, untilRefresh, registering, registered, index,
                 tables, kept, lately>>

\* The session is open and authorized; the expiry is computed.
Ask ==
  /\ phase = "dial"
  /\ Relays[index] \notin Dead
  /\ phase' = "ask"
  /\ request' = [request EXCEPT !.left = DefaultRouteTTL]
  /\ UNCHANGED <<here, timer, untilRefresh, registering, registered, index,
                 tables, kept, lately>>

\* The Daddy stores the route.  Even so the registration fails when the answer
\* is lost or the node cannot store its own copy.
Register(done) ==
  /\ phase = "ask"
  /\ request.left > 0
  /\ mailboxRoute' = [mailboxRoute EXCEPT ![Relays[index]] = request]
  /\ kept' = [kept EXCEPT ![Relays[index]] = TRUE]
  /\ Proceed(done)

\* No address, no session, no quota.
Refuse ==
  /\ phase \in {"discover", "dial", "ask"}
  /\ kept' = [kept EXCEPT ![Relays[index]] = FALSE]
  /\ Proceed(FALSE)
  /\ UNCHANGED mailboxRoute

Delay(until, retrySoon) ==
  IF ~retrySoon /\ until > 0 /\ until < RetryInterval
  THEN until ELSE RetryInterval

\* Mutant: the refresh comes when the routes expire.
RestTooLong(failed) ==
  LET until == IF registering /\ registered
               THEN DefaultRouteTTL ELSE untilRefresh
  IN
  /\ phase = "rest"
  /\ phase' = "asleep"
  /\ untilRefresh' = until
  /\ timer' = Delay(until, failed \/ ~registered)
  /\ registering' = FALSE /\ registered' = FALSE
  /\ index' = 1
  /\ UNCHANGED <<here, request, tables, kept, lately>>

\* Mutant: every pass without a failure postpones the refresh.
RestPostpones(failed) ==
  LET until == IF registered THEN DefaultRouteTTL \div 2 ELSE untilRefresh
  IN
  /\ phase = "rest"
  /\ phase' = "asleep"
  /\ untilRefresh' = until
  /\ timer' = Delay(until, failed \/ ~registered)
  /\ registering' = FALSE /\ registered' = FALSE
  /\ index' = 1
  /\ UNCHANGED <<here, request, tables, kept, lately>>

\* The rest of the pass (the outbox, the queued messages, the fetch), which may
\* fail, and the wait for the next one.
Rest(failed) ==
  LET until == IF registering /\ registered
               THEN DefaultRouteTTL \div 2 ELSE untilRefresh
  IN
  /\ phase = "rest"
  /\ phase' = "asleep"
  /\ untilRefresh' = until
  /\ timer' = Delay(until, failed \/ ~registered)
  /\ registering' = FALSE /\ registered' = FALSE
  /\ index' = 1
  /\ UNCHANGED <<here, request, tables, kept, lately>>

\* The process ends, at any moment.
Stop ==
  /\ phase # "stopped"
  /\ phase' = "stopped"
  /\ timer' = 0 /\ untilRefresh' = 0
  /\ registering' = FALSE /\ registered' = FALSE
  /\ index' = 1
  /\ request' = NoRoute
  /\ kept' = [d \in Daddies |-> FALSE]
  /\ UNCHANGED <<here, tables, lately>>

\* The node changes networks, or its operator the advertised address.
Move(a) ==
  /\ a # here
  /\ here' = a
  /\ lately' = [lately EXCEPT ![a] = DefaultRouteTTL + MaxPass]
  /\ UNCHANGED <<loop, tables, kept>>

-----------------------------------------------------------------------------
(***************************************************************************)
(* The senders                                                             *)
(***************************************************************************)

\* resolveRecipient
Known(h) ==
  IF peerRoute[h] # NoRoute THEN peerRoute[h].address
  ELSE mailboxRoute[h].address

\* handleLookupRoute: the Daddy d answers, and has a route.
Found(d) == d \notin Dead /\ mailboxRoute[d] # NoRoute

\* RegisterOrReplaceRoute: the only route of the node that h keeps.
Replace(h, address) ==
  peerRoute' = [peerRoute EXCEPT
    ![h] = [address |-> address, left |-> DefaultRouteTTL]]

\* LookupRouteWithDaddy, up to the Daddy's answer.
Lookup(h, d) ==
  /\ Known(h) = Nowhere
  /\ lookup[h] = NoRoute
  /\ d # h
  /\ Found(d)
  /\ lookup' = [lookup EXCEPT ![h] = mailboxRoute[d]]
  /\ UNCHANGED <<here, loop, mailboxRoute, peerRoute, kept, lately>>

\* Mutant: a route looked up is stored with a lifetime of its own.
CacheAfresh(h) ==
  /\ lookup[h] # NoRoute
  /\ mailboxRoute' = [mailboxRoute EXCEPT
       ![h] = [lookup[h] EXCEPT !.left = DefaultRouteTTL]]
  /\ lookup' = [lookup EXCEPT ![h] = NoRoute]
  /\ kept' = [d \in Daddies |-> kept[d] /\ d # h]
  /\ UNCHANGED <<here, loop, peerRoute, lately>>

\* SetMailboxRoute: replaces whatever is there, a registration too.
Cache(h) ==
  /\ lookup[h] # NoRoute
  /\ mailboxRoute' = [mailboxRoute EXCEPT ![h] = lookup[h]]
  /\ lookup' = [lookup EXCEPT ![h] = NoRoute]
  /\ kept' = [d \in Daddies |-> kept[d] /\ d # h]
  /\ UNCHANGED <<here, loop, peerRoute, lately>>

\* The address answers as the node, and recordOutboundPeer remembers it.  A
\* forwarder of h dials the registration, whatever else h knows.
Reach(h) ==
  /\ here \in {Known(h), mailboxRoute[h].address}
  /\ phase # "stopped"
  /\ Replace(h, here)
  /\ UNCHANGED <<here, loop, mailboxRoute, lookup, kept, lately>>

\* No answer: DeleteRoute removes the address from peer_routes, if it is there.
Miss(h) ==
  /\ Known(h) # Nowhere
  /\ peerRoute' = [peerRoute EXCEPT ![h] = NoRoute]
  /\ UNCHANGED <<here, loop, mailboxRoute, lookup, kept, lately>>

\* The node connects to the sender, whose recordInboundPeer replaces the route
\* by the source address of the connection.
Inbound(h) ==
  /\ Replace(h, SourcePort)
  /\ UNCHANGED <<here, loop, mailboxRoute, lookup, kept, lately>>

-----------------------------------------------------------------------------

Tick ==
  /\ phase = "stopped" \/ timer > 0
  /\ timer' = Less(timer)
  /\ untilRefresh' = Less(untilRefresh)
  /\ request' = IF request.left > 0 THEN Aged(request) ELSE request
  /\ mailboxRoute' = [h \in Hosts |-> Aged(mailboxRoute[h])]
  /\ peerRoute' = [h \in Senders |-> Aged(peerRoute[h])]
  /\ lookup' = [h \in Senders |-> Aged(lookup[h])]
  /\ lately' = [a \in Addresses |->
                  IF a = here THEN lately[a] ELSE Less(lately[a])]
  /\ UNCHANGED <<here, phase, registering, registered, index, kept>>

Registering ==
  Discover \/ Ask \/ Refuse \/ \E done \in BOOLEAN : Register(done)

Sending(h) ==
  \/ \E d \in Daddies : Lookup(h, d)
  \/ Cache(h)
  \/ Reach(h)
  \/ Miss(h)
  \/ Inbound(h)

Next ==
  \/ Start
  \/ Wake
  \/ Registering
  \/ \E failed \in BOOLEAN : Rest(failed)
  \/ Stop
  \/ \E a \in Addresses : Move(a)
  \/ \E h \in Senders : Sending(h)
  \/ Tick

Spec == Init /\ [][Next]_vars

(***************************************************************************)
(* The process is scheduled and time passes; a Daddy that is not dead      *)
(* takes a registration once in a while.  Nothing is assumed of Stop, nor  *)
(* of the senders.                                                         *)
(***************************************************************************)
Turn(d) == phase \in {"discover", "dial", "ask"} /\ Relays[index] = d
Fairness ==
  /\ WF_vars(Start) /\ WF_vars(Wake) /\ WF_vars(Tick)
  /\ WF_vars(Registering) /\ WF_vars(\E failed \in BOOLEAN : Rest(failed))
  /\ \A d \in Daddies \ Dead :
       /\ SF_vars(Turn(d) /\ Discover)
       /\ SF_vars(Turn(d) /\ Ask)
       /\ SF_vars(Turn(d) /\ \E done \in BOOLEAN : Register(done))

FairSpec == Spec /\ Fairness

-----------------------------------------------------------------------------
(***************************************************************************)
(* Properties                                                              *)
(***************************************************************************)

\* The types of the loop, the tables and the histories; the loop never goes
\* past its last Daddy.
TypeOK ==
  /\ here \in Addresses
  /\ phase \in {"stopped", "asleep", "discover", "dial", "ask", "rest"}
  /\ timer \in Nat /\ untilRefresh \in Nat
  /\ registering \in BOOLEAN /\ registered \in BOOLEAN
  /\ index \in 1 .. Len(Relays) + 1
  /\ phase \in {"discover", "dial", "ask"} => index \in DOMAIN Relays
  /\ request \in Route
  /\ mailboxRoute \in [Hosts -> Route]
  /\ peerRoute \in [Senders -> Route]
  /\ lookup \in [Senders -> Route]
  /\ kept \in [Daddies -> BOOLEAN]
  /\ lately \in [Addresses -> Nat]

\* A Daddy that took every registration since the daemon started, or since the
\* last one it missed, has a route of the node at any moment, when a wait and
\* the three passes around it are shorter than the other half of a lifetime:
\* the longest gap is a refresh that falls due during a pass without it.
Timely == RetryInterval + 3 * MaxPass + DefaultRouteTTL \div 2 < DefaultRouteTTL
KeptAlive ==
  Timely => \A d \in Daddies : kept[d] => mailboxRoute[d] # NoRoute

\* No host gives an address that the node left a lifetime and a pass ago,
\* however often the route was copied from one host to another.
StaleRoutesEnd ==
  \A h \in Hosts, a \in Addresses :
    /\ mailboxRoute[h].address = a => mailboxRoute[h].left <= lately[a]
    /\ h \in Senders /\ peerRoute[h].address = a => peerRoute[h].left <= lately[a]
    /\ h \in Senders /\ lookup[h].address = a => lookup[h].left <= lately[a]

\* While the node is up, a Daddy that answers once in a while has its route
\* again and again.
RouteReturns ==
  \A d \in Daddies \ Dead :
    <>[](phase # "stopped") => []<>(mailboxRoute[d] # NoRoute)

\* dial.go:216, of recordPeer: "The route registration supersedes stale
\* addresses so a fresh route B replaces a dead route A".  The code replaces a
\* live one too.
OnlyDeadRoutesReplaced ==
  [][\A h \in Senders :
       peerRoute'[h].address \notin {peerRoute[h].address, Nowhere} =>
         peerRoute[h].address # here]_vars
==============================================================================
