----------------------------- MODULE RoutesProofs -----------------------------
(***************************************************************************)
(* Proofs about Routes: a route does not lapse between two registrations   *)
(* (KeptAlive), and no copy of it outlives its lifetime (StaleRoutesEnd).  *)
(*                                                                         *)
(* KeptAlive is a statement about time.  Its invariant (Ahead) says, for   *)
(* every point of the loop, how long a route must still last so that the   *)
(* loop comes back in time.                                                *)
(***************************************************************************)
EXTENDS Routes, TLAPS

Turns == {"discover", "dial", "ask"}
Phases == {"stopped", "asleep", "rest"} \cup Turns

\* What the loop's variables have to do with each other.
LoopOK ==
  /\ phase \in Turns => registering /\ index <= Len(Relays)
  /\ registering => phase \in Turns \cup {"rest"} /\ untilRefresh = 0
  /\ registering /\ phase = "rest" => index = Len(Relays) + 1
  /\ phase \in Turns \cup {"rest"} => timer <= MaxPass
  /\ phase = "ask" => request.left + MaxPass >= DefaultRouteTTL + timer
  /\ phase = "stopped" => \A d \in Daddies : kept[d] = FALSE

\* The route at the k-th Daddy lasts until the loop registers it again.
Ahead(k) ==
  LET left == mailboxRoute[Relays[k]].left IN
  /\ (phase = "asleep" /\ timer >= untilRefresh) => left > timer + MaxPass
  /\ (phase = "asleep" /\ timer < untilRefresh) =>
       left > untilRefresh + 2 * MaxPass + RetryInterval
  /\ (phase = "rest" /\ ~registering) =>
       /\ left > timer + MaxPass + RetryInterval
       /\ untilRefresh > 0 => left > untilRefresh + 2 * MaxPass + RetryInterval
  /\ (registering /\ k >= index) => left > timer
  /\ (registering /\ k < index) => left + MaxPass >= DefaultRouteTTL + timer

AllAhead == Timely => \A k \in DOMAIN Relays : kept[Relays[k]] => Ahead(k)

\* An address on its way to a Daddy was the node's when this pass began, or
\* later.
RequestIsRecent ==
  /\ lately[here] = DefaultRouteTTL + MaxPass
  /\ phase = "dial" => /\ request.address \in Addresses
                       /\ request.left = 0
                       /\ lately[request.address] >= DefaultRouteTTL + timer
  /\ phase = "ask" => \A a \in Addresses :
                        request.address = a => request.left <= lately[a]

\* StaleRoutesEnd is this of every row.
Recent(route) ==
  \A a \in Addresses : route.address = a => route.left <= lately[a]

-----------------------------------------------------------------------------

LEMMA Constants ==
  /\ Len(Relays) \in Nat /\ DOMAIN Relays = 1 .. Len(Relays)
  /\ \A k \in DOMAIN Relays : Relays[k] \in Daddies
  /\ \A d \in Daddies : \E k \in DOMAIN Relays : Relays[k] = d
  /\ \A j, k \in DOMAIN Relays : Relays[j] = Relays[k] => j = k
  /\ Len(Relays) >= 1
BY RoutesAssumption DEF Daddies

LEMMA AgedRoute ==
  ASSUME NEW route \in Route
  PROVE  /\ Aged(route) \in Route
         /\ Aged(route).left = Less(route.left)
         /\ Aged(route).address \in {route.address, Nowhere}
         /\ Aged(route).address = Nowhere \/ Aged(route).left = route.left - 1
BY RoutesAssumption DEF Aged, Less, Route, NoRoute

LEMMA NoRouteIsRoute == NoRoute \in Route
BY RoutesAssumption DEF NoRoute, Route

LEMMA Half == DefaultRouteTTL \div 2 \in Nat
<1>1. ASSUME NEW n \in Nat PROVE n \div 2 \in Nat
  OBVIOUS
<1>2. QED
  BY <1>1, RoutesAssumption

LEMMA NewRoutes ==
  ASSUME NEW a \in Addresses \cup {SourcePort}
  PROVE  /\ [address |-> a, left |-> 0] \in Route
         /\ [address |-> a, left |-> DefaultRouteTTL] \in Route
BY RoutesAssumption DEF Route

LEMMA Prolonged ==
  ASSUME NEW route \in Route
  PROVE  [route EXCEPT !.left = DefaultRouteTTL] \in Route
<1>1. DefaultRouteTTL \in 0 .. DefaultRouteTTL
  BY RoutesAssumption
<1>2. QED
  BY <1>1 DEF Route

LEMMA FirstIndex == 1 \in 1 .. Len(Relays) + 1 /\ 1 \in DOMAIN Relays
BY Constants

\* The types of the loop and the tables (DialPersistentWithRetry in daddy.go,
\* mailbox_routes and peer_routes): the loop never addresses a Daddy past the
\* last one.
THEOREM RoutesTypeCorrect == Spec => []TypeOK
<1>1. ASSUME Init PROVE TypeOK
  <2>1. lately \in [Addresses -> Nat]
    BY <1>1, RoutesAssumption DEF Init
  <2>2. index \in 1 .. Len(Relays) + 1
    BY <1>1, Constants DEF Init
  <2>3. QED
    BY <1>1, <2>1, <2>2, NoRouteIsRoute DEF Init, TypeOK
<1>2. ASSUME TypeOK, [Next]_vars
      PROVE  TypeOK'
  <2> USE <1>2 DEF TypeOK
  <2>1. CASE Start
    BY <2>1, RoutesAssumption, Constants DEF Start, Begin, tables
  <2>2. CASE Wake
    BY <2>2, RoutesAssumption, Constants DEF Wake, Begin, tables
  <2>3. CASE Discover
    <3>1. request' \in Route
      BY <2>3, NewRoutes DEF Discover
    <3>2. QED
      BY <2>3, <3>1 DEF Discover, tables
  <2>4. CASE Ask
    <3>1. [request EXCEPT !.left = DefaultRouteTTL] \in Route
      BY Prolonged
    <3>2. QED
      BY <2>4, <3>1 DEF Ask, tables
  <2>5. CASE Refuse
    <3>1. /\ index' \in 1 .. Len(Relays) + 1
          /\ phase' \in Turns => index' \in DOMAIN Relays
      BY <2>5, Constants DEF Refuse, Proceed, Turns
    <3>2. phase' \in {"discover", "rest"} /\ registered' \in BOOLEAN
      BY <2>5 DEF Refuse, Proceed
    <3>3. kept' \in [Daddies -> BOOLEAN]
      BY <2>5 DEF Refuse
    <3>4. QED
      BY <2>5, <3>1, <3>2, <3>3, NoRouteIsRoute DEF Refuse, Proceed, Turns
  <2>6. ASSUME NEW done \in BOOLEAN, Register(done) PROVE TypeOK'
    <3>1. /\ index' \in 1 .. Len(Relays) + 1
          /\ phase' \in Turns => index' \in DOMAIN Relays
      BY <2>6, Constants DEF Register, Proceed, Turns
    <3>2. phase' \in {"discover", "rest"} /\ registered' \in BOOLEAN
      BY <2>6 DEF Register, Proceed
    <3>3. kept' \in [Daddies -> BOOLEAN] /\ mailboxRoute' \in [Hosts -> Route]
      BY <2>6 DEF Register
    <3>4. QED
      BY <2>6, <3>1, <3>2, <3>3, NoRouteIsRoute DEF Register, Proceed, Turns
  <2>7. ASSUME NEW failed \in BOOLEAN, Rest(failed) PROVE TypeOK'
    <3>1. untilRefresh' \in {DefaultRouteTTL \div 2, untilRefresh}
      BY <2>7, Zenon DEF Rest
    <3>2. timer' \in {untilRefresh', RetryInterval}
      BY <2>7, Zenon DEF Rest, Delay
    <3>3. QED
      <4>1. untilRefresh' \in Nat /\ timer' \in Nat
        BY <3>1, <3>2, Half, RoutesAssumption
      <4>2. QED
        BY <2>7, <4>1, FirstIndex DEF Rest, tables
  <2>8. CASE Stop
    BY <2>8, NoRouteIsRoute, FirstIndex DEF Stop, tables
  <2>9. ASSUME NEW a \in Addresses, Move(a) PROVE TypeOK'
    BY <2>9, RoutesAssumption DEF Move, loop, tables
  <2>10. ASSUME NEW h \in Senders, Sending(h) PROVE TypeOK'
    <3>1. ASSUME NEW d \in Daddies, Lookup(h, d) PROVE TypeOK'
      <4>1. d \in Hosts
        BY DEF Hosts
      <4>2. QED
        BY <3>1, <4>1 DEF Lookup, loop
    <3>2. CASE Cache(h)
      BY <3>2, NoRouteIsRoute DEF Cache, loop
    <3>3. CASE Reach(h) \/ Miss(h) \/ Inbound(h)
      <4>1. peerRoute' \in [Senders -> Route]
        <5>1. PICK route \in Route : peerRoute' = [peerRoute EXCEPT ![h] = route]
          <6>1. CASE Reach(h)
            BY <6>1, NewRoutes DEF Reach, Replace
          <6>2. CASE Miss(h)
            BY <6>2, NoRouteIsRoute DEF Miss
          <6>3. CASE Inbound(h)
            BY <6>3, NewRoutes DEF Inbound, Replace
          <6>4. QED
            BY <3>3, <6>1, <6>2, <6>3
        <5>2. QED
          BY <5>1
      <4>2. QED
        BY <3>3, <4>1 DEF Reach, Miss, Inbound, loop
    <3>4. QED
      BY <2>10, <3>1, <3>2, <3>3 DEF Sending
  <2>11. CASE Tick
    <3>1. \A n \in Nat : Less(n) \in Nat
      BY DEF Less
    <3>2. QED
      BY <2>11, <3>1, AgedRoute DEF Tick
  <2>12. CASE UNCHANGED vars
    BY <2>12 DEF vars, loop, tables
  <2>13. QED
    BY <1>2, <2>1, <2>2, <2>3, <2>4, <2>5, <2>6, <2>7, <2>8, <2>9, <2>10,
       <2>11, <2>12 DEF Next, Registering
<1>3. QED
  BY <1>1, <1>2, PTL DEF Spec

-----------------------------------------------------------------------------

LEMMA LoopInitially ==
  ASSUME Init
  PROVE  LoopOK
BY DEF Init, LoopOK, Turns

\* A step that leaves the loop and the history of registrations alone, or takes
\* away from that history.
LEMMA LoopUntouched ==
  ASSUME TypeOK, TypeOK', LoopOK, UNCHANGED loop,
         \A d \in Daddies : kept'[d] => kept[d]
  PROVE  LoopOK'
BY DEF LoopOK, loop, TypeOK

LEMMA LoopKeeps ==
  ASSUME TypeOK, TypeOK', LoopOK, [Next]_vars
  PROVE  LoopOK'
<1> USE DEF LoopOK, Turns
<1>1. CASE Start
  <2>1. /\ phase' = "discover" /\ registering' = TRUE /\ untilRefresh' = 0
        /\ timer' = MaxPass /\ index' = 1
    BY <1>1 DEF Start, Begin
  <2>2. QED
    BY <2>1, Constants, RoutesAssumption
<1>2. CASE Wake
  <2>1. timer' = MaxPass /\ index' = 1 /\ untilRefresh' = untilRefresh
    BY <1>2 DEF Wake, Begin
  <2>2. CASE untilRefresh = 0
    <3>1. phase' = "discover" /\ registering' = TRUE
      BY <1>2, <2>2 DEF Wake, Begin
    <3>2. QED
      BY <2>1, <2>2, <3>1, Constants, RoutesAssumption
  <2>3. CASE untilRefresh # 0
    <3>1. phase' = "rest" /\ registering' = FALSE
      BY <1>2, <2>3, Zenon DEF Wake, Begin
    <3>2. QED
      BY <2>1, <3>1, RoutesAssumption
  <2>4. QED
    BY <2>2, <2>3
<1>3. CASE Discover
  BY <1>3 DEF Discover
<1>4. CASE Ask
  <2>1. request'.left = DefaultRouteTTL
    BY <1>4 DEF Ask, TypeOK, Route
  <2>2. QED
    BY <1>4, <2>1, RoutesAssumption DEF Ask, TypeOK
<1>5. ASSUME NEW done \in BOOLEAN, Proceed(done), phase \in Turns
      PROVE  LoopOK'
  BY <1>5, Constants DEF Proceed, TypeOK
<1>6. ASSUME NEW failed \in BOOLEAN, Rest(failed) PROVE LoopOK'
  BY <1>6 DEF Rest
<1>7. CASE Stop
  BY <1>7 DEF Stop
<1>8. ASSUME NEW a \in Addresses, Move(a) PROVE LoopOK'
  BY <1>8, LoopUntouched DEF Move
<1>9. ASSUME NEW h \in Senders, Sending(h) PROVE LoopOK'
  <2>1. UNCHANGED loop /\ \A d \in Daddies : kept'[d] => kept[d]
    BY <1>9 DEF Sending, Lookup, Cache, Reach, Miss, Inbound
  <2>2. QED
    BY <2>1, LoopUntouched
<1>10. CASE Tick
  <2>1. phase = "ask" => request'.left >= request.left - 1
    BY <1>10, AgedRoute DEF Tick, TypeOK, Less, Route
  <2>2. /\ timer' = Less(timer) /\ untilRefresh' = Less(untilRefresh)
        /\ timer > 0 \/ phase = "stopped"
        /\ UNCHANGED <<phase, registering, index, kept>>
    BY <1>10 DEF Tick
  <2>3. /\ timer \in Nat /\ untilRefresh \in Nat /\ DefaultRouteTTL \in Nat
        /\ request.left \in Nat /\ request'.left \in Nat /\ MaxPass \in Nat
    <3>1. request \in Route /\ request' \in Route
      BY DEF TypeOK
    <3>2. \A route \in Route : route.left \in Nat
      BY RoutesAssumption DEF Route
    <3>3. QED
      BY <3>1, <3>2, RoutesAssumption DEF TypeOK
  <2>4. phase # "stopped" => timer > 0 /\ timer' = timer - 1
    BY <2>2, <2>3 DEF Less
  <2>5. untilRefresh = 0 => untilRefresh' = 0
    BY <2>2, <2>3 DEF Less
  <2>6. phase \in Turns \cup {"rest"} => timer' <= MaxPass
    BY <2>3, <2>4
  <2>7. phase = "ask" => request'.left + MaxPass >= DefaultRouteTTL + timer'
    BY <2>1, <2>3, <2>4
  <2>8. QED
    BY <2>2, <2>5, <2>6, <2>7
<1>11. CASE UNCHANGED vars
  BY <1>11, LoopUntouched DEF vars
<1>12. QED
  BY <1>1, <1>2, <1>3, <1>4, <1>5, <1>6, <1>7, <1>8, <1>9, <1>10, <1>11
     DEF Next, Registering, Register, Refuse

LEMMA AheadInitially ==
  ASSUME Init
  PROVE  AllAhead
BY Constants DEF Init, AllAhead

\* The same for the routes: no step but a registration and time changes what a
\* kept route has ahead.
LEMMA AheadUntouched ==
  ASSUME TypeOK, AllAhead, UNCHANGED loop,
         \A k \in DOMAIN Relays :
           kept'[Relays[k]] => /\ kept[Relays[k]]
                               /\ mailboxRoute'[Relays[k]] = mailboxRoute[Relays[k]]
  PROVE  AllAhead'
BY DEF AllAhead, Ahead, loop

LEMMA AheadKeeps ==
  ASSUME TypeOK, TypeOK', LoopOK, LoopOK', AllAhead, [Next]_vars, Timely
  PROVE  AllAhead'
<1> DEFINE left(k) == mailboxRoute[Relays[k]].left
<1>0. \A k \in DOMAIN Relays : left(k) \in Nat /\ left(k)' \in Nat
  <2>1. ASSUME NEW k \in DOMAIN Relays
        PROVE  left(k) \in Nat /\ left(k)' \in Nat
    <3>1. Relays[k] \in Hosts
      BY Constants DEF Hosts
    <3>2. mailboxRoute[Relays[k]] \in Route /\ mailboxRoute'[Relays[k]] \in Route
      BY <3>1 DEF TypeOK
    <3>3. QED
      BY <3>2, RoutesAssumption DEF Route
  <2>2. QED
    BY <2>1
<1>1. ASSUME NEW k \in DOMAIN Relays, kept[Relays[k]]
      PROVE  Ahead(k)
  BY <1>1 DEF AllAhead
<1> SUFFICES ASSUME NEW k \in DOMAIN Relays, kept'[Relays[k]]
             PROVE  Ahead(k)'
  BY DEF AllAhead
<1>2. k \in Nat /\ k >= 1 /\ k <= Len(Relays) /\ Relays[k] \in Daddies
  BY Constants
<1>3. CASE Start
  BY <1>2, <1>3 DEF Start, LoopOK
<1>4. CASE Wake
  <2>1. kept[Relays[k]] /\ left(k)' = left(k)
    BY <1>4 DEF Wake, tables
  <2>2. Ahead(k)
    BY <1>1, <2>1
  <2>3. QED
    BY <1>0, <1>2, <1>4, <2>1, <2>2, RoutesAssumption
       DEF Wake, Begin, Ahead, TypeOK
<1>5. CASE Discover \/ Ask
  <2>1. kept[Relays[k]] /\ left(k)' = left(k)
    BY <1>5 DEF Discover, Ask, tables
  <2>2. Ahead(k) /\ registering
    BY <1>1, <1>5, <2>1 DEF LoopOK, Turns, Discover, Ask
  <2>3. QED
    BY <1>0, <1>2, <1>5, <2>1, <2>2 DEF Discover, Ask, Ahead
<1>6. ASSUME NEW done \in BOOLEAN, Register(done) PROVE Ahead(k)'
  <2>1. /\ registering /\ registering' /\ index' = index + 1 /\ timer' = timer
        /\ index \in DOMAIN Relays
        /\ phase' \in {"discover", "rest"}
    BY <1>6 DEF Register, Proceed, LoopOK, Turns, TypeOK
  <2>2. CASE k = index
    <3>1. left(k)' = request.left
      BY <1>2, <1>6, <2>2 DEF Register, TypeOK, Hosts
    <3>2. QED
      BY <1>2, <1>6, <2>1, <2>2, <3>1, RoutesAssumption
         DEF Ahead, LoopOK, Register, TypeOK
  <2>3. CASE k # index
    <3>1. Relays[k] # Relays[index]
      BY <2>1, <2>3, Constants
    <3>2. kept[Relays[k]] /\ left(k)' = left(k)
      BY <1>2, <1>6, <3>1 DEF Register, TypeOK, Hosts
    <3>3. Ahead(k)
      BY <1>1, <3>2
    <3>4. QED
      BY <1>0, <1>2, <2>1, <2>3, <3>2, <3>3 DEF Ahead, TypeOK
  <2>4. QED
    BY <2>2, <2>3
<1>7. CASE Refuse
  <2>1. /\ registering /\ registering' /\ index' = index + 1 /\ timer' = timer
        /\ index \in DOMAIN Relays
        /\ phase' \in {"discover", "rest"}
    BY <1>7 DEF Refuse, Proceed, LoopOK, Turns, TypeOK
  <2>2. k # index /\ kept[Relays[k]] /\ left(k)' = left(k)
    BY <1>2, <1>7 DEF Refuse, TypeOK
  <2>3. Ahead(k)
    BY <1>1, <2>2
  <2>4. QED
    BY <1>0, <1>2, <2>1, <2>2, <2>3 DEF Ahead, TypeOK
<1>8. ASSUME NEW failed \in BOOLEAN, Rest(failed) PROVE Ahead(k)'
  <2>1. kept[Relays[k]] /\ left(k)' = left(k)
    BY <1>8 DEF Rest, tables
  <2>2. Ahead(k)
    BY <1>1, <2>1
  <2>3. /\ phase = "rest" /\ phase' = "asleep" /\ registering' = FALSE
        /\ timer' \in {untilRefresh', RetryInterval}
        /\ timer' = untilRefresh' => untilRefresh' > 0 \/ untilRefresh' = RetryInterval
        /\ timer' # untilRefresh' => timer' = RetryInterval
    BY <1>8, RoutesAssumption DEF Rest, Delay
  <2>4. /\ timer \in Nat /\ untilRefresh \in Nat /\ left(k) \in Nat
        /\ timer' \in Nat /\ untilRefresh' \in Nat
        /\ MaxPass \in Nat /\ RetryInterval \in Nat /\ DefaultRouteTTL \in Nat
    BY <1>0, RoutesAssumption DEF TypeOK
  <2>5. CASE registering
    <3>1. left(k) + MaxPass >= DefaultRouteTTL
      <4>1. k < index /\ timer >= 0
        BY <1>2, <1>8, <2>4, <2>5, Constants DEF Rest, LoopOK
      <4>2. left(k) + MaxPass >= DefaultRouteTTL + timer
        BY <2>2, <2>5, <4>1 DEF Ahead
      <4>3. QED
        BY <2>4, <4>1, <4>2
    <3>2. untilRefresh' \in {0, DefaultRouteTTL \div 2}
      BY <1>8, <2>5 DEF Rest, LoopOK
    <3>3. left(k) > RetryInterval + 2 * MaxPass + DefaultRouteTTL \div 2
      BY <2>4, <3>1, Half DEF Timely
    <3>4. /\ left(k) > timer' + MaxPass
          /\ timer' < untilRefresh' =>
               left(k) > untilRefresh' + 2 * MaxPass + RetryInterval
      BY <2>3, <2>4, <3>2, <3>3, Half
    <3>5. QED
      BY <2>1, <2>3, <3>4 DEF Ahead
  <2>6. CASE ~registering
    <3>1. untilRefresh' = untilRefresh
      BY <1>8, <2>6 DEF Rest
    <3>2. /\ left(k) > timer + MaxPass + RetryInterval
          /\ untilRefresh > 0 =>
               left(k) > untilRefresh + 2 * MaxPass + RetryInterval
      BY <2>2, <2>3, <2>6 DEF Ahead
    <3>3. /\ left(k) > timer' + MaxPass
          /\ timer' < untilRefresh' =>
               left(k) > untilRefresh' + 2 * MaxPass + RetryInterval
      <4>1. CASE timer' = RetryInterval
        BY <2>4, <3>1, <3>2, <4>1
      <4>2. CASE timer' = untilRefresh' /\ untilRefresh' > 0
        BY <2>4, <3>1, <3>2, <4>2
      <4>3. QED
        BY <2>3, <4>1, <4>2
    <3>4. QED
      BY <2>1, <2>3, <3>3 DEF Ahead
  <2>7. QED
    BY <2>5, <2>6
<1>9. CASE Stop
  BY <1>2, <1>9 DEF Stop
<1>10. ASSUME NEW a \in Addresses, Move(a) PROVE Ahead(k)'
  BY <1>10, AheadUntouched DEF Move, tables, AllAhead
<1>11. ASSUME NEW h \in Senders, Sending(h) PROVE Ahead(k)'
  <2>1. UNCHANGED loop
    BY <1>11 DEF Sending, Lookup, Cache, Reach, Miss, Inbound
  <2>2. ASSUME NEW j \in DOMAIN Relays, kept'[Relays[j]]
        PROVE  kept[Relays[j]] /\ mailboxRoute'[Relays[j]] = mailboxRoute[Relays[j]]
    <3>1. Relays[j] \in Daddies /\ Relays[j] \in Hosts
      BY Constants DEF Hosts
    <3>2. QED
      BY <1>11, <2>2, <3>1
         DEF Sending, Lookup, Cache, Reach, Miss, Inbound, TypeOK
  <2>3. QED
    BY <2>1, <2>2, AheadUntouched DEF AllAhead
<1>12. CASE Tick
  <2>1. kept[Relays[k]] /\ Relays[k] \in Hosts
    BY <1>2, <1>12 DEF Tick, Hosts
  <2>2. Ahead(k) /\ phase # "stopped"
    BY <1>1, <1>2, <2>1 DEF LoopOK
  <2>3. left(k)' = Less(left(k))
    BY <1>12, <2>1, AgedRoute DEF Tick, TypeOK
  <2>4. /\ timer > 0 /\ timer' = timer - 1
        /\ untilRefresh' = Less(untilRefresh)
        /\ UNCHANGED <<phase, registering, index>>
    BY <1>12, <2>2 DEF Tick, Less, TypeOK
  <2>5. /\ timer \in Nat /\ untilRefresh \in Nat /\ left(k) \in Nat
        /\ MaxPass \in Nat /\ RetryInterval \in Nat /\ DefaultRouteTTL \in Nat
    BY <1>0, RoutesAssumption DEF TypeOK
  <2>6. left(k)' >= left(k) - 1 /\ left(k)' \in Nat
    BY <2>3, <2>5 DEF Less
  <2>7. ASSUME phase = "asleep" PROVE Ahead(k)'
    <3>1. ~registering
      BY <2>7 DEF LoopOK, Turns
    <3>2. CASE timer >= untilRefresh
      <4>1. left(k) > timer + MaxPass
        BY <2>2, <2>7, <3>2 DEF Ahead
      <4>2. timer' >= untilRefresh' /\ left(k)' > timer' + MaxPass
        BY <2>4, <2>5, <2>6, <3>2, <4>1 DEF Less
      <4>3. QED
        BY <2>4, <2>5, <2>7, <3>1, <4>2 DEF Ahead, TypeOK
    <3>3. CASE timer < untilRefresh
      <4>1. left(k) > untilRefresh + 2 * MaxPass + RetryInterval
        BY <2>2, <2>7, <3>3 DEF Ahead
      <4>2. /\ timer' < untilRefresh'
            /\ left(k)' > untilRefresh' + 2 * MaxPass + RetryInterval
        BY <2>4, <2>5, <2>6, <3>3, <4>1 DEF Less
      <4>3. QED
        BY <2>4, <2>5, <2>7, <3>1, <4>2 DEF Ahead, TypeOK
    <3>4. QED
      BY <2>5, <3>2, <3>3
  <2>8. ASSUME phase = "rest", ~registering PROVE Ahead(k)'
    <3>1. /\ left(k) > timer + MaxPass + RetryInterval
          /\ untilRefresh > 0 =>
               left(k) > untilRefresh + 2 * MaxPass + RetryInterval
      BY <2>2, <2>8 DEF Ahead
    <3>2. /\ left(k)' > timer' + MaxPass + RetryInterval
          /\ untilRefresh' > 0 =>
               left(k)' > untilRefresh' + 2 * MaxPass + RetryInterval
      BY <2>4, <2>5, <2>6, <3>1 DEF Less
    <3>3. QED
      BY <2>4, <2>8, <3>2 DEF Ahead
  <2>9. ASSUME registering PROVE Ahead(k)'
    <3>1. phase # "asleep" /\ index \in Nat
      BY <2>9 DEF LoopOK, Turns, TypeOK
    <3>2. k >= index => left(k)' > timer'
      BY <2>2, <2>4, <2>5, <2>6, <2>9 DEF Ahead
    <3>3. k < index => left(k)' + MaxPass >= DefaultRouteTTL + timer'
      BY <2>2, <2>4, <2>5, <2>6, <2>9 DEF Ahead
    <3>4. QED
      BY <2>4, <2>9, <3>1, <3>2, <3>3 DEF Ahead
  <2>10. registering \/ phase = "asleep" \/ (phase = "rest" /\ ~registering)
    BY <2>2 DEF LoopOK, Turns, TypeOK
  <2>11. QED
    BY <2>7, <2>8, <2>9, <2>10
<1>13. CASE UNCHANGED vars
  BY <1>13, AheadUntouched DEF vars, tables, AllAhead
<1>14. QED
  BY <1>3, <1>4, <1>5, <1>6, <1>7, <1>8, <1>9, <1>10, <1>11, <1>12, <1>13
     DEF Next, Registering

\* While the wait and three passes fit in the other half of a lifetime, a Daddy
\* that keeps taking the registrations (DialPersistentWithRetry in daddy.go) has
\* a route of the node at every moment.
THEOREM RoutesKeptAlive == Spec => []KeptAlive
<1>1. Init => LoopOK /\ AllAhead
  BY LoopInitially, AheadInitially
<1>2. ASSUME TypeOK, TypeOK', LoopOK, AllAhead, [Next]_vars
      PROVE  LoopOK' /\ AllAhead'
  <2>1. LoopOK'
    BY <1>2, LoopKeeps
  <2>2. CASE Timely
    BY <1>2, <2>1, <2>2, AheadKeeps
  <2>3. CASE ~Timely
    BY <2>1, <2>3 DEF AllAhead, Timely
  <2>4. QED
    BY <2>1, <2>2, <2>3
<1>3. ASSUME TypeOK, LoopOK, AllAhead
      PROVE  KeptAlive
  <2> SUFFICES ASSUME Timely, NEW d \in Daddies, kept[d]
               PROVE  mailboxRoute[d] # NoRoute
    BY DEF KeptAlive
  <2>1. PICK k \in DOMAIN Relays : Relays[k] = d
    BY Constants
  <2>2. Ahead(k)
    BY <1>3, <2>1 DEF AllAhead
  <2>3. /\ phase # "stopped" /\ timer \in Nat /\ untilRefresh \in Nat
        /\ index \in Nat /\ k \in Nat
        /\ MaxPass \in Nat /\ RetryInterval \in Nat /\ DefaultRouteTTL \in Nat
    BY <1>3, Constants, RoutesAssumption DEF LoopOK, TypeOK
  <2>4. mailboxRoute[d].left \in Nat
    BY <1>3, RoutesAssumption DEF TypeOK, Hosts, Route
  <2>5. MaxPass < DefaultRouteTTL
    BY <2>3, Half DEF Timely
  <2>6. mailboxRoute[d].left > 0
    <3>1. CASE phase = "asleep"
      BY <2>1, <2>2, <2>3, <2>4, <3>1 DEF Ahead
    <3>2. CASE phase = "rest" /\ ~registering
      BY <2>1, <2>2, <2>3, <2>4, <3>2 DEF Ahead
    <3>3. CASE registering /\ k >= index
      BY <2>1, <2>2, <2>3, <2>4, <3>3 DEF Ahead
    <3>4. CASE registering /\ k < index
      BY <2>1, <2>2, <2>3, <2>4, <2>5, <3>4 DEF Ahead
    <3>5. registering \/ phase = "asleep" \/ (phase = "rest" /\ ~registering)
      BY <1>3, <2>3 DEF LoopOK, Turns, TypeOK
    <3>6. QED
      BY <2>3, <3>1, <3>2, <3>3, <3>4, <3>5
  <2>7. QED
    BY <2>6 DEF NoRoute
<1>4. QED
  BY <1>1, <1>2, <1>3, RoutesTypeCorrect, PTL DEF Spec

-----------------------------------------------------------------------------

LEMMA RecentInitially ==
  ASSUME Init
  PROVE  RequestIsRecent
BY RoutesAssumption DEF Init, RequestIsRecent

\* The address of a registration under way is no older than the pass; only Ask
\* dates it, a whole lifetime ahead.
LEMMA RecentKeeps ==
  ASSUME TypeOK, TypeOK', LoopOK, LoopOK', RequestIsRecent, [Next]_vars
  PROVE  RequestIsRecent'
<1> USE DEF RequestIsRecent
<1>0. /\ \A a \in Addresses : lately[a] \in Nat /\ lately'[a] \in Nat
      /\ here \in Addresses /\ here' \in Addresses
      /\ timer \in Nat /\ timer' \in Nat
      /\ request \in Route /\ request' \in Route
      /\ DefaultRouteTTL \in Nat /\ MaxPass \in Nat
  BY RoutesAssumption DEF TypeOK
<1>1. CASE /\ UNCHANGED <<here, lately>>
           /\ phase' \notin {"dial", "ask"}
  BY <1>1
<1>2. CASE UNCHANGED <<here, lately, phase, timer, request>>
  BY <1>2
<1>3. CASE Discover
  <2>1. /\ phase' = "dial"
        /\ request'.address = here /\ request'.left = 0
        /\ UNCHANGED <<here, lately, timer>>
    BY <1>3 DEF Discover
  <2>2. timer <= MaxPass
    BY <1>3 DEF Discover, LoopOK, Turns
  <2>3. QED
    BY <1>0, <2>1, <2>2
<1>4. CASE Ask
  <2>1. /\ phase = "dial" /\ phase' = "ask"
        /\ request'.address = request.address
        /\ request'.left = DefaultRouteTTL
        /\ UNCHANGED <<here, lately>>
    BY <1>0, <1>4 DEF Ask, Route
  <2>2. lately[request.address] >= DefaultRouteTTL + timer
    BY <2>1
  <2>3. lately[request.address] >= DefaultRouteTTL
    BY <1>0, <2>1, <2>2
  <2>4. QED
    BY <2>1, <2>3
<1>5. ASSUME NEW b \in Addresses, Move(b) PROVE RequestIsRecent'
  <2>1. /\ here' = b
        /\ lately' = [lately EXCEPT ![b] = DefaultRouteTTL + MaxPass]
        /\ UNCHANGED <<phase, timer, request>>
    BY <1>5 DEF Move, loop
  <2>2. /\ lately'[b] = DefaultRouteTTL + MaxPass
        /\ \A a \in Addresses : a # b => lately'[a] = lately[a]
    BY <2>1 DEF TypeOK
  <2>3. ASSUME phase = "dial"
        PROVE  lately'[request.address] >= DefaultRouteTTL + timer
    <3>1. timer <= MaxPass
      BY <2>3 DEF LoopOK, Turns
    <3>2. QED
      BY <1>0, <2>2, <2>3, <3>1
  <2>4. ASSUME phase = "ask", NEW a \in Addresses, request.address = a
        PROVE  request.left <= lately'[a]
    <3>1. request.left <= DefaultRouteTTL
      BY <1>0 DEF Route
    <3>2. request.left \in Nat
      BY <1>0 DEF Route
    <3>3. QED
      BY <1>0, <2>2, <2>4, <3>1, <3>2
  <2>5. QED
    BY <2>1, <2>2, <2>3, <2>4
<1>6. CASE Tick
  <2>1. /\ here' = here /\ phase' = phase
        /\ timer' = Less(timer)
        /\ lately' = [a \in Addresses |->
                        IF a = here THEN lately[a] ELSE Less(lately[a])]
        /\ request' = IF request.left > 0 THEN Aged(request) ELSE request
        /\ phase = "dial" => timer > 0
    BY <1>6 DEF Tick
  <2>2. \A a \in Addresses : lately'[a] >= lately[a] - 1
    BY <1>0, <2>1 DEF Less
  <2>3. lately'[here] = lately[here]
    BY <1>0, <2>1
  <2>4. CASE phase = "dial"
    <3>1. timer' = timer - 1
      BY <1>0, <2>1, <2>4 DEF Less
    <3>2. request'.address = request.address
      BY <1>0, <2>1, <2>4
    <3>3. QED
      BY <1>0, <2>1, <2>2, <2>3, <2>4, <3>1, <3>2
  <2>5. CASE phase = "ask"
    <3>1. ASSUME NEW a \in Addresses, request'.address = a
          PROVE  request'.left <= lately'[a]
      <4>1. a # Nowhere
        BY RoutesAssumption
      <4>2. request.address = a /\ request.left \in Nat
        BY <1>0, <2>1, <3>1, <4>1, AgedRoute DEF Route
      <4>3. request'.left = Less(request.left)
        BY <1>0, <2>1, <4>2, AgedRoute DEF Less
      <4>4. request.left <= lately[a]
        BY <2>5, <4>2
      <4>5. QED
        BY <1>0, <2>2, <4>2, <4>3, <4>4 DEF Less
    <3>2. QED
      BY <2>1, <2>3, <2>5, <3>1
  <2>6. CASE phase \notin {"dial", "ask"}
    BY <2>1, <2>3, <2>6
  <2>7. QED
    BY <2>4, <2>5, <2>6
<1>7. CASE Start \/ Wake
  BY <1>1, <1>7 DEF Start, Wake, Begin
<1>8. ASSUME NEW done \in BOOLEAN, Proceed(done) PROVE RequestIsRecent'
  BY <1>1, <1>8 DEF Proceed
<1>9. ASSUME NEW failed \in BOOLEAN, Rest(failed) PROVE RequestIsRecent'
  BY <1>1, <1>9 DEF Rest
<1>10. CASE Stop
  BY <1>1, <1>10 DEF Stop
<1>11. ASSUME NEW h \in Senders, Sending(h) PROVE RequestIsRecent'
  BY <1>2, <1>11 DEF Sending, Lookup, Cache, Reach, Miss, Inbound, loop
<1>12. CASE UNCHANGED vars
  BY <1>2, <1>12 DEF vars, loop
<1>13. QED
  BY <1>3, <1>4, <1>5, <1>6, <1>7, <1>8, <1>9, <1>10, <1>11, <1>12
     DEF Next, Registering, Register, Refuse

LEMMA RowsRecent ==
  StaleRoutesEnd <=> /\ \A h \in Hosts : Recent(mailboxRoute[h])
                     /\ \A h \in Senders : Recent(peerRoute[h])
                     /\ \A h \in Senders : Recent(lookup[h])
BY DEF StaleRoutesEnd, Recent, Hosts

LEMMA NowhereIsRecent ==
  ASSUME NEW route, route.address \notin Addresses
  PROVE  Recent(route)
BY DEF Recent

\* Whatever happens to the node's address or to the clock, a recent row stays
\* recent, the clock having aged it.
LEMMA StaysRecent ==
  ASSUME TypeOK, TypeOK', RequestIsRecent, [Next]_vars,
         NEW route \in Route, Recent(route)
  PROVE  /\ ~Tick => Recent(route)'
         /\ Tick => Recent(Aged(route))'
<1>0. /\ \A a \in Addresses : lately[a] \in Nat /\ lately'[a] \in Nat
      /\ here \in Addresses
      /\ DefaultRouteTTL \in Nat /\ MaxPass \in Nat
      /\ route.left \in Nat /\ route.left <= DefaultRouteTTL
  BY RoutesAssumption DEF TypeOK, Route
<1>1. ASSUME NEW b \in Addresses, Move(b) PROVE Recent(route)'
  <2>1. lately' = [lately EXCEPT ![b] = DefaultRouteTTL + MaxPass]
    BY <1>1 DEF Move
  <2>2. \A a \in Addresses : lately'[a] = lately[a]
                              \/ lately'[a] = DefaultRouteTTL + MaxPass
    BY <2>1 DEF TypeOK
  <2>3. QED
    BY <1>0, <2>2 DEF Recent
<1>2. ASSUME ~Tick, \A b \in Addresses : ~Move(b) PROVE Recent(route)'
  <2>1. lately' = lately
    <3>1. CASE Start \/ Wake
      BY <3>1 DEF Start, Wake
    <3>2. CASE Registering
      BY <3>2 DEF Registering, Discover, Ask, Register, Refuse, Proceed
    <3>3. ASSUME NEW failed \in BOOLEAN, Rest(failed) PROVE lately' = lately
      BY <3>3 DEF Rest
    <3>4. CASE Stop
      BY <3>4 DEF Stop
    <3>5. ASSUME NEW h \in Senders, Sending(h) PROVE lately' = lately
      BY <3>5 DEF Sending, Lookup, Cache, Reach, Miss, Inbound
    <3>6. CASE UNCHANGED vars
      BY <3>6 DEF vars
    <3>7. QED
      BY <1>2, <3>1, <3>2, <3>3, <3>4, <3>5, <3>6 DEF Next
  <2>2. QED
    BY <2>1 DEF Recent
<1>3. CASE Tick
  <2>1. lately' = [a \in Addresses |->
                     IF a = here THEN lately[a] ELSE Less(lately[a])]
    BY <1>3 DEF Tick
  <2>2. ASSUME NEW a \in Addresses, Aged(route).address = a
        PROVE  Aged(route).left <= lately'[a]
    <3>1. a # Nowhere
      BY RoutesAssumption
    <3>2. route.address = a /\ Aged(route).left = route.left - 1
      BY <2>2, <3>1, AgedRoute
    <3>3. route.left <= lately[a]
      BY <3>2 DEF Recent
    <3>4. lately'[a] >= lately[a] - 1
      BY <1>0, <2>1 DEF Less
    <3>5. QED
      BY <1>0, <3>2, <3>3, <3>4
  <2>3. Recent(Aged(route))'
    BY <2>2 DEF Recent, Aged, NoRoute
  <2>4. QED
    BY <1>3, <2>3
<1>4. QED
  BY <1>1, <1>2, <1>3

LEMMA RowsStayRecent ==
  ASSUME TypeOK, TypeOK', LoopOK, RequestIsRecent, RequestIsRecent',
         StaleRoutesEnd, [Next]_vars
  PROVE  StaleRoutesEnd'
<1> DEFINE Good(route) == \A a \in Addresses :
                             route.address = a => route.left <= lately'[a]
           Rows == /\ \A h \in Hosts : Good(mailboxRoute'[h])
                   /\ \A h \in Senders : Good(peerRoute'[h])
                   /\ \A h \in Senders : Good(lookup'[h])
<1>1. /\ \A h \in Hosts : Recent(mailboxRoute[h]) /\ mailboxRoute[h] \in Route
      /\ \A h \in Senders : Recent(peerRoute[h]) /\ peerRoute[h] \in Route
      /\ \A h \in Senders : Recent(lookup[h]) /\ lookup[h] \in Route
  BY RowsRecent DEF TypeOK
<1>2. \A route \in Route :
        Recent(route) => /\ ~Tick => Good(route)
                         /\ Tick => Good(Aged(route))
  <2>1. ASSUME NEW route \in Route, Recent(route)
        PROVE  /\ ~Tick => Good(route)
               /\ Tick => Good(Aged(route))
    <3>1. /\ ~Tick => Recent(route)'
          /\ Tick => Recent(Aged(route))'
      BY <2>1, StaysRecent
    <3>2. QED
      BY <3>1 DEF Recent, Aged, NoRoute
  <2>2. QED
    BY <2>1
<1> SUFFICES Rows
  BY DEF StaleRoutesEnd, Hosts
<1>3. ASSUME NEW route, route.address \notin Addresses PROVE Good(route)
  BY <1>3
<1>4. CASE Tick
  <2>1. /\ \A h \in Hosts : mailboxRoute'[h] = Aged(mailboxRoute[h])
        /\ \A h \in Senders : peerRoute'[h] = Aged(peerRoute[h])
        /\ \A h \in Senders : lookup'[h] = Aged(lookup[h])
    BY <1>4 DEF Tick
  <2> HIDE DEF Good
  <2>2. QED
    BY <1>1, <1>2, <1>4, <2>1
<1> SUFFICES ASSUME ~Tick PROVE Rows
  BY <1>4
<1> HIDE DEF Good
<1>5. /\ \A h \in Hosts : Good(mailboxRoute[h])
      /\ \A h \in Senders : Good(peerRoute[h])
      /\ \A h \in Senders : Good(lookup[h])
  BY <1>1, <1>2
<1>6. CASE UNCHANGED tables
  BY <1>5, <1>6 DEF tables
<1>7. ASSUME NEW done \in BOOLEAN, Register(done) PROVE Rows
  <2>1. Good(request)
    <3>1. Recent(request) /\ request \in Route
      BY <1>7 DEF Register, RequestIsRecent, Recent, TypeOK
    <3>2. QED
      BY <1>2, <3>1
  <2>2. /\ mailboxRoute' = [mailboxRoute EXCEPT ![Relays[index]] = request]
        /\ UNCHANGED <<peerRoute, lookup>>
    BY <1>7 DEF Register, Proceed
  <2>3. QED
    BY <1>5, <2>1, <2>2 DEF TypeOK
<1>8. ASSUME NEW h \in Senders, Sending(h) PROVE Rows
  <2>1. ASSUME NEW d \in Daddies, Lookup(h, d) PROVE Rows
    <3>1. d \in Hosts
      BY DEF Hosts
    <3>2. QED
      BY <1>5, <2>1, <3>1 DEF Lookup, TypeOK
  <2>2. CASE Cache(h)
    <3>1. Good(NoRoute)
      BY <1>3, RoutesAssumption DEF NoRoute
    <3>2. QED
      BY <1>5, <2>2, <3>1 DEF Cache, TypeOK
  <2>3. CASE Reach(h) \/ Miss(h) \/ Inbound(h)
    <3>1. PICK route : /\ peerRoute' = [peerRoute EXCEPT ![h] = route]
                       /\ Good(route)
      <4>1. CASE Reach(h)
        <5> DEFINE new == [address |-> here, left |-> DefaultRouteTTL]
        <5>1. /\ peerRoute' = [peerRoute EXCEPT ![h] = new]
              /\ UNCHANGED <<here, lately>>
          BY <4>1 DEF Reach, Replace
        <5>2. DefaultRouteTTL <= lately'[here]
          BY <5>1, RoutesAssumption DEF RequestIsRecent
        <5>3. Good(new)
          BY <5>2 DEF Good
        <5>4. QED
          BY <5>1, <5>3
      <4>2. CASE Miss(h)
        <5>1. Good(NoRoute)
          BY <1>3, RoutesAssumption DEF NoRoute
        <5>2. QED
          BY <4>2, <5>1 DEF Miss
      <4>3. CASE Inbound(h)
        <5> DEFINE new == [address |-> SourcePort, left |-> DefaultRouteTTL]
        <5>1. Good(new)
          BY <1>3, RoutesAssumption
        <5>2. QED
          BY <4>3, <5>1 DEF Inbound, Replace
      <4>4. QED
        BY <2>3, <4>1, <4>2, <4>3
    <3>2. UNCHANGED <<mailboxRoute, lookup>>
      BY <2>3 DEF Reach, Miss, Inbound
    <3>3. QED
      BY <1>5, <3>1, <3>2 DEF TypeOK
  <2>4. QED
    BY <1>8, <2>1, <2>2, <2>3 DEF Sending
<1>9. CASE \/ Start \/ Wake \/ Discover \/ Ask \/ Refuse \/ Stop
           \/ \E failed \in BOOLEAN : Rest(failed)
           \/ \E a \in Addresses : Move(a)
           \/ UNCHANGED vars
  <2>1. UNCHANGED tables
    BY <1>9 DEF Start, Wake, Discover, Ask, Refuse, Proceed, Stop, Rest, Move,
                vars, tables
  <2>2. QED
    BY <1>6, <2>1
<1>10. QED
  BY <1>7, <1>8, <1>9 DEF Next, Registering

\* No table of any host gives an address that the node left longer ago than the
\* lifetime of a route and one pass, however often SetMailboxRoute copied the
\* row (mailbox_privacy.go) and recordOutboundPeer renewed it (dial.go).
THEOREM RoutesEnd == Spec => []StaleRoutesEnd
<1> DEFINE IInv == LoopOK /\ RequestIsRecent /\ StaleRoutesEnd
<1>1. Init => IInv
  <2>1. Init => StaleRoutesEnd
    BY RoutesAssumption DEF Init, StaleRoutesEnd, NoRoute, Hosts
  <2>2. QED
    BY <2>1, LoopInitially, RecentInitially
<1>2. ASSUME TypeOK, TypeOK', IInv, [Next]_vars PROVE IInv'
  <2>1. LoopOK'
    BY <1>2, LoopKeeps
  <2>2. RequestIsRecent'
    BY <1>2, <2>1, RecentKeeps
  <2>3. StaleRoutesEnd'
    BY <1>2, <2>2, RowsStayRecent
  <2>4. QED
    BY <2>1, <2>2, <2>3
<1>3. IInv => StaleRoutesEnd
  OBVIOUS
<1> HIDE DEF IInv
<1>4. QED
  BY <1>1, <1>2, <1>3, RoutesTypeCorrect, PTL DEF Spec

==============================================================================
