------------------------------- MODULE Admission -------------------------------
(***************************************************************************)
(* How the daemon admits connections, handshakes and requests              *)
(* (internal/network/listener.go, HandleConnection and serveSession in     *)
(* messaging.go): one goroutine per connection, counters behind mutexes,   *)
(* a channel for the handshake slots, and the record of failed handshakes  *)
(* by source address and by claimed identity.                              *)
(*                                                                         *)
(* A step of a goroutine is one critical section of one mutex, or one      *)
(* operation on the channel.  HandleConnection and negotiateAsResponder    *)
(* read the clock before allow or failed takes the limiter's lock: the     *)
(* reading is any between the goroutine's last step and this one.          *)
(*                                                                         *)
(* A refused connection leaves no trace but its statistics.  The request   *)
(* rate limiter is one of the reasons for which a request fails here, and  *)
(* the deadline of a connection one of those for which a read does: no     *)
(* duration is tied to it.                                                 *)
(***************************************************************************)
EXTENDS Integers, FiniteSets

CONSTANTS
  Connections,    \* connections that may be open at the same time
  Closed,         \* a connection that is not open
  Sources,        \* source addresses
  Identities,     \* identities a peer may claim
  NoName,         \* a handshake that claims none
  NoFailure,      \* a key with no record of failures
  ConnectionsPerSource,       ConnectionsGlobal,
  ConcurrentHandshakes,
  ConcurrentRequestsPerIdentity, ConcurrentRequests,
  HandshakeFailuresPerWindow, HandshakeFailureWindowSeconds,
  HandshakeCooldownSeconds,
  maxTrackedIdentities,
  maxSessionRequests,
  MaxFailures,    \* bound on the count of failures
  MaxTime         \* bound on the clock

VARIABLES
  now,
  conn,           \* the goroutine of each connection
  bySource,       \* inboundConnections.active
  connections,    \* inboundConnections.global
  handshakes,     \* tokens in handshakeSlots
  byIdentity,     \* inFlightRequests.active
  requests,       \* inFlightRequests.global
  failure         \* handshakeFailureLimiter.sources

counters == <<bySource, connections, handshakes, byIdentity, requests>>
vars == <<now, conn, counters, failure>>

Keys == Sources \cup Identities

Connection ==
  [source : Sources, name : Identities \cup {NoName},
   exchanges : 0 .. maxSessionRequests,
   phase : {"accepted", "allowed", "handshake", "hello", "throttled",
            "succeeded", "cleared", "session", "request",
            "failed", "counted", "ended"},
   since : Nat]    \* the time at which it came to this phase

Failure == [failures : Nat, windowStart : Nat, blockedUntil : Nat]

ASSUME AdmissionAssumption ==
  /\ Closed \notin Connection
  /\ NoName \notin Identities
  /\ NoFailure \notin Failure
  /\ Sources \cap Identities = {}
  /\ IsFiniteSet(Connections) /\ IsFiniteSet(Sources) /\ IsFiniteSet(Identities)
  /\ ConnectionsPerSource \in Nat           /\ ConnectionsGlobal \in Nat
  /\ ConcurrentHandshakes \in Nat
  /\ ConcurrentRequestsPerIdentity \in Nat  /\ ConcurrentRequests \in Nat
  /\ HandshakeFailuresPerWindow \in Nat \ {0}
  /\ HandshakeFailureWindowSeconds \in Nat \ {0}
  /\ HandshakeCooldownSeconds \in Nat \ {0}
  /\ maxTrackedIdentities \in Nat \ {0}
  /\ maxSessionRequests \in Nat
  /\ MaxTime \in Nat
  /\ MaxFailures \in Nat
  /\ MaxFailures >= HandshakeFailuresPerWindow
                     + ConnectionsPerSource * ConnectionsPerSource

-----------------------------------------------------------------------------
(***************************************************************************)
(* handshakeLimiter, called with a reading t of the clock                  *)
(***************************************************************************)

Blocked(k, t) == failure[k] # NoFailure /\ t < failure[k].blockedUntil

Stale(record, t) ==
  record # NoFailure => t - record.windowStart >= HandshakeFailureWindowSeconds

\* allow: refuses a blocked key, and forgets one whose window is over.
Allowed(k, t) ==
  [failure EXCEPT ![k] = IF ~Blocked(k, t) /\ Stale(@, t) THEN NoFailure ELSE @]

\* Mutant: one failure more before the block.
BlockedLate(record, t) ==
  LET failures == IF Stale(record, t) THEN 1 ELSE record.failures + 1 IN
  [failures |-> failures,
   windowStart |-> IF Stale(record, t) THEN t ELSE record.windowStart,
   blockedUntil |-> IF failures > HandshakeFailuresPerWindow
                    THEN t + HandshakeCooldownSeconds
                    ELSE IF Stale(record, t) THEN 0 ELSE record.blockedUntil]

\* The count stops at MaxFailures, beyond any comparison made with it.
Counted(record, t) ==
  LET failures == IF Stale(record, t) THEN 1
                  ELSE IF record.failures < MaxFailures
                  THEN record.failures + 1 ELSE MaxFailures IN
  [failures |-> failures,
   windowStart |-> IF Stale(record, t) THEN t ELSE record.windowStart,
   blockedUntil |-> IF failures >= HandshakeFailuresPerWindow
                    THEN t + HandshakeCooldownSeconds
                    ELSE IF Stale(record, t) THEN 0 ELSE record.blockedUntil]

Tracked(records) == {k \in Keys : records[k] # NoFailure}

\* failed: a new key may push out the one seen the longest ago; which one that
\* is is left open.
Failed(k, t) ==
  LET counted == [failure EXCEPT ![k] = Counted(@, t)] IN
  IF /\ failure[k] = NoFailure
     /\ Cardinality(Tracked(failure)) >= maxTrackedIdentities
  THEN {[counted EXCEPT ![evicted] = NoFailure] : evicted \in Tracked(failure)}
  ELSE {counted}

-----------------------------------------------------------------------------
(***************************************************************************)
(* The goroutine of a connection                                           *)
(***************************************************************************)

Init ==
  /\ now = 0
  /\ conn = [c \in Connections |-> Closed]
  /\ bySource = [s \in Sources |-> 0]
  /\ connections = 0
  /\ handshakes = 0
  /\ byIdentity = [i \in Identities |-> 0]
  /\ requests = 0
  /\ failure = [k \in Keys |-> NoFailure]

At(c, phase) == conn[c] # Closed /\ conn[c].phase = phase
Go(c, phase) == conn' = [conn EXCEPT ![c].phase = phase, ![c].since = now]

\* time.Now(), as the argument of the call that this phase ends with.
Readings(c) == conn[c].since .. now

\* serveListener: the connection above a limit is closed.
Accept(c, s) ==
  /\ conn[c] = Closed
  /\ connections < ConnectionsGlobal
  /\ bySource[s] < ConnectionsPerSource
  /\ bySource' = [bySource EXCEPT ![s] = @ + 1]
  /\ connections' = connections + 1
  /\ conn' = [conn EXCEPT ![c] = [source |-> s, name |-> NoName, exchanges |-> 0,
                                  phase |-> "accepted", since |-> now]]
  /\ UNCHANGED <<now, handshakes, byIdentity, requests, failure>>

\* HandleConnection has returned: the connection's slot is.
HangUp(c) ==
  /\ At(c, "ended")
  /\ conn' = [conn EXCEPT ![c] = Closed]
  /\ bySource' = [bySource EXCEPT ![conn[c].source] = @ - 1]
  /\ connections' = connections - 1
  /\ UNCHANGED <<now, handshakes, byIdentity, requests, failure>>

AllowSource(c) ==
  /\ At(c, "accepted")
  /\ \E t \in Readings(c) :
       /\ failure' = Allowed(conn[c].source, t)
       /\ Go(c, IF Blocked(conn[c].source, t) THEN "ended" ELSE "allowed")
  /\ UNCHANGED <<now, counters>>

TakeSlot(c) ==
  /\ At(c, "allowed")
  /\ \/ /\ handshakes < ConcurrentHandshakes
        /\ handshakes' = handshakes + 1
        /\ Go(c, "handshake")
     \/ /\ handshakes >= ConcurrentHandshakes
        /\ Go(c, "ended")
        /\ UNCHANGED handshakes
  /\ UNCHANGED <<now, bySource, connections, byIdentity, requests, failure>>

\* negotiateAsResponder reads a hello that claims identity i, which may be
\* throttled.
Hello(c, i) ==
  /\ At(c, "handshake")
  /\ \E t \in Readings(c) :
       /\ failure' = Allowed(i, t)
       /\ conn' = [conn EXCEPT ![c].name = i,
                               ![c].phase = IF Blocked(i, t)
                                            THEN "throttled" ELSE "hello",
                               ![c].since = now]
  /\ UNCHANGED <<now, counters>>

\* Mutant: a failed handshake keeps its slot.
KeepSlot(c, outcome) ==
  /\ handshakes' = IF outcome = "failed" THEN handshakes ELSE handshakes - 1
  /\ Go(c, outcome)

\* acceptSession returns, and HandleConnection frees the slot.
FreeSlot(c, outcome) ==
  /\ handshakes' = handshakes - 1
  /\ Go(c, outcome)

\* A throttled identity fails, and so does a peer from which nothing readable
\* came before the deadline.
EndHandshake(c, outcome) ==
  /\ \/ At(c, "hello")
     \/ outcome = "failed" /\ (At(c, "handshake") \/ At(c, "throttled"))
  /\ FreeSlot(c, outcome)
  /\ UNCHANGED <<now, bySource, connections, byIdentity, requests, failure>>

\* A failure counts against the source and then, with a reading of its own,
\* against the identity claimed.
CountSource(c) ==
  /\ At(c, "failed")
  /\ \E t \in Readings(c) : failure' \in Failed(conn[c].source, t)
  /\ Go(c, IF conn[c].name = NoName THEN "ended" ELSE "counted")
  /\ UNCHANGED <<now, counters>>

CountIdentity(c) ==
  /\ At(c, "counted")
  /\ \E t \in Readings(c) : failure' \in Failed(conn[c].name, t)
  /\ Go(c, "ended")
  /\ UNCHANGED <<now, counters>>

\* succeeded, for the source and for the identity.
ClearSource(c) ==
  /\ At(c, "succeeded")
  /\ failure' = [failure EXCEPT ![conn[c].source] = NoFailure]
  /\ Go(c, "cleared")
  /\ UNCHANGED <<now, counters>>

ClearIdentity(c) ==
  /\ At(c, "cleared")
  /\ failure' = [failure EXCEPT ![conn[c].name] = NoFailure]
  /\ Go(c, "session")
  /\ UNCHANGED <<now, counters>>

\* inFlightRequests.acquire
Serve(c) ==
  /\ conn[c].exchanges < maxSessionRequests
  /\ requests < ConcurrentRequests
  /\ byIdentity[conn[c].name] < ConcurrentRequestsPerIdentity
  /\ requests' = requests + 1
  /\ byIdentity' = [byIdentity EXCEPT ![conn[c].name] = @ + 1]
  /\ Go(c, "request")

\* serveSession takes a request's slot before it waits for the request.
BeginRequest(c) ==
  /\ At(c, "session")
  /\ \/ Serve(c)
     \/ /\ \/ conn[c].exchanges >= maxSessionRequests
           \/ requests >= ConcurrentRequests
           \/ byIdentity[conn[c].name] >= ConcurrentRequestsPerIdentity
        /\ Go(c, "ended")
        /\ UNCHANGED <<byIdentity, requests>>
  /\ UNCHANGED <<now, bySource, connections, handshakes, failure>>

\* inFlightRequests.release
Release(c) ==
  /\ requests' = requests - 1
  /\ byIdentity' = [byIdentity EXCEPT ![conn[c].name] = @ - 1]

\* Mutant: an exchange that was served is not counted.
EndUncounted(c) ==
  /\ At(c, "request")
  /\ Release(c)
  /\ Go(c, "session")
  /\ UNCHANGED <<now, bySource, connections, handshakes, failure>>

EndRequest(c) ==
  /\ At(c, "request")
  /\ Release(c)
  /\ conn' = [conn EXCEPT ![c].phase = "session", ![c].since = now,
                          ![c].exchanges = @ + 1]
  /\ UNCHANGED <<now, bySource, connections, handshakes, failure>>

\* The end of the stream, the deadline, or a request that is refused.
FailRequest(c) ==
  /\ At(c, "request")
  /\ Release(c)
  /\ Go(c, "ended")
  /\ UNCHANGED <<now, bySource, connections, handshakes, failure>>

Tick ==
  /\ now < MaxTime
  /\ now' = now + 1
  /\ UNCHANGED <<conn, counters, failure>>

Step(c) ==
  \/ AllowSource(c)
  \/ TakeSlot(c)
  \/ \E i \in Identities : Hello(c, i)
  \/ \E outcome \in {"succeeded", "failed"} : EndHandshake(c, outcome)
  \/ CountSource(c)
  \/ CountIdentity(c)
  \/ ClearSource(c)
  \/ ClearIdentity(c)
  \/ BeginRequest(c)
  \/ EndRequest(c)
  \/ FailRequest(c)
  \/ HangUp(c)

Next ==
  \/ \E c \in Connections, s \in Sources : Accept(c, s)
  \/ \E c \in Connections : Step(c)
  \/ Tick

Spec == Init /\ [][Next]_vars

\* Every wait of a goroutine on its peer has a deadline.
FairSpec == Spec /\ \A c \in Connections : WF_vars(Step(c))

-----------------------------------------------------------------------------
(***************************************************************************)
(* Properties                                                              *)
(***************************************************************************)

In(phases) == {c \in Connections : conn[c] # Closed /\ conn[c].phase \in phases}
From(s) == {c \in Connections : conn[c] # Closed /\ conn[c].source = s}
Open == {c \in Connections : conn[c] # Closed}

\* The types of the counters, none of which drops below zero, and of the
\* goroutines' state.
TypeOK ==
  /\ now \in Nat
  /\ conn \in [Connections -> Connection \cup {Closed}]
  /\ bySource \in [Sources -> Nat] /\ connections \in Nat
  /\ handshakes \in Nat
  /\ byIdentity \in [Identities -> Nat] /\ requests \in Nat
  /\ failure \in [Keys -> Failure \cup {NoFailure}]
  /\ \A c \in In({"hello", "succeeded", "cleared", "session", "request",
                  "counted"}) :
       conn[c].name \in Identities

\* Every counter is the number of goroutines that hold what it counts: each
\* way a connection can end gives back its slots, once.
SlotsAccounted ==
  /\ \A s \in Sources : bySource[s] = Cardinality(From(s))
  /\ connections = Cardinality(Open)
  /\ handshakes = Cardinality(In({"handshake", "hello", "throttled"}))
  /\ requests = Cardinality(In({"request"}))
  /\ \A i \in Identities :
       byIdentity[i] = Cardinality({c \in In({"request"}) : conn[c].name = i})

\* The limits are never exceeded, whatever runs concurrently.
LimitsHold ==
  /\ \A s \in Sources : bySource[s] <= ConnectionsPerSource
  /\ connections <= ConnectionsGlobal
  /\ handshakes <= ConcurrentHandshakes
  /\ requests <= ConcurrentRequests
  /\ \A i \in Identities : byIdentity[i] <= ConcurrentRequestsPerIdentity
  /\ Cardinality(Tracked(failure)) <= maxTrackedIdentities

\* The types, the books and the limits agree, whatever connections end or fail.
AdmissionInv == TypeOK /\ SlotsAccounted /\ LimitsHold

\* The limiter bounds a source's failed handshakes, when a cooldown is not
\* shorter than the window.  A source that is blocked fails no more often than
\* the other connections it had open then.  But failed takes its reading of the
\* clock before its lock: one from before the window that is counted last ends
\* the block early, and lets in as many connections again as a source may have
\* open.  No more than ConnectionsPerSource - 1 can be so late.
FailuresBounded ==
  HandshakeCooldownSeconds >= HandshakeFailureWindowSeconds =>
    \A s \in Sources :
      failure[s] # NoFailure =>
        failure[s].failures <
          HandshakeFailuresPerWindow + ConnectionsPerSource * ConnectionsPerSource

\* No connection occupies its slots for ever.
ConnectionsEnd == \A c \in Connections : conn[c] # Closed ~> conn[c] = Closed
==============================================================================
