--------------------------- MODULE AdmissionProofs ---------------------------
(***************************************************************************)
(* Proofs about Admission: its counters are what its goroutines hold, its  *)
(* limits are never exceeded, and the failures of a source are bounded.    *)
(*                                                                         *)
(* A step changes the state of one connection.  It adds to or removes from *)
(* each of the sets that a counter counts at most that connection (Moved), *)
(* so that a counter is right when the step changes it by the same amount  *)
(* (Kept).  What is left for each action is to say which connection it     *)
(* moves, and from where to where.                                         *)
(***************************************************************************)
EXTENDS Admission, FiniteSetTheorems, TLAPS

One(b) == IF b THEN 1 ELSE 0

\* What the counters count, of a connection in state v.
IsFrom(v, s) == v # Closed /\ v.source = s
IsOpen(v) == v # Closed
IsShaking(v) == v # Closed /\ v.phase \in {"handshake", "hello", "throttled"}
IsAsking(v) == v # Closed /\ v.phase = "request"
IsAskingAs(v, i) == v # Closed /\ v.phase = "request" /\ v.name = i

Records == [Keys -> Failure \cup {NoFailure}]

\* A request that is served is one of the session's allowance.
ExchangesLeft ==
  \A c \in In({"request"}) : conn[c].exchanges < maxSessionRequests

\* The inductive invariant.
Correct == TypeOK /\ AdmissionInv /\ ExchangesLeft

-----------------------------------------------------------------------------
(***************************************************************************)
(* Counting                                                                *)
(***************************************************************************)

LEMMA OneElement ==
  ASSUME NEW S, NEW T, NEW c, IsFiniteSet(S), IsFiniteSet(T),
         S \ {c} = T \ {c}
  PROVE  Cardinality(T) = Cardinality(S) + One(c \in T) - One(c \in S)
<1>1. /\ Cardinality(S) \in Nat /\ Cardinality(T) \in Nat
  BY FS_CardinalityType
<1>2. /\ Cardinality(S \ {c}) = IF c \in S THEN Cardinality(S) - 1
                                           ELSE Cardinality(S)
      /\ Cardinality(T \ {c}) = IF c \in T THEN Cardinality(T) - 1
                                           ELSE Cardinality(T)
  BY FS_RemoveElement
<1>3. QED
  BY <1>1, <1>2 DEF One

\* A set of connections defined by a test of their states changes by the one
\* connection whose state changes.
LEMMA Moved ==
  ASSUME NEW S \in SUBSET Connections, NEW T \in SUBSET Connections,
         NEW c \in Connections,
         \A d \in Connections \ {c} : d \in S <=> d \in T
  PROVE  /\ Cardinality(T) = Cardinality(S) + One(c \in T) - One(c \in S)
         /\ Cardinality(T) \in Nat
<1>1. IsFiniteSet(S) /\ IsFiniteSet(T)
  BY AdmissionAssumption, FS_Subset
<1>2. S \ {c} = T \ {c}
  OBVIOUS
<1>3. QED
  BY <1>1, <1>2, OneElement, FS_CardinalityType

-----------------------------------------------------------------------------
(***************************************************************************)
(* Records of failed handshakes                                            *)
(***************************************************************************)

LEMMA CountedType ==
  ASSUME NEW t \in Nat, NEW record \in Failure \cup {NoFailure}
  PROVE  Counted(record, t) \in Failure
<1>1. CASE Stale(record, t)
  BY <1>1, AdmissionAssumption DEF Counted, Failure
<1>2. CASE ~Stale(record, t)
  <2>1. record \in Failure
    BY <1>2 DEF Stale
  <2>2. QED
    BY <1>2, <2>1, AdmissionAssumption DEF Counted, Failure
<1>3. QED
  BY <1>1, <1>2

LEMMA TrackedFinite ==
  ASSUME NEW records
  PROVE  IsFiniteSet(Tracked(records)) /\ Cardinality(Tracked(records)) \in Nat
<1>1. IsFiniteSet(Keys)
  BY AdmissionAssumption, FS_Union DEF Keys
<1>2. QED
  BY <1>1, FS_Subset, FS_CardinalityType DEF Tracked

\* Forgetting records keeps their number within the limit.
LEMMA Fewer ==
  ASSUME NEW records, NEW rest, Tracked(rest) \subseteq Tracked(records)
  PROVE  Cardinality(Tracked(rest)) <= Cardinality(Tracked(records))
BY TrackedFinite, FS_Subset

LEMMA AllowedKeeps ==
  ASSUME TypeOK, NEW k \in Keys, NEW t,
         Cardinality(Tracked(failure)) <= maxTrackedIdentities
  PROVE  /\ Allowed(k, t) \in Records
         /\ Cardinality(Tracked(Allowed(k, t))) <= maxTrackedIdentities
<1>1. Allowed(k, t) \in Records
  BY DEF TypeOK, Allowed, Records
<1>2. Tracked(Allowed(k, t)) \subseteq Tracked(failure)
  BY DEF TypeOK, Allowed, Tracked
<1>3. QED
  BY <1>1, <1>2, Fewer, TrackedFinite, AdmissionAssumption

LEMMA FailedKeeps ==
  ASSUME failure \in Records, NEW k \in Keys, NEW t \in Nat,
         Cardinality(Tracked(failure)) <= maxTrackedIdentities,
         NEW next \in Failed(k, t)
  PROVE  /\ next \in Records
         /\ Cardinality(Tracked(next)) <= maxTrackedIdentities
<1> DEFINE counted == [failure EXCEPT ![k] = Counted(@, t)]
<1>1. Counted(failure[k], t) \in Failure
  BY CountedType DEF Records
<1>2. counted \in Records
  BY <1>1 DEF Records
<1>3. Tracked(counted) = Tracked(failure) \cup {k}
  BY <1>1, AdmissionAssumption DEF Tracked, Records
<1>4. CASE /\ failure[k] = NoFailure
           /\ Cardinality(Tracked(failure)) >= maxTrackedIdentities
  <2>1. PICK evicted \in Tracked(failure) :
          next = [counted EXCEPT ![evicted] = NoFailure]
    BY <1>4 DEF Failed
  <2>2. k \notin Tracked(failure)
    BY <1>4 DEF Tracked
  <2>3. Tracked(next) = (Tracked(failure) \cup {k}) \ {evicted}
    BY <1>2, <1>3, <2>1 DEF Tracked, Records
  <2>4. Cardinality(Tracked(failure) \cup {k}) = Cardinality(Tracked(failure)) + 1
    BY <2>2, TrackedFinite, FS_AddElement
  <2>5. IsFiniteSet(Tracked(failure) \cup {k})
    BY TrackedFinite, FS_AddElement
  <2>6. Cardinality(Tracked(next)) = Cardinality(Tracked(failure) \cup {k}) - 1
    BY <2>1, <2>3, <2>5, FS_RemoveElement
  <2>7. next \in Records
    BY <1>2, <2>1 DEF Records, Tracked
  <2>8. QED
    BY <2>4, <2>6, <2>7, TrackedFinite
<1>5. CASE ~(/\ failure[k] = NoFailure
             /\ Cardinality(Tracked(failure)) >= maxTrackedIdentities)
  <2>1. next = counted
    BY <1>5 DEF Failed
  <2>2. CASE failure[k] # NoFailure
    <3>1. Tracked(next) = Tracked(failure)
      BY <1>3, <2>1, <2>2 DEF Tracked
    <3>2. QED
      BY <1>2, <2>1, <3>1
  <2>3. CASE Cardinality(Tracked(failure)) < maxTrackedIdentities
    <3>1. \/ Tracked(next) = Tracked(failure)
          \/ Cardinality(Tracked(next)) = Cardinality(Tracked(failure)) + 1
      <4>1. CASE k \in Tracked(failure)
        BY <1>3, <2>1, <4>1
      <4>2. CASE k \notin Tracked(failure)
        BY <1>3, <2>1, <4>2, TrackedFinite, FS_AddElement
      <4>3. QED
        BY <4>1, <4>2
    <3>2. QED
      BY <1>2, <2>1, <2>3, <3>1, TrackedFinite, AdmissionAssumption
  <2>4. QED
    BY <1>5, <2>2, <2>3, TrackedFinite, AdmissionAssumption
<1>6. QED
  BY <1>4, <1>5

-----------------------------------------------------------------------------
(***************************************************************************)
(* A step of connection c, which is in state w afterwards                  *)
(***************************************************************************)

\* The phases in which a peer has claimed an identity that is still needed.
Named == {"hello", "succeeded", "cleared", "session", "request", "counted"}

\* What a step has to show of the connection, of the rest of the state, and of
\* the amount by which it changes each counter.
Typed(w) ==
  /\ w \in Connection \cup {Closed}
  /\ (w # Closed /\ w.phase \in Named) => w.name \in Identities
  /\ (w # Closed /\ w.phase = "request") => w.exchanges < maxSessionRequests
  /\ now' \in Nat
  /\ failure' \in Records
  /\ Cardinality(Tracked(failure')) <= maxTrackedIdentities
  /\ bySource' \in [Sources -> Int] /\ connections' \in Int
  /\ handshakes' \in Int
  /\ byIdentity' \in [Identities -> Int] /\ requests' \in Int

Counts(v, w) ==
  /\ \A s \in Sources :
       bySource'[s] = bySource[s] + One(IsFrom(w, s)) - One(IsFrom(v, s))
  /\ connections' = connections + One(IsOpen(w)) - One(IsOpen(v))
  /\ handshakes' = handshakes + One(IsShaking(w)) - One(IsShaking(v))
  /\ requests' = requests + One(IsAsking(w)) - One(IsAsking(v))
  /\ \A i \in Identities :
       byIdentity'[i] = byIdentity[i] + One(IsAskingAs(w, i))
                                      - One(IsAskingAs(v, i))

Limited ==
  /\ \A s \in Sources :
       bySource'[s] <= bySource[s] \/ bySource'[s] <= ConnectionsPerSource
  /\ connections' <= connections \/ connections' <= ConnectionsGlobal
  /\ handshakes' <= handshakes \/ handshakes' <= ConcurrentHandshakes
  /\ requests' <= requests \/ requests' <= ConcurrentRequests
  /\ \A i \in Identities :
       \/ byIdentity'[i] <= byIdentity[i]
       \/ byIdentity'[i] <= ConcurrentRequestsPerIdentity

LEMMA Kept ==
  ASSUME Correct, NEW c \in Connections, NEW w,
         conn' = [conn EXCEPT ![c] = w],
         Typed(w), Counts(conn[c], w), Limited
  PROVE  Correct'
<1> USE DEF Correct, AdmissionInv
<1>1. /\ conn \in [Connections -> Connection \cup {Closed}]
      /\ conn' \in [Connections -> Connection \cup {Closed}]
      /\ conn'[c] = w
      /\ \A d \in Connections \ {c} : conn'[d] = conn[d]
  BY DEF TypeOK, Typed
<1>2. \A s \in Sources :
        bySource'[s] = Cardinality(From(s)') /\ Cardinality(From(s)') \in Nat
  <2> TAKE s \in Sources
  <2>1. /\ From(s) \in SUBSET Connections /\ From(s)' \in SUBSET Connections
        /\ \A d \in Connections \ {c} : d \in From(s) <=> d \in From(s)'
        /\ c \in From(s) <=> IsFrom(conn[c], s)
        /\ c \in From(s)' <=> IsFrom(w, s)
    BY <1>1 DEF From, IsFrom
  <2>2. bySource[s] = Cardinality(From(s))
    BY DEF SlotsAccounted
  <2>3. QED
    BY <2>1, <2>2, Moved DEF Counts, One
<1>3. connections' = Cardinality(Open') /\ Cardinality(Open') \in Nat
  <2>1. /\ Open \in SUBSET Connections /\ Open' \in SUBSET Connections
        /\ \A d \in Connections \ {c} : d \in Open <=> d \in Open'
        /\ c \in Open <=> IsOpen(conn[c])
        /\ c \in Open' <=> IsOpen(w)
    BY <1>1 DEF Open, IsOpen
  <2>2. QED
    BY <2>1, Moved DEF Counts, One, SlotsAccounted
<1>4. /\ handshakes' = Cardinality(In({"handshake", "hello", "throttled"})')
      /\ Cardinality(In({"handshake", "hello", "throttled"})') \in Nat
  <2> DEFINE S == In({"handshake", "hello", "throttled"})
  <2>1. /\ S \in SUBSET Connections /\ S' \in SUBSET Connections
        /\ \A d \in Connections \ {c} : d \in S <=> d \in S'
        /\ c \in S <=> IsShaking(conn[c])
        /\ c \in S' <=> IsShaking(w)
    BY <1>1 DEF In, IsShaking
  <2>2. handshakes = Cardinality(S)
    BY DEF SlotsAccounted
  <2> HIDE DEF S
  <2>3. handshakes' = Cardinality(S') /\ Cardinality(S') \in Nat
    BY <2>1, <2>2, Moved DEF Counts, One
  <2>4. QED
    BY <2>3 DEF S
<1>5. /\ requests' = Cardinality(In({"request"})')
      /\ Cardinality(In({"request"})') \in Nat
  <2> DEFINE S == In({"request"})
  <2>1. /\ S \in SUBSET Connections /\ S' \in SUBSET Connections
        /\ \A d \in Connections \ {c} : d \in S <=> d \in S'
        /\ c \in S <=> IsAsking(conn[c])
        /\ c \in S' <=> IsAsking(w)
    BY <1>1 DEF In, IsAsking
  <2>2. requests = Cardinality(S)
    BY DEF SlotsAccounted
  <2> HIDE DEF S
  <2>3. requests' = Cardinality(S') /\ Cardinality(S') \in Nat
    BY <2>1, <2>2, Moved DEF Counts, One
  <2>4. QED
    BY <2>3 DEF S
<1>6. \A i \in Identities :
        /\ byIdentity'[i] =
             Cardinality({d \in In({"request"})' : conn'[d].name = i})
        /\ byIdentity'[i] \in Nat
  <2> TAKE i \in Identities
  <2> DEFINE S == {d \in In({"request"}) : conn[d].name = i}
             T == {d \in In({"request"})' : conn'[d].name = i}
  <2>1. /\ S \in SUBSET Connections /\ T \in SUBSET Connections
        /\ \A d \in Connections \ {c} : d \in S <=> d \in T
        /\ c \in S <=> IsAskingAs(conn[c], i)
        /\ c \in T <=> IsAskingAs(w, i)
    BY <1>1 DEF In, IsAskingAs
  <2>2. byIdentity[i] = Cardinality(S)
    BY DEF SlotsAccounted
  <2> HIDE DEF S, T
  <2>3. byIdentity'[i] = Cardinality(T) /\ Cardinality(T) \in Nat
    BY <2>1, <2>2, Moved DEF Counts, One
  <2>4. QED
    BY <2>3 DEF T
<1>7. SlotsAccounted'
  BY <1>2, <1>3, <1>4, <1>5, <1>6 DEF SlotsAccounted
<1>8. TypeOK'
  <2>1. bySource' \in [Sources -> Nat] /\ byIdentity' \in [Identities -> Nat]
    BY <1>2, <1>6 DEF Typed
  <2>2. connections' \in Nat /\ handshakes' \in Nat /\ requests' \in Nat
    BY <1>3, <1>4, <1>5
  <2>3. \A d \in In(Named)' : conn'[d].name \in Identities
    BY <1>1 DEF In, Typed, TypeOK, Named
  <2>4. QED
    BY <1>1, <2>1, <2>2, <2>3 DEF TypeOK, Typed, Records, Named
<1>9. LimitsHold'
  <2>1. \A s \in Sources : bySource'[s] <= ConnectionsPerSource
    BY <1>8, AdmissionAssumption DEF TypeOK, Limited, LimitsHold
  <2>2. \A i \in Identities : byIdentity'[i] <= ConcurrentRequestsPerIdentity
    BY <1>8, AdmissionAssumption DEF TypeOK, Limited, LimitsHold
  <2>3. /\ connections' <= ConnectionsGlobal
        /\ handshakes' <= ConcurrentHandshakes
        /\ requests' <= ConcurrentRequests
    BY <1>8, AdmissionAssumption DEF TypeOK, Limited, LimitsHold
  <2>4. QED
    BY <2>1, <2>2, <2>3 DEF LimitsHold, Typed
<1>10. ExchangesLeft'
  BY <1>1 DEF In, Typed, TypeOK, ExchangesLeft
<1>11. QED
  BY <1>7, <1>8, <1>9, <1>10

-----------------------------------------------------------------------------
(***************************************************************************)
(* The actions                                                             *)
(***************************************************************************)

USE DEF One, IsFrom, IsOpen, IsShaking, IsAsking, IsAskingAs

\* The state of an open connection, and of the rest, before a step.
LEMMA Before ==
  ASSUME Correct
  PROVE  /\ now \in Nat /\ failure \in Records
         /\ Cardinality(Tracked(failure)) <= maxTrackedIdentities
         /\ bySource \in [Sources -> Int] /\ connections \in Int
         /\ handshakes \in Int
         /\ byIdentity \in [Identities -> Int] /\ requests \in Int
         /\ \A c \in Connections :
              conn[c] # Closed =>
                /\ conn[c] \in Connection
                /\ conn[c].source \in Sources /\ conn[c].source \in Keys
                /\ conn[c].since \in Nat /\ Readings(c) \subseteq Nat
                /\ conn[c].phase \in Named => conn[c].name \in Identities
                /\ conn[c].phase = "request" =>
                     conn[c].exchanges < maxSessionRequests
<1>1. TypeOK /\ LimitsHold /\ ExchangesLeft
  BY DEF Correct, AdmissionInv
<1>2. ASSUME NEW c \in Connections, conn[c] # Closed
      PROVE  /\ conn[c] \in Connection
             /\ conn[c].source \in Sources /\ conn[c].source \in Keys
             /\ conn[c].since \in Nat /\ Readings(c) \subseteq Nat
             /\ conn[c].phase \in Named => conn[c].name \in Identities
             /\ conn[c].phase = "request" => conn[c].exchanges < maxSessionRequests
  <2>1. conn[c] \in Connection /\ now \in Nat
    BY <1>1, <1>2 DEF TypeOK
  <2>2. conn[c].source \in Sources /\ conn[c].since \in Nat
    BY <2>1 DEF Connection
  <2>3. conn[c].phase \in Named => conn[c].name \in Identities
    BY <1>1, <1>2 DEF TypeOK, In, Named
  <2>4. conn[c].phase = "request" => conn[c].exchanges < maxSessionRequests
    BY <1>1, <1>2 DEF ExchangesLeft, In
  <2>5. QED
    BY <2>1, <2>2, <2>3, <2>4 DEF Readings, Keys
<1>3. QED
  BY <1>1, <1>2 DEF TypeOK, LimitsHold, Records

LEMMA AcceptKeeps ==
  ASSUME Correct, NEW c \in Connections, NEW s \in Sources, Accept(c, s)
  PROVE  Correct'
<1> DEFINE w == [source |-> s, name |-> NoName, exchanges |-> 0,
                 phase |-> "accepted", since |-> now]
<1>1. w \in Connection /\ w # Closed
  BY Before, AdmissionAssumption DEF Connection
<1>2. Typed(w)
  BY <1>1, Before DEF Accept, Typed, Named
<1>3. Counts(conn[c], w)
  BY <1>1, Before DEF Accept, Counts
<1>4. Limited
  BY Before, AdmissionAssumption DEF Accept, Limited
<1>5. QED
  BY <1>2, <1>3, <1>4, Kept DEF Accept

LEMMA HangUpKeeps ==
  ASSUME Correct, NEW c \in Connections, HangUp(c)
  PROVE  Correct'
<1>1. /\ conn[c] # Closed /\ conn[c].phase = "ended"
      /\ conn[c].source \in Sources
  BY Before DEF HangUp, At
<1>2. Typed(Closed)
  BY <1>1, Before DEF HangUp, Typed
<1>3. Counts(conn[c], Closed)
  BY <1>1, Before DEF HangUp, Counts
<1>4. Limited
  BY Before DEF HangUp, Limited
<1>5. QED
  BY <1>2, <1>3, <1>4, Kept DEF HangUp

\* A step to another phase that takes or returns a handshake slot at most.
LEMMA GoKeeps ==
  ASSUME Correct, NEW c \in Connections, NEW w \in Connection,
         conn[c] # Closed, conn' = [conn EXCEPT ![c] = w],
         w.source = conn[c].source,
         conn[c].phase # "request", w.phase # "request",
         w.phase \in Named => w.name \in Identities,
         now' = now, failure' \in Records,
         Cardinality(Tracked(failure')) <= maxTrackedIdentities,
         UNCHANGED <<bySource, connections, byIdentity, requests>>,
         handshakes' = handshakes + One(IsShaking(w)) - One(IsShaking(conn[c])),
         handshakes' <= handshakes \/ handshakes' <= ConcurrentHandshakes
  PROVE  Correct'
<1>0. w # Closed
  BY AdmissionAssumption
<1>1. Typed(w)
  BY <1>0, Before DEF Typed
<1>2. Counts(conn[c], w)
  BY <1>0, Before DEF Counts
<1>3. Limited
  BY Before DEF Limited
<1>4. QED
  BY <1>1, <1>2, <1>3, Kept

\* The same, when only the phase changes.
LEMMA PhaseKeeps ==
  ASSUME Correct, NEW c \in Connections, NEW phase,
         conn[c] # Closed, Go(c, phase),
         phase \in {"allowed", "handshake", "succeeded", "cleared", "session",
                    "failed", "counted", "ended"},
         conn[c].phase # "request",
         phase \in {"succeeded", "cleared", "session", "counted"} =>
           conn[c].name \in Identities,
         now' = now, failure' \in Records,
         Cardinality(Tracked(failure')) <= maxTrackedIdentities,
         UNCHANGED <<bySource, connections, byIdentity, requests>>,
         handshakes' = handshakes
                       + One(phase = "handshake")
                       - One(conn[c].phase \in {"handshake", "hello", "throttled"}),
         handshakes' <= handshakes \/ handshakes' <= ConcurrentHandshakes
  PROVE  Correct'
<1>1. conn[c] \in Connection /\ now \in Nat
  BY Before
<1> DEFINE w == [conn[c] EXCEPT !.phase = phase, !.since = now]
<1>2. /\ w \in Connection /\ w.source = conn[c].source
      /\ w.phase = phase /\ w.name = conn[c].name
  BY <1>1 DEF Connection
<1>3. conn' = [conn EXCEPT ![c] = w]
  BY DEF Go
<1>4. w # Closed
  BY <1>2, AdmissionAssumption
<1> HIDE DEF w
<1>5. w.phase # "request" /\ (w.phase \in Named => w.name \in Identities)
  BY <1>2 DEF Named
<1>6. handshakes' = handshakes + One(IsShaking(w)) - One(IsShaking(conn[c]))
  BY <1>2, <1>4
<1>7. QED
  BY <1>2, <1>3, <1>5, <1>6, GoKeeps

LEMMA AllowSourceKeeps ==
  ASSUME Correct, NEW c \in Connections, AllowSource(c)
  PROVE  Correct'
<1>1. conn[c] # Closed /\ conn[c].phase = "accepted" /\ conn[c].source \in Keys
  BY Before DEF AllowSource, At
<1>2. PICK t \in Readings(c) :
        /\ failure' = Allowed(conn[c].source, t)
        /\ Go(c, IF Blocked(conn[c].source, t) THEN "ended" ELSE "allowed")
  BY DEF AllowSource
<1>3. /\ failure' \in Records
      /\ Cardinality(Tracked(failure')) <= maxTrackedIdentities
  BY <1>1, <1>2, AllowedKeeps, Before DEF Correct
<1>4. /\ UNCHANGED <<now, bySource, connections, handshakes, byIdentity, requests>>
      /\ handshakes \in Int
  BY Before DEF AllowSource, counters
<1>5. \/ Go(c, "ended") \/ Go(c, "allowed")
  BY <1>2
<1>6. QED
  BY <1>1, <1>3, <1>4, <1>5, PhaseKeeps

LEMMA TakeSlotKeeps ==
  ASSUME Correct, NEW c \in Connections, TakeSlot(c)
  PROVE  Correct'
<1>1. conn[c] # Closed /\ conn[c].phase = "allowed"
  BY DEF TakeSlot, At
<1>2. /\ UNCHANGED <<now, bySource, connections, byIdentity, requests>>
      /\ failure' \in Records /\ handshakes \in Int
      /\ Cardinality(Tracked(failure')) <= maxTrackedIdentities
  BY Before DEF TakeSlot
<1>3. CASE /\ handshakes < ConcurrentHandshakes
           /\ handshakes' = handshakes + 1
           /\ Go(c, "handshake")
  <2>1. handshakes' <= ConcurrentHandshakes
    BY <1>2, <1>3, AdmissionAssumption
  <2>2. QED
    BY <1>1, <1>2, <1>3, <2>1, PhaseKeeps
<1>4. CASE Go(c, "ended") /\ UNCHANGED handshakes
  BY <1>1, <1>2, <1>4, PhaseKeeps
<1>5. QED
  BY <1>3, <1>4 DEF TakeSlot

LEMMA HelloKeeps ==
  ASSUME Correct, NEW c \in Connections, NEW i \in Identities, Hello(c, i)
  PROVE  Correct'
<1>1. /\ conn[c] # Closed /\ conn[c] \in Connection /\ now \in Nat
      /\ conn[c].phase = "handshake" /\ i \in Keys
  BY Before DEF Hello, At, Keys
<1>2. PICK t \in Readings(c) :
        /\ failure' = Allowed(i, t)
        /\ conn' = [conn EXCEPT ![c].name = i,
                                ![c].phase = IF Blocked(i, t)
                                             THEN "throttled" ELSE "hello",
                                ![c].since = now]
  BY DEF Hello
<1>3. /\ failure' \in Records
      /\ Cardinality(Tracked(failure')) <= maxTrackedIdentities
  BY <1>1, <1>2, AllowedKeeps, Before DEF Correct
<1>4. PICK phase \in {"hello", "throttled"} :
        conn' = [conn EXCEPT ![c].name = i, ![c].phase = phase, ![c].since = now]
  BY <1>2
<1> DEFINE w == [conn[c] EXCEPT !.name = i, !.phase = phase, !.since = now]
<1>5. /\ w \in Connection /\ w.source = conn[c].source
      /\ w.phase = phase /\ w.name = i
  BY <1>1 DEF Connection
<1>6. conn' = [conn EXCEPT ![c] = w]
  BY <1>4
<1>7. w # Closed
  BY <1>5, AdmissionAssumption
<1> HIDE DEF w
<1>8. /\ UNCHANGED <<now, bySource, connections, handshakes, byIdentity, requests>>
      /\ handshakes \in Int
  BY Before DEF Hello, counters
<1>9. handshakes' = handshakes + One(IsShaking(w)) - One(IsShaking(conn[c]))
  BY <1>1, <1>4, <1>5, <1>7, <1>8
<1>10. /\ conn[c].phase # "request" /\ w.phase # "request"
       /\ w.phase \in Named => w.name \in Identities
       /\ handshakes' <= handshakes
  BY <1>1, <1>4, <1>5, <1>8
<1>11. QED
  BY <1>1, <1>3, <1>5, <1>6, <1>8, <1>9, <1>10, GoKeeps

LEMMA EndHandshakeKeeps ==
  ASSUME Correct, NEW c \in Connections, NEW outcome \in {"succeeded", "failed"},
         EndHandshake(c, outcome)
  PROVE  Correct'
<1>1. /\ conn[c] # Closed /\ conn[c].phase \in {"handshake", "hello", "throttled"}
      /\ outcome = "succeeded" => conn[c].name \in Identities
  BY Before DEF EndHandshake, At, Named
<1>2. /\ UNCHANGED <<now, bySource, connections, byIdentity, requests>>
      /\ failure' \in Records /\ handshakes \in Int
      /\ Cardinality(Tracked(failure')) <= maxTrackedIdentities
      /\ Go(c, outcome) /\ handshakes' = handshakes - 1
  BY Before DEF EndHandshake, FreeSlot
<1>3. handshakes' <= handshakes
  BY <1>2
<1>4. QED
  BY <1>1, <1>2, <1>3, PhaseKeeps

LEMMA CountSourceKeeps ==
  ASSUME Correct, NEW c \in Connections, CountSource(c)
  PROVE  Correct'
<1>1. /\ conn[c] # Closed /\ conn[c] \in Connection
      /\ conn[c].phase = "failed" /\ conn[c].source \in Keys
  BY Before DEF CountSource, At
<1>2. /\ failure' \in Records
      /\ Cardinality(Tracked(failure')) <= maxTrackedIdentities
  BY <1>1, FailedKeeps, Before DEF CountSource
<1>3. /\ UNCHANGED <<now, bySource, connections, handshakes, byIdentity, requests>>
      /\ handshakes \in Int
  BY Before DEF CountSource, counters
<1>4. CASE conn[c].name = NoName
  BY <1>1, <1>2, <1>3, <1>4, PhaseKeeps DEF CountSource
<1>5. CASE conn[c].name # NoName
  <2>1. conn[c].name \in Identities /\ Go(c, "counted")
    BY <1>1, <1>5 DEF CountSource, Connection
  <2>2. QED
    BY <1>1, <1>2, <1>3, <2>1, PhaseKeeps
<1>6. QED
  BY <1>4, <1>5

LEMMA CountIdentityKeeps ==
  ASSUME Correct, NEW c \in Connections, CountIdentity(c)
  PROVE  Correct'
<1>1. /\ conn[c] # Closed /\ conn[c].phase = "counted" /\ conn[c].name \in Keys
  BY Before DEF CountIdentity, At, Named, Keys
<1>2. /\ failure' \in Records
      /\ Cardinality(Tracked(failure')) <= maxTrackedIdentities
  BY <1>1, FailedKeeps, Before DEF CountIdentity
<1>3. /\ UNCHANGED <<now, bySource, connections, handshakes, byIdentity, requests>>
      /\ handshakes \in Int /\ Go(c, "ended")
  BY Before DEF CountIdentity, counters
<1>4. QED
  BY <1>1, <1>2, <1>3, PhaseKeeps

LEMMA ClearKeeps ==
  ASSUME Correct, NEW c \in Connections, ClearSource(c) \/ ClearIdentity(c)
  PROVE  Correct'
<1>1. /\ conn[c] # Closed /\ conn[c].name \in Identities
      /\ conn[c].phase \in {"succeeded", "cleared"}
  BY Before DEF ClearSource, ClearIdentity, At, Named
<1>2. failure' \in Records /\ Tracked(failure') \subseteq Tracked(failure)
  BY Before DEF ClearSource, ClearIdentity, Records, Tracked
<1>3. Cardinality(Tracked(failure')) <= maxTrackedIdentities
  BY <1>2, Fewer, TrackedFinite, Before, AdmissionAssumption
<1>4. /\ UNCHANGED <<now, bySource, connections, handshakes, byIdentity, requests>>
      /\ handshakes \in Int /\ (Go(c, "cleared") \/ Go(c, "session"))
  BY Before DEF ClearSource, ClearIdentity, counters
<1>5. QED
  BY <1>1, <1>2, <1>3, <1>4, PhaseKeeps

LEMMA BeginRequestKeeps ==
  ASSUME Correct, NEW c \in Connections, BeginRequest(c)
  PROVE  Correct'
<1>1. /\ conn[c] # Closed /\ conn[c] \in Connection /\ now \in Nat
      /\ conn[c].phase = "session" /\ conn[c].name \in Identities
  BY Before DEF BeginRequest, At, Named
<1>2. CASE Serve(c)
  <2> DEFINE w == [conn[c] EXCEPT !.phase = "request", !.since = now]
  <2>1. /\ w \in Connection /\ w.source = conn[c].source
        /\ w.phase = "request" /\ w.name = conn[c].name
        /\ w.exchanges = conn[c].exchanges
    BY <1>1 DEF Connection
  <2>2. conn' = [conn EXCEPT ![c] = w]
    BY <1>2 DEF Serve, Go
  <2>3. w.exchanges < maxSessionRequests
    BY <1>2, <2>1 DEF Serve
  <2>4. w # Closed
    BY <2>1, AdmissionAssumption
  <2>5. requests' = requests + 1 /\ requests' <= ConcurrentRequests
    BY <1>2, Before, AdmissionAssumption DEF Serve
  <2>6. /\ byIdentity' \in [Identities -> Int]
        /\ \A i \in Identities :
             /\ byIdentity'[i] = byIdentity[i] + One(conn[c].name = i)
             /\ \/ byIdentity'[i] <= byIdentity[i]
                \/ byIdentity'[i] <= ConcurrentRequestsPerIdentity
    BY <1>1, <1>2, Before, AdmissionAssumption DEF Serve
  <2> HIDE DEF w
  <2>7. Typed(w)
    BY <1>1, <1>2, <2>1, <2>3, <2>4, <2>5, <2>6, Before DEF BeginRequest, Typed
  <2>8. Counts(conn[c], w) /\ Limited
    BY <1>1, <1>2, <2>1, <2>4, <2>5, <2>6, Before
       DEF BeginRequest, Counts, Limited
  <2>9. QED
    BY <2>2, <2>7, <2>8, Kept
<1>3. CASE Go(c, "ended") /\ UNCHANGED <<byIdentity, requests>>
  <2>1. /\ UNCHANGED <<now, bySource, connections, handshakes, byIdentity, requests>>
        /\ failure' \in Records /\ handshakes \in Int
        /\ Cardinality(Tracked(failure')) <= maxTrackedIdentities
    BY <1>3, Before DEF BeginRequest
  <2>2. QED
    BY <1>1, <1>3, <2>1, PhaseKeeps
<1>4. QED
  BY <1>2, <1>3 DEF BeginRequest

\* What inFlightRequests.release returns is what the connection holds.
LEMMA Released ==
  ASSUME Correct, NEW c \in Connections, At(c, "request"), Release(c)
  PROVE  /\ conn[c] # Closed /\ conn[c] \in Connection
         /\ conn[c].phase = "request" /\ conn[c].name \in Identities
         /\ conn[c].exchanges < maxSessionRequests
         /\ requests' = requests - 1
         /\ byIdentity' \in [Identities -> Int]
         /\ \A i \in Identities :
              byIdentity'[i] = byIdentity[i] - One(conn[c].name = i)
BY Before DEF At, Release, Named

\* A connection w that has given back the slot of its request.
LEMMA ReleaseKeeps ==
  ASSUME Correct, NEW c \in Connections, At(c, "request"), Release(c),
         NEW w \in Connection, conn' = [conn EXCEPT ![c] = w],
         w.source = conn[c].source, w.name = conn[c].name,
         w.phase \in {"session", "ended"},
         UNCHANGED <<now, bySource, connections, handshakes, failure>>
  PROVE  Correct'
<1>1. /\ conn[c] # Closed /\ conn[c] \in Connection
      /\ conn[c].phase = "request" /\ conn[c].name \in Identities
      /\ requests' = requests - 1
      /\ byIdentity' \in [Identities -> Int]
      /\ \A i \in Identities :
           byIdentity'[i] = byIdentity[i] - One(conn[c].name = i)
  BY Released
<1>2. w # Closed
  BY AdmissionAssumption
<1>3. Typed(w)
  BY <1>1, <1>2, Before DEF Typed
<1>4. Counts(conn[c], w) /\ Limited
  BY <1>1, <1>2, Before DEF Counts, Limited
<1>5. QED
  BY <1>3, <1>4, Kept

LEMMA EndRequestKeeps ==
  ASSUME Correct, NEW c \in Connections, EndRequest(c) \/ FailRequest(c)
  PROVE  Correct'
<1>1. At(c, "request") /\ Release(c) /\ now \in Nat
  BY Before DEF EndRequest, FailRequest
<1>2. /\ conn[c] \in Connection /\ conn[c].exchanges < maxSessionRequests
      /\ UNCHANGED <<now, bySource, connections, handshakes, failure>>
  BY <1>1, Released DEF EndRequest, FailRequest
<1>3. CASE EndRequest(c)
  <2> DEFINE w == [conn[c] EXCEPT !.phase = "session", !.since = now,
                                  !.exchanges = @ + 1]
  <2>1. conn[c].exchanges + 1 \in 0 .. maxSessionRequests
    BY <1>2, AdmissionAssumption DEF Connection
  <2>2. /\ w \in Connection /\ w.source = conn[c].source
        /\ w.phase = "session" /\ w.name = conn[c].name
    BY <1>1, <1>2, <2>1 DEF Connection
  <2>3. conn' = [conn EXCEPT ![c] = w]
    BY <1>3 DEF EndRequest, Correct, TypeOK
  <2> HIDE DEF w
  <2>4. QED
    BY <1>1, <1>2, <2>2, <2>3, ReleaseKeeps
<1>4. CASE FailRequest(c)
  <2> DEFINE w == [conn[c] EXCEPT !.phase = "ended", !.since = now]
  <2>1. /\ w \in Connection /\ w.source = conn[c].source
        /\ w.phase = "ended" /\ w.name = conn[c].name
    BY <1>1, <1>2 DEF Connection
  <2>2. conn' = [conn EXCEPT ![c] = w]
    BY <1>4 DEF FailRequest, Go
  <2> HIDE DEF w
  <2>3. QED
    BY <1>1, <1>2, <2>1, <2>2, ReleaseKeeps
<1>5. QED
  BY <1>3, <1>4

-----------------------------------------------------------------------------
(***************************************************************************)
(* The theorems                                                            *)
(***************************************************************************)

LEMMA Initially ==
  ASSUME Init
  PROVE  Correct
<1>1. /\ \A s \in Sources : From(s) = {}
      /\ Open = {} /\ Tracked(failure) = {}
      /\ \A phases : In(phases) = {}
  BY DEF Init, From, Open, Tracked, In
<1>2. Cardinality({}) = 0
  BY FS_EmptySet
<1>3. \A i \in Identities : {c \in In({"request"}) : conn[c].name = i} = {}
  BY <1>1
<1>4. TypeOK
  BY <1>1 DEF Init, TypeOK
<1>5. SlotsAccounted
  BY <1>1, <1>2, <1>3 DEF Init, SlotsAccounted
<1>6. LimitsHold
  BY <1>1, <1>2, AdmissionAssumption DEF Init, LimitsHold
<1>7. ExchangesLeft
  BY <1>1 DEF ExchangesLeft
<1>8. QED
  BY <1>4, <1>5, <1>6, <1>7 DEF Correct, AdmissionInv

\* The invariant does not depend on the clock.
LEMMA TickKeeps ==
  ASSUME Correct, now' \in Nat, UNCHANGED <<conn, counters, failure>>
  PROVE  Correct'
<1> USE DEF counters
<1>1. TypeOK' /\ ExchangesLeft'
  BY DEF Correct, TypeOK, ExchangesLeft, In
<1>2. SlotsAccounted' /\ LimitsHold'
  BY DEF Correct, AdmissionInv, SlotsAccounted, LimitsHold, From, Open, In,
         Tracked
<1>3. QED
  BY <1>1, <1>2 DEF Correct, AdmissionInv

LEMMA StepKeeps ==
  ASSUME Correct, NEW c \in Connections, Step(c)
  PROVE  Correct'
BY AllowSourceKeeps, TakeSlotKeeps, HelloKeeps, EndHandshakeKeeps,
   CountSourceKeeps, CountIdentityKeeps, ClearKeeps, BeginRequestKeeps,
   EndRequestKeeps, HangUpKeeps DEF Step

LEMMA NextKeeps ==
  ASSUME Correct, [Next]_vars
  PROVE  Correct'
<1>1. CASE Tick
  BY <1>1, TickKeeps, Before DEF Tick
<1>2. CASE UNCHANGED vars
  BY <1>2, TickKeeps, Before DEF vars
<1>3. QED
  BY <1>1, <1>2, AcceptKeeps, StepKeeps DEF Next

LEMMA AlwaysCorrect == Spec => []Correct
BY Initially, NextKeeps, PTL DEF Spec

\* The daemon's counters never drop below zero, and a goroutine that serves a
\* session has the name of an authenticated identity (handshakeSlots,
\* inboundConnections and inFlightRequests in listener.go).
THEOREM AdmissionTypeCorrect == Spec => []TypeOK
BY AlwaysCorrect, PTL DEF Correct

\* Every counter is the number of goroutines that hold what it counts, and no
\* limit is exceeded, for any number of connections, sources and identities
\* and any limits: no path through HandleConnection and serveSession loses a
\* slot or returns one twice.
THEOREM SlotsAndLimits == Spec => []AdmissionInv
BY AlwaysCorrect, PTL DEF Correct
-----------------------------------------------------------------------------
(***************************************************************************)
(* The failures of a source.  A connection that was let in and may still   *)
(* fail is pending.  From the failure that blocks a source to the end of   *)
(* its window nobody is let in, so each further failure uses up a pending  *)
(* connection: their sum does not grow.  A failure that is late, with a    *)
(* reading of the clock from before the window, may end the block before   *)
(* the window ends; until a failure with a later reading renews the block, *)
(* any connection the source may open is let in.  But those that can be    *)
(* late were open when the window began, and each is late once.            *)
(***************************************************************************)

N == HandshakeFailuresPerWindow
K == ConnectionsPerSource
Most == N + K * K

IsPending(v, s) ==
  /\ v # Closed /\ v.source = s
  /\ v.phase \in {"allowed", "handshake", "hello", "throttled", "failed"}

IsLate(v, s, start) ==
  v # Closed /\ v.source = s /\ v.phase = "failed" /\ v.since < start

Pending(s) == {c \in Connections : IsPending(conn[c], s)}
Late(s) == {c \in Connections : IsLate(conn[c], s, failure[s].windowStart)}

\* The block lasts to the end of the window.
Covered(record) ==
  record.blockedUntil >= record.windowStart + HandshakeFailureWindowSeconds

\* The failures that may come before a failure that is not late.
Coming(record, pending) == IF Covered(record) THEN pending ELSE K

RecordBounded(record, pending, late) ==
  /\ record.windowStart <= now
  /\ late < K
  /\ record.failures < Most
  /\ record.failures >= N =>
       record.failures + Coming(record, pending) + K * late < Most

SourceBounded(s) ==
  failure[s] # NoFailure =>
    RecordBounded(failure[s], Cardinality(Pending(s)), Cardinality(Late(s)))

LongCooldown == HandshakeCooldownSeconds >= HandshakeFailureWindowSeconds

AllBounded == \A s \in Sources : SourceBounded(s)

LEMMA Limits ==
  /\ N \in Nat /\ N > 0 /\ K \in Nat /\ K * K \in Nat /\ Most = N + K * K
  /\ MaxFailures \in Nat /\ MaxFailures >= Most
  /\ HandshakeFailureWindowSeconds \in Nat /\ HandshakeCooldownSeconds \in Nat
BY AdmissionAssumption DEF N, K, Most

LEMMA Times ==
  ASSUME NEW k \in Nat, NEW l \in Nat, NEW m \in Nat
  PROVE  /\ k * l \in Nat /\ k * m \in Nat
         /\ m <= l => k * m <= k * l
         /\ m < l => k * m + k <= k * l
<1>1. k * l \in Nat /\ k * m \in Nat
  OBVIOUS
<1>2. ASSUME NEW e \in Nat, NEW j \in Nat, j <= e PROVE k * j <= k * e
  <2>1. e - j \in Nat /\ e = j + (e - j)
    BY <1>2
  <2>2. k * e = k * j + k * (e - j) /\ k * (e - j) \in Nat
    BY <2>1
  <2>3. QED
    BY <2>2
<1>3. ASSUME m < l PROVE k * m + k <= k * l
  <2>1. k * (m + 1) <= k * l
    BY <1>2, <1>3
  <2>2. QED
    BY <2>1
<1>4. QED
  BY <1>1, <1>2, <1>3

LEMMA PendingType ==
  ASSUME NEW s
  PROVE  /\ Cardinality(Pending(s)) \in Nat /\ Cardinality(Pending(s)') \in Nat
         /\ Cardinality(Late(s)) \in Nat /\ Cardinality(Late(s)') \in Nat
         /\ IsFiniteSet(Pending(s)) /\ IsFiniteSet(Pending(s)')
         /\ IsFiniteSet(Late(s)) /\ IsFiniteSet(Late(s)')
<1>1. /\ Pending(s) \subseteq Connections /\ Pending(s)' \subseteq Connections
      /\ Late(s) \subseteq Connections /\ Late(s)' \subseteq Connections
  BY DEF Pending, Late
<1>2. QED
  BY <1>1, AdmissionAssumption, FS_Subset, FS_CardinalityType

\* A source has no more pending connections than it may have open.
FewPending == \A s \in Sources : Cardinality(Pending(s)) <= K

LEMMA PendingFits == Correct => FewPending
<1> SUFFICES ASSUME NEW s \in Sources, Correct
             PROVE  Cardinality(Pending(s)) <= K
  BY DEF FewPending
<1>1. Pending(s) \subseteq From(s) /\ From(s) \subseteq Connections
  BY DEF Pending, IsPending, From
<1>2. IsFiniteSet(From(s)) /\ Cardinality(From(s)) \in Nat
  BY <1>1, AdmissionAssumption, FS_Subset, FS_CardinalityType
<1>3. Cardinality(Pending(s)) <= Cardinality(From(s))
  BY <1>1, <1>2, FS_Subset
<1>4. Cardinality(From(s)) <= K
  BY DEF Correct, AdmissionInv, SlotsAccounted, LimitsHold, K
<1>5. QED
  BY <1>2, <1>3, <1>4, PendingType, Limits

LEMMA PendingFewer ==
  ASSUME NEW s, NEW c \in Connections,
         \A d \in Connections \ {c} : conn'[d] = conn[d],
         IsPending(conn'[c], s) => IsPending(conn[c], s)
  PROVE  Cardinality(Pending(s)') <= Cardinality(Pending(s))
<1>1. Pending(s)' \subseteq Pending(s)
  BY DEF Pending, IsPending
<1>2. QED
  BY <1>1, PendingType, FS_Subset

LEMMA LateFewer ==
  ASSUME NEW s, NEW c \in Connections,
         \A d \in Connections \ {c} : conn'[d] = conn[d],
         failure'[s].windowStart = failure[s].windowStart,
         IsLate(conn'[c], s, failure[s].windowStart) =>
           IsLate(conn[c], s, failure[s].windowStart)
  PROVE  Cardinality(Late(s)') <= Cardinality(Late(s))
<1>1. Late(s)' \subseteq Late(s)
  BY DEF Late, IsLate
<1>2. QED
  BY <1>1, PendingType, FS_Subset

\* A set that loses c, and gains nobody.
LEMMA OneLess ==
  ASSUME NEW S, NEW T, NEW c, IsFiniteSet(S), c \in S, T \subseteq S \ {c}
  PROVE  Cardinality(T) < Cardinality(S)
<1>1. /\ IsFiniteSet(S \ {c}) /\ Cardinality(S \ {c}) = Cardinality(S) - 1
      /\ Cardinality(S) \in Nat
  BY FS_RemoveElement, FS_CardinalityType
<1>2. Cardinality(T) <= Cardinality(S \ {c}) /\ Cardinality(T) \in Nat
  BY <1>1, FS_Subset, FS_CardinalityType
<1>3. QED
  BY <1>1, <1>2

\* A record that stays, while nobody is let in who was not counted on, or that
\* is forgotten.
LEMMA BoundKept ==
  ASSUME Correct, NEW s \in Sources, SourceBounded(s),
         now' \in Nat, now' >= now, Cardinality(Pending(s)') <= K,
         failure'[s] = failure[s] \/ failure'[s] = NoFailure,
         failure'[s] # NoFailure =>
           /\ Cardinality(Late(s)') <= Cardinality(Late(s))
           /\ \/ Cardinality(Pending(s)') <= Cardinality(Pending(s))
              \/ ~Covered(failure[s])
  PROVE  SourceBounded(s)'
<1>1. CASE failure'[s] = NoFailure
  BY <1>1 DEF SourceBounded
<1>2. CASE failure'[s] = failure[s] /\ failure[s] # NoFailure
  <2> DEFINE r == failure[s]
             p == Cardinality(Pending(s))  p1 == Cardinality(Pending(s)')
             l == Cardinality(Late(s))     l1 == Cardinality(Late(s)')
  <2>1. r \in Failure /\ now \in Nat
    BY <1>2 DEF Correct, TypeOK, Keys
  <2>2. r.failures \in Nat /\ r.windowStart \in Nat /\ r.blockedUntil \in Nat
    BY <2>1 DEF Failure
  <2>3. p \in Nat /\ p1 \in Nat /\ l \in Nat /\ l1 \in Nat
    BY PendingType
  <2>4. RecordBounded(r, p, l)
    BY <1>2 DEF SourceBounded
  <2>5. l1 <= l /\ (p1 <= p \/ ~Covered(r)) /\ p1 <= K
    BY <1>2
  <2>6. failure'[s] = r
    BY <1>2
  <2> HIDE DEF r, p, p1, l, l1
  <2>7. K * l \in Nat /\ K * l1 \in Nat /\ K * l1 <= K * l
    BY <2>3, <2>5, Limits, Times
  <2>8. Coming(r, p1) <= Coming(r, p) /\ Coming(r, p) \in Nat /\ Coming(r, p1) \in Nat
    BY <2>3, <2>5, Limits DEF Coming
  <2>9. /\ r.windowStart <= now' /\ l1 < K /\ r.failures < Most
        /\ r.failures >= N => r.failures + Coming(r, p1) + K * l1 < Most
    BY <2>1, <2>2, <2>3, <2>4, <2>5, <2>7, <2>8, Limits DEF RecordBounded
  <2>10. QED
    BY <2>6, <2>9 DEF SourceBounded, RecordBounded, Coming, Covered, p1, l1
<1>3. QED
  BY <1>1, <1>2

LEMMA FailedRecords ==
  ASSUME failure \in Records, NEW k \in Keys, NEW t, NEW next \in Failed(k, t)
  PROVE  /\ next[k] = Counted(failure[k], t)
         /\ \A j \in Keys \ {k} : next[j] = failure[j] \/ next[j] = NoFailure
<1> DEFINE counted == [failure EXCEPT ![k] = Counted(@, t)]
<1>1. /\ counted[k] = Counted(failure[k], t)
      /\ \A j \in Keys \ {k} : counted[j] = failure[j]
  BY DEF Records
<1>2. CASE next = counted
  BY <1>1, <1>2
<1>3. CASE next # counted
  <2>1. PICK evicted \in Tracked(failure) :
          next = [counted EXCEPT ![evicted] = NoFailure] /\ failure[k] = NoFailure
    BY <1>3 DEF Failed
  <2>2. evicted # k /\ evicted \in Keys
    BY <2>1 DEF Tracked
  <2>3. QED
    BY <1>1, <2>1, <2>2 DEF Records
<1>4. QED
  BY <1>2, <1>3

\* A step of c that leaves s alone: c is no more pending than before, it comes
\* late to no window, and no record changes but to be forgotten.
Quietly(c, s) ==
  /\ \A d \in Connections \ {c} : conn'[d] = conn[d]
  /\ IsPending(conn'[c], s) => IsPending(conn[c], s)
  /\ IsLate(conn'[c], s, now) => conn'[c] = conn[c]
  /\ now' = now
  /\ failure'[s] = failure[s] \/ failure'[s] = NoFailure

LEMMA QuietBounded ==
  ASSUME Correct, Correct', NEW s \in Sources, SourceBounded(s),
         NEW c \in Connections, Quietly(c, s)
  PROVE  SourceBounded(s)'
<1>1. Cardinality(Pending(s)') <= Cardinality(Pending(s))
  BY PendingFewer DEF Quietly
<1>2. (Correct => FewPending)'
  BY PendingFits, PTL
<1>3. ASSUME failure'[s] # NoFailure
      PROVE  Cardinality(Late(s)') <= Cardinality(Late(s))
  <2>1. failure'[s] = failure[s] /\ failure[s] # NoFailure
    BY <1>3 DEF Quietly
  <2>2. /\ failure[s] \in Failure /\ failure[s].windowStart \in Nat
        /\ failure[s].windowStart <= now /\ now \in Nat
    BY <2>1 DEF SourceBounded, RecordBounded, Correct, TypeOK, Keys, Failure
  <2>3. conn'[c] # Closed => conn'[c].since \in Nat
    BY DEF Correct, TypeOK, Connection
  <2>4. IsLate(conn'[c], s, failure[s].windowStart) =>
          IsLate(conn[c], s, failure[s].windowStart)
    BY <2>2, <2>3 DEF Quietly, IsLate
  <2>5. QED
    BY <2>1, <2>4, LateFewer DEF Quietly
<1>4. now' \in Nat /\ now' >= now
  BY Before DEF Quietly
<1>5. Cardinality(Pending(s)') <= K
  BY <1>2 DEF FewPending
<1>6. QED
  BY <1>1, <1>3, <1>4, <1>5, BoundKept DEF Quietly

\* A step to another phase, in which the goroutine comes to a failure only now.
LEMMA GoQuietly ==
  ASSUME Correct, NEW c \in Connections, NEW s, NEW phase,
         conn[c] # Closed, Go(c, phase), now' = now,
         \/ conn[c].source # s
         \/ phase \in {"ended", "counted", "cleared", "session", "request"}
         \/ conn[c].phase \in {"allowed", "handshake", "hello", "throttled"},
         failure'[s] = failure[s] \/ failure'[s] = NoFailure
  PROVE  Quietly(c, s)
<1>1. conn[c] \in Connection /\ now \in Nat
  BY Before
<1>2. /\ conn'[c] = [conn[c] EXCEPT !.phase = phase, !.since = now]
      /\ \A d \in Connections \ {c} : conn'[d] = conn[d]
  BY DEF Go, Correct, TypeOK
<1>3. /\ conn'[c].source = conn[c].source /\ conn'[c].phase = phase
      /\ conn'[c].since = now
  BY <1>1, <1>2 DEF Connection
<1>4. IsPending(conn'[c], s) => IsPending(conn[c], s)
  BY <1>3 DEF IsPending
<1>5. ~IsLate(conn'[c], s, now)
  BY <1>1, <1>3 DEF IsLate
<1>6. QED
  BY <1>2, <1>4, <1>5 DEF Quietly

LEMMA AllowSourceBounded ==
  ASSUME Correct, Correct', NEW c \in Connections, AllowSource(c),
         NEW s \in Sources, SourceBounded(s)
  PROVE  SourceBounded(s)'
<1>1. /\ conn[c] # Closed /\ conn[c] \in Connection /\ conn[c].source \in Keys
      /\ now' = now /\ now \in Nat /\ failure \in Records /\ s \in Keys
  BY Before DEF AllowSource, At, Keys
<1>2. PICK t \in Readings(c) :
        /\ failure' = Allowed(conn[c].source, t)
        /\ Go(c, IF Blocked(conn[c].source, t) THEN "ended" ELSE "allowed")
  BY DEF AllowSource
<1>3. t \in Nat
  BY <1>1, Before
<1>4. failure'[s] = failure[s] \/ failure'[s] = NoFailure
  BY <1>1, <1>2 DEF Allowed, Records
<1>5. CASE s # conn[c].source \/ Blocked(conn[c].source, t)
  BY <1>1, <1>2, <1>4, <1>5, GoQuietly, QuietBounded
<1>6. CASE s = conn[c].source /\ ~Blocked(s, t)
  <2>1. CASE Stale(failure[s], t)
    BY <1>1, <1>2, <1>6, <2>1 DEF Allowed, Records, SourceBounded
  <2>2. CASE ~Stale(failure[s], t)
    <3>1. failure[s] # NoFailure /\ failure[s] \in Failure
      BY <1>1, <2>2 DEF Stale, Records
    <3>2. failure[s].windowStart \in Nat /\ failure[s].blockedUntil \in Nat
      BY <3>1 DEF Failure
    <3>3. ~Covered(failure[s])
      BY <1>3, <1>6, <2>2, <3>1, <3>2, Limits DEF Blocked, Stale, Covered
    <3>4. /\ conn'[c] = [conn[c] EXCEPT !.phase = "allowed", !.since = now]
          /\ \A d \in Connections \ {c} : conn'[d] = conn[d]
      BY <1>2, <1>6 DEF Go, Correct, TypeOK
    <3>5. conn'[c].phase = "allowed"
      BY <1>1, <3>4 DEF Connection
    <3>6. failure'[s] # NoFailure => Cardinality(Late(s)') <= Cardinality(Late(s))
      BY <1>4, <3>4, <3>5, LateFewer DEF IsLate
    <3>7. (Correct => FewPending)'
      BY PendingFits, PTL
    <3>8. QED
      BY <1>1, <1>4, <3>3, <3>6, <3>7, BoundKept DEF FewPending
  <2>3. QED
    BY <2>1, <2>2
<1>7. QED
  BY <1>5, <1>6

\* A failure of c, counted with reading t in a record of its source.
LEMMA CountSourceBounded ==
  ASSUME Correct, LongCooldown, NEW c \in Connections, CountSource(c),
         NEW s \in Sources, s = conn[c].source, SourceBounded(s)
  PROVE  SourceBounded(s)'
<1> DEFINE p == Cardinality(Pending(s))  p1 == Cardinality(Pending(s)')
           l == Cardinality(Late(s))     l1 == Cardinality(Late(s)')
           r == failure[s]
           since == conn[c].since
<1>1. /\ conn[c] # Closed /\ conn[c] \in Connection /\ conn[c].phase = "failed"
      /\ s \in Keys /\ since \in Nat
      /\ now' = now /\ now \in Nat /\ failure \in Records
  BY Before DEF CountSource, At, counters
<1>2. PICK t \in Readings(c) : failure' \in Failed(s, t)
  BY DEF CountSource
<1>3. t \in Nat /\ since <= t /\ t <= now
  BY <1>1, <1>2 DEF Readings
<1>4. failure'[s] = Counted(r, t)
  BY <1>1, <1>2, FailedRecords
<1>5. /\ conn'[c] # Closed => conn'[c].phase \in {"ended", "counted"}
      /\ \A d \in Connections \ {c} : conn'[d] = conn[d]
  <2>1. PICK phase \in {"ended", "counted"} :
          conn' = [conn EXCEPT ![c] = [conn[c] EXCEPT !.phase = phase, !.since = now]]
    BY DEF CountSource, Go
  <2>2. conn \in [Connections -> Connection \cup {Closed}]
    BY DEF Correct, TypeOK
  <2>3. QED
    BY <1>1, <2>1, <2>2 DEF Connection
<1>6. p \in Nat /\ p1 \in Nat /\ p1 < p /\ p <= K
  <2>1. c \in Pending(s) /\ Pending(s)' \subseteq Pending(s) \ {c}
    BY <1>1, <1>5 DEF Pending, IsPending
  <2>2. QED
    BY <2>1, OneLess, PendingType, PendingFits DEF FewPending
<1>7. l \in Nat /\ l1 \in Nat
  BY PendingType
<1> DEFINE n == Counted(r, t)
<1>8. CASE Stale(r, t)
  <2>1. n.failures = 1 /\ n.windowStart = t
        /\ (1 >= N => n.blockedUntil = t + HandshakeCooldownSeconds)
    BY <1>8 DEF Counted, N
  <2>2. n # NoFailure
    BY <1>1, <1>3, CountedType, AdmissionAssumption DEF Records
  <2>3. l1 < K
    <3>1. Late(s)' \subseteq Pending(s) \ {c}
      BY <1>1, <1>5 DEF Late, IsLate, Pending, IsPending
    <3>2. c \in Pending(s)
      BY <1>1 DEF Pending, IsPending
    <3>3. l1 < p
      BY <3>1, <3>2, OneLess, PendingType
    <3>4. QED
      BY <1>6, <1>7, <3>3, Limits
  <2>4. 1 >= N => Coming(n, p1) = p1
    BY <1>3, <2>1, Limits DEF Coming, Covered, LongCooldown
  <2> HIDE DEF n, r, p, p1, l, l1
  <2>5. K * l1 \in Nat /\ K * l1 + K <= K * K
    BY <1>7, <2>3, Limits, Times
  <2>6. /\ n.windowStart <= now /\ l1 < K /\ n.failures < Most
        /\ n.failures >= N => n.failures + Coming(n, p1) + K * l1 < Most
    BY <1>3, <1>6, <1>7, <2>1, <2>3, <2>4, <2>5, Limits
  <2>7. QED
    BY <1>1, <1>4, <2>6 DEF SourceBounded, RecordBounded, Coming, Covered, n, p1, l1
<1>9. CASE ~Stale(r, t)
  <2>1. r # NoFailure /\ r \in Failure
    BY <1>1, <1>9 DEF Stale, Records
  <2>2. r.failures \in Nat /\ r.windowStart \in Nat /\ r.blockedUntil \in Nat
    BY <2>1 DEF Failure
  <2>3. RecordBounded(r, p, l)
    BY <2>1 DEF SourceBounded
  <2>4. r.failures < MaxFailures /\ l < K /\ r.windowStart <= now
    <3> HIDE DEF r, p, l
    <3> QED BY <2>2, <2>3, Limits DEF RecordBounded
  <2>5. /\ n.failures = r.failures + 1 /\ n.windowStart = r.windowStart
        /\ n.failures >= N => n.blockedUntil = t + HandshakeCooldownSeconds
    BY <1>9, <2>4 DEF Counted, N
  <2>6. Late(s)' \subseteq Late(s) \ {c}
    BY <1>4, <1>5, <2>5 DEF Late, IsLate
  <2>7. l1 <= l
    BY <2>6, PendingType, FS_Subset
  <2>8. since < r.windowStart => l1 < l
    <3>1. ASSUME since < r.windowStart PROVE c \in Late(s)
      BY <1>1, <3>1 DEF Late, IsLate
    <3>2. QED
      BY <2>6, <3>1, OneLess, PendingType
  <2>9. since >= r.windowStart /\ n.failures >= N => Coming(n, p1) = p1
    BY <1>1, <1>3, <2>2, <2>5, Limits DEF Coming, Covered, LongCooldown
  <2>10. Coming(n, p1) \in {p1, K} /\ Coming(r, p) \in {p, K}
    BY DEF Coming
  <2>11. r.failures >= N => r.failures + Coming(r, p) + K * l < Most
    BY <2>3 DEF RecordBounded
  <2> HIDE DEF n, r, p, p1, l, l1, since
  <2>12. /\ K * l \in Nat /\ K * l1 \in Nat /\ K * l1 <= K * l
         /\ l1 < l => K * l1 + K <= K * l
         /\ K * l + K <= K * K
    BY <1>7, <2>4, <2>7, Limits, Times
  <2>13. n.failures >= N => n.failures + Coming(n, p1) + K * l1 < Most
    <3> SUFFICES ASSUME n.failures >= N
                 PROVE  n.failures + Coming(n, p1) + K * l1 < Most
      OBVIOUS
    <3>1. CASE since < r.windowStart
      <4>1. Coming(n, p1) + K * l1 <= K * l
        BY <1>6, <2>8, <2>10, <2>12, <3>1, Limits
      <4>2. CASE r.failures >= N
        BY <1>6, <2>2, <2>5, <2>10, <2>11, <2>12, <4>1, <4>2, Limits
      <4>3. CASE r.failures = N - 1
        BY <1>6, <2>2, <2>5, <2>10, <2>12, <4>1, <4>3, Limits
      <4>4. QED
        BY <2>2, <2>5, <4>2, <4>3, Limits
    <3>2. CASE since >= r.windowStart
      <4>1. Coming(n, p1) = p1
        BY <2>9, <3>2
      <4>2. CASE r.failures >= N
        BY <1>6, <2>2, <2>5, <2>10, <2>11, <2>12, <4>1, <4>2, Limits
      <4>3. CASE r.failures = N - 1
        BY <1>6, <2>2, <2>5, <2>12, <4>1, <4>3, Limits
      <4>4. QED
        BY <2>2, <2>5, <4>2, <4>3, Limits
    <3>3. QED
      BY <1>1, <2>2, <3>1, <3>2 DEF since
  <2>14. n.failures < Most
    BY <1>6, <2>2, <2>5, <2>10, <2>12, <2>13, Limits
  <2>15. n.windowStart <= now /\ l1 < K
    BY <1>7, <2>4, <2>5, <2>7, Limits
  <2>16. QED
    BY <1>1, <1>4, <2>13, <2>14, <2>15
       DEF SourceBounded, RecordBounded, Coming, Covered, n, p1, l1
<1>10. QED
  BY <1>8, <1>9

\* Every other step of a connection.
LEMMA OthersQuiet ==
  ASSUME Correct, NEW c \in Connections, Step(c), NEW s \in Sources,
         ~AllowSource(c), CountSource(c) => s # conn[c].source
  PROVE  Quietly(c, s)
<1>1. /\ s \in Keys /\ s \notin Identities /\ failure \in Records
      /\ conn \in [Connections -> Connection \cup {Closed}]
  BY Before, AdmissionAssumption DEF Keys, Correct, TypeOK
<1>2. /\ conn[c] # Closed /\ conn[c] \in Connection /\ conn[c].source \in Keys
      /\ conn[c].phase \in Named => conn[c].name \in Identities
  BY Before DEF Step, AllowSource, TakeSlot, Hello, EndHandshake, CountSource,
                CountIdentity, ClearSource, ClearIdentity, BeginRequest,
                EndRequest, FailRequest, HangUp, At
<1>3. CASE TakeSlot(c)
  BY <1>2, <1>3, GoQuietly DEF TakeSlot, At
<1>4. ASSUME NEW i \in Identities, Hello(c, i) PROVE Quietly(c, s)
  <2>1. failure'[s] = failure[s] /\ now' = now
    BY <1>1, <1>4 DEF Hello, Allowed, Records
  <2>2. PICK phase \in {"hello", "throttled"} :
          conn' = [conn EXCEPT ![c].name = i, ![c].phase = phase, ![c].since = now]
    BY <1>4 DEF Hello
  <2>3. /\ conn'[c].phase = phase /\ conn'[c].source = conn[c].source
        /\ \A d \in Connections \ {c} : conn'[d] = conn[d]
    BY <1>1, <1>2, <2>2 DEF Connection
  <2>4. conn[c].phase = "handshake"
    BY <1>4 DEF Hello, At
  <2>5. IsPending(conn'[c], s) => IsPending(conn[c], s)
    BY <1>2, <2>3, <2>4 DEF IsPending
  <2>6. QED
    BY <2>1, <2>2, <2>3, <2>5 DEF Quietly, IsLate
<1>5. ASSUME NEW outcome \in {"succeeded", "failed"}, EndHandshake(c, outcome)
      PROVE  Quietly(c, s)
  BY <1>2, <1>5, GoQuietly DEF EndHandshake, FreeSlot, At
<1>6. CASE CountSource(c)
  <2>1. failure'[s] = failure[s] \/ failure'[s] = NoFailure
    BY <1>1, <1>2, <1>6, FailedRecords DEF CountSource
  <2>2. PICK phase : Go(c, phase)
    BY <1>6 DEF CountSource
  <2>3. now' = now /\ conn[c].source # s
    BY <1>6 DEF CountSource
  <2>4. QED
    BY <1>2, <2>1, <2>2, <2>3, GoQuietly
<1>7. CASE CountIdentity(c)
  <2>1. conn[c].name \in Keys /\ s # conn[c].name
    BY <1>1, <1>2, <1>7 DEF CountIdentity, At, Named, Keys
  <2>2. failure'[s] = failure[s] \/ failure'[s] = NoFailure
    BY <1>1, <1>7, <2>1, FailedRecords DEF CountIdentity
  <2>3. Go(c, "ended") /\ now' = now
    BY <1>7 DEF CountIdentity
  <2>4. QED
    BY <1>2, <2>2, <2>3, GoQuietly
<1>8. CASE ClearSource(c) \/ ClearIdentity(c)
  <2>1. failure'[s] = failure[s] \/ failure'[s] = NoFailure
    BY <1>1, <1>8 DEF ClearSource, ClearIdentity, Records
  <2>2. (Go(c, "cleared") \/ Go(c, "session")) /\ now' = now
    BY <1>8 DEF ClearSource, ClearIdentity
  <2>3. QED
    BY <1>2, <2>1, <2>2, GoQuietly
<1>9. CASE BeginRequest(c) \/ FailRequest(c)
  <2>1. /\ Go(c, "request") \/ Go(c, "ended")
        /\ now' = now /\ failure' = failure
    BY <1>9 DEF BeginRequest, Serve, FailRequest
  <2>2. QED
    BY <1>2, <2>1, GoQuietly
<1>10. CASE EndRequest(c)
  <2>1. /\ conn'[c].phase = "session" /\ now' = now /\ failure' = failure
        /\ \A d \in Connections \ {c} : conn'[d] = conn[d]
    BY <1>1, <1>2, <1>10 DEF EndRequest, Connection
  <2>2. QED
    BY <2>1 DEF Quietly, IsPending, IsLate
<1>11. CASE HangUp(c)
  <2>1. /\ conn'[c] = Closed /\ now' = now /\ failure' = failure
        /\ \A d \in Connections \ {c} : conn'[d] = conn[d]
    BY <1>1, <1>11 DEF HangUp
  <2>2. QED
    BY <2>1 DEF Quietly, IsPending, IsLate
<1>12. QED
  BY <1>3, <1>4, <1>5, <1>6, <1>7, <1>8, <1>9, <1>10, <1>11 DEF Step

LEMMA NextBounded ==
  ASSUME Correct, Correct', LongCooldown, AllBounded, [Next]_vars
  PROVE  AllBounded'
<1> SUFFICES ASSUME NEW s \in Sources PROVE SourceBounded(s)'
  BY DEF AllBounded
<1>1. SourceBounded(s)
  BY DEF AllBounded
<1>2. ASSUME NEW c \in Connections, NEW r \in Sources, Accept(c, r)
      PROVE  SourceBounded(s)'
  <2>1. /\ conn'[c].phase = "accepted" /\ now' = now /\ failure' = failure
        /\ \A d \in Connections \ {c} : conn'[d] = conn[d]
    BY <1>2 DEF Accept, Correct, TypeOK
  <2>2. Quietly(c, s)
    BY <2>1 DEF Quietly, IsPending, IsLate
  <2>3. QED
    BY <1>1, <2>2, QuietBounded
<1>3. ASSUME NEW c \in Connections, Step(c) PROVE SourceBounded(s)'
  <2>1. CASE AllowSource(c)
    BY <1>1, <2>1, AllowSourceBounded
  <2>2. CASE CountSource(c) /\ s = conn[c].source
    BY <1>1, <2>2, CountSourceBounded
  <2>3. CASE ~AllowSource(c) /\ (CountSource(c) => s # conn[c].source)
    BY <1>1, <1>3, <2>3, OthersQuiet, QuietBounded
  <2>4. QED
    BY <2>1, <2>2, <2>3
<1>4. CASE Tick \/ UNCHANGED vars
  <2>1. /\ conn' = conn /\ failure' = failure
        /\ now \in Nat /\ now' \in Nat /\ now' >= now
    BY <1>4, Before DEF Tick, vars
  <2>2. Pending(s)' = Pending(s) /\ Late(s)' = Late(s)
    BY <2>1 DEF Pending, Late
  <2>3. Cardinality(Pending(s)') <= K
    BY <2>2, PendingFits DEF FewPending
  <2>4. QED
    BY <1>1, <2>1, <2>2, <2>3, PendingType, BoundKept
<1>5. QED
  BY <1>2, <1>3, <1>4 DEF Next

LEMMA InitBounded ==
  ASSUME Init
  PROVE  AllBounded
BY DEF Init, AllBounded, SourceBounded, Keys

\* handshakeLimiter: with a cooldown not shorter than the window, a source's
\* failures exceed the number that blocks it by less than the square of the
\* connections it may have open, whatever readings of the clock they are
\* counted with and in whatever order.
THEOREM FailuresStayBounded == Spec => []FailuresBounded
<1>1. Correct /\ AllBounded => FailuresBounded
  BY DEF FailuresBounded, AllBounded, SourceBounded, RecordBounded, Most, N, K
<1>2. CASE LongCooldown
  <2>1. Init => AllBounded
    BY InitBounded
  <2>2. Correct /\ Correct' /\ AllBounded /\ [Next]_vars => AllBounded'
    BY <1>2, NextBounded
  <2>3. QED
    BY <1>1, <2>1, <2>2, AlwaysCorrect, PTL DEF Spec
<1>3. CASE ~LongCooldown
  <2>1. FailuresBounded
    BY <1>3 DEF FailuresBounded, LongCooldown
  <2>2. QED
    BY <2>1, PTL
<1>4. QED
  BY <1>2, <1>3
-----------------------------------------------------------------------------
(***************************************************************************)
(* How long a connection lasts.  That its goroutine takes its steps is     *)
(* fairness (ConnectionsEnd); that these lead to its end, and how many     *)
(* they are at most, is not.                                               *)
(***************************************************************************)

\* The steps of a goroutine until its connection is closed, at most: those of
\* its handshake and its end, and two for each request that its session may
\* still serve.
StepsOf(phase) ==
  CASE phase = "accepted"  -> 8
    [] phase = "allowed"   -> 7
    [] phase = "handshake" -> 6
    [] phase = "hello"     -> 5
    [] phase = "succeeded" -> 4
    [] phase = "cleared"   -> 3
    [] phase = "session"   -> 2
    [] phase = "request"   -> 1
    [] phase = "throttled" -> 4
    [] phase = "failed"    -> 3
    [] phase = "counted"   -> 2
    [] phase = "ended"     -> 1

\* The phases after which no request is served.
Ending == {"throttled", "failed", "counted", "ended"}

StepsLeft(w) ==
  IF w = Closed THEN 0
  ELSE IF w.phase \in Ending THEN StepsOf(w.phase)
  ELSE StepsOf(w.phase) + 2 * (maxSessionRequests - w.exchanges)

\* The same as sums of numbers.
LEMMA StepsLeftIs ==
  ASSUME NEW v \in Connection
  PROVE  \E k \in 1 .. 8, e \in 0 .. maxSessionRequests :
           /\ k = StepsOf(v.phase) /\ e = v.exchanges
           /\ StepsLeft(v) = IF v.phase \in Ending THEN k
                             ELSE k + 2 * (maxSessionRequests - e)
<1>1. v # Closed
  BY AdmissionAssumption
<1>2. /\ v.exchanges \in 0 .. maxSessionRequests
      /\ v.phase \in {"accepted", "allowed", "handshake", "hello", "throttled",
                      "succeeded", "cleared", "session", "request",
                      "failed", "counted", "ended"}
  BY DEF Connection
<1>3. StepsOf(v.phase) \in 1 .. 8
  BY <1>2 DEF StepsOf
<1>4. QED
  BY <1>1, <1>2, <1>3 DEF StepsLeft

LEMMA StepsLeftType ==
  ASSUME Correct, NEW c \in Connections
  PROVE  /\ StepsLeft(conn[c]) \in 0 .. 8 + 2 * maxSessionRequests
         /\ conn[c] # Closed => StepsLeft(conn[c]) > 0
<1>0. maxSessionRequests \in Nat
  BY AdmissionAssumption
<1>1. CASE conn[c] = Closed
  BY <1>0, <1>1 DEF StepsLeft
<1>2. CASE conn[c] # Closed
  <2>1. PICK k \in 1 .. 8, e \in 0 .. maxSessionRequests :
          StepsLeft(conn[c]) = IF conn[c].phase \in Ending THEN k
                               ELSE k + 2 * (maxSessionRequests - e)
    BY <1>2, Before, StepsLeftIs
  <2>2. QED
    BY <1>0, <2>1
<1>3. QED
  BY <1>1, <1>2

\* A step to a later phase, to the next exchange, or out of the last one.
Onwards(v, w) ==
  \/ /\ w.phase \in Ending \/ {v.phase, w.phase} \cap Ending = {}
     /\ w.exchanges = v.exchanges
     /\ StepsOf(w.phase) < StepsOf(v.phase)
  \/ /\ v.phase = "request" /\ w.phase = "session"
     /\ w.exchanges = v.exchanges + 1
  \/ /\ v.phase = "request" /\ v.exchanges < maxSessionRequests
     /\ w.phase = "ended"

LEMMA OnwardsIsShorter ==
  ASSUME NEW v \in Connection, NEW w \in Connection, Onwards(v, w)
  PROVE  StepsLeft(w) < StepsLeft(v)
<1>1. maxSessionRequests \in Nat
  BY AdmissionAssumption
<1>2. PICK k \in 1 .. 8, e \in 0 .. maxSessionRequests :
        /\ k = StepsOf(v.phase) /\ e = v.exchanges
        /\ StepsLeft(v) = IF v.phase \in Ending THEN k
                          ELSE k + 2 * (maxSessionRequests - e)
  BY StepsLeftIs
<1>3. PICK l \in 1 .. 8, f \in 0 .. maxSessionRequests :
        /\ l = StepsOf(w.phase) /\ f = w.exchanges
        /\ StepsLeft(w) = IF w.phase \in Ending THEN l
                          ELSE l + 2 * (maxSessionRequests - f)
  BY StepsLeftIs
<1>4. CASE /\ w.phase \in Ending \/ {v.phase, w.phase} \cap Ending = {}
           /\ w.exchanges = v.exchanges
           /\ StepsOf(w.phase) < StepsOf(v.phase)
  <2>1. e = f /\ l < k
    BY <1>2, <1>3, <1>4
  <2>2. QED
    BY <1>1, <1>2, <1>3, <1>4, <2>1
<1>5. CASE /\ v.phase = "request" /\ w.phase = "session"
           /\ w.exchanges = v.exchanges + 1
  <2>1. k = 1 /\ l = 2 /\ f = e + 1 /\ {v.phase, w.phase} \cap Ending = {}
    BY <1>2, <1>3, <1>5 DEF StepsOf, Ending
  <2>2. QED
    BY <1>1, <1>2, <1>3, <2>1
<1>6. CASE /\ v.phase = "request" /\ v.exchanges < maxSessionRequests
           /\ w.phase = "ended"
  <2>1. k = 1 /\ l = 1 /\ e < maxSessionRequests
        /\ v.phase \notin Ending /\ w.phase \in Ending
    BY <1>2, <1>3, <1>6 DEF StepsOf, Ending
  <2>2. QED
    BY <1>1, <1>2, <1>3, <2>1
<1>7. QED
  BY <1>4, <1>5, <1>6 DEF Onwards

LEMMA OwnStepShortens ==
  ASSUME Correct, NEW c \in Connections, Step(c)
  PROVE  \E w \in Connection \cup {Closed} :
           /\ conn' = [conn EXCEPT ![c] = w]
           /\ StepsLeft(w) < StepsLeft(conn[c])
<1> DEFINE v == conn[c]
           Goal == \E w \in Connection \cup {Closed} :
                     /\ conn' = [conn EXCEPT ![c] = w]
                     /\ StepsLeft(w) < StepsLeft(conn[c])
<1> SUFFICES Goal
  OBVIOUS
<1>1. v \in Connection /\ v # Closed /\ now \in Nat
  BY Before DEF Step, AllowSource, TakeSlot, Hello, EndHandshake, CountSource,
                CountIdentity, ClearSource, ClearIdentity, BeginRequest,
                EndRequest, FailRequest, HangUp, At
<1>2. CASE HangUp(c)
  BY <1>1, <1>2, StepsLeftType DEF HangUp, StepsLeft
<1>3. ASSUME NEW w \in Connection, conn' = [conn EXCEPT ![c] = w], Onwards(v, w)
      PROVE  Goal
  BY <1>1, <1>3, OnwardsIsShorter
<1>4. ASSUME NEW phase, Go(c, phase),
             phase \in {"allowed", "handshake", "succeeded", "cleared", "session",
                        "request", "failed", "counted", "ended"},
             phase \in Ending \/ v.phase \notin Ending,
             \/ StepsOf(phase) < StepsOf(v.phase)
             \/ /\ v.phase = "request" /\ v.exchanges < maxSessionRequests
                /\ phase = "ended"
      PROVE  Goal
  <2> DEFINE w == [v EXCEPT !.phase = phase, !.since = now]
  <2>1. w \in Connection /\ w.phase = phase /\ w.exchanges = v.exchanges
    BY <1>1, <1>4 DEF Connection
  <2>2. conn' = [conn EXCEPT ![c] = w]
    BY <1>4 DEF Go
  <2> HIDE DEF w, v
  <2>3. {v.phase, w.phase} \cap Ending = {} \/ w.phase \in Ending
    BY <1>4, <2>1
  <2>4. Onwards(v, w)
    BY <1>4, <2>1, <2>3 DEF Onwards
  <2>5. QED
    BY <1>3, <2>1, <2>2, <2>4
<1> HIDE DEF Goal
<1>5. CASE AllowSource(c) \/ TakeSlot(c)
  BY <1>4, <1>5 DEF AllowSource, TakeSlot, At, StepsOf, Ending
<1>6. ASSUME NEW i \in Identities, Hello(c, i) PROVE Goal
  <2>1. PICK phase \in {"throttled", "hello"} :
          conn' = [conn EXCEPT ![c].name = i, ![c].phase = phase, ![c].since = now]
    BY <1>6 DEF Hello
  <2> DEFINE w == [v EXCEPT !.name = i, !.phase = phase, !.since = now]
  <2>2. w \in Connection /\ w.phase = phase /\ w.exchanges = v.exchanges
    BY <1>1 DEF Connection
  <2>3. conn' = [conn EXCEPT ![c] = w]
    BY <2>1
  <2>4. v.phase = "handshake"
    BY <1>6 DEF Hello, At
  <2> HIDE DEF w, v
  <2>5. Onwards(v, w)
    BY <2>1, <2>2, <2>4 DEF Onwards, StepsOf, Ending
  <2>6. QED
    BY <1>3, <2>2, <2>3, <2>5
<1>7. ASSUME NEW outcome \in {"succeeded", "failed"}, EndHandshake(c, outcome)
      PROVE  Goal
  BY <1>4, <1>7 DEF EndHandshake, FreeSlot, At, StepsOf, Ending
<1>8. CASE CountSource(c) \/ CountIdentity(c)
  BY <1>4, <1>8 DEF CountSource, CountIdentity, At, StepsOf, Ending
<1>9. CASE ClearSource(c) \/ ClearIdentity(c)
  BY <1>4, <1>9 DEF ClearSource, ClearIdentity, At, StepsOf, Ending
<1>10. CASE BeginRequest(c)
  BY <1>4, <1>10 DEF BeginRequest, Serve, At, StepsOf, Ending
<1>11. CASE FailRequest(c)
  <2>1. /\ Go(c, "ended") /\ v.phase = "request"
        /\ v.exchanges < maxSessionRequests
    BY <1>11, Before DEF FailRequest, At
  <2>2. QED
    BY <1>4, <2>1 DEF Ending
<1>12. CASE EndRequest(c)
  <2> DEFINE w == [v EXCEPT !.phase = "session", !.since = now,
                            !.exchanges = v.exchanges + 1]
  <2>1. v.phase = "request" /\ v.exchanges < maxSessionRequests
    BY <1>12, Before DEF EndRequest, At
  <2>2. w \in Connection
    <3>1. v.exchanges + 1 \in 0 .. maxSessionRequests
      BY <1>1, <2>1, AdmissionAssumption DEF Connection
    <3>2. QED
      BY <1>1, <3>1 DEF Connection
  <2>3. Onwards(v, w)
    BY <1>1, <2>1 DEF Onwards, Connection
  <2>4. conn' = [conn EXCEPT ![c] = w]
    BY <1>1, <1>12 DEF EndRequest, Connection
  <2>5. QED
    BY <1>3, <2>2, <2>3, <2>4
<1>13. QED
  BY <1>2, <1>5, <1>6, <1>7, <1>8, <1>9, <1>10, <1>11, <1>12 DEF Step

\* An open connection changes only towards its end, whatever other connections,
\* failures and limits do: it is closed after 8 + 2 * maxSessionRequests steps of
\* its goroutine at the latest, and (SlotsAccounted) holds no slot from then on.
ConnectionsAreFinite ==
  /\ [](\A c \in Connections :
          StepsLeft(conn[c]) \in 0 .. 8 + 2 * maxSessionRequests)
  /\ [][\A c \in Connections :
          (conn[c] # Closed /\ conn'[c] # conn[c]) =>
            StepsLeft(conn'[c]) < StepsLeft(conn[c])]_vars

\* The single path through HandleConnection and serveSession's limit on exchanges
\* bound what one connection can cost.
THEOREM ConnectionsProgress == Spec => ConnectionsAreFinite
<1> DEFINE Bounded == \A c \in Connections :
                        StepsLeft(conn[c]) \in 0 .. 8 + 2 * maxSessionRequests
           Shorter == \A c \in Connections :
                        (conn[c] # Closed /\ conn'[c] # conn[c]) =>
                          StepsLeft(conn'[c]) < StepsLeft(conn[c])
<1>1. Correct => Bounded
  BY StepsLeftType
<1>2. Correct /\ [Next]_vars => [Shorter]_vars
  <2> SUFFICES ASSUME Correct, Next, NEW c \in Connections,
                      conn[c] # Closed, conn'[c] # conn[c]
               PROVE  StepsLeft(conn'[c]) < StepsLeft(conn[c])
    OBVIOUS
  <2>1. conn \in [Connections -> Connection \cup {Closed}]
    BY DEF Correct, AdmissionInv, TypeOK
  <2>2. ASSUME NEW d \in Connections, NEW s \in Sources, Accept(d, s)
        PROVE  FALSE
    BY <2>1, <2>2 DEF Accept
  <2>3. ASSUME NEW d \in Connections, Step(d)
        PROVE  StepsLeft(conn'[c]) < StepsLeft(conn[c])
    BY <2>1, <2>3, OwnStepShortens
  <2>4. QED
    BY <2>2, <2>3 DEF Next, Tick
<1> HIDE DEF Bounded, Shorter
<1>3. Spec => []Bounded
  BY <1>1, AlwaysCorrect, PTL
<1>4. Spec => [][Shorter]_vars
  BY <1>2, AlwaysCorrect, PTL DEF Spec
<1>5. QED
  BY <1>3, <1>4 DEF ConnectionsAreFinite, Bounded, Shorter
==============================================================================
