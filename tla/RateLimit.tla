------------------------------- MODULE RateLimit -------------------------------
(***************************************************************************)
(* The rate limit of requests: dispatchRequest reads the clock once and    *)
(* then charges the bucket of the peer's identity, of its address and of   *)
(* the mailbox it asks for (requestLimiter.allow), each under the lock but *)
(* one lock at a time: another session may be served in between, with a    *)
(* later reading of the clock.                                             *)
(*                                                                         *)
(* Tokens are counted in the time that refills them: every bucket gains 1  *)
(* in a tick, and a request costs an address a quarter of what it costs an *)
(* identity or a mailbox (four times the rate and four times the burst).   *)
(* updated and lastSeen of a bucket are always equal: one field here.      *)
(***************************************************************************)
EXTENDS Integers, FiniteSets

CONSTANTS
  Sessions,
  Sources,        \* keys of addresses
  OtherKeys,      \* keys of identities and mailboxes
  IdentityOf,     \* of each session
  SourceOf,
  Mailboxes,      \* the keys of mailboxes
  NoMailbox,      \* a request about no mailbox
  Untracked,      \* a key without a bucket
  TokenTime,      \* ticks in which a source gains a token
  RequestBurst,
  MaxTracked,     \* maxTrackedIdentities
  MaxClock        \* bound on the time

VARIABLES
  clock,
  bucket,
  session,   \* the request each session is at
  account    \* history: of each bucket since it was made

vars == <<clock, bucket, session, account>>

Keys == Sources \cup OtherKeys
Cost(k) == IF k \in Sources THEN TokenTime ELSE 4 * TokenTime
Capacity == RequestBurst * 4 * TokenTime
Least(a, b) == IF a <= b THEN a ELSE b

Bucket == [tokens : Nat, updated : Nat]
Request ==
  [step : {"idle", "identity", "source", "mailbox", "handled"},
   now : Nat, mailbox : Mailboxes \cup {NoMailbox}]

\* left is what the key may still be let through for, but for the time that has
\* passed: the burst, less the time at which the bucket was made, less what was
\* spent, and the time by which late calls moved the bucket backwards (it refills
\* twice).  last is when the key was last let through.
Account == [left : Int, last : Nat]

ASSUME RateAssumption ==
  /\ TokenTime \in Nat \ {0}
  /\ RequestBurst \in Nat \ {0}
  /\ MaxTracked \in Nat \ {0}
  /\ MaxClock \in Nat
  /\ IsFiniteSet(Keys)
  /\ Sources \cap OtherKeys = {}
  /\ Mailboxes \subseteq OtherKeys /\ NoMailbox \notin Mailboxes
  /\ IdentityOf \in [Sessions -> OtherKeys]
  /\ SourceOf \in [Sessions -> Sources]
  /\ Untracked \notin Bucket

-----------------------------------------------------------------------------
Idle == [step |-> "idle", now |-> 0, mailbox |-> NoMailbox]
NoAccount == [left |-> 0, last |-> 0]

Init ==
  /\ clock = 0
  /\ bucket = [k \in Keys |-> Untracked]
  /\ session = [s \in Sessions |-> Idle]
  /\ account = [k \in Keys |-> NoAccount]

Tick ==
  /\ clock < MaxClock
  /\ clock' = clock + 1
  /\ UNCHANGED <<bucket, session, account>>

\* dispatchRequest: now := time.Now()
Dispatch(s, mailbox) ==
  /\ session[s].step = "idle"
  /\ session' = [session EXCEPT
       ![s] = [step |-> "identity", now |-> clock, mailbox |-> mailbox]]
  /\ UNCHANGED <<clock, bucket, account>>

Tracked == {k \in Keys : bucket[k] # Untracked}

\* evictOldest: what is dropped for the bucket of k; of several that are the
\* oldest, the order of the map decides.
Evicted(k) ==
  IF k \in Tracked \/ Cardinality(Tracked) < MaxTracked THEN {{}}
  ELSE {{old} : old \in {j \in Tracked :
          \A i \in Tracked : bucket[j].updated <= bucket[i].updated}}

Found(k, now) ==
  IF k \in Tracked THEN bucket[k] ELSE [tokens |-> Capacity, updated |-> now]

\* Mutant: a bucket is refilled by whole tokens.
RefilledInTokens(k, now) ==
  LET b == Found(k, now)
      gain == ((now - b.updated) \div Cost(k)) * Cost(k)
  IN IF now > b.updated THEN Least(Capacity, b.tokens + gain) ELSE b.tokens

\* Mutant: nothing limits what a quiet key saves up.
RefilledWithoutEnd(k, now) ==
  LET b == Found(k, now)
  IN IF now > b.updated THEN b.tokens + (now - b.updated) ELSE b.tokens

\* A reading of the clock older than the bucket refills nothing.
Refilled(k, now) ==
  LET b == Found(k, now)
  IN IF now > b.updated THEN Least(Capacity, b.tokens + (now - b.updated))
     ELSE b.tokens

Pass(k, now) == Refilled(k, now) >= Cost(k)

\* Mutant: only a request that is let through sets the time of the bucket.
UpdatedByPass(k, now) == IF Pass(k, now) THEN now ELSE Found(k, now).updated

\* Also when that moves it backwards.
Updated(k, now) == now

Charged(k, now) ==
  [tokens |-> Refilled(k, now) - (IF Pass(k, now) THEN Cost(k) ELSE 0),
   updated |-> Updated(k, now)]

Booked(k, now) ==
  LET a == IF k \notin Tracked THEN [NoAccount EXCEPT !.left = Capacity - now]
           ELSE IF now >= bucket[k].updated THEN account[k]
           ELSE [account[k] EXCEPT !.left = @ + (bucket[k].updated - now)]
  IN IF Pass(k, now) THEN [left |-> a.left - Cost(k), last |-> clock] ELSE a

\* requestLimiter.allow; a refusal ends the session, another one takes its place.
Charge(s, k, next) ==
  LET now == session[s].now IN
  /\ \E dropped \in Evicted(k) :
       /\ bucket' = [j \in Keys |->
            IF j = k THEN Charged(k, now)
            ELSE IF j \in dropped THEN Untracked ELSE bucket[j]]
       /\ account' = [j \in Keys |->
            IF j = k THEN Booked(k, now)
            ELSE IF j \in dropped THEN NoAccount ELSE account[j]]
  /\ session' = [session EXCEPT
       ![s] = IF Pass(k, now) THEN [@ EXCEPT !.step = next] ELSE Idle]
  /\ UNCHANGED clock

ChargeIdentity(s) ==
  /\ session[s].step = "identity"
  /\ Charge(s, IdentityOf[s], "source")

ChargeSource(s) ==
  /\ session[s].step = "source"
  /\ Charge(s, SourceOf[s],
            IF session[s].mailbox = NoMailbox THEN "handled" ELSE "mailbox")

ChargeMailbox(s) ==
  /\ session[s].step = "mailbox"
  /\ Charge(s, session[s].mailbox, "handled")

\* The handler of the request, whatever it does; the next request follows.
Handle(s) ==
  /\ session[s].step = "handled"
  /\ session' = [session EXCEPT ![s] = Idle]
  /\ UNCHANGED <<clock, bucket, account>>

Next ==
  \/ Tick
  \/ \E s \in Sessions :
       \/ \E mailbox \in Mailboxes \cup {NoMailbox} : Dispatch(s, mailbox)
       \/ ChargeIdentity(s)
       \/ ChargeSource(s)
       \/ ChargeMailbox(s)
       \/ Handle(s)

Spec == Init /\ [][Next]_vars

-----------------------------------------------------------------------------
(***************************************************************************)
(* Properties                                                              *)
(***************************************************************************)

\* The types; no bucket holds more than its burst, none was updated in the
\* future, and no more of them are kept than the limit says.
TypeOK ==
  /\ clock \in Nat
  /\ bucket \in [Keys -> [tokens : 0 .. Capacity, updated : 0 .. clock] \cup {Untracked}]
  /\ session \in [Sessions -> Request]
  /\ \A s \in Sessions : session[s].now <= clock
  /\ account \in [Keys -> Account]
  /\ Cardinality(Tracked) <= MaxTracked

\* As long as a bucket is kept, its key is let through for no more than the
\* burst, the time since it was made and the time by which late calls moved it
\* backwards: however the sessions that share the key overtake each other between
\* the clock and the lock.
RateIsKept == \A k \in Tracked : account[k].left + clock >= 0

\* What session s is about to charge.
KeyOf(s) ==
  CASE session[s].step = "identity" -> IdentityOf[s]
    [] session[s].step = "source"   -> SourceOf[s]
    [] OTHER                        -> session[s].mailbox

\* Nobody is refused who was let through nothing for the time of one token: the
\* refused requests in between cost nothing, nor do the late ones of others.
NoneIsStarved ==
  \A s \in Sessions :
    session[s].step \in {"identity", "source", "mailbox"} =>
      \/ Pass(KeyOf(s), session[s].now)
      \/ session[s].now - account[KeyOf(s)].last < Cost(KeyOf(s))
==============================================================================
