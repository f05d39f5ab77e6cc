--------------------------- MODULE RateLimitProofs ---------------------------
(***************************************************************************)
(* Proofs about RateLimit.  What a bucket holds is at most what its key may *)
(* still be let through for, and at least the time since the key was last  *)
(* let through (or the bucket is full): the first is why the rate is kept,  *)
(* the second why nobody is starved.  Both survive a late reading of the   *)
(* clock, which only moves the bucket's time.                              *)
(***************************************************************************)
EXTENDS RateLimit, FiniteSetTheorems, TLAPS

\* What relates the bucket of a key to its history.
Balanced(b, a) ==
  /\ b.tokens <= a.left + b.updated
  /\ b.tokens >= Capacity \/ b.tokens >= b.updated - a.last

AllBalanced == \A k \in Tracked : Balanced(bucket[k], account[k])

\* A session charges a mailbox only if the request names one.
MailboxNamed ==
  \A s \in Sessions : session[s].step = "mailbox" => session[s].mailbox \in Mailboxes

Inv == TypeOK /\ AllBalanced /\ MailboxNamed

BucketNow == [tokens : 0 .. Capacity, updated : 0 .. clock]

-----------------------------------------------------------------------------
(* A bucket starts with enough for one request, of whatever key. *)
LEMMA CostFits ==
  /\ Capacity \in Nat
  /\ \A k \in Keys : Cost(k) \in Nat \ {0} /\ Cost(k) <= Capacity
<1> DEFINE room == 4 * TokenTime
<1>1. TokenTime \in Nat \ {0} /\ RequestBurst \in Nat \ {0}
  BY RateAssumption
<1>2. room \in Nat /\ TokenTime <= room /\ 4 * TokenTime = room
  BY <1>1
<1>3. PICK more \in Nat : RequestBurst = more + 1
  <2>1. RequestBurst - 1 \in Nat /\ RequestBurst = (RequestBurst - 1) + 1
    BY <1>1
  <2> QED BY <2>1
<1>4. RequestBurst * 4 * TokenTime = RequestBurst * room
  BY <1>1
<1>5. RequestBurst * room = more * room + room
  BY <1>2, <1>3
<1>6. more * room \in Nat
  BY <1>2, <1>3
<1>7. Capacity \in Nat /\ room <= Capacity
  BY <1>2, <1>4, <1>5, <1>6 DEF Capacity
<1> QED BY <1>1, <1>2, <1>7 DEF Cost

(* No bucket is the mark of a missing one. *)
LEMMA UntrackedIsNone ==
  ASSUME clock \in Nat, NEW b \in BucketNow, Capacity \in Nat
  PROVE b # Untracked
<1>1. b \in Bucket
  BY DEF BucketNow, Bucket
<1> QED BY <1>1, RateAssumption

(* One call of allow: the new bucket is of the right type and in balance with
   the new history. *)
LEMMA ChargeKeepsBalance ==
  ASSUME TypeOK, AllBalanced, NEW k \in Keys, NEW now \in 0 .. clock
  PROVE  /\ Charged(k, now) \in BucketNow
         /\ Booked(k, now) \in Account
         /\ Balanced(Charged(k, now), Booked(k, now))
<1> DEFINE c == Capacity
           m == Cost(k)
           f == Found(k, now)
           r == Refilled(k, now)
<1>1. c \in Nat /\ m \in Nat /\ m <= c
  BY CostFits
<1>2. clock \in Nat
  BY DEF TypeOK
<1>3. account[k] \in Account
  BY DEF TypeOK
<1>4. account[k].left \in Int /\ account[k].last \in Nat
  BY <1>3 DEF Account
<1>5. f \in BucketNow
  <2>1. CASE k \in Tracked
    BY <2>1 DEF TypeOK, Tracked, Found, BucketNow
  <2>2. CASE k \notin Tracked
    BY <1>1, <1>2, <2>2 DEF Found, BucketNow
  <2> QED BY <2>1, <2>2
<1>6. f.tokens \in Nat /\ f.tokens <= c /\ f.updated \in Nat /\ f.updated <= clock
  BY <1>1, <1>2, <1>5 DEF BucketNow
<1>7. r \in Nat /\ r <= c
  <2>1. r = IF now > f.updated THEN Least(c, f.tokens + (now - f.updated)) ELSE f.tokens
    BY DEF Refilled
  <2> HIDE DEF c, f, r
  <2> QED BY <1>1, <1>2, <1>6, <2>1 DEF Least
<1>8. /\ r <= f.tokens + (now - f.updated) \/ (now <= f.updated /\ r = f.tokens)
      /\ r = c \/ (now > f.updated /\ r = f.tokens + (now - f.updated))
               \/ (now <= f.updated /\ r = f.tokens)
  <2>1. r = IF now > f.updated THEN Least(c, f.tokens + (now - f.updated)) ELSE f.tokens
    BY DEF Refilled
  <2> HIDE DEF c, f, r
  <2> QED BY <1>1, <1>2, <1>6, <2>1 DEF Least
<1>9. Pass(k, now) <=> r >= m
  BY DEF Pass
<1>10. Charged(k, now) = [tokens |-> r - (IF r >= m THEN m ELSE 0), updated |-> now]
  BY <1>9 DEF Charged, Updated
<1> DEFINE a == IF k \notin Tracked THEN [NoAccount EXCEPT !.left = c - now]
                ELSE IF now >= bucket[k].updated THEN account[k]
                ELSE [account[k] EXCEPT !.left = @ + (bucket[k].updated - now)]
<1>11. Booked(k, now) = IF r >= m THEN [left |-> a.left - m, last |-> clock] ELSE a
  BY <1>9 DEF Booked
<1>12. /\ a \in Account
       /\ a.left \in Int /\ a.last \in Nat
       /\ r <= a.left + now
       /\ r >= c \/ r >= now - a.last
  <2>1. CASE k \notin Tracked
    <3>1. f = [tokens |-> c, updated |-> now]
      BY <2>1 DEF Found
    <3>2. a = [left |-> c - now, last |-> 0]
      BY <2>1 DEF NoAccount
    <3>3. c - now \in Int
      BY <1>1, <1>2
    <3>4. a \in Account
      BY <3>2, <3>3 DEF Account
    <3>5. r = c
      BY <1>1, <1>2, <1>8, <3>1
    <3> HIDE DEF c, r, f
    <3> QED BY <1>1, <1>2, <3>2, <3>3, <3>4, <3>5
  <2>2. CASE k \in Tracked /\ now >= bucket[k].updated
    <3>1. f = bucket[k] /\ a = account[k]
      BY <2>2 DEF Found
    <3>2. f.tokens <= a.left + f.updated /\ (f.tokens >= c \/ f.tokens >= f.updated - a.last)
      BY <2>2, <3>1 DEF AllBalanced, Balanced
    <3>3. a.left \in Int /\ a.last \in Nat /\ a \in Account
      BY <1>3, <1>4, <3>1
    <3>4. now >= f.updated
      BY <2>2, <3>1
    <3> HIDE DEF c, r, f, a
    <3> QED BY <1>1, <1>2, <1>6, <1>7, <1>8, <3>2, <3>3, <3>4
  <2>3. CASE k \in Tracked /\ ~(now >= bucket[k].updated)
    <3>1. f = bucket[k] /\ a = [account[k] EXCEPT !.left = @ + (f.updated - now)]
      BY <2>3 DEF Found
    <3>2. /\ f.tokens <= account[k].left + f.updated
          /\ f.tokens >= c \/ f.tokens >= f.updated - account[k].last
      BY <2>3, <3>1 DEF AllBalanced, Balanced
    <3>3. now < f.updated
      BY <1>2, <1>6, <2>3, <3>1
    <3>4. a = [left |-> account[k].left + (f.updated - now), last |-> account[k].last]
      <4> HIDE DEF f, a
      <4> QED BY <1>3, <3>1 DEF Account
    <3>5. account[k].left + (f.updated - now) \in Int
      <4> HIDE DEF f, a
      <4> QED BY <1>2, <1>4, <1>6
    <3>6. a \in Account
      <4> HIDE DEF f, a
      <4> QED BY <1>4, <3>4, <3>5 DEF Account
    <3>7. a.left = account[k].left + (f.updated - now) /\ a.last = account[k].last
      <4> HIDE DEF f, a
      <4> QED BY <3>4
    <3>8. r = f.tokens
      <4> HIDE DEF c, r, f, a
      <4> QED BY <1>1, <1>2, <1>6, <1>7, <1>8, <3>2, <3>3
    <3> HIDE DEF c, r, f, a
    <3> QED BY <1>1, <1>2, <1>4, <1>6, <3>2, <3>3, <3>5, <3>6, <3>7, <3>8
  <2> QED BY <2>1, <2>2, <2>3
<1> HIDE DEF c, m, f, r, a
<1>13. CASE r >= m
  <2>1. Charged(k, now) = [tokens |-> r - m, updated |-> now]
    BY <1>1, <1>7, <1>10, <1>13
  <2>2. Booked(k, now) = [left |-> a.left - m, last |-> clock]
    BY <1>11, <1>13
  <2>3. r - m \in 0 .. c /\ now \in 0 .. clock /\ a.left - m \in Int
    BY <1>1, <1>2, <1>7, <1>12, <1>13
  <2>4. Charged(k, now) \in BucketNow
    BY <2>1, <2>3 DEF BucketNow, c
  <2>5. Booked(k, now) \in Account
    BY <1>2, <2>2, <2>3 DEF Account
  <2>6. r - m <= (a.left - m) + now /\ r - m >= now - clock
    BY <1>1, <1>2, <1>7, <1>12, <1>13
  <2>7. Balanced(Charged(k, now), Booked(k, now))
    BY <2>1, <2>2, <2>6 DEF Balanced
  <2> QED BY <2>4, <2>5, <2>7
<1>14. CASE ~(r >= m)
  <2>1. Charged(k, now) = [tokens |-> r, updated |-> now]
    BY <1>1, <1>7, <1>10, <1>14
  <2>2. Booked(k, now) = a
    BY <1>11, <1>14
  <2>3. Charged(k, now) \in BucketNow
    BY <1>1, <1>2, <1>7, <2>1 DEF BucketNow, c
  <2>4. Balanced(Charged(k, now), Booked(k, now))
    BY <1>12, <2>1, <2>2 DEF Balanced, c
  <2> QED BY <1>12, <2>2, <2>3, <2>4
<1> QED BY <1>13, <1>14

-----------------------------------------------------------------------------
(* What the three calls have in common: a session moves on, or starts again. *)
LEMMA ChargeKeepsInv ==
  ASSUME Inv, NEW s \in Sessions, NEW k \in Keys,
         NEW next \in {"source", "mailbox", "handled"},
         next = "mailbox" => session[s].mailbox \in Mailboxes,
         Charge(s, k, next)
  PROVE  Inv'
<1> DEFINE now == session[s].now
<1>1. now \in 0 .. clock
  BY DEF Inv, TypeOK, Request
<1>2. /\ Charged(k, now) \in BucketNow
      /\ Booked(k, now) \in Account
      /\ Balanced(Charged(k, now), Booked(k, now))
  BY <1>1, ChargeKeepsBalance DEF Inv
<1>3. PICK dropped \in Evicted(k) :
       /\ bucket' = [j \in Keys |->
            IF j = k THEN Charged(k, now)
            ELSE IF j \in dropped THEN Untracked ELSE bucket[j]]
       /\ account' = [j \in Keys |->
            IF j = k THEN Booked(k, now)
            ELSE IF j \in dropped THEN NoAccount ELSE account[j]]
  BY DEF Charge
<1>4. session' = [session EXCEPT
        ![s] = IF Pass(k, now) THEN [@ EXCEPT !.step = next] ELSE Idle] /\ clock' = clock
  BY DEF Charge
<1>5. clock \in Nat /\ clock' = clock
  BY <1>4 DEF Inv, TypeOK
<1>6. bucket' \in [Keys -> BucketNow \cup {Untracked}]
  BY <1>2, <1>3 DEF Inv, TypeOK, BucketNow
<1>7. account' \in [Keys -> Account]
  <2>1. NoAccount \in Account
    BY DEF NoAccount, Account
  <2> QED BY <1>2, <1>3, <2>1 DEF Inv, TypeOK
<1>8. session[s] \in Request /\ Idle \in Request
  BY DEF Inv, TypeOK, Idle, Request
<1>9. [session[s] EXCEPT !.step = next] \in Request
  BY <1>8 DEF Request
<1>10. session' \in [Sessions -> Request]
  BY <1>4, <1>8, <1>9 DEF Inv, TypeOK
<1>11. \A t \in Sessions : session'[t].now <= clock'
  <2> SUFFICES ASSUME NEW t \in Sessions PROVE session'[t].now <= clock
    BY <1>5
  <2>1. session[s].now \in Nat /\ session[s].now <= clock
    BY <1>8 DEF Inv, TypeOK, Request
  <2>2. [session[s] EXCEPT !.step = next].now = session[s].now
    BY <1>8 DEF Request
  <2>3. Idle.now <= clock
    BY <1>5 DEF Idle
  <2>4. CASE t = s
    BY <1>4, <2>1, <2>2, <2>3, <2>4 DEF Inv, TypeOK
  <2>5. CASE t # s
    BY <1>4, <2>5 DEF Inv, TypeOK
  <2> QED BY <2>4, <2>5
<1>12. MailboxNamed'
  <2> SUFFICES ASSUME NEW t \in Sessions, session'[t].step = "mailbox"
               PROVE session'[t].mailbox \in Mailboxes
    BY DEF MailboxNamed
  <2>1. CASE t = s /\ Pass(k, now)
    <3>1. session'[t] = [session[s] EXCEPT !.step = next]
      BY <1>4, <2>1 DEF Inv, TypeOK
    <3>2. session'[t].step = next /\ session'[t].mailbox = session[s].mailbox
      BY <1>8, <3>1 DEF Request
    <3> QED BY <3>2
  <2>2. CASE t = s /\ ~Pass(k, now)
    BY <1>4, <2>2 DEF Inv, TypeOK, Idle
  <2>3. CASE t # s
    BY <1>4, <2>3 DEF Inv, TypeOK, MailboxNamed
  <2> QED BY <2>1, <2>2, <2>3
<1>13. Charged(k, now) # Untracked
  BY <1>2, <1>5, UntrackedIsNone, CostFits
<1>14. Tracked' = (Tracked \ dropped) \cup {k}
  <2>1. \A j \in Keys : bucket'[j] # Untracked <=> j = k \/ (j \notin dropped /\ bucket[j] # Untracked)
    BY <1>3, <1>13
  <2> QED BY <2>1 DEF Tracked
<1>15. IsFiniteSet(Tracked) /\ Cardinality(Tracked) \in Nat /\ Cardinality(Tracked) <= MaxTracked
  <2>1. Tracked \subseteq Keys /\ IsFiniteSet(Keys)
    BY RateAssumption DEF Tracked
  <2> QED BY <2>1, FS_Subset, FS_CardinalityType DEF Inv, TypeOK
<1>16. Cardinality(Tracked') <= MaxTracked
  <2>1. CASE k \in Tracked
    <3>1. dropped = {}
      BY <1>3, <2>1 DEF Evicted
    <3>2. Tracked' = Tracked
      BY <1>14, <2>1, <3>1
    <3> QED BY <1>15, <3>2
  <2>2. CASE k \notin Tracked /\ Cardinality(Tracked) < MaxTracked
    <3>1. dropped = {}
      BY <1>3, <2>2 DEF Evicted
    <3>2. Tracked' = Tracked \cup {k}
      BY <1>14, <3>1
    <3>3. Cardinality(Tracked') = Cardinality(Tracked) + 1
      BY <1>15, <2>2, <3>2, FS_AddElement
    <3> QED BY <1>15, <2>2, <3>3, RateAssumption
  <2>3. CASE k \notin Tracked /\ ~(Cardinality(Tracked) < MaxTracked)
    <3>1. PICK old \in Tracked : dropped = {old}
      BY <1>3, <2>3 DEF Evicted
    <3>2. IsFiniteSet(Tracked \ {old}) /\ Cardinality(Tracked \ {old}) = Cardinality(Tracked) - 1
      BY <1>15, <3>1, FS_RemoveElement
    <3>3. k \notin Tracked \ {old}
      BY <2>3
    <3>4. Cardinality(Tracked') = Cardinality(Tracked \ {old}) + 1
      BY <1>14, <3>1, <3>2, <3>3, FS_AddElement
    <3> QED BY <1>15, <3>2, <3>4, RateAssumption
  <2> QED BY <2>1, <2>2, <2>3
<1>17. TypeOK'
  BY <1>5, <1>6, <1>7, <1>10, <1>11, <1>16 DEF TypeOK, BucketNow
<1>18. AllBalanced'
  <2> SUFFICES ASSUME NEW j \in Tracked' PROVE Balanced(bucket'[j], account'[j])
    BY DEF AllBalanced, Balanced
  <2>1. CASE j = k
    BY <1>2, <1>3, <2>1
  <2>2. CASE j # k
    <3>1. j \in Tracked /\ j \notin dropped /\ j \in Keys
      BY <1>14, <2>2 DEF Tracked
    <3>2. bucket'[j] = bucket[j] /\ account'[j] = account[j]
      BY <1>3, <2>2, <3>1
    <3> QED BY <3>1, <3>2 DEF Inv, AllBalanced
  <2> QED BY <2>1, <2>2
<1> QED BY <1>12, <1>17, <1>18 DEF Inv

-----------------------------------------------------------------------------
LEMMA InvInit == Init => Inv
<1> SUFFICES ASSUME Init PROVE Inv
  OBVIOUS
<1>1. Tracked = {}
  BY DEF Init, Tracked
<1>2. Cardinality(Tracked) = 0
  BY <1>1, FS_EmptySet
<1>3. Idle \in Request /\ NoAccount \in Account /\ Idle.now = 0 /\ Idle.step = "idle"
  BY DEF Idle, Request, NoAccount, Account
<1>4. TypeOK
  BY <1>2, <1>3, RateAssumption DEF Init, TypeOK
<1>5. MailboxNamed
  BY <1>3 DEF Init, MailboxNamed
<1> QED BY <1>1, <1>4, <1>5 DEF Inv, AllBalanced

LEMMA TickInv == Inv /\ Tick => Inv'
<1> SUFFICES ASSUME Inv, Tick PROVE Inv'
  OBVIOUS
<1>1. clock \in Nat /\ clock' = clock + 1 /\ bucket' = bucket /\ session' = session
      /\ account' = account
  BY DEF Tick, Inv, TypeOK
<1>2. Tracked' = Tracked
  BY <1>1 DEF Tracked
<1>3. 0 .. clock \subseteq 0 .. clock'
  BY <1>1
<1>4. bucket' \in [Keys -> [tokens : 0 .. Capacity, updated : 0 .. clock'] \cup {Untracked}]
  BY <1>1, <1>3 DEF Inv, TypeOK
<1>5. \A s \in Sessions : session'[s].now <= clock'
  <2> SUFFICES ASSUME NEW s \in Sessions PROVE session'[s].now <= clock'
    OBVIOUS
  <2>1. session[s].now \in Nat /\ session[s].now <= clock
    BY DEF Inv, TypeOK, Request
  <2> QED BY <1>1, <2>1
<1>6. TypeOK'
  BY <1>1, <1>2, <1>4, <1>5 DEF Inv, TypeOK
<1>7. AllBalanced'
  BY <1>1, <1>2 DEF Inv, AllBalanced, Balanced
<1>8. MailboxNamed'
  BY <1>1 DEF Inv, MailboxNamed
<1> QED BY <1>6, <1>7, <1>8 DEF Inv

(* A session that only moves on keeps everything else. *)
LEMMA SessionInv ==
  ASSUME Inv, NEW s \in Sessions, NEW q \in Request,
         q.now <= clock, q.step # "mailbox",
         session' = [session EXCEPT ![s] = q],
         UNCHANGED <<clock, bucket, account>>
  PROVE  Inv'
<1>1. Tracked' = Tracked
  BY DEF Tracked
<1>2. session' \in [Sessions -> Request]
  BY DEF Inv, TypeOK
<1>3. \A t \in Sessions : session'[t].now <= clock'
  BY DEF Inv, TypeOK
<1>4. TypeOK'
  BY <1>1, <1>2, <1>3 DEF Inv, TypeOK
<1>5. AllBalanced'
  BY <1>1 DEF Inv, AllBalanced, Balanced
<1>6. MailboxNamed'
  BY DEF Inv, TypeOK, MailboxNamed
<1> QED BY <1>4, <1>5, <1>6 DEF Inv

LEMMA StepInv == Inv /\ [Next]_vars => Inv'
<1> SUFFICES ASSUME Inv, [Next]_vars PROVE Inv'
  OBVIOUS
<1>1. CASE Tick
  BY <1>1, TickInv
<1>2. ASSUME NEW s \in Sessions, NEW mailbox \in Mailboxes \cup {NoMailbox}, Dispatch(s, mailbox)
      PROVE Inv'
  <2> DEFINE q == [step |-> "identity", now |-> clock, mailbox |-> mailbox]
  <2>1. q \in Request /\ q.now <= clock /\ q.step # "mailbox"
    BY DEF Request, Inv, TypeOK
  <2>2. session' = [session EXCEPT ![s] = q] /\ UNCHANGED <<clock, bucket, account>>
    BY <1>2 DEF Dispatch
  <2> HIDE DEF q
  <2> QED BY <2>1, <2>2, SessionInv
<1>3. ASSUME NEW s \in Sessions, ChargeIdentity(s) PROVE Inv'
  <2>1. IdentityOf[s] \in Keys
    BY RateAssumption DEF Keys
  <2> QED BY <1>3, <2>1, ChargeKeepsInv DEF ChargeIdentity
<1>4. ASSUME NEW s \in Sessions, ChargeSource(s) PROVE Inv'
  <2> DEFINE next == IF session[s].mailbox = NoMailbox THEN "handled" ELSE "mailbox"
  <2>1. SourceOf[s] \in Keys
    BY RateAssumption DEF Keys
  <2>2. session[s].mailbox \in Mailboxes \cup {NoMailbox}
    BY DEF Inv, TypeOK, Request
  <2>3. next \in {"source", "mailbox", "handled"}
        /\ (next = "mailbox" => session[s].mailbox \in Mailboxes)
    BY <2>2
  <2>4. Charge(s, SourceOf[s], next)
    BY <1>4 DEF ChargeSource
  <2> HIDE DEF next
  <2> QED BY <2>1, <2>3, <2>4, ChargeKeepsInv
<1>5. ASSUME NEW s \in Sessions, ChargeMailbox(s) PROVE Inv'
  <2>1. session[s].mailbox \in Keys
    BY <1>5, RateAssumption DEF ChargeMailbox, Inv, MailboxNamed, Keys
  <2> QED BY <1>5, <2>1, ChargeKeepsInv DEF ChargeMailbox
<1>6. ASSUME NEW s \in Sessions, Handle(s) PROVE Inv'
  <2>1. Idle \in Request /\ Idle.now <= clock /\ Idle.step # "mailbox"
    BY DEF Idle, Request, Inv, TypeOK
  <2> QED BY <1>6, <2>1, SessionInv DEF Handle
<1>7. CASE UNCHANGED vars
  <2>1. clock' = clock /\ bucket' = bucket /\ session' = session /\ account' = account
    BY <1>7 DEF vars
  <2>2. Tracked' = Tracked
    BY <2>1 DEF Tracked
  <2> QED BY <2>1, <2>2 DEF Inv, TypeOK, AllBalanced, Balanced, MailboxNamed
<1> QED BY <1>1, <1>2, <1>3, <1>4, <1>5, <1>6, <1>7 DEF Next

LEMMA Invariance == Spec => []Inv
<1>1. Init => Inv
  BY InvInit
<1>2. Inv /\ [Next]_vars => Inv'
  BY StepInv
<1> QED BY <1>1, <1>2, PTL DEF Spec

-----------------------------------------------------------------------------
(* requestLimiter: no bucket holds more than its burst, and the map of buckets
   never outgrows its limit. *)
THEOREM TypeCorrect == Spec => []TypeOK
<1>1. Inv => TypeOK
  BY DEF Inv
<1> QED BY <1>1, Invariance, PTL

(* requestLimiter.allowWithLimits: a key is let through for no more than the
   burst, the time that passed and the time by which late calls moved its bucket
   backwards. *)
THEOREM RateKept == Spec => []RateIsKept
<1>1. Inv => RateIsKept
  <2> SUFFICES ASSUME Inv, NEW k \in Tracked PROVE account[k].left + clock >= 0
    BY DEF RateIsKept
  <2>1. k \in Keys /\ bucket[k] \in BucketNow
    BY DEF Tracked, Inv, TypeOK, BucketNow
  <2>2. bucket[k].tokens \in 0 .. Capacity /\ bucket[k].updated \in 0 .. clock
    BY <2>1 DEF BucketNow
  <2>3. account[k].left \in Int /\ clock \in Nat
    BY <2>1 DEF Inv, TypeOK, Account
  <2>4. bucket[k].tokens <= account[k].left + bucket[k].updated
    BY DEF Inv, AllBalanced, Balanced
  <2> QED BY <2>2, <2>3, <2>4, CostFits
<1> QED BY <1>1, Invariance, PTL

(* requestLimiter.allowWithLimits: whoever was let through nothing for the time of
   one token is let through, whatever was refused in between. *)
THEOREM NotStarved == Spec => []NoneIsStarved
<1>1. Inv => NoneIsStarved
  <2> SUFFICES ASSUME Inv, NEW s \in Sessions,
                      session[s].step \in {"identity", "source", "mailbox"}
               PROVE  \/ Pass(KeyOf(s), session[s].now)
                      \/ session[s].now - account[KeyOf(s)].last < Cost(KeyOf(s))
    BY DEF NoneIsStarved
  <2> DEFINE k == KeyOf(s)
             now == session[s].now
             c == Capacity
             m == Cost(k)
             f == Found(k, now)
             r == Refilled(k, now)
  <2>1. k \in Keys
    <3>1. CASE session[s].step = "identity"
      BY <3>1, RateAssumption DEF KeyOf, Keys
    <3>2. CASE session[s].step = "source"
      BY <3>2, RateAssumption DEF KeyOf, Keys
    <3>3. CASE session[s].step = "mailbox"
      BY <3>3, RateAssumption DEF KeyOf, Keys, Inv, MailboxNamed
    <3> QED BY <3>1, <3>2, <3>3
  <2>2. now \in Nat /\ now <= clock /\ clock \in Nat
    BY DEF Inv, TypeOK, Request
  <2>3. c \in Nat /\ m \in Nat /\ m <= c
    BY <2>1, CostFits
  <2>4. Pass(k, now) <=> r >= m
    BY DEF Pass
  <2>5. r = IF now > f.updated THEN Least(c, f.tokens + (now - f.updated)) ELSE f.tokens
    BY DEF Refilled
  <2>6. account[k].last \in Nat
    BY <2>1 DEF Inv, TypeOK, Account
  <2>7. CASE k \notin Tracked
    <3>1. f = [tokens |-> c, updated |-> now]
      BY <2>7 DEF Found
    <3>2. r = c
      BY <2>2, <2>5, <3>1
    <3> HIDE DEF k, now, c, m, f, r
    <3>3. Pass(k, now)
      BY <2>3, <2>4, <3>2
    <3> QED BY <3>3 DEF k, now
  <2>8. CASE k \in Tracked
    <3>1. f = bucket[k] /\ bucket[k] \in BucketNow
      BY <2>1, <2>8 DEF Found, Tracked, Inv, TypeOK, BucketNow
    <3>2. f.tokens \in Nat /\ f.updated \in Nat
      BY <2>2, <2>3, <3>1 DEF BucketNow
    <3>3. f.tokens >= c \/ f.tokens >= f.updated - account[k].last
      BY <2>8, <3>1 DEF Inv, AllBalanced, Balanced
    <3> HIDE DEF k, now, c, m, f, r
    <3>4. r >= m \/ now - account[k].last < m
      BY <2>2, <2>3, <2>5, <2>6, <3>2, <3>3 DEF Least
    <3>5. Pass(k, now) \/ now - account[k].last < m
      BY <2>4, <3>4
    <3> QED BY <3>5 DEF k, now, m
  <2> QED BY <2>7, <2>8
<1> QED BY <1>1, Invariance, PTL
==============================================================================
