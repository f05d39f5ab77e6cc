# Formal models of InkMail

InkMail sends signed, encrypted messages between peers.  A peer that cannot be
reached directly is sent its mail through *Daddies*: nodes that hold encrypted
envelopes for opaque mailbox IDs until the mailbox's owner collects them.  Every
node runs the same daemon (`inkmaild`) and so may be a Daddy; a user works with
the interactive client (`inkmail`) on the same SQLite database.

This directory models the parts of that system that are hard to test: what
concurrent sessions, processes, crashes and lost answers do to the tables, and
what sender and recipient may conclude from what they are told.

## 1. Inventory

| Component | State | Operations | Interacts through | Hard about it | What makes it correct |
|---|---|---|---|---|---|
| Envelope storage (`database/mailbox_privacy.go`) | `opaque_held_messages`, `opaque_envelope_dedup`, `opaque_replay_backfill_v1` | hold, deliver (delete), expire, backfill | transactions on one connection | clock read before the wait for the connection; crashes; old databases | replay guard, quotas, nothing lost before its expiry |
| Daddy's sessions (`network/daddy.go`, `protocol.go`, `messaging.go`) | session scope and fetched IDs, `mailbox_owners`, `mailbox_routes`, forwarder slots | REGISTER_ROUTE, HOLD, GHOST_FORWARD, FETCH, DELIVERY_ACK, background forward, cleanup | storage, other nodes | requests in any order; forwarders race fetches; restart | owner only, removed only when handed over, slots accounted for |
| Mail flow (`network/daddy.go`, `failover.go`, `retry.go`, `opaque_mailbox.go`, `cmd/inkmail/main.go`) | `messages`, `opaque_mailbox_outbox`, envelopes at each Daddy | compose, send, retry, hold, collect, receipt, delete | CLI and daemon share a database; Daddies | lost answers, duplicates, kills between steps, dead Daddies | statuses tell the truth, "delivered" is final, mail and receipts arrive |
| Admission (`network/listener.go`, `messaging.go`, `dial.go`) | connection, handshake and request counters, failed handshakes | accept, throttle, handshake, request, release | goroutines and mutexes | every way to end must return its slots | slots accounted for, limits hold, connections end |
| Request rates (`listener.go` 269-323) | token bucket per identity, address and mailbox | allow, evict | one mutex, taken three times per request | clock read once, outside the lock; eviction | no more than burst plus rate; nobody starved |
| Routes and daemon loop (`daddy.go` 634-774, 1101-1246, `database.go` 1248-1556) | `peer_routes`, `mailbox_routes`, time of the next refresh | register, look up, refresh | Daddies | cached answers, lapse of routes | a reachable node has a live route |
| Ghost forwarding (`ghost.go`) | hops left in the request | forward, hold | relays | cycles | bounded, ends in delivery or an answer |
| Handshake and frames (`handshake.go`, `dial.go`, `frame.go`) | session keys, nonce counters | HELLO, HELLO_ACK, frames | network | nonce reuse | both sides derive the same keys |
| Message formats (`message/`) | none | sign, verify, encrypt, wrap, pad | | cryptography | |
| Identity files (`identity/`) | key files, namespace | load or create | file system, daemon and CLI | crash or second process on first launch | one identity per directory, for good |
| Schema migration (`database.go` 115-390) | tables and columns, `node_meta` | init, migrate, draw a mailbox address | daemon and CLI | statements commit one by one; two processes; old releases | nobody runs on half a schema; one address |
| Peers and aliases (`database/peers*.go`, `cmd/inkmail/peers*.go`) | `peer_identities` | add, remove, alias, resolve, record at a handshake | CLIs and daemon | checks outside a transaction; handshakes that overwrite | a name reaches its peer; handshakes take nothing away |
| Relay configuration (`relays.go`) | none | parse, order, select | | order and duplicates | every relay once |
| Limits, metrics, scripts | configuration | | | | |

## 2. Plan

Modules in the order in which they were written, the most important behaviour
first.

1. **EnvelopePromise, HeldStore, HeldStoreProofs** -- a Daddy's tables and what
   they promise about an envelope.
2. **Daddy, DaddyProofs** -- the sessions, registrations and forwarders over
   HeldStore.
3. **MailPromise, MailFlow, MailFlowProofs** -- what a sender is promised, and
   sender, Daddies and recipient from end to end, over what HeldStore promises.  One
   finding.
4. **Admission, AdmissionProofs** -- connections, handshakes, requests.
5. **Routes, RoutesProofs** -- the daemon's loop and the routes it registers,
   `mailbox_routes` as a Daddy's registrations and as a node's cache of looked-up
   routes (`SetMailboxRoute`), and `peer_routes`.  One finding.
6. **Launch, LaunchProofs** -- daemon and CLI starting on one data directory:
   identity files, migration, mailbox address, crashes.  One finding.
7. **Contacts, ContactsProofs** -- peers and their names, and the queue of messages
   that wait for them.
8. **RateLimit, RateLimitProofs** -- the token buckets, with clock readings taken
   before the lock.

Daddy composes HeldStore (it extends it, with sessions as its callers); HeldStore
implements EnvelopePromise, and so does Daddy; MailFlow implements MailPromise.  The others are separate: what they assume of each other
is said in section 3.

What is left and worth doing: the order and size of a fetched batch, with a
recipient that rejects; the proof that MailFlow's Daddies are what EnvelopePromise
says of one envelope; for Routes, a variant of the loop like those of Admission and
Launch.

## 3. What is modelled

### HeldStore (and EnvelopePromise)

`held` and `dedup` are the two tables as sets of rows.  `StoreOpaqueHeldMessageForUser`
is three steps: `BeginHold` (checks, and the reading of the clock at
`mailbox_privacy.go:134`), `CommitHold` (one transaction, with any reading taken
since the checks), and `Return`; `FailHold` is a database error.  `Delete`,
`Expire`, `Open` (with the backfill of an old version's rows) and `Crash` are one
step each, as each is one transaction.  A row of `dedup` has the columns that the
code stores hashed; the hash is taken to be injective.  `stored_at`, which only
orders fetches, is left out.  Payload sizes are real: `Bytes` counts octets, so
that the byte quotas are modelled and not only the counts.

`EnvelopePromise` is the abstract view: each ID is free, held or spent; held
entries keep their content; IDs are forgotten only after their expiry.
`PromiseKept` is the refinement: the replay record says whether an ID is known,
the held row whether it is still to be delivered.

### Daddy

`Daddy` extends HeldStore.  `Callers` are now sessions, so that a HOLD in
progress is the call of its session.  `session[s].mailbox` and `.fetched` are
`MailboxID` and `fetchedMessages` of `Session`; `owner` and `route` are
`mailbox_owners` and `mailbox_routes`; `forward` and `active` are the goroutines
and counters of `scheduleRelayHeldMessage`.  `GhostForward` is one relay's part of a
GHOST_FORWARD: it passes the envelope on, which leaves its tables alone but for the
sweep of expired routes after a failed dial, or holds it for the session's peer;
`relaying` tells the answer to come that nothing is to be forwarded in the
background.  `RegisterRoute` is `handleRegisterRoute` with the transaction of
`SetOwnedMailboxRoute`, its sweep and its two limits.  `Stop` drops sessions and
goroutines and keeps the tables.  Anyone may answer at the address of a route
(`ForwardDial` takes any identity): the code checks who did.

### MailFlow

One sender with CLI processes and a daemon, one recipient, several Daddies.  `Foreign`
are messages of other senders to the same recipient: all that is modelled of them is
that their receipts take places in the one outbox (`ReceiveForeign`).
`row` is the sender's status of a message: "queued" (direction `queued`),
"pending" and "delivered" (direction `sent`), "none" when there is no row.
`work` is a call of `ResolveAndSend`: it tries the recipient directly, then the
Daddies in order, then records the result.  `retry` is the list that
`RetryQueuedMessages` read, which may be stale.  Any exchange may fail before or
after the other side acted; any process may be killed.  A Daddy keeps what it
accepted until it is acknowledged, which is what HeldStore proves.

`deleted` is history: the messages the sender has removed with `msg del`.

`MailPromise` is the abstract view, in terms of what the two users can see: the
status shown of each message, the messages a process is busy with, those that are
safe (stored, or held for the recipient) and those that are stored.  A status moves
forwards, to what is true, or disappears; what disappeared is shown again only by a
process that was busy with it.

Left out: expiry of envelopes, the LIMIT of `ListQueuedMessages` (it is in Contacts),
the size and order of fetch batches (so a recipient that rejects a batch's worth of envelopes
is not seen to starve the next), folders.  Copies of one message at one Daddy are
merged: a copy that remains is a copy whose acknowledgement was lost.

### Admission

One goroutine per connection, through the phases of `HandleConnection` and
`serveSession`.  Each step is one critical section of one mutex or one operation on
the channel of handshake slots: the failure of a handshake is `EndHandshake` (the
slot), `CountSource`, `CountIdentity` and `HangUp`, with other goroutines in between.
`allow` and `failed` get a reading of the clock that was taken before their lock:
`since` is the time at which the goroutine came to its phase, and the reading is any
from then to now (`Readings`).  `since` is no state of the program, it only says how
old a reading may be.  The deadline of a read is the possibility of its failure
(`EndHandshake(c, "failed")`, `FailRequest`); no duration is tied to it.  Statistics
are left out; `evictOldest` may evict any record.
The count of failures saturates at `MaxFailures`, above anything it is
compared with.

### Routes

One node, its daemon's loop and the hosts that hold a route to it.  `phase`,
`timer`, `untilRefresh`, `registering` and `registered` are the loop of
`DialPersistentWithRetry` with its `nextRouteRefresh`, `registerRoutes` and
`routesRegistered`; `index` is the Daddy whose turn it is, and `request` the
registration on its way, whose address is discovered before the session is opened
(`Discover`) and whose expiry is computed after (`Ask`).  `mailboxRoute` and
`peerRoute` are the tables `mailbox_routes` and `peer_routes`, `lookup` an answer
that `LookupRouteWithDaddy` has not stored yet.  A Daddy may be a sender too, and
then caches what it looks up in the table that holds its registrations.

Time is explicit.  Every moment of the future is the number of seconds until it
comes, and `Tick` lets one pass; this keeps the state finite without a bound on
the clock.  A pass may take any time up to `MaxPass`.  `Tick` stops when a wait or
a pass is over, until the loop goes on.  `kept` and `lately` are history: which
Daddies took the last registration, and for how long each address may still be
found.

`Reach` merges the end of a handshake with the recording of the route right after it,
which reads the clock for the expiry (`dial.go:241`); a move of the node between the two
is not modelled.  `Cache` ends `kept` at its host: a registration that a late lookup
overwrote is excepted from `KeptAlive`, as it may expire sooner than the loop comes back.

Left out: the quotas of `peer_routes` (a write they refuse is a step that does not
happen) and the other peers in the tables.

### Launch

The start of `inkmaild` and `inkmail` on one data directory, without a lock between
them.  `file` is the identity directory: the namespace and the two private keys
(`public.key` and `enc_public.key` are written and never read).  `os.WriteFile` is two
steps, `Create` truncates and `Write` writes, and a file that was cut off, or written
over a longer one, is `Damaged`.  `db` is the schema as far as the statements of `init`
and `migrate` tell it apart: the columns that are missing, whether the index on aliases
exists, aliases, the directions and statuses of old messages, and the mailbox address.
`Statements` is `init` and `migrate` as one sequence; each `Migrate` executes one, as
each commits on its own.  `SelectMailbox` and `InsertMailbox` are
`GetOrCreateMailboxID`.  `Fault` is a kill, a full disk or a locked database, at any
step.  `late` tells whether a launch began after the files were complete.

### Contacts

`peers` is `peer_identities`: for each identity no row, or a name and which of
encryption key and mailbox address the row has.  A handshake or an incoming message
records a peer (`Handshake`), `peers add` a complete one (`AddContact`).  `peers alias`
is `resolvePeerNumber` and then the three statements of `SetPeerAlias`, each a step:
`CheckOwner`, `CheckNamespaces`, `UpdateAlias`.  The code ignores errors of the two
queries, so each check may also let pass what it should refuse.  `peers remove` is two
steps.  A display number stands for some peer of the list it is looked up in.  `queue`
is the queued rows in the order of `stored_at`, which is taken to be the order of the
INSERTs (`StoreMessage` reads it before, at `database.go:677`, so that across a second's
boundary two CLIs may swap places), `to` their recipients, `retry` the rest
of the daemon's list, of which each row is read against the contacts of its own moment.
A message that was sent gives its name to another, so that the queue never runs dry.

Left out: parsing, listings, the folders, and the routes that a removal deletes too.

### RateLimit

Each session is at most at one request: `Dispatch` reads the clock, `ChargeIdentity`,
`ChargeSource` and `ChargeMailbox` are the three calls of `allow`, each one critical
section.  Tokens are counted in the time that refills them, so that all buckets gain 1
in a tick and a request costs an address a quarter of what it costs an identity: the
code multiplies rate and burst of an address by four.  Buckets are floating-point
numbers in the code and exact here.  `updated` and `lastSeen` are always equal and are
one field.  `Evicted` is `evictOldest`, where the order of the map decides between
equal times.  `account` is history.

## 4. Runs

| Run | Asks | Instance | Result |
|---|---|---|---|
| `held` | quotas, answers, replay guard, refinement, old rows and expiry under fairness | 2 handlers, 3 envelopes of which one is left by an old version, sizes 1 and 2, quotas of 1 to 4, 1 crash | holds |
| `daddy` | ownership, acknowledgements, what is known stays until it is handed over, slots of forwarders and registrations at their limits, restart, use of the tables | 2 sessions, 2 identities, 2 mailboxes, 1 forwarder, limit 1, 1 restart | holds |
| `mail` | statuses, deletion, nothing stranded, refinement; arrival and receipts under fairness | 1 message that may be deleted, a receipt for another sender, batch of 1, CLI and daemon, 2 Daddies of which the first may be dead | holds |
| `mail_dead` | receipts with a Daddy dead | 1 message, a receipt for another sender, batch of 1, one of 2 Daddies dead | **violated**, finding |
| `admission` | slots, limits, failures; no connection stays for ever | 3 connections of which 2 may be open, 1 source, 2 identities, 1 exchange, readings up to a window late | holds |
| `routes_kept` | routes do not lapse, and return | 2 Daddies, lifetime 18, wait 2, passes of up to 2 | holds |
| `routes_stale` | old addresses end | 2 Daddies of which one sends, 2 addresses, lifetime 3 | holds |
| `routes_replaced` | only dead routes are replaced | the same | **violated**, finding |
| `launch` | migrated, one identity, one address, launches get through | daemon with a `-user` flag, CLI without; 5 databases of earlier releases; 2 faults | holds |
| `launch_upgrade` | every release's database opens | a database without aliases | **violated**, finding |
| `contacts` | names, handshakes, order of the queue; sending under fairness | 2 peers, 2 CLIs, an alias that is a namespace too, 2 messages and a row of a former identity, LIMIT 2 | holds |
| `ratelimit` | rate, starvation, eviction | 2 sessions of one identity at one address, 1 mailbox, 2 buckets for the 3 keys | holds |

**Bounds.**  `MaxTime`, `MaxClock`, `MaxCrashes` and `MaxFaults` bound the clock, the
crashes and the failed launches; retention, route lifetime and windows are 1 or 2
seconds so that rows, routes and blocks do expire within the run.  Quotas and limits
are one less than what the instance could use, so that they are reached and refused, but for
three that a smaller one always precedes: `ConcurrentRequests` in `admission`, where two open
connections cannot exceed it; `ConnectionsPerSource` there, which is reached together with
`ConnectionsGlobal`; and `RoutesPerIdentity` in `daddy`.  `SlotsAndLimits` and `LimitsStayKept`
prove them for every value.  A source with two connections and blocks of one failure is
the smallest instance in which a late failure ends a block early: `FailuresBounded` is
tight in it.  The receipt of another sender is what can fill a batch of 1.
Two handlers, two sessions or two processes suffice for the races described in
`hazards`, each of which is between two actors and one table.  `OutboxBatch` is 200 in
the code and 1 here, `QueueLimit` 100 and 2; what matters is that there can be one more
than fits, or one in the way.

In `routes_kept` a lifetime of 18 is just above what `Timely` needs for a wait of 2
and passes of up to 2 seconds, so that the worst case comes within a second or two of
a lapse.  In `routes_stale` a lifetime of 3 lets a row be copied from table to table
while the node moves twice.  `launch` has a database of every kind that `migrate`
knows: new, with columns missing, with blank aliases, without aliases, and with two
peers of one alias; the columns that no statement tells apart are two of the seven.
In `ratelimit` five ticks are what a mailbox's token takes and one more, and the late
session may be late by all of them.

**Symmetry** is used in `daddy`, for the sessions and forwarders, whose properties of
steps it does not disturb; the runs with liveness properties have none.

**Deadlock** is checked except in MailFlow, where nothing is left to do when the
few messages of the instance have been sent, received and acknowledged.

**Mutants.**  Each property has one in the module: a definition with a plausible
bug (a quota off by one, a record deleted with its envelope, a slot returned
twice, a late result that wins).  Put in place of the real definition, it
violates the property.

## 5. Fairness

* HeldStore: `WF(Open)` -- the daemon is restarted after a crash -- and
  `WF(Expire)` -- `StartCleanupRoutine` ticks as long as the daemon runs.
* MailFlow: the daemon's loop (`DialPersistentWithRetry`) never ends, so what it
  tries again and again succeeds once in a while: strong fairness of the retry of
  each message, of a hold at some live Daddy, of recording, of collecting each
  message and receipt from some Daddy, and of a pass in which all live Daddies
  answer; and when the outbox is full, each collection still stores the message, although
  it cannot queue the receipt.  Nothing is assumed of CLI processes or of direct routes, and nothing
  of a dead Daddy.
* Admission: weak fairness of each connection's goroutine; every wait of it on
  the peer has a deadline.
* Routes: the process is scheduled and time passes (weak fairness of `Start`,
  `Wake`, `Tick`, of going on with the registrations and of the rest of a pass),
  and a Daddy that is not dead takes a registration once in a while (strong
  fairness of its steps).  Nothing is assumed of `Stop` nor of the senders.
* Launch: a process that does not run is started again, by its user or by the service
  manager, and goes on (weak fairness of each process); faults are bounded, so that
  launches are not killed for ever.
* Contacts: the daemon's loop goes on (weak fairness of listing and of going through
  the list), and a recipient or Daddy that is tried again and again takes a message
  once in a while (strong fairness of `Accept`, for each message).  Nothing is assumed
  of users and other nodes, nor that a contact ever becomes complete.
* RateLimit has no liveness property and no fairness.

## 6. Findings

* **One dead Daddy stops receipts** (`mail_dead`).  `SyncOpaqueMailboxOutbox`
  submits the 200 oldest entries to every Daddy and removes an entry only when
  all accepted it in the same pass.  With one Daddy gone for good, entries that
  the others have long accepted stay, and once there are 200 of them a newer
  receipt is submitted to nobody.  `EventuallyDelivered` excepts this state (`ShutOut`),
  `OneDeadDaddyIsHarmless` is the same formula without the exception.  `daddy.go:1084` says that disabling one Daddy
  does not strand the node.
* **A live route is replaced by a dead one** (`routes_replaced`).  `acceptSession`
  records the source address of an incoming connection as the peer's route, and
  `RegisterOrReplaceRoute` deletes every other address of that peer.  The source
  address is the client's end of the connection, where nobody listens.  So every
  connection from a peer replaces the address where it does listen; the next direct
  send fails and `DeleteRoute` leaves `peer_routes` without one; only a row of
  `mailbox_routes`, if there is one, remains as fallback.  `dial.go:216` and
  `database.go:1418` say that a fresh route replaces a dead one.

* **A database without aliases cannot be opened** (`launch_upgrade`).  `init` creates a
  unique index on the column `alias` of `peer_identities`; `migrate` adds that column to
  databases of releases that did not have it, but it runs after `init`.  On such a
  database `init` fails at every launch.  ARCHITECTURE.md:220 and README.md:396 say that
  existing data directories open without cleanup.

Seen while modelling, without a run:

* A deleted message comes back.  `msg del` removes the row; the process that was
  sending the message records its result with `StoreMessage`, an upsert, which
  inserts it again (`DeleteSent`, then `Record` in MailFlow).  On the recipient's
  side a second copy of a deleted message is stored again.  README.md:220 and
  `main.go:445` call the deletion permanent.  `GoneForGood` says when a deletion is.
* Routes lapse while a node is up when the retry interval is long.  Intervals up to
  an hour are valid, a route lasts five minutes, and after a pass with any failure
  the loop waits the whole interval (`retrySoon` switches off the cap at
  `daddy.go:1208`); one dead Daddy is such a failure in every pass.  README.md:300
  says that registrations refresh at half their lifetime.
* Two peers of one alias, left by a release without the index, make `migrate` fail, and
  with it every launch; the comment at `database.go:345` says "Best-effort: a
  pre-existing duplicate keeps the DB usable" (`Hopeless` in Launch has this case).
* `peers remove 2` and `peers alias 2 x` look the number up in the list of the moment
  (`peers_list.go:14`), `send` in the list on the screen; `peers.go:11` says that
  numbers are assigned at display time.
* `relays.go:53-60` documents bare `host:port` lines; `splitKeyValue` takes their colon
  for a separator of key and value, and the line is dropped.

## 7. Proofs

All theorems are for every value of the constants that satisfies the named
assumption of the module.  Every invariant, every property of steps and every
refinement that a passing run checks is one of them.

* **HeldStoreProofs.**  `TypeCorrect` by induction.  `ReplayGuard`: `StoreInv` is
  inductive given `TypeOK`.  Its parts need each other: that a held row has its
  replay record (`HeldIsGuarded`) survives an admission only because no row is
  admitted while a record of its ID lasts (`OneRowPerEnvelope`), and expiry with a
  stale clock is harmless because both rows have the same expiry.
  `QuotasHold`: a transaction counts the rows it leaves, so its own admission is
  the only growth; the lemmas bound the cardinality of a set with one more row and
  the octets it adds.  `NothingLost`, `AnswersAreTrue` and `ImplementsPromise`
  follow action by action from `StoreInv`.
* **DaddyProofs.**  `DaddyInv` is inductive given HeldStore's `TypeOK`:
  `SessionsAreScoped` needs that an owner never changes, and
  `ForwardersAreHonest` that a forwarder in phase "delete" delivered to the
  owner.  `TablesUsedAsSpecified` shows that every step of a Daddy is a step of
  HeldStore or leaves its variables alone, so that HeldStore's theorems are
  Daddy's; `DaddyKeepsPromise` is that composition for the promise, the quotas and
  the replay guard.  `OwnersOnly` needs further invariants: rows, calls and
  forwarders name only mailboxes that a submission named for the envelope
  (`Sourced`), and whoever was handed an envelope owns one of them, which remains so
  because owners are never replaced (`OwnersStayFinal`).

  `KnownIsKept` says what the replay guard is worth to a sender: an ID that is
  refused as known is still held or was handed to the owner.  A row leaves before its
  expiry by an acknowledgement or a forwarder only, each of which handed it over
  (`RemovalStep`, of which `NothingRemovedUnseen` is the other consequence); new
  records come with their row, and the rows of an earlier release are held when they
  are backfilled (`RecordsStep`).  With HeldStore's `AnswersAreTrue`
  it follows what the answers "held" and "already_stored" mean (`SendersAreDone`):
  the sender need not send again until the time it was told.

  `LimitsStayKept` has the slots of forwarders from `DaddyInv`.  For registrations
  the invariant `RegInv` adds that the mailboxes with an owner are finitely many, so
  that they can be counted, and rests on three facts: a sweep and the clock only
  take routes away (`FewerRoutes`), a transaction that adds a route or an owner
  counted the others first (`SetOwnedBounded`), and nothing else writes the tables.
* **MailFlowProofs.**  `MailInv` is inductive given `TypeOK`: `WorkIsTrue` is the
  strengthening that covers processes about to record a result.  `DeletedStaysGone` is a
  property of steps that needs nothing but `TypeOK`: only a process that sends the message
  inserts a row, a receipt updates one.  `NothingIsStranded` is the safety that arrival
  rests on: a composed message is tried again, delivered, or its envelope or receipt is
  under way at a Daddy that lives or in the recipient's outbox.  Its strengthening
  (`AcceptedIsOnItsWay`) covers a process that was told "held" and has not recorded it
  yet.  It depends on the order
  in which the code lets go: the recipient acknowledges an envelope after it queued the
  receipt, and the outbox drops a receipt after every Daddy has it.
  `MailKeepsPromise` maps each step to a step of MailPromise: `RowMoves` says what may
  become of the row of one message, action by action, from `MailInv`; that `safe` and
  `stored` only grow is the stability of both.
* **AdmissionProofs.**  `SlotsAccounted` is inductive given `TypeOK`: each action
  moves one connection between the sets that the counters count.  For
  `FailuresStayBounded` the invariant is about what may still fail.  While a block lasts
  to the end of its window (`Covered`) nobody of the source is let in until the record is
  stale and forgotten, so each further failure uses up a pending connection.  A failure
  with a reading from before the window began (`Late`) may end the block sooner, and until
  a failure with a later reading renews it the source may fill up again.  A window begins
  with the failure of one connection, so that at most `ConnectionsPerSource - 1` others
  are late to it, and each is so once: failures, the connections that may come, and a
  refill for each late one never exceed the bound, which is the threshold plus the square
  of `ConnectionsPerSource`.
  The premise of `FailuresBounded`, a cooldown no shorter than the window, is what makes
  a failure that is not late block its source to the end of the window; the defaults satisfy it, not every valid configuration does.
  `ConnectionsProgress` is the variant behind `ConnectionsEnd`: `StepsLeft` of an open
  connection is positive, at most `8 + 2 * maxSessionRequests`, and falls with every
  change of that connection, whatever the others do.  What remains for TLC is only that
  the goroutine can always go on, and does.
* **RoutesProofs.**  `RoutesKeptAlive` is a statement about time.  Its invariant
  `Ahead(k)` says, for each point of the loop, how long the route at the k-th Daddy
  must still last for the loop to come back in time; the worst case is a refresh
  that falls due just after a pass without it began, which adds two passes and a
  wait.  The premise `Timely` is what remains of that arithmetic: wait, three passes
  and half a lifetime are less than a lifetime.  `LoopOK` relates the loop's
  variables, and dates the registration on its way.  With the constants of the code
  (300 seconds, and 10 by default) a pass may take 46 seconds; sessions have
  deadlines of 10 seconds each, so that a pass with many dead Daddies or many queued
  messages may take longer, and `Timely` is then false.  `RoutesEnd`: a row copied
  keeps its expiry, and an address on its way to a Daddy is no older than the pass
  (`RequestIsRecent`).
* **LaunchProofs.**  `OpenInv`: a process at a statement has seen the effects of all
  earlier ones, and no statement undoes what another achieved (`ExecutedKeeps`), so
  that it does not matter who executed them or where a launch was cut off.
  `FinalIdentity` is the stability of `Settled`: when all files are valid and nobody is
  about to write, nobody starts to, since a file is only created when it is absent.
  `LateLaunchesCorrect` follows with an invariant of what a late process has read.
  `LaunchesProgress` is the variant behind `EventuallyRuns`: a launch goes through
  files, statements and the address in a bounded number of steps, which only a fault
  or a damaged or hopeless directory cuts off; and once `init`'s index can be made it
  can always be made, whatever the other process does.
* **ContactsProofs.**  `ContactsTypeCorrect` has the types and that the queue has no
  message twice; `RemoveAtProperties` describes the sequence that is left when one
  element is taken out of its middle.
  `OneOwner`, that no two rows have one alias, is inductive by the unique index alone;
  the checks before the UPDATE play no part in it.  That aliases are looked up before
  namespaces does the rest.  `ContactsKept` is the merging upsert.  `TurnsAreKept` is
  the safety of the queue: a row that is added goes behind all others, one that is
  removed takes nobody's place, and the list is the beginning of the queue, so that
  what is not on it has `QueueLimit` messages in front of it.
* **RateLimitProofs.**  Two inequalities relate each bucket with its history
  (`Balanced`): it holds at most what its key may still be let through for, and at
  least the time since the key was last let through, unless it is full.  A late
  reading of the clock moves the bucket's time back; the first inequality then owes
  that much (and `account` has it), the second is only strengthened.

Only model-checked: everything temporal under fairness, which is out of the prover's
reach because fairness is a statement about `ENABLED`.  What each of these rests on is
proved where it is safety:

| Property | Left to TLC | Proved |
|---|---|---|
| `ExpiredIsForgotten` | the cleanup comes to each row | `NothingLost`, `ReplayGuard` |
| `EventuallyStored`, `EventuallyDelivered` | retries succeed once in a while | `NothingIsStranded`, `DeliveredStays` |
| `ConnectionsEnd` | each goroutine goes on | `ConnectionsProgress` |
| `RouteReturns` | passes and registrations come again | `RoutesKeptAlive` |
| `EventuallyRuns` | launches are repeated and go on | `LaunchesProgress` |
| `EventuallySent` | the daemon's loop and its recipients go on | `TurnsAreKept` |

## 8. Not modelled

Cryptography and formats (an envelope is an ID, a mailbox and a payload that
only its recipient opens; identities cannot be forged), framing, parsing, printing,
metrics, deployment scripts: they keep no state that another part relies on.

Folders: one statement sets the column, and only listings read it.

The chain of ghost relays: `handleGhostForward` is modelled as a relay's step on its own
tables (Daddy).  No code in the repository sends the first GHOST_FORWARD, so what the
originator concludes from the answer cannot be modelled from the source.

The order and size of a fetched batch, the expiry of envelopes in MailFlow and the
quotas of `peer_routes`.

The hazards that no property covers are in `PROJECT.json` with the reason.
