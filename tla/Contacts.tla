------------------------------- MODULE Contacts -------------------------------
(***************************************************************************)
(* The contacts of a node (table peer_identities) and the messages that    *)
(* wait for them (ListQueuedMessages, RetryQueuedMessages).  The CLIs of   *)
(* the user add, remove and name contacts and address mail to them; every  *)
(* handshake and every received message records one; the daemon retries    *)
(* what is queued.  SetPeerAlias is three statements outside a             *)
(* transaction: whatever happens between them is a step of its own here.   *)
(*                                                                         *)
(* Display numbers stand for "some contact of the list": the list of the   *)
(* moment for peers alias and peers remove (resolvePeerNumber), the one on *)
(* the screen for send.                                                    *)
(*                                                                         *)
(* Rows are taken to be inserted in the order of stored_at.  StoreMessage  *)
(* reads it, in seconds, before its INSERT: two CLIs that send across the  *)
(* boundary of a second may swap places, which is left out.                *)
(***************************************************************************)
EXTENDS Integers, Sequences, FiniteSets, SequencesExt, Functions

CONSTANTS
  Identities,      \* namespace and Ed25519 key of the nodes
  Namespace,       \* [Identities -> names]
  Aliases,         \* valid aliases, up to case; some may be namespaces too
  NoAlias,
  Unknown,         \* no row; no recipient
  PeerIdentitiesGlobal,
  Clients,         \* CLIs that are running
  Messages,
  Leftover,        \* queued rows of an identity this node had before
  QueueLimit       \* ListQueuedMessages: 100

VARIABLES
  peers,     \* peer_identities
  client,    \* the command each CLI is at
  queue,     \* queued messages, in the order of stored_at
  to,        \* their recipients
  retry      \* the rest of the daemon's list

mail == <<queue, to, retry>>
vars == <<peers, client, mail>>

\* What the row of a peer has besides its name: an encryption key, an address.
Contact == [alias : Aliases \cup {NoAlias}, has : SUBSET {"key", "mailbox"}]

Command ==
  [step : {"idle", "owner", "namespace", "update", "remove"},
   target : Identities \cup {Unknown},
   alias : Aliases \cup {NoAlias}]

ASSUME ContactsAssumption ==
  /\ NoAlias \notin Aliases
  /\ Unknown \notin Identities \cup Contact
  /\ PeerIdentitiesGlobal \in Nat
  /\ Leftover \in Seq(Messages) /\ IsInjective(Leftover)
  /\ QueueLimit \in Nat \ {0}

-----------------------------------------------------------------------------
Idle == [step |-> "idle", target |-> Unknown, alias |-> NoAlias]

Init ==
  /\ peers = [i \in Identities |-> Unknown]
  /\ client = [c \in Clients |-> Idle]
  /\ queue = Leftover
  /\ to = [m \in Messages |-> Unknown]
  /\ retry = <<>>

Own == Messages \ ToSet(Leftover)
Known == {i \in Identities : peers[i] # Unknown}
Owners(a) == {i \in Known : peers[i].alias = a}

At(c, step) == client[c].step = step
Finish(c) == client' = [client EXCEPT ![c] = Idle]

(***************************************************************************)
(* Recording a contact                                                     *)
(***************************************************************************)

\* Mutant: what the handshake does not offer is overwritten by NULL.
Replaced(i, offered) ==
  IF peers[i] = Unknown THEN [alias |-> NoAlias, has |-> offered]
  ELSE [peers[i] EXCEPT !.has = offered]

\* The upsert: the alias stays, and so does a key when none is offered.
Merged(i, offered) ==
  IF peers[i] = Unknown THEN [alias |-> NoAlias, has |-> offered]
  ELSE [peers[i] EXCEPT !.has = @ \cup offered]

\* ensurePeerIdentityCapacity and the upsert, in one transaction.
Record(i, offered) ==
  /\ i \in Known \/ Cardinality(Known) < PeerIdentitiesGlobal
  /\ peers' = [peers EXCEPT ![i] = Merged(i, offered)]
  /\ UNCHANGED <<client, mail>>

\* RecordPeerIdentity offers nothing, RecordPeerIdentityWithKey may offer a key.
Handshake(i) == \E offered \in {{}, {"key"}} : Record(i, offered)

\* RecordPeerContact: peers add, or a message with the sender's contact in it.
AddContact(i) == Record(i, {"key", "mailbox"})

-----------------------------------------------------------------------------
(***************************************************************************)
(* The commands of a CLI                                                   *)
(***************************************************************************)

\* peers alias <number> <alias>, or --clear, which checks nothing.
AliasCommand(c, i, a) ==
  /\ At(c, "idle")
  /\ i \in Known
  /\ client' = [client EXCEPT ![c] =
       [Idle EXCEPT !.step = IF a = NoAlias THEN "update" ELSE "owner",
                    !.target = i, !.alias = a]]
  /\ UNCHANGED <<peers, mail>>

\* SELECT ... WHERE alias = ?: an error of the query counts as "nobody".
CheckOwner(c) ==
  /\ At(c, "owner")
  /\ \/ client' = [client EXCEPT ![c].step = "namespace"]
     \/ Owners(client[c].alias) \ {client[c].target} # {} /\ Finish(c)
  /\ UNCHANGED <<peers, mail>>

\* No other peer of that namespace; again an error counts as "none".
CheckNamespaces(c) ==
  /\ At(c, "namespace")
  /\ \/ client' = [client EXCEPT ![c].step = "update"]
     \/ /\ \E i \in Known \ {client[c].target} : Namespace[i] = client[c].alias
        /\ Finish(c)
  /\ UNCHANGED <<peers, mail>>

\* Mutant: the two checks stand for the unique index.
IndexTrustsChecks(c) == TRUE

\* idx_peer_identities_alias
IndexAllows(c) ==
  client[c].alias = NoAlias \/ Owners(client[c].alias) \subseteq {client[c].target}

\* UPDATE peer_identities: the row may be gone, and the index has the last word.
UpdateAlias(c) ==
  /\ At(c, "update")
  /\ LET i == client[c].target IN
     peers' = IF i \in Known /\ IndexAllows(c)
              THEN [peers EXCEPT ![i].alias = client[c].alias]
              ELSE peers
  /\ Finish(c)
  /\ UNCHANGED mail

\* peers remove <number>: the number is looked up, then the row is deleted.
RemoveCommand(c, i) ==
  /\ At(c, "idle")
  /\ i \in Known
  /\ client' = [client EXCEPT ![c] = [Idle EXCEPT !.step = "remove", !.target = i]]
  /\ UNCHANGED <<peers, mail>>

DeletePeer(c) ==
  /\ At(c, "remove")
  /\ peers' = [peers EXCEPT ![client[c].target] = Unknown]
  /\ Finish(c)
  /\ UNCHANGED mail

\* Mutant: the message is stored without its recipient.
SendUnaddressed(c, i, m) ==
  /\ At(c, "idle")
  /\ m \in Own /\ to[m] = Unknown
  /\ queue' = Append(queue, m)
  /\ UNCHANGED <<peers, client, to, retry>>

\* sendInteractive: the message goes to a contact that was on the screen.  It may
\* be gone by now, so any identity may have been there.  One that is accepted at
\* once never waits; here the message stays queued.
Send(c, i, m) ==
  /\ At(c, "idle")
  /\ m \in Own /\ to[m] = Unknown
  /\ to' = [to EXCEPT ![m] = i]
  /\ queue' = Append(queue, m)
  /\ UNCHANGED <<peers, client, retry>>

\* resolveSendRecipient, of a name: alias before namespace.
Resolved(name) ==
  IF Owners(name) # {} THEN Owners(name) ELSE {i \in Known : Namespace[i] = name}

-----------------------------------------------------------------------------
(***************************************************************************)
(* The daemon's retries                                                    *)
(***************************************************************************)

\* What RetryQueuedMessages and ResolveAndSend ask before anything is sent.
Sendable(m) ==
  /\ m \in Own
  /\ to[m] \in Known
  /\ {"key", "mailbox"} \subseteq peers[to[m]].has

\* Mutant: ORDER BY stored_at DESC.
NewestQueued ==
  SubSeq(queue, IF Len(queue) < QueueLimit THEN 1 ELSE Len(queue) - QueueLimit + 1,
         Len(queue))

\* ORDER BY stored_at LIMIT 100
OldestQueued ==
  SubSeq(queue, 1, IF Len(queue) < QueueLimit THEN Len(queue) ELSE QueueLimit)

ListQueued ==
  /\ retry = <<>> /\ queue # <<>>
  /\ retry' = OldestQueued
  /\ UNCHANGED <<peers, client, queue, to>>

Listed(m) == retry # <<>> /\ Head(retry) = m

\* The contact is read when the message's turn comes.  What is sent is no longer
\* queued, and its name is free for another message.
Accept(m) ==
  /\ Listed(m) /\ Sendable(m)
  /\ \E i \in DOMAIN queue : queue[i] = m /\ queue' = RemoveAt(queue, i)
  /\ to' = [to EXCEPT ![m] = Unknown]
  /\ retry' = Tail(retry)
  /\ UNCHANGED <<peers, client>>

\* Mutant: the first failure ends the pass.
SkipRest(m) ==
  /\ Listed(m)
  /\ retry' = <<>>
  /\ UNCHANGED <<peers, client, queue, to>>

\* It cannot be sent, nobody takes it, or the result is not recorded.  A restart
\* of the daemon skips the rest of the list.
Skip(m) ==
  /\ Listed(m)
  /\ retry' = Tail(retry)
  /\ UNCHANGED <<peers, client, queue, to>>

-----------------------------------------------------------------------------
Commanding(c) ==
  \/ \E i \in Identities :
       \/ \E a \in Aliases \cup {NoAlias} : AliasCommand(c, i, a)
       \/ RemoveCommand(c, i)
       \/ \E m \in Messages : Send(c, i, m)
  \/ CheckOwner(c)
  \/ CheckNamespaces(c)
  \/ UpdateAlias(c)
  \/ DeletePeer(c)

Next ==
  \/ \E i \in Identities : Handshake(i) \/ AddContact(i)
  \/ \E c \in Clients : Commanding(c)
  \/ ListQueued
  \/ \E m \in Messages : Accept(m) \/ Skip(m)

Spec == Init /\ [][Next]_vars

(***************************************************************************)
(* The daemon runs its loop for ever (DialPersistentWithRetry), is not     *)
(* restarted in every pass, and a recipient or Daddy that it tries again   *)
(* and again takes the message once in a while.  Nothing is assumed of the *)
(* user, nor of the other nodes.                                           *)
(***************************************************************************)
FairSpec ==
  /\ Spec
  /\ WF_vars(ListQueued)
  /\ WF_vars(\E m \in Messages : Accept(m) \/ Skip(m))
  /\ \A m \in Own : SF_vars(Accept(m))

-----------------------------------------------------------------------------
(***************************************************************************)
(* Properties                                                              *)
(***************************************************************************)

\* The types of the tables and of the commands; a message of this identity is
\* queued once, with its recipient; and the quota of peers.
TypeOK ==
  /\ peers \in [Identities -> Contact \cup {Unknown}]
  /\ client \in [Clients -> Command]
  /\ queue \in Seq(Messages) /\ retry \in Seq(Messages)
  /\ to \in [Messages -> Identities \cup {Unknown}]
  /\ IsInjective(queue)
  /\ ToSet(queue) \cap Own = {m \in Own : to[m] # Unknown}
  /\ Cardinality(Known) <= PeerIdentitiesGlobal

\* The name the user gave a peer reaches that peer and nobody else: not another
\* one that a second CLI named at the same time, nor one whose namespace reads
\* the same and that was recorded after the check.
AliasReachesItsPeer ==
  \A i \in Known : peers[i].alias # NoAlias => Resolved(peers[i].alias) = {i}

\* "handshake-driven updates must never wipe a user-assigned friendly name": as
\* long as a peer is known, its name changes only by a command about that peer,
\* and no handshake takes the key or the address away that mail to it needs.
ContactsKeep ==
  [][\A i \in Known :
       i \in Known' =>
         /\ peers[i].has \subseteq peers'[i].has
         /\ peers'[i].alias # peers[i].alias =>
              \E c \in Clients :
                /\ At(c, "update") /\ ~At(c, "update")'
                /\ client[c].target = i
                /\ client[c].alias = peers'[i].alias]_vars

Older(m) == {n \in ToSet(queue) : \E j, k \in DOMAIN queue :
                                    j < k /\ queue[j] = n /\ queue[k] = m}

\* No message is passed over while it waits: it never falls behind another, it
\* is on every list of the daemon unless QueueLimit older ones fill it, and it
\* leaves that list only by its own turn.  What EventuallySent rests on.
NobodyIsPassedOver ==
  [][\A m \in ToSet(queue) :
       /\ m \in ToSet(queue') => Older(m)' \subseteq Older(m)
       /\ retry = <<>> /\ retry' # <<>> =>
            m \in ToSet(retry') \/ Cardinality(Older(m)) >= QueueLimit
       /\ m \in ToSet(retry) => m \in ToSet(retry') \/ Listed(m)]_vars

\* A message that waits for its recipient to be a complete contact is sent once
\* it is one and remains so, unless QueueLimit older ones that cannot be sent
\* are in front of it for ever.
InTheWay(m) == {n \in Older(m) : ~Sendable(n)}
EventuallySent ==
  \A m \in Own :
    []<>(\/ m \notin ToSet(queue)
         \/ ~Sendable(m)
         \/ Cardinality(InTheWay(m)) >= QueueLimit)
==============================================================================
