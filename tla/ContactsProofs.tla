---------------------------- MODULE ContactsProofs ----------------------------
(***************************************************************************)
(* Proofs about the contacts of a node.  The order of the checks of        *)
(* SetPeerAlias plays no part in them: the unique index on the aliases and *)
(* the merging upsert are enough, with any number of CLIs.  The second     *)
(* half is about the messages that wait for a contact, whatever the number *)
(* of them and the limit of a list.                                        *)
(***************************************************************************)
EXTENDS Contacts, SequenceTheorems, FiniteSetTheorems, TLAPS

Peers == peers \in [Identities -> Contact \cup {Unknown}]
Commands == client \in [Clients -> Command]

\* What the index keeps.
OneOwner ==
  \A i, j \in Known :
    peers[i].alias = peers[j].alias /\ peers[i].alias # NoAlias => i = j

\* Commands that change a row have one.
Targeted ==
  \A c \in Clients : client[c].step # "idle" => client[c].target \in Identities

Inv == Peers /\ Commands /\ OneOwner /\ Targeted

-----------------------------------------------------------------------------
LEMMA KnownIsContact ==
  ASSUME Peers, NEW i \in Known
  PROVE  i \in Identities /\ peers[i] \in Contact /\ peers[i].alias \in Aliases \cup {NoAlias}
         /\ peers[i].has \in SUBSET {"key", "mailbox"}
<1>1. i \in Identities /\ peers[i] \in Contact
  BY DEF Known, Peers
<1> QED BY <1>1 DEF Contact

(* The upsert: a contact as before, with the name it had. *)
LEMMA MergedContact ==
  ASSUME Peers, NEW i \in Identities, NEW offered \in SUBSET {"key", "mailbox"}
  PROVE  /\ Merged(i, offered) \in Contact
         /\ i \in Known => /\ Merged(i, offered).alias = peers[i].alias
                           /\ peers[i].has \subseteq Merged(i, offered).has
         /\ i \notin Known => Merged(i, offered).alias = NoAlias
<1>1. CASE i \in Known
  <2>1. peers[i] # Unknown /\ peers[i] \in Contact
    BY <1>1, KnownIsContact DEF Known
  <2>2. Merged(i, offered) = [peers[i] EXCEPT !.has = @ \cup offered]
    BY <2>1 DEF Merged
  <2> QED BY <1>1, <2>1, <2>2 DEF Contact
<1>2. CASE i \notin Known
  <2>1. Merged(i, offered) = [alias |-> NoAlias, has |-> offered]
    BY <1>2 DEF Merged, Known
  <2> QED BY <1>2, <2>1 DEF Contact
<1> QED BY <1>1, <1>2

LEMMA RecordStep ==
  ASSUME Peers, NEW i \in Identities, NEW offered \in SUBSET {"key", "mailbox"},
         Record(i, offered)
  PROVE  /\ Peers'
         /\ client' = client
         /\ OneOwner => OneOwner'
         /\ \A j \in Known : /\ peers'[j].alias = peers[j].alias
                             /\ peers[j].has \subseteq peers'[j].has
<1>1. peers' = [peers EXCEPT ![i] = Merged(i, offered)] /\ client' = client
  BY DEF Record
<1>2. Merged(i, offered) \in Contact
  BY MergedContact
<1>3. Peers'
  BY <1>1, <1>2 DEF Peers
<1>4. \A j \in Known : /\ peers'[j].alias = peers[j].alias
                       /\ peers[j].has \subseteq peers'[j].has
  <2> SUFFICES ASSUME NEW j \in Known
               PROVE peers'[j].alias = peers[j].alias /\ peers[j].has \subseteq peers'[j].has
    OBVIOUS
  <2>1. j \in Identities
    BY DEF Known
  <2>2. CASE j = i
    BY <1>1, <2>1, <2>2, MergedContact DEF Peers
  <2>3. CASE j # i
    BY <1>1, <2>1, <2>3 DEF Peers
  <2> QED BY <2>2, <2>3
<1>5. \A j \in Known' : j \in Known \/ peers'[j].alias = NoAlias
  <2> SUFFICES ASSUME NEW j \in Known', j \notin Known PROVE peers'[j].alias = NoAlias
    OBVIOUS
  <2>1. j \in Identities
    BY DEF Known
  <2>2. j = i
    BY <1>1, <2>1 DEF Known, Peers
  <2> QED BY <1>1, <2>2, MergedContact DEF Peers
<1>6. OneOwner => OneOwner'
  <2> SUFFICES ASSUME OneOwner, NEW j \in Known', NEW k \in Known',
                      peers'[j].alias = peers'[k].alias, peers'[j].alias # NoAlias
               PROVE j = k
    BY DEF OneOwner
  <2>1. j \in Known /\ k \in Known
    BY <1>5
  <2> QED BY <1>4, <2>1 DEF OneOwner
<1> QED BY <1>1, <1>3, <1>4, <1>6

LEMMA UpdateStep ==
  ASSUME Inv, NEW c \in Clients, UpdateAlias(c)
  PROVE  /\ Peers'
         /\ OneOwner'
         /\ \A j \in Known :
              /\ peers'[j].has = peers[j].has
              /\ \/ peers'[j] = peers[j]
                 \/ j = client[c].target /\ peers'[j].alias = client[c].alias
<1> DEFINE i == client[c].target
           a == client[c].alias
<1>1. a \in Aliases \cup {NoAlias}
  BY DEF Inv, Commands, Command
<1>2. CASE i \in Known /\ IndexAllows(c)
  <2>1. peers' = [peers EXCEPT ![i].alias = a]
    BY <1>2 DEF UpdateAlias
  <2>2. i \in Identities /\ peers[i] \in Contact
    BY <1>2, KnownIsContact DEF Inv
  <2>3. [peers[i] EXCEPT !.alias = a] \in Contact
    BY <1>1, <2>2 DEF Contact
  <2>4. peers' = [peers EXCEPT ![i] = [peers[i] EXCEPT !.alias = a]]
    BY <2>1
  <2>5. Peers'
    BY <2>3, <2>4 DEF Inv, Peers
  <2>6. /\ peers'[i] = [peers[i] EXCEPT !.alias = a]
        /\ \A j \in Identities : j # i => peers'[j] = peers[j]
    BY <2>2, <2>4 DEF Inv, Peers
  <2>7. peers'[i].alias = a /\ peers'[i].has = peers[i].has
    BY <2>2, <2>6 DEF Contact
  <2>8. Known' = Known
    BY <1>2, <2>2, <2>3, <2>6, ContactsAssumption DEF Known
  <2>9. OneOwner'
    <3> SUFFICES ASSUME NEW j \in Known, NEW k \in Known,
                        peers'[j].alias = peers'[k].alias, peers'[j].alias # NoAlias
                 PROVE j = k
      BY <2>8 DEF OneOwner
    <3>1. j \in Identities /\ k \in Identities
      BY DEF Known
    <3>2. CASE a = NoAlias
      <4>1. j # i /\ k # i
        BY <2>7, <3>2
      <4> QED BY <2>6, <3>1, <4>1 DEF Inv, OneOwner
    <3>3. CASE a # NoAlias
      <4>1. \A n \in Known : peers[n].alias = a => n = i
        BY <1>2, <3>3 DEF IndexAllows, Owners
      <4>2. CASE j = i
        BY <2>6, <2>7, <3>1, <4>1, <4>2
      <4>3. CASE k = i
        BY <2>6, <2>7, <3>1, <4>1, <4>3
      <4>4. CASE j # i /\ k # i
        BY <2>6, <3>1, <4>4 DEF Inv, OneOwner
      <4> QED BY <4>2, <4>3, <4>4
    <3> QED BY <3>2, <3>3
  <2>10. \A j \in Known : j \in Identities
    BY DEF Known
  <2> QED BY <2>5, <2>6, <2>7, <2>9, <2>10
<1>3. CASE ~(i \in Known /\ IndexAllows(c))
  <2>1. peers' = peers
    BY <1>3 DEF UpdateAlias
  <2> QED BY <2>1 DEF Inv, Peers, OneOwner, Known
<1> QED BY <1>2, <1>3

LEMMA DeleteStep ==
  ASSUME Inv, NEW c \in Clients, DeletePeer(c)
  PROVE  /\ Peers'
         /\ OneOwner'
         /\ \A j \in Known : j \in Known' => peers'[j] = peers[j]
<1>1. peers' = [peers EXCEPT ![client[c].target] = Unknown]
  BY DEF DeletePeer
<1>2. Peers'
  BY <1>1 DEF Inv, Peers
<1>3. \A j \in Known' : j \in Known /\ peers'[j] = peers[j]
  BY <1>1 DEF Inv, Peers, Known
<1>4. OneOwner'
  BY <1>3 DEF Inv, OneOwner
<1> QED BY <1>2, <1>3, <1>4

-----------------------------------------------------------------------------
(* The steps of a command, as far as the CLI is concerned. *)
LEMMA CommandStep ==
  ASSUME Commands, Targeted, NEW c \in Clients, Commanding(c)
  PROVE  Commands' /\ Targeted'
<1>1. Idle \in Command /\ Idle.step = "idle"
  BY DEF Idle, Command
<1>2. client[c] \in Command
  BY DEF Commands
<1>3. ASSUME Finish(c) PROVE Commands' /\ Targeted'
  <2>1. client' = [client EXCEPT ![c] = Idle]
    BY <1>3 DEF Finish
  <2> QED BY <1>1, <2>1 DEF Commands, Targeted
<1>4. ASSUME NEW step \in {"namespace", "update"}, ~At(c, "idle"),
             client' = [client EXCEPT ![c].step = step]
      PROVE Commands' /\ Targeted'
  <2> DEFINE q == [client[c] EXCEPT !.step = step]
  <2>1. q \in Command /\ q.target = client[c].target
    BY <1>2 DEF Command
  <2>2. client' = [client EXCEPT ![c] = q]
    BY <1>4
  <2>3. q.target \in Identities
    BY <1>4, <2>1 DEF At, Targeted
  <2> HIDE DEF q
  <2> QED BY <2>1, <2>2, <2>3 DEF Commands, Targeted
<1>5. ASSUME NEW i \in Identities, NEW a \in Aliases \cup {NoAlias}, AliasCommand(c, i, a)
      PROVE Commands' /\ Targeted'
  <2> DEFINE q == [Idle EXCEPT !.step = IF a = NoAlias THEN "update" ELSE "owner",
                               !.target = i, !.alias = a]
  <2>1. q \in Command /\ q.target = i
    BY DEF Idle, Command
  <2>2. client' = [client EXCEPT ![c] = q]
    BY <1>5 DEF AliasCommand
  <2> HIDE DEF q
  <2> QED BY <2>1, <2>2 DEF Commands, Targeted
<1>6. ASSUME NEW i \in Identities, RemoveCommand(c, i) PROVE Commands' /\ Targeted'
  <2> DEFINE q == [Idle EXCEPT !.step = "remove", !.target = i]
  <2>1. q \in Command /\ q.target = i
    BY DEF Idle, Command
  <2>2. client' = [client EXCEPT ![c] = q]
    BY <1>6 DEF RemoveCommand
  <2> HIDE DEF q
  <2> QED BY <2>1, <2>2 DEF Commands, Targeted
<1>7. ASSUME NEW i \in Identities, NEW m \in Messages, Send(c, i, m)
      PROVE Commands' /\ Targeted'
  BY <1>7 DEF Send, Commands, Targeted
<1>8. CASE CheckOwner(c)
  BY <1>3, <1>4, <1>8 DEF CheckOwner, At
<1>9. CASE CheckNamespaces(c)
  BY <1>3, <1>4, <1>9 DEF CheckNamespaces, At
<1>10. CASE UpdateAlias(c)
  BY <1>3, <1>10 DEF UpdateAlias
<1>11. CASE DeletePeer(c)
  BY <1>3, <1>11 DEF DeletePeer
<1> QED BY <1>5, <1>6, <1>7, <1>8, <1>9, <1>10, <1>11 DEF Commanding

LEMMA InvInit == Init => Inv
  BY ContactsAssumption
     DEF Init, Inv, Peers, Commands, OneOwner, Targeted, Known, Idle, Command

(* Every step: what it keeps of the rows, and that it keeps the invariant. *)
LEMMA NextStep ==
  ASSUME Inv, Next
  PROVE  /\ Inv'
         /\ \A i \in Known : i \in Known' =>
              /\ peers[i].has \subseteq peers'[i].has
              /\ peers'[i].alias # peers[i].alias =>
                   \E c \in Clients :
                     /\ At(c, "update") /\ ~At(c, "update")'
                     /\ client[c].target = i
                     /\ client[c].alias = peers'[i].alias
<1> DEFINE RowsKept ==
      \A i \in Known : i \in Known' =>
              /\ peers[i].has \subseteq peers'[i].has
              /\ peers'[i].alias # peers[i].alias =>
                   \E c \in Clients :
                     /\ At(c, "update") /\ ~At(c, "update")'
                     /\ client[c].target = i
                     /\ client[c].alias = peers'[i].alias
<1>1. ASSUME NEW i \in Identities, Handshake(i) \/ AddContact(i) PROVE Inv' /\ RowsKept
  <2>1. PICK offered \in SUBSET {"key", "mailbox"} : Record(i, offered)
    BY <1>1 DEF Handshake, AddContact
  <2>2. /\ Peers' /\ client' = client /\ OneOwner'
        /\ \A j \in Known : /\ peers'[j].alias = peers[j].alias
                            /\ peers[j].has \subseteq peers'[j].has
    BY <2>1, RecordStep DEF Inv
  <2>3. RowsKept
    BY <2>2
  <2>4. Commands' /\ Targeted'
    BY <2>2 DEF Inv, Commands, Targeted
  <2> HIDE DEF RowsKept
  <2> QED BY <2>2, <2>3, <2>4 DEF Inv
<1>2. ASSUME NEW c \in Clients, Commanding(c) PROVE Inv' /\ RowsKept
  <2>1. Commands' /\ Targeted'
    BY <1>2, CommandStep DEF Inv
  <2>2. CASE UpdateAlias(c)
    <3>1. /\ Peers' /\ OneOwner'
          /\ \A j \in Known :
               /\ peers'[j].has = peers[j].has
               /\ \/ peers'[j] = peers[j]
                  \/ j = client[c].target /\ peers'[j].alias = client[c].alias
      BY <2>2, UpdateStep
    <3>2. At(c, "update") /\ ~At(c, "update")'
      BY <2>2 DEF UpdateAlias, Finish, At, Idle, Inv, Commands
    <3>3. RowsKept
      BY <3>1, <3>2
    <3> HIDE DEF RowsKept
    <3> QED BY <2>1, <3>1, <3>3 DEF Inv
  <2>3. CASE DeletePeer(c)
    <3>1. Peers' /\ OneOwner' /\ \A j \in Known : j \in Known' => peers'[j] = peers[j]
      BY <2>3, DeleteStep
    <3>2. RowsKept
      BY <3>1
    <3> HIDE DEF RowsKept
    <3> QED BY <2>1, <3>1, <3>2 DEF Inv
  <2>4. CASE ~UpdateAlias(c) /\ ~DeletePeer(c)
    <3>1. peers' = peers
      BY <1>2, <2>4 DEF Commanding, AliasCommand, RemoveCommand, Send, CheckOwner, CheckNamespaces
    <3>2. RowsKept
      BY <3>1
    <3>3. Peers' /\ OneOwner'
      BY <3>1 DEF Inv, Peers, OneOwner, Known
    <3> HIDE DEF RowsKept
    <3> QED BY <2>1, <3>2, <3>3 DEF Inv
  <2> QED BY <2>2, <2>3, <2>4
<1>3. ASSUME ListQueued \/ \E m \in Messages : Accept(m) \/ Skip(m)
      PROVE Inv' /\ RowsKept
  <2>1. peers' = peers /\ client' = client
    BY <1>3 DEF ListQueued, Accept, Skip
  <2>2. RowsKept
    BY <2>1
  <2>3. Inv'
    BY <2>1 DEF Inv, Peers, Commands, OneOwner, Targeted, Known
  <2> HIDE DEF RowsKept
  <2> QED BY <2>2, <2>3
<1> HIDE DEF RowsKept
<1>4. Inv' /\ RowsKept
  BY <1>1, <1>2, <1>3 DEF Next
<1> QED BY <1>4 DEF RowsKept

LEMMA Invariance == Spec => []Inv
<1>1. Init => Inv
  BY InvInit
<1>2. Inv /\ [Next]_vars => Inv'
  <2> SUFFICES ASSUME Inv, [Next]_vars PROVE Inv'
    OBVIOUS
  <2>1. CASE Next
    BY <2>1, NextStep
  <2>2. CASE UNCHANGED vars
    BY <2>2 DEF vars, Inv, Peers, Commands, OneOwner, Targeted, Known
  <2> QED BY <2>1, <2>2
<1> QED BY <1>1, <1>2, PTL DEF Spec

-----------------------------------------------------------------------------
(* resolveSendRecipient and SetPeerAlias: a name reaches the peer it was given to,
   and nobody else. *)
THEOREM AliasesReachTheirPeers == Spec => []AliasReachesItsPeer
<1>1. Inv => AliasReachesItsPeer
  <2> SUFFICES ASSUME Inv, NEW i \in Known, peers[i].alias # NoAlias
               PROVE Resolved(peers[i].alias) = {i}
    BY DEF AliasReachesItsPeer
  <2>1. Owners(peers[i].alias) = {i}
    BY DEF Owners, Inv, OneOwner
  <2> QED BY <2>1 DEF Resolved
<1> QED BY <1>1, Invariance, PTL

(* RecordPeerIdentity, RecordPeerIdentityWithKey, RecordPeerContact, SetPeerAlias:
   what a handshake does not offer stays, and a name changes by command only. *)
THEOREM ContactsKept == Spec => ContactsKeep
<1> DEFINE RowsKept ==
      \A i \in Known : i \in Known' =>
              /\ peers[i].has \subseteq peers'[i].has
              /\ peers'[i].alias # peers[i].alias =>
                   \E c \in Clients :
                     /\ At(c, "update") /\ ~At(c, "update")'
                     /\ client[c].target = i
                     /\ client[c].alias = peers'[i].alias
<1>1. Inv /\ [Next]_vars => [RowsKept]_vars
  <2> SUFFICES ASSUME Inv, Next PROVE RowsKept
    OBVIOUS
  <2> QED BY NextStep
<1> HIDE DEF RowsKept
<1>2. Spec => [][RowsKept]_vars
  BY <1>1, Invariance, PTL DEF Spec
<1> QED BY <1>2 DEF ContactsKeep, RowsKept

-----------------------------------------------------------------------------
(***************************************************************************)
(* The queue of messages.                                                  *)
(***************************************************************************)

\* n comes before m in s.
Before(s, n, m) == \E j, k \in DOMAIN s : j < k /\ s[j] = n /\ s[k] = m

(* What is left of a sequence, and in which order. *)
LEMMA RemoveAtProperties ==
  ASSUME NEW S, NEW s \in Seq(S), NEW i \in 1 .. Len(s)
  PROVE  /\ RemoveAt(s, i) \in Seq(S)
         /\ Len(RemoveAt(s, i)) = Len(s) - 1
         /\ \A j \in 1 .. Len(s) - 1 :
              RemoveAt(s, i)[j] = IF j < i THEN s[j] ELSE s[j + 1]
<1> DEFINE front == SubSeq(s, 1, i - 1)
           back == SubSeq(s, i + 1, Len(s))
<1>1. /\ front \in Seq(S) /\ Len(front) = i - 1
      /\ \A j \in 1 .. i - 1 : front[j] = s[j]
  <2>1. \A j \in 1 .. i - 1 : s[j] \in S
    OBVIOUS
  <2> QED BY <2>1, SubSeqProperties
<1>2. /\ back \in Seq(S) /\ Len(back) = Len(s) - i
      /\ \A j \in 1 .. Len(s) - i : back[j] = s[i + j]
  <2>1. \A j \in i + 1 .. Len(s) : s[j] \in S
    OBVIOUS
  <2>2. i + 1 \in Int /\ Len(s) \in Int
    OBVIOUS
  <2>3. /\ back \in Seq(S)
        /\ Len(back) = IF i + 1 <= Len(s) THEN Len(s) - (i + 1) + 1 ELSE 0
        /\ \A j \in 1 .. Len(s) - (i + 1) + 1 : back[j] = s[(i + 1) + j - 1]
    BY <2>1, <2>2, SubSeqProperties
  <2> QED BY <2>3
<1>3. RemoveAt(s, i) = front \o back
  BY DEF RemoveAt
<1> HIDE DEF front, back
<1>4. /\ front \o back \in Seq(S)
      /\ Len(front \o back) = Len(s) - 1
      /\ \A j \in 1 .. Len(s) - 1 :
           (front \o back)[j] = IF j <= i - 1 THEN front[j] ELSE back[j - (i - 1)]
  BY <1>1, <1>2, ConcatProperties
<1>5. ASSUME NEW j \in 1 .. Len(s) - 1
      PROVE  (front \o back)[j] = IF j < i THEN s[j] ELSE s[j + 1]
  <2>1. CASE j < i
    BY <1>1, <1>4, <2>1
  <2>2. CASE ~(j < i)
    <3>1. /\ j - (i - 1) \in 1 .. Len(s) - i
          /\ i + (j - (i - 1)) = j + 1
          /\ ~(j <= i - 1)
      BY <2>2
    <3>2. back[j - (i - 1)] = s[i + (j - (i - 1))]
      BY <1>2, <3>1
    <3> QED BY <1>4, <2>2, <3>1, <3>2
  <2> QED BY <2>1, <2>2
<1> QED BY <1>3, <1>4, <1>5

LEMMA RemovedFromQueue ==
  ASSUME NEW S, NEW s \in Seq(S), IsInjective(s), NEW i \in DOMAIN s
  PROVE  /\ IsInjective(RemoveAt(s, i))
         /\ ToSet(RemoveAt(s, i)) = ToSet(s) \ {s[i]}
         /\ \A n, m : Before(RemoveAt(s, i), n, m) => Before(s, n, m)
<1> DEFINE r == RemoveAt(s, i)
           at(j) == IF j < i THEN j ELSE j + 1
<1>1. /\ DOMAIN s = 1 .. Len(s)
      /\ r \in Seq(S) /\ DOMAIN r = 1 .. Len(s) - 1
      /\ \A j \in DOMAIN r : at(j) \in DOMAIN s /\ at(j) # i /\ r[j] = s[at(j)]
  <2>1. DOMAIN s = 1 .. Len(s)
    OBVIOUS
  <2>2. /\ r \in Seq(S) /\ Len(r) = Len(s) - 1
        /\ \A j \in 1 .. Len(s) - 1 : r[j] = IF j < i THEN s[j] ELSE s[j + 1]
    BY <2>1, RemoveAtProperties
  <2> HIDE DEF r
  <2> QED BY <2>1, <2>2
<1> HIDE DEF r
<1>2. \A j, k \in DOMAIN r : j < k => at(j) < at(k)
  BY <1>1
<1>3. IsInjective(r)
  <2> SUFFICES ASSUME NEW j \in DOMAIN r, NEW k \in DOMAIN r, r[j] = r[k] PROVE j = k
    BY DEF IsInjective
  <2>1. at(j) = at(k)
    BY <1>1 DEF IsInjective
  <2> QED BY <1>1, <2>1
<1>4. ToSet(r) = ToSet(s) \ {s[i]}
  <2>1. ToSet(r) \subseteq ToSet(s) \ {s[i]}
    BY <1>1 DEF ToSet, IsInjective
  <2>2. ASSUME NEW k \in DOMAIN s, s[k] # s[i] PROVE s[k] \in ToSet(r)
    <3>1. PICK j \in DOMAIN r : at(j) = k
      <4>1. CASE k < i
        BY <1>1, <4>1
      <4>2. CASE k > i
        <5>1. k - 1 \in DOMAIN r /\ at(k - 1) = k
          BY <1>1, <4>2
        <5> QED BY <5>1
      <4> QED BY <1>1, <2>2, <4>1, <4>2
    <3> QED BY <1>1, <3>1 DEF ToSet
  <2> QED BY <2>1, <2>2 DEF ToSet
<1>5. ASSUME NEW n, NEW m, Before(r, n, m) PROVE Before(s, n, m)
  <2>1. PICK j \in DOMAIN r, k \in DOMAIN r : j < k /\ r[j] = n /\ r[k] = m
    BY <1>5 DEF Before
  <2> QED BY <1>1, <1>2, <2>1 DEF Before
<1> QED BY <1>3, <1>4, <1>5 DEF r

LEMMA AppendedToQueue ==
  ASSUME NEW S, NEW s \in Seq(S), IsInjective(s), NEW e \in S, e \notin ToSet(s)
  PROVE  /\ Append(s, e) \in Seq(S)
         /\ IsInjective(Append(s, e))
         /\ ToSet(Append(s, e)) = ToSet(s) \cup {e}
         /\ \A n, m : m # e /\ Before(Append(s, e), n, m) => Before(s, n, m)
<1> DEFINE a == Append(s, e)
<1>1. /\ DOMAIN s = 1 .. Len(s) /\ Len(s) \in Nat
      /\ a \in Seq(S) /\ DOMAIN a = 1 .. Len(s) + 1
      /\ \A j \in 1 .. Len(s) : a[j] = s[j]
      /\ a[Len(s) + 1] = e
  <2>1. a \in Seq(S) /\ Len(a) = Len(s) + 1
    BY AppendProperties
  <2>2. (\A j \in 1 .. Len(s) : a[j] = s[j]) /\ a[Len(s) + 1] = e
    BY AppendProperties
  <2>3. DOMAIN s = 1 .. Len(s) /\ Len(s) \in Nat
    OBVIOUS
  <2> HIDE DEF a
  <2>4. DOMAIN a = 1 .. Len(s) + 1
    BY <2>1
  <2> QED BY <2>1, <2>2, <2>3, <2>4
<1> HIDE DEF a
<1>2. \A j \in 1 .. Len(s) : s[j] # e
  BY <1>1 DEF ToSet
<1>3. IsInjective(a)
  <2> SUFFICES ASSUME NEW j \in DOMAIN a, NEW k \in DOMAIN a, a[j] = a[k] PROVE j = k
    BY DEF IsInjective
  <2>1. CASE j \in DOMAIN s /\ k \in DOMAIN s
    BY <1>1, <2>1 DEF IsInjective
  <2>2. CASE j = Len(s) + 1 \/ k = Len(s) + 1
    BY <1>1, <1>2, <2>2
  <2> QED BY <1>1, <2>1, <2>2
<1>4. ToSet(a) = ToSet(s) \cup {e}
  <2>1. ASSUME NEW j \in DOMAIN a PROVE a[j] \in ToSet(s) \cup {e}
    <3>1. j \in DOMAIN s \/ j = Len(s) + 1
      BY <1>1
    <3> QED BY <1>1, <3>1 DEF ToSet
  <2>2. ASSUME NEW j \in DOMAIN s PROVE s[j] \in ToSet(a)
    BY <1>1 DEF ToSet
  <2>3. e \in ToSet(a)
    <3>1. Len(s) + 1 \in DOMAIN a
      BY <1>1
    <3> QED BY <1>1, <3>1 DEF ToSet
  <2> QED BY <2>1, <2>2, <2>3 DEF ToSet
<1>5. ASSUME NEW n, NEW m, m # e, Before(a, n, m) PROVE Before(s, n, m)
  <2>1. PICK j \in DOMAIN a, k \in DOMAIN a : j < k /\ a[j] = n /\ a[k] = m
    BY <1>5 DEF Before
  <2>2. k # Len(s) + 1
    BY <1>1, <1>5, <2>1
  <2>3. j \in DOMAIN s /\ k \in DOMAIN s
    BY <1>1, <2>1, <2>2
  <2> QED BY <1>1, <2>1, <2>3 DEF Before
<1> QED BY <1>1, <1>3, <1>4, <1>5 DEF a

-----------------------------------------------------------------------------
\* Every message of this identity is queued once, for its recipient.
QueueInv ==
  /\ queue \in Seq(Messages) /\ retry \in Seq(Messages)
  /\ to \in [Messages -> Identities \cup {Unknown}]
  /\ IsInjective(queue)
  /\ ToSet(queue) \cap Own = {m \in Own : to[m] # Unknown}

\* What a step may do to a message that waits: the body of NobodyIsPassedOver.
NotPassedOver(m) ==
  /\ m \in ToSet(queue') => Older(m)' \subseteq Older(m)
  /\ retry = <<>> /\ retry' # <<>> =>
       m \in ToSet(retry') \/ Cardinality(Older(m)) >= QueueLimit
  /\ m \in ToSet(retry) => m \in ToSet(retry') \/ Listed(m)

LEMMA OlderIsBefore ==
  ASSUME NEW m
  PROVE  /\ Older(m) = {n \in ToSet(queue) : Before(queue, n, m)}
         /\ Older(m)' = {n \in ToSet(queue') : Before(queue', n, m)}
BY DEF Older, Before

LEMMA TailOfList ==
  ASSUME QueueInv, NEW m, Listed(m), retry' = Tail(retry)
  PROVE  /\ retry' \in Seq(Messages)
         /\ \A n \in ToSet(retry) : n \in ToSet(retry') \/ Listed(n)
<1>1. /\ retry \in Seq(Messages) /\ retry # <<>>
      /\ Head(retry) = retry[1]
  BY DEF QueueInv, Listed
<1>2. /\ retry' \in Seq(Messages) /\ Len(retry') = Len(retry) - 1
      /\ \A i \in 1 .. Len(retry') : retry'[i] = retry[i + 1]
  BY <1>1, HeadTailProperties
<1>3. ASSUME NEW i \in DOMAIN retry, i # 1 PROVE retry[i] \in ToSet(retry')
  <2>1. i - 1 \in DOMAIN retry' /\ retry'[i - 1] = retry[i]
    BY <1>1, <1>2, <1>3
  <2> QED BY <2>1 DEF ToSet
<1> QED BY <1>1, <1>2, <1>3 DEF ToSet, Listed

(* Whoever is not among the first QueueLimit has that many in front. *)
LEMMA EnoughOlder ==
  ASSUME QueueInv, NEW k \in DOMAIN queue
  PROVE  Cardinality(Older(queue[k])) = k - 1
<1> DEFINE m == queue[k]
           f == [j \in 1 .. k - 1 |-> queue[j]]
<1>1. queue \in Seq(Messages) /\ DOMAIN queue = 1 .. Len(queue) /\ IsInjective(queue)
  BY DEF QueueInv
<1>2. Older(m) = {queue[j] : j \in 1 .. k - 1}
  <2>1. ASSUME NEW j \in 1 .. k - 1 PROVE queue[j] \in Older(m)
    <3>1. j \in DOMAIN queue /\ j < k
      BY <1>1
    <3> QED BY <3>1 DEF Older, ToSet
  <2>2. ASSUME NEW n \in Older(m) PROVE \E j \in 1 .. k - 1 : n = queue[j]
    <3>1. PICK j \in DOMAIN queue, l \in DOMAIN queue :
             j < l /\ queue[j] = n /\ queue[l] = m
      BY DEF Older
    <3>2. l = k
      BY <1>1, <3>1 DEF IsInjective
    <3> QED BY <1>1, <3>1, <3>2
  <2> QED BY <2>1, <2>2
<1>3. f \in Bijection(1 .. k - 1, Older(m))
  <2>1. f \in [1 .. k - 1 -> Older(m)]
    BY <1>2
  <2>2. \A i, j \in 1 .. k - 1 : f[i] = f[j] => i = j
    BY <1>1 DEF IsInjective
  <2>3. \A n \in Older(m) : \E j \in 1 .. k - 1 : f[j] = n
    BY <1>2
  <2> HIDE DEF f
  <2> QED BY <2>1, <2>2, <2>3 DEF Bijection, Injection, Surjection, IsInjective
<1>4. IsFiniteSet(1 .. k - 1) /\ Cardinality(1 .. k - 1) = k - 1
  <2>1. 1 \in Int /\ k - 1 \in Int
    BY <1>1
  <2>2. /\ IsFiniteSet(1 .. k - 1)
        /\ Cardinality(1 .. k - 1) = IF 1 > k - 1 THEN 0 ELSE (k - 1) - 1 + 1
    BY <2>1, FS_Interval
  <2> QED BY <1>1, <2>2
<1>5. ExistsBijection(1 .. k - 1, Older(m))
  BY <1>3 DEF ExistsBijection
<1> QED BY <1>4, <1>5, FS_Bijection

LEMMA ListStep ==
  ASSUME QueueInv, ListQueued
  PROVE  /\ retry' \in Seq(Messages)
         /\ \A m \in ToSet(queue) :
              m \in ToSet(retry') \/ Cardinality(Older(m)) >= QueueLimit
<1> DEFINE n == IF Len(queue) < QueueLimit THEN Len(queue) ELSE QueueLimit
<1>1. retry' = SubSeq(queue, 1, n)
  BY DEF ListQueued, OldestQueued
<1>2. queue \in Seq(Messages) /\ DOMAIN queue = 1 .. Len(queue) /\ QueueLimit \in Nat
  BY ContactsAssumption DEF QueueInv
<1>3. n \in 0 .. Len(queue)
  BY <1>2
<1>4. \A i \in 1 .. n : queue[i] \in Messages
  BY <1>2, <1>3
<1>5. /\ retry' \in Seq(Messages) /\ Len(retry') = n
      /\ \A i \in 1 .. n : retry'[i] = queue[i]
  <2>1. 1 \in Int /\ n \in Int
    BY <1>3
  <2>2. /\ SubSeq(queue, 1, n) \in Seq(Messages)
        /\ Len(SubSeq(queue, 1, n)) = IF 1 <= n THEN n - 1 + 1 ELSE 0
        /\ \A i \in 1 .. n - 1 + 1 : SubSeq(queue, 1, n)[i] = queue[1 + i - 1]
    BY <1>4, <2>1, SubSeqProperties
  <2> HIDE DEF n
  <2> QED BY <1>1, <1>3, <2>2
<1>6. ASSUME NEW m \in ToSet(queue)
      PROVE  m \in ToSet(retry') \/ Cardinality(Older(m)) >= QueueLimit
  <2>1. PICK k \in DOMAIN queue : queue[k] = m
    BY DEF ToSet
  <2>2. CASE k <= n
    <3> HIDE DEF n
    <3>1. k \in DOMAIN retry' /\ retry'[k] = m
      BY <1>2, <1>3, <1>5, <2>1, <2>2
    <3> QED BY <3>1 DEF ToSet
  <2>3. CASE k > n
    <3>1. Cardinality(Older(m)) = k - 1
      BY <2>1, EnoughOlder
    <3> QED BY <1>2, <2>3, <3>1
  <2> QED BY <1>2, <1>3, <2>2, <2>3
<1> QED BY <1>5, <1>6

LEMMA QueueStep ==
  ASSUME QueueInv, Next
  PROVE  QueueInv' /\ \A m \in ToSet(queue) : NotPassedOver(m)
<1>1. queue \in Seq(Messages) /\ IsInjective(queue) /\ DOMAIN queue = 1 .. Len(queue)
  BY DEF QueueInv
<1>2. CASE UNCHANGED mail
  <2>1. QueueInv'
    BY <1>2 DEF mail, QueueInv
  <2>2. \A m \in ToSet(queue) : NotPassedOver(m)
    BY <1>2, OlderIsBefore DEF mail, NotPassedOver
  <2> QED BY <2>1, <2>2
<1>3. ASSUME NEW c \in Clients, NEW i \in Identities, NEW m \in Messages, Send(c, i, m)
      PROVE  QueueInv' /\ \A n \in ToSet(queue) : NotPassedOver(n)
  <2>1. /\ m \in Own /\ to[m] = Unknown /\ retry' = retry
        /\ to' = [to EXCEPT ![m] = i] /\ queue' = Append(queue, m)
    BY <1>3 DEF Send
  <2>2. m \notin ToSet(queue)
    BY <2>1 DEF QueueInv
  <2>3. /\ queue' \in Seq(Messages) /\ IsInjective(queue')
        /\ ToSet(queue') = ToSet(queue) \cup {m}
        /\ \A n, k : k # m /\ Before(queue', n, k) => Before(queue, n, k)
    BY <1>1, <2>1, <2>2, AppendedToQueue
  <2>4. i # Unknown
    BY ContactsAssumption
  <2>5. ToSet(queue') \cap Own = {n \in Own : to'[n] # Unknown}
    BY <2>1, <2>3, <2>4 DEF QueueInv, Own
  <2>6. QueueInv'
    BY <2>1, <2>3, <2>5 DEF QueueInv, Own
  <2>7. ASSUME NEW n \in ToSet(queue) PROVE NotPassedOver(n)
    <3>1. Older(n)' \subseteq Older(n)
      <4>1. ASSUME NEW k \in Older(n)' PROVE k \in Older(n)
        <5>1. Before(queue', k, n) /\ n # m
          BY <2>2, OlderIsBefore
        <5>2. Before(queue, k, n)
          BY <2>3, <5>1
        <5>3. k \in ToSet(queue)
          BY <5>2 DEF Before, ToSet
        <5> QED BY <5>2, <5>3, OlderIsBefore
      <4> QED BY <4>1
    <3> QED BY <2>1, <3>1 DEF NotPassedOver
  <2> QED BY <2>6, <2>7
<1>4. CASE ListQueued
  <2>1. /\ retry = <<>> /\ queue' = queue /\ to' = to
        /\ retry' \in Seq(Messages)
        /\ \A m \in ToSet(queue) :
              m \in ToSet(retry') \/ Cardinality(Older(m)) >= QueueLimit
    BY <1>4, ListStep DEF ListQueued
  <2>2. QueueInv'
    BY <2>1 DEF QueueInv
  <2>3. ToSet(retry) = {}
    BY <2>1 DEF ToSet
  <2>4. \A m \in ToSet(queue) : NotPassedOver(m)
    BY <2>1, <2>3, OlderIsBefore DEF NotPassedOver
  <2> QED BY <2>2, <2>4
<1>5. ASSUME NEW m \in Messages, Skip(m)
      PROVE  QueueInv' /\ \A n \in ToSet(queue) : NotPassedOver(n)
  <2>1. Listed(m) /\ retry' = Tail(retry) /\ queue' = queue /\ to' = to
    BY <1>5 DEF Skip
  <2>2. /\ retry' \in Seq(Messages)
        /\ \A n \in ToSet(retry) : n \in ToSet(retry') \/ Listed(n)
    BY <2>1, TailOfList
  <2>3. QueueInv'
    BY <2>1, <2>2 DEF QueueInv
  <2>4. \A n \in ToSet(queue) : NotPassedOver(n)
    BY <2>1, <2>2, OlderIsBefore DEF NotPassedOver, Listed
  <2> QED BY <2>3, <2>4
<1>6. ASSUME NEW m \in Messages, Accept(m)
      PROVE  QueueInv' /\ \A n \in ToSet(queue) : NotPassedOver(n)
  <2>1. Listed(m) /\ retry' = Tail(retry) /\ to' = [to EXCEPT ![m] = Unknown]
    BY <1>6 DEF Accept
  <2>2. PICK i \in DOMAIN queue : queue[i] = m /\ queue' = RemoveAt(queue, i)
    BY <1>6 DEF Accept
  <2>3. /\ IsInjective(queue')
        /\ ToSet(queue') = ToSet(queue) \ {m}
        /\ \A n, k : Before(queue', n, k) => Before(queue, n, k)
    BY <1>1, <2>2, RemovedFromQueue
  <2>4. queue' \in Seq(Messages)
    BY <1>1, <2>2, RemoveAtProperties
  <2>5. /\ retry' \in Seq(Messages)
        /\ \A n \in ToSet(retry) : n \in ToSet(retry') \/ Listed(n)
    BY <2>1, TailOfList
  <2>6. ToSet(queue') \cap Own = {n \in Own : to'[n] # Unknown}
    BY <2>1, <2>3 DEF QueueInv, Own
  <2>7. QueueInv'
    BY <2>1, <2>3, <2>4, <2>5, <2>6 DEF QueueInv, Own
  <2>8. ASSUME NEW n \in ToSet(queue) PROVE NotPassedOver(n)
    <3>1. Older(n)' \subseteq Older(n)
      BY <2>3, OlderIsBefore
    <3>2. retry # <<>>
      BY <2>1 DEF Listed
    <3> QED BY <2>5, <3>1, <3>2 DEF NotPassedOver
  <2> QED BY <2>7, <2>8
<1>7. ASSUME NEW c \in Clients, Commanding(c)
      PROVE  \/ UNCHANGED mail
             \/ \E i \in Identities, m \in Messages : Send(c, i, m)
  BY <1>7 DEF Commanding, AliasCommand, RemoveCommand, CheckOwner, CheckNamespaces,
              UpdateAlias, DeletePeer
<1>8. ASSUME NEW i \in Identities, Handshake(i) \/ AddContact(i) PROVE UNCHANGED mail
  BY <1>8 DEF Handshake, AddContact, Record
<1> QED BY <1>2, <1>3, <1>4, <1>5, <1>6, <1>7, <1>8 DEF Next

(* The quota of peers: whatever is recorded is counted first. *)
QuotaInv == IsFiniteSet(Known) /\ Cardinality(Known) <= PeerIdentitiesGlobal

LEMMA QuotaStep ==
  ASSUME Inv, QuotaInv, Next
  PROVE  QuotaInv'
<1>1. CASE Known' \subseteq Known
  <2>1. /\ IsFiniteSet(Known') /\ Cardinality(Known') <= Cardinality(Known)
    BY <1>1, FS_Subset DEF QuotaInv
  <2>2. Cardinality(Known') \in Nat /\ Cardinality(Known) \in Nat
    BY <2>1, FS_CardinalityType DEF QuotaInv
  <2> QED BY <2>1, <2>2, ContactsAssumption DEF QuotaInv
<1>2. ASSUME NEW i \in Identities, Handshake(i) \/ AddContact(i) PROVE QuotaInv'
  <2>1. PICK offered \in SUBSET {"key", "mailbox"} : Record(i, offered)
    BY <1>2 DEF Handshake, AddContact
  <2>2. /\ i \in Known \/ Cardinality(Known) < PeerIdentitiesGlobal
        /\ peers' = [peers EXCEPT ![i] = Merged(i, offered)]
    BY <2>1 DEF Record
  <2>3. Known' \subseteq Known \cup {i}
    BY <2>2 DEF Known, Inv, Peers
  <2>4. CASE i \in Known
    BY <1>1, <2>3, <2>4
  <2>5. CASE i \notin Known
    <3>1. /\ IsFiniteSet(Known \cup {i})
          /\ Cardinality(Known \cup {i}) = Cardinality(Known) + 1
      BY <2>5, FS_AddElement DEF QuotaInv
    <3>2. /\ IsFiniteSet(Known')
          /\ Cardinality(Known') <= Cardinality(Known \cup {i})
      BY <2>3, <3>1, FS_Subset
    <3>3. Cardinality(Known) \in Nat /\ Cardinality(Known') \in Nat
      BY <3>2, FS_CardinalityType DEF QuotaInv
    <3> QED BY <2>2, <2>5, <3>1, <3>2, <3>3, ContactsAssumption DEF QuotaInv
  <2> QED BY <2>4, <2>5
<1>3. ASSUME NEW c \in Clients, Commanding(c) PROVE Known' \subseteq Known
  <2>1. CASE UpdateAlias(c)
    BY <2>1 DEF UpdateAlias, Known, Inv, Peers
  <2>2. CASE DeletePeer(c)
    BY <2>2 DEF DeletePeer, Known, Inv, Peers
  <2>3. CASE ~UpdateAlias(c) /\ ~DeletePeer(c)
    BY <1>3, <2>3 DEF Commanding, AliasCommand, RemoveCommand, Send, CheckOwner,
                      CheckNamespaces, Known
  <2> QED BY <2>1, <2>2, <2>3
<1>4. ASSUME ListQueued \/ \E m \in Messages : Accept(m) \/ Skip(m)
      PROVE  Known' \subseteq Known
  BY <1>4 DEF ListQueued, Accept, Skip, Known
<1> QED BY <1>1, <1>2, <1>3, <1>4 DEF Next

LEMMA QueueInit == Init => QueueInv /\ QuotaInv
<1> SUFFICES ASSUME Init PROVE QueueInv /\ QuotaInv
  OBVIOUS
<1>1. QueueInv
  BY ContactsAssumption DEF Init, QueueInv, Own
<1>2. Known = {}
  BY DEF Init, Known
<1> QED BY <1>1, <1>2, FS_EmptySet, ContactsAssumption DEF QuotaInv

LEMMA QueueInvariance == Spec => [](QueueInv /\ QuotaInv)
<1>1. Inv /\ QueueInv /\ QuotaInv /\ [Next]_vars => (QueueInv /\ QuotaInv)'
  <2> SUFFICES ASSUME Inv, QueueInv, QuotaInv, [Next]_vars PROVE (QueueInv /\ QuotaInv)'
    OBVIOUS
  <2>1. CASE Next
    BY <2>1, QueueStep, QuotaStep
  <2>2. CASE UNCHANGED vars
    BY <2>2 DEF vars, mail, QueueInv, QuotaInv, Known
  <2> QED BY <2>1, <2>2
<1> QED BY <1>1, QueueInit, Invariance, PTL DEF Spec

-----------------------------------------------------------------------------
(* ensurePeerIdentityCapacity, the messages table and its status "queued": the
   types of the tables and commands; a message is queued once, with a recipient;
   and there are never more peers than the quota allows. *)
THEOREM ContactsTypeCorrect == Spec => []TypeOK
<1>1. Inv /\ QueueInv /\ QuotaInv => TypeOK
  BY DEF Inv, Peers, Commands, QueueInv, QuotaInv, TypeOK
<1> QED BY <1>1, Invariance, QueueInvariance, PTL

(* ListQueuedMessages and RetryQueuedMessages: with any number of messages and any
   limit, a message that waits never falls behind another one, is on every list
   that has room for it, and leaves the list by its own turn. *)
THEOREM TurnsAreKept == Spec => NobodyIsPassedOver
<1> DEFINE Turns ==
      \A m \in ToSet(queue) :
       /\ m \in ToSet(queue') => Older(m)' \subseteq Older(m)
       /\ retry = <<>> /\ retry' # <<>> =>
            m \in ToSet(retry') \/ Cardinality(Older(m)) >= QueueLimit
       /\ m \in ToSet(retry) => m \in ToSet(retry') \/ Listed(m)
<1>1. QueueInv /\ [Next]_vars => [Turns]_vars
  BY QueueStep DEF NotPassedOver
<1> HIDE DEF Turns
<1>2. Spec => [][Turns]_vars
  BY <1>1, QueueInvariance, PTL DEF Spec
<1> QED BY <1>2 DEF NobodyIsPassedOver, Turns
==============================================================================
