------------------------------- MODULE MCLaunch -------------------------------
(***************************************************************************)
(* Instances of Launch for TLC: the daemon and the CLI on the databases of *)
(* earlier releases.                                                       *)
(***************************************************************************)
EXTENDS Launch, TLC

CONSTANTS daemon, cli, a1, a2, alice, m1, m2, m3, user, ink

MCRequested == (daemon :> ink) @@ (cli :> NoName)

MCColumns == <<"alias", "folder", "submitter_hash">>

Row(direction, status) == [direction |-> direction, status |-> status]

Old(missing, indexed, first, second) ==
  [missing |-> missing, indexed |-> indexed,
   alias |-> (a1 :> first) @@ (a2 :> second),
   mail |-> (m1 :> Row("in", "delivered")) @@ (m2 :> Row("out", "sent"))
              @@ (m3 :> Row("queued", "sent")),
   mailbox |-> Absent]

\* A new database, one of this version and those of releases with aliases.
WithAliases ==
  {[Old({}, FALSE, NoAlias, NoAlias) EXCEPT !.mail = [m \in Mail |-> Row("sent", "pending")]],
   Old({"folder", "submitter_hash"}, FALSE, alice, Blank),
   Old({"submitter_hash"}, FALSE, NoAlias, Blank)}

\* The database of a release without aliases.
WithoutAliases == {Old({"alias", "folder", "submitter_hash"}, FALSE, NoAlias, NoAlias)}

\* ... and one that two peers of one alias were left in.
AllDatabases ==
  WithAliases \cup WithoutAliases \cup {Old({"folder"}, FALSE, alice, alice)}
==============================================================================
