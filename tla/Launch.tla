-------------------------------- MODULE Launch --------------------------------
(***************************************************************************)
(* How a process of a node starts: the daemon (cmd/inkmaild) and the CLI   *)
(* (cmd/inkmail) on one data directory.  identity.LoadOrCreate reads or    *)
(* writes the files of the identity, database.Open migrates the database   *)
(* and GetOrCreateMailboxID reads or draws the mailbox address.  There is  *)
(* no lock: a file is truncated and then written, every statement of the   *)
(* migration commits on its own, and a process may die between any two.    *)
(*                                                                         *)
(* public.key and enc_public.key are written and never read; they are left *)
(* out.  What a process draws at random is named after the process: a file *)
(* that exists is never drawn again, so it draws what others see once.     *)
(***************************************************************************)
EXTENDS Integers, Sequences, SequencesExt

CONSTANTS
  Processes,        \* the daemon and the CLI of one data directory
  Names,            \* namespaces
  NoName,           \* no -user flag
  defaultNamespace,
  Requested,        \* the -user flag of each process
  Absent,           \* a file, or a row, that does not exist
  Damaged,          \* a file that was truncated, or overwritten in part
  AddedColumns,     \* the columns migrate adds, in order
  Peers,            \* rows of peer_identities
  Aliases,          \* up to case
  NoAlias, Blank,   \* '' and white space
  Mail,             \* rows of messages
  Databases,        \* the databases that earlier releases may have left
  MaxFaults         \* bound on the launches that die or fail on the way

VARIABLES
  file,    \* the files of the identity directory
  db,      \* node.db
  proc,    \* the processes
  faults

vars == <<file, db, proc, faults>>

Files == {"namespace", "private.key", "enc_private.key"}
Columns == ToSet(AddedColumns)

MailRow == [direction : {"in", "out", "queued", "received", "sent"},
            status : {"queued", "sent", "pending", "delivered"}]

Database ==
  [missing : SUBSET Columns,    \* columns the tables do not have yet
   indexed : BOOLEAN,           \* idx_peer_identities_alias exists
   alias   : [Peers -> Aliases \cup {NoAlias, Blank}],
   mail    : [Mail -> MailRow],
   mailbox : Processes \cup {Absent}]

\* step is read, create or write for the file "on", or statement for the one
\* that is next; has is the identity in memory; late tells whether the launch
\* began after the files were there.
Process ==
  [step : {"off", "read", "create", "write", "statement", "select", "insert",
           "check", "running"},
   on : Files, next : Nat, has : [Files -> Names \cup Processes \cup {Absent}],
   mailbox : Processes \cup {Absent}, late : BOOLEAN]

ASSUME LaunchAssumption ==
  /\ Absent \notin Names \cup Processes
  /\ Damaged \notin Names \cup Processes \cup {Absent}
  /\ NoName \notin Names
  /\ defaultNamespace \in Names
  /\ Requested \in [Processes -> Names \cup {NoName}]
  /\ NoAlias \notin Aliases /\ Blank \notin Aliases \cup {NoAlias}
  /\ AddedColumns \in Seq(Columns)
  /\ "alias" \in Columns
  /\ Columns \cap {"index", "queued", "blank", "in", "out"} = {}
  /\ Databases \subseteq Database
  /\ MaxFaults \in Nat

-----------------------------------------------------------------------------
(***************************************************************************)
(* The identity                                                            *)
(***************************************************************************)

Off == [step |-> "off", on |-> "namespace", next |-> 1,
        has |-> [f \in Files |-> Absent], mailbox |-> Absent, late |-> FALSE]

Init ==
  /\ file = [f \in Files |-> Absent]
  /\ db \in Databases
  /\ proc = [p \in Processes |-> Off]
  /\ faults = 0

At(p, step, f) == proc[p].step = step /\ proc[p].on = f

\* Nobody is about to write a file, and there is nothing left to write.
Valid(f) == file[f] \notin {Absent, Damaged}
Settled ==
  /\ \A f \in Files : Valid(f)
  /\ \A p \in Processes : proc[p].step \notin {"create", "write"}

Start(p) ==
  /\ proc[p].step = "off"
  /\ proc' = [proc EXCEPT ![p].step = "read", ![p].late = Settled]
  /\ UNCHANGED <<file, db, faults>>

\* Mutant: without -user the empty namespace is stored.
OwnUnchecked(p, f) == IF f = "namespace" THEN Requested[p] ELSE p

\* What a process puts into a file that does not exist.
Own(p, f) ==
  CASE f # "namespace"       -> p
    [] Requested[p] = NoName -> defaultNamespace
    [] OTHER                 -> Requested[p]

\* Mutant: an encryption key is drawn at every launch.
ReadAlways(p, f) ==
  CASE f = "namespace"   -> [proc[p] EXCEPT !.step = "read", !.on = "private.key"]
    [] f = "private.key" -> [proc[p] EXCEPT !.step = "create", !.on = "enc_private.key"]
    [] OTHER             -> [proc[p] EXCEPT !.step = "statement"]

\* Where LoadOrCreate goes on after a file it has read; after a private.key it
\* has written it draws an encryption key without looking for one.
AfterRead(p, f) ==
  CASE f = "namespace"   -> [proc[p] EXCEPT !.step = "read", !.on = "private.key"]
    [] f = "private.key" -> [proc[p] EXCEPT !.step = "read", !.on = "enc_private.key"]
    [] OTHER             -> [proc[p] EXCEPT !.step = "statement"]

AfterWrite(p, f) ==
  CASE f = "namespace"   -> [proc[p] EXCEPT !.step = "read", !.on = "private.key"]
    [] f = "private.key" -> [proc[p] EXCEPT !.step = "create", !.on = "enc_private.key"]
    [] OTHER             -> [proc[p] EXCEPT !.step = "statement"]

\* Mutant: a launch goes by the flag, whatever the file says.
LoadedOwn(p, f) == IF f = "namespace" THEN Own(p, f) ELSE file[f]

Loaded(p, f) == file[f]

\* A damaged file, or a -user flag that differs from the file, ends the launch.
Refused(p, f) ==
  \/ file[f] = Damaged
  \/ f = "namespace" /\ Requested[p] \notin {NoName, file[f]}

Read(p, f) ==
  /\ At(p, "read", f)
  /\ \/ /\ file[f] = Absent
        /\ proc' = [proc EXCEPT ![p].step = "create"]
     \/ /\ file[f] # Absent
        /\ Refused(p, f)
        /\ proc' = [proc EXCEPT ![p] = Off]
     \/ /\ file[f] # Absent
        /\ ~Refused(p, f)
        /\ proc' = [proc EXCEPT ![p] =
                      [AfterRead(p, f) EXCEPT !.has[f] = Loaded(p, f)]]
  /\ UNCHANGED <<file, db, faults>>

\* os.WriteFile opens and truncates the file ...
Create(p, f) ==
  /\ At(p, "create", f)
  /\ file' = [file EXCEPT ![f] = Damaged]
  /\ proc' = [proc EXCEPT ![p].step = "write"]
  /\ UNCHANGED <<db, faults>>

\* ... and writes it.  A shorter namespace does not cover a longer one that
\* another process has written since; keys have one length.
Write(p, f) ==
  /\ At(p, "write", f)
  /\ \/ file' = [file EXCEPT ![f] = Own(p, f)]
     \/ /\ f = "namespace" /\ file[f] \in Names \ {Own(p, f)}
        /\ file' = [file EXCEPT ![f] = Damaged]
  /\ proc' = [proc EXCEPT ![p] = [AfterWrite(p, f) EXCEPT !.has[f] = Own(p, f)]]
  /\ UNCHANGED <<db, faults>>

-----------------------------------------------------------------------------
(***************************************************************************)
(* The database: init and migrate as one sequence of statements.  Tables   *)
(* that do not exist are created whole; the replay backfill is HeldStore's. *)
(***************************************************************************)

Statements ==
  <<"index">> \o AddedColumns \o <<"queued", "index", "blank", "in", "out">>

\* Mutant: a column that exists fails the migration.
SucceedsOnce(s) ==
  IF s \in Columns THEN s \in db.missing
  ELSE (s = "index" /\ ~db.indexed) =>
         /\ "alias" \notin db.missing
         /\ \A a, b \in Peers :
              (a # b /\ db.alias[a] = db.alias[b]) => db.alias[a] = NoAlias

\* Adding a column that exists is no error; the unique index needs its column
\* and no two peers of one alias, blank ones included.
Succeeds(s) ==
  (s = "index" /\ ~db.indexed) =>
    /\ "alias" \notin db.missing
    /\ \A a, b \in Peers :
         (a # b /\ db.alias[a] = db.alias[b]) => db.alias[a] = NoAlias

Renamed(row, from, to) ==
  IF row.direction = from THEN [row EXCEPT !.direction = to] ELSE row

Executed(s) ==
  CASE s \in Columns -> [db EXCEPT !.missing = @ \ {s}]
    [] s = "index"   -> [db EXCEPT !.indexed = TRUE]
    [] s = "queued"  ->
         [db EXCEPT !.mail =
            [m \in Mail |->
               IF db.mail[m] = [direction |-> "queued", status |-> "sent"]
               THEN [direction |-> "sent", status |-> "pending"]
               ELSE db.mail[m]]]
    [] s = "blank"   ->
         [db EXCEPT !.alias =
            [a \in Peers |->
               IF db.alias[a] = Blank THEN NoAlias ELSE db.alias[a]]]
    [] s = "in"      ->
         [db EXCEPT !.mail =
            [m \in Mail |-> Renamed(db.mail[m], "in", "received")]]
    [] OTHER         ->
         [db EXCEPT !.mail = [m \in Mail |-> Renamed(db.mail[m], "out", "sent")]]

\* Mutant: the first column that exists tells that the database is migrated.
AfterStatementEarly(p, s) ==
  IF proc[p].next = Len(Statements) \/ (s \in Columns /\ s \notin db.missing)
  THEN [proc[p] EXCEPT !.step = "select", !.next = 1]
  ELSE [proc[p] EXCEPT !.next = @ + 1]

AfterStatement(p, s) ==
  IF proc[p].next = Len(Statements)
  THEN [proc[p] EXCEPT !.step = "select", !.next = 1]
  ELSE [proc[p] EXCEPT !.next = @ + 1]

Migrate(p) ==
  /\ proc[p].step = "statement"
  /\ LET s == Statements[proc[p].next] IN
     \/ /\ Succeeds(s)
        /\ db' = Executed(s)
        /\ proc' = [proc EXCEPT ![p] = AfterStatement(p, s)]
     \/ /\ ~Succeeds(s)
        /\ proc' = [proc EXCEPT ![p] = Off]
        /\ UNCHANGED db
  /\ UNCHANGED <<file, faults>>

-----------------------------------------------------------------------------
(***************************************************************************)
(* The mailbox address, and the processes                                  *)
(***************************************************************************)

\* GetOrCreateMailboxID: SELECT, then INSERT, then SELECT again.
SelectMailbox(p) ==
  /\ proc[p].step \in {"select", "check"}
  /\ proc' = [proc EXCEPT ![p] =
                IF db.mailbox = Absent
                THEN [@ EXCEPT !.step = "insert"]
                ELSE [@ EXCEPT !.step = "running", !.mailbox = db.mailbox]]
  /\ UNCHANGED <<file, db, faults>>

\* Mutant: the address just drawn replaces the stored one.
InsertReplaces(p) ==
  /\ proc[p].step = "insert"
  /\ db' = [db EXCEPT !.mailbox = p]
  /\ proc' = [proc EXCEPT ![p].step = "check"]
  /\ UNCHANGED <<file, faults>>

\* ON CONFLICT DO NOTHING
InsertMailbox(p) ==
  /\ proc[p].step = "insert"
  /\ db' = [db EXCEPT !.mailbox = IF @ = Absent THEN p ELSE @]
  /\ proc' = [proc EXCEPT ![p].step = "check"]
  /\ UNCHANGED <<file, faults>>

Quit(p) ==
  /\ proc[p].step = "running"
  /\ proc' = [proc EXCEPT ![p] = Off]
  /\ UNCHANGED <<file, db, faults>>

\* The process is killed, its disk is full or the other one locks the database.
Fault(p) ==
  /\ proc[p].step \notin {"off", "running"}
  /\ faults < MaxFaults
  /\ faults' = faults + 1
  /\ proc' = [proc EXCEPT ![p] = Off]
  /\ UNCHANGED <<file, db>>

Launching(p) ==
  \/ Start(p)
  \/ \E f \in Files : Read(p, f) \/ Create(p, f) \/ Write(p, f)
  \/ Migrate(p)
  \/ SelectMailbox(p)
  \/ InsertMailbox(p)

Next == \E p \in Processes : Launching(p) \/ Quit(p) \/ Fault(p)

Spec == Init /\ [][Next]_vars

(***************************************************************************)
(* A process that does not run is started again (by its user, or by the    *)
(* service manager) and goes on with its launch.                           *)
(***************************************************************************)
FairSpec == Spec /\ \A p \in Processes : WF_vars(Launching(p))

-----------------------------------------------------------------------------
(***************************************************************************)
(* Properties                                                              *)
(***************************************************************************)

Running(p) == proc[p].step = "running"

\* The types of the files, of the database and of the processes.
TypeOK ==
  /\ file \in [Files -> Names \cup Processes \cup {Absent, Damaged}]
  /\ db \in Database
  /\ proc \in [Processes -> Process]
  /\ faults \in Nat

\* What a statement was to achieve, whoever ran it.
Done(s) ==
  /\ s \in Columns => s \notin db.missing
  /\ s = "index" => db.indexed
  /\ s = "blank" => \A a \in Peers : db.alias[a] # Blank
  /\ s = "queued" => \A m \in Mail :
                       db.mail[m] # [direction |-> "queued", status |-> "sent"]
  /\ s = "in" => \A m \in Mail : db.mail[m].direction # "in"
  /\ s = "out" => \A m \in Mail : db.mail[m].direction # "out"

\* A process runs on a database of its own version only: wherever an earlier
\* migration was killed, and whatever another process migrates meanwhile.
RunningMeansMigrated ==
  (\E p \in Processes : Running(p)) => \A i \in DOMAIN Statements : Done(Statements[i])

\* Every process of a node collects mail for the same address, the stored one,
\* even when both drew an address at their first launch.
MailboxIsOne ==
  \A p \in Processes :
    Running(p) => proc[p].mailbox = db.mailbox /\ db.mailbox # Absent

\* A process that is started once the files are there runs with the identity in
\* them.  (Two first launches at the same time may run with different keys.)
LateLaunchesAgree ==
  \A p \in Processes :
    (Running(p) /\ proc[p].late) => proc[p].has = file

\* Once every file is there and nobody is writing one, the identity is final; and
\* the mailbox address, once stored, is never replaced: mail that is held for it
\* can be collected after any restart.
IdentityIsFinal ==
  [][/\ Settled => UNCHANGED file /\ Settled'
     /\ db.mailbox # Absent => UNCHANGED db.mailbox]_vars

\* Nothing but a damaged file, a -user flag that differs from the namespace and
\* a database that init refuses keeps a process that is started again and again
\* from running.
Hopeless(p) ==
  \/ \E f \in Files : file[f] = Damaged
  \/ Requested[p] \notin {NoName, file["namespace"]}
  \/ ~Succeeds("index")
EventuallyRuns ==
  \A p \in Processes : []<>(Running(p) \/ Hopeless(p))

\* "Existing ~/.inkmail data therefore needs no manual cleanup": no statement
\* fails on the database of an earlier release.
EarlierReleasesOpen ==
  \A p \in Processes :
    proc[p].step = "statement" => Succeeds(Statements[proc[p].next])
==============================================================================
