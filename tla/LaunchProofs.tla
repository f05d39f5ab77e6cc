----------------------------- MODULE LaunchProofs -----------------------------
(***************************************************************************)
(* Proofs about Launch, for every set of processes, every order of the     *)
(* added columns, every database of an earlier release and any number of   *)
(* launches that die on the way.                                           *)
(***************************************************************************)
EXTENDS Launch, SequenceTheorems, TLAPS

-----------------------------------------------------------------------------
(***************************************************************************)
(* The statements of the migration                                         *)
(***************************************************************************)

Kinds == Columns \cup {"index", "queued", "blank", "in", "out"}

LEMMA StatementsType == Statements \in Seq(Kinds)
<1>1. AddedColumns \in Seq(Kinds)
  BY LaunchAssumption DEF Kinds
<1>2. <<"index">> \in Seq(Kinds)
      /\ <<"queued", "index", "blank", "in", "out">> \in Seq(Kinds)
  BY DEF Kinds
<1>3. QED
  BY <1>1, <1>2, ConcatProperties DEF Statements

\* A statement achieves what it is for ...
LEMMA ExecutedIsDone ==
  ASSUME TypeOK, NEW s, db' = Executed(s)
  PROVE  Done(s)'
BY LaunchAssumption DEF TypeOK, Database, Executed, Done, Renamed

\* ... and undoes nothing that another one achieved.
LEMMA ExecutedKeeps ==
  ASSUME TypeOK, NEW s, NEW t, Done(t), db' = Executed(s)
  PROVE  Done(t)'
BY LaunchAssumption DEF TypeOK, Database, Executed, Done, Renamed

LEMMA ExecutedType ==
  ASSUME TypeOK, NEW s
  PROVE  Executed(s) \in Database /\ Executed(s).mailbox = db.mailbox
<1>1. db \in Database
  BY DEF TypeOK
<1>2. ASSUME NEW from, NEW to \in {"received", "sent"}
      PROVE  [m \in Mail |-> Renamed(db.mail[m], from, to)] \in [Mail -> MailRow]
  <2>1. ASSUME NEW m \in Mail
        PROVE  Renamed(db.mail[m], from, to) \in MailRow
    <3>1. db.mail[m] \in MailRow
      BY <1>1 DEF Database
    <3>2. QED
      BY <3>1 DEF Renamed, MailRow
  <2>2. QED
    BY <2>1
<1>3. CASE s \in Columns
  <2>1. Executed(s) = [db EXCEPT !.missing = db.missing \ {s}]
    BY <1>3, LaunchAssumption DEF Executed
  <2>2. QED
    BY <1>1, <2>1 DEF Database
<1>4. CASE s \notin Columns /\ s = "index"
  BY <1>1, <1>4 DEF Executed, Database
<1>5. CASE s \notin Columns /\ s = "queued"
  BY <1>1, <1>5 DEF Executed, Database, MailRow
<1>6. CASE s \notin Columns /\ s = "blank"
  BY <1>1, <1>6 DEF Executed, Database
<1>7. CASE s \notin Columns /\ s = "in"
  BY <1>1, <1>2, <1>7 DEF Executed, Database
<1>8. CASE s \notin Columns /\ s \notin {"index", "queued", "blank", "in"}
  BY <1>1, <1>2, <1>8 DEF Executed, Database
<1>9. QED
  BY <1>3, <1>4, <1>5, <1>6, <1>7, <1>8

-----------------------------------------------------------------------------
(***************************************************************************)
(* Types                                                                   *)
(***************************************************************************)

LEMMA TypeStart == Init => TypeOK
BY LaunchAssumption DEF Init, TypeOK, Process, Off, Files

LEMMA OwnType ==
  ASSUME NEW p \in Processes, NEW f \in Files
  PROVE  Own(p, f) \in Names \cup Processes
BY LaunchAssumption DEF Own

LEMMA OffType == Off \in Process
BY DEF Off, Process, Files

LEMMA AfterFileType ==
  ASSUME TypeOK, NEW p \in Processes, NEW f \in Files,
         NEW value \in Names \cup Processes \cup {Absent}
  PROVE  /\ [AfterRead(p, f) EXCEPT !.has[f] = value] \in Process
         /\ [AfterWrite(p, f) EXCEPT !.has[f] = value] \in Process
<1>1. AfterRead(p, f) \in Process /\ AfterWrite(p, f) \in Process
  BY DEF TypeOK, Process, AfterRead, AfterWrite, Files
<1>2. ASSUME NEW r \in Process
      PROVE  [r EXCEPT !.has[f] = value] \in Process
  <2>1. [r.has EXCEPT ![f] = value] \in [Files -> Names \cup Processes \cup {Absent}]
    BY DEF Process
  <2>2. [r EXCEPT !.has = [r.has EXCEPT ![f] = value]] \in Process
    BY <2>1 DEF Process
  <2>3. QED
    BY <2>2
<1>3. QED
  BY <1>1, <1>2

LEMMA TypeStep == TypeOK /\ [Next]_vars => TypeOK'
<1> SUFFICES ASSUME TypeOK, [Next]_vars PROVE TypeOK'
  OBVIOUS
<1>1. ASSUME NEW p \in Processes, Start(p) PROVE TypeOK'
  <2>1. [proc[p] EXCEPT !.step = "read", !.late = Settled] \in Process
    BY DEF TypeOK, Process, Settled
  <2>2. proc' \in [Processes -> Process]
    BY <1>1, <2>1 DEF Start, TypeOK
  <2>3. QED
    BY <1>1, <2>2 DEF Start, TypeOK
<1>2. ASSUME NEW p \in Processes, NEW f \in Files, Read(p, f) PROVE TypeOK'
  <2>1. Loaded(p, f) \in Names \cup Processes \cup {Absent} \/ Refused(p, f)
    BY DEF TypeOK, Loaded, Refused
  <2>2. [proc[p] EXCEPT !.step = "create"] \in Process
    BY DEF TypeOK, Process
  <2>3. proc' \in [Processes -> Process]
    <3>1. CASE proc' = [proc EXCEPT ![p].step = "create"]
      BY <2>2, <3>1 DEF TypeOK
    <3>2. CASE proc' = [proc EXCEPT ![p] = Off]
      BY <3>2, OffType DEF TypeOK
    <3>3. CASE /\ ~Refused(p, f)
               /\ proc' = [proc EXCEPT ![p] =
                             [AfterRead(p, f) EXCEPT !.has[f] = Loaded(p, f)]]
      BY <2>1, <3>3, AfterFileType DEF TypeOK
    <3>4. QED
      BY <1>2, <3>1, <3>2, <3>3 DEF Read
  <2>4. QED
    BY <1>2, <2>3 DEF Read, TypeOK
<1>3. ASSUME NEW p \in Processes, NEW f \in Files, Create(p, f) PROVE TypeOK'
  <2>1. [proc[p] EXCEPT !.step = "write"] \in Process
    BY DEF TypeOK, Process
  <2>2. QED
    BY <1>3, <2>1 DEF Create, TypeOK
<1>4. ASSUME NEW p \in Processes, NEW f \in Files, Write(p, f) PROVE TypeOK'
  <2>1. proc' \in [Processes -> Process]
    BY <1>4, OwnType, AfterFileType DEF Write, TypeOK
  <2>2. file' \in [Files -> Names \cup Processes \cup {Absent, Damaged}]
    BY <1>4, OwnType DEF Write, TypeOK
  <2>3. QED
    BY <1>4, <2>1, <2>2 DEF Write, TypeOK
<1>5. ASSUME NEW p \in Processes, Migrate(p) PROVE TypeOK'
  <2> DEFINE s == Statements[proc[p].next]
  <2>1. CASE proc' = [proc EXCEPT ![p] = Off] /\ UNCHANGED db
    BY <1>5, <2>1, OffType DEF Migrate, TypeOK
  <2>2. CASE /\ db' = Executed(s)
             /\ proc' = [proc EXCEPT ![p] = AfterStatement(p, s)]
    <3>1. Executed(s) \in Database
      BY ExecutedType
    <3>2. proc[p].next + 1 \in Nat /\ proc[p] \in Process
      BY DEF TypeOK, Process
    <3>4. AfterStatement(p, s) \in Process
      BY <3>2 DEF Process, AfterStatement
    <3>3. QED
      BY <1>5, <2>2, <3>1, <3>4 DEF Migrate, TypeOK
  <2>3. QED
    BY <1>5, <2>1, <2>2 DEF Migrate
<1>6. ASSUME NEW p \in Processes, SelectMailbox(p) PROVE TypeOK'
  <2>1. /\ [proc[p] EXCEPT !.step = "insert"] \in Process
        /\ [proc[p] EXCEPT !.step = "running", !.mailbox = db.mailbox] \in Process
    <3>1. db.mailbox \in Processes \cup {Absent}
      BY DEF TypeOK, Database
    <3>2. QED
      BY <3>1 DEF TypeOK, Process
  <2>2. QED
    BY <1>6, <2>1 DEF SelectMailbox, TypeOK
<1>7. ASSUME NEW p \in Processes, InsertMailbox(p) PROVE TypeOK'
  <2>1. [proc[p] EXCEPT !.step = "check"] \in Process
    BY DEF TypeOK, Process
  <2>2. db' \in Database
    BY <1>7 DEF InsertMailbox, TypeOK, Database
  <2>3. QED
    BY <1>7, <2>1, <2>2 DEF InsertMailbox, TypeOK
<1>8. ASSUME NEW p \in Processes, Quit(p) \/ Fault(p) PROVE TypeOK'
  BY <1>8, OffType DEF Quit, Fault, TypeOK
<1>9. CASE UNCHANGED vars
  BY <1>9 DEF vars, TypeOK
<1>10. QED
  BY <1>1, <1>2, <1>3, <1>4, <1>5, <1>6, <1>7, <1>8, <1>9 DEF Next, Launching

\* Whatever dies or overwrites whatever, files, database and processes keep
\* their types: no process goes on with a file it could not use.
THEOREM LaunchTypeCorrect == Spec => []TypeOK
BY TypeStart, TypeStep, PTL DEF Spec

-----------------------------------------------------------------------------
(***************************************************************************)
(* The migration and the mailbox address                                   *)
(***************************************************************************)

Migrated == \A i \in DOMAIN Statements : Done(Statements[i])

Opened(p) == proc[p].step \in {"select", "insert", "check", "running"}

\* A process that is at a statement has seen all the earlier ones achieved, and
\* one that is past the last has seen all; what is achieved remains so whoever
\* executes what afterwards.
OpenInv ==
  \A p \in Processes :
    /\ proc[p].step # "statement" => proc[p].next = 1
    /\ proc[p].step = "statement" =>
         /\ proc[p].next \in 1..Len(Statements)
         /\ \A i \in 1..(proc[p].next - 1) : Done(Statements[i])
    /\ Opened(p) => Migrated
    /\ proc[p].step = "check" => db.mailbox # Absent
    /\ Running(p) => proc[p].mailbox = db.mailbox /\ db.mailbox # Absent

LEMMA StatementsNotEmpty == Len(Statements) \in Nat \ {0}
<1>1. AddedColumns \in Seq(Kinds)
  BY LaunchAssumption DEF Kinds
<1>2. /\ <<"index">> \in Seq(Kinds)
      /\ <<"queued", "index", "blank", "in", "out">> \in Seq(Kinds)
      /\ Len(<<"index">>) = 1
      /\ Len(<<"queued", "index", "blank", "in", "out">>) = 5
  BY DEF Kinds
<1>3. Len(<<"index">> \o AddedColumns) = 1 + Len(AddedColumns)
      /\ <<"index">> \o AddedColumns \in Seq(Kinds)
      /\ Len(AddedColumns) \in Nat
  BY <1>1, <1>2, ConcatProperties, LenProperties
<1>4. Len(Statements) = Len(<<"index">> \o AddedColumns) + 5
  BY <1>2, <1>3, ConcatProperties DEF Statements
<1>5. QED
  BY <1>3, <1>4

LEMMA DomainOfStatements == DOMAIN Statements = 1..Len(Statements)
BY StatementsType, LenProperties

\* What any step leaves of the database.
LEMMA StepKeepsDone ==
  ASSUME TypeOK, Next
  PROVE  /\ \A t : Done(t) => Done(t)'
         /\ db.mailbox # Absent => db'.mailbox = db.mailbox
<1>1. CASE UNCHANGED db
  BY <1>1 DEF Done
<1>2. ASSUME NEW p \in Processes, InsertMailbox(p)
      PROVE  /\ \A t : Done(t) => Done(t)'
             /\ db.mailbox # Absent => db'.mailbox = db.mailbox
  BY <1>2 DEF InsertMailbox, Done, TypeOK, Database
<1>3. ASSUME NEW p \in Processes, Migrate(p), ~UNCHANGED db
      PROVE  /\ \A t : Done(t) => Done(t)'
             /\ db.mailbox # Absent => db'.mailbox = db.mailbox
  <2>1. PICK s : db' = Executed(s)
    BY <1>3 DEF Migrate
  <2>2. ASSUME NEW t, Done(t)
        PROVE  Done(t)'
    BY <2>1, <2>2, ExecutedKeeps
  <2>3. QED
    BY <2>1, <2>2, ExecutedType
<1>4. QED
  BY <1>1, <1>2, <1>3
  DEF Next, Launching, Start, Read, Create, Write, SelectMailbox, Quit, Fault

LEMMA OpenStart == Init => OpenInv
BY DEF Init, OpenInv, Off, Opened, Running

\* Of the process that takes the step only.
OpenFor(p) ==
  /\ proc[p].step # "statement" => proc[p].next = 1
  /\ proc[p].step = "statement" =>
       /\ proc[p].next \in 1..Len(Statements)
       /\ \A i \in 1..(proc[p].next - 1) : Done(Statements[i])
  /\ Opened(p) => Migrated
  /\ proc[p].step = "check" => db.mailbox # Absent
  /\ Running(p) => proc[p].mailbox = db.mailbox /\ db.mailbox # Absent

LEMMA OpenOthers ==
  ASSUME TypeOK, Next, NEW q \in Processes, OpenFor(q), proc'[q] = proc[q]
  PROVE  OpenFor(q)'
<1>1. Migrated => Migrated'
  BY StepKeepsDone DEF Migrated
<1>2. ASSUME NEW i \in 1..(proc[q].next - 1), Done(Statements[i])
      PROVE  Done(Statements[i])'
  BY <1>2, StepKeepsDone
<1>3. db.mailbox # Absent => db'.mailbox = db.mailbox
  BY StepKeepsDone
<1>4. QED
  BY <1>1, <1>2, <1>3 DEF OpenFor, Opened, Running

LEMMA OffIsOpen ==
  ASSUME NEW p \in Processes, proc'[p] = Off
  PROVE  OpenFor(p)'
BY DEF Off, OpenFor, Opened, Running

LEMMA OpenStep == TypeOK /\ OpenInv /\ [Next]_vars => OpenInv'
<1> SUFFICES ASSUME TypeOK, OpenInv, [Next]_vars PROVE OpenInv'
  OBVIOUS
<1>0. \A q \in Processes : OpenFor(q)
  BY DEF OpenInv, OpenFor
<1>1. ASSUME Next, NEW p \in Processes, OpenFor(p)',
             \A q \in Processes \ {p} : proc'[q] = proc[q]
      PROVE  OpenInv'
  <2>1. ASSUME NEW q \in Processes PROVE OpenFor(q)'
    BY <1>0, <1>1, OpenOthers
  <2>2. QED
    BY <2>1 DEF OpenInv, OpenFor
<1>2. ASSUME NEW p \in Processes, Start(p) PROVE OpenFor(p)'
  BY <1>0, <1>2 DEF Start, OpenFor, Opened, Running, TypeOK, Process
<1>3. ASSUME NEW p \in Processes, NEW f \in Files, Read(p, f) PROVE OpenFor(p)'
  <2>1. CASE proc' = [proc EXCEPT ![p] = Off]
    BY <2>1, OffIsOpen DEF TypeOK
  <2>2. CASE proc' = [proc EXCEPT ![p].step = "create"]
    BY <1>0, <1>3, <2>2 DEF Read, At, OpenFor, Opened, Running, TypeOK, Process
  <2>3. CASE proc' = [proc EXCEPT ![p] =
                        [AfterRead(p, f) EXCEPT !.has[f] = Loaded(p, f)]]
    <3>1. proc[p].next = 1
      BY <1>0, <1>3 DEF Read, At, OpenFor
    <3>2. /\ AfterRead(p, f).step \in {"read", "statement"}
          /\ AfterRead(p, f).next = 1
          /\ AfterRead(p, f) \in Process
      BY <3>1 DEF AfterRead, TypeOK, Process, Files
    <3>3. proc'[p].step \in {"read", "statement"} /\ proc'[p].next = 1
      BY <2>3, <3>2 DEF TypeOK, Process
    <3>4. QED
      BY <3>3, StatementsNotEmpty DEF OpenFor, Opened, Running
  <2>4. QED
    BY <1>3, <2>1, <2>2, <2>3 DEF Read
<1>4. ASSUME NEW p \in Processes, NEW f \in Files, Create(p, f) PROVE OpenFor(p)'
  BY <1>0, <1>4 DEF Create, At, OpenFor, Opened, Running, TypeOK, Process
<1>5. ASSUME NEW p \in Processes, NEW f \in Files, Write(p, f) PROVE OpenFor(p)'
  <2>1. proc[p].next = 1
    BY <1>0, <1>5 DEF Write, At, OpenFor
  <2>2. /\ AfterWrite(p, f).step \in {"read", "create", "statement"}
        /\ AfterWrite(p, f).next = 1
        /\ AfterWrite(p, f) \in Process
    BY <2>1 DEF AfterWrite, TypeOK, Process, Files
  <2>3. proc'[p].step \in {"read", "create", "statement"} /\ proc'[p].next = 1
    BY <1>5, <2>2 DEF Write, TypeOK, Process
  <2>4. QED
    BY <2>3, StatementsNotEmpty DEF OpenFor, Opened, Running
<1>6. ASSUME Next, NEW p \in Processes, Migrate(p) PROVE OpenFor(p)'
  <2>0. PICK s : s = Statements[proc[p].next]
    OBVIOUS
  <2>1. CASE proc' = [proc EXCEPT ![p] = Off]
    BY <2>1, OffIsOpen DEF TypeOK
  <2>2. CASE db' = Executed(s) /\ proc' = [proc EXCEPT ![p] = AfterStatement(p, s)]
    <3>1. /\ proc[p].next \in 1..Len(Statements)
          /\ \A i \in 1..(proc[p].next - 1) : Done(Statements[i])
      BY <1>0, <1>6 DEF OpenFor, Migrate
    <3>2. Done(s)'
      BY <2>2, ExecutedIsDone
    <3>3. ASSUME NEW i \in 1..(proc[p].next - 1)
          PROVE  Done(Statements[i])'
      <4>1. Done(Statements[i])
        BY <3>1
      <4>2. QED
        BY <1>6, <4>1, StepKeepsDone
    <3>4. ASSUME NEW i \in 1..proc[p].next
          PROVE  Done(Statements[i])'
      <4>1. CASE i = proc[p].next
        BY <2>0, <3>2, <4>1
      <4>2. CASE i # proc[p].next
        BY <3>1, <3>3, <4>2, StatementsNotEmpty
      <4>3. QED
        BY <4>1, <4>2
    <3>5. proc'[p] = AfterStatement(p, s) /\ proc[p] \in Process
      BY <2>2 DEF TypeOK
    <3>6. CASE proc[p].next = Len(Statements)
      <4>1. proc'[p].step = "select" /\ proc'[p].next = 1
        BY <3>5, <3>6 DEF AfterStatement, Process
      <4>2. Migrated'
        BY <3>4, <3>6, DomainOfStatements DEF Migrated
      <4>3. QED
        BY <4>1, <4>2 DEF OpenFor, Opened, Running
    <3>7. CASE proc[p].next # Len(Statements)
      <4>1. proc'[p].step = "statement" /\ proc'[p].next = proc[p].next + 1
        BY <1>6, <3>5, <3>7 DEF AfterStatement, Process, Migrate
      <4>2. proc'[p].next \in 1..Len(Statements)
        BY <3>1, <3>7, <4>1, StatementsNotEmpty
      <4>3. \A i \in 1..(proc'[p].next - 1) : Done(Statements[i])'
        BY <3>1, <3>4, <4>1, StatementsNotEmpty
      <4>4. QED
        BY <4>1, <4>2, <4>3 DEF OpenFor, Opened, Running
    <3>8. QED
      BY <3>6, <3>7
  <2>3. QED
    BY <1>6, <2>0, <2>1, <2>2 DEF Migrate
<1>7. ASSUME Next, NEW p \in Processes, SelectMailbox(p) PROVE OpenFor(p)'
  BY <1>0, <1>7, StepKeepsDone
  DEF SelectMailbox, OpenFor, Opened, Running, Migrated, Done, TypeOK, Process
<1>8. ASSUME Next, NEW p \in Processes, InsertMailbox(p) PROVE OpenFor(p)'
  <2>1. Migrated'
    BY <1>0, <1>8, StepKeepsDone DEF InsertMailbox, OpenFor, Opened, Migrated
  <2>2. db'.mailbox # Absent
    BY <1>8, LaunchAssumption DEF InsertMailbox, TypeOK, Database
  <2>3. proc'[p].step = "check" /\ proc'[p].next = 1
    BY <1>0, <1>8 DEF InsertMailbox, OpenFor, TypeOK, Process
  <2>4. QED
    BY <2>1, <2>2, <2>3 DEF OpenFor, Opened, Running
<1>9. ASSUME NEW p \in Processes, Quit(p) \/ Fault(p) PROVE OpenFor(p)'
  BY <1>9, OffIsOpen DEF Quit, Fault, TypeOK
<1>10. ASSUME NEW p \in Processes, Launching(p) \/ Quit(p) \/ Fault(p)
       PROVE  \A q \in Processes \ {p} : proc'[q] = proc[q]
  BY <1>10
  DEF Launching, Start, Read, Create, Write, Migrate, SelectMailbox, InsertMailbox,
      Quit, Fault, TypeOK
<1>11. CASE Next
  <2>1. PICK p \in Processes : Launching(p) \/ Quit(p) \/ Fault(p)
    BY <1>11 DEF Next
  <2>2. OpenFor(p)'
    BY <1>2, <1>3, <1>4, <1>5, <1>6, <1>7, <1>8, <1>9, <1>11, <2>1 DEF Launching
  <2>3. QED
    BY <1>1, <1>10, <1>11, <2>1, <2>2
<1>12. CASE UNCHANGED vars
  BY <1>12 DEF vars, OpenInv, Opened, Running, Migrated, Done
<1>13. QED
  BY <1>11, <1>12

THEOREM OpenCorrect == Spec => [](TypeOK /\ OpenInv)
BY TypeStart, TypeStep, OpenStart, OpenStep, PTL DEF Spec

\* No process runs on a database that its own migration, or that of the other
\* one, left half done.
THEOREM MigratedBeforeRunning == Spec => []RunningMeansMigrated
<1>1. OpenInv => RunningMeansMigrated
  BY DEF OpenInv, RunningMeansMigrated, Opened, Running, Migrated
<1>2. QED
  BY <1>1, OpenCorrect, PTL

\* However many first launches draw an address, the processes that run have the
\* one that was stored first.
THEOREM OneMailbox == Spec => []MailboxIsOne
<1>1. OpenInv => MailboxIsOne
  BY DEF OpenInv, MailboxIsOne, Running
<1>2. QED
  BY <1>1, OpenCorrect, PTL

-----------------------------------------------------------------------------
(***************************************************************************)
(* The identity                                                            *)
(***************************************************************************)

LEMMA SettledStays ==
  ASSUME TypeOK, Next, Settled
  PROVE  UNCHANGED file /\ Settled'
<1>1. PICK p \in Processes : Launching(p) \/ Quit(p) \/ Fault(p)
  BY DEF Next
<1>2. \A f \in Files : ~Create(p, f) /\ ~Write(p, f)
  BY DEF Settled, Create, Write, At
<1>3. UNCHANGED file
  BY <1>1, <1>2
  DEF Launching, Start, Read, Migrate, SelectMailbox, InsertMailbox, Quit, Fault
<1>4. proc'[p].step \notin {"create", "write"}
  <2>1. ASSUME NEW f \in Files, Read(p, f)
        PROVE  proc'[p].step \in {"read", "statement", "off"}
    <3>1. file[f] # Absent
      BY DEF Settled, Valid
    <3>2. CASE proc' = [proc EXCEPT ![p] = Off]
      BY <3>2 DEF Off, TypeOK
    <3>3. CASE proc' = [proc EXCEPT ![p] =
                          [AfterRead(p, f) EXCEPT !.has[f] = Loaded(p, f)]]
      <4>1. /\ AfterRead(p, f).step \in {"read", "statement"}
            /\ AfterRead(p, f) \in Process
        BY DEF AfterRead, TypeOK, Process, Files
      <4>2. QED
        BY <3>3, <4>1 DEF TypeOK, Process
    <3>4. QED
      BY <2>1, <3>1, <3>2, <3>3 DEF Read
  <2>2. CASE Migrate(p)
    <3>1. proc[p] \in Process
      BY DEF TypeOK
    <3>2. AfterStatement(p, Statements[proc[p].next]).step \in {"select", "statement"}
      BY <2>2, <3>1 DEF AfterStatement, Process, Migrate
    <3>3. CASE proc' = [proc EXCEPT ![p] = Off]
      BY <3>3 DEF Off, TypeOK
    <3>4. CASE proc' = [proc EXCEPT ![p] = AfterStatement(p, Statements[proc[p].next])]
      <4>1. proc'[p] = AfterStatement(p, Statements[proc[p].next])
        BY <3>4 DEF TypeOK
      <4>2. QED
        BY <3>2, <4>1
    <3>5. QED
      BY <2>2, <3>3, <3>4 DEF Migrate
  <2>3. CASE Start(p) \/ InsertMailbox(p)
    BY <2>3 DEF Start, InsertMailbox, TypeOK, Process
  <2>4. CASE SelectMailbox(p)
    <3>1. \/ proc' = [proc EXCEPT ![p] = [proc[p] EXCEPT !.step = "insert"]]
          \/ proc' = [proc EXCEPT ![p] = [proc[p] EXCEPT !.step = "running",
                                                        !.mailbox = db.mailbox]]
      BY <2>4 DEF SelectMailbox
    <3>2. QED
      BY <3>1 DEF TypeOK, Process
  <2>5. CASE Quit(p) \/ Fault(p)
    BY <2>5 DEF Quit, Fault, Off, TypeOK
  <2>6. QED
    BY <1>1, <1>2, <2>1, <2>2, <2>3, <2>4, <2>5 DEF Launching
<1>5. \A q \in Processes \ {p} : proc'[q] = proc[q]
  BY <1>1
  DEF Launching, Start, Read, Create, Write, Migrate, SelectMailbox, InsertMailbox,
      Quit, Fault, TypeOK
<1>6. QED
  BY <1>3, <1>4, <1>5 DEF Settled, Valid

\* Once written, keys, namespace and mailbox address stay: whatever is launched,
\* killed or migrated afterwards.
THEOREM FinalIdentity == Spec => IdentityIsFinal
<1>1. TypeOK /\ [Next]_vars =>
        [/\ Settled => UNCHANGED file /\ Settled'
         /\ db.mailbox # Absent => UNCHANGED db.mailbox]_vars
  BY SettledStays, StepKeepsDone
<1>2. QED
  BY <1>1, LaunchTypeCorrect, PTL DEF Spec, IdentityIsFinal

\* The files a launch is past.
Known(p) ==
  IF proc[p].step # "read" THEN Files
  ELSE CASE proc[p].on = "namespace"   -> {}
         [] proc[p].on = "private.key" -> {"namespace"}
         [] OTHER                      -> {"namespace", "private.key"}

\* A launch begins at Off, and a late one found the files settled: it has read
\* each one it is past.
LateFor(p) ==
  /\ proc[p].step = "off" => proc[p] = Off
  /\ proc[p].late =>
       /\ proc[p].step # "off"
       /\ Settled
       /\ \A f \in Known(p) : proc[p].has[f] = file[f]

LateInv == \A p \in Processes : LateFor(p)

LEMMA LateOff ==
  ASSUME NEW p \in Processes, proc'[p] = Off
  PROVE  LateFor(p)'
BY DEF Off, LateFor

LEMMA LateOthers ==
  ASSUME TypeOK, Next, NEW q \in Processes, LateFor(q), proc'[q] = proc[q]
  PROVE  LateFor(q)'
<1>1. Known(q)' = Known(q)
  BY DEF Known
<1>2. Settled => UNCHANGED file /\ Settled'
  BY SettledStays
<1>3. QED
  BY <1>1, <1>2 DEF LateFor

LEMMA LateRead ==
  ASSUME TypeOK, Next, NEW p \in Processes, LateFor(p),
         NEW f \in Files, Read(p, f)
  PROVE  LateFor(p)'
<1>1. CASE proc' = [proc EXCEPT ![p] = Off]
  BY <1>1, LateOff DEF TypeOK
<1>2. CASE file[f] = Absent /\ proc' = [proc EXCEPT ![p].step = "create"]
  <2>1. ~proc[p].late
    BY <1>2 DEF LateFor, Settled, Valid
  <2>2. proc'[p].step = "create" /\ ~proc'[p].late
    BY <1>2, <2>1 DEF TypeOK, Process
  <2>3. QED
    BY <2>2 DEF LateFor
<1>3. CASE proc' = [proc EXCEPT ![p] =
                      [AfterRead(p, f) EXCEPT !.has[f] = Loaded(p, f)]]
  <2> DEFINE r == AfterRead(p, f)
  <2>1. /\ r \in Process /\ r.late = proc[p].late /\ r.has = proc[p].has
        /\ f = "namespace" => r.step = "read" /\ r.on = "private.key"
        /\ f = "private.key" => r.step = "read" /\ r.on = "enc_private.key"
        /\ f = "enc_private.key" => r.step = "statement"
    BY DEF AfterRead, TypeOK, Process, Files
  <2>2. proc'[p] = [r EXCEPT !.has = [r.has EXCEPT ![f] = file[f]]]
    BY <1>3 DEF TypeOK, Loaded
  <2> HIDE DEF r
  <2>3. /\ proc'[p].step = r.step /\ proc'[p].on = r.on
        /\ proc'[p].late = proc[p].late
        /\ proc'[p].has = [proc[p].has EXCEPT ![f] = file[f]]
    BY <2>1, <2>2 DEF Process
  <2>4. Known(p)' \subseteq Known(p) \cup {f}
    BY <2>1, <2>3 DEF Read, At, Known, Files
  <2>5. proc[p].has \in [Files -> Names \cup Processes \cup {Absent}]
    BY DEF TypeOK, Process
  <2>6. ASSUME proc'[p].late
        PROVE  Settled' /\ \A g \in Known(p)' : proc'[p].has[g] = file'[g]
    <3>1. Settled /\ \A g \in Known(p) : proc[p].has[g] = file[g]
      BY <2>3, <2>6 DEF LateFor
    <3>2. UNCHANGED file /\ Settled'
      BY <3>1, SettledStays
    <3>3. Known(p) \subseteq Files
      BY DEF Known, Files
    <3>4. QED
      BY <2>3, <2>4, <2>5, <3>1, <3>2, <3>3
  <2>7. proc'[p].step \in {"read", "statement"}
    BY <2>1, <2>3 DEF Files
  <2>8. QED
    BY <2>6, <2>7 DEF LateFor
<1>4. QED
  BY <1>1, <1>2, <1>3 DEF Read

\* Past the files, a launch keeps what it has.
LEMMA LateKeeps ==
  ASSUME TypeOK, Next, NEW p \in Processes, LateFor(p),
         proc[p].step \notin {"read", "off"}, proc'[p].step \notin {"read", "off"},
         proc'[p].late = proc[p].late, proc'[p].has = proc[p].has
  PROVE  LateFor(p)'
<1>1. Known(p) = Files /\ Known(p)' = Files
  BY DEF Known
<1>2. Settled => UNCHANGED file /\ Settled'
  BY SettledStays
<1>3. ASSUME proc'[p].late
      PROVE  Settled' /\ \A f \in Known(p)' : proc'[p].has[f] = file'[f]
  <2>1. Settled /\ \A f \in Files : proc[p].has[f] = file[f]
    BY <1>1, <1>3 DEF LateFor
  <2>2. QED
    BY <1>1, <1>2, <2>1
<1>4. QED
  BY <1>3 DEF LateFor

LEMMA LateStep == TypeOK /\ LateInv /\ [Next]_vars => LateInv'
<1>1. ASSUME TypeOK, LateInv, Next PROVE LateInv'
  <2>1. PICK p \in Processes : Launching(p) \/ Quit(p) \/ Fault(p)
    BY <1>1 DEF Next
  <2>2. \A q \in Processes \ {p} : proc'[q] = proc[q]
    BY <1>1, <2>1
    DEF Launching, Start, Read, Create, Write, Migrate, SelectMailbox, InsertMailbox,
        Quit, Fault, TypeOK
  <2>3. LateFor(p)
    BY <1>1 DEF LateInv
  <2>4. ASSUME Start(p) PROVE LateFor(p)'
    <3>1. proc[p] = Off
      BY <2>3, <2>4 DEF LateFor, Start
    <3>2. proc'[p] = [Off EXCEPT !.step = "read", !.late = Settled]
      BY <1>1, <2>4, <3>1 DEF Start, TypeOK
    <3>3. proc'[p].step = "read" /\ proc'[p].on = "namespace"
      BY <3>2 DEF Off
    <3>4. ASSUME proc'[p].late PROVE Settled'
      <4>1. Settled
        BY <3>2, <3>4 DEF Off
      <4>2. QED
        BY <1>1, <4>1, SettledStays
    <3>5. Known(p)' = {}
      BY <3>3 DEF Known
    <3>6. QED
      BY <2>1, <3>3, <3>4, <3>5 DEF LateFor
  <2>5. ASSUME Quit(p) \/ Fault(p) PROVE LateFor(p)'
    <3>1. proc'[p] = Off
      BY <1>1, <2>1, <2>5 DEF Quit, Fault, TypeOK
    <3>2. QED
      BY <2>1, <3>1, LateOff
  <2>6. ASSUME NEW f \in Files, Read(p, f) PROVE LateFor(p)'
    BY <1>1, <2>3, <2>6, LateRead
  <2>7. ASSUME NEW f \in Files, Create(p, f) \/ Write(p, f) PROVE LateFor(p)'
    <3>1. ~proc[p].late
      BY <2>3, <2>7 DEF LateFor, Settled, Create, Write, At
    <3>2. CASE Create(p, f)
      <4>1. proc'[p].step = "write" /\ ~proc'[p].late
        BY <1>1, <2>1, <3>1, <3>2 DEF Create, TypeOK, Process
      <4>2. QED
        BY <4>1 DEF LateFor
    <3>3. CASE Write(p, f)
      <4>1. /\ AfterWrite(p, f).step \in {"read", "create", "statement"}
            /\ AfterWrite(p, f).late = proc[p].late
            /\ AfterWrite(p, f) \in Process
        BY <1>1 DEF AfterWrite, TypeOK, Process, Files
      <4>2. proc'[p].step # "off" /\ ~proc'[p].late
        BY <1>1, <3>1, <3>3, <4>1 DEF Write, TypeOK, Process
      <4>3. QED
        BY <4>2 DEF LateFor
    <3>4. QED
      BY <2>7, <3>2, <3>3
  <2>8. ASSUME Migrate(p) PROVE LateFor(p)'
    <3>1. CASE proc' = [proc EXCEPT ![p] = Off]
      BY <1>1, <2>1, <3>1, LateOff DEF TypeOK
    <3>2. CASE proc' = [proc EXCEPT ![p] = AfterStatement(p, Statements[proc[p].next])]
      <4> DEFINE r == AfterStatement(p, Statements[proc[p].next])
      <4>1. /\ r.step \in {"select", "statement"}
            /\ r.late = proc[p].late /\ r.has = proc[p].has
        BY <1>1, <2>8 DEF AfterStatement, TypeOK, Process, Migrate
      <4>2. proc'[p] = r
        BY <1>1, <3>2 DEF TypeOK
      <4> HIDE DEF r
      <4>3. proc[p].step = "statement"
        BY <2>8 DEF Migrate
      <4>4. QED
        BY <1>1, <2>1, <2>3, <4>1, <4>2, <4>3, LateKeeps
    <3>3. QED
      BY <2>8, <3>1, <3>2 DEF Migrate
  <2>9. ASSUME SelectMailbox(p) PROVE LateFor(p)'
    <3>1. \/ proc' = [proc EXCEPT ![p] = [proc[p] EXCEPT !.step = "insert"]]
          \/ proc' = [proc EXCEPT ![p] = [proc[p] EXCEPT !.step = "running",
                                                        !.mailbox = db.mailbox]]
      BY <2>9 DEF SelectMailbox
    <3>2. /\ proc'[p].step \in {"insert", "running"}
          /\ proc'[p].late = proc[p].late /\ proc'[p].has = proc[p].has
      <4>1. proc[p] \in Process
        BY <1>1, <2>1 DEF TypeOK
      <4>2. \/ proc'[p] = [proc[p] EXCEPT !.step = "insert"]
            \/ proc'[p] = [proc[p] EXCEPT !.step = "running", !.mailbox = db.mailbox]
        BY <1>1, <2>1, <3>1 DEF TypeOK
      <4>3. QED
        BY <4>1, <4>2 DEF Process
    <3>3. proc[p].step \in {"select", "check"}
      BY <2>9 DEF SelectMailbox
    <3>4. QED
      BY <1>1, <2>1, <2>3, <3>2, <3>3, LateKeeps
  <2>10. ASSUME InsertMailbox(p) PROVE LateFor(p)'
    <3>1. /\ proc'[p].step = "check" /\ proc[p].step = "insert"
          /\ proc'[p].late = proc[p].late /\ proc'[p].has = proc[p].has
      BY <1>1, <2>1, <2>10 DEF InsertMailbox, TypeOK, Process
    <3>2. QED
      BY <1>1, <2>1, <2>3, <3>1, LateKeeps
  <2>11. LateFor(p)'
    BY <2>1, <2>4, <2>5, <2>6, <2>7, <2>8, <2>9, <2>10 DEF Launching
  <2>12. ASSUME NEW q \in Processes PROVE LateFor(q)'
    BY <1>1, <2>2, <2>11, LateOthers DEF LateInv
  <2>13. QED
    BY <2>12 DEF LateInv
<1>2. ASSUME LateInv, UNCHANGED vars PROVE LateInv'
  BY <1>2 DEF vars, LateInv, LateFor, Settled, Valid, Known
<1>3. QED
  BY <1>1, <1>2

\* A process started once the files are there runs with exactly what they say,
\* whatever the earlier launches did to each other.
THEOREM LateLaunchesCorrect == Spec => []LateLaunchesAgree
<1>1. Init => LateInv
  BY DEF Init, LateInv, LateFor, Off
<1>2. TypeOK /\ LateInv => LateLaunchesAgree
  <2> SUFFICES ASSUME TypeOK, LateInv, NEW p \in Processes, Running(p), proc[p].late
               PROVE  proc[p].has = file
    BY DEF LateLaunchesAgree
  <2>1. \A f \in Files : proc[p].has[f] = file[f]
    BY DEF LateInv, LateFor, Known, Running
  <2>2. /\ proc[p].has \in [Files -> Names \cup Processes \cup {Absent}]
        /\ file \in [Files -> Names \cup Processes \cup {Absent, Damaged}]
    BY DEF TypeOK, Process
  <2>3. QED
    BY <2>1, <2>2
<1>3. QED
  BY <1>1, <1>2, LateStep, LaunchTypeCorrect, PTL DEF Spec
-----------------------------------------------------------------------------
(***************************************************************************)
(* How a launch ends.  That a process is started again, and goes on, is    *)
(* fairness (EventuallyRuns); that it gets on with every step it takes is  *)
(* not.                                                                    *)
(***************************************************************************)

\* The statements of a database that has its index, or could have it, fail at no
\* later launch either: no statement takes the column away or makes two names of
\* one, and what the blank names become counts as none.
LEMMA OpenableStep ==
  ASSUME TypeOK, [Next]_vars, Succeeds("index")
  PROVE  Succeeds("index")'
<1>1. CASE UNCHANGED db
  BY <1>1 DEF Succeeds
<1>2. ASSUME NEW p \in Processes, InsertMailbox(p)
      PROVE  Succeeds("index")'
  <2>1. /\ db'.indexed = db.indexed /\ db'.missing = db.missing
        /\ db'.alias = db.alias
    BY <1>2 DEF InsertMailbox, TypeOK, Database
  <2>2. QED
    BY <2>1 DEF Succeeds
<1>3. ASSUME NEW s, db' = Executed(s)
      PROVE  Succeeds("index")'
  <2>1. /\ db'.missing \subseteq db.missing
        /\ db.indexed => db'.indexed
    BY <1>3, LaunchAssumption DEF Executed, TypeOK, Database
  <2>2. \A a \in Peers : db'.alias[a] = db.alias[a] \/ db'.alias[a] = NoAlias
    BY <1>3, LaunchAssumption DEF Executed, TypeOK, Database
  <2>3. QED
    BY <2>1, <2>2 DEF Succeeds
<1>4. QED
  BY <1>1, <1>2, <1>3
     DEF Next, Launching, Start, Read, Create, Write, Migrate, SelectMailbox,
         Quit, Fault, vars

\* The steps of a launch until its process runs, at most: three for each file,
\* one for each statement, and three for the mailbox address.
FileSteps(step) ==
  CASE step = "read" -> 3 [] step = "create" -> 2 [] step = "write" -> 1
FilesAfter(f) ==
  CASE f = "namespace" -> 6 [] f = "private.key" -> 3 [] f = "enc_private.key" -> 0
MailboxSteps(step) ==
  CASE step = "select" -> 3 [] step = "insert" -> 2 [] step = "check" -> 1
    [] step = "running" -> 0

StepsLeft(r) ==
  IF r.step \in {"read", "create", "write"}
  THEN FilesAfter(r.on) + FileSteps(r.step) + Len(Statements) + 3
  ELSE IF r.step = "statement" THEN Len(Statements) - r.next + 4
  ELSE MailboxSteps(r.step)

\* A launch ends by running, unless its process dies or fails, or something is
\* wrong that no other launch would get past either.
GetsOn(p) ==
  \/ StepsLeft(proc'[p]) < StepsLeft(proc[p])
  \/ proc'[p] = Off /\ (Running(p) \/ Hopeless(p) \/ faults' > faults)

LEMMA StepsLeftType ==
  ASSUME TypeOK, OpenInv, NEW p \in Processes, proc[p].step # "off"
  PROVE  StepsLeft(proc[p]) \in 0 .. Len(Statements) + 12
<1>1. proc[p] \in Process /\ Len(Statements) \in Nat
  BY StatementsNotEmpty DEF TypeOK
<1>2. CASE proc[p].step \in {"read", "create", "write"}
  <2>1. FilesAfter(proc[p].on) \in 0 .. 6 /\ FileSteps(proc[p].step) \in 1 .. 3
    BY <1>1, <1>2 DEF FilesAfter, FileSteps, Process, Files
  <2>2. QED
    BY <1>1, <1>2, <2>1 DEF StepsLeft
<1>3. CASE proc[p].step = "statement"
  BY <1>1, <1>3 DEF StepsLeft, OpenInv
<1>4. CASE proc[p].step \in {"select", "insert", "check", "running"}
  BY <1>1, <1>4 DEF StepsLeft, MailboxSteps
<1>5. QED
  BY <1>1, <1>2, <1>3, <1>4 DEF Process

LEMMA ReadGetsOn ==
  ASSUME TypeOK, OpenInv, NEW p \in Processes, NEW f \in Files, Read(p, f)
  PROVE  GetsOn(p)
<1>1. /\ proc[p] \in Process /\ proc[p].step = "read" /\ proc[p].on = f
      /\ proc[p].next = 1 /\ Len(Statements) \in Nat \ {0}
  BY StatementsNotEmpty DEF Read, At, TypeOK, OpenInv
<1>2. CASE file[f] = Absent
  <2>1. proc'[p].step = "create" /\ proc'[p].on = f
    BY <1>1, <1>2 DEF Read, TypeOK, Process
  <2>2. FilesAfter(f) \in Nat
    BY DEF FilesAfter, Files
  <2>3. QED
    BY <1>1, <2>1, <2>2 DEF GetsOn, StepsLeft, FileSteps
<1>3. CASE proc' = [proc EXCEPT ![p] = Off] /\ Refused(p, f)
  BY <1>3 DEF Refused, Hopeless, GetsOn, TypeOK
<1>4. CASE file[f] # Absent /\ ~Refused(p, f)
  <2>1. /\ f = "namespace" => proc'[p].step = "read" /\ proc'[p].on = "private.key"
        /\ f = "private.key" =>
             proc'[p].step = "read" /\ proc'[p].on = "enc_private.key"
        /\ f = "enc_private.key" => proc'[p].step = "statement" /\ proc'[p].next = 1
    <3>1. proc'[p] = [AfterRead(p, f) EXCEPT !.has[f] = Loaded(p, f)]
      BY <1>4 DEF Read, TypeOK
    <3>2. QED
      BY <1>1, <3>1 DEF AfterRead, Process, Files
  <2>2. QED
    BY <1>1, <2>1 DEF GetsOn, StepsLeft, FileSteps, FilesAfter, Files
<1>5. QED
  BY <1>2, <1>3, <1>4 DEF Read

LEMMA WriteGetsOn ==
  ASSUME TypeOK, OpenInv, NEW p \in Processes, NEW f \in Files,
         Create(p, f) \/ Write(p, f)
  PROVE  GetsOn(p)
<1>1. /\ proc[p] \in Process /\ proc[p].on = f
      /\ proc[p].step \in {"create", "write"}
      /\ proc[p].next = 1 /\ Len(Statements) \in Nat \ {0}
  BY StatementsNotEmpty DEF Create, Write, At, TypeOK, OpenInv
<1>2. CASE Create(p, f)
  <2>1. /\ proc[p].step = "create"
        /\ proc'[p].step = "write" /\ proc'[p].on = f
    BY <1>1, <1>2 DEF Create, At, TypeOK, Process
  <2>2. FilesAfter(f) \in Nat
    BY DEF FilesAfter, Files
  <2>3. QED
    BY <1>1, <2>1, <2>2 DEF GetsOn, StepsLeft, FileSteps
<1>3. CASE Write(p, f)
  <2>1. /\ proc[p].step = "write"
        /\ f = "namespace" => proc'[p].step = "read" /\ proc'[p].on = "private.key"
        /\ f = "private.key" =>
             proc'[p].step = "create" /\ proc'[p].on = "enc_private.key"
        /\ f = "enc_private.key" => proc'[p].step = "statement" /\ proc'[p].next = 1
    BY <1>1, <1>3 DEF Write, At, AfterWrite, TypeOK, Process, Files
  <2>2. QED
    BY <1>1, <2>1 DEF GetsOn, StepsLeft, FileSteps, FilesAfter, Files
<1>4. QED
  BY <1>2, <1>3

LEMMA MigrateGetsOn ==
  ASSUME TypeOK, OpenInv, NEW p \in Processes, Migrate(p)
  PROVE  GetsOn(p)
<1>1. /\ proc[p] \in Process /\ proc[p].step = "statement"
      /\ Len(Statements) \in Nat \ {0} /\ proc[p].next \in 1 .. Len(Statements)
  BY StatementsNotEmpty DEF Migrate, TypeOK, OpenInv
<1> DEFINE s == Statements[proc[p].next]
<1>2. CASE ~Succeeds(s)
  <2>1. ~Succeeds("index")
    BY <1>2 DEF Succeeds
  <2>2. CASE proc' = [proc EXCEPT ![p] = Off]
    BY <2>1, <2>2 DEF GetsOn, Hopeless, TypeOK
  <2>3. QED
    BY <1>2, <2>2 DEF Migrate
<1>3. CASE proc' = [proc EXCEPT ![p] = AfterStatement(p, s)]
  <2>1. CASE proc[p].next = Len(Statements)
    <3>1. proc'[p].step = "select"
      BY <1>1, <1>3, <2>1 DEF AfterStatement, TypeOK, Process
    <3>2. QED
      BY <1>1, <2>1, <3>1 DEF GetsOn, StepsLeft, MailboxSteps
  <2>2. CASE proc[p].next # Len(Statements)
    <3>1. proc'[p].step = "statement" /\ proc'[p].next = proc[p].next + 1
      BY <1>1, <1>3, <2>2 DEF AfterStatement, TypeOK, Process
    <3>2. QED
      BY <1>1, <3>1 DEF GetsOn, StepsLeft
  <2>3. QED
    BY <2>1, <2>2
<1>4. QED
  BY <1>2, <1>3 DEF Migrate

LEMMA MailboxGetsOn ==
  ASSUME TypeOK, OpenInv, NEW p \in Processes, SelectMailbox(p) \/ InsertMailbox(p)
  PROVE  GetsOn(p)
<1>1. proc[p] \in Process
  BY DEF TypeOK
<1>2. CASE SelectMailbox(p)
  <2>1. /\ proc[p].step \in {"select", "check"}
        /\ proc'[p].step = IF db.mailbox = Absent THEN "insert" ELSE "running"
        /\ proc[p].step = "check" => db.mailbox # Absent
    BY <1>1, <1>2 DEF SelectMailbox, TypeOK, Process, OpenInv
  <2>2. QED
    BY <2>1 DEF GetsOn, StepsLeft, MailboxSteps
<1>3. CASE InsertMailbox(p)
  <2>1. proc[p].step = "insert" /\ proc'[p].step = "check"
    BY <1>1, <1>3 DEF InsertMailbox, TypeOK, Process
  <2>2. QED
    BY <2>1 DEF GetsOn, StepsLeft, MailboxSteps
<1>4. QED
  BY <1>2, <1>3

\* Every step of a launch brings its process closer to running, whatever the
\* other process does to files and database meanwhile; only a fault, or what
\* Hopeless names, ends it before; and a database that init accepts once is
\* accepted for ever.
LaunchesGetOn ==
  /\ [](\A p \in Processes :
          proc[p].step # "off" => StepsLeft(proc[p]) \in 0 .. Len(Statements) + 12)
  /\ [][/\ \A p \in Processes :
             (proc[p].step # "off" /\ proc'[p] # proc[p]) => GetsOn(p)
        /\ Succeeds("index") => Succeeds("index")']_vars

\* LoadOrCreate, Open and GetOrCreateMailboxID have no loop, and no error that
\* another process could cause without leaving a damaged file.
THEOREM LaunchesProgress == Spec => LaunchesGetOn
<1> DEFINE Step == /\ \A p \in Processes :
                        (proc[p].step # "off" /\ proc'[p] # proc[p]) => GetsOn(p)
                   /\ Succeeds("index") => Succeeds("index")'
<1>1. ASSUME TypeOK, OpenInv, Next PROVE Step
  <2> SUFFICES ASSUME NEW p \in Processes, proc[p].step # "off", proc'[p] # proc[p]
               PROVE  GetsOn(p)
    BY <1>1, OpenableStep
  <2> USE <1>1
  <2>1. ASSUME NEW q \in Processes, Launching(q) \/ Quit(q) \/ Fault(q)
        PROVE  q = p
    BY <2>1 DEF Launching, Start, Read, Create, Write, Migrate, SelectMailbox,
                InsertMailbox, Quit, Fault, TypeOK
  <2>2. Launching(p) \/ Quit(p) \/ Fault(p)
    BY <2>1 DEF Next
  <2>3. CASE Launching(p)
    BY <2>3, ReadGetsOn, WriteGetsOn, MigrateGetsOn, MailboxGetsOn
       DEF Launching, Start
  <2>4. CASE Quit(p)
    BY <2>4 DEF Quit, GetsOn, Running, TypeOK
  <2>5. CASE Fault(p)
    BY <2>5 DEF Fault, GetsOn, TypeOK
  <2>6. QED
    BY <2>2, <2>3, <2>4, <2>5
<1> DEFINE Bounded == \A p \in Processes :
                        proc[p].step # "off" =>
                          StepsLeft(proc[p]) \in 0 .. Len(Statements) + 12
<1>2. TypeOK /\ OpenInv => Bounded
  BY StepsLeftType
<1>3. TypeOK /\ OpenInv /\ [Next]_vars => [Step]_vars
  BY <1>1
<1> HIDE DEF Bounded, Step
<1>4. Spec => []Bounded /\ [][Step]_vars
  BY <1>2, <1>3, OpenCorrect, PTL DEF Spec
<1>5. QED
  BY <1>4 DEF LaunchesGetOn, Bounded, Step
==============================================================================
