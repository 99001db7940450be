------------------------------- MODULE Migrations -------------------------------
(***************************************************************************)
(* DB.Migrate, run at boot by every replica of a rolling deploy against one  *)
(* database: the advisory lock, the ledger, one transaction per file.       *)
(*                                                                         *)
(* The lock belongs to the database session, not to the process.  A process  *)
(* that dies, or loses its connection, leaves its session behind: it keeps   *)
(* the lock until the server notices, and a COMMIT already sent may still    *)
(* take effect.                                                             *)
(***************************************************************************)
EXTENDS Naturals, Sequences

CONSTANTS Replica,
          Body,        \* the contents of a migration file
          Build,       \* each build: a set of files, a version and a body each
          Free, Orphan, \* the lock's other holders: nobody, a session left behind
          NoFile,
          MaxFaults,   \* bound on failed statements and lost sessions
          MaxDeploys   \* bound on replicas restarted with another build

ASSUME MigrationConfig ==
    /\ Free \notin Replica /\ Orphan \notin Replica /\ Free # Orphan
    /\ \A b \in Build : b \subseteq [version : Nat, body : Body]
    /\ MaxFaults \in Nat /\ MaxDeploys \in Nat

VARIABLES
    schema,    \* the files whose SQL has been committed, oldest first
    ledger,    \* the rows of schema_migrations; the body stands for its checksum
    created,   \* whether schema_migrations exists
    lock,      \* the session that holds the advisory lock
    inflight,  \* the file whose COMMIT the orphan had sent, if any
    build,     \* the build each replica runs
    pc,        \* where each replica is
    todo,      \* the files each replica has found pending
    outcome,   \* what Migrate will return, once it has released the lock
    faults, deploys

vars == <<schema, ledger, created, lock, inflight, build, pc, todo, outcome, faults, deploys>>
database == <<schema, ledger, created>>
bounds == <<faults, deploys>>

Files == UNION Build
Ran == {schema[i] : i \in DOMAIN schema}
Holding == {"ensure", "read", "exec", "record", "commit", "unlock"}

TypeOK ==
    /\ schema \in Seq(Files)
    /\ ledger \in SUBSET Files
    /\ created \in BOOLEAN
    /\ lock \in Replica \cup {Free, Orphan}
    /\ inflight \in Files \cup {NoFile}
    /\ build \in [Replica -> Build]
    /\ pc \in [Replica -> {"down", "lock", "serving", "refused", "failed"} \cup Holding]
    /\ todo \in [Replica -> SUBSET Files]
    /\ outcome \in [Replica -> {"serving", "refused", "failed"}]
    /\ faults \in 0..MaxFaults /\ deploys \in 0..MaxDeploys

Init ==
    /\ schema = <<>> /\ ledger = {} /\ created = FALSE
    /\ lock = Free /\ inflight = NoFile
    /\ build \in [Replica -> Build]
    /\ pc = [r \in Replica |-> "down"]
    /\ todo = [r \in Replica |-> {}]
    /\ outcome = [r \in Replica |-> "failed"]
    /\ faults = 0 /\ deploys = 0

---------------------------------------------------------------------------
Goto(r, at) == pc' = [pc EXCEPT ![r] = at]

\* Migrate is about to return: the deferred unlock comes first.
Return(r, result) ==
    /\ Goto(r, "unlock")
    /\ outcome' = [outcome EXCEPT ![r] = result]

\* loadMigrations: one file per version.
WellFormed(b) == \A f, g \in b : f.version = g.version => f = g

\* Mutant: the order of the directory, not of the versions.
AnyPending(r) == todo[r]

\* The next file of the loop over the sorted files.
FirstPending(r) == {f \in todo[r] : \A g \in todo[r] : f.version <= g.version}

\* Mutant: the loop runs over the files, not over the rows.
VerifyOtherWay(files) == \A f \in files : \E rec \in ledger : f.version = rec.version /\ f.body = rec.body

\* verifyChecksums: every row is a file of this build, with the same checksum.
Verify(files) == \A rec \in ledger : \E f \in files : f.version = rec.version /\ f.body = rec.body

\* The files without a row.
Pending(files) == {f \in files : \A rec \in ledger : f.version # rec.version}

---------------------------------------------------------------------------
\* The process starts: it loads the files and asks for the lock.
Boot(r) ==
    /\ pc[r] \in {"down", "failed"}
    /\ Goto(r, IF WellFormed(build[r]) THEN "lock" ELSE "refused")
    /\ UNCHANGED <<database, lock, inflight, build, todo, outcome, bounds>>

\* Mutant: no lock.
TakeNothing(r) ==
    /\ pc[r] = "lock"
    /\ lock' = r
    /\ Goto(r, "ensure")
    /\ UNCHANGED <<database, inflight, build, todo, outcome, bounds>>

\* pg_advisory_lock: waits until no other session holds it.
Lock(r) ==
    /\ pc[r] = "lock" /\ lock = Free
    /\ lock' = r
    /\ Goto(r, "ensure")
    /\ UNCHANGED <<database, inflight, build, todo, outcome, bounds>>

EnsureMigrationsTable(r) ==
    /\ pc[r] = "ensure"
    /\ created' = TRUE
    /\ Goto(r, "read")
    /\ UNCHANGED <<schema, ledger, lock, inflight, build, todo, outcome, bounds>>

\* Mutants of Read: a refusal that returns before the unlock is deferred.
ReadKeepingLock(r) ==
    /\ pc[r] = "read" /\ created
    /\ IF ~Verify(build[r])
         THEN Goto(r, "refused") /\ UNCHANGED <<todo, outcome>>
         ELSE /\ todo' = [todo EXCEPT ![r] = Pending(build[r])]
              /\ IF todo'[r] = {} THEN Return(r, "serving") ELSE Goto(r, "exec") /\ UNCHANGED outcome
    /\ UNCHANGED <<database, lock, inflight, build, bounds>>

\* Mutant: a mismatch is logged and nothing more.
ReadWarning(r) ==
    /\ pc[r] = "read" /\ created
    /\ todo' = [todo EXCEPT ![r] = Pending(build[r])]
    /\ IF todo'[r] = {} THEN Return(r, "serving") ELSE Goto(r, "exec") /\ UNCHANGED outcome
    /\ UNCHANGED <<database, lock, inflight, build, bounds>>

\* appliedMigrations, then verifyChecksums and the choice of what is pending.
Read(r) ==
    /\ pc[r] = "read" /\ created
    /\ IF ~Verify(build[r])
         THEN Return(r, "refused") /\ UNCHANGED todo
         ELSE /\ todo' = [todo EXCEPT ![r] = Pending(build[r])]
              /\ IF todo'[r] = {} THEN Return(r, "serving") ELSE Goto(r, "exec") /\ UNCHANGED outcome
    /\ UNCHANGED <<database, lock, inflight, build, bounds>>

\* Mutant: the SQL runs outside the transaction.
ExecAtOnce(r) ==
    /\ pc[r] = "exec"
    /\ \E f \in FirstPending(r) :
          IF f \in Ran THEN Return(r, "failed") /\ UNCHANGED schema
          ELSE Goto(r, "record") /\ schema' = Append(schema, f) /\ UNCHANGED outcome
    /\ UNCHANGED <<ledger, created, lock, inflight, build, todo, bounds>>

\* applyOne: the SQL, in a transaction.  It fails if the objects exist already.
Exec(r) ==
    /\ pc[r] = "exec"
    /\ \E f \in FirstPending(r) :
          IF f \in Ran THEN Return(r, "failed") ELSE Goto(r, "record") /\ UNCHANGED outcome
    /\ UNCHANGED <<database, lock, inflight, build, todo, bounds>>

\* The row, in the same transaction.  It fails if the version has one.
Record(r) ==
    /\ pc[r] = "record"
    /\ \E f \in FirstPending(r) :
          IF \E rec \in ledger : rec.version = f.version
          THEN Return(r, "failed") ELSE Goto(r, "commit") /\ UNCHANGED outcome
    /\ UNCHANGED <<database, lock, inflight, build, todo, bounds>>

\* The schema change and its row take effect together.
TakeEffect(f) == schema' = Append(schema, f) /\ ledger' = ledger \cup {f}

Commit(r) ==
    /\ pc[r] = "commit"
    /\ \E f \in FirstPending(r) :
          /\ TakeEffect(f)
          /\ todo' = [todo EXCEPT ![r] = @ \ {f}]
    /\ IF todo'[r] = {} THEN Return(r, "serving") ELSE Goto(r, "exec") /\ UNCHANGED outcome
    /\ UNCHANGED <<created, lock, inflight, build, bounds>>

\* pg_advisory_unlock; then the process serves, or exits.
Unlock(r) ==
    /\ pc[r] = "unlock"
    /\ lock' = IF lock = r THEN Free ELSE lock
    /\ Goto(r, outcome[r])
    /\ UNCHANGED <<database, inflight, build, todo, outcome, bounds>>

\* A statement fails.  Its transaction is rolled back and Migrate returns the error.
Fail(r) ==
    /\ faults < MaxFaults
    /\ pc[r] \in Holding \ {"unlock"}
    /\ faults' = faults + 1
    /\ Return(r, "failed")
    /\ UNCHANGED <<database, lock, inflight, build, todo, deploys>>

\* The process dies or its connection breaks.  Only the unlock's error is not
\* returned: there the process, if it lives, goes on to its outcome.
Lose(r) ==
    /\ faults < MaxFaults
    /\ pc[r] \in Holding \cup {"lock"}
    /\ faults' = faults + 1
    /\ \/ Goto(r, "failed")
       \/ pc[r] = "unlock" /\ Goto(r, outcome[r])
    /\ IF lock = r
         THEN /\ lock' = Orphan
              /\ IF pc[r] = "commit" THEN inflight' \in FirstPending(r) ELSE inflight' = NoFile
         ELSE UNCHANGED <<lock, inflight>>
    /\ UNCHANGED <<database, build, todo, outcome, deploys>>

\* The server ends the session left behind: what it was doing is rolled back, or
\* its COMMIT had got through.
EndOrphan ==
    /\ lock = Orphan
    /\ lock' = Free
    /\ \/ UNCHANGED <<schema, ledger>>
       \/ inflight # NoFile /\ TakeEffect(inflight)
    /\ inflight' = NoFile
    /\ UNCHANGED <<created, build, pc, todo, outcome, bounds>>

\* A deploy, or a rollback: the replica is restarted with another build.
Deploy(r, b) ==
    /\ deploys < MaxDeploys
    /\ pc[r] \in {"serving", "refused", "failed"}
    /\ deploys' = deploys + 1
    /\ build' = [build EXCEPT ![r] = b]
    /\ Goto(r, "down")
    /\ UNCHANGED <<database, lock, inflight, todo, outcome, faults>>

---------------------------------------------------------------------------
Step(r) ==
    \/ Boot(r) \/ Lock(r) \/ EnsureMigrationsTable(r) \/ Read(r)
    \/ Exec(r) \/ Record(r) \/ Commit(r) \/ Unlock(r)

Next ==
    \/ \E r \in Replica : Step(r) \/ Fail(r) \/ Lose(r)
    \/ \E r \in Replica, b \in Build : Deploy(r, b)
    \/ EndOrphan

Spec == Init /\ [][Next]_vars

\* A live process goes on, a supervisor restarts one that failed, and the server
\* ends a session whose client is gone.
FairSpec == Spec /\ WF_vars(EndOrphan) /\ \A r \in Replica : WF_vars(Step(r))

---------------------------------------------------------------------------
\* However many replicas boot together, crash and are deployed, the schema is
\* a history some build prescribes.
History == INSTANCE SchemaHistory WITH Build <- Build, schema <- schema
ImplementsHistory == History!Spec

\* One transaction per migration: the ledger lists exactly the files that ran,
\* wherever a process died, a COMMIT with a lost answer included.
LedgerIsTheSchema == ledger = Ran

\* Each version is applied once, in one variant.
AppliedOnce == \A i, j \in DOMAIN schema : schema[i].version = schema[j].version => i = j

\* A replica that boots with others never meets their objects: the file it is
\* about to run has not run, so nobody fails with a duplicate object.
LosersDoNotFail ==
    \A r \in Replica : pc[r] \in {"exec", "record", "commit"} =>
        \A f \in FirstPending(r) : \A g \in Ran : g.version # f.version

\* A replica that serves has its whole schema, though it released the lock before
\* it began and others have migrated since.
ServingIsMigrated == \A r \in Replica : pc[r] = "serving" => build[r] \subseteq Ran

\* A replica refuses to boot only for a reason that waiting does not remove: two
\* of its files share a version, or a file that ran is not one of its files.
RefusalIsJustified ==
    \A r \in Replica : pc[r] = "refused" =>
        ~WellFormed(build[r]) \/ ~(Ran \subseteq build[r])

\* The advisory lock is never left behind: once failures and deploys stop, every
\* replica comes to serve or to refuse, and stays there.
EveryReplicaSettles == <>[](\A r \in Replica : pc[r] \in {"serving", "refused"})

=============================================================================
