---------------------------- MODULE MigrationsProofs ----------------------------
(***************************************************************************)
(* What the migration runner promises for any number of replicas, any set of *)
(* builds and any number of failures: it implements SchemaHistory.          *)
(***************************************************************************)
EXTENDS Migrations, SequenceTheorems, TLAPS

\* The lock excludes: whoever is past Lock and not past Unlock holds it.
HoldersHold == \A r \in Replica : pc[r] \in Holding <=> lock = r

\* A file may run next: a well-formed build has everything that ran, and it.
MayRun(b, f) ==
    /\ b \in Build /\ WellFormed(b) /\ ledger \subseteq b
    /\ f \in b \ ledger /\ \A g \in b \ ledger : f.version <= g.version

\* What a replica read under the lock is still so while it holds it.
ReadsAreCurrent ==
    \A r \in Replica :
        /\ pc[r] \in {"exec", "record", "commit"} =>
              ledger \subseteq build[r] /\ todo[r] = build[r] \ ledger
        /\ pc[r] = "unlock" /\ outcome[r] = "serving" => build[r] \subseteq ledger
        /\ pc[r] = "unlock" /\ outcome[r] = "refused" => ~(ledger \subseteq build[r])
        /\ pc[r] \in Holding \cup {"lock"} => WellFormed(build[r])

\* The COMMIT of a session left behind is as good as when it was sent.
OrphanMayRun ==
    inflight # NoFile => lock = Orphan /\ \E b \in Build : MayRun(b, inflight)

\* One file per version in the ledger: it is part of one well-formed build.
LedgerIsWellFormed == WellFormed(ledger)

IInv ==
    /\ TypeOK
    /\ LedgerIsTheSchema
    /\ HoldersHold
    /\ ReadsAreCurrent
    /\ OrphanMayRun
    /\ LedgerIsWellFormed
    /\ ServingIsMigrated
    /\ RefusalIsJustified
    /\ AppliedOnce

---------------------------------------------------------------------------
\* Appending a file adds it, and nothing else, to what ran.
LEMMA RanAppend ==
    ASSUME NEW s \in Seq(Files), NEW f \in Files
    PROVE  {Append(s, f)[i] : i \in DOMAIN Append(s, f)} = {s[i] : i \in DOMAIN s} \cup {f}
  <1>1. /\ Append(s, f) \in Seq(Files) /\ Len(Append(s, f)) = Len(s) + 1
        /\ \A i \in 1..Len(s) : Append(s, f)[i] = s[i]
        /\ Append(s, f)[Len(s) + 1] = f
    BY AppendProperties
  <1>2. DOMAIN s = 1..Len(s) /\ DOMAIN Append(s, f) = 1..(Len(s) + 1) /\ Len(s) \in Nat
    BY <1>1, LenProperties
  <1>3. 1..(Len(s) + 1) = 1..Len(s) \cup {Len(s) + 1}
    BY <1>2
  <1>4. QED
    BY <1>1, <1>2, <1>3

\* A file with a new version keeps every version unique.
LEMMA OnceAppend ==
    ASSUME TypeOK, AppliedOnce, NEW f \in Files, \A g \in Ran : g.version # f.version,
           schema' = Append(schema, f)
    PROVE  AppliedOnce'
  <1>1. /\ schema \in Seq(Files) /\ Len(schema) \in Nat
        /\ DOMAIN schema = 1..Len(schema) /\ DOMAIN schema' = 1..(Len(schema) + 1)
        /\ \A i \in 1..Len(schema) : schema'[i] = schema[i]
        /\ schema'[Len(schema) + 1] = f
    BY AppendProperties, LenProperties DEF TypeOK
  <1>2. \A i \in 1..Len(schema) : schema[i].version # f.version
    BY <1>1 DEF Ran
  <1>3. QED
    BY <1>1, <1>2 DEF AppliedOnce

\* verifyChecksums says what it means: what ran is part of the build.
LEMMA VerifyMeans ==
    ASSUME TypeOK, NEW b \in Build
    PROVE  Verify(b) <=> ledger \subseteq b
  <1>1. b \subseteq [version : Nat, body : Body] /\ ledger \subseteq [version : Nat, body : Body]
    BY MigrationConfig DEF TypeOK, Files
  <1>2. ASSUME NEW rec \in ledger, NEW f \in b, f.version = rec.version, f.body = rec.body
        PROVE  f = rec
    BY <1>1, <1>2
  <1>3. QED
    BY <1>2 DEF Verify

\* The files without a row are those that have not run.
LEMMA PendingMeans ==
    ASSUME NEW b \in Build, WellFormed(b), ledger \subseteq b
    PROVE  Pending(b) = b \ ledger
  BY DEF Pending, WellFormed

\* A step that leaves the database alone leaves what ran alone.
LEMMA Quiet ==
    ASSUME IInv, UNCHANGED <<schema, ledger>>
    PROVE  LedgerIsTheSchema' /\ AppliedOnce' /\ LedgerIsWellFormed' /\ Ran' = Ran
  BY DEF IInv, LedgerIsTheSchema, AppliedOnce, LedgerIsWellFormed, Ran

\* A file that may run takes effect: the history grows by it, as some build says.
LEMMA Effect ==
    ASSUME IInv, NEW f, NEW b \in Build, MayRun(b, f), TakeEffect(f)
    PROVE  /\ schema' \in Seq(Files) /\ ledger' \in SUBSET Files
           /\ LedgerIsTheSchema' /\ AppliedOnce' /\ LedgerIsWellFormed'
           /\ Ran' = Ran \cup {f}
           /\ History!Next
  <1> USE DEF IInv
  <1>1. f \in b /\ f \in Files /\ WellFormed(b) /\ ledger = Ran /\ Ran \subseteq b
    BY DEF MayRun, Files, LedgerIsTheSchema
  <1>2. \A g \in Ran : g.version # f.version
    BY <1>1 DEF MayRun, WellFormed
  <1>3. schema \in Seq(Files) /\ schema' = Append(schema, f) /\ ledger' = ledger \cup {f}
    BY DEF TypeOK, TakeEffect
  <1>4. schema' \in Seq(Files) /\ ledger' \in SUBSET Files
    BY <1>1, <1>3, AppendProperties DEF TypeOK
  <1>5. AppliedOnce'
    BY <1>1, <1>2, <1>3, OnceAppend
  <1>6. Ran' = Ran \cup {f}
    BY <1>1, <1>3, RanAppend DEF Ran
  <1>7. LedgerIsTheSchema'
    BY <1>1, <1>3, <1>6 DEF LedgerIsTheSchema
  <1>8. LedgerIsWellFormed'
    BY <1>1, <1>3 DEF LedgerIsWellFormed, WellFormed
  <1>9. History!Next
    <2>1. History!Ran = Ran
      BY DEF History!Ran, Ran
    <2>2. f \in b \ Ran /\ \A g \in b \ Ran : f.version <= g.version
      BY <1>1 DEF MayRun
    <2>3. QED
      BY <1>1, <1>3, <2>1, <2>2 DEF History!Next, History!Run
  <1>10. QED
    BY <1>4, <1>5, <1>6, <1>7, <1>8, <1>9

\* The next file of a replica that holds the lock may run.
LEMMA NextMayRun ==
    ASSUME IInv, NEW r \in Replica, pc[r] \in {"exec", "record", "commit"},
           NEW f \in FirstPending(r)
    PROVE  MayRun(build[r], f)
  BY DEF IInv, TypeOK, ReadsAreCurrent, FirstPending, MayRun, Holding

---------------------------------------------------------------------------
LEMMA InitIInv == Init => IInv
  <1> SUFFICES ASSUME Init PROVE IInv
    OBVIOUS
  <1>1. schema = <<>> /\ schema \in Seq(Files) /\ Ran = {} /\ ledger = {}
    BY DEF Init, Ran
  <1>2. TypeOK
    <2>1. faults \in 0..MaxFaults /\ deploys \in 0..MaxDeploys
      BY MigrationConfig DEF Init
    <2>2. QED
      BY <1>1, <2>1 DEF Init, TypeOK
  <1>3. HoldersHold /\ ReadsAreCurrent /\ ServingIsMigrated /\ RefusalIsJustified
    BY MigrationConfig DEF Init, HoldersHold, ReadsAreCurrent, ServingIsMigrated,
       RefusalIsJustified, Holding
  <1>4. OrphanMayRun
    BY DEF Init, OrphanMayRun
  <1>5. LedgerIsTheSchema /\ LedgerIsWellFormed /\ AppliedOnce
    BY <1>1 DEF LedgerIsTheSchema, LedgerIsWellFormed, WellFormed, AppliedOnce
  <1>6. QED
    BY <1>2, <1>3, <1>4, <1>5 DEF IInv

\* The steps of a boot that leave the database and the lock alone.
LEMMA BootStep ==
    ASSUME IInv, NEW r \in Replica,
           Boot(r) \/ EnsureMigrationsTable(r) \/ Exec(r) \/ Record(r) \/ Fail(r)
    PROVE  IInv'
  <1> USE DEF IInv
  <1>1. /\ UNCHANGED <<schema, ledger, lock, inflight, build, todo, deploys>>
        /\ Ran' = Ran /\ LedgerIsTheSchema' /\ AppliedOnce' /\ LedgerIsWellFormed'
    BY Quiet DEF Boot, EnsureMigrationsTable, Exec, Record, Fail, database, bounds
  <1>2. TypeOK'
    <2>1. CASE Boot(r)
      BY <2>1 DEF TypeOK, Holding, Boot, database, bounds, Goto
    <2>2. CASE EnsureMigrationsTable(r)
      BY <2>2 DEF TypeOK, Holding, EnsureMigrationsTable, bounds, Goto
    <2>3. CASE Exec(r)
      BY <2>3 DEF TypeOK, Holding, Exec, database, bounds, Goto, Return
    <2>4. CASE Record(r)
      BY <2>4 DEF TypeOK, Holding, Record, database, bounds, Goto, Return
    <2>5. CASE Fail(r)
      <3>1. faults' \in 0..MaxFaults
        BY <2>5, MigrationConfig DEF Fail, TypeOK
      <3>2. QED
        BY <2>5, <3>1 DEF TypeOK, Holding, Fail, database, Goto, Return
    <2>6. QED
      BY <2>1, <2>2, <2>3, <2>4, <2>5
  <1>3. HoldersHold'
    BY <1>1 DEF TypeOK, HoldersHold, Holding, Boot, EnsureMigrationsTable, Exec, Record, Fail,
       Goto, Return
  <1>4. ReadsAreCurrent'
    BY <1>1 DEF TypeOK, ReadsAreCurrent, Holding, Boot, EnsureMigrationsTable, Exec, Record,
       Fail, Goto, Return
  <1>5. OrphanMayRun'
    BY <1>1 DEF OrphanMayRun, MayRun
  <1>6. ServingIsMigrated' /\ RefusalIsJustified'
    BY <1>1 DEF TypeOK, ServingIsMigrated, RefusalIsJustified, Boot, EnsureMigrationsTable,
       Exec, Record, Fail, Goto, Return
  <1>7. QED
    BY <1>1, <1>2, <1>3, <1>4, <1>5, <1>6

\* The steps that take the lock, give it up or lose it, and the other quiet ones.
LEMMA LockStep ==
    ASSUME IInv, NEW r \in Replica, Lock(r) \/ Unlock(r)
    PROVE  IInv'
  <1> USE DEF IInv
  <1>1. /\ UNCHANGED <<schema, ledger, inflight, build, todo, outcome, created, faults, deploys>>
        /\ Ran' = Ran /\ LedgerIsTheSchema' /\ AppliedOnce' /\ LedgerIsWellFormed'
    BY Quiet DEF Lock, Unlock, database, bounds
  <1>2. TypeOK'
    BY <1>1 DEF TypeOK, Holding, Lock, Unlock, Goto
  <1>3. HoldersHold'
    BY <1>1, MigrationConfig DEF TypeOK, HoldersHold, Holding, Lock, Unlock, Goto
  <1>4. ReadsAreCurrent'
    BY <1>1 DEF TypeOK, ReadsAreCurrent, Holding, Lock, Unlock, Goto
  <1>5. OrphanMayRun'
    BY <1>1, MigrationConfig DEF TypeOK, OrphanMayRun, MayRun, HoldersHold, Holding, Lock, Unlock
  <1>6. ServingIsMigrated' /\ RefusalIsJustified'
    BY <1>1 DEF TypeOK, ServingIsMigrated, RefusalIsJustified, ReadsAreCurrent,
       LedgerIsTheSchema, Lock, Unlock, Goto
  <1>7. QED
    BY <1>1, <1>2, <1>3, <1>4, <1>5, <1>6

LEMMA ReadStep ==
    ASSUME IInv, NEW r \in Replica, Read(r)
    PROVE  IInv'
  <1> USE DEF IInv
  <1>1. /\ UNCHANGED <<schema, ledger, lock, inflight, build, created, faults, deploys>>
        /\ Ran' = Ran /\ LedgerIsTheSchema' /\ AppliedOnce' /\ LedgerIsWellFormed'
    BY Quiet DEF Read, database, bounds
  <1>2. build[r] \in Build /\ WellFormed(build[r]) /\ pc[r] = "read"
    BY DEF TypeOK, ReadsAreCurrent, Read, Holding
  <1>3. CASE ~Verify(build[r])
    <2>1. ~(ledger \subseteq build[r])
      BY <1>2, <1>3, VerifyMeans
    <2>2. UNCHANGED todo /\ pc' = [pc EXCEPT ![r] = "unlock"]
                         /\ outcome' = [outcome EXCEPT ![r] = "refused"]
      BY <1>3 DEF Read, Return, Goto
    <2>3. TypeOK'
      BY <1>1, <2>2 DEF TypeOK, Holding
    <2>4. HoldersHold' /\ ReadsAreCurrent' /\ OrphanMayRun'
      BY <1>1, <1>2, <2>1, <2>2 DEF TypeOK, HoldersHold, ReadsAreCurrent, OrphanMayRun, MayRun, Holding
    <2>5. ServingIsMigrated' /\ RefusalIsJustified'
      BY <1>1, <2>2 DEF TypeOK, ServingIsMigrated, RefusalIsJustified
    <2>6. QED
      BY <1>1, <2>3, <2>4, <2>5
  <1>4. CASE Verify(build[r])
    <2>1. ledger \subseteq build[r] /\ Pending(build[r]) = build[r] \ ledger
      BY <1>2, <1>4, VerifyMeans, PendingMeans
    <2>2. todo' = [todo EXCEPT ![r] = build[r] \ ledger] /\ todo'[r] = build[r] \ ledger
      BY <1>4, <2>1 DEF Read, TypeOK
    <2>3. \/ /\ todo'[r] = {} /\ pc' = [pc EXCEPT ![r] = "unlock"]
             /\ outcome' = [outcome EXCEPT ![r] = "serving"]
          \/ pc' = [pc EXCEPT ![r] = "exec"] /\ UNCHANGED outcome
      BY <1>4 DEF Read, Return, Goto
    <2>4. TypeOK'
      BY <1>1, <1>2, <2>2, <2>3 DEF TypeOK, Holding, Files
    <2>5. HoldersHold' /\ OrphanMayRun'
      BY <1>1, <1>2, <2>3 DEF TypeOK, HoldersHold, OrphanMayRun, MayRun, Holding
    <2>6. ReadsAreCurrent'
      BY <1>1, <1>2, <2>1, <2>2, <2>3 DEF TypeOK, ReadsAreCurrent, Holding
    <2>7. ServingIsMigrated' /\ RefusalIsJustified'
      BY <1>1, <2>3 DEF TypeOK, ServingIsMigrated, RefusalIsJustified
    <2>8. QED
      BY <1>1, <2>4, <2>5, <2>6, <2>7
  <1>5. QED
    BY <1>3, <1>4

\* The COMMIT of a replica that holds the lock.
LEMMA CommitStep ==
    ASSUME IInv, NEW r \in Replica, Commit(r)
    PROVE  IInv' /\ History!Next
  <1> USE DEF IInv
  <1>1. PICK f \in FirstPending(r) : TakeEffect(f) /\ todo' = [todo EXCEPT ![r] = @ \ {f}]
    BY DEF Commit
  <1>2. /\ pc[r] = "commit" /\ build[r] \in Build /\ MayRun(build[r], f)
        /\ UNCHANGED <<created, lock, inflight, build, faults, deploys>>
    BY NextMayRun DEF Commit, TypeOK, bounds
  <1>3. /\ schema' \in Seq(Files) /\ ledger' \in SUBSET Files
        /\ LedgerIsTheSchema' /\ AppliedOnce' /\ LedgerIsWellFormed'
        /\ Ran' = Ran \cup {f} /\ History!Next
    BY <1>1, <1>2, Effect
  <1>4. /\ ledger' = ledger \cup {f} /\ f \in build[r]
        /\ ledger \subseteq build[r] /\ todo[r] = build[r] \ ledger
    BY <1>1, <1>2 DEF TakeEffect, MayRun, ReadsAreCurrent
  <1>5. /\ todo'[r] = build'[r] \ ledger' /\ ledger' \subseteq build'[r]
        /\ \A q \in Replica \ {r} : todo'[q] = todo[q]
    BY <1>1, <1>2, <1>4 DEF TypeOK
  <1>6. \/ /\ todo'[r] = {} /\ pc' = [pc EXCEPT ![r] = "unlock"]
           /\ outcome' = [outcome EXCEPT ![r] = "serving"]
        \/ pc' = [pc EXCEPT ![r] = "exec"] /\ UNCHANGED outcome
    BY DEF Commit, Return, Goto
  <1>7. lock = r /\ \A q \in Replica \ {r} : pc[q] \notin Holding
    BY <1>2 DEF HoldersHold, Holding
  <1>8. TypeOK'
    BY <1>1, <1>2, <1>3, <1>6 DEF TypeOK, Holding
  <1>9. HoldersHold'
    BY <1>2, <1>6 DEF TypeOK, HoldersHold, Holding
  <1>10. ReadsAreCurrent'
    BY <1>2, <1>5, <1>6, <1>7 DEF TypeOK, ReadsAreCurrent, Holding
  <1>11. OrphanMayRun'
    BY <1>2, <1>7, MigrationConfig DEF OrphanMayRun
  <1>12. ServingIsMigrated' /\ RefusalIsJustified'
    BY <1>2, <1>3, <1>6 DEF TypeOK, ServingIsMigrated, RefusalIsJustified
  <1>13. QED
    BY <1>3, <1>8, <1>9, <1>10, <1>11, <1>12

\* A session is lost, with its COMMIT perhaps under way.
LEMMA LoseStep ==
    ASSUME IInv, NEW r \in Replica, Lose(r)
    PROVE  IInv'
  <1> USE DEF IInv
  <1>1. /\ UNCHANGED <<schema, ledger, build, todo, outcome, created, deploys>>
        /\ Ran' = Ran /\ LedgerIsTheSchema' /\ AppliedOnce' /\ LedgerIsWellFormed'
    BY Quiet DEF Lose, database
  <1>2. /\ pc[r] \in Holding \cup {"lock"} /\ faults' \in 0..MaxFaults
        /\ \/ pc' = [pc EXCEPT ![r] = "failed"]
           \/ pc[r] = "unlock" /\ pc' = [pc EXCEPT ![r] = outcome[r]]
    BY MigrationConfig DEF Lose, Goto, TypeOK
  <1>3. CASE lock = r
    <2>1. lock' = Orphan /\ pc[r] \in Holding
      BY <1>3 DEF Lose, HoldersHold
    <2>2. \/ inflight' = NoFile
          \/ pc[r] = "commit" /\ inflight' \in FirstPending(r)
      BY <1>3 DEF Lose
    <2>3. TypeOK'
      BY <1>1, <1>2, <2>1, <2>2 DEF TypeOK, Holding, FirstPending
    <2>4. HoldersHold'
      BY <1>2, <1>3, <2>1, MigrationConfig DEF TypeOK, HoldersHold, Holding
    <2>5. OrphanMayRun'
      <3>1. CASE inflight' = NoFile
        BY <3>1 DEF OrphanMayRun
      <3>2. CASE pc[r] = "commit" /\ inflight' \in FirstPending(r)
        <4>1. build[r] \in Build /\ MayRun(build[r], inflight')
          BY <3>2, NextMayRun DEF TypeOK
        <4>2. QED
          BY <1>1, <2>1, <4>1 DEF OrphanMayRun, MayRun
      <3>3. QED
        BY <2>2, <3>1, <3>2
    <2>6. ReadsAreCurrent'
      BY <1>1, <1>2 DEF TypeOK, ReadsAreCurrent, Holding
    <2>7. ServingIsMigrated' /\ RefusalIsJustified'
      BY <1>1, <1>2 DEF TypeOK, ServingIsMigrated, RefusalIsJustified, ReadsAreCurrent,
         LedgerIsTheSchema
    <2>8. QED
      BY <1>1, <2>3, <2>4, <2>5, <2>6, <2>7
  <1>4. CASE lock # r
    <2>1. UNCHANGED <<lock, inflight>> /\ pc[r] = "lock" /\ pc' = [pc EXCEPT ![r] = "failed"]
      BY <1>2, <1>4 DEF Lose, HoldersHold, Holding
    <2>2. TypeOK'
      BY <1>1, <1>2, <2>1 DEF TypeOK
    <2>3. HoldersHold' /\ OrphanMayRun' /\ ReadsAreCurrent'
      BY <1>1, <1>4, <2>1 DEF TypeOK, HoldersHold, OrphanMayRun, MayRun, ReadsAreCurrent, Holding
    <2>4. ServingIsMigrated' /\ RefusalIsJustified'
      BY <1>1, <2>1 DEF TypeOK, ServingIsMigrated, RefusalIsJustified
    <2>5. QED
      BY <1>1, <2>2, <2>3, <2>4
  <1>5. QED
    BY <1>3, <1>4

\* The session left behind ends, before or after its COMMIT.
LEMMA OrphanStep ==
    ASSUME IInv, EndOrphan
    PROVE  IInv' /\ [History!Next]_schema
  <1> USE DEF IInv
  <1>1. /\ lock = Orphan /\ lock' = Free /\ inflight' = NoFile
        /\ UNCHANGED <<created, build, pc, todo, outcome, faults, deploys>>
    BY DEF EndOrphan, bounds
  <1>2. \A r \in Replica : pc[r] \notin Holding
    BY <1>1, MigrationConfig DEF HoldersHold
  <1>3. HoldersHold' /\ OrphanMayRun'
    BY <1>1, <1>2, MigrationConfig DEF HoldersHold, OrphanMayRun
  <1>4. ReadsAreCurrent'
    BY <1>1, <1>2 DEF ReadsAreCurrent, Holding
  <1>5. CASE UNCHANGED <<schema, ledger>>
    <2>1. Ran' = Ran /\ LedgerIsTheSchema' /\ AppliedOnce' /\ LedgerIsWellFormed'
      BY <1>5, Quiet
    <2>2. TypeOK' /\ ServingIsMigrated' /\ RefusalIsJustified'
      BY <1>1, <1>5, <2>1 DEF TypeOK, ServingIsMigrated, RefusalIsJustified
    <2>3. QED
      BY <1>3, <1>4, <1>5, <2>1, <2>2
  <1>6. CASE inflight # NoFile /\ TakeEffect(inflight)
    <2>1. PICK b \in Build : MayRun(b, inflight)
      BY <1>6 DEF OrphanMayRun
    <2>2. /\ schema' \in Seq(Files) /\ ledger' \in SUBSET Files
          /\ LedgerIsTheSchema' /\ AppliedOnce' /\ LedgerIsWellFormed'
          /\ Ran' = Ran \cup {inflight} /\ History!Next
      BY <1>6, <2>1, Effect
    <2>3. TypeOK' /\ ServingIsMigrated' /\ RefusalIsJustified'
      BY <1>1, <2>2 DEF TypeOK, ServingIsMigrated, RefusalIsJustified
    <2>4. QED
      BY <1>3, <1>4, <2>2, <2>3
  <1>7. QED
    BY <1>5, <1>6 DEF EndOrphan

LEMMA DeployStep ==
    ASSUME IInv, NEW r \in Replica, NEW b \in Build, Deploy(r, b)
    PROVE  IInv'
  <1> USE DEF IInv
  <1>1. /\ UNCHANGED <<schema, ledger, lock, inflight, todo, outcome, created, faults>>
        /\ Ran' = Ran /\ LedgerIsTheSchema' /\ AppliedOnce' /\ LedgerIsWellFormed'
    BY Quiet DEF Deploy, database
  <1>2. /\ pc[r] \in {"serving", "refused", "failed"} /\ pc' = [pc EXCEPT ![r] = "down"]
        /\ build' = [build EXCEPT ![r] = b] /\ deploys' \in 0..MaxDeploys
    BY MigrationConfig DEF Deploy, Goto, TypeOK
  <1>3. TypeOK' /\ HoldersHold' /\ OrphanMayRun'
    BY <1>1, <1>2 DEF TypeOK, HoldersHold, OrphanMayRun, MayRun, Holding
  <1>4. ReadsAreCurrent' /\ ServingIsMigrated' /\ RefusalIsJustified'
    BY <1>1, <1>2 DEF TypeOK, ReadsAreCurrent, ServingIsMigrated, RefusalIsJustified, Holding
  <1>5. QED
    BY <1>1, <1>3, <1>4

\* Every step keeps the invariant, and is a step of the abstract history or none.
LEMMA IInvStep == IInv /\ [Next]_vars => IInv' /\ [History!Next]_schema
  <1> SUFFICES ASSUME IInv, [Next]_vars PROVE IInv' /\ [History!Next]_schema
    OBVIOUS
  <1>1. ASSUME NEW r \in Replica, Step(r) PROVE IInv' /\ [History!Next]_schema
    <2>1. CASE Commit(r)
      BY <2>1, CommitStep
    <2>2. CASE Boot(r) \/ EnsureMigrationsTable(r) \/ Exec(r) \/ Record(r)
      BY <2>2, BootStep DEF Boot, EnsureMigrationsTable, Exec, Record, database
    <2>3. CASE Lock(r) \/ Unlock(r)
      BY <2>3, LockStep DEF Lock, Unlock, database
    <2>4. CASE Read(r)
      BY <2>4, ReadStep DEF Read, database
    <2>5. QED
      BY <1>1, <2>1, <2>2, <2>3, <2>4 DEF Step
  <1>2. ASSUME NEW r \in Replica, Fail(r) PROVE IInv' /\ [History!Next]_schema
    BY <1>2, BootStep DEF Fail, database
  <1>3. ASSUME NEW r \in Replica, Lose(r) PROVE IInv' /\ [History!Next]_schema
    BY <1>3, LoseStep DEF Lose, database
  <1>4. ASSUME NEW r \in Replica, NEW b \in Build, Deploy(r, b)
        PROVE  IInv' /\ [History!Next]_schema
    BY <1>4, DeployStep DEF Deploy, database
  <1>5. CASE EndOrphan
    BY <1>5, OrphanStep
  <1>6. CASE UNCHANGED vars
    <2>1. Ran' = Ran /\ LedgerIsTheSchema' /\ AppliedOnce' /\ LedgerIsWellFormed'
      BY <1>6, Quiet DEF vars
    <2>2. QED
      BY <1>6, <2>1 DEF IInv, vars, TypeOK, HoldersHold, ReadsAreCurrent, OrphanMayRun, MayRun,
         ServingIsMigrated, RefusalIsJustified
  <1>7. QED
    BY <1>1, <1>2, <1>3, <1>4, <1>5, <1>6 DEF Next

---------------------------------------------------------------------------
\* The inductive invariant holds of every behaviour.
THEOREM MigrationInvariant == Spec => []IInv
  BY InitIInv, IInvStep, PTL DEF Spec

\* Every variable keeps its type.
THEOREM MigrationTypes == Spec => []TypeOK
  <1>1. IInv => TypeOK
    BY DEF IInv
  <1>2. QED
    BY <1>1, MigrationInvariant, PTL

\* migrate.go implements the abstract history: whatever the replicas, builds and
\* failures, the schema grows by whole files, in the order some build gives them.
THEOREM MigrateImplementsHistory == Spec => ImplementsHistory
  <1>1. Init => History!Init
    BY DEF Init, History!Init
  <1>2. IInv /\ [Next]_vars => [History!Next]_schema
    BY IInvStep
  <1>3. QED
    BY <1>1, <1>2, MigrationInvariant, PTL DEF Spec, ImplementsHistory, History!Spec

\* One transaction per migration: the ledger never disagrees with the schema.
THEOREM LedgerAgrees == Spec => []LedgerIsTheSchema
  <1>1. IInv => LedgerIsTheSchema
    BY DEF IInv
  <1>2. QED
    BY <1>1, MigrationInvariant, PTL

\* Exactly once: no version is applied twice.
THEOREM EachVersionOnce == Spec => []AppliedOnce
  <1>1. IInv => AppliedOnce
    BY DEF IInv
  <1>2. QED
    BY <1>1, MigrationInvariant, PTL

\* The loser of the race for the lock finds nothing it has to create twice.
THEOREM NoDuplicateObjects == Spec => []LosersDoNotFail
  <1>1. IInv => LosersDoNotFail
    <2> SUFFICES ASSUME IInv, NEW r \in Replica, pc[r] \in {"exec", "record", "commit"},
                        NEW f \in FirstPending(r), NEW g \in Ran
                 PROVE  g.version # f.version
      BY DEF LosersDoNotFail
    <2>1. MayRun(build[r], f) /\ g \in ledger
      BY NextMayRun DEF IInv, LedgerIsTheSchema
    <2>2. QED
      BY <2>1 DEF MayRun, WellFormed
  <1>2. QED
    BY <1>1, MigrationInvariant, PTL

\* A replica that serves runs on a schema that has all of its files.
THEOREM ServingReplicasAreMigrated == Spec => []ServingIsMigrated
  <1>1. IInv => ServingIsMigrated
    BY DEF IInv
  <1>2. QED
    BY <1>1, MigrationInvariant, PTL

\* A refusal to boot always has its lasting reason.
THEOREM RefusalsAreJustified == Spec => []RefusalIsJustified
  <1>1. IInv => RefusalIsJustified
    BY DEF IInv
  <1>2. QED
    BY <1>1, MigrationInvariant, PTL

---------------------------------------------------------------------------
(***************************************************************************)
(* What EveryReplicaSettles rests on besides fairness: without a further    *)
(* fault or deploy a boot only goes forward, and the lock has an owner who   *)
(* will give it up.                                                         *)
(***************************************************************************)
Stage == [failed |-> 0, down |-> 0, lock |-> 1, ensure |-> 2, read |-> 3, exec |-> 4,
          record |-> 5, commit |-> 6, unlock |-> 7, serving |-> 8, refused |-> 8]

\* The boot is lost, and only has the lock to release.
Given(r) == pc[r] = "unlock" /\ outcome[r] = "failed"

\* A replica stays as it is, reaches a later stage of its boot, goes on with one file
\* less, or exits with the error of an earlier fault.
GoesOn(r) ==
    \/ UNCHANGED <<pc[r], todo[r], outcome[r]>>
    \/ Stage[pc'[r]] > Stage[pc[r]] /\ ~Given(r)'
    \/ /\ pc[r] = "commit" /\ pc'[r] = "exec"
       /\ \E f \in todo[r] : todo'[r] = todo[r] \ {f}
    \/ Given(r) /\ pc'[r] = "failed"

OnlyFaultsSetBack == [][UNCHANGED bounds => \A r \in Replica : GoesOn(r)]_vars

\* Who holds the lock can give it up: a replica on its way to Unlock, or a session the
\* server will end.
Releasable == lock = Free \/ lock = Orphan \/ \E r \in Replica : lock = r /\ pc[r] \in Holding

\* The file that is next exists, and nothing of it is there yet.
LEMMA NextIsNew ==
    ASSUME IInv, NEW r \in Replica, pc[r] \in {"exec", "record", "commit"},
           NEW f \in FirstPending(r)
    PROVE  f \in todo[r] /\ f \notin Ran /\ \A rec \in ledger : rec.version # f.version
  <1>1. MayRun(build[r], f) /\ ledger = Ran
    BY NextMayRun DEF IInv, LedgerIsTheSchema
  <1>2. \A rec \in ledger : rec.version # f.version
    BY <1>1 DEF MayRun, WellFormed
  <1>3. QED
    BY <1>1, <1>2 DEF MayRun, FirstPending

\* What a replica does without a fault leads on.
LEMMA StepGoesOn == ASSUME IInv, NEW r \in Replica, Step(r) PROVE GoesOn(r)
  <1> USE DEF Goto, Return, Given, Stage
  <1>0. /\ pc \in [Replica -> {"down", "lock", "serving", "refused", "failed"} \cup Holding]
        /\ todo \in [Replica -> SUBSET Files]
        /\ outcome \in [Replica -> {"serving", "refused", "failed"}]
    BY DEF IInv, TypeOK
  <1>1. CASE Boot(r)
    BY <1>0, <1>1 DEF Boot, GoesOn
  <1>2. CASE Lock(r)
    BY <1>0, <1>2 DEF Lock, GoesOn
  <1>3. CASE EnsureMigrationsTable(r)
    BY <1>0, <1>3 DEF EnsureMigrationsTable, GoesOn
  <1>4. CASE Read(r)
    BY <1>0, <1>4 DEF Read, GoesOn
  <1>5. CASE Exec(r)
    <2>1. pc[r] = "exec" /\ pc' = [pc EXCEPT ![r] = "record"]
      BY <1>5, NextIsNew DEF Exec
    <2> QED
      BY <1>0, <2>1 DEF GoesOn
  <1>6. CASE Record(r)
    <2>1. pc[r] = "record" /\ pc' = [pc EXCEPT ![r] = "commit"]
      BY <1>6, NextIsNew DEF Record
    <2> QED
      BY <1>0, <2>1 DEF GoesOn
  <1>7. CASE Commit(r)
    <2>1. PICK f \in FirstPending(r) : todo' = [todo EXCEPT ![r] = @ \ {f}]
      BY <1>7 DEF Commit
    <2>2. pc[r] = "commit" /\ f \in todo[r] /\ todo'[r] = todo[r] \ {f}
      BY <1>0, <1>7, <2>1, NextIsNew DEF Commit
    <2>3. \/ pc' = [pc EXCEPT ![r] = "unlock"] /\ outcome' = [outcome EXCEPT ![r] = "serving"]
          \/ pc' = [pc EXCEPT ![r] = "exec"]
      BY <1>7 DEF Commit
    <2> QED
      BY <1>0, <2>2, <2>3 DEF GoesOn
  <1>8. CASE Unlock(r)
    BY <1>0, <1>8 DEF Unlock, GoesOn
  <1>9. QED
    BY <1>1, <1>2, <1>3, <1>4, <1>5, <1>6, <1>7, <1>8 DEF Step

\* It leaves the other replicas where they are.
LEMMA StepLeaves ==
    ASSUME IInv, NEW r \in Replica, Step(r), NEW q \in Replica \ {r}
    PROVE  UNCHANGED <<pc[q], todo[q], outcome[q]>>
  BY DEF IInv, TypeOK, Step, Boot, Lock, EnsureMigrationsTable, Read, Exec, Record, Commit,
     Unlock, Goto, Return

\* A boot fails only by a fault: a replica that lost the race for the lock, met another
\* build's migrations or came after a crash is never sent back (Migrate, applyOne).
THEOREM BootsGoForward == Spec => OnlyFaultsSetBack
  <1>1. ASSUME IInv, [Next]_vars
        PROVE  [UNCHANGED bounds => \A r \in Replica : GoesOn(r)]_vars
    <2> SUFFICES ASSUME Next, UNCHANGED bounds, NEW q \in Replica PROVE GoesOn(q)
      BY <1>1
    <2>1. CASE \E r \in Replica : Step(r)
      BY <1>1, <2>1, StepGoesOn, StepLeaves DEF GoesOn
    <2>2. CASE \E r \in Replica : Fail(r) \/ Lose(r)
      BY <1>1, <2>2 DEF Fail, Lose, bounds, IInv, TypeOK
    <2>3. CASE \E r \in Replica, b \in Build : Deploy(r, b)
      BY <1>1, <2>3 DEF Deploy, bounds, IInv, TypeOK
    <2>4. CASE EndOrphan
      BY <2>4 DEF EndOrphan, GoesOn
    <2> QED
      BY <2>1, <2>2, <2>3, <2>4 DEF Next
  <1>2. QED
    BY <1>1, MigrationInvariant, PTL DEF Spec, OnlyFaultsSetBack

\* The advisory lock is never left behind by a replica that returned, refused or
\* crashed (the deferred unlock, the end of a lost session).
THEOREM LockIsReleasable == Spec => []Releasable
  <1>1. IInv => Releasable
    BY DEF IInv, TypeOK, HoldersHold, Releasable
  <1>2. QED
    BY <1>1, MigrationInvariant, PTL

=============================================================================
