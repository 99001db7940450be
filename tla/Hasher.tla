---------------------------------- MODULE Hasher ----------------------------------
(***************************************************************************)
(* Password hashing under load.  Register, Login and ChangePassword take    *)
(* one of a few slots for every argon2 run: a Go channel whose buffer is    *)
(* the slots and whose blocked senders are a queue.  A slot is asked for    *)
(* and given back twice in one request when a password is both verified     *)
(* and hashed, with statements in between.  acquire does not look at the    *)
(* request's context: a client that leaves keeps its place, its hash is      *)
(* computed, and only the next statement fails, which any statement may.    *)
(*                                                                         *)
(* What a hash verifies, and who may write it when, is AuthService; the      *)
(* limiter in front of Login is TokenBucket.                                *)
(***************************************************************************)
EXTENDS Naturals, FiniteSets, Sequences, Functions, FiniteSetsExt

CONSTANTS Request,
          Slots,       \* ARGON2_CONCURRENCY
          Current,     \* the memory of a hash made now: ARGON2_MEMORY_KIB
          Stored,      \* the memory of the hashes in users, made under any setting
          MaxPanics    \* bound: runs of argon2 that panic

ASSUME HasherConfig ==
    /\ Slots \in Nat \ {0}
    /\ Current \in Nat \ {0}
    /\ Stored \subseteq Nat \ {0}
    /\ MaxPanics \in Nat /\ MaxPanics < Slots

VARIABLES
    call,      \* the requests in flight
    queue,     \* those blocked in acquire, in the channel's order
    holding,   \* those between acquire and release
    lost,      \* slots whose holder panicked
    dummy      \* dummyHash has been made

vars == <<call, queue, holding, lost, dummy>>

(***************************************************************************)
(* What Credentials may find: no account, a hash that decodeHash refuses,   *)
(* one whose key is empty (decodeHash accepts it, argon2 panics), or a       *)
(* readable one.  Memory stands for all the parameters NeedsRehash compares. *)
(***************************************************************************)
Missing == [kind |-> "missing", memory |-> Current]   \* the decoy is verified
Unreadable == [kind |-> "unreadable", memory |-> Current]
Hollow == [kind |-> "hollow", memory |-> Current]
Row == {Missing, Unreadable, Hollow} \cup [kind : {"readable"}, memory : Stored]

Op == {"register", "login", "change"}

Idle == [op |-> "login", at |-> "idle", reply |-> "none", row |-> Missing,
         spent |-> 0]

TypeOK ==
    /\ call \in [Request -> [op : Op,
                             at : {"idle", "read", "verify", "checked", "hash", "write",
                                   "issue"},
                             reply : {"none", "refused"}, row : Row, spent : Nat]]
    /\ queue \in Seq(Request)
    /\ holding \in SUBSET Request
    /\ lost \in Nat
    /\ dummy \in BOOLEAN

Init ==
    /\ call = [q \in Request |-> Idle]
    /\ queue = <<>> /\ holding = {} /\ lost = 0
    /\ dummy = FALSE

---------------------------------------------------------------------------
\* Mutants: a stack instead of a queue, a release that is forgotten.
StackUp(q) == <<q>> \o queue
ReleaseNothing(q) == UNCHANGED <<queue, holding>>

Full == Cardinality(holding) + lost >= Slots

Line(q) == Append(queue, q)

\* A verification runs with the parameters of the row, a new hash with today's.
Work(c) == IF c.at = "verify" THEN c.row.memory ELSE Current

\* acquire, at the point c of the request.
Acquire(q, c) ==
    /\ call' = [call EXCEPT ![q] = [c EXCEPT !.spent = @ + Work(c)]]
    /\ IF Full THEN queue' = Line(q) /\ UNCHANGED holding
               ELSE holding' = holding \cup {q} /\ UNCHANGED queue

\* release: a blocked sender gets the place at once.
Release(q) ==
    IF queue = <<>> THEN holding' = holding \ {q} /\ UNCHANGED queue
    ELSE holding' = (holding \ {q}) \cup {Head(queue)} /\ queue' = Tail(queue)

At(q, at) == [call[q] EXCEPT !.at = at]
GoTo(q, at) == call' = [call EXCEPT ![q] = At(q, at)]

\* The request is answered; how, matters only for Login's ErrInvalidCredentials, and
\* what that cost is kept as history.  Whoever changes a password is signed in.
End(q) == call' = [call EXCEPT ![q] = Idle]
Refused(c) == [Idle EXCEPT !.reply = "refused", !.row = c.row, !.spent = c.spent]
Refuse(q, c) == IF c.op = "login" THEN call' = [call EXCEPT ![q] = Refused(c)] ELSE End(q)

\* A statement fails when the client has left, and may fail otherwise.
Outcomes == {"ok", "failed"}

---------------------------------------------------------------------------
\* InitDummyHash, once, before anything is served.
Boot == /\ ~dummy
        /\ dummy' = TRUE
        /\ UNCHANGED <<call, queue, holding, lost>>

\* Register hashes first; the others read the account.
Arrive(q, op) ==
    /\ dummy
    /\ call[q].at = "idle"
    /\ IF op = "register"
         THEN Acquire(q, [Idle EXCEPT !.op = op, !.at = "hash"])
         ELSE /\ call' = [call EXCEPT ![q] = [Idle EXCEPT !.op = op, !.at = "read"]]
              /\ UNCHANGED <<queue, holding>>
    /\ UNCHANGED <<lost, dummy>>

\* Mutant: an account that is missing is refused at once.
SpendNothing(q, c) == Refuse(q, c) /\ UNCHANGED <<queue, holding>>

\* SpendTimeOnAMissingAccount: without a decoy there is nothing to spend.
SpendTime(q, c) ==
    IF dummy THEN Acquire(q, c) ELSE Refuse(q, c) /\ UNCHANGED <<queue, holding>>

\* Credentials.  Login spends a hash on a missing account; ChangePassword, whose user
\* was there a moment ago, returns the error.  A hash nobody can read is refused as a
\* wrong password is, before any slot is asked for.
Read(q, out, row) ==
    LET found == [At(q, "verify") EXCEPT !.row = row]
    IN  /\ call[q].at = "read"
        /\ row.kind = "hollow" => lost + Cardinality({r \in Request : call[r].row = row}) < MaxPanics
        /\ CASE out = "failed" \/ (row.kind = "missing" /\ call[q].op = "change") ->
                  End(q) /\ UNCHANGED <<queue, holding>>
             [] out = "ok" /\ row.kind = "missing" /\ call[q].op = "login" -> SpendTime(q, found)
             [] out = "ok" /\ row.kind = "unreadable" ->
                  Refuse(q, found) /\ UNCHANGED <<queue, holding>>
             [] out = "ok" /\ row.kind \in {"readable", "hollow"} -> Acquire(q, found)
        /\ UNCHANGED <<lost, dummy>>

\* Verify returns.  A wrong password, and at sign-in a suspended account, is refused.
Verified(q, right) ==
    /\ call[q].at = "verify" /\ q \in holding /\ call[q].row.kind # "hollow"
    /\ Release(q)
    /\ IF right /\ call[q].row.kind # "missing" THEN GoTo(q, "checked")
       ELSE Refuse(q, call[q])
    /\ UNCHANGED <<lost, dummy>>

\* argon2 panics between acquire and release, which is not deferred.  Recover
\* answers the request.
Panic(q) ==
    /\ call[q].at = "verify" /\ q \in holding /\ call[q].row.kind = "hollow"
    /\ holding' = holding \ {q}
    /\ lost' = lost + 1
    /\ End(q)
    /\ UNCHANGED <<queue, dummy>>

NeedsRehash(q) == call[q].row.memory < Current

\* Login: ByID, then the upgrade of the hash.  ChangePassword: the policy, then the
\* new hash.
Checked(q, out) ==
    /\ call[q].at = "checked"
    /\ CASE call[q].op = "login" /\ out = "ok" ->
              IF NeedsRehash(q) THEN Acquire(q, At(q, "hash"))
              ELSE GoTo(q, "issue") /\ UNCHANGED <<queue, holding>>
         [] call[q].op = "change" /\ out = "ok" -> Acquire(q, At(q, "hash"))
         [] out = "failed" -> End(q) /\ UNCHANGED <<queue, holding>>
    /\ UNCHANGED <<lost, dummy>>

\* Hash returns.
Hashed(q) ==
    /\ call[q].at = "hash" /\ q \in holding
    /\ Release(q)
    /\ GoTo(q, "write")
    /\ UNCHANGED <<lost, dummy>>

\* Create or UpdatePasswordHash.  An upgrade that fails is only logged.
Write(q, out) ==
    /\ call[q].at = "write"
    /\ IF call[q].op = "login" \/ (call[q].op = "register" /\ out = "ok")
         THEN GoTo(q, "issue") ELSE End(q)
    /\ UNCHANGED <<queue, holding, lost, dummy>>

Issue(q) ==
    /\ call[q].at = "issue"
    /\ End(q)
    /\ UNCHANGED <<queue, holding, lost, dummy>>

---------------------------------------------------------------------------
Progress(q) ==
    \/ \E out \in Outcomes, row \in Row : Read(q, out, row)
    \/ \E right \in BOOLEAN : Verified(q, right)
    \/ \E out \in Outcomes : Checked(q, out) \/ Write(q, out)
    \/ Issue(q) \/ Panic(q) \/ Hashed(q)

Next ==
    \/ Boot
    \/ \E q \in Request : (\E op \in Op : Arrive(q, op)) \/ Progress(q)

Spec == Init /\ [][Next]_vars

\* argon2 ends, and the database answers or fails within a statement's timeout.
FairSpec == Spec /\ \A q \in Request : WF_vars(Progress(q))

---------------------------------------------------------------------------
Cost(row) == IF row.kind = "unreadable" THEN 0 ELSE row.memory

\* A refused sign-in spent one run of argon2 with the parameters of the hash it met:
\* a wrong password, a suspended account and, by way of the decoy, an address without
\* an account cost the same as long as the account's hash is up to date.  One that
\* cannot be read costs nothing, and one from other settings what those say, though
\* service.go has it that "every path through it does the same amount of work" (Login,
\* Verify, SpendTimeOnAMissingAccount).
RefusalsCostTheirRow ==
    \A q \in Request : call[q].reply = "refused" => call[q].spent = Cost(call[q].row)

\* The channel is a fair pool of slots, although a request takes one twice, its
\* client may be gone while it waits, and a panic keeps one.
Slot == INSTANCE HashSlots WITH Client <- Request, waiting <- Range(queue)
ImplementsSlots == Slot!Spec

\* Every request is answered, whatever the others ahead of it do: nobody waits for
\* a slot while holding one.
EveryCallEnds == \A q \in Request : call[q].at # "idle" ~> call[q].at = "idle"

=============================================================================
