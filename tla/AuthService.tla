------------------------------- MODULE AuthService -------------------------------
(***************************************************************************)
(* Accounts, passwords and sessions under concurrent requests.  A request   *)
(* is a sequence of autocommitted statements with no transaction around     *)
(* them, so every other request may run between two of them: one action     *)
(* per statement, together with the computation that follows it.            *)
(*                                                                         *)
(* Time is left to SessionStore: here a session is usable while its row     *)
(* exists and its user is active.  The login limiter is TokenBucket: here   *)
(* it may deny any attempt.  last_login_at, display names and addresses     *)
(* decide nothing and are left out.                                         *)
(***************************************************************************)
EXTENDS Naturals, FiniteSets

CONSTANTS Request,   \* requests being served at once
          Email, Password, Token,
          UserId,    \* ids the users table may hand out
          Ops,       \* the operations that happen in this instance
          Faults,    \* "lost": a statement fails without effect; "late": it fails
                     \* after taking effect; "crash": its process dies
          Outdated   \* whether the accounts' hashes predate the configured cost

AllOps == {"register", "login", "change", "logoutAll", "logoutApi", "logoutWeb",
           "suspend", "delete"}

ASSUME AuthConfig ==
    /\ Ops \subseteq AllOps
    /\ Faults \subseteq {"lost", "late", "crash"}
    /\ Outdated \in BOOLEAN
    /\ "none" \notin Email \cup Password \cup Token \cup UserId

VARIABLES
    address,    \* the email of each id with a row in users
    hash,       \* its stored hash: what it verifies, and whether it is outdated
    suspended,  \* ids whose status is 'suspended'
    owner,      \* the user_id of each token with a row in sessions
    call,       \* the requests in flight
    secret,     \* history: the password each owner last chose
    proof,      \* history: the password each session was opened with, and the
                \* passwords its owner had while the request that opened it ran
    unrevoked,  \* history: ids whose password changed without the sign-out
    reverted    \* history: ids whose hash was last written by an upgrade during
                \* whose sign-in the password changed

vars == <<address, hash, suspended, owner, call, secret, proof, unrevoked, reverted>>

accounts == <<address, hash, suspended>>
history == <<secret, proof, unrevoked, reverted>>

users == {u \in UserId : address[u] # "none"}
sessions == {t \in Token : owner[t] # "none"}

Hash == [pw : Password, outdated : BOOLEAN]
NoHash == [pw |-> "none", outdated |-> FALSE]
NoProof == [pw |-> "none", window |-> {}]

Call == [op : Ops \cup {"none"}, reply : {"none", "ok", "fail"},
         at : {"idle", "create", "credentials", "byid", "rehash", "issue", "lookup",
               "update", "revoke", "delete"},
         email : Email \cup {"none"}, pw : Password \cup {"none"},
         next : Password \cup {"none"}, token : Token \cup {"none"},
         uid : UserId \cup {"none"}, upgrade : BOOLEAN, window : SUBSET Password]

TypeOK ==
    /\ address \in [UserId -> Email \cup {"none"}]
    /\ hash \in [UserId -> Hash \cup {NoHash}]
    /\ suspended \in SUBSET users
    /\ owner \in [Token -> UserId \cup {"none"}]
    /\ call \in [Request -> Call]
    /\ secret \in [UserId -> Password \cup {"none"}]
    /\ proof \in [Token -> [pw : Password, window : SUBSET Password] \cup {NoProof}]
    /\ unrevoked \in SUBSET users
    /\ reverted \in SUBSET users

NoCall == [op |-> "none", reply |-> "none", at |-> "idle", email |-> "none", pw |-> "none",
           next |-> "none", token |-> "none", uid |-> "none", upgrade |-> FALSE, window |-> {}]

\* Any set of accounts, one per email, each verifying its owner's password.
Init ==
    /\ address \in [UserId -> Email \cup {"none"}]
    /\ \A u, v \in users : address[u] = address[v] => u = v
    /\ \E s \in [users -> Password] :
          /\ secret = [u \in UserId |-> IF u \in users THEN s[u] ELSE "none"]
          /\ hash = [u \in UserId |-> IF u \in users THEN [pw |-> s[u], outdated |-> Outdated]
                                     ELSE NoHash]
    /\ suspended = {} /\ unrevoked = {} /\ reverted = {}
    /\ owner = [t \in Token |-> "none"]
    /\ proof = [t \in Token |-> NoProof]
    /\ call = [q \in Request |-> NoCall]

---------------------------------------------------------------------------
AccountOf(e) == {u \in users : address[u] = e}
SecretsOf(e) == UNION {{secret[u]} \cup IF u \in reverted THEN {hash[u].pw} ELSE {}
                         : u \in AccountOf(e)}

\* Mutants: no Verify, the old password hashed again, every
\* error swallowed, a cascade that is missing.
VerifyNothing(u, p) == TRUE
HashOfCurrent(c) == [pw |-> c.pw, outdated |-> FALSE]
SwallowsAll(op) == TRUE
CascadeNothing(u) == {}

Verify(u, p) == hash[u].pw = p
EmailFree(e) == AccountOf(e) = {}                          \* users_email_key
NewHash(c) == [pw |-> c.next, outdated |-> FALSE]
SessionsOf(u) == {t \in sessions : owner[t] = u}
Cascade(u) == SessionsOf(u)                                \* sessions.user_id

\* Handlers that answer success though the DELETE of the sessions failed:
\* ChangePassword, and the dashboard's Logout.
SwallowsError(op) == op \in {"change", "logoutWeb"}

\* History: the sign-ins in flight for an address see its owner choose p, or an
\* upgrade bring it back.
Witness(e, p) == [r \in Request |->
    IF call[r].op \in {"login", "register"} /\ call[r].email = e
    THEN [call[r] EXCEPT !.window = @ \cup {p}] ELSE call[r]]

Outcomes == {"ok"} \cup (Faults \cap {"lost", "late"})
Effective(out) == out # "lost"

\* The rows of these tokens are deleted.
End(ts) == /\ owner' = [t \in Token |-> IF t \in ts THEN "none" ELSE owner[t]]
           /\ proof' = [t \in Token |-> IF t \in ts THEN NoProof ELSE proof[t]]

GoTo(q, at) == call' = [call EXCEPT ![q].at = at]
Reply(q, r) == call' = [call EXCEPT ![q] = [NoCall EXCEPT !.reply = r]]

\* A statement whose error the handler returns.
Proceed(q, out, at) == IF out = "ok" THEN GoTo(q, at) ELSE Reply(q, "fail")

Begin(q, op, args) ==
    /\ op \in Ops
    /\ call[q].at = "idle"
    /\ call' = [call EXCEPT ![q] = args]
    /\ UNCHANGED <<accounts, owner, history>>

\* Bound: a sign-in starts only while a token is left for it.
TokenLeft == Cardinality(sessions)
               + Cardinality({q \in Request : call[q].op \in {"login", "register"}})
             < Cardinality(Token)

---------------------------------------------------------------------------
\* Requests arrive.

StartRegister(q, e, p) ==
    /\ TokenLeft
    /\ Begin(q, "register", [NoCall EXCEPT !.op = "register", !.at = "create",
                                           !.email = e, !.pw = p])

\* The limiter may refuse the attempt: then nothing else happens.
StartLogin(q, e, p) ==
    /\ TokenLeft
    /\ Begin(q, "login", [NoCall EXCEPT !.op = "login", !.at = "credentials", !.email = e,
                                        !.pw = p, !.window = SecretsOf(e)])

StartChange(q, t, current, next) ==
    Begin(q, "change", [NoCall EXCEPT !.op = "change", !.at = "lookup", !.token = t,
                                      !.pw = current, !.next = next])

StartLogoutAll(q, t) ==
    Begin(q, "logoutAll", [NoCall EXCEPT !.op = "logoutAll", !.at = "lookup", !.token = t])

StartLogout(q, t, op) ==
    Begin(q, op, [NoCall EXCEPT !.op = op, !.at = "delete", !.token = t])

---------------------------------------------------------------------------
\* Authenticate, run by the middleware in front of ChangePassword and
\* LogoutEverywhere: the user it finds is the one the handler acts on.
Lookup(q, out) ==
    LET t == call[q].token
        usable == t \in sessions /\ owner[t] \notin suspended
    IN  /\ call[q].at = "lookup"
        /\ IF out = "ok" /\ usable
             THEN call' = [call EXCEPT
                     ![q].at = IF call[q].op = "change" THEN "credentials" ELSE "revoke",
                     ![q].uid = owner[t], ![q].email = address[owner[t]]]
             ELSE Reply(q, "fail")
        /\ UNCHANGED <<accounts, owner, history>>

\* Credentials by email, then Verify.  A sign-in goes on with the id it read and
\* refuses a suspended account; a password change keeps the id of its session.
ReadCredentials(q, out) ==
    /\ call[q].at = "credentials"
    /\ IF out = "ok" /\ \E u \in AccountOf(call[q].email) : Verify(u, call[q].pw)
         THEN \E u \in AccountOf(call[q].email) :
                IF call[q].op = "change" THEN GoTo(q, "update")
                ELSE IF u \in suspended THEN Reply(q, "fail")
                ELSE call' = [call EXCEPT ![q].at = "byid", ![q].uid = u,
                                          ![q].upgrade = hash[u].outdated]
         ELSE Reply(q, "fail")
    /\ UNCHANGED <<accounts, owner, history>>

ByID(q, out) ==
    /\ call[q].at = "byid"
    /\ IF call[q].uid \in users
         THEN Proceed(q, out, IF call[q].upgrade THEN "rehash" ELSE "issue")
         ELSE Reply(q, "fail")
    /\ UNCHANGED <<accounts, owner, history>>

\* NeedsRehash: the password just typed is hashed at the configured cost and
\* written over whatever the row holds by now.  An error is only logged.
Rehash(q, out) ==
    /\ call[q].at = "rehash"
    /\ LET u == call[q].uid
           p == call[q].pw
       IN  IF Effective(out) /\ u \in users
             THEN /\ hash' = [hash EXCEPT ![u] = [pw |-> p, outdated |-> FALSE]]
                  /\ reverted' = IF call[q].window = {p} THEN reverted \ {u}
                                 ELSE reverted \cup {u}
                  /\ call' = [Witness(call[q].email, p) EXCEPT ![q].at = "issue"]
             ELSE GoTo(q, "issue") /\ UNCHANGED <<hash, reverted>>
    /\ UNCHANGED <<address, suspended, owner, secret, proof, unrevoked>>

\* The INSERT of a session: its foreign key needs the user's row.  The buckets
\* are reset and last_login_at is recorded just before, with errors logged.
Issue(q, out) ==
    /\ call[q].at = "issue"
    /\ IF Effective(out) /\ call[q].uid \in users
         THEN \E t \in Token \ sessions :
                /\ \A r \in Request : call[r].token # t
                /\ owner' = [owner EXCEPT ![t] = call[q].uid]
                /\ proof' = [proof EXCEPT ![t] = [pw |-> call[q].pw, window |-> call[q].window]]
         ELSE UNCHANGED <<owner, proof>>
    /\ Reply(q, IF out = "ok" /\ call[q].uid \in users THEN "ok" ELSE "fail")
    /\ UNCHANGED <<accounts, secret, unrevoked, reverted>>

\* The INSERT of an account, refused by users_email_key.
CreateUser(q, out) ==
    /\ call[q].at = "create"
    /\ IF EmailFree(call[q].email) /\ Effective(out)
         THEN \E u \in UserId \ users :
                /\ \A r \in Request : call[r].uid # u
                /\ \A t \in sessions : owner[t] # u
                /\ address' = [address EXCEPT ![u] = call[q].email]
                /\ hash' = [hash EXCEPT ![u] = [pw |-> call[q].pw, outdated |-> FALSE]]
                /\ secret' = [secret EXCEPT ![u] = call[q].pw]
                /\ call' = [Witness(call[q].email, call[q].pw) EXCEPT ![q] =
                      IF out = "ok" THEN [@ EXCEPT !.at = "issue", !.uid = u]
                      ELSE [NoCall EXCEPT !.reply = "fail"]]
         ELSE Reply(q, "fail") /\ UNCHANGED <<address, hash, secret>>
    /\ UNCHANGED <<suspended, owner, proof, unrevoked, reverted>>

\* ChangePassword replaces the hash.  From here on the old password is wrong.
Update(q, out) ==
    LET u == call[q].uid
    IN  /\ call[q].at = "update"
        /\ IF Effective(out) /\ u \in users
             THEN /\ hash' = [hash EXCEPT ![u] = NewHash(call[q])]
                  /\ secret' = [secret EXCEPT ![u] = call[q].next]
                  /\ unrevoked' = IF out = "ok" THEN unrevoked ELSE unrevoked \cup {u}
                  /\ reverted' = reverted \ {u}
                  /\ call' = [Witness(address[u], call[q].next) EXCEPT ![q] =
                        IF out = "ok" THEN [@ EXCEPT !.at = "revoke"]
                        ELSE [NoCall EXCEPT !.reply = "fail"]]
             ELSE Reply(q, "fail") /\ UNCHANGED <<hash, secret, unrevoked, reverted>>
        /\ UNCHANGED <<address, suspended, owner, proof>>

\* Mutant: the sign-out spares the session the request came with.
RevokeOthers(q, out) ==
    /\ call[q].at = "revoke"
    /\ End(SessionsOf(call[q].uid) \ {call[q].token})
    /\ Reply(q, "ok")
    /\ UNCHANGED <<accounts, secret, unrevoked, reverted>>

\* DeleteAllForUser.  LogoutEverywhere returns its error; ChangePassword logs it
\* and answers as if every session were gone.
Revoke(q, out) ==
    LET u == call[q].uid
        op == call[q].op
    IN  /\ call[q].at = "revoke"
        /\ End(IF Effective(out) THEN SessionsOf(u) ELSE {})
        /\ unrevoked' = IF Effective(out) THEN unrevoked \ {u}
                        ELSE IF op = "change" THEN unrevoked \cup ({u} \cap users)
                        ELSE unrevoked
        /\ Reply(q, IF out = "ok" \/ SwallowsError(op) THEN "ok" ELSE "fail")
        /\ UNCHANGED <<accounts, secret, reverted>>

\* Logout deletes its own session.  The API returns an error, the dashboard logs
\* it and says "Signed out." all the same.
Delete(q, out) ==
    /\ call[q].at = "delete"
    /\ End(IF Effective(out) THEN {call[q].token} ELSE {})
    /\ Reply(q, IF out = "ok" \/ SwallowsError(call[q].op) THEN "ok" ELSE "fail")
    /\ UNCHANGED <<accounts, secret, unrevoked, reverted>>

\* The process serving a request dies between two statements.
Crash(q) ==
    /\ "crash" \in Faults
    /\ call[q].at # "idle"
    /\ unrevoked' = IF call[q].at = "revoke" /\ call[q].op = "change"
                    THEN unrevoked \cup ({call[q].uid} \cap users) ELSE unrevoked
    /\ call' = [call EXCEPT ![q] = NoCall]
    /\ UNCHANGED <<accounts, owner, secret, proof, reverted>>

SetStatus(u) ==
    /\ "suspend" \in Ops
    /\ suspended' = IF u \in suspended THEN suspended \ {u} ELSE suspended \cup {u}
    /\ UNCHANGED <<address, hash, owner, call, history>>

\* The user's sessions go with the row by cascade.
DeleteUser(u) ==
    /\ "delete" \in Ops
    /\ address' = [address EXCEPT ![u] = "none"]
    /\ hash' = [hash EXCEPT ![u] = NoHash]
    /\ secret' = [secret EXCEPT ![u] = "none"]
    /\ suspended' = suspended \ {u} /\ unrevoked' = unrevoked \ {u}
    /\ reverted' = reverted \ {u}
    /\ End(Cascade(u))
    /\ UNCHANGED call

---------------------------------------------------------------------------
Arrive(q) ==
    \/ \E e \in Email, p \in Password : StartRegister(q, e, p) \/ StartLogin(q, e, p)
    \/ \E t \in sessions :
          \/ \E current, next \in Password : StartChange(q, t, current, next)
          \/ StartLogoutAll(q, t)
          \/ StartLogout(q, t, "logoutApi")
          \/ StartLogout(q, t, "logoutWeb")

Step(q, out) ==
    \/ Lookup(q, out) \/ ReadCredentials(q, out) \/ ByID(q, out) \/ Rehash(q, out)
    \/ Issue(q, out) \/ CreateUser(q, out) \/ Update(q, out) \/ Revoke(q, out)
    \/ Delete(q, out)

Next ==
    \/ \E q \in Request : Arrive(q) \/ Crash(q)
    \/ \E q \in Request, out \in Outcomes : Step(q, out)
    \/ \E u \in users : SetStatus(u) \/ DeleteUser(u)

Spec == Init /\ [][Next]_vars

---------------------------------------------------------------------------
\* A password change that has taken effect but not yet signed everyone out.
Changing(u) == \E q \in Request : call[q].at = "revoke" /\ call[q].op = "change"
                                    /\ call[q].uid = u

\* Two registrations of one address may run at once; one row results, even when
\* one of them was told it failed and is repeated.
OneAccountPerEmail == \A u, v \in users : address[u] = address[v] => u = v

\* An account may be deleted while a sign-in to it is under way: no session is
\* left without its user.
SessionsHaveOwners == \A t \in sessions : owner[t] \in users

\* Whatever changes during a sign-in, it succeeds only with a password that was
\* the owner's at some moment while it ran: a sign-in begun after a change took
\* effect cannot succeed with the old password, unless an upgrade brought it back.
SignInNeedsACurrentPassword == \A t \in sessions : proof[t].pw \in proof[t].window

\* The password stored is the one the owner last chose: neither a failed
\* statement, nor an upgrade of the hash, nor a concurrent request replaces it.
StoredHashIsTheOwners == \A u \in users : hash[u].pw = secret[u]

\* The same, but for the upgrade of a sign-in during which the password changed:
\* no other order of statements, failures and upgrades brings a password back.
RevertedHashesHaveACause == \A u \in users : hash[u].pw = secret[u] \/ u \in reverted

\* A session opened with a password its owner has since replaced is explained:
\* the change is about to sign it out, its sign-out failed, or the sign-in that
\* opened it overlapped the change.
StaleSessionsHaveACause ==
    \A t \in sessions :
        proof[t].pw # secret[owner[t]] => \/ Changing(owner[t])
                                          \/ owner[t] \in unrevoked
                                          \/ proof[t].window # {proof[t].pw}

\* Once ChangePassword has done its work, no session opened with a replaced
\* password is left.
ChangeSignsEveryoneOut ==
    \A t \in sessions : proof[t].pw = secret[owner[t]] \/ Changing(owner[t])

\* A request that reports sessions ended has ended them.
Ends(q, op) == call[q].op = op /\ call'[q].at = "idle" /\ call'[q].reply = "ok"
SessionGone(q) == call[q].token \notin sessions'
AllGone(q) == \A t \in sessions' : owner'[t] # call[q].uid

\* The API's logout and logout-all answer success only when it is so, though any
\* statement may fail before or after it took effect.
ApiSignOutIsReal ==
    [][\A q \in Request : /\ Ends(q, "logoutApi") => SessionGone(q)
                          /\ Ends(q, "logoutAll") => AllGone(q)]_vars

=============================================================================
