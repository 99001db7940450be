---------------------------- MODULE AuthServiceProofs ----------------------------
(***************************************************************************)
(* What the interleaved statements of AuthService keep true, for every set  *)
(* of requests, addresses, passwords, tokens and ids, every choice of       *)
(* operations and faults.                                                   *)
(***************************************************************************)
EXTENDS AuthService, TLAPS

\* What a request has found out by the statement it is at.
Phases(c) ==
    /\ c.op = "none" <=> c.at = "idle"
    /\ c.at = "create" => c.op = "register"
    /\ c.at \in {"byid", "rehash"} => c.op = "login"
    /\ c.at = "issue" => c.op \in {"login", "register"}
    /\ c.at = "credentials" => c.op \in {"login", "change"}
    /\ c.at = "update" => c.op = "change"
    /\ c.at \in {"lookup", "revoke"} => c.op \in {"change", "logoutAll"}
    /\ c.at = "delete" => c.op \in {"logoutApi", "logoutWeb"}
    /\ c.op \in {"login", "register"} => c.email \in Email /\ c.pw \in Password
    /\ c.op = "change" => c.next \in Password
    /\ c.op \in {"change", "logoutAll", "logoutApi", "logoutWeb"} => c.token \in Token
    /\ c.at \in {"byid", "rehash", "issue", "update", "revoke"} => c.uid \in UserId
    /\ c.op = "change" /\ c.at = "credentials" => c.uid \in UserId

\* A sign-in has seen every password its account has had since it began, holds the
\* id of the account at its address, and goes on only with a password it has seen.
Opening(c) == c.op = "login" \/ (c.op = "register" /\ c.at = "issue")
Verifying(c) == c.at \in {"byid", "rehash", "issue"}
Witnessed(c) ==
    /\ Opening(c) => \A u \in users : address[u] = c.email =>
                         secret[u] \in c.window /\ hash[u].pw \in c.window
    /\ Verifying(c) => c.pw \in c.window
    /\ Verifying(c) /\ c.uid \in users => address[c.uid] = c.email

\* Rows that exist are whole.
RowsAreWhole ==
    /\ \A u \in users : hash[u] \in Hash /\ secret[u] \in Password
    /\ \A t \in sessions : proof[t] \in [pw : Password, window : SUBSET Password]

Calls == \A q \in Request : Phases(call[q]) /\ Witnessed(call[q])

IInv ==
    /\ TypeOK
    /\ RowsAreWhole
    /\ Calls
    /\ OneAccountPerEmail
    /\ SessionsHaveOwners
    /\ SignInNeedsACurrentPassword
    /\ RevertedHashesHaveACause
    /\ StaleSessionsHaveACause

---------------------------------------------------------------------------
LEMMA NoCallIsIdle ==
  ASSUME NEW r \in {"none", "ok", "fail"}, NEW c, c = [NoCall EXCEPT !.reply = r]
  PROVE  NoCall \in Call /\ c \in Call /\ c.at = "idle" /\ c.op = "none" /\ c.reply = r
  BY DEF NoCall, Call

\* A request that is over asks nothing of its record.
LEMMA IdleIsFine ==
  ASSUME NEW c, c.at = "idle", c.op = "none"
  PROVE  Phases(c) /\ Witnessed(c)
  BY DEF Phases, Witnessed, Opening, Verifying

LEMMA InitIInv == Init => IInv
  <1> SUFFICES ASSUME Init PROVE IInv
    OBVIOUS
  <1>1. call = [q \in Request |-> NoCall] /\ NoCall \in Call /\ NoCall.at = "idle"
        /\ NoCall.op = "none"
    BY DEF Init, NoCall, Call
  <1>2. PICK s \in [users -> Password] :
           /\ secret = [u \in UserId |-> IF u \in users THEN s[u] ELSE "none"]
           /\ hash = [u \in UserId |-> IF u \in users THEN [pw |-> s[u], outdated |-> Outdated]
                                      ELSE NoHash]
    BY DEF Init
  <1>3. users \subseteq UserId /\ sessions = {}
    BY DEF Init, users, sessions
  <1>4. hash \in [UserId -> Hash \cup {NoHash}] /\ secret \in [UserId -> Password \cup {"none"}]
    BY <1>2, <1>3, AuthConfig DEF Hash
  <1>5. TypeOK
    BY <1>1, <1>3, <1>4 DEF Init, TypeOK
  <1>6. RowsAreWhole /\ RevertedHashesHaveACause
    BY <1>2, <1>3, AuthConfig DEF RowsAreWhole, RevertedHashesHaveACause, Hash
  <1>7. Calls
    BY <1>1 DEF Calls, Phases, Witnessed, Opening, Verifying
  <1> QED
    BY <1>3, <1>5, <1>6, <1>7
    DEF Init, IInv, OneAccountPerEmail, SessionsHaveOwners, SignInNeedsACurrentPassword,
        StaleSessionsHaveACause

---------------------------------------------------------------------------
\* A step that only moves one request on, to a record that is well formed.
LEMMA CallMoves ==
  ASSUME IInv, NEW q \in Request, NEW c \in Call, Phases(c), Witnessed(c),
         call' = [call EXCEPT ![q] = c], call[q].at # "revoke",
         UNCHANGED <<accounts, owner, history>>
  PROVE  IInv'
  <1> USE DEF accounts, history
  <1>1. \A r \in Request : call'[r] = IF r = q THEN c ELSE call[r]
    BY DEF IInv, TypeOK
  <1>2. users' = users /\ sessions' = sessions
    BY DEF users, sessions
  <1>3. TypeOK'
    BY <1>2 DEF IInv, TypeOK
  <1>4. \A d : Witnessed(d)' <=> Witnessed(d)
    BY <1>2 DEF Witnessed
  <1>5. Calls'
    BY <1>1, <1>4 DEF IInv, Calls
  <1>6. \A u \in UserId : Changing(u) => Changing(u)'
    BY <1>1 DEF Changing
  <1>7. StaleSessionsHaveACause'
    BY <1>2, <1>6 DEF IInv, TypeOK, StaleSessionsHaveACause, sessions
  <1> QED
    BY <1>2, <1>3, <1>5, <1>7
    DEF IInv, RowsAreWhole, OneAccountPerEmail, SessionsHaveOwners,
        SignInNeedsACurrentPassword, RevertedHashesHaveACause

\* A request is answered and nothing else happens.
LEMMA ReplyMoves ==
  ASSUME IInv, NEW q \in Request, NEW r \in {"none", "ok", "fail"}, Reply(q, r),
         call[q].at # "revoke", UNCHANGED <<accounts, owner, history>>
  PROVE  IInv'
  <1> DEFINE c == [NoCall EXCEPT !.reply = r]
  <1>1. c \in Call /\ c.at = "idle" /\ c.op = "none"
    BY NoCallIsIdle
  <1>2. call' = [call EXCEPT ![q] = c]
    BY DEF Reply
  <1> HIDE DEF c
  <1> QED
    BY <1>1, <1>2, IdleIsFine, CallMoves

\* A request goes on to another statement.
LEMMA Going ==
  ASSUME IInv, NEW q \in Request,
         NEW at \in {"rehash", "issue", "update", "byid", "credentials", "revoke"}, GoTo(q, at)
  PROVE  /\ call' = [call EXCEPT ![q] = [call[q] EXCEPT !.at = at]]
         /\ [call[q] EXCEPT !.at = at] \in Call
         /\ call[q] \in Call
  BY DEF GoTo, IInv, TypeOK, Call

LEMMA SecretsAreSeen ==
  ASSUME IInv, NEW e
  PROVE  /\ SecretsOf(e) \in SUBSET Password
         /\ \A u \in users : address[u] = e => secret[u] \in SecretsOf(e) /\ hash[u].pw \in SecretsOf(e)
  <1>1. \A u \in users : hash[u].pw \in Password /\ secret[u] \in Password
    BY DEF IInv, RowsAreWhole, Hash
  <1>2. SecretsOf(e) \in SUBSET Password
    BY <1>1 DEF SecretsOf, AccountOf
  <1>3. ASSUME NEW u \in users, address[u] = e
        PROVE  secret[u] \in SecretsOf(e) /\ hash[u].pw \in SecretsOf(e)
    <2>1. u \in AccountOf(e) /\ (hash[u].pw = secret[u] \/ u \in reverted)
      BY <1>3 DEF AccountOf, IInv, RevertedHashesHaveACause
    <2> QED
      BY <2>1 DEF SecretsOf
  <1> QED
    BY <1>2, <1>3

---------------------------------------------------------------------------
LEMMA StartRegisterKeeps ==
  ASSUME IInv, NEW q \in Request, NEW e \in Email, NEW p \in Password, StartRegister(q, e, p)
  PROVE  IInv'
  <1> DEFINE c == [NoCall EXCEPT !.op = "register", !.at = "create", !.email = e, !.pw = p]
  <1>1. "register" \in Ops /\ call[q].at = "idle" /\ call' = [call EXCEPT ![q] = c]
        /\ UNCHANGED <<accounts, owner, history>>
    BY DEF StartRegister, Begin
  <1>2. c \in Call /\ c.op = "register" /\ c.at = "create" /\ c.email = e /\ c.pw = p
    BY <1>1 DEF NoCall, Call
  <1> HIDE DEF c
  <1>3. Phases(c) /\ Witnessed(c)
    BY <1>2 DEF Phases, Witnessed, Opening, Verifying
  <1> QED
    BY <1>1, <1>2, <1>3, CallMoves

LEMMA StartLoginKeeps ==
  ASSUME IInv, NEW q \in Request, NEW e \in Email, NEW p \in Password, StartLogin(q, e, p)
  PROVE  IInv'
  <1> DEFINE c == [NoCall EXCEPT !.op = "login", !.at = "credentials", !.email = e,
                                 !.pw = p, !.window = SecretsOf(e)]
  <1>1. "login" \in Ops /\ call[q].at = "idle" /\ call' = [call EXCEPT ![q] = c]
        /\ UNCHANGED <<accounts, owner, history>>
    BY DEF StartLogin, Begin
  <1>2. c \in Call /\ c.op = "login" /\ c.at = "credentials" /\ c.email = e /\ c.pw = p
        /\ c.window = SecretsOf(e)
    BY <1>1, SecretsAreSeen DEF NoCall, Call
  <1> HIDE DEF c
  <1>3. Phases(c) /\ Witnessed(c)
    BY <1>2, SecretsAreSeen DEF Phases, Witnessed, Opening, Verifying
  <1> QED
    BY <1>1, <1>2, <1>3, CallMoves

\* The requests that come with a session.
LEMMA StartOthersKeep ==
  ASSUME IInv, NEW q \in Request, NEW t \in sessions,
         \/ \E current, next \in Password : StartChange(q, t, current, next)
         \/ StartLogoutAll(q, t)
         \/ StartLogout(q, t, "logoutApi") \/ StartLogout(q, t, "logoutWeb")
  PROVE  IInv'
  <1>0. t \in Token
    BY DEF sessions
  <1>1. ASSUME NEW current \in Password, NEW next \in Password, StartChange(q, t, current, next)
        PROVE  IInv'
    <2> DEFINE c == [NoCall EXCEPT !.op = "change", !.at = "lookup", !.token = t,
                                   !.pw = current, !.next = next]
    <2>1. "change" \in Ops /\ call[q].at = "idle" /\ call' = [call EXCEPT ![q] = c]
          /\ UNCHANGED <<accounts, owner, history>>
      BY <1>1 DEF StartChange, Begin
    <2>2. c \in Call /\ c.op = "change" /\ c.at = "lookup" /\ c.token = t /\ c.next = next
      BY <1>0, <2>1 DEF NoCall, Call
    <2> HIDE DEF c
    <2>3. Phases(c) /\ Witnessed(c)
      BY <1>0, <2>2 DEF Phases, Witnessed, Opening, Verifying
    <2> QED
      BY <2>1, <2>2, <2>3, CallMoves
  <1>2. CASE StartLogoutAll(q, t)
    <2> DEFINE c == [NoCall EXCEPT !.op = "logoutAll", !.at = "lookup", !.token = t]
    <2>1. "logoutAll" \in Ops /\ call[q].at = "idle" /\ call' = [call EXCEPT ![q] = c]
          /\ UNCHANGED <<accounts, owner, history>>
      BY <1>2 DEF StartLogoutAll, Begin
    <2>2. c \in Call /\ c.op = "logoutAll" /\ c.at = "lookup" /\ c.token = t
      BY <1>0, <2>1 DEF NoCall, Call
    <2> HIDE DEF c
    <2>3. Phases(c) /\ Witnessed(c)
      BY <1>0, <2>2 DEF Phases, Witnessed, Opening, Verifying
    <2> QED
      BY <2>1, <2>2, <2>3, CallMoves
  <1>3. ASSUME NEW op \in {"logoutApi", "logoutWeb"}, StartLogout(q, t, op) PROVE IInv'
    <2> DEFINE c == [NoCall EXCEPT !.op = op, !.at = "delete", !.token = t]
    <2>1. op \in Ops /\ call[q].at = "idle" /\ call' = [call EXCEPT ![q] = c]
          /\ UNCHANGED <<accounts, owner, history>>
      BY <1>3 DEF StartLogout, Begin
    <2>2. c \in Call /\ c.op = op /\ c.at = "delete" /\ c.token = t
      BY <1>0, <2>1 DEF NoCall, Call
    <2> HIDE DEF c
    <2>3. Phases(c) /\ Witnessed(c)
      BY <1>0, <2>2 DEF Phases, Witnessed, Opening, Verifying
    <2> QED
      BY <2>1, <2>2, <2>3, CallMoves
  <1> QED
    BY <1>1, <1>2, <1>3

LEMMA LookupKeeps ==
  ASSUME IInv, NEW q \in Request, NEW out, Lookup(q, out)
  PROVE  IInv'
  <1> DEFINE t == call[q].token
             at == IF call[q].op = "change" THEN "credentials" ELSE "revoke"
             c == [call[q] EXCEPT !.at = at, !.uid = owner[t], !.email = address[owner[t]]]
  <1>1. call[q].at = "lookup" /\ UNCHANGED <<accounts, owner, history>>
        /\ call[q] \in Call /\ Phases(call[q])
    BY DEF Lookup, IInv, TypeOK, Calls
  <1>2. \/ Reply(q, "fail")
        \/ t \in sessions /\ call' = [call EXCEPT ![q] = c]
    BY <1>1 DEF Lookup, IInv, TypeOK, Call
  <1>3. CASE Reply(q, "fail")
    BY <1>1, <1>3, ReplyMoves
  <1>4. CASE t \in sessions /\ call' = [call EXCEPT ![q] = c]
    <2>1. owner[t] \in users /\ owner[t] \in UserId /\ address[owner[t]] \in Email
      BY <1>4 DEF IInv, TypeOK, SessionsHaveOwners, users
    <2>2. /\ c \in Call /\ c.op = call[q].op /\ c.uid = owner[t] /\ c.at = at
          /\ c.token = t /\ c.next = call[q].next
      BY <1>1, <2>1 DEF Call
    <2>3. c.op \in {"change", "logoutAll"}
      BY <1>1, <2>2 DEF Phases
    <2> HIDE DEF c
    <2>4. Phases(c) /\ Witnessed(c)
      BY <1>1, <2>1, <2>2, <2>3 DEF Phases, Witnessed, Opening, Verifying
    <2> QED
      BY <1>1, <1>4, <2>2, <2>4, CallMoves
  <1> QED
    BY <1>2, <1>3, <1>4

LEMMA ReadCredentialsKeeps ==
  ASSUME IInv, NEW q \in Request, NEW out, ReadCredentials(q, out)
  PROVE  IInv'
  <1>1. call[q].at = "credentials" /\ UNCHANGED <<accounts, owner, history>>
        /\ call[q] \in Call /\ Phases(call[q]) /\ Witnessed(call[q])
    BY DEF ReadCredentials, IInv, TypeOK, Calls
  <1>2. \/ Reply(q, "fail")
        \/ call[q].op = "change" /\ GoTo(q, "update")
        \/ \E u \in AccountOf(call[q].email) :
              /\ Verify(u, call[q].pw) /\ call[q].op # "change"
              /\ call' = [call EXCEPT ![q] = [call[q] EXCEPT !.at = "byid", !.uid = u,
                                                            !.upgrade = hash[u].outdated]]
    <2>1. \A u, v \in AccountOf(call[q].email) : u = v
      BY DEF AccountOf, IInv, OneAccountPerEmail
    <2>2. ASSUME NEW u PROVE
            [call EXCEPT ![q].at = "byid", ![q].uid = u, ![q].upgrade = hash[u].outdated]
              = [call EXCEPT ![q] = [call[q] EXCEPT !.at = "byid", !.uid = u,
                                                    !.upgrade = hash[u].outdated]]
      BY DEF IInv, TypeOK, Call
    <2>3. CASE out = "ok" /\ \E u \in AccountOf(call[q].email) : Verify(u, call[q].pw)
      <3>1. PICK u \in AccountOf(call[q].email) :
                IF call[q].op = "change" THEN GoTo(q, "update")
                ELSE IF u \in suspended THEN Reply(q, "fail")
                ELSE call' = [call EXCEPT ![q].at = "byid", ![q].uid = u,
                                          ![q].upgrade = hash[u].outdated]
        BY <2>3 DEF ReadCredentials
      <3>2. Verify(u, call[q].pw)
        BY <2>1, <2>3
      <3> QED
        BY <2>2, <3>1, <3>2
    <2> QED
      BY <2>3 DEF ReadCredentials
  <1>3. CASE Reply(q, "fail")
    BY <1>1, <1>3, ReplyMoves
  <1>4. CASE call[q].op = "change" /\ GoTo(q, "update")
    <2> DEFINE c == [call[q] EXCEPT !.at = "update"]
    <2>1. call' = [call EXCEPT ![q] = c] /\ c \in Call
      BY <1>4, Going
    <2>2. c.at = "update" /\ c.op = "change" /\ c.uid = call[q].uid /\ c.next = call[q].next
          /\ c.token = call[q].token
      BY <1>1, <1>4 DEF Call
    <2> HIDE DEF c
    <2>3. Phases(c) /\ Witnessed(c)
      BY <1>1, <1>4, <2>2 DEF Phases, Witnessed, Opening, Verifying
    <2> QED
      BY <1>1, <2>1, <2>3, CallMoves
  <1>5. ASSUME NEW u \in AccountOf(call[q].email), Verify(u, call[q].pw), call[q].op # "change",
               call' = [call EXCEPT ![q] = [call[q] EXCEPT !.at = "byid", !.uid = u,
                                                         !.upgrade = hash[u].outdated]]
        PROVE  IInv'
    <2> DEFINE c == [call[q] EXCEPT !.at = "byid", !.uid = u, !.upgrade = hash[u].outdated]
    <2>1. u \in users /\ u \in UserId /\ address[u] = call[q].email /\ hash[u].pw = call[q].pw
          /\ hash[u].outdated \in BOOLEAN
      BY <1>5 DEF AccountOf, users, Verify, IInv, RowsAreWhole, Hash
    <2>2. c \in Call /\ c.at = "byid" /\ c.op = call[q].op /\ c.uid = u /\ c.email = call[q].email
          /\ c.pw = call[q].pw /\ c.window = call[q].window
      BY <1>1, <2>1 DEF Call
    <2>3. call[q].op = "login"
      BY <1>1, <1>5 DEF Phases
    <2> HIDE DEF c
    <2>4. Phases(c)
      BY <1>1, <2>1, <2>2, <2>3 DEF Phases
    <2>5. Witnessed(c)
      BY <1>1, <2>1, <2>2, <2>3 DEF Witnessed, Opening, Verifying
    <2>6. call' = [call EXCEPT ![q] = c]
      BY <1>5 DEF c
    <2> QED
      BY <1>1, <2>2, <2>4, <2>5, <2>6, CallMoves
  <1> QED
    BY <1>2, <1>3, <1>4, <1>5

\* A sign-in that has verified its password goes to its next statement.
LEMMA SignInGoesOn ==
  ASSUME IInv, NEW q \in Request, NEW at \in {"rehash", "issue"}, GoTo(q, at),
         call[q].at \in {"byid", "rehash"}, UNCHANGED <<accounts, owner, history>>
  PROVE  IInv'
  <1> DEFINE c == [call[q] EXCEPT !.at = at]
  <1>1. call[q] \in Call /\ Phases(call[q]) /\ Witnessed(call[q])
    BY DEF IInv, TypeOK, Calls
  <1>2. call' = [call EXCEPT ![q] = c] /\ c \in Call
    BY Going
  <1>3. c.at = at /\ c.op = call[q].op /\ c.uid = call[q].uid /\ c.email = call[q].email
        /\ c.pw = call[q].pw /\ c.window = call[q].window
    BY <1>1 DEF Call
  <1> HIDE DEF c
  <1>4. Phases(c) /\ Witnessed(c)
    BY <1>1, <1>3 DEF Phases, Witnessed, Opening, Verifying
  <1> QED
    BY <1>2, <1>4, CallMoves

LEMMA ByIDKeeps ==
  ASSUME IInv, NEW q \in Request, NEW out, ByID(q, out)
  PROVE  IInv'
  <1>1. call[q].at = "byid" /\ UNCHANGED <<accounts, owner, history>>
    BY DEF ByID
  <1>2. Reply(q, "fail") \/ GoTo(q, "rehash") \/ GoTo(q, "issue")
    BY DEF ByID, Proceed
  <1> QED
    BY <1>1, <1>2, ReplyMoves, SignInGoesOn

---------------------------------------------------------------------------
\* What the sign-ins in flight see of a new password.
LEMMA WitnessSees ==
  ASSUME IInv, NEW e, NEW p \in Password
  PROVE  /\ Witness(e, p) \in [Request -> Call]
         /\ \A r \in Request :
               LET w == Witness(e, p)[r]
               IN  /\ w.at = call[r].at /\ w.op = call[r].op /\ w.email = call[r].email
                   /\ w.uid = call[r].uid /\ w.pw = call[r].pw /\ w.next = call[r].next
                   /\ w.token = call[r].token /\ w.reply = call[r].reply
                   /\ call[r].window \subseteq w.window
                   /\ w.op \in {"login", "register"} /\ w.email = e => p \in w.window
                   /\ Phases(w)
  <1>1. \A r \in Request : call[r] \in Call /\ Phases(call[r])
    BY DEF IInv, TypeOK, Calls
  <1> SUFFICES ASSUME NEW r \in Request, NEW w, w = Witness(e, p)[r]
      PROVE  /\ w \in Call
             /\ w.at = call[r].at /\ w.op = call[r].op /\ w.email = call[r].email
             /\ w.uid = call[r].uid /\ w.pw = call[r].pw /\ w.next = call[r].next
             /\ w.token = call[r].token /\ w.reply = call[r].reply
             /\ call[r].window \subseteq w.window
             /\ w.op \in {"login", "register"} /\ w.email = e => p \in w.window
             /\ Phases(w)
    BY DEF Witness
  <1>2. /\ w \in Call
        /\ w.at = call[r].at /\ w.op = call[r].op /\ w.email = call[r].email
        /\ w.uid = call[r].uid /\ w.pw = call[r].pw /\ w.next = call[r].next
        /\ w.token = call[r].token /\ w.reply = call[r].reply
        /\ call[r].window \subseteq w.window
        /\ w.op \in {"login", "register"} /\ w.email = e => p \in w.window
    BY <1>1 DEF Witness, Call
  <1> QED
    BY <1>1, <1>2 DEF Phases

\* Rows of sessions that are deleted are gone, and the others are as they were.
LEMMA EndDeletes ==
  ASSUME IInv, NEW ts, End(ts)
  PROVE  /\ owner' \in [Token -> UserId \cup {"none"}]
         /\ proof' \in [Token -> [pw : Password, window : SUBSET Password] \cup {NoProof}]
         /\ sessions' = sessions \ ts
         /\ \A t \in sessions' : owner'[t] = owner[t] /\ proof'[t] = proof[t]
  BY DEF IInv, TypeOK, End, sessions

---------------------------------------------------------------------------
LEMMA RehashKeeps ==
  ASSUME IInv, NEW q \in Request, NEW out, Rehash(q, out)
  PROVE  IInv'
  <1> DEFINE u == call[q].uid
             p == call[q].pw
             e == call[q].email
             c == [Witness(e, p)[q] EXCEPT !.at = "issue"]
  <1>1. /\ call[q].at = "rehash" /\ call[q].op = "login" /\ p \in Password /\ u \in UserId
        /\ UNCHANGED <<address, suspended, owner, secret, proof, unrevoked>>
        /\ p \in call[q].window /\ (u \in users => address[u] = e)
        /\ \A v \in users : address[v] = e =>
               secret[v] \in call[q].window /\ hash[v].pw \in call[q].window
    BY DEF Rehash, IInv, Calls, Phases, Witnessed, Opening, Verifying
  <1>2. CASE GoTo(q, "issue") /\ UNCHANGED <<hash, reverted>>
    BY <1>1, <1>2, SignInGoesOn DEF accounts, history
  <1>3. CASE ~(GoTo(q, "issue") /\ UNCHANGED <<hash, reverted>>)
    <2>1. /\ u \in users
          /\ hash' = [hash EXCEPT ![u] = [pw |-> p, outdated |-> FALSE]]
          /\ reverted' = IF call[q].window = {p} THEN reverted \ {u} ELSE reverted \cup {u}
          /\ call' = [Witness(e, p) EXCEPT ![q].at = "issue"]
      BY <1>3 DEF Rehash
    <2>2. users' = users /\ sessions' = sessions /\ users \subseteq UserId
      BY <1>1 DEF users, sessions
    <2>3. call' = [Witness(e, p) EXCEPT ![q] = c] /\ c \in Call
      BY <1>1, <2>1, WitnessSees DEF Call
    <2>4. /\ c.at = "issue" /\ c.op = "login" /\ c.email = e /\ c.uid = u /\ c.pw = p
          /\ call[q].window \subseteq c.window /\ p \in c.window
      BY <1>1, WitnessSees DEF Call
    <2> HIDE DEF c
    <2>5. call' \in [Request -> Call]
          /\ \A r \in Request : call'[r] = IF r = q THEN c ELSE Witness(e, p)[r]
      BY <1>1, <2>3, WitnessSees
    <2>6. hash' \in [UserId -> Hash \cup {NoHash}] /\ hash'[u].pw = p /\ hash'[u] \in Hash
          /\ \A v \in users \ {u} : hash'[v] = hash[v]
      BY <1>1, <2>1 DEF Hash, IInv, TypeOK
    <2>7. TypeOK'
      BY <1>1, <2>1, <2>2, <2>5, <2>6 DEF IInv, TypeOK
    <2>8. RowsAreWhole'
      BY <1>1, <2>2, <2>6 DEF IInv, RowsAreWhole
    <2>9. Calls'
      <3> SUFFICES ASSUME NEW r \in Request, NEW d, d = call'[r]
                   PROVE  Phases(d) /\ Witnessed(d)'
        BY DEF Calls
      <3>1. CASE r = q
        <4>1. /\ d.at = "issue" /\ d.op = "login" /\ d.email = e /\ d.uid = u /\ d.pw = p
              /\ call[q].window \subseteq d.window /\ p \in d.window
          BY <2>4, <2>5, <3>1
        <4>2. Phases(d)
          BY <1>1, <4>1, WitnessSees DEF Phases, IInv, Calls
        <4>3. Witnessed(d)'
          BY <1>1, <2>1, <2>2, <2>6, <4>1 DEF Witnessed, Opening, Verifying
        <4> QED
          BY <4>2, <4>3
      <3>2. CASE r # q
        <4>1. /\ d.at = call[r].at /\ d.op = call[r].op /\ d.email = call[r].email
              /\ d.uid = call[r].uid /\ d.pw = call[r].pw
              /\ call[r].window \subseteq d.window /\ Phases(d)
              /\ d.op \in {"login", "register"} /\ d.email = e => p \in d.window
          BY <1>1, <2>5, <3>2, WitnessSees
        <4>2. Witnessed(call[r])
          BY DEF IInv, Calls
        <4>3. ASSUME Opening(d), NEW v \in users, address[v] = d.email
              PROVE  secret[v] \in d.window /\ hash'[v].pw \in d.window
          <5>1. secret[v] \in call[r].window /\ hash[v].pw \in call[r].window
            BY <4>1, <4>2, <4>3 DEF Witnessed, Opening
          <5>2. CASE v = u
            BY <1>1, <2>1, <2>6, <4>1, <4>3, <5>1, <5>2 DEF Opening
          <5>3. CASE v # u
            BY <2>6, <4>1, <5>1, <5>3
          <5> QED
            BY <5>2, <5>3
        <4>4. Verifying(d) => d.pw \in d.window
          BY <4>1, <4>2 DEF Witnessed, Verifying
        <4>5. Verifying(d) /\ d.uid \in users => address[d.uid] = d.email
          BY <4>1, <4>2 DEF Witnessed, Verifying
        <4>6. Witnessed(d)'
          BY <1>1, <2>2, <4>3, <4>4, <4>5 DEF Witnessed, Opening, Verifying
        <4> QED
          BY <4>1, <4>6
      <3> QED
        BY <3>1, <3>2
    <2>10. RevertedHashesHaveACause'
      <3>1. CASE call[q].window = {p}
        BY <1>1, <2>1, <2>2, <2>6, <3>1 DEF IInv, RevertedHashesHaveACause
      <3>2. CASE call[q].window # {p}
        BY <1>1, <2>1, <2>2, <2>6, <3>2 DEF IInv, RevertedHashesHaveACause
      <3> QED
        BY <3>1, <3>2
    <2>11. StaleSessionsHaveACause'
      <3>1. \A v \in UserId : Changing(v) => Changing(v)'
        BY <1>1, <2>5, WitnessSees DEF Changing
      <3> QED
        BY <1>1, <2>2, <3>1 DEF IInv, TypeOK, StaleSessionsHaveACause, sessions
    <2> QED
      BY <1>1, <2>2, <2>7, <2>8, <2>9, <2>10, <2>11
      DEF IInv, OneAccountPerEmail, SessionsHaveOwners, SignInNeedsACurrentPassword
  <1> QED
    BY <1>2, <1>3

LEMMA IssueKeeps ==
  ASSUME IInv, NEW q \in Request, NEW out, Issue(q, out)
  PROVE  IInv'
  <1> DEFINE u == call[q].uid
             r == IF out = "ok" /\ u \in users THEN "ok" ELSE "fail"
             c == [NoCall EXCEPT !.reply = r]
  <1>1. /\ call[q].at = "issue" /\ call[q] \in Call /\ call[q].pw \in Password /\ u \in UserId
        /\ UNCHANGED <<accounts, secret, unrevoked, reverted>> /\ Reply(q, r)
        /\ call[q].pw \in call[q].window /\ call[q].window \in SUBSET Password
        /\ u \in users => address[u] = call[q].email /\ secret[u] \in call[q].window
    BY DEF Issue, IInv, TypeOK, Call, Calls, Phases, Witnessed, Opening, Verifying
  <1>2. CASE UNCHANGED <<owner, proof>>
    <2>1. r \in {"none", "ok", "fail"}
      OBVIOUS
    <2> HIDE DEF r
    <2> QED
      BY <1>1, <1>2, <2>1, ReplyMoves DEF history
  <1>3. CASE ~UNCHANGED <<owner, proof>>
    <2>1. PICK t \in Token \ sessions :
             /\ u \in users
             /\ owner' = [owner EXCEPT ![t] = u]
             /\ proof' = [proof EXCEPT ![t] = [pw |-> call[q].pw, window |-> call[q].window]]
      BY <1>3 DEF Issue
    <2>2. users' = users /\ sessions' = sessions \cup {t}
      BY <1>1, <2>1, AuthConfig DEF users, sessions, accounts, IInv, TypeOK
    <2>3. c \in Call /\ c.at = "idle" /\ c.op = "none" /\ call' = [call EXCEPT ![q] = c]
      BY <1>1, NoCallIsIdle DEF Reply
    <2> HIDE DEF c
    <2>4. call' \in [Request -> Call]
          /\ \A s \in Request : call'[s] = IF s = q THEN c ELSE call[s]
      BY <2>3 DEF IInv, TypeOK
    <2>5. /\ \A s \in sessions : owner'[s] = owner[s] /\ proof'[s] = proof[s]
          /\ owner'[t] = u /\ proof'[t].pw = call[q].pw /\ proof'[t].window = call[q].window
          /\ proof'[t] \in [pw : Password, window : SUBSET Password]
          /\ owner' \in [Token -> UserId \cup {"none"}]
          /\ proof' \in [Token -> [pw : Password, window : SUBSET Password] \cup {NoProof}]
      BY <1>1, <2>1 DEF IInv, TypeOK, sessions
    <2>6. TypeOK'
      BY <1>1, <2>2, <2>4, <2>5 DEF IInv, TypeOK, accounts
    <2>7. RowsAreWhole'
      BY <1>1, <2>2, <2>5 DEF IInv, RowsAreWhole, accounts
    <2>8. Calls'
      <3>1. \A d : Witnessed(d)' <=> Witnessed(d)
        BY <1>1, <2>2 DEF Witnessed, accounts
      <3> QED
        BY <2>3, <2>4, <3>1, IdleIsFine DEF IInv, Calls
    <2>9. \A v \in UserId : Changing(v) => Changing(v)'
      BY <1>1, <2>4 DEF Changing
    <2>10. StaleSessionsHaveACause'
      <3> SUFFICES ASSUME NEW s \in sessions', NEW v, v = owner'[s], proof'[s].pw # secret'[v]
                   PROVE  \/ Changing(v)' \/ v \in unrevoked'
                          \/ proof'[s].window # {proof'[s].pw}
        BY DEF StaleSessionsHaveACause
      <3>1. CASE s = t
        BY <1>1, <2>1, <2>5, <3>1
      <3>2. CASE s # t
        <4>1. s \in sessions /\ owner'[s] = owner[s] /\ proof'[s] = proof[s] /\ owner[s] \in UserId
          BY <2>2, <2>5, <3>2 DEF IInv, TypeOK, sessions
        <4> QED
          BY <1>1, <2>9, <4>1 DEF IInv, StaleSessionsHaveACause
      <3> QED
        BY <3>1, <3>2
    <2> QED
      BY <1>1, <2>1, <2>2, <2>5, <2>6, <2>7, <2>8, <2>10
      DEF IInv, OneAccountPerEmail, SessionsHaveOwners, SignInNeedsACurrentPassword,
          RevertedHashesHaveACause, accounts
  <1> QED
    BY <1>2, <1>3

\* A password set by CreateUser or Update: every sign-in to its account sees it.
LEMMA NewPasswordIsSeen ==
  ASSUME IInv, NEW u \in UserId, NEW e \in Email, NEW p \in Password,
         users' = users \cup {u}, address' = [address EXCEPT ![u] = e],
         secret' = [secret EXCEPT ![u] = p],
         NEW h \in Hash, h.pw = p, hash' = [hash EXCEPT ![u] = h],
         NEW r \in Request, u \in users \/ call[r].uid # u, u \in users => address[u] = e,
         NEW d, d = Witness(e, p)[r]
  PROVE  Phases(d) /\ Witnessed(d)'
  <1>1. /\ d.at = call[r].at /\ d.op = call[r].op /\ d.email = call[r].email
        /\ d.uid = call[r].uid /\ d.pw = call[r].pw
        /\ call[r].window \subseteq d.window /\ Phases(d)
        /\ d.op \in {"login", "register"} /\ d.email = e => p \in d.window
    BY WitnessSees
  <1>2. Witnessed(call[r])
    BY DEF IInv, Calls
  <1>3. /\ address'[u] = e /\ secret'[u] = p /\ hash'[u].pw = p /\ users \subseteq UserId
        /\ \A v \in users \ {u} : /\ address'[v] = address[v] /\ secret'[v] = secret[v]
                                  /\ hash'[v] = hash[v]
    BY DEF IInv, TypeOK, users
  <1>4. ASSUME Opening(d), NEW v \in users', address'[v] = d.email
        PROVE  secret'[v] \in d.window /\ hash'[v].pw \in d.window
    <2>1. CASE v = u
      BY <1>1, <1>3, <1>4, <2>1 DEF Opening
    <2>2. CASE v # u
      <3>1. secret[v] \in call[r].window /\ hash[v].pw \in call[r].window
        BY <1>1, <1>2, <1>3, <1>4, <2>2 DEF Witnessed, Opening
      <3> QED
        BY <1>1, <1>3, <1>4, <2>2, <3>1
    <2> QED
      BY <2>1, <2>2
  <1>5. Verifying(d) => d.pw \in d.window
    BY <1>1, <1>2 DEF Witnessed, Verifying
  <1>6. Verifying(d) /\ d.uid \in users' => address'[d.uid] = d.email
    BY <1>1, <1>2, <1>3 DEF Witnessed, Verifying
  <1> QED
    BY <1>1, <1>4, <1>5, <1>6 DEF Witnessed, Opening, Verifying

LEMMA CreateUserKeeps ==
  ASSUME IInv, NEW q \in Request, NEW out, CreateUser(q, out)
  PROVE  IInv'
  <1> DEFINE e == call[q].email
             p == call[q].pw
             w == Witness(e, p)
             h == [pw |-> p, outdated |-> FALSE]
  <1>1. /\ call[q].at = "create" /\ call[q].op = "register" /\ e \in Email /\ p \in Password
        /\ UNCHANGED <<suspended, owner, proof, unrevoked, reverted>>
    BY DEF CreateUser, IInv, Calls, Phases
  <1>2. CASE Reply(q, "fail") /\ UNCHANGED <<address, hash, secret>>
    BY <1>1, <1>2, ReplyMoves DEF accounts, history
  <1>3. CASE ~(Reply(q, "fail") /\ UNCHANGED <<address, hash, secret>>)
    <2> DEFINE c(u) == IF out = "ok" THEN [w[q] EXCEPT !.at = "issue", !.uid = u]
                       ELSE [NoCall EXCEPT !.reply = "fail"]
    <2>1. PICK u \in UserId \ users :
             /\ EmailFree(e)
             /\ \A r \in Request : call[r].uid # u
             /\ \A t \in sessions : owner[t] # u
             /\ address' = [address EXCEPT ![u] = e]
             /\ hash' = [hash EXCEPT ![u] = h]
             /\ secret' = [secret EXCEPT ![u] = p]
             /\ call' = [w EXCEPT ![q] = c(u)]
      BY <1>3 DEF CreateUser
    <2>2. users' = users \cup {u} /\ sessions' = sessions /\ users \subseteq UserId /\ e # "none"
      BY <1>1, <2>1, AuthConfig DEF users, sessions, IInv, TypeOK
    <2>3. h \in Hash /\ h.pw = p
      BY <1>1 DEF Hash
    <2>4. /\ address' \in [UserId -> Email \cup {"none"}]
          /\ hash' \in [UserId -> Hash \cup {NoHash}]
          /\ secret' \in [UserId -> Password \cup {"none"}]
          /\ address'[u] = e /\ secret'[u] = p /\ hash'[u] = h
          /\ \A v \in users : /\ address'[v] = address[v] /\ secret'[v] = secret[v]
                             /\ hash'[v] = hash[v]
      BY <1>1, <2>1, <2>2, <2>3 DEF IInv, TypeOK
    <2> HIDE DEF h
    <2>5. c(u) \in Call
      <3>1. w[q] \in Call
        BY <1>1, WitnessSees
      <3>2. [w[q] EXCEPT !.at = "issue", !.uid = u] \in Call
        BY <3>1 DEF Call
      <3>3. [NoCall EXCEPT !.reply = "fail"] \in Call
        BY NoCallIsIdle
      <3> QED
        BY <3>2, <3>3
    <2>6. call' \in [Request -> Call]
          /\ \A r \in Request : call'[r] = IF r = q THEN c(u) ELSE w[r]
      BY <1>1, <2>1, <2>5, WitnessSees
    <2>7. TypeOK'
      BY <1>1, <2>2, <2>4, <2>6 DEF IInv, TypeOK
    <2>8. RowsAreWhole'
      BY <1>1, <2>2, <2>3, <2>4 DEF IInv, RowsAreWhole
    <2>9. OneAccountPerEmail' /\ SessionsHaveOwners' /\ RevertedHashesHaveACause'
      BY <1>1, <2>1, <2>2, <2>3, <2>4
      DEF IInv, OneAccountPerEmail, SessionsHaveOwners, RevertedHashesHaveACause, EmailFree,
          AccountOf
    <2>10. Calls'
      <3> SUFFICES ASSUME NEW r \in Request, NEW d, d = call'[r]
                   PROVE  Phases(d) /\ Witnessed(d)'
        BY DEF Calls
      <3>1. CASE r # q
        <4>1. d = w[r]
          BY <2>6, <3>1
        <4> QED
          BY <1>1, <2>1, <2>2, <2>3, <4>1, NewPasswordIsSeen
      <3>2. CASE r = q /\ out # "ok"
        <4>1. d.at = "idle" /\ d.op = "none"
          BY <2>6, <3>2, NoCallIsIdle
        <4>2. Phases(d)
          BY <4>1 DEF Phases
        <4>3. Witnessed(d)'
          BY <4>1 DEF Witnessed, Opening, Verifying
        <4> QED
          BY <4>2, <4>3
      <3>3. CASE r = q /\ out = "ok"
        <4>1. /\ d.at = "issue" /\ d.op = "register" /\ d.email = e /\ d.pw = p /\ d.uid = u
              /\ p \in d.window
          <5>1. /\ w[q] \in Call /\ w[q].op = call[q].op /\ w[q].email = e /\ w[q].pw = p
                /\ p \in w[q].window
            BY <1>1, WitnessSees
          <5>2. d = [w[q] EXCEPT !.at = "issue", !.uid = u]
            BY <2>6, <3>3
          <5> HIDE DEF w, p, e
          <5> QED
            BY <1>1, <5>1, <5>2 DEF Call
        <4>2. Phases(d)
          BY <1>1, <2>1, <4>1 DEF Phases
        <4>3. \A v \in users' : address'[v] = e => v = u
          BY <2>1, <2>2, <2>4 DEF EmailFree, AccountOf
        <4>4. Witnessed(d)'
          BY <2>3, <2>4, <4>1, <4>3 DEF Witnessed, Opening, Verifying
        <4> QED
          BY <4>2, <4>4
      <3> QED
        BY <3>1, <3>2, <3>3
    <2>11. \A v \in UserId : Changing(v) => Changing(v)'
      BY <1>1, <2>6, WitnessSees DEF Changing
    <2>12. StaleSessionsHaveACause' /\ SignInNeedsACurrentPassword'
      <3>1. \A t \in sessions : owner[t] \in users /\ owner[t] \in UserId
        BY DEF IInv, SessionsHaveOwners, users
      <3> QED
        BY <1>1, <2>2, <2>4, <2>11, <3>1
        DEF IInv, StaleSessionsHaveACause, SignInNeedsACurrentPassword
    <2> QED
      BY <2>7, <2>8, <2>9, <2>10, <2>12 DEF IInv
  <1> QED
    BY <1>2, <1>3

LEMMA UpdateKeeps ==
  ASSUME IInv, NEW q \in Request, NEW out, Update(q, out)
  PROVE  IInv'
  <1> DEFINE u == call[q].uid
             p == call[q].next
             e == address[u]
             w == Witness(e, p)
             h == NewHash(call[q])
             c == IF out = "ok" THEN [w[q] EXCEPT !.at = "revoke"]
                  ELSE [NoCall EXCEPT !.reply = "fail"]
  <1>1. /\ call[q].at = "update" /\ call[q].op = "change" /\ u \in UserId /\ p \in Password
        /\ UNCHANGED <<address, suspended, owner, proof>>
        /\ call[q].token \in Token
    BY DEF Update, IInv, Calls, Phases
  <1>2. CASE Reply(q, "fail") /\ UNCHANGED <<hash, secret, unrevoked, reverted>>
    BY <1>1, <1>2, ReplyMoves DEF accounts, history
  <1>3. CASE ~(Reply(q, "fail") /\ UNCHANGED <<hash, secret, unrevoked, reverted>>)
    <2>1. /\ u \in users
          /\ hash' = [hash EXCEPT ![u] = h]
          /\ secret' = [secret EXCEPT ![u] = p]
          /\ unrevoked' = IF out = "ok" THEN unrevoked ELSE unrevoked \cup {u}
          /\ reverted' = reverted \ {u}
          /\ call' = [w EXCEPT ![q] = c]
      BY <1>3 DEF Update
    <2>2. users' = users /\ sessions' = sessions /\ users \subseteq UserId /\ e \in Email
          /\ address \in [UserId -> Email \cup {"none"}]
      BY <1>1, <2>1 DEF users, sessions, IInv, TypeOK
    <2>3. h \in Hash /\ h.pw = p
      BY <1>1 DEF Hash, NewHash
    <2>4. /\ hash' \in [UserId -> Hash \cup {NoHash}]
          /\ secret' \in [UserId -> Password \cup {"none"}]
          /\ secret'[u] = p /\ hash'[u] = h
          /\ \A v \in users \ {u} : secret'[v] = secret[v] /\ hash'[v] = hash[v]
      BY <1>1, <2>1, <2>2, <2>3 DEF IInv, TypeOK
    <2> HIDE DEF h
    <2>5. w[q] \in Call /\ w[q].op = "change" /\ w[q].uid = u /\ w[q].next = p
          /\ w[q].token = call[q].token
      BY <1>1, WitnessSees
    <2>6. c \in Call
      <3>1. [w[q] EXCEPT !.at = "revoke"] \in Call
        BY <2>5 DEF Call
      <3>2. [NoCall EXCEPT !.reply = "fail"] \in Call
        BY NoCallIsIdle
      <3> QED
        BY <3>1, <3>2
    <2>7. \/ out = "ok" /\ c.at = "revoke" /\ c.op = "change" /\ c.uid = u /\ c.next = p
             /\ c.token = call[q].token
          \/ out # "ok" /\ c.at = "idle" /\ c.op = "none"
      <3>1. CASE out = "ok"
        <4>1. c = [w[q] EXCEPT !.at = "revoke"]
          BY <3>1
        <4> HIDE DEF c, w
        <4> QED
          BY <2>5, <3>1, <4>1 DEF Call
      <3>2. CASE out # "ok"
        BY <3>2, NoCallIsIdle
      <3> QED
        BY <3>1, <3>2
    <2> HIDE DEF c
    <2>8. call' \in [Request -> Call]
          /\ \A r \in Request : call'[r] = IF r = q THEN c ELSE w[r]
      BY <1>1, <2>1, <2>2, <2>6, WitnessSees
    <2>9. TypeOK'
      BY <1>1, <2>1, <2>2, <2>4, <2>8 DEF IInv, TypeOK
    <2>10. RowsAreWhole' /\ RevertedHashesHaveACause'
      BY <1>1, <2>1, <2>2, <2>3, <2>4 DEF IInv, RowsAreWhole, RevertedHashesHaveACause
    <2>11. Calls'
      <3> SUFFICES ASSUME NEW r \in Request, NEW d, d = call'[r]
                   PROVE  Phases(d) /\ Witnessed(d)'
        BY DEF Calls
      <3>1. CASE r # q
        <4>1. d = w[r]
          BY <2>8, <3>1
        <4>2. users' = users \cup {u} /\ address' = [address EXCEPT ![u] = e]
          BY <1>1, <2>1, <2>2
        <4>3. /\ IInv /\ u \in UserId /\ p \in Password /\ e \in Email /\ h \in Hash /\ h.pw = p
              /\ hash' = [hash EXCEPT ![u] = h] /\ secret' = [secret EXCEPT ![u] = p]
              /\ u \in users /\ address[u] = e /\ d = Witness(e, p)[r]
          BY <1>1, <2>1, <2>2, <2>3, <4>1
        <4> HIDE DEF u, p, e, w
        <4> QED
          BY <4>2, <4>3, NewPasswordIsSeen
      <3>2. CASE r = q
        <4>1. d = c
          BY <2>8, <3>2
        <4>2. Phases(d)
          BY <1>1, <2>7, <4>1 DEF Phases
        <4>3. Witnessed(d)'
          <5>1. d.at \in {"idle", "revoke"} /\ d.op \in {"change", "none"}
            BY <2>7, <4>1
          <5> QED
            BY <5>1 DEF Witnessed, Opening, Verifying
        <4> QED
          BY <4>2, <4>3
      <3> QED
        BY <3>1, <3>2
    <2>12. \A v \in UserId : Changing(v) => Changing(v)'
      BY <1>1, <2>8, WitnessSees DEF Changing
    <2>13. ASSUME NEW v, v = u PROVE Changing(v)' \/ v \in unrevoked'
      BY <2>1, <2>7, <2>8, <2>13 DEF Changing
    <2>14. StaleSessionsHaveACause'
      <3> SUFFICES ASSUME NEW t \in sessions', NEW v, v = owner'[t], proof'[t].pw # secret'[v]
                   PROVE  Changing(v)' \/ v \in unrevoked' \/ proof'[t].window # {proof'[t].pw}
        BY DEF StaleSessionsHaveACause
      <3>1. v = owner[t] /\ proof'[t] = proof[t] /\ v \in users /\ v \in UserId /\ t \in sessions
        BY <1>1, <2>2 DEF IInv, SessionsHaveOwners
      <3>2. CASE v = u
        BY <2>13, <3>2
      <3>3. CASE v # u
        <4>1. proof[t].pw # secret[v]
          BY <2>4, <3>1, <3>3
        <4> QED
          BY <2>1, <2>12, <3>1, <4>1 DEF IInv, StaleSessionsHaveACause
      <3> QED
        BY <3>2, <3>3
    <2> QED
      BY <1>1, <2>2, <2>9, <2>10, <2>11, <2>14
      DEF IInv, OneAccountPerEmail, SessionsHaveOwners, SignInNeedsACurrentPassword
  <1> QED
    BY <1>2, <1>3

---------------------------------------------------------------------------
\* A request that ends with sessions deleted: those that are left and stale keep
\* their cause, or have a new one.
LEMMA EndingKeeps ==
  ASSUME IInv, NEW q \in Request, NEW r \in {"none", "ok", "fail"}, Reply(q, r),
         NEW ts, End(ts), UNCHANGED <<accounts, secret, reverted>>,
         unrevoked' \in SUBSET users,
         \A t \in sessions \ ts : owner[t] \in unrevoked => owner[t] \in unrevoked',
         \A t \in sessions \ ts : call[q].at = "revoke" /\ call[q].op = "change"
                                     /\ call[q].uid = owner[t] => owner[t] \in unrevoked'
  PROVE  IInv'
  <1> DEFINE c == [NoCall EXCEPT !.reply = r]
  <1> USE DEF accounts
  <1>1. c \in Call /\ c.at = "idle" /\ c.op = "none" /\ call' = [call EXCEPT ![q] = c]
    BY NoCallIsIdle DEF Reply
  <1> HIDE DEF c
  <1>2. \A s \in Request : call'[s] = IF s = q THEN c ELSE call[s]
    BY <1>1 DEF IInv, TypeOK
  <1>3. /\ owner' \in [Token -> UserId \cup {"none"}]
        /\ proof' \in [Token -> [pw : Password, window : SUBSET Password] \cup {NoProof}]
        /\ sessions' = sessions \ ts
        /\ \A t \in sessions' : owner'[t] = owner[t] /\ proof'[t] = proof[t]
    BY EndDeletes
  <1>4. users' = users
    BY DEF users
  <1>5. TypeOK'
    BY <1>1, <1>2, <1>3, <1>4 DEF IInv, TypeOK
  <1>6. Calls'
    <2>1. \A d : Witnessed(d)' <=> Witnessed(d)
      BY <1>4 DEF Witnessed
    <2> QED
      BY <1>1, <1>2, <2>1, IdleIsFine DEF IInv, Calls
  <1>7. StaleSessionsHaveACause'
    <2> SUFFICES ASSUME NEW t \in sessions', NEW v, v = owner'[t], proof'[t].pw # secret'[v]
                 PROVE  Changing(v)' \/ v \in unrevoked' \/ proof'[t].window # {proof'[t].pw}
      BY DEF StaleSessionsHaveACause
    <2>1. v = owner[t] /\ proof'[t] = proof[t] /\ t \in sessions \ ts /\ secret' = secret
      BY <1>3
    <2>2. Changing(v) \/ v \in unrevoked \/ proof[t].window # {proof[t].pw}
      BY <2>1 DEF IInv, StaleSessionsHaveACause
    <2>3. Changing(v) => Changing(v)' \/ v \in unrevoked'
      BY <1>2, <2>1 DEF Changing
    <2> QED
      BY <2>1, <2>2, <2>3
  <1> QED
    BY <1>3, <1>4, <1>5, <1>6, <1>7
    DEF IInv, RowsAreWhole, OneAccountPerEmail, SessionsHaveOwners,
        SignInNeedsACurrentPassword, RevertedHashesHaveACause

LEMMA RevokeKeeps ==
  ASSUME IInv, NEW q \in Request, NEW out, Revoke(q, out)
  PROVE  IInv'
  <1> DEFINE u == call[q].uid
             ts == IF Effective(out) THEN SessionsOf(u) ELSE {}
             r == IF out = "ok" \/ SwallowsError(call[q].op) THEN "ok" ELSE "fail"
  <1>1. /\ End(ts) /\ Reply(q, r) /\ UNCHANGED <<accounts, secret, reverted>>
        /\ unrevoked' = IF Effective(out) THEN unrevoked \ {u}
                        ELSE IF call[q].op = "change" THEN unrevoked \cup ({u} \cap users)
                        ELSE unrevoked
    BY DEF Revoke
  <1>2. unrevoked \in SUBSET users /\ \A t \in sessions : owner[t] \in users
    BY DEF IInv, TypeOK, SessionsHaveOwners
  <1>3. Effective(out) => \A t \in sessions \ ts : owner[t] # u
    BY DEF SessionsOf
  <1>4. r \in {"none", "ok", "fail"}
    OBVIOUS
  <1> HIDE DEF ts, r
  <1>5. unrevoked' \in SUBSET users
    BY <1>1, <1>2
  <1>6. \A t \in sessions \ ts : owner[t] \in unrevoked => owner[t] \in unrevoked'
    BY <1>1, <1>3
  <1>7. \A t \in sessions \ ts : call[q].op = "change" /\ u = owner[t] => owner[t] \in unrevoked'
    BY <1>1, <1>2, <1>3
  <1> QED
    BY <1>1, <1>4, <1>5, <1>6, <1>7, EndingKeeps

LEMMA DeleteKeeps ==
  ASSUME IInv, NEW q \in Request, NEW out, Delete(q, out)
  PROVE  IInv'
  <1> DEFINE ts == IF Effective(out) THEN {call[q].token} ELSE {}
             r == IF out = "ok" \/ SwallowsError(call[q].op) THEN "ok" ELSE "fail"
  <1>1. /\ End(ts) /\ Reply(q, r) /\ call[q].at = "delete"
        /\ UNCHANGED <<accounts, secret, unrevoked, reverted>>
    BY DEF Delete
  <1>2. unrevoked \in SUBSET users
    BY DEF IInv, TypeOK
  <1>3. r \in {"none", "ok", "fail"}
    OBVIOUS
  <1> HIDE DEF ts, r
  <1> QED
    BY <1>1, <1>2, <1>3, EndingKeeps

LEMMA CrashKeeps ==
  ASSUME IInv, NEW q \in Request, Crash(q)
  PROVE  IInv'
  <1>1. /\ unrevoked' = IF call[q].at = "revoke" /\ call[q].op = "change"
                        THEN unrevoked \cup ({call[q].uid} \cap users) ELSE unrevoked
        /\ call' = [call EXCEPT ![q] = NoCall]
        /\ UNCHANGED <<accounts, owner, secret, proof, reverted>>
    BY DEF Crash
  <1>2. Reply(q, "none")
    BY <1>1 DEF Reply, NoCall
  <1>3. End({})
    BY <1>1 DEF End, IInv, TypeOK
  <1>4. unrevoked' \in SUBSET users /\ \A t \in sessions : owner[t] \in users
    BY <1>1 DEF IInv, TypeOK, SessionsHaveOwners
  <1> QED
    BY <1>1, <1>2, <1>3, <1>4, EndingKeeps

LEMMA SetStatusKeeps ==
  ASSUME IInv, NEW u \in users, SetStatus(u)
  PROVE  IInv'
  <1>1. /\ UNCHANGED <<address, hash, owner, call, secret, proof, unrevoked, reverted>>
        /\ suspended' \in SUBSET users
    BY DEF SetStatus, history, IInv, TypeOK
  <1>2. users' = users /\ sessions' = sessions
    BY <1>1 DEF users, sessions
  <1>3. Calls' /\ StaleSessionsHaveACause'
    <2>1. \A d : Witnessed(d)' <=> Witnessed(d)
      BY <1>1, <1>2 DEF Witnessed
    <2>2. \A v : Changing(v)' <=> Changing(v)
      BY <1>1 DEF Changing
    <2> QED
      BY <1>1, <1>2, <2>1, <2>2 DEF IInv, Calls, StaleSessionsHaveACause
  <1> QED
    BY <1>1, <1>2, <1>3
    DEF IInv, TypeOK, RowsAreWhole, OneAccountPerEmail, SessionsHaveOwners,
        SignInNeedsACurrentPassword, RevertedHashesHaveACause

LEMMA DeleteUserKeeps ==
  ASSUME IInv, NEW u \in users, DeleteUser(u)
  PROVE  IInv'
  <1>1. /\ address' = [address EXCEPT ![u] = "none"]
        /\ hash' = [hash EXCEPT ![u] = NoHash]
        /\ secret' = [secret EXCEPT ![u] = "none"]
        /\ suspended' = suspended \ {u} /\ unrevoked' = unrevoked \ {u}
        /\ reverted' = reverted \ {u} /\ call' = call /\ End(SessionsOf(u))
    BY DEF DeleteUser, Cascade
  <1>2. /\ owner' \in [Token -> UserId \cup {"none"}]
        /\ proof' \in [Token -> [pw : Password, window : SUBSET Password] \cup {NoProof}]
        /\ sessions' = sessions \ SessionsOf(u)
        /\ \A t \in sessions' : owner'[t] = owner[t] /\ proof'[t] = proof[t]
    BY <1>1, EndDeletes
  <1>3. users' = users \ {u} /\ users \subseteq UserId
    BY <1>1 DEF users, IInv, TypeOK
  <1>4. /\ address' \in [UserId -> Email \cup {"none"}]
        /\ hash' \in [UserId -> Hash \cup {NoHash}]
        /\ secret' \in [UserId -> Password \cup {"none"}]
        /\ \A v \in users' : /\ address'[v] = address[v] /\ secret'[v] = secret[v]
                            /\ hash'[v] = hash[v]
    BY <1>1, <1>3 DEF IInv, TypeOK
  <1>5. TypeOK'
    BY <1>1, <1>2, <1>3, <1>4 DEF IInv, TypeOK
  <1>6. \A t \in sessions' : t \in sessions /\ owner[t] # u /\ owner[t] \in users'
    BY <1>2, <1>3 DEF IInv, SessionsHaveOwners, SessionsOf
  <1>7. Calls'
    <2>1. \A d : Witnessed(d) => Witnessed(d)'
      BY <1>3, <1>4 DEF Witnessed
    <2> QED
      BY <1>1, <2>1 DEF IInv, Calls
  <1>8. StaleSessionsHaveACause'
    <2>1. \A v : Changing(v)' <=> Changing(v)
      BY <1>1 DEF Changing
    <2> QED
      BY <1>1, <1>2, <1>4, <1>6, <2>1 DEF IInv, StaleSessionsHaveACause
  <1> QED
    BY <1>1, <1>2, <1>3, <1>4, <1>5, <1>6, <1>7, <1>8
    DEF IInv, RowsAreWhole, OneAccountPerEmail, SessionsHaveOwners,
        SignInNeedsACurrentPassword, RevertedHashesHaveACause

---------------------------------------------------------------------------
LEMMA NextKeepsIInv == IInv /\ [Next]_vars => IInv'
  <1> SUFFICES ASSUME IInv, [Next]_vars PROVE IInv'
    OBVIOUS
  <1>1. CASE UNCHANGED vars
    <2>1. /\ users' = users /\ sessions' = sessions
          /\ \A d : Witnessed(d)' <=> Witnessed(d)
          /\ \A v : Changing(v)' <=> Changing(v)
      BY <1>1 DEF vars, users, sessions, Witnessed, Changing
    <2> QED
      BY <1>1, <2>1
      DEF vars, IInv, TypeOK, RowsAreWhole, Calls, OneAccountPerEmail, SessionsHaveOwners,
          SignInNeedsACurrentPassword, RevertedHashesHaveACause, StaleSessionsHaveACause
  <1>2. ASSUME NEW q \in Request, Arrive(q) PROVE IInv'
    <2>1. sessions \subseteq Token
      BY DEF sessions
    <2> QED
      BY <1>2, <2>1, StartRegisterKeeps, StartLoginKeeps, StartOthersKeep DEF Arrive
  <1>3. ASSUME NEW q \in Request, NEW out \in Outcomes, Step(q, out) PROVE IInv'
    BY <1>3, LookupKeeps, ReadCredentialsKeeps, ByIDKeeps, RehashKeeps, IssueKeeps,
       CreateUserKeeps, UpdateKeeps, RevokeKeeps, DeleteKeeps DEF Step
  <1> QED
    BY <1>1, <1>2, <1>3, CrashKeeps, SetStatusKeeps, DeleteUserKeeps DEF Next

\* What the proofs below rest on: every behaviour of the service keeps the
\* inductive invariant.
THEOREM AuthInvariant == Spec => []IInv
  BY InitIInv, NextKeepsIInv, PTL DEF Spec

\* Every row, every request in flight and every history has its shape.
THEOREM AuthTypes == Spec => []TypeOK
  <1>1. IInv => TypeOK
    BY DEF IInv
  <1> QED
    BY <1>1, AuthInvariant, PTL

\* However many registrations of one address run at once, and whichever of their
\* INSERTs fail before or after taking effect, one account results.
THEOREM OneAccountEach == Spec => []OneAccountPerEmail
  <1>1. IInv => OneAccountPerEmail
    BY DEF IInv
  <1> QED
    BY <1>1, AuthInvariant, PTL

\* A session never outlives the account it was opened for, although the sign-in
\* that opens it checks the account three statements earlier.
THEOREM NoOrphanSessions == Spec => []SessionsHaveOwners
  <1>1. IInv => SessionsHaveOwners
    BY DEF IInv
  <1> QED
    BY <1>1, AuthInvariant, PTL

\* A sign-in succeeds only with a password that was its account's at some moment
\* while it ran.
THEOREM SignInsAreWitnessed == Spec => []SignInNeedsACurrentPassword
  <1>1. IInv => SignInNeedsACurrentPassword
    BY DEF IInv
  <1> QED
    BY <1>1, AuthInvariant, PTL

\* Only the upgrade of a hash, by a sign-in during which the password changed,
\* stores a password the owner has replaced.
THEOREM OnlyUpgradesRevert == Spec => []RevertedHashesHaveACause
  <1>1. IInv => RevertedHashesHaveACause
    BY DEF IInv
  <1> QED
    BY <1>1, AuthInvariant, PTL

\* A session opened with a replaced password is one of the three kinds the code
\* leaves: about to be signed out, its sign-out failed, or opened across the change.
THEOREM StaleSessionsAreExplained == Spec => []StaleSessionsHaveACause
  <1>1. IInv => StaleSessionsHaveACause
    BY DEF IInv
  <1> QED
    BY <1>1, AuthInvariant, PTL

---------------------------------------------------------------------------
\* The request that a step answers is the one whose statement it runs.
LEMMA OthersGoOn ==
  ASSUME IInv, NEW r \in Request, NEW out \in Outcomes, Step(r, out),
         NEW q \in Request, q # r
  PROVE  call'[q].at = call[q].at
  <1>1. \A e : \A p \in Password : Witness(e, p)[q].at = call[q].at
                                  /\ Witness(e, p) \in [Request -> Call]
    BY WitnessSees
  <1>2. CASE Rehash(r, out)
    BY <1>1, <1>2 DEF Rehash, GoTo, IInv, Calls, Phases, TypeOK
  <1>3. CASE CreateUser(r, out)
    <2>1. call[r].op = "register" /\ call[r].pw \in Password
      BY <1>3 DEF CreateUser, IInv, Calls, Phases
    <2>2. \/ \E c : call' = [Witness(call[r].email, call[r].pw) EXCEPT ![r] = c]
          \/ \E c : call' = [call EXCEPT ![r] = c]
      BY <1>3 DEF CreateUser, Reply
    <2> QED
      BY <1>1, <2>1, <2>2 DEF IInv, TypeOK
  <1>4. CASE Update(r, out)
    <2>1. call[r].op = "change" /\ call[r].next \in Password
      BY <1>4 DEF Update, IInv, Calls, Phases
    <2>2. \/ \E c : call' = [Witness(address[call[r].uid], call[r].next) EXCEPT ![r] = c]
          \/ \E c : call' = [call EXCEPT ![r] = c]
      BY <1>4 DEF Update, Reply
    <2> QED
      BY <1>1, <2>1, <2>2 DEF IInv, TypeOK
  <1>5. CASE \/ Lookup(r, out) \/ ReadCredentials(r, out) \/ ByID(r, out) \/ Issue(r, out)
             \/ Revoke(r, out) \/ Delete(r, out)
    <2>1. \E c : call' = [call EXCEPT ![r] = c]
      BY <1>5 DEF Lookup, ReadCredentials, ByID, Issue, Revoke, Delete, Proceed, GoTo, Reply
    <2> QED
      BY <2>1 DEF IInv, TypeOK
  <1> QED
    BY <1>2, <1>3, <1>4, <1>5 DEF Step

\* A sign-out is answered by the statement that deletes sessions, or refused.
LEMMA SignOutsAreReal ==
  ASSUME IInv, [Next]_vars, NEW q \in Request
  PROVE  /\ Ends(q, "logoutApi") => SessionGone(q)
         /\ Ends(q, "logoutAll") => AllGone(q)
  <1> SUFFICES ASSUME NEW op \in {"logoutApi", "logoutAll"}, Ends(q, op)
               PROVE  /\ op = "logoutApi" => SessionGone(q)
                      /\ op = "logoutAll" => AllGone(q)
    OBVIOUS
  <1>1. /\ call \in [Request -> Call] /\ call[q].op = op /\ Phases(call[q])
        /\ call'[q].at = "idle" /\ call'[q].reply = "ok"
    BY DEF Ends, IInv, TypeOK, Calls
  <1>2. call[q].at = IF op = "logoutApi" THEN "delete" ELSE call[q].at
    BY <1>1 DEF Phases, Call
  <1>3. op = "logoutAll" => call[q].at \in {"lookup", "revoke"}
    BY <1>1 DEF Phases, Call
  <1>4. call[q].at # "idle"
    BY <1>1 DEF Phases
  <1>5. PICK out \in Outcomes : Step(q, out)
    <2>1. CASE UNCHANGED vars
      BY <1>1, <1>4, <2>1 DEF vars
    <2>2. ASSUME NEW r \in Request, Arrive(r) PROVE FALSE
      <3>1. call[r].at = "idle" /\ \E c : call' = [call EXCEPT ![r] = c]
        BY <2>2 DEF Arrive, StartRegister, StartLogin, StartChange, StartLogoutAll, StartLogout,
                    Begin
      <3> QED
        BY <1>1, <1>4, <3>1
    <2>3. ASSUME NEW r \in Request, Crash(r) PROVE FALSE
      BY <1>1, <1>4, <2>3 DEF Crash, NoCall
    <2>4. ASSUME NEW u \in users, SetStatus(u) \/ DeleteUser(u) PROVE FALSE
      BY <1>1, <1>4, <2>4 DEF SetStatus, DeleteUser
    <2>5. ASSUME NEW r \in Request, NEW out \in Outcomes, Step(r, out) PROVE r = q
      BY <1>1, <1>4, <2>5, OthersGoOn
    <2> QED
      BY <2>1, <2>2, <2>3, <2>4, <2>5 DEF Next
  <1>6. CASE op = "logoutApi"
    <2>1. Delete(q, out)
      BY <1>2, <1>5, <1>6 DEF Step, Lookup, ReadCredentials, ByID, Rehash, Issue, CreateUser,
                            Update, Revoke
    <2>2. out = "ok"
      BY <1>1, <1>6, <2>1 DEF Delete, Reply, SwallowsError, NoCall
    <2> QED
      BY <1>1, <1>6, <2>1, <2>2 DEF Delete, Effective, End, SessionGone, sessions
  <1>7. CASE op = "logoutAll"
    <2>1. Lookup(q, out) \/ Revoke(q, out)
      BY <1>3, <1>5, <1>7 DEF Step, ReadCredentials, ByID, Rehash, Issue, CreateUser, Update,
                            Delete
    <2>2. ASSUME Lookup(q, out) PROVE FALSE
      <3>1. \/ call'[q].reply = "fail"
            \/ call'[q].at = "revoke"
        BY <1>1, <1>7, <2>2 DEF Lookup, Reply, NoCall, Call
      <3> QED
        BY <1>1, <3>1
    <2>3. Revoke(q, out)
      BY <2>1, <2>2
    <2>4. out = "ok"
      BY <1>1, <1>7, <2>3 DEF Revoke, Reply, SwallowsError, NoCall
    <2> QED
      BY <1>1, <1>7, <2>3, <2>4 DEF Revoke, Effective, End, AllGone, SessionsOf, sessions
  <1> QED
    BY <1>6, <1>7

\* The API answers success to logout and logout-all only when the sessions are
\* gone, whichever statements fail before or after they took effect.
THEOREM SignOutIsReal == Spec => ApiSignOutIsReal
  <1>1. IInv /\ [Next]_vars =>
          [\A q \in Request : /\ Ends(q, "logoutApi") => SessionGone(q)
                              /\ Ends(q, "logoutAll") => AllGone(q)]_vars
    BY SignOutsAreReal
  <1> QED
    BY <1>1, AuthInvariant, PTL DEF Spec, ApiSignOutIsReal

=============================================================================
