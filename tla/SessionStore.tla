------------------------------ MODULE SessionStore ------------------------------
(***************************************************************************)
(* The sessions table and every statement that reads or writes it, with     *)
(* time.  Authenticate is two statements, Lookup and then Touch, and the    *)
(* clock, other requests, a logout or the reaper of any replica may run     *)
(* between them.  A statement that can wait for a row lock (Touch, the      *)
(* reaper's DELETE) evaluates now() when it starts and takes effect later:  *)
(* it is two steps here, one that fixes its stamp and one that applies it   *)
(* to the rows it then finds.                                               *)
(*                                                                         *)
(* The clock is the database's.  expires_at is the only time the service    *)
(* computes itself, so it is off by the skew of the two clocks.             *)
(***************************************************************************)
EXTENDS Integers

CONSTANTS Token,          \* tokens the random source may produce (stored hashed)
          User,
          Request,        \* concurrent authenticated requests
          Replica,        \* processes that each run an hourly reaper
          TTL,            \* SESSION_TTL
          IdleTTL,        \* SESSION_IDLE_TTL
          TouchInterval,  \* SESSION_TOUCH_INTERVAL
          MaxSkew,        \* bound on service clock - database clock, either way
          MaxTime         \* bound on the clock

\* What config.validate enforces of the three durations, and a bounded skew.
ASSUME SessionConfig ==
    /\ TTL \in Nat \ {0}
    /\ IdleTTL \in 1..TTL
    /\ TouchInterval \in Nat
    /\ MaxSkew \in Nat
    /\ MaxTime \in Nat

VARIABLES
    now,        \* the database clock
    suspended,  \* users whose status is 'suspended'
    issued,     \* every token ever minted
    stored,     \* tokens with a row in sessions
    row,        \* the row of a stored token, the last row of a deleted one
    lookedUp,   \* requests between Lookup and Touch
    touching,   \* Touch statements started and not yet applied
    reaping,    \* DeleteExpired statements started and not yet applied
    revoked,    \* history: tokens a user revoked (logout, logout-all, password)
    activity    \* history: stamp of the latest Touch that found the row

vars == <<now, suspended, issued, stored, row, lookedUp, touching, reaping,
          revoked, activity>>

Row == [user : User, created : Int, seen : Int, expires : Int]

TypeOK ==
    /\ now \in Nat
    /\ suspended \in SUBSET User
    /\ issued \in SUBSET Token
    /\ stored \in SUBSET issued
    /\ row \in [Token -> Row]
    /\ lookedUp \in SUBSET [req : Request, token : issued]
    /\ touching \in SUBSET [req : Request, token : issued, stamp : Nat]
    /\ reaping \in SUBSET [replica : Replica, stamp : Nat]
    /\ revoked \in SUBSET issued
    /\ activity \in [Token -> Int]

Init ==
    /\ now = 0
    /\ suspended = {} /\ issued = {} /\ stored = {} /\ revoked = {}
    /\ \E u \in User : row = [t \in Token |->
                                [user |-> u, created |-> 0, seen |-> 0, expires |-> 0]]
    /\ lookedUp = {} /\ touching = {} /\ reaping = {}
    /\ activity = [t \in Token |-> 0]

---------------------------------------------------------------------------
\* The WHERE clauses.

\* Mutants: idle measured from sign-in; the idle boundary off by one.
IdleSinceCreation(t, at) == row[t].created <= at - IdleTTL
IdleOffByOne(t, at) == row[t].seen < at - IdleTTL

Expired(t, at) == row[t].expires <= at
Idle(t, at) == row[t].seen <= at - IdleTTL

\* The one place that decides whether a session is usable (Lookup).
Usable(t) ==
    /\ t \in stored
    /\ ~Expired(t, now)
    /\ ~Idle(t, now)
    /\ row[t].user \notin suspended

Busy(q) ==
    \/ \E l \in lookedUp : l.req = q
    \/ \E w \in touching : w.req = q

---------------------------------------------------------------------------
\* issue -> Create.  expires_at is the service's clock plus TTL, read before the
\* INSERT; created_at and last_seen_at default to the database's now().
Create(u, t, skew) ==
    /\ t \notin issued
    /\ issued' = issued \cup {t}
    /\ stored' = stored \cup {t}
    /\ row' = [row EXCEPT ![t] =
                 [user |-> u, created |-> now, seen |-> now, expires |-> now + skew + TTL]]
    /\ activity' = [activity EXCEPT ![t] = now]
    /\ UNCHANGED <<now, suspended, lookedUp, touching, reaping, revoked>>

\* The first half of Authenticate.  A token that is not usable answers 401 and
\* changes nothing.
Lookup(q, t) ==
    /\ ~Busy(q)
    /\ Usable(t)
    /\ lookedUp' = lookedUp \cup {[req |-> q, token |-> t]}
    /\ UNCHANGED <<now, suspended, issued, stored, row, touching, reaping, revoked, activity>>

\* The second half: the UPDATE starts, and its now() is fixed.
TouchStart(l) ==
    /\ lookedUp' = lookedUp \ {l}
    /\ touching' = touching \cup {[req |-> l.req, token |-> l.token, stamp |-> now]}
    /\ UNCHANGED <<now, suspended, issued, stored, row, reaping, revoked, activity>>

\* Mutant of TouchApply: a sliding absolute expiry.
TouchSlides(w) ==
    /\ w.token \in stored
    /\ touching' = touching \ {w}
    /\ row' = [row EXCEPT ![w.token].seen = w.stamp, ![w.token].expires = w.stamp + TTL]
    /\ activity' = [activity EXCEPT ![w.token] = w.stamp]
    /\ UNCHANGED <<now, suspended, issued, stored, lookedUp, reaping, revoked>>

\* It reaches the row: written only when the stored value is stale enough.
TouchApply(w) ==
    /\ touching' = touching \ {w}
    /\ row' = IF w.token \in stored /\ row[w.token].seen < w.stamp - TouchInterval
              THEN [row EXCEPT ![w.token].seen = w.stamp] ELSE row
    /\ activity' = IF w.token \in stored /\ activity[w.token] < w.stamp
                   THEN [activity EXCEPT ![w.token] = w.stamp] ELSE activity
    /\ UNCHANGED <<now, suspended, issued, stored, lookedUp, reaping, revoked>>

\* The Touch fails or its request is cancelled: logged, and the request goes on.
TouchFail ==
    /\ \/ \E l \in lookedUp : lookedUp' = lookedUp \ {l} /\ UNCHANGED touching
       \/ \E w \in touching : touching' = touching \ {w} /\ UNCHANGED lookedUp
    /\ UNCHANGED <<now, suspended, issued, stored, row, reaping, revoked, activity>>

Revoke(S) ==
    /\ stored' = stored \ S
    /\ revoked' = revoked \cup (S \cap issued)
    /\ UNCHANGED <<now, suspended, issued, row, lookedUp, touching, reaping, activity>>

\* Logout: deleting a session that is already gone is not an error.
Delete(t) == Revoke({t})

\* LogoutEverywhere, and the end of ChangePassword.
DeleteAllForUser(u) == Revoke({t \in stored : row[t].user = u})

ReapStart(p) ==
    /\ \A r \in reaping : r.replica # p
    /\ reaping' = reaping \cup {[replica |-> p, stamp |-> now]}
    /\ UNCHANGED <<now, suspended, issued, stored, row, lookedUp, touching, revoked, activity>>

\* Mutant: the sweep is given the touch interval for the idle bound.
ReapWrongBound(r) ==
    /\ reaping' = reaping \ {r}
    /\ stored' = {t \in stored : ~Expired(t, r.stamp) /\ row[t].seen > r.stamp - TouchInterval}
    /\ UNCHANGED <<now, suspended, issued, row, lookedUp, touching, revoked, activity>>

\* DeleteExpired: past either bound, measured at the statement's own stamp.
ReapApply(r) ==
    /\ reaping' = reaping \ {r}
    /\ stored' = {t \in stored : ~Expired(t, r.stamp) /\ ~Idle(t, r.stamp)}
    /\ UNCHANGED <<now, suspended, issued, row, lookedUp, touching, revoked, activity>>

\* SetStatus, either way.  It leaves the sessions alone.
SetStatus(u) ==
    /\ suspended' = IF u \in suspended THEN suspended \ {u} ELSE suspended \cup {u}
    /\ UNCHANGED <<now, issued, stored, row, lookedUp, touching, reaping, revoked, activity>>

Tick ==
    /\ now < MaxTime
    /\ now' = now + 1
    /\ UNCHANGED <<suspended, issued, stored, row, lookedUp, touching, reaping, revoked, activity>>

Next ==
    \/ \E u \in User, t \in Token, skew \in -MaxSkew..MaxSkew : Create(u, t, skew)
    \/ \E q \in Request, t \in Token : Lookup(q, t)
    \/ \E l \in lookedUp : TouchStart(l)
    \/ \E w \in touching : TouchApply(w)
    \/ TouchFail
    \/ \E t \in stored : Delete(t)
    \/ \E u \in User : DeleteAllForUser(u)
    \/ \E p \in Replica : ReapStart(p)
    \/ \E r \in reaping : ReapApply(r)
    \/ \E u \in User : SetStatus(u)
    \/ Tick

Spec == Init /\ [][Next]_vars

---------------------------------------------------------------------------
\* A session in use stays usable.  Touch rewrites last_seen_at only every
\* TouchInterval, Touch and the reaper apply stamps taken earlier, and the reaper
\* of any replica may run at any point: still, a token nobody revoked that was
\* active less than IdleTTL - TouchInterval ago, and is short of its absolute
\* expiry, is in the table and Lookup accepts it (unless its user is suspended).
ActiveSessionsStayUsable ==
    \A t \in issued \ revoked :
        (now < row[t].expires /\ now < activity[t] + IdleTTL - TouchInterval)
            => \/ Usable(t)
               \/ t \in stored /\ row[t].user \in suspended

\* A session nobody used goes dead: Lookup accepts a token only if a request of
\* its owner touched it, or it was created, within the last IdleTTL.
UnusedSessionsGoIdle ==
    \A t \in issued : Usable(t) => now < activity[t] + IdleTTL

\* However often a session is touched, it never outlives TTL by more than the
\* clocks disagree.
AbsoluteExpiryHolds ==
    \A t \in issued : Usable(t) => now < row[t].created + TTL + MaxSkew

\* The reaper takes no session that a request could still use: a token that is
\* gone though nobody revoked it is past one of its two bounds for good.
ReapedSessionsWereDead ==
    \A t \in (issued \ revoked) \ stored : Expired(t, now) \/ Idle(t, now)

\* Nothing brings a deleted session back, the Touch of a request that was
\* authenticated before the deletion included; and no two Touches applied out of
\* order move last_seen_at backwards or any expires_at at all.
DeletedStayDeleted == [][\A t \in issued \ stored : t \notin stored']_vars
LastSeenNeverGoesBack ==
    [][\A t \in issued : /\ row'[t].seen >= row[t].seen
                         /\ row'[t].expires = row[t].expires
                         /\ row'[t].user = row[t].user]_vars

=============================================================================
