--------------------------- MODULE SessionStoreProofs ---------------------------
(***************************************************************************)
(* What SessionStore promises, for every set of tokens, users, requests and *)
(* replicas and every configuration config.validate accepts.                *)
(***************************************************************************)
EXTENDS SessionStore, TLAPS

\* No statement in flight carries a stamp from the future.
StampsArePast ==
    /\ \A w \in touching : w.stamp <= now
    /\ \A r \in reaping : r.stamp <= now

\* last_seen_at trails the session's real activity by at most TouchInterval.
SeenTracksActivity ==
    \A t \in issued : /\ row[t].seen <= activity[t]
                      /\ activity[t] <= row[t].seen + TouchInterval

ExpiryIsFixed == \A t \in issued : row[t].expires <= row[t].created + TTL + MaxSkew

\* The strengthening that makes the invariants inductive: the link between the
\* stored timestamp and the activity it stands for, and the age of every stamp.
IInv ==
    /\ TypeOK
    /\ StampsArePast
    /\ SeenTracksActivity
    /\ ExpiryIsFixed
    /\ ReapedSessionsWereDead

---------------------------------------------------------------------------
LEMMA InitIInv == Init => IInv
  BY SessionConfig DEF Init, IInv, TypeOK, Row, StampsArePast, SeenTracksActivity,
     ExpiryIsFixed, ReapedSessionsWereDead

\* Every variable keeps its type.
LEMMA TypeStep == TypeOK /\ [Next]_vars => TypeOK'
  <1> SUFFICES ASSUME TypeOK, [Next]_vars PROVE TypeOK'
    OBVIOUS
  <1> USE SessionConfig DEF TypeOK
  <1>1. ASSUME NEW u \in User, NEW t \in Token, NEW skew \in -MaxSkew..MaxSkew,
               Create(u, t, skew)
        PROVE  TypeOK'
    BY <1>1 DEF Create, Row
  <1>2. ASSUME NEW q \in Request, NEW t \in Token, Lookup(q, t) PROVE TypeOK'
    BY <1>2 DEF Lookup, Usable
  <1>3. ASSUME NEW l \in lookedUp, TouchStart(l) PROVE TypeOK'
    BY <1>3 DEF TouchStart
  <1>4. ASSUME NEW w \in touching, TouchApply(w) PROVE TypeOK'
    BY <1>4 DEF TouchApply, Row
  <1>5. CASE TouchFail
    BY <1>5 DEF TouchFail
  <1>6. ASSUME NEW t \in stored, Delete(t) PROVE TypeOK'
    BY <1>6 DEF Delete, Revoke
  <1>7. ASSUME NEW u \in User, DeleteAllForUser(u) PROVE TypeOK'
    BY <1>7 DEF DeleteAllForUser, Revoke
  <1>8. ASSUME NEW p \in Replica, ReapStart(p) PROVE TypeOK'
    BY <1>8 DEF ReapStart
  <1>9. ASSUME NEW r \in reaping, ReapApply(r) PROVE TypeOK'
    BY <1>9 DEF ReapApply
  <1>10. ASSUME NEW u \in User, SetStatus(u) PROVE TypeOK'
    BY <1>10 DEF SetStatus
  <1>11. CASE Tick
    BY <1>11 DEF Tick
  <1>12. CASE UNCHANGED vars
    BY <1>12 DEF vars
  <1>13. QED
    BY <1>1, <1>2, <1>3, <1>4, <1>5, <1>6, <1>7, <1>8, <1>9, <1>10, <1>11, <1>12 DEF Next

\* Stamps stay in the past: they are taken at now, and the clock only advances.
LEMMA StampStep == TypeOK /\ StampsArePast /\ [Next]_vars => StampsArePast'
  <1> SUFFICES ASSUME TypeOK, StampsArePast, [Next]_vars PROVE StampsArePast'
    OBVIOUS
  <1> USE DEF TypeOK, StampsArePast
  <1>1. ASSUME NEW l \in lookedUp, TouchStart(l) PROVE StampsArePast'
    BY <1>1 DEF TouchStart
  <1>2. ASSUME NEW p \in Replica, ReapStart(p) PROVE StampsArePast'
    BY <1>2 DEF ReapStart
  <1>3. CASE Tick
    BY <1>3 DEF Tick
  <1>4. CASE now' = now /\ touching' \subseteq touching /\ reaping' \subseteq reaping
    BY <1>4
  <1>5. QED
    BY <1>1, <1>2, <1>3, <1>4 DEF Next, vars, Create, Lookup, TouchApply, TouchFail,
       Delete, DeleteAllForUser, Revoke, ReapApply, SetStatus

\* A Touch closes the gap or finds it small enough: whatever order the stamps
\* are applied in, last_seen_at stays within TouchInterval of the latest one.
LEMMA SeenStep == TypeOK /\ SeenTracksActivity /\ ExpiryIsFixed /\ [Next]_vars
                    => SeenTracksActivity' /\ ExpiryIsFixed'
  <1> SUFFICES ASSUME TypeOK, SeenTracksActivity, ExpiryIsFixed, [Next]_vars
               PROVE  SeenTracksActivity' /\ ExpiryIsFixed'
    OBVIOUS
  <1> USE SessionConfig DEF TypeOK, Row, SeenTracksActivity, ExpiryIsFixed
  <1>1. ASSUME NEW u \in User, NEW t \in Token, NEW skew \in -MaxSkew..MaxSkew,
               Create(u, t, skew)
        PROVE  SeenTracksActivity' /\ ExpiryIsFixed'
    BY <1>1 DEF Create
  <1>2. ASSUME NEW w \in touching, TouchApply(w)
        PROVE  SeenTracksActivity' /\ ExpiryIsFixed'
    BY <1>2 DEF TouchApply
  <1>3. CASE UNCHANGED <<row, activity, issued>>
    BY <1>3
  <1>4. QED
    BY <1>1, <1>2, <1>3 DEF Next, vars, Lookup, TouchStart, TouchFail, Delete,
       DeleteAllForUser, Revoke, ReapStart, ReapApply, SetStatus, Tick

\* What the reaper takes was dead at its stamp, hence dead now: the bounds of a
\* deleted row no longer move and the clock does not run backwards.
LEMMA ReapStep == TypeOK /\ StampsArePast /\ ReapedSessionsWereDead /\ [Next]_vars
                    => ReapedSessionsWereDead'
  <1> SUFFICES ASSUME TypeOK, StampsArePast, ReapedSessionsWereDead, [Next]_vars
               PROVE  ReapedSessionsWereDead'
    OBVIOUS
  <1> USE SessionConfig DEF TypeOK, Row, ReapedSessionsWereDead, Expired, Idle
  <1>1. ASSUME NEW u \in User, NEW t \in Token, NEW skew \in -MaxSkew..MaxSkew,
               Create(u, t, skew)
        PROVE  ReapedSessionsWereDead'
    BY <1>1 DEF Create
  <1>2. ASSUME NEW w \in touching, TouchApply(w) PROVE ReapedSessionsWereDead'
    BY <1>2 DEF TouchApply
  <1>3. ASSUME NEW S \in SUBSET Token, Revoke(S) PROVE ReapedSessionsWereDead'
    BY <1>3 DEF Revoke
  <1>4. ASSUME NEW r \in reaping, ReapApply(r) PROVE ReapedSessionsWereDead'
    BY <1>4 DEF ReapApply, StampsArePast
  <1>5. CASE Tick
    BY <1>5 DEF Tick
  <1>6. CASE UNCHANGED <<now, issued, stored, row, revoked>>
    BY <1>6
  <1>7. ASSUME NEW t \in stored, Delete(t) PROVE \E S \in SUBSET Token : Revoke(S)
    BY <1>7 DEF Delete
  <1>8. ASSUME NEW u \in User, DeleteAllForUser(u)
        PROVE  \E S \in SUBSET Token : Revoke(S)
    BY <1>8 DEF DeleteAllForUser
  <1>9. QED
    BY <1>1, <1>2, <1>3, <1>4, <1>5, <1>6, <1>7, <1>8
       DEF Next, vars, Lookup, TouchStart, TouchFail, ReapStart, SetStatus

LEMMA IInvStep == IInv /\ [Next]_vars => IInv'
  BY TypeStep, StampStep, SeenStep, ReapStep DEF IInv

THEOREM Inductive == Spec => []IInv
  BY InitIInv, IInvStep, PTL DEF Spec

---------------------------------------------------------------------------
\* The variables of the sessions table keep their types.
THEOREM TypeCorrect == Spec => []TypeOK
  BY Inductive, PTL DEF IInv

\* A session in use is never reaped or refused: Touch's write threshold costs the
\* idle window at most TouchInterval, and no interleaving costs it more.
THEOREM ActiveStaysUsable == Spec => []ActiveSessionsStayUsable
  <1>1. IInv => ActiveSessionsStayUsable
    BY SessionConfig DEF IInv, TypeOK, Row, SeenTracksActivity, ReapedSessionsWereDead,
       ActiveSessionsStayUsable, Usable, Expired, Idle
  <1>2. QED
    BY <1>1, Inductive, PTL

\* A session nobody used for IdleTTL is refused, whatever was in flight.
THEOREM UnusedGoesIdle == Spec => []UnusedSessionsGoIdle
  <1>1. IInv => UnusedSessionsGoIdle
    BY SessionConfig DEF IInv, TypeOK, Row, SeenTracksActivity, UnusedSessionsGoIdle,
       Usable, Idle
  <1>2. QED
    BY <1>1, Inductive, PTL

\* The absolute bound holds however the session is used.
THEOREM AbsoluteExpiry == Spec => []AbsoluteExpiryHolds
  <1>1. IInv => AbsoluteExpiryHolds
    BY SessionConfig DEF IInv, TypeOK, Row, ExpiryIsFixed, AbsoluteExpiryHolds, Usable,
       Expired
  <1>2. QED
    BY <1>1, Inductive, PTL

\* The reaper of any replica takes only sessions that no request could use again.
THEOREM ReaperTakesTheDead == Spec => []ReapedSessionsWereDead
  BY Inductive, PTL DEF IInv

\* No Touch, however late, brings a deleted session back.
THEOREM DeletedForGood == Spec => DeletedStayDeleted
  <1>1. TypeOK /\ [Next]_vars => [\A t \in issued \ stored : t \notin stored']_vars
    BY DEF TypeOK, Next, vars, Create, Lookup, TouchStart, TouchApply, TouchFail, Delete,
       DeleteAllForUser, Revoke, ReapStart, ReapApply, SetStatus, Tick
  <1>2. QED
    BY <1>1, TypeCorrect, PTL DEF Spec, DeletedStayDeleted

\* last_seen_at never moves back, whatever order concurrent Touches apply in.
THEOREM SeenIsMonotone == Spec => LastSeenNeverGoesBack
  <1> DEFINE Forward == \A t \in issued : /\ row'[t].seen >= row[t].seen
                                          /\ row'[t].expires = row[t].expires
                                          /\ row'[t].user = row[t].user
  <1>1. TypeOK /\ [Next]_vars => [Forward]_vars
    <2> SUFFICES ASSUME TypeOK, [Next]_vars, ~UNCHANGED vars PROVE Forward
      OBVIOUS
    <2> USE SessionConfig DEF TypeOK, Row
    <2>1. ASSUME NEW u \in User, NEW t \in Token, NEW skew \in -MaxSkew..MaxSkew,
                 Create(u, t, skew)
          PROVE  Forward
      BY <2>1 DEF Create
    <2>2. ASSUME NEW w \in touching, TouchApply(w) PROVE Forward
      BY <2>2 DEF TouchApply
    <2>3. CASE UNCHANGED row
      BY <2>3
    <2>4. QED
      BY <2>1, <2>2, <2>3 DEF Next, Lookup, TouchStart, TouchFail, Delete,
         DeleteAllForUser, Revoke, ReapStart, ReapApply, SetStatus, Tick
  <1>2. QED
    BY <1>1, TypeCorrect, PTL DEF Spec, LastSeenNeverGoesBack

=============================================================================
