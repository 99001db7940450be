----------------------------- MODULE LookupsProofs ------------------------------
(***************************************************************************)
(* What holds of Lookups for any number of requests, replicas, URLs and     *)
(* users and any timeouts: by an inductive invariant that ties every cache  *)
(* entry to the moment it was set, and every request to its entry.          *)
(***************************************************************************)
EXTENDS Lookups, TLAPS

\* An entry expires TTL after it was set, and held a reading at most one channel
\* call old when it was.
Made(entry, set) ==
    /\ TTL > 0
    /\ set # None
    /\ entry.expires = set + TTL
    /\ entry.at <= set
    /\ set - entry.at <= UpstreamTimeout + 2 * Lag

\* What is in the map is what was last set, until it expires.
CacheInv ==
    \A r \in Replica, u \in Url :
        /\ lastSet[r][u] # None => lastSet[r][u] <= now
        /\ cache[r][u] # None => Made(cache[r][u], lastSet[r][u])
        /\ cache[r][u] = None /\ lastSet[r][u] # None => now > lastSet[r][u] + TTL

ReapInv == \A r \in Replica : reaping[r] # None => reaping[r] <= now

CheckInv(q) ==
    /\ q.since <= now /\ now <= q.since + Lag
    /\ q.deadline = q.since + Budget(q.kind)
    /\ q.seen # None => Made(q.seen, q.before) /\ q.before <= now
    /\ q.seen = None /\ q.before # None => now > q.before + TTL

WaitInv(q) ==
    /\ q.at <= q.since /\ q.since <= now
    /\ q.deadline <= q.at + Budget(q.kind)

\* What a request holds at each of its steps.
RequestInv(q) ==
    /\ q.pc = "check" => CheckInv(q)
    /\ q.pc = "fetch" => q.deadline <= now + Budget(q.kind)
    /\ q.pc = "channel" => /\ WaitInv(q) /\ q.since = q.at
                           /\ now <= q.since + UpstreamTimeout + Lag
    /\ q.pc = "set" => /\ WaitInv(q)
                       /\ now <= q.since + Lag
                       /\ q.since - q.at <= UpstreamTimeout + Lag
    /\ q.pc = "have" =>
          /\ q.at <= now
          /\ q.deadline <= q.at + TTL + UpstreamTimeout + 2 * Lag + Budget(q.kind)

ReqInv == \A p \in Request : RequestInv(req[p])

IInv == TypeOK /\ CacheInv /\ ReapInv /\ ReqInv /\ RowsAreRecent

---------------------------------------------------------------------------
\* The budget of a lookup is at most its own timeout.
LEMMA BudgetBound ==
    ASSUME NEW kind \in {"stats", "lookup"}
    PROVE  Budget(kind) \in Nat /\ (kind = "lookup" => Budget(kind) <= LookupTimeout)
  BY LookupConfig DEF Budget

\* No request holds anything: an idle one satisfies every clause.
LEMMA IdleIsFine == Idle \in Held /\ RequestInv(Idle)
<1>1. /\ (CHOOSE x \in User : TRUE) \in User
      /\ (CHOOSE u \in Url : TRUE) \in Url
      /\ (CHOOSE r \in Replica : TRUE) \in Replica
  BY LookupConfig
<1> QED  BY <1>1 DEF Idle, Held, RequestInv

LEMMA InitInvariant == Init => IInv
<1> SUFFICES ASSUME Init PROVE IInv
  OBVIOUS
<1>1. TypeOK
  BY IdleIsFine DEF Init, TypeOK
<1>2. CacheInv /\ ReapInv /\ RowsAreRecent
  BY LookupConfig DEF Init, CacheInv, ReapInv, RowsAreRecent
<1>3. ReqInv
  BY IdleIsFine DEF Init, ReqInv
<1> QED  BY <1>1, <1>2, <1>3 DEF IInv

\* A step that gives one request something new and leaves the clock alone.
LEMMA OneRequest ==
    ASSUME TypeOK, ReqInv, NEW p \in Request, NEW q \in Held, RequestInv(q),
           req' = [req EXCEPT ![p] = q], now' = now
    PROVE  req' \in [Request -> Held] /\ ReqInv'
<1>1. req \in [Request -> Held]
  BY DEF TypeOK
<1>2. \A x \in Request : req'[x] = req[x] \/ req'[x] = q
  BY <1>1
<1>3. req' \in [Request -> Held]
  BY <1>1
<1>4. ASSUME NEW x \in Request PROVE RequestInv(req'[x])
  BY <1>2, <1>4 DEF ReqInv
<1>5. ReqInv'
  BY <1>4 DEF ReqInv, RequestInv, CheckInv, WaitInv, Made
<1> QED  BY <1>3, <1>5


\* A step that changes nothing else.
LEMMA OnlyOneRequest ==
    ASSUME IInv, NEW p \in Request, NEW q \in Held, RequestInv(q),
           req' = [req EXCEPT ![p] = q],
           UNCHANGED <<now, cache, reaping, rows, nextId, lastSet>>
    PROVE  IInv'
<1>1. req' \in [Request -> Held] /\ ReqInv'
  BY OneRequest DEF IInv
<1>2. TypeOK'
  BY <1>1 DEF IInv, TypeOK
<1>3. CacheInv' /\ ReapInv' /\ RowsAreRecent'
  BY DEF IInv, CacheInv, ReapInv, RowsAreRecent, Made
<1> QED  BY <1>1, <1>2, <1>3 DEF IInv

LEMMA GetStep ==
    ASSUME IInv, NEW p \in Request, NEW kind \in {"stats", "lookup"}, NEW user \in User,
           NEW url \in Url, NEW r \in Replica, Get(p, kind, user, url, r)
    PROVE  IInv'
<1> DEFINE q == [pc |-> "check", kind |-> kind, user |-> user, url |-> url,
                 replica |-> r, deadline |-> now + Budget(kind),
                 since |-> now, before |-> lastSet[r][url],
                 seen |-> IF TTL = 0 THEN None ELSE cache[r][url], at |-> 0]
<1>1. TypeOK /\ CacheInv
  BY DEF IInv
<1>2. /\ now \in Nat /\ Budget(kind) \in Nat
      /\ cache[r][url] \in Entry \cup {None} /\ lastSet[r][url] \in Nat \cup {None}
  BY <1>1, BudgetBound DEF TypeOK
<1>3. q \in Held
  BY <1>2 DEF Held
<1>4. CheckInv(q)
  <2>1. q.since <= now /\ now <= q.since + Lag /\ q.deadline = q.since + Budget(q.kind)
    BY <1>2, LookupConfig
  <2>2. CASE TTL = 0
    <3>1. cache[r][url] = None
      BY <2>2, <1>1 DEF CacheInv, Made
    <3> QED  BY <2>1, <2>2, <3>1, <1>1, LookupConfig DEF CheckInv, CacheInv
  <2>3. CASE TTL # 0
    <3>1. q.seen = cache[r][url] /\ q.before = lastSet[r][url]
      BY <2>3
    <3>2. /\ cache[r][url] # None => Made(cache[r][url], lastSet[r][url])
          /\ lastSet[r][url] # None => lastSet[r][url] <= now
          /\ cache[r][url] = None /\ lastSet[r][url] # None => now > lastSet[r][url] + TTL
      BY <1>1 DEF CacheInv
    <3>3. q.seen # None => Made(q.seen, q.before) /\ q.before <= now
      BY <3>1, <3>2 DEF Made
    <3> QED  BY <2>1, <3>1, <3>2, <3>3 DEF CheckInv
  <2> QED  BY <2>2, <2>3
<1>5. RequestInv(q)
  BY <1>4 DEF RequestInv
<1>6. req' = [req EXCEPT ![p] = q]
  BY DEF Get
<1> HIDE DEF q
<1> QED  BY <1>3, <1>5, <1>6, OnlyOneRequest DEF Get

\* A request's own record, with what its step says of it.
LEMMA Own ==
    ASSUME IInv, NEW p \in Request
    PROVE  /\ req[p] \in Held /\ RequestInv(req[p])
           /\ now \in Nat
           /\ Budget(req[p].kind) \in Nat
           /\ req[p].kind = "lookup" => Budget(req[p].kind) <= LookupTimeout
  BY BudgetBound DEF IInv, TypeOK, ReqInv, Held

LEMMA HitStep ==
    ASSUME IInv, NEW p \in Request, Hit(p)
    PROVE  IInv'
<1> DEFINE q == [req[p] EXCEPT !.pc = "have", !.at = req[p].seen.at,
                               !.since = 0, !.seen = None, !.before = None]
<1>1. /\ req[p] \in Held /\ CheckInv(req[p]) /\ now \in Nat
      /\ Budget(req[p].kind) \in Nat
      /\ req[p].seen \in Entry /\ now <= req[p].seen.expires
  BY Own DEF Hit, Live, RequestInv, Held
<1>2. q \in Held /\ q.pc = "have" /\ q.at = req[p].seen.at
      /\ q.deadline = req[p].deadline /\ q.kind = req[p].kind
  BY <1>1 DEF Held, Entry
<1>3. RequestInv(q)
  <2>1. Made(req[p].seen, req[p].before) /\ req[p].before <= now
    BY <1>1, LookupConfig DEF CheckInv, Entry
  <2>2. /\ req[p].since \in Nat /\ req[p].seen.at \in Nat /\ req[p].seen.expires \in Nat
        /\ req[p].before \in Nat /\ req[p].deadline \in Nat
    BY <1>1, <2>1 DEF Held, Entry, Made
  <2>3. q.at <= now /\ q.deadline <= q.at + TTL + UpstreamTimeout + 2 * Lag + Budget(q.kind)
    BY <1>1, <1>2, <2>1, <2>2, LookupConfig DEF Made, CheckInv
  <2> QED  BY <1>2, <2>3 DEF RequestInv
<1>4. req' = [req EXCEPT ![p] = q]
  BY <1>1 DEF Hit, IInv, TypeOK
<1> HIDE DEF q
<1> QED  BY <1>2, <1>3, <1>4, OnlyOneRequest DEF Hit

LEMMA MissStep ==
    ASSUME IInv, NEW p \in Request, Miss(p)
    PROVE  IInv'
<1> DEFINE q == [req[p] EXCEPT !.pc = "fetch", !.since = 0, !.seen = None, !.before = None]
<1>1. /\ req[p] \in Held /\ CheckInv(req[p]) /\ now \in Nat
      /\ Budget(req[p].kind) \in Nat
  BY Own DEF Miss, RequestInv
<1>2. q \in Held /\ q.pc = "fetch" /\ q.deadline = req[p].deadline /\ q.kind = req[p].kind
  BY <1>1 DEF Held
<1>3. RequestInv(q)
  <2>1. req[p].since \in Nat /\ req[p].deadline \in Nat
    BY <1>1 DEF Held
  <2> QED  BY <1>1, <1>2, <2>1 DEF RequestInv, CheckInv
<1>4. req' = [req EXCEPT ![p] = q]
  BY <1>1 DEF Miss, IInv, TypeOK
<1> HIDE DEF q
<1> QED  BY <1>2, <1>3, <1>4, OnlyOneRequest DEF Miss

LEMMA FetchedStep ==
    ASSUME IInv, NEW p \in Request, Fetched(p)
    PROVE  IInv'
<1>1. PICK next \in {"set", "channel"} :
          req' = [req EXCEPT ![p].pc = next, ![p].since = now, ![p].at = now]
  BY DEF Fetched
<1> DEFINE q == [req[p] EXCEPT !.pc = next, !.since = now, !.at = now]
<1>2. /\ req[p] \in Held /\ now \in Nat /\ Budget(req[p].kind) \in Nat
      /\ req[p].deadline <= now + Budget(req[p].kind)
  BY Own DEF Fetched, RequestInv
<1>3. /\ q \in Held /\ q.pc = next /\ q.deadline = req[p].deadline
      /\ q.kind = req[p].kind /\ q.since = now /\ q.at = now
  BY <1>2 DEF Held
<1>4. RequestInv(q)
  <2>1. WaitInv(q)
    BY <1>2, <1>3 DEF WaitInv
  <2>2. now <= q.since + Lag /\ now <= q.since + UpstreamTimeout + Lag
        /\ q.since - q.at <= UpstreamTimeout + Lag
    BY <1>2, <1>3, LookupConfig
  <2> QED  BY <1>3, <2>1, <2>2 DEF RequestInv
<1>5. req' = [req EXCEPT ![p] = q]
  BY <1>1, <1>2 DEF IInv, TypeOK
<1> HIDE DEF q
<1> QED  BY <1>3, <1>4, <1>5, OnlyOneRequest DEF Fetched

LEMMA ChannelStep ==
    ASSUME IInv, NEW p \in Request, Channel(p)
    PROVE  IInv'
<1> DEFINE q == [req[p] EXCEPT !.pc = "set", !.since = now]
<1>1. /\ req[p] \in Held /\ now \in Nat /\ WaitInv(req[p])
      /\ req[p].since = req[p].at /\ now <= req[p].since + UpstreamTimeout + Lag
  BY Own DEF Channel, RequestInv
<1>2. /\ q \in Held /\ q.pc = "set" /\ q.deadline = req[p].deadline
      /\ q.kind = req[p].kind /\ q.since = now /\ q.at = req[p].at
      /\ req[p].at \in Nat
  BY <1>1 DEF Held
<1>3. RequestInv(q)
  <2>1. WaitInv(q)
    BY <1>1, <1>2 DEF WaitInv
  <2>2. now <= q.since + Lag /\ q.since - q.at <= UpstreamTimeout + Lag
    BY <1>1, <1>2, LookupConfig
  <2> QED  BY <1>2, <2>1, <2>2 DEF RequestInv
<1>4. req' = [req EXCEPT ![p] = q]
  BY <1>1 DEF Channel, IInv, TypeOK
<1> HIDE DEF q
<1> QED  BY <1>2, <1>3, <1>4, OnlyOneRequest DEF Channel

\* A request that ends without having recorded anything.
LEMMA FinishStep ==
    ASSUME IInv, NEW p \in Request, FetchFails(p) \/ Answer(p) \/ CreateFails(p)
    PROVE  IInv'
<1>1. req' = [req EXCEPT ![p] = Idle] /\ UNCHANGED <<now, cache, reaping, rows, nextId, lastSet>>
  BY DEF FetchFails, Answer, CreateFails, Finish
<1> QED  BY <1>1, IdleIsFine, OnlyOneRequest

LEMMA CreateStep ==
    ASSUME IInv, NEW p \in Request, Create(p)
    PROVE  IInv'
<1>1. req' = [req EXCEPT ![p] = Idle] /\ UNCHANGED <<now, cache, reaping, lastSet>>
  BY DEF Create, Finish
<1>2. req' \in [Request -> Held] /\ ReqInv'
  BY <1>1, IdleIsFine, OneRequest DEF IInv
<1>3. /\ req[p] \in Held /\ now \in Nat /\ nextId \in Nat /\ Budget(req[p].kind) \in Nat
      /\ Budget(req[p].kind) <= LookupTimeout
      /\ req[p].deadline <= req[p].at + TTL + UpstreamTimeout + 2 * Lag + Budget(req[p].kind)
      /\ now < req[p].deadline + Lag
  BY Own DEF Create, RequestInv, Alive, IInv, TypeOK
<1>4. req[p].at \in Nat /\ req[p].deadline \in Nat /\ req[p].user \in User
  BY <1>3 DEF Held
<1>5. now - req[p].at < TTL + UpstreamTimeout + LookupTimeout + 3 * Lag
  BY <1>3, <1>4, LookupConfig
<1>6. Row(p) \in [id : Nat, user : User, at : Nat, stored : Nat]
  BY <1>3, <1>4 DEF Row
<1>7. TypeOK'
  BY <1>1, <1>2, <1>3, <1>6 DEF Create, IInv, TypeOK
<1>8. CacheInv' /\ ReapInv'
  BY <1>1 DEF IInv, CacheInv, ReapInv, Made
<1>9. RowsAreRecent'
  BY <1>5 DEF Create, Row, IInv, RowsAreRecent
<1> QED  BY <1>2, <1>7, <1>8, <1>9 DEF IInv

LEMMA SetStep ==
    ASSUME IInv, NEW p \in Request, Set(p)
    PROVE  IInv'
<1> DEFINE q == [req[p] EXCEPT !.pc = "have", !.since = 0]
           r == req[p].replica
           u == req[p].url
           e == [at |-> req[p].at, expires |-> now + TTL]
<1>1. /\ req[p] \in Held /\ now \in Nat /\ Budget(req[p].kind) \in Nat
      /\ WaitInv(req[p]) /\ now <= req[p].since + Lag
      /\ req[p].since - req[p].at <= UpstreamTimeout + Lag
      /\ UNCHANGED <<now, reaping, rows, nextId>>
  BY Own DEF Set, RequestInv
<1>2. /\ r \in Replica /\ u \in Url
      /\ req[p].at \in Nat /\ req[p].since \in Nat /\ req[p].deadline \in Nat
  BY <1>1 DEF Held
<1>3. req[p].at <= now /\ now - req[p].at <= UpstreamTimeout + 2 * Lag
  BY <1>1, <1>2, LookupConfig DEF WaitInv
<1>4. /\ q \in Held /\ q.pc = "have" /\ q.at = req[p].at
      /\ q.deadline = req[p].deadline /\ q.kind = req[p].kind
  BY <1>1 DEF Held
<1>5. RequestInv(q)
  <2>1. q.deadline <= q.at + TTL + UpstreamTimeout + 2 * Lag + Budget(q.kind)
    BY <1>1, <1>2, <1>4, LookupConfig DEF WaitInv
  <2> QED  BY <1>3, <1>4, <2>1 DEF RequestInv
<1>6. req' = [req EXCEPT ![p] = q]
  BY <1>1 DEF Set, IInv, TypeOK
<1> HIDE DEF q
<1>7. req' \in [Request -> Held] /\ ReqInv'
  BY <1>1, <1>4, <1>5, <1>6, OneRequest DEF IInv
<1>8. ReapInv' /\ RowsAreRecent'
  BY <1>1 DEF IInv, ReapInv, RowsAreRecent
<1>9. CASE TTL = 0
  <2>1. UNCHANGED <<cache, lastSet>>
    BY <1>9 DEF Set
  <2> QED  BY <1>1, <1>7, <1>8, <2>1 DEF IInv, TypeOK, CacheInv, Made
<1>10. CASE TTL # 0
  <2>1. /\ cache' = [cache EXCEPT ![r][u] = e]
        /\ lastSet' = [lastSet EXCEPT ![r][u] = now]
    BY <1>10 DEF Set
  <2>2. e \in Entry /\ e # None /\ now # None /\ Made(e, now)
    BY <1>10, <1>1, <1>2, <1>3, LookupConfig DEF Entry, Made
  <2> HIDE DEF e, r, u
  <2>3. /\ cache' \in [Replica -> [Url -> Entry \cup {None}]]
        /\ lastSet' \in [Replica -> [Url -> Nat \cup {None}]]
    BY <1>1, <1>2, <2>1, <2>2 DEF IInv, TypeOK
  <2>4. TypeOK'
    BY <1>1, <1>7, <2>3 DEF IInv, TypeOK
  <2>5. ASSUME NEW x \in Replica, NEW y \in Url
        PROVE  \/ cache'[x][y] = e /\ lastSet'[x][y] = now
               \/ cache'[x][y] = cache[x][y] /\ lastSet'[x][y] = lastSet[x][y]
    BY <1>2, <2>1 DEF IInv, TypeOK
  <2>6. CacheInv'
    BY <1>1, <2>2, <2>5 DEF IInv, CacheInv, Made
  <2> QED  BY <1>7, <1>8, <2>4, <2>6 DEF IInv
<1> QED  BY <1>9, <1>10

LEMMA RemoveStep ==
    ASSUME IInv, NEW user \in User, NEW row \in rows, Remove(user, row)
    PROVE  IInv'
<1>1. rows' \subseteq rows /\ UNCHANGED <<now, cache, req, reaping, nextId, lastSet>>
  BY DEF Remove
<1>2. TypeOK' /\ RowsAreRecent'
  BY <1>1 DEF IInv, TypeOK, RowsAreRecent
<1>3. CacheInv' /\ ReapInv' /\ ReqInv'
  BY <1>1 DEF IInv, CacheInv, ReapInv, ReqInv, RequestInv, CheckInv, WaitInv, Made
<1> QED  BY <1>2, <1>3 DEF IInv

LEMMA ReapStartStep ==
    ASSUME IInv, NEW r \in Replica, ReapStart(r)
    PROVE  IInv'
<1>1. TypeOK' /\ ReapInv' /\ RowsAreRecent'
  BY DEF ReapStart, IInv, TypeOK, ReapInv, RowsAreRecent
<1>2. CacheInv' /\ ReqInv'
  BY DEF ReapStart, IInv, CacheInv, ReqInv, RequestInv, CheckInv, WaitInv, Made
<1> QED  BY <1>1, <1>2 DEF IInv

\* A reap leaves an entry as it is, or takes one nobody would be served from.
LEMMA ReapTakesTheDead ==
    ASSUME IInv, NEW r \in Replica, ReapApply(r), NEW x \in Replica, NEW y \in Url
    PROVE  \/ cache'[x][y] = cache[x][y]
           \/ cache'[x][y] = None /\ now > cache[x][y].expires
<1>1. /\ cache \in [Replica -> [Url -> Entry \cup {None}]]
      /\ reaping[r] \in Nat /\ reaping[r] <= now /\ now \in Nat
  BY DEF ReapApply, IInv, TypeOK, ReapInv
<1>2. CASE x # r
  BY <1>1, <1>2 DEF ReapApply
<1>3. CASE x = r
  <2>1. cache'[x][y] = IF cache[r][y] # None /\ Keeps(cache[r][y], reaping[r])
                       THEN cache[r][y] ELSE None
    BY <1>1, <1>3 DEF ReapApply
  <2>2. CASE cache[r][y] = None
    BY <1>3, <2>1, <2>2
  <2>3. CASE cache[r][y] # None
    <3>1. cache[r][y].expires \in Nat
      BY <1>1, <2>3 DEF Entry
    <3> QED  BY <1>1, <1>3, <2>1, <2>3, <3>1 DEF Keeps
  <2> QED  BY <2>2, <2>3
<1> QED  BY <1>2, <1>3

LEMMA ReapApplyStep ==
    ASSUME IInv, NEW r \in Replica, ReapApply(r)
    PROVE  IInv'
<1>1. TypeOK'
  BY DEF ReapApply, IInv, TypeOK
<1>2. ReapInv' /\ RowsAreRecent' /\ ReqInv'
  BY DEF ReapApply, IInv, TypeOK, ReapInv, RowsAreRecent, ReqInv, RequestInv, CheckInv, WaitInv, Made
<1>3. ASSUME NEW x \in Replica, NEW y \in Url
      PROVE  /\ lastSet[x][y] # None => lastSet[x][y] <= now
             /\ cache'[x][y] # None => Made(cache'[x][y], lastSet[x][y])
             /\ cache'[x][y] = None /\ lastSet[x][y] # None => now > lastSet[x][y] + TTL
  <2>1. /\ lastSet[x][y] # None => lastSet[x][y] <= now
        /\ cache[x][y] # None => Made(cache[x][y], lastSet[x][y])
        /\ cache[x][y] = None /\ lastSet[x][y] # None => now > lastSet[x][y] + TTL
    BY DEF IInv, CacheInv
  <2>2. CASE cache'[x][y] = cache[x][y]
    BY <2>1, <2>2
  <2>3. CASE cache'[x][y] = None /\ now > cache[x][y].expires /\ cache[x][y] # None
    BY <2>1, <2>3 DEF Made
  <2> QED  BY <2>2, <2>3, ReapTakesTheDead
<1>4. CacheInv'
  BY <1>3 DEF ReapApply, CacheInv, Made
<1> QED  BY <1>1, <1>2, <1>4 DEF IInv

LEMMA RestartStep ==
    ASSUME IInv, NEW r \in Replica, Restart(r)
    PROVE  IInv'
<1>1. TypeOK'
  BY IdleIsFine DEF Restart, IInv, TypeOK
<1>2. ASSUME NEW x \in Replica, NEW y \in Url
      PROVE  \/ cache'[x][y] = None /\ lastSet'[x][y] = None
             \/ cache'[x][y] = cache[x][y] /\ lastSet'[x][y] = lastSet[x][y]
  BY DEF Restart, IInv, TypeOK
<1>3. CacheInv'
  BY <1>2 DEF Restart, IInv, CacheInv, Made
<1>4. ReapInv' /\ RowsAreRecent'
  BY DEF Restart, IInv, TypeOK, ReapInv, RowsAreRecent
<1>5. ASSUME NEW p \in Request PROVE RequestInv(req'[p])
  BY IdleIsFine DEF Restart, IInv, ReqInv
<1>6. ReqInv'
  BY <1>5 DEF Restart, ReqInv, RequestInv, CheckInv, WaitInv, Made
<1> QED  BY <1>1, <1>3, <1>4, <1>6 DEF IInv

LEMMA TickStep ==
    ASSUME IInv, Tick
    PROVE  IInv'
<1>1. now \in Nat /\ now' = now + 1 /\ UNCHANGED <<cache, req, reaping, rows, nextId, lastSet>>
  BY DEF Tick, IInv, TypeOK
<1>2. TypeOK' /\ RowsAreRecent'
  BY <1>1 DEF IInv, TypeOK, RowsAreRecent
<1>3. CacheInv'
  BY <1>1, LookupConfig DEF IInv, TypeOK, CacheInv, Made
<1>4. ReapInv'
  BY <1>1 DEF IInv, TypeOK, ReapInv
<1>5. ASSUME NEW p \in Request PROVE RequestInv(req[p])'
  <2>1. /\ req[p] \in Held /\ RequestInv(req[p]) /\ Budget(req[p].kind) \in Nat
        /\ InTime(p) /\ ChannelInTime(p)
    BY Own DEF Tick
  <2>2. /\ req[p].since \in Nat /\ req[p].at \in Nat /\ req[p].deadline \in Nat
        /\ req[p].before \in Nat \cup {None} /\ req'[p] = req[p]
    BY <1>1, <2>1 DEF Held
  <2>3. CASE req[p].pc = "idle"
    BY <2>2, <2>3 DEF RequestInv
  <2>4. CASE req[p].pc = "check"
    <3>1. CheckInv(req[p]) /\ now < req[p].since + Lag
      BY <2>1, <2>4 DEF RequestInv, InTime
    <3>2. CheckInv(req[p])'
      BY <1>1, <2>2, <3>1, LookupConfig DEF CheckInv, Made, Budget
    <3> QED  BY <2>2, <2>4, <3>2 DEF RequestInv
  <2>5. CASE req[p].pc = "fetch"
    BY <1>1, <2>1, <2>2, <2>5, LookupConfig DEF RequestInv, Budget
  <2>6. CASE req[p].pc = "channel"
    BY <1>1, <2>1, <2>2, <2>6, LookupConfig DEF RequestInv, WaitInv, ChannelInTime, Budget
  <2>7. CASE req[p].pc = "set"
    BY <1>1, <2>1, <2>2, <2>7, LookupConfig DEF RequestInv, WaitInv, InTime, Budget
  <2>8. CASE req[p].pc = "have"
    BY <1>1, <2>1, <2>2, <2>8, LookupConfig DEF RequestInv, Budget
  <2> QED  BY <2>1, <2>3, <2>4, <2>5, <2>6, <2>7, <2>8 DEF Held
<1>6. ReqInv'
  BY <1>5 DEF ReqInv
<1> QED  BY <1>2, <1>3, <1>4, <1>6 DEF IInv

LEMMA StutterStep == IInv /\ UNCHANGED vars => IInv'
  BY DEF vars, IInv, TypeOK, CacheInv, ReapInv, ReqInv, RowsAreRecent, RequestInv,
         CheckInv, WaitInv, Made

\* A step of a request is nobody else's.
LEMMA StepIsLocal ==
    ASSUME IInv, NEW p \in Request, Step(p), NEW other \in Request, other # p
    PROVE  req'[other] = req[other]
<1> req \in [Request -> Held]
  BY DEF IInv, TypeOK
<1>1. ASSUME NEW kind, NEW user, NEW url, NEW r, Get(p, kind, user, url, r)
      PROVE  req'[other] = req[other]
  BY <1>1 DEF Get
<1>2. CASE Hit(p) \/ Miss(p) \/ Channel(p)
  BY <1>2 DEF Hit, Miss, Channel
<1>3. CASE Fetched(p)
  BY <1>3 DEF Fetched
<1>4. CASE Set(p)
  BY <1>4 DEF Set
<1>5. CASE FetchFails(p) \/ Answer(p) \/ Create(p) \/ CreateFails(p)
  BY <1>5 DEF FetchFails, Answer, Create, CreateFails, Finish
<1> QED  BY <1>1, <1>2, <1>3, <1>4, <1>5 DEF Step

\* From the check a request goes on by a hit or a miss only, or ends with its replica.
LEMMA AfterCheck ==
    ASSUME IInv, [Next]_vars, NEW p \in Request, req[p].pc = "check"
    PROVE  Hit(p) \/ Miss(p) \/ req'[p] = req[p] \/ req'[p] = Idle
<1> req \in [Request -> Held]
  BY DEF IInv, TypeOK
<1>1. ASSUME NEW x \in Request, Step(x) PROVE Hit(p) \/ Miss(p) \/ req'[p] = req[p]
  <2>1. CASE x = p
    BY <1>1, <2>1 DEF Step, Get, Fetched, FetchFails, Channel, Set, Answer, Create, CreateFails
  <2>2. CASE x # p
    BY <1>1, <2>2, StepIsLocal
  <2> QED  BY <2>1, <2>2
<1>2. ASSUME NEW r \in Replica, Restart(r) PROVE req'[p] = req[p] \/ req'[p] = Idle
  BY <1>2 DEF Restart
<1>3. CASE \/ \E user \in User, row \in rows : Remove(user, row)
           \/ \E r \in Replica : ReapStart(r) \/ ReapApply(r)
           \/ Tick \/ UNCHANGED vars
  BY <1>3 DEF Remove, ReapStart, ReapApply, Tick, vars
<1> QED  BY <1>1, <1>2, <1>3 DEF Next

---------------------------------------------------------------------------
\* IInv is inductive, and nothing in it depends on how many of anything there are.
THEOREM LookupInvariant == Spec => []IInv
<1>1. Init => IInv
  BY InitInvariant
<1>2. IInv /\ [Next]_vars => IInv'
  <2> SUFFICES ASSUME IInv, [Next]_vars PROVE IInv'
    OBVIOUS
  <2>1. ASSUME NEW p \in Request, Step(p) PROVE IInv'
    BY <2>1, GetStep, HitStep, MissStep, FetchedStep, ChannelStep, FinishStep, SetStep,
       CreateStep DEF Step
  <2>2. ASSUME NEW user \in User, NEW row \in rows, Remove(user, row) PROVE IInv'
    BY <2>2, RemoveStep
  <2>3. ASSUME NEW r \in Replica, ReapStart(r) \/ ReapApply(r) \/ Restart(r) PROVE IInv'
    BY <2>3, ReapStartStep, ReapApplyStep, RestartStep
  <2>4. CASE Tick
    BY <2>4, TickStep
  <2>5. CASE UNCHANGED vars
    BY <2>5, StutterStep
  <2> QED  BY <2>1, <2>2, <2>3, <2>4, <2>5 DEF Next
<1> QED  BY <1>1, <1>2, PTL DEF Spec

\* Every variable keeps its type (0004_lookups.up.sql, stats.Cache).
THEOREM LookupTypes == Spec => []TypeOK
<1>1. IInv => TypeOK
  BY DEF IInv
<1> QED  BY <1>1, LookupInvariant, PTL

\* A stored row's reading is recent: cache, channel call and deadline add up to
\* no more (lookup.Service.Lookup).
THEOREM StoredRowsAreRecent == Spec => []RowsAreRecent
<1>1. IInv => RowsAreRecent
  BY DEF IInv
<1> QED  BY <1>1, LookupInvariant, PTL

\* A hit serves a reading at most TTL and a channel call old (Cache.Get).
THEOREM HitsAreFresh == Spec => CachedAnswersAreFresh
<1>1. ASSUME IInv, [Next]_vars, NEW p \in Request, req[p].pc = "check", req'[p].pc = "have"
      PROVE  now - req'[p].at <= TTL + UpstreamTimeout + 2 * Lag
  <2>1. req[p] \in Held /\ CheckInv(req[p]) /\ now \in Nat
    BY Own, <1>1 DEF RequestInv
  <2>2. Hit(p)
    <3>1. Idle.pc # "have"
      BY DEF Idle
    <3>2. CASE Miss(p)
      BY <3>2, <1>1 DEF Miss, IInv, TypeOK, Held
    <3> QED  BY <1>1, <3>1, <3>2, AfterCheck
  <2>3. /\ req[p].seen \in Entry /\ now <= req[p].seen.expires
        /\ req'[p].at = req[p].seen.at
    BY <2>1, <2>2, <1>1 DEF Hit, Live, Held, IInv, TypeOK
  <2>4. Made(req[p].seen, req[p].before)
    BY <2>1, <2>3, LookupConfig DEF CheckInv, Entry
  <2>5. req[p].before \in Nat /\ req[p].seen.at \in Nat
    BY <2>1, <2>3, <2>4 DEF Held, Entry, Made
  <2> QED  BY <2>1, <2>3, <2>4, <2>5, LookupConfig DEF Made
<1>2. IInv /\ [Next]_vars =>
        [\A p \in Request :
           req[p].pc = "check" /\ req'[p].pc = "have" =>
               now - req'[p].at <= TTL + UpstreamTimeout + 2 * Lag]_vars
  BY <1>1
<1> QED  BY <1>2, LookupInvariant, PTL DEF Spec, CachedAnswersAreFresh

\* A miss means that nothing was cached in the TTL before (Service.ByURL).
THEOREM MissesAreEarned == Spec => QuotaIsSpared
<1>1. ASSUME IInv, [Next]_vars, NEW p \in Request, req[p].pc = "check", req'[p].pc = "fetch"
      PROVE  req[p].before = None \/ now > req[p].before + TTL
  <2>1. req[p] \in Held /\ CheckInv(req[p]) /\ now \in Nat
    BY Own, <1>1 DEF RequestInv
  <2>2. Miss(p)
    <3>1. Idle.pc # "fetch"
      BY DEF Idle
    <3>2. CASE Hit(p)
      BY <3>2, <1>1 DEF Hit, IInv, TypeOK, Held
    <3> QED  BY <1>1, <3>1, <3>2, AfterCheck
  <2>3. CASE req[p].seen = None
    BY <2>1, <2>3 DEF CheckInv
  <2>4. CASE req[p].seen # None
    <3>1. ~(now <= req[p].seen.expires)
      BY <2>2, <2>4 DEF Miss, Live
    <3>2. Made(req[p].seen, req[p].before) /\ req[p].seen \in Entry
      BY <2>1, <2>4 DEF CheckInv, Held
    <3> QED  BY <2>1, <3>1, <3>2, LookupConfig DEF Made, Held, Entry
  <2> QED  BY <2>3, <2>4
<1>2. IInv /\ [Next]_vars =>
        [\A p \in Request :
           req[p].pc = "check" /\ req'[p].pc = "fetch" =>
               req[p].before = None \/ now > req[p].before + TTL]_vars
  BY <1>1
<1> QED  BY <1>2, LookupInvariant, PTL DEF Spec, QuotaIsSpared

\* The steps that touch the map.
LEMMA MapSteps ==
    ASSUME IInv, [Next]_vars, NEW r \in Replica, NEW u \in Url
    PROVE  \/ cache'[r][u] = cache[r][u]
           \/ ReapApply(r)
           \/ Restart(r)
           \/ \E p \in Request : Set(p) /\ cache'[r][u] = [at |-> req[p].at, expires |-> now + TTL]
<1> cache \in [Replica -> [Url -> Entry \cup {None}]] /\ req \in [Request -> Held]
  BY DEF IInv, TypeOK
<1>1. ASSUME NEW p \in Request, Set(p)
      PROVE  \/ cache'[r][u] = cache[r][u]
             \/ cache'[r][u] = [at |-> req[p].at, expires |-> now + TTL]
  <2>1. req[p].replica \in Replica /\ req[p].url \in Url
    BY DEF Held
  <2>2. CASE TTL = 0
    BY <1>1, <2>2 DEF Set
  <2>3. CASE TTL # 0
    <3>1. cache' = [cache EXCEPT ![req[p].replica][req[p].url] =
                       [at |-> req[p].at, expires |-> now + TTL]]
      BY <1>1, <2>3 DEF Set
    <3>2. CASE r = req[p].replica /\ u = req[p].url
      BY <2>1, <3>1, <3>2
    <3>3. CASE ~(r = req[p].replica /\ u = req[p].url)
      BY <2>1, <3>1, <3>3
    <3> QED  BY <3>2, <3>3
  <2> QED  BY <2>2, <2>3
<1>2. ASSUME NEW p \in Request, Step(p), ~Set(p)
      PROVE  cache'[r][u] = cache[r][u]
  BY <1>2 DEF Step, Get, Hit, Miss, Fetched, FetchFails, Channel, Answer, Create, CreateFails
<1>3. ASSUME NEW x \in Replica, x # r, ReapApply(x) \/ Restart(x)
      PROVE  cache'[r][u] = cache[r][u]
  BY <1>3 DEF ReapApply, Restart
<1>4. CASE \/ \E user \in User, row \in rows : Remove(user, row)
           \/ \E x \in Replica : ReapStart(x)
           \/ Tick \/ UNCHANGED vars
  BY <1>4 DEF Remove, ReapStart, Tick, vars
<1> QED  BY <1>1, <1>2, <1>3, <1>4 DEF Next

\* Nothing live is reaped, whenever the reaper got its stamp (Cache.Reap).
THEOREM ReapingIsSafe == Spec => ReapSparesTheLive
<1>1. ASSUME IInv, [Next]_vars, NEW r \in Replica, NEW u \in Url,
             cache[r][u] # None, cache'[r][u] = None
      PROVE  now > cache[r][u].expires \/ lastSet'[r][u] = None
  <2>1. CASE ReapApply(r)
    BY <1>1, <2>1, ReapTakesTheDead
  <2>2. CASE Restart(r)
    BY <1>1, <2>2 DEF Restart, IInv, TypeOK
  <2>3. ASSUME NEW p \in Request, cache'[r][u] = [at |-> req[p].at, expires |-> now + TTL]
        PROVE  FALSE
    <3>1. [at |-> req[p].at, expires |-> now + TTL] \in Entry
      BY <1>1, Own, LookupConfig DEF Held, Entry
    <3> QED  BY <1>1, <2>3, <3>1, LookupConfig DEF Entry
  <2> QED  BY <1>1, <2>1, <2>2, <2>3, MapSteps
<1>2. IInv /\ [Next]_vars =>
        [\A r \in Replica, u \in Url :
           cache[r][u] # None /\ cache'[r][u] = None =>
               now > cache[r][u].expires \/ lastSet'[r][u] = None]_vars
  BY <1>1
<1> QED  BY <1>2, LookupInvariant, PTL DEF Spec, ReapSparesTheLive

\* A slower request may overwrite a newer reading, but not by much (Service.ByURL).
THEOREM OverwritesAreSmall == Spec => ReadingsHardlyGoBack
<1>1. ASSUME IInv, [Next]_vars, NEW r \in Replica, NEW u \in Url,
             cache[r][u] # None, cache'[r][u] # None
      PROVE  cache'[r][u].at >= cache[r][u].at - UpstreamTimeout - 2 * Lag
  <2>1. /\ cache[r][u] \in Entry /\ lastSet[r][u] \in Nat \cup {None}
        /\ Made(cache[r][u], lastSet[r][u]) /\ lastSet[r][u] <= now /\ now \in Nat
    BY <1>1 DEF IInv, TypeOK, CacheInv, Made
  <2>2. cache[r][u].at \in Nat /\ cache[r][u].at <= now
    BY <2>1 DEF Made, Entry
  <2>3. CASE cache'[r][u] = cache[r][u]
    BY <2>2, <2>3, LookupConfig
  <2>4. CASE ReapApply(r)
    BY <1>1, <2>2, <2>4, ReapTakesTheDead, LookupConfig
  <2>5. CASE Restart(r)
    BY <1>1, <2>5 DEF Restart, IInv, TypeOK
  <2>6. ASSUME NEW p \in Request, Set(p),
               cache'[r][u] = [at |-> req[p].at, expires |-> now + TTL]
        PROVE  cache'[r][u].at >= cache[r][u].at - UpstreamTimeout - 2 * Lag
    <3>1. /\ req[p] \in Held /\ now <= req[p].since + Lag
          /\ req[p].since - req[p].at <= UpstreamTimeout + Lag
      BY <1>1, <2>6, Own DEF Set, RequestInv
    <3>2. req[p].since \in Nat /\ req[p].at \in Nat
      BY <3>1 DEF Held
    <3> QED  BY <2>1, <2>2, <2>6, <3>1, <3>2, LookupConfig
  <2> QED  BY <1>1, <2>3, <2>4, <2>5, <2>6, MapSteps
<1>2. IInv /\ [Next]_vars =>
        [\A r \in Replica, u \in Url :
           cache[r][u] # None /\ cache'[r][u] # None =>
               cache'[r][u].at >= cache[r][u].at - UpstreamTimeout - 2 * Lag]_vars
  BY <1>1
<1> QED  BY <1>2, LookupInvariant, PTL DEF Spec, ReadingsHardlyGoBack

================================================================================
