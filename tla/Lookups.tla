-------------------------------- MODULE Lookups --------------------------------
(***************************************************************************)
(* Looking a URL up: the TTL cache every replica keeps in front of the      *)
(* providers, requests that miss it together, the row a lookup stores, the  *)
(* reaper of the cache, and restarts.                                      *)
(*                                                                         *)
(* A reading is known by the time the provider stamped on it (FetchedAt).   *)
(* One clock stands for the replicas' and the database's.                   *)
(***************************************************************************)
EXTENDS Integers, FiniteSets

CONSTANTS Request,        \* requests in flight
          User, Url, Replica,
          None,           \* no cache entry, or no time
          UpstreamTimeout, \* UPSTREAM_TIMEOUT: bounds one call to a provider
          TTL,            \* CACHE_TTL; 0 stands for every setting that disables the cache
          LookupTimeout,  \* LOOKUP_TIMEOUT
          HandlerTimeout, \* what main.handlerTimeout computes
          Lag,            \* a step that waits for nobody takes at most this long
          MaxRows,        \* bound on the lookups recorded
          MaxTime         \* bound on the clock

ASSUME LookupConfig ==
    /\ UpstreamTimeout \in Nat /\ TTL \in Nat /\ LookupTimeout \in Nat /\ HandlerTimeout \in Nat
    /\ Lag \in Nat /\ MaxRows \in Nat /\ MaxTime \in Nat
    /\ User # {} /\ Url # {} /\ Replica # {}
    /\ None \notin Nat
    /\ None \notin [at : Nat, expires : Nat]

VARIABLES
    now,      \* the clock
    cache,    \* per replica and URL: a reading and when it expires, or None
    req,      \* the requests: where each is and what it holds
    reaping,  \* per replica: the stamp of a reap in progress, or None
    rows,     \* the lookups table, with the time each row was stored
    nextId,   \* its identity column
    lastSet   \* history: when each replica last cached an answer for a URL

vars == <<now, cache, req, reaping, rows, nextId, lastSet>>

Entry == [at : Nat, expires : Nat]

\* What a request holds: its step, its kind, its deadline, when the step began,
\* the entry it saw, when that was set, and the reading.
Held == [pc : {"idle", "check", "fetch", "channel", "set", "have"},
         kind : {"stats", "lookup"}, user : User, url : Url, replica : Replica,
         deadline : Nat, since : Nat, seen : Entry \cup {None},
         before : Nat \cup {None}, at : Nat]

TypeOK ==
    /\ now \in Nat
    /\ cache \in [Replica -> [Url -> Entry \cup {None}]]
    /\ req \in [Request -> Held]
    /\ reaping \in [Replica -> Nat \cup {None}]
    /\ rows \in SUBSET [id : Nat, user : User, at : Nat, stored : Nat]
    /\ nextId \in Nat
    /\ lastSet \in [Replica -> [Url -> Nat \cup {None}]]

\* No request: nothing of a finished one is looked at again.
Idle == [pc |-> "idle", kind |-> "stats", user |-> CHOOSE x \in User : TRUE,
         url |-> CHOOSE u \in Url : TRUE, replica |-> CHOOSE r \in Replica : TRUE,
         deadline |-> 0, since |-> 0, seen |-> None, before |-> None, at |-> 0]

Init ==
    /\ now = 0
    /\ cache = [r \in Replica |-> [u \in Url |-> None]]
    /\ req = [p \in Request |-> Idle]
    /\ reaping = [r \in Replica |-> None]
    /\ rows = {}
    /\ nextId = 0
    /\ lastSet = [r \in Replica |-> [u \in Url |-> None]]

---------------------------------------------------------------------------
\* Mutant: a lookup without its own deadline.
HandlerBudget(kind) == HandlerTimeout

\* The handler's deadline covers everything; a lookup sets its own inside it.
Budget(kind) ==
    IF kind = "lookup" /\ LookupTimeout < HandlerTimeout THEN LookupTimeout ELSE HandlerTimeout

InFlight == {p \in Request : req[p].pc # "idle" /\ req[p].kind = "lookup"}

Finish(p) == req' = [req EXCEPT ![p] = Idle]

\* A request arrives and looks in the cache: Get reads the entry under the lock
\* and compares the clock after it.
Get(p, kind, user, url, r) ==
    /\ req[p].pc = "idle"
    /\ kind = "lookup" => nextId + Cardinality(InFlight) < MaxRows
    /\ req' = [req EXCEPT ![p] = [pc |-> "check", kind |-> kind, user |-> user, url |-> url,
                                  replica |-> r, deadline |-> now + Budget(kind),
                                  since |-> now, before |-> lastSet[r][url],
                                  seen |-> IF TTL = 0 THEN None ELSE cache[r][url],
                                  at |-> 0]]
    /\ UNCHANGED <<now, cache, reaping, rows, nextId, lastSet>>

\* Mutants: Get forgets the expiry; Get and the map disagree on the last tick.
AlwaysLive(entry) == entry # None
LiveStrictly(entry) == entry # None /\ now < entry.expires

\* An entry is served up to and including the tick it expires at.
Live(entry) == entry # None /\ now <= entry.expires

Hit(p) ==
    /\ req[p].pc = "check"
    /\ Live(req[p].seen)
    /\ req' = [req EXCEPT ![p].pc = "have", ![p].at = req[p].seen.at,
                          ![p].since = 0, ![p].seen = None, ![p].before = None]
    /\ UNCHANGED <<now, cache, reaping, rows, nextId, lastSet>>

Miss(p) ==
    /\ req[p].pc = "check"
    /\ ~Live(req[p].seen)
    /\ req' = [req EXCEPT ![p].pc = "fetch",
                          ![p].since = 0, ![p].seen = None, ![p].before = None]
    /\ UNCHANGED <<now, cache, reaping, rows, nextId, lastSet>>

\* Mutant: the reading is stamped when the request came.
FetchedEarlier(p) ==
    /\ req[p].pc = "fetch"
    /\ req' = [req EXCEPT ![p].pc = "set", ![p].since = now,
                          ![p].at = req[p].deadline - Budget(req[p].kind)]
    /\ UNCHANGED <<now, cache, reaping, rows, nextId, lastSet>>

\* The provider answers and stamps the reading.  YouTube's has a second call to
\* make, for the channel.
Fetched(p) ==
    /\ req[p].pc = "fetch"
    /\ \E next \in {"set", "channel"} :
          req' = [req EXCEPT ![p].pc = next, ![p].since = now, ![p].at = now]
    /\ UNCHANGED <<now, cache, reaping, rows, nextId, lastSet>>

\* The channel call answers, fails or times out: the reading is kept either way.
Channel(p) ==
    /\ req[p].pc = "channel"
    /\ req' = [req EXCEPT ![p].pc = "set", ![p].since = now]
    /\ UNCHANGED <<now, cache, reaping, rows, nextId, lastSet>>

\* The provider fails, its deadline passes or the client goes away: nothing is
\* cached or recorded.
FetchFails(p) ==
    /\ req[p].pc = "fetch"
    /\ Finish(p)
    /\ UNCHANGED <<now, cache, reaping, rows, nextId, lastSet>>

\* Concurrent misses each store their answer; the last to come stays, whichever
\* reading is the newer.
Set(p) ==
    /\ req[p].pc = "set"
    /\ req' = [req EXCEPT ![p].pc = "have", ![p].since = 0]
    /\ IF TTL = 0 THEN UNCHANGED <<cache, lastSet>>
       ELSE /\ cache' = [cache EXCEPT ![req[p].replica][req[p].url] =
                             [at |-> req[p].at, expires |-> now + TTL]]
            /\ lastSet' = [lastSet EXCEPT ![req[p].replica][req[p].url] = now]
    /\ UNCHANGED <<now, reaping, rows, nextId>>

\* /v1/stats answers with the reading; no deadline is looked at again.
Answer(p) ==
    /\ req[p].pc = "have" /\ req[p].kind = "stats"
    /\ Finish(p)
    /\ UNCHANGED <<now, cache, reaping, rows, nextId, lastSet>>

\* A lookup stores the reading with the reading's own stamp.
Row(p) == [id |-> nextId, user |-> req[p].user, at |-> req[p].at, stored |-> now]

\* The INSERT runs under the lookup's deadline: a context past it gets no
\* connection.
Alive(p) == now < req[p].deadline + Lag

\* The row is stored; the answer to the INSERT may still be lost, in which case
\* the caller is told the lookup failed.
Create(p) ==
    /\ req[p].pc = "have" /\ req[p].kind = "lookup" /\ Alive(p)
    /\ rows' = rows \cup {Row(p)}
    /\ nextId' = nextId + 1
    /\ Finish(p)
    /\ UNCHANGED <<now, cache, reaping, lastSet>>

CreateFails(p) ==
    /\ req[p].pc = "have" /\ req[p].kind = "lookup"
    /\ Finish(p)
    /\ UNCHANGED <<now, cache, reaping, rows, nextId, lastSet>>

\* The owner's delete; any other user's finds no row and changes nothing.
Remove(user, row) ==
    /\ row \in rows /\ row.user = user
    /\ rows' = rows \ {row}
    /\ UNCHANGED <<now, cache, req, reaping, nextId, lastSet>>

---------------------------------------------------------------------------
\* The reaper stamps itself before it waits for the lock.
ReapStart(r) ==
    /\ reaping[r] = None
    /\ reaping' = [reaping EXCEPT ![r] = now]
    /\ UNCHANGED <<now, cache, req, rows, nextId, lastSet>>

\* Mutants: what a reap keeps when it takes too little or too much.
KeepsAll(entry, stamp) == TRUE
KeepsLess(entry, stamp) == stamp < entry.expires

\* What a reap leaves in the map.
Keeps(entry, stamp) == stamp <= entry.expires

ReapApply(r) ==
    /\ reaping[r] # None
    /\ cache' = [cache EXCEPT ![r] = [u \in Url |->
                     IF @[u] # None /\ Keeps(@[u], reaping[r]) THEN @[u] ELSE None]]
    /\ reaping' = [reaping EXCEPT ![r] = None]
    /\ UNCHANGED <<now, req, rows, nextId, lastSet>>

\* A replica stops and starts again: its cache and its requests are gone.
Restart(r) ==
    /\ cache' = [cache EXCEPT ![r] = [u \in Url |-> None]]
    /\ lastSet' = [lastSet EXCEPT ![r] = [u \in Url |-> None]]
    /\ reaping' = [reaping EXCEPT ![r] = None]
    /\ req' = [p \in Request |-> IF req[p].replica = r THEN Idle ELSE req[p]]
    /\ UNCHANGED <<now, rows, nextId>>

\* Time passes a request only as far as Lag allows: a computation ends within
\* Lag of its start, a wait on the network within Lag of the deadline.
InTime(p) ==
    \/ req[p].pc = "idle"
    \/ req[p].pc \in {"check", "set"} /\ now < req[p].since + Lag
    \/ req[p].pc \in {"fetch", "channel", "have"} /\ Alive(p)

\* UPSTREAM_TIMEOUT bounds the channel call too.
ChannelInTime(p) == req[p].pc = "channel" => now < req[p].since + UpstreamTimeout + Lag

Tick ==
    /\ now < MaxTime
    /\ \A p \in Request : InTime(p) /\ ChannelInTime(p)
    /\ now' = now + 1
    /\ UNCHANGED <<cache, req, reaping, rows, nextId, lastSet>>

Step(p) ==
    \/ \E kind \in {"stats", "lookup"}, user \in User, url \in Url, r \in Replica :
          Get(p, kind, user, url, r)
    \/ Hit(p) \/ Miss(p) \/ Fetched(p) \/ FetchFails(p) \/ Channel(p)
    \/ Set(p) \/ Answer(p) \/ Create(p) \/ CreateFails(p)

Next ==
    \/ \E p \in Request : Step(p)
    \/ \E user \in User, row \in rows : Remove(user, row)
    \/ \E r \in Replica : ReapStart(r) \/ ReapApply(r) \/ Restart(r)
    \/ Tick

Spec == Init /\ [][Next]_vars

\* The reaper's ticker keeps ticking, and the map's lock is held only briefly.
Reaper(r) == ReapStart(r) \/ ReapApply(r)
FairSpec == Spec /\ \A r \in Replica : WF_vars(Reaper(r))

---------------------------------------------------------------------------
\* What a cached answer holds is at most TTL old, plus what YouTube's channel call
\* took between the provider's stamp and the map: a hit does not renew the entry
\* (Cache.Get, Cache.Set).
CachedAnswersAreFresh ==
    [][\A p \in Request :
          req[p].pc = "check" /\ req'[p].pc = "have" =>
              now - req'[p].at <= TTL + UpstreamTimeout + 2 * Lag]_vars

\* Upstream quota is spent only when the replica cached no answer for the URL in
\* the TTL before the request looked: neither the reaper nor a slower Set makes
\* an entry go before its time (Service.ByURL, Cache.Reap).
QuotaIsSpared ==
    [][\A p \in Request :
          req[p].pc = "check" /\ req'[p].pc = "fetch" =>
              req[p].before = None \/ now > req[p].before + TTL]_vars

\* A row is stored soon after the reading it holds was taken: the cache and the
\* lookup's deadline, which spans the fetch and the INSERT, add up to no more
\* (lookup.Service.Lookup).
RowsAreRecent ==
    \A row \in rows :
        row.stored - row.at < TTL + UpstreamTimeout + LookupTimeout + 3 * Lag

\* An entry leaves the map only when nobody would be served from it any more, or
\* with its process: a reap that waited for the lock does not take an entry that
\* was set meanwhile (Cache.Reap).
ReapSparesTheLive ==
    [][\A r \in Replica, u \in Url :
          cache[r][u] # None /\ cache'[r][u] = None =>
              now > cache[r][u].expires \/ lastSet'[r][u] = None]_vars

\* Requests that missed together may store their answers in either order, but
\* what the cache serves goes back by no more than a channel call
\* (Service.ByURL, Provider.Stats).
ReadingsHardlyGoBack ==
    [][\A r \in Replica, u \in Url :
          cache[r][u] # None /\ cache'[r][u] # None =>
              cache'[r][u].at >= cache[r][u].at - UpstreamTimeout - 2 * Lag]_vars

\* An expired entry does not stay in the map (main.reapCache).
DeadEntriesGo ==
    \A r \in Replica, u \in Url :
        (cache[r][u] # None /\ now > cache[r][u].expires) ~>
            (cache[r][u] = None \/ now <= cache[r][u].expires)

================================================================================
