# Verification of socialstats

The service answers "what are this video's public numbers, and who posted it?" for YouTube,
Meta and TikTok links. It is one Go binary, run as any number of replicas against one
Postgres: a JSON API and a server-rendered dashboard over an auth service, a lookup service
with a cache in front of the platform providers, a login limiter, and a migration runner that
every replica executes when it boots.

What is hard about it is not in any one function. Requests are sequences of autocommitted
statements with other requests between them; `now()` stamps are taken before row locks are
waited for; sweeps run on every replica; deadlines of several layers nest; a statement may
fail after it took effect; a process may stop anywhere. That is what is modelled here.

## Inventory

| Part (under `src/internal` unless noted) | State | Operations | Hard behaviour | What makes it correct |
|---|---|---|---|---|
| session store `storage/postgres/sessions.go` | `sessions` rows: owner, last_seen_at, expires_at | Create, Lookup, Touch, Delete, DeleteAllForUser, DeleteExpired | late and reordered touches, reaper on each replica, two clocks | a session in use stays usable; an unused or expired one does not; a deleted one never returns |
| user store `storage/postgres/users.go` | `users` rows, unique e-mail | Create, Credentials, ByID, UpdatePasswordHash, SetStatus, Delete | concurrent registrations, cascades | one account per address, no session without its user |
| auth service `auth/service.go` | none of its own | Register, Login, Authenticate, ChangePassword, Logout, LogoutEverywhere | statements of several requests interleave; partial and late failure | the stored hash is the owner's last choice; a changed password leaves no old session |
| password hasher `auth/password.go` | a pool of hashing slots | Hash, Verify, NeedsRehash, SpendTimeOnAMissingAccount | queueing that ignores the request's context, a request that needs two turns, a slot lost with a panic | never more hashes at once than slots, everyone gets a turn, a refusal costs what verifying the row it met costs |
| login limit `storage/postgres/ratelimit.go`, `0003_rate_limit.up.sql` | token buckets | Take, Reset, DeleteIdleBuckets | stamps out of order, sweeps with another clock | no more attempts than the allowance; nobody refused who has some; the announced wait suffices |
| migrations `storage/postgres/migrate.go` | ledger, schema, advisory lock | Migrate | replicas race, crash, lose connections, run other builds | ledger = schema, each version once, everyone settles |
| cache and lookups `stats`, `lookup`, `storage/postgres/lookups.go` | a map per replica; `lookups` rows | ByURL, Get, Set, Reap; Lookup, History, Remove | concurrent misses, shared deadline, stamp of the reading | quota spared, answers fresh, rows recent |
| providers `provider/*` | none | Match, Identify, Stats | retries and backoff under nested deadlines; finding a post in a foreign page | every fetch ends in time; numbers never invented, a post read whole or not at all |
| browser session and dashboard `auth/middleware.go`, `auth/cookie.go`, `web/*` | three cookies | CSRF, IssueCSRF, Optional, Require, setFlash, takeFlash; every page and form | tabs whose requests and answers pass each other; sign-in and sign-out between render and submit; sessions that end elsewhere | a form acts for whom it was shown to, fails only when something disturbed it; a message reaches its page; pages say who is signed in; redirects end |
| composition `src/cmd/api/main.go`, `httpx` | reapers, timeouts | handlerTimeout, reapSessions, reapCache, Run | budgets configured apart; shutdown | the handler covers the slowest provider |
| configuration, API documents, pool, error table | read once or none | validate, Load, translate | – | bounds become the modules' assumptions |

How they interact: a request passes the middleware (CSRF, session), reaches a handler of the
API or the dashboard, which calls a service; services call repositories, one statement per
call and no transaction around two of them. The reapers run beside the requests in every
replica, on the replica's clock; rows carry the database's.

## Modules

* `SessionStore` – sessions in time. One action per statement (`Create`, `Lookup`,
  `TouchStart`/`TouchApply`, `Delete`, `DeleteAllForUser`, `ReapStart`/`ReapApply`,
  `SetStatus`); a statement that waits has a start, which fixes its stamp, and an apply. The
  service's clock differs from the database's by up to `MaxSkew`.
* `AuthService` – accounts, passwords and sessions without time. A request is a program
  counter and what it has read; each statement succeeds, fails without effect (`lost`), or
  fails after its effect (`late`), and a process may crash between any two. History
  variables remember which password each owner chose and which were current while a
  sign-in ran.
* `TokenBucket` – one row of `rate_limit_buckets`, in units of 1/Window token so that
  refills are exact. Takes are applied one at a time in any order of their stamps.
* `SchemaHistory` – what the runner promises: the schema grows by one version at a time,
  each once, each from some build.
* `Migrations` – the runner: advisory lock, ledger, files and checksums, one transaction per
  file, COMMITs with lost answers, backends that outlive their client, deployments. It
  implements `SchemaHistory` (`ImplementsHistory`).
* `Lookups` – the cache of each replica and the lookups that go through it: a hit, or a miss
  followed by the provider's answer, YouTube's optional second call, `Cache.Set`, and the
  INSERT under the same deadline; the reaper and restarts. A reading is known by its
  `FetchedAt`.
* `PageFetch` – one request inside a provider: what is asked of the platform (`stage`), which
  attempt it is, and the clock of the deadlines around it. A platform may answer anything its
  code distinguishes (`Signs`) or nothing; `Transient` says what is tried again, `Fallback`
  where else to ask, `ErrorOf` what is reported. Computing takes no time, waiting does. Around
  the request are the client, who may leave, the connection's write timeout and a shutdown.
  A page shows the view count in up to two places, may be of a post that is no video
  (`shown.kind`), and a zero on it may stand for a figure that is withheld; `ViewCount` is what
  each provider makes of that. Where TikTok and Facebook's page show the count in two forms, the
  first one present wins, as the code says, a zero included. Requests share nothing here, so one
  is enough.
* `PageScan` – how an Instagram post is found in a page (`scan.go`): the inner escapes undone,
  the key found, the object cut out by counting braces, first in the page as it is and then
  unescaped. `Copied`, `Lexed` and `Parsed` are the loops of the replacer, of `balancedObject`
  and of a JSON string as functions on the positions of a text, each value made from the one
  before by `Copy`, `ReadByte` and `TextAfter`.
  A page arrives byte by byte (`Read`) and may end anywhere. Bytes are told apart as
  the scanner tells them: braces, quote, backslash, slash, line break, `n`; a key or an id is
  one. What the platform renders and what `encoding/json` accepts is external: a post is
  written as JSON in the page or, on most renders, escaped once more inside a string.
* `HashSlots` – what a pool of slots promises: nobody waits while one is free, one given back
  goes to somebody who waits, everyone who asks is served.
* `Hasher` – requests on their way through the hasher: which of Register, Login and
  ChangePassword hash when, the Go channel with its buffer (`holding`) and its blocked senders
  (`queue`), accounts that are missing, corrupted or hashed at other costs, and the panic that
  keeps a slot. A request carries the memory its runs of argon2 took so far (`spent`), which
  stands for all their parameters; an account whose hash cannot be read is refused like a wrong
  password, before any slot is asked for. It implements `HashSlots` with the queue's members as those who wait
  (`ImplementsSlots`).
* `BrowserSession` – one browser: three cookies, what each tab shows, a request or an answer
  under way for each tab. A request carries the cookies of when it was sent; an answer sets
  cookies when it arrives and its redirect is followed then (`Receive`). A handler is one
  action, after the middleware in front of it: `ServeForm` (Optional, IssueCSRF),
  `ServeStranger` (Require), `ServePage`, `ServeForged` (CSRF), `Login`, `Register`, `Logout`,
  and so on. Answers are lost, cookies expire, sessions end, the storage fails. `disturbed` is
  the history its properties need: what something else than the tab itself changed since the
  user last acted in it. Pages are opened by an address or a link, and a link to the sign-in form
  names any page of the site as `next`, the two forms among them (`safeNext` lets all of them
  through); a sign-in form as `next` that carries another `next` is not modelled: whoever has
  just signed in is sent home from it whatever it names.
* `MC*` – the instances TLC checks. `MCProvider` puts `PageFetch` and `PageScan` into one state
  space, where each moves only while the other is where it begins: they share no state.
* `*Proofs` – theorems and proofs.

The modules meet at these seams. `AuthService` leaves time to `SessionStore`, the limiter to
`TokenBucket` (it may deny any attempt) and the hash's turn to `Hasher` (it may take any time).
`Hasher` leaves to `AuthService` which password a hash accepts. `BrowserSession` takes a
handler as one step, because what other requests do between its statements is what
`AuthService` shows. `Lookups` takes a fetch as one answer within its timeout, which is what
`PageFetch` shows, and `PageFetch` takes "the page shows this count" as given, which is what
`PageScan` looks into.

Operators in the modules that are commented as mutants are wrong versions of the definition
after them: replacing the definition by the mutant makes some property of the runs fail,
which is how every property is known to depend on the code it is about.

## Runs

| Run | What it asks | Bounds, and why they are enough |
|---|---|---|
| `sessions` | Do sessions live exactly as long as promised? | One token, two concurrent requests, one reaper, skew 1, clock 6 with TTL 4, idle 3, touch 1. Tokens do not interact; the time constants are distinct and all boundaries are crossed. |
| `auth` | Sign-up, sign-in, password change, sign-out, suspension and deletion of the accounts of one address | Two requests, two passwords, three sessions, two ids so that an address can be registered twice or anew; outdated hashes, all faults. Every race of the code is between two requests. |
| `bucket` | Is the limit kept, and is it fair? | Two takes in flight, capacity 2, window 3, delay 1, skew 1, clock 9: three windows, so the bucket empties, refills and is swept. |
| `migrations` | Do the replicas agree, and do they all come up? | Two replicas, four builds (two releases, one with an edited file, one with a duplicate version), two faults, one redeployment. |
| `lookups` | Is the cache fresh, sparing and bounded, and are rows recent? | Two requests of one URL, TTL 1, a channel call of 1, timeouts 1 and 2, clock 5, which is past every sum a property bounds. Keys and replicas do not interact. |
| `fetch` | Are the retries gentle, bounded and covered by the budgets, and their results honest? | Five deployments, every kind of link, three TikTok and two Meta attempts, so that the backoff grows; all deadlines distinct, small enough to be met, and in the order of the defaults: the write and shutdown timeouts below the lookup's; view counts absent, zero and positive, on videos and on photos. |
| `browser` | Do forms, messages, sign-ins and sign-outs of two tabs survive each other? | Two tabs, two people, two sessions, three CSRF tokens, one message at a time, four acts and two upsets: the shortest way to break each property takes at most four acts. Opened are `/settings`, and the sign-in form with `/register` as its next, which makes the longest chain of redirects there is. Tokens are reused once nobody holds them, which randomness makes equivalent to fresh ones. |
| `hashing` | Is the channel a fair pool, and does a refusal cost what its row does? | Three requests for two slots, so that one always has to wait; costs below the current one and at it (a cost above it takes the same steps); one panic (`MaxPanics` < `Slots`, see below). |
| `fetch`, its other half | Is a post read whole or not at all? | Every caption of up to two of seven glyphs, both renders, both keys, slashes escaped or not at either level, every prefix of the page. Two characters suffice for an escape and what it escapes, or a quote and the brace behind it; the theorem `PostsAreFoundWhole` covers captions of every length. |

Four runs end in a violation; each checks one sentence of the repository and is a finding:

* `password_change_race` – a sign-in that verified the old password inserts its session after
  the change deleted them all. The true remainder is `StaleSessionsHaveACause` (proved): such a
  session comes from an overlapping sign-in or a failed revocation, never from anything else.
* `rehash_reverts_password` – the silent upgrade of an outdated hash is an unconditional UPDATE
  and can undo a concurrent password change. The true remainder is `RevertedHashesHaveACause`
  (proved): nothing else brings a replaced password back.
* `sign_in_lands` – `redirectToLogin` remembers the address of any request, of a form post
  too. Signing in then redirects there with GET, which no route serves.
* `shipped_timeouts` – README.md:190: "the response waits for them". The run has the shipped
  settings in ticks of two seconds: the write timeout (20 s) is shorter than `LOOKUP_TIMEOUT`
  (30 s, `config.go:256`), and nothing compares them, so a slow lookup is fetched and recorded
  and the client that waited gets nothing. `HTTP_SHUTDOWN_TIMEOUT` (15 s) is likewise shorter
  than what it drains.

More disagreements between the code and its words came up. They have no run of their own,
because a property of a passing run states the exception or because they are arithmetic:

* README.md:398: "Zero is never reported as a measurement", "a zero counter is left absent".
  `nonZero` keeps that promise for Instagram's payload and the Graph API; `firstCount`, for
  Facebook's page (`facebook.go:91`), and the text of an Instagram description
  (`instagram.go:176`) report the zero they find. `ViewsAreMeasured` (proved) says what is true:
  every count is one the page showed of a video, and a zero is never reported where zero stands
  for "not told".
* service.go:174: "every path through it does the same amount of work", and likewise
  `password.go:158` and README.md:171. A refusal of an account whose hash is unreadable does no
  work (`service.go:205`), and one whose hash was made with other parameters another amount than
  an unknown address, which is hashed with today's. `RefusalsCostTheirRow` (proved) says what is
  true: the costs are equal for an unknown address, a wrong password and a suspended account
  whose hash is up to date.
* `scan.go:41`: "a `}` inside a caption cannot end the object early". In the usual render, a
  string inside a string, a caption's quote is `\\\"`, of which `unescapeJSONString` leaves `\\"`:
  the scanner takes the quote for the end of the caption, and a brace behind it for the end of
  the object. The caption `"}` is then read as a post without counters, other captions with a
  quote or a line break as no post. `PostsAreReadWhole` excepts exactly these: captions with
  quotes, backslashes or line breaks in a payload that is escaped once more.
* The history is ordered by `looked_up_at`, the time of the reading (`lookups.go:92`), so a lookup
  answered from the cache, or stored late, goes behind older rows; README.md:537 says "the most
  recent".
* The `Retry-After` header rounds the exact wait to the nearest second (`api/auth.go:188`) and
  may be short; the exact wait suffices (`RetryAfterIsEnough`, proved).
* The handler's budget counts one call for YouTube, which makes two: with both scrapers off,
  slow calls use up the deadline, the exception `HandlerCoversFetches` names.
* `MemoryCeilingBytes` (`password.go:84`) is computed from the memory of new hashes; after
  `ARGON2_MEMORY_KIB` was lowered, verifying older hashes takes more.
* argon2 panics on a stored hash whose key is empty, which `decodeHash` lets through, and the
  slot is not released because the release is not deferred. With as many such sign-ins as
  slots, everyone waits for ever; `MaxPanics` < `Slots` is the assumption that excludes it.
* A call that ran into `UPSTREAM_TIMEOUT` is answered as 502, where `openapi.yaml` says 504.

What the properties leave aside is as deliberate:

* Those of `browser` speak of a tab whose cookies nothing else touched (`disturbed`). Two tabs may
  each be given a new CSRF token, and the first one's form is then refused; an answer that takes
  one message may clear a newer one of another tab; a sign-out in one tab may take the cookies of
  a sign-in in another. The model has these behaviours, the repository promises nothing about
  them, and no property forbids them.
* `QuotaIsSpared` excepts requests that miss together: nothing in `ByURL` joins them.
* `SessionsHaveOwners` is about deletion. An account suspended during its sign-in gets its session,
  which `Lookup` filters for as long as it is suspended.
* `WithinAllowance` supposes `SweepSafe`, and the properties of `hashing` `MaxPanics` < `Slots`.

Deadlock is checked in every run except `migrations`, where everyone may have settled with no
deployment or fault left to happen, and `browser` with `sign_in_lands`, where the user stops
after `MaxActs`.

## Fairness

Four runs assume it. `Migrations`: a live replica goes on with its next step (WF of `Step`), which
includes that a supervisor restarts a failed one, and the server ends a session whose client
is gone (WF of `EndOrphan`, TCP keepalive). Waiting for the advisory lock is a step that is
enabled when the lock is free; no strong fairness is needed, because a replica that holds the
lock finishes or loses it a bounded number of times and then settles for good. `Lookups`: the
reaper's ticker keeps ticking (WF of `Reaper`). `PageFetch`: timers fire and what is ready runs (WF of
`Work`). `Hasher`: argon2 ends and a statement is answered or fails (WF of each request's
`Progress`); a request that waits in the channel is moved by whoever releases, so the queue's
order, not a stronger fairness, is why it gets its turn. Nothing else is assumed to be fair; in
particular no run assumes that a platform answers.

## Proofs

Each theorem holds for every value of the constants that satisfies the module's ASSUMEs, and
rests on an inductive invariant (`IInv`, unless named otherwise) that TLC checked first.

* `SessionStoreProofs` – all properties of the run `sessions`. The invariant bounds every
  pending stamp by the present and keeps `last_seen_at` between the latest activity minus the
  touch interval and the latest activity; without it, a late `Touch` could be anywhere.
* `TokenBucketProofs` – `IInv` relates tokens, refills and what was spent since the last
  reset; `SpanIsPaid` says the span being measured was paid from capacity and refill.
  `WithinAllowance` is proved from `SweepSafe`: the sweep age is at least window, delay and
  skew together. The code sweeps after 24 hours and does not bound `LOGIN_WINDOW`; the default
  of 15 minutes satisfies the hypothesis, a window of days would not.
* `MigrationsProofs` – the invariant says that whoever is past the lock holds it, that what it
  read of the ledger is still so, and that an open transaction is exactly the file it runs.
  From it follow `LedgerIsTheSchema`, `LosersDoNotFail`, `ServingIsMigrated`,
  `RefusalIsJustified`, that no version is applied twice, and step by step that `Migrations`
  implements `SchemaHistory`.
* `LookupsProofs` – the invariant ties an entry of the map to the moment it was set (`Made`),
  an absent one to an expired or missing one (`CacheInv`), and what a request holds at each
  step to its deadline (`RequestInv`). From it follow the run's two invariants and four action
  properties. `Lag` bounds how long a step that waits for nobody may take; the bounds of the
  properties name it.
* `PageFetchProofs` – all safety properties of the run `fetch`. `Control` ties a request's stage
  to its link, its attempt to the loop's bound, its calls to its attempts (`SentFits`), a sleep to
  the end of the attempt before it (`Spaced`) and the view count to what the page showed
  (`Measured`). `TimeFits` bounds the moment an attempt begins by calls and sleeps before it
  (`Spent`), which grow with the triangle numbers; that `retryBudget` covers them for every
  number of attempts is the arithmetic of `SpentStep` and `PageIsBudgeted`.

  The second half of the module proves `PostsAreReadWhole` for captions of every length
  (`PostsAreFoundWhole`). The state is simple (`ScanInv`: the page is one a platform renders for
  the caption, what has been read is its beginning, `PageArrivesInOrder`); the work is in the
  loops. An induction over a text is the argument by a least counterexample: the numbers at
  which a claim fails are a set, and a nonempty set of numbers has a least element (`Least`,
  from the well-foundedness of `<`), so a set closed under the next number is everything
  (`Induction`, `TextInduction`). A recursive function on `0 .. n` exists and has the values its
  equation says (`RunsExist`), so the loops can be unfolded one byte at a time (`Lexing`,
  `Copying`, `Parsing`). On these rest:
  - `EscapeIsText`: what the encoder writes for any caption is the text of one string;
  - `InsideString`, `PostDepth`, `BalancedWhole`, `BalancedCut`: the lexer's depth does not
    change in the caption, comes back to zero at the post's last brace and not before, so that
    `balancedObject` cuts out the post or nothing;
  - `FoundWhole`, `FoundCut`: the key stands in the page once, where `findObject` looks
    (`KeyOnce`);
  - `CopiesText`: of a simple caption escaped twice the replacer makes the caption with its
    slashes escaped at most once (`Twofold`, `Slashes`), and of a page cut off in the middle of
    an escape the beginning of that text with nothing but backslashes behind it (`CutOff`).

  A simple caption is one without quotes, backslashes and line breaks; the hypotheses are those
  of the property.

* `AuthServiceProofs` – all properties of the run `auth`, and that an address has one account
  whatever registrations race or fail half-way (`OneAccountPerEmail`). `Phases` says what a
  request has found out by the statement it is at. `Witnessed` says that a sign-in has seen
  every password its account has had since it began, holds the id of the account at its
  address, and goes on only with a password it has seen; the windows of the sign-ins in
  flight grow with every change (`Witness`), which is what makes it inductive. The run's
  invariants themselves are the rest.
* `HasherProofs` – `Placed` says that a request is queued or holds a slot exactly while it is at
  a hash, and that nobody is queued twice; `Counted` that the memory spent so far is that of
  the row's hash once it has been asked for. From them follow what a refusal costs, and step by step that the channel
  implements the safety part of `HashSlots`.

* `BrowserSessionProofs` – all properties of the run `browser`, from two inductive invariants.
  `IInv` carries `ActsForTheUserShown`. `Bound`: a CSRF token is never held beside two sessions.
  `Faithful`: whoever a token is shown with is the user of the session it is held beside. They
  are inductive because of `Minted`: a token on its way to the browser is held nowhere yet, and
  a session never travels without one; and of `Jarred`: the session cookie never outlives the
  CSRF cookie.
  `TInv` carries the other four. It says of each tab and each cookie nobody else has changed
  since the tab's last request that the request sent what the jar holds, that the answer on its
  way fits what the jar will hold, and that the page shown fits what it holds: `CsrfFollows` for
  `UndisturbedFormsPass`, `SessionFollows` for `ShellIsTruthful` and `RedirectsSettle`,
  `FlashFollows` for `MessagesArrive`. The properties themselves are not inductive, since they
  speak only of the page, and what makes it true is decided a request and an answer earlier.
  `InTurn` (a tab waits for one thing at a time) completes it. That redirects settle is decided
  in `SessionFollows` too: a redirect leads only to a page its user may see (`Reaches`), so the
  next one can only come from a form that signs in, met by somebody who is signed in, and that
  one leads home (`Sends`).

Of three liveness properties the safety part is proved as well, what they need besides fairness:

* for `EveryReplicaSettles`, that a boot without a fault only comes to later stages or to fewer
  pending files (`BootsGoForward`), and that whoever holds the lock can give it up
  (`LockIsReleasable`);
* for the hasher's `EveryCallEnds`, that slots are given in the order of asking
  (`SlotsAreGivenInOrder`) and that no request goes back to an earlier step (`RequestsMoveOn`);
* for that of `PageFetch`, that no request comes to a stage or an attempt twice
  (`RequestsGoForward`) and that attempts and time are bounded (`RequestsAreFinite`).

Every safety invariant and action property of a passing run is so proved. Only model-checked is
liveness itself (`EveryReplicaSettles`, `DeadEntriesGo`, `EveryCallEnds` and the fairness of
`HashSlots`), which the prover does not do.

## Plan

Done in this order: `SessionStore`, `AuthService`, `TokenBucket`, `SchemaHistory` and
`Migrations`, `Lookups`, `PageFetch`, `BrowserSession`, `HashSlots` and `Hasher`, `PageScan`,
with proofs of them all. Next:

1. The login limiter composed with the sign-in, whose failed attempts never reset it, and the
   deletion of an account with its lookups.
2. Human-readable counts and the matching of URLs, against reference definitions.

## Not modelled, and why

* The provider registry: the first match in a list that is fixed at startup.
* Conversions of text to numbers and of URLs to ids, HTML tags and regular expressions: pure,
  each within one function, and covered by the repository's tests.
* Rounding of the `real` column of the limiter; a capacity that is not positive, which turns
  the limiter off; a limiter that the database does not answer for, which lets the attempt pass.
* `MIGRATE_ON_BOOT=false`, by which a replica serves without looking at the schema.
* Profile fields, addresses, agents and `last_login_at`, which decide nothing.
* Rendering, routing, JSON, logging, static documents, and the connection pool, a library.
* Answers to scripts in the dashboard, which get JSON instead of redirects; a CSRF cookie that
  expires before the session's, which their lifetimes exclude.
* The counters of a reading: `Lookups` distinguishes readings by their time only.
