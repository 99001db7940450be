------------------------------- MODULE PageFetch --------------------------------
(***************************************************************************)
(* One request on its way through a provider: the platform's API or pages, *)
(* the retry loops of TikTok and Meta with their backoff, the second page  *)
(* Instagram is asked for, the Graph API before Facebook's page, and the   *)
(* deadlines around all of it: a call's, a lookup's, the handler's, the    *)
(* connection's and the shutdown's.  Requests share nothing here, so one   *)
(* is enough.  What the process computes takes no time; waiting does.      *)
(***************************************************************************)
EXTENDS Integers

CONSTANTS Deployment,      \* the settings of the switches to be looked at
          UpstreamTimeout, \* UPSTREAM_TIMEOUT: bounds one call
          TikTokAttempts, TikTokBackoff,  \* TIKTOK_MAX_ATTEMPTS, TIKTOK_RETRY_BACKOFF
          MetaAttempts, MetaBackoff,      \* META_MAX_ATTEMPTS, META_RETRY_BACKOFF
          LookupTimeout,   \* LOOKUP_TIMEOUT
          Slack,           \* the two seconds main.handlerTimeout adds
          WriteTimeout,    \* HTTP_WRITE_TIMEOUT
          ShutdownTimeout, \* HTTP_SHUTDOWN_TIMEOUT
          Counter,         \* the figures a platform may show
          None             \* nothing: no figure, no answer, no sign, no stage

\* TIKTOK_ENABLED, META_ENABLED, META_PAGE_FETCH, META_ACCESS_TOKEN.
Switches == [tiktok : BOOLEAN, meta : BOOLEAN, pages : BOOLEAN, token : BOOLEAN]

Pages == {"page", "embed", "post"}
Stage == Pages \cup {"videos", "channel", "graph"}

Error == {"ErrNotFound", "ErrRateLimited", "ErrBlocked", "ErrUpstreamFailure",
          "ErrMisconfigured", "ErrInvalidURL", "DeadlineExceeded", "Canceled"}

\* What a platform answers is told apart by: see Signs.
Sign == {"ok", "missing", "quota", "token", "denied", "challenge", "stub", "wall", "odd",
         "failing", "refused", "down"}

ASSUME FetchConfig ==
    /\ Deployment \subseteq Switches
    /\ UpstreamTimeout \in Nat \ {0} /\ LookupTimeout \in Nat \ {0} /\ Slack \in Nat \ {0}
    /\ TikTokAttempts \in Nat \ {0} /\ MetaAttempts \in Nat \ {0}
    /\ TikTokBackoff \in Nat /\ MetaBackoff \in Nat
    /\ WriteTimeout \in Nat /\ ShutdownTimeout \in Nat
    /\ Counter \subseteq Nat
    /\ None \notin Nat \cup Stage \cup Error \cup Sign

VARIABLES
    conf,     \* the deployment
    url,      \* what kind of link was asked for
    route,    \* "stats" or "lookup"
    pc,       \* where the request is
    stage,    \* what is being asked of the platform
    attempt,  \* which attempt at it this is
    elapsed,  \* time since the request was read
    since,    \* when the call or the sleep began
    views,    \* the reading's view count, or None
    answer,   \* "ok" or the error the service ends with
    gone,     \* the client has left, which cancels the request's context
    stopping, \* when the shutdown began, or None
    reply,    \* what became of the answer
    sent,     \* history: calls made
    ended,    \* history: when the last of them ended
    last,     \* history: where and what the platform last answered
    shown     \* history: the page the reading is from, what it is and what it shows

vars == <<conf, url, route, pc, stage, attempt, elapsed, since, views, answer, gone,
          stopping, reply, sent, ended, last, shown>>
history == <<sent, ended, last, shown>>
asked == <<conf, url, route>>

Instagram == {"instagram", "instagramShare"}
Facebook == {"facebook", "facebookShare"}
Url == {"youtube", "tiktok"} \cup Instagram \cup Facebook

Attempts == IF url = "tiktok" THEN TikTokAttempts ELSE MetaAttempts
Backoff == IF url = "tiktok" THEN TikTokBackoff ELSE MetaBackoff

---------------------------------------------------------------------------
(* The budgets. *)

Larger(a, b) == IF a < b THEN b ELSE a

Triangle(n) == (n * (n + 1)) \div 2

\* Mutant: one page per request.
RetryBudgetOnce(attempts, backoff, fetches) ==
    UpstreamTimeout * attempts + backoff * Triangle(attempts)

\* The worst case of so many page fetches one after the other.
RetryBudget(attempts, backoff, fetches) ==
    fetches * (UpstreamTimeout * attempts + backoff * Triangle(attempts))

HandlerTimeout ==
    LET tiktok == IF conf.tiktok THEN RetryBudget(TikTokAttempts, TikTokBackoff, 1) ELSE 0
        meta == IF conf.meta THEN RetryBudget(MetaAttempts, MetaBackoff, 2) ELSE 0
    IN  Larger(UpstreamTimeout, Larger(tiktok, meta)) + Slack

Deadline ==
    IF route = "lookup" /\ LookupTimeout < HandlerTimeout THEN LookupTimeout ELSE HandlerTimeout

\* The request's context is done.
Over == gone \/ elapsed >= Deadline

---------------------------------------------------------------------------
(* What the platforms may answer, and what the code makes of it. *)

\* "missing": not found, gone, private or removed; "quota": too many requests;
\* "denied": this needs a session; "odd": a page without what is looked for;
\* "failing" and "refused": other statuses, from 500 on and below; "down": no
\* answer, or half of one.
Signs ==
    CASE stage = "videos" -> {"ok", "missing", "quota", "failing"}
      [] stage = "channel" -> {"ok", "failing"}
      [] stage = "graph" -> {"ok", "missing", "quota", "token", "failing"}
      [] stage = "page" /\ url = "tiktok" ->
            {"ok", "missing", "quota", "challenge", "stub", "odd", "failing", "refused"}
      [] stage = "page" /\ url \in Facebook ->
            {"ok", "missing", "quota", "stub", "denied", "wall", "odd", "failing", "refused"}
      [] OTHER -> {"ok", "missing", "quota", "stub", "denied", "odd", "failing", "refused"}

\* Mutant: TikTok's block stub is retried as Meta's stub is.
TransientStub(sign) ==
    sign \in {"down", "quota", "failing", "challenge", "stub"}

\* Worth another attempt.  TikTok's small page is a block, Meta's is a hiccup.
Transient(sign) ==
    sign \in {"down", "quota", "failing", "challenge"} \/ (sign = "stub" /\ url # "tiktok")

ErrorOf(sign) ==
    CASE sign = "missing" -> "ErrNotFound"
      [] sign = "quota" -> "ErrRateLimited"
      [] sign = "token" -> "ErrMisconfigured"
      [] sign \in {"challenge", "stub", "denied", "wall"} \/ (sign = "odd" /\ stage = "post")
            -> "ErrBlocked"
      [] OTHER -> "ErrUpstreamFailure"

\* Meta's payloads and its Graph API send zero for what they do not tell.
NonZero(n) == IF n = 0 THEN None ELSE n

\* What is said of the page a reading is from: a video's payload, a payload that says
\* it is no video, or the text of a description.
PageKind == {"video", "photo", "text"}
NoPage == [kind |-> "video", figures |-> {}]

\* Mutant: a photo's counters are a video's.
CountOfAny(a, b, video) ==
    LET number(c) == IF c = None THEN 0 ELSE c IN
    CASE stage = "videos" -> a
      [] stage = "graph" -> NonZero(number(a))
      [] stage = "page" -> IF a # None THEN a ELSE b
      [] OTHER -> NonZero(Larger(number(a), number(b)))

\* The view count of a page that shows a and b, the field's two forms.  The form
\* TikTok and Facebook's page prefer wins, a zero included; of Instagram's two
\* spellings the larger one does, and only a post that is a video has any.
ViewCount(a, b, video) ==
    LET number(c) == IF c = None THEN 0 ELSE c IN
    CASE stage = "videos" -> a
      [] stage = "graph" -> NonZero(number(a))
      [] stage = "page" -> IF a # None THEN a ELSE b
      [] OTHER -> IF video THEN NonZero(Larger(number(a), number(b))) ELSE None

---------------------------------------------------------------------------
Init ==
    /\ conf \in Deployment
    /\ url = "youtube" /\ route = "stats"
    /\ pc = "idle" /\ stage = "videos" /\ attempt = 1
    /\ elapsed = 0 /\ since = 0
    /\ views = None /\ answer = None
    /\ gone = FALSE /\ stopping = None /\ reply = "none"
    /\ sent = 0 /\ ended = 0 /\ last = <<None, None>> /\ shown = NoPage

\* A provider or a path that is switched off answers before it asks anybody.
Refusal(u) ==
    CASE u = "tiktok" /\ ~conf.tiktok -> "ErrMisconfigured"
      [] u \in Instagram \cup Facebook /\ ~conf.meta -> "ErrMisconfigured"
      [] u \in Instagram /\ ~conf.pages -> "ErrMisconfigured"
      [] u \in Facebook /\ ~conf.pages /\ ~conf.token -> "ErrMisconfigured"
      [] u = "facebookShare" /\ conf.meta /\ ~conf.pages /\ conf.token -> "ErrInvalidURL"
      [] OTHER -> None

FirstStage(u) ==
    CASE u = "youtube" -> "videos"
      [] u \in Instagram -> "embed"
      [] u = "facebook" /\ conf.token -> "graph"
      [] OTHER -> "page"

Ask(u, r) ==
    /\ pc = "idle" /\ stopping = None
    /\ url' = u /\ route' = r
    /\ pc' = IF Refusal(u) = None THEN "send" ELSE "answered"
    /\ answer' = Refusal(u)
    /\ stage' = FirstStage(u)
    /\ attempt' = 1 /\ elapsed' = 0 /\ since' = 0 /\ views' = None
    /\ gone' = FALSE /\ reply' = "none"
    /\ sent' = 0 /\ ended' = 0 /\ last' = <<None, None>> /\ shown' = NoPage
    /\ UNCHANGED <<conf, stopping>>

---------------------------------------------------------------------------
(* How a call ends. *)

Settle(a) ==
    /\ pc' = "answered" /\ answer' = a
    /\ UNCHANGED <<stage, attempt, since>>

Turn(next) ==
    /\ pc' = "send" /\ stage' = next /\ attempt' = 1
    /\ UNCHANGED <<since, answer>>

Pause ==
    /\ pc' = "sleep" /\ since' = elapsed
    /\ UNCHANGED <<stage, attempt, answer>>

\* Mutant: the last attempt is followed by another.
RetriesOnceMore(sign) == stage \in Pages /\ Transient(sign) /\ attempt <= Attempts

Retries(sign) == stage \in Pages /\ Transient(sign) /\ attempt < Attempts

\* Mutants: a token that may not see a video hides it; the two renders of a post
\* send the request back and forth.
FallbackUnlessTold(sign) ==
    CASE stage = "graph" /\ conf.pages /\ sign # "missing" -> "page"
      [] stage = "embed" /\ sign = "odd" /\ url = "instagram" -> "post"
      [] OTHER -> None
FallbackInCircles(sign) ==
    CASE stage = "graph" /\ conf.pages -> "page"
      [] stage = "embed" /\ sign = "odd" /\ url = "instagram" -> "post"
      [] stage = "post" /\ sign = "odd" -> "embed"
      [] OTHER -> None

\* Where else to ask: the page when the Graph API does not serve the video, the
\* post when Instagram's embed carries no payload.  A share link has no post.
Fallback(sign) ==
    CASE stage = "graph" /\ conf.pages -> "page"
      [] stage = "embed" /\ sign = "odd" /\ url = "instagram" -> "post"
      [] OTHER -> None

Fails(sign) ==
    /\ last' = <<stage, sign>>
    /\ ended' = elapsed
    /\ \/ Retries(sign) /\ Pause
       \/ ~Retries(sign) /\ Fallback(sign) # None /\ Turn(Fallback(sign))
       \/ ~Retries(sign) /\ Fallback(sign) = None
          /\ Settle(IF stage = "channel" THEN "ok" ELSE ErrorOf(sign))
    /\ UNCHANGED <<views, shown>>

\* The calls one request may cost a platform (Provider.Stats, fetchPage).
MaxCalls ==
    CASE url = "youtube" -> 2
      [] url = "tiktok" -> TikTokAttempts
      [] url = "instagram" -> 2 * MetaAttempts
      [] url = "facebook" -> MetaAttempts + 1
      [] OTHER -> MetaAttempts

\* A call on a context that is done fails before anything is sent.
Send ==
    /\ pc = "send"
    /\ \/ /\ ~Over
          /\ pc' = "wait" /\ since' = elapsed
          /\ sent' = IF sent > MaxCalls THEN sent ELSE sent + 1
          /\ UNCHANGED <<stage, attempt, answer, views, ended, last, shown>>
       \/ Over /\ Fails("down") /\ UNCHANGED sent
    /\ UNCHANGED <<asked, elapsed, gone, stopping, reply>>

\* The platform answers with something else than what was asked for.
Refuse(sign) ==
    /\ pc = "wait" /\ sign \in (Signs \cup {"down"}) \ {"ok"}
    /\ Fails(sign)
    /\ UNCHANGED <<asked, elapsed, gone, stopping, reply, sent>>

\* It answers with the video, its view count shown in up to two places.  Only
\* Instagram's payload may be of something else than a video.
Serve(a, b, video) ==
    /\ pc = "wait" /\ stage # "channel"
    /\ ~video => stage \in {"embed", "post"}
    /\ views' = ViewCount(a, b, video)
    /\ shown' = [kind |-> IF video THEN "video" ELSE "photo",
                 figures |-> (IF stage \in {"videos", "graph"} THEN {a} ELSE {a, b}) \ {None}]
    /\ last' = <<stage, "ok">> /\ ended' = elapsed
    /\ \/ Settle("ok")
       \/ stage = "videos" /\ Turn("channel")
    /\ UNCHANGED <<asked, elapsed, gone, stopping, reply, sent>>

\* Instagram's post page without a payload, but with figures in its description.
ServeText(a) ==
    /\ pc = "wait" /\ stage = "post"
    /\ views' = a /\ shown' = [kind |-> "text", figures |-> {a} \ {None}]
    /\ last' = <<stage, "ok">> /\ ended' = elapsed
    /\ Settle("ok")
    /\ UNCHANGED <<asked, elapsed, gone, stopping, reply, sent>>

\* The channel call answers: the reading is kept either way.
ServeChannel ==
    /\ pc = "wait" /\ stage = "channel"
    /\ last' = <<stage, "ok">> /\ ended' = elapsed
    /\ Settle("ok")
    /\ UNCHANGED <<asked, elapsed, views, gone, stopping, reply, sent, shown>>

\* The client's timeout or the context ends the call.
CallIsOver == elapsed >= since + UpstreamTimeout \/ Over

TimeOut ==
    /\ pc = "wait" /\ CallIsOver
    /\ Fails("down")
    /\ UNCHANGED <<asked, elapsed, gone, stopping, reply, sent>>

---------------------------------------------------------------------------
(* Between two attempts. *)

Delay == attempt * Backoff

Wake ==
    /\ pc = "sleep" /\ elapsed >= since + Delay
    /\ pc' = "send" /\ attempt' = attempt + 1
    /\ UNCHANGED <<asked, stage, elapsed, since, views, answer, gone, stopping, reply, history>>

\* A sleep ends with its context; there is no sleep of no time.
GiveUp ==
    /\ pc = "sleep" /\ Delay > 0 /\ Over
    /\ \/ gone /\ Settle("Canceled")
       \/ elapsed >= Deadline /\ Settle("DeadlineExceeded")
    /\ UNCHANGED <<asked, elapsed, views, gone, stopping, reply, history>>

---------------------------------------------------------------------------
(* Around the request. *)

\* The answer is written; past the write timeout the connection takes no more.
Reply ==
    /\ pc = "answered"
    /\ pc' = "idle"
    /\ reply' = IF elapsed < WriteTimeout THEN "delivered" ELSE "cut"
    /\ UNCHANGED <<asked, stage, attempt, elapsed, since, views, answer, gone, stopping, history>>

\* The client closes its connection.
Leave ==
    /\ pc \notin {"idle", "answered"} /\ ~gone
    /\ gone' = TRUE
    /\ UNCHANGED <<asked, pc, stage, attempt, elapsed, since, views, answer, stopping, reply,
                   history>>

\* SIGTERM: no new requests; those in flight go on with their contexts.
Shutdown ==
    /\ stopping = None
    /\ stopping' = elapsed
    /\ UNCHANGED <<asked, pc, stage, attempt, elapsed, since, views, answer, gone, reply, history>>

\* Drained in time or not, the process exits; another one takes its place.
Exit ==
    /\ stopping # None
    /\ pc = "idle" \/ elapsed >= stopping + ShutdownTimeout
    /\ stopping' = None
    /\ pc' = "idle"
    /\ reply' = IF pc = "idle" THEN reply ELSE "lost"
    /\ UNCHANGED <<asked, stage, attempt, elapsed, since, views, answer, gone, history>>

\* Time passes only while somebody waits for it.
Tick ==
    /\ \/ pc = "wait" /\ ~CallIsOver
       \/ pc = "sleep" /\ elapsed < since + Delay /\ ~Over
    /\ stopping # None => elapsed < stopping + ShutdownTimeout
    /\ elapsed' = elapsed + 1
    /\ UNCHANGED <<asked, pc, stage, attempt, since, views, answer, gone, stopping, reply, history>>

Work == Send \/ TimeOut \/ Wake \/ GiveUp \/ Reply \/ Exit \/ Tick

Next ==
    \/ \E u \in Url, r \in {"stats", "lookup"} : Ask(u, r)
    \/ \E sign \in Signs \cup {"down"} : Refuse(sign)
    \/ \E a \in Counter \cup {None}, b \in Counter \cup {None}, video \in BOOLEAN :
          Serve(a, b, video)
    \/ \E a \in Counter \cup {None} : ServeText(a)
    \/ ServeChannel \/ Leave \/ Shutdown
    \/ Work

Spec == Init /\ [][Next]_vars

\* Timers fire and what is ready runs; no platform is assumed to answer.
FairSpec == Spec /\ WF_vars(Work)

---------------------------------------------------------------------------
TypeOK ==
    /\ conf \in Deployment /\ url \in Url /\ route \in {"stats", "lookup"}
    /\ pc \in {"idle", "send", "wait", "sleep", "answered"}
    /\ stage \in Stage /\ attempt \in Nat \ {0}
    /\ elapsed \in Nat /\ since \in Nat
    /\ views \in Counter \cup {None}
    /\ answer \in Error \cup {"ok", None}
    /\ gone \in BOOLEAN /\ stopping \in Nat \cup {None}
    /\ reply \in {"none", "delivered", "cut", "lost"}
    /\ sent \in Nat /\ ended \in Nat
    /\ last \in (Stage \cup {None}) \X (Sign \cup {None})
    /\ shown \in [kind : PageKind, figures : SUBSET Counter]

\* cmd/api/main.go: "handlerTimeout must cover the slowest provider": whatever a
\* platform does, its calls, retries and sleeps are over before the handler's
\* deadline (main.handlerTimeout, Provider.Stats).  YouTube's second call is
\* covered only by Meta's budget.
HandlerCoversFetches ==
    route = "stats" /\ (conf.meta \/ url # "youtube") => elapsed < Deadline

\* No request costs a platform more calls than the loops are set to make
\* (Provider.Stats, fetchPage).
RequestsAreBounded == sent <= MaxCalls

\* README.md: "Retry gently": an attempt comes no sooner after the end of the
\* last one than the backoff says, and none comes after a block (fetchPage).
PlatformsAreSpared ==
    [][sent' > sent =>
          /\ attempt > 1 => elapsed >= ended + (attempt - 1) * Backoff
          /\ ~(url = "tiktok" /\ last[2] = "stub")]_vars

\* A failure is reported only when nothing is left to try: the attempts are used
\* up if another might have helped, what the Graph API would not serve was asked of
\* the page, and a post that Instagram's embed page does not carry of the post's own
\* page (fetchPage, facebookStats, instagramStats).
ErrorsAreFinal ==
    answer \in Error \ {"DeadlineExceeded", "Canceled"} /\ last[1] # None =>
        /\ last[1] \in Pages /\ Transient(last[2]) => attempt = Attempts
        /\ last[1] = "graph" => ~conf.pages
        /\ last[1] = "embed" /\ last[2] = "odd" => url # "instagram"

\* The pages that send zero for a figure they keep to themselves.
Withholding == {"graph", "embed", "post"}

\* What a reading v from a page served at a stage may be.
Measures(v, page, at) ==
    /\ v # None => v \in page.figures /\ page.kind # "photo"
    /\ v = None => page.figures \subseteq {0} \/ page.kind = "photo"
    /\ at \in Withholding /\ page.kind = "video" /\ v # None =>
          v # 0 /\ \A n \in page.figures : n <= v

\* A reading's view count is one the page showed, of the video it was asked for: a
\* post that is none has none, and an absent count means that nothing but zero was
\* shown.  Where zero stands for untold it is never reported, and the figure that
\* tells most is.  README.md says of all Meta pages that "a zero counter is left
\* absent", which Facebook's page and the text of a description do not keep to
\* (mediaToStats, nonZero, firstCount, instagramFromPostPage, pickCount).
ViewsAreMeasured == answer = "ok" => Measures(views, shown, stage)

\* README.md, on a lookup: "those are page scrapes with retries, and the response
\* waits for them": a client that waits for its lookup is not cut off.  The shipped
\* HTTP_WRITE_TIMEOUT is shorter than the shipped LOOKUP_TIMEOUT (NewServer, Load).
ResponseWaits == route = "lookup" /\ reply = "cut" => gone

\* Every request ends, whatever the platforms do (sleepCtx, http.Client.Timeout).
EveryCallEnds == pc # "idle" ~> pc = "idle"
================================================================================
