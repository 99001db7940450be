----------------------------- MODULE PageFetchProofs ----------------------------
(***************************************************************************)
(* Proofs about how a post is fetched and found.  First PageFetch, for     *)
(* every deployment and every value of the timeouts, attempts and backoffs; *)
(* then PageScan, for captions of every length, whose texts, lexer and     *)
(* replacer are followed byte by byte.                                     *)
(***************************************************************************)
EXTENDS PageFetch, PageScan, SequenceTheorems, WellFoundedInduction, TLAPS

---------------------------------------------------------------------------
(* Arithmetic of the backoff, which grows by one step per attempt. *)

LEMMA TriangleNat ==
    ASSUME NEW n \in Nat
    PROVE  Triangle(n) \in Nat
<1>1. n * (n + 1) \in Nat
  OBVIOUS
<1> QED BY <1>1 DEF Triangle

LEMMA TriangleStep ==
    ASSUME NEW n \in Nat
    PROVE  Triangle(n + 1) = Triangle(n) + (n + 1)
<1>1. (n + 1) * (n + 2) = n * (n + 1) + 2 * (n + 1)
  OBVIOUS
<1> DEFINE m == n * (n + 1)
<1>2. m \in Nat
  OBVIOUS
<1>3. (m + 2 * (n + 1)) \div 2 = (m \div 2) + (n + 1)
  <2> HIDE DEF m
  <2> QED BY <1>2
<1> QED BY <1>1, <1>3 DEF Triangle

LEMMA TriangleGrows ==
    ASSUME NEW m \in Nat, NEW n \in Nat, m <= n
    PROVE  Triangle(m) <= Triangle(n)
<1>1. m * (m + 1) <= n * (n + 1)
  <2>1. m * m <= n * n /\ m * m \in Nat /\ n * n \in Nat
    <3>1. PICK d \in Nat : n = m + d
      BY n - m \in Nat, n = m + (n - m)
    <3>2. n * n = m * m + (2 * (m * d) + d * d) /\ m * d \in Nat /\ d * d \in Nat
      BY <3>1
    <3> QED BY <3>2
  <2>2. m * (m + 1) = m * m + m /\ n * (n + 1) = n * n + n
    OBVIOUS
  <2> QED BY <2>1, <2>2
<1> DEFINE x == m * (m + 1)
           y == n * (n + 1)
<1>2. x \in Nat /\ y \in Nat
  OBVIOUS
<1>3. x \div 2 <= y \div 2
  <2>1. x <= y
    BY <1>1
  <2> HIDE DEF x, y
  <2> QED BY <1>2, <2>1
<1> QED BY <1>3 DEF Triangle

LEMMA ProductGrows ==
    ASSUME NEW k \in Nat, NEW m \in Nat, NEW n \in Nat, m <= n
    PROVE  m * k <= n * k /\ m * k \in Nat /\ n * k \in Nat
<1>1. PICK d \in Nat : n = m + d
  BY n - m \in Nat, n = m + (n - m)
<1>2. n * k = m * k + d * k /\ d * k \in Nat /\ m * k \in Nat
  BY <1>1
<1> QED BY <1>2

---------------------------------------------------------------------------
(* The control invariant. *)

\* Which stages a link of each kind goes through.
StageFits ==
    /\ url = "youtube" => stage \in {"videos", "channel"}
    /\ url = "tiktok" => stage = "page"
    /\ url = "instagram" => stage \in {"embed", "post"}
    /\ url = "instagramShare" => stage = "embed"
    /\ url = "facebook" => stage \in {"graph", "page"}
    /\ url = "facebookShare" => stage = "page"

AttemptsFit ==
    /\ attempt <= Attempts
    /\ stage \notin Pages => attempt = 1
    /\ pc = "sleep" => stage \in Pages /\ attempt < Attempts

\* Nothing is asked of a provider that is off.
Served ==
    pc \in {"send", "wait", "sleep"} \/ elapsed > 0 =>
        /\ url = "tiktok" => conf.tiktok
        /\ url \in Instagram \cup Facebook => conf.meta

Unanswered == pc \in {"send", "wait", "sleep"} => answer = None

InTime == elapsed <= Deadline

\* Calls made before this stage at most.
Before == CASE stage = "channel" -> 1
            [] stage = "post" -> MetaAttempts
            [] stage = "page" /\ url = "facebook" -> 1
            [] OTHER -> 0

SentFits == sent <= Before + attempt - (IF pc = "send" THEN 1 ELSE 0)

\* A sleep began when the last call ended; a retry comes when the sleep is over.
Spaced ==
    /\ pc = "sleep" => since = ended
    /\ pc = "send" /\ attempt > 1 => elapsed >= ended + (attempt - 1) * Backoff

\* TikTok is asked no more after its stub.
Unblocked == pc \in {"send", "wait", "sleep"} /\ url = "tiktok" => last[2] # "stub"

Measured == answer = "ok" \/ stage = "channel" => Measures(views, shown, stage)

Control == /\ TypeOK /\ StageFits /\ AttemptsFit /\ Served /\ Unanswered /\ InTime
           /\ SentFits /\ Spaced /\ Unblocked /\ Measured /\ ErrorsAreFinal

LEMMA ConfigTypes ==
    ASSUME TypeOK
    PROVE  /\ Attempts \in Nat \ {0} /\ Backoff \in Nat
           /\ conf.tiktok \in BOOLEAN /\ conf.meta \in BOOLEAN
           /\ conf.pages \in BOOLEAN /\ conf.token \in BOOLEAN
BY FetchConfig DEF TypeOK, Attempts, Backoff, Switches

LEMMA BudgetIsNat ==
    ASSUME NEW a \in Nat, NEW b \in Nat, NEW f \in Nat
    PROVE  RetryBudget(a, b, f) \in Nat
<1>1. Triangle(a) \in Nat
  BY TriangleNat
<1>2. UpstreamTimeout * a \in Nat /\ b * Triangle(a) \in Nat
  BY <1>1, FetchConfig
<1> DEFINE reserve == UpstreamTimeout * a + b * Triangle(a)
<1>3. reserve \in Nat
  BY <1>2
<1>4. f * reserve \in Nat
  <2> HIDE DEF reserve
  <2> QED BY <1>3
<1> QED BY <1>4 DEF RetryBudget

LEMMA DeadlineIsNat ==
    ASSUME TypeOK
    PROVE  HandlerTimeout \in Nat \ {0} /\ Deadline \in Nat \ {0}
<1>1. /\ RetryBudget(TikTokAttempts, TikTokBackoff, 1) \in Nat
      /\ RetryBudget(MetaAttempts, MetaBackoff, 2) \in Nat
  BY BudgetIsNat, FetchConfig
<1>2. HandlerTimeout \in Nat \ {0}
  BY <1>1, FetchConfig DEF HandlerTimeout, Larger
<1> QED BY <1>2, FetchConfig DEF Deadline

LEMMA ControlInit == Init => Control
<1> SUFFICES ASSUME Init PROVE Control
  OBVIOUS
<1>1. TypeOK
  <2>1. conf \in Deployment /\ pc \in {"idle", "send", "wait", "sleep", "answered"}
    BY DEF Init
  <2>2. url \in Url /\ route \in {"stats", "lookup"} /\ stage \in Stage
    BY DEF Init, Url, Stage
  <2>3. attempt \in Nat \ {0} /\ elapsed \in Nat /\ since \in Nat /\ sent \in Nat /\ ended \in Nat
    BY DEF Init
  <2>4. views \in Counter \cup {None} /\ answer \in Error \cup {"ok", None}
       /\ shown \in [kind : PageKind, figures : SUBSET Counter]
    BY DEF Init, NoPage, PageKind
  <2>5. gone \in BOOLEAN /\ stopping \in Nat \cup {None} /\ reply \in {"none", "delivered", "cut", "lost"}
    BY DEF Init
  <2>6. last \in (Stage \cup {None}) \X (Sign \cup {None})
    BY DEF Init
  <2> QED BY <2>1, <2>2, <2>3, <2>4, <2>5, <2>6 DEF TypeOK
<1>2. 0 <= Deadline
  BY <1>1, DeadlineIsNat
<1>3. Measured
  BY FetchConfig DEF Init, Measured, Sign
<1> QED BY <1>1, <1>2, <1>3, FetchConfig
        DEF Init, Control, StageFits, AttemptsFit, Served, Unanswered, InTime, SentFits, Before,
            Spaced, Unblocked, ErrorsAreFinal, Attempts, Pages, Instagram, Facebook, Error

LEMMA DeadlineStays ==
    ASSUME UNCHANGED asked
    PROVE  Deadline' = Deadline /\ Attempts' = Attempts /\ Backoff' = Backoff
BY DEF asked, Deadline, HandlerTimeout, Attempts, Backoff, RetryBudget

\* A failed attempt: another one, another page, or the answer.
LEMMA FailureKeepsControl ==
    ASSUME Control, pc \in {"send", "wait"}, NEW sign \in Sign, Fails(sign),
           UNCHANGED <<asked, elapsed, gone, stopping, reply, sent>>
    PROVE  Control'
<1> USE DEF Control
<1>1. /\ url' = url /\ route' = route /\ conf' = conf /\ views' = views /\ shown' = shown
      /\ elapsed' = elapsed /\ sent' = sent /\ ended' = elapsed /\ last' = <<stage, sign>>
      /\ gone' = gone /\ stopping' = stopping /\ reply' = reply
      /\ Deadline' = Deadline /\ Attempts' = Attempts /\ Backoff' = Backoff
  BY DeadlineStays DEF Fails, asked
<1>2. Measured' /\ InTime'
  <2>1. stage' = "channel" => stage = "channel"
    BY DEF Fails, Pause, Turn, Settle, Fallback
  <2>2. answer' = "ok" => stage = "channel"
    BY FetchConfig DEF Fails, Pause, Turn, Settle, Fallback, ErrorOf, Unanswered, Sign
  <2>3. answer' = "ok" \/ stage' = "channel" => stage = "channel"
    BY <2>1, <2>2
  <2>4. stage = "channel" /\ (answer' = "ok" \/ stage' = "channel") => stage' = "channel"
    BY FetchConfig DEF Fails, Pause, Turn, Settle, Fallback
  <2>5. Measured'
    BY <1>1, <2>3, <2>4 DEF Measured
  <2> QED BY <1>1, <2>5 DEF InTime
<1>3. CASE Retries(sign) /\ Pause
  <2>1. /\ pc' = "sleep" /\ since' = elapsed /\ stage' = stage /\ attempt' = attempt
        /\ answer' = answer /\ stage \in Pages /\ attempt < Attempts /\ Transient(sign)
    BY <1>3 DEF Pause, Retries
  <2>2. TypeOK'
    BY <1>1, <2>1 DEF TypeOK
  <2>3. StageFits' /\ AttemptsFit' /\ Served' /\ Unanswered'
    BY <1>1, <2>1 DEF StageFits, AttemptsFit, Served, Unanswered
  <2>4. SentFits' /\ Spaced'
    BY <1>1, <2>1, ConfigTypes, FetchConfig DEF SentFits, Before, Spaced, TypeOK
  <2>5. Unblocked' /\ ErrorsAreFinal'
    BY <1>1, <2>1, FetchConfig DEF Unblocked, ErrorsAreFinal, Transient, Unanswered, Error
  <2> QED BY <1>2, <2>2, <2>3, <2>4, <2>5
<1>4. CASE ~Retries(sign) /\ Fallback(sign) # None /\ Turn(Fallback(sign))
  <2>1. /\ pc' = "send" /\ stage' = Fallback(sign) /\ attempt' = 1 /\ since' = since
        /\ answer' = answer /\ Fallback(sign) # None
    BY <1>4 DEF Turn
  <2>2. \/ stage = "graph" /\ stage' = "page" /\ url = "facebook"
        \/ stage = "embed" /\ stage' = "post" /\ url = "instagram"
    BY <2>1 DEF Fallback, StageFits, TypeOK, Url, Instagram, Facebook
  <2>3. TypeOK'
    BY <1>1, <2>1, <2>2 DEF TypeOK, Stage, Pages
  <2>4. StageFits' /\ AttemptsFit' /\ Served' /\ Unanswered'
    BY <1>1, <2>1, <2>2, ConfigTypes DEF StageFits, AttemptsFit, Served, Unanswered, Pages
  <2>5. SentFits' /\ Spaced'
    BY <1>1, <2>1, <2>2, ConfigTypes, FetchConfig
       DEF SentFits, Before, Spaced, TypeOK, AttemptsFit, Attempts, Pages
  <2>6. Unblocked' /\ ErrorsAreFinal'
    BY <1>1, <2>1, <2>2, FetchConfig DEF Unblocked, ErrorsAreFinal, Unanswered, Error
  <2> QED BY <1>2, <2>3, <2>4, <2>5, <2>6
<1>5. CASE /\ ~Retries(sign) /\ Fallback(sign) = None
           /\ Settle(IF stage = "channel" THEN "ok" ELSE ErrorOf(sign))
  <2>1. /\ pc' = "answered" /\ stage' = stage /\ attempt' = attempt /\ since' = since
        /\ answer' = (IF stage = "channel" THEN "ok" ELSE ErrorOf(sign))
    BY <1>5 DEF Settle
  <2>2. TypeOK'
    <3>1. answer' \in Error \cup {"ok"}
      BY <2>1 DEF ErrorOf, Error
    <3> QED BY <1>1, <2>1, <3>1 DEF TypeOK
  <2>3. StageFits' /\ AttemptsFit' /\ Served' /\ Unanswered'
    BY <1>1, <2>1 DEF StageFits, AttemptsFit, Served, Unanswered
  <2>4. SentFits' /\ Spaced' /\ Unblocked'
    BY <1>1, <2>1, ConfigTypes, FetchConfig DEF SentFits, Before, Spaced, Unblocked, TypeOK
  <2>5. ErrorsAreFinal'
    <3>1. stage \in Pages /\ Transient(sign) => attempt = Attempts
      BY <1>5, ConfigTypes DEF Retries, AttemptsFit, TypeOK
    <3>2. stage = "graph" => ~conf.pages
      <4> SUFFICES ASSUME stage = "graph", conf.pages PROVE FALSE
        OBVIOUS
      <4>1. Fallback(sign) = "page"
        BY DEF Fallback
      <4> QED BY <4>1, <1>5, FetchConfig DEF Stage, Pages
    <3>3. Transient(sign)' <=> Transient(sign)
      BY <1>1 DEF Transient
    <3>4. last'[1] = stage /\ last'[2] = sign
      BY <1>1
    <3>5. stage = "embed" /\ sign = "odd" => url # "instagram"
      <4> SUFFICES ASSUME stage = "embed", sign = "odd", url = "instagram" PROVE FALSE
        OBVIOUS
      <4>1. Fallback(sign) = "post"
        BY DEF Fallback
      <4> QED BY <4>1, <1>5, FetchConfig DEF Stage, Pages
    <3> QED BY <1>1, <2>1, <3>1, <3>2, <3>4, <3>5 DEF ErrorsAreFinal, Transient
  <2> QED BY <1>2, <2>2, <2>3, <2>4, <2>5
<1> QED BY <1>3, <1>4, <1>5 DEF Fails

\* What a figure the reading holds has to do with the figures of the page.
LEMMA CountIsShown ==
    ASSUME NEW a \in Counter \cup {None}, NEW b \in Counter \cup {None}, NEW video \in BOOLEAN,
           stage \in Stage, ~video => stage \in {"embed", "post"}
    PROVE  LET seen == (IF stage \in {"videos", "graph"} THEN {a} ELSE {a, b}) \ {None}
           IN  /\ seen \in SUBSET Counter
               /\ ViewCount(a, b, video) \in Counter \cup {None}
               /\ Measures(ViewCount(a, b, video),
                           [kind |-> IF video THEN "video" ELSE "photo", figures |-> seen], stage)
<1>1. None \notin Counter /\ None # 0 /\ Counter \subseteq Nat
  <2>1. None \notin Nat /\ 0 \in Nat /\ Counter \subseteq Nat
    BY FetchConfig
  <2> QED BY <2>1
<1>2. CASE stage = "videos"
  BY <1>1, <1>2 DEF ViewCount, Measures, Withholding
<1>3. CASE stage = "graph"
  <2>1. a = None \/ a = 0 => ViewCount(a, b, video) = None
    BY <1>1, <1>3 DEF ViewCount, NonZero
  <2>2. a # None /\ a # 0 => ViewCount(a, b, video) = a /\ a \in Nat /\ a <= a
    BY <1>1, <1>3 DEF ViewCount, NonZero
  <2> QED BY <1>1, <1>3, <2>1, <2>2 DEF Measures, Withholding
<1>4. CASE stage = "page"
  BY <1>1, <1>4 DEF ViewCount, Measures, Withholding
<1>5. CASE ~video
  BY <1>1, <1>5 DEF ViewCount, Measures
<1>6. CASE video /\ stage \in {"embed", "post", "channel"}
  <2> DEFINE number(c) == IF c = None THEN 0 ELSE c
  <2>1. ViewCount(a, b, video) = NonZero(Larger(number(a), number(b)))
    BY <1>6 DEF ViewCount
  <2>2. number(a) \in Nat /\ number(b) \in Nat /\ (number(a) = 0 <=> a = None \/ a = 0)
        /\ (number(b) = 0 <=> b = None \/ b = 0) /\ (a # None => number(a) = a)
        /\ (b # None => number(b) = b)
    BY <1>1
  <2>3. CASE Larger(number(a), number(b)) = 0
    <3>1. number(a) = 0 /\ number(b) = 0
      <4> HIDE DEF number
      <4> QED BY <2>3, <2>2 DEF Larger
    <3>2. ViewCount(a, b, video) = None
      BY <2>1, <2>3 DEF NonZero
    <3> QED BY <1>1, <1>6, <2>2, <3>1, <3>2 DEF Measures
  <2>4. CASE Larger(number(a), number(b)) # 0
    <3>1. ViewCount(a, b, video) = Larger(number(a), number(b))
      BY <2>1, <2>4 DEF NonZero
    <3>2. /\ Larger(number(a), number(b)) \in {number(a), number(b)}
          /\ number(a) <= Larger(number(a), number(b)) /\ number(b) <= Larger(number(a), number(b))
      <4> HIDE DEF number
      <4> QED BY <2>2 DEF Larger
    <3>3. /\ ViewCount(a, b, video) \in {a, b} \ {None} /\ ViewCount(a, b, video) # 0
          /\ \A n \in {a, b} \ {None} : n <= ViewCount(a, b, video)
      <4> HIDE DEF number
      <4> QED BY <2>2, <2>4, <3>1, <3>2
    <3> QED BY <1>1, <1>6, <3>3 DEF Measures
  <2> QED BY <2>3, <2>4
<1> QED BY <1>2, <1>3, <1>4, <1>5, <1>6 DEF Stage, Pages

LEMMA ControlNext == Control /\ [Next]_vars => Control'
<1> SUFFICES ASSUME Control, [Next]_vars PROVE Control'
  OBVIOUS
<1> USE DEF Control
<1>1. ASSUME NEW u \in Url, NEW r \in {"stats", "lookup"}, Ask(u, r)
      PROVE  Control'
  <2>1. /\ url' = u /\ route' = r /\ conf' = conf /\ stopping' = stopping
        /\ pc' = (IF Refusal(u) = None THEN "send" ELSE "answered")
        /\ answer' = Refusal(u) /\ stage' = FirstStage(u) /\ attempt' = 1
        /\ elapsed' = 0 /\ since' = 0 /\ views' = None /\ gone' = FALSE /\ reply' = "none"
        /\ sent' = 0 /\ ended' = 0 /\ last' = <<None, None>> /\ shown' = NoPage
    BY <1>1 DEF Ask
  <2>2. Refusal(u) \in {"ErrMisconfigured", "ErrInvalidURL", None}
    BY DEF Refusal
  <2>3. FirstStage(u) \in {"videos", "embed", "graph", "page"}
    BY DEF FirstStage
  <2>4. TypeOK'
    <3>1. answer' \in Error \cup {"ok", None} /\ stage' \in Stage
      BY <2>1, <2>2, <2>3 DEF Stage, Pages, Error
    <3>2. last' \in (Stage \cup {None}) \X (Sign \cup {None})
      BY <2>1
    <3>3. attempt' \in Nat \ {0} /\ views' \in Counter \cup {None}
          /\ shown' \in [kind : PageKind, figures : SUBSET Counter]
      BY <2>1 DEF NoPage, PageKind
    <3> QED BY <2>1, <3>1, <3>2, <3>3 DEF TypeOK
  <2>5. StageFits'
    BY <2>1 DEF StageFits, FirstStage, Instagram, Facebook
  <2>6. AttemptsFit' /\ InTime'
    <3>1. Attempts' \in Nat \ {0}
      BY FetchConfig DEF Attempts
    <3>2. Deadline' \in Nat \ {0}
      <4>1. HandlerTimeout' = HandlerTimeout
        BY <2>1 DEF HandlerTimeout, RetryBudget
      <4> QED BY <4>1, DeadlineIsNat, FetchConfig DEF Deadline
    <3> QED BY <2>1, <3>1, <3>2 DEF AttemptsFit, InTime
  <2>7. Served'
    <3> SUFFICES ASSUME Refusal(u) = None
                 PROVE  (u = "tiktok" => conf.tiktok) /\ (u \in Instagram \cup Facebook => conf.meta)
      BY <2>1 DEF Served
    <3>1. u = "tiktok" /\ ~conf.tiktok => Refusal(u) = "ErrMisconfigured"
      BY DEF Refusal, Instagram, Facebook
    <3>2. u \in Instagram \cup Facebook /\ ~conf.meta => Refusal(u) = "ErrMisconfigured"
      BY DEF Refusal, Instagram, Facebook
    <3> QED BY <3>1, <3>2, FetchConfig DEF Error
  <2>8. Unanswered' /\ Spaced' /\ Unblocked'
    BY <2>1, FetchConfig DEF Unanswered, Spaced, Unblocked, Sign
  <2>9. SentFits'
    BY <2>1, FetchConfig DEF SentFits, Before
  <2>10. Measured' /\ ErrorsAreFinal'
    BY <2>1, <2>2, <2>3, FetchConfig DEF Measured, ErrorsAreFinal, Sign, Error
  <2> QED BY <2>4, <2>5, <2>6, <2>7, <2>8, <2>9, <2>10
<1>2. CASE Send
  <2>1. CASE Over
    BY <1>2, <2>1, FailureKeepsControl DEF Send, Sign
  <2>2. CASE ~Over
    <3>1. /\ pc = "send" /\ pc' = "wait" /\ since' = elapsed
          /\ sent' \in {sent, sent + 1} /\ UNCHANGED <<stage, attempt, answer, views, ended, last, shown>>
          /\ UNCHANGED <<asked, elapsed, gone, stopping, reply>>
      BY <1>2, <2>2 DEF Send
    <3>2. Deadline' = Deadline /\ Attempts' = Attempts /\ Backoff' = Backoff
      BY <3>1, DeadlineStays
    <3>3. TypeOK'
      BY <3>1 DEF TypeOK, asked
    <3>4. SentFits'
      BY <3>1, FetchConfig DEF SentFits, Before, TypeOK, asked
    <3> QED BY <3>1, <3>2, <3>3, <3>4
            DEF StageFits, AttemptsFit, Served, Unanswered, InTime, Spaced, Unblocked,
                Measured, ErrorsAreFinal, Transient, asked
  <2> QED BY <2>1, <2>2
<1>3. ASSUME NEW sign \in Signs \cup {"down"}, Refuse(sign)
      PROVE  Control'
  <2>1. sign \in Sign
    BY DEF Signs, Sign
  <2> QED BY <1>3, <2>1, FailureKeepsControl DEF Refuse
<1>4. CASE TimeOut
  BY <1>4, FailureKeepsControl DEF TimeOut, Sign
<1>5. ASSUME NEW a \in Counter \cup {None}, NEW b \in Counter \cup {None},
             NEW video \in BOOLEAN, Serve(a, b, video)
      PROVE  Control'
  <2>1. /\ pc = "wait" /\ stage # "channel"
        /\ ~video => stage \in {"embed", "post"}
        /\ views' = ViewCount(a, b, video)
        /\ shown' = [kind |-> IF video THEN "video" ELSE "photo",
                     figures |-> (IF stage \in {"videos", "graph"} THEN {a} ELSE {a, b}) \ {None}]
        /\ last' = <<stage, "ok">> /\ ended' = elapsed
        /\ UNCHANGED <<asked, elapsed, gone, stopping, reply, sent>>
    BY <1>5 DEF Serve
  <2>2. Deadline' = Deadline /\ Attempts' = Attempts /\ Backoff' = Backoff
    BY <2>1, DeadlineStays
  <2>3. /\ shown' \in [kind : PageKind, figures : SUBSET Counter] /\ views' \in Counter \cup {None}
        /\ Measures(views', shown', stage)
    BY <2>1, CountIsShown DEF TypeOK, PageKind
  <2>4. CASE Settle("ok")
    <3>1. pc' = "answered" /\ answer' = "ok" /\ UNCHANGED <<stage, attempt, since>>
      BY <2>4 DEF Settle
    <3>2. TypeOK'
      BY <2>1, <2>3, <3>1 DEF TypeOK, asked, Sign
    <3>3. SentFits' /\ InTime' /\ AttemptsFit'
      BY <2>1, <2>2, <3>1, FetchConfig DEF SentFits, Before, TypeOK, asked, InTime, AttemptsFit
    <3>4. ErrorsAreFinal'
      BY <3>1 DEF ErrorsAreFinal, Error
    <3>5. Measured'
      BY <2>3, <3>1 DEF Measured
    <3> QED BY <2>1, <3>1, <3>2, <3>3, <3>4, <3>5
            DEF StageFits, Served, Unanswered, Spaced, Unblocked, asked
  <2>5. CASE stage = "videos" /\ Turn("channel")
    <3>1. pc' = "send" /\ stage' = "channel" /\ attempt' = 1 /\ UNCHANGED <<since, answer>>
      BY <2>5 DEF Turn
    <3>2. url = "youtube" /\ url' = url
      BY <2>1, <2>5 DEF StageFits, TypeOK, Url, Instagram, Facebook, asked
    <3>3. TypeOK'
      BY <2>1, <2>3, <3>1 DEF TypeOK, asked, Sign, Stage
    <3>4. SentFits'
      <4>1. sent <= 1 /\ sent \in Nat
        BY <2>1, <2>5 DEF SentFits, Before, AttemptsFit, Pages, TypeOK
      <4> QED BY <2>1, <3>1, <4>1 DEF SentFits, Before
    <3>5. InTime' /\ AttemptsFit'
      BY <2>1, <2>2, <3>1, ConfigTypes DEF InTime, AttemptsFit, asked
    <3>6. ErrorsAreFinal' /\ Unanswered' /\ Unblocked' /\ Spaced'
      BY <2>1, <3>1, <3>2, FetchConfig DEF ErrorsAreFinal, Unanswered, Unblocked, Spaced, Error, Sign
    <3>7. Measured'
      BY <2>3, <2>5, <3>1 DEF Measured, Measures, Withholding
    <3> QED BY <2>1, <3>1, <3>2, <3>3, <3>4, <3>5, <3>6, <3>7
            DEF StageFits, Served, asked, Instagram, Facebook
  <2> QED BY <1>5, <2>4, <2>5 DEF Serve
<1>6. ASSUME NEW a \in Counter \cup {None}, ServeText(a)
      PROVE  Control'
  <2>1. /\ pc = "wait" /\ stage = "post" /\ views' = a
        /\ shown' = [kind |-> "text", figures |-> {a} \ {None}]
        /\ last' = <<stage, "ok">> /\ ended' = elapsed
        /\ pc' = "answered" /\ answer' = "ok" /\ UNCHANGED <<stage, attempt, since>>
        /\ UNCHANGED <<asked, elapsed, gone, stopping, reply, sent>>
    BY <1>6 DEF ServeText, Settle
  <2>2. Deadline' = Deadline /\ Attempts' = Attempts /\ Backoff' = Backoff
    BY <2>1, DeadlineStays
  <2>3. TypeOK'
    BY <2>1 DEF TypeOK, asked, Sign, PageKind
  <2>4. SentFits' /\ InTime' /\ AttemptsFit'
    BY <2>1, <2>2, FetchConfig DEF SentFits, Before, TypeOK, asked, InTime, AttemptsFit
  <2>5. ErrorsAreFinal' /\ Measured'
    BY <2>1 DEF ErrorsAreFinal, Measured, Measures, Withholding, Error
  <2> QED BY <2>1, <2>3, <2>4, <2>5
          DEF StageFits, Served, Unanswered, Spaced, Unblocked, asked
<1>7. CASE ServeChannel
  <2>1. /\ pc = "wait" /\ stage = "channel" /\ last' = <<stage, "ok">> /\ ended' = elapsed
        /\ pc' = "answered" /\ answer' = "ok" /\ UNCHANGED <<stage, attempt, since>>
        /\ UNCHANGED <<asked, elapsed, views, gone, stopping, reply, sent, shown>>
    BY <1>7 DEF ServeChannel, Settle
  <2>2. Deadline' = Deadline /\ Attempts' = Attempts /\ Backoff' = Backoff
    BY <2>1, DeadlineStays
  <2>3. TypeOK'
    BY <2>1 DEF TypeOK, asked, Sign
  <2>4. SentFits' /\ InTime' /\ AttemptsFit'
    BY <2>1, <2>2, FetchConfig DEF SentFits, Before, TypeOK, asked, InTime, AttemptsFit
  <2>5. ErrorsAreFinal' /\ Measured'
    BY <2>1 DEF ErrorsAreFinal, Measured, Error
  <2> QED BY <2>1, <2>3, <2>4, <2>5
          DEF StageFits, Served, Unanswered, Spaced, Unblocked, asked
<1>8. CASE Wake
  <2>1. /\ pc = "sleep" /\ elapsed >= since + Delay /\ pc' = "send" /\ attempt' = attempt + 1
        /\ UNCHANGED <<asked, stage, elapsed, since, views, answer, gone, stopping, reply>>
        /\ UNCHANGED <<sent, ended, last, shown>>
    BY <1>8 DEF Wake, history
  <2>2. Deadline' = Deadline /\ Attempts' = Attempts /\ Backoff' = Backoff
    BY <2>1, DeadlineStays
  <2>3. TypeOK'
    BY <2>1 DEF TypeOK, asked
  <2>4. AttemptsFit' /\ InTime'
    BY <2>1, <2>2, ConfigTypes DEF AttemptsFit, InTime, TypeOK, asked
  <2>5. SentFits'
    BY <2>1, FetchConfig DEF SentFits, Before, TypeOK, asked
  <2>6. Spaced'
    <3>1. elapsed >= ended + attempt * Backoff
      BY <2>1 DEF Delay, Spaced
    <3>2. attempt' - 1 = attempt
      BY <2>1 DEF TypeOK
    <3> QED BY <2>1, <2>2, <3>1, <3>2 DEF Spaced
  <2>7. ErrorsAreFinal' /\ Unanswered' /\ Unblocked'
    BY <2>1, FetchConfig DEF ErrorsAreFinal, Unanswered, Unblocked, Error, asked
  <2> QED BY <2>1, <2>3, <2>4, <2>5, <2>6, <2>7 DEF StageFits, Served, Measured, asked
<1>9. CASE GiveUp
  <2>1. /\ pc = "sleep" /\ pc' = "answered" /\ answer' \in {"Canceled", "DeadlineExceeded"}
        /\ UNCHANGED <<stage, attempt, since>>
        /\ UNCHANGED <<asked, elapsed, views, gone, stopping, reply>>
        /\ UNCHANGED <<sent, ended, last, shown>>
    BY <1>9 DEF GiveUp, Settle, history
  <2>2. Deadline' = Deadline /\ Attempts' = Attempts /\ Backoff' = Backoff
    BY <2>1, DeadlineStays
  <2>3. TypeOK'
    BY <2>1 DEF TypeOK, asked, Error
  <2>4. AttemptsFit' /\ InTime' /\ SentFits'
    BY <2>1, <2>2, FetchConfig DEF AttemptsFit, InTime, SentFits, Before, TypeOK, asked
  <2>5. ErrorsAreFinal' /\ Measured'
    BY <2>1, FetchConfig DEF ErrorsAreFinal, Measured, Error
  <2> QED BY <2>1, <2>3, <2>4, <2>5
          DEF StageFits, Served, Unanswered, Spaced, Unblocked, asked
<1>10. CASE Reply \/ Exit
  <2>1. /\ pc' = "idle"
        /\ reply' \in {"none", "delivered", "cut", "lost"} /\ stopping' \in {stopping, None}
        /\ UNCHANGED <<asked, stage, attempt, elapsed, since, views, answer, gone>>
        /\ UNCHANGED <<sent, ended, last, shown>>
    BY <1>10 DEF Reply, Exit, history, TypeOK
  <2>2. Deadline' = Deadline /\ Attempts' = Attempts /\ Backoff' = Backoff
    BY <2>1, DeadlineStays
  <2>3. TypeOK'
    BY <2>1 DEF TypeOK, asked
  <2>4. AttemptsFit' /\ InTime' /\ SentFits'
    BY <2>1, <2>2, FetchConfig DEF AttemptsFit, InTime, SentFits, Before, TypeOK, asked
  <2> QED BY <2>1, <2>2, <2>3, <2>4
          DEF StageFits, Served, Unanswered, Spaced, Unblocked, Measured, ErrorsAreFinal, Transient, asked
<1>11. CASE Leave \/ Shutdown
  <2>1. /\ gone' \in BOOLEAN /\ stopping' \in Nat \cup {None}
        /\ UNCHANGED <<asked, pc, stage, attempt, elapsed, since, views, answer, reply>>
        /\ UNCHANGED <<sent, ended, last, shown>>
    BY <1>11 DEF Leave, Shutdown, history, TypeOK
  <2>2. Deadline' = Deadline /\ Attempts' = Attempts /\ Backoff' = Backoff
    BY <2>1, DeadlineStays
  <2>3. TypeOK'
    BY <2>1 DEF TypeOK, asked
  <2> QED BY <2>1, <2>2, <2>3
          DEF StageFits, AttemptsFit, Served, Unanswered, InTime, SentFits, Before, Spaced, Unblocked,
              Measured, ErrorsAreFinal, Transient, asked
<1>12. CASE Tick
  <2>1. /\ pc \in {"wait", "sleep"} /\ ~Over /\ elapsed' = elapsed + 1
        /\ UNCHANGED <<asked, pc, stage, attempt, since, views, answer, gone, stopping, reply>>
        /\ UNCHANGED <<sent, ended, last, shown>>
    BY <1>12 DEF Tick, CallIsOver, history
  <2>2. Deadline' = Deadline /\ Attempts' = Attempts /\ Backoff' = Backoff
    BY <2>1, DeadlineStays
  <2>3. TypeOK'
    BY <2>1 DEF TypeOK, asked
  <2>4. InTime'
    BY <2>1, <2>2, DeadlineIsNat DEF InTime, Over, TypeOK
  <2> QED BY <2>1, <2>2, <2>3, <2>4
          DEF StageFits, AttemptsFit, Served, Unanswered, SentFits, Before, Spaced, Unblocked,
              Measured, ErrorsAreFinal, Transient, asked
<1>13. CASE UNCHANGED vars
  <2>1. Deadline' = Deadline /\ Attempts' = Attempts /\ Backoff' = Backoff
    BY <1>13, DeadlineStays DEF vars, asked
  <2> QED BY <1>13, <2>1
          DEF vars, TypeOK, StageFits, AttemptsFit, Served, Unanswered, InTime, SentFits, Before,
              Spaced, Unblocked, Measured, ErrorsAreFinal, Transient
<1> QED BY <1>1, <1>2, <1>3, <1>4, <1>5, <1>6, <1>7, <1>8, <1>9, <1>10, <1>11, <1>12, <1>13
        DEF Next, Work

LEMMA ControlAlways == Spec => []Control
BY ControlInit, ControlNext, PTL DEF Spec

---------------------------------------------------------------------------
(* What follows from it. *)

\* Every variable of a request keeps its type.
THEOREM FetchTypes == Spec => []TypeOK
<1>1. Control => TypeOK
  BY DEF Control
<1> QED BY <1>1, ControlAlways, PTL

\* However the platforms answer, a request makes no more calls than the loops and
\* fallbacks of its kind of link allow.
THEOREM CallsAreBounded == Spec => []RequestsAreBounded
<1>1. Control => RequestsAreBounded
  <2> SUFFICES ASSUME Control PROVE sent <= MaxCalls
    BY DEF RequestsAreBounded
  <2>1. /\ sent \in Nat /\ attempt \in Nat /\ attempt <= Attempts /\ url \in Url
        /\ sent <= Before + attempt
        /\ stage \notin Pages => attempt = 1
    BY FetchConfig DEF Control, TypeOK, AttemptsFit, SentFits, Before
  <2>2. StageFits
    BY DEF Control
  <2>3. CASE url = "youtube"
    BY <2>1, <2>2, <2>3 DEF StageFits, Before, MaxCalls, Pages
  <2>4. CASE url = "tiktok"
    BY <2>1, <2>2, <2>4, FetchConfig DEF StageFits, Before, MaxCalls, Attempts
  <2>5. CASE url = "instagram"
    BY <2>1, <2>2, <2>5, FetchConfig DEF StageFits, Before, MaxCalls, Attempts
  <2>6. CASE url = "facebook"
    BY <2>1, <2>2, <2>6, FetchConfig DEF StageFits, Before, MaxCalls, Attempts, Pages
  <2>7. CASE url \in {"instagramShare", "facebookShare"}
    BY <2>1, <2>2, <2>7, FetchConfig DEF StageFits, Before, MaxCalls, Attempts
  <2> QED BY <2>1, <2>3, <2>4, <2>5, <2>6, <2>7 DEF Url, Instagram, Facebook
<1> QED BY <1>1, ControlAlways, PTL

\* A retry waits for its backoff, counted from the end of the attempt before it,
\* and TikTok's stub is followed by none.
THEOREM RetriesAreGentle == Spec => PlatformsAreSpared
<1>1. Control /\ [Next]_vars =>
        [sent' > sent =>
            /\ attempt > 1 => elapsed >= ended + (attempt - 1) * Backoff
            /\ ~(url = "tiktok" /\ last[2] = "stub")]_vars
  <2> SUFFICES ASSUME Control, Next, sent' > sent
               PROVE  /\ attempt > 1 => elapsed >= ended + (attempt - 1) * Backoff
                      /\ ~(url = "tiktok" /\ last[2] = "stub")
    OBVIOUS
  <2>1. sent \in Nat
    BY DEF Control, TypeOK
  <2>2. ~(sent' = sent)
    BY <2>1
  <2>3. ~(\E u \in Url, r \in {"stats", "lookup"} : Ask(u, r))
    BY <2>1 DEF Ask
  <2>4. Send
    BY <2>2, <2>3 DEF Next, Work, Refuse, Serve, ServeText, ServeChannel, Leave, Shutdown, TimeOut,
                      Wake, GiveUp, Reply, Exit, Tick, history
  <2>5. pc = "send"
    BY <2>4 DEF Send
  <2> QED BY <2>5 DEF Control, Spaced, Unblocked
<1> QED BY <1>1, ControlAlways, PTL DEF Spec, PlatformsAreSpared

\* An error is reported only when the attempts are used up, or another would not
\* help, and when there is no page left to ask.
THEOREM FailuresAreFinal == Spec => []ErrorsAreFinal
<1>1. Control => ErrorsAreFinal
  BY DEF Control
<1> QED BY <1>1, ControlAlways, PTL

\* On every platform the reading's view count is one the page showed of a video, and
\* absent only when there is none but zero; no figure stands for one that was withheld.
THEOREM ReadingsAreMeasured == Spec => []ViewsAreMeasured
<1>1. Control => ViewsAreMeasured
  BY DEF Control, Measured, ViewsAreMeasured
<1> QED BY <1>1, ControlAlways, PTL

---------------------------------------------------------------------------
(* The handler's budget. *)

\* The latest moment attempt a at a page begins, counted from the first.
Spent(a) == (a - 1) * UpstreamTimeout + Triangle(a - 1) * Backoff

\* The time all attempts at one page may take.
PageTime == Spent(Attempts) + UpstreamTimeout

\* The latest moment this stage begins.
Start == CASE stage = "channel" -> UpstreamTimeout
           [] stage = "post" -> PageTime
           [] stage = "page" /\ url = "facebook" -> UpstreamTimeout
           [] OTHER -> 0

\* The latest moment a request is answered.
Worst == CASE url = "youtube" -> UpstreamTimeout + UpstreamTimeout
           [] url = "instagram" -> PageTime + PageTime
           [] url = "facebook" -> UpstreamTimeout + PageTime
           [] OTHER -> PageTime

TimeFits ==
    /\ pc = "send" => elapsed <= Start + Spent(attempt)
    /\ pc = "wait" => since <= Start + Spent(attempt) /\ elapsed <= since + UpstreamTimeout
    /\ pc = "sleep" => /\ since <= Start + Spent(attempt) + UpstreamTimeout
                       /\ elapsed <= since + attempt * Backoff
    /\ elapsed <= Worst

LEMMA SpentAt ==
    ASSUME NEW a \in Nat \ {0}, NEW b \in Nat
    PROVE  (a - 1) * UpstreamTimeout + Triangle(a - 1) * b \in Nat
<1>1. a - 1 \in Nat /\ Triangle(a - 1) \in Nat
  BY TriangleNat
<1>2. (a - 1) * UpstreamTimeout \in Nat /\ Triangle(a - 1) * b \in Nat
  BY <1>1, FetchConfig, ProductGrows
<1> QED BY <1>2

LEMMA SpentNat ==
    ASSUME TypeOK, NEW a \in Nat \ {0}
    PROVE  Spent(a) \in Nat /\ Spent(1) = 0 /\ PageTime \in Nat
<1>1. Backoff \in Nat /\ Attempts \in Nat \ {0} /\ UpstreamTimeout \in Nat
  BY ConfigTypes, FetchConfig
<1>2. ASSUME NEW k \in Nat \ {0}
      PROVE  Spent(k) \in Nat
  BY <1>1, SpentAt DEF Spent
<1>3. Spent(1) = 0
  <2>1. Triangle(0) = 0
    BY DEF Triangle
  <2>2. (1 - 1) * UpstreamTimeout = 0 /\ Triangle(1 - 1) * Backoff = 0
    BY <1>1, <2>1
  <2> QED BY <2>2 DEF Spent
<1> QED BY <1>1, <1>2, <1>3 DEF PageTime

\* The next attempt begins a call and a sleep later.
LEMMA SpentStep ==
    ASSUME TypeOK, NEW a \in Nat \ {0}
    PROVE  Spent(a + 1) = Spent(a) + UpstreamTimeout + a * Backoff
<1>1. Backoff \in Nat /\ UpstreamTimeout \in Nat
  BY ConfigTypes, FetchConfig
<1>2. Triangle(a) = Triangle(a - 1) + a /\ Triangle(a - 1) \in Nat
  <2>1. a - 1 \in Nat /\ (a - 1) + 1 = a
    OBVIOUS
  <2> QED BY <2>1, TriangleStep, TriangleNat
<1>3. a * UpstreamTimeout = (a - 1) * UpstreamTimeout + UpstreamTimeout
  BY <1>1
<1> DEFINE t == Triangle(a - 1)
<1>4. (t + a) * Backoff = t * Backoff + a * Backoff
  <2> HIDE DEF t
  <2>1. t \in Nat
    BY <1>2 DEF t
  <2> QED BY <1>1, <2>1
<1>5. (a - 1) * UpstreamTimeout \in Nat /\ t * Backoff \in Nat /\ a * Backoff \in Nat
  <2>1. a - 1 \in Nat /\ a \in Nat
    OBVIOUS
  <2> QED BY <1>1, <1>2, <2>1, ProductGrows
<1>6. (a + 1) - 1 = a
  OBVIOUS
<1> QED BY <1>1, <1>2, <1>3, <1>4, <1>5, <1>6 DEF Spent

LEMMA SpentGrows ==
    ASSUME TypeOK, NEW a \in Nat \ {0}, NEW b \in Nat \ {0}, a <= b
    PROVE  Spent(a) <= Spent(b)
<1>1. Backoff \in Nat /\ UpstreamTimeout \in Nat
  BY ConfigTypes, FetchConfig
<1>2. a - 1 \in Nat /\ b - 1 \in Nat /\ a - 1 <= b - 1
  OBVIOUS
<1>3. /\ Triangle(a - 1) \in Nat /\ Triangle(b - 1) \in Nat
      /\ Triangle(a - 1) <= Triangle(b - 1)
  BY <1>2, TriangleNat, TriangleGrows
<1>4. /\ (a - 1) * UpstreamTimeout <= (b - 1) * UpstreamTimeout
      /\ (a - 1) * UpstreamTimeout \in Nat /\ (b - 1) * UpstreamTimeout \in Nat
  BY <1>1, <1>2, ProductGrows
<1>5. /\ Triangle(a - 1) * Backoff <= Triangle(b - 1) * Backoff
      /\ Triangle(a - 1) * Backoff \in Nat /\ Triangle(b - 1) * Backoff \in Nat
  BY <1>1, <1>3, ProductGrows
<1> QED BY <1>4, <1>5 DEF Spent

\* An attempt that began in time is over in time, and so is the stage.
LEMMA StageIsInTime ==
    ASSUME Control
    PROVE  /\ Start \in Nat /\ Worst \in Nat /\ Spent(attempt) \in Nat
           /\ Start + Spent(attempt) + UpstreamTimeout <= Worst
           /\ pc = "sleep" => Start + Spent(attempt + 1) <= Worst
           /\ Spent(attempt) + UpstreamTimeout <= PageTime
<1>1. TypeOK /\ StageFits /\ AttemptsFit
  BY DEF Control
<1>2. attempt \in Nat \ {0} /\ Attempts \in Nat \ {0} /\ UpstreamTimeout \in Nat \ {0} /\ url \in Url
  BY <1>1, ConfigTypes, FetchConfig DEF TypeOK
<1>3. Spent(attempt) \in Nat /\ Spent(1) = 0 /\ PageTime \in Nat /\ Spent(Attempts) \in Nat
  BY <1>1, <1>2, SpentNat
<1>4. Spent(attempt) <= Spent(Attempts)
  BY <1>1, <1>2, SpentGrows DEF AttemptsFit
<1>5. pc = "sleep" => Spent(attempt + 1) \in Nat /\ Spent(attempt + 1) <= Spent(Attempts)
  <2> SUFFICES ASSUME pc = "sleep"
               PROVE  Spent(attempt + 1) \in Nat /\ Spent(attempt + 1) <= Spent(Attempts)
    OBVIOUS
  <2>1. attempt + 1 \in Nat \ {0} /\ attempt + 1 <= Attempts
    BY <1>1, <1>2 DEF AttemptsFit
  <2> QED BY <1>1, <1>2, <2>1, SpentNat, SpentGrows
<1>6. Start \in Nat /\ Worst \in Nat
  BY <1>2, <1>3 DEF Start, Worst
<1>7. stage \notin Pages => attempt = 1 /\ pc # "sleep" /\ Spent(attempt) = 0
  BY <1>1, <1>3 DEF AttemptsFit
<1> HIDE DEF Spent, PageTime
<1>8. CASE stage \in Pages
  <2>1. Start + PageTime <= Worst
    BY <1>1, <1>2, <1>3, <1>8
       DEF Start, Worst, StageFits, Pages, Url, Instagram, Facebook
  <2> QED BY <1>2, <1>3, <1>4, <1>5, <1>6, <2>1 DEF PageTime
<1>9. CASE stage \notin Pages
  <2>1. UpstreamTimeout <= PageTime
    BY <1>2, <1>3 DEF PageTime
  <2>2. Start + UpstreamTimeout <= Worst
    BY <1>1, <1>2, <1>3, <1>9, <2>1
       DEF Start, Worst, StageFits, Pages, Url, Instagram, Facebook
  <2> QED BY <1>2, <1>3, <1>6, <1>7, <1>9, <2>1, <2>2
<1> QED BY <1>8, <1>9

LEMMA TimeInit == Init => TimeFits
<1> SUFFICES ASSUME Init PROVE TimeFits
  OBVIOUS
<1>1. Control
  BY ControlInit
<1>2. Worst \in Nat
  BY <1>1, StageIsInTime
<1> QED BY <1>2 DEF Init, TimeFits

\* A failed attempt leaves a request where it may be at that time.
LEMMA FailureTakesItsTime ==
    ASSUME Control, TimeFits, pc \in {"send", "wait"}, NEW sign \in Sign, Fails(sign),
           UNCHANGED <<asked, elapsed, gone, stopping, reply, sent>>
    PROVE  TimeFits'
<1>1. /\ url' = url /\ elapsed' = elapsed /\ UpstreamTimeout \in Nat \ {0} /\ elapsed \in Nat
      /\ attempt \in Nat \ {0} /\ since \in Nat
  BY FetchConfig DEF asked, Control, TypeOK
<1>2. Attempts' = Attempts /\ Backoff' = Backoff /\ Worst' = Worst /\ PageTime' = PageTime
  BY DeadlineStays, <1>1 DEF Worst, PageTime, Spent
<1>3. /\ Start \in Nat /\ Worst \in Nat /\ Spent(attempt) \in Nat
      /\ Spent(attempt) + UpstreamTimeout <= PageTime
  BY StageIsInTime
<1>4. elapsed <= Start + Spent(attempt) + UpstreamTimeout /\ elapsed <= Worst
  BY <1>1, <1>3 DEF TimeFits
<1>5. CASE Retries(sign) /\ Pause
  <2>1. pc' = "sleep" /\ since' = elapsed /\ stage' = stage /\ attempt' = attempt
    BY <1>5 DEF Pause
  <2>2. Start' = Start /\ Spent(attempt)' = Spent(attempt) /\ attempt * Backoff \in Nat
    <3>1. attempt \in Nat /\ Backoff \in Nat
      BY <1>1, ConfigTypes DEF Control
    <3>2. attempt * Backoff \in Nat
      BY <3>1
    <3> QED BY <1>1, <1>2, <2>1, <3>2 DEF Start, Spent
  <2> HIDE DEF Start, Spent, Worst
  <2>3. elapsed <= elapsed + attempt * Backoff
    BY <1>1, <2>2
  <2> QED BY <1>1, <1>2, <1>4, <2>1, <2>2, <2>3 DEF TimeFits
<1>6. CASE ~Retries(sign) /\ Fallback(sign) # None /\ Turn(Fallback(sign))
  <2>1. pc' = "send" /\ stage' = Fallback(sign) /\ attempt' = 1 /\ Fallback(sign) # None
    BY <1>6 DEF Turn
  <2>2. \/ stage = "graph" /\ stage' = "page" /\ url = "facebook" /\ attempt = 1
        \/ stage = "embed" /\ stage' = "post" /\ url = "instagram"
    BY <2>1 DEF Control, Fallback, StageFits, AttemptsFit, Pages, TypeOK, Url, Instagram, Facebook
  <2>3. Spent(1) = 0 /\ Spent(1)' = 0
    <3>1. Spent(1) = 0
      BY <1>1, SpentNat DEF Control
    <3> QED BY <1>2, <3>1 DEF Spent
  <2>4. Start = 0 /\ Start' = (IF stage = "graph" THEN UpstreamTimeout ELSE PageTime)
    BY <1>1, <1>2, <2>2 DEF Start
  <2>5. elapsed <= Start'
    <3> HIDE DEF Spent, PageTime, Start
    <3> QED BY <1>1, <1>3, <1>4, <2>2, <2>3, <2>4
  <2>6. Spent(attempt)' = 0
    BY <2>1, <2>3 DEF Spent
  <2>7. PageTime \in Nat
    BY <1>1, SpentNat DEF Control
  <2> HIDE DEF Start, Spent, Worst, PageTime
  <2> QED BY <1>1, <1>2, <1>4, <2>1, <2>4, <2>5, <2>6, <2>7 DEF TimeFits
<1>7. CASE /\ ~Retries(sign) /\ Fallback(sign) = None
           /\ Settle(IF stage = "channel" THEN "ok" ELSE ErrorOf(sign))
  BY <1>1, <1>2, <1>4, <1>7 DEF Settle, TimeFits
<1> QED BY <1>5, <1>6, <1>7 DEF Fails

LEMMA TimeNext == Control /\ TimeFits /\ [Next]_vars => TimeFits'
<1> SUFFICES ASSUME Control, TimeFits, [Next]_vars PROVE TimeFits'
  OBVIOUS
<1>1. /\ UpstreamTimeout \in Nat \ {0} /\ elapsed \in Nat /\ attempt \in Nat \ {0} /\ since \in Nat
      /\ Backoff \in Nat /\ attempt * Backoff \in Nat
  <2>1. attempt \in Nat /\ Backoff \in Nat
    BY ConfigTypes DEF Control, TypeOK
  <2>2. attempt * Backoff \in Nat
    BY <2>1
  <2> QED BY <2>1, <2>2, FetchConfig DEF Control, TypeOK
<1>2. /\ Start \in Nat /\ Worst \in Nat /\ Spent(attempt) \in Nat
      /\ Start + Spent(attempt) + UpstreamTimeout <= Worst
      /\ pc = "sleep" => Start + Spent(attempt + 1) <= Worst
  BY StageIsInTime
<1>3. ASSUME UNCHANGED asked
      PROVE  Attempts' = Attempts /\ Backoff' = Backoff /\ Worst' = Worst /\ PageTime' = PageTime
  BY <1>3, DeadlineStays DEF asked, Worst, PageTime, Spent
<1>4. ASSUME UNCHANGED <<asked, stage>>
      PROVE  Start' = Start
  BY <1>3, <1>4 DEF Start, asked
<1>5. ASSUME UNCHANGED <<asked, attempt>>
      PROVE  Spent(attempt)' = Spent(attempt)
  BY <1>3, <1>5 DEF Spent
<1>6. ASSUME NEW u \in Url, NEW r \in {"stats", "lookup"}, Ask(u, r)
      PROVE  TimeFits'
  <2>1. Attempts' \in Nat \ {0} /\ Backoff' \in Nat
    BY FetchConfig DEF Attempts, Backoff
  <2>2. Start' \in Nat /\ Worst' \in Nat /\ Spent(attempt)' \in Nat
    <3>1. PageTime' \in Nat
      BY <1>1, <2>1, SpentAt DEF PageTime, Spent
    <3>2. Spent(attempt)' \in Nat
      BY <1>6, <2>1, SpentAt DEF Spent, Ask
    <3> HIDE DEF PageTime, Spent
    <3> QED BY <1>1, <3>1, <3>2 DEF Start, Worst
  <2>3. elapsed' = 0 /\ pc' \in {"send", "answered"}
    BY <1>6 DEF Ask
  <2> HIDE DEF Start, Spent, Worst
  <2> QED BY <2>2, <2>3 DEF TimeFits
<1>7. CASE Send
  <2>1. CASE Over
    BY <1>7, <2>1, FailureTakesItsTime DEF Send, Sign
  <2>2. CASE ~Over
    <3>1. pc = "send" /\ pc' = "wait" /\ since' = elapsed /\ elapsed' = elapsed /\ attempt' = attempt
          /\ UNCHANGED <<asked, stage>>
      BY <1>7, <2>2 DEF Send
    <3> QED BY <1>1, <1>3, <1>4, <1>5, <3>1 DEF TimeFits
  <2> QED BY <2>1, <2>2
<1>8. ASSUME NEW sign \in Signs \cup {"down"}, Refuse(sign)
      PROVE  TimeFits'
  <2>1. sign \in Sign
    BY DEF Signs, Sign
  <2> QED BY <1>8, <2>1, FailureTakesItsTime DEF Refuse
<1>9. CASE TimeOut
  BY <1>9, FailureTakesItsTime DEF TimeOut, Sign
<1>10. ASSUME NEW a \in Counter \cup {None}, NEW b \in Counter \cup {None},
              NEW video \in BOOLEAN, Serve(a, b, video)
       PROVE  TimeFits'
  <2>1. UNCHANGED asked /\ elapsed' = elapsed /\ pc = "wait"
    BY <1>10 DEF Serve
  <2>2. CASE Settle("ok")
    BY <1>3, <2>1, <2>2 DEF Settle, TimeFits
  <2>3. CASE stage = "videos" /\ Turn("channel")
    <3>1. pc' = "send" /\ stage' = "channel" /\ attempt' = 1
      BY <2>3 DEF Turn
    <3>2. Start = 0 /\ Start' = UpstreamTimeout /\ attempt = 1
      BY <2>3, <3>1 DEF Start, Control, AttemptsFit, Pages
    <3>3. Spent(1) = 0 /\ Spent(1)' = 0 /\ Spent(attempt)' = 0
      <4>1. Spent(1) = 0
        BY <1>1, SpentNat DEF Control
      <4> QED BY <1>3, <2>1, <3>1, <4>1 DEF Spent
    <3> HIDE DEF Start, Spent, Worst
    <3>4. elapsed <= UpstreamTimeout
      BY <1>1, <2>1, <3>2, <3>3 DEF TimeFits
    <3> QED BY <1>1, <1>3, <2>1, <3>1, <3>2, <3>3, <3>4 DEF TimeFits
  <2> QED BY <1>10, <2>2, <2>3 DEF Serve
<1>11. CASE Wake
  <2>1. /\ pc = "sleep" /\ pc' = "send" /\ attempt' = attempt + 1 /\ elapsed' = elapsed
        /\ UNCHANGED <<asked, stage>>
    BY <1>11 DEF Wake
  <2>2. Spent(attempt)' = Spent(attempt + 1)
    BY <1>3, <2>1 DEF Spent
  <2>3. Spent(attempt + 1) = Spent(attempt) + UpstreamTimeout + attempt * Backoff
    BY <1>1, SpentStep DEF Control
  <2>4. elapsed <= Start + Spent(attempt + 1)
    <3> HIDE DEF Start, Spent
    <3> QED BY <1>1, <1>2, <2>1, <2>3 DEF TimeFits
  <2> HIDE DEF Start, Spent, Worst
  <2> QED BY <1>1, <1>3, <1>4, <2>1, <2>2, <2>4 DEF TimeFits
<1>12. CASE Tick
  <2>1. /\ elapsed' = elapsed + 1 /\ UNCHANGED <<asked, stage, attempt, pc, since>>
        /\ \/ pc = "wait" /\ elapsed < since + UpstreamTimeout
           \/ pc = "sleep" /\ elapsed < since + attempt * Backoff
    BY <1>1, <1>12 DEF Tick, CallIsOver, Delay, Control, TypeOK
  <2>2. Start' = Start /\ Spent(attempt)' = Spent(attempt) /\ Backoff' = Backoff /\ Worst' = Worst
    BY <1>3, <1>4, <1>5, <2>1
  <2> HIDE DEF Start, Spent, Worst
  <2>3. CASE pc = "wait"
    BY <1>1, <1>2, <2>1, <2>2, <2>3 DEF TimeFits
  <2>4. CASE pc = "sleep"
    <3>1. Spent(attempt + 1) = Spent(attempt) + UpstreamTimeout + attempt * Backoff
      BY <1>1, SpentStep DEF Control
    <3>2. elapsed + 1 <= Worst
      BY <1>1, <1>2, <2>1, <2>4, <3>1 DEF TimeFits
    <3> QED BY <1>1, <1>2, <2>1, <2>2, <2>4, <3>2 DEF TimeFits
  <2> QED BY <2>1, <2>3, <2>4
<1>13. CASE \/ \E a \in Counter \cup {None} : ServeText(a)
            \/ ServeChannel \/ GiveUp \/ Reply \/ Exit
  <2>1. pc' \in {"answered", "idle"} /\ elapsed' = elapsed /\ UNCHANGED asked
    BY <1>13 DEF ServeText, ServeChannel, GiveUp, Reply, Exit, Settle
  <2> QED BY <1>3, <2>1 DEF TimeFits
<1>14. CASE Leave \/ Shutdown \/ UNCHANGED vars
  <2>1. UNCHANGED <<asked, stage, attempt, pc, since, elapsed>>
    BY <1>14 DEF Leave, Shutdown, vars, asked
  <2> QED BY <1>3, <1>4, <1>5, <2>1 DEF TimeFits
<1> QED BY <1>6, <1>7, <1>8, <1>9, <1>10, <1>11, <1>12, <1>13, <1>14 DEF Next, Work

\* retryBudget covers the attempts at one page, and at two.
LEMMA PageIsBudgeted ==
    ASSUME TypeOK
    PROVE  /\ PageTime <= RetryBudget(Attempts, Backoff, 1)
           /\ PageTime + PageTime <= RetryBudget(Attempts, Backoff, 2)
           /\ PageTime \in Nat
<1> DEFINE n == Attempts
           reserve == UpstreamTimeout * n + Backoff * Triangle(n)
<1>1. n \in Nat \ {0} /\ Backoff \in Nat /\ UpstreamTimeout \in Nat
  BY ConfigTypes, FetchConfig
<1>2. Triangle(n - 1) \in Nat /\ Triangle(n) \in Nat /\ Triangle(n - 1) <= Triangle(n)
  <2>1. n - 1 \in Nat /\ n \in Nat /\ n - 1 <= n
    BY <1>1
  <2> QED BY <2>1, TriangleNat, TriangleGrows
<1>3. Triangle(n - 1) * Backoff <= Backoff * Triangle(n) /\ Triangle(n - 1) * Backoff \in Nat
  <2>1. Triangle(n - 1) * Backoff <= Triangle(n) * Backoff /\ Triangle(n - 1) * Backoff \in Nat
    BY <1>1, <1>2, ProductGrows
  <2>2. Triangle(n) * Backoff = Backoff * Triangle(n)
    BY <1>1, <1>2
  <2> QED BY <2>1, <2>2
<1>4. (n - 1) * UpstreamTimeout + UpstreamTimeout = UpstreamTimeout * n
  <2> HIDE DEF n
  <2> QED BY <1>1
<1>5. UpstreamTimeout * n \in Nat /\ Backoff * Triangle(n) \in Nat /\ (n - 1) * UpstreamTimeout \in Nat
  <2> HIDE DEF n
  <2>1. n - 1 \in Nat /\ n \in Nat
    BY <1>1
  <2> QED BY <1>1, <1>2, <2>1
<1>6. PageTime <= reserve /\ PageTime \in Nat /\ reserve \in Nat
  <2> HIDE DEF n
  <2> QED BY <1>1, <1>3, <1>4, <1>5 DEF PageTime, Spent, n
<1>7. RetryBudget(n, Backoff, 1) = reserve /\ RetryBudget(n, Backoff, 2) = reserve + reserve
  <2>1. RetryBudget(n, Backoff, 1) = 1 * reserve /\ RetryBudget(n, Backoff, 2) = 2 * reserve
    BY DEF RetryBudget
  <2> HIDE DEF reserve
  <2> QED BY <1>6, <2>1
<1> HIDE DEF PageTime, reserve
<1> QED BY <1>6, <1>7

\* The handler's deadline covers the slowest provider, whatever the attempts, the
\* backoff and the timeouts: no fetch reaches it.  YouTube's two calls need Meta's
\* budget.
THEOREM HandlerCovers == Spec => []HandlerCoversFetches
<1>1. Control /\ TimeFits => HandlerCoversFetches
  <2> SUFFICES ASSUME Control, TimeFits, route = "stats", conf.meta \/ url # "youtube"
               PROVE  elapsed < HandlerTimeout
    BY DEF HandlerCoversFetches, Deadline
  <2> DEFINE tiktok == RetryBudget(TikTokAttempts, TikTokBackoff, 1)
             meta == RetryBudget(MetaAttempts, MetaBackoff, 2)
  <2>1. /\ TypeOK /\ elapsed \in Nat /\ url \in Url /\ attempt \in Nat \ {0}
        /\ UpstreamTimeout \in Nat \ {0} /\ Slack \in Nat \ {0} /\ HandlerTimeout \in Nat \ {0}
        /\ conf.tiktok \in BOOLEAN /\ conf.meta \in BOOLEAN
    BY DeadlineIsNat, ConfigTypes, FetchConfig DEF Control, TypeOK
  <2>2. tiktok \in Nat /\ meta \in Nat
    BY BudgetIsNat, FetchConfig
  <2>3. /\ conf.tiktok => HandlerTimeout >= tiktok + Slack
        /\ conf.meta => HandlerTimeout >= meta + Slack
    <3> HIDE DEF tiktok, meta
    <3>1. HandlerTimeout = Larger(UpstreamTimeout, Larger(IF conf.tiktok THEN tiktok ELSE 0,
                                                          IF conf.meta THEN meta ELSE 0)) + Slack
      BY DEF HandlerTimeout, tiktok, meta
    <3> QED BY <2>1, <2>2, <3>1 DEF Larger
  <2>4. /\ elapsed <= Worst /\ Worst \in Nat /\ PageTime \in Nat
        /\ UpstreamTimeout <= PageTime
    <3>1. Spent(attempt) \in Nat /\ Spent(attempt) + UpstreamTimeout <= PageTime /\ Worst \in Nat
      BY StageIsInTime
    <3>2. PageTime \in Nat
      BY <2>1, PageIsBudgeted
    <3> HIDE DEF PageTime, Spent, Worst
    <3> QED BY <2>1, <3>1, <3>2 DEF TimeFits
  <2>5. CASE elapsed = 0
    BY <2>1, <2>5
  <2>6. CASE elapsed > 0 /\ url = "tiktok"
    <3>1. conf.tiktok
      BY <2>6 DEF Control, Served
    <3>2. PageTime <= tiktok
      BY <2>1, <2>6, PageIsBudgeted DEF Attempts, Backoff
    <3>3. Worst = PageTime
      BY <2>6 DEF Worst
    <3> HIDE DEF PageTime, Worst, tiktok
    <3> QED BY <2>1, <2>2, <2>3, <2>4, <3>1, <3>2, <3>3
  <2>7. CASE elapsed > 0 /\ url # "tiktok"
    <3>1. conf.meta
      BY <2>1, <2>7 DEF Control, Served, Url
    <3>2. CASE url = "youtube"
      <4>1. 2 * UpstreamTimeout <= meta
        <5>1. MetaAttempts * UpstreamTimeout >= 1 * UpstreamTimeout
          BY FetchConfig, ProductGrows
        <5> DEFINE reserve == UpstreamTimeout * MetaAttempts + MetaBackoff * Triangle(MetaAttempts)
        <5>2. MetaBackoff * Triangle(MetaAttempts) \in Nat
          BY TriangleNat, FetchConfig
        <5>3. reserve \in Nat /\ reserve >= UpstreamTimeout
          BY <5>1, <5>2, FetchConfig
        <5>4. meta = 2 * reserve
          BY DEF RetryBudget
        <5> HIDE DEF reserve, meta
        <5> QED BY <2>1, <5>3, <5>4
      <4>2. Worst = UpstreamTimeout + UpstreamTimeout
        BY <3>2 DEF Worst
      <4> HIDE DEF Worst, meta
      <4> QED BY <2>1, <2>2, <2>3, <2>4, <3>1, <4>1, <4>2
    <3>3. CASE url # "youtube"
      <4>1. PageTime + PageTime <= meta
        BY <2>1, <2>7, <3>3, PageIsBudgeted DEF Attempts, Backoff
      <4>2. Worst \in {PageTime, PageTime + PageTime, UpstreamTimeout + PageTime}
        BY <3>3 DEF Worst
      <4> HIDE DEF PageTime, Worst, meta
      <4> QED BY <2>1, <2>2, <2>3, <2>4, <3>1, <4>1, <4>2
    <3> QED BY <3>2, <3>3
  <2> QED BY <2>1, <2>5, <2>6, <2>7
<1> QED BY <1>1, TimeInit, TimeNext, ControlAlways, PTL DEF Spec
---------------------------------------------------------------------------
(***************************************************************************)
(* What EveryCallEnds rests on besides fairness: a request only ever goes    *)
(* forward, through finitely many places, and its time is bounded.           *)
(***************************************************************************)
\* No stage is left for an earlier one.
Round == [st \in Stage |-> IF st \in {"videos", "graph", "embed"} THEN 1 ELSE 2]
Place == [send |-> 1, wait |-> 2, sleep |-> 3, answered |-> 4, idle |-> 5]

\* A request stays where it is, asks elsewhere, makes its next attempt, or comes to
\* a later place of this one.
Advances ==
    \/ UNCHANGED <<pc, stage, attempt>>
    \/ Round[stage'] > Round[stage]
    \/ stage' = stage /\ attempt' = attempt + 1 /\ attempt < Attempts
    \/ UNCHANGED <<stage, attempt>> /\ Place[pc'] > Place[pc]

OnlyForward == [][pc # "idle" => Advances /\ elapsed' \in {elapsed, elapsed + 1}]_vars
TimeIsBounded == attempt <= Attempts /\ elapsed <= Deadline

LEMMA FailureAdvances ==
    ASSUME Control, pc \in {"send", "wait"}, NEW sign \in Sign, Fails(sign)
    PROVE  Advances
<1>1. CASE Retries(sign) /\ Pause
  BY <1>1 DEF Pause, Advances, Place
<1>2. CASE Fallback(sign) # None /\ Turn(Fallback(sign))
  <2>1. \/ stage = "graph" /\ stage' = "page"
        \/ stage = "embed" /\ stage' = "post"
    BY <1>2 DEF Turn, Fallback
  <2> QED BY <2>1 DEF Advances, Round, Stage, Pages
<1>3. CASE \E a : Settle(a)
  BY <1>3 DEF Settle, Advances, Place
<1> QED BY <1>1, <1>2, <1>3 DEF Fails

\* No request comes to a stage or an attempt a second time, whatever the platforms
\* answer: the fallbacks make no circle, and only the next attempt follows a sleep.
THEOREM RequestsGoForward == Spec => OnlyForward
<1>1. Control /\ [Next]_vars =>
        [pc # "idle" => Advances /\ elapsed' \in {elapsed, elapsed + 1}]_vars
  <2> SUFFICES ASSUME Control, Next, pc # "idle"
               PROVE  Advances /\ elapsed' \in {elapsed, elapsed + 1}
    OBVIOUS
  <2>1. ~(\E u \in Url, r \in {"stats", "lookup"} : Ask(u, r))
    BY DEF Ask
  <2>2. elapsed' \in {elapsed, elapsed + 1}
    BY <2>1 DEF Next, Work, Refuse, Serve, ServeText, ServeChannel, Leave, Shutdown, TimeOut,
                Send, Wake, GiveUp, Reply, Exit, Tick
  <2>3. Advances
    <3>1. ASSUME NEW sign \in Signs \cup {"down"}, Refuse(sign)
          PROVE  Advances
      <4>1. sign \in Sign
        BY DEF Signs, Sign
      <4> QED BY <3>1, <4>1, FailureAdvances DEF Refuse
    <3>2. ASSUME NEW a, NEW b, NEW video, Serve(a, b, video)
          PROVE  Advances
      <4>1. CASE \E x : Settle(x)
        BY <3>2, <4>1 DEF Serve, Settle, Advances, Place
      <4>2. CASE stage = "videos" /\ Turn("channel")
        BY <4>2 DEF Turn, Advances, Round, Stage, Pages
      <4> QED BY <3>2, <4>1, <4>2 DEF Serve
    <3>3. ASSUME NEW a, ServeText(a)
          PROVE  Advances
      BY <3>3 DEF ServeText, Settle, Advances, Place
    <3>4. CASE ServeChannel \/ Leave \/ Shutdown \/ Reply \/ Tick
      BY <3>4 DEF ServeChannel, Settle, Leave, Shutdown, Reply, Tick, Advances, Place
    <3>5. CASE Send \/ TimeOut
      <4>1. CASE \E sign \in {"down"} : Fails(sign) /\ pc \in {"send", "wait"}
        BY <4>1, FailureAdvances DEF Sign
      <4> QED BY <3>5, <4>1 DEF Send, TimeOut, Advances, Place
    <3>6. CASE Wake
      BY <3>6 DEF Wake, Advances, Control, AttemptsFit
    <3>7. CASE GiveUp
      BY <3>7 DEF GiveUp, Settle, Advances, Place
    <3>8. CASE Exit
      BY <3>8 DEF Exit, Advances, Place, Control, TypeOK
    <3> QED BY <2>1, <3>1, <3>2, <3>3, <3>4, <3>5, <3>6, <3>7, <3>8 DEF Next, Work
  <2> QED BY <2>2, <2>3
<1> QED BY <1>1, ControlAlways, PTL DEF Spec, OnlyForward

\* Neither the attempts nor the time of a request pass their bound: together with
\* RequestsGoForward, a request can take only finitely many steps.
THEOREM RequestsAreFinite == Spec => []TimeIsBounded
<1>1. Control => TimeIsBounded
  BY DEF Control, AttemptsFit, InTime, TimeIsBounded
<1> QED BY <1>1, ControlAlways, PTL

---------------------------------------------------------------------------
(***************************************************************************)
(* PageScan.  Its lexer, replacer and parser are functions on 0 .. Len(text), *)
(* each value computed from the one before.  The induction these call for is *)
(* by the least counterexample: a set of numbers has a least element.        *)
(***************************************************************************)

\* The bytes there are.
Byte == {"{", "}", "/", "n", Quote, Back, Newline, "<", ":", ",", "id", "text", "likes", "count",
         "context", "3", "7", "shortcode_media", "xdt_shortcode_media"}

---------------------------------------------------------------------------
(* A nonempty set of numbers has a least one; sets closed under the next number. *)

LEMMA Least ==
    ASSUME NEW T, T \subseteq Nat, T # {}
    PROVE  \E m \in T : \A n \in T : m <= n
<1>1. PICK m \in T : \A n \in T : ~(<<n, m>> \in OpToRel(<, Nat))
  BY NatLessThanWellFounded, WFMin
<1>2. \A n \in T : ~(n < m)
  BY <1>1 DEF OpToRel
<1> QED BY <1>2

LEMMA Induction ==
    ASSUME NEW n \in Nat, NEW T, 0 \in T, \A i \in 0 .. n - 1 : i \in T => i + 1 \in T
    PROVE  \A i \in 0 .. n : i \in T
<1> DEFINE Bad == {i \in 0 .. n : i \notin T}
<1> SUFFICES ASSUME Bad # {} PROVE FALSE
  OBVIOUS
<1>1. PICK m \in Bad : \A i \in Bad : m <= i
  <2> HIDE DEF Bad
  <2>1. Bad \subseteq Nat
    BY DEF Bad
  <2> QED BY <2>1, Least
<1>2. m # 0 /\ m - 1 \in 0 .. n - 1 /\ m - 1 \in T
  BY <1>1
<1> QED BY <1>1, <1>2

Steps(n, S) == [1 .. n -> [S -> S]]
IsRun(f, n, S, start, h) ==
    f \in [0 .. n -> S] /\ f[0] = start /\ \A i \in 1 .. n : f[i] = h[i][f[i - 1]]

\* There is a function whose every value is made from the one before.
LEMMA RunsExist ==
    ASSUME NEW n \in Nat, NEW S, NEW start \in S, NEW h \in Steps(n, S)
    PROVE  \E f : IsRun(f, n, S, start, h)
<1> DEFINE Upto(f, k) == f \in [0 .. n -> S] /\ f[0] = start /\ \A i \in 1 .. k : f[i] = h[i][f[i - 1]]
           T == {k \in 0 .. n : \E f : Upto(f, k)}
<1>1. 0 \in T
  <2>1. Upto([i \in 0 .. n |-> start], 0)
    OBVIOUS
  <2> HIDE DEF Upto
  <2> QED BY <2>1
<1>2. ASSUME NEW k \in 0 .. n - 1, k \in T PROVE k + 1 \in T
  <2>1. PICK f : Upto(f, k)
    BY <1>2
  <2> DEFINE g == [f EXCEPT ![k + 1] = h[k + 1][f[k]]]
  <2>2. f \in [0 .. n -> S] /\ f[0] = start /\ \A i \in 1 .. k : f[i] = h[i][f[i - 1]]
    BY <2>1
  <2>3. h[k + 1] \in [S -> S] /\ f[k] \in S
    BY <2>2 DEF Steps
  <2>4. g \in [0 .. n -> S]
    BY <2>2, <2>3
  <2>5. \A i \in 0 .. k : g[i] = f[i]
    BY <2>2
  <2>6. g[k + 1] = h[k + 1][f[k]]
    BY <2>2
  <2>7. ASSUME NEW i \in 1 .. k + 1 PROVE g[i] = h[i][g[i - 1]]
    <3>1. CASE i = k + 1
      <4>1. g[i - 1] = f[k]
        BY <2>5, <3>1
      <4> HIDE DEF g
      <4> QED BY <2>6, <3>1, <4>1
    <3>2. CASE i # k + 1
      <4>1. i \in 1 .. k /\ i - 1 \in 0 .. k /\ i \in 0 .. k
        BY <3>2
      <4>2. g[i - 1] = f[i - 1] /\ g[i] = f[i]
        BY <4>1, <2>5
      <4> HIDE DEF g
      <4> QED BY <2>2, <4>1, <4>2
    <3> QED BY <3>1, <3>2
  <2>8. g[0] = start
    BY <2>2, <2>5
  <2>9. Upto(g, k + 1)
    <3> HIDE DEF g
    <3> QED BY <2>4, <2>7, <2>8
  <2> HIDE DEF g, Upto
  <2> QED BY <2>9
<1>3. n \in T
  <2> HIDE DEF T
  <2>1. \A i \in 0 .. n - 1 : i \in T => i + 1 \in T
    BY <1>2
  <2>2. \A i \in 0 .. n : i \in T
    BY <1>1, <2>1, Induction
  <2> QED BY <2>2
<1>4. PICK f : Upto(f, n)
  BY <1>3
<1>5. IsRun(f, n, S, start, h)
  BY <1>4 DEF IsRun
<1> QED BY <1>5
---------------------------------------------------------------------------
---------------------------------------------------------------------------
(* The lexer, the parser and the replacer run through the text. *)

Lexer == [depth : Int, mode : {"object", "string", "object escape", "string escape"}]

LEMMA DepthType == ASSUME NEW d \in Int, NEW m, NEW c PROVE DepthAfter(d, m, c) \in Int
BY DEF DepthAfter

LEMMA ReadByteType ==
    ASSUME NEW s \in Lexer, NEW c
    PROVE  ReadByte(s, c) \in Lexer
<1>1. s.depth \in Int /\ s.mode \in {"object", "string", "object escape", "string escape"}
  BY DEF Lexer
<1>2. ModeAfter(s.mode, c) \in {"object", "string", "object escape", "string escape"}
  BY <1>1 DEF ModeAfter
<1>3. DepthAfter(s.depth, s.mode, c) \in Int
  BY <1>1, DepthType
<1> QED BY <1>2, <1>3 DEF Lexer, ReadByte

LEMMA Lexing ==
    ASSUME NEW text, NEW n \in Nat, n = Len(text)
    PROVE  /\ Lexed(text) \in [0 .. n -> Lexer]
           /\ Lexed(text)[0] = LexerStart
           /\ \A i \in 1 .. n : Lexed(text)[i] = ReadByte(Lexed(text)[i - 1], text[i])
<1> DEFINE h == [i \in 1 .. n |-> [s \in Lexer |-> ReadByte(s, text[i])]]
<1>1. h \in Steps(n, Lexer)
  BY ReadByteType DEF Steps
<1>2. LexerStart \in Lexer
  BY DEF LexerStart, Lexer
<1>3. PICK f : IsRun(f, n, Lexer, LexerStart, h)
  <2> HIDE DEF h
  <2> QED BY <1>1, <1>2, RunsExist
<1>4. f \in [0 .. n -> Lexer] /\ f[0] = LexerStart
  BY <1>3 DEF IsRun
<1>5. ASSUME NEW i \in 1 .. n PROVE f[i] = ReadByte(f[i - 1], text[i])
  <2>1. f[i] = h[i][f[i - 1]] /\ f[i - 1] \in Lexer
    <3> HIDE DEF h
    <3> QED BY <1>3, <1>4 DEF IsRun
  <2> QED BY <2>1
<1>6. f = [i \in 0 .. n |-> IF i = 0 THEN LexerStart ELSE ReadByte(f[i - 1], text[i])]
  BY <1>4, <1>5
<1> DEFINE at == Lexed(text)
<1>7. at = [i \in 0 .. n |-> IF i = 0 THEN LexerStart ELSE ReadByte(at[i - 1], text[i])]
  BY <1>6 DEF Lexed
<1> HIDE DEF at
<1>8. at[0] = LexerStart /\ \A i \in 1 .. n : at[i] = ReadByte(at[i - 1], text[i])
  BY <1>7
<1>9. \A i \in 0 .. n : at[i] \in Lexer
  <2> DEFINE T == {i \in 0 .. n : at[i] \in Lexer}
  <2>1. 0 \in T
    BY <1>2, <1>8
  <2>2. \A i \in 0 .. n - 1 : i \in T => i + 1 \in T
    BY <1>8, ReadByteType
  <2>3. \A i \in 0 .. n : i \in T
    <3> HIDE DEF T
    <3> QED BY <2>1, <2>2, Induction
  <2> QED BY <2>3
<1>10. at \in [0 .. n -> Lexer]
  BY <1>7, <1>9
<1> QED BY <1>8, <1>10 DEF at

Modes == {"text", "escape", "broken"}

LEMMA TextAfterType == ASSUME NEW m, NEW c PROVE TextAfter(m, c) \in Modes
BY DEF TextAfter, Modes

LEMMA Parsing ==
    ASSUME NEW text, NEW n \in Nat, n = Len(text)
    PROVE  /\ Parsed(text) \in [0 .. n -> Modes]
           /\ Parsed(text)[0] = "text"
           /\ \A i \in 1 .. n : Parsed(text)[i] = TextAfter(Parsed(text)[i - 1], text[i])
<1> DEFINE h == [i \in 1 .. n |-> [m \in Modes |-> TextAfter(m, text[i])]]
<1>1. h \in Steps(n, Modes)
  BY TextAfterType DEF Steps
<1>2. "text" \in Modes
  BY DEF Modes
<1>3. PICK f : IsRun(f, n, Modes, "text", h)
  <2> HIDE DEF h
  <2> QED BY <1>1, <1>2, RunsExist
<1>4. f \in [0 .. n -> Modes] /\ f[0] = "text"
  BY <1>3 DEF IsRun
<1>5. ASSUME NEW i \in 1 .. n PROVE f[i] = TextAfter(f[i - 1], text[i])
  <2>1. f[i] = h[i][f[i - 1]] /\ f[i - 1] \in Modes
    <3> HIDE DEF h
    <3> QED BY <1>3, <1>4 DEF IsRun
  <2> QED BY <2>1
<1>6. f = [i \in 0 .. n |-> IF i = 0 THEN "text" ELSE TextAfter(f[i - 1], text[i])]
  BY <1>4, <1>5
<1> DEFINE at == Parsed(text)
<1>7. at = [i \in 0 .. n |-> IF i = 0 THEN "text" ELSE TextAfter(at[i - 1], text[i])]
  BY <1>6 DEF Parsed
<1> HIDE DEF at
<1>8. at[0] = "text" /\ \A i \in 1 .. n : at[i] = TextAfter(at[i - 1], text[i])
  BY <1>7
<1>9. \A i \in 0 .. n : at[i] \in Modes
  BY <1>7, <1>2, TextAfterType
<1>10. at \in [0 .. n -> Modes]
  BY <1>7, <1>9
<1> QED BY <1>8, <1>10 DEF at

LEMMA EscapedType == ASSUME NEW c \in Byte, NEW slash PROVE Escaped(c, slash) \in Seq(Byte)
<1>1. Back \in Byte /\ "n" \in Byte
  BY DEF Back, Byte
<1>2. <<Back, c>> \in Seq(Byte) /\ <<Back, "n">> \in Seq(Byte) /\ <<c>> \in Seq(Byte)
  BY <1>1
<1>3. Escaped(c, slash) \in {<<Back, c>>, <<Back, "n">>, <<c>>}
  BY Zenon DEF Escaped
<1> QED BY <1>2, <1>3

LEMMA ReadsAt ==
    ASSUME NEW text \in Seq(Byte), NEW i \in 1 .. Len(text), NEW word \in Seq(Byte), word # <<>>
    PROVE  Reads(text, i, word) <=>
             /\ i + Len(word) - 1 <= Len(text)
             /\ \A k \in 1 .. Len(word) : text[i + k - 1] = word[k]
<1> DEFINE n == Len(text)
           w == Len(word)
           rest == SubSeq(text, i, n)
<1>1. n \in Nat /\ w \in Nat \ {0} /\ i \in 1 .. n
  OBVIOUS
<1>2. rest \in Seq(Byte) /\ Len(rest) = n - i + 1 /\ \A k \in 1 .. n - i + 1 : rest[k] = text[i + k - 1]
  OBVIOUS
<1>3. SubSeq(word, 1, w) \in Seq(Byte) /\ Len(SubSeq(word, 1, w)) = w /\ \A k \in 1 .. w : SubSeq(word, 1, w)[k] = word[k]
  OBVIOUS
<1>4. w <= Len(rest) => /\ SubSeq(rest, 1, w) \in Seq(Byte) /\ Len(SubSeq(rest, 1, w)) = w 
                        /\ \A k \in 1 .. w : SubSeq(rest, 1, w)[k] = rest[k]
  <2> HIDE DEF rest
  <2> QED BY <1>1, <1>2
<1>5. Reads(text, i, word) <=> w <= Len(rest) /\ SubSeq(word, 1, w) = SubSeq(rest, 1, w)
  BY DEF Reads, IsPrefix
<1> DEFINE a == SubSeq(word, 1, w)
           b == SubSeq(rest, 1, w)
<1>6. w <= Len(rest) => (a = b <=> \A k \in 1 .. w : rest[k] = word[k])
  <2> SUFFICES ASSUME w <= Len(rest) PROVE a = b <=> \A k \in 1 .. w : rest[k] = word[k]
    OBVIOUS
  <2> HIDE DEF rest, a, b, w
  <2> QED BY <1>1, <1>3, <1>4 DEF a, b
<1> HIDE DEF rest, n, w, a, b
<1>7. w <= Len(rest) <=> i + w - 1 <= n
  BY <1>1, <1>2
<1>8. w <= Len(rest) => ((\A k \in 1 .. w : rest[k] = word[k]) <=> \A k \in 1 .. w : text[i + k - 1] = word[k])
  BY <1>1, <1>2
<1> QED BY <1>5, <1>6, <1>7, <1>8 DEF n, w, a, b
Joins(parts) ==
    LET at[i \in 0 .. Len(parts)] == IF i = 0 THEN <<>> ELSE at[i - 1] \o parts[i]
    IN  at

LEMMA JoinsClosed ==
    ASSUME NEW parts, NEW n \in Nat, n = Len(parts), NEW Q,
           <<>> \in Q, \A i \in 1 .. n : \A s \in Q : s \o parts[i] \in Q
    PROVE  /\ Joins(parts) \in [0 .. n -> Q]
           /\ Joins(parts)[0] = <<>>
           /\ \A i \in 1 .. n : Joins(parts)[i] = Joins(parts)[i - 1] \o parts[i]
<1> DEFINE h == [i \in 1 .. n |-> [s \in Q |-> s \o parts[i]]]
<1>1. h \in Steps(n, Q)
  BY DEF Steps
<1>3. PICK f : IsRun(f, n, Q, <<>>, h)
  <2> HIDE DEF h
  <2> QED BY <1>1, RunsExist
<1>4. f \in [0 .. n -> Q] /\ f[0] = <<>>
  <2> HIDE DEF h
  <2> QED BY <1>3 DEF IsRun
<1>5. ASSUME NEW i \in 1 .. n PROVE f[i] = f[i - 1] \o parts[i]
  <2>1. f[i] = h[i][f[i - 1]]
    <3> HIDE DEF h
    <3> QED BY <1>3 DEF IsRun
  <2>2. f[i - 1] \in Q
    BY <1>4
  <2> QED BY <2>1, <2>2
<1> HIDE DEF h
<1>6. f = [i \in 0 .. n |-> IF i = 0 THEN <<>> ELSE f[i - 1] \o parts[i]]
  BY <1>4, <1>5
<1> DEFINE at == Joins(parts)
<1>7. at = [i \in 0 .. n |-> IF i = 0 THEN <<>> ELSE at[i - 1] \o parts[i]]
  BY <1>6 DEF Joins
<1> HIDE DEF at
<1>9. at[0] = <<>> /\ \A i \in 1 .. n : at[i] = at[i - 1] \o parts[i]
  BY <1>7
<1>10. \A i \in 0 .. n : at[i] \in Q
  <2> DEFINE T == {i \in 0 .. n : at[i] \in Q}
  <2>1. 0 \in T
    BY <1>9
  <2>2. ASSUME NEW i \in 0 .. n - 1, i \in T PROVE i + 1 \in T
    <3> DEFINE j == i + 1
    <3>1. j \in 1 .. n /\ j - 1 = i
      OBVIOUS
    <3> HIDE DEF j
    <3>2. at[j] = at[i] \o parts[j] /\ at[i] \in Q
      BY <1>9, <2>2, <3>1
    <3>4. j \in 0 .. n /\ at[j] \in Q
      BY <3>1, <3>2
    <3>5. j \in T
      BY <3>4
    <3> QED BY <3>5 DEF j
  <2>3. \A i \in 0 .. n : i \in T
    <3> HIDE DEF T
    <3> QED BY <2>1, <2>2, Induction
  <2> QED BY <2>3
<1>11. at \in [0 .. n -> Q]
  BY <1>7, <1>10
<1> QED BY <1>9, <1>11 DEF at

---------------------------------------------------------------------------
(* FlattenSeq, and texts whose bytes are each written as a word. *)

\* Sequences of texts; the provers do better when they do not see through this name.
Parts(S) == Seq(Seq(S))

LEMMA Joining ==
    ASSUME NEW S, NEW parts \in Parts(S)
    PROVE  /\ Joins(parts) \in [0 .. Len(parts) -> Seq(S)]
           /\ Joins(parts)[0] = <<>>
           /\ \A i \in 1 .. Len(parts) : /\ parts[i] \in Seq(S)
                                         /\ Joins(parts)[i - 1] \in Seq(S)
                                         /\ Joins(parts)[i] = Joins(parts)[i - 1] \o parts[i]
<1> DEFINE n == Len(parts)
           Q == Seq(S)
<1>1. n \in Nat /\ <<>> \in Q /\ \A i \in 1 .. n : \A s \in Q : s \o parts[i] \in Q
  BY DEF Parts
<1>2. \A i \in 1 .. n : parts[i] \in Q
  BY DEF Parts
<1> HIDE DEF Q
<1>3. n = Len(parts)
  OBVIOUS
<1> HIDE DEF n
<1> DEFINE J == Joins(parts)
<1>4. J \in [0 .. n -> Q] /\ J[0] = <<>> /\ \A i \in 1 .. n : J[i] = J[i - 1] \o parts[i]
  BY <1>1, <1>3, JoinsClosed
<1> HIDE DEF J
<1>5. \A i \in 1 .. n : J[i - 1] \in Q
  BY <1>4, <1>1
<1> QED BY <1>2, <1>4, <1>5 DEF n, Q, J

IsJoin(J, parts, n) ==
    /\ n \in Nat /\ n = Len(parts) /\ J[0] = <<>>
    /\ n = 0 => parts = <<>>
    /\ n > 0 => parts[1] = J[1]
    /\ \A i \in 1 .. n : J[i] = J[i - 1] \o parts[i]

LEMMA FlattenClosed ==
    ASSUME NEW parts, NEW n, NEW J, IsJoin(J, parts, n)
    PROVE  FlattenSeq(parts) = J[n]
<1> USE DEF IsJoin
<1>2. CASE n = 0
  BY <1>2 DEF FlattenSeq
<1>3. CASE n # 0
  <2> DEFINE P(f) == f = [i \in 1 .. n |-> IF i = 1 THEN parts[i] ELSE f[i - 1] \o parts[i]]
             flatten == CHOOSE f : P(f)
             g == [i \in 1 .. n |-> J[i]]
  <2>2. ASSUME NEW i \in 1 .. n PROVE g[i] = IF i = 1 THEN parts[i] ELSE g[i - 1] \o parts[i]
    <3>1. g[i] = J[i] /\ (i # 1 => g[i - 1] = J[i - 1])
      OBVIOUS
    <3>2. J[i] = IF i = 1 THEN parts[i] ELSE J[i - 1] \o parts[i]
      <4>1. i = 1 => J[i] = parts[i]
        BY <1>3
      <4> QED BY <4>1
    <3> HIDE DEF g
    <3> QED BY <3>1, <3>2
  <2>3. P(g)
    BY <2>2
  <2>4. P(flatten)
    <3> HIDE DEF P, g
    <3> QED BY <2>3
  <2>5. FlattenSeq(parts) = flatten[n]
    BY <1>3 DEF FlattenSeq
  <2> DEFINE T == {i \in 0 .. n : i = 0 \/ flatten[i] = J[i]}
  <2> HIDE DEF flatten
  <2>6. flatten = [i \in 1 .. n |-> IF i = 1 THEN parts[i] ELSE flatten[i - 1] \o parts[i]]
    BY <2>4
  <2>7. 0 \in T
    OBVIOUS
  <2>8. ASSUME NEW i \in 0 .. n - 1, i \in T PROVE i + 1 \in T
    <3> DEFINE k == i + 1
    <3>1. k \in 1 .. n /\ k - 1 = i /\ (k = 1 <=> i = 0)
      OBVIOUS
    <3> HIDE DEF k
    <3>2. flatten[k] = IF k = 1 THEN parts[k] ELSE flatten[k - 1] \o parts[k]
      BY <2>6, <3>1
    <3>4. flatten[k] = J[k]
      <4>1. CASE i = 0
        BY <3>1, <3>2, <4>1
      <4>2. CASE i # 0
        <5>1. flatten[k - 1] = J[k - 1]
          BY <2>8, <3>1, <4>2
        <5>2. flatten[k] = flatten[k - 1] \o parts[k]
          BY <3>1, <3>2, <4>2
        <5> QED BY <3>1, <5>1, <5>2
      <4> QED BY <4>1, <4>2
    <3>5. k \in T
      BY <3>1, <3>4
    <3> QED BY <3>5 DEF k
  <2>9. n \in T
    <3> HIDE DEF T
    <3>1. \A i \in 0 .. n : i \in T
      BY <2>7, <2>8, Induction
    <3> QED BY <3>1
  <2> QED BY <2>5, <2>9, <1>3
<1> QED BY <1>2, <1>3

LEMMA Flattening ==
    ASSUME NEW S, NEW parts \in Parts(S)
    PROVE  FlattenSeq(parts) = Joins(parts)[Len(parts)]
<1> DEFINE n == Len(parts)
           J == Joins(parts)
           Q == Seq(S)
<1>1. n \in Nat /\ (n = 0 => parts = <<>>)
  BY DEF Parts
<1>2. J[0] = <<>> /\ \A i \in 1 .. n : parts[i] \in Q /\ J[i] = J[i - 1] \o parts[i]
  BY Joining
<1>3. \A s \in Q : <<>> \o s = s
  OBVIOUS
<1>4. n = Len(parts)
  OBVIOUS
<1> HIDE DEF n, Q, J
<1>5. n > 0 => parts[1] = J[1]
  <2> SUFFICES ASSUME n > 0 PROVE parts[1] = J[1]
    OBVIOUS
  <2>1. J[1] = J[0] \o parts[1] /\ parts[1] \in Q
    <3>1. 1 \in 1 .. n /\ 1 - 1 = 0
      BY <1>1
    <3> QED BY <1>2, <3>1
  <2> QED BY <1>2, <1>3, <2>1
<1>6. FlattenSeq(parts) = J[n]
  <2>1. n \in Nat /\ J[0] = <<>> /\ (n = 0 => parts = <<>>)
    BY <1>1, <1>2
  <2>2. \A i \in 1 .. n : J[i] = J[i - 1] \o parts[i]
    BY <1>2
  <2>3. IsJoin(J, parts, n)
    BY <2>1, <2>2, <1>4, <1>5 DEF IsJoin
  <2> QED BY <2>3, FlattenClosed
<1> QED BY <1>6 DEF n, J

LEMMA JoinConcat ==
    ASSUME NEW S, NEW p \in Parts(S), NEW q \in Parts(S)
    PROVE  FlattenSeq(p \o q) = FlattenSeq(p) \o FlattenSeq(q)
<1> DEFINE n == Len(p)
           m == Len(q)
           Q == Seq(S)
           r == p \o q
           A == Joins(p)
           B == Joins(q)
           J == Joins(r)
<1>1. n \in Nat /\ m \in Nat /\ r \in Parts(S) /\ Len(r) = n + m
  BY DEF Parts
<1>2. \A i \in 1 .. n : r[i] = p[i]
  BY DEF Parts
<1>3. \A i \in 1 .. m : r[n + i] = q[i]
  BY DEF Parts
<1> HIDE DEF r
<1>4. A[0] = <<>> /\ \A i \in 1 .. n : A[i] = A[i - 1] \o p[i]
  BY Joining
<1>5. B[0] = <<>> /\ \A i \in 1 .. m : B[i - 1] \in Q /\ q[i] \in Q /\ B[i] = B[i - 1] \o q[i]
  BY Joining
<1>6. J[0] = <<>> /\ \A i \in 1 .. n + m : J[i] = J[i - 1] \o r[i]
  BY Joining, <1>1
<1>7. A \in [0 .. n -> Q]
  BY Joining
<1>8. FlattenSeq(p) = A[n] /\ FlattenSeq(q) = B[m] /\ FlattenSeq(r) = J[n + m]
  BY <1>1, Flattening
<1>9. A[n] \in Q
  BY <1>1, <1>7
<1>10. A[n] \o <<>> = A[n]
  BY <1>9
<1>11. ASSUME NEW s \in Q, NEW t \in Q PROVE (A[n] \o s) \o t = A[n] \o (s \o t)
  <2> DEFINE a == A[n]
  <2>1. a \in Q
    BY <1>9
  <2> HIDE DEF a
  <2>2. (a \o s) \o t = a \o (s \o t)
    BY <2>1, ConcatAssociative
  <2> QED BY <2>2 DEF a
<1> HIDE DEF n, m, A, B, J, Q
<1>12. \A i \in 0 .. n : J[i] = A[i]
  <2> DEFINE T == {i \in 0 .. n : J[i] = A[i]}
  <2>1. 0 \in T
    BY <1>1, <1>4, <1>6
  <2>2. ASSUME NEW i \in 0 .. n - 1, i \in T PROVE i + 1 \in T
    <3> DEFINE j == i + 1
    <3>1. j \in 1 .. n /\ j \in 1 .. n + m /\ j - 1 = i
      BY <1>1
    <3> HIDE DEF j
    <3>2. J[j] = J[i] \o r[j] /\ r[j] = p[j] /\ A[j] = A[i] \o p[j]
      BY <1>2, <1>4, <1>6, <3>1
    <3>3. j \in T
      <4>1. J[i] = A[i]
        BY <2>2
      <4>2. J[j] = A[j]
        BY <3>2, <4>1
      <4>3. j \in 0 .. n
        BY <3>1, <1>1
      <4> QED BY <4>2, <4>3
    <3> QED BY <3>3 DEF j
  <2>3. \A i \in 0 .. n : i \in T
    <3> HIDE DEF T
    <3> QED BY <1>1, <2>1, <2>2, Induction
  <2> QED BY <2>3
<1>13. J[n + m] = A[n] \o B[m]
  <2> DEFINE T == {i \in 0 .. m : J[n + i] = A[n] \o B[i]}
  <2>1. 0 \in T
    <3>1. n + 0 = n /\ 0 \in 0 .. m /\ n \in 0 .. n
      BY <1>1
    <3>2. J[n + 0] = A[n] \o B[0]
      BY <1>5, <1>10, <1>12, <3>1
    <3> QED BY <3>1, <3>2
  <2>2. ASSUME NEW i \in 0 .. m - 1, i \in T PROVE i + 1 \in T
    <3> DEFINE j == i + 1
               l == n + j
    <3>1. j \in 1 .. m /\ j - 1 = i /\ l \in 1 .. n + m /\ l - 1 = n + i /\ l = n + j
      BY <1>1
    <3> HIDE DEF j, l
    <3>2. J[l] = J[n + i] \o r[l] /\ r[l] = q[j]
      BY <1>3, <1>6, <3>1
    <3>3. B[i] \in Q /\ q[j] \in Q /\ B[j] = B[i] \o q[j]
      BY <1>5, <3>1
    <3>4. J[l] = (A[n] \o B[i]) \o q[j]
      BY <2>2, <3>2
    <3>5. J[l] = A[n] \o B[j]
      BY <1>11, <3>3, <3>4
    <3>6. j \in T
      <4>1. j \in 0 .. m /\ J[n + j] = A[n] \o B[j]
        BY <1>1, <3>1, <3>5
      <4> QED BY <4>1
    <3> QED BY <3>6 DEF j
  <2>3. \A i \in 0 .. m : i \in T
    <3> HIDE DEF T
    <3> QED BY <1>1, <2>1, <2>2, Induction
  <2>4. m \in T
    <3> HIDE DEF T
    <3> QED BY <1>1, <2>3
  <2> QED BY <2>4
<1> QED BY <1>8, <1>13 DEF r

LEMMA TextInduction ==
    ASSUME NEW B, NEW P, <<>> \in P,
           \A t \in Seq(B) : \A c \in B : t \in P => t \o <<c>> \in P
    PROVE  \A t \in Seq(B) : t \in P
<1> SUFFICES ASSUME NEW t \in Seq(B) PROVE t \in P
  OBVIOUS
<1> DEFINE n == Len(t)
           T == {i \in 0 .. n : SubSeq(t, 1, i) \in P}
<1>1. n \in Nat
  OBVIOUS
<1>2. SubSeq(t, 1, 0) = <<>> /\ SubSeq(t, 1, n) = t
  OBVIOUS
<1>3. ASSUME NEW i \in 0 .. n - 1
      PROVE  /\ SubSeq(t, 1, i) \in Seq(B) /\ t[i + 1] \in B
             /\ SubSeq(t, 1, i + 1) = SubSeq(t, 1, i) \o <<t[i + 1]>>
  <2> DEFINE k == i + 1
  <2>1. k \in 1 .. n /\ k - 1 = i
    OBVIOUS
  <2>2. t[k] \in B /\ SubSeq(t, 1, i) \in Seq(B)
    OBVIOUS
  <2>3. SubSeq(t, 1, k) = SubSeq(t, 1, k - 1) \o <<t[k]>>
    <3> HIDE DEF k
    <3>1. 1 \in 1 .. Len(t) /\ k \in 1 .. Len(t)
      BY <2>1
    <3> QED BY <3>1, SubSeqRecursiveSecond
  <2> QED BY <2>1, <2>2, <2>3
<1> HIDE DEF n
<1>4. 0 \in T
  <2>1. SubSeq(t, 1, 0) \in P
    BY <1>2
  <2> QED BY <1>1, <2>1
<1>5. ASSUME NEW i \in 0 .. n - 1, i \in T PROVE i + 1 \in T
  <2>1. SubSeq(t, 1, i) \in P
    BY <1>5
  <2> DEFINE s == SubSeq(t, 1, i)
             c == t[i + 1]
             r == SubSeq(t, 1, i + 1)
  <2>2. s \in Seq(B) /\ c \in B /\ s \in P /\ r = s \o <<c>>
    BY <1>3, <2>1
  <2>3. r \in P
    <3> HIDE DEF s, r, c
    <3> QED BY <2>2
  <2>4. i + 1 \in 0 .. n
    BY <1>1
  <2> QED BY <2>3, <2>4
<1>6. \A i \in 0 .. n : i \in T
  <2> HIDE DEF T
  <2> QED BY <1>1, <1>4, <1>5, Induction
<1>7. n \in T
  <2> HIDE DEF T
  <2> QED BY <1>1, <1>6
<1> QED BY <1>2, <1>7

Code == [Byte -> Seq(Byte)]
Chunks(text, code) == [i \in DOMAIN text |-> code[text[i]]]
Coded(text, code) == FlattenSeq(Chunks(text, code))

LEMMA ChunksType ==
    ASSUME NEW text \in Seq(Byte), NEW code \in Code
    PROVE  /\ Chunks(text, code) \in Parts(Byte)
           /\ Len(Chunks(text, code)) = Len(text)
           /\ \A i \in 1 .. Len(text) : Chunks(text, code)[i] = code[text[i]]
<1> DEFINE Q == Seq(Byte)
           n == Len(text)
           p == [i \in 1 .. n |-> code[text[i]]]
<1>1. n \in Nat /\ DOMAIN text = 1 .. n /\ \A i \in 1 .. n : text[i] \in Byte
  OBVIOUS
<1>2. \A c \in Byte : code[c] \in Q
  BY DEF Code
<1> HIDE DEF Q, n
<1>3. p \in Seq(Q) /\ Len(p) = n /\ \A i \in 1 .. n : p[i] = code[text[i]]
  BY <1>1, <1>2
<1>4. p = Chunks(text, code)
  BY <1>1 DEF Chunks
<1> HIDE DEF p
<1> QED BY <1>3, <1>4 DEF Q, n, Parts

LEMMA CodedConcat ==
    ASSUME NEW a \in Seq(Byte), NEW b \in Seq(Byte), NEW code \in Code
    PROVE  Coded(a \o b, code) = Coded(a, code) \o Coded(b, code)
<1> DEFINE n == Len(a)
           m == Len(b)
           p == Chunks(a, code)
           q == Chunks(b, code)
           r == Chunks(a \o b, code)
           ab == a \o b
           Q == Seq(Byte)
<1>1. n \in Nat /\ m \in Nat /\ ab \in Q /\ Len(ab) = n + m
  OBVIOUS
<1>2. \A i \in 1 .. n : ab[i] = a[i]
  OBVIOUS
<1>3. \A i \in 1 .. m : ab[n + i] = b[i]
  OBVIOUS
<1>4. p \in Parts(Byte) /\ q \in Parts(Byte) /\ r \in Parts(Byte)
  <2>1. r \in Parts(Byte)
    <3> HIDE DEF ab
    <3>1. Chunks(ab, code) \in Parts(Byte)
      BY <1>1, ChunksType
    <3> QED BY <3>1 DEF ab
  <2>2. p \in Parts(Byte) /\ q \in Parts(Byte)
    BY ChunksType
  <2> QED BY <2>1, <2>2
<1>5. Len(p) = n /\ \A i \in 1 .. n : p[i] = code[a[i]]
  BY ChunksType
<1>6. Len(q) = m /\ \A i \in 1 .. m : q[i] = code[b[i]]
  BY ChunksType
<1>7. Len(r) = n + m /\ \A i \in 1 .. n + m : r[i] = code[ab[i]]
  <2> HIDE DEF ab
  <2>1. Len(Chunks(ab, code)) = Len(ab) /\ \A i \in 1 .. Len(ab) : Chunks(ab, code)[i] = code[ab[i]]
    BY <1>1, ChunksType
  <2> QED BY <2>1, <1>1 DEF ab
<1> HIDE DEF n, m, p, q, r, ab
<1>8. \A i \in 1 .. n : r[i] = p[i]
  BY <1>1, <1>2, <1>5, <1>7
<1>9. \A i \in 1 .. m : r[n + i] = q[i]
  BY <1>1, <1>3, <1>6, <1>7
<1>10. r = p \o q
  <2> HIDE DEF Q
  <2>1. p \in Seq(Q) /\ q \in Seq(Q) /\ r \in Seq(Q)
    BY <1>4 DEF Parts, Q
  <2> DEFINE pq == p \o q
  <2>2. /\ pq \in Seq(Q) /\ Len(pq) = Len(p) + Len(q)
        /\ \A i \in 1 .. Len(p) + Len(q) : pq[i] = IF i <= Len(p) THEN p[i] ELSE q[i - Len(p)]
    BY <2>1, ConcatProperties
  <2> HIDE DEF pq
  <2>3. ASSUME NEW i \in 1 .. n + m PROVE r[i] = pq[i]
    <3>0. pq[i] = IF i <= n THEN p[i] ELSE q[i - n]
      BY <2>2, <1>5, <1>6
    <3>1. CASE i <= n
      BY <1>1, <1>8, <3>0, <3>1
    <3>2. CASE ~(i <= n)
      <4>1. i - n \in 1 .. m /\ i = n + (i - n)
        BY <1>1, <3>2
      <4>3. r[n + (i - n)] = q[i - n]
        BY <1>9, <4>1
      <4> QED BY <3>0, <3>2, <4>1, <4>3
    <3> QED BY <3>1, <3>2
  <2>4. Len(r) = n + m /\ Len(pq) = n + m
    BY <2>2, <1>5, <1>6, <1>7
  <2>5. r = pq
    BY <2>1, <2>2, <2>3, <2>4, SeqEqual
  <2> QED BY <2>5 DEF pq
<1>11. FlattenSeq(p \o q) = FlattenSeq(p) \o FlattenSeq(q)
  BY <1>4, JoinConcat
<1> QED BY <1>10, <1>11 DEF Coded, p, q, r, ab

LEMMA CodedType ==
    ASSUME NEW text \in Seq(Byte), NEW code \in Code
    PROVE  Coded(text, code) \in Seq(Byte)
<1> DEFINE p == Chunks(text, code)
           n == Len(p)
<1>1. p \in Parts(Byte) /\ n \in Nat
  BY ChunksType
<1> HIDE DEF p
<1>2. FlattenSeq(p) = Joins(p)[n] /\ Joins(p) \in [0 .. n -> Seq(Byte)]
  BY <1>1, Flattening, Joining
<1> HIDE DEF n
<1>3. Joins(p)[n] \in Seq(Byte)
  BY <1>1, <1>2
<1> QED BY <1>2, <1>3 DEF Coded, p

LEMMA CodedEmpty ==
    ASSUME NEW code \in Code
    PROVE  Coded(<<>>, code) = <<>>
<1> DEFINE p == Chunks(<<>>, code)
<1>1. <<>> \in Seq(Byte) /\ Len(<<>>) = 0
  OBVIOUS
<1>2. Len(p) = 0 /\ p \in Parts(Byte)
  BY <1>1, ChunksType
<1> HIDE DEF p
<1>3. FlattenSeq(p) = Joins(p)[0] /\ Joins(p)[0] = <<>>
  BY <1>2, Flattening, Joining
<1> QED BY <1>3 DEF Coded, p

LEMMA CodedOne ==
    ASSUME NEW c \in Byte, NEW code \in Code
    PROVE  Coded(<<c>>, code) = code[c]
<1> DEFINE t == <<c>>
           p == Chunks(t, code)
<1>1. t \in Seq(Byte) /\ Len(t) = 1 /\ t[1] = c
  OBVIOUS
<1> HIDE DEF t
<1>2. Len(p) = 1 /\ p \in Parts(Byte) /\ p[1] = code[c]
  BY <1>1, ChunksType
<1> HIDE DEF p
<1>3. FlattenSeq(p) = Joins(p)[1]
  BY <1>2, Flattening
<1>4. Joins(p)[0] = <<>> /\ Joins(p)[1] = Joins(p)[0] \o p[1]
  <2>1. Joins(p)[0] = <<>> /\ \A i \in 1 .. 1 : Joins(p)[i] = Joins(p)[i - 1] \o p[i]
    BY <1>2, Joining
  <2>2. 1 \in 1 .. 1 /\ 1 - 1 = 0
    OBVIOUS
  <2> QED BY <2>1, <2>2
<1>5. code[c] \in Seq(Byte)
  BY DEF Code
<1>6. <<>> \o code[c] = code[c]
  BY <1>5, ConcatEmptySeq
<1>7. Joins(p)[1] = <<>> \o code[c]
  BY <1>2, <1>4, Zenon
<1> QED BY <1>3, <1>6, <1>7 DEF Coded, p, t

LEMMA CodedOneMore ==
    ASSUME NEW text \in Seq(Byte), NEW c \in Byte, NEW code \in Code
    PROVE  Coded(text \o <<c>>, code) = Coded(text, code) \o code[c]
<1> DEFINE t == <<c>>
<1>1. t \in Seq(Byte) /\ Coded(t, code) = code[c]
  BY CodedOne
<1> HIDE DEF t
<1>2. Coded(text \o t, code) = Coded(text, code) \o Coded(t, code)
  BY <1>1, CodedConcat
<1> QED BY <1>1, <1>2 DEF t

LEMMA CodedTwice ==
    ASSUME NEW B \in SUBSET Byte, NEW f \in Code, NEW g \in Code, NEW h \in Code,
           \A c \in B : Coded(f[c], g) = h[c]
    PROVE  \A t \in Seq(B) : Coded(Coded(t, f), g) = Coded(t, h)
<1> DEFINE P == {t \in Seq(B) : Coded(Coded(t, f), g) = Coded(t, h)}
<1>0. <<>> \in Seq(B) /\ \A t \in Seq(B) : t \in Seq(Byte)
  OBVIOUS
<1>1. <<>> \in P
  BY <1>0, CodedEmpty
<1>2. ASSUME NEW t \in Seq(B), NEW c \in B, t \in P PROVE t \o <<c>> \in P
  <2>1. t \in Seq(Byte) /\ c \in Byte /\ f[c] \in Seq(Byte)
    BY <1>0 DEF Code
  <2>2. Coded(t, f) \in Seq(Byte)
    BY <2>1, CodedType
  <2>3. Coded(t \o <<c>>, f) = Coded(t, f) \o f[c]
    BY <2>1, CodedOneMore
  <2>4. Coded(Coded(t, f) \o f[c], g) = Coded(Coded(t, f), g) \o Coded(f[c], g)
    BY <2>1, <2>2, CodedConcat
  <2>5. Coded(t \o <<c>>, h) = Coded(t, h) \o h[c]
    BY <2>1, CodedOneMore
  <2>6. t \o <<c>> \in Seq(B)
    OBVIOUS
  <2>7. Coded(Coded(t, f), g) = Coded(t, h)
    BY <1>2
  <2>8. Coded(Coded(t \o <<c>>, f), g) = Coded(t \o <<c>>, h)
    BY <2>3, <2>4, <2>5, <2>7
  <2> QED BY <2>6, <2>8
<1>3. \A t \in Seq(B) : t \in P
  <2> HIDE DEF P
  <2> QED BY <1>1, <1>2, TextInduction
<1> QED BY <1>3

LEMMA CodedSame ==
    ASSUME NEW B \in SUBSET Byte, NEW f \in Code, NEW g \in Code, \A c \in B : f[c] = g[c]
    PROVE  \A t \in Seq(B) : Coded(t, f) = Coded(t, g)
<1> DEFINE P == {t \in Seq(B) : Coded(t, f) = Coded(t, g)}
<1>0. <<>> \in Seq(B) /\ \A t \in Seq(B) : t \in Seq(Byte)
  OBVIOUS
<1>1. <<>> \in P
  BY <1>0, CodedEmpty
<1>2. ASSUME NEW t \in Seq(B), NEW c \in B, t \in P PROVE t \o <<c>> \in P
  <2>1. t \in Seq(Byte) /\ c \in Byte
    BY <1>0
  <2>3. Coded(t \o <<c>>, f) = Coded(t, f) \o f[c]
    BY <2>1, CodedOneMore
  <2>5. Coded(t \o <<c>>, g) = Coded(t, g) \o g[c]
    BY <2>1, CodedOneMore
  <2>6. t \o <<c>> \in Seq(B)
    OBVIOUS
  <2>7. Coded(t, f) = Coded(t, g) /\ f[c] = g[c]
    BY <1>2
  <2>8. Coded(t \o <<c>>, f) = Coded(t \o <<c>>, g)
    BY <2>3, <2>5, <2>7
  <2> QED BY <2>6, <2>8
<1>3. \A t \in Seq(B) : t \in P
  <2> HIDE DEF P
  <2> QED BY <1>1, <1>2, TextInduction
<1> QED BY <1>3

LEMMA CodedPlainly ==
    ASSUME NEW B \in SUBSET Byte, NEW f \in Code, \A c \in B : f[c] = <<c>>
    PROVE  \A t \in Seq(B) : Coded(t, f) = t
<1> DEFINE P == {t \in Seq(B) : Coded(t, f) = t}
<1>0. <<>> \in Seq(B) /\ \A t \in Seq(B) : t \in Seq(Byte)
  OBVIOUS
<1>1. <<>> \in P
  BY <1>0, CodedEmpty
<1>2. ASSUME NEW t \in Seq(B), NEW c \in B, t \in P PROVE t \o <<c>> \in P
  <2>1. t \in Seq(Byte) /\ c \in Byte
    BY <1>0
  <2>3. Coded(t \o <<c>>, f) = Coded(t, f) \o f[c]
    BY <2>1, CodedOneMore
  <2>6. t \o <<c>> \in Seq(B)
    OBVIOUS
  <2>7. Coded(t, f) = t /\ f[c] = <<c>>
    BY <1>2
  <2>8. Coded(t \o <<c>>, f) = t \o <<c>>
    BY <2>3, <2>7
  <2> QED BY <2>6, <2>8
<1>3. \A t \in Seq(B) : t \in P
  <2> HIDE DEF P
  <2> QED BY <1>1, <1>2, TextInduction
<1> QED BY <1>3

LEMMA CodedBytes ==
    ASSUME NEW B \in SUBSET Byte, NEW C, NEW f \in Code, \A c \in B : f[c] \in Seq(C)
    PROVE  \A t \in Seq(B) : Coded(t, f) \in Seq(C)
<1> DEFINE P == {t \in Seq(B) : Coded(t, f) \in Seq(C)}
<1>0. <<>> \in Seq(B) /\ <<>> \in Seq(C) /\ \A t \in Seq(B) : t \in Seq(Byte)
  OBVIOUS
<1>1. <<>> \in P
  BY <1>0, CodedEmpty
<1>2. ASSUME NEW t \in Seq(B), NEW c \in B, t \in P PROVE t \o <<c>> \in P
  <2>1. t \in Seq(Byte) /\ c \in Byte
    BY <1>0
  <2>3. Coded(t \o <<c>>, f) = Coded(t, f) \o f[c]
    BY <2>1, CodedOneMore
  <2>6. t \o <<c>> \in Seq(B)
    OBVIOUS
  <2>7. Coded(t, f) \in Seq(C) /\ f[c] \in Seq(C)
    BY <1>2
  <2>8. Coded(t \o <<c>>, f) \in Seq(C)
    BY <2>3, <2>7, ConcatProperties
  <2> QED BY <2>6, <2>8
<1>3. \A t \in Seq(B) : t \in P
  <2> HIDE DEF P
  <2> QED BY <1>1, <1>2, TextInduction
<1> QED BY <1>3

Escapement(slash) == [c \in Byte |-> Escaped(c, slash)]

LEMMA EscapeIsCoded ==
    ASSUME NEW text \in Seq(Byte), NEW slash
    PROVE  /\ Escapement(slash) \in Code
           /\ Escape(text, slash) = Coded(text, Escapement(slash))
<1>1. Escapement(slash) \in Code
  BY EscapedType DEF Escapement, Code
<1>2. \A i \in DOMAIN text : Escapement(slash)[text[i]] = Escaped(text[i], slash)
  BY DEF Escapement
<1>3. Chunks(text, Escapement(slash)) = [i \in DOMAIN text |-> Escaped(text[i], slash)]
  BY <1>2 DEF Chunks
<1> QED BY <1>1, <1>3 DEF Escape, Coded

LEMMA ParsedAgree ==
    ASSUME NEW s \in Seq(Byte), NEW t \in Seq(Byte), NEW n \in Nat, n <= Len(s), n <= Len(t),
           \A i \in 1 .. n : s[i] = t[i]
    PROVE  \A i \in 0 .. n : Parsed(s)[i] = Parsed(t)[i]
<1> DEFINE A == Parsed(s)
           B == Parsed(t)
           T == {i \in 0 .. n : A[i] = B[i]}
<1>1. A[0] = "text" /\ \A i \in 1 .. n : A[i] = TextAfter(A[i - 1], s[i])
  BY Parsing
<1>2. B[0] = "text" /\ \A i \in 1 .. n : B[i] = TextAfter(B[i - 1], t[i])
  BY Parsing
<1> HIDE DEF A, B
<1>3. 0 \in T
  BY <1>1, <1>2
<1>4. ASSUME NEW i \in 0 .. n - 1, i \in T PROVE i + 1 \in T
  <2> DEFINE j == i + 1
  <2>1. j \in 1 .. n /\ j - 1 = i
    OBVIOUS
  <2> HIDE DEF j
  <2>2. A[j] = TextAfter(A[i], s[j]) /\ B[j] = TextAfter(B[i], t[j]) /\ s[j] = t[j]
    BY <1>1, <1>2, <2>1
  <2>3. A[i] = B[i]
    BY <1>4
  <2>4. j \in T
    BY <2>1, <2>2, <2>3
  <2> QED BY <2>4 DEF j
<1>5. \A i \in 0 .. n : i \in T
  <2> HIDE DEF T
  <2> QED BY <1>3, <1>4, Induction
<1> QED BY <1>5 DEF A, B

Sense(t) == Parsed(t)[Len(t)]

LEMMA SenseOfEmpty == Sense(<<>>) = "text"
<1>1. Len(<<>>) = 0
  OBVIOUS
<1>2. Parsed(<<>>)[0] = "text"
  BY <1>1, Parsing
<1> QED BY <1>1, <1>2 DEF Sense

LEMMA SenseOfMore ==
    ASSUME NEW t \in Seq(Byte), NEW c \in Byte
    PROVE  Sense(t \o <<c>>) = TextAfter(Sense(t), c)
<1> DEFINE n == Len(t)
           u == t \o <<c>>
           m == n + 1
<1>1. n \in Nat /\ u \in Seq(Byte) /\ Len(u) = m /\ u[m] = c /\ \A i \in 1 .. n : u[i] = t[i]
  OBVIOUS
<1> HIDE DEF u
<1>2. Parsed(u)[n] = Parsed(t)[n]
  BY <1>1, ParsedAgree
<1>3. m \in 1 .. Len(u) /\ m - 1 = n
  BY <1>1
<1> HIDE DEF m
<1>4. Parsed(u)[m] = TextAfter(Parsed(u)[m - 1], u[m])
  BY <1>1, <1>3, Parsing
<1> QED BY <1>1, <1>2, <1>3, <1>4 DEF Sense, u

LEMMA NeverBroken ==
    ASSUME NEW u \in Seq(Byte), IsText(u)
    PROVE  \A i \in 0 .. Len(u) : Parsed(u)[i] \in {"text", "escape"}
<1> DEFINE n == Len(u)
           A == Parsed(u)
<1>1. n \in Nat
  OBVIOUS
<1>2. A \in [0 .. n -> Modes] /\ \A i \in 1 .. n : A[i] = TextAfter(A[i - 1], u[i])
  BY <1>1, Parsing
<1>3. A[n] = "text"
  BY DEF IsText
<1> HIDE DEF n, A
<1> SUFFICES ASSUME NEW k \in 0 .. n, A[k] = "broken" PROVE FALSE
  BY <1>2 DEF n, A, Modes
<1> DEFINE m == n - k
           T == {i \in 0 .. m : A[k + i] = "broken"}
<1>4. m \in Nat /\ k + 0 = k /\ k + m = n
  BY <1>1
<1>5. 0 \in T
  BY <1>4
<1>6. ASSUME NEW i \in 0 .. m - 1, i \in T PROVE i + 1 \in T
  <2> DEFINE j == k + (i + 1)
  <2>1. j \in 1 .. n /\ j - 1 = k + i
    BY <1>1
  <2> HIDE DEF j
  <2>2. A[j] = TextAfter("broken", u[j])
    BY <1>2, <1>6, <2>1
  <2>3. TextAfter("broken", u[j]) = "broken"
    BY DEF TextAfter
  <2>4. A[k + (i + 1)] = "broken"
    BY <2>2, <2>3 DEF j
  <2>5. i + 1 \in 0 .. m
    BY <1>4
  <2> QED BY <2>4, <2>5
<1>7. m \in T
  <2> HIDE DEF T
  <2>1. m \in Nat /\ m \in 0 .. m
    BY <1>4
  <2> HIDE DEF m
  <2>2. \A i \in 0 .. m : i \in T
    BY <1>5, <1>6, <2>1, Induction
  <2> QED BY <2>1, <2>2
<1> QED BY <1>3, <1>4, <1>7

---------------------------------------------------------------------------
(* What is escaped is the text of a string. *)

\* What captions are made of.
Said == {"{", "}", "/", "n", Quote, Back, Newline}

LEMMA Bytes ==
    /\ Said \in SUBSET Byte
    /\ Quote # Back /\ Quote # Newline /\ Back # Newline
    /\ \A c \in {Quote, Back, Newline} : c \notin {"{", "}", "/", "n"}
BY DEF Said, Byte, Quote, Back, Newline

LEMMA EscapedForms ==
    ASSUME NEW c \in Said, NEW slash
    PROVE  \/ Escaped(c, slash) = <<c>> /\ c \notin {Quote, Back, Newline}
           \/ \E x \in {Quote, Back, "/", "n"} : Escaped(c, slash) = <<Back, x>>
<1>1. CASE c \in {Quote, Back}
  <2>1. Escaped(c, slash) = <<Back, c>>
    BY <1>1, Bytes DEF Escaped
  <2> QED BY <1>1, <2>1
<1>2. CASE c = Newline
  <2>1. Escaped(c, slash) = <<Back, "n">>
    BY <1>2, Bytes DEF Escaped
  <2> QED BY <2>1
<1>3. CASE c = "/" /\ slash
  <2>1. Escaped(c, slash) = <<Back, "/">>
    BY <1>3, Bytes DEF Escaped
  <2> QED BY <2>1
<1>4. CASE c \notin {Quote, Back, Newline} /\ ~(c = "/" /\ slash)
  <2>1. Escaped(c, slash) = <<c>>
    BY <1>4, Bytes DEF Escaped
  <2> QED BY <1>4, <2>1
<1> QED BY <1>1, <1>2, <1>3, <1>4

LEMMA PairAsConcat ==
    ASSUME NEW t \in Seq(Byte), NEW x \in Byte, NEW y \in Byte
    PROVE  /\ t \o <<x, y>> = (t \o <<x>>) \o <<y>>
           /\ t \o <<x>> \in Seq(Byte)
<1> DEFINE a == <<x>>
           b == <<y>>
           p == <<x, y>>
<1>1. a \in Seq(Byte) /\ b \in Seq(Byte) /\ p = a \o b
  <2>1. a \in Seq(Byte) /\ Len(a) = 1 /\ a[1] = x
    OBVIOUS
  <2>2. b \in Seq(Byte) /\ Len(b) = 1 /\ b[1] = y
    OBVIOUS
  <2>3. p \in Seq(Byte) /\ Len(p) = 2 /\ p[1] = x /\ p[2] = y
    OBVIOUS
  <2> DEFINE ab == a \o b
  <2> HIDE DEF a, b, p
  <2>4. ab \in Seq(Byte) /\ Len(ab) = 2 /\ ab[1] = x /\ ab[2] = y
    <3>1. /\ ab \in Seq(Byte) /\ Len(ab) = Len(a) + Len(b)
          /\ \A i \in 1 .. Len(a) + Len(b) : ab[i] = IF i <= Len(a) THEN a[i] ELSE b[i - Len(a)]
      BY <2>1, <2>2, ConcatProperties
    <3> HIDE DEF ab
    <3> QED BY <2>1, <2>2, <3>1
  <2> HIDE DEF ab
  <2>5. p = ab
    <3>1. \A i \in 1 .. 2 : p[i] = ab[i]
      BY <2>3, <2>4
    <3> QED BY <2>3, <2>4, <3>1, SeqEqual
  <2> QED BY <2>1, <2>2, <2>5 DEF ab
<1> HIDE DEF a, b, p
<1>2. (t \o a) \o b = t \o (a \o b)
  BY <1>1, ConcatAssociative
<1>3. t \o a \in Seq(Byte)
  BY <1>1, ConcatProperties
<1> QED BY <1>1, <1>2, <1>3 DEF a, b, p

\* However long a caption is and whatever it says, its escaped form is read by
\* encoding/json as the text of one string.
THEOREM EscapeIsText ==
    ASSUME NEW slash
    PROVE  \A t \in Seq(Said) : Escape(t, slash) \in Seq(Said) /\ IsText(Escape(t, slash))
<1> DEFINE f == Escapement(slash)
           P == {t \in Seq(Said) : Coded(t, f) \in Seq(Said) /\ Sense(Coded(t, f)) = "text"}
<1>0. f \in Code /\ <<>> \in Seq(Said) /\ (\A t \in Seq(Said) : t \in Seq(Byte)) /\ <<>> \in Seq(Byte)
  <2>1. \A t \in Seq(Said) : t \in Seq(Byte)
    BY Bytes, SeqMonotonic
  <2>2. <<>> \in Seq(Byte) /\ <<>> \in Seq(Said)
    OBVIOUS
  <2>3. f \in Code
    BY <2>2, EscapeIsCoded
  <2> QED BY <2>1, <2>2, <2>3
<1>1. <<>> \in P
  BY <1>0, CodedEmpty, SenseOfEmpty
<1>2. ASSUME NEW t \in Seq(Said), NEW c \in Said, t \in P PROVE t \o <<c>> \in P
  <2> DEFINE e == Coded(t, f)
             x == Escaped(c, slash)
  <2>1. t \in Seq(Byte) /\ c \in Byte /\ t \o <<c>> \in Seq(Said)
    <3>1. t \o <<c>> \in Seq(Said)
      OBVIOUS
    <3> QED BY <3>1, <1>0, Bytes
  <2>2. Coded(t \o <<c>>, f) = e \o f[c] /\ f[c] = x
    <3> HIDE DEF f
    <3>1. Coded(t \o <<c>>, f) = e \o f[c]
      BY <1>0, <2>1, CodedOneMore
    <3>2. f[c] = x
      BY <2>1 DEF f, Escapement
    <3> QED BY <3>1, <3>2
  <2>3. e \in Seq(Byte) /\ e \in Seq(Said) /\ Sense(e) = "text"
    BY <1>0, <1>2
  <2> HIDE DEF e, f
  <2>4. e \o x \in Seq(Said) /\ Sense(e \o x) = "text"
    <3>1. CASE x = <<c>> /\ c \notin {Quote, Back, Newline}
      <4>1. Sense(e \o x) = TextAfter("text", c)
        BY <2>1, <2>3, <3>1, SenseOfMore
      <4>2. TextAfter("text", c) = "text"
        BY <3>1 DEF TextAfter
      <4>3. x \in Seq(Said)
        BY <3>1
      <4> HIDE DEF x
      <4>4. e \o x \in Seq(Said)
        BY <4>3, <2>3, ConcatProperties
      <4> QED BY <4>1, <4>2, <4>4
    <3>2. CASE \E y \in {Quote, Back, "/", "n"} : x = <<Back, y>>
      <4>1. PICK y \in {Quote, Back, "/", "n"} : x = <<Back, y>>
        BY <3>2
      <4>2. Back \in Said /\ y \in Said /\ Back \in Byte /\ y \in Byte
        BY Bytes DEF Said
      <4>3. x \in Seq(Said)
        BY <4>1, <4>2
      <4> HIDE DEF x
      <4>4. e \o x \in Seq(Said)
        BY <4>3, <2>3, ConcatProperties
      <4>5. e \o x = (e \o <<Back>>) \o <<y>> /\ e \o <<Back>> \in Seq(Byte)
        BY <2>3, <4>1, <4>2, PairAsConcat
      <4>6. Sense(e \o <<Back>>) = TextAfter("text", Back)
        BY <2>3, <4>2, SenseOfMore
      <4>7. TextAfter("text", Back) = "escape"
        BY DEF TextAfter
      <4>8. Sense((e \o <<Back>>) \o <<y>>) = TextAfter("escape", y)
        BY <4>2, <4>5, <4>6, <4>7, SenseOfMore
      <4>9. TextAfter("escape", y) = "text"
        BY DEF TextAfter
      <4> QED BY <4>4, <4>5, <4>8, <4>9
    <3> QED BY <3>1, <3>2, EscapedForms
  <2>5. Coded(t \o <<c>>, f) \in Seq(Said) /\ Sense(Coded(t \o <<c>>, f)) = "text"
    BY <2>2, <2>4
  <2> QED BY <2>1, <2>5
<1>3. \A t \in Seq(Said) : t \in P
  <2> HIDE DEF P
  <2> QED BY <1>1, <1>2, TextInduction
<1>4. \A t \in Seq(Said) : Escape(t, slash) = Coded(t, f)
  BY <1>0, EscapeIsCoded
<1> HIDE DEF f
<1> QED BY <1>3, <1>4 DEF IsText, Sense

---------------------------------------------------------------------------
(* A post is an object, and no part of it is. *)

\* The bytes by name: the provers do better when they do not see through these.
LeftBrace == "{"
RightBrace == "}"
Slash == "/"
Letter == "n"
Less == "<"
Colon == ":"
Comma == ","
Seven == "7"
Three == "3"
IdKey == "id"
TextKey == "text"
LikesKey == "likes"
CountKey == "count"
Context == "context"

LEMMA Spelling ==
    /\ Opening = <<LeftBrace, Quote, IdKey, Quote, Colon, Seven, Comma, Quote, TextKey, Quote, Colon,
                   Quote>>
    /\ Counters = <<Quote, Comma, Quote, LikesKey, Quote, Colon, LeftBrace, Quote, CountKey, Quote,
                    Colon, Three, RightBrace, RightBrace>>
BY DEF Opening, Counters, LeftBrace, RightBrace, Colon, Comma, Seven, Three, IdKey, TextKey,
       LikesKey, CountKey

LEMMA InByte ==
    /\ LeftBrace \in Byte /\ RightBrace \in Byte /\ Slash \in Byte /\ Letter \in Byte
    /\ Quote \in Byte /\ Back \in Byte /\ Newline \in Byte /\ Less \in Byte
    /\ Colon \in Byte /\ Comma \in Byte /\ Seven \in Byte /\ Three \in Byte
    /\ IdKey \in Byte /\ TextKey \in Byte /\ LikesKey \in Byte /\ CountKey \in Byte
    /\ Context \in Byte /\ \A key \in ToSet(Keys) : key \in Byte
<1>1. \A key \in ToSet(Keys) : key \in {"shortcode_media", "xdt_shortcode_media"}
  BY DEF ToSet, Keys
<1> QED
  BY <1>1 DEF Byte, LeftBrace, RightBrace, Slash, Letter, Less, Colon, Comma, Seven, Three, IdKey,
              TextKey, LikesKey, CountKey, Context

LEMMA Twelve ==
    \A a1, a2, a3, a4, a5, a6, a7, a8, a9, a10, a11, a12 \in Byte :
        <<a1, a2, a3, a4, a5, a6, a7, a8, a9, a10, a11, a12>> \in Seq(Byte)
OBVIOUS

LEMMA Fourteen ==
    \A a1, a2, a3, a4, a5, a6, a7, a8, a9, a10, a11, a12, a13, a14 \in Byte :
        <<a1, a2, a3, a4, a5, a6, a7, a8, a9, a10, a11, a12, a13, a14>> \in Seq(Byte)
OBVIOUS


LEMMA LexedAgree ==
    ASSUME NEW s \in Seq(Byte), NEW t \in Seq(Byte), NEW n \in Nat, n <= Len(s), n <= Len(t),
           \A i \in 1 .. n : s[i] = t[i]
    PROVE  \A i \in 0 .. n : Lexed(s)[i] = Lexed(t)[i]
<1> DEFINE A == Lexed(s)
           B == Lexed(t)
           T == {i \in 0 .. n : A[i] = B[i]}
<1>1. A[0] = LexerStart /\ \A i \in 1 .. n : A[i] = ReadByte(A[i - 1], s[i])
  BY Lexing
<1>2. B[0] = LexerStart /\ \A i \in 1 .. n : B[i] = ReadByte(B[i - 1], t[i])
  BY Lexing
<1> HIDE DEF A, B
<1>3. 0 \in T
  BY <1>1, <1>2
<1>4. ASSUME NEW i \in 0 .. n - 1, i \in T PROVE i + 1 \in T
  <2> DEFINE j == i + 1
  <2>1. j \in 1 .. n /\ j - 1 = i
    OBVIOUS
  <2> HIDE DEF j
  <2>2. A[j] = ReadByte(A[i], s[j]) /\ B[j] = ReadByte(B[i], t[j]) /\ s[j] = t[j]
    BY <1>1, <1>2, <2>1
  <2>3. A[i] = B[i]
    BY <1>4
  <2>4. j \in T
    BY <2>1, <2>2, <2>3
  <2> QED BY <2>4 DEF j
<1>5. \A i \in 0 .. n : i \in T
  <2> HIDE DEF T
  <2> QED BY <1>3, <1>4, Induction
<1> QED BY <1>5 DEF A, B

\* Where the lexer is after i bytes of a text.
At(t, i, d, m) == Lexed(t)[i].depth = d /\ Lexed(t)[i].mode = m

LEMMA LexStep ==
    ASSUME NEW t \in Seq(Byte), NEW i \in Nat, NEW j, j = i + 1, j <= Len(t),
           NEW d, NEW m, At(t, i, d, m),
           NEW e, NEW k, e = DepthAfter(d, m, t[j]), k = ModeAfter(m, t[j])
    PROVE  At(t, j, e, k)
<1>1. j \in 1 .. Len(t) /\ j - 1 = i
  OBVIOUS
<1>2. Lexed(t)[j] = ReadByte(Lexed(t)[j - 1], t[j])
  BY <1>1, Lexing
<1>3. Lexed(t)[j] = ReadByte(Lexed(t)[i], t[j])
  BY <1>1, <1>2
<1> QED BY <1>3 DEF At, ReadByte

LEMMA LexStart == ASSUME NEW t \in Seq(Byte) PROVE At(t, 0, 0, "object")
<1>1. Lexed(t)[0] = LexerStart
  BY Lexing
<1> QED BY <1>1 DEF At, LexerStart

InText(sense) == IF sense = "text" THEN "string" ELSE "string escape"

LEMMA TextMode ==
    ASSUME NEW m \in {"text", "escape"}, NEW c, TextAfter(m, c) \in {"text", "escape"}
    PROVE  ModeAfter(InText(m), c) = InText(TextAfter(m, c))
<1>1. CASE m = "text" /\ c = Back
  <2>1. TextAfter(m, c) = "escape"
    BY <1>1 DEF TextAfter
  <2>2. ModeAfter("string", c) = "string escape"
    BY <1>1, Bytes DEF ModeAfter
  <2> QED BY <1>1, <2>1, <2>2 DEF InText
<1>2. CASE m = "text" /\ c # Back
  <2>1. TextAfter(m, c) = "text" /\ c # Quote
    BY <1>2 DEF TextAfter
  <2>2. ModeAfter("string", c) = "string"
    BY <1>2, <2>1 DEF ModeAfter
  <2> QED BY <1>2, <2>1, <2>2 DEF InText
<1>3. CASE m = "escape"
  <2>1. TextAfter(m, c) = "text"
    BY <1>3 DEF TextAfter
  <2>2. ModeAfter("string escape", c) = "string"
    BY DEF ModeAfter
  <2> QED BY <1>3, <2>1, <2>2 DEF InText
<1> QED BY <1>1, <1>2, <1>3

\* In the text of a string the depth does not change, whatever braces it has.
LEMMA InsideString ==
    ASSUME NEW t \in Seq(Byte), NEW u \in Seq(Byte), NEW a \in Nat, a + Len(u) <= Len(t),
           \A j \in 1 .. Len(u) : t[a + j] = u[j],
           NEW d \in Int, At(t, a, d, "string"), IsText(u)
    PROVE  \A j \in 0 .. Len(u) : At(t, a + j, d, InText(Parsed(u)[j]))
<1> DEFINE n == Len(u)
           A == Parsed(u)
           T == {j \in 0 .. n : At(t, a + j, d, InText(A[j]))}
<1>1. n \in Nat /\ A[0] = "text" /\ (\A i \in 1 .. n : A[i] = TextAfter(A[i - 1], u[i]))
  BY Parsing
<1>2. \A i \in 0 .. n : A[i] \in {"text", "escape"}
  BY NeverBroken
<1>3. (\A j \in 1 .. n : t[a + j] = u[j]) /\ a + n <= Len(t)
  OBVIOUS
<1> HIDE DEF n, A
<1>4. 0 \in T
  <2>1. InText(A[0]) = "string" /\ a + 0 = a
    BY <1>1 DEF InText
  <2> QED BY <1>1, <2>1
<1>5. ASSUME NEW i \in 0 .. n - 1, i \in T PROVE i + 1 \in T
  <2> DEFINE j == i + 1
             x == a + i
             y == a + j
  <2>1. j \in 1 .. n /\ j \in 0 .. n /\ i \in 0 .. n /\ j - 1 = i
        /\ x \in Nat /\ y = x + 1 /\ y <= Len(t) /\ t[y] = u[j]
    BY <1>1, <1>3
  <2>2. At(t, x, d, InText(A[i]))
    BY <1>5
  <2> HIDE DEF j, x, y
  <2>3. A[j] = TextAfter(A[i], u[j]) /\ A[i] \in {"text", "escape"} /\ A[j] \in {"text", "escape"}
    BY <1>1, <1>2, <2>1
  <2>4. ModeAfter(InText(A[i]), t[y]) = InText(A[j])
    BY <2>1, <2>3, TextMode
  <2>5. DepthAfter(d, InText(A[i]), t[y]) = d
    BY DEF DepthAfter, InText
  <2>6. At(t, y, d, InText(A[j]))
    BY <2>1, <2>2, <2>4, <2>5, LexStep
  <2>7. j \in T
    BY <2>1, <2>6 DEF y
  <2> QED BY <2>7 DEF j
<1>6. \A j \in 0 .. n : j \in T
  <2> HIDE DEF T
  <2> QED BY <1>1, <1>4, <1>5, Induction
<1> QED BY <1>6 DEF n, A

LEMMA LexTable ==
    /\ ModeAfter("object", Quote) = "string" /\ ModeAfter("string", Quote) = "object"
    /\ \A c \in {Colon, Comma, Seven, Three, LeftBrace, RightBrace} : ModeAfter("object", c) = "object"
    /\ \A c \in {IdKey, TextKey, LikesKey, CountKey} : ModeAfter("string", c) = "string"
<1> USE DEF ModeAfter, Quote, Back
<1>1. ModeAfter("object", Quote) = "string" /\ ModeAfter("string", Quote) = "object"
  OBVIOUS
<1>2. \A c \in {Colon, Comma, Seven, Three, LeftBrace, RightBrace} : ModeAfter("object", c) = "object"
  BY DEF Colon, Comma, Seven, Three, LeftBrace, RightBrace
<1>3. \A c \in {IdKey, TextKey, LikesKey, CountKey} : ModeAfter("string", c) = "string"
  BY DEF IdKey, TextKey, LikesKey, CountKey
<1> QED BY <1>1, <1>2, <1>3

LEMMA DepthTable ==
    ASSUME NEW d \in Int
    PROVE  /\ DepthAfter(d, "object", LeftBrace) = d + 1
           /\ DepthAfter(d, "object", RightBrace) = d - 1
           /\ \A c \in {Quote, Colon, Comma, Seven, Three} : DepthAfter(d, "object", c) = d
           /\ \A c : DepthAfter(d, "string", c) = d
BY DEF DepthAfter, LeftBrace, RightBrace, Quote, Colon, Comma, Seven, Three

LEMMA LexMoves ==
    ASSUME NEW t \in Seq(Byte), NEW i \in Nat, NEW j, j = i + 1, j <= Len(t), NEW d \in Int
    PROVE  /\ At(t, i, d, "object") /\ t[j] = Quote => At(t, j, d, "string")
           /\ At(t, i, d, "string") /\ t[j] = Quote => At(t, j, d, "object")
           /\ At(t, i, d, "object") /\ t[j] = LeftBrace => At(t, j, d + 1, "object")
           /\ At(t, i, d, "object") /\ t[j] = RightBrace => At(t, j, d - 1, "object")
           /\ At(t, i, d, "object") /\ t[j] \in {Colon, Comma, Seven, Three} => At(t, j, d, "object")
           /\ At(t, i, d, "string") /\ t[j] \in {IdKey, TextKey, LikesKey, CountKey} =>
                 At(t, j, d, "string")
<1>1. \A m : At(t, i, d, m) => At(t, j, DepthAfter(d, m, t[j]), ModeAfter(m, t[j]))
  BY LexStep
<1> QED BY <1>1, LexTable, DepthTable

\* p is a post whose caption is written as e, of n bytes.
IsPost(p, e, n) == e \in Seq(Byte) /\ p = Opening \o e \o Counters /\ n = Len(e)

PostBytes(p, e, n) ==
    /\ n \in Nat /\ p \in Seq(Byte) /\ Len(p) = n + 26
    /\ \A i \in 1 .. 12 : p[i] = Opening[i]
    /\ \A j \in 1 .. n : p[12 + j] = e[j]
    /\ \A k \in 1 .. 14 : p[12 + n + k] = Counters[k]

LEMMA OpeningAndCounters ==
    /\ Opening \in Seq(Byte) /\ Len(Opening) = 12
    /\ Counters \in Seq(Byte) /\ Len(Counters) = 14
<1>1. Opening \in Seq(Byte)
  BY Spelling, InByte, Twelve
<1>2. Len(Opening) = 12
  BY DEF Opening
<1>3. Counters \in Seq(Byte)
  BY Spelling, InByte, Fourteen
<1>4. Len(Counters) = 14
  BY DEF Counters
<1> QED BY <1>1, <1>2, <1>3, <1>4

LEMMA PostShape ==
    ASSUME NEW e, NEW p, NEW n, IsPost(p, e, n)
    PROVE  PostBytes(p, e, n)
<1> DEFINE o == Opening
           c == Counters
           oe == o \o e
<1>1. o \in Seq(Byte) /\ Len(o) = 12
  BY OpeningAndCounters
<1>2. c \in Seq(Byte) /\ Len(c) = 14
  BY OpeningAndCounters
<1>3. n \in Nat /\ n = Len(e) /\ e \in Seq(Byte)
  BY DEF IsPost
<1> HIDE DEF o, c
<1>4. /\ oe \in Seq(Byte) /\ Len(oe) = 12 + n
      /\ \A i \in 1 .. 12 + n : oe[i] = IF i <= 12 THEN o[i] ELSE e[i - 12]
  <2>1. /\ oe \in Seq(Byte) /\ Len(oe) = Len(o) + Len(e)
        /\ \A i \in 1 .. Len(o) + Len(e) : oe[i] = IF i <= Len(o) THEN o[i] ELSE e[i - Len(o)]
    BY <1>1, <1>3, ConcatProperties
  <2> HIDE DEF oe
  <2> QED BY <2>1, <1>1, <1>3
<1> HIDE DEF oe
<1>5. p = oe \o c
  BY DEF o, c, oe, IsPost
<1>6. /\ p \in Seq(Byte) /\ Len(p) = 12 + n + 14
      /\ \A i \in 1 .. 12 + n + 14 : p[i] = IF i <= 12 + n THEN oe[i] ELSE c[i - (12 + n)]
  <2>1. /\ oe \o c \in Seq(Byte) /\ Len(oe \o c) = Len(oe) + Len(c)
        /\ \A i \in 1 .. Len(oe) + Len(c) :
              (oe \o c)[i] = IF i <= Len(oe) THEN oe[i] ELSE c[i - Len(oe)]
    BY <1>2, <1>4, ConcatProperties
  <2> QED BY <2>1, <1>2, <1>4, <1>5
<1>7. \A i \in 1 .. 12 : p[i] = o[i]
  BY <1>3, <1>4, <1>6
<1>8. ASSUME NEW j \in 1 .. n PROVE p[12 + j] = e[j]
  <2>1. 12 + j \in 1 .. 12 + n /\ 12 + j \in 1 .. 12 + n + 14 /\ ~(12 + j <= 12) /\ 12 + j - 12 = j
    BY <1>3
  <2> QED BY <1>4, <1>6, <2>1
<1>9. ASSUME NEW k \in 1 .. 14 PROVE p[12 + n + k] = c[k]
  <2> DEFINE i == 12 + n + k
  <2>1. i \in 1 .. 12 + n + 14 /\ ~(i <= 12 + n) /\ i - (12 + n) = k
    BY <1>3
  <2> HIDE DEF i
  <2>2. p[i] = c[i - (12 + n)]
    BY <1>6, <2>1
  <2>3. p[i] = c[k]
    BY <2>1, <2>2
  <2> QED BY <2>3 DEF i
<1> QED BY <1>3, <1>6, <1>7, <1>8, <1>9 DEF o, c, PostBytes

\* A whole post is an object: the braces in its caption do not end it.
LEMMA PostDepth ==
    ASSUME NEW e, NEW p, NEW n, IsPost(p, e, n), IsText(e)
    PROVE  /\ \A i \in 1 .. Len(p) - 1 : Lexed(p)[i].depth # 0
           /\ Lexed(p)[Len(p)].depth = 0
<1> DEFINE b == 12 + n
<1>0. e \in Seq(Byte) /\ n = Len(e)
  BY DEF IsPost
<1>1. /\ n \in Nat /\ p \in Seq(Byte) /\ Len(p) = n + 26
      /\ \A i \in 1 .. 12 : p[i] = Opening[i]
      /\ \A j \in 1 .. n : p[12 + j] = e[j]
      /\ \A k \in 1 .. 14 : p[12 + n + k] = Counters[k]
  <2>1. PostBytes(p, e, n)
    BY PostShape
  <2> QED BY <2>1 DEF PostBytes
<1>11. n \in Nat /\ p \in Seq(Byte) /\ Len(p) = n + 26
  BY <1>1
<1>2. /\ p[1] = LeftBrace
      /\ p[2] = Quote
      /\ p[3] = IdKey
      /\ p[4] = Quote
      /\ p[5] = Colon
      /\ p[6] = Seven
      /\ p[7] = Comma
      /\ p[8] = Quote
      /\ p[9] = TextKey
      /\ p[10] = Quote
      /\ p[11] = Colon
      /\ p[12] = Quote
  BY <1>1, Spelling
<1>3. /\ p[b + 1] = Quote
      /\ p[b + 2] = Comma
      /\ p[b + 3] = Quote
      /\ p[b + 4] = LikesKey
      /\ p[b + 5] = Quote
      /\ p[b + 6] = Colon
      /\ p[b + 7] = LeftBrace
      /\ p[b + 8] = Quote
      /\ p[b + 9] = CountKey
      /\ p[b + 10] = Quote
      /\ p[b + 11] = Colon
      /\ p[b + 12] = Three
      /\ p[b + 13] = RightBrace
      /\ p[b + 14] = RightBrace
  <2>0. \A k \in 1 .. 14 : p[12 + n + k] = Counters[k]
    BY <1>1
  <2>1. /\ p[12 + n + 1] = Counters[1]
        /\ p[12 + n + 2] = Counters[2]
        /\ p[12 + n + 3] = Counters[3]
        /\ p[12 + n + 4] = Counters[4]
        /\ p[12 + n + 5] = Counters[5]
        /\ p[12 + n + 6] = Counters[6]
        /\ p[12 + n + 7] = Counters[7]
        /\ p[12 + n + 8] = Counters[8]
        /\ p[12 + n + 9] = Counters[9]
        /\ p[12 + n + 10] = Counters[10]
        /\ p[12 + n + 11] = Counters[11]
        /\ p[12 + n + 12] = Counters[12]
        /\ p[12 + n + 13] = Counters[13]
        /\ p[12 + n + 14] = Counters[14]
    BY <1>1
  <2> QED BY <2>1, Spelling
<1>4. At(p, 0, 0, "object") /\ b \in Nat /\ Len(p) = b + 14 /\ Len(p) >= 12
  BY <1>11, LexStart
<1>5. /\ At(p, 1, 1, "object")
      /\ At(p, 2, 1, "string")
      /\ At(p, 3, 1, "string")
      /\ At(p, 4, 1, "object")
      /\ At(p, 5, 1, "object")
      /\ At(p, 6, 1, "object")
      /\ At(p, 7, 1, "object")
      /\ At(p, 8, 1, "string")
      /\ At(p, 9, 1, "string")
      /\ At(p, 10, 1, "object")
      /\ At(p, 11, 1, "object")
      /\ At(p, 12, 1, "string")
  <2>1. At(p, 1, 1, "object")
    BY <1>4, <1>11, <1>2, LexMoves
  <2>2. At(p, 2, 1, "string")
    BY <2>1, <1>11, <1>2, LexMoves
  <2>3. At(p, 3, 1, "string")
    BY <2>2, <1>11, <1>2, LexMoves
  <2>4. At(p, 4, 1, "object")
    BY <2>3, <1>11, <1>2, LexMoves
  <2>5. At(p, 5, 1, "object")
    BY <2>4, <1>11, <1>2, LexMoves
  <2>6. At(p, 6, 1, "object")
    BY <2>5, <1>11, <1>2, LexMoves
  <2>7. At(p, 7, 1, "object")
    BY <2>6, <1>11, <1>2, LexMoves
  <2>8. At(p, 8, 1, "string")
    BY <2>7, <1>11, <1>2, LexMoves
  <2>9. At(p, 9, 1, "string")
    BY <2>8, <1>11, <1>2, LexMoves
  <2>10. At(p, 10, 1, "object")
    BY <2>9, <1>11, <1>2, LexMoves
  <2>11. At(p, 11, 1, "object")
    BY <2>10, <1>11, <1>2, LexMoves
  <2>12. At(p, 12, 1, "string")
    BY <2>11, <1>11, <1>2, LexMoves
  <2> QED BY <2>1, <2>2, <2>3, <2>4, <2>5, <2>6, <2>7, <2>8, <2>9, <2>10, <2>11, <2>12
<1>6. \A j \in 0 .. n : At(p, 12 + j, 1, InText(Parsed(e)[j]))
  <2>1. At(p, 12, 1, "string") /\ 12 + Len(e) <= Len(p) /\ \A j \in 1 .. Len(e) : p[12 + j] = e[j]
    BY <1>0, <1>1, <1>5
  <2>2. \A j \in 0 .. Len(e) : At(p, 12 + j, 1, InText(Parsed(e)[j]))
    <3>1. 12 \in Nat /\ 1 \in Int
      OBVIOUS
    <3> QED BY <1>0, <1>11, <2>1, <3>1, InsideString
  <2> QED BY <1>0, <2>2
<1>7. At(p, b, 1, "string")
  <2>1. Parsed(e)[n] = "text"
    BY <1>0 DEF IsText
  <2>2. n \in 0 .. n /\ 12 + n = b
    BY <1>11
  <2>3. At(p, 12 + n, 1, InText(Parsed(e)[n]))
    BY <1>6, <2>2
  <2> QED BY <2>1, <2>2, <2>3 DEF InText
<1>12. b \in Nat /\ Len(p) = b + 14
  BY <1>11
<1> HIDE DEF b
<1>8. /\ At(p, b + 1, 1, "object")
      /\ At(p, b + 2, 1, "object")
      /\ At(p, b + 3, 1, "string")
      /\ At(p, b + 4, 1, "string")
      /\ At(p, b + 5, 1, "object")
      /\ At(p, b + 6, 1, "object")
      /\ At(p, b + 7, 2, "object")
      /\ At(p, b + 8, 2, "string")
      /\ At(p, b + 9, 2, "string")
      /\ At(p, b + 10, 2, "object")
      /\ At(p, b + 11, 2, "object")
      /\ At(p, b + 12, 2, "object")
      /\ At(p, b + 13, 1, "object")
      /\ At(p, b + 14, 0, "object")
  <2>1. At(p, b + 1, 1, "object")
    BY <1>7, <1>11, <1>12, <1>3, LexMoves, SMTT(20)
  <2>2. At(p, b + 2, 1, "object")
    BY <2>1, <1>11, <1>12, <1>3, LexMoves, SMTT(20)
  <2>3. At(p, b + 3, 1, "string")
    BY <2>2, <1>11, <1>12, <1>3, LexMoves, SMTT(20)
  <2>4. At(p, b + 4, 1, "string")
    BY <2>3, <1>11, <1>12, <1>3, LexMoves, SMTT(20)
  <2>5. At(p, b + 5, 1, "object")
    BY <2>4, <1>11, <1>12, <1>3, LexMoves, SMTT(20)
  <2>6. At(p, b + 6, 1, "object")
    BY <2>5, <1>11, <1>12, <1>3, LexMoves, SMTT(20)
  <2>7. At(p, b + 7, 2, "object")
    BY <2>6, <1>11, <1>12, <1>3, LexMoves, SMTT(20)
  <2>8. At(p, b + 8, 2, "string")
    BY <2>7, <1>11, <1>12, <1>3, LexMoves, SMTT(20)
  <2>9. At(p, b + 9, 2, "string")
    BY <2>8, <1>11, <1>12, <1>3, LexMoves, SMTT(20)
  <2>10. At(p, b + 10, 2, "object")
    BY <2>9, <1>11, <1>12, <1>3, LexMoves, SMTT(20)
  <2>11. At(p, b + 11, 2, "object")
    BY <2>10, <1>11, <1>12, <1>3, LexMoves, SMTT(20)
  <2>12. At(p, b + 12, 2, "object")
    BY <2>11, <1>11, <1>12, <1>3, LexMoves, SMTT(20)
  <2>13. At(p, b + 13, 1, "object")
    BY <2>12, <1>11, <1>12, <1>3, LexMoves, SMTT(20)
  <2>14. At(p, b + 14, 0, "object")
    BY <2>13, <1>11, <1>12, <1>3, LexMoves, SMTT(20)
  <2> QED BY <2>1, <2>2, <2>3, <2>4, <2>5, <2>6, <2>7, <2>8, <2>9, <2>10, <2>11, <2>12, <2>13, <2>14
<1>9. ASSUME NEW i \in 1 .. Len(p) - 1 PROVE Lexed(p)[i].depth # 0
  <2>1. CASE i <= 12
    <3>1. i \in {1, 2, 3, 4, 5, 6, 7, 8, 9, 10, 11, 12}
      BY <2>1
    <3> QED BY <1>5, <3>1 DEF At
  <2>2. CASE i > 12 /\ i <= b
    <3>1. i - 12 \in 0 .. n /\ 12 + (i - 12) = i
      BY <1>1, <2>2 DEF b
    <3>2. At(p, i, 1, InText(Parsed(e)[i - 12]))
      BY <1>6, <3>1
    <3> QED BY <3>2 DEF At
  <2>3. CASE i > b
    <3>1. i \in {b + 1, b + 2, b + 3, b + 4, b + 5, b + 6, b + 7, b + 8, b + 9, b + 10, b + 11, b + 12, b + 13}
      BY <1>4, <2>3
    <3> QED BY <1>8, <3>1, SMTT(20) DEF At
  <2> QED BY <1>4, <2>1, <2>2, <2>3
<1>10. Lexed(p)[Len(p)].depth = 0
  BY <1>4, <1>8 DEF At
<1> QED BY <1>9, <1>10

LEMMA LeastOf == ASSUME NEW T, T \subseteq Nat, NEW m \in T, \A i \in T : m <= i PROVE Min(T) = m
<1>1. \A x \in T : (\A y \in T : x <= y) => x = m
  OBVIOUS
<1> QED BY <1>1 DEF Min

LEMMA BackKeepsDepth == \A d, m : DepthAfter(d, m, Back) = d
BY DEF DepthAfter, Back

\* balancedObject ends the object of a post at its last brace, whatever braces, quotes
\* and backslashes its caption has and whatever follows it.
THEOREM BalancedWhole ==
    ASSUME NEW e, NEW p, NEW n, IsPost(p, e, n), IsText(e),
           NEW t \in Seq(Byte), Len(p) <= Len(t), \A i \in 1 .. Len(p) : t[i] = p[i]
    PROVE  BalancedObject(t) = p
<1> DEFINE l == Len(p)
           ends == {i \in DOMAIN t : Lexed(t)[i].depth = 0}
<1>1. p \in Seq(Byte) /\ l \in Nat /\ l >= 26 /\ p[1] = LeftBrace
  <2>1. PostBytes(p, e, n)
    BY PostShape
  <2>2. p \in Seq(Byte) /\ l \in Nat /\ l >= 26 /\ p[1] = Opening[1]
    BY <2>1 DEF PostBytes
  <2> QED BY <2>2, Spelling
<1>2. DOMAIN t = 1 .. Len(t) /\ Len(t) \in Nat /\ l <= Len(t) /\ t # <<>>
  BY <1>1
<1>3. \A i \in 0 .. l : Lexed(t)[i] = Lexed(p)[i]
  BY <1>1, LexedAgree
<1>4. (\A i \in 1 .. l - 1 : Lexed(p)[i].depth # 0) /\ Lexed(p)[l].depth = 0
  BY PostDepth
<1>5. t[1] = LeftBrace
  BY <1>1
<1> HIDE DEF l
<1>6. l \in ends /\ ends \subseteq Nat
  BY <1>1, <1>2, <1>3, <1>4
<1>7. ASSUME NEW i \in ends PROVE l <= i
  <2>1. i \in 1 .. Len(t) /\ Lexed(t)[i].depth = 0
    BY <1>2
  <2>2. i < l => Lexed(t)[i].depth # 0
    BY <1>1, <1>3, <1>4, <2>1
  <2> QED BY <1>1, <2>1, <2>2
<1>8. Min(ends) = l
  <2> HIDE DEF ends
  <2> QED BY <1>6, <1>7, LeastOf
<1>9. SubSeq(t, 1, l) = p
  <2> DEFINE s == SubSeq(t, 1, l)
  <2>1. s \in Seq(Byte) /\ Len(s) = l /\ \A i \in 1 .. l : s[i] = t[i]
    BY <1>1, <1>2
  <2> HIDE DEF s
  <2>2. \A i \in 1 .. Len(s) : s[i] = p[i]
    BY <2>1 DEF l
  <2> QED BY <1>1, <2>1, <2>2, SeqEqual DEF l, s
<1>10. BalancedObject(t) = IF t = <<>> \/ t[1] # LeftBrace \/ ends = {} THEN Nil
                           ELSE SubSeq(t, 1, Min(ends))
  BY DEF BalancedObject, LeftBrace
<1>11. ends # {}
  BY <1>6
<1> HIDE DEF ends
<1> QED BY <1>2, <1>5, <1>8, <1>9, <1>10, <1>11

\* It finds no object in a post that is cut off anywhere, even when backslashes, left
\* behind by the replacer, follow.
THEOREM BalancedCut ==
    ASSUME NEW e, NEW p, NEW n, IsPost(p, e, n), IsText(e),
           NEW m \in 0 .. Len(p) - 1, NEW t \in Seq(Byte),
           \A i \in 1 .. Len(t) : IF i <= m THEN t[i] = p[i] ELSE t[i] = Back
    PROVE  BalancedObject(t) = Nil
<1> DEFINE l == Len(p)
           q == Len(t)
           k == IF m <= q THEN m ELSE q
           ends == {i \in DOMAIN t : Lexed(t)[i].depth = 0}
<1>1. p \in Seq(Byte) /\ l \in Nat
  <2>1. PostBytes(p, e, n)
    BY PostShape
  <2> QED BY <2>1 DEF PostBytes
<1>2. DOMAIN t = 1 .. q /\ q \in Nat
  OBVIOUS
<1>3. k \in Nat /\ k <= m /\ k <= q /\ k <= l - 1
  BY <1>1, <1>2
<1>4. (\A i \in 1 .. k : t[i] = p[i]) /\ (\A i \in k + 1 .. q : t[i] = Back)
  BY <1>1, <1>2
<1>5. \A i \in 0 .. k : Lexed(t)[i] = Lexed(p)[i]
  <2> HIDE DEF k
  <2> QED BY <1>1, <1>3, <1>4, LexedAgree
<1>6. \A i \in 1 .. l - 1 : Lexed(p)[i].depth # 0
  BY PostDepth
<1>7. \A i \in 1 .. q : Lexed(t)[i] = ReadByte(Lexed(t)[i - 1], t[i])
  BY <1>2, Lexing
<1>8. BalancedObject(t) = IF t = <<>> \/ t[1] # LeftBrace \/ ends = {} THEN Nil
                          ELSE SubSeq(t, 1, Min(ends))
  BY DEF BalancedObject, LeftBrace
<1>9. q = 0 => t = <<>>
  OBVIOUS
<1> HIDE DEF k, q, l
<1> SUFFICES ASSUME q > 0, t[1] = LeftBrace PROVE ends = {}
  <2> HIDE DEF ends
  <2> QED BY <1>2, <1>8, <1>9
<1>10. k > 0
  <2>1. Back # LeftBrace
    BY DEF Back, LeftBrace
  <2>2. k = 0 => t[1] = Back
    BY <1>2, <1>4
  <2> QED BY <1>3, <2>1, <2>2
<1> DEFINE d == q - k
           T == {j \in 0 .. d : Lexed(t)[k + j].depth # 0}
<1>11. 0 \in T
  <2>1. k \in 1 .. l - 1 /\ k \in 0 .. k /\ k + 0 = k /\ 0 \in 0 .. d
    BY <1>1, <1>2, <1>3, <1>10
  <2> QED BY <1>5, <1>6, <2>1
<1>12. ASSUME NEW j \in 0 .. d - 1, j \in T PROVE j + 1 \in T
  <2> DEFINE i == k + j
             h == k + (j + 1)
  <2>1. h \in 1 .. q /\ h - 1 = i /\ h \in k + 1 .. q
    BY <1>2, <1>3
  <2>2. Lexed(t)[i].depth # 0
    BY <1>12
  <2> HIDE DEF h, i
  <2>3. Lexed(t)[h] = ReadByte(Lexed(t)[i], Back)
    BY <1>4, <1>7, <2>1
  <2>4. Lexed(t)[h].depth = Lexed(t)[i].depth
    BY <2>3, BackKeepsDepth DEF ReadByte
  <2>5. Lexed(t)[k + (j + 1)].depth # 0
    BY <2>2, <2>4 DEF h
  <2>6. j + 1 \in 0 .. d
    BY <1>2, <1>3
  <2> QED BY <2>5, <2>6
<1>13. d \in Nat
  BY <1>2, <1>3
<1>14. \A j \in 0 .. d : Lexed(t)[k + j].depth # 0
  <2> HIDE DEF d
  <2>1. \A j \in 0 .. d : j \in T
    <3> HIDE DEF T
    <3> QED BY <1>11, <1>12, <1>13, Induction
  <2> QED BY <2>1
<1>15. ASSUME NEW i \in 1 .. q PROVE Lexed(t)[i].depth # 0
  <2>1. CASE i <= k
    <3>1. i \in 1 .. l - 1 /\ i \in 0 .. k
      BY <1>1, <1>3, <2>1
    <3> QED BY <1>5, <1>6, <3>1
  <2>2. CASE i > k
    <3>1. i - k \in 0 .. d /\ k + (i - k) = i
      BY <1>2, <1>3, <2>2
    <3> QED BY <1>14, <3>1
  <2> QED BY <1>3, <2>1, <2>2
<1> QED BY <1>2, <1>15

LEMMA Words ==
    /\ \A a, b \in Byte : <<a, b>> \in Seq(Byte) /\ Len(<<a, b>>) = 2 /\ <<a, b>> # <<>>
    /\ \A a, b, c \in Byte : <<a, b, c>> \in Seq(Byte) /\ Len(<<a, b, c>>) = 3 /\ <<a, b, c>> # <<>>
    /\ \A a, b, c, d \in Byte :
          <<a, b, c, d>> \in Seq(Byte) /\ Len(<<a, b, c, d>>) = 4 /\ <<a, b, c, d>> # <<>>
OBVIOUS

Needle(key) == <<Quote, key, Quote, Colon>>

LEMMA NeedleReads ==
    ASSUME NEW text \in Seq(Byte), NEW key \in Byte, NEW i \in 1 .. Len(text)
    PROVE  Reads(text, i, Needle(key)) <=>
             /\ i + 3 <= Len(text) /\ text[i] = Quote /\ text[i + 1] = key /\ text[i + 2] = Quote
             /\ text[i + 3] = Colon
<1> DEFINE w == Needle(key)
<1>1. w \in Seq(Byte) /\ Len(w) = 4 /\ w # <<>>
  BY InByte, Words DEF Needle
<1>2. w[1] = Quote /\ w[2] = key /\ w[3] = Quote /\ w[4] = Colon
  BY DEF Needle
<1> HIDE DEF w
<1>3. Reads(text, i, w) <=> /\ i + Len(w) - 1 <= Len(text)
                            /\ \A k \in 1 .. Len(w) : text[i + k - 1] = w[k]
  BY <1>1, ReadsAt
<1>4. (\A k \in 1 .. 4 : text[i + k - 1] = w[k]) <=>
        text[i] = w[1] /\ text[i + 1] = w[2] /\ text[i + 2] = w[3] /\ text[i + 3] = w[4]
  <2>1. \A k \in 1 .. 4 : k = 1 \/ k = 2 \/ k = 3 \/ k = 4
    OBVIOUS
  <2>2. i + 1 - 1 = i /\ i + 2 - 1 = i + 1 /\ i + 3 - 1 = i + 2 /\ i + 4 - 1 = i + 3
    OBVIOUS
  <2> QED BY <2>1, <2>2
<1>5. i + 4 - 1 <= Len(text) <=> i + 3 <= Len(text)
  OBVIOUS
<1> QED BY <1>1, <1>2, <1>3, <1>4, <1>5 DEF w

Behind(text, i) == BalancedObject(SubSeq(text, i + 4, Len(text)))

LEMMA Finding ==
    ASSUME NEW text, NEW key
    PROVE  \E found \in SUBSET DOMAIN text :
             /\ found = {i \in DOMAIN text : Reads(text, i, Needle(key)) /\ Behind(text, i) # Nil}
             /\ FindObject(text, key) = IF found = {} THEN Nil ELSE Behind(text, Min(found))
<1> DEFINE found == {i \in DOMAIN text : Reads(text, i, Needle(key)) /\ Behind(text, i) # Nil}
<1>1. Len(<<Quote, key, Quote, Colon>>) = 4
  OBVIOUS
<1>2. FindObject(text, key) = IF found = {} THEN Nil ELSE Behind(text, Min(found))
  BY <1>1 DEF FindObject, Behind, Needle, Colon
<1> QED BY <1>2

LEMMA NoNeedle ==
    ASSUME NEW text \in Seq(Byte), NEW key \in Byte,
           \A i \in 1 .. Len(text) - 1 : text[i] = key => text[i + 1] # Quote
    PROVE  FindObject(text, key) = Nil
<1>1. ASSUME NEW i \in DOMAIN text, Reads(text, i, Needle(key)) PROVE FALSE
  <2>1. i \in 1 .. Len(text)
    OBVIOUS
  <2>2. i + 3 <= Len(text) /\ text[i + 1] = key /\ text[i + 2] = Quote
    BY <1>1, <2>1, NeedleReads
  <2> DEFINE j == i + 1
  <2>3. j \in 1 .. Len(text) - 1 /\ j + 1 = i + 2
    BY <2>1, <2>2
  <2> HIDE DEF j
  <2>4. text[j] = key /\ text[j + 1] = Quote
    BY <2>2, <2>3 DEF j
  <2> QED BY <2>3, <2>4
<1> QED BY <1>1, Finding

LEMMA OneNeedle ==
    ASSUME NEW text \in Seq(Byte), NEW key \in Byte, NEW q \in Nat \ {0},
           \A i \in 1 .. Len(text) : text[i] = key => i = q + 1
    PROVE  /\ FindObject(text, key) \in {Nil, Behind(text, q)}
           /\ (q \in 1 .. Len(text) /\ Reads(text, q, Needle(key))) =>
                FindObject(text, key) = Behind(text, q)
<1>1. PICK found \in SUBSET DOMAIN text :
        /\ found = {i \in DOMAIN text : Reads(text, i, Needle(key)) /\ Behind(text, i) # Nil}
        /\ FindObject(text, key) = IF found = {} THEN Nil ELSE Behind(text, Min(found))
  BY Finding
<1>2. DOMAIN text = 1 .. Len(text) /\ Len(text) \in Nat
  OBVIOUS
<1>3. ASSUME NEW i \in DOMAIN text, Reads(text, i, Needle(key)) PROVE i = q
  <2>1. i \in 1 .. Len(text)
    BY <1>2
  <2>2. i + 3 <= Len(text) /\ text[i + 1] = key
    BY <1>3, <2>1, NeedleReads
  <2> DEFINE j == i + 1
  <2>3. j \in 1 .. Len(text)
    BY <1>2, <2>1, <2>2
  <2> HIDE DEF j
  <2>4. text[j] = key
    BY <2>2 DEF j
  <2>5. j = q + 1
    BY <2>3, <2>4
  <2> QED BY <2>1, <2>5 DEF j
<1>4. found \subseteq {q}
  BY <1>1, <1>3
<1>5. Min({q}) = q
  BY DEF Min
<1>6. found # {} => found = {q}
  BY <1>4
<1>7. found # {} => FindObject(text, key) = Behind(text, q)
  BY <1>1, <1>5, <1>6
<1>8. found = {} => FindObject(text, key) = Nil
  BY <1>1
<1>9. ASSUME q \in 1 .. Len(text), Reads(text, q, Needle(key)), found = {}
      PROVE  Behind(text, q) = Nil
  BY <1>1, <1>2, <1>9
<1> QED BY <1>7, <1>8, <1>9

LEMMA Slice ==
    ASSUME NEW s \in Seq(Byte), NEW a \in Nat \ {0}, NEW b \in Nat, a <= b + 1, b <= Len(s)
    PROVE  /\ SubSeq(s, a, b) \in Seq(Byte) /\ Len(SubSeq(s, a, b)) = b - a + 1
           /\ \A i \in 1 .. b - a + 1 : SubSeq(s, a, b)[i] = s[a + i - 1]
<1>1. \A i \in a .. b : s[i] \in Byte
  OBVIOUS
<1>2. /\ SubSeq(s, a, b) \in Seq(Byte)
      /\ Len(SubSeq(s, a, b)) = IF a <= b THEN b - a + 1 ELSE 0
      /\ \A i \in 1 .. b - a + 1 : SubSeq(s, a, b)[i] = s[a + i - 1]
  BY <1>1, SubSeqProperties
<1>3. (IF a <= b THEN b - a + 1 ELSE 0) = b - a + 1
  OBVIOUS
<1> QED BY <1>2, <1>3

LEMMA FirstBytes ==
    ASSUME NEW s \in Seq(Byte), NEW k \in Nat, k <= Len(s)
    PROVE  /\ SubSeq(s, 1, k) \in Seq(Byte) /\ Len(SubSeq(s, 1, k)) = k
           /\ \A i \in 1 .. k : SubSeq(s, 1, k)[i] = s[i]
<1>1. 1 \in Nat \ {0} /\ 1 <= k + 1 /\ k - 1 + 1 = k /\ \A i \in 1 .. k : 1 + i - 1 = i
  OBVIOUS
<1>2. /\ SubSeq(s, 1, k) \in Seq(Byte) /\ Len(SubSeq(s, 1, k)) = k - 1 + 1
      /\ \A i \in 1 .. k - 1 + 1 : SubSeq(s, 1, k)[i] = s[1 + i - 1]
  BY <1>1, Slice
<1> QED BY <1>1, <1>2

LEMMA Reversed ==
    ASSUME NEW s \in Seq(Byte), NEW n, n = Len(s)
    PROVE  /\ Reverse(s) \in Seq(Byte) /\ Len(Reverse(s)) = n
           /\ \A i \in 1 .. n : Reverse(s)[i] = s[n - i + 1]
<1>1. n \in Nat /\ \A i \in 1 .. n : n - i + 1 \in 1 .. Len(s)
  OBVIOUS
<1>2. \A i \in 1 .. n : s[n - i + 1] \in Byte
  BY <1>1
<1> QED BY <1>1, <1>2 DEF Reverse

LEMMA DecodedNil == Decoded(Nil) = {}
<1>1. Len(Nil) = 0
  BY DEF Nil
<1>2. ~IsPrefix(Opening, Nil)
  BY <1>1, OpeningAndCounters DEF IsPrefix
<1> QED BY <1>2 DEF Decoded

LEMMA DecodedPost ==
    ASSUME NEW e, NEW p, NEW n, IsPost(p, e, n), IsText(e)
    PROVE  Decoded(p) = {"counted"}
<1> DEFINE o == Opening
           c == Counters
<1>1. /\ n \in Nat /\ p \in Seq(Byte) /\ Len(p) = n + 26
      /\ \A i \in 1 .. 12 : p[i] = o[i]
      /\ \A j \in 1 .. n : p[12 + j] = e[j]
      /\ \A k \in 1 .. 14 : p[12 + n + k] = c[k]
  <2>1. PostBytes(p, e, n)
    BY PostShape
  <2> QED BY <2>1 DEF PostBytes
<1>2. o \in Seq(Byte) /\ Len(o) = 12 /\ c \in Seq(Byte) /\ Len(c) = 14
  BY OpeningAndCounters
<1>3. e \in Seq(Byte) /\ Len(e) = n
  BY DEF IsPost
<1>8. n \in Nat /\ p \in Seq(Byte) /\ Len(p) = n + 26
  BY <1>1
<1> HIDE DEF o, c
<1>4. IsPrefix(o, p)
  <2> DEFINE a == SubSeq(o, 1, 12)
             b == SubSeq(p, 1, 12)
  <2>1. a \in Seq(Byte) /\ Len(a) = 12 /\ \A i \in 1 .. 12 : a[i] = o[i]
    <3>1. 12 \in Nat /\ 12 <= Len(o)
      BY <1>2
    <3> QED BY <1>2, <3>1, FirstBytes
  <2>2. b \in Seq(Byte) /\ Len(b) = 12 /\ \A i \in 1 .. 12 : b[i] = p[i]
    BY <1>8
  <2> HIDE DEF a, b
  <2>3. \A i \in 1 .. 12 : a[i] = b[i]
    BY <1>1, <2>1, <2>2
  <2>4. a = b
    BY <2>1, <2>2, <2>3, SeqEqual
  <2> QED BY <1>2, <1>8, <2>4 DEF IsPrefix, a, b
<1>5. IsSuffix(c, p)
  <2> DEFINE s == Reverse(c)
             r == Reverse(p)
             a == SubSeq(s, 1, 14)
             b == SubSeq(r, 1, 14)
  <2>1. s \in Seq(Byte) /\ Len(s) = 14 /\ \A i \in 1 .. 14 : s[i] = c[14 - i + 1]
    BY <1>2, Reversed
  <2>2. r \in Seq(Byte) /\ Len(r) = n + 26 /\ \A i \in 1 .. n + 26 : r[i] = p[n + 26 - i + 1]
    BY <1>8 DEF Reverse
  <2> HIDE DEF s, r
  <2>3. a \in Seq(Byte) /\ Len(a) = 14 /\ \A i \in 1 .. 14 : a[i] = s[i]
    <3>1. 14 \in Nat /\ 14 <= Len(s)
      BY <2>1
    <3> QED BY <2>1, <3>1, FirstBytes
  <2>4. b \in Seq(Byte) /\ Len(b) = 14 /\ \A i \in 1 .. 14 : b[i] = r[i]
    <3>1. 14 \in Nat /\ 14 <= Len(r)
      BY <2>2, <1>8
    <3> QED BY <2>2, <3>1, FirstBytes
  <2> HIDE DEF a, b
  <2>5. ASSUME NEW i \in 1 .. 14 PROVE a[i] = b[i]
    <3> DEFINE k == 14 - i + 1
    <3>1. k \in 1 .. 14 /\ n + 26 - i + 1 = 12 + n + k /\ i \in 1 .. n + 26
      BY <1>8
    <3>2. a[i] = c[k] /\ b[i] = p[n + 26 - i + 1]
      BY <1>8, <2>1, <2>2, <2>3, <2>4, <3>1
    <3> HIDE DEF k
    <3>3. p[12 + n + k] = c[k]
      BY <1>1, <3>1
    <3> QED BY <3>1, <3>2, <3>3
  <2>6. a = b
    BY <2>3, <2>4, <2>5, SeqEqual
  <2>7. IsPrefix(s, r)
    BY <1>8, <2>1, <2>2, <2>6 DEF IsPrefix, a, b
  <2> QED BY <2>7 DEF IsSuffix, s, r
<1>6. SubSeq(p, Len(o) + 1, Len(p) - Len(c)) = e
  <2> DEFINE s == SubSeq(p, 13, n + 12)
  <2>1. s \in Seq(Byte) /\ Len(s) = n /\ \A j \in 1 .. n : s[j] = p[12 + j]
    <3>1. \A j \in 13 .. n + 12 : p[j] \in Byte
      BY <1>8
    <3>2. s \in Seq(Byte)
      BY <3>1, <1>8, SubSeqProperties
    <3>3. Len(s) = n
      BY <3>1, <1>8, SubSeqProperties
    <3>4. \A j \in 1 .. n : s[j] = p[12 + j]
      BY <1>8
    <3> QED BY <3>2, <3>3, <3>4
  <2>2. Len(o) + 1 = 13 /\ Len(p) - Len(c) = n + 12
    BY <1>2, <1>8
  <2>3. \A j \in 1 .. n : s[j] = e[j]
    BY <1>1, <2>1
  <2> HIDE DEF s
  <2>4. s = e
    BY <1>3, <2>1, <2>3, SeqEqual
  <2> QED BY <2>2, <2>4 DEF s
<1>7. Len(p) >= Len(o) + Len(c)
  BY <1>2, <1>8
<1> QED BY <1>4, <1>5, <1>6, <1>7 DEF Decoded, o, c

Found(text) == IF FindObject(text, Keys[1]) # Nil THEN FindObject(text, Keys[1])
               ELSE FindObject(text, Keys[2])

LEMMA Extracted ==
    ASSUME NEW text
    PROVE  ExtractShortcodeMedia(text) =
             IF Decoded(Found(text)) # {} THEN Decoded(Found(text))
             ELSE Decoded(Found(UnescapeJSONString(text)))
<1> DEFINE a == Decoded(Found(text))
           b == Decoded(Found(UnescapeJSONString(text)))
           read(c) == Decoded(Found(c))
           good == {i \in DOMAIN Candidates(text) : read(Candidates(text)[i]) # {}}
<1>1. /\ DOMAIN Candidates(text) = {1, 2} /\ Candidates(text)[1] = text
      /\ Candidates(text)[2] = UnescapeJSONString(text)
  BY DEF Candidates
<1>2. ExtractShortcodeMedia(text) = IF good = {} THEN {} ELSE read(Candidates(text)[Min(good)])
  BY DEF ExtractShortcodeMedia, Found
<1>3. read(Candidates(text)[1]) = a /\ read(Candidates(text)[2]) = b
  BY <1>1
<1>4. good = {i \in {1, 2} : IF i = 1 THEN a # {} ELSE b # {}}
  BY <1>1, <1>3
<1> HIDE DEF a, b, read, good
<1>5. CASE a # {}
  <2>1. Min(good) = 1 /\ good # {}
    <3>1. 1 \in good /\ good \subseteq Nat /\ \A i \in good : 1 <= i
      BY <1>4, <1>5
    <3> QED BY <3>1, LeastOf
  <2> QED BY <1>2, <1>3, <1>5, <2>1 DEF a
<1>6. CASE a = {} /\ b # {}
  <2>1. Min(good) = 2 /\ good # {}
    <3>1. 2 \in good /\ good \subseteq Nat /\ \A i \in good : 2 <= i
      BY <1>4, <1>6
    <3> QED BY <3>1, LeastOf
  <2> QED BY <1>2, <1>3, <1>6, <2>1 DEF a, b
<1>7. CASE a = {} /\ b = {}
  <2>1. good = {}
    BY <1>4, <1>7
  <2> QED BY <1>2, <1>7, <2>1 DEF a, b
<1> QED BY <1>5, <1>6, <1>7

LEMMA FoundBehindKey ==
    ASSUME NEW text, NEW key \in ToSet(Keys), \A k \in ToSet(Keys) : k # key => FindObject(text, k) = Nil
    PROVE  Found(text) = FindObject(text, key)
<1>1. ToSet(Keys) = {Keys[1], Keys[2]}
  BY DEF ToSet, Keys
<1> QED BY <1>1 DEF Found

LEMMA PairReads ==
    ASSUME NEW text \in Seq(Byte), NEW i \in 1 .. Len(text), NEW x \in Byte
    PROVE  Reads(text, i, <<Back, x>>) <=>
             i + 1 <= Len(text) /\ text[i] = Back /\ text[i + 1] = x
<1> DEFINE w == <<Back, x>>
<1>1. w \in Seq(Byte) /\ Len(w) = 2 /\ w # <<>> /\ w[1] = Back /\ w[2] = x
  BY InByte, Words
<1> HIDE DEF w
<1>2. Reads(text, i, w) <=> /\ i + Len(w) - 1 <= Len(text)
                            /\ \A k \in 1 .. Len(w) : text[i + k - 1] = w[k]
  BY <1>1, ReadsAt
<1>3. (\A k \in 1 .. 2 : text[i + k - 1] = w[k]) <=> text[i] = w[1] /\ text[i + 1] = w[2]
  <2>1. \A k \in 1 .. 2 : k = 1 \/ k = 2
    OBVIOUS
  <2>2. i + 1 - 1 = i /\ i + 2 - 1 = i + 1
    OBVIOUS
  <2> QED BY <2>1, <2>2
<1>4. i + 2 - 1 <= Len(text) <=> i + 1 <= Len(text)
  OBVIOUS
<1> QED BY <1>1, <1>2, <1>3, <1>4 DEF w

LEMMA TripleReads ==
    ASSUME NEW text \in Seq(Byte), NEW i \in 1 .. Len(text)
    PROVE  Reads(text, i, <<Back, Back, Slash>>) <=>
             i + 2 <= Len(text) /\ text[i] = Back /\ text[i + 1] = Back /\ text[i + 2] = Slash
<1> DEFINE w == <<Back, Back, Slash>>
<1>1. w \in Seq(Byte) /\ Len(w) = 3 /\ w # <<>> /\ w[1] = Back /\ w[2] = Back /\ w[3] = Slash
  BY InByte, Words
<1> HIDE DEF w
<1>2. Reads(text, i, w) <=> /\ i + Len(w) - 1 <= Len(text)
                            /\ \A k \in 1 .. Len(w) : text[i + k - 1] = w[k]
  BY <1>1, ReadsAt
<1>3. (\A k \in 1 .. 3 : text[i + k - 1] = w[k]) <=>
        text[i] = w[1] /\ text[i + 1] = w[2] /\ text[i + 2] = w[3]
  <2>1. \A k \in 1 .. 3 : k = 1 \/ k = 2 \/ k = 3
    OBVIOUS
  <2>2. i + 1 - 1 = i /\ i + 2 - 1 = i + 1 /\ i + 3 - 1 = i + 2
    OBVIOUS
  <2> QED BY <2>1, <2>2
<1>4. i + 3 - 1 <= Len(text) <=> i + 2 <= Len(text)
  OBVIOUS
<1> QED BY <1>1, <1>2, <1>3, <1>4 DEF w

Become(x, n) == [byte |-> x, length |-> n]


ReplacedWord(a, b, c, d, x) ==
    CASE a -> Become(Quote, 2)
      [] b -> Become(Slash, 3)
      [] c -> Become(Slash, 2)
      [] d -> Become(Newline, 2)
      [] OTHER -> Become(x, 1)

LEMMA Choosing ==
    ASSUME NEW a \in BOOLEAN, NEW b \in BOOLEAN, NEW c \in BOOLEAN, NEW d \in BOOLEAN, NEW x,
           ~(a /\ b), ~(a /\ c), ~(a /\ d), ~(b /\ c), ~(b /\ d), ~(c /\ d)
    PROVE  /\ a => ReplacedWord(a, b, c, d, x) = Become(Quote, 2)
           /\ b => ReplacedWord(a, b, c, d, x) = Become(Slash, 3)
           /\ c => ReplacedWord(a, b, c, d, x) = Become(Slash, 2)
           /\ d => ReplacedWord(a, b, c, d, x) = Become(Newline, 2)
           /\ ~a /\ ~b /\ ~c /\ ~d => ReplacedWord(a, b, c, d, x) = Become(x, 1)
<1>1. CASE a
  BY <1>1 DEF ReplacedWord
<1>2. CASE b
  BY <1>2 DEF ReplacedWord
<1>3. CASE c
  BY <1>3 DEF ReplacedWord
<1>4. CASE d
  BY <1>4 DEF ReplacedWord
<1>5. CASE ~a /\ ~b /\ ~c /\ ~d
  BY <1>5 DEF ReplacedWord
<1> QED BY <1>1, <1>2, <1>3, <1>4, <1>5

---------------------------------------------------------------------------
(* What unescapeJSONString writes. *)

\* The words of the replacer, one at most at each place.
LEMMA Replacing ==
    ASSUME NEW text \in Seq(Byte), NEW n, n = Len(text), NEW i \in 1 .. n, NEW j, j = i + 1,
           NEW k, k = i + 2
    PROVE  /\ text[i] # Back => Replaced(text, i) = Become(text[i], 1)
           /\ text[i] = Back /\ j <= n /\ text[j] = Quote => Replaced(text, i) = Become(Quote, 2)
           /\ text[i] = Back /\ j <= n /\ text[j] = Slash => Replaced(text, i) = Become(Slash, 2)
           /\ text[i] = Back /\ j <= n /\ text[j] = Letter => Replaced(text, i) = Become(Newline, 2)
           /\ text[i] = Back /\ k <= n /\ text[j] = Back /\ text[k] = Slash =>
                 Replaced(text, i) = Become(Slash, 3)
           /\ (/\ text[i] = Back
               /\ j <= n => text[j] \notin {Quote, Slash, Letter}
               /\ k <= n /\ text[j] = Back => text[k] # Slash) => Replaced(text, i) = Become(Back, 1)
<1> DEFINE a == Reads(text, i, <<Back, Quote>>)
           b == Reads(text, i, <<Back, Back, Slash>>)
           c == Reads(text, i, <<Back, Slash>>)
           d == Reads(text, i, <<Back, Letter>>)
           r == Replaced(text, i)
<1>1. r = ReplacedWord(a, b, c, d, text[i])
  BY DEF Replaced, Become, Slash, Letter, ReplacedWord
<1>2. /\ a <=> j <= n /\ text[i] = Back /\ text[j] = Quote
      /\ c <=> j <= n /\ text[i] = Back /\ text[j] = Slash
      /\ d <=> j <= n /\ text[i] = Back /\ text[j] = Letter
      /\ b <=> k <= n /\ text[i] = Back /\ text[j] = Back /\ text[k] = Slash
  <2>1. a <=> j <= n /\ text[i] = Back /\ text[j] = Quote
    BY InByte, PairReads
  <2>2. c <=> j <= n /\ text[i] = Back /\ text[j] = Slash
    BY InByte, PairReads
  <2>3. d <=> j <= n /\ text[i] = Back /\ text[j] = Letter
    BY InByte, PairReads
  <2>4. b <=> k <= n /\ text[i] = Back /\ text[j] = Back /\ text[k] = Slash
    BY TripleReads
  <2> QED BY <2>1, <2>2, <2>3, <2>4
<1>3. a \in BOOLEAN /\ b \in BOOLEAN /\ c \in BOOLEAN /\ d \in BOOLEAN
  BY DEF Reads, IsPrefix
<1>4. Quote # Slash /\ Quote # Letter /\ Quote # Back /\ Slash # Letter /\ Slash # Back /\ Letter # Back
  BY DEF Quote, Slash, Letter, Back
<1> HIDE DEF a, b, c, d, r
<1>5. ~(a /\ b) /\ ~(a /\ c) /\ ~(a /\ d) /\ ~(b /\ c) /\ ~(b /\ d) /\ ~(c /\ d)
  BY <1>2, <1>4
<1>6. /\ a => r = Become(Quote, 2)
      /\ b => r = Become(Slash, 3)
      /\ c => r = Become(Slash, 2)
      /\ d => r = Become(Newline, 2)
      /\ ~a /\ ~b /\ ~c /\ ~d => r = Become(text[i], 1)
  BY <1>1, <1>3, <1>5, Choosing
<1> QED BY <1>2, <1>6 DEF r

Copier == [out : Seq(Byte), skip : Nat]

LEMMA CopyType ==
    ASSUME NEW text \in Seq(Byte), NEW i \in 1 .. Len(text), NEW s \in Copier
    PROVE  Copy(s, text, i) \in Copier
<1>1. s.out \in Seq(Byte) /\ s.skip \in Nat
  BY DEF Copier
<1> DEFINE r == Replaced(text, i)
<1>2. r.byte \in Byte /\ r.length - 1 \in Nat
  <2>1. text[i] \in Byte
    OBVIOUS
  <2>2. r \in {Become(Quote, 2), Become(Slash, 3), Become(Slash, 2), Become(Newline, 2), Become(text[i], 1)}
    <3> DEFINE n == Len(text)
               j == i + 1
               k == i + 2
    <3>2. j = i + 1 /\ k = i + 2 /\ n = Len(text)
      OBVIOUS
    <3> HIDE DEF j, k, r
    <3>3. /\ text[i] # Back => r = Become(text[i], 1)
          /\ text[i] = Back /\ j <= n /\ text[j] = Quote => r = Become(Quote, 2)
          /\ text[i] = Back /\ j <= n /\ text[j] = Slash => r = Become(Slash, 2)
          /\ text[i] = Back /\ j <= n /\ text[j] = Letter => r = Become(Newline, 2)
          /\ text[i] = Back /\ k <= n /\ text[j] = Back /\ text[k] = Slash => r = Become(Slash, 3)
          /\ (/\ text[i] = Back
              /\ j <= n => text[j] \notin {Quote, Slash, Letter}
              /\ k <= n /\ text[j] = Back => text[k] # Slash) => r = Become(Back, 1)
      BY <3>2, Replacing DEF r
    <3> QED BY <3>3
  <2> HIDE DEF r
  <2> QED BY <2>1, <2>2, InByte DEF Become
<1>3. Append(s.out, r.byte) \in Seq(Byte)
  BY <1>1, <1>2
<1> HIDE DEF r
<1>4. Copy(s, text, i) = IF s.skip > 0 THEN [out |-> s.out, skip |-> s.skip - 1]
                         ELSE [out |-> Append(s.out, r.byte), skip |-> r.length - 1]
  BY DEF Copy, r
<1>5. CASE s.skip > 0
  BY <1>1, <1>4, <1>5 DEF Copier
<1>6. CASE ~(s.skip > 0)
  BY <1>2, <1>3, <1>4, <1>6 DEF Copier
<1> QED BY <1>5, <1>6

LEMMA Copying ==
    ASSUME NEW text \in Seq(Byte), NEW n \in Nat, n = Len(text)
    PROVE  /\ Copied(text) \in [0 .. n -> Copier]
           /\ Copied(text)[0] = [out |-> <<>>, skip |-> 0]
           /\ \A i \in 1 .. n : Copied(text)[i] = Copy(Copied(text)[i - 1], text, i)
<1> DEFINE h == [i \in 1 .. n |-> [s \in Copier |-> Copy(s, text, i)]]
           start == [out |-> <<>>, skip |-> 0]
<1>1. h \in Steps(n, Copier)
  BY CopyType DEF Steps
<1>2. start \in Copier
  BY DEF Copier
<1> HIDE DEF start
<1>3. PICK f : IsRun(f, n, Copier, start, h)
  <2> HIDE DEF h
  <2> QED BY <1>1, <1>2, RunsExist
<1>4. f \in [0 .. n -> Copier] /\ f[0] = start
  BY <1>3 DEF IsRun
<1>5. ASSUME NEW i \in 1 .. n PROVE f[i] = Copy(f[i - 1], text, i)
  <2>1. f[i] = h[i][f[i - 1]] /\ f[i - 1] \in Copier
    <3> HIDE DEF h
    <3> QED BY <1>3, <1>4 DEF IsRun
  <2> QED BY <2>1
<1>6. f = [i \in 0 .. n |-> IF i = 0 THEN start ELSE Copy(f[i - 1], text, i)]
  BY <1>4, <1>5
<1> DEFINE at == Copied(text)
<1>7. at = [i \in 0 .. n |-> IF i = 0 THEN start ELSE Copy(at[i - 1], text, i)]
  BY <1>6 DEF Copied, start
<1> HIDE DEF at
<1>8. at[0] = start /\ \A i \in 1 .. n : at[i] = Copy(at[i - 1], text, i)
  BY <1>7
<1>9. \A i \in 0 .. n : at[i] \in Copier
  <2> DEFINE T == {i \in 0 .. n : at[i] \in Copier}
  <2>1. 0 \in T
    BY <1>2, <1>8
  <2>2. \A i \in 0 .. n - 1 : i \in T => i + 1 \in T
    BY <1>8, CopyType
  <2>3. \A i \in 0 .. n : i \in T
    <3> HIDE DEF T
    <3> QED BY <2>1, <2>2, Induction
  <2> QED BY <2>3
<1>10. at \in [0 .. n -> Copier]
  BY <1>7, <1>9
<1> QED BY <1>8, <1>10 DEF at, start

Writing(o, k) == [out |-> o, skip |-> k]

\* Behind byte i the replacer has written o and is at no replaced word.
Wrote(b, i, o) == Copied(b)[i] = Writing(o, 0)

LEMMA CopyMoves ==
    ASSUME NEW text, NEW i, NEW o
    PROVE  /\ \A x : Replaced(text, i) = Become(x, 1) =>
                 Copy(Writing(o, 0), text, i) = Writing(Append(o, x), 0)
           /\ \A x : Replaced(text, i) = Become(x, 2) =>
                 Copy(Writing(o, 0), text, i) = Writing(Append(o, x), 1)
           /\ \A x : Replaced(text, i) = Become(x, 3) =>
                 Copy(Writing(o, 0), text, i) = Writing(Append(o, x), 2)
           /\ Copy(Writing(o, 1), text, i) = Writing(o, 0)
           /\ Copy(Writing(o, 2), text, i) = Writing(o, 1)
<1> DEFINE r == Replaced(text, i)
           s0 == [out |-> o, skip |-> 0]
           s1 == [out |-> o, skip |-> 1]
           s2 == [out |-> o, skip |-> 2]
<1>1. s0.out = o /\ s0.skip = 0 /\ s1.out = o /\ s1.skip = 1 /\ s2.out = o /\ s2.skip = 2
  OBVIOUS
<1> HIDE DEF s0, s1, s2, r
<1>2. ASSUME NEW s
      PROVE  Copy(s, text, i) = IF s.skip > 0 THEN [out |-> s.out, skip |-> s.skip - 1]
                                ELSE [out |-> Append(s.out, r.byte), skip |-> r.length - 1]
  BY DEF Copy, r
<1>3. Copy(s1, text, i) = [out |-> o, skip |-> 0] /\ Copy(s2, text, i) = [out |-> o, skip |-> 1]
  <2>1. 1 > 0 /\ 2 > 0 /\ 1 - 1 = 0 /\ 2 - 1 = 1
    OBVIOUS
  <2> QED BY <1>1, <1>2, <2>1
<1>4. Copy(s0, text, i) = [out |-> Append(o, r.byte), skip |-> r.length - 1]
  <2>1. ~(0 > 0)
    OBVIOUS
  <2> QED BY <1>1, <1>2, <2>1
<1>5. \A x, m : r = Become(x, m) => r.byte = x /\ r.length = m
  BY DEF Become
<1>6. 1 - 1 = 0 /\ 2 - 1 = 1 /\ 3 - 1 = 2
  OBVIOUS
<1>7. \A x : r = Become(x, 1) => Copy(s0, text, i) = [out |-> Append(o, x), skip |-> 0]
  BY <1>4, <1>5, <1>6
<1>8. \A x : r = Become(x, 2) => Copy(s0, text, i) = [out |-> Append(o, x), skip |-> 1]
  BY <1>4, <1>5, <1>6
<1>9. \A x : r = Become(x, 3) => Copy(s0, text, i) = [out |-> Append(o, x), skip |-> 2]
  BY <1>4, <1>5, <1>6
<1> QED BY <1>3, <1>7, <1>8, <1>9 DEF r, s0, s1, s2, Writing

LEMMA WroteNothing ==
    ASSUME NEW b \in Seq(Byte)
    PROVE  Wrote(b, 0, <<>>)
<1>1. Len(b) \in Nat
  OBVIOUS
<1> QED BY <1>1, Copying DEF Wrote, Writing

LEMMA WritesOne ==
    ASSUME NEW b \in Seq(Byte), NEW i \in Nat, NEW o, Wrote(b, i, o), NEW j, j = i + 1, j <= Len(b),
           NEW x, Replaced(b, j) = Become(x, 1)
    PROVE  Wrote(b, j, Append(o, x))
<1>1. Len(b) \in Nat /\ j \in 1 .. Len(b) /\ j - 1 = i
  OBVIOUS
<1>2. Copied(b)[j] = Copy(Copied(b)[i], b, j)
  BY <1>1, Copying
<1> QED BY <1>2, CopyMoves DEF Wrote

LEMMA WritesTwo ==
    ASSUME NEW b \in Seq(Byte), NEW i \in Nat, NEW o, Wrote(b, i, o), NEW j, j = i + 1, NEW k, k = i + 2,
           k <= Len(b), NEW x, Replaced(b, j) = Become(x, 2)
    PROVE  Wrote(b, k, Append(o, x))
<1>1. Len(b) \in Nat /\ j \in 1 .. Len(b) /\ j - 1 = i /\ k \in 1 .. Len(b) /\ k - 1 = j
  OBVIOUS
<1>2. Copied(b)[j] = Copy(Copied(b)[i], b, j) /\ Copied(b)[k] = Copy(Copied(b)[j], b, k)
  BY <1>1, Copying
<1> QED BY <1>2, CopyMoves DEF Wrote

LEMMA WritesThree ==
    ASSUME NEW b \in Seq(Byte), NEW i \in Nat, NEW o, Wrote(b, i, o), NEW j, j = i + 1, NEW k, k = i + 2,
           NEW l, l = i + 3, l <= Len(b), NEW x, Replaced(b, j) = Become(x, 3)
    PROVE  Wrote(b, l, Append(o, x))
<1>1. /\ Len(b) \in Nat /\ j \in 1 .. Len(b) /\ j - 1 = i
      /\ k \in 1 .. Len(b) /\ k - 1 = j /\ l \in 1 .. Len(b) /\ l - 1 = k
  OBVIOUS
<1>2. /\ Copied(b)[j] = Copy(Copied(b)[i], b, j) /\ Copied(b)[k] = Copy(Copied(b)[j], b, k)
      /\ Copied(b)[l] = Copy(Copied(b)[k], b, l)
  BY <1>1, Copying
<1> QED BY <1>2, CopyMoves DEF Wrote

LEMMA Writes ==
    ASSUME NEW b \in Seq(Byte), NEW n, n = Len(b), NEW i \in Nat, NEW o, Wrote(b, i, o),
           NEW j, j = i + 1, NEW k, k = i + 2, NEW l, l = i + 3
    PROVE  /\ j <= n /\ b[j] # Back => Wrote(b, j, Append(o, b[j]))
           /\ k <= n /\ b[j] = Back /\ b[k] = Quote => Wrote(b, k, Append(o, Quote))
           /\ k <= n /\ b[j] = Back /\ b[k] = Slash => Wrote(b, k, Append(o, Slash))
           /\ l <= n /\ b[j] = Back /\ b[k] = Back /\ b[l] = Slash => Wrote(b, l, Append(o, Slash))
           /\ (/\ j <= n /\ b[j] = Back /\ (k <= n => b[k] = Back)
               /\ l <= n => b[l] # Slash) => Wrote(b, j, Append(o, Back))
<1>0. n \in Nat
  OBVIOUS
<1> SUFFICES ASSUME j <= n PROVE
           /\ j <= n /\ b[j] # Back => Wrote(b, j, Append(o, b[j]))
           /\ k <= n /\ b[j] = Back /\ b[k] = Quote => Wrote(b, k, Append(o, Quote))
           /\ k <= n /\ b[j] = Back /\ b[k] = Slash => Wrote(b, k, Append(o, Slash))
           /\ l <= n /\ b[j] = Back /\ b[k] = Back /\ b[l] = Slash => Wrote(b, l, Append(o, Slash))
           /\ (/\ j <= n /\ b[j] = Back /\ (k <= n => b[k] = Back)
               /\ l <= n => b[l] # Slash) => Wrote(b, j, Append(o, Back))
  BY <1>0
<1>1. j \in 1 .. n /\ k = j + 1 /\ l = j + 2 /\ (l <= n => k <= n)
  BY <1>0
<1>2. /\ b[j] # Back => Replaced(b, j) = Become(b[j], 1)
      /\ b[j] = Back /\ k <= n /\ b[k] = Quote => Replaced(b, j) = Become(Quote, 2)
      /\ b[j] = Back /\ k <= n /\ b[k] = Slash => Replaced(b, j) = Become(Slash, 2)
      /\ b[j] = Back /\ l <= n /\ b[k] = Back /\ b[l] = Slash => Replaced(b, j) = Become(Slash, 3)
      /\ (/\ b[j] = Back
          /\ k <= n => b[k] \notin {Quote, Slash, Letter}
          /\ l <= n /\ b[k] = Back => b[l] # Slash) => Replaced(b, j) = Become(Back, 1)
  BY <1>1, Replacing
<1>3. \A x : Replaced(b, j) = Become(x, 1) => Wrote(b, j, Append(o, x))
  BY WritesOne
<1>4. \A x : k <= n /\ Replaced(b, j) = Become(x, 2) => Wrote(b, k, Append(o, x))
  BY WritesTwo
<1>5. \A x : l <= n /\ Replaced(b, j) = Become(x, 3) => Wrote(b, l, Append(o, x))
  BY WritesThree
<1>6. Back \notin {Quote, Slash, Letter}
  BY DEF Back, Quote, Slash, Letter
<1> QED BY <1>1, <1>2, <1>3, <1>4, <1>5, <1>6

LEMMA Unescaped ==
    ASSUME NEW b \in Seq(Byte)
    PROVE  /\ (\A i \in 1 .. Len(b) - 1 : b[i] = Back => b[i + 1] # Quote) => UnescapeJSONString(b) = b
           /\ (\E i \in 1 .. Len(b) - 1 : b[i] = Back /\ b[i + 1] = Quote) =>
                 UnescapeJSONString(b) = Copied(b)[Len(b)].out
<1> DEFINE found == \E i \in DOMAIN b : Reads(b, i, <<Back, Quote>>)
<1>1. found <=> \E i \in 1 .. Len(b) - 1 : b[i] = Back /\ b[i + 1] = Quote
  <2>1. \A i \in 1 .. Len(b) :
          Reads(b, i, <<Back, Quote>>) <=> i + 1 <= Len(b) /\ b[i] = Back /\ b[i + 1] = Quote
    BY InByte, PairReads
  <2>2. \A i \in 1 .. Len(b) : i + 1 <= Len(b) <=> i \in 1 .. Len(b) - 1
    OBVIOUS
  <2>3. DOMAIN b = 1 .. Len(b) /\ \A i \in 1 .. Len(b) - 1 : i \in 1 .. Len(b)
    OBVIOUS
  <2> QED BY <2>1, <2>2, <2>3
<1>2. UnescapeJSONString(b) = IF found THEN Copied(b)[Len(b)].out ELSE b
  BY DEF UnescapeJSONString
<1> HIDE DEF found
<1> QED BY <1>1, <1>2

LEMMA ConcatBytes ==
    \A s, t \in Seq(Byte) :
        /\ s \o t \in Seq(Byte) /\ Len(s \o t) = Len(s) + Len(t)
        /\ \A i \in 1 .. Len(s) + Len(t) : (s \o t)[i] = IF i <= Len(s) THEN s[i] ELSE t[i - Len(s)]
BY ConcatProperties

LEMMA Regroup == \A s, t, u \in Seq(Byte) : (s \o t) \o u = s \o (t \o u)
BY ConcatAssociative

\* With the typed output the replacer's moves append at the end of a text.
LEMMA WritesText ==
    ASSUME NEW b \in Seq(Byte), NEW n, n = Len(b), NEW i \in Nat, NEW o \in Seq(Byte), Wrote(b, i, o),
           NEW j, j = i + 1, NEW k, k = i + 2, NEW l, l = i + 3
    PROVE  /\ j <= n /\ b[j] # Back => Wrote(b, j, o \o <<b[j]>>)
           /\ k <= n /\ b[j] = Back /\ b[k] = Quote => Wrote(b, k, o \o <<Quote>>)
           /\ k <= n /\ b[j] = Back /\ b[k] = Slash => Wrote(b, k, o \o <<Slash>>)
           /\ l <= n /\ b[j] = Back /\ b[k] = Back /\ b[l] = Slash => Wrote(b, l, o \o <<Slash>>)
           /\ (/\ j <= n /\ b[j] = Back /\ (k <= n => b[k] = Back)
               /\ l <= n => b[l] # Slash) => Wrote(b, j, o \o <<Back>>)
<1>1. \A x \in Byte : Append(o, x) = o \o <<x>>
  BY AppendIsConcat
<1>2. j <= n => b[j] \in Byte
  <2>1. n \in Nat /\ j \in Nat \ {0}
    OBVIOUS
  <2>2. j <= n => j \in 1 .. Len(b)
    BY <2>1
  <2> QED BY <2>2
<1>3. /\ j <= n /\ b[j] # Back => Wrote(b, j, Append(o, b[j]))
      /\ k <= n /\ b[j] = Back /\ b[k] = Quote => Wrote(b, k, Append(o, Quote))
      /\ k <= n /\ b[j] = Back /\ b[k] = Slash => Wrote(b, k, Append(o, Slash))
      /\ l <= n /\ b[j] = Back /\ b[k] = Back /\ b[l] = Slash => Wrote(b, l, Append(o, Slash))
      /\ (/\ j <= n /\ b[j] = Back /\ (k <= n => b[k] = Back)
          /\ l <= n => b[l] # Slash) => Wrote(b, j, Append(o, Back))
  BY Writes
<1> QED BY <1>1, <1>2, <1>3, InByte

\* What is left of a text is copied as it is when it has no backslash, or nothing else.
LEMMA TailStays ==
    ASSUME NEW b \in Seq(Byte), NEW n, n = Len(b), NEW i \in 0 .. n, NEW o \in Seq(Byte), Wrote(b, i, o),
           NEW C \in SUBSET Byte, C = {Back} \/ Back \notin C, \A k \in i + 1 .. n : b[k] \in C
    PROVE  \E r \in Seq(C) : Wrote(b, n, o \o r)
<1> DEFINE d == n - i
           T == {m \in 0 .. d : \E r \in Seq(C) : Wrote(b, i + m, o \o r)}
<1>1. n \in Nat /\ d \in Nat /\ i + d = n /\ i + 0 = i /\ i \in Nat
  OBVIOUS
<1> HIDE DEF d
<1>2. 0 \in T
  <2>1. <<>> \in Seq(C) /\ o \o <<>> = o
    BY ConcatEmptySeq
  <2>2. Wrote(b, i + 0, o \o <<>>)
    BY <1>1, <2>1
  <2>3. \E r \in Seq(C) : Wrote(b, i + 0, o \o r)
    BY <2>1, <2>2, Zenon
  <2>4. 0 \in 0 .. d
    BY <1>1
  <2> QED BY <2>3, <2>4
<1>3. ASSUME NEW m \in 0 .. d - 1, m \in T PROVE m + 1 \in T
  <2>1. PICK r \in Seq(C) : Wrote(b, i + m, o \o r)
    BY <1>3
  <2> DEFINE h == i + m
             j == h + 1
             k == h + 2
             l == h + 3
             q == o \o r
             c == b[j]
  <2>2. /\ h \in Nat /\ j = h + 1 /\ k = h + 2 /\ l = h + 3 /\ j = i + (m + 1) /\ j \in i + 1 .. n
        /\ k \in Nat /\ l \in Nat
        /\ k <= n => k \in i + 1 .. n
        /\ l <= n => l \in i + 1 .. n
    BY <1>1
  <2>3. r \in Seq(Byte) /\ q \in Seq(Byte)
    <3>1. r \in Seq(Byte)
      BY SeqMonotonic
    <3> QED BY <3>1, ConcatProperties
  <2>4. Wrote(b, h, q)
    BY <2>1
  <2> HIDE DEF h, j, k, l, q
  <2>5. c \in C /\ c \in Byte
    BY <2>2
  <2>6. Wrote(b, j, q \o <<c>>)
    <3>1. CASE c # Back
      BY <2>2, <2>3, <2>4, <3>1, WritesText
    <3>2. CASE c = Back
      <4>1. C = {Back} /\ Back # Slash
        BY <2>5, <3>2 DEF Back, Slash
      <4>2. (k <= n => b[k] = Back) /\ (l <= n => b[l] # Slash) /\ j <= n
        BY <2>2, <4>1
      <4>3. k = h + 2 /\ l = h + 3 /\ j = h + 1 /\ h \in Nat
        BY <2>2
      <4>4. (/\ j <= n /\ b[j] = Back /\ (k <= n => b[k] = Back)
             /\ l <= n => b[l] # Slash) => Wrote(b, j, q \o <<Back>>)
        BY <2>3, <2>4, <4>3, WritesText
      <4>5. b[j] = Back
        BY <3>2
      <4> HIDE DEF c
      <4> QED BY <3>2, <4>2, <4>4, <4>5
    <3> QED BY <3>1, <3>2
  <2> DEFINE s == r \o <<c>>
  <2>7. s \in Seq(C) /\ q \o <<c>> = o \o s
    <3> DEFINE z == <<c>>
    <3>1. z \in Seq(C) /\ z \in Seq(Byte)
      BY <2>5
    <3> HIDE DEF z
    <3>2. r \o z \in Seq(C)
      BY <3>1, ConcatProperties
    <3>3. (o \o r) \o z = o \o (r \o z)
      <4>1. o \in Seq(Byte) /\ r \in Seq(Byte) /\ z \in Seq(Byte)
        BY <2>3, <3>1
      <4> HIDE DEF s, c, T
      <4> QED BY <4>1, Regroup
    <3> QED BY <3>2, <3>3 DEF q, z
  <2>8. Wrote(b, i + (m + 1), o \o s)
    BY <2>2, <2>6, <2>7
  <2>9. m + 1 \in 0 .. d
    BY <1>1
  <2> QED BY <2>7, <2>8, <2>9
<1>4. d \in T
  <2> HIDE DEF T
  <2>1. \A m \in 0 .. d : m \in T
    BY <1>1, <1>2, <1>3, Induction
  <2> QED BY <1>1, <2>1
<1> QED BY <1>1, <1>4

\* So is its beginning, up to the first backslash.
LEMMA HeadStays ==
    ASSUME NEW b \in Seq(Byte), NEW m \in 0 .. Len(b), \A k \in 1 .. m : b[k] # Back
    PROVE  Wrote(b, m, SubSeq(b, 1, m))
<1> DEFINE T == {k \in 0 .. m : Wrote(b, k, SubSeq(b, 1, k))}
<1>1. Len(b) \in Nat /\ m \in Nat /\ m <= Len(b)
  OBVIOUS
<1>2. 0 \in T
  <2>1. SubSeq(b, 1, 0) = <<>>
    BY SubSeqEmpty
  <2>2. Wrote(b, 0, SubSeq(b, 1, 0))
    BY <2>1, WroteNothing
  <2>3. 0 \in 0 .. m
    BY <1>1
  <2> QED BY <2>2, <2>3
<1>3. ASSUME NEW k \in 0 .. m - 1, k \in T PROVE k + 1 \in T
  <2> DEFINE j == k + 1
             o == SubSeq(b, 1, k)
  <2>1. k \in Nat /\ k <= Len(b) /\ j = k + 1 /\ j - 1 = k /\ j \in 1 .. m /\ j <= Len(b) /\ j \in 1 .. Len(b)
    BY <1>1
  <2> HIDE DEF j
  <2>2. o \in Seq(Byte) /\ Wrote(b, k, o)
    BY <1>3, <2>1, FirstBytes
  <2>3. Wrote(b, j, o \o <<b[j]>>)
    <3> HIDE DEF o
    <3> QED BY <2>1, <2>2, WritesText
  <2>4. SubSeq(b, 1, j) = SubSeq(b, 1, j - 1) \o <<b[j]>>
    <3>1. 1 \in 1 .. Len(b)
      BY <1>1, <2>1
    <3> QED BY <2>1, <3>1, SubSeqRecursiveSecond
  <2>5. Wrote(b, j, SubSeq(b, 1, j))
    <3>1. SubSeq(b, 1, j) = o \o <<b[j]>>
      BY <2>1, <2>4
    <3> HIDE DEF o
    <3> QED BY <2>3, <3>1
  <2>6. j \in 0 .. m
    BY <2>1
  <2> QED BY <2>5, <2>6 DEF j
<1>4. \A k \in 0 .. m : k \in T
  <2> HIDE DEF T
  <2> QED BY <1>1, <1>2, <1>3, Induction
<1> QED BY <1>1, <1>4

---------------------------------------------------------------------------
(* A text escaped twice and unescaped once, cut off anywhere. *)

\* A byte of a rendered post that has no backslash and no line break of its own.
Clean == Byte \ {Back, Newline}
Slashes(slash) == [c \in Byte |-> IF c = Slash /\ slash THEN <<Back, Slash>> ELSE <<c>>]
Twofold(inner, outer) == [c \in Byte |-> Coded(Slashes(inner)[c], Escapement(outer))]

LEMMA Codes ==
    ASSUME NEW inner, NEW outer
    PROVE  Slashes(inner) \in Code /\ Escapement(outer) \in Code /\ Twofold(inner, outer) \in Code
<1>1. \A c \in Byte : <<c>> \in Seq(Byte)
  OBVIOUS
<1>2. <<Back, Slash>> \in Seq(Byte)
  BY InByte, Words
<1>3. Slashes(inner) \in Code
  BY <1>1, <1>2 DEF Slashes, Code
<1>4. Escapement(outer) \in Code
  BY EscapedType DEF Escapement, Code
<1>5. \A c \in Byte : Slashes(inner)[c] \in Seq(Byte)
  BY <1>3 DEF Code
<1>6. \A c \in Byte : Coded(Slashes(inner)[c], Escapement(outer)) \in Seq(Byte)
  BY <1>4, <1>5, CodedType
<1> QED BY <1>3, <1>4, <1>6 DEF Twofold, Code

LEMMA Glue ==
    /\ \A a, b \in Byte : <<a, b>> = <<a>> \o <<b>>
    /\ \A a, b, c \in Byte : <<a, b, c>> = <<a, b>> \o <<c>>
    /\ \A a, b, c, d \in Byte : <<a, b, c, d>> = <<a, b>> \o <<c, d>>
<1>1. ASSUME NEW a \in Byte, NEW b \in Byte PROVE <<a, b>> = <<a>> \o <<b>>
  <2>1. <<>> \in Seq(Byte) /\ <<a>> \in Seq(Byte) /\ <<a, b>> \in Seq(Byte)
    OBVIOUS
  <2>2. <<>> \o <<a, b>> = <<a, b>> /\ <<>> \o <<a>> = <<a>>
    BY <2>1, ConcatEmptySeq
  <2>3. <<>> \o <<a, b>> = (<<>> \o <<a>>) \o <<b>>
    BY <2>1, PairAsConcat
  <2> QED BY <2>2, <2>3, Zenon
<1>2. ASSUME NEW a \in Byte, NEW b \in Byte, NEW c \in Byte PROVE <<a, b, c>> = <<a, b>> \o <<c>>
  OBVIOUS
<1>3. ASSUME NEW a \in Byte, NEW b \in Byte, NEW c \in Byte, NEW d \in Byte
      PROVE  <<a, b, c, d>> = <<a, b>> \o <<c, d>>
  <2> DEFINE p == <<a, b>>
             q == <<c, d>>
             w == <<a, b, c, d>>
             pq == p \o q
  <2>3. p \in Seq(Byte) /\ Len(p) = 2 /\ p[1] = a /\ p[2] = b
    OBVIOUS
  <2>4. q \in Seq(Byte) /\ Len(q) = 2 /\ q[1] = c /\ q[2] = d
    OBVIOUS
  <2>5. w \in Seq(Byte) /\ Len(w) = 4 /\ w[1] = a /\ w[2] = b /\ w[3] = c /\ w[4] = d
    BY Words
  <2> HIDE DEF p, q, w
  <2>6. /\ pq \in Seq(Byte) /\ Len(pq) = Len(p) + Len(q)
        /\ \A i \in 1 .. Len(p) + Len(q) : pq[i] = IF i <= Len(p) THEN p[i] ELSE q[i - Len(p)]
    BY <2>3, <2>4, ConcatProperties
  <2> HIDE DEF pq
  <2>7. Len(pq) = 4 /\ pq[1] = a /\ pq[2] = b /\ pq[3] = c /\ pq[4] = d
    BY <2>3, <2>4, <2>6
  <2>8. \A i \in 1 .. 4 : w[i] = pq[i]
    <3>1. \A i \in 1 .. 4 : i = 1 \/ i = 2 \/ i = 3 \/ i = 4
      OBVIOUS
    <3> QED BY <2>5, <2>7, <3>1
  <2>9. w = pq
    BY <2>5, <2>6, <2>7, <2>8, SeqEqual
  <2> QED BY <2>9 DEF p, q, w, pq
<1> QED BY <1>1, <1>2, <1>3, Zenon

LEMMA OneEscaped ==
    ASSUME NEW slash
    PROVE  /\ Escapement(slash)[Back] = <<Back, Back>>
           /\ Escapement(slash)[Quote] = <<Back, Quote>>
           /\ Escapement(slash)[Slash] = IF slash THEN <<Back, Slash>> ELSE <<Slash>>
           /\ \A c \in Clean : c \notin {Quote, Slash} => Escapement(slash)[c] = <<c>>
<1>1. Slash \notin {Quote, Back, Newline} /\ Slash = "/"
  BY DEF Slash, Quote, Back, Newline
<1>2. Back \in Byte /\ Quote \in Byte /\ Slash \in Byte /\ \A c \in Clean : c \in Byte /\ c \notin {Back, Newline}
  BY InByte DEF Clean
<1>3. Escaped(Back, slash) = <<Back, Back>> /\ Escaped(Quote, slash) = <<Back, Quote>>
  BY Bytes DEF Escaped
<1>4. Escaped(Slash, slash) = IF slash THEN <<Back, Slash>> ELSE <<Slash>>
  BY <1>1, Zenon DEF Escaped
<1>5. \A c \in Clean : c \notin {Quote, Slash} => Escaped(c, slash) = <<c>>
  BY <1>1, <1>2, Zenon DEF Escaped
<1> QED BY <1>2, <1>3, <1>4, <1>5 DEF Escapement

\* How a byte is written when it is escaped twice, and what the replacer makes of it.
LEMMA TwofoldForms ==
    ASSUME NEW inner, NEW outer, NEW c \in Clean,
           NEW w, w = Twofold(inner, outer)[c], NEW v, v = Slashes(inner /\ outer)[c]
    PROVE  \/ w = <<c>> /\ v = <<c>>
           \/ \E x \in {Quote, Slash} : w = <<Back, x>> /\ v = <<x>>
           \/ w = <<Back, Back, Slash>> /\ v = <<Slash>>
           \/ w = <<Back, Back, Back, Slash>> /\ v = <<Back, Slash>>
<1> DEFINE f == Escapement(outer)
<1>0. c \in Byte /\ Slash \in Byte /\ Back \in Byte /\ Quote \in Byte /\ Quote # Slash
  BY InByte DEF Clean, Quote, Slash
<1>1. f \in Code
  BY Codes
<1>2. w = Coded(Slashes(inner)[c], f)
  BY <1>0 DEF Twofold
<1>3. f[Back] = <<Back, Back>> /\ f[Quote] = <<Back, Quote>>
  BY OneEscaped
<1>4. f[Slash] = IF outer THEN <<Back, Slash>> ELSE <<Slash>>
  BY OneEscaped
<1>5. c \notin {Quote, Slash} => f[c] = <<c>>
  BY OneEscaped
<1>6. v = IF c = Slash /\ inner /\ outer THEN <<Back, Slash>> ELSE <<c>>
  BY <1>0 DEF Slashes
<1>7. Slashes(inner)[c] = IF c = Slash /\ inner THEN <<Back, Slash>> ELSE <<c>>
  BY <1>0 DEF Slashes
<1> HIDE DEF f
<1>8. CASE c = Slash /\ inner
  <2>1. w = Coded(<<Back, Slash>>, f)
    BY <1>2, <1>7, <1>8
  <2>2. <<Back, Slash>> = <<Back>> \o <<Slash>> /\ <<Back>> \in Seq(Byte)
    BY <1>0, Glue
  <2>3. Coded(<<Back>> \o <<Slash>>, f) = Coded(<<Back>>, f) \o f[Slash]
    BY <1>0, <1>1, <2>2, CodedOneMore
  <2>4. Coded(<<Back>>, f) = <<Back, Back>>
    BY <1>0, <1>1, <1>3, CodedOne
  <2>5. w = <<Back, Back>> \o f[Slash]
    BY <2>1, <2>2, <2>3, <2>4
  <2>6. CASE outer
    <3>1. w = <<Back, Back>> \o <<Back, Slash>>
      BY <1>4, <2>5, <2>6
    <3>2. w = <<Back, Back, Back, Slash>>
      <4>1. <<Back, Back, Back, Slash>> = <<Back, Back>> \o <<Back, Slash>>
        <5>1. \A x, y, z, u \in Byte : <<x, y, z, u>> = <<x, y>> \o <<z, u>>
          BY Glue, Zenon
        <5> DEFINE B == Back
                   S == Slash
        <5>2. B \in Byte /\ S \in Byte
          BY <1>0
        <5> HIDE DEF B, S
        <5>3. <<B, B, B, S>> = <<B, B>> \o <<B, S>>
          BY <5>1, <5>2, Zenon
        <5> QED BY <5>3 DEF B, S
      <4> QED BY <3>1, <4>1
    <3> QED BY <1>6, <1>8, <2>6, <3>2
  <2>7. CASE ~outer
    <3>1. w = <<Back, Back>> \o <<Slash>>
      BY <1>4, <2>5, <2>7
    <3>2. w = <<Back, Back, Slash>>
      <4>1. \A x, y, z \in Byte : <<x, y, z>> = <<x, y>> \o <<z>>
        BY Glue, Zenon
      <4> DEFINE B == Back
                 S == Slash
      <4>2. B \in Byte /\ S \in Byte
        BY <1>0
      <4> HIDE DEF B, S
      <4>3. <<B, B, S>> = <<B, B>> \o <<S>>
        BY <4>1, <4>2, Zenon
      <4> QED BY <3>1, <4>3 DEF B, S
    <3> QED BY <1>6, <1>8, <2>7, <3>2
  <2> QED BY <2>6, <2>7
<1>9. CASE ~(c = Slash /\ inner)
  <2>1. w = f[c] /\ v = <<c>>
    BY <1>0, <1>1, <1>2, <1>6, <1>7, <1>9, CodedOne
  <2> QED BY <1>0, <1>3, <1>4, <1>5, <2>1
<1> QED BY <1>8, <1>9

\* The bytes of w stand in b behind byte i, as far as b goes.
Stands(b, i, w) == \A k \in 1 .. Len(w) : i + k <= Len(b) => b[i + k] = w[k]

\* A whole word w behind byte i is written as v; of a part of it only backslashes are left.
Becomes(b, i, o, w, v) ==
    /\ i + Len(w) <= Len(b) => Wrote(b, i + Len(w), o \o v)
    /\ i <= Len(b) /\ Len(b) < i + Len(w) => \E r \in Seq({Back}) : Wrote(b, Len(b), o \o r)

LEMMA PartOfWord ==
    ASSUME NEW b \in Seq(Byte), NEW i \in Nat, NEW o \in Seq(Byte), Wrote(b, i, o),
           NEW w \in Seq(Byte), Stands(b, i, w), \A k \in 1 .. Len(w) - 1 : w[k] = Back,
           i <= Len(b), Len(b) < i + Len(w)
    PROVE  \E r \in Seq({Back}) : Wrote(b, Len(b), o \o r)
<1>1. Len(b) \in Nat /\ Len(w) \in Nat /\ i \in 0 .. Len(b)
  OBVIOUS
<1>2. ASSUME NEW k \in i + 1 .. Len(b) PROVE b[k] = Back
  <2> DEFINE m == k - i
  <2>1. m \in 1 .. Len(w) - 1 /\ m \in 1 .. Len(w) /\ i + m = k /\ k <= Len(b)
    BY <1>1
  <2> HIDE DEF m
  <2>2. b[i + m] = w[m] /\ w[m] = Back
    BY <2>1 DEF Stands
  <2> QED BY <2>1, <2>2
<1> DEFINE C == {Back}
           n == Len(b)
<1>3. C \in SUBSET Byte /\ C = {Back}
  BY InByte
<1>4. \A k \in i + 1 .. n : b[k] \in C
  BY <1>2
<1>5. n = Len(b) /\ i \in 0 .. n
  BY <1>1
<1> HIDE DEF C, n
<1>6. \E r \in Seq(C) : Wrote(b, n, o \o r)
  BY <1>3, <1>4, <1>5, TailStays
<1> QED BY <1>6 DEF C, n

LEMMA SingleBecomes ==
    ASSUME NEW b \in Seq(Byte), NEW i \in Nat, NEW o \in Seq(Byte), Wrote(b, i, o),
           NEW c \in Byte \ {Back}, Stands(b, i, <<c>>)
    PROVE  Becomes(b, i, o, <<c>>, <<c>>)
<1> DEFINE w == <<c>>
           j == i + 1
           k == i + 2
           l == i + 3
<1>1. w \in Seq(Byte) /\ Len(w) = 1 /\ w[1] = c /\ Len(b) \in Nat
  OBVIOUS
<1>2. j = i + 1 /\ k = i + 2 /\ l = i + 3
  OBVIOUS
<1> HIDE DEF w, j, k, l
<1>3. j <= Len(b) => b[j] = c
  BY <1>1, <1>2 DEF Stands, w
<1>4. j <= Len(b) => Wrote(b, j, o \o <<c>>)
  BY <1>2, <1>3, WritesText
<1>5. \A h \in 1 .. Len(w) - 1 : w[h] = Back
  BY <1>1
<1>6. i <= Len(b) /\ Len(b) < i + Len(w) => \E r \in Seq({Back}) : Wrote(b, Len(b), o \o r)
  BY <1>1, <1>5, PartOfWord DEF w
<1>7. i + Len(w) = j
  BY <1>1, <1>2
<1> QED BY <1>4, <1>6, <1>7 DEF Becomes, w

LEMMA PairBecomes ==
    ASSUME NEW b \in Seq(Byte), NEW i \in Nat, NEW o \in Seq(Byte), Wrote(b, i, o),
           NEW x \in {Quote, Slash}, Stands(b, i, <<Back, x>>)
    PROVE  Becomes(b, i, o, <<Back, x>>, <<x>>)
<1> DEFINE w == <<Back, x>>
           j == i + 1
           k == i + 2
           l == i + 3
<1>1. w \in Seq(Byte) /\ Len(w) = 2 /\ w[1] = Back /\ w[2] = x /\ Len(b) \in Nat
  BY InByte, Words
<1>2. j = i + 1 /\ k = i + 2 /\ l = i + 3
  OBVIOUS
<1> HIDE DEF w, j, k, l
<1>3. Stands(b, i, w)
  BY DEF w
<1>4. k <= Len(b) => b[j] = Back /\ b[k] = x
  BY <1>1, <1>2, <1>3 DEF Stands
<1>5. k <= Len(b) => Wrote(b, k, o \o <<x>>)
  BY <1>2, <1>4, WritesText
<1>6. \A h \in 1 .. Len(w) - 1 : w[h] = Back
  BY <1>1
<1>7. i <= Len(b) /\ Len(b) < i + Len(w) => \E r \in Seq({Back}) : Wrote(b, Len(b), o \o r)
  BY <1>1, <1>3, <1>6, PartOfWord
<1>8. i + Len(w) = k
  BY <1>1, <1>2
<1> QED BY <1>5, <1>7, <1>8 DEF Becomes, w

LEMMA TripleBecomes ==
    ASSUME NEW b \in Seq(Byte), NEW i \in Nat, NEW o \in Seq(Byte), Wrote(b, i, o),
           Stands(b, i, <<Back, Back, Slash>>)
    PROVE  Becomes(b, i, o, <<Back, Back, Slash>>, <<Slash>>)
<1> DEFINE w == <<Back, Back, Slash>>
           j == i + 1
           k == i + 2
           l == i + 3
<1>1. w \in Seq(Byte) /\ Len(w) = 3 /\ w[1] = Back /\ w[2] = Back /\ w[3] = Slash /\ Len(b) \in Nat
  BY InByte, Words
<1>2. j = i + 1 /\ k = i + 2 /\ l = i + 3
  OBVIOUS
<1> HIDE DEF w, j, k, l
<1>3. Stands(b, i, w)
  BY DEF w
<1>4. l <= Len(b) => b[j] = Back /\ b[k] = Back /\ b[l] = Slash
  BY <1>1, <1>2, <1>3 DEF Stands
<1>5. l <= Len(b) => Wrote(b, l, o \o <<Slash>>)
  BY <1>2, <1>4, WritesText
<1>6. \A h \in 1 .. Len(w) - 1 : w[h] = Back
  BY <1>1
<1>7. i <= Len(b) /\ Len(b) < i + Len(w) => \E r \in Seq({Back}) : Wrote(b, Len(b), o \o r)
  BY <1>1, <1>3, <1>6, PartOfWord
<1>8. i + Len(w) = l
  BY <1>1, <1>2
<1> QED BY <1>5, <1>7, <1>8 DEF Becomes, w

LEMMA QuadrupleBecomes ==
    ASSUME NEW b \in Seq(Byte), NEW i \in Nat, NEW o \in Seq(Byte), Wrote(b, i, o),
           Stands(b, i, <<Back, Back, Back, Slash>>)
    PROVE  Becomes(b, i, o, <<Back, Back, Back, Slash>>, <<Back, Slash>>)
<1> DEFINE w == <<Back, Back, Back, Slash>>
           j == i + 1
           k == i + 2
           l == i + 3
           m == i + 4
           p == o \o <<Back>>
<1>1. /\ w \in Seq(Byte) /\ Len(w) = 4 /\ w[1] = Back /\ w[2] = Back /\ w[3] = Back /\ w[4] = Slash
      /\ Len(b) \in Nat
  BY InByte, Words
<1>2. j = i + 1 /\ k = i + 2 /\ l = i + 3 /\ j \in Nat /\ k = j + 1 /\ l = j + 2 /\ m = j + 3
      /\ m = i + 4
  OBVIOUS
<1>11. p \in Seq(Byte) /\ p \o <<Slash>> = o \o <<Back, Slash>>
  <2>1. o \o <<Back, Slash>> = (o \o <<Back>>) \o <<Slash>>
    BY InByte, PairAsConcat
  <2>2. o \o <<Back>> \in Seq(Byte)
    BY InByte, PairAsConcat
  <2> QED BY <2>1, <2>2
<1> HIDE DEF w, j, k, l, m, p
<1>3. Stands(b, i, w)
  BY DEF w
<1>4. m <= Len(b) => b[j] = Back /\ b[k] = Back /\ b[l] = Back /\ b[m] = Slash
  BY <1>1, <1>2, <1>3 DEF Stands
<1>5. Back # Slash
  BY DEF Back, Slash
<1>6. m <= Len(b) => Wrote(b, j, p)
  <2>1. m <= Len(b) => j <= Len(b)
    BY <1>1, <1>2
  <2> QED BY <1>2, <1>4, <1>5, <2>1, WritesText DEF p
<1>7. m <= Len(b) => Wrote(b, m, p \o <<Slash>>)
  BY <1>2, <1>4, <1>6, <1>11, WritesText
<1>8. \A h \in 1 .. Len(w) - 1 : w[h] = Back
  BY <1>1
<1>9. i <= Len(b) /\ Len(b) < i + Len(w) => \E r \in Seq({Back}) : Wrote(b, Len(b), o \o r)
  BY <1>1, <1>3, <1>8, PartOfWord
<1>10. i + Len(w) = m
  BY <1>1, <1>2
<1> QED BY <1>7, <1>9, <1>10, <1>11 DEF Becomes, w

LEMMA WordBecomes ==
    ASSUME NEW inner, NEW outer, NEW c \in Clean,
           NEW w, w = Twofold(inner, outer)[c], NEW v, v = Slashes(inner /\ outer)[c],
           NEW b \in Seq(Byte), NEW i \in Nat, NEW o \in Seq(Byte), Wrote(b, i, o), Stands(b, i, w)
    PROVE  Becomes(b, i, o, w, v)
<1>1. c \in Byte \ {Back}
  BY DEF Clean
<1>2. CASE w = <<c>> /\ v = <<c>>
  BY <1>1, <1>2, SingleBecomes
<1>3. CASE \E x \in {Quote, Slash} : w = <<Back, x>> /\ v = <<x>>
  BY <1>3, PairBecomes
<1>4. CASE w = <<Back, Back, Slash>> /\ v = <<Slash>>
  BY <1>4, TripleBecomes
<1>5. CASE w = <<Back, Back, Back, Slash>> /\ v = <<Back, Slash>>
  BY <1>5, QuadrupleBecomes
<1> QED BY <1>2, <1>3, <1>4, <1>5, TwofoldForms

\* s is the text W cut at m, with some backslashes behind it.
CutOff(s, W, m) ==
    /\ s \in Seq(Byte) /\ W \in Seq(Byte) /\ m \in 0 .. Len(W) - 1
    /\ \A i \in 1 .. Len(s) : s[i] = IF i <= m THEN W[i] ELSE Back

LEMMA CutOffMore ==
    ASSUME NEW s, NEW W, NEW m, CutOff(s, W, m), NEW v \in Seq(Byte)
    PROVE  CutOff(s, W \o v, m)
<1> DEFINE V == W \o v
<1>1. W \in Seq(Byte) /\ m \in 0 .. Len(W) - 1 /\ s \in Seq(Byte)
  BY DEF CutOff
<1>2. V \in Seq(Byte) /\ Len(V) = Len(W) + Len(v) /\ \A i \in 1 .. Len(W) : V[i] = W[i]
  <2>1. /\ V \in Seq(Byte) /\ Len(V) = Len(W) + Len(v)
        /\ \A i \in 1 .. Len(W) + Len(v) : V[i] = IF i <= Len(W) THEN W[i] ELSE v[i - Len(W)]
    BY <1>1, ConcatProperties
  <2>2. Len(W) \in Nat /\ Len(v) \in Nat
    BY <1>1
  <2> HIDE DEF V
  <2> QED BY <2>1, <2>2
<1> HIDE DEF V
<1>3. Len(W) \in Nat /\ Len(v) \in Nat /\ Len(s) \in Nat
  BY <1>1
<1>4. m \in 0 .. Len(V) - 1 /\ \A i \in 1 .. Len(s) : i <= m => i \in 1 .. Len(W)
  BY <1>1, <1>2, <1>3
<1>5. ASSUME NEW i \in 1 .. Len(s) PROVE s[i] = IF i <= m THEN V[i] ELSE Back
  <2>1. s[i] = IF i <= m THEN W[i] ELSE Back
    BY DEF CutOff
  <2> QED BY <1>2, <1>4, <2>1
<1> QED BY <1>1, <1>2, <1>4, <1>5 DEF CutOff, V

LEMMA CutOffHere ==
    ASSUME NEW W \in Seq(Byte), NEW v \in Seq(Byte), v # <<>>, NEW r \in Seq({Back})
    PROVE  CutOff(W \o r, W \o v, Len(W))
<1> DEFINE s == W \o r
           V == W \o v
           m == Len(W)
<1>1. r \in Seq(Byte)
  <2>1. {Back} \subseteq Byte
    BY InByte
  <2> QED BY <2>1, SeqMonotonic
<1>2. m \in Nat /\ Len(v) \in Nat \ {0} /\ Len(r) \in Nat /\ \A i \in 1 .. Len(r) : r[i] = Back
  <2>1. \A i \in 1 .. Len(r) : r[i] \in {Back}
    OBVIOUS
  <2> QED BY <1>1, <2>1
<1>3. /\ s \in Seq(Byte) /\ Len(s) = m + Len(r)
      /\ \A i \in 1 .. m + Len(r) : s[i] = IF i <= m THEN W[i] ELSE r[i - m]
  BY <1>1, ConcatProperties
<1>4. /\ V \in Seq(Byte) /\ Len(V) = m + Len(v)
      /\ \A i \in 1 .. m + Len(v) : V[i] = IF i <= m THEN W[i] ELSE v[i - m]
  BY ConcatProperties
<1> HIDE DEF s, V, m
<1>5. m \in 0 .. Len(V) - 1
  BY <1>2, <1>4
<1>6. ASSUME NEW i \in 1 .. Len(s) PROVE s[i] = IF i <= m THEN V[i] ELSE Back
  <2>1. CASE i <= m
    <3>1. i \in 1 .. m + Len(r) /\ i \in 1 .. m + Len(v)
      BY <1>2, <1>3, <2>1
    <3>2. s[i] = W[i] /\ V[i] = W[i]
      BY <1>3, <1>4, <2>1, <3>1
    <3> QED BY <2>1, <3>2
  <2>2. CASE ~(i <= m)
    <3>1. i \in 1 .. m + Len(r) /\ i - m \in 1 .. Len(r)
      BY <1>2, <1>3, <2>2
    <3>2. s[i] = r[i - m]
      BY <1>3, <2>2, <3>1
    <3> QED BY <1>2, <2>2, <3>1, <3>2
  <2> QED BY <2>1, <2>2
<1> QED BY <1>3, <1>4, <1>5, <1>6 DEF CutOff, s, V, m

LEMMA StandsParts ==
    ASSUME NEW b \in Seq(Byte), NEW h \in Nat, NEW w \in Seq(Byte), NEW x \in Seq(Byte),
           Stands(b, h, w \o x)
    PROVE  Stands(b, h, w) /\ Stands(b, h + Len(w), x)
<1> DEFINE y == w \o x
           n == Len(w)
<1>1. n \in Nat /\ Len(x) \in Nat /\ Len(b) \in Nat
  OBVIOUS
<1>2. /\ y \in Seq(Byte) /\ Len(y) = n + Len(x)
      /\ \A i \in 1 .. n + Len(x) : y[i] = IF i <= n THEN w[i] ELSE x[i - n]
  BY ConcatProperties
<1> HIDE DEF y, n
<1>3. \A i \in 1 .. n + Len(x) : h + i <= Len(b) => b[h + i] = y[i]
  BY <1>2 DEF Stands, y
<1>4. ASSUME NEW k \in 1 .. n, h + k <= Len(b) PROVE b[h + k] = w[k]
  <2>1. k \in 1 .. n + Len(x) /\ k <= n
    BY <1>1
  <2> QED BY <1>2, <1>3, <1>4, <2>1
<1>5. ASSUME NEW k \in 1 .. Len(x), (h + n) + k <= Len(b) PROVE b[(h + n) + k] = x[k]
  <2> DEFINE i == n + k
  <2>1. i \in 1 .. n + Len(x) /\ ~(i <= n) /\ i - n = k /\ h + i = (h + n) + k
    BY <1>1
  <2> HIDE DEF i
  <2>2. y[i] = x[i - n] /\ b[h + i] = y[i]
    BY <1>2, <1>3, <1>5, <2>1
  <2> QED BY <2>1, <2>2
<1> QED BY <1>4, <1>5 DEF Stands, n

\* w stands behind byte h of b, where o was written: it is written as v, or cut off.
Copies(b, h, o, w, v) ==
    Stands(b, h, w) =>
       /\ h + Len(w) <= Len(b) => Wrote(b, h + Len(w), o \o v)
       /\ Len(b) < h + Len(w) => \E s, m : Wrote(b, Len(b), s) /\ CutOff(s, o \o v, m)

\* Wherever x stands in b, the replacer writes y for it.
Translates(b, x, y) ==
    \A i \in Nat : \A q \in Seq(Byte) :
        Wrote(b, i, q) /\ Stands(b, i, x) => Becomes(b, i, q, x, y)

LEMMA CopiesMore ==
    ASSUME NEW b \in Seq(Byte), NEW h \in Nat, NEW o \in Seq(Byte), NEW w \in Seq(Byte),
           NEW v \in Seq(Byte), NEW x \in Seq(Byte), NEW y \in Seq(Byte), y # <<>>,
           Copies(b, h, o, w, v), Translates(b, x, y)
    PROVE  Copies(b, h, o, w \o x, v \o y)
<1> DEFINE i == h + Len(w)
           q == o \o v
           u == w \o x
           z == v \o y
           n == Len(b)
<1>1. n \in Nat /\ Len(w) \in Nat /\ Len(x) \in Nat /\ i \in Nat
  OBVIOUS
<1>2. q \in Seq(Byte) /\ u \in Seq(Byte) /\ z \in Seq(Byte) /\ Len(u) = Len(w) + Len(x)
  BY ConcatProperties
<1>3. o \o z = q \o y
  <2>1. \A t, r \in Seq(Byte) : (o \o t) \o r = o \o (t \o r)
    BY Regroup, Zenon
  <2>2. \A r \in Seq(Byte) : (o \o v) \o r = o \o (v \o r)
    BY <2>1, Zenon
  <2> QED BY <2>2, Zenon
<1> SUFFICES ASSUME Stands(b, h, u)
             PROVE  /\ h + Len(u) <= n => Wrote(b, h + Len(u), o \o z)
                    /\ n < h + Len(u) => \E s, m : Wrote(b, n, s) /\ CutOff(s, o \o z, m)
  BY DEF Copies
<1>4. Stands(b, h, w) /\ Stands(b, i, x)
  BY StandsParts
<1>5. h + Len(u) = i + Len(x)
  BY <1>1, <1>2
<1>6. /\ i <= n => Wrote(b, i, q)
      /\ n < i => \E s, m : Wrote(b, n, s) /\ CutOff(s, q, m)
  BY <1>4 DEF Copies
<1> HIDE DEF i, q, u, z, n
<1>7. CASE n < i
  <2>1. PICK s, m : Wrote(b, n, s) /\ CutOff(s, q, m)
    BY <1>6, <1>7
  <2>2. CutOff(s, q \o y, m)
    BY <2>1, CutOffMore
  <2>3. ~(h + Len(u) <= n)
    BY <1>1, <1>5, <1>7
  <2> QED BY <1>3, <2>1, <2>2, <2>3
<1>8. CASE ~(n < i)
  <2>1. i <= n /\ Wrote(b, i, q)
    BY <1>1, <1>6, <1>8
  <2>2. Becomes(b, i, q, x, y)
    BY <1>1, <1>2, <1>4, <2>1 DEF Translates
  <2>3. i + Len(x) <= n => Wrote(b, i + Len(x), q \o y)
    BY <2>2 DEF Becomes, n
  <2>4. ASSUME n < i + Len(x) PROVE \E s, m : Wrote(b, n, s) /\ CutOff(s, q \o y, m)
    <3>1. PICK r \in Seq({Back}) : Wrote(b, n, q \o r)
      BY <2>1, <2>2, <2>4 DEF Becomes, n
    <3>2. CutOff(q \o r, q \o y, Len(q))
      BY <1>2, CutOffHere
    <3> QED BY <3>1, <3>2
  <2> QED BY <1>3, <1>5, <2>3, <2>4
<1> QED BY <1>7, <1>8

LEMMA CopiesText ==
    ASSUME NEW inner, NEW outer, NEW b \in Seq(Byte), NEW h \in Nat, NEW o \in Seq(Byte), Wrote(b, h, o),
           h <= Len(b)
    PROVE  \A t \in Seq(Clean) :
             Copies(b, h, o, Coded(t, Twofold(inner, outer)), Coded(t, Slashes(inner /\ outer)))
<1> DEFINE f == Twofold(inner, outer)
           g == Slashes(inner /\ outer)
           P == {t \in Seq(Clean) : Copies(b, h, o, Coded(t, f), Coded(t, g))}
<1>1. f \in Code /\ g \in Code
  BY Codes
<1>2. Clean \subseteq Byte /\ \A t \in Seq(Clean) : t \in Seq(Byte)
  <2>1. Clean \subseteq Byte
    BY DEF Clean
  <2> QED BY <2>1, SeqMonotonic
<1>3. \A c \in Byte : g[c] # <<>>
  BY DEF Slashes
<1>7. \A c \in Clean : Translates(b, f[c], g[c])
  BY WordBecomes DEF Translates
<1> HIDE DEF f, g
<1>4. <<>> \in P
  <2>1. Coded(<<>>, f) = <<>> /\ Coded(<<>>, g) = <<>> /\ <<>> \in Seq(Clean)
    BY <1>1, CodedEmpty
  <2>2. h + Len(<<>>) = h /\ o \o <<>> = o /\ Len(b) \in Nat
    BY ConcatEmptySeq
  <2>3. Copies(b, h, o, <<>>, <<>>)
    BY <2>2 DEF Copies
  <2> QED BY <2>1, <2>3
<1>5. ASSUME NEW t \in Seq(Clean), NEW c \in Clean, t \in P PROVE t \o <<c>> \in P
  <2> DEFINE w == Coded(t, f)
             v == Coded(t, g)
             x == f[c]
             y == g[c]
             u == t \o <<c>>
  <2>1. c \in Byte /\ t \in Seq(Byte)
    BY <1>2
  <2>2. w \in Seq(Byte) /\ v \in Seq(Byte) /\ x \in Seq(Byte) /\ y \in Seq(Byte) /\ y # <<>>
    <3>1. w \in Seq(Byte) /\ v \in Seq(Byte)
      BY <1>1, <2>1, CodedType
    <3>2. x \in Seq(Byte) /\ y \in Seq(Byte)
      BY <1>1, <2>1 DEF Code
    <3> QED BY <1>3, <2>1, <3>1, <3>2
  <2>3. Coded(u, f) = w \o x /\ Coded(u, g) = v \o y
    BY <1>1, <2>1, CodedOneMore
  <2>4. u \in Seq(Clean)
    OBVIOUS
  <2>5. Copies(b, h, o, w, v)
    BY <1>5
  <2>6. Translates(b, x, y)
    BY <1>7
  <2> HIDE DEF w, v, x, y, u
  <2>7. Copies(b, h, o, w \o x, v \o y)
    BY <2>2, <2>5, <2>6, CopiesMore
  <2>8. u \in P
    BY <2>3, <2>4, <2>7
  <2> QED BY <2>8 DEF u
<1>6. \A t \in Seq(Clean) : t \in P
  <2> HIDE DEF P
  <2> QED BY <1>4, <1>5, TextInduction
<1> QED BY <1>6 DEF f, g

---------------------------------------------------------------------------
(* Where findObject looks for a key. *)

\* The bytes around the caption of a post, and all bytes that are no key.
Marks == {LeftBrace, RightBrace, Quote, Colon, Comma, Seven, Three, IdKey, TextKey, LikesKey, CountKey}
Plain == Byte \ ToSet(Keys)

LEMMA SomeMarks ==
    ASSUME NEW S
    PROVE  /\ \A a1, a2, a3, a4, a5, a6, a7, a8, a9, a10, a11, a12 \in S :
                 <<a1, a2, a3, a4, a5, a6, a7, a8, a9, a10, a11, a12>> \in Seq(S)
           /\ \A a1, a2, a3, a4, a5, a6, a7, a8, a9, a10, a11, a12, a13, a14 \in S :
                 <<a1, a2, a3, a4, a5, a6, a7, a8, a9, a10, a11, a12, a13, a14>> \in Seq(S)
OBVIOUS

LEMMA InMarks ==
    /\ LeftBrace \in Marks /\ RightBrace \in Marks /\ Quote \in Marks /\ Colon \in Marks
    /\ Comma \in Marks /\ Seven \in Marks /\ Three \in Marks /\ IdKey \in Marks /\ TextKey \in Marks
    /\ LikesKey \in Marks /\ CountKey \in Marks
BY DEF Marks

LEMMA PostMarks == Opening \in Seq(Marks) /\ Counters \in Seq(Marks)
BY Spelling, InMarks, SomeMarks

LEMMA KeyNames == ToSet(Keys) = {"shortcode_media", "xdt_shortcode_media"}
BY DEF ToSet, Keys

LEMMA PlainBytes == Marks \subseteq Plain /\ Said \subseteq Plain /\ Plain \subseteq Byte /\ Back \in Plain
<1>1. Marks \subseteq Plain
  BY KeyNames DEF Marks, Plain, Byte, LeftBrace, RightBrace, Quote, Colon, Comma, Seven, Three, IdKey, TextKey,
                  LikesKey, CountKey
<1>2. Said \subseteq Plain
  BY KeyNames DEF Plain, Byte, Said, Quote, Back, Newline
<1>3. Back \in Said
  BY DEF Said
<1> QED BY <1>1, <1>2, <1>3 DEF Plain

LEMMA PostIsPlain ==
    ASSUME NEW e, NEW p, NEW n, IsPost(p, e, n), e \in Seq(Said)
    PROVE  p \in Seq(Plain)
<1>1. Opening \in Seq(Plain) /\ Counters \in Seq(Plain)
  BY PostMarks, PlainBytes, SeqMonotonic
<1>2. e \in Seq(Plain)
  BY PlainBytes, SeqMonotonic
<1>3. p = Opening \o e \o Counters
  BY DEF IsPost
<1> DEFINE o == Opening
           c == Counters
<1>4. o \in Seq(Plain) /\ c \in Seq(Plain) /\ p = (o \o e) \o c
  BY <1>1, <1>3
<1> HIDE DEF o, c
<1>5. o \o e \in Seq(Plain)
  BY <1>2, <1>4, ConcatProperties
<1>6. (o \o e) \o c \in Seq(Plain)
  BY <1>4, <1>5, ConcatProperties
<1> QED BY <1>4, <1>6

LEMMA LeadingBytes ==
    ASSUME NEW key \in Byte, NEW l, l = Leading(key)
    PROVE  /\ l \in Seq(Byte) /\ Len(l) = 5
           /\ l[1] = LeftBrace /\ l[2] = Quote /\ l[3] = key /\ l[4] = Quote /\ l[5] = Colon
<1>1. \A a, b, c, d, e \in Byte : <<a, b, c, d, e>> \in Seq(Byte)
  OBVIOUS
<1>2. l = <<LeftBrace, Quote, key, Quote, Colon>>
  BY DEF Leading, LeftBrace, Colon
<1>3. l \in Seq(Byte)
  BY <1>1, <1>2, InByte
<1> QED BY <1>2, <1>3

\* The page W: some bytes A, the key, the post p.
Layout(W, A, key, p) ==
    /\ A \in Seq(Plain) /\ key \in ToSet(Keys) /\ W = (A \o Leading(key)) \o p
    /\ \E e \in Seq(Said) : IsText(e) /\ IsPost(p, e, Len(e))

LayoutBytes(W, A, a, key, p, n) ==
    /\ a \in Nat /\ n \in Nat /\ n >= 1 /\ A \in Seq(Byte) /\ p \in Seq(Byte) /\ W \in Seq(Byte)
    /\ a = Len(A) /\ n = Len(p)
    /\ Len(W) = a + 5 + n
    /\ \A i \in 1 .. a : W[i] = A[i]
    /\ W[a + 1] = LeftBrace /\ W[a + 2] = Quote /\ W[a + 3] = key /\ W[a + 4] = Quote /\ W[a + 5] = Colon
    /\ \A j \in 1 .. n : W[a + 5 + j] = p[j]

LEMMA PageLayout ==
    ASSUME NEW W, NEW A, NEW key, NEW p, Layout(W, A, key, p)
    PROVE  LayoutBytes(W, A, Len(A), key, p, Len(p))
<1> DEFINE l == Leading(key)
           al == A \o l
           a == Len(A)
           n == Len(p)
<1>1. A \in Seq(Byte) /\ a \in Nat
  <2>1. A \in Seq(Byte)
    BY PlainBytes, SeqMonotonic DEF Layout
  <2> QED BY <2>1
<1>2. p \in Seq(Byte) /\ n \in Nat /\ n >= 1
  <2>1. PICK e \in Seq(Said) : IsPost(p, e, Len(e))
    BY DEF Layout
  <2>2. PostBytes(p, e, Len(e))
    BY <2>1, PostShape
  <2> QED BY <2>2 DEF PostBytes
<1>3. key \in Byte
  BY InByte DEF Layout
<1>4. /\ l \in Seq(Byte) /\ Len(l) = 5
      /\ l[1] = LeftBrace /\ l[2] = Quote /\ l[3] = key /\ l[4] = Quote /\ l[5] = Colon
  BY <1>3, LeadingBytes
<1>5. W = al \o p
  BY DEF Layout
<1> HIDE DEF l
<1>6. /\ al \in Seq(Byte) /\ Len(al) = a + 5
      /\ \A i \in 1 .. a + 5 : al[i] = IF i <= a THEN A[i] ELSE l[i - a]
  <2>1. /\ al \in Seq(Byte) /\ Len(al) = Len(A) + Len(l)
        /\ \A i \in 1 .. Len(A) + Len(l) : al[i] = IF i <= Len(A) THEN A[i] ELSE l[i - Len(A)]
    BY <1>1, <1>4, ConcatProperties
  <2> HIDE DEF al
  <2> QED BY <2>1, <1>4
<1> HIDE DEF al, a, n
<1>7. /\ W \in Seq(Byte) /\ Len(W) = a + 5 + n
      /\ \A i \in 1 .. a + 5 + n : W[i] = IF i <= a + 5 THEN al[i] ELSE p[i - (a + 5)]
  <2>1. /\ al \o p \in Seq(Byte) /\ Len(al \o p) = Len(al) + Len(p)
        /\ \A i \in 1 .. Len(al) + Len(p) : (al \o p)[i] = IF i <= Len(al) THEN al[i] ELSE p[i - Len(al)]
    BY <1>2, <1>6, ConcatProperties
  <2> QED BY <2>1, <1>5, <1>6 DEF n
<1>8. \A i \in 1 .. a : W[i] = A[i]
  BY <1>1, <1>2, <1>6, <1>7
<1>9. \A k \in 1 .. 5 : W[a + k] = l[k]
  <2> TAKE k \in 1 .. 5
  <2> DEFINE i == a + k
  <2>1. i \in 1 .. a + 5 /\ i \in 1 .. a + 5 + n /\ ~(i <= a) /\ i - a = k /\ i <= a + 5
    BY <1>1, <1>2
  <2> HIDE DEF i
  <2>2. W[i] = al[i] /\ al[i] = l[i - a]
    BY <1>6, <1>7, <2>1
  <2>3. W[i] = l[k]
    BY <2>1, <2>2
  <2> QED BY <2>3 DEF i
<1>10. \A j \in 1 .. n : W[a + 5 + j] = p[j]
  <2> TAKE j \in 1 .. n
  <2> DEFINE i == a + 5 + j
  <2>1. i \in 1 .. a + 5 + n /\ ~(i <= a + 5) /\ i - (a + 5) = j
    BY <1>1, <1>2
  <2> HIDE DEF i
  <2>2. W[i] = p[i - (a + 5)]
    BY <1>7, <2>1
  <2>3. W[i] = p[j]
    BY <2>1, <2>2
  <2> QED BY <2>3 DEF i
<1>11. W[a + 1] = LeftBrace /\ W[a + 2] = Quote /\ W[a + 3] = key /\ W[a + 4] = Quote /\ W[a + 5] = Colon
  BY <1>4, <1>9
<1>12. a = Len(A) /\ n = Len(p)
  BY DEF a, n
<1> QED BY <1>1, <1>2, <1>7, <1>8, <1>10, <1>11, <1>12 DEF LayoutBytes

LEMMA KeyOnce ==
    ASSUME NEW W, NEW A, NEW key, NEW p, Layout(W, A, key, p)
    PROVE  \A i \in 1 .. Len(W) : W[i] \in ToSet(Keys) => i = Len(A) + 3 /\ W[i] = key
<1> DEFINE a == Len(A)
           n == Len(p)
<1>1. LayoutBytes(W, A, a, key, p, n)
  BY PageLayout
<1>2. \A j \in 1 .. n : p[j] \in Plain
  <2>1. PICK e \in Seq(Said) : IsPost(p, e, Len(e))
    BY DEF Layout
  <2>2. p \in Seq(Plain)
    BY <2>1, PostIsPlain
  <2> QED BY <2>2
<1>3. \A j \in 1 .. a : A[j] \in Plain
  BY DEF Layout
<1>4. \A x \in Plain : x \notin ToSet(Keys)
  BY DEF Plain
<1>5. LeftBrace \in Plain /\ Quote \in Plain /\ Colon \in Plain
  BY InMarks, PlainBytes
<1> SUFFICES ASSUME NEW i \in 1 .. Len(W), W[i] \in ToSet(Keys) PROVE i = a + 3 /\ W[i] = key
  OBVIOUS
<1> HIDE DEF a, n
<1>6. a \in Nat /\ n \in Nat /\ Len(W) = a + 5 + n
  BY <1>1 DEF LayoutBytes
<1>7. ~(i <= a)
  <2>1. i <= a => i \in 1 .. a
    BY <1>6
  <2>2. \A j \in 1 .. a : W[j] = A[j]
    BY <1>1 DEF LayoutBytes
  <2> QED BY <1>3, <1>4, <2>1, <2>2
<1>8. ~(i > a + 5)
  <2> SUFFICES ASSUME i > a + 5 PROVE FALSE
    OBVIOUS
  <2> DEFINE j == i - (a + 5)
  <2>1. j \in 1 .. n /\ a + 5 + j = i
    BY <1>6
  <2> HIDE DEF j
  <2>2. W[a + 5 + j] = p[j]
    BY <1>1, <2>1 DEF LayoutBytes
  <2> QED BY <1>2, <1>4, <2>1, <2>2
<1>9. i = a + 1 \/ i = a + 2 \/ i = a + 3 \/ i = a + 4 \/ i = a + 5
  BY <1>6, <1>7, <1>8
<1>10. W[a + 1] = LeftBrace /\ W[a + 2] = Quote /\ W[a + 3] = key /\ W[a + 4] = Quote /\ W[a + 5] = Colon
  BY <1>1 DEF LayoutBytes
<1> QED BY <1>4, <1>5, <1>9, <1>10

LEMMA AllKeys == ToSet(Keys) = {Keys[1], Keys[2]} /\ \A k \in ToSet(Keys) : k # Quote /\ k # Back /\ k \in Byte
<1>1. ToSet(Keys) = {Keys[1], Keys[2]}
  BY DEF ToSet, Keys
<1>2. \A k \in ToSet(Keys) : k # Quote /\ k # Back
  BY KeyNames DEF Quote, Back
<1> QED BY <1>1, <1>2, InByte

\* A text with no other key than this one.
LEMMA FoundOnly ==
    ASSUME NEW t \in Seq(Byte), NEW key \in ToSet(Keys),
           \A i \in 1 .. Len(t) : t[i] \in ToSet(Keys) => t[i] = key
    PROVE  Found(t) = FindObject(t, key)
<1>1. ASSUME NEW k \in ToSet(Keys), k # key PROVE FindObject(t, k) = Nil
  <2>1. \A i \in 1 .. Len(t) - 1 : i \in 1 .. Len(t)
    OBVIOUS
  <2>2. \A i \in 1 .. Len(t) - 1 : t[i] # k
    BY <1>1, <2>1
  <2> QED BY <2>2, NoNeedle, AllKeys
<1> QED BY <1>1, FoundBehindKey

LEMMA FoundNone ==
    ASSUME NEW t \in Seq(Byte), \A i \in 1 .. Len(t) - 1 : t[i] \in ToSet(Keys) => t[i + 1] # Quote
    PROVE  Found(t) = Nil
<1>1. \A k \in ToSet(Keys) : FindObject(t, k) = Nil
  BY NoNeedle, AllKeys
<1> QED BY <1>1, AllKeys DEF Found

\* A page with the whole post in it: the post is found.
LEMMA FoundWhole ==
    ASSUME NEW W, NEW A, NEW key, NEW p, Layout(W, A, key, p), A # <<>>,
           NEW t \in Seq(Byte), Len(W) <= Len(t), \A i \in 1 .. Len(W) : t[i] = W[i],
           \A i \in Len(W) + 1 .. Len(t) : t[i] \in Plain
    PROVE  Found(t) = p
<1> DEFINE a == Len(A)
           n == Len(p)
           q == a + 2
           m == Len(t)
<1>1. LayoutBytes(W, A, a, key, p, n)
  BY PageLayout
<1>2. key \in ToSet(Keys) /\ key \in Byte
  BY AllKeys DEF Layout
<1>3. \A i \in 1 .. Len(W) : W[i] \in ToSet(Keys) => i = a + 3 /\ W[i] = key
  BY KeyOnce
<1> HIDE DEF a, n
<1>4. a \in Nat /\ n \in Nat /\ n >= 1 /\ Len(W) = a + 5 + n /\ p \in Seq(Byte) /\ m \in Nat
  BY <1>1 DEF LayoutBytes
<1>5. \A i \in 1 .. m : t[i] \in ToSet(Keys) => i = q + 1 /\ t[i] = key
  <2> TAKE i \in 1 .. m
  <2>1. i \in 1 .. Len(W) \/ i \in Len(W) + 1 .. m
    BY <1>4
  <2>2. i \in Len(W) + 1 .. m => t[i] \notin ToSet(Keys)
    BY DEF Plain
  <2>3. a + 3 = q + 1
    BY <1>4
  <2> QED BY <1>3, <2>1, <2>2, <2>3
<1>6. Found(t) = FindObject(t, key)
  BY <1>2, <1>5, FoundOnly
<1>7. q \in Nat \ {0} /\ q \in 1 .. m /\ q + 3 <= m /\ q + 4 <= m /\ q + 1 = a + 3 /\ q + 2 = a + 4 /\ q + 3 = a + 5
      /\ \A k \in 1 .. 5 : a + k \in 1 .. Len(W)
  BY <1>4
<1>8. t[q] = Quote /\ t[q + 1] = key /\ t[q + 2] = Quote /\ t[q + 3] = Colon
  <2>1. W[a + 2] = Quote /\ W[a + 3] = key /\ W[a + 4] = Quote /\ W[a + 5] = Colon
    BY <1>1 DEF LayoutBytes
  <2>2. \A k \in 1 .. 5 : t[a + k] = W[a + k]
    BY <1>7
  <2>3. t[a + 2] = Quote /\ t[a + 3] = key /\ t[a + 4] = Quote /\ t[a + 5] = Colon
    BY <2>1, <2>2
  <2> QED BY <2>3, <1>7
<1>9. Reads(t, q, Needle(key))
  BY <1>2, <1>7, <1>8, NeedleReads
<1>10. FindObject(t, key) = Behind(t, q)
  <2> HIDE DEF q
  <2>1. \A i \in 1 .. Len(t) : t[i] = key => i = q + 1
    BY <1>2, <1>5
  <2>2. q \in Nat \ {0} /\ q \in 1 .. Len(t)
    BY <1>7
  <2> QED BY <1>2, <1>9, <2>1, <2>2, OneNeedle
<1> DEFINE u == SubSeq(t, q + 4, m)
<1>11. /\ u \in Seq(Byte) /\ Len(u) = m - (q + 4) + 1
       /\ \A i \in 1 .. m - (q + 4) + 1 : u[i] = t[(q + 4) + i - 1]
  <2> DEFINE x == q + 4
  <2>1. x \in Nat \ {0} /\ m \in Nat /\ x <= m + 1 /\ m <= Len(t)
    BY <1>4, <1>7
  <2> HIDE DEF x, m
  <2>2. /\ SubSeq(t, x, m) \in Seq(Byte) /\ Len(SubSeq(t, x, m)) = m - x + 1
        /\ \A i \in 1 .. m - x + 1 : SubSeq(t, x, m)[i] = t[x + i - 1]
    BY <2>1, Slice
  <2> QED BY <2>2 DEF x
<1> HIDE DEF u, m
<1>12. n <= Len(u) /\ \A i \in 1 .. n : i \in 1 .. m - (q + 4) + 1 /\ (q + 4) + i - 1 = a + 5 + i
                                         /\ a + 5 + i \in 1 .. Len(W)
  BY <1>4, <1>11 DEF m
<1>13. \A i \in 1 .. n : u[i] = p[i]
  <2>1. \A i \in 1 .. n : W[a + 5 + i] = p[i]
    BY <1>1 DEF LayoutBytes
  <2>2. \A i \in 1 .. n : u[i] = t[a + 5 + i]
    BY <1>11, <1>12
  <2> QED BY <1>12, <2>1, <2>2
<1>14. PICK e \in Seq(Said) : IsText(e) /\ IsPost(p, e, Len(e))
  BY DEF Layout
<1>15. BalancedObject(u) = p
  BY <1>11, <1>12, <1>13, <1>14, BalancedWhole DEF n
<1> QED BY <1>6, <1>10, <1>15 DEF Behind, u, m

\* A page cut off before the end of the post: nothing is found.
LEMMA FoundCut ==
    ASSUME NEW W, NEW A, NEW key, NEW p, Layout(W, A, key, p), NEW t, NEW c, CutOff(t, W, c)
    PROVE  Found(t) = Nil
<1> DEFINE a == Len(A)
           n == Len(p)
           q == a + 2
           m == Len(t)
<1>1. LayoutBytes(W, A, a, key, p, n)
  BY PageLayout
<1>2. key \in ToSet(Keys) /\ key \in Byte
  BY AllKeys DEF Layout
<1>3. \A i \in 1 .. Len(W) : W[i] \in ToSet(Keys) => i = a + 3 /\ W[i] = key
  BY KeyOnce
<1> HIDE DEF a, n
<1>11. t \in Seq(Byte) /\ c \in 0 .. Len(W) - 1 /\ \A i \in 1 .. m : t[i] = IF i <= c THEN W[i] ELSE Back
  BY DEF CutOff
<1>4. a \in Nat /\ n \in Nat /\ n >= 1 /\ Len(W) = a + 5 + n /\ p \in Seq(Byte) /\ m \in Nat
  BY <1>1, <1>11 DEF LayoutBytes
<1>5. \A i \in 1 .. m : t[i] \in ToSet(Keys) => i = q + 1 /\ t[i] = key
  <2> TAKE i \in 1 .. m
  <2>1. i <= c => i \in 1 .. Len(W)
    BY <1>4, <1>11
  <2>2. ~(i <= c) => t[i] = Back
    BY <1>11
  <2>3. a + 3 = q + 1 /\ Back \notin ToSet(Keys)
    BY <1>4, AllKeys
  <2> QED BY <1>3, <1>11, <2>1, <2>2, <2>3
<1>6. Found(t) = FindObject(t, key)
  BY <1>2, <1>5, <1>11, FoundOnly
<1>7. q \in Nat \ {0}
  BY <1>4
<1>8. FindObject(t, key) \in {Nil, Behind(t, q)}
  BY <1>2, <1>5, <1>7, <1>11, OneNeedle
<1> DEFINE x == q + 4
           u == SubSeq(t, x, m)
           d == IF c >= a + 5 THEN c - (a + 5) ELSE 0
<1>9. BalancedObject(u) = Nil
  <2>1. CASE x > m
    <3>1. u = <<>>
      BY <1>4, <1>7, <1>11, <2>1, SubSeqEmpty
    <3> HIDE DEF u
    <3> QED BY <3>1 DEF BalancedObject
  <2>2. CASE ~(x > m)
    <3>1. x \in Nat \ {0} /\ m \in Nat /\ x <= m + 1 /\ m <= Len(t) /\ x = a + 6
      BY <1>4, <1>7, <2>2
    <3> HIDE DEF x
    <3>2. u \in Seq(Byte) /\ Len(u) = m - x + 1 /\ \A i \in 1 .. m - x + 1 : u[i] = t[x + i - 1]
      <4> HIDE DEF m
      <4> QED BY <1>11, <3>1, Slice
    <3>3. d \in 0 .. n - 1
      BY <1>4, <1>11
    <3> HIDE DEF u
    <3>4. ASSUME NEW i \in 1 .. Len(u) PROVE IF i <= d THEN u[i] = p[i] ELSE u[i] = Back
      <4> DEFINE j == a + 5 + i
      <4>1. j \in 1 .. m /\ x + i - 1 = j /\ i \in 1 .. m - x + 1
        BY <1>4, <3>1, <3>2
      <4>2. u[i] = t[j]
        <5> HIDE DEF j
        <5> QED BY <3>2, <4>1
      <4>3. i <= d => j <= c /\ i \in 1 .. n
        BY <1>4, <1>11, <3>3
      <4>4. ~(i <= d) => ~(j <= c)
        BY <1>4, <1>11
      <4>5. i \in 1 .. n => W[j] = p[i]
        BY <1>1 DEF LayoutBytes
      <4> HIDE DEF j, d
      <4>6. t[j] = IF j <= c THEN W[j] ELSE Back
        BY <1>11, <4>1
      <4> QED BY <4>2, <4>3, <4>4, <4>5, <4>6
    <3>5. PICK e \in Seq(Said) : IsText(e) /\ IsPost(p, e, Len(e))
      BY DEF Layout
    <3> HIDE DEF d
    <3> QED BY <3>2, <3>3, <3>4, <3>5, BalancedCut DEF n
  <2> QED BY <2>1, <2>2
<1>10. Behind(t, q) = Nil
  BY <1>9 DEF Behind
<1> QED BY <1>6, <1>8, <1>10

\* What a simple caption is made of.
Tame == Said \ {Quote, Back, Newline}

LEMMA TameBytes == Tame \subseteq Said /\ Tame \subseteq Clean /\ Tame \subseteq Byte /\ Quote \notin Tame /\ Back \notin Tame
BY Bytes DEF Tame, Clean

LEMMA EscapeTame ==
    ASSUME NEW slash
    PROVE  \A t \in Seq(Tame) : Escape(t, slash) = Coded(t, Slashes(slash))
<1> DEFINE f == Escapement(slash)
           g == Slashes(slash)
           B == Tame
<1>1. f \in Code /\ g \in Code
  BY Codes
<1>2. \A c \in B : f[c] = g[c]
  <2> TAKE c \in B
  <2>1. c \in Byte /\ c \in Clean /\ c # Quote
    BY TameBytes
  <2>2. g[c] = IF c = Slash /\ slash THEN <<Back, Slash>> ELSE <<c>>
    BY <2>1 DEF Slashes
  <2>3. c = Slash => f[c] = IF slash THEN <<Back, Slash>> ELSE <<Slash>>
    BY OneEscaped
  <2>4. c # Slash => f[c] = <<c>>
    BY <2>1, OneEscaped
  <2> QED BY <2>2, <2>3, <2>4
<1>3. B \in SUBSET Byte /\ \A t \in Seq(B) : t \in Seq(Byte)
  <2>1. B \subseteq Byte
    BY TameBytes
  <2> QED BY <2>1, SeqMonotonic
<1>4. \A t \in Seq(B) : Escape(t, slash) = Coded(t, f)
  BY <1>3, EscapeIsCoded
<1> HIDE DEF f, g, B
<1>5. \A t \in Seq(B) : Coded(t, f) = Coded(t, g)
  BY <1>1, <1>2, <1>3, CodedSame
<1> QED BY <1>4, <1>5 DEF f, g, B

\* Behind every byte of C in s stands something, and no quote.
Guarded(s, C) == \A i \in 1 .. Len(s) : s[i] \in C => i + 1 <= Len(s) /\ s[i + 1] # Quote
Paired(s) == Guarded(s, {Back})

LEMMA GuardedConcat ==
    ASSUME NEW s \in Seq(Byte), NEW t \in Seq(Byte), NEW C, Guarded(s, C), Guarded(t, C)
    PROVE  s \o t \in Seq(Byte) /\ Guarded(s \o t, C)
<1> DEFINE u == s \o t
           n == Len(s)
           m == Len(t)
<1>1. n \in Nat /\ m \in Nat
  OBVIOUS
<1>2. u \in Seq(Byte) /\ Len(u) = n + m /\ \A i \in 1 .. n + m : u[i] = IF i <= n THEN s[i] ELSE t[i - n]
  BY ConcatProperties
<1>3. \A i \in 1 .. n : s[i] \in C => i + 1 <= n /\ s[i + 1] # Quote
  BY DEF Guarded
<1>4. \A i \in 1 .. m : t[i] \in C => i + 1 <= m /\ t[i + 1] # Quote
  BY DEF Guarded
<1> HIDE DEF u, n, m
<1>5. ASSUME NEW i \in 1 .. n + m, u[i] \in C PROVE i + 1 <= n + m /\ u[i + 1] # Quote
  <2>1. CASE i <= n
    <3>1. i \in 1 .. n /\ s[i] \in C
      BY <1>1, <1>2, <1>5, <2>1
    <3>2. i + 1 <= n /\ s[i + 1] # Quote
      BY <1>3, <3>1
    <3>3. i + 1 \in 1 .. n + m
      BY <1>1, <3>2
    <3>4. u[i + 1] = s[i + 1]
      BY <1>2, <3>2, <3>3
    <3> QED BY <3>2, <3>3, <3>4
  <2>2. CASE ~(i <= n)
    <3> DEFINE j == i - n
               h == j + 1
    <3>1. j \in 1 .. m /\ h = j + 1 /\ h = (i + 1) - n /\ (h <= m => i + 1 \in 1 .. n + m) /\ ~(i + 1 <= n)
      BY <1>1, <2>2
    <3>2. t[j] \in C
      BY <1>2, <1>5, <2>2
    <3> HIDE DEF j, h
    <3>3. h <= m /\ t[h] # Quote
      BY <1>4, <3>1, <3>2
    <3>4. u[i + 1] = t[(i + 1) - n]
      BY <1>2, <3>1, <3>3
    <3>5. i + 1 <= n + m
      BY <1>1, <3>1, <3>3
    <3> QED BY <3>1, <3>3, <3>4, <3>5
  <2> QED BY <2>1, <2>2
<1>6. Guarded(u, C)
  BY <1>2, <1>5 DEF Guarded
<1> QED BY <1>2, <1>6 DEF u

LEMMA PairedConcat ==
    ASSUME NEW s \in Seq(Byte), NEW t \in Seq(Byte), Paired(s), Paired(t)
    PROVE  s \o t \in Seq(Byte) /\ Paired(s \o t)
BY GuardedConcat DEF Paired

LEMMA GuardedWithout ==
    ASSUME NEW C \in SUBSET Byte, NEW D, C \cap D = {}, NEW s \in Seq(C)
    PROVE  s \in Seq(Byte) /\ Guarded(s, D)
<1>1. \A i \in 1 .. Len(s) : s[i] \in C
  OBVIOUS
<1>2. s \in Seq(Byte)
  BY SeqMonotonic
<1> QED BY <1>1, <1>2 DEF Guarded

LEMMA PairedWithout ==
    ASSUME NEW C \in SUBSET Byte, Back \notin C, NEW s \in Seq(C)
    PROVE  s \in Seq(Byte) /\ Paired(s)
<1>1. C \cap {Back} = {}
  OBVIOUS
<1> QED BY <1>1, GuardedWithout DEF Paired

LEMMA PairedCaption ==
    ASSUME NEW slash
    PROVE  \A t \in Seq(Tame) : Coded(t, Slashes(slash)) \in Seq(Byte) /\ Paired(Coded(t, Slashes(slash)))
<1> DEFINE g == Slashes(slash)
           B == Tame
           P == {t \in Seq(B) : Coded(t, g) \in Seq(Byte) /\ Paired(Coded(t, g))}
<1>1. g \in Code
  BY Codes
<1>2. \A t \in Seq(B) : t \in Seq(Byte)
  BY TameBytes, SeqMonotonic
<1>3. \A c \in B : c \in Byte /\ g[c] \in Seq(Byte) /\ Paired(g[c])
  <2> TAKE c \in B
  <2>1. c \in Byte /\ c # Back
    BY TameBytes
  <2>2. g[c] = IF c = Slash /\ slash THEN <<Back, Slash>> ELSE <<c>>
    BY <2>1 DEF Slashes
  <2>3. <<c>> \in Seq(Byte) /\ Paired(<<c>>)
    <3>1. <<c>> \in Seq(Byte) /\ Len(<<c>>) = 1 /\ <<c>>[1] = c
      BY <2>1
    <3> QED BY <2>1, <3>1 DEF Paired, Guarded
  <2>4. <<Back, Slash>> \in Seq(Byte) /\ Paired(<<Back, Slash>>)
    <3> DEFINE w == <<Back, Slash>>
    <3>1. w \in Seq(Byte) /\ Len(w) = 2 /\ w[1] = Back /\ w[2] = Slash
      BY InByte, Words
    <3>2. Slash # Back /\ Slash # Quote
      BY DEF Slash, Back, Quote
    <3>3. \A i \in 1 .. 2 : i = 1 \/ i = 2
      OBVIOUS
    <3> HIDE DEF w
    <3>4. Paired(w)
      BY <3>1, <3>2, <3>3 DEF Paired, Guarded
    <3> QED BY <3>1, <3>4 DEF w
  <2> QED BY <2>1, <2>2, <2>3, <2>4
<1> HIDE DEF g, B
<1>4. <<>> \in P
  <2>1. Coded(<<>>, g) = <<>>
    BY <1>1, CodedEmpty
  <2>2. Paired(<<>>) /\ <<>> \in Seq(Byte) /\ <<>> \in Seq(B)
    BY DEF Paired, Guarded
  <2> QED BY <2>1, <2>2
<1>5. ASSUME NEW t \in Seq(B), NEW c \in B, t \in P PROVE t \o <<c>> \in P
  <2> DEFINE u == t \o <<c>>
  <2>1. t \in Seq(Byte) /\ c \in Byte /\ g[c] \in Seq(Byte) /\ Paired(g[c])
    BY <1>2, <1>3
  <2>2. Coded(u, g) = Coded(t, g) \o g[c]
    BY <1>1, <2>1, CodedOneMore
  <2>3. u \in Seq(B)
    OBVIOUS
  <2>4. Coded(t, g) \in Seq(Byte) /\ Paired(Coded(t, g))
    BY <1>5
  <2>5. Coded(u, g) \in Seq(Byte) /\ Paired(Coded(u, g))
    BY <2>1, <2>2, <2>4, PairedConcat
  <2> HIDE DEF u
  <2>6. u \in P
    BY <2>3, <2>5
  <2> QED BY <2>6 DEF u
<1>6. \A t \in Seq(B) : t \in P
  <2> HIDE DEF P
  <2> QED BY <1>4, <1>5, TextInduction
<1> QED BY <1>6 DEF g, B

LEMMA MarksAreClean == Marks \subseteq Clean /\ Clean \subseteq Byte /\ Back \notin Clean /\ Back \notin Marks /\ Marks \subseteq Byte
<1>1. Back \notin Marks /\ Newline \notin Marks
  BY DEF Marks, LeftBrace, RightBrace, Quote, Colon, Comma, Seven, Three, IdKey, TextKey,
         LikesKey, CountKey, Back, Newline
<1>2. Marks \subseteq Byte
  BY PlainBytes
<1> QED BY <1>1, <1>2 DEF Clean

\* The page of a simple caption has no escaped quote.
LEMMA PairedPage ==
    ASSUME NEW A \in Seq(Byte), Paired(A), NEW key \in ToSet(Keys), NEW slash, NEW t \in Seq(Tame)
    PROVE  Paired((A \o Leading(key)) \o Post(t, slash))
<1> DEFINE l == Leading(key)
           o == Opening
           c == Counters
           e == Coded(t, Slashes(slash))
<1>1. l \in Seq(Byte) /\ Paired(l)
  <2>1. /\ l \in Seq(Byte) /\ Len(l) = 5
        /\ l[1] = LeftBrace /\ l[2] = Quote /\ l[3] = key /\ l[4] = Quote /\ l[5] = Colon
    BY AllKeys, LeadingBytes
  <2>2. LeftBrace # Back /\ Quote # Back /\ key # Back /\ Colon # Back
    BY AllKeys DEF LeftBrace, Quote, Back, Colon
  <2>3. \A i \in 1 .. 5 : i = 1 \/ i = 2 \/ i = 3 \/ i = 4 \/ i = 5
    OBVIOUS
  <2> HIDE DEF l
  <2>4. \A i \in 1 .. 5 : l[i] # Back
    BY <2>1, <2>2, <2>3
  <2> QED BY <2>1, <2>4 DEF Paired, Guarded
<1>2. o \in Seq(Byte) /\ Paired(o) /\ c \in Seq(Byte) /\ Paired(c)
  BY PostMarks, MarksAreClean, PairedWithout
<1>3. e \in Seq(Byte) /\ Paired(e)
  BY PairedCaption
<1>4. Post(t, slash) = (o \o e) \o c
  BY EscapeTame DEF Post
<1> HIDE DEF l, o, c, e
<1>5. A \o l \in Seq(Byte) /\ Paired(A \o l)
  BY <1>1, PairedConcat
<1>6. o \o e \in Seq(Byte) /\ Paired(o \o e)
  BY <1>2, <1>3, PairedConcat
<1>7. (o \o e) \o c \in Seq(Byte) /\ Paired((o \o e) \o c)
  BY <1>2, <1>6, PairedConcat
<1>8. Paired((A \o l) \o ((o \o e) \o c))
  BY <1>5, <1>7, PairedConcat
<1> QED BY <1>4, <1>8 DEF l

LEMMA CaptionInPost ==
    ASSUME NEW slash, NEW t \in Seq(Said), NEW p, p = Post(t, slash)
    PROVE  \E e \in Seq(Said) : IsText(e) /\ IsPost(p, e, Len(e))
<1> DEFINE e == Escape(t, slash)
<1>1. e \in Seq(Said) /\ IsText(e)
  BY EscapeIsText
<1>2. p = (Opening \o e) \o Counters
  BY DEF Post
<1> HIDE DEF e
<1>3. e \in Seq(Byte)
  BY <1>1, Bytes, SeqMonotonic
<1>4. IsPost(p, e, Len(e))
  BY <1>2, <1>3 DEF IsPost
<1> QED BY <1>1, <1>4

---------------------------------------------------------------------------
(* The page as it is. *)

\* b is the part of the page that has been read.
Part(b, P) == b \in Seq(Byte) /\ P \in Seq(Byte) /\ Len(b) <= Len(P) /\ \A i \in 1 .. Len(b) : b[i] = P[i]

LEMMA PostDecoded ==
    ASSUME NEW W, NEW A, NEW key, NEW p, Layout(W, A, key, p)
    PROVE  Decoded(p) = {"counted"}
<1>1. PICK e \in Seq(Said) : IsText(e) /\ IsPost(p, e, Len(e))
  BY DEF Layout
<1> QED BY <1>1, DecodedPost

LEMMA PartOf ==
    ASSUME NEW W \in Seq(Byte), NEW C \in SUBSET Byte, NEW z \in Seq(C), NEW b, Part(b, W \o z)
    PROVE  /\ b \in Seq(Byte) /\ Len(b) \in Nat /\ Len(W) \in Nat
           /\ \A i \in 1 .. Len(b) : i <= Len(W) => b[i] = W[i]
           /\ \A i \in Len(W) + 1 .. Len(b) : b[i] \in C
<1> DEFINE P == W \o z
           n == Len(W)
<1>1. z \in Seq(Byte) /\ \A i \in 1 .. Len(z) : z[i] \in C
  <2>1. z \in Seq(Byte)
    BY SeqMonotonic
  <2> QED BY <2>1
<1>2. P \in Seq(Byte) /\ Len(P) = n + Len(z) /\ \A i \in 1 .. n + Len(z) : P[i] = IF i <= n THEN W[i] ELSE z[i - n]
  BY <1>1, ConcatProperties
<1>3. n \in Nat /\ Len(z) \in Nat
  BY <1>1
<1>4. b \in Seq(Byte) /\ Len(b) <= Len(P) /\ \A i \in 1 .. Len(b) : b[i] = P[i]
  BY DEF Part
<1>5. Len(b) \in Nat
  BY <1>4
<1> HIDE DEF P, n
<1>6. ASSUME NEW i \in 1 .. Len(b), i <= n PROVE b[i] = W[i]
  <2>1. i \in 1 .. n + Len(z)
    BY <1>2, <1>3, <1>4, <1>5
  <2> QED BY <1>2, <1>4, <1>6, <2>1
<1>7. ASSUME NEW i \in n + 1 .. Len(b) PROVE b[i] \in C
  <2>1. i \in 1 .. Len(b) /\ i \in 1 .. n + Len(z) /\ ~(i <= n) /\ i - n \in 1 .. Len(z)
    BY <1>2, <1>3, <1>4, <1>5
  <2>2. b[i] = z[i - n]
    BY <1>2, <1>4, <2>1
  <2> QED BY <1>1, <2>1, <2>2
<1> QED BY <1>3, <1>4, <1>5, <1>6, <1>7 DEF n

\* A payload that is not escaped once more: the post is read as soon as it is there.
LEMMA WholeInPage ==
    ASSUME NEW W, NEW A, NEW key, NEW p, Layout(W, A, key, p), A # <<>>,
           NEW z \in Seq(Plain), NEW b, Part(b, W \o z), Len(b) >= Len(W)
    PROVE  ExtractShortcodeMedia(b) = {"counted"}
<1>1. W \in Seq(Byte)
  BY PageLayout DEF LayoutBytes
<1>2. /\ b \in Seq(Byte) /\ Len(b) \in Nat /\ Len(W) \in Nat
      /\ \A i \in 1 .. Len(b) : i <= Len(W) => b[i] = W[i]
      /\ \A i \in Len(W) + 1 .. Len(b) : b[i] \in Plain
  BY <1>1, PartOf, PlainBytes
<1>3. Len(W) <= Len(b) /\ \A i \in 1 .. Len(W) : b[i] = W[i]
  BY <1>2
<1>4. Found(b) = p
  BY <1>2, <1>3, FoundWhole
<1>5. Decoded(p) = {"counted"}
  BY PostDecoded
<1> QED BY <1>4, <1>5, Extracted

\* Cut off before its end, the page gives no reading when the caption is simple.
LEMMA CutInPage ==
    ASSUME NEW W, NEW A, NEW key, NEW p, Layout(W, A, key, p), Paired(W),
           NEW z \in Seq(Plain), NEW b, Part(b, W \o z), Len(b) < Len(W)
    PROVE  ExtractShortcodeMedia(b) = {}
<1>1. W \in Seq(Byte)
  BY PageLayout DEF LayoutBytes
<1>2. /\ b \in Seq(Byte) /\ Len(b) \in Nat /\ Len(W) \in Nat
      /\ \A i \in 1 .. Len(b) : i <= Len(W) => b[i] = W[i]
  BY <1>1, PartOf, PlainBytes
<1>3. CutOff(b, W, Len(b))
  BY <1>1, <1>2 DEF CutOff
<1>4. Found(b) = Nil
  BY <1>3, FoundCut
<1>5. \A i \in 1 .. Len(b) - 1 : b[i] = Back => b[i + 1] # Quote
  <2> TAKE i \in 1 .. Len(b) - 1
  <2> DEFINE j == i + 1
  <2>1. i \in 1 .. Len(b) /\ i <= Len(W) /\ j \in 1 .. Len(b) /\ j <= Len(W) /\ i \in 1 .. Len(W)
    BY <1>2
  <2>2. W[i] = Back => W[j] # Quote
    BY <2>1 DEF Paired, Guarded
  <2> HIDE DEF j
  <2>3. b[i] = W[i] /\ b[j] = W[j]
    BY <1>2, <2>1
  <2>4. b[i] = Back => b[j] # Quote
    BY <2>2, <2>3
  <2> QED BY <2>4 DEF j
<1>6. UnescapeJSONString(b) = b
  BY <1>2, <1>5, Unescaped
<1> QED BY <1>4, <1>6, DecodedNil, Extracted

---------------------------------------------------------------------------
(* The page with an escaped payload. *)

\* The payload before it is escaped.
Payload(key, said) == Leading(key) \o ((Opening \o said) \o Counters)

LEMMA LeadingIsClean ==
    ASSUME NEW key \in ToSet(Keys)
    PROVE  /\ key \in Clean /\ key \notin {Slash, Quote} /\ LeftBrace \in Clean /\ Quote \in Clean /\ Colon \in Clean
           /\ LeftBrace # Slash /\ Quote # Slash /\ Colon # Slash /\ Slash \notin Marks
           /\ LeftBrace \in Marks /\ Quote \in Marks /\ Colon \in Marks
<1>1. key \in Clean /\ key \notin {Slash, Quote}
  BY KeyNames, AllKeys DEF Clean, Slash, Quote, Newline
<1>2. Slash \notin Marks
  BY DEF Marks, LeftBrace, RightBrace, Quote, Colon, Comma, Seven, Three, IdKey, TextKey, LikesKey,
         CountKey, Slash
<1> QED BY <1>1, <1>2, InMarks, MarksAreClean

LEMMA PayloadIsClean ==
    ASSUME NEW key \in ToSet(Keys), NEW said \in Seq(Tame)
    PROVE  Payload(key, said) \in Seq(Clean)
<1> DEFINE l == Leading(key)
           o == Opening
           c == Counters
<1>1. l \in Seq(Clean)
  <2>1. \A a1, a2, a3, a4, a5 \in Clean : <<a1, a2, a3, a4, a5>> \in Seq(Clean)
    OBVIOUS
  <2>2. l = <<LeftBrace, Quote, key, Quote, Colon>>
    BY DEF Leading, LeftBrace, Colon
  <2> QED BY <2>1, <2>2, LeadingIsClean
<1>2. o \in Seq(Clean) /\ c \in Seq(Clean) /\ said \in Seq(Clean)
  BY PostMarks, MarksAreClean, TameBytes, SeqMonotonic
<1> HIDE DEF l, o, c
<1>3. o \o said \in Seq(Clean)
  BY <1>2, ConcatProperties
<1>4. (o \o said) \o c \in Seq(Clean)
  BY <1>2, <1>3, ConcatProperties
<1>5. l \o ((o \o said) \o c) \in Seq(Clean)
  BY <1>1, <1>4, ConcatProperties
<1> QED BY <1>5 DEF Payload, l, o, c

\* Written with only its slashes escaped it is the leading bytes and the post.
LEMMA PayloadOnce ==
    ASSUME NEW key \in ToSet(Keys), NEW said \in Seq(Tame), NEW slash
    PROVE  Coded(Payload(key, said), Slashes(slash)) = Leading(key) \o Post(said, slash)
<1> DEFINE g == Slashes(slash)
           l == Leading(key)
           o == Opening
           c == Counters
           B == Marks \cup {key}
<1>1. g \in Code
  BY Codes
<1>2. B \in SUBSET Byte /\ \A x \in B : g[x] = <<x>>
  <2>1. B \subseteq Byte
    BY AllKeys, MarksAreClean
  <2>2. Slash \notin B
    BY LeadingIsClean
  <2>3. \A x \in B : g[x] = <<x>>
    BY <2>1, <2>2 DEF Slashes
  <2> QED BY <2>1, <2>3
<1>3. l \in Seq(B) /\ o \in Seq(B) /\ c \in Seq(B)
  <2>1. \A a1, a2, a3, a4, a5 \in B : <<a1, a2, a3, a4, a5>> \in Seq(B)
    OBVIOUS
  <2>2. l = <<LeftBrace, Quote, key, Quote, Colon>>
    BY DEF Leading, LeftBrace, Colon
  <2>3. LeftBrace \in B /\ Quote \in B /\ Colon \in B /\ key \in B /\ Marks \subseteq B
    BY LeadingIsClean
  <2>4. o \in Seq(B) /\ c \in Seq(B)
    <3> HIDE DEF B
    <3> QED BY <2>3, PostMarks, SeqMonotonic
  <2>5. l \in Seq(B)
    <3> HIDE DEF B, l
    <3> QED BY <2>1, <2>2, <2>3
  <2> QED BY <2>4, <2>5
<1>4. l \in Seq(Byte) /\ o \in Seq(Byte) /\ c \in Seq(Byte) /\ said \in Seq(Byte)
  <2>1. said \in Seq(Byte)
    BY TameBytes, SeqMonotonic
  <2> HIDE DEF l, o, c, B
  <2>2. B \subseteq Byte
    BY <1>2
  <2> QED BY <1>3, <2>1, <2>2, SeqMonotonic
<1>5. Post(said, slash) = (o \o Coded(said, g)) \o c
  BY EscapeTame DEF Post
<1> HIDE DEF g, l, o, c, B
<1>6. Coded(l, g) = l /\ Coded(o, g) = o /\ Coded(c, g) = c
  BY <1>1, <1>2, <1>3, CodedPlainly
<1> DEFINE os == o \o said
           osc == os \o c
<1>7. os \in Seq(Byte) /\ osc \in Seq(Byte)
  <2>1. os \in Seq(Byte)
    BY <1>4, ConcatProperties
  <2> HIDE DEF os
  <2>2. osc \in Seq(Byte)
    BY <1>4, <2>1, ConcatProperties
  <2> QED BY <2>1, <2>2
<1>8. Coded(os, g) = o \o Coded(said, g)
  <2>1. Coded(o \o said, g) = Coded(o, g) \o Coded(said, g)
    BY <1>1, <1>4, CodedConcat
  <2> QED BY <1>6, <2>1, Zenon DEF os
<1> HIDE DEF os
<1>9. Coded(osc, g) = (o \o Coded(said, g)) \o c
  <2>1. Coded(os \o c, g) = Coded(os, g) \o Coded(c, g)
    BY <1>1, <1>4, <1>7, CodedConcat
  <2> QED BY <1>6, <1>8, <2>1, Zenon DEF osc
<1> HIDE DEF osc
<1>10. Coded(l \o osc, g) = l \o ((o \o Coded(said, g)) \o c)
  <2>1. Coded(l \o osc, g) = Coded(l, g) \o Coded(osc, g)
    BY <1>1, <1>4, <1>7, CodedConcat
  <2> QED BY <1>6, <1>9, <2>1, Zenon
<1>11. Payload(key, said) = l \o osc
  BY DEF Payload, l, o, c, os, osc
<1> QED BY <1>5, <1>10, <1>11 DEF g, l

LEMMA PayloadTwice ==
    ASSUME NEW key \in ToSet(Keys), NEW said \in Seq(Tame), NEW inner, NEW outer
    PROVE  Escape(Leading(key) \o Post(said, inner), outer) = Coded(Payload(key, said), Twofold(inner, outer))
<1> DEFINE t == Payload(key, said)
           f == Slashes(inner)
           g == Escapement(outer)
           h == Twofold(inner, outer)
           x == Coded(t, f)
           B == Clean
<1>1. f \in Code /\ g \in Code /\ h \in Code
  BY Codes
<1>2. B \in SUBSET Byte /\ \A c \in B : Coded(f[c], g) = h[c]
  <2>1. B \subseteq Byte
    BY MarksAreClean
  <2>2. \A c \in B : Coded(f[c], g) = h[c]
    BY <2>1 DEF Twofold
  <2> QED BY <2>1, <2>2
<1>3. t \in Seq(B)
  BY PayloadIsClean
<1>4. x = Leading(key) \o Post(said, inner)
  BY PayloadOnce
<1>5. t \in Seq(Byte)
  <2>1. B \subseteq Byte
    BY <1>2
  <2> HIDE DEF t, B
  <2> QED BY <1>3, <2>1, SeqMonotonic
<1>6. x \in Seq(Byte)
  <2> HIDE DEF t, f
  <2> QED BY <1>1, <1>5, CodedType
<1>7. Escape(x, outer) = Coded(x, g)
  <2> HIDE DEF x
  <2> QED BY <1>6, EscapeIsCoded
<1>8. Coded(x, g) = Coded(t, h)
  <2>1. \A u \in Seq(B) : Coded(Coded(u, f), g) = Coded(u, h)
    <3> HIDE DEF t, f, g, h, B, x
    <3> QED BY <1>1, <1>2, CodedTwice
  <2> QED BY <1>3, <2>1
<1> QED BY <1>4, <1>7, <1>8

LEMMA TwofoldAt ==
    ASSUME NEW inner, NEW outer, NEW key \in ToSet(Keys), NEW f, f = Twofold(inner, outer)
    PROVE  f[LeftBrace] = <<LeftBrace>> /\ f[Quote] = <<Back, Quote>> /\ f[key] = <<key>>
<1> DEFINE g == Escapement(outer)
<1>1. g \in Code
  BY Codes
<1>2. ASSUME NEW c \in Clean, c # Slash PROVE f[c] = g[c]
  <2>1. c \in Byte
    BY DEF Clean
  <2>2. Slashes(inner)[c] = <<c>>
    BY <1>2, <2>1 DEF Slashes
  <2>3. f[c] = Coded(Slashes(inner)[c], g)
    BY <2>1 DEF Twofold
  <2> HIDE DEF g
  <2>4. Coded(<<c>>, g) = g[c]
    BY <1>1, <2>1, CodedOne
  <2> QED BY <2>2, <2>3, <2>4
<1>3. g[Quote] = <<Back, Quote>> /\ \A c \in Clean : c \notin {Quote, Slash} => g[c] = <<c>>
  BY OneEscaped
<1>4. LeftBrace # Quote
  BY DEF LeftBrace, Quote
<1> HIDE DEF g
<1> QED BY <1>2, <1>3, <1>4, LeadingIsClean

\* The three words a rendered payload begins with, and the rest.
LEMMA PayloadParts ==
    ASSUME NEW key \in ToSet(Keys), NEW said \in Seq(Tame)
    PROVE  \E r \in Seq(Clean \cap Plain) : Payload(key, said) = <<LeftBrace, Quote>> \o (<<key, Quote>> \o r)
<1> DEFINE l1 == <<LeftBrace, Quote>>
           l2 == <<key, Quote>>
           l3 == <<Colon>>
           l == Leading(key)
           o == Opening
           c == Counters
           q == (o \o said) \o c
           r == l3 \o q
           B == Clean \cap Plain
<1>0. key \in Byte /\ LeftBrace \in Byte /\ Quote \in Byte /\ Colon \in Byte
  BY InByte
<1>1. l1 \in Seq(Byte) /\ Len(l1) = 2 /\ l1[1] = LeftBrace /\ l1[2] = Quote
  BY <1>0
<1>2. l2 \in Seq(Byte) /\ l3 \in Seq(Byte) /\ l2 \o l3 = <<key, Quote, Colon>>
  <2>1. <<key, Quote, Colon>> = <<key, Quote>> \o <<Colon>>
    BY <1>0, Glue, SMTT(20)
  <2>2. l2 \in Seq(Byte) /\ l3 \in Seq(Byte)
    BY <1>0
  <2>3. l2 \o l3 = <<key, Quote, Colon>>
    BY <2>1, Zenon
  <2> QED BY <2>2, <2>3
<1>3. l = l1 \o (l2 \o l3)
  <2> DEFINE u == <<key, Quote, Colon>>
             s == l1 \o u
  <2>1. u \in Seq(Byte) /\ Len(u) = 3 /\ u[1] = key /\ u[2] = Quote /\ u[3] = Colon
    BY <1>0, Words
  <2> HIDE DEF l1, u
  <2>2. /\ s \in Seq(Byte) /\ Len(s) = Len(l1) + Len(u)
        /\ \A i \in 1 .. Len(l1) + Len(u) : s[i] = IF i <= Len(l1) THEN l1[i] ELSE u[i - Len(l1)]
    BY <1>1, <2>1, ConcatProperties
  <2> HIDE DEF s
  <2>3. Len(s) = 5 /\ s[1] = LeftBrace /\ s[2] = Quote /\ s[3] = key /\ s[4] = Quote /\ s[5] = Colon
    BY <1>1, <2>1, <2>2
  <2>4. /\ l \in Seq(Byte) /\ Len(l) = 5
        /\ l[1] = LeftBrace /\ l[2] = Quote /\ l[3] = key /\ l[4] = Quote /\ l[5] = Colon
    BY <1>0, LeadingBytes
  <2> HIDE DEF l
  <2>5. \A i \in 1 .. 5 : l[i] = s[i]
    <3>1. \A i \in 1 .. 5 : i = 1 \/ i = 2 \/ i = 3 \/ i = 4 \/ i = 5
      OBVIOUS
    <3> QED BY <2>3, <2>4, <3>1
  <2>6. l = s
    BY <2>2, <2>3, <2>4, <2>5, SeqEqual
  <2> QED BY <1>2, <2>6 DEF s, u
<1>4. B \subseteq Byte /\ Marks \subseteq B /\ Tame \subseteq B /\ Colon \in B
  <2>1. Tame \subseteq Plain
    BY PlainBytes DEF Tame
  <2> QED BY <2>1, MarksAreClean, TameBytes, PlainBytes, LeadingIsClean
<1>5. r \in Seq(B) /\ q \in Seq(Byte)
  <2> HIDE DEF B
  <2>1. o \in Seq(B) /\ c \in Seq(B) /\ said \in Seq(B)
    BY <1>4, PostMarks, SeqMonotonic
  <2>2. l3 \in Seq(B)
    BY <1>4
  <2> HIDE DEF o, c, l3
  <2>3. o \o said \in Seq(B)
    BY <2>1, ConcatProperties
  <2>4. q \in Seq(B)
    BY <2>1, <2>3, ConcatProperties
  <2> HIDE DEF q
  <2>5. r \in Seq(B)
    BY <2>2, <2>4, ConcatProperties
  <2> QED BY <1>4, <2>4, <2>5, SeqMonotonic
<1>6. Payload(key, said) = l \o q
  BY DEF Payload
<1> HIDE DEF l1, l2, l3, l, q
<1>7. l2 \o l3 \in Seq(Byte)
  BY <1>2, ConcatProperties
<1>8. (l1 \o (l2 \o l3)) \o q = l1 \o ((l2 \o l3) \o q)
  BY <1>1, <1>5, <1>7, Regroup
<1>9. (l2 \o l3) \o q = l2 \o (l3 \o q)
  BY <1>2, <1>5, Regroup
<1>10. Payload(key, said) = l1 \o (l2 \o r)
  BY <1>3, <1>6, <1>8, <1>9, Zenon
<1> QED BY <1>5, <1>10 DEF l1, l2

LEMMA PlainlyWritten ==
    ASSUME NEW inner, NEW outer
    PROVE  \A r \in Seq(Clean \cap Plain) : Coded(r, Twofold(inner, outer)) \in Seq(Plain)
<1> DEFINE B == Clean \cap Plain
           f == Twofold(inner, outer)
<1>1. f \in Code /\ B \in SUBSET Byte
  BY Codes, MarksAreClean
<1>2. Back \in Plain /\ Quote \in Plain /\ Slash \in Plain
  <2>1. Slash \in Said
    BY DEF Said, Slash
  <2> QED BY <2>1, PlainBytes, InMarks
<1>3. \A c \in B : f[c] \in Seq(Plain)
  <2> TAKE c \in B
  <2>1. c \in Plain /\ c \in Clean
    OBVIOUS
  <2>2. \A x, y \in Plain : <<x>> \in Seq(Plain) /\ <<x, y>> \in Seq(Plain)
    OBVIOUS
  <2>3. \A x, y, z \in Plain : <<x, y, z>> \in Seq(Plain)
    OBVIOUS
  <2>4. \A x, y, z, u \in Plain : <<x, y, z, u>> \in Seq(Plain)
    OBVIOUS
  <2> DEFINE w == f[c]
             v == Slashes(inner /\ outer)[c]
  <2>5. \/ w = <<c>> /\ v = <<c>>
        \/ \E x \in {Quote, Slash} : w = <<Back, x>> /\ v = <<x>>
        \/ w = <<Back, Back, Slash>> /\ v = <<Slash>>
        \/ w = <<Back, Back, Back, Slash>> /\ v = <<Back, Slash>>
    BY <2>1, TwofoldForms
  <2> HIDE DEF w, v
  <2>6. w \in Seq(Plain)
    BY <1>2, <2>1, <2>2, <2>3, <2>4, <2>5
  <2> QED BY <2>6 DEF w
<1> HIDE DEF B, f
<1>4. \A r \in Seq(B) : Coded(r, f) \in Seq(Plain)
  BY <1>1, <1>3, CodedBytes
<1> QED BY <1>4 DEF B, f

\* The payload escaped twice: a backslash and a quote in its first bytes, and no key
\* in front of a quote.
LEMMA PayloadWritten ==
    ASSUME NEW inner, NEW outer, NEW key \in ToSet(Keys), NEW said \in Seq(Tame),
           NEW E, E = Coded(Payload(key, said), Twofold(inner, outer))
    PROVE  /\ E \in Seq(Byte) /\ Guarded(E, ToSet(Keys))
           /\ Len(E) >= 3 /\ E[2] = Back /\ E[3] = Quote
<1> DEFINE f == Twofold(inner, outer)
           a == <<LeftBrace, Quote>>
           b == <<key, Quote>>
           K == ToSet(Keys)
<1>1. f \in Code
  BY Codes
<1>2. f[LeftBrace] = <<LeftBrace>> /\ f[Quote] = <<Back, Quote>> /\ f[key] = <<key>>
  BY TwofoldAt
<1>3. PICK r \in Seq(Clean \cap Plain) : Payload(key, said) = a \o (b \o r)
  BY PayloadParts
<1>4. Coded(r, f) \in Seq(Plain) /\ r \in Seq(Byte)
  <2>1. Clean \cap Plain \subseteq Byte
    BY MarksAreClean
  <2>2. r \in Seq(Byte)
    BY <2>1, SeqMonotonic
  <2> QED BY <2>2, PlainlyWritten
<1>5. key \in Byte /\ LeftBrace \in Byte /\ Quote \in Byte /\ Back \in Byte
  BY InByte
<1> HIDE DEF f
<1>6. ASSUME NEW x \in Byte, NEW y \in Byte PROVE Coded(<<x, y>>, f) = f[x] \o f[y] /\ <<x, y>> \in Seq(Byte)
  <2>1. <<x>> \in Seq(Byte) /\ <<x, y>> \in Seq(Byte)
    OBVIOUS
  <2>2. Coded(<<x>> \o <<y>>, f) = Coded(<<x>>, f) \o f[y]
    BY <1>1, <2>1, CodedOneMore
  <2>3. Coded(<<x>>, f) = f[x]
    BY <1>1, CodedOne
  <2>4. <<x, y>> = <<x>> \o <<y>>
    BY Glue
  <2> QED BY <2>1, <2>2, <2>3, <2>4, Zenon
<1> DEFINE w == <<Back, Quote>>
           x1 == <<LeftBrace>>
           x2 == <<key>>
           u == x1 \o w
           v == x2 \o w
           z == Coded(r, f)
<1>7. Coded(a, f) = u /\ Coded(b, f) = v /\ a \in Seq(Byte) /\ b \in Seq(Byte)
  BY <1>2, <1>5, <1>6, Zenon
<1>8. w \in Seq(Byte) /\ Len(w) = 2 /\ w[1] = Back /\ w[2] = Quote
  BY <1>5, Words
<1>9. x1 \in Seq(Byte) /\ Len(x1) = 1 /\ x1[1] = LeftBrace /\ x2 \in Seq(Byte) /\ Len(x2) = 1 /\ x2[1] = key
  BY <1>5
<1> HIDE DEF a, b, w, x1, x2
<1>10. u \in Seq(Byte) /\ Len(u) = 3 /\ u[1] = LeftBrace /\ u[2] = Back /\ u[3] = Quote
  <2>1. /\ u \in Seq(Byte) /\ Len(u) = Len(x1) + Len(w)
        /\ \A i \in 1 .. Len(x1) + Len(w) : u[i] = IF i <= Len(x1) THEN x1[i] ELSE w[i - Len(x1)]
    BY <1>8, <1>9, ConcatProperties
  <2> HIDE DEF u
  <2> QED BY <1>8, <1>9, <2>1
<1>11. v \in Seq(Byte) /\ Len(v) = 3 /\ v[1] = key /\ v[2] = Back /\ v[3] = Quote
  <2>1. /\ v \in Seq(Byte) /\ Len(v) = Len(x2) + Len(w)
        /\ \A i \in 1 .. Len(x2) + Len(w) : v[i] = IF i <= Len(x2) THEN x2[i] ELSE w[i - Len(x2)]
    BY <1>8, <1>9, ConcatProperties
  <2> HIDE DEF v
  <2> QED BY <1>8, <1>9, <2>1
<1>12. z \in Seq(Byte) /\ Guarded(z, K)
  <2>1. Plain \cap K = {} /\ Plain \in SUBSET Byte
    BY PlainBytes DEF Plain
  <2> HIDE DEF z, K
  <2>2. z \in Seq(Plain)
    BY <1>4 DEF z
  <2> QED BY <2>1, <2>2, GuardedWithout
<1>13. E = u \o (v \o z)
  <2>1. b \o r \in Seq(Byte)
    BY <1>4, <1>7, ConcatProperties
  <2>2. Coded(a \o (b \o r), f) = Coded(a, f) \o Coded(b \o r, f)
    BY <1>1, <1>7, <2>1, CodedConcat
  <2>3. Coded(b \o r, f) = Coded(b, f) \o z
    BY <1>1, <1>4, <1>7, CodedConcat
  <2>4. E = Coded(a \o (b \o r), f)
    BY <1>3 DEF f
  <2> HIDE DEF u, v, z
  <2> QED BY <1>7, <2>2, <2>3, <2>4, Zenon
<1>14. LeftBrace \notin K /\ Back \notin K /\ Quote \notin K /\ Back # Quote
  <2>1. LeftBrace \in Plain /\ Back \in Plain /\ Quote \in Plain
    BY PlainBytes, InMarks
  <2> QED BY <2>1, Bytes DEF Plain
<1> HIDE DEF u, v, z, K
<1>15. Guarded(u, K) /\ Guarded(v, K)
  <2>1. \A i \in 1 .. 3 : i = 1 \/ i = 2 \/ i = 3
    OBVIOUS
  <2> QED BY <1>10, <1>11, <1>14, <2>1 DEF Guarded
<1>16. v \o z \in Seq(Byte) /\ Guarded(v \o z, K)
  BY <1>11, <1>12, <1>15, GuardedConcat
<1> DEFINE y == v \o z
<1>17. y \in Seq(Byte) /\ Guarded(y, K) /\ E = u \o y /\ Len(y) \in Nat
  BY <1>13, <1>16
<1> HIDE DEF y
<1>18. E \in Seq(Byte) /\ Guarded(E, K)
  BY <1>10, <1>15, <1>17, GuardedConcat
<1>19. Len(E) >= 3 /\ E[2] = Back /\ E[3] = Quote
  <2> DEFINE s == u \o y
  <2>1. /\ s \in Seq(Byte) /\ Len(s) = Len(u) + Len(y)
        /\ \A i \in 1 .. Len(u) + Len(y) : s[i] = IF i <= Len(u) THEN u[i] ELSE y[i - Len(u)]
    BY <1>10, <1>17, ConcatProperties
  <2> HIDE DEF s
  <2>2. Len(s) >= 3 /\ s[2] = Back /\ s[3] = Quote
    BY <1>10, <1>17, <2>1
  <2>3. E = s
    BY <1>17 DEF s
  <2> QED BY <2>2, <2>3
<1> QED BY <1>18, <1>19 DEF K

\* What stands in front of an escaped payload.
Heading == <<LeftBrace, Quote, Context, Quote, Colon, Quote>>

LEMMA HeadingBytes ==
    /\ Heading \in Seq(Plain) /\ Heading \in Seq(Byte) /\ Len(Heading) = 6 /\ Heading # <<>>
    /\ \A i \in 1 .. 6 : Heading[i] # Back
    /\ Guarded(Heading, ToSet(Keys))
<1> DEFINE h == Heading
           B == Plain \ {Back}
<1>1. \A a1, a2, a3, a4, a5, a6 \in B : <<a1, a2, a3, a4, a5, a6>> \in Seq(B)
  OBVIOUS
<1>2. LeftBrace \in B /\ Quote \in B /\ Colon \in B /\ Context \in B
  <2>1. Context \in Plain /\ Context # Back
    BY InByte, KeyNames DEF Context, Plain, Back
  <2> QED BY <2>1, PlainBytes, InMarks, MarksAreClean
<1>3. h \in Seq(B)
  <2> HIDE DEF B
  <2> QED BY <1>1, <1>2 DEF Heading
<1>4. Len(h) = 6
  BY DEF Heading
<1>5. B \subseteq Plain /\ B \subseteq Byte /\ Plain \cap ToSet(Keys) = {} /\ Plain \in SUBSET Byte
  BY PlainBytes DEF Plain
<1> HIDE DEF h
<1>6. h \in Seq(Plain) /\ h \in Seq(Byte)
  <2> HIDE DEF B
  <2> QED BY <1>3, <1>5, SeqMonotonic
<1>7. \A i \in 1 .. 6 : h[i] # Back
  <2>1. \A i \in 1 .. 6 : h[i] \in B
    <3> HIDE DEF B
    <3> QED BY <1>3, <1>4, ElementOfSeq
  <2> QED BY <2>1
<1>8. h # <<>>
  BY <1>4
<1>9. Guarded(h, ToSet(Keys))
  BY <1>5, <1>6, GuardedWithout
<1> QED BY <1>4, <1>6, <1>7, <1>8, <1>9 DEF h

\* The page the unescaped payload would stand in.
LEMMA NestedLayout ==
    ASSUME NEW key \in ToSet(Keys), NEW said \in Seq(Tame), NEW slash,
           NEW W, W = Heading \o Coded(Payload(key, said), Slashes(slash))
    PROVE  Layout(W, Heading, key, Post(said, slash))
<1> DEFINE h == Heading
           l == Leading(key)
           p == Post(said, slash)
<1>1. Coded(Payload(key, said), Slashes(slash)) = l \o p
  BY PayloadOnce
<1>2. said \in Seq(Said)
  BY TameBytes, SeqMonotonic
<1>3. PICK e \in Seq(Said) : IsText(e) /\ IsPost(p, e, Len(e))
  BY <1>2, CaptionInPost
<1>4. l \in Seq(Byte)
  BY AllKeys, LeadingBytes
<1>5. p \in Seq(Byte)
  BY <1>3, PostShape DEF PostBytes
<1>6. h \in Seq(Byte) /\ h \in Seq(Plain)
  BY HeadingBytes
<1> HIDE DEF h, l, p
<1>7. h \o (l \o p) = (h \o l) \o p
  BY <1>4, <1>5, <1>6, Regroup
<1>8. W = (h \o l) \o p
  BY <1>1, <1>7 DEF h
<1> QED BY <1>3, <1>6, <1>8 DEF Layout, h, l, p

\* The page as it is shows no post.
LEMMA NestedRaw ==
    ASSUME NEW E \in Seq(Byte), Guarded(E, ToSet(Keys)), NEW z \in Seq(Marks),
           NEW b, Part(b, (Heading \o E) \o z)
    PROVE  Found(b) = Nil
<1> DEFINE h == Heading
           K == ToSet(Keys)
           V == h \o E
           P == V \o z
<1>1. h \in Seq(Byte) /\ Guarded(h, K)
  BY HeadingBytes
<1>2. z \in Seq(Byte) /\ Guarded(z, K)
  <2>1. Marks \cap K = {} /\ Marks \in SUBSET Byte
    BY PlainBytes DEF Plain
  <2> QED BY <2>1, GuardedWithout
<1> HIDE DEF h
<1>3. V \in Seq(Byte) /\ Guarded(V, K)
  BY <1>1, GuardedConcat
<1> HIDE DEF V
<1>4. P \in Seq(Byte) /\ Guarded(P, K)
  BY <1>2, <1>3, GuardedConcat
<1>5. b \in Seq(Byte) /\ Len(b) <= Len(P) /\ \A i \in 1 .. Len(b) : b[i] = P[i]
  BY DEF Part, V, h
<1> HIDE DEF P
<1>6. Len(b) \in Nat /\ Len(P) \in Nat
  BY <1>4, <1>5
<1>7. ASSUME NEW i \in 1 .. Len(b) - 1, b[i] \in K PROVE b[i + 1] # Quote
  <2> DEFINE j == i + 1
  <2>1. i \in 1 .. Len(b) /\ j \in 1 .. Len(b) /\ i \in 1 .. Len(P)
    BY <1>5, <1>6
  <2>2. P[i] \in K => P[j] # Quote
    BY <1>4, <2>1 DEF Guarded
  <2> HIDE DEF j
  <2>3. b[i] = P[i] /\ b[j] = P[j]
    BY <1>5, <2>1
  <2>4. b[j] # Quote
    BY <1>7, <2>2, <2>3
  <2> QED BY <2>4 DEF j
<1> QED BY <1>5, <1>7, FoundNone

LEMMA NestedPage ==
    ASSUME NEW key \in ToSet(Keys), NEW said \in Seq(Tame), NEW inner, NEW outer,
           NEW E, E = Coded(Payload(key, said), Twofold(inner, outer)), NEW z \in Seq(Marks),
           NEW b, Part(b, (Heading \o E) \o z)
    PROVE  /\ Len(b) >= Len(Heading \o E) => ExtractShortcodeMedia(b) = {"counted"}
           /\ Len(b) < Len(Heading \o E) => ExtractShortcodeMedia(b) = {}
<1> DEFINE h == Heading
           V == h \o E
           n == Len(b)
           v == Coded(Payload(key, said), Slashes(inner /\ outer))
           W == h \o v
           p == Post(said, inner /\ outer)
           u == UnescapeJSONString(b)
<1>1. E \in Seq(Byte) /\ Guarded(E, ToSet(Keys)) /\ Len(E) >= 3 /\ E[2] = Back /\ E[3] = Quote
  BY PayloadWritten
<1>2. Found(b) = Nil
  BY <1>1, NestedRaw
<1>3. ExtractShortcodeMedia(b) = Decoded(Found(u))
  BY <1>2, DecodedNil, Extracted
<1>4. h \in Seq(Byte) /\ Len(h) = 6 /\ h # <<>> /\ \A i \in 1 .. 6 : h[i] # Back
  BY HeadingBytes
<1>5. Layout(W, h, key, p)
  BY NestedLayout
<1>6. Decoded(p) = {"counted"}
  BY <1>5, PostDecoded
<1>7. Part(b, V \o z)
  OBVIOUS
<1> HIDE DEF h, p, u
<1>8. V \in Seq(Byte) /\ Len(V) = 6 + Len(E) /\ \A i \in 1 .. 6 + Len(E) : V[i] = IF i <= 6 THEN h[i] ELSE E[i - 6]
  <2>1. V \in Seq(Byte) /\ Len(V) = Len(h) + Len(E) /\ \A i \in 1 .. Len(h) + Len(E) : V[i] = IF i <= Len(h) THEN h[i] ELSE E[i - Len(h)]
    BY <1>1, <1>4, ConcatBytes, Zenon
  <2> HIDE DEF V
  <2> QED BY <1>4, <2>1
<1> HIDE DEF V
<1>9. /\ b \in Seq(Byte) /\ n \in Nat /\ Len(V) \in Nat
      /\ \A i \in 1 .. n : i <= Len(V) => b[i] = V[i]
      /\ \A i \in Len(V) + 1 .. n : b[i] \in Marks
  BY <1>7, <1>8, PartOf, MarksAreClean
<1>14. Len(E) \in Nat
  BY <1>1
<1> HIDE DEF n
<1>15. n = Len(b)
  BY DEF n
<1>10. \A i \in 1 .. 6 : i <= n => b[i] # Back
  <2> TAKE i \in 1 .. 6
  <2>1. i <= n => i \in 1 .. n /\ i <= Len(V) /\ i \in 1 .. 6 + Len(E)
    BY <1>8, <1>9, <1>14
  <2>2. i <= n => b[i] = V[i] /\ V[i] = h[i]
    BY <1>8, <1>9, <2>1
  <2>3. h[i] # Back
    BY <1>4
  <2> QED BY <2>2, <2>3, Zenon
<1>11. CASE \A i \in 1 .. n - 1 : b[i] = Back => b[i + 1] # Quote
  <2>1. u = b
    BY <1>9, <1>15, <1>11, Unescaped DEF u
  <2>2. ExtractShortcodeMedia(b) = {}
    BY <1>2, <1>3, <2>1, DecodedNil
  <2>3. n < Len(V)
    <3> SUFFICES ASSUME n >= Len(V) PROVE FALSE
      BY <1>9
    <3>1. n >= 9 /\ 8 \in 1 .. n /\ 9 \in 1 .. n /\ 8 \in 1 .. 6 + Len(E) /\ 9 \in 1 .. 6 + Len(E)
          /\ 8 <= Len(V) /\ 9 <= Len(V) /\ 8 - 6 = 2 /\ 9 - 6 = 3 /\ ~(8 <= 6) /\ ~(9 <= 6)
          /\ 8 \in 1 .. n - 1 /\ 8 + 1 = 9
      BY <1>1, <1>8, <1>9, <1>14
    <3>2. b[8] = V[8] /\ b[9] = V[9] /\ V[8] = E[8 - 6] /\ V[9] = E[9 - 6]
      BY <1>8, <1>9, <3>1
    <3>3. b[8] = Back /\ b[9] = Quote
      BY <1>1, <3>1, <3>2
    <3> QED BY <1>11, <3>1, <3>3
  <2>4. ~(n >= Len(V))
    BY <1>9, <2>3
  <2> QED BY <1>15, <2>2, <2>4 DEF V, h
<1>12. CASE \E i \in 1 .. n - 1 : b[i] = Back /\ b[i + 1] = Quote
  <2>1. u = Copied(b)[n].out
    BY <1>9, <1>15, <1>12, Unescaped DEF u
  <2>2. PICK i \in 1 .. n - 1 : b[i] = Back
    BY <1>12
  <2>3. 6 <= n /\ 6 \in 0 .. n
    <3>1. ~(i <= 6)
      <4>1. i <= 6 => i \in 1 .. 6 /\ i <= n
        BY <1>9
      <4> QED BY <1>10, <2>2, <4>1
    <3> QED BY <1>9, <3>1
  <2>4. Wrote(b, 6, h)
    <3> DEFINE s == SubSeq(b, 1, 6)
    <3>1. s \in Seq(Byte) /\ Len(s) = 6 /\ \A k \in 1 .. 6 : s[k] = b[k]
      <4>1. 6 \in Nat /\ 6 <= Len(b)
        BY <1>15, <2>3
      <4> QED BY <1>9, <4>1, FirstBytes
    <3>2. Wrote(b, 6, s)
      <4>1. 6 \in 0 .. Len(b) /\ \A k \in 1 .. 6 : b[k] # Back
        BY <1>9, <1>10, <1>15, <2>3
      <4> QED BY <1>9, <4>1, HeadStays
    <3> HIDE DEF s
    <3>3. \A k \in 1 .. 6 : s[k] = h[k]
      <4> TAKE k \in 1 .. 6
      <4>1. k \in 1 .. n /\ k <= Len(V) /\ k \in 1 .. 6 + Len(E)
        BY <1>8, <1>9, <1>14, <2>3
      <4> QED BY <1>8, <1>9, <3>1, <4>1
    <3>4. s = h
      <4>1. s \in Seq(Byte) /\ h \in Seq(Byte) /\ Len(s) = Len(h)
        BY <1>4, <3>1
      <4>2. \A k \in 1 .. Len(s) : s[k] = h[k]
        BY <3>1, <3>3, Zenon
      <4> QED BY <4>1, <4>2, SeqEqual
    <3> QED BY <3>2, <3>4
  <2>5. Stands(b, 6, E)
    <3> SUFFICES ASSUME NEW k \in 1 .. Len(E), 6 + k <= Len(b) PROVE b[6 + k] = E[k]
      BY DEF Stands
    <3> DEFINE j == 6 + k
    <3>1. j \in 1 .. n /\ j <= Len(V) /\ j \in 1 .. 6 + Len(E) /\ ~(j <= 6) /\ j - 6 = k
      BY <1>8, <1>9, <1>14, <1>15
    <3> HIDE DEF j
    <3>2. b[j] = V[j] /\ V[j] = E[j - 6]
      BY <1>8, <1>9, <3>1
    <3>3. b[j] = E[k]
      BY <3>1, <3>2
    <3> QED BY <3>3 DEF j
  <2>6. Copies(b, 6, h, E, v)
    <3>1. Payload(key, said) \in Seq(Clean)
      BY PayloadIsClean
    <3>2. 6 \in Nat /\ 6 <= Len(b)
      BY <1>15, <2>3
    <3> QED BY <1>4, <1>9, <2>4, <3>1, <3>2, CopiesText
  <2>7. W \in Seq(Byte)
    BY <1>5, PageLayout DEF LayoutBytes
  <2> HIDE DEF v, W
  <2>8. CASE n >= Len(V)
    <3> DEFINE m == 6 + Len(E)
    <3>1. m <= n /\ m \in 0 .. n /\ m = Len(V)
      BY <1>8, <1>9, <1>14, <2>8
    <3>2. Wrote(b, m, W)
      BY <1>15, <2>5, <2>6, <3>1 DEF Copies, W
    <3> HIDE DEF m
    <3>3. \A k \in m + 1 .. n : b[k] \in Marks
      BY <1>9, <3>1
    <3>4. PICK r \in Seq(Marks) : Wrote(b, n, W \o r)
      <4>1. Marks \in SUBSET Byte /\ Back \notin Marks
        BY MarksAreClean
      <4> QED BY <1>9, <1>15, <2>7, <3>1, <3>2, <3>3, <4>1, TailStays
    <3> DEFINE t == W \o r
    <3>5. u = t
      BY <2>1, <3>4 DEF Wrote, Writing
    <3>6. r \in Seq(Byte) /\ \A k \in 1 .. Len(r) : r[k] \in Plain
      <4>1. r \in Seq(Byte)
        BY MarksAreClean, SeqMonotonic
      <4>2. \A k \in 1 .. Len(r) : r[k] \in Marks
        OBVIOUS
      <4> QED BY <4>1, <4>2, PlainBytes
    <3> DEFINE d == Len(W)
    <3>7. t \in Seq(Byte) /\ Len(t) = d + Len(r) /\ \A k \in 1 .. d + Len(r) : t[k] = IF k <= d THEN W[k] ELSE r[k - d]
      BY <2>7, <3>6, ConcatProperties
    <3>8. d \in Nat /\ Len(r) \in Nat
      BY <2>7
    <3> HIDE DEF t, d
    <3>9. d <= Len(t) /\ \A k \in 1 .. d : t[k] = W[k]
      BY <3>7, <3>8
    <3>10. \A k \in d + 1 .. Len(t) : t[k] \in Plain
      <4> TAKE k \in d + 1 .. Len(t)
      <4>1. k \in 1 .. d + Len(r) /\ ~(k <= d) /\ k - d \in 1 .. Len(r)
        BY <3>7, <3>8
      <4> QED BY <3>6, <3>7, <4>1
    <3>11. Found(t) = p
      BY <1>4, <1>5, <3>7, <3>9, <3>10, FoundWhole DEF d
    <3>12. ExtractShortcodeMedia(b) = {"counted"}
      BY <1>3, <1>6, <3>5, <3>11
    <3>13. ~(n < Len(V))
      BY <1>9, <2>8
    <3> QED BY <1>15, <3>12, <3>13 DEF V, h
  <2>9. CASE ~(n >= Len(V))
    <3>1. n < 6 + Len(E)
      BY <1>8, <1>9, <1>14, <2>9
    <3>2. PICK s, m : Wrote(b, n, s) /\ CutOff(s, W, m)
      BY <1>15, <2>5, <2>6, <3>1 DEF Copies, W
    <3>3. u = s
      BY <2>1, <3>2 DEF Wrote, Writing
    <3>4. Found(u) = Nil
      BY <1>5, <3>2, <3>3, FoundCut
    <3>5. ExtractShortcodeMedia(b) = {}
      BY <1>3, <3>4, DecodedNil
    <3> QED BY <1>15, <2>9, <3>5 DEF V, h
  <2> QED BY <2>8, <2>9
<1> QED BY <1>11, <1>12

---------------------------------------------------------------------------
(* The steps. *)

\* What the platform sends.
Rendered(key, inner, outer) ==
    LET post == Post(caption, inner)
    IN  IF nested THEN InString(key, post, outer) ELSE InPage(key, post)

\* The inductive invariant: the page is one a platform renders for the caption, and
\* what has been read is its beginning.
ScanInv ==
    /\ caption \in Seq(Said)
    /\ nested \in BOOLEAN
    /\ \E key \in ToSet(Keys) : \E inner, outer \in BOOLEAN : page = Rendered(key, inner, outer)
    /\ Part(body, page)

LEMMA Behindhand ==
    /\ After(FALSE) \in Seq(Plain) /\ Len(After(FALSE)) = 2 /\ After(FALSE) \in Seq(Byte)
    /\ After(TRUE) \in Seq(Marks) /\ Len(After(TRUE)) = 3 /\ After(TRUE) \in Seq(Byte)
<1>1. After(FALSE) = <<RightBrace, Less>> /\ After(TRUE) = <<RightBrace, Quote, RightBrace>>
  BY DEF After, RightBrace, Less
<1>2. RightBrace \in Plain /\ Less \in Plain
  <2>1. Less \in Plain
    BY InByte, KeyNames DEF Plain, Less
  <2> QED BY <2>1, InMarks, PlainBytes
<1>3. <<RightBrace, Less>> \in Seq(Plain)
  BY <1>2
<1>4. <<RightBrace, Quote, RightBrace>> \in Seq(Marks)
  BY InMarks
<1>5. <<RightBrace, Less>> \in Seq(Byte) /\ Len(<<RightBrace, Less>>) = 2
  BY InByte, Words
<1>6. <<RightBrace, Quote, RightBrace>> \in Seq(Byte) /\ Len(<<RightBrace, Quote, RightBrace>>) = 3
  BY InByte, Words
<1> QED BY <1>1, <1>3, <1>4, <1>5, <1>6, Zenon

Margin == <<Less>>

LEMMA MarginBytes == Margin \in Seq(Plain) /\ Margin \in Seq(Byte) /\ Margin # <<>> /\ Paired(Margin)
<1>1. Less \in Plain /\ Less \in Byte /\ Less # Back
  BY InByte, KeyNames DEF Plain, Less, Back
<1>2. \A S : \A x \in S : <<x>> \in Seq(S) /\ <<x>> # <<>> /\ Len(<<x>>) = 1 /\ <<x>>[1] = x
  OBVIOUS
<1>3. /\ Margin \in Seq(Plain) /\ Margin \in Seq(Byte) /\ Margin # <<>>
      /\ Len(Margin) = 1 /\ Margin[1] = Less
  BY <1>1, <1>2, Zenon DEF Margin
<1> HIDE DEF Margin
<1>4. \A k \in 1 .. Len(Margin) : Margin[k] # Back
  <2>1. \A k \in 1 .. 1 : k = 1
    OBVIOUS
  <2> QED BY <1>1, <1>3, <2>1, Zenon
<1>5. Paired(Margin)
  <2>1. \A k \in 1 .. Len(Margin) : Margin[k] \notin {Back}
    BY <1>4, Zenon
  <2> QED BY <2>1, Zenon DEF Paired, Guarded
<1> QED BY <1>3, <1>5

\* The page is the bytes up to the end of the post, or of the payload, and those behind it.
PlainText(key, said, slash, W) ==
    /\ InPage(key, Post(said, slash)) = W \o After(FALSE)
    /\ W = (Margin \o Leading(key)) \o Post(said, slash)
    /\ Layout(W, Margin, key, Post(said, slash)) /\ W \in Seq(Byte)

NestedText(key, said, slash, outer, E) ==
    /\ InString(key, Post(said, slash), outer) = (Heading \o E) \o After(TRUE)
    /\ E = Escape(Leading(key) \o Post(said, slash), outer)
    /\ E \in Seq(Byte) /\ Heading \o E \in Seq(Byte)

LEMMA PlainShape ==
    ASSUME NEW key \in ToSet(Keys), NEW said \in Seq(Said), NEW slash
    PROVE  \E W : PlainText(key, said, slash, W)
<1> DEFINE p == Post(said, slash)
           l == Leading(key)
           W == (Margin \o l) \o p
           m == Margin
<1>1. InPage(key, p) = W \o After(FALSE)
  <2>1. InPage(key, p) = <<"<">> \o l \o p \o After(FALSE)
    BY DEF InPage
  <2>2. Margin = <<"<">>
    BY DEF Margin, Less
  <2> HIDE DEF p, l
  <2> QED BY <2>1, <2>2
<1>2. \E e \in Seq(Said) : IsText(e) /\ IsPost(p, e, Len(e))
  BY CaptionInPost
<1>3. W = (m \o Leading(key)) \o p
  OBVIOUS
<1>4. m \in Seq(Plain)
  BY MarginBytes
<1> HIDE DEF p, W, m
<1>5. Layout(W, m, key, p)
  BY <1>2, <1>3, <1>4, Zenon DEF Layout
<1>6. W \in Seq(Byte)
  BY <1>5, PageLayout DEF LayoutBytes
<1>7. PlainText(key, said, slash, W)
  BY <1>1, <1>3, <1>5, <1>6, Zenon DEF PlainText, p, m
<1> QED BY <1>7

LEMMA NestedShape ==
    ASSUME NEW key \in ToSet(Keys), NEW said \in Seq(Said), NEW slash, NEW outer
    PROVE  \E E : NestedText(key, said, slash, outer, E)
<1> DEFINE p == Post(said, slash)
           l == Leading(key)
           x == l \o p
           E == Escape(x, outer)
<1>1. InString(key, p, outer) = (Heading \o E) \o After(TRUE)
  BY DEF InString, Heading, LeftBrace, Context, Colon
<1>2. p \in Seq(Byte)
  <2>1. PICK e \in Seq(Said) : IsPost(p, e, Len(e))
    BY CaptionInPost
  <2> HIDE DEF p
  <2> QED BY <2>1, PostShape DEF PostBytes
<1>3. l \in Seq(Byte)
  BY AllKeys, LeadingBytes
<1>4. x \in Seq(Byte)
  <2> HIDE DEF l, p
  <2> QED BY <1>2, <1>3, ConcatProperties
<1>5. E \in Seq(Byte)
  <2> HIDE DEF x
  <2> QED BY <1>4, EscapeIsCoded, CodedType
<1>6. Heading \o E \in Seq(Byte)
  <2> HIDE DEF E
  <2> QED BY <1>5, HeadingBytes, ConcatProperties
<1>7. NestedText(key, said, slash, outer, E)
  BY <1>1, <1>5, <1>6, Zenon DEF NestedText
<1> QED BY <1>7

LEMMA PageType ==
    ASSUME caption \in Seq(Said), nested \in BOOLEAN,
           NEW key \in ToSet(Keys), NEW inner, NEW outer, page = Rendered(key, inner, outer)
    PROVE  page \in Seq(Byte)
<1>1. CASE nested
  <2>1. page = InString(key, Post(caption, inner), outer)
    BY <1>1 DEF Rendered
  <2>0. PICK E : NestedText(key, caption, inner, outer, E)
    BY NestedShape
  <2>2. InString(key, Post(caption, inner), outer) = (Heading \o E) \o After(TRUE) /\ Heading \o E \in Seq(Byte)
    BY <2>0, Zenon DEF NestedText
  <2> DEFINE v == Heading \o E
             z == After(TRUE)
  <2>3. page = v \o z /\ v \in Seq(Byte) /\ z \in Seq(Byte)
    BY <2>1, <2>2, Behindhand
  <2> HIDE DEF v, z
  <2> QED BY <2>3, ConcatProperties
<1>2. CASE ~nested
  <2>1. page = InPage(key, Post(caption, inner))
    BY <1>2 DEF Rendered
  <2>0. PICK W : PlainText(key, caption, inner, W)
    BY PlainShape
  <2>2. InPage(key, Post(caption, inner)) = W \o After(FALSE) /\ W \in Seq(Byte)
    BY <2>0, Zenon DEF PlainText
  <2> DEFINE z == After(FALSE)
  <2>3. page = W \o z /\ z \in Seq(Byte)
    BY <2>1, <2>2, Behindhand
  <2> HIDE DEF z
  <2> QED BY <2>2, <2>3, ConcatProperties
<1> QED BY <1>1, <1>2

LEMMA InitScan == ScanInit => ScanInv
<1> SUFFICES ASSUME ScanInit PROVE ScanInv
  OBVIOUS
<1>1. caption \in Seq(Said)
  <2>1. Glyph \subseteq Said
    BY ScanConfig DEF Said
  <2>2. PICK m \in 0 .. MaxCaption : caption \in [1 .. m -> Glyph]
    BY DEF ScanInit, BoundedSeq, SeqOf
  <2>3. caption \in Seq(Glyph)
    <3>1. MaxCaption \in Nat
      BY ScanConfig
    <3>2. m \in Nat
      BY <3>1
    <3>3. Seq(Glyph) = UNION {[1 .. n -> Glyph] : n \in Nat}
      BY SeqDef
    <3> QED BY <2>2, <3>2, <3>3, Zenon
  <2> QED BY <2>1, <2>3, SeqMonotonic
<1>2. nested \in BOOLEAN
  BY DEF ScanInit
<1>3. PICK key \in ToSet(Keys), inner \in BOOLEAN, outer \in BOOLEAN : page = Rendered(key, inner, outer)
  BY DEF ScanInit, Rendered
<1>4. page \in Seq(Byte)
  BY <1>1, <1>2, <1>3, PageType
<1>5. body \in Seq(Byte) /\ Len(body) = 0
  BY DEF ScanInit
<1>6. Len(page) \in Nat
  BY <1>4
<1>7. Part(body, page)
  BY <1>4, <1>5, <1>6 DEF Part
<1> QED BY <1>1, <1>2, <1>3, <1>7 DEF ScanInv

LEMMA NextScan == ScanInv /\ [ScanNext]_scanVars => ScanInv'
<1> SUFFICES ASSUME ScanInv, [ScanNext]_scanVars PROVE ScanInv'
  OBVIOUS
<1>1. caption' = caption /\ nested' = nested /\ page' = page
  BY DEF ScanNext, Read, scanVars
<1>2. Part(body, page)
  BY DEF ScanInv
<1>3. Part(body', page)
  <2>1. CASE body' = body
    BY <1>2, <2>1
  <2>2. CASE Read
    <3> DEFINE n == Len(body)
               j == n + 1
               c == page[j]
               b == body'
    <3>1. body \in Seq(Byte) /\ page \in Seq(Byte) /\ n <= Len(page) /\ \A i \in 1 .. n : body[i] = page[i]
      BY <1>2 DEF Part
    <3>2. n # Len(page)
      <4> SUFFICES ASSUME n = Len(page) PROVE FALSE
        OBVIOUS
      <4>1. body = page
        BY <3>1, SeqEqual
      <4> QED BY <2>2, <4>1 DEF Read
    <3>3. n \in Nat /\ Len(page) \in Nat /\ j \in 1 .. Len(page)
      BY <3>1, <3>2
    <3>4. c \in Byte
      BY <3>1, <3>3
    <3>5. b = Append(body, c)
      BY <2>2 DEF Read
    <3>6. b \in Seq(Byte) /\ Len(b) = j /\ b[j] = c /\ \A i \in 1 .. n : b[i] = body[i]
      <4> HIDE DEF c, b
      <4> QED BY <3>1, <3>4, <3>5, AppendProperties
    <3> HIDE DEF b
    <3>7. ASSUME NEW i \in 1 .. Len(b) PROVE b[i] = page[i]
      <4>1. i \in 1 .. n \/ i = j
        BY <3>3, <3>6
      <4> QED BY <3>1, <3>6, <4>1
    <3> QED BY <3>1, <3>3, <3>6, <3>7 DEF Part, b
  <2> QED BY <2>1, <2>2 DEF ScanNext, scanVars
<1>4. ScanInv
  OBVIOUS
<1>5. Part(body, page)'
  BY <1>1, <1>3
<1> QED BY <1>1, <1>4, <1>5 DEF ScanInv, Rendered

LEMMA WholeBytes ==
    ASSUME NEW V \in Seq(Byte), NEW z \in Seq(Byte), page = V \o z, NEW n \in Nat
    PROVE  n >= Len(page) - Len(z) <=> n >= Len(V)
<1>1. Len(V \o z) = Len(V) + Len(z) /\ Len(V) \in Nat /\ Len(z) \in Nat
  OBVIOUS
<1> QED BY <1>1

LEMMA ScanRead == ScanInv => PostsAreReadWhole
<1> SUFFICES ASSUME ScanInv PROVE PostsAreReadWhole
  OBVIOUS
<1>1. PICK key \in ToSet(Keys), inner \in BOOLEAN, outer \in BOOLEAN : page = Rendered(key, inner, outer)
  BY DEF ScanInv
<1>2. caption \in Seq(Said) /\ nested \in BOOLEAN /\ Part(body, page)
  BY DEF ScanInv
<1>3. Len(body) \in Nat
  BY <1>2 DEF Part
<1>4. Simple => caption \in Seq(Tame)
  <2> SUFFICES ASSUME Simple PROVE caption \in Seq(Tame)
    OBVIOUS
  <2>1. \A i \in 1 .. Len(caption) : caption[i] \in Tame
    BY <1>2 DEF Simple, Tame
  <2>2. caption \in [1 .. Len(caption) -> Tame] /\ Len(caption) \in Nat
    BY <1>2, <2>1
  <2> QED BY <2>2, IsASeq
<1>5. CASE nested
  <2>1. page = InString(key, Post(caption, inner), outer)
    BY <1>1, <1>5 DEF Rendered
  <2>0. PICK E : NestedText(key, caption, inner, outer, E)
    BY <1>2, NestedShape
  <2>2. /\ InString(key, Post(caption, inner), outer) = (Heading \o E) \o After(TRUE)
        /\ E = Escape(Leading(key) \o Post(caption, inner), outer)
        /\ E \in Seq(Byte) /\ Heading \o E \in Seq(Byte)
    BY <2>0, Zenon DEF NestedText
  <2> DEFINE V == Heading \o E
             z == After(TRUE)
  <2>3. page = V \o z /\ V \in Seq(Byte) /\ z \in Seq(Byte) /\ z \in Seq(Marks)
    BY <2>1, <2>2, Behindhand
  <2>4. Complete <=> Len(body) >= Len(V)
    <3>1. Complete <=> Len(body) >= Len(page) - Len(z)
      BY <1>5 DEF Complete
    <3> HIDE DEF V, z
    <3> QED BY <1>3, <2>3, <3>1, WholeBytes
  <2>5. ASSUME Simple
        PROVE  /\ Len(body) >= Len(V) => ExtractShortcodeMedia(body) = {"counted"}
               /\ Len(body) < Len(V) => ExtractShortcodeMedia(body) = {}
    <3>1. caption \in Seq(Tame)
      BY <1>4, <2>5
    <3>2. E = Coded(Payload(key, caption), Twofold(inner, outer))
      BY <2>2, <3>1, PayloadTwice
    <3>3. Part(body, (Heading \o E) \o z)
      BY <1>2, <2>3
    <3> HIDE DEF z
    <3> QED BY <2>3, <3>1, <3>2, <3>3, NestedPage
  <2>6. Len(V) \in Nat
    BY <2>3
  <2> HIDE DEF V
  <2>7. ~Complete => Len(body) < Len(V)
    BY <1>3, <2>4, <2>6
  <2> QED BY <1>5, <2>4, <2>5, <2>7 DEF PostsAreReadWhole
<1>6. CASE ~nested
  <2>1. page = InPage(key, Post(caption, inner))
    BY <1>1, <1>6 DEF Rendered
  <2>0. PICK W : PlainText(key, caption, inner, W)
    BY <1>2, PlainShape
  <2>2. /\ InPage(key, Post(caption, inner)) = W \o After(FALSE)
        /\ W = (Margin \o Leading(key)) \o Post(caption, inner)
        /\ Layout(W, Margin, key, Post(caption, inner)) /\ W \in Seq(Byte)
    BY <2>0, Zenon DEF PlainText
  <2> DEFINE z == After(FALSE)
             p == Post(caption, inner)
             A == Margin
  <2>3. page = W \o z /\ z \in Seq(Byte) /\ z \in Seq(Plain)
    BY <2>1, <2>2, Behindhand
  <2>4. nested = FALSE
    BY <1>2, <1>6
  <2>5. Complete <=> Len(body) >= Len(W)
    <3>1. Complete <=> Len(body) >= Len(page) - Len(z)
      BY <2>4 DEF Complete
    <3> HIDE DEF z
    <3> QED BY <1>3, <2>2, <2>3, <3>1, WholeBytes
  <2>6. Simple => Paired(W)
    <3> SUFFICES ASSUME Simple PROVE Paired(W)
      OBVIOUS
    <3>1. caption \in Seq(Tame)
      BY <1>4
    <3>2. Paired((Margin \o Leading(key)) \o Post(caption, inner))
      BY <3>1, MarginBytes, PairedPage
    <3> QED BY <2>2, <3>2, Zenon
  <2>7. Layout(W, A, key, p) /\ A # <<>> /\ Part(body, W \o z)
    <3>1. Part(body, W \o z)
      BY <1>2, <2>3, Zenon
    <3>2. A # <<>>
      BY MarginBytes
    <3> QED BY <2>2, <3>1, <3>2, Zenon
  <2> HIDE DEF z, p, A
  <2>8. Len(body) >= Len(W) => ExtractShortcodeMedia(body) = {"counted"}
    BY <2>3, <2>7, WholeInPage
  <2>9. Paired(W) /\ Len(body) < Len(W) => ExtractShortcodeMedia(body) = {}
    BY <2>3, <2>7, CutInPage
  <2>10. Len(W) \in Nat
    BY <2>2
  <2>11. ~Complete => Len(body) < Len(W)
    BY <1>3, <2>5, <2>10
  <2> QED BY <2>5, <2>6, <2>8, <2>9, <2>11 DEF PostsAreReadWhole
<1> QED BY <1>2, <1>5, <1>6

\* What has been read is at every moment the beginning of a page rendered for the post.
THEOREM PageArrivesInOrder == ScanSpec => []ScanInv
BY InitScan, NextScan, PTL DEF ScanSpec

\* For captions of every length: a simple caption's post is read with its counters as
\* soon as all of it has arrived, and nothing is read before; a post whose caption has
\* quotes, backslashes or line breaks is read once it is whole, unless its payload is
\* escaped once more.  This is findObject's promise that a brace inside a caption does
\* not end the object, as far as the code keeps it.
THEOREM PostsAreFoundWhole == ScanSpec => []PostsAreReadWhole
BY PageArrivesInOrder, ScanRead, PTL

==================================================================================
