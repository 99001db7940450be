----------------------------- MODULE BrowserSession ------------------------------
(***************************************************************************)
(* One browser and the dashboard: its cookies, its tabs, and the pages the   *)
(* server renders into them.  A request carries the cookies of the moment it *)
(* was sent, a response sets cookies when it arrives, and the tabs' requests *)
(* and responses pass each other: that is where a form, a message or a       *)
(* sign-out of one tab meets what another tab has done meanwhile.            *)
(*                                                                         *)
(* A handler is one step: what its statements may meet is AuthService's and  *)
(* Lookups'.  Scripts get JSON instead of redirects and are not modelled.    *)
(* Registration is open and the random source does not fail.                 *)
(***************************************************************************)
EXTENDS Naturals, FiniteSets

CONSTANTS Tab, User,
          Session,  \* session tokens; one may be issued again when nobody holds it
          Csrf,     \* CSRF tokens, likewise
          Flash,    \* queued messages, likewise
          Opened,   \* bound: the pages the user opens by address or link, each with
                    \* the ?next= it names
          Sent,     \* bound: the forms the user submits
          MaxActs,  \* bound: how often the user acts
          MaxUpsets \* bound: how often an answer is lost, a cookie or a session ends

None == "none"
Keep == "keep"      \* a response without a Set-Cookie for this cookie
Own == "own"        \* a message rendered by the handler itself

Anonymous == {"/login", "/register"}
Guarded == {"/", "/settings", "/lookups/{id}"}
Forms == Anonymous \cup {"/lookups", "/lookups/{id}/delete", "/settings", "/settings/password",
                         "/logout", "/logout-all"}
Path == Anonymous \cup Guarded \cup Forms

ASSUME BrowserConfig ==
    /\ Opened \subseteq Path \X (Path \cup {None}) /\ Sent \subseteq Forms
    /\ \A o \in Opened : o[2] # None => o[1] = "/login"
    /\ MaxActs \in Nat /\ MaxUpsets \in Nat
    /\ {None, Keep, Own} \cap (User \cup Session \cup Csrf \cup Flash) = {}

VARIABLES
    cookie,     \* the browser's session, CSRF and flash cookies
    view,       \* the page each tab shows
    request,    \* the request each tab waits for, not yet handled
    response,   \* the answer on its way to each tab
    owner,      \* the user of each session the server accepts
    disturbed,  \* history: which cookies, or their session, something else than
                \* the tab itself changed since the user last acted in it
    said,       \* history: the message queued since then
    hops,       \* history: redirects followed since then, counted up to three
    acts,       \* how often the user has acted
    upsets      \* how often the world has

vars == <<cookie, view, request, response, owner, disturbed, said, hops, acts, upsets>>
counts == <<acts, upsets>>

Crumbs == [session : Session \cup {None}, csrf : Csrf \cup {None}, flash : Flash \cup {None}]
Crumb == DOMAIN cookie
SetCookie == [session : Session \cup {None, Keep}, csrf : Csrf \cup {None, Keep},
              flash : Flash \cup {None, Keep}]
Page == [path : Path \cup {"blank", "error", "missing"}, user : User \cup {None},
         token : Csrf \cup {None}, next : Path \cup {None}, flash : Flash \cup {None, Own}]
Request == [path : Path \cup {None}, post : BOOLEAN, sent : Crumbs, token : Csrf \cup {None},
            next : Path \cup {None}, shown : User \cup {None}]
Response == [some : BOOLEAN, to : Path \cup {None}, next : Path \cup {None},
             set : SetCookie, page : Page]

Bare == [session |-> None, csrf |-> None, flash |-> None]
Unset == [session |-> Keep, csrf |-> Keep, flash |-> Keep]
Blank == [path |-> "blank", user |-> None, token |-> None, next |-> None, flash |-> None]
NoRequest == [path |-> None, post |-> FALSE, sent |-> Bare, token |-> None, next |-> None,
              shown |-> None]
NoResponse == [some |-> FALSE, to |-> None, next |-> None, set |-> Unset, page |-> Blank]

TypeOK ==
    /\ cookie \in Crumbs
    /\ view \in [Tab -> Page]
    /\ request \in [Tab -> Request]
    /\ response \in [Tab -> Response]
    /\ owner \in [Session -> User \cup {None}]
    /\ disturbed \in [Tab -> SUBSET {"session", "csrf", "flash"}]
    /\ said \in [Tab -> Flash \cup {None}]
    /\ hops \in [Tab -> 0..3]
    /\ acts \in 0..MaxActs /\ upsets \in 0..MaxUpsets

\* A browser that is new to the site, or one that signed in before.
Init ==
    /\ \/ cookie = Bare /\ owner = [s \in Session |-> None]
       \/ \E u \in User, s \in Session, k \in Csrf :
             /\ cookie = [session |-> s, csrf |-> k, flash |-> None]
             /\ owner = [x \in Session |-> IF x = s THEN u ELSE None]
    /\ view = [t \in Tab |-> Blank]
    /\ request = [t \in Tab |-> NoRequest]
    /\ response = [t \in Tab |-> NoResponse]
    /\ disturbed = [t \in Tab |-> {}]
    /\ said = [t \in Tab |-> None]
    /\ hops = [t \in Tab |-> 0]
    /\ acts = 0 /\ upsets = 0

Idle(t) == request[t] = NoRequest /\ response[t] = NoResponse

---------------------------------------------------------------------------
\* Random tokens are new: nothing holds them.
HeldCsrf == UNION {{cookie.csrf, view[t].token, request[t].sent.csrf, request[t].token,
                    response[t].set.csrf, response[t].page.token} : t \in Tab}
HeldFlash == UNION {{cookie.flash, view[t].flash, said[t], request[t].sent.flash,
                     response[t].set.flash, response[t].page.flash} : t \in Tab}
HeldSession == UNION {{cookie.session, request[t].sent.session, response[t].set.session}
                        : t \in Tab}
FreshCsrf == Csrf \ HeldCsrf
FreshFlash == Flash \ HeldFlash
FreshSession == {s \in Session : owner[s] = None} \ HeldSession

---------------------------------------------------------------------------
\* The browser.

\* The forms on a page; the sign-out button is in everybody's layout.
FormsOf(p) ==
    (IF p.user # None THEN {"/logout"} ELSE {})
    \cup CASE p.path \in Anonymous -> {p.path}
           [] p.path = "/" -> {"/lookups"}
           [] p.path = "/lookups/{id}" -> {"/lookups/{id}/delete"}
           [] p.path = "/settings" -> {"/settings", "/settings/password", "/logout-all"}
           [] OTHER -> {}

\* The user acts in a tab: what it showed is gone, and so is what it waited for.
Send(t, r) ==
    /\ Idle(t) /\ acts < MaxActs
    /\ acts' = acts + 1
    /\ view' = [view EXCEPT ![t] = Blank]
    /\ request' = [request EXCEPT ![t] = r]
    /\ disturbed' = [disturbed EXCEPT ![t] = {}]
    /\ said' = [said EXCEPT ![t] = None]
    /\ hops' = [hops EXCEPT ![t] = 0]
    /\ UNCHANGED <<cookie, response, owner, upsets>>

\* A page by its address, or by a link.  A link to the sign-in form may name any page
\* of the site as next (safeNext), the two forms included; one that names the sign-in
\* form with another next in it is not modelled.
Open(t, p, next) == Send(t, [NoRequest EXCEPT !.path = p, !.next = next, !.sent = cookie])

Submit(t, f) ==
    /\ f \in FormsOf(view[t])
    /\ Send(t, [path |-> f, post |-> TRUE, sent |-> cookie, token |-> view[t].token,
                next |-> IF f = "/login" THEN view[t].next ELSE None,
                shown |-> view[t].user])

Stored(set) == [c \in Crumb |-> IF set[c] = Keep THEN cookie[c] ELSE set[c]]
Changed(new) == {c \in Crumb : new[c] # cookie[c]}
Disturb(tabs, what) == [o \in Tab |-> IF o \in tabs THEN disturbed[o] \cup what
                                      ELSE disturbed[o]]

\* An answer arrives: its cookies are stored, a redirect is followed at once.
Receive(t) ==
    LET r == response[t]
        new == Stored(r.set)
    IN  /\ r.some
        /\ cookie' = new
        /\ response' = [response EXCEPT ![t] = NoResponse]
        /\ disturbed' = Disturb(Tab \ {t}, Changed(new))
        /\ said' = IF r.set.flash \in Flash THEN [said EXCEPT ![t] = r.set.flash] ELSE said
        /\ IF r.to # None
             THEN /\ request' = [request EXCEPT ![t] =
                        [NoRequest EXCEPT !.path = r.to, !.next = r.next, !.sent = new]]
                  /\ hops' = [hops EXCEPT ![t] = IF @ = 3 THEN 3 ELSE @ + 1]
                  /\ UNCHANGED view
             ELSE /\ view' = [view EXCEPT ![t] = r.page]
                  /\ UNCHANGED <<request, hops>>
        /\ UNCHANGED <<owner, counts>>

Upset == upsets < MaxUpsets /\ upsets' = upsets + 1

\* The connection fails, or the user stops waiting, before or after the request
\* was handled: the answer's cookies never arrive.
Lose(t) ==
    /\ ~Idle(t)
    /\ Upset
    /\ request' = [request EXCEPT ![t] = NoRequest]
    /\ response' = [response EXCEPT ![t] = NoResponse]
    /\ said' = [said EXCEPT ![t] = None]
    /\ UNCHANGED <<cookie, view, owner, disturbed, hops, acts>>

\* Cookies reach their Max-Age.  startSession gives the CSRF cookie the session
\* cookie's, and a minted one has a whole TTL from then: it outlives the session's.
CookiesExpire(gone) ==
    /\ gone \in {{"session", "csrf"}, {"session"}, {"flash"}}
    /\ cookie' = [c \in Crumb |-> IF c \in gone THEN None ELSE cookie[c]]
    /\ cookie' # cookie
    /\ Upset
    /\ disturbed' = Disturb(Tab, Changed(cookie'))
    /\ UNCHANGED <<view, request, response, owner, said, hops, acts>>

\* A session ends by expiry, by suspension, or from another device.
SessionEnds(s) ==
    /\ owner[s] # None
    /\ Upset
    /\ owner' = [owner EXCEPT ![s] = None]
    /\ disturbed' = Disturb(Tab, {"session"})
    /\ UNCHANGED <<cookie, view, request, response, said, hops, acts>>

---------------------------------------------------------------------------
\* The server.  failed: the storage failed while it handled the request, which
\* disturbs its own tab; a session opened or ended disturbs the others.
Respond(t, r, failed) ==
    /\ request' = [request EXCEPT ![t] = NoRequest]
    /\ response' = [response EXCEPT ![t] = r]
    /\ disturbed' = Disturb((IF failed THEN {t} ELSE {})
                               \cup (IF owner' # owner THEN Tab \ {t} ELSE {}), {"session"})
    /\ UNCHANGED <<cookie, view, said, hops, counts>>

RedirectTo(to, next, set) ==
    [some |-> TRUE, to |-> to, next |-> next, set |-> set, page |-> Blank]

\* render takes the queued message unless the handler brought its own.
RenderPage(r, p, set) ==
    IF p.flash = Own
      THEN [some |-> TRUE, to |-> None, next |-> None, set |-> set, page |-> p]
      ELSE [some |-> TRUE, to |-> None, next |-> None,
            set |-> IF r.sent.flash = None THEN set ELSE [set EXCEPT !.flash = None],
            page |-> [p EXCEPT !.flash = r.sent.flash]]

PageOf(path, user, token) == [Blank EXCEPT !.path = path, !.user = user, !.token = token]

\* Authenticate.
UserOf(session) == IF session = None THEN None ELSE owner[session]
Caller(r) == UserOf(r.sent.session)

\* Optional: whoever is signed in, nobody when the storage fails.
VisitorIgnored(r, failed) == None
VisitorByCookie(r, failed) == IF r.sent.session = None THEN None ELSE Own
Visitor(r, failed) == IF failed THEN None ELSE Caller(r)

\* IssueCSRF: the cookie's token, or a new one that is set with the answer.
Issue(r) == IF r.sent.csrf # None THEN {r.sent.csrf} ELSE FreshCsrf
IssuedUnwritten(r, token) == Unset
Issued(r, token) == [Unset EXCEPT !.csrf = IF r.sent.csrf = token THEN Keep ELSE token]

\* CSRF: the form must echo the cookie it was sent with.
Checked(r) == r.sent.csrf # None /\ r.token = r.sent.csrf

StartSessionKeepingCsrf(s, k) == [Unset EXCEPT !.session = s]
StartSession(s, k) == [Unset EXCEPT !.session = s, !.csrf = k]
ClearCookies == [Unset EXCEPT !.session = None, !.csrf = None]

Destination(r) == IF r.path = "/" THEN None ELSE r.path
RedirectToLoginTakingFlash(r) ==
    RedirectTo("/login", Destination(r),
               IF r.sent.flash = None THEN Unset ELSE [Unset EXCEPT !.flash = None])
RedirectToLogin(r) == RedirectTo("/login", Destination(r), Unset)

\* GET /login, GET /register: Optional, IssueCSRF, the form or "/".
ServeForm(t, r, failed) ==
    /\ ~r.post /\ r.path \in Anonymous
    /\ UNCHANGED owner
    /\ \E token \in Issue(r) :
          IF Visitor(r, failed) # None
            THEN Respond(t, RedirectTo("/", None, Issued(r, token)), failed)
            ELSE Respond(t, RenderPage(r, [PageOf(r.path, None, token) EXCEPT !.next = r.next],
                                       Issued(r, token)), failed)

NeedsUser(r) == IF r.post THEN Checked(r) /\ r.path \notin Anonymous \cup {"/logout"}
                ELSE r.path \in Guarded

\* Require: no session leads to the sign-in form, a failure to an error page.
ServeStranger(t, r, failed) ==
    /\ NeedsUser(r)
    /\ UNCHANGED owner
    /\ \/ /\ Caller(r) = None /\ (failed => r.sent.session = None)
          /\ Respond(t, RedirectToLogin(r), failed)
       \/ /\ failed /\ r.sent.session # None
          /\ Respond(t, RenderPage(r, PageOf("error", None, r.token), Unset), failed)

\* The pages behind Require.  Their own storage calls may fail as well.
ServePage(t, r, failed) ==
    /\ ~r.post /\ NeedsUser(r) /\ Caller(r) # None
    /\ UNCHANGED owner
    /\ \E token \in Issue(r) :
          Respond(t, RenderPage(r, PageOf(IF failed THEN "error" ELSE r.path, Caller(r), token),
                                Issued(r, token)), failed)

\* No route: NotFound, outside every auth middleware.
NotFound(t, r) ==
    /\ ~r.post /\ r # NoRequest /\ r.path \notin Anonymous \cup Guarded
    /\ UNCHANGED owner
    /\ Respond(t, RenderPage(r, PageOf("missing", None, None), Unset), FALSE)

\* A form whose token is not the cookie's is refused before anything else.
ServeForged(t, r) ==
    /\ r.post /\ ~Checked(r)
    /\ UNCHANGED owner
    /\ Respond(t, RenderPage(r, PageOf("error", None, None), Unset), FALSE)

\* Login, Register refused: the form again, with the token the check let pass.
ServeRefusal(t, r, failed) ==
    /\ r.post /\ Checked(r) /\ r.path \in Anonymous
    /\ UNCHANGED owner
    /\ Respond(t, RenderPage(r, [PageOf(r.path, Visitor(r, failed), r.token) EXCEPT
                                    !.next = r.next, !.flash = Own], Unset), failed)

\* Login: a session of whoever signed in, a new CSRF token, and on to the page
\* that was asked for.
Login(t, r) ==
    /\ r.post /\ Checked(r) /\ r.path = "/login"
    /\ \E u \in User, s \in FreshSession, k \in FreshCsrf :
          /\ owner' = [owner EXCEPT ![s] = u]
          /\ Respond(t, RedirectTo(IF r.next = None THEN "/" ELSE r.next, None,
                                   StartSession(s, k)), FALSE)

\* Register: the same for a new account, with a message.
Register(t, r) ==
    /\ r.post /\ Checked(r) /\ r.path = "/register"
    /\ \E u \in User, s \in FreshSession, k \in FreshCsrf, f \in FreshFlash :
          /\ owner' = [owner EXCEPT ![s] = u]
          /\ Respond(t, RedirectTo("/", None, [StartSession(s, k) EXCEPT !.flash = f]), FALSE)

SignedOut(f) == RedirectTo("/login", None, [ClearCookies EXCEPT !.flash = f])

\* Logout: the cookies are cleared though the DELETE may have failed.
Logout(t, r, failed) ==
    /\ r.post /\ Checked(r) /\ r.path = "/logout"
    /\ owner' = [s \in Session |-> IF s = r.sent.session /\ ~failed THEN None ELSE owner[s]]
    /\ \E f \in FreshFlash : Respond(t, SignedOut(f), failed)

EndSessionsOf(user) == owner' = [s \in Session |-> IF owner[s] = user THEN None ELSE owner[s]]

\* LogoutEverywhere: an error page, cookies and sessions as they were, when the
\* DELETE fails.
LogoutEverywhere(t, r, failed) ==
    /\ NeedsUser(r) /\ r.path = "/logout-all" /\ Caller(r) # None
    /\ IF failed
         THEN /\ UNCHANGED owner
              /\ Respond(t, RenderPage(r, PageOf("error", Caller(r), r.token), Unset), TRUE)
         ELSE /\ EndSessionsOf(Caller(r))
              /\ \E f \in FreshFlash : Respond(t, SignedOut(f), FALSE)

\* ChangePassword accepted: a failed DELETE of the sessions is only logged.
ChangePassword(t, r, failed) ==
    /\ NeedsUser(r) /\ r.path = "/settings/password" /\ Caller(r) # None
    /\ IF failed THEN UNCHANGED owner ELSE EndSessionsOf(Caller(r))
    /\ \E f \in FreshFlash : Respond(t, SignedOut(f), failed)

\* Where the other actions lead, and whether with a message.
Lookup == {<<"/", TRUE>>, <<"/lookups/{id}", FALSE>>}
RemoveLookup == {<<"/", TRUE>>}
SaveProfile == {<<"/settings", TRUE>>}
PasswordRefused == {<<"/settings", TRUE>>}
Landings(path) == CASE path = "/lookups" -> Lookup
                    [] path = "/lookups/{id}/delete" -> RemoveLookup
                    [] path = "/settings" -> SaveProfile
                    [] path = "/settings/password" -> PasswordRefused
                    [] OTHER -> {}

\* Post, redirect, get: only RemoveLookup has an error page for a failure.
ServeAction(t, r, failed) ==
    /\ r.post /\ NeedsUser(r) /\ Caller(r) # None
    /\ UNCHANGED owner
    /\ IF failed
         THEN /\ r.path = "/lookups/{id}/delete"
              /\ Respond(t, RenderPage(r, PageOf("error", Caller(r), r.token), Unset), TRUE)
         ELSE \E l \in Landings(r.path) : \E f \in IF l[2] THEN FreshFlash ELSE {Keep} :
                Respond(t, RedirectTo(l[1], None, [Unset EXCEPT !.flash = f]), FALSE)

---------------------------------------------------------------------------
Serve(t) ==
    LET r == request[t]
    IN  \/ \E failed \in BOOLEAN :
              \/ ServeForm(t, r, failed) \/ ServeStranger(t, r, failed)
              \/ ServePage(t, r, failed) \/ ServeRefusal(t, r, failed)
              \/ Logout(t, r, failed) \/ LogoutEverywhere(t, r, failed)
              \/ ChangePassword(t, r, failed) \/ ServeAction(t, r, failed)
        \/ NotFound(t, r) \/ ServeForged(t, r) \/ Login(t, r) \/ Register(t, r)

Next ==
    \/ \E t \in Tab :
          \/ \E o \in Opened : Open(t, o[1], o[2])
          \/ \E f \in Sent : Submit(t, f)
          \/ Serve(t) \/ Receive(t) \/ Lose(t)
    \/ \E gone \in SUBSET Crumb : CookiesExpire(gone)
    \/ \E s \in Session : SessionEnds(s)

Spec == Init /\ [][Next]_vars

---------------------------------------------------------------------------
\* A form that is let through acts for the user whose page it was on: two people
\* who use one browser in turn, in any tabs, never act for each other.
ActsForTheUserShown ==
    \A t \in Tab : LET r == request[t]
                   IN  r.post /\ Checked(r) /\ r.path \notin Anonymous /\ Caller(r) # None
                         => r.shown = Caller(r)

\* A form that is refused as expired was made so by something else than its own
\* tab: the answer that brought the page left the cookie its token echoes.
UndisturbedFormsPass ==
    \A t \in Tab : FormsOf(view[t]) # {} /\ "csrf" \notin disturbed[t]
                     => view[t].token # None /\ view[t].token = cookie.csrf

\* The message an action queued is on the page its redirect led to.
MessagesArrive ==
    \A t \in Tab : Idle(t) /\ view[t].path # "blank" /\ said[t] # None
                     => view[t].flash = said[t] \/ "flash" \in disturbed[t]

\* What a page says of who is signed in is so: a page for a user has a session
\* behind its buttons, and a form that asks to sign in has none.
ShellIsTruthful ==
    \A t \in Tab : Idle(t) /\ "session" \notin disturbed[t] =>
        LET signedIn == UserOf(cookie.session)
        IN  /\ view[t].user # None => view[t].user = signedIn
            /\ view[t].path \in Anonymous /\ view[t].user = None => signedIn = None

\* Redirects end: a second one in a row leads home, and there is no third, unless the
\* sign-in state changed under the tab.  The second is the answer to whoever signs in
\* on the way to one of the two forms (LoginForm, RegisterForm, redirectToLogin).
RedirectsSettle ==
    \A t \in Tab : "session" \notin disturbed[t] /\ hops[t] >= 2 =>
        hops[t] = 2 /\ request[t].path \in {None, "/"} /\ response[t].to = None

\* Whoever is sent to sign in lands, once signed in, on a page the site has.
SignInLandsOnAPage == \A t \in Tab : view[t].path = "missing" => hops[t] = 0

=============================================================================
