-------------------------- MODULE BrowserSessionProofs ---------------------------
(***************************************************************************)
(* For every set of tabs, users and tokens and any number of acts: a form      *)
(* acts for the user it was shown to, as a CSRF token is only ever held        *)
(* beside one session and a page shows its user only with that token; and a    *)
(* tab that nothing else disturbs stays in step with the browser's cookies,    *)
(* so that its forms pass, its messages arrive and its redirects end.          *)
(***************************************************************************)
EXTENDS BrowserSession, TLAPS

\* The cookies the server may be sent: the browser's, and those of requests.
Jars == {cookie} \cup {request[t].sent : t \in Tab}

\* A token and the user it is shown with: in a tab, on its way there, in a form
\* that was sent.
Shown == {<<view[t].token, view[t].user>> : t \in Tab}
           \cup {<<response[t].page.token, response[t].page.user>> : t \in Tab}
           \cup {<<request[t].token, request[t].shown>> : t \in Tab}

\* A session cookie comes with a CSRF cookie, and that with no other session.
Jarred == \A j \in Jars : j.session # None => j.csrf # None
Bound == \A i, j \in Jars :
            i.csrf = j.csrf /\ i.csrf # None /\ i.session # None /\ j.session # None
              => i.session = j.session

\* Whoever a token is shown with is the user of the session it is held beside.
Faithful == \A p \in Shown, j \in Jars :
               p[1] = j.csrf /\ p[1] # None /\ p[2] # None /\ j.session # None
                 => owner[j.session] \in {p[2], None}

\* A token on its way to the browser is held nowhere and shown to nobody yet; one
\* comes with every session.
Minted == \A t \in Tab : LET set == response[t].set IN
    /\ set.csrf \in Csrf =>
          /\ \A j \in Jars : j.csrf # set.csrf
          /\ \A p \in Shown : p[1] = set.csrf => p[2] = None
          /\ \A o \in Tab \ {t} : response[o].set.csrf # set.csrf
    /\ set.session \in Session => set.csrf \in Csrf
    /\ set.csrf = None => set.session = None

\* Only a page with a user has the forms that act for one.
Faces(p) == p.user = None => p.path \notin Guarded
Faced == \A t \in Tab : /\ Faces(view[t]) /\ Faces(response[t].page)
                        /\ request[t].post /\ request[t].path \notin Anonymous
                             => request[t].shown # None

IInv == TypeOK /\ Jarred /\ Bound /\ Faithful /\ Minted /\ Faced

---------------------------------------------------------------------------
\* The three cookies, and what is no token, user or path.
LEMMA ThreeCookies == ASSUME TypeOK PROVE Crumb = {"session", "csrf", "flash"}
BY DEF TypeOK, Crumbs, Crumb

LEMMA Nothings ==
    /\ None \notin User \cup Session \cup Csrf \cup Flash
    /\ Keep \notin User \cup Session \cup Csrf \cup Flash
    /\ Own \notin User \cup Session \cup Csrf \cup Flash
    /\ None # Keep /\ None # Own
    /\ None \notin Path
BY BrowserConfig DEF None, Keep, Own, Path, Anonymous, Guarded, Forms

\* What begins empty has its type.
LEMMA EmptyTypes ==
    /\ Bare \in Crumbs /\ Unset \in SetCookie /\ Blank \in Page
    /\ NoRequest \in Request /\ NoResponse \in Response
BY DEF Bare, Crumbs, Unset, SetCookie, Blank, Page, NoRequest, Request, NoResponse, Response

\* Cookies that are stored stay cookies.
LEMMA StoredIs ==
    ASSUME TypeOK, NEW set \in SetCookie
    PROVE  /\ Stored(set) \in Crumbs
           /\ Stored(set).session = IF set.session = Keep THEN cookie.session ELSE set.session
           /\ Stored(set).csrf = IF set.csrf = Keep THEN cookie.csrf ELSE set.csrf
<1>1. Crumb = {"session", "csrf", "flash"}  BY ThreeCookies
<1>2. Stored(set) = [session |-> IF set.session = Keep THEN cookie.session ELSE set.session,
                     csrf |-> IF set.csrf = Keep THEN cookie.csrf ELSE set.csrf,
                     flash |-> IF set.flash = Keep THEN cookie.flash ELSE set.flash]
  BY <1>1 DEF Stored
<1> QED  BY <1>2 DEF TypeOK, Crumbs, SetCookie

LEMMA DisturbIs ==
    ASSUME TypeOK, NEW tabs, NEW what \in SUBSET {"session", "csrf", "flash"}
    PROVE  Disturb(tabs, what) \in [Tab -> SUBSET {"session", "csrf", "flash"}]
BY DEF TypeOK, Disturb

LEMMA ChangedIs ==
    ASSUME TypeOK, NEW new PROVE Changed(new) \in SUBSET {"session", "csrf", "flash"}
BY ThreeCookies DEF Changed

LEMMA InitIInv == Init => IInv
<1> SUFFICES ASSUME Init PROVE IInv
  OBVIOUS
<1>1. TypeOK
  <2>1. cookie \in Crumbs /\ owner \in [Session -> User \cup {None}]
    BY DEF Init, Bare, Crumbs
  <2> QED  BY <2>1, EmptyTypes, BrowserConfig DEF Init, TypeOK
<1>2. \A j \in Jars : j = cookie \/ j = Bare
  BY DEF Init, Jars, NoRequest
<1>3. \A p \in Shown : p[1] = None /\ p[2] = None
  BY DEF Init, Shown, NoRequest, NoResponse, Blank
<1>4. cookie.session # None => cookie.csrf # None
  BY Nothings DEF Init, Bare
<1>5. Jarred /\ Bound
  BY <1>2, <1>4 DEF Jarred, Bound, Bare
<1>6. Faithful
  BY <1>3 DEF Faithful
<1>7. Minted
  BY Nothings DEF Minted, Init, NoResponse, Unset
<1>8. Faced
  BY DEF Init, Faced, Faces, Blank, NoRequest, NoResponse, Guarded
<1> QED  BY <1>1, <1>5, <1>6, <1>7, <1>8 DEF IInv

---------------------------------------------------------------------------
\* Jars that hold no other pair than before, and pages shown to the user of a
\* jar, keep what binds them, while sessions only end.
Alike == \A j \in Jars' :
            j.session = None \/ \E i \in Jars : i.session = j.session /\ i.csrf = j.csrf
Shows(p) == \/ p \in Shown
            \/ p[2] = None
            \/ \E i \in Jars : i.csrf = p[1] /\ i.session # None /\ p[2] = owner[i.session]
Lasting == \A j \in Jars : j.session # None => owner'[j.session] \in {owner[j.session], None}

LEMMA BondsKeep ==
    ASSUME IInv, Alike, \A p \in Shown' : Shows(p), Lasting
    PROVE  Jarred' /\ Bound' /\ Faithful'
<1>1. Jarred'
  BY DEF IInv, Jarred, Alike
<1>2. Bound'
  BY DEF IInv, Bound, Alike
<1>3. Faithful'
  <2> SUFFICES ASSUME NEW p \in Shown', NEW j \in Jars',
                      p[1] = j.csrf, p[1] # None, p[2] # None, j.session # None
               PROVE  owner'[j.session] \in {p[2], None}
    BY DEF Faithful
  <2>1. PICK i \in Jars : i.session = j.session /\ i.csrf = j.csrf
    BY DEF Alike
  <2>2. owner[i.session] \in {p[2], None}
    <3>1. CASE p \in Shown
      BY <3>1, <2>1 DEF IInv, Faithful
    <3>2. CASE \E h \in Jars : h.csrf = p[1] /\ h.session # None /\ p[2] = owner[h.session]
      BY <3>2, <2>1 DEF IInv, Bound
    <3> QED  BY <3>1, <3>2 DEF Shows
  <2> QED  BY <2>1, <2>2 DEF Lasting
<1> QED  BY <1>1, <1>2, <1>3

\* Tokens under way stay unknown while no answer joins them.
LEMMA MintedKeeps ==
    ASSUME IInv,
           \A t \in Tab : response'[t].set = response[t].set \/ response'[t] = NoResponse,
           \A j \in Jars' : j.csrf = None \/ \E i \in Jars : i.csrf = j.csrf,
           \A p \in Shown' : Shows(p)
    PROVE  Minted'
<1> SUFFICES ASSUME NEW t \in Tab
             PROVE  LET set == response'[t].set IN
                    /\ set.csrf \in Csrf =>
                          /\ \A j \in Jars' : j.csrf # set.csrf
                          /\ \A p \in Shown' : p[1] = set.csrf => p[2] = None
                          /\ \A o \in Tab \ {t} : response'[o].set.csrf # set.csrf
                    /\ set.session \in Session => set.csrf \in Csrf
                    /\ set.csrf = None => set.session = None
  BY DEF Minted
<1>0. NoResponse.set.csrf = Keep /\ NoResponse.set.session = Keep
  BY DEF NoResponse, Unset
<1>1. CASE response'[t] = NoResponse
  BY <1>1, <1>0, Nothings
<1>2. CASE response'[t].set = response[t].set
  <2>1. \A p \in Shown' : p[1] = response[t].set.csrf /\ response[t].set.csrf \in Csrf => p[2] = None
    BY DEF Shows, IInv, Minted
  <2>2. \A o \in Tab \ {t} : response[t].set.csrf \in Csrf => response'[o].set.csrf # response[t].set.csrf
    BY <1>0, Nothings DEF IInv, Minted
  <2>3. \A j \in Jars' : response[t].set.csrf \in Csrf => j.csrf # response[t].set.csrf
    BY Nothings DEF IInv, Minted
  <2> QED  BY <1>2, <2>1, <2>2, <2>3 DEF IInv, Minted
<1> QED  BY <1>1, <1>2

---------------------------------------------------------------------------
\* The browser.

LEMMA SendKeeps ==
    ASSUME IInv, NEW t \in Tab, NEW r \in Request, Send(t, r),
           r.sent = cookie, Shows(<<r.token, r.shown>>),
           r.post /\ r.path \notin Anonymous => r.shown # None
    PROVE  IInv'
<1> USE DEF Send
<1>1. TypeOK'
  BY EmptyTypes, BrowserConfig DEF IInv, TypeOK
<1>2. request' = [request EXCEPT ![t] = r] /\ view' = [view EXCEPT ![t] = Blank]
  OBVIOUS
<1>3. \A j \in Jars' : j \in Jars
  BY DEF Jars, IInv, TypeOK
<1>4. \A p \in Shown' : Shows(p)
  <2> SUFFICES ASSUME NEW p \in Shown' PROVE Shows(p)
    OBVIOUS
  <2>1. CASE \E x \in Tab : p = <<view'[x].token, view'[x].user>>
    BY <2>1 DEF Shows, Shown, Blank, IInv, TypeOK
  <2>2. CASE \E x \in Tab : p = <<response'[x].page.token, response'[x].page.user>>
    BY <2>2 DEF Shows, Shown
  <2>3. CASE \E x \in Tab : p = <<request'[x].token, request'[x].shown>>
    BY <2>3 DEF Shows, Shown, IInv, TypeOK
  <2> QED  BY <2>1, <2>2, <2>3 DEF Shown
<1>5. Jarred' /\ Bound' /\ Faithful'
  BY <1>3, <1>4, BondsKeep DEF Alike, Lasting
<1>6. Minted'
  BY <1>3, <1>4, MintedKeeps
<1>7. Faced'
  BY DEF Faced, Faces, Blank, Guarded, IInv, TypeOK
<1> QED  BY <1>1, <1>5, <1>6, <1>7 DEF IInv

LEMMA OpenKeeps ==
    ASSUME IInv, NEW t \in Tab, NEW o \in Opened, Open(t, o[1], o[2]) PROVE IInv'
<1> DEFINE r == [NoRequest EXCEPT !.path = o[1], !.next = o[2], !.sent = cookie]
<1>1. r \in Request
  <2>1. o[1] \in Path /\ o[2] \in Path \cup {None}
    BY BrowserConfig
  <2> QED  BY <2>1, EmptyTypes DEF IInv, TypeOK, Request
<1>2. r.sent = cookie /\ ~r.post /\ Shows(<<r.token, r.shown>>)
  BY DEF NoRequest, Shows
<1>3. Send(t, r)
  BY DEF Open
<1> HIDE DEF r
<1> QED  BY <1>1, <1>2, <1>3, SendKeeps

LEMMA SubmitKeeps == ASSUME IInv, NEW t \in Tab, NEW f \in Sent, Submit(t, f) PROVE IInv'
<1> DEFINE r == [path |-> f, post |-> TRUE, sent |-> cookie, token |-> view[t].token,
                 next |-> IF f = "/login" THEN view[t].next ELSE None,
                 shown |-> view[t].user]
<1>0. view[t] \in Page /\ cookie \in Crumbs
  BY DEF IInv, TypeOK
<1>1. r \in Request
  BY <1>0, BrowserConfig DEF Page, Request, Path
<1>2. r.sent = cookie /\ Shows(<<r.token, r.shown>>)
  BY DEF Shows, Shown
<1>3. f \notin Anonymous => view[t].user # None
  BY DEF Submit, FormsOf, IInv, Faced, Faces, Guarded
<1>4. Send(t, r)
  BY DEF Submit
<1>5. r.path \notin Anonymous => r.shown # None
  BY <1>3
<1> HIDE DEF r
<1> QED  BY <1>1, <1>2, <1>4, <1>5, SendKeeps

\* An answer's cookies join the browser's: its tokens, unless it brings none, were unknown.
LEMMA ReceiveKeeps == ASSUME IInv, NEW t \in Tab, Receive(t) PROVE IInv'
<1> DEFINE r == response[t]
           new == Stored(r.set)
<1>0. /\ TypeOK /\ r \in Response /\ r.set \in SetCookie /\ r.page \in Page
      /\ r.next \in Path \cup {None} /\ r.to \in Path \cup {None}
  BY DEF IInv, TypeOK, Response
<1>1. /\ cookie' = new /\ response' = [response EXCEPT ![t] = NoResponse]
      /\ disturbed' = Disturb(Tab \ {t}, Changed(new))
      /\ said' = (IF r.set.flash \in Flash THEN [said EXCEPT ![t] = r.set.flash] ELSE said)
      /\ \/ /\ request' = [request EXCEPT ![t] =
                   [NoRequest EXCEPT !.path = r.to, !.next = r.next, !.sent = new]]
            /\ hops' = [hops EXCEPT ![t] = IF @ = 3 THEN 3 ELSE @ + 1]
            /\ view' = view
         \/ view' = [view EXCEPT ![t] = r.page] /\ request' = request /\ hops' = hops
      /\ owner' = owner /\ acts' = acts /\ upsets' = upsets
  BY DEF Receive, counts
<1>2. /\ new \in Crumbs
      /\ new.session = IF r.set.session = Keep THEN cookie.session ELSE r.set.session
      /\ new.csrf = IF r.set.csrf = Keep THEN cookie.csrf ELSE r.set.csrf
  BY <1>0, StoredIs
<1> HIDE DEF new
<1>3. [NoRequest EXCEPT !.path = r.to, !.next = r.next, !.sent = new] \in Request
  BY <1>0, <1>2, EmptyTypes DEF Request
<1>4. TypeOK'
  <2>1. disturbed' \in [Tab -> SUBSET {"session", "csrf", "flash"}]
    BY <1>0, <1>1, DisturbIs, ChangedIs
  <2>2. hops' \in [Tab -> 0..3]
    BY <1>0, <1>1 DEF TypeOK
  <2>3. said' \in [Tab -> Flash \cup {None}]
    BY <1>0, <1>1 DEF TypeOK
  <2>4. view' \in [Tab -> Page] /\ request' \in [Tab -> Request]
    BY <1>0, <1>1, <1>3 DEF TypeOK
  <2> QED  BY <1>0, <1>1, <1>2, <2>1, <2>2, <2>3, <2>4, EmptyTypes DEF TypeOK
<1>5. \A x \in Tab : \/ request'[x] = request[x]
                      \/ /\ request'[x].sent = new /\ ~request'[x].post
                         /\ request'[x].token = None /\ request'[x].shown = None
  <2>1. CASE request' = request
    BY <2>1
  <2>2. CASE request' = [request EXCEPT ![t] =
               [NoRequest EXCEPT !.path = r.to, !.next = r.next, !.sent = new]]
    BY <2>2, <1>0 DEF TypeOK, NoRequest
  <2> QED  BY <1>1, <2>1, <2>2
<1>6. \A x \in Tab : view'[x] = view[x] \/ view'[x] = r.page
  BY <1>0, <1>1 DEF TypeOK
<1>7. \A j \in Jars' : j \in Jars \/ j = new
  BY <1>1, <1>5 DEF Jars
<1>8. \A x \in Tab : response'[x] = response[x] \/ response'[x] = NoResponse
  BY <1>0, <1>1 DEF TypeOK
<1>9. \A p \in Shown' : p \in Shown \/ p[2] = None
  <2> SUFFICES ASSUME NEW p \in Shown' PROVE p \in Shown \/ p[2] = None
    OBVIOUS
  <2>1. CASE \E x \in Tab : p = <<view'[x].token, view'[x].user>>
    BY <2>1, <1>6 DEF Shown
  <2>2. CASE \E x \in Tab : p = <<response'[x].page.token, response'[x].page.user>>
    BY <2>2, <1>8 DEF Shown, NoResponse, Blank
  <2>3. CASE \E x \in Tab : p = <<request'[x].token, request'[x].shown>>
    BY <2>3, <1>5 DEF Shown
  <2> QED  BY <2>1, <2>2, <2>3 DEF Shown
<1>10. Faced'
  <2>1. \A x \in Tab : Faces(view'[x])
    BY <1>6 DEF IInv, Faced
  <2>2. \A x \in Tab : Faces(response'[x].page)
    <3>1. Faces(NoResponse.page)
      BY DEF NoResponse, Blank, Faces, Guarded
    <3>2. \A x \in Tab : Faces(response[x].page)
      BY DEF IInv, Faced
    <3> QED  BY <3>1, <3>2, <1>8
  <2>3. \A x \in Tab : request'[x].post /\ request'[x].path \notin Anonymous
                           => request'[x].shown # None
    BY <1>5 DEF IInv, Faced
  <2> QED  BY <2>1, <2>2, <2>3 DEF Faced, Faces
<1>11. cookie \in Jars
  BY DEF Jars
<1>12. CASE r.set.csrf \notin Csrf
  <2>1. r.set.csrf \in {None, Keep} /\ r.set.session \in {None, Keep}
    BY <1>0, <1>12 DEF IInv, Minted, SetCookie
  <2>2. new.session = None \/ (new.session = cookie.session /\ new.csrf = cookie.csrf)
    BY <1>2, <2>1 DEF IInv, Minted
  <2>3. Alike
    BY <1>7, <1>11, <2>2 DEF Alike
  <2>4. new.csrf = None \/ new.csrf = cookie.csrf
    BY <1>2, <2>1
  <2>5. Jarred' /\ Bound' /\ Faithful'
    BY <1>1, <1>9, <2>3, BondsKeep DEF Shows, Lasting
  <2>6. Minted'
    BY <1>7, <1>9, <1>8, <1>11, <2>4, MintedKeeps DEF Shows
  <2> QED  BY <1>4, <1>10, <2>5, <2>6 DEF IInv
<1>13. CASE r.set.csrf \in Csrf
  <2>0. new.csrf = r.set.csrf /\ new.csrf # None
    BY <1>2, <1>13, Nothings
  <2>1. \A j \in Jars : j.csrf # new.csrf
    BY <1>13, <2>0 DEF IInv, Minted
  <2>2. \A p \in Shown' : p[1] = new.csrf => p[2] = None
    BY <1>9, <1>13, <2>0 DEF IInv, Minted
  <2>3. Jarred'
    BY <1>7, <2>0 DEF IInv, Jarred
  <2>4. Bound'
    BY <1>7, <2>1 DEF IInv, Bound
  <2>5. Faithful'
    BY <1>1, <1>7, <1>9, <2>2 DEF IInv, Faithful
  <2>6. Minted'
    <3>1. NoResponse.set.csrf = Keep /\ NoResponse.set.session = Keep
      BY DEF NoResponse, Unset
    <3>2. response'[t] = NoResponse
      BY <1>0, <1>1 DEF TypeOK
    <3>3. \A o \in Tab \ {t} : response'[o] = response[o] /\ response[o].set.csrf # r.set.csrf
      BY <1>0, <1>1, <1>13 DEF TypeOK, IInv, Minted
    <3> SUFFICES ASSUME NEW o \in Tab
                 PROVE  LET set == response'[o].set IN
                        /\ set.csrf \in Csrf =>
                              /\ \A j \in Jars' : j.csrf # set.csrf
                              /\ \A p \in Shown' : p[1] = set.csrf => p[2] = None
                              /\ \A x \in Tab \ {o} : response'[x].set.csrf # set.csrf
                        /\ set.session \in Session => set.csrf \in Csrf
                        /\ set.csrf = None => set.session = None
      BY DEF Minted
    <3>4. CASE o = t
      BY <3>1, <3>2, <3>4, Nothings
    <3>5. CASE o # t
      <4>1. response'[o].set.csrf \in Csrf => \A j \in Jars' : j.csrf # response'[o].set.csrf
        BY <3>3, <3>5, <1>7, <2>0 DEF IInv, Minted
      <4>2. response'[o].set.csrf \in Csrf =>
               \A p \in Shown' : p[1] = response'[o].set.csrf => p[2] = None
        BY <3>3, <3>5, <1>9 DEF IInv, Minted
      <4>3. response'[o].set.csrf \in Csrf =>
               \A x \in Tab \ {o} : response'[x].set.csrf # response'[o].set.csrf
        BY <3>1, <3>2, <3>3, <3>5, Nothings DEF IInv, Minted
      <4> QED  BY <3>3, <3>5, <4>1, <4>2, <4>3 DEF IInv, Minted
    <3> QED  BY <3>4, <3>5
  <2> QED  BY <1>4, <1>10, <2>3, <2>4, <2>5, <2>6 DEF IInv
<1> QED  BY <1>12, <1>13

LEMMA LoseKeeps == ASSUME IInv, NEW t \in Tab, Lose(t) PROVE IInv'
<1> USE DEF Lose, Upset
<1>1. TypeOK'
  BY EmptyTypes, BrowserConfig DEF IInv, TypeOK
<1>2. \A j \in Jars' : j \in Jars \/ j = Bare
  BY DEF Jars, IInv, TypeOK, NoRequest
<1>3. \A p \in Shown' : p \in Shown \/ p[2] = None
  <2> SUFFICES ASSUME NEW p \in Shown' PROVE p \in Shown \/ p[2] = None
    OBVIOUS
  <2>1. CASE \E x \in Tab : p = <<view'[x].token, view'[x].user>>
    BY <2>1 DEF Shown
  <2>2. CASE \E x \in Tab : p = <<response'[x].page.token, response'[x].page.user>>
    BY <2>2 DEF Shown, NoResponse, Blank, IInv, TypeOK
  <2>3. CASE \E x \in Tab : p = <<request'[x].token, request'[x].shown>>
    BY <2>3 DEF Shown, NoRequest, IInv, TypeOK
  <2> QED  BY <2>1, <2>2, <2>3 DEF Shown
<1>4. \A x \in Tab : response'[x] = response[x] \/ response'[x] = NoResponse
  BY DEF IInv, TypeOK
<1>5. Jarred' /\ Bound' /\ Faithful'
  BY <1>2, <1>3, BondsKeep DEF Alike, Lasting, Bare, Shows
<1>6. Minted'
  BY <1>2, <1>3, <1>4, MintedKeeps DEF Bare, Shows
<1>7. Faced'
  BY DEF IInv, Faced, TypeOK, NoResponse, NoRequest, Blank, Faces, Guarded
<1> QED  BY <1>1, <1>5, <1>6, <1>7 DEF IInv

LEMMA CookiesExpireKeeps ==
    ASSUME IInv, NEW gone \in SUBSET Crumb, CookiesExpire(gone) PROVE IInv'
<1>0. Crumb = {"session", "csrf", "flash"}
  BY ThreeCookies DEF IInv
<1>1. cookie' = [session |-> IF "session" \in gone THEN None ELSE cookie.session,
                 csrf |-> IF "csrf" \in gone THEN None ELSE cookie.csrf,
                 flash |-> IF "flash" \in gone THEN None ELSE cookie.flash]
  BY <1>0 DEF CookiesExpire
<1>2. cookie' \in Crumbs
  BY <1>1 DEF IInv, TypeOK, Crumbs
<1>3. disturbed' \in [Tab -> SUBSET {"session", "csrf", "flash"}]
  BY DisturbIs, ChangedIs DEF CookiesExpire, IInv
<1>4. /\ UNCHANGED <<view, request, response, owner, said, hops, acts>>
      /\ upsets < MaxUpsets /\ upsets' = upsets + 1
  BY DEF CookiesExpire, Upset
<1>5. TypeOK'
  BY <1>2, <1>3, <1>4, BrowserConfig DEF IInv, TypeOK
<1>6. /\ cookie'.session = None \/ (cookie'.session = cookie.session /\ cookie'.csrf = cookie.csrf)
      /\ cookie'.csrf = None \/ cookie'.csrf = cookie.csrf
  BY <1>1 DEF CookiesExpire
<1>7. cookie \in Jars /\ \A j \in Jars' : j \in Jars \/ j = cookie'
  BY <1>4 DEF Jars
<1>8. Shown' = Shown
  BY <1>4 DEF Shown
<1>9. Jarred' /\ Bound' /\ Faithful'
  BY <1>4, <1>6, <1>7, <1>8, BondsKeep DEF Alike, Lasting, Shows
<1>10. Minted'
  BY <1>4, <1>6, <1>7, <1>8, MintedKeeps DEF Shows
<1>11. Faced'
  BY <1>4 DEF IInv, Faced
<1> QED  BY <1>5, <1>9, <1>10, <1>11 DEF IInv

LEMMA SessionEndsKeeps ==
    ASSUME IInv, NEW s \in Session, SessionEnds(s) PROVE IInv'
<1> USE DEF SessionEnds, Upset
<1>1. disturbed' \in [Tab -> SUBSET {"session", "csrf", "flash"}]
  BY DisturbIs DEF IInv
<1>2. TypeOK'
  BY <1>1, BrowserConfig DEF IInv, TypeOK
<1>3. Jars' = Jars /\ Shown' = Shown
  BY DEF Jars, Shown
<1>4. \A j \in Jars : j.session # None => j.session \in Session
  BY DEF Jars, IInv, TypeOK, Crumbs, Request
<1>5. Lasting
  BY <1>4 DEF Lasting, IInv, TypeOK
<1>6. Jarred' /\ Bound' /\ Faithful'
  BY <1>3, <1>5, BondsKeep DEF Alike, Shows
<1>7. Minted'
  BY <1>3, MintedKeeps DEF Shows
<1>8. Faced'
  BY DEF IInv, Faced
<1> QED  BY <1>2, <1>6, <1>7, <1>8 DEF IInv

---------------------------------------------------------------------------
\* The server.

\* A fresh token is nowhere.
LEMMA FreshIsUnknown ==
    ASSUME NEW t \in Tab, NEW k \in FreshCsrf
    PROVE  /\ \A j \in Jars : j.csrf # k
           /\ \A p \in Shown : p[1] # k
           /\ \A o \in Tab : response[o].set.csrf # k
<1>1. /\ cookie.csrf # k
      /\ \A o \in Tab : /\ view[o].token # k /\ request[o].sent.csrf # k
                        /\ request[o].token # k /\ response[o].set.csrf # k
                        /\ response[o].page.token # k
  BY DEF FreshCsrf, HeldCsrf
<1>2. \A j \in Jars : j.csrf # k
  BY <1>1 DEF Jars
<1>3. \A p \in Shown : p[1] # k
  BY <1>1 DEF Shown
<1> QED  BY <1>1, <1>2, <1>3

\* What every answer to a request is like.
Sound(r, x) ==
    /\ x \in Response
    /\ x.set.csrf \in Csrf => x.set.csrf \in FreshCsrf
    /\ x.set.session \in Session => x.set.csrf \in Csrf
    /\ x.set.csrf = None => x.set.session = None
    /\ x.page.user # None => /\ x.page.token = r.sent.csrf /\ r.sent.session # None
                             /\ x.page.user = owner[r.sent.session]
    /\ Faces(x.page)

LEMMA RespondKeeps ==
    ASSUME IInv, NEW t \in Tab, NEW x, NEW failed, Respond(t, x, failed),
           Sound(request[t], x), Lasting, owner' \in [Session -> User \cup {None}]
    PROVE  IInv'
<1> USE DEF Respond
<1>1. TypeOK'
  <2>1. disturbed' \in [Tab -> SUBSET {"session", "csrf", "flash"}]
    BY DisturbIs DEF IInv
  <2>2. request' \in [Tab -> Request] /\ response' \in [Tab -> Response]
    BY EmptyTypes DEF IInv, TypeOK, Sound
  <2> QED  BY <2>1, <2>2 DEF IInv, TypeOK, counts
<1>2. \A j \in Jars' : j \in Jars \/ j = Bare
  BY DEF Jars, IInv, TypeOK, NoRequest
<1>3. response'[t] = x /\ \A o \in Tab \ {t} : response'[o] = response[o]
  BY DEF IInv, TypeOK
<1>4. request[t].sent \in Jars
  BY DEF Jars
<1>5. \A p \in Shown' : p \in Shown \/ p[2] = None \/ p = <<x.page.token, x.page.user>>
  <2> SUFFICES ASSUME NEW p \in Shown'
               PROVE  p \in Shown \/ p[2] = None \/ p = <<x.page.token, x.page.user>>
    OBVIOUS
  <2>1. CASE \E o \in Tab : p = <<view'[o].token, view'[o].user>>
    BY <2>1 DEF Shown
  <2>2. CASE \E o \in Tab : p = <<response'[o].page.token, response'[o].page.user>>
    BY <2>2, <1>3 DEF Shown
  <2>3. CASE \E o \in Tab : p = <<request'[o].token, request'[o].shown>>
    BY <2>3 DEF Shown, NoRequest, IInv, TypeOK
  <2> QED  BY <2>1, <2>2, <2>3 DEF Shown
<1>6. \A p \in Shown' : Shows(p)
  BY <1>4, <1>5 DEF Shows, Sound
<1>7. Jarred' /\ Bound' /\ Faithful'
  BY <1>2, <1>6, BondsKeep DEF Alike, Bare
<1>8. Minted'
  <2>1. \A o \in Tab : response'[o].set.csrf \in Csrf =>
           /\ \A j \in Jars : j.csrf # response'[o].set.csrf
           /\ \A p \in Shown : p[1] = response'[o].set.csrf => p[2] = None
           /\ \A q \in Tab \ {o} : response'[q].set.csrf # response'[o].set.csrf
    <3> SUFFICES ASSUME NEW o \in Tab, response'[o].set.csrf \in Csrf
                 PROVE  /\ \A j \in Jars : j.csrf # response'[o].set.csrf
                        /\ \A p \in Shown : p[1] = response'[o].set.csrf => p[2] = None
                        /\ \A q \in Tab \ {o} : response'[q].set.csrf # response'[o].set.csrf
      OBVIOUS
    <3>1. CASE o = t
      <4>1. x.set.csrf \in FreshCsrf
        BY <3>1, <1>3 DEF Sound
      <4> QED  BY <4>1, <3>1, <1>3, FreshIsUnknown
    <3>2. CASE o # t
      <4>1. response'[o] = response[o]
        BY <3>2, <1>3
      <4>2. x.set.csrf # response[o].set.csrf
        BY <4>1, FreshIsUnknown DEF Sound
      <4> QED  BY <4>1, <4>2, <1>3 DEF IInv, Minted
    <3> QED  BY <3>1, <3>2
  <2>2. \A o \in Tab : response'[o].set.csrf \in Csrf =>
           /\ \A j \in Jars' : j.csrf # response'[o].set.csrf
           /\ \A p \in Shown' : p[1] = response'[o].set.csrf => p[2] = None
    <3> SUFFICES ASSUME NEW o \in Tab, response'[o].set.csrf \in Csrf
                 PROVE  /\ \A j \in Jars' : j.csrf # response'[o].set.csrf
                        /\ \A p \in Shown' : p[1] = response'[o].set.csrf => p[2] = None
      OBVIOUS
    <3>1. \A j \in Jars' : j.csrf # response'[o].set.csrf
      BY <1>2, <2>1, Nothings DEF Bare
    <3>2. \A p \in Shown' : p[1] = response'[o].set.csrf => p[2] = None
      BY <1>6, <2>1 DEF Shows
    <3> QED  BY <3>1, <3>2
  <2>3. \A o \in Tab : /\ response'[o].set.session \in Session => response'[o].set.csrf \in Csrf
                       /\ response'[o].set.csrf = None => response'[o].set.session = None
    BY <1>3 DEF Sound, IInv, Minted
  <2> QED  BY <2>1, <2>2, <2>3 DEF Minted
<1>9. Faced'
  <2>1. \A o \in Tab : Faces(response'[o].page)
    BY <1>3 DEF Sound, IInv, Faced
  <2>2. \A o \in Tab : request'[o].post /\ request'[o].path \notin Anonymous
                           => request'[o].shown # None
    BY DEF IInv, Faced, TypeOK, NoRequest
  <2>3. \A o \in Tab : Faces(view'[o])
    BY DEF IInv, Faced
  <2> QED  BY <2>1, <2>2, <2>3 DEF Faced, Faces
<1> QED  BY <1>1, <1>7, <1>8, <1>9 DEF IInv

---------------------------------------------------------------------------
\* Who calls, and a page or a redirect as an answer.
LEMMA CallerIs ==
    ASSUME IInv, NEW t \in Tab
    PROVE  /\ request[t] \in Request /\ request[t].sent \in Crumbs
           /\ Caller(request[t]) \in User \cup {None}
           /\ Caller(request[t]) # None =>
                 /\ request[t].sent.session # None /\ request[t].sent.csrf \in Csrf
                 /\ Caller(request[t]) = owner[request[t].sent.session]
<1>1. request[t] \in Request /\ request[t].sent \in Crumbs
  BY DEF IInv, TypeOK, Request
<1>2. request[t].sent.session \in Session \cup {None} /\ request[t].sent.csrf \in Csrf \cup {None}
  BY <1>1 DEF Crumbs
<1>3. request[t].sent.session # None => request[t].sent.csrf # None
  BY DEF IInv, Jarred, Jars
<1> QED  BY <1>1, <1>2, <1>3 DEF Caller, UserOf, IInv, TypeOK

LEMMA PageIs ==
    ASSUME NEW path \in Path \cup {"blank", "error", "missing"},
           NEW user \in User \cup {None}, NEW token \in Csrf \cup {None}
    PROVE  /\ PageOf(path, user, token) \in Page
           /\ PageOf(path, user, token).path = path
           /\ PageOf(path, user, token).user = user
           /\ PageOf(path, user, token).token = token
BY EmptyTypes DEF PageOf, Page

\* The cookies an answer may set besides a message: none, a new CSRF token, both
\* tokens of a new session, or the end of both.
Fits(set) ==
    /\ set \in SetCookie
    /\ set.csrf \in Csrf => set.csrf \in FreshCsrf
    /\ set.session \in Session => set.csrf \in Csrf
    /\ set.csrf = None => set.session = None

ShownTo(r, p) == p.user # None => /\ p.token = r.sent.csrf /\ r.sent.session # None
                                  /\ p.user = owner[r.sent.session]

LEMMA PageIsSound ==
    ASSUME NEW r \in Request, r.sent \in Crumbs, NEW p \in Page, NEW set, Fits(set),
           ShownTo(r, p), Faces(p)
    PROVE  Sound(r, RenderPage(r, p, set))
<1> DEFINE x == RenderPage(r, p, set)
<1>1. /\ x \in Response
      /\ x.set.csrf = set.csrf /\ x.set.session = set.session
      /\ x.page.user = p.user /\ x.page.token = p.token /\ x.page.path = p.path
  <2>1. CASE p.flash = Own
    BY <2>1 DEF RenderPage, Response, Fits
  <2>2. CASE p.flash # Own
    <3>1. [p EXCEPT !.flash = r.sent.flash] \in Page
      BY DEF Page, Crumbs
    <3>2. [set EXCEPT !.flash = None] \in SetCookie
      BY DEF Fits, SetCookie
    <3> QED  BY <2>2, <3>1, <3>2 DEF RenderPage, Response, Fits, Page, SetCookie
  <2> QED  BY <2>1, <2>2
<1> QED  BY <1>1 DEF Sound, Fits, ShownTo, Faces

LEMMA RedirectIsSound ==
    ASSUME NEW r \in Request, NEW to \in Path, NEW next \in Path \cup {None}, NEW set, Fits(set)
    PROVE  Sound(r, RedirectTo(to, next, set))
BY EmptyTypes DEF RedirectTo, Sound, Response, Fits, Faces, Blank, Guarded

LEMMA UnsetFits == Fits(Unset)
BY EmptyTypes, Nothings DEF Fits, Unset

\* IssueCSRF: a token that is the cookie's, or new and set.
LEMMA IssuedFits ==
    ASSUME NEW r \in Request, r.sent \in Crumbs, NEW token \in Issue(r)
    PROVE  /\ Fits(Issued(r, token)) /\ token \in Csrf
           /\ r.sent.csrf # None => token = r.sent.csrf
<1>1. token \in Csrf /\ (token = r.sent.csrf \/ token \in FreshCsrf)
  BY DEF Issue, Crumbs, FreshCsrf
<1>2. Issued(r, token) = [session |-> Keep, flash |-> Keep,
                          csrf |-> IF r.sent.csrf = token THEN Keep ELSE token]
  BY DEF Issued, Unset
<1> QED  BY <1>1, <1>2, Nothings DEF Fits, SetCookie, Issue

LEMMA StartSessionFits ==
    ASSUME NEW s \in Session, NEW k \in FreshCsrf, NEW f \in Flash
    PROVE  Fits(StartSession(s, k)) /\ Fits([StartSession(s, k) EXCEPT !.flash = f])
<1>1. k \in Csrf
  BY DEF FreshCsrf
<1>2. /\ StartSession(s, k) \in SetCookie
      /\ StartSession(s, k).session = s /\ StartSession(s, k).csrf = k
  BY <1>1, EmptyTypes DEF StartSession, SetCookie
<1>3. [StartSession(s, k) EXCEPT !.flash = f] \in SetCookie
  BY <1>2 DEF SetCookie
<1>4. /\ [StartSession(s, k) EXCEPT !.flash = f].session = s
      /\ [StartSession(s, k) EXCEPT !.flash = f].csrf = k
  BY <1>2 DEF SetCookie
<1> QED  BY <1>1, <1>2, <1>3, <1>4, Nothings DEF Fits

LEMMA MessagesFit ==
    ASSUME NEW f \in Flash \cup {Keep}
    PROVE  Fits([ClearCookies EXCEPT !.flash = f]) /\ Fits([Unset EXCEPT !.flash = f])
<1>1. ClearCookies \in SetCookie /\ ClearCookies.session = None /\ ClearCookies.csrf = None
  BY EmptyTypes DEF ClearCookies, SetCookie
<1>2. Unset.session = Keep /\ Unset.csrf = Keep /\ Unset \in SetCookie
  BY EmptyTypes DEF Unset
<1>3. ASSUME NEW set \in SetCookie
      PROVE  LET new == [set EXCEPT !.flash = f]
             IN  new \in SetCookie /\ new.session = set.session /\ new.csrf = set.csrf
  BY DEF SetCookie
<1> QED  BY <1>1, <1>2, <1>3, Nothings DEF Fits

LEMMA FreshFlashIs == FreshFlash \subseteq Flash
BY DEF FreshFlash

---------------------------------------------------------------------------
\* The handlers.  Most leave the sessions alone; some end them.
LEMMA AnswerKeeps ==
    ASSUME IInv, NEW t \in Tab, NEW x, NEW failed, Respond(t, x, failed),
           Sound(request[t], x),
           owner' \in [Session -> User \cup {None}],
           \A s \in Session : owner'[s] \in {owner[s], None}
    PROVE  IInv'
<1>1. \A j \in Jars : j.session # None => j.session \in Session
  BY DEF Jars, IInv, TypeOK, Crumbs, Request
<1>2. Lasting
  BY <1>1 DEF Lasting
<1> QED  BY <1>2, RespondKeeps

LEMMA OwnersStay ==
    ASSUME IInv, UNCHANGED owner
    PROVE  owner' \in [Session -> User \cup {None}] /\ \A s \in Session : owner'[s] \in {owner[s], None}
BY DEF IInv, TypeOK

LEMMA SessionsEnd ==
    ASSUME IInv, NEW S, owner' = [s \in Session |-> IF s \in S THEN None ELSE owner[s]]
    PROVE  owner' \in [Session -> User \cup {None}] /\ \A s \in Session : owner'[s] \in {owner[s], None}
BY DEF IInv, TypeOK

LEMMA ServeFormKeeps ==
    ASSUME IInv, NEW t \in Tab, NEW failed \in BOOLEAN, ServeForm(t, request[t], failed)
    PROVE  IInv'
<1> DEFINE r == request[t]
<1>0. r \in Request /\ r.sent \in Crumbs /\ r.next \in Path \cup {None} /\ r.path \in Anonymous
  BY CallerIs DEF ServeForm, Request
<1>1. PICK token \in Issue(r) :
        \/ Respond(t, RedirectTo("/", None, Issued(r, token)), failed)
        \/ Respond(t, RenderPage(r, [PageOf(r.path, None, token) EXCEPT !.next = r.next],
                                 Issued(r, token)), failed)
  BY DEF ServeForm
<1>2. Fits(Issued(r, token)) /\ token \in Csrf
  BY <1>0, IssuedFits
<1>3. Sound(r, RedirectTo("/", None, Issued(r, token)))
  BY <1>2, RedirectIsSound, CallerIs DEF Path, Guarded
<1>4. Sound(r, RenderPage(r, [PageOf(r.path, None, token) EXCEPT !.next = r.next],
                          Issued(r, token)))
  <2> DEFINE p == [PageOf(r.path, None, token) EXCEPT !.next = r.next]
  <2>1. p \in Page /\ p.user = None /\ p.path = r.path
    <3>1. /\ PageOf(r.path, None, token) \in Page
          /\ PageOf(r.path, None, token).user = None
          /\ PageOf(r.path, None, token).path = r.path
      <4>1. r.path \in Path \cup {"blank", "error", "missing"}
        BY <1>0 DEF Path
      <4>2. token \in Csrf \cup {None} /\ None \in User \cup {None}
        BY <1>2
      <4> QED  BY <4>1, <4>2, PageIs
    <3> QED  BY <3>1, <1>0 DEF Page
  <2>2. Faces(p) /\ ShownTo(r, p)
    BY <2>1, <1>0 DEF Faces, ShownTo, Anonymous, Guarded
  <2> HIDE DEF p
  <2>3. Sound(r, RenderPage(r, p, Issued(r, token)))
    BY <1>0, <1>2, <2>1, <2>2, PageIsSound
  <2> QED  BY <2>3 DEF p
<1> QED  BY <1>1, <1>3, <1>4, AnswerKeeps, OwnersStay DEF ServeForm

LEMMA ErrorPages ==
    ASSUME NEW r \in Request, r.sent \in Crumbs, NEW token \in Csrf \cup {None},
           NEW path \in {"error", "missing"}
    PROVE  Sound(r, RenderPage(r, PageOf(path, None, token), Unset))
<1>1. /\ PageOf(path, None, token) \in Page /\ PageOf(path, None, token).user = None
      /\ PageOf(path, None, token).path = path
  BY PageIs
<1>2. Faces(PageOf(path, None, token)) /\ ShownTo(r, PageOf(path, None, token))
  BY <1>1 DEF Faces, ShownTo, Guarded
<1> QED  BY <1>1, <1>2, UnsetFits, PageIsSound

LEMMA UserPages ==
    ASSUME IInv, NEW t \in Tab, Caller(request[t]) # None,
           NEW path \in Path \cup {"error"}, NEW token, token = request[t].sent.csrf,
           NEW set, Fits(set)
    PROVE  Sound(request[t], RenderPage(request[t],
                                        PageOf(path, Caller(request[t]), token), set))
<1> DEFINE r == request[t]
           p == PageOf(path, Caller(r), token)
<1>1. p \in Page /\ p.user = Caller(r) /\ p.token = token
  BY PageIs, CallerIs
<1>2. Faces(p) /\ ShownTo(r, p)
  BY <1>1, CallerIs DEF Faces, ShownTo
<1> HIDE DEF p
<1>3. Sound(r, RenderPage(r, p, set))
  BY <1>1, <1>2, CallerIs, PageIsSound
<1> QED  BY <1>3 DEF p

LEMMA ServeStrangerKeeps ==
    ASSUME IInv, NEW t \in Tab, NEW failed \in BOOLEAN, ServeStranger(t, request[t], failed)
    PROVE  IInv'
<1> DEFINE r == request[t]
<1>0. r \in Request /\ r.sent \in Crumbs /\ r.token \in Csrf \cup {None}
  BY CallerIs DEF Request
<1>1. r.path \in Path \cup {None}
  BY <1>0 DEF Request
<1>2. Sound(r, RedirectToLogin(r))
  BY <1>0, <1>1, UnsetFits, RedirectIsSound DEF RedirectToLogin, Destination, Path, Anonymous
<1>3. Sound(r, RenderPage(r, PageOf("error", None, r.token), Unset))
  BY <1>0, ErrorPages
<1> QED  BY <1>2, <1>3, AnswerKeeps, OwnersStay DEF ServeStranger

LEMMA ServePageKeeps ==
    ASSUME IInv, NEW t \in Tab, NEW failed \in BOOLEAN, ServePage(t, request[t], failed)
    PROVE  IInv'
<1> DEFINE r == request[t]
           path == IF failed THEN "error" ELSE r.path
<1>0. /\ r \in Request /\ r.sent \in Crumbs /\ r.path \in Guarded
      /\ Caller(r) # None /\ r.sent.csrf \in Csrf
  BY CallerIs DEF ServePage, NeedsUser
<1>1. PICK token \in Issue(r) :
        Respond(t, RenderPage(r, PageOf(path, Caller(r), token), Issued(r, token)), failed)
  BY DEF ServePage
<1>2. Fits(Issued(r, token)) /\ token = r.sent.csrf
  BY <1>0, IssuedFits, Nothings
<1>3. path \in Path \cup {"error"}
  BY <1>0 DEF Path
<1>4. Sound(r, RenderPage(r, PageOf(path, Caller(r), token), Issued(r, token)))
  BY <1>0, <1>2, <1>3, UserPages
<1> QED  BY <1>1, <1>4, AnswerKeeps, OwnersStay DEF ServePage

LEMMA NotFoundKeeps == ASSUME IInv, NEW t \in Tab, NotFound(t, request[t]) PROVE IInv'
<1> DEFINE r == request[t]
<1>1. Sound(r, RenderPage(r, PageOf("missing", None, None), Unset))
  BY CallerIs, ErrorPages
<1> QED  BY <1>1, AnswerKeeps, OwnersStay DEF NotFound

LEMMA ServeForgedKeeps == ASSUME IInv, NEW t \in Tab, ServeForged(t, request[t]) PROVE IInv'
<1> DEFINE r == request[t]
<1>1. Sound(r, RenderPage(r, PageOf("error", None, None), Unset))
  BY CallerIs, ErrorPages
<1> QED  BY <1>1, AnswerKeeps, OwnersStay DEF ServeForged

LEMMA ServeRefusalKeeps ==
    ASSUME IInv, NEW t \in Tab, NEW failed \in BOOLEAN, ServeRefusal(t, request[t], failed)
    PROVE  IInv'
<1> DEFINE r == request[t]
           u == Visitor(r, failed)
           p == [PageOf(r.path, u, r.token) EXCEPT !.next = r.next, !.flash = Own]
<1>0. /\ r \in Request /\ r.sent \in Crumbs /\ r.path \in Anonymous
      /\ r.next \in Path \cup {None} /\ r.token \in Csrf \cup {None}
      /\ r.token = r.sent.csrf
  BY CallerIs DEF ServeRefusal, Checked, Request
<1>1. /\ u \in User \cup {None}
      /\ u # None => r.sent.session # None /\ u = owner[r.sent.session]
  BY CallerIs DEF Visitor
<1>2. /\ PageOf(r.path, u, r.token) \in Page /\ PageOf(r.path, u, r.token).user = u
      /\ PageOf(r.path, u, r.token).path = r.path
      /\ PageOf(r.path, u, r.token).token = r.token
  <2>1. r.path \in Path \cup {"blank", "error", "missing"}
    BY <1>0 DEF Path
  <2>2. u \in User \cup {None} /\ r.token \in Csrf \cup {None}
    BY <1>0, <1>1
  <2> QED  BY <2>1, <2>2, PageIs
<1>3. p \in Page /\ p.user = u /\ p.path = r.path /\ p.token = r.token
  BY <1>0, <1>2 DEF Page
<1>4. Faces(p) /\ ShownTo(r, p)
  BY <1>0, <1>1, <1>3 DEF Faces, ShownTo, Anonymous, Guarded
<1>5. Sound(r, RenderPage(r, p, Unset))
  <2> HIDE DEF p
  <2> QED  BY <1>0, <1>3, <1>4, UnsetFits, PageIsSound
<1> QED  BY <1>5, AnswerKeeps, OwnersStay DEF ServeRefusal

\* A session that is opened is one no jar holds.
LEMMA OpeningKeeps ==
    ASSUME IInv, NEW t \in Tab, NEW x, NEW u \in User, NEW s \in FreshSession,
           owner' = [owner EXCEPT ![s] = u],
           Respond(t, x, FALSE), Sound(request[t], x)
    PROVE  IInv'
<1>1. cookie.session # s /\ \A o \in Tab : request[o].sent.session # s
  BY DEF FreshSession, HeldSession
<1>2. \A j \in Jars : j.session # s
  BY <1>1 DEF Jars
<1>3. \A j \in Jars : j.session # None => j.session \in Session
  BY DEF Jars, IInv, TypeOK, Crumbs, Request
<1>4. Lasting
  BY <1>2, <1>3 DEF Lasting, IInv, TypeOK
<1>5. owner' \in [Session -> User \cup {None}]
  BY DEF IInv, TypeOK
<1> QED  BY <1>4, <1>5, RespondKeeps

LEMMA LoginKeeps == ASSUME IInv, NEW t \in Tab, Login(t, request[t]) PROVE IInv'
<1> DEFINE r == request[t]
           to == IF r.next = None THEN "/" ELSE r.next
<1>0. r \in Request /\ to \in Path
  BY CallerIs DEF Request, Path, Guarded
<1>1. PICK u \in User, s \in FreshSession, k \in FreshCsrf :
        /\ owner' = [owner EXCEPT ![s] = u]
        /\ Respond(t, RedirectTo(to, None, StartSession(s, k)), FALSE)
  BY DEF Login
<1>2. Fits(StartSession(s, k))
  <2>1. k \in Csrf /\ s \in Session
    BY DEF FreshCsrf, FreshSession
  <2>2. StartSession(s, k) \in SetCookie
    BY <2>1, EmptyTypes DEF StartSession, SetCookie
  <2>3. StartSession(s, k).session = s /\ StartSession(s, k).csrf = k
    BY DEF StartSession, Unset
  <2> QED  BY <2>1, <2>2, <2>3, Nothings DEF Fits
<1>3. Sound(r, RedirectTo(to, None, StartSession(s, k)))
  BY <1>0, <1>2, RedirectIsSound
<1> QED  BY <1>1, <1>3, OpeningKeeps

LEMMA RegisterKeeps == ASSUME IInv, NEW t \in Tab, Register(t, request[t]) PROVE IInv'
<1> DEFINE r == request[t]
<1>0. r \in Request /\ "/" \in Path
  BY CallerIs DEF Path, Guarded
<1>1. PICK u \in User, s \in FreshSession, k \in FreshCsrf, f \in FreshFlash :
        /\ owner' = [owner EXCEPT ![s] = u]
        /\ Respond(t, RedirectTo("/", None, [StartSession(s, k) EXCEPT !.flash = f]), FALSE)
  BY DEF Register
<1>2. Fits([StartSession(s, k) EXCEPT !.flash = f])
  BY StartSessionFits, FreshFlashIs DEF FreshSession
<1>3. Sound(r, RedirectTo("/", None, [StartSession(s, k) EXCEPT !.flash = f]))
  BY <1>0, <1>2, RedirectIsSound
<1> QED  BY <1>1, <1>3, OpeningKeeps

LEMMA SignedOutIsSound ==
    ASSUME NEW r \in Request, NEW f \in FreshFlash PROVE Sound(r, SignedOut(f))
BY MessagesFit, FreshFlashIs, RedirectIsSound DEF SignedOut, Path, Anonymous

LEMMA EndSessionsKeeps ==
    ASSUME IInv, NEW u, EndSessionsOf(u)
    PROVE  owner' \in [Session -> User \cup {None}] /\ \A s \in Session : owner'[s] \in {owner[s], None}
BY DEF EndSessionsOf, IInv, TypeOK

LEMMA LogoutKeeps ==
    ASSUME IInv, NEW t \in Tab, NEW failed \in BOOLEAN, Logout(t, request[t], failed)
    PROVE  IInv'
<1>1. PICK f \in FreshFlash : Respond(t, SignedOut(f), failed)
  BY DEF Logout
<1>2. Sound(request[t], SignedOut(f))
  BY CallerIs, SignedOutIsSound
<1>3. owner' \in [Session -> User \cup {None}] /\ \A s \in Session : owner'[s] \in {owner[s], None}
  BY DEF Logout, IInv, TypeOK
<1> QED  BY <1>1, <1>2, <1>3, AnswerKeeps

LEMMA LogoutEverywhereKeeps ==
    ASSUME IInv, NEW t \in Tab, NEW failed \in BOOLEAN, LogoutEverywhere(t, request[t], failed)
    PROVE  IInv'
<1> DEFINE r == request[t]
<1>0. Caller(r) # None /\ r \in Request
  BY CallerIs DEF LogoutEverywhere
<1>1. r.token = r.sent.csrf
  BY DEF LogoutEverywhere, NeedsUser, Checked, Guarded
<1>2. CASE failed
  <2>1. Sound(r, RenderPage(r, PageOf("error", Caller(r), r.token), Unset))
    BY <1>0, <1>1, UnsetFits, UserPages
  <2> QED  BY <1>2, <2>1, AnswerKeeps, OwnersStay DEF LogoutEverywhere
<1>3. CASE ~failed
  <2>1. PICK f \in FreshFlash : Respond(t, SignedOut(f), FALSE)
    BY <1>3 DEF LogoutEverywhere
  <2>2. EndSessionsOf(Caller(r))
    BY <1>3 DEF LogoutEverywhere
  <2> QED  BY <1>0, <2>1, <2>2, SignedOutIsSound, EndSessionsKeeps, AnswerKeeps
<1> QED  BY <1>2, <1>3

LEMMA ChangePasswordKeeps ==
    ASSUME IInv, NEW t \in Tab, NEW failed \in BOOLEAN, ChangePassword(t, request[t], failed)
    PROVE  IInv'
<1>1. PICK f \in FreshFlash : Respond(t, SignedOut(f), failed)
  BY DEF ChangePassword
<1>2. Sound(request[t], SignedOut(f))
  BY CallerIs, SignedOutIsSound
<1>3. owner' \in [Session -> User \cup {None}] /\ \A s \in Session : owner'[s] \in {owner[s], None}
  BY OwnersStay, EndSessionsKeeps DEF ChangePassword
<1> QED  BY <1>1, <1>2, <1>3, AnswerKeeps

\* Every action that is carried out leads to a page behind Require.
LEMMA LandingsAreGuarded ==
    ASSUME NEW path, NEW l \in Landings(path) PROVE l[1] \in Guarded
<1>1. \/ l \in Lookup \/ l \in RemoveLookup \/ l \in SaveProfile \/ l \in PasswordRefused
  <2>1. CASE path = "/lookups"
    BY <2>1 DEF Landings
  <2>2. CASE path = "/lookups/{id}/delete"
    BY <2>2 DEF Landings
  <2>3. CASE path = "/settings"
    BY <2>3 DEF Landings
  <2>4. CASE path = "/settings/password"
    BY <2>4 DEF Landings
  <2>5. CASE path \notin {"/lookups", "/lookups/{id}/delete", "/settings", "/settings/password"}
    BY <2>5 DEF Landings
  <2> QED  BY <2>1, <2>2, <2>3, <2>4, <2>5
<1>2. l[1] \in {"/", "/lookups/{id}", "/settings"}
  <2>1. ASSUME NEW a, NEW b PROVE <<a, b>>[1] = a
    OBVIOUS
  <2>2. \/ \E b : l = <<"/", b>>
        \/ \E b : l = <<"/lookups/{id}", b>>
        \/ \E b : l = <<"/settings", b>>
    BY <1>1, Zenon DEF Lookup, RemoveLookup, SaveProfile, PasswordRefused
  <2> QED  BY <2>1, <2>2
<1> QED  BY <1>2 DEF Guarded

LEMMA ServeActionKeeps ==
    ASSUME IInv, NEW t \in Tab, NEW failed \in BOOLEAN, ServeAction(t, request[t], failed)
    PROVE  IInv'
<1> DEFINE r == request[t]
<1>0. Caller(r) # None /\ r \in Request /\ r.token = r.sent.csrf
  BY CallerIs DEF ServeAction, NeedsUser, Checked
<1>1. CASE failed
  <2>1. Sound(r, RenderPage(r, PageOf("error", Caller(r), r.token), Unset))
    BY <1>0, UnsetFits, UserPages
  <2> QED  BY <1>1, <2>1, AnswerKeeps, OwnersStay DEF ServeAction
<1>2. CASE ~failed
  <2>1. PICK l \in Landings(r.path) : \E f \in IF l[2] THEN FreshFlash ELSE {Keep} :
          Respond(t, RedirectTo(l[1], None, [Unset EXCEPT !.flash = f]), FALSE)
    BY <1>2 DEF ServeAction
  <2>2. PICK f \in Flash \cup {Keep} :
          Respond(t, RedirectTo(l[1], None, [Unset EXCEPT !.flash = f]), FALSE)
    BY <2>1, FreshFlashIs
  <2>3. Sound(r, RedirectTo(l[1], None, [Unset EXCEPT !.flash = f]))
    BY <1>0, MessagesFit, LandingsAreGuarded, RedirectIsSound DEF Path
  <2> QED  BY <2>2, <2>3, AnswerKeeps, OwnersStay DEF ServeAction
<1> QED  BY <1>1, <1>2

---------------------------------------------------------------------------
LEMMA NextKeepsIInv == IInv /\ [Next]_vars => IInv'
<1> SUFFICES ASSUME IInv, [Next]_vars PROVE IInv'
  OBVIOUS
<1>1. CASE UNCHANGED vars
  <2>1. Jars' = Jars /\ Shown' = Shown
    BY <1>1 DEF vars, counts, Jars, Shown
  <2>2. TypeOK' /\ Faced'
    BY <1>1 DEF vars, counts, IInv, TypeOK, Faced
  <2>3. Jarred' /\ Bound' /\ Faithful' /\ Minted'
    BY <1>1, <2>1 DEF vars, counts, IInv, Jarred, Bound, Faithful, Minted
  <2> QED  BY <2>2, <2>3 DEF IInv
<1>2. ASSUME NEW t \in Tab, NEW o \in Opened, Open(t, o[1], o[2]) PROVE IInv'
  BY <1>2, OpenKeeps
<1>3. ASSUME NEW t \in Tab, NEW f \in Sent, Submit(t, f) PROVE IInv'
  BY <1>3, SubmitKeeps
<1>4. ASSUME NEW t \in Tab, Serve(t) PROVE IInv'
  BY <1>4, ServeFormKeeps, ServeStrangerKeeps, ServePageKeeps, ServeRefusalKeeps, LogoutKeeps,
     LogoutEverywhereKeeps, ChangePasswordKeeps, ServeActionKeeps, NotFoundKeeps,
     ServeForgedKeeps, LoginKeeps, RegisterKeeps DEF Serve
<1>5. ASSUME NEW t \in Tab, Receive(t) \/ Lose(t) PROVE IInv'
  BY <1>5, ReceiveKeeps, LoseKeeps
<1>6. ASSUME NEW gone \in SUBSET Crumb, CookiesExpire(gone) PROVE IInv'
  BY <1>6, CookiesExpireKeeps
<1>7. ASSUME NEW s \in Session, SessionEnds(s) PROVE IInv'
  BY <1>7, SessionEndsKeeps
<1> QED  BY <1>1, <1>2, <1>3, <1>4, <1>5, <1>6, <1>7 DEF Next

\* The invariant holds in every reachable state.
THEOREM BrowserInvariant == Spec => []IInv
<1> QED  BY InitIInv, NextKeepsIInv, PTL DEF Spec

\* Every variable keeps its type: cookies, pages, requests and answers are what the
\* browser and the handlers exchange.
THEOREM BrowserTypes == Spec => []TypeOK
<1>1. IInv => TypeOK
  BY DEF IInv
<1> QED  BY <1>1, BrowserInvariant, PTL

\* Whatever tabs, people and sessions share a browser, a form that the CSRF check
\* lets through acts for the user whose page it was on (auth.CSRF, startSession).
THEOREM FormsActForTheirUser == Spec => []ActsForTheUserShown
<1>1. IInv => ActsForTheUserShown
  <2> SUFFICES ASSUME IInv, NEW t \in Tab, request[t].post, Checked(request[t]),
                      request[t].path \notin Anonymous, Caller(request[t]) # None
               PROVE  request[t].shown = Caller(request[t])
    BY DEF ActsForTheUserShown
  <2>1. /\ <<request[t].token, request[t].shown>> \in Shown /\ request[t].sent \in Jars
        /\ request[t].shown # None
    BY DEF Shown, Jars, IInv, Faced
  <2>2. request[t].token = request[t].sent.csrf /\ request[t].token # None
    BY DEF Checked
  <2>3. request[t].sent.session # None /\ Caller(request[t]) = owner[request[t].sent.session]
    BY CallerIs
  <2>4. owner[request[t].sent.session] \in {request[t].shown, None}
    BY <2>1, <2>2, <2>3 DEF IInv, Faithful
  <2> QED  BY <2>3, <2>4
<1> QED  BY <1>1, BrowserInvariant, PTL

---------------------------------------------------------------------------
\* What the answers in a tab and its pages are, as long as nothing else disturbs
\* it.  A cookie as an answer leaves it, and the user of a session:
Stays(c, set) == IF set = Keep THEN c ELSE set
Who(owners, session) == IF session = None THEN None ELSE owners[session]

\* A page that says what is so while u is signed in, one that u may see, and one that
\* u is not sent on from.
Truthful(p, u) == /\ p.user # None => p.user = u
                  /\ p.path \in Anonymous /\ p.user = None => u = None
Reaches(path, u) == path \in Guarded => u # None
Settled(path, u) == Reaches(path, u) /\ (path \in Anonymous => u = None)

\* A tab waits for one thing at a time, showing nothing; a form is the first
\* request since the user acted.
InTurn(t) ==
    /\ request[t] = NoRequest \/ response[t] = NoResponse
    /\ response[t].some \/ response[t] = NoResponse
    /\ ~Idle(t) => view[t] = Blank
    /\ request[t].post => said[t] = None /\ hops[t] = 0

\* The token of a page with forms is the cookie's: when it is shown, or once the
\* answer that brings it has set its cookies.
CsrfFollows(t) == "csrf" \notin disturbed[t] =>
    /\ request[t] # NoRequest => request[t].sent.csrf = cookie.csrf
    /\ FormsOf(response[t].page) # {} =>
          /\ response[t].page.token # None
          /\ response[t].page.token = Stays(cookie.csrf, response[t].set.csrf)
    /\ FormsOf(view[t]) # {} => view[t].token # None /\ view[t].token = cookie.csrf

\* So is what a page says of the user; a redirect leads to a page the tab's user may
\* see, and a second one, for whoever has signed in on the way to a form, leads home.
SessionFollows(t) == "session" \notin disturbed[t] =>
    LET now == Who(owner, cookie.session)
        then == Who(owner, Stays(cookie.session, response[t].set.session))
    IN  /\ request[t] # NoRequest => request[t].sent.session = cookie.session
        /\ Truthful(response[t].page, then) /\ Truthful(view[t], now)
        /\ response[t].to # None => /\ hops[t] < 2 /\ Reaches(response[t].to, then)
                                    /\ hops[t] = 1 => response[t].to = "/"
        /\ request[t] # NoRequest /\ hops[t] >= 1 => Reaches(request[t].path, now)
        /\ request[t] # NoRequest /\ hops[t] = 2 => request[t].path = "/"
        /\ hops[t] # 3

\* Only a redirect queues a message, none discards one, and a message that was
\* queued is the cookie's until the page that takes it.
FlashFollows(t) ==
    /\ response[t].set.flash \in Flash => response[t].to # None
    /\ response[t].to # None => response[t].set.flash # None
    /\ "flash" \notin disturbed[t] =>
         /\ request[t] # NoRequest => request[t].sent.flash = cookie.flash
         /\ said[t] # None =>
              /\ request[t] # NoRequest => cookie.flash = said[t]
              /\ response[t].some /\ response[t].to = None => response[t].page.flash = said[t]
              /\ response[t].to # None /\ response[t].set.flash = Keep => cookie.flash = said[t]
              /\ view[t].path # "blank" => view[t].flash = said[t]

Follows(t) == InTurn(t) /\ CsrfFollows(t) /\ SessionFollows(t) /\ FlashFollows(t)
TInv == \A t \in Tab : Follows(t)

\* What begins empty has no form, user or message.
LEMMA Empty ==
    /\ FormsOf(Blank) = {} /\ Blank.path = "blank"
    /\ \A u : Truthful(Blank, u)
    /\ ~NoRequest.post
    /\ ~NoResponse.some /\ NoResponse.to = None
    /\ NoResponse.page = Blank /\ NoResponse.set = Unset
    /\ Unset.session = Keep /\ Unset.csrf = Keep /\ Unset.flash = Keep
    /\ None \notin Anonymous /\ None \notin Flash /\ Keep \notin Flash /\ None # Keep
<1>1. FormsOf(Blank) = {}
  BY DEF FormsOf, Blank, Anonymous
<1> QED  BY <1>1, Nothings DEF Blank, Truthful, NoRequest, NoResponse, Unset, Anonymous, Path

LEMMA InitTInv == Init => TInv
<1> SUFFICES ASSUME Init, NEW t \in Tab PROVE Follows(t)
  BY DEF TInv
<1>1. /\ view[t] = Blank /\ request[t] = NoRequest /\ response[t] = NoResponse
      /\ said[t] = None /\ hops[t] = 0
  BY DEF Init
<1>2. InTurn(t) /\ CsrfFollows(t) /\ FlashFollows(t)
  BY <1>1, Empty DEF InTurn, Idle, CsrfFollows, FlashFollows
<1>3. SessionFollows(t)
  BY <1>1, Empty DEF SessionFollows
<1> QED  BY <1>2, <1>3 DEF Follows

\* A tab in which nothing happens, unless the cookies it goes by are disturbed.
LEMMA ElsewhereFollows ==
    ASSUME NEW o \in Tab, Follows(o),
           view'[o] = view[o], request'[o] = request[o], response'[o] = response[o],
           said'[o] = said[o], hops'[o] = hops[o], disturbed[o] \subseteq disturbed'[o],
           "csrf" \in disturbed'[o] \/ cookie'.csrf = cookie.csrf,
           "flash" \in disturbed'[o] \/ cookie'.flash = cookie.flash,
           "session" \in disturbed'[o] \/ (cookie'.session = cookie.session /\ owner' = owner)
    PROVE  Follows(o)'
<1>1. InTurn(o)'
  BY DEF Follows, InTurn, Idle
<1>2. CsrfFollows(o)'
  BY DEF Follows, CsrfFollows
<1>3. SessionFollows(o)'
  BY DEF Follows, SessionFollows
<1>4. FlashFollows(o)'
  BY DEF Follows, FlashFollows
<1> QED  BY <1>1, <1>2, <1>3, <1>4 DEF Follows

---------------------------------------------------------------------------
LEMMA SendFollows ==
    ASSUME IInv, TInv, NEW t \in Tab, NEW r \in Request, Send(t, r),
           r.sent = cookie
    PROVE  TInv'
<1>0. /\ view' = [view EXCEPT ![t] = Blank] /\ request' = [request EXCEPT ![t] = r]
      /\ disturbed' = [disturbed EXCEPT ![t] = {}] /\ said' = [said EXCEPT ![t] = None]
      /\ hops' = [hops EXCEPT ![t] = 0]
      /\ cookie' = cookie /\ response' = response /\ owner' = owner
      /\ response[t] = NoResponse
  BY DEF Send, Idle
<1> SUFFICES ASSUME NEW o \in Tab PROVE Follows(o)'
  BY DEF TInv
<1>1. CASE o # t
  <2>1. /\ view'[o] = view[o] /\ request'[o] = request[o] /\ response'[o] = response[o]
        /\ said'[o] = said[o] /\ hops'[o] = hops[o] /\ disturbed'[o] = disturbed[o]
    BY <1>0, <1>1 DEF IInv, TypeOK
  <2> QED  BY <1>0, <2>1, ElsewhereFollows DEF TInv
<1>2. CASE o = t
  <2>1. /\ view'[o] = Blank /\ request'[o] = r /\ response'[o] = NoResponse
        /\ said'[o] = None /\ hops'[o] = 0
    BY <1>0, <1>2 DEF IInv, TypeOK
  <2>2. InTurn(o)' /\ CsrfFollows(o)' /\ FlashFollows(o)'
    BY <1>0, <2>1, Empty DEF InTurn, CsrfFollows, FlashFollows
  <2>3. SessionFollows(o)'
    BY <1>0, <2>1, Empty DEF SessionFollows
  <2> QED  BY <2>2, <2>3 DEF Follows
<1> QED  BY <1>1, <1>2

LEMMA OpenFollows ==
    ASSUME IInv, TInv, NEW t \in Tab, NEW o \in Opened, Open(t, o[1], o[2]) PROVE TInv'
<1> DEFINE r == [NoRequest EXCEPT !.path = o[1], !.next = o[2], !.sent = cookie]
<1>1. r \in Request
  <2>1. o[1] \in Path /\ o[2] \in Path \cup {None}
    BY BrowserConfig
  <2> QED  BY <2>1, EmptyTypes DEF IInv, TypeOK, Request
<1>2. r.sent = cookie
  BY DEF NoRequest
<1>3. Send(t, r)
  BY DEF Open
<1> HIDE DEF r
<1> QED  BY <1>1, <1>2, <1>3, SendFollows

LEMMA SubmitFollows ==
    ASSUME IInv, TInv, NEW t \in Tab, NEW f \in Sent, Submit(t, f) PROVE TInv'
<1> DEFINE r == [path |-> f, post |-> TRUE, sent |-> cookie, token |-> view[t].token,
                 next |-> IF f = "/login" THEN view[t].next ELSE None,
                 shown |-> view[t].user]
<1>1. view[t] \in Page /\ cookie \in Crumbs
  BY DEF IInv, TypeOK
<1>2. r \in Request
  BY <1>1, BrowserConfig DEF Page, Request, Path
<1>3. r.sent = cookie
  OBVIOUS
<1>4. Send(t, r)
  BY DEF Submit
<1> HIDE DEF r
<1> QED  BY <1>2, <1>3, <1>4, SendFollows

LEMMA LoseFollows == ASSUME IInv, TInv, NEW t \in Tab, Lose(t) PROVE TInv'
<1>0. /\ request' = [request EXCEPT ![t] = NoRequest] /\ said' = [said EXCEPT ![t] = None]
      /\ response' = [response EXCEPT ![t] = NoResponse]
      /\ UNCHANGED <<cookie, view, owner, disturbed, hops>>
      /\ ~Idle(t)
  BY DEF Lose
<1> SUFFICES ASSUME NEW o \in Tab PROVE Follows(o)'
  BY DEF TInv
<1>1. CASE o # t
  <2>1. /\ request'[o] = request[o] /\ response'[o] = response[o] /\ said'[o] = said[o]
    BY <1>0, <1>1 DEF IInv, TypeOK
  <2> QED  BY <1>0, <2>1, ElsewhereFollows DEF TInv
<1>2. CASE o = t
  <2>0. Follows(o)
    BY DEF TInv
  <2>1. /\ view'[o] = Blank /\ request'[o] = NoRequest /\ response'[o] = NoResponse
        /\ said'[o] = None /\ hops'[o] = hops[o] /\ disturbed'[o] = disturbed[o]
    BY <1>0, <1>2, <2>0 DEF IInv, TypeOK, Follows, InTurn
  <2>2. InTurn(o)' /\ CsrfFollows(o)' /\ FlashFollows(o)'
    BY <2>1, Empty DEF InTurn, Idle, CsrfFollows, FlashFollows
  <2>3. SessionFollows(o)'
    BY <2>0, <2>1, Empty DEF SessionFollows, Follows
  <2> QED  BY <2>2, <2>3 DEF Follows
<1> QED  BY <1>1, <1>2

\* A cookie that changes is disturbed.
LEMMA ChangesDisturb ==
    ASSUME TypeOK, NEW new \in Crumbs, NEW tabs, NEW o \in Tab, o \in tabs,
           disturbed' = Disturb(tabs, Changed(new))
    PROVE  /\ disturbed[o] \subseteq disturbed'[o]
           /\ "csrf" \in disturbed'[o] \/ new.csrf = cookie.csrf
           /\ "flash" \in disturbed'[o] \/ new.flash = cookie.flash
           /\ "session" \in disturbed'[o] \/ new.session = cookie.session
<1>1. disturbed'[o] = disturbed[o] \cup Changed(new)
  BY DEF Disturb
<1>2. \A c \in {"session", "csrf", "flash"} : c \in Changed(new) \/ new[c] = cookie[c]
  BY ThreeCookies DEF Changed
<1> QED  BY <1>1, <1>2

LEMMA CookiesExpireFollows ==
    ASSUME IInv, TInv, IInv', NEW gone \in SUBSET Crumb, CookiesExpire(gone) PROVE TInv'
<1>0. /\ UNCHANGED <<view, request, response, owner, said, hops>>
      /\ disturbed' = Disturb(Tab, Changed(cookie')) /\ cookie' \in Crumbs
  BY DEF CookiesExpire, IInv, TypeOK
<1> SUFFICES ASSUME NEW o \in Tab PROVE Follows(o)'
  BY DEF TInv
<1>1. TypeOK
  BY DEF IInv
<1>2. /\ disturbed[o] \subseteq disturbed'[o]
      /\ "csrf" \in disturbed'[o] \/ cookie'.csrf = cookie.csrf
      /\ "flash" \in disturbed'[o] \/ cookie'.flash = cookie.flash
      /\ "session" \in disturbed'[o] \/ cookie'.session = cookie.session
  BY <1>0, <1>1, ChangesDisturb
<1> QED  BY <1>0, <1>2, ElsewhereFollows DEF TInv

LEMMA SessionEndsFollows ==
    ASSUME IInv, TInv, NEW s \in Session, SessionEnds(s) PROVE TInv'
<1>0. /\ UNCHANGED <<cookie, view, request, response, said, hops>>
      /\ disturbed' = Disturb(Tab, {"session"})
  BY DEF SessionEnds
<1> SUFFICES ASSUME NEW o \in Tab PROVE Follows(o)'
  BY DEF TInv
<1>1. disturbed'[o] = disturbed[o] \cup {"session"}
  BY <1>0 DEF Disturb
<1> QED  BY <1>0, <1>1, ElsewhereFollows DEF TInv

\* The answer's cookies are the browser's from now on, and nobody else's doing.
LEMMA ReceiveFollows == ASSUME IInv, TInv, NEW t \in Tab, Receive(t) PROVE TInv'
<1> DEFINE r == response[t]
           new == Stored(r.set)
           onward == [NoRequest EXCEPT !.path = r.to, !.next = r.next, !.sent = new]
<1>0. TypeOK /\ r \in Response /\ r.set \in SetCookie /\ r.some
  BY DEF IInv, TypeOK, Response, Receive
<1>1. /\ cookie' = new /\ owner' = owner
      /\ response' = [response EXCEPT ![t] = NoResponse]
      /\ disturbed' = Disturb(Tab \ {t}, Changed(new))
      /\ said' = (IF r.set.flash \in Flash THEN [said EXCEPT ![t] = r.set.flash] ELSE said)
  BY DEF Receive
<1>2. \/ /\ r.to # None
         /\ request' = [request EXCEPT ![t] = onward]
         /\ hops' = [hops EXCEPT ![t] = IF @ = 3 THEN 3 ELSE @ + 1]
         /\ view' = view
      \/ /\ r.to = None
         /\ view' = [view EXCEPT ![t] = r.page] /\ request' = request /\ hops' = hops
  BY DEF Receive
<1>3. new \in Crumbs
  BY <1>0, StoredIs
<1>4. /\ new.session = Stays(cookie.session, r.set.session)
      /\ new.csrf = Stays(cookie.csrf, r.set.csrf)
      /\ new.flash = Stays(cookie.flash, r.set.flash)
  BY <1>0, ThreeCookies DEF Stored, Stays
<1>5. onward.path = r.to /\ onward.next = r.next /\ onward.sent = new /\ ~onward.post
  BY DEF NoRequest
<1> HIDE DEF new, onward
<1> SUFFICES ASSUME NEW o \in Tab PROVE Follows(o)'
  BY DEF TInv
<1>6. Follows(o)
  BY DEF TInv
<1>7. CASE o # t
  <2>1. /\ view'[o] = view[o] /\ request'[o] = request[o] /\ response'[o] = response[o]
        /\ said'[o] = said[o] /\ hops'[o] = hops[o]
    BY <1>0, <1>1, <1>2, <1>7 DEF TypeOK
  <2>2. /\ disturbed[o] \subseteq disturbed'[o]
        /\ "csrf" \in disturbed'[o] \/ new.csrf = cookie.csrf
        /\ "flash" \in disturbed'[o] \/ new.flash = cookie.flash
        /\ "session" \in disturbed'[o] \/ new.session = cookie.session
    <3>1. o \in Tab \ {t} /\ disturbed' = Disturb(Tab \ {t}, Changed(new))
      BY <1>1, <1>7
    <3> QED  BY <1>0, <1>3, <3>1, ChangesDisturb
  <2> QED  BY <1>1, <1>6, <2>1, <2>2, ElsewhereFollows
<1>8. CASE o = t
  <2>1. response'[o] = NoResponse /\ disturbed'[o] = disturbed[o]
    BY <1>0, <1>1, <1>8 DEF TypeOK, Disturb
  <2>2. said'[o] = IF r.set.flash \in Flash THEN r.set.flash ELSE said[o]
    BY <1>0, <1>1, <1>8 DEF TypeOK
  <2>3. request[o] = NoRequest /\ view[o] = Blank
    BY <1>0, <1>6, <1>8, Empty DEF Follows, InTurn, Idle
  <2>4. CASE r.to # None
    <3>1. request'[o] = onward /\ view'[o] = Blank
      BY <1>0, <1>2, <1>8, <2>3, <2>4 DEF TypeOK
    <3>2. "session" \notin disturbed[o] => hops'[o] \in 1..2 /\ (hops'[o] = 2 => r.to = "/")
      <4>1. hops[o] \in 0..3 /\ hops'[o] = IF hops[o] = 3 THEN 3 ELSE hops[o] + 1
        BY <1>0, <1>2, <1>8, <2>4 DEF TypeOK
      <4>2. "session" \notin disturbed[o] => hops[o] < 2 /\ (hops[o] = 1 => r.to = "/")
        BY <1>6, <1>8, <2>4 DEF Follows, SessionFollows
      <4> QED  BY <4>1, <4>2
    <3>3. InTurn(o)' /\ CsrfFollows(o)'
      BY <1>1, <1>5, <2>1, <3>1, Empty DEF InTurn, CsrfFollows
    <3>4. SessionFollows(o)'
      BY <1>1, <1>4, <1>5, <1>6, <1>8, <2>1, <2>4, <3>1, <3>2, Empty DEF SessionFollows, Follows
    <3>5. FlashFollows(o)'
      <4>1. "flash" \notin disturbed[o] /\ said'[o] # None => new.flash = said'[o]
        BY <1>0, <1>4, <1>6, <1>8, <2>2, <2>4, Empty DEF Follows, FlashFollows, Stays, SetCookie
      <4> QED  BY <1>1, <1>5, <2>1, <3>1, <4>1, Empty DEF FlashFollows
    <3> QED  BY <3>3, <3>4, <3>5 DEF Follows
  <2>5. CASE r.to = None
    <3>1. /\ view'[o] = r.page /\ request'[o] = NoRequest /\ hops'[o] = hops[o]
          /\ said'[o] = said[o]
      BY <1>0, <1>2, <1>6, <1>8, <2>2, <2>3, <2>5 DEF TypeOK, Follows, FlashFollows
    <3>2. InTurn(o)'
      BY <1>6, <1>8, <2>1, <3>1, Empty DEF InTurn, Idle, Follows
    <3>3. CsrfFollows(o)'
      BY <1>1, <1>4, <1>6, <1>8, <2>1, <3>1, Empty DEF CsrfFollows, Follows
    <3>4. SessionFollows(o)'
      BY <1>1, <1>4, <1>6, <1>8, <2>1, <3>1, Empty DEF SessionFollows, Follows
    <3>5. FlashFollows(o)'
      BY <1>0, <1>1, <1>6, <1>8, <2>1, <2>5, <3>1, Empty DEF FlashFollows, Follows
    <3> QED  BY <3>2, <3>3, <3>4, <3>5 DEF Follows
  <2> QED  BY <2>4, <2>5
<1> QED  BY <1>7, <1>8

---------------------------------------------------------------------------
\* What an answer is like that keeps a tab's pages in step with its cookies.
Honest(r, x) ==
    /\ x.some
    /\ FormsOf(x.page) # {} => /\ x.page.token # None
                               /\ x.page.token = Stays(r.sent.csrf, x.set.csrf)
    /\ x.to = None => x.page.flash = r.sent.flash \/ r.post
    /\ x.to # None => x.set.flash # None
    /\ x.set.flash \in Flash => x.to # None

\* A form leads anywhere; a page only away from where the caller cannot be, and whoever
\* is signed in home.
Sends(r, to) == r.post \/ (~Settled(r.path, Caller(r)) /\ (to = "/" \/ Caller(r) = None))

\* ... and with who is signed in, when nothing failed.
Leads(r, x) ==
    LET then == Who(owner', Stays(r.sent.session, x.set.session))
    IN  /\ Truthful(x.page, then)
        /\ x.to # None => Reaches(x.to, then) /\ Sends(r, x.to)

LEMMA RespondFollows ==
    ASSUME IInv, TInv, NEW t \in Tab, request[t] # NoRequest,
           NEW x, NEW failed \in BOOLEAN, Respond(t, x, failed),
           Honest(request[t], x), failed \/ Leads(request[t], x)
    PROVE  TInv'
<1> DEFINE r == request[t]
<1>0. /\ request' = [request EXCEPT ![t] = NoRequest] /\ response' = [response EXCEPT ![t] = x]
      /\ UNCHANGED <<cookie, view, said, hops>>
      /\ disturbed' = Disturb((IF failed THEN {t} ELSE {})
                                \cup (IF owner' # owner THEN Tab \ {t} ELSE {}), {"session"})
  BY DEF Respond
<1> SUFFICES ASSUME NEW o \in Tab PROVE Follows(o)'
  BY DEF TInv
<1>1. Follows(o)
  BY DEF TInv
<1>2. CASE o # t
  <2>1. request'[o] = request[o] /\ response'[o] = response[o]
    BY <1>0, <1>2 DEF IInv, TypeOK
  <2>2. /\ disturbed[o] \subseteq disturbed'[o]
        /\ "session" \in disturbed'[o] \/ owner' = owner
    BY <1>0, <1>2 DEF Disturb
  <2> QED  BY <1>0, <1>1, <2>1, <2>2, ElsewhereFollows
<1>3. CASE o = t
  <2>1. /\ request'[o] = NoRequest /\ response'[o] = x /\ disturbed[o] \subseteq disturbed'[o]
        /\ failed => "session" \in disturbed'[o]
    BY <1>0, <1>3 DEF IInv, TypeOK, Disturb
  <2>2. view[o] = Blank
    BY <1>1, <1>3 DEF Follows, InTurn, Idle
  <2>3. InTurn(o)'
    BY <1>0, <2>1, <2>2, Empty DEF InTurn, Honest
  <2>4. CsrfFollows(o)'
    BY <1>0, <1>1, <1>3, <2>1, <2>2, Empty DEF CsrfFollows, Follows, Honest
  <2>5. SessionFollows(o)'
    <3> SUFFICES ASSUME "session" \notin disturbed'[o] PROVE SessionFollows(o)'
      BY DEF SessionFollows
    <3>1. Leads(r, x) /\ r.sent.session = cookie.session /\ hops[o] # 3
      BY <1>1, <1>3, <2>1 DEF Follows, SessionFollows
    <3>2. Caller(r) = Who(owner, cookie.session)
      BY <3>1 DEF Caller, UserOf, Who
    <3>3. x.to # None => hops[o] < 2 /\ (hops[o] = 1 => x.to = "/")
      <4>1. r.post => hops[o] = 0
        BY <1>1, <1>3 DEF Follows, InTurn
      <4>2. /\ hops[o] >= 1 => Reaches(r.path, Caller(r))
            /\ hops[o] = 2 => r.path = "/"
        BY <1>1, <1>3, <2>1, <3>2 DEF Follows, SessionFollows
      <4>3. hops[o] \in 0..3
        BY DEF IInv, TypeOK
      <4>4. "/" \in Guarded /\ "/" \notin Anonymous
        BY DEF Guarded, Anonymous
      <4>5. x.to # None => Sends(r, x.to)
        BY <3>1 DEF Leads
      <4>6. ASSUME x.to # None, hops[o] >= 1, Reaches(r.path, Caller(r))
            PROVE  r.path \in Anonymous /\ Caller(r) # None /\ x.to = "/"
        BY <4>1, <4>5, <4>6 DEF Sends, Settled
      <4> QED  BY <3>1, <4>2, <4>3, <4>4, <4>6
    <3> QED  BY <1>0, <2>1, <2>2, <3>1, <3>3, Empty DEF SessionFollows, Leads
  <2>6. FlashFollows(o)'
    <3>1. r.post => said[o] = None
      BY <1>1, <1>3 DEF Follows, InTurn
    <3> QED  BY <1>0, <1>1, <1>3, <2>1, <2>2, <3>1, Empty DEF FlashFollows, Follows, Honest
  <2> QED  BY <2>3, <2>4, <2>5, <2>6 DEF Follows
<1> QED  BY <1>2, <1>3

---------------------------------------------------------------------------
\* The three kinds of answers: a page, a redirect of somebody whose session stays
\* what it is, and one that changes it.
HasForms(p) == p.user # None \/ p.path \in Anonymous \cup Guarded

LEMMA FormsNeed == ASSUME NEW p PROVE FormsOf(p) # {} => HasForms(p)
<1> SUFFICES ASSUME ~HasForms(p) PROVE FormsOf(p) = {}
  OBVIOUS
<1>1. p.user = None /\ p.path \notin Anonymous /\ p.path \notin Guarded
  BY DEF HasForms
<1>2. p.path # "/" /\ p.path # "/lookups/{id}" /\ p.path # "/settings"
  BY <1>1 DEF Guarded
<1> QED  BY <1>1, <1>2 DEF FormsOf

LEMMA PageFollows ==
    ASSUME IInv, TInv, NEW t \in Tab, request[t] # NoRequest, UNCHANGED owner,
           NEW p \in Page, NEW set \in SetCookie, NEW failed \in BOOLEAN,
           Respond(t, RenderPage(request[t], p, set), failed),
           set.session = Keep, set.flash = Keep,
           p.flash = Own => request[t].post,
           HasForms(p) => p.token # None /\ p.token = Stays(request[t].sent.csrf, set.csrf),
           failed \/ Truthful(p, Caller(request[t]))
    PROVE  TInv'
<1> DEFINE r == request[t]
           x == RenderPage(r, p, set)
<1>1. /\ x.some /\ x.to = None /\ x.next = None
      /\ x.page.user = p.user /\ x.page.path = p.path /\ x.page.token = p.token
      /\ x.page.next = p.next
      /\ x.page.flash = r.sent.flash \/ r.post
      /\ x.set.session = Keep /\ x.set.csrf = set.csrf /\ x.set.flash \in {Keep, None}
  <2>1. CASE p.flash = Own
    BY <2>1 DEF RenderPage
  <2>2. CASE p.flash # Own
    <3>1. [p EXCEPT !.flash = r.sent.flash].flash = r.sent.flash
      BY DEF Page
    <3>2. /\ [set EXCEPT !.flash = None].flash = None
          /\ [set EXCEPT !.flash = None].session = set.session
          /\ [set EXCEPT !.flash = None].csrf = set.csrf
      BY DEF SetCookie
    <3> QED  BY <2>2, <3>1, <3>2 DEF RenderPage, Page
  <2> QED  BY <2>1, <2>2
<1> HIDE DEF x
<1>2. Honest(r, x)
  <2>1. FormsOf(x.page) # {} => HasForms(p)
    BY <1>1, FormsNeed DEF HasForms
  <2> QED  BY <1>1, <2>1, Empty DEF Honest
<1>3. failed \/ Leads(r, x)
  <2>1. Who(owner', Stays(r.sent.session, x.set.session)) = Caller(r)
    BY <1>1 DEF Who, Stays, Caller, UserOf
  <2> QED  BY <1>1, <2>1 DEF Leads, Truthful
<1> QED  BY <1>2, <1>3, RespondFollows DEF x

LEMMA RedirectFollows ==
    ASSUME IInv, TInv, NEW t \in Tab, request[t] # NoRequest,
           NEW to, to # None, NEW next,
           NEW set, set.flash # None, NEW failed \in BOOLEAN,
           Respond(t, RedirectTo(to, next, set), failed),
           failed \/ /\ Reaches(to, Who(owner', Stays(request[t].sent.session, set.session)))
                     /\ Sends(request[t], to)
    PROVE  TInv'
<1> DEFINE x == RedirectTo(to, next, set)
<1>1. x.some /\ x.to = to /\ x.next = next /\ x.set = set /\ x.page = Blank
  BY DEF RedirectTo
<1> HIDE DEF x
<1>2. Honest(request[t], x)
  BY <1>1, Empty DEF Honest
<1>3. failed \/ Leads(request[t], x)
  BY <1>1, Empty DEF Leads
<1> QED  BY <1>2, <1>3, RespondFollows DEF x

LEMMA StayingFollows ==
    ASSUME IInv, TInv, NEW t \in Tab, request[t] # NoRequest, UNCHANGED owner,
           NEW to, to # None, NEW next,
           NEW set, set.flash # None, set.session = Keep, NEW failed \in BOOLEAN,
           Respond(t, RedirectTo(to, next, set), failed),
           failed \/ (Reaches(to, Caller(request[t])) /\ Sends(request[t], to))
    PROVE  TInv'
<1>1. Who(owner', Stays(request[t].sent.session, set.session)) = Caller(request[t])
  BY DEF Who, Stays, Caller, UserOf
<1> QED  BY <1>1, RedirectFollows

---------------------------------------------------------------------------
\* What a handler knows of its request.
LEMMA Asked ==
    ASSUME IInv, TInv, NEW t \in Tab
    PROVE  /\ request[t].next \in Path \cup {None}
           /\ request[t].post \/ request[t].path \in Path => request[t] # NoRequest
<1>1. request[t] \in Request
  BY DEF IInv, TypeOK
<1>2. NoRequest.path \notin Path /\ ~NoRequest.post
  BY Nothings DEF NoRequest
<1> QED  BY <1>1, <1>2 DEF Request

LEMMA PagesHave ==
    ASSUME NEW path \in Path \cup {"blank", "error", "missing"},
           NEW user \in User \cup {None}, NEW token \in Csrf \cup {None}
    PROVE  PageOf(path, user, token).flash # Own
BY Nothings DEF PageOf, Blank

LEMMA IssuedIs ==
    ASSUME NEW r \in Request, r.sent \in Crumbs, NEW token \in Issue(r)
    PROVE  /\ Issued(r, token) \in SetCookie /\ token \in Csrf /\ token # None
           /\ Issued(r, token).session = Keep /\ Issued(r, token).flash = Keep
           /\ token = Stays(r.sent.csrf, Issued(r, token).csrf)
<1>1. token \in Csrf /\ Issued(r, token) \in SetCookie
  BY IssuedFits DEF Fits
<1>2. Issued(r, token) = [session |-> Keep, flash |-> Keep,
                          csrf |-> IF r.sent.csrf = token THEN Keep ELSE token]
  BY DEF Issued, Unset
<1> QED  BY <1>1, <1>2, Nothings DEF Stays

LEMMA ServeFormFollows ==
    ASSUME IInv, TInv, NEW t \in Tab, NEW failed \in BOOLEAN, ServeForm(t, request[t], failed)
    PROVE  TInv'
<1> DEFINE r == request[t]
<1>0. /\ r \in Request /\ r.sent \in Crumbs /\ r.path \in Anonymous /\ UNCHANGED owner
      /\ r.path \in Path /\ r # NoRequest /\ ~r.post
  BY CallerIs, Asked DEF ServeForm, Path
<1>1. PICK token \in Issue(r) :
        \/ /\ Visitor(r, failed) # None
           /\ Respond(t, RedirectTo("/", None, Issued(r, token)), failed)
        \/ /\ Visitor(r, failed) = None
           /\ Respond(t, RenderPage(r, [PageOf(r.path, None, token) EXCEPT !.next = r.next],
                                    Issued(r, token)), failed)
  BY DEF ServeForm
<1>2. /\ Issued(r, token) \in SetCookie /\ token \in Csrf /\ token # None
      /\ Issued(r, token).session = Keep /\ Issued(r, token).flash = Keep
      /\ token = Stays(r.sent.csrf, Issued(r, token).csrf)
  BY <1>0, IssuedIs
<1>3. CASE /\ Visitor(r, failed) # None
           /\ Respond(t, RedirectTo("/", None, Issued(r, token)), failed)
  <2>1. Caller(r) # None
    BY <1>3 DEF Visitor
  <2>2. Reaches("/", Caller(r)) /\ Sends(r, "/")
    BY <1>0, <2>1 DEF Reaches, Sends, Settled
  <2> HIDE DEF r
  <2>3. "/" # None /\ Issued(r, token).flash # None
    BY <1>2, Empty DEF None
  <2> USE DEF r
  <2> QED  BY <1>0, <1>2, <1>3, <2>2, <2>3, StayingFollows
<1>4. CASE /\ Visitor(r, failed) = None
           /\ Respond(t, RenderPage(r, [PageOf(r.path, None, token) EXCEPT !.next = r.next],
                                    Issued(r, token)), failed)
  <2> DEFINE p == [PageOf(r.path, None, token) EXCEPT !.next = r.next]
             q == PageOf(r.path, None, token)
  <2>1. q \in Page /\ q.user = None /\ q.path = r.path /\ q.token = token /\ q.flash # Own
    <3>1. r.path \in Path \cup {"blank", "error", "missing"} /\ token \in Csrf \cup {None}
      BY <1>0, <1>2
    <3> QED  BY <3>1, PageIs, PagesHave
  <2> HIDE DEF q
  <2>2. /\ [q EXCEPT !.next = r.next] \in Page /\ [q EXCEPT !.next = r.next].user = None
        /\ [q EXCEPT !.next = r.next].path = r.path /\ [q EXCEPT !.next = r.next].token = token
        /\ [q EXCEPT !.next = r.next].flash # Own
    BY <2>1, Asked DEF Page
  <2>3. p \in Page /\ p.user = None /\ p.path = r.path /\ p.token = token /\ p.flash # Own
    BY <2>2 DEF q
  <2>4. failed \/ Truthful(p, Caller(r))
    BY <1>4, <2>3 DEF Truthful, Visitor
  <2>5. Respond(t, RenderPage(r, p, Issued(r, token)), failed)
    BY <1>4
  <2> HIDE DEF p
  <2> QED  BY <1>0, <1>2, <2>3, <2>4, <2>5, PageFollows
<1> QED  BY <1>1, <1>3, <1>4

\* Pages without a user and forms.
LEMMA ErrorFollows ==
    ASSUME IInv, TInv, NEW t \in Tab, request[t] # NoRequest, UNCHANGED owner,
           NEW path \in {"error", "missing"}, NEW token \in Csrf \cup {None},
           NEW failed \in BOOLEAN,
           Respond(t, RenderPage(request[t], PageOf(path, None, token), Unset), failed)
    PROVE  TInv'
<1> DEFINE p == PageOf(path, None, token)
<1>1. p \in Page /\ p.user = None /\ p.path = path /\ p.flash # Own
  <2>1. path \in Path \cup {"blank", "error", "missing"} /\ None \in User \cup {None}
    OBVIOUS
  <2> QED  BY <2>1, PageIs, PagesHave
<1>2. path \notin Anonymous \cup Guarded
  BY DEF Anonymous, Guarded
<1> HIDE DEF p
<1>3. ~HasForms(p) /\ Truthful(p, Caller(request[t]))
  BY <1>1, <1>2 DEF HasForms, Truthful
<1>4. Unset \in SetCookie /\ Unset.session = Keep /\ Unset.flash = Keep
  BY EmptyTypes, Empty
<1>5. Respond(t, RenderPage(request[t], p, Unset), failed)
  BY DEF p
<1> QED  BY <1>1, <1>3, <1>4, <1>5, PageFollows

\* Pages of whoever calls, with the token the call brought.
LEMMA UserPageFollows ==
    ASSUME IInv, TInv, NEW t \in Tab, request[t] # NoRequest, UNCHANGED owner,
           Caller(request[t]) # None, NEW path \in Path \cup {"error"},
           NEW token \in Csrf, NEW set \in SetCookie, NEW failed \in BOOLEAN,
           set.session = Keep, set.flash = Keep,
           token = Stays(request[t].sent.csrf, set.csrf),
           Respond(t, RenderPage(request[t], PageOf(path, Caller(request[t]), token), set), failed)
    PROVE  TInv'
<1> DEFINE u == Caller(request[t])
           p == PageOf(path, u, token)
<1>1. u \in User \cup {None} /\ token \in Csrf \cup {None} /\ token # None
      /\ path \in Path \cup {"blank", "error", "missing"}
  BY CallerIs, Nothings
<1>2. p \in Page /\ p.user = u /\ p.path = path /\ p.token = token /\ p.flash # Own
  <2> HIDE DEF u
  <2>1. p \in Page /\ p.user = u /\ p.path = path /\ p.token = token
    BY <1>1, PageIs
  <2>2. p.flash # Own
    BY <1>1, PagesHave
  <2> QED  BY <2>1, <2>2
<1>3. Truthful(p, u)
  <2> HIDE DEF p
  <2> QED  BY <1>1, <1>2 DEF Truthful
<1>4. Respond(t, RenderPage(request[t], p, set), failed)
  OBVIOUS
<1> HIDE DEF p
<1> QED  BY <1>1, <1>2, <1>3, <1>4, PageFollows

LEMMA ServeStrangerFollows ==
    ASSUME IInv, TInv, NEW t \in Tab, NEW failed \in BOOLEAN, ServeStranger(t, request[t], failed)
    PROVE  TInv'
<1> DEFINE r == request[t]
<1>0. /\ NeedsUser(r) /\ UNCHANGED owner /\ r.token \in Csrf \cup {None}
      /\ r # NoRequest
  BY CallerIs, Asked DEF ServeStranger, NeedsUser, Request, Path
<1>2. CASE Caller(r) = None /\ Respond(t, RedirectToLogin(r), failed)
  <2>1. Reaches("/login", Caller(r)) /\ Sends(r, "/login")
    BY <1>0, <1>2 DEF Reaches, Sends, Settled, NeedsUser, Guarded
  <2>2. "/login" # None
    BY DEF None
  <2>3. Unset.flash # None /\ Unset.session = Keep
    BY Empty
  <2>4. Respond(t, RedirectTo("/login", Destination(r), Unset), failed)
    BY <1>2 DEF RedirectToLogin
  <2> QED  BY <1>0, <2>1, <2>2, <2>3, <2>4, StayingFollows
<1>3. CASE Respond(t, RenderPage(r, PageOf("error", None, r.token), Unset), failed)
  BY <1>0, <1>3, ErrorFollows
<1> QED  BY <1>2, <1>3 DEF ServeStranger

LEMMA ServePageFollows ==
    ASSUME IInv, TInv, NEW t \in Tab, NEW failed \in BOOLEAN, ServePage(t, request[t], failed)
    PROVE  TInv'
<1> DEFINE r == request[t]
           path == IF failed THEN "error" ELSE r.path
<1>0. /\ r \in Request /\ r.sent \in Crumbs /\ r.path \in Path /\ Caller(r) # None
      /\ UNCHANGED owner /\ r # NoRequest
  BY CallerIs, Asked DEF ServePage, NeedsUser, Path
<1>1. PICK token \in Issue(r) :
        Respond(t, RenderPage(r, PageOf(path, Caller(r), token), Issued(r, token)), failed)
  BY DEF ServePage
<1>2. /\ Issued(r, token) \in SetCookie /\ token \in Csrf
      /\ Issued(r, token).session = Keep /\ Issued(r, token).flash = Keep
      /\ token = Stays(r.sent.csrf, Issued(r, token).csrf)
  BY <1>0, IssuedIs
<1>3. path \in Path \cup {"error"}
  BY <1>0
<1> HIDE DEF path
<1> QED  BY <1>0, <1>1, <1>2, <1>3, UserPageFollows

LEMMA NotFoundFollows == ASSUME IInv, TInv, NEW t \in Tab, NotFound(t, request[t]) PROVE TInv'
BY ErrorFollows DEF NotFound

LEMMA ServeForgedFollows ==
    ASSUME IInv, TInv, NEW t \in Tab, ServeForged(t, request[t]) PROVE TInv'
BY ErrorFollows, Asked DEF ServeForged

LEMMA ServeRefusalFollows ==
    ASSUME IInv, TInv, NEW t \in Tab, NEW failed \in BOOLEAN, ServeRefusal(t, request[t], failed)
    PROVE  TInv'
<1> DEFINE r == request[t]
           u == Visitor(r, failed)
           q == PageOf(r.path, u, r.token)
           p == [q EXCEPT !.next = r.next, !.flash = Own]
<1>0. /\ r \in Request /\ r.path \in Anonymous /\ r.path \in Path /\ r.post /\ UNCHANGED owner
      /\ r.token \in Csrf \cup {None} /\ r.token = r.sent.csrf /\ r.token # None
      /\ r # NoRequest
  BY CallerIs, Asked DEF ServeRefusal, Checked, Request, Path
<1>1. u \in User \cup {None} /\ (failed \/ u = Caller(r))
  BY CallerIs DEF Visitor
<1>2. q \in Page /\ q.user = u /\ q.path = r.path /\ q.token = r.token
  <2>1. r.path \in Path \cup {"blank", "error", "missing"}
    BY <1>0
  <2>2. u \in User \cup {None} /\ r.token \in Csrf \cup {None}
    BY <1>0, <1>1
  <2> QED  BY <2>1, <2>2, PageIs
<1>3. Respond(t, RenderPage(r, p, Unset), failed)
  BY DEF ServeRefusal
<1> HIDE DEF q
<1>4. p \in Page /\ p.user = u /\ p.path = r.path /\ p.token = r.token
  BY <1>2, Asked DEF Page
<1> HIDE DEF p, u
<1>5. failed \/ Truthful(p, Caller(r))
  BY <1>1, <1>4 DEF Truthful
<1>6. /\ Unset \in SetCookie /\ Unset.session = Keep /\ Unset.flash = Keep
      /\ p.token # None /\ p.token = Stays(r.sent.csrf, Unset.csrf)
  BY <1>0, <1>4, EmptyTypes, Empty DEF Stays
<1> QED  BY <1>0, <1>3, <1>4, <1>5, <1>6, PageFollows

\* Signing in leads to whatever page was asked for.
LEMMA OpeningFollows ==
    ASSUME IInv, TInv, NEW t \in Tab, request[t].post, NEW u \in User, NEW s \in FreshSession,
           owner' = [owner EXCEPT ![s] = u],
           NEW to \in Path,
           NEW set, set.session = s, set.flash # None,
           Respond(t, RedirectTo(to, None, set), FALSE)
    PROVE  TInv'
<1>1. s # None /\ s # Keep /\ s \in Session
  BY Nothings DEF FreshSession
<1>2. Who(owner', Stays(request[t].sent.session, set.session)) = u
  BY <1>1 DEF Who, Stays, IInv, TypeOK
<1>3. Reaches(to, u) /\ Sends(request[t], to)
  BY Nothings DEF Reaches, Sends
<1>4. to # None /\ request[t] # NoRequest
  BY Asked, Nothings
<1> QED  BY <1>2, <1>3, <1>4, RedirectFollows

LEMMA LoginFollows == ASSUME IInv, TInv, NEW t \in Tab, Login(t, request[t]) PROVE TInv'
<1> DEFINE r == request[t]
           to == IF r.next = None THEN "/" ELSE r.next
<1>0. r.post /\ to \in Path
  BY Asked DEF Login, Path, Guarded
<1>1. PICK u \in User, s \in FreshSession, k \in FreshCsrf :
        /\ owner' = [owner EXCEPT ![s] = u]
        /\ Respond(t, RedirectTo(to, None, StartSession(s, k)), FALSE)
  BY DEF Login
<1>2. StartSession(s, k).session = s /\ StartSession(s, k).flash # None
  BY Nothings DEF StartSession, Unset
<1> HIDE DEF to
<1> QED  BY <1>0, <1>1, <1>2, OpeningFollows

LEMMA RegisterFollows == ASSUME IInv, TInv, NEW t \in Tab, Register(t, request[t]) PROVE TInv'
<1> DEFINE r == request[t]
<1>0. r.post /\ "/" \in Path
  BY DEF Register, Path, Guarded
<1>1. PICK u \in User, s \in FreshSession, k \in FreshCsrf, f \in FreshFlash :
        /\ owner' = [owner EXCEPT ![s] = u]
        /\ Respond(t, RedirectTo("/", None, [StartSession(s, k) EXCEPT !.flash = f]), FALSE)
  BY DEF Register
<1>2. /\ [StartSession(s, k) EXCEPT !.flash = f].session = s
      /\ [StartSession(s, k) EXCEPT !.flash = f].flash # None
  BY Nothings DEF StartSession, Unset, FreshFlash
<1> QED  BY <1>0, <1>1, <1>2, OpeningFollows

\* Signing out leads to the form to sign in.
LEMMA SignedOutFollows ==
    ASSUME IInv, TInv, NEW t \in Tab, request[t].post, NEW f \in FreshFlash,
           NEW failed \in BOOLEAN, Respond(t, SignedOut(f), failed)
    PROVE  TInv'
<1> DEFINE set == [ClearCookies EXCEPT !.flash = f]
<1>1. set.session = None /\ set.flash # None
  BY Nothings DEF ClearCookies, Unset, FreshFlash
<1>2. Who(owner', Stays(request[t].sent.session, set.session)) = None
  BY <1>1, Nothings DEF Who, Stays
<1>3. Reaches("/login", None) /\ Sends(request[t], "/login") /\ "/login" # None
  BY DEF Reaches, Sends, None, Guarded
<1>4. request[t] # NoRequest
  BY Asked
<1>5. Respond(t, RedirectTo("/login", None, set), failed)
  BY DEF SignedOut
<1> HIDE DEF set
<1> QED  BY <1>1, <1>2, <1>3, <1>4, <1>5, RedirectFollows

LEMMA LogoutFollows ==
    ASSUME IInv, TInv, NEW t \in Tab, NEW failed \in BOOLEAN, Logout(t, request[t], failed)
    PROVE  TInv'
BY SignedOutFollows DEF Logout

LEMMA ChangePasswordFollows ==
    ASSUME IInv, TInv, NEW t \in Tab, NEW failed \in BOOLEAN, ChangePassword(t, request[t], failed)
    PROVE  TInv'
<1>1. request[t].post
  BY DEF ChangePassword, NeedsUser, Guarded
<1> QED  BY <1>1, SignedOutFollows DEF ChangePassword

\* The error page of an action that needs a user.
LEMMA FailureFollows ==
    ASSUME IInv, TInv, NEW t \in Tab, request[t].post, NeedsUser(request[t]),
           Caller(request[t]) # None, UNCHANGED owner,
           Respond(t, RenderPage(request[t], PageOf("error", Caller(request[t]), request[t].token),
                                 Unset), TRUE)
    PROVE  TInv'
<1>1. request[t].token \in Csrf /\ request[t].token = Stays(request[t].sent.csrf, Unset.csrf)
  BY CallerIs, Empty DEF NeedsUser, Checked, Stays
<1>2. Unset \in SetCookie /\ Unset.session = Keep /\ Unset.flash = Keep
  BY EmptyTypes, Empty
<1>3. request[t] # NoRequest
  BY Asked
<1> QED  BY <1>1, <1>2, <1>3, UserPageFollows

LEMMA LogoutEverywhereFollows ==
    ASSUME IInv, TInv, NEW t \in Tab, NEW failed \in BOOLEAN, LogoutEverywhere(t, request[t], failed)
    PROVE  TInv'
<1>1. request[t].post
  BY DEF LogoutEverywhere, NeedsUser, Guarded
<1>2. CASE failed
  BY <1>1, <1>2, FailureFollows DEF LogoutEverywhere
<1>3. CASE ~failed
  BY <1>1, <1>3, SignedOutFollows DEF LogoutEverywhere
<1> QED  BY <1>2, <1>3

LEMMA ServeActionFollows ==
    ASSUME IInv, TInv, NEW t \in Tab, NEW failed \in BOOLEAN, ServeAction(t, request[t], failed)
    PROVE  TInv'
<1> DEFINE r == request[t]
<1>0. r.post /\ NeedsUser(r) /\ Caller(r) # None /\ UNCHANGED owner /\ r # NoRequest
  BY Asked DEF ServeAction
<1>1. CASE failed
  BY <1>0, <1>1, FailureFollows DEF ServeAction
<1>2. CASE ~failed
  <2>1. PICK l \in Landings(r.path) : \E f \in IF l[2] THEN FreshFlash ELSE {Keep} :
          Respond(t, RedirectTo(l[1], None, [Unset EXCEPT !.flash = f]), FALSE)
    BY <1>2 DEF ServeAction
  <2>2. PICK f \in Flash \cup {Keep} :
          Respond(t, RedirectTo(l[1], None, [Unset EXCEPT !.flash = f]), FALSE)
    BY <2>1, FreshFlashIs
  <2>3. [Unset EXCEPT !.flash = f].flash # None /\ [Unset EXCEPT !.flash = f].session = Keep
    BY Nothings DEF Unset
  <2>4. l[1] # None /\ Reaches(l[1], Caller(r)) /\ Sends(r, l[1])
    <3>1. l[1] \in Guarded
      BY LandingsAreGuarded
    <3> QED  BY <1>0, <3>1, Nothings DEF Reaches, Sends, Guarded, Path
  <2> QED  BY <1>0, <2>2, <2>3, <2>4, StayingFollows
<1> QED  BY <1>1, <1>2

---------------------------------------------------------------------------
LEMMA NextKeepsTInv == IInv /\ IInv' /\ TInv /\ [Next]_vars => TInv'
<1> SUFFICES ASSUME IInv, IInv', TInv, [Next]_vars PROVE TInv'
  OBVIOUS
<1>1. CASE UNCHANGED vars
  <2> SUFFICES ASSUME NEW o \in Tab PROVE Follows(o)'
    BY DEF TInv
  <2> QED  BY <1>1, ElsewhereFollows DEF vars, TInv
<1>2. ASSUME NEW t \in Tab, NEW o \in Opened, Open(t, o[1], o[2]) PROVE TInv'
  BY <1>2, OpenFollows
<1>3. ASSUME NEW t \in Tab, NEW f \in Sent, Submit(t, f) PROVE TInv'
  BY <1>3, SubmitFollows
<1>4. ASSUME NEW t \in Tab, Serve(t) PROVE TInv'
  BY <1>4, ServeFormFollows, ServeStrangerFollows, ServePageFollows, ServeRefusalFollows,
     LogoutFollows, LogoutEverywhereFollows, ChangePasswordFollows, ServeActionFollows,
     NotFoundFollows, ServeForgedFollows, LoginFollows, RegisterFollows DEF Serve
<1>5. ASSUME NEW t \in Tab, Receive(t) \/ Lose(t) PROVE TInv'
  BY <1>5, ReceiveFollows, LoseFollows
<1>6. ASSUME NEW gone \in SUBSET Crumb, CookiesExpire(gone) PROVE TInv'
  BY <1>6, CookiesExpireFollows
<1>7. ASSUME NEW s \in Session, SessionEnds(s) PROVE TInv'
  BY <1>7, SessionEndsFollows
<1> QED  BY <1>1, <1>2, <1>3, <1>4, <1>5, <1>6, <1>7 DEF Next

\* In every reachable state every tab is in step with the cookies nobody else disturbed.
THEOREM TabsFollowTheCookies == Spec => []TInv
<1> QED  BY InitTInv, NextKeepsTInv, BrowserInvariant, PTL DEF Spec

\* A form the CSRF check refuses was made so by something else than its own tab: every
\* page that has one leaves its token in the cookie (auth.IssueCSRF, startSession).
THEOREM FormsPassUndisturbed == Spec => []UndisturbedFormsPass
<1>1. TInv => UndisturbedFormsPass
  BY DEF TInv, Follows, CsrfFollows, UndisturbedFormsPass
<1> QED  BY <1>1, TabsFollowTheCookies, PTL

\* The message of an action is on the page it led to, however many redirects lie
\* between them, unless another tab took it (setFlash, takeFlash).
THEOREM QueuedMessagesArrive == Spec => []MessagesArrive
<1>1. TInv => MessagesArrive
  BY DEF TInv, Follows, FlashFollows, MessagesArrive
<1> QED  BY <1>1, TabsFollowTheCookies, PTL

\* A page for a user has that user's session behind its buttons, and a form that asks
\* to sign in is shown to nobody who is (auth.Optional, render, LoginForm).
THEOREM ShellsAreTruthful == Spec => []ShellIsTruthful
<1>1. TInv => ShellIsTruthful
  BY DEF TInv, Follows, SessionFollows, ShellIsTruthful, Truthful, Who, UserOf
<1> QED  BY <1>1, TabsFollowTheCookies, PTL

\* Signing in and being sent to sign in never chase each other, whatever page a link
\* names as next: a second redirect in a row leads home and no third follows, unless
\* the session changed meanwhile (redirectToLogin, Login, LoginForm, RegisterForm).
THEOREM RedirectsEnd == Spec => []RedirectsSettle
<1>1. TInv /\ IInv => RedirectsSettle
  <2> SUFFICES ASSUME TInv, IInv, NEW t \in Tab,
                      "session" \notin disturbed[t], hops[t] >= 2
               PROVE  hops[t] = 2 /\ request[t].path \in {None, "/"} /\ response[t].to = None
    BY DEF RedirectsSettle
  <2>1. SessionFollows(t) /\ hops[t] \in 0..3
    BY DEF TInv, Follows, IInv, TypeOK
  <2>2. hops[t] = 2 /\ response[t].to = None
    BY <2>1 DEF SessionFollows
  <2>3. request[t] # NoRequest => request[t].path = "/"
    BY <2>1, <2>2 DEF SessionFollows
  <2>4. NoRequest.path = None
    BY DEF NoRequest
  <2> QED  BY <2>2, <2>3, <2>4
<1> QED  BY <1>1, TabsFollowTheCookies, BrowserInvariant, PTL

=============================================================================
