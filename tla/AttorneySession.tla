-------------------------- MODULE AttorneySession --------------------------
(***************************************************************************)
(* Signing in and out, and the visits and calls of a tab meanwhile:        *)
(*   apps/api/app/auth/*, core/security.py  login, logout, tokens          *)
(*   apps/web/src/proxy.ts                  looks for a cookie             *)
(*   apps/web/src/lib/api/server.ts         sends a 401 page read to login *)
(*   apps/web/src/lib/api/browser.ts        and a 401 call of a script     *)
(*   apps/web/src/components/Login*, Logout*                               *)
(*                                                                         *)
(* The proxy asks whether there is a cookie, the API whether its token is  *)
(* good, the layout and the page each on a read of their own.  A link      *)
(* inside the dashboard keeps the layout, with the name in its header; a   *)
(* document and a refresh render it anew.                                  *)
(*                                                                         *)
(* The tabs of a browser share nothing but the cookie: one tab is modelled *)
(* in full, the others by what they do to the cookie.  The tab has one     *)
(* call at a time, and the person waits for a page they have asked for.    *)
(***************************************************************************)
EXTENDS Naturals, Sequences

CONSTANTS
    Users,
    Paths,             \* pages under /leads
    Home,              \* /leads itself
    NoPath,            \* /login without ?next=
    MaxTokens          \* bound: sign-ins that succeed

ASSUME HomeAssumption == Home \in Paths
ASSUME SentinelAssumption == NoPath \notin Paths
ASSUME AttorneySessionBounds == MaxTokens \in Nat

VARIABLES
    accounts,          \* rows of User
    tokens,            \* issued: for whom, and which tab was told
    expired,           \* tokens past their exp
    cookie,            \* the browser's session cookie
    place, path,       \* what the tab shows; for a login page its ?next=
    again,             \* ?next= leads to the login page, and from there to path
    badge,             \* the token that the header's name was read with
    visit,             \* the page request under way
    call,              \* the script's request under way
    wanted,            \* history: the page the person asked for last
    overtaken,         \* history: where a script led instead, if it replaced
                       \* the request for that page
    out                \* history: how the last "Sign out" took the tab to /login

server == <<accounts, tokens, expired>>
shown == <<place, path, again, badge>>
asked == <<wanted, overtaken>>
vars == <<server, cookie, shown, visit, call, asked, out>>

----------------------------------------------------------------------------
NoToken == 0
TokenIds == 0 .. Len(tokens)
NoVisit == [kind |-> "none", to |-> Home, token |-> NoToken, reads |-> {}]
NoCall == [kind |-> "none"]

Places == {"blank", "login", "dashboard", "error"}
VisitKinds == {"none", "document", "link", "refresh"}
Reads == {"proxy", "layout", "page"}
Told == {"here", "elsewhere", "nobody"}

CallType ==
    {NoCall, [kind |-> "logout"]}
        \cup [kind : {"login"}, user : Users]
        \cup [kind : {"issued"}, token : TokenIds]
        \cup [kind : {"patch"}, token : TokenIds, badge : TokenIds]

TypeOK ==
    /\ accounts \subseteq Users
    /\ tokens \in Seq([user : Users, told : Told])
    /\ Len(tokens) <= MaxTokens
    /\ expired \subseteq TokenIds \ {NoToken}
    /\ cookie \in TokenIds
    /\ place \in Places
    /\ path \in Paths \cup {NoPath}
    /\ again \in BOOLEAN
    /\ badge \in TokenIds
    /\ visit \in [kind : VisitKinds, to : Paths, token : TokenIds, reads : SUBSET Reads]
    /\ call \in CallType
    /\ wanted \in Paths
    /\ overtaken \in Paths \cup {NoPath}
    /\ out \in {"no", "done", "refused"}

Init ==
    /\ accounts = Users /\ tokens = <<>> /\ expired = {} /\ cookie = NoToken
    /\ place = "blank" /\ path = NoPath
    /\ again = FALSE /\ badge = NoToken
    /\ visit = NoVisit /\ call = NoCall
    /\ wanted = Home /\ overtaken = NoPath /\ out = "no"

----------------------------------------------------------------------------
(* The API *)

\* get_current_attorney: a token that decodes, of a user who still exists.
Valid(token) ==
    /\ token # NoToken
    /\ token \notin expired
    /\ tokens[token].user \in accounts

\* Mutant of SafeNext: no fallback.
SafeNext_NoFallback(next) == next

\* safeNextPath, of what the site itself writes into ?next=.
SafeNext(next) == IF next = NoPath THEN Home ELSE next

----------------------------------------------------------------------------
(* Pages come and go *)

\* A page is asked for with the cookie of that moment.
Visit(kind, to, token) ==
    [kind |-> kind, to |-> to, token |-> token, reads |-> {"proxy"}]

\* A new document ends the scripts of the old one.
EndScripts ==
    call' = IF visit.kind = "document" THEN NoCall ELSE call

\* Mutant of LoginPage: who has a cookie is sent on.
LoginPage_SendsOn(next) ==
    /\ place' = "login"
    /\ path' = next
    /\ again' = FALSE
    /\ visit' = IF cookie = NoToken THEN NoVisit
               ELSE Visit("document", SafeNext(next), cookie)
    /\ UNCHANGED badge

\* The login page, which needs no session and asks the API for nothing.
LoginPage(next) ==
    /\ place' = "login"
    /\ path' = next
    /\ again' = FALSE
    /\ visit' = NoVisit
    /\ UNCHANGED badge

\* The person asks for a page, and nothing has come between.
Asks(to) ==
    /\ wanted' = to
    /\ overtaken' = NoPath

\* A script that navigates replaces a page request that is under way: the
\* person goes where the script leads, which may not be the page asked for.
TakesOver(to) ==
    /\ overtaken' = CASE visit = NoVisit -> overtaken
                      [] visit # NoVisit /\ to = wanted -> NoPath
                      [] OTHER -> to
    /\ UNCHANGED wanted

\* The address bar, a bookmark, the link in a notification mail.
Go(to) ==
    /\ visit = NoVisit
    /\ visit' = Visit("document", to, cookie)
    /\ Asks(to)
    /\ UNCHANGED <<server, cookie, shown, call, out>>

\* The same, to /login.
GoLogin ==
    /\ visit = NoVisit
    /\ LoginPage(NoPath)
    /\ call' = NoCall
    /\ Asks(Home)
    /\ out' = "no"
    /\ UNCHANGED <<server, cookie>>

\* A link inside the dashboard.
Follow(to) ==
    /\ visit = NoVisit
    /\ place = "dashboard"
    /\ visit' = Visit("link", to, cookie)
    /\ Asks(to)
    /\ UNCHANGED <<server, cookie, shown, call, out>>

\* proxy.ts lets a request with a cookie pass.
Proxy ==
    /\ visit.reads = {"proxy"}
    /\ visit.token # NoToken
    /\ visit' = [visit EXCEPT !.reads =
                    IF visit.kind = "link" THEN {"page"} ELSE {"layout", "page"}]
    /\ UNCHANGED <<server, cookie, shown, call, asked, out>>

ToLogin(next) ==
    /\ LoginPage(next)
    /\ EndScripts
    /\ out' = "no"
    /\ UNCHANGED <<server, cookie, asked>>

\* proxy.ts sends the others to the login page.
ProxyRedirect ==
    /\ visit.reads = {"proxy"}
    /\ visit.token = NoToken
    /\ ToLogin(visit.to)

\* GET /auth/me of the layout, or the page's own read, succeeds; after the
\* last one the page is shown.
ReadOk(part) ==
    /\ part \in visit.reads \ {"proxy"}
    /\ Valid(visit.token)
    /\ IF visit.reads = {part}
         THEN /\ place' = "dashboard"
              /\ path' = visit.to
              /\ again' = FALSE
              /\ badge' = IF visit.kind = "link" THEN badge ELSE visit.token
              /\ visit' = NoVisit
              /\ EndScripts
              /\ out' = "no"
         ELSE /\ visit' = [visit EXCEPT !.reads = @ \ {part}]
              /\ UNCHANGED <<shown, call, out>>
    /\ UNCHANGED <<server, cookie, asked>>

\* Mutant of Back: the proxy does not tell the layout where it is.
Back_NoHeader(v, part) == IF part = "layout" THEN Home ELSE v.to

\* Where a read that is unauthorized wants to return to: the layout knows by
\* x-pathname, the page by its own parameters.
Back(v, part) == v.to

\* unwrap: 401.
ReadUnauthorized(part) ==
    /\ part \in visit.reads \ {"proxy"}
    /\ ~Valid(visit.token)
    /\ ToLogin(Back(visit, part))

\* unwrap: any other error throws.
ReadFault ==
    /\ visit.reads \ {"proxy"} # {}
    /\ place' = "error"
    /\ path' = visit.to
    /\ again' = FALSE
    /\ visit' = NoVisit
    /\ EndScripts
    /\ out' = "no"
    /\ UNCHANGED <<server, cookie, badge, asked>>

----------------------------------------------------------------------------
(* LoginForm *)

\* onSubmit; the button is disabled while a sign-in is under way.
Submit(u) ==
    /\ place = "login"
    /\ call = NoCall
    /\ Len(tokens) < MaxTokens
    /\ call' = [kind |-> "login", user |-> u]
    /\ out' = "no"
    /\ UNCHANGED <<server, cookie, shown, visit, asked>>

\* login: the credentials are right.
Authenticate ==
    /\ call.kind = "login"
    /\ call.user \in accounts
    /\ Len(tokens) < MaxTokens
    /\ tokens' = Append(tokens, [user |-> call.user, told |-> "here"])
    /\ call' = [kind |-> "issued", token |-> Len(tokens) + 1]
    /\ UNCHANGED <<accounts, expired, cookie, shown, visit, asked, out>>

\* login: they are not, or the rate limiter, the database or the network
\* refuses the request.  The form shows an error.
Reject ==
    /\ call.kind = "login"
    /\ call' = NoCall
    /\ UNCHANGED <<server, cookie, shown, visit, asked, out>>

\* Mutant of SignedIn: router.push instead of window.location.assign.
SignedIn_SoftNavigation ==
    /\ call.kind = "issued"
    /\ cookie' = call.token
    /\ call' = NoCall
    /\ visit' = Visit("link", SafeNext(path), cookie')
    /\ TakesOver(SafeNext(path))
    /\ UNCHANGED <<server, shown, out>>

\* The answer sets the cookie, and the form navigates to ?next=.
SignedIn ==
    /\ call.kind = "issued"
    /\ cookie' = call.token
    /\ call' = NoCall
    /\ IF again
         THEN LoginPage(path)
         ELSE /\ visit' = Visit("document", SafeNext(path), cookie')
              /\ UNCHANGED shown
    /\ TakesOver(SafeNext(path))
    /\ UNCHANGED <<server, out>>

\* The answer is lost, with its cookie or after it: the form shows an error.
SignedInLost ==
    /\ call.kind = "issued"
    /\ cookie' \in {cookie, call.token}
    /\ tokens' = [tokens EXCEPT ![call.token].told = "nobody"]
    /\ call' = NoCall
    /\ UNCHANGED <<accounts, expired, shown, visit, asked, out>>

----------------------------------------------------------------------------
(* LogoutButton *)

ClickSignOut ==
    /\ place = "dashboard"
    /\ call = NoCall
    /\ call' = [kind |-> "logout"]
    /\ UNCHANGED <<server, cookie, shown, visit, asked, out>>

\* window.location.assign("/login"), whatever the answer was; a page asked
\* for since the click is overtaken.
LeaveForLogin(how) ==
    /\ call.kind = "logout"
    /\ LoginPage(NoPath)
    /\ call' = NoCall
    /\ IF visit = NoVisit THEN Asks(Home) ELSE TakesOver(Home)
    /\ out' = how
    /\ UNCHANGED <<server>>

\* Mutant of SignedOut: attributes that differ from those of the cookie.
SignedOut_OtherAttributes == LeaveForLogin("done") /\ UNCHANGED cookie

\* logout: the cookie is cleared, the token stays good.
SignedOut == LeaveForLogin("done") /\ cookie' = NoToken

\* An answer in the 400s or 500s, as when the rewrite does not reach the API.
SignOutRefused == LeaveForLogin("refused") /\ UNCHANGED cookie

\* No answer: the rejected promise is nobody's, and the tab stays as it is.
SignOutLost ==
    /\ call.kind = "logout"
    /\ call' = NoCall
    /\ UNCHANGED <<server, cookie, shown, visit, asked, out>>

----------------------------------------------------------------------------
(* browserApi's other calls: PATCH of a lead stands for them *)

Click ==
    /\ place = "dashboard"
    /\ call = NoCall
    /\ call' = [kind |-> "patch", token |-> cookie, badge |-> badge]
    /\ UNCHANGED <<server, cookie, shown, visit, asked, out>>

\* router.refresh(): the page and the layout are rendered anew, after a
\* visit that is under way.
Refresh ==
    IF place = "dashboard"
      THEN /\ visit = NoVisit
           /\ visit' = Visit("refresh", path, cookie)
      ELSE UNCHANGED visit

\* The API acts for the token's user.
Accepted ==
    /\ call.kind = "patch"
    /\ Valid(call.token)
    /\ call' = NoCall
    /\ Refresh
    /\ UNCHANGED <<server, cookie, shown, asked, out>>

\* redirectOn401: to the login page, and back to where the tab is now, be it
\* a login page that a link's read has led to in the meantime.
Unauthorized ==
    /\ call.kind = "patch"
    /\ ~Valid(call.token)
    /\ call' = NoCall
    /\ place' = "login"
    /\ again' = (place = "login")
    /\ visit' = NoVisit
    /\ TakesOver(SafeNext(path))
    /\ UNCHANGED <<server, cookie, path, badge, out>>

\* Any other answer: 404, 409, 422 or a 500.
Refused ==
    /\ call.kind = "patch"
    /\ call' = NoCall
    /\ Refresh
    /\ UNCHANGED <<server, cookie, shown, asked, out>>

\* No answer: the catch block, which refreshes nothing.
Unanswered ==
    /\ call.kind = "patch"
    /\ call' = NoCall
    /\ UNCHANGED <<server, cookie, shown, visit, asked, out>>

----------------------------------------------------------------------------
(* Other tabs, time, and the database by hand *)

\* Another tab's sign-in is answered.
SignInElsewhere(u) ==
    /\ u \in accounts
    /\ Len(tokens) < MaxTokens
    /\ tokens' = Append(tokens, [user |-> u, told |-> "elsewhere"])
    /\ cookie' = Len(tokens')
    /\ UNCHANGED <<accounts, expired, shown, visit, call, asked, out>>

Expire(token) ==
    /\ token \in 1 .. Len(tokens) \ expired
    /\ expired' = expired \cup {token}
    /\ UNCHANGED <<accounts, tokens, cookie, shown, visit, call, asked, out>>

\* The cookie's Max-Age passes by the browser's clock, or another tab signs out.
DropCookie ==
    /\ cookie # NoToken
    /\ cookie' = NoToken
    /\ UNCHANGED <<server, shown, visit, call, asked, out>>

DeleteUser(u) ==
    /\ u \in accounts
    /\ accounts' = accounts \ {u}
    /\ UNCHANGED <<tokens, expired, cookie, shown, visit, call, asked, out>>

----------------------------------------------------------------------------
Serve ==
    \/ Proxy \/ ProxyRedirect
    \/ \E part \in Reads : ReadOk(part) \/ ReadUnauthorized(part)
    \/ ReadFault

Script ==
    \/ Authenticate \/ Reject \/ SignedIn \/ SignedInLost
    \/ SignedOut \/ SignOutRefused \/ SignOutLost
    \/ Accepted \/ Unauthorized \/ Refused \/ Unanswered

Person ==
    \/ \E to \in Paths : Go(to) \/ Follow(to)
    \/ \E u \in Users : Submit(u)
    \/ GoLogin \/ ClickSignOut \/ Click

Next ==
    \/ Serve \/ Script \/ Person
    \/ \E token \in 1 .. MaxTokens : Expire(token)
    \/ DropCookie
    \/ \E u \in Users : SignInElsewhere(u) \/ DeleteUser(u)

\* Page requests are served, and redirects followed.
Fairness == WF_vars(Serve)

Spec == Init /\ [][Next]_vars /\ Fairness

----------------------------------------------------------------------------
(* Properties *)

\* A change is made in another name than the header shows only if another
\* tab has signed in since (or a sign-in whose answer was lost): a tab that
\* signed in itself shows whom it acts for (LoginForm.tsx:25, layout.tsx:13,
\* leads/service.py:90).
MisattributionExplained ==
    (call.kind = "patch" /\ NoToken \notin {call.token, call.badge}) =>
        LET acts == tokens[call.token]
        IN acts.user # tokens[call.badge].user => acts.told # "here"

\* After a "Sign out" that was answered with success, a cookie in the browser
\* is from a sign-in in another tab, or one whose answer was lost
\* (LogoutButton.tsx:11, security.py:61).
SignedOutExplained ==
    (out = "done" /\ cookie # NoToken) => tokens[cookie].told # "here"

\* The page that is shown is the one asked for last, also after a detour over
\* the login page from the proxy, the layout, the page or a script; only if
\* a script's navigation overtook the request for it (a 401, a sign-in, a
\* sign-out) is it the page that the script led to (proxy.ts:11-15,
\* server.ts:26, browser.ts:12, LoginForm.tsx:26).
ShownIsWanted ==
    (place = "dashboard" /\ visit = NoVisit) =>
        path = IF overtaken = NoPath THEN wanted ELSE overtaken

\* A visit ends, at a page, at the login page or at an error: a cookie that
\* the proxy accepts and the API does not leads to no circle of redirects.
VisitSettles == (visit # NoVisit) ~> (visit = NoVisit)

=============================================================================
