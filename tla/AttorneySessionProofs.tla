----------------------- MODULE AttorneySessionProofs -----------------------
(***************************************************************************)
(* Proofs about AttorneySession, for any users, pages and sign-ins.        *)
(***************************************************************************)
EXTENDS AttorneySession, SequenceTheorems, TLAPS

----------------------------------------------------------------------------
(* The inductive invariant *)

\* A token whose sign-in this tab was told of.
Own(token) == token # NoToken /\ tokens[token].told = "here"

\* Where a request may be, and the tokens that requests carry.
Requests ==
    /\ visit.kind = "none" => visit = NoVisit
    /\ visit.kind \in {"link", "refresh"} => place = "dashboard"
    /\ call.kind \in {"login", "issued"} => place = "login" /\ out = "no"
    /\ call.kind = "issued" => call.token # NoToken
    /\ place = "dashboard" => path \in Paths

\* As long as the cookie is of the tab's own sign-in, the header and every
\* visit under way are of that sign-in too; and so was the header at a click.
OwnIsShown ==
    /\ Own(cookie) => /\ place = "dashboard" => badge = cookie
                      /\ visit # NoVisit => visit.token = cookie
    /\ call.kind = "patch" /\ Own(call.token) => call.badge = call.token

\* Where the person's last wish and the scripts since have led the tab.
Aim == IF overtaken = NoPath THEN wanted ELSE overtaken

\* The place that the tab is at or goes to.
OnTheWay ==
    /\ visit # NoVisit => visit.to = Aim
    /\ visit = NoVisit => SafeNext(path) = Aim

IInv == TypeOK /\ Requests /\ OwnIsShown /\ SignedOutExplained /\ OnTheWay

----------------------------------------------------------------------------
(* Type correctness *)

\* What a tab and a browser start with.
LEMMA Constants ==
    /\ NoVisit \in [kind : VisitKinds, to : Paths, token : TokenIds, reads : SUBSET Reads]
    /\ NoCall \in CallType
    /\ NoToken \in TokenIds
<1>1. NoToken \in TokenIds
    BY DEF NoToken, TokenIds
<1>. QED
    BY <1>1, HomeAssumption DEF NoVisit, NoCall, CallType, VisitKinds
\* Initially every variable has its type.
LEMMA InitTypeOK == Init => TypeOK
<1>. SUFFICES ASSUME Init PROVE TypeOK
    OBVIOUS
<1>1. tokens \in Seq([user : Users, told : Told]) /\ Len(tokens) <= MaxTokens
    BY AttorneySessionBounds DEF Init
<1>. QED
    BY <1>1, Constants, HomeAssumption DEF Init, TypeOK, Places
\* A request for a page, and the place that /login?next= leads to.
LEMMA VisitType ==
    ASSUME NEW kind \in VisitKinds, NEW to \in Paths, NEW token \in TokenIds
    PROVE  Visit(kind, to, token) \in
               [kind : VisitKinds, to : Paths, token : TokenIds, reads : SUBSET Reads]
BY DEF Visit, Reads

\* What safeNext returns is a path of the site.
LEMMA SafeNextType == \A next \in Paths \cup {NoPath} : SafeNext(next) \in Paths
BY HomeAssumption DEF SafeNext

\* What a call carries.
LEMMA CallFields ==
    ASSUME call \in CallType
    PROVE  /\ call.kind = "login" => call.user \in Users
           /\ call.kind = "issued" => call.token \in TokenIds
           /\ call.kind = "patch" => call.token \in TokenIds /\ call.badge \in TokenIds
<1>1. CASE call \in {NoCall, [kind |-> "logout"]}
    BY <1>1 DEF NoCall
<1>2. CASE call \in [kind : {"login"}, user : Users]
    BY <1>2
<1>3. CASE call \in [kind : {"issued"}, token : TokenIds]
    BY <1>3
<1>4. CASE call \in [kind : {"patch"}, token : TokenIds, badge : TokenIds]
    BY <1>4
<1>. QED
    BY <1>1, <1>2, <1>3, <1>4 DEF CallType

\* A longer list of tokens leaves calls and requests their types.
LEMMA MoreTokens ==
    ASSUME TypeOK, Len(tokens') = Len(tokens) + 1
    PROVE  /\ TokenIds \subseteq TokenIds' /\ Len(tokens') \in TokenIds'
           /\ CallType \subseteq CallType'
           /\ visit \in [kind : VisitKinds, to : Paths, token : TokenIds', reads : SUBSET Reads]
<1>1. Len(tokens) \in Nat
    BY DEF TypeOK
<1>2. TokenIds \subseteq TokenIds' /\ Len(tokens') \in TokenIds'
    BY <1>1 DEF TokenIds
<1>3. CallType \subseteq CallType'
    BY <1>2 DEF CallType
<1>4. visit \in [kind : VisitKinds, to : Paths, token : TokenIds', reads : SUBSET Reads]
    BY <1>2 DEF TypeOK
<1>. QED
    BY <1>2, <1>3, <1>4

\* Calls and requests keep their types while no token is issued.
LEMMA SameTokens ==
    ASSUME tokens' = tokens
    PROVE  TokenIds' = TokenIds /\ CallType' = CallType
BY DEF TokenIds, CallType

\* Issuing a token, and losing the answer that says so, keeps the list one.
LEMMA TokensType ==
    ASSUME TypeOK
    PROVE  /\ \A u \in Users, who \in Told :
                  LET more == Append(tokens, [user |-> u, told |-> who])
                  IN /\ more \in Seq([user : Users, told : Told])
                     /\ Len(more) = Len(tokens) + 1
           /\ \A i \in TokenIds \ {NoToken} :
                  LET lost == [tokens EXCEPT ![i].told = "nobody"]
                  IN /\ lost \in Seq([user : Users, told : Told])
                     /\ Len(lost) = Len(tokens)
<1>1. Len(tokens) \in Nat /\ tokens \in Seq([user : Users, told : Told])
    BY DEF TypeOK
<1>2. ASSUME NEW u \in Users, NEW who \in Told
      PROVE  LET more == Append(tokens, [user |-> u, told |-> who])
             IN /\ more \in Seq([user : Users, told : Told])
                /\ Len(more) = Len(tokens) + 1
    BY <1>1
<1>3. ASSUME NEW i \in TokenIds \ {NoToken}
      PROVE  LET lost == [tokens EXCEPT ![i].told = "nobody"]
             IN /\ lost \in Seq([user : Users, told : Told])
                /\ Len(lost) = Len(tokens)
    <2>. DEFINE lost == [tokens EXCEPT ![i].told = "nobody"]
    <2>0. i \in 1 .. Len(tokens)
        BY <1>1 DEF TokenIds, NoToken
    <2>1. tokens[i] \in [user : Users, told : Told]
        BY <1>1, <2>0, ElementOfSeq
    <2>2. [tokens[i] EXCEPT !.told = "nobody"] \in [user : Users, told : Told]
        BY <2>1 DEF Told
    <2>3. lost = [tokens EXCEPT ![i] = [tokens[i] EXCEPT !.told = "nobody"]]
        OBVIOUS
    <2>. QED
        BY <1>1, <2>0, <2>2, <2>3
<1>. QED
    BY <1>2, <1>3

\* The person's steps keep the types.
LEMMA PersonType == ASSUME TypeOK, Person PROVE TypeOK'
<1>. USE Constants, SameTokens, VisitType, HomeAssumption DEF TypeOK, server, shown, asked
<1>1. ASSUME NEW to \in Paths, Go(to) PROVE TypeOK'
    BY <1>1 DEF Go, Asks, VisitKinds
<1>2. ASSUME NEW to \in Paths, Follow(to) PROVE TypeOK'
    BY <1>2 DEF Follow, Asks, VisitKinds
<1>3. ASSUME NEW u \in Users, Submit(u) PROVE TypeOK'
    BY <1>3 DEF Submit, CallType
<1>4. CASE GoLogin
    BY <1>4 DEF GoLogin, Asks, LoginPage, Places
<1>5. CASE ClickSignOut
    BY <1>5 DEF ClickSignOut, CallType
<1>6. CASE Click
    BY <1>6 DEF Click, CallType
<1>. QED
    BY <1>1, <1>2, <1>3, <1>4, <1>5, <1>6 DEF Person

\* The steps of a page request keep the types.
LEMMA ServeType == ASSUME TypeOK, Serve PROVE TypeOK'
<1>. USE Constants, SameTokens DEF TypeOK, server, shown, asked, Places
<1>1. CASE Proxy
    BY <1>1 DEF Proxy, Reads
<1>2. ASSUME NEW next \in Paths, ToLogin(next) PROVE TypeOK'
    BY <1>2 DEF ToLogin, LoginPage, EndScripts
<1>3. CASE ProxyRedirect
    BY <1>2, <1>3 DEF ProxyRedirect
<1>4. ASSUME NEW part \in Reads, ReadUnauthorized(part) PROVE TypeOK'
    BY <1>2, <1>4 DEF ReadUnauthorized, Back
<1>5. ASSUME NEW part \in Reads, ReadOk(part) PROVE TypeOK'
    <2>1. CASE visit.reads = {part}
        BY <1>5, <2>1 DEF ReadOk, EndScripts
    <2>2. CASE visit.reads # {part}
        BY <1>5, <2>2 DEF ReadOk
    <2>. QED
        BY <2>1, <2>2
<1>6. CASE ReadFault
    BY <1>6 DEF ReadFault, EndScripts
<1>. QED
    BY <1>1, <1>3, <1>4, <1>5, <1>6 DEF Serve

\* The steps of a script keep the types.
LEMMA ScriptType == ASSUME TypeOK, Requests, Script PROVE TypeOK'
<1>. USE Constants, SameTokens, VisitType, SafeNextType DEF TypeOK, server, shown, asked, Places
<1>1. CASE Authenticate
    <2>. DEFINE u == call.user
    <2>1. u \in Users
        BY <1>1 DEF Authenticate
    <2>2. /\ tokens' \in Seq([user : Users, told : Told])
          /\ Len(tokens') = Len(tokens) + 1
        BY <1>1, <2>1, TokensType DEF Authenticate, Told
    <2>3. call' \in CallType'
        BY <1>1, <2>2, MoreTokens DEF Authenticate, CallType
    <2>. QED
        BY <1>1, <2>2, <2>3, MoreTokens, AttorneySessionBounds DEF Authenticate
<1>2. CASE Reject \/ Unanswered \/ SignOutLost
    BY <1>2 DEF Reject, Unanswered, SignOutLost
<1>3. CASE SignedIn
    <2>1. cookie' \in TokenIds
        BY <1>3, CallFields DEF SignedIn
    <2>2. wanted' \in Paths /\ overtaken' \in Paths \cup {NoPath}
        BY <1>3 DEF SignedIn, TakesOver
    <2>3. visit' \in [kind : VisitKinds, to : Paths, token : TokenIds, reads : SUBSET Reads]
        BY <1>3, <2>1 DEF SignedIn, LoginPage, VisitKinds
    <2>4. /\ place' \in Places /\ path' \in Paths \cup {NoPath}
          /\ again' \in BOOLEAN /\ badge' = badge
        BY <1>3 DEF SignedIn, LoginPage
    <2>. QED
        BY <1>3, <2>1, <2>2, <2>3, <2>4 DEF SignedIn
<1>4. CASE SignedInLost
    <2>1. call.token \in TokenIds \ {NoToken}
        BY <1>4, CallFields DEF SignedInLost, Requests
    <2>2. /\ tokens' \in Seq([user : Users, told : Told])
          /\ Len(tokens') = Len(tokens)
        BY <1>4, <2>1, TokensType DEF SignedInLost
    <2>3. TokenIds' = TokenIds /\ CallType' = CallType
        BY <2>2 DEF TokenIds, CallType
    <2>4. cookie' \in TokenIds'
        BY <1>4, <2>1, <2>3 DEF SignedInLost
    <2>. QED
        BY <1>4, <2>2, <2>3, <2>4 DEF SignedInLost
<1>5. CASE SignedOut \/ SignOutRefused
    <2>1. wanted' \in Paths /\ overtaken' \in Paths \cup {NoPath}
        BY <1>5, HomeAssumption
        DEF SignedOut, SignOutRefused, LeaveForLogin, Asks, TakesOver
    <2>. QED
        BY <1>5, <2>1 DEF SignedOut, SignOutRefused, LeaveForLogin, LoginPage
<1>6. CASE Accepted \/ Refused
    <2>1. place = "dashboard" => path \in Paths
        BY <1>6 DEF Requests
    <2>. QED
        BY <1>6, <2>1 DEF Accepted, Refused, Refresh, VisitKinds
<1>7. CASE Unauthorized
    BY <1>7 DEF Unauthorized, TakesOver
<1>. QED
    BY <1>1, <1>2, <1>3, <1>4, <1>5, <1>6, <1>7 DEF Script

\* What other tabs, time and the database do keeps the types.
LEMMA WorldType ==
    ASSUME TypeOK,
           \/ \E token \in 1 .. MaxTokens : Expire(token)
           \/ DropCookie
           \/ \E u \in Users : SignInElsewhere(u) \/ DeleteUser(u)
           \/ UNCHANGED vars
    PROVE  TypeOK'
<1>. USE Constants, SameTokens DEF TypeOK, server, shown, asked
<1>1. ASSUME NEW token \in 1 .. MaxTokens, Expire(token) PROVE TypeOK'
    BY <1>1 DEF Expire, TokenIds, NoToken
<1>2. CASE DropCookie
    BY <1>2 DEF DropCookie
<1>3. ASSUME NEW u \in Users, SignInElsewhere(u) PROVE TypeOK'
    <2>2. /\ tokens' \in Seq([user : Users, told : Told])
          /\ Len(tokens') = Len(tokens) + 1
        BY <1>3, TokensType DEF SignInElsewhere, Told
    <2>. QED
        BY <1>3, <2>2, MoreTokens, AttorneySessionBounds DEF SignInElsewhere
<1>4. ASSUME NEW u \in Users, DeleteUser(u) PROVE TypeOK'
    BY <1>4 DEF DeleteUser
<1>5. CASE UNCHANGED vars
    BY <1>5 DEF vars
<1>. QED
    BY <1>1, <1>2, <1>3, <1>4, <1>5

----------------------------------------------------------------------------
(* Where requests may be *)

World ==
    \/ \E token \in 1 .. MaxTokens : Expire(token)
    \/ DropCookie
    \/ \E u \in Users : SignInElsewhere(u) \/ DeleteUser(u)
    \/ UNCHANGED vars

\* The person's steps keep requests where they may be.
LEMMA PersonRequests == ASSUME TypeOK, Requests, Person PROVE Requests'
<1>. USE DEF Requests, server, shown, asked, NoVisit, NoCall, Visit
<1>1. ASSUME NEW to \in Paths, Go(to) PROVE Requests'
    BY <1>1 DEF Go
<1>2. ASSUME NEW to \in Paths, Follow(to) PROVE Requests'
    BY <1>2 DEF Follow
<1>3. ASSUME NEW u \in Users, Submit(u) PROVE Requests'
    BY <1>3 DEF Submit
<1>4. CASE GoLogin
    BY <1>4 DEF GoLogin, LoginPage
<1>5. CASE ClickSignOut
    BY <1>5 DEF ClickSignOut
<1>6. CASE Click
    BY <1>6 DEF Click
<1>. QED
    BY <1>1, <1>2, <1>3, <1>4, <1>5, <1>6 DEF Person

\* A page request is a document's, a link's or a refresh, and only the first
\* can meet a script that signs in.
LEMMA PageRequest ==
    ASSUME TypeOK, Requests, visit.reads # {}
    PROVE  /\ visit # NoVisit
           /\ visit.kind \in {"document", "link", "refresh"}
           /\ visit.kind # "document" => call.kind \notin {"login", "issued"}
BY DEF TypeOK, Requests, NoVisit, VisitKinds

\* So do the steps of a page request.
LEMMA ServeRequests == ASSUME TypeOK, Requests, Serve PROVE Requests'
<1>. USE DEF Requests, server, shown, asked, NoCall
<1>1. CASE Proxy
    BY <1>1, PageRequest DEF Proxy, TypeOK, NoVisit
<1>2. ASSUME NEW next, ToLogin(next), visit.reads # {} PROVE Requests'
    BY <1>2, PageRequest DEF ToLogin, LoginPage, EndScripts, NoVisit
<1>3. CASE ProxyRedirect
    BY <1>2, <1>3 DEF ProxyRedirect
<1>4. ASSUME NEW part \in Reads, ReadUnauthorized(part) PROVE Requests'
    BY <1>2, <1>4 DEF ReadUnauthorized
<1>5. ASSUME NEW part \in Reads, ReadOk(part) PROVE Requests'
    <2>1. visit.to \in Paths
        BY DEF TypeOK
    <2>2. CASE visit.reads = {part}
        BY <1>5, <2>1, <2>2, PageRequest DEF ReadOk, EndScripts, NoVisit
    <2>3. CASE visit.reads # {part}
        BY <1>5, <2>3, PageRequest DEF ReadOk, TypeOK, NoVisit
    <2>. QED
        BY <2>2, <2>3
<1>6. CASE ReadFault
    BY <1>6, PageRequest DEF ReadFault, EndScripts, NoVisit
<1>. QED
    BY <1>1, <1>3, <1>4, <1>5, <1>6 DEF Serve

\* And so do the steps of a script, and what happens elsewhere.
LEMMA OtherRequests == ASSUME TypeOK, Requests, Script \/ World PROVE Requests'
<1>. USE DEF Requests, server, shown, asked, NoCall
<1>1. CASE Authenticate
    <2>1. Len(tokens) + 1 # NoToken
        BY DEF TypeOK, NoToken
    <2>. QED
        BY <1>1, <2>1 DEF Authenticate
<1>2. CASE Reject \/ Unanswered \/ SignOutLost
    BY <1>2 DEF Reject, Unanswered, SignOutLost
<1>3. CASE SignedIn
    BY <1>3 DEF SignedIn, LoginPage, Visit, NoVisit
<1>4. CASE SignedInLost
    BY <1>4 DEF SignedInLost
<1>5. CASE SignedOut \/ SignOutRefused
    BY <1>5 DEF SignedOut, SignOutRefused, LeaveForLogin, LoginPage, NoVisit
<1>6. CASE Accepted \/ Refused
    BY <1>6 DEF Accepted, Refused, Refresh, Visit, NoVisit
<1>7. CASE Unauthorized
    BY <1>7 DEF Unauthorized, NoVisit
<1>8. CASE World
    BY <1>8 DEF World, Expire, DropCookie, SignInElsewhere, DeleteUser, vars
<1>. QED
    BY <1>1, <1>2, <1>3, <1>4, <1>5, <1>6, <1>7, <1>8 DEF Script

----------------------------------------------------------------------------
(* Whose name is shown *)

\* A token more leaves the others as they are, and is of who was told.
LEMMA MoreOwn ==
    ASSUME TypeOK, NEW u \in Users, NEW who \in Told,
           tokens' = Append(tokens, [user |-> u, told |-> who])
    PROVE  /\ \A i \in TokenIds \ {NoToken} : tokens'[i] = tokens[i]
           /\ tokens'[Len(tokens) + 1].told = who
           /\ Len(tokens') = Len(tokens) + 1
<1>1. tokens \in Seq([user : Users, told : Told]) /\ Len(tokens) \in Nat
    BY DEF TypeOK
<1>2. TokenIds \ {NoToken} = 1 .. Len(tokens)
    BY <1>1 DEF TokenIds, NoToken
<1>3. [user |-> u, told |-> who] \in [user : Users, told : Told]
    OBVIOUS
<1>. QED
    BY <1>1, <1>2, <1>3, AppendProperties

\* An answer that is lost makes no token the tab's own.
LEMMA LostOwn ==
    ASSUME TypeOK, NEW i \in TokenIds \ {NoToken},
           tokens' = [tokens EXCEPT ![i].told = "nobody"]
    PROVE  /\ tokens'[i].told = "nobody"
           /\ \A j \in TokenIds \ {NoToken} : j # i => tokens'[j] = tokens[j]
<1>1. tokens \in Seq([user : Users, told : Told]) /\ Len(tokens) \in Nat
    BY DEF TypeOK
<1>2. TokenIds \ {NoToken} = 1 .. Len(tokens)
    BY <1>1 DEF TokenIds, NoToken
<1>3. tokens[i] \in [user : Users, told : Told]
    BY <1>1, <1>2, ElementOfSeq
<1>. QED
    BY <1>1, <1>2, <1>3

\* The person's steps.
LEMMA PersonOwn == ASSUME TypeOK, Requests, OwnIsShown, Person PROVE OwnIsShown'
<1>. USE DEF OwnIsShown, Own, server, shown, asked, NoVisit, NoCall, Visit
<1>1. ASSUME NEW to \in Paths, Go(to) PROVE OwnIsShown'
    BY <1>1 DEF Go
<1>2. ASSUME NEW to \in Paths, Follow(to) PROVE OwnIsShown'
    BY <1>2 DEF Follow
<1>3. ASSUME NEW u \in Users, Submit(u) PROVE OwnIsShown'
    BY <1>3 DEF Submit
<1>4. CASE GoLogin
    BY <1>4 DEF GoLogin, LoginPage
<1>5. CASE ClickSignOut
    BY <1>5 DEF ClickSignOut
<1>6. CASE Click
    BY <1>6 DEF Click
<1>. QED
    BY <1>1, <1>2, <1>3, <1>4, <1>5, <1>6 DEF Person

\* The steps of a page request: a link keeps a header that was right.
LEMMA ServeOwn == ASSUME TypeOK, Requests, OwnIsShown, Serve PROVE OwnIsShown'
<1>. USE DEF OwnIsShown, Own, server, shown, asked, NoCall
<1>1. CASE Proxy
    BY <1>1, PageRequest DEF Proxy, TypeOK
<1>2. ASSUME NEW next, ToLogin(next) PROVE OwnIsShown'
    BY <1>2 DEF ToLogin, LoginPage, EndScripts, NoVisit
<1>3. CASE ProxyRedirect
    BY <1>2, <1>3 DEF ProxyRedirect
<1>4. ASSUME NEW part \in Reads, ReadUnauthorized(part) PROVE OwnIsShown'
    BY <1>2, <1>4 DEF ReadUnauthorized
<1>5. ASSUME NEW part \in Reads, ReadOk(part) PROVE OwnIsShown'
    <2>1. CASE visit.reads = {part}
        <3>1. Own(cookie) => badge' = cookie
            BY <1>5, <2>1, PageRequest DEF ReadOk, Requests
        <3>. QED
            BY <1>5, <2>1, <3>1 DEF ReadOk, EndScripts
    <2>2. CASE visit.reads # {part}
        BY <1>5, <2>2, PageRequest DEF ReadOk, TypeOK
    <2>. QED
        BY <2>1, <2>2
<1>6. CASE ReadFault
    BY <1>6 DEF ReadFault, EndScripts
<1>. QED
    BY <1>1, <1>3, <1>4, <1>5, <1>6 DEF Serve

\* The steps of a script: a sign-in takes every visit and header with it.
LEMMA ScriptOwn == ASSUME TypeOK, Requests, OwnIsShown, Script PROVE OwnIsShown'
<1>. USE DEF OwnIsShown, Own, server, shown, asked, NoCall, NoVisit
<1>1. CASE Authenticate
    <2>1. \A i \in TokenIds \ {NoToken} : tokens'[i] = tokens[i]
        BY <1>1, CallFields, MoreOwn DEF Authenticate, TypeOK, Told
    <2>2. cookie \in TokenIds
        BY DEF TypeOK
    <2>. QED
        BY <1>1, <2>1, <2>2 DEF Authenticate
<1>2. CASE Reject \/ Unanswered \/ SignOutLost
    BY <1>2 DEF Reject, Unanswered, SignOutLost
<1>3. CASE SignedIn
    BY <1>3 DEF SignedIn, LoginPage, Visit, Requests
<1>4. CASE SignedInLost
    <2>1. call.token \in TokenIds \ {NoToken}
        BY <1>4, CallFields DEF SignedInLost, Requests, TypeOK
    <2>2. /\ tokens'[call.token].told = "nobody"
          /\ \A j \in TokenIds \ {NoToken} : j # call.token => tokens'[j] = tokens[j]
        BY <1>4, <2>1, LostOwn DEF SignedInLost
    <2>3. cookie \in TokenIds
        BY DEF TypeOK
    <2>4. Own(cookie)' => cookie' = cookie /\ Own(cookie)
        BY <1>4, <2>2, <2>3 DEF SignedInLost
    <2>. QED
        BY <1>4, <2>4 DEF SignedInLost
<1>5. CASE SignedOut \/ SignOutRefused
    BY <1>5 DEF SignedOut, SignOutRefused, LeaveForLogin, LoginPage
<1>6. CASE Accepted \/ Refused
    BY <1>6 DEF Accepted, Refused, Refresh, Visit
<1>7. CASE Unauthorized
    BY <1>7 DEF Unauthorized
<1>. QED
    BY <1>1, <1>2, <1>3, <1>4, <1>5, <1>6, <1>7 DEF Script

\* What happens elsewhere.
LEMMA WorldOwn == ASSUME TypeOK, OwnIsShown, World PROVE OwnIsShown'
<1>. USE DEF OwnIsShown, Own, server, shown, asked
<1>1. ASSUME NEW u \in Users, SignInElsewhere(u) PROVE OwnIsShown'
    <2>1. /\ \A i \in TokenIds \ {NoToken} : tokens'[i] = tokens[i]
          /\ tokens'[cookie'].told = "elsewhere"
        BY <1>1, MoreOwn DEF SignInElsewhere, Told
    <2>2. call.kind = "patch" => call.token \in TokenIds
        BY CallFields DEF TypeOK
    <2>. QED
        BY <1>1, <2>1, <2>2 DEF SignInElsewhere
<1>2. CASE DropCookie
    BY <1>2 DEF DropCookie
<1>3. CASE UNCHANGED vars
    BY <1>3 DEF vars
<1>. QED
    BY <1>1, <1>2, <1>3 DEF World, Expire, DeleteUser

----------------------------------------------------------------------------
(* What a sign-out leaves *)

\* No step makes a cookie the tab's own after its "Sign out".
LEMMA OutStep ==
    ASSUME TypeOK, Requests, SignedOutExplained, [Next]_vars
    PROVE  SignedOutExplained'
<1>. USE DEF SignedOutExplained, server, shown, asked
<1>1. CASE Person
    BY <1>1 DEF Person, Go, Follow, Submit, GoLogin, ClickSignOut, Click
<1>2. CASE Serve
    BY <1>2 DEF Serve, Proxy, ProxyRedirect, ReadOk, ReadUnauthorized, ReadFault, ToLogin
<1>3. CASE Script
    <2>1. CASE Authenticate \/ SignedIn \/ SignedInLost
        BY <1>3, <2>1 DEF Authenticate, SignedIn, SignedInLost, Requests
    <2>2. CASE Reject \/ Unanswered \/ SignOutLost
        BY <2>2 DEF Reject, Unanswered, SignOutLost
    <2>3. CASE SignedOut \/ SignOutRefused
        BY <2>3 DEF SignedOut, SignOutRefused, LeaveForLogin
    <2>4. CASE Accepted \/ Refused \/ Unauthorized
        BY <2>4 DEF Accepted, Refused, Unauthorized
    <2>. QED
        BY <1>3, <2>1, <2>2, <2>3, <2>4 DEF Script
<1>4. ASSUME NEW u \in Users, SignInElsewhere(u) PROVE SignedOutExplained'
    <2>1. tokens'[cookie'].told = "elsewhere"
        BY <1>4, MoreOwn DEF SignInElsewhere, Told
    <2>. QED
        BY <2>1
<1>5. CASE DropCookie \/ UNCHANGED vars
    BY <1>5 DEF DropCookie, vars
<1>6. CASE \/ \E token \in 1 .. MaxTokens : Expire(token)
           \/ \E u \in Users : DeleteUser(u)
    BY <1>6 DEF Expire, DeleteUser
<1>. QED
    BY <1>1, <1>2, <1>3, <1>4, <1>5, <1>6 DEF Next

----------------------------------------------------------------------------
(* Where the tab is going *)

\* The aim after a person's wish, and after a script's navigation.
LEMMA AimMoves ==
    ASSUME TypeOK, NEW to \in Paths
    PROVE  /\ Asks(to) => Aim' = to
           /\ TakesOver(to) /\ visit = NoVisit => Aim' = Aim
           /\ TakesOver(to) /\ visit # NoVisit => Aim' = to
<1>1. Asks(to) => Aim' = to
    BY DEF Asks, Aim
<1>2. TakesOver(to) /\ visit = NoVisit => Aim' = Aim
    BY DEF TakesOver, Aim
<1>3. CASE TakesOver(to) /\ visit # NoVisit
    <2>1. CASE to = wanted
        BY <1>3, <2>1 DEF TakesOver, Aim
    <2>2. CASE to # wanted
        BY <1>3, <2>2, SentinelAssumption DEF TakesOver, Aim
    <2>. QED
        BY <2>1, <2>2
<1>. QED
    BY <1>1, <1>2, <1>3

\* Every step keeps the tab on its way to its aim.
LEMMA WayStep ==
    ASSUME TypeOK, Requests, OnTheWay, [Next]_vars
    PROVE  OnTheWay'
<1>1. CASE Person
    BY <1>1 DEF Person, Go, Follow, Submit, GoLogin, LoginPage, ClickSignOut, Click,
           OnTheWay, Aim, Asks, server, shown, asked, Visit, NoVisit, SafeNext
<1>2. ASSUME NEW next, next = visit.to, visit.reads # {}, ToLogin(next) PROVE OnTheWay'
    BY <1>2, PageRequest, SentinelAssumption
    DEF ToLogin, LoginPage, TypeOK,
        OnTheWay, Aim, Asks, server, shown, asked, Visit, NoVisit, SafeNext
<1>3. CASE Serve
    <2>1. CASE Proxy
        BY <2>1, PageRequest
        DEF Proxy, TypeOK,
            OnTheWay, Aim, Asks, server, shown, asked, Visit, NoVisit, SafeNext
    <2>2. CASE ProxyRedirect
        BY <1>2, <2>2 DEF ProxyRedirect
    <2>3. ASSUME NEW part \in Reads, ReadUnauthorized(part) PROVE OnTheWay'
        BY <1>2, <2>3 DEF ReadUnauthorized, Back
    <2>4. ASSUME NEW part \in Reads, ReadOk(part) PROVE OnTheWay'
        <3>1. visit # NoVisit /\ visit.to \in Paths
            BY <2>4, PageRequest DEF ReadOk, TypeOK, NoVisit
        <3>. QED
            BY <2>4, <3>1, SentinelAssumption
            DEF ReadOk, TypeOK,
                OnTheWay, Aim, Asks, server, shown, asked, Visit, NoVisit, SafeNext
    <2>5. CASE ReadFault
        BY <2>5, PageRequest, SentinelAssumption
        DEF ReadFault, TypeOK,
            OnTheWay, Aim, Asks, server, shown, asked, Visit, NoVisit, SafeNext
    <2>. QED
        BY <1>3, <2>1, <2>2, <2>3, <2>4, <2>5 DEF Serve
<1>4. CASE Script
    <2>1. CASE Authenticate \/ Reject \/ Unanswered \/ SignOutLost \/ SignedInLost
        BY <2>1 DEF Authenticate, Reject, Unanswered, SignOutLost, SignedInLost, OnTheWay,
           Aim, shown, asked, SafeNext
    <2>2. CASE SignedIn
        <3>1. SafeNext(path) \in Paths /\ TakesOver(SafeNext(path))
            BY <2>2, SafeNextType DEF SignedIn, TypeOK
        <3>2. Aim' = SafeNext(path)
            BY <3>1, AimMoves DEF OnTheWay
        <3>3. \/ visit' = NoVisit /\ path' = path
              \/ visit' # NoVisit /\ visit'.to = SafeNext(path)
            BY <2>2 DEF SignedIn, LoginPage, Visit, NoVisit
        <3>. QED
            BY <3>2, <3>3 DEF OnTheWay, SafeNext
    <2>3. CASE SignedOut \/ SignOutRefused
        <3>1. /\ visit' = NoVisit /\ path' = NoPath
              /\ Asks(Home) \/ (TakesOver(Home) /\ visit # NoVisit)
            BY <2>3 DEF SignedOut, SignOutRefused, LeaveForLogin, LoginPage
        <3>2. Aim' = Home
            BY <3>1, AimMoves, HomeAssumption
        <3>. QED
            BY <3>1, <3>2 DEF OnTheWay, SafeNext
    <2>4. CASE Accepted \/ Refused
        <3>1. /\ Aim' = Aim /\ path' = path
              /\ \/ visit' = visit
                 \/ /\ visit = NoVisit /\ visit'.to = path /\ visit' # NoVisit
                    /\ path \in Paths
            <4>1. UNCHANGED <<wanted, overtaken, path>> /\ Refresh
                BY <2>4 DEF Accepted, Refused, asked, shown
            <4>2. Visit("refresh", path, cookie).to = path
                BY DEF Visit
            <4>3. Visit("refresh", path, cookie) # NoVisit
                BY DEF Visit, NoVisit
            <4>4. Aim' = Aim
                BY <4>1 DEF Aim
            <4>5. CASE place = "dashboard"
                BY <4>1, <4>2, <4>3, <4>4, <4>5 DEF Refresh, Requests
            <4>6. CASE place # "dashboard"
                BY <4>1, <4>4, <4>6 DEF Refresh
            <4>. QED
                BY <4>5, <4>6
        <3>2. path \in Paths => SafeNext(path) = path
            BY SentinelAssumption DEF SafeNext
        <3>3. SafeNext(path)' = SafeNext(path)
            BY <3>1 DEF SafeNext
        <3>. QED
            BY <3>1, <3>2, <3>3 DEF OnTheWay
    <2>5. CASE Unauthorized
        <3>1. SafeNext(path) \in Paths /\ TakesOver(SafeNext(path))
            BY <2>5, SafeNextType DEF Unauthorized, TypeOK
        <3>2. Aim' = SafeNext(path)
            BY <3>1, AimMoves DEF OnTheWay
        <3>3. visit' = NoVisit /\ path' = path
            BY <2>5 DEF Unauthorized
        <3>. QED
            BY <3>2, <3>3 DEF OnTheWay, SafeNext
    <2>. QED
        BY <1>4, <2>1, <2>2, <2>3, <2>4, <2>5 DEF Script
<1>5. CASE World
    BY <1>5 DEF World, Expire, DropCookie, SignInElsewhere, DeleteUser, vars, OnTheWay,
       Aim, shown, asked, SafeNext
<1>. QED
    BY <1>1, <1>3, <1>4, <1>5 DEF Next, World

----------------------------------------------------------------------------
(* The theorems *)

\* The invariant holds initially.
LEMMA InitInv == Init => IInv
<1>. SUFFICES ASSUME Init PROVE IInv
    OBVIOUS
<1>1. TypeOK
    BY InitTypeOK
<1>2. Requests /\ OwnIsShown /\ SignedOutExplained
    BY DEF Init, Requests, OwnIsShown, Own, SignedOutExplained, NoCall, NoVisit
<1>3. OnTheWay
    BY DEF Init, OnTheWay, Aim, SafeNext
<1>. QED
    BY <1>1, <1>2, <1>3 DEF IInv

\* Every step keeps it.
LEMMA StepInv == IInv /\ [Next]_vars => IInv'
<1>. SUFFICES ASSUME IInv, [Next]_vars PROVE IInv'
    OBVIOUS
<1>1. Person \/ Serve \/ Script \/ World
    BY DEF Next, World
<1>2. TypeOK'
    BY <1>1, PersonType, ServeType, ScriptType, WorldType DEF IInv, World
<1>3. Requests'
    BY <1>1, PersonRequests, ServeRequests, OtherRequests DEF IInv
<1>4. OwnIsShown'
    BY <1>1, PersonOwn, ServeOwn, ScriptOwn, WorldOwn DEF IInv
<1>5. SignedOutExplained' /\ OnTheWay'
    BY OutStep, WayStep DEF IInv
<1>. QED
    BY <1>2, <1>3, <1>4, <1>5 DEF IInv

\* IInv holds in every reachable state.
LEMMA InductiveInvariant == Spec => []IInv
BY InitInv, StepInv, PTL DEF Spec

\* Every variable keeps its type in every behaviour.
THEOREM TypeCorrect == Spec => []TypeOK
<1>1. IInv => TypeOK
    BY DEF IInv
<1>. QED
    BY <1>1, InductiveInvariant, PTL

\* A tab that signed in itself never acts in another name than its header
\* shows: that takes a sign-in elsewhere, or one whose answer was lost.
THEOREM NameIsRight == Spec => []MisattributionExplained
<1>1. IInv => MisattributionExplained
    BY DEF IInv, OwnIsShown, Own, MisattributionExplained
<1>. QED
    BY <1>1, InductiveInvariant, PTL

\* After a successful "Sign out" the browser has no cookie of this tab's.
THEOREM SignOutHolds == Spec => []SignedOutExplained
<1>1. IInv => SignedOutExplained
    BY DEF IInv
<1>. QED
    BY <1>1, InductiveInvariant, PTL

\* The page that is shown is the one that was asked for last, unless a
\* script's navigation has replaced the request for it, and then it is the
\* one that the script has led to.
THEOREM PageIsWanted == Spec => []ShownIsWanted
<1>1. IInv => ShownIsWanted
    BY SentinelAssumption DEF IInv, OnTheWay, Aim, Requests, SafeNext, ShownIsWanted
<1>. QED
    BY <1>1, InductiveInvariant, PTL

----------------------------------------------------------------------------
(* Redirects *)

\* The proxy comes first, then the reads of the layout and of the page; a
\* visit without any of them left is none.
ReadsInOrder ==
    /\ visit.reads \in {{}, {"proxy"}} \cup SUBSET {"layout", "page"}
    /\ visit.reads = {} => visit = NoVisit

\* How many steps a page request is from its end, at most.
StepsLeft ==
    CASE visit.reads = {} -> 0
      [] visit.reads = {"proxy"} -> 3
      [] visit.reads = {"layout", "page"} -> 2
      [] visit.reads \in {{"layout"}, {"page"}} -> 1

NextStepsLeft == StepsLeft'

\* What the steps of a page request make of it.
LEMMA ServeMoves ==
    ASSUME TypeOK, Serve
    PROVE  \/ visit.reads # {} /\ visit' = NoVisit
           \/ /\ visit.reads = {"proxy"}
              /\ visit' \in {[visit EXCEPT !.reads = {"page"}],
                             [visit EXCEPT !.reads = {"layout", "page"}]}
           \/ \E part \in visit.reads \ {"proxy"} :
                 visit.reads # {part} /\ visit' = [visit EXCEPT !.reads = @ \ {part}]
<1>1. CASE Proxy
    BY <1>1 DEF Proxy
<1>2. CASE ProxyRedirect
    BY <1>2 DEF ProxyRedirect, ToLogin, LoginPage
<1>3. ASSUME NEW part \in Reads, ReadUnauthorized(part) PROVE visit.reads # {} /\ visit' = NoVisit
    BY <1>3 DEF ReadUnauthorized, ToLogin, LoginPage
<1>4. ASSUME NEW part \in Reads, ReadOk(part)
      PROVE  /\ part \in visit.reads \ {"proxy"}
             /\ IF visit.reads = {part} THEN visit' = NoVisit
                ELSE visit' = [visit EXCEPT !.reads = @ \ {part}]
    BY <1>4 DEF ReadOk
<1>5. CASE ReadFault
    BY <1>5 DEF ReadFault
<1>. QED
    BY <1>1, <1>2, <1>3, <1>4, <1>5 DEF Serve

\* No step disturbs the order of the reads.
LEMMA ReadsKept == ASSUME TypeOK, ReadsInOrder, [Next]_vars PROVE ReadsInOrder'
<1>1. \A kind, to, token : Visit(kind, to, token).reads = {"proxy"}
    BY DEF Visit
<1>2. CASE Serve
    <2>1. CASE visit' = NoVisit
        BY <2>1 DEF ReadsInOrder, NoVisit
    <2>2. CASE /\ visit.reads = {"proxy"}
               /\ visit' \in {[visit EXCEPT !.reads = {"page"}],
                              [visit EXCEPT !.reads = {"layout", "page"}]}
        <3>1. visit'.reads \in {{"page"}, {"layout", "page"}}
            BY <2>2 DEF TypeOK
        <3>. QED
            BY <3>1 DEF ReadsInOrder
    <2>3. ASSUME NEW part \in visit.reads \ {"proxy"}, visit.reads # {part},
                 visit' = [visit EXCEPT !.reads = @ \ {part}]
          PROVE  ReadsInOrder'
        <3>1. visit'.reads = visit.reads \ {part} /\ visit.reads \in SUBSET {"layout", "page"}
            BY <2>3 DEF TypeOK, ReadsInOrder
        <3>2. visit'.reads # {}
            BY <2>3, <3>1
        <3>. QED
            BY <3>1, <3>2 DEF ReadsInOrder
    <2>. QED
        BY <1>2, <2>1, <2>2, <2>3, ServeMoves
<1>3. CASE UNCHANGED visit
    BY <1>3 DEF ReadsInOrder
<1>4. ASSUME NEW kind, NEW to, NEW token, visit' = Visit(kind, to, token) PROVE ReadsInOrder'
    BY <1>1, <1>4 DEF ReadsInOrder
<1>5. CASE visit' = NoVisit
    BY <1>5 DEF ReadsInOrder, NoVisit
<1>6. CASE Person
    BY <1>3, <1>4, <1>5, <1>6 DEF Person, Go, GoLogin, Follow, Submit, ClickSignOut, Click, LoginPage
<1>7. CASE Script
    BY <1>3, <1>4, <1>5, <1>7
    DEF Script, Authenticate, Reject, SignedIn, SignedInLost, SignedOut, SignOutRefused,
        SignOutLost, LeaveForLogin, LoginPage, Accepted, Unauthorized, Refused,
        Unanswered, Refresh
<1>8. CASE World \/ UNCHANGED vars
    BY <1>3, <1>8 DEF World, Expire, DropCookie, SignInElsewhere, DeleteUser, vars
<1>. QED
    BY <1>2, <1>6, <1>7, <1>8 DEF Next, World

\* A page request is over after three steps at most: none of them makes another
\* one, whatever the proxy and the API think of its cookie, so redirects end
\* (proxy.ts:11-15, server.ts:26).
THEOREM RedirectsEnd == Spec => [][Serve => StepsLeft' < StepsLeft]_vars
<1>1. TypeOK /\ ReadsInOrder /\ Serve => NextStepsLeft < StepsLeft
    <2>. SUFFICES ASSUME TypeOK, ReadsInOrder, Serve PROVE NextStepsLeft < StepsLeft
        OBVIOUS
    <2>1. visit.reads \in {{"proxy"}, {"layout", "page"}, {"layout"}, {"page"}}
        <3>1. visit.reads # {}
            BY ServeMoves
        <3>. QED
            BY <3>1 DEF ReadsInOrder
    <2>2. {"proxy"} # {"layout", "page"} /\ {"proxy"} # {"layout"} /\ {"proxy"} # {"page"}
          /\ {"layout"} # {"page"} /\ {"layout", "page"} # {"layout"} /\ {"layout", "page"} # {"page"}
        OBVIOUS
    <2>3. CASE visit' = NoVisit
        <3>1. NextStepsLeft = 0
            BY <2>3 DEF NextStepsLeft, StepsLeft, NoVisit
        <3>2. StepsLeft \in {1, 2, 3}
            BY <2>1, <2>2 DEF StepsLeft
        <3>. QED
            BY <3>1, <3>2
    <2>4. CASE /\ visit.reads = {"proxy"}
               /\ visit' \in {[visit EXCEPT !.reads = {"page"}],
                              [visit EXCEPT !.reads = {"layout", "page"}]}
        <3>1. visit'.reads \in {{"page"}, {"layout", "page"}}
            BY <2>4 DEF TypeOK
        <3>2. NextStepsLeft \in {1, 2}
            BY <2>2, <3>1 DEF NextStepsLeft, StepsLeft
        <3>3. StepsLeft = 3
            BY <2>2, <2>4 DEF StepsLeft
        <3>. QED
            BY <3>2, <3>3
    <2>5. ASSUME NEW part \in visit.reads \ {"proxy"}, visit.reads # {part},
                 visit' = [visit EXCEPT !.reads = @ \ {part}]
          PROVE  NextStepsLeft < StepsLeft
        <3>1. visit'.reads = visit.reads \ {part}
            BY <2>5 DEF TypeOK
        <3>2. visit.reads = {"layout", "page"} /\ visit'.reads \in {{"layout"}, {"page"}}
            BY <2>1, <2>5, <3>1
        <3>3. NextStepsLeft = 1
            BY <2>2, <3>2 DEF NextStepsLeft, StepsLeft
        <3>4. StepsLeft = 2
            BY <2>2, <3>2 DEF StepsLeft
        <3>. QED
            BY <3>3, <3>4
    <2>. QED
        BY <2>3, <2>4, <2>5, ServeMoves
<1>2. Init => ReadsInOrder
    BY DEF Init, ReadsInOrder, NoVisit
<1>3. NextStepsLeft = StepsLeft'
    BY DEF NextStepsLeft
<1>4. TypeOK /\ ReadsInOrder /\ [Next]_vars => ReadsInOrder'
    BY ReadsKept
<1>5. Spec => [](TypeOK /\ ReadsInOrder)
    BY <1>2, <1>4, TypeCorrect, PTL DEF Spec
<1>6. TypeOK /\ ReadsInOrder /\ Serve => StepsLeft' < StepsLeft
    BY <1>1, <1>3
<1>. QED
    BY <1>5, <1>6, PTL DEF Spec

=============================================================================
