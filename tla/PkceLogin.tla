----------------------------- MODULE PkceLogin -----------------------------
(***************************************************************************)
(* GET /auth/login and GET /auth/callback: the PKCE login by way of the    *)
(* Auth server.  The orchestrator keeps nothing between the two requests:  *)
(* state and verifier travel in the browser's one cookie pkce_state, which *)
(* concurrent logins of a browser share and nothing ever clears.           *)
(*                                                                         *)
(* A login stands for its random state, its verifier and its challenge.    *)
(* The Auth server is external: it binds a code to the challenge it was    *)
(* asked with, redirects back with the state it was given, and redeems a   *)
(* code once.                                                              *)
(***************************************************************************)
CONSTANTS
    Browsers,
    Logins,     \* one per GET /auth/login
    Callbacks,  \* one per GET /auth/callback
    NoLogin     \* the absence of a cookie

ASSUME PkceAssumption == NoLogin \notin Logins

VARIABLES
    home,       \* the browser each login was started in
    stage,      \* how far each login has come
    cookie,     \* the login in each browser's pkce_state
    displaced,  \* logins whose cookie was overwritten or dropped
    code,       \* the Auth server's code of each login: none, fresh, redeemed
    request,    \* a callback's login (state and code) and browser
    carried,    \* the login in the cookie that the callback carries
    answer      \* where a callback stands, or what it was answered

browser == <<home, stage, cookie, displaced>>
vars    == <<home, stage, cookie, displaced, code, request, carried, answer>>

Cookie == Logins \cup {NoLogin}
Final  == {"token", "refused", "failed", "dead"}

Init ==
    /\ home \in [Logins -> Browsers]
    /\ stage = [l \in Logins |-> "idle"]
    /\ cookie = [b \in Browsers |-> NoLogin]
    /\ displaced = {}
    /\ code = [l \in Logins |-> "none"]
    /\ request \in [Callbacks -> [login : Logins, browser : Browsers]]
    /\ carried = [c \in Callbacks |-> NoLogin]
    /\ answer = [c \in Callbacks |-> "idle"]

-----------------------------------------------------------------------------
\* LoginHandler: the redirect is on its way, with Set-Cookie.
Login(l) ==
    /\ stage[l] = "idle"
    /\ stage' = [stage EXCEPT ![l] = "redirected"]
    /\ UNCHANGED <<home, cookie, displaced, code, request, carried, answer>>

\* A faulty variant: the payload is kept in the handler, for whoever calls back.
SharedJar(l) == [b \in Browsers |-> l]

\* The cookie jar after the response to l.
Jar(l) == [cookie EXCEPT ![home[l]] = l]

\* The browser stores the cookie and goes to the Auth server.  Responses to
\* concurrent logins of a browser arrive in any order.
Arrive(l) ==
    /\ stage[l] = "redirected"
    /\ stage' = [stage EXCEPT ![l] = "asking"]
    /\ displaced' = displaced \cup ({cookie[home[l]]} \ {NoLogin})
    /\ cookie' = Jar(l)
    /\ UNCHANGED <<home, code, request, carried, answer>>

\* The user consents; the redirect back carries the code.
Consent(l) ==
    /\ stage[l] = "asking"
    /\ code[l] = "none"
    /\ code' = [code EXCEPT ![l] = "fresh"]
    /\ UNCHANGED <<browser, request, carried, answer>>

\* A session cookie ends with the browser.
CloseBrowser(b) ==
    /\ displaced' = displaced \cup ({cookie[b]} \ {NoLogin})
    /\ cookie' = [cookie EXCEPT ![b] = NoLogin]
    /\ UNCHANGED <<home, stage, code, request, carried, answer>>

\* A browser follows the redirect, reloads it, or opens a copy of its URL.
Call(c) ==
    /\ answer[c] = "idle"
    /\ code[request[c].login] # "none"
    /\ carried' = [carried EXCEPT ![c] = cookie[request[c].browser]]
    /\ answer' = [answer EXCEPT ![c] = "received"]
    /\ UNCHANGED <<browser, code, request>>

\* Faulty variants: the state is not compared; a used code is refused as well.
AnyState(c) == carried[c] # NoLogin
FirstOnly(c) ==
    carried[c] = request[c].login /\ code[request[c].login] = "fresh"

StateMatches(c) == carried[c] = request[c].login

\* CallbackHandler up to the exchange: cookie present, decodable, same state.
Validate(c) ==
    /\ answer[c] = "received"
    /\ answer' = [answer EXCEPT ![c] = IF StateMatches(c) THEN "exchange" ELSE "refused"]
    /\ UNCHANGED <<browser, code, request, carried>>

\* A faulty variant: a reply without a token is passed on.
ExchangeUnchecked(c) ==
    /\ answer[c] = "exchange"
    /\ code' = [code EXCEPT ![request[c].login] = "redeemed"]
    /\ answer' = [answer EXCEPT ![c] = "token"]
    /\ UNCHANGED <<browser, request, carried>>

\* http.Post of code and verifier.  The Auth server redeems a fresh code for the
\* verifier of its challenge; the reply may be lost all the same.  Any other
\* reply has no access_token.  The call has neither a timeout nor the request's
\* context: it may as well never return.
Exchange(c) ==
    /\ answer[c] = "exchange"
    /\ \/ /\ code[request[c].login] = "fresh" /\ carried[c] = request[c].login
          /\ code' = [code EXCEPT ![request[c].login] = "redeemed"]
          /\ \E a \in {"token", "failed"} : answer' = [answer EXCEPT ![c] = a]
       \/ answer' = [answer EXCEPT ![c] = "failed"] /\ UNCHANGED code
    /\ UNCHANGED <<browser, request, carried>>

\* The process dies and is started again: logins under way do not notice.
Crash ==
    /\ answer' = [c \in Callbacks |->
                    IF answer[c] \in {"received", "exchange"} THEN "dead" ELSE answer[c]]
    /\ UNCHANGED <<browser, code, request, carried>>

Next ==
    \/ \E l \in Logins : Login(l) \/ Arrive(l) \/ Consent(l)
    \/ \E b \in Browsers : CloseBrowser(b)
    \/ \E c \in Callbacks : Call(c) \/ Validate(c) \/ Exchange(c)
    \/ Crash

Spec == Init /\ [][Next]_vars

-----------------------------------------------------------------------------
\* The type invariant of the login.
TypeOK ==
    /\ home \in [Logins -> Browsers]
    /\ stage \in [Logins -> {"idle", "redirected", "asking"}]
    /\ cookie \in [Browsers -> Cookie]
    /\ displaced \subseteq Logins
    /\ code \in [Logins -> {"none", "fresh", "redeemed"}]
    /\ request \in [Callbacks -> [login : Logins, browser : Browsers]]
    /\ carried \in [Callbacks -> Cookie]
    /\ answer \in [Callbacks -> {"idle", "received", "exchange"} \cup Final]

\* A token is handed only to the browser that started the login, wherever the
\* callback's URL was opened and whatever logins were going on.
TokenReachesStarter ==
    \A c \in Callbacks : answer[c] = "token" =>
        request[c].browser = home[request[c].login]

\* A code is sent to the Auth server only along with the verifier it was issued
\* for: two logins mixed up in one browser never use up each other's code.
CodeMeetsItsVerifier ==
    \A c \in Callbacks : answer[c] \in {"exchange", "token"} =>
        carried[c] = request[c].login

\* In the browser that started it, a login's callback is refused only if another
\* login, or the end of the browser's session, took its cookie.
RefusalsAreExplained ==
    \A c \in Callbacks :
        answer[c] = "refused" /\ request[c].browser = home[request[c].login] =>
            request[c].login \in displaced

\* A repeated callback (a reload, a double click) never yields a second answer
\* 200: what the Auth server says of a used code is not taken for a token.
OneTokenPerLogin ==
    \A c, d \in Callbacks :
        answer[c] = "token" /\ answer[d] = "token"
            /\ request[c].login = request[d].login => c = d

-----------------------------------------------------------------------------
\* The inductive invariant behind the safety properties.

\* A browser's cookie, and every copy of it that a callback carries, is of a login
\* that was started there; a login's cookie is in place until it is displaced.
CookieInv ==
    /\ \A b \in Browsers : cookie[b] # NoLogin => home[cookie[b]] = b
    /\ \A l \in Logins :
        /\ code[l] # "none" => stage[l] = "asking"
        /\ stage[l] = "asking" => cookie[home[l]] = l \/ l \in displaced

\* What a callback carries, and what became of its code.
CallbackInv ==
    \A c \in Callbacks :
        /\ carried[c] # NoLogin => home[carried[c]] = request[c].browser
        /\ answer[c] # "idle" /\ request[c].browser = home[request[c].login] =>
                carried[c] = request[c].login \/ request[c].login \in displaced
        /\ answer[c] = "refused" => carried[c] # request[c].login
        /\ answer[c] = "token" => code[request[c].login] = "redeemed"

IInv ==
    /\ TypeOK /\ CookieInv /\ CallbackInv
    /\ CodeMeetsItsVerifier /\ OneTokenPerLogin
=============================================================================
