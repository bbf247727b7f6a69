----------------------------- MODULE PkceProofs -----------------------------
(***************************************************************************)
(* Proofs about PkceLogin, for any number of browsers, concurrent logins   *)
(* and repeated callbacks.                                                 *)
(***************************************************************************)
EXTENDS PkceLogin, TLAPS

LEMMA InitIInv == Init => IInv
  BY PkceAssumption DEF Init, IInv, TypeOK, CookieInv, CallbackInv,
     CodeMeetsItsVerifier, OneTokenPerLogin, Cookie, Final

LEMMA NextIInv == IInv /\ [Next]_vars => IInv'
  <1> SUFFICES ASSUME IInv, [Next]_vars PROVE IInv'
    OBVIOUS
  <1> USE PkceAssumption DEF IInv, TypeOK, CookieInv, CallbackInv,
          CodeMeetsItsVerifier, OneTokenPerLogin, Cookie, Final, browser
  <1>1. ASSUME NEW l \in Logins, Login(l) PROVE IInv'
    BY <1>1 DEF Login
  <1>2. ASSUME NEW l \in Logins, Arrive(l) PROVE IInv'
    <2>1. UNCHANGED <<home, code, request, carried, answer>>
      BY <1>2 DEF Arrive
    <2>2. /\ stage[l] = "redirected"
          /\ stage' = [stage EXCEPT ![l] = "asking"]
          /\ displaced' = displaced \cup ({cookie[home[l]]} \ {NoLogin})
          /\ cookie' = [cookie EXCEPT ![home[l]] = l]
      BY <1>2 DEF Arrive, Jar
    <2>3. TypeOK'
      BY <2>1, <2>2
    <2>4. CookieInv'
      BY <2>1, <2>2
    <2>5. CallbackInv' /\ CodeMeetsItsVerifier' /\ OneTokenPerLogin'
      BY <2>1, <2>2
    <2> QED
      BY <2>3, <2>4, <2>5
  <1>3. ASSUME NEW l \in Logins, Consent(l) PROVE IInv'
    BY <1>3 DEF Consent
  <1>4. ASSUME NEW b \in Browsers, CloseBrowser(b) PROVE IInv'
    BY <1>4 DEF CloseBrowser
  <1>5. ASSUME NEW c \in Callbacks, Call(c) PROVE IInv'
    <2>1. /\ UNCHANGED <<browser, code, request>>
          /\ answer[c] = "idle" /\ code[request[c].login] # "none"
          /\ carried' = [carried EXCEPT ![c] = cookie[request[c].browser]]
          /\ answer' = [answer EXCEPT ![c] = "received"]
      BY <1>5 DEF Call
    <2>2. TypeOK' /\ CookieInv'
      BY <2>1
    <2>3. CodeMeetsItsVerifier' /\ OneTokenPerLogin'
      BY <2>1
    <2>4. CallbackInv'
      BY <2>1
    <2> QED
      BY <2>2, <2>3, <2>4
  <1>6. ASSUME NEW c \in Callbacks, Validate(c) PROVE IInv'
    BY <1>6 DEF Validate, StateMatches
  <1>7. ASSUME NEW c \in Callbacks, Exchange(c) PROVE IInv'
    <2>1. /\ UNCHANGED <<browser, request, carried>>
          /\ answer[c] = "exchange"
      BY <1>7 DEF Exchange
    <2>2. CASE /\ code[request[c].login] = "fresh"
               /\ code' = [code EXCEPT ![request[c].login] = "redeemed"]
               /\ answer' = [answer EXCEPT ![c] = "token"]
      BY <2>1, <2>2
    <2>3. CASE /\ answer' = [answer EXCEPT ![c] = "failed"]
               /\ \/ UNCHANGED code
                  \/ /\ code[request[c].login] = "fresh"
                     /\ code' = [code EXCEPT ![request[c].login] = "redeemed"]
      BY <2>1, <2>3
    <2> QED
      BY <1>7, <2>2, <2>3 DEF Exchange
  <1>8. CASE Crash
    BY <1>8 DEF Crash
  <1>9. CASE UNCHANGED vars
    BY <1>9 DEF vars
  <1> QED
    BY <1>1, <1>2, <1>3, <1>4, <1>5, <1>6, <1>7, <1>8, <1>9 DEF Next

\* The inductive invariant of the login (auth.go:27-117).
THEOREM LoginInvariance == Spec => []IInv
  <1>1. Init => IInv
    BY InitIInv
  <1>2. IInv /\ [Next]_vars => IInv'
    BY NextIInv
  <1> QED
    BY <1>1, <1>2, PTL DEF Spec

\* The comparison of state with the cookie (auth.go:86) ties a token to the browser
\* that started the login, because a cookie only ever holds that browser's logins.
THEOREM TokenGoesHome == Spec => []TokenReachesStarter
  <1>1. IInv => TokenReachesStarter
    <2> SUFFICES ASSUME IInv, NEW c \in Callbacks, answer[c] = "token"
                 PROVE  request[c].browser = home[request[c].login]
      BY DEF TokenReachesStarter
    <2>1. carried[c] = request[c].login
      BY DEF IInv, CodeMeetsItsVerifier
    <2>2. request[c].login \in Logins
      BY DEF IInv, TypeOK
    <2> QED
      BY <2>1, <2>2, PkceAssumption DEF IInv, CallbackInv
  <1> QED
    BY LoginInvariance, <1>1, PTL

\* The comparison of state with the cookie also ties the code to the verifier, which
\* the same cookie holds (auth.go:86-93).
THEOREM CodesMeetVerifiers == Spec => []CodeMeetsItsVerifier
  <1>1. IInv => CodeMeetsItsVerifier
    BY DEF IInv
  <1> QED
    BY LoginInvariance, <1>1, PTL

\* A code yields at most one answer 200, however often its URL is opened: the
\* refusal of a used code is not taken for a token (auth.go:100-112).
THEOREM CodesAreSpentOnce == Spec => []OneTokenPerLogin
  <1>1. IInv => OneTokenPerLogin
    BY DEF IInv
  <1> QED
    BY LoginInvariance, <1>1, PTL

\* Only a displaced cookie makes the starting browser's callback fail (auth.go:38).
THEOREM RefusalsHaveCause == Spec => []RefusalsAreExplained
  <1>1. IInv => RefusalsAreExplained
    BY DEF IInv, CallbackInv, RefusalsAreExplained
  <1> QED
    BY LoginInvariance, <1>1, PTL
=============================================================================
