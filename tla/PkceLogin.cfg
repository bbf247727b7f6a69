SPECIFICATION Spec
CONSTANTS
    Browsers = {b1, b2}
    Logins = {l1, l2, l3}
    Callbacks = {c1, c2}
    NoLogin = NoLogin
INVARIANTS
    TokenReachesStarter
    CodeMeetsItsVerifier
    RefusalsAreExplained
    OneTokenPerLogin
