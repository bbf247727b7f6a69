SPECIFICATION Spec
CONSTANTS
    o1 = o1
    o2 = o2
    g1 = g1
    g2 = g2
    alice = alice
    bob = bob
    NoKey = NoKey
    Orgs <- MCOrgs
    Groups <- MCGroups
    OrgOf <- MCOrgOf
    General = {}
    Users <- MCUsers
    Requests = {q1, q2, q3}
    Calls <- MCCalls
    Tables <- Careers
INVARIANTS
    KeysAreAccountedFor
    OnlyOwnersSucceed
PROPERTIES
    ChangesAreByOwners
    AnsweredKeysStayGone
SYMMETRY Symmetry
