SPECIFICATION Spec
CONSTANTS
    o1 = o1
    o2 = o2
    gen1 = gen1
    red1 = red1
    blue1 = blue1
    gen2 = gen2
    alice = alice
    Orgs <- MCOrgs
    Groups <- MCGroups
    OrgOf <- MCOrgOf
    General <- MCGeneral
    Users <- MCUsers
    Requests = {r1, r2}
    Agents = {a1}
    Places <- MCPlaces
    Tables <- Steadfast
    Flaky = {}
INVARIANTS
    RowsTellOutcomes
