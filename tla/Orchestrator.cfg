SPECIFICATION OrchLiveSpec
CONSTANTS
    o1 = o1
    o2 = o2
    gen1 = gen1
    red1 = red1
    gen2 = gen2
    alice = alice
    bob = bob
    Orgs <- MCOrgs
    Groups <- MCGroups
    OrgOf <- MCOrgOf
    General <- MCGeneral
    Users <- MCUsers
    Requests = {c1}
    Sources = {"template", "ai-assist", "github"}
    Tables <- Careers
    HasKeyRpc = TRUE
    KeyedOrgs = {o1}
    LateWrites = TRUE
    Runs = {r1}
    FlakyRuns = {r1}
INVARIANTS
    AnswerMatchesAgent
PROPERTIES
    CreationIsAuthorized
    RefinesCatalog
    RefinesRunFlow
    InstructionsAreAuthored
    CancelledCreationsEnd
