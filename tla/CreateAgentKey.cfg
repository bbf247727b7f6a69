SPECIFICATION Spec
CONSTANTS
    o1 = o1
    o2 = o2
    gen1 = gen1
    red1 = red1
    gen2 = gen2
    alice = alice
    Orgs <- MCOrgs
    Groups <- MCGroups
    OrgOf <- MCOrgOf
    General <- MCGeneral
    Users <- MCUsers
    Requests = {r1}
    Sources = {"ai-assist"}
    Tables <- Careers
    HasKeyRpc = FALSE
    KeyedOrgs = {o1}
    LateWrites = FALSE
INVARIANTS
    PaymentRequiredMeansNoKey
