SPECIFICATION Spec
CONSTANTS
    p1 = p1
    p2 = p2
    t1 = t1
    t2 = t2
    ads = ads
    none = none
    subject = subject
    stranger = stranger
    name = name
    note = note
    Instances = {p1}
    Tenants = {t1}
    Contents = {name}
    Terms <- MCOneTerm
    Purposes = {ads}
    NoPurpose = none
    Requesters = {subject, stranger}
    Entitled = {subject}
    TextTokens <- MCText
    FieldTokens <- MCFields
    Risks <- MCRisks
    AllowedFor <- MCAllowed
    Policies <- MCPolicies
    DurableStore = TRUE
    TombstoneTable = TRUE
    AuditFile = TRUE
    Faults = {"restored", "audit_lost"}
    MaxIds = 1
    MaxHolds = 0
    MaxViews = 1
INVARIANTS
    ValidViewIsCurrent
    PromisesSurvive
