SPECIFICATION Spec
CONSTANTS
    plain = plain
    first = first
    second = second
    export = export
    none = none
    ada = ada
    bob = bob
    Ids = {plain, first, second, export}
    NoId = none
    Terms = {ada, bob}
    KindOf <- MCKind
    TermOf <- MCTerm
    Suspicious = {first, second}
    DirectTerms = {ada}
    MaxAudit = 8
    MaxAside = 1
INVARIANTS
    TypeOK
    ReplayIsTruthful
    OrderlyReviewsHold
PROPERTIES
    AnsweredOnce
