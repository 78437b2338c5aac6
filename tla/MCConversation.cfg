SPECIFICATION Spec
CONSTANTS
    t1 = t1
    t2 = t2
    me = me
    p1 = p1
    p2 = p2
    p3 = p3
    Turns <- MCTurns
    Messages <- MCMessages
    ModelQueries <- MCModelQueries
    People <- MCPeople
    Me = me
    Accounts <- MCAccounts
    Similarity <- MCSimilarity
    Terms <- MCTerms
    SkillVocab <- MCSkillVocab
    DomainVocab <- MCDomainVocab
    RoleVocab <- MCRoleVocab
    Within <- MCWithin
    MaxHistory = 2
    MaxBegun = 2
    MaxLanguages = 1
    ActiveAbove = 5
    ThisYear = 2026
    TopK = 3
    FinalK = 2
    NoYears = NoYears
    NoIntent = NoIntent
    NoDate = NoDate
    NoGithub = NoGithub
    NoRole = NoRole
    NoLanguage = NoLanguage
    Marker = Marker
    NoMessage = NoMessage
INVARIANTS
    TypeOK
    PromptHoldsMessage
    ShownFit
    BestShown
PROPERTIES
    IntentKept
CHECK_DEADLOCK FALSE
SYMMETRY Symmetry
