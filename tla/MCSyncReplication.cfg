CONSTANTS
    Members = {m1, m2}
    NoMember = NoMember
    Commits = {1, 2}
    SyncCount = 1
    Strict = FALSE
    AnyStandby = AnyStandby
    Exposed = {}
SPECIFICATION SyncSpec
SYMMETRY MembersSymmetry
INVARIANTS PromisedSurvives AllowedHavePromised
