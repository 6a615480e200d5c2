SPECIFICATION Spec
CONSTANTS
    RegReqs = {g1, g2}
    OAuthReqs = {}
    RecoverReqs = {c1}
    PasswordReqs = {p1, p2}
    RenameReqs = {k1, d1}
    ConfirmReqs = {}
    CreateReqs = {k1}
    UpdateReqs = {d1}
    DeleteReqs = {}
    UploadReqs = {}
    Names = {n1, n2}
    ProviderNames = {}
    Suffixed <- NoSuffixes
    Emails = {e1, e2}
    Identities = {}
    MaxFail = 1
    MaxInserts = 2
    None = None
SYMMETRY Interchangeable
INVARIANTS
    PasswordIsLast
    CodeIsLast
    CodeWorksOnce
    RefusedCreatesNothing
CHECK_DEADLOCK FALSE
