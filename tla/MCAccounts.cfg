SPECIFICATION AccountsSpec
CONSTANTS
    RegReqs = {g1}
    OAuthReqs = {o1, o2}
    RecoverReqs = {}
    PasswordReqs = {}
    RenameReqs = {r1}
    ConfirmReqs = {f1}
    Names = {n1, n2}
    ProviderNames = {n1}
    Suffixed <- Completed
    n2 = n2
    Emails = {e1, e2}
    Identities = {i1}
    MaxFail = 1
    None = None
SYMMETRY Interchangeable
INVARIANTS
    AInv
    NamesDiffer
    LinksTheNewUser
    LoginIsKnown
CHECK_DEADLOCK FALSE
