SPECIFICATION Spec
CONSTANTS
    RegReqs = {g1}
    OAuthReqs = {}
    RecoverReqs = {}
    PasswordReqs = {}
    RenameReqs = {d1}
    ConfirmReqs = {}
    CreateReqs = {}
    UpdateReqs = {d1}
    DeleteReqs = {x1}
    UploadReqs = {a1, a2}
    Names = {n1, n2}
    ProviderNames = {}
    Suffixed <- NoSuffixes
    Emails = {e1}
    Identities = {}
    MaxFail = 1
    MaxInserts = 2
    None = None
SYMMETRY Interchangeable
INVARIANTS
    AvatarsInv
    ShownAvatarExists
    NoAvatarOrphans
PROPERTIES
    TextsAreKept
CHECK_DEADLOCK FALSE
