SPECIFICATION Spec
CONSTANTS
    x = x
    y = y
    web = web
    lan = lan
    lo = lo
    t1 = t1
    t2 = t2
    None = None
    Owner = Owner
    Main = t1
    Tasks = {t1, t2}
    Addresses = {web, lan, lo}
    Globals = {web}
    Loopback = lo
    AllowedPorts = {80, 443}
    AllowPrivate = FALSE
    Urls <- MCUrls
    Requested <- MCRequested
    Answers <- MCAnswers
    Fragments = {x, y}
    Original <- MCOriginal
    Texts <- MCTexts
    MaxRedirects = 2
    MaxBytes = 2
    MaxChanges = 1
INVARIANTS SourceInv SafeContacts FingerprintHolds ArtifactsReleased
PROPERTY OperationsEnd
CHECK_DEADLOCK FALSE
