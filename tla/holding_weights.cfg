\* A new portfolio, an upload and added holdings, interleaved two by two.
SPECIFICATION Spec
CONSTANTS
    create = create
    upload = upload
    add = add
    addNothing = addNothing
    addElsewhere = addElsewhere
    owns = owns
    other = other
    NoUser = NoUser
    Clients = {create, upload, add, addNothing, addElsewhere}
    User <- MCUser
    Creators = {create, upload}
    Batch <- MCBatch
    MaxActive = 2
CHECK_DEADLOCK FALSE
INVARIANTS
    TypeOK
    SoloCallRestores
    WeightsWithinBounds
