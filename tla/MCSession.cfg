SPECIFICATION FairSpec
CONSTANTS
    NoToken = NoToken
    MaxFailures = 2
    LockTime = 1
    TokenLife = 1
    MaxTime = 1
    MaxChanges = 1
    MaxBusy = 1
INVARIANTS
    TypeOK
    PasswordChangeTakes
    GuessBound
PROPERTIES
    SessionLife
    DeadSessionLeaves
