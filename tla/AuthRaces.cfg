SPECIFICATION Spec
CONSTANTS
    ann = ann  bob = bob  r1 = r1  r2 = r2
    NoEmail = NoEmail
    Emails <- TwoEmails
    Requests <- TwoRequests
    AccessLife = 0
    RefreshLife = 1
    MaxDelay = 1
    MaxTime = 3
    MaxSessions = 2
INVARIANTS OneAccountPerEmail SessionsAreListed RenewalsEnd LogoutRevokesAll
PROPERTIES OnlyOwnerRevokes
SYMMETRY Symmetry
\* the clock and the sessions are bounded: the model stops there
CHECK_DEADLOCK FALSE
