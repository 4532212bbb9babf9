SPECIFICATION Spec
CONSTANTS
    u1 = u1  u2 = u2  b1 = b1  b2 = b2  r1 = r1  r2 = r2  r3 = r3
    Users <- MCUsers
    Bots <- OneBot
    Requests <- ThreeRequests
INVARIANTS TypeOK TradesPinBot
PROPERTIES OnlyOwnerChanges NoResurrection UnracedCommitTakes
\* the bot may have been deleted
CHECK_DEADLOCK FALSE
