CONSTANTS
    SIDs = {x1, x2}
    Extensions = {}
    MaxQueue = 2
    None = None
SPECIFICATION FairSpec
INVARIANTS TypeOK ModesAgree RepliesVerify SessionsAgree StopMatches KeysNeeded
PROPERTY MethodsReturn
