SPECIFICATION Spec
CONSTANTS
    Keys = {1, 2}
    Nil = Nil
    Families = {"hash", "keys", "set", "string", "bits", "list", "zset"}
    Fields = {1, 2}
    Values <- MCValues
    Members = {1, 2}
    MaxVal = 2
    MaxLen = 3
    MaxText = 2
    Texts <- MCTexts
    Times = {1, 2}
    MaxIdx = 1
    MaxScore = 2
    Scale = 2
INVARIANTS
    StoreSound
    Agrees
