CONSTANTS
    key1 = key1
    key2 = key2
    attr1 = attr1
    attr2 = attr2
    encKey = encKey
    store = store
    message = message
    plainKey = plainKey
    pwA = pwA
    pwB = pwB
    Files = {encKey, store, message, plainKey}
    Keys = {key1, key2}
    Passwords = {pwA, pwB}
    Clear = {attr1, attr2}
    OuterEdits <- AnyPart
    Startup <- OnePassword
    MaxEdits = 3
    NoFile = NoFile
    NoReveal = NoReveal
    NoPassword = NoPassword
SPECIFICATION Spec
CHECK_DEADLOCK FALSE
INVARIANTS
    ShownIsEncrypted
    UpdatesSucceed
    MacFollowsTheEdit
PROPERTY
    IsAVault
