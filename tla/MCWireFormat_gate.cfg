CONSTANTS
    NestingCap = 8
    IdCap = 2
    SigCap = 3
    NonceCap = 1
    IdTextCap = 4
    EventCap = 90
    EmbeddedCap = 30
    AcceptanceCap = 20
    WitnessesCap = 2
    EndpointsCap = 2
    NameCap = 4
    HostnameCap = 5
    EmailCap = 4
    LabelCap = 2
    SmallCap = 30
    PushCap = 210
    PushEventsCap = 2
    GetCap = 2
    ListCap = 2
    ForksCap = 2
    RejectMsgCap = 3
    FrameCap = 500
    BundleCap = 200
    BundleEventsCap = 2
    AcceptanceFileCap = 31
    DescriptorCap = 121
    U32Cap = 3
    U64Cap = 4
    TimestampCap = 2
    LinkEndpointsCap = 2
    EventLimitCap = 2
    KnownDefaultCap = 1
    Messages <- MCMessages
    Keys = {"k1", "k2", "k3"}
    GroupBits = 2
    Width = 5
    MaxBytes = 4
    MaxChars = 6
    MaxParts = 4
    MaxEdits = 2
SPECIFICATION ApiSpec
CHECK_DEADLOCK FALSE
INVARIANTS
    OneSpelling
    MessagesCarryWhatWasMeant
    ExactlyOwnPagesWrite
    CallsAreSound
