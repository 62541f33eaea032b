SPECIFICATION SigSpec
CONSTANTS
    Subscribers = {s1, s2, s3}
    SignatureCalls = {s1, s2}
    SubscriptionIds = {k1, k2}
    MaxNotifications = 2
INVARIANTS
    OwnedUntilCancelled
    DeliveredInOrder
    VerdictIsOwn
PROPERTIES
    EverySignatureCallEnds
CHECK_DEADLOCK FALSE
