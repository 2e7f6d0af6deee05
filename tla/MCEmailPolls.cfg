CONSTANTS
    Copies <- SmallCopies
    Messages <- SmallMessages
    MessageOf <- SmallMessageOf
    Outcome <- SmallOutcome
    Attachments <- SmallAttachments
    Limit = 2
    LogLimit = 0
    Polls = {p1, p2}
    Faults = {"upload", "record", "flag", "crash"}
    MaxFaults = 2
    None = None
SPECIFICATION FairSpec
INVARIANTS TypeOK NothingLost
    OnceUnlessDisturbed
CHECK_DEADLOCK FALSE
PROPERTIES EveryMessageHandled ImplementsInbox
