SPECIFICATION MeetingSpec
CONSTANTS
    Requests = {h1, h2}
    Browsers = {b1}
    Signers = {notary, client, witness}
    Notary = notary
    MaxIntents = 2
INVARIANT TypeOK
INVARIANT InSessionRoomOpen
PROPERTY KeepsPromise
PROPERTY CanStartIsRefreshed
PROPERTY SignedIsCompleted
PROPERTY PaidAndRecorded
CHECK_DEADLOCK FALSE
