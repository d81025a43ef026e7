CONSTANTS
    l1 = l1  l2 = l2
    Logins = {l1, l2}
    MaxEvents = 4
    MaxReplies = 2
SPECIFICATION FairSpec
INVARIANTS
    TypeOK
    StoredRefreshUsable
    LoginSurvives
    DuplicateExplained
PROPERTIES
    ShutdownFinishesReplies
    MailboxServed
