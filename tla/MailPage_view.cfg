CONSTANTS
    t1 = t1  t2 = t2
    Tasks = {t1, t2}
    NoTask = none
    EmailNo <- Alike
    FirstRows <- OneReview
    MaxTyped = 1
    MaxEvents = 2
    MaxLoads = 2
SPECIFICATION FairSpec
INVARIANTS
    TypeOK
    DraftKept
    CounterExplained
    PostedIsRecent
PROPERTIES
    TypingUndisturbed
    PageCatchesUp
