CONSTANTS
    t1 = t1  t2 = t2
    Tasks = {t1, t2}
    NoTask = none
    EmailNo <- Alike
    FirstRows <- OneReview
    MaxTyped = 2
    MaxEvents = 2
    MaxLoads = 1
SPECIFICATION Spec
INVARIANT TypedInputIsPosted
