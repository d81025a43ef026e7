CONSTANTS
    none = none
    Delims <- MCDelims
    Letters <- MCLetters
    Orders <- MCOrders
    Unlisted <- MCUnlisted
    Blacklist <- MCBlacklist
    NoAnswers = none
    MaxRefused = 1
SPECIFICATION Spec
INVARIANTS
    TypeOK
    RaisedForCause
    NothingLost
    PartsWellFormed
    RowsReadByMeaning
    BooksHoldRows
    AsksEverythingAtOnce
CHECK_DEADLOCK FALSE
