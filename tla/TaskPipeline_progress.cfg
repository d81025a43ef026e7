CONSTANTS
    e1 = e1  e2 = e2
    d1 = d1  d2 = d2  d3 = d3
    p1 = p1  p2 = p2  p3 = p3
    o1 = o1  o2 = o2
    NumTasks = 2
    Emails = {e1, e2}
    EmailOf <- TwoEmailOf
    Docs = {d1, d2, d3}
    DocsOf <- TwoDocsOf
    Content <- BrokenContent
    Parts = {p1, p2, p3}
    Blank = p3
    PartsOf <- TwoPartsOf
    Labels = {"calculation", "review"}
    Dictionaries <- TwoDictionaries
    Operators = {o1}
    BatchSize = 2
    MaxRequests = 2
    MaxFaults = 1
    MaxCrashes = 1
SPECIFICATION FairSpec
PROPERTY Settles
CHECK_DEADLOCK FALSE
