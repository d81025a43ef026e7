CONSTANTS
    e1 = e1  e2 = e2
    d1 = d1  d2 = d2  d3 = d3
    p1 = p1  p2 = p2  p3 = p3
    o1 = o1  o2 = o2
    NumTasks = 2
    Emails = {e1}
    EmailOf <- CopyEmailOf
    Docs = {d1, d2, d3}
    DocsOf <- CopyDocsOf
    Content <- CopyContent
    Parts = {p1, p2, p3}
    Blank = p3
    PartsOf <- CopyPartsOf
    Labels = {"calculation", "review"}
    Dictionaries <- CopyDictionaries
    Operators = {o1, o2}
    BatchSize = 1
    MaxRequests = 3
    MaxFaults = 0
    MaxCrashes = 0
SPECIFICATION Spec
SYMMETRY OperatorSymmetry
INVARIANT QuestionsReachOperator
PROPERTY ImplementsDesk
CHECK_DEADLOCK FALSE
