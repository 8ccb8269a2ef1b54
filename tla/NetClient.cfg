CONSTANTS
    IndexModulus = 2
    NetHardware <- MCNetHardware
    NoFrame = NoFrame
    mk = mk
    mg = mg
    md = md
    mw = mw
    Mac = mk
    Macs <- MCMacs
    Broadcast = broadcast
    NoMac = nomac
    ZeroAddress <- MCZero
    NoOption = NoOption
    DnsQueryId = 5
    EchoId = 7
    QueryName <- MCQueryName
    SeqModulus = 16
    InitialSequence = 14
    RequestLength = 3
    PollBudget = 2
    OwnerOf <- MCOwnerOf
    Answers <- MCAnswers
CHECK_DEADLOCK FALSE
SPECIFICATION Spec
INVARIANTS BuffersKept LeaseAsRequested PacketsRouted ResponseOfThisConnection
PROPERTIES WaitsEnd
