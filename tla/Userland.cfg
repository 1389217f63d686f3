CONSTANTS
    StackData = {1, 2}
    stackMax = 3
    LsData = {1, 2}
    LsMax = 2
    LsNodes = {n0, n1}
    LsHead = head
    LsNULL = NULL
    SlData = {1, 2}
    SlMax = 3
    LlData = {1, 2}
    LlMax = 2
    LlNodes = {n0, n1, n2}
    LlHead = head
    LlNULL = NULL
    MaxArray = 4
    MaxValue = 3
    MaxGrid = 3
    Numbers = {2, 3}
    OperatorCodes = {37, 42}
    MaxLeaves = 4
    MaxBrackets = 10
    STACK_SIZE = 4
    MaxPowers = 4
    MaxKeys = 4
    FrameLengths = {60, 63, 64, 65, 1514, 1999, 2000, 2001, 2027, 2028, 4000, 4096}
    MaxSendErrors = 2
    TcpClients = {c0, c1}
    TcpLines <- MCTcpLines
    QuitWord <- MCQuitWord
    BUF_SIZE = 4
    MaxTyped = 3
    UdpClients = {c0, c1}
    MaxUdpSent = 3
    MaxExecErrors = 2
    MaxStops = 2
    MaxSignals = 2
SPECIFICATION Spec
INVARIANTS
    SortsAgree
    SearchesFind
    NotationsAgree
    TreesKeepOrder
    FramesFit
    EchoIsOwn
    WaitingIsAnswered
PROPERTIES
    StacksImplementStack
    ListsImplementList
    PulledUpAgain
CHECK_DEADLOCK FALSE
