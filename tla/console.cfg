SPECIFICATION ConsoleSpec
CONSTANTS
    a = a
    b = b
    c = c
    A = A
    w1 = w1
    s1 = s1
    p1 = p1
    p2 = p2
    Urls = {a, b, c}
    Hosts = {A}
    HostOf <- OneHost
    Links <- DeadLink
    Unstable = {c}
    Seeds <- TwoBatches
    MaxDepth = 1
    ScanWindow = 2
    Threads = {w1, s1}
    Workers = {w1}
    Procs = {p1, p2}
    ProcOf <- TwoProcs
    MaxFaults = 1
    MaxCommands = 1
INVARIANTS
    ConsoleTypeOK
    SeenSurvivesClear
    StatsNeverOvercount
    AnsweredIsSeen
