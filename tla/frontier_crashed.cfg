SPECIFICATION FairSpec
CONSTANTS
    a = a
    b = b
    A = A
    B = B
    w1 = w1
    w2 = w2
    s1 = s1
    p1 = p1
    p2 = p2
    p3 = p3
    Urls = {a, b}
    Hosts = {A, B}
    HostOf <- TwoHosts
    Links <- Mutual
    Unstable = {}
    Seeds <- SeedA
    MaxDepth = 2
    ScanWindow = 2
    Threads = {w1, s1}
    Workers = {w1}
    Procs = {p1, p2}
    ProcOf <- OneWorker
    MaxFaults = 1
PROPERTIES
    AbandonedUrlReturns
