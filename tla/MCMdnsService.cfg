SPECIFICATION Spec
CONSTANTS
    sta = sta
    Itfs = {sta}
    Protos = {"v4"}
    Svcs = {s1, s2}
    None = None
    MaxServices = 2
    QueueLen = 2
    Insts <- InstsOf
    Types = {"http"}
    Hostnames <- HostnamesOf
    Ports = {1}
    Subs <- SubsOf
    Items <- ItemsOf
    Asks <- AsksOf
    Net <- NetOf
    MaxInputs = 4
CHECK_DEADLOCK FALSE
INVARIANTS NoDanglingService TxQueueInv ProbesAlone CacheAgrees
