SPECIFICATION Spec
CONSTANTS
    ia = ia
    ib = ib
    hx = hx
    hy = hy
    ho = ho
    http = http
    ipp = ipp
    ic = ic
    txt1 = txt1
    ip1 = ip1
    ip2 = ip2
    ip3 = ip3
    None = None
    Searches = {q1}
    Browses = {b1, b2}
    QueueLen = 2
    Queries <- QueriesOf
    Services = {http}
    Packets <- AllPackets
    Own <- OwnOf
    Data = {ia, ib, hx, hy, ho, http, ipp, ic, txt1, ip1, ip2, ip3}
    MaxInputs = 4
CHECK_DEADLOCK FALSE
INVARIANTS SearchInv EndsRightly AddressesBelong BrowseInStep
PROPERTY QueryAnswered
