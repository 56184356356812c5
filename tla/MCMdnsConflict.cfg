SPECIFICATION Spec
CONSTANTS
    n1 = n1
    n2 = n2
    Itfs = {sta}
    Protos = {v4}
    Svcs = {s1}
    None = None
    MaxServices = 1
    Nodes = {n1, n2}
    Ip <- IpOf
    MaxLoss = 2
    MaxRestarts = 1
INVARIANTS DistinctWhenSettled ClaimsInv
PROPERTY EventuallySettled
