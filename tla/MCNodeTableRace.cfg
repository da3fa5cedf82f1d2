SPECIFICATION Spec
CONSTANTS
    n1 = n1
    n2 = n2
    n3 = n3
    me = me
    b1 = b1
    c1 = c1
    None = None
    Nodes = {n1, n2, me}
    Self = me
    Allowed = {n1, n2}
    Clients = {c1}
    Restored = {}
    Bins = {b1}
    bucketOf <- OneBin
    s_bucketSize = 1
    s_alpha = 1
    s_maxSteps = 1
    c_reqTimeout = 0
    MaxGen = 2
    MaxEvictions = 1
INVARIANTS
    TabledNodesAnnounced
