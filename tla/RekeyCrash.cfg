CONSTANTS
    root = root
    cert = cert
    crl = crl
    plain = plain
    xmss = xmss
    ca = ca
    key1 = key1
    key2 = key2
    key3 = key3
    Issued = {cert, crl}
    Root = root
    Keys = {plain, xmss}
    OneTime = {xmss}
    Algorithm <- EachItsOwn
    First = plain
    Authority = ca
    KeyPaths = {key1, key2}
    FirstPath = key1
    Leaves = 3
    Environment = {"crash"}
SPECIFICATION Spec
CHECK_DEADLOCK FALSE
INVARIANTS
    OneMessagePerIndex
