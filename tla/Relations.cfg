CONSTANTS
    root = root
    leaf = leaf
    third = third
    k1 = k1
    k2 = k2
    dn1 = dn1
    dn2 = dn2
    Files = {root, leaf, third}
    Keys = {k1, k2}
    Names = {dn1, dn2}
    ScanOrder <- Order
    Startups <- All
    Variants <- AllVariants
    MaxChanges = 2
    NoFile = NoFile
    Absent = Absent
    None = None
SPECIFICATION Spec
CHECK_DEADLOCK FALSE
INVARIANTS
    StatusMatchesTheArrow
    OneEntryPerFile
    ShownIsCurrent
PROPERTY
    ChangesAreNoticed
