SPECIFICATION Spec
CONSTANTS
    Absent = Absent
    Names = {"s"}
    Namespaces <- MCNamespaces
    Pairs <- MCPairs
    Contents = {"x", "y"}
    Uses <- ThreeUses
    Stores <- AllStores
    MaxFaults = 1
    MaxRenewals = 2
INVARIANTS
    TypeOK
    LookupFindsMeant
PROPERTIES
    OnlyTargetsAdded
    MismatchIsWarned
