CONSTANTS
    Nodes = {n1, n2, n3, n4}
    Objects = {1, 2, 3}
    NULL = NULL
SPECIFICATION Spec
INVARIANTS
    TypeOK
    OneCircle
PROPERTIES
    ImplementsObjectList
