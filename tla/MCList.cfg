SPECIFICATION Spec
CONSTANTS
    NULL = NULL
    e1 = e1
    e2 = e2
    e3 = e3
    Lists = {l1, l2}
    Elems <- MCElems
    Key <- MCKey
INVARIANTS TypeOK WellFormed
PROPERTIES SortedInsertKeepsOrder EachCallImplemented ImplementsListSpec
