\* Room for six headers of two bytes.
CONSTANTS
    Start = 1
    Size = 13
    Header = 2
    Requests = {0, 1, 3, 9}
SPECIFICATION FairSpec
INVARIANTS HeapInv FirstFit HeapRestored
PROPERTIES ImplementsBlockHeap MallocReturns
