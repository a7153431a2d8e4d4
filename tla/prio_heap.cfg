SPECIFICATION Spec
CONSTANTS
    Key = {1, 2, 3}
    MaxSize = 9
PROPERTY ImplementsPriorityQueue
