SPECIFICATION FairSpec
CONSTANT MaxRare = 1
PROPERTY DropNoticed
CHECK_DEADLOCK FALSE
