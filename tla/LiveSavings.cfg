CONSTANTS
    Frames = 3
    Increments = {1, 3}
    Totals = {0, 1, 4}
    MaxChanges = 3
    MaxSockets = 2
    PollFrames = 5
SPECIFICATION Spec
INVARIANTS
    OneListener
PROPERTIES
    DisplayCatchesUp
    
