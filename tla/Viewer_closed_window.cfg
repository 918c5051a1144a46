\* The user closes the window while the first frame is on its way.
CONSTANTS
    Total = 4
    MaxSnapshots = 0
SPECIFICATION Spec
PROPERTY ReaderUsesOpenWindow
CHECK_DEADLOCK FALSE
