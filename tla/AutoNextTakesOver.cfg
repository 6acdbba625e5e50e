SPECIFICATION Spec
CONSTANTS
    MaxStreams = 3
    MaxPrompts = 2
    MaxClicks = 0
PROPERTIES
    SparesOtherStreams
CHECK_DEADLOCK FALSE
