SPECIFICATION Spec
CONSTANTS
    ChannelCap = 1
    MaxPackets = 2
    MaxPauses = 1
    MaxPause = 1
    MaxCards = 2
    MaxSegments = 2
PROPERTIES
    TracksStayAligned
CHECK_DEADLOCK FALSE
