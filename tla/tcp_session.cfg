SPECIFICATION FairSpec
CONSTANTS
    Messages <- MCMessages
    BufferSize = 8
    MaxRead = 30
    MaxSent = 3
CHECK_DEADLOCK FALSE
INVARIANTS
    TypeOK
    ReadsStayInBuffer
    MessagesArriveInOrder
PROPERTIES
    OnlySplitTailsStop
    AllArrive
