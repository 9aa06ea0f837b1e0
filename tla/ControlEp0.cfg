SPECIFICATION Spec
CONSTANTS
    MaxPacketSize0 = 2
    ctrl_buf_len = 4
    Lengths <- MCLengths
    HostMay = {}
    MaxRequests = 3
CHECK_DEADLOCK FALSE
INVARIANTS
    ControlInv
    ReplyIsComplete
    OutcomesAgree
    AddressesAgree
PROPERTIES
    RequestsEnd
