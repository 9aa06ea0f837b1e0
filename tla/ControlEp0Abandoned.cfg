SPECIFICATION Spec
CONSTANTS
    MaxPacketSize0 = 2
    ctrl_buf_len = 4
    Lengths <- MCLengths
    HostMay = {"abandon"}
    MaxRequests = 2
CHECK_DEADLOCK FALSE
INVARIANT
    StatusSubmitted
