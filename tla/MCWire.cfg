SPECIFICATION Spec
CONSTANTS
    Services <- AllServices
    Peers <- Senders
    Height <- SampleHeight
    MaxHeight = 4
    MaxNo = 15
INVARIANTS WireTypeOK RoundTrip JsonRoundTrip
PROPERTY DecodeReturns
CHECK_DEADLOCK FALSE
