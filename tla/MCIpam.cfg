CONSTANTS
    Nets <- MCNets
    Subnets <- MCSubnets
    Names <- MCNames
    NameOf <- MCNameOf
    Existing <- MCExisting
    Ips <- MCIps
    Macs <- MCMacs
    NetType <- MCNetType
    NetOf <- MCNetOf
    Cidr <- MCCidr
    Requests <- MCRequests
    MaxIfaces = 2
    MaxIpams = 2
    MaxChanges = 2
    Empty = Empty
    None = None
SPECIFICATION Spec
INVARIANTS
    StaticAddressFits
    AttachedWhereAsked
    OwnAddress
    ViewSurvivesDeletion
CHECK_DEADLOCK FALSE
