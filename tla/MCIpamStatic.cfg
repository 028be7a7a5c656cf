CONSTANTS
    Nets <- MCNets
    Subnets <- MCSubnets
    Names <- MCNames
    NameOf <- MCNameOf
    Existing <- MCExisting
    Ips <- MCIps
    Macs <- MCMacs
    NetType <- MCNetType
    NetOf <- MCNetOf
    Cidr <- MCCidr
    Requests <- MCRequests
    MaxIfaces = 1
    MaxIpams = 1
    MaxChanges = 0
    Empty = Empty
    None = None
SPECIFICATION Spec
INVARIANT StaticIpIsPlaced
CHECK_DEADLOCK FALSE
