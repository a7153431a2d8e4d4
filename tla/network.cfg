SPECIFICATION FairSpec
CONSTANTS
    Networks <- MCNetworks
    Hops <- MCHops
    Senders <- MCSenders
    Destinations <- MCDestinations
    VNet = {0, 1}
    OrderedVNet = {1}
    LinkBandwidth = 2
    Size = 3
    AdaptiveRouting = TRUE
    MaxMessages <- MCMaxMessages
INVARIANTS
    ExactlyOneCopy
    PointToPointOrder
    ShortestWay
PROPERTY AllDelivered
CHECK_DEADLOCK FALSE
