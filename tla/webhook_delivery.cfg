SPECIFICATION DeliverySpec
CONSTANTS
    Deliveries = {d1, d2, c1}
    Closed = {c1}
    Requests = {p1, p2, p3}
    MaxSends = 7
    DeliveryFaults = {"fail", "crash", "redis", "late"}
SYMMETRY Symmetry
INVARIANT DeliveryTypeOK
INVARIANT OneRequestPerDelivery
INVARIANT DoneMeansHandled
INVARIANT HandledOnce
CHECK_DEADLOCK FALSE
