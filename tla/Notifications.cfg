SPECIFICATION FairSpec
CONSTANTS
    Delivery = {d1, d2}
    WebPush = {d2}
    MaxRetries = 1
    MaxMishaps = 1
    MaxMessages = 1
INVARIANTS DeliveryInv
PROPERTIES NothingAfterCancel DeliveriesSettle
CHECK_DEADLOCK FALSE
