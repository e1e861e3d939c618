SPECIFICATION Spec
CONSTANTS
  Durable = FALSE
  Capacity = 2
  PageSize = 2
  InitialBackoff = 1
  MaxBackoff = 3
  Producers = {"call_event", "dial_ack", "heartbeat", "hardware_alert"}
  MaxSends = 3
  MaxInbound = 1
  MaxFaults = 0
  MaxRestarts = 2
PROPERTY ImplementsOrderedDelivery
CHECK_DEADLOCK FALSE
