SPECIFICATION Spec
CONSTANTS
  phone = phone
  None = None
  Connectors = {k1, k2}
  Conns = {c1, c2}
  Devices = {phone}
  DeviceOf <- MCDeviceOf
  Kinds <- MCKinds
  Capacity = 1
  MaxDrops = 2
INVARIANTS NewestReachable ClosedOnlyIfOvertaken ReceivedInOrder OnlineOrOffline
PROPERTIES LostIsReleased
CHECK_DEADLOCK FALSE
