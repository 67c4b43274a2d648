SPECIFICATION Spec
CONSTANTS
  alice = alice
  bob = bob
  hello = hello
  blank = blank
  NoClient = NoClient
  Users = {alice, bob}
  Gateways = {g1, g2}
  Requests <- MCRequests
  MaxSends = 2
  MaxFaults = 1
INVARIANTS TypeOK StoredOnce NumbersDistinct MailboxAgreesWithEvent PushedIsKept
PROPERTIES StoredStays AcceptedIsStored
CHECK_DEADLOCK FALSE
