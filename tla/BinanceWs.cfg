SPECIFICATION Spec
CONSTANTS
  MaxSends = 3
  MaxReceived = 2
INVARIANTS NothingLost
PROPERTIES SubscriptionSent
