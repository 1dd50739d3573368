SPECIFICATION FairSpec
CONSTANTS
  Atoms <- MCAtoms
  FedName <- MCFedName
  Requests <- MCRequests
  Outside <- MCOutside
  MaxMessages = 1
INVARIANT
  TypeOK
  DeliveredAsAddressed
  LookupFindsInstalled
  NoneAstray
PROPERTIES
  EventuallyDelivered
