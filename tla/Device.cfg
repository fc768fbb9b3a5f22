SPECIFICATION FairSpec
CONSTANTS
  Users = {"u1", "u2"}
  MaxOpens = 3
INVARIANT TypeOK
INVARIANT NothingLeaks
INVARIANT UsersServed
INVARIANT NoMessageAfterMark
PROPERTY DeviceFreed
