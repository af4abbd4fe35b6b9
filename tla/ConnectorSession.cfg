SPECIFICATION FairSpec
CONSTANTS
  Item <- MCItem
  Stock <- MCStock
  Table <- MCTable
  Limit = 2
  Grain = 2
  TokenLife = 2
  Margin = 1
  MaxTime = 4
  None = None
INVARIANTS
  TypeOK
  UntouchedIsListed
  QuietListingIsExact
  FetchIsAuthorized
PROPERTY
  ListingEnds
CHECK_DEADLOCK FALSE
