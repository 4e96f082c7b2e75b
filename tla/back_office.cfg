\* The components administrators and users work on, each with its own
\* concurrent requests.
SPECIFICATION MCSpec
CONSTANTS
  \* Releases
  Platforms = {"mac", "win"}
  Publishers = {"p1", "p2"}
  MaxContents = 2
  MaxRows = 2
  MaxKeys = 2
  MaxPublications = 2
  \* ReleaseFeed
  Versions = {1, 2, 3}
  FeedPlatforms = {"mac", "win"}
  Window = 1
  Limits = {1, 2}
  \* Team
  Users = {"ann", "bob", "cy"}
  AdminEmails = {"ann"}
  FirstAdmin = "ann"
  Desks = {1, 2}
  Connections = {"k1", "k2"}
  InvitedAs = {"admin", "owner"}
  NoUser = "none"
  MaxTurns = 6
  \* SignIn
  Clerks = {1, 2}
  MaxAttempts = 2
  MaxRecent = 2
  MaxCodes = 2
  MaxTokens = 4
  MaxSignInFaults = 1
  \* Catalog
  Products = {"q1", "q2", "q3"}
  Plans = {"p1", "p2"}
  Prices = {"price"}
  Addons = {"a1"}
  Licenses = {"l1"}
  Admins = {"d1", "d2"}
  Stock = {"q1", "q2"}
  None = None
  Features = {"activations", "seats", "floating"}
  MaxEdits = 6
INVARIANTS TypesAndLocks OneKey FeedIsTrue CodesBounded  CatalogConsistent
PROPERTIES ShippedIsFrozen SomeOwner
CHECK_DEADLOCK FALSE
