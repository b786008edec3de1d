SPECIFICATION FairLedgerSpec
CONSTANTS
  r1 = r1
  r2 = r2
  r3 = r3
  t1 = t1
  t2 = t2
  t3 = t3
  m1 = m1
  vendor = vendor
  labs = labs
  doc = doc
  lab = lab
  echo = echo
  affirmed = affirmed
  denied = denied
  echoed = echoed
  first = first
  late = late
  preview = preview
  ga = ga
  again = again
  agent = agent
  Processes = {operator, service}
  Operators = {operator}
  Releases = {r1, r2, r3}
  Shipped <- Migrations
  Lineage <- Lineages
  Method <- Methodologies
  Taxonomies = {t1, t2, t3}
  Methods = {m1}
  MaxDeploys = 1
  MaxKills = 1
  None = None
  Sources = {vendor, labs}
  Forms <- BothForms
  Cards = {doc, lab, echo}
  Evidence <- Corpus
  Claims = {affirmed, denied, echoed}
  Claim <- Statements
  Sightings = {first, late}
  Sighting <- Visits
  Announcements = {preview, ga, again}
  Event <- Feed
  Demo <- Packet
  MaxTransactions = 2
  MaxRows = 3
INVARIANT LedgerTypeOK
INVARIANT MigrationsRunOnce
INVARIANT OneLineage
INVARIANT AvailabilityMovesForward
INVARIANT ValidationIsEarned
PROPERTY NothingIsLost
PROPERTY ScopeMovesForward
PROPERTY LooksSerial
PROPERTY StartsSucceed
CHECK_DEADLOCK FALSE
