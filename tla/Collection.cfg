SPECIFICATION FairSpec
CONSTANTS
  s1 = s1
  s2 = s2
  o1 = o1
  o2 = o2
  page1 = page1
  page2 = page2
  robots1 = robots1
  robots2 = robots2
  old = old
  new = new
  junk = junk
  html = html
  note = note
  Sources = {s1, s2}
  Urls = {page1, robots1, page2, robots2}
  Origins = {o1, o2}
  OriginOf <- Hosts
  RobotsOf <- RobotsFiles
  Home <- Pages
  Domains <- Allowlists
  Rulings = {{}, {page1, page2}}
  Responses <- Answers
  NoPage = NoPage
  MaxRetries = 1
  MaxRedirects = 1
  Configured <- TwoSources
  Bodies = {old, new, junk}
  ContentTypes = {html, note}
  Texts = {old, new}
  Garbled = Garbled
  TextOf <- Normal
  Forms = {v1, off}
  Approved = {v1}
  None = None
  MaxBatches = 2
  MaxEdits = 1
  MaxFaults = 1
  MaxKills = 1
INVARIANT TypeOK
INVARIANT RequestsAreAllowed
INVARIANT RequestsAreBounded
INVARIANT RowsHaveFiles
 
INVARIANT TextsAreDistinct
INVARIANT CacheGivesWhatWasSent
PROPERTY BatchIsAtomic
PROPERTY EveryBatchEnds
CHECK_DEADLOCK FALSE
