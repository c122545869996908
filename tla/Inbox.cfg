SPECIFICATION CrawlOrReadSpec
CONSTANTS
  v1 = v1
  v2 = v2
  w1 = w1
  w2 = w2
  b1 = b1
  b2 = b2
  a1 = a1
  a2 = a2
  a3 = a3
  Readers = {v1, v2}
  Words = {w1, w2}
  Subscriptions = {b1, b2}
  Articles = {a1, a2, a3}
  WordsOf <- MCWordsOf
  PageSize = 1
  Nobody = Nobody
  h1 = h1
  h2 = h2
  h3 = h3
  u1 = u1
  u2 = u2
  u3 = u3
  c1 = c1
  c2 = c2
  c3 = c3
  Titles = {h1, h2, h3}
  Tokens <- MCTokens
  Urls = {u1, u2, u3}
  NoUrl = NoUrl
  Enough = 2
  MaxPhrase = 4
  Inside <- MCInside
  Begins <- MCBegins
  Ends <- MCEnds
  Order <- MCOrder
  Html <- MCHtml
  Feeds <- MCFeeds
  Fed = {c3}
  Canonical <- MCCanonical
  Texts <- MCTexts
  TopChannel = 2
  TopAll = 3
  MinChannels = 2
  MaxKeywords = 2
  SearchSize = 1
  MaxCrawls = 2
  None = None
INVARIANTS
  CrawlOrReadTypeOK
  SubscribersAreTold
  PagesShowAll
  StoredListsAgree
  MatchingIsFounded
SYMMETRY
  Interchangeable
CHECK_DEADLOCK FALSE
