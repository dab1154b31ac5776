SPECIFICATION Spec
CONSTANTS
  graph = graph
  session = session
  Url <- Urls
  NoUrl = noUrl
  Header <- Headers
  Word = 16
  FirstSize = 2
  MaxChunk = 5
  MaxRequest = 2
SYMMETRY Symmetry
CHECK_DEADLOCK FALSE
INVARIANT TypeOK
INVARIANT NoOverrun
INVARIANT BodyIsResponse
PROPERTY NothingStale
