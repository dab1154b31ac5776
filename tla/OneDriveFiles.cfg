SPECIFICATION FairSpec
CONSTANTS
  MaxName = 3
  PageSize = 1
  MaxVersion = 2
INVARIANT TypeOK
INVARIANT PagesDeletedOnce
INVARIANT ListingSound
INVARIANT BearerOnlyToGraph
INVARIANT EffectKnown
PROPERTY CallReturns
