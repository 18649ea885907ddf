SPECIFICATION HorusSpec
CONSTANTS
  Words = {empty, tor}
  NoWord = empty
  LocalHits <- Local
  OnionHits <- Onions
  SearxHits <- Meta
  Shards <- Peers
  HasSearx = TRUE
  Cap = 3
  ChannelSize = 2
  MaxSearches = 3
  None = none
INVARIANTS HorusTypeOK OwnAnswerInv PendingIsLiveInv MergedInv
PROPERTIES SearchEnds
