CONSTANT MaxQueries = 3
SPECIFICATION FairSpec
INVARIANTS ReplyIsHeld CleanQueryGetsItsOwn NothingFromLater
PROPERTIES ReaderGoneReleases
CHECK_DEADLOCK FALSE
