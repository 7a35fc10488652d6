SPECIFICATION Spec
CONSTANTS
  t1 = t1
  t2 = t2
  Threads <- TwoThreads
  Uses <- EachUse
  Listing <- Listings
  Directories <- Dirs
  ParentsFirst = TRUE
  Names <- NewNames
  RootNames = {"/", ""}
  Orphans = 1
  Remotes <- SomeRemotes
  MoveDirectories = FALSE
  MaxFiles = 11
  MaxMade = 4
  MaxCopied = 7
  MaxAdded = 2
INVARIANTS TypeOK PathsAreListed AbsolutePathsAreListed DirectoriesOnce EntriesAreThere AddedOncePerThread
