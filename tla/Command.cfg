SPECIFICATION Spec
CONSTANTS
  Processes <- OneProcess
  Commands <- SomeCommands
  DirCommands <- Listings
  Files <- SomeFiles
  IsDir <- DirOnly
  Options <- SomeOptions
  Words <- OptionWords
  CheckOptions <- LogOptions
  Names <- SomeNames
  Params <- SomeParams
  Paths <- AllPaths
  Usable <- UsablePaths
  MaxOptions = 1
INVARIANTS TypeOK CommandsTell WellFormed
