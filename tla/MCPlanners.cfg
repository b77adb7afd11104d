SPECIFICATION PlannersSpec
CONSTANTS
  Galaxies <- SomeGalaxies
  HoldSize = 1
  MaxJobs = 3
  MaxLost = 2
  GoodsJobs <- Errands
  Scenes <- TwoScenes
  ItemOrder <- OreAndGas
  ItemSize <- SizeOf
  Capacity = 4
  MaxPrice = 2
  MaxErrands = 1
  MaxMeddling = 1
  Words <- SomeWords
  Unsigned <- SomeUnsigned
  Signed <- SomeSigned
  Plain <- SomePlain
  Spaced <- SomeSpaced
  Removed <- SomeRemoved
  Aliases <- SomeAliases
  SameName <- SomeSameName
  Statements <- SomeStatements
  Requests <- SomeRequests
  Knowledge <- SomeKnowledge
INVARIANTS
  
  SavedScriptsRestore
  ShownActionsReadBack
  TripsAreShortest
  EndsAreTrue
  KeepsToTheOrder
  

  
CHECK_DEADLOCK FALSE
