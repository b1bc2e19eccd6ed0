CONSTANTS
  SystemIds = {"s", "t"}
  NodeIds = {"t"}
  Urls = {"u"}
  Abouts = {"old", "new"}
  Rows <- MCRows
  Seeds <- MCSeeds
  MaxEdits = 1
  MaxScrapes = 2
  MaxFaults = 1
SPECIFICATION FairSpec
INVARIANTS TypeOK AnswersInOrder EveryResultIsLogged
PROPERTY LoggedAgainAndAgain
