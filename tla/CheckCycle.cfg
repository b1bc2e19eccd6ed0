CONSTANTS
  Order <- MCOrder
  InfoOnly = {"VERSION"}
  UrlParsed = {"LDAP"}
  JsonObject = {"KEYCLOAK", "VERSION", "ELASTICSEARCH"}
  FreeStatus = {"ELASTICSEARCH"}
  Systems = {"s1", "s2"}
  Names = {"a", "b"}
  Rows <- MCRows
  Seeds <- MCSeeds
  Ups = {"up"}
  Downs = {"refused"}
  MaxEdits = 1
  MaxFaults = 2
SPECIFICATION FairSpec
INVARIANTS IInv ProbesAreForeseen AliveIsUpAndDeadIsDown OneResultPerCheck ResultsAgreeWithGauges CycleCoversCatalog
PROPERTIES ChangesTakeEffectUnlessRaising ServesAgain
