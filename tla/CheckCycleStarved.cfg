CONSTANTS
  Order <- MCOrder
  InfoOnly = {"VERSION"}
  UrlParsed = {"LDAP"}
  JsonObject = {}
  FreeStatus = {}
  Systems = {"s1", "s2"}
  Names = {"a", "b"}
  Rows <- MCRows
  Seeds <- TwoSystems
  Ups = {"up"}
  Downs = {"refused"}
  MaxEdits = 1
  MaxFaults = 0
SPECIFICATION FairSpec
PROPERTY ChangesTakeEffect
