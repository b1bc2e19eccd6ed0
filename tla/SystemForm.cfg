CONSTANTS
  Types = {"DATABASE", "KEYCLOAK", "SSL", "TCP", "HTTP", "VERSION"}
  Users = {"u"}
  Texts <- MCTexts
  Entries <- MCEntries
  Strip <- MCStrip
  Fits <- MCFits
  Mirror <- MCMirror
  Canonical <- MCCanonical
SPECIFICATION FormSpec
INVARIANTS FormIInv AcceptedIsChecked OpenAndSaveIsHarmless SavedFormIsShownAgain FailuresAreKnown
