\* A get that failed returns as if the key were missing.
SPECIFICATION ApiSpec
CONSTANTS
  Keys = {1}
  Groups = {g1}
  Main = Main
  ValuesFor <- FewValues
  MayStarve = TRUE
  NoEntry = NoEntry
  NoGroup = NoGroup
  None = None
  NoCall = NoCall
PROPERTIES FailuresAreRaised
