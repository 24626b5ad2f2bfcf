\* Two keys with values of every layout, the main map and two groups, memory that may
\* run out.  No step reads rsp or call: the view leaves them out.
SPECIFICATION ApiSpec
VIEW Contents
CONSTANTS
  Keys = {1, 2}
  Groups = {g1, g2}
  Main = Main
  ValuesFor <- MixedValues
  MayStarve = TRUE
  NoEntry = NoEntry
  NoGroup = NoGroup
  None = None
  NoCall = NoCall
INVARIANTS TypeOK TagMatchesVariant
PROPERTIES HalfStoredIsReported SetAppliesAPrefix AddNeverOverwrites GroupsAreApart
  ServesWhileMemoryLasts WritesAreDoneOrRaise
