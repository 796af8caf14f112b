SPECIFICATION FairSpec
CONSTANTS
  SDCCH = {1}
  TCH = {2}
  Handsets = {h1, h2}
  None = None
  T3101 = 2
  T3107 = 1
  T3109 = 2
  T3111 = 1
  MaxSetup = 2
  Reach = 1
  RadioLinkTimeout = 1
  T3110 = 0
  Reserve = 0
  T3122Min = 3
  T3122Max = 3
  MaxRach = 1
INVARIANTS TypeOK AlwaysTimed 
PROPERTIES  Recovered
