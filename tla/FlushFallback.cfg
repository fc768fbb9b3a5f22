SPECIFICATION FairSpec
CONSTANTS
  f1 = f1
  f2 = f2
  f3 = f3
  NoFb = NoFb
  Fbs <- TwoFbs
  Len <- OneSize
  Bands = 1
  MaxFrames = 2
  Env = {"allocFail"}
PROPERTY FallbackShows
