CONSTANTS
  NumFrames <- MCNumFrames
  Film = 2
  Full = 2
  Deltas <- MCDeltas
  MaxSkinEntities = 2
  MaxAnims = 2
  None = None
  blink = blink
  wave = wave
SPECIFICATION FairSpec
INVARIANT TypeOK
INVARIANT KeysEnclose
PROPERTY ImplementsPlayer
PROPERTY ClipsLoop
