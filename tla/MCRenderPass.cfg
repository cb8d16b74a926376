SPECIFICATION Spec
CONSTANTS
  Renderables <- SceneObjects
  Texts <- SceneTexts
  MaxPool = 3
  MaxSprites = 2
  Earlier = Earlier
  None = None
INVARIANTS TypeOK EveryDrawIsItsOwn DrawnInLayerOrder FrameIsComplete
