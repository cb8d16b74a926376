SPECIFICATION Spec
CONSTANT Digit <- AllDigits
INVARIANTS CallSucceeds FrameFindsLiveObjects RightSceneRuns NothingOutlivesScene
PROPERTIES PressAnswered QuitFreesAll
CHECK_DEADLOCK FALSE
