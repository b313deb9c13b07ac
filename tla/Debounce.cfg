SPECIFICATION Spec
CONSTANT StableFrames = 3
INVARIANTS TypeOK PromptTurn
PROPERTIES OneTurnPerPress TurnNeedsStableLow HeldButtonTurns
