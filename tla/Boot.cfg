SPECIFICATION Spec
CONSTANT MayFail = {"bus", "handles", "transaction", "init_thread", "runtime", "load", "instantiate", "exec_env", "game_thread"}
INVARIANTS TypeOK FlagTellsThread ThreadHasItsWorld CopyTellsOrientation PictureShows
PROPERTY GameIsLeftAlone
