SPECIFICATION Spec
CONSTANT MayFail = {"game_thread", "exec_env"}
INVARIANT ReportsTruth
