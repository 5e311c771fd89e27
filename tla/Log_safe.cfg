CONSTANTS
    g1 = g1
    g2 = g2
    Goroutine = {g1, g2}
    Flusher = flusher
    Site = {"s1", "s2"}
    Writer = {"terminal", "net", "file"}
    Failing = {"net"}
    root = "root"
    child = "child"
    childCtx <- MCChildCtx
    Messages <- MCMessages
    Nested <- MCNested
    Levels = {4}
    Traced = {"s1"}
    Rulesets <- MCRulesets
    Trees <- MCTrees
    First <- MCFirst
    Configured <- MCConfigured
    Flushed <- MCFlushed
    bufSize = 1
    Backup <- MCBackup
    MaxLog = 1
    MaxChange = 1
SPECIFICATION Spec
CHECK_DEADLOCK FALSE
INVARIANTS CacheFresh DecisionExplained LinesComplete LazyOnlyIfLogged FailoverExplained CritLogged
PROPERTIES LoggerCtxKept LogReturns
