-------------------------------- MODULE MCLog --------------------------------
(***************************************************************************)
(* Two goroutines log at two sites, first through main.go's glog handler   *)
(* on the terminal; the root's handler may be swapped for one that fails   *)
(* over from a net connection to a file, or for a buffered one.            *)
(***************************************************************************)
EXTENDS Log, TLC

Message(l, lvl, site, args, odd) == [l |-> l, lvl |-> lvl, site |-> site, args |-> args, odd |-> odd]

MCChildCtx == <<Pair("alive", "lazy")>>
MCNested == Message("root", LvlInfo, "s1", <<>>, FALSE)
CONSTANTS g1, g2
MCMessages ==
    (g1 :> {Message("child", LvlDebug, "s1", <<>>, FALSE),
            Message("root", LvlCrit, "s1", <<Pair("k", "bad")>>, FALSE)}) @@
    (g2 :> {Message("root", LvlError, "s2", <<Pair("k", "logs")>>, TRUE)})

Rule(sites, level) == [sites |-> sites, level |-> level]
MCRulesets == {<<Rule({"s1"}, 0), Rule({"s1"}, LvlDebug)>>, <<Rule({"s2"}, LvlDebug)>>}
MCConfigured == {[level |-> LvlInfo, patterns |-> <<>>],
                 [level |-> LvlError, patterns |-> <<Rule({"s1", "s2"}, LvlDebug)>>]}

MCFirst == NewGlogHandler(StreamHandler("terminal"))
MCFlushed == CallerFileHandler(StreamHandler("terminal"))
MCBackup == <<"net", "file">>
MCTrees == {
    [l |-> "root", h |-> MultiHandler(<<LvlFilterHandler(LvlError, FailoverHandler(<<StreamHandler("net"), StreamHandler("file")>>)),
                                        MatchFilterHandler("alive", "lazy", StreamHandler("terminal")), DiscardHandler>>)],
    [l |-> "root", h |-> ChannelHandler]}
=============================================================================
