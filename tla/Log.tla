--------------------------------- MODULE Log ---------------------------------
(***************************************************************************)
(* Package log: goroutines log records through trees of handlers while     *)
(* others change the glog settings and swap handlers.                      *)
(*                                                                         *)
(* A handler is a record, its kind k and what it wraps.  A goroutine has a *)
(* stack of frames, one for every handler whose Log waits for another's;   *)
(* a handler that just returns another's Log is replaced by it.  A record  *)
(* is shared by all the handlers that it comes to: its context is an array *)
(* of ctxs, which LazyHandler changes in place and append copies.          *)
(***************************************************************************)
EXTENDS Integers, Sequences

CONSTANTS
    Goroutine, Flusher,     \* those who log; the goroutine of BufferedHandler
    Site, Writer,           \* call sites; where the streams write to
    Failing,                \* the writers whose Write may fail
    root, child,            \* the root logger, and one made by its New
    childCtx,               \* the context given to New
    Messages,               \* what each goroutine may log: [l, lvl, site, args, odd]
    Nested,                 \* what a lazy function logs that does
    Levels, Rulesets, Traced, Trees, \* what the settings are changed to
    First, Configured,      \* the handler of main.go, and its settings, in force at first
    Flushed,                \* the handler that the BufferedHandler wraps
    bufSize,                \* the size of its channel
    Backup,                 \* the writers that a FailoverHandler of Trees tries in turn
    MaxLog, MaxChange       \* bounds: records logged by a goroutine, changes of the settings

VARIABLES
    handler,        \* swapHandler.handler of each logger
    ctxOf,          \* logger.ctx
    settings,       \* level, patterns, location of the glog handler: all there have been
    siteCache,
    recs, ctxs,     \* the records, and the arrays of contexts
    g,              \* each goroutine: its stack, what the last Log returned, the records it has left,
                    \* and (for the properties) what the glog handler last decided
    mu,             \* who holds the mutex of each SyncHandler
    lines,          \* what each writer has written
    queue,          \* the channel of the BufferedHandler
    exited,
    changes,        \* of the settings and handlers so far
    tried, sent     \* records that came to a writer, to the channel (for the properties)

vars == <<handler, ctxOf, settings, siteCache, recs, ctxs, g, mu, lines, queue, exited, changes, tried, sent>>

Process == Goroutine \cup {Flusher}

LvlCrit == 0
LvlError == 1
LvlInfo == 3
LvlDebug == 4

errorKey == "LOG15_ERROR"
Pair(k, v) == [k |-> k, v |-> v]

----------------------------------------------------------------------------
(* Handlers.                                                                *)

DiscardHandler == [k |-> "discard"]
FilterHandler(fn, h) == [k |-> "filter", fn |-> fn, h |-> h]
MatchFilterHandler(key, value, h) == FilterHandler([by |-> "match", key |-> key, value |-> value], h)
LvlFilterHandler(max, h) == FilterHandler([by |-> "lvl", max |-> max], h)
CallerFileHandler(h) == [k |-> "caller", h |-> h]
MultiHandler(hs) == [k |-> "multi", hs |-> hs]
FailoverHandler(hs) == [k |-> "failover", hs |-> hs]
ChannelHandler == [k |-> "channel"]
LazyHandler(h) == [k |-> "lazy", h |-> h]
SyncHandler(w, h) == [k |-> "sync", w |-> w, h |-> h]
NewGlogHandler(h) == [k |-> "glog", h |-> h]
SwapHandler(l) == [k |-> "swap", l |-> l]

\* Lazy values are evaluated before the mutex is taken.
StreamHandler_SyncFirst(w) == SyncHandler(w, LazyHandler([k |-> "write", w |-> w]))
StreamHandler(w) == LazyHandler(SyncHandler(w, [k |-> "write", w |-> w]))

\* A frame: handler h has got record r; how far it is, and what it remembers
\* (from: the settings when its Log was called, for the properties).
Call(h, r) == [h |-> h, r |-> r, pc |-> "in", i |-> 1, x |-> "", v |-> "", out |-> <<>>, from |-> Len(settings)]

----------------------------------------------------------------------------
(* A goroutine's stack, the top first.                                      *)

Top(p) == Head(g[p].stack)
At(p, k, pc) == ~exited /\ g[p].stack # <<>> /\ Top(p).h.k = k /\ Top(p).pc = pc

Set(p, f) == [g EXCEPT ![p].stack = <<f>> \o Tail(@)]
Become(p, h) == Set(p, Call(h, Top(p).r))
\* The frame goes on as f once the Log of h has returned.
Await(p, f, h) == [g EXCEPT ![p].stack = <<Call(h, f.r), f>> \o Tail(@)]
Return(p, err) == [g EXCEPT ![p].stack = Tail(@), ![p].ret = err]

Ctx(r) == ctxs[recs[r].ctx]
Current == settings[Len(settings)]

\* r.Ctx = append(r.Ctx, k, v).
Appended(r, e) ==
    /\ ctxs' = Append(ctxs, Append(Ctx(r), e))
    /\ recs' = [recs EXCEPT ![r].ctx = Len(ctxs) + 1]

----------------------------------------------------------------------------
(* logger.                                                                  *)

\* An odd number of arguments is made even, and explained.
normalize_NoKey(args, odd) == args \o (IF odd THEN <<Pair("last", "nil")>> ELSE <<>>)
normalize(args, odd) == args \o (IF odd THEN <<Pair("last", "nil"), Pair(errorKey, "odd")>> ELSE <<>>)

newContext_Eager(prefix, args, odd) == LET ctx == prefix \o normalize(args, odd)
    IN [n \in DOMAIN ctx |-> [ctx[n] EXCEPT !.v = IF @ = "lazy" THEN "val" ELSE @]]
newContext(prefix, args, odd) == prefix \o normalize(args, odd)

\* The context of a record of m: an array of its own.
Recorded_Alias(m) == IF m.args = <<>> /\ ~m.odd THEN [at |-> ctxOf[m.l], all |-> ctxs]
    ELSE [at |-> Len(ctxs) + 1, all |-> Append(ctxs, newContext(ctxs[ctxOf[m.l]], m.args, m.odd))]
Recorded(m) == [at |-> Len(ctxs) + 1, all |-> Append(ctxs, newContext(ctxs[ctxOf[m.l]], m.args, m.odd))]

\* write called with m by a goroutine that has the given frames.
write(p, m, frames, left) ==
    LET r == Len(recs) + 1
    IN  /\ recs' = Append(recs, [lvl |-> m.lvl, site |-> m.site, ctx |-> Recorded(m).at])
        /\ ctxs' = Recorded(m).all
        /\ g' = [g EXCEPT ![p].left = left,
                          ![p].stack = <<Call(SwapHandler(m.l), r), [Call([k |-> "logger"], r) EXCEPT !.i = m.lvl]>> \o frames]

\* Trace ... Crit.
LogCall(p) ==
    /\ ~exited /\ g[p].stack = <<>> /\ g[p].left > 0
    /\ \E m \in Messages[p] : write(p, m, <<>>, g[p].left - 1)
    /\ UNCHANGED <<handler, ctxOf, settings, siteCache, mu, lines, queue, exited, changes, tried, sent>>

NoSite == "none"
Unjudged == [site |-> NoSite, lvl |-> LvlCrit, passed |-> TRUE, from |-> 1, to |-> 1]

\* The handlers are done: only Crit does not come back.
Logged(p) ==
    /\ At(p, "logger", "in")
    /\ g' = [Return(p, "") EXCEPT ![p].judged = Unjudged]
    /\ exited' = (Top(p).i = LvlCrit)
    /\ UNCHANGED <<handler, ctxOf, settings, siteCache, recs, ctxs, mu, lines, queue, changes, tried, sent>>

Swapped(p) ==
    /\ At(p, "swap", "in")
    /\ g' = Become(p, handler[Top(p).h.l])
    /\ UNCHANGED <<handler, ctxOf, settings, siteCache, recs, ctxs, mu, lines, queue, exited, changes, tried, sent>>

SetHandler(l, h) ==
    /\ handler' = [handler EXCEPT ![l] = h]
    /\ UNCHANGED <<settings, siteCache>>

----------------------------------------------------------------------------
(* GlogHandler.  Its lock covers patterns, siteCache and location; level,   *)
(* override (the number of patterns) and backtrace are read without it.     *)

Verbosity(level) ==
    /\ settings' = Append(settings, [Current EXCEPT !.level = level])
    /\ UNCHANGED <<handler, siteCache>>

\* Rules of level 0 are left out.
Vmodule(ruleset) ==
    /\ settings' = Append(settings, [Current EXCEPT !.patterns = SelectSeq(ruleset, LAMBDA rule : rule.level > 0)])
    /\ siteCache' = <<>>
    /\ UNCHANGED handler

BacktraceAt(location) ==
    /\ settings' = Append(settings, [Current EXCEPT !.location = location])
    /\ UNCHANGED <<handler, siteCache>>

\* The level of the first of the patterns that matches the site, or 0.
PatternLevel(patterns, site) ==
    LET matching == {n \in DOMAIN patterns : site \in patterns[n].sites}
    IN  IF matching = {} THEN 0 ELSE patterns[CHOOSE n \in matching : \A o \in matching : n <= o].level

\* The patterns that a site is looked up in.
Patterns_Earlier(p) == settings[Top(p).from].patterns
Patterns(p) == Current.patterns

Passes_Below(level, lvl) == level > lvl
Passes(level, lvl) == level >= lvl

GlogStep(p) == UNCHANGED <<handler, ctxOf, settings, ctxs, mu, lines, queue, exited, changes, tried, sent>>

Glog(p, pc) == [Top(p) EXCEPT !.pc = pc]

\* The decision on the record; g' otherwise as next says.
Judged(p, passed, next) ==
    [next EXCEPT ![p].judged = [site |-> recs[Top(p).r].site, lvl |-> recs[Top(p).r].lvl, passed |-> passed,
                                from |-> Top(p).from, to |-> Len(settings)]]

GlogBacktrace(p) ==
    /\ At(p, "glog", "in")
    /\ g' = Set(p, Glog(p, IF Current.location # NoSite THEN "location" ELSE "level"))
    /\ UNCHANGED <<siteCache, recs>> /\ GlogStep(p)

GlogLocation(p) ==
    /\ At(p, "glog", "location")
    /\ g' = Set(p, Glog(p, "level"))
    /\ recs' = IF Current.location = recs[Top(p).r].site
               THEN [recs EXCEPT ![Top(p).r].lvl = LvlInfo] ELSE recs
    /\ UNCHANGED siteCache /\ GlogStep(p)

GlogLevel(p) ==
    /\ At(p, "glog", "level")
    /\ g' = IF Passes(Current.level, recs[Top(p).r].lvl)
            THEN Judged(p, TRUE, Become(p, Top(p).h.h)) ELSE Set(p, Glog(p, "override"))
    /\ UNCHANGED <<siteCache, recs>> /\ GlogStep(p)

GlogOverride(p) ==
    /\ At(p, "glog", "override")
    /\ g' = IF Current.patterns = <<>>
            THEN Judged(p, FALSE, Return(p, "")) ELSE Set(p, Glog(p, "cache"))
    /\ UNCHANGED <<siteCache, recs>> /\ GlogStep(p)

\* What the level of the site makes of the record.
SiteLevel(p, level) ==
    IF Passes(level, recs[Top(p).r].lvl) THEN Judged(p, TRUE, Become(p, Top(p).h.h))
    ELSE Judged(p, FALSE, Return(p, ""))

GlogCache(p) ==
    LET site == recs[Top(p).r].site
    IN  /\ At(p, "glog", "cache")
        /\ g' = IF site \in DOMAIN siteCache THEN SiteLevel(p, siteCache[site]) ELSE Set(p, Glog(p, "rules"))
        /\ UNCHANGED <<siteCache, recs>> /\ GlogStep(p)

GlogRules(p) ==
    LET site == recs[Top(p).r].site
        level == PatternLevel(Patterns(p), site)
    IN  /\ At(p, "glog", "rules")
        /\ siteCache' = [s \in DOMAIN siteCache \cup {site} |-> IF s = site THEN level ELSE siteCache[s]]
        /\ g' = SiteLevel(p, level)
        /\ UNCHANGED recs /\ GlogStep(p)

GlogLog(p) ==
    \/ GlogBacktrace(p) \/ GlogLocation(p) \/ GlogLevel(p)
    \/ GlogOverride(p) \/ GlogCache(p) \/ GlogRules(p)

----------------------------------------------------------------------------
(* The other handlers.                                                      *)

Still == UNCHANGED <<handler, ctxOf, settings, siteCache, exited, changes>>
Quiet == UNCHANGED <<mu, lines, queue, tried, sent>>

DiscardLog(p) ==
    /\ At(p, "discard", "in")
    /\ g' = Return(p, "")
    /\ UNCHANGED <<recs, ctxs>> /\ Quiet /\ Still

\* A key is looked for in the context as it is, lazy values included.
Matches(fn, r) ==
    LET having == {n \in DOMAIN Ctx(r) : Ctx(r)[n].k = fn.key}
    IN  /\ having # {}
        /\ Ctx(r)[CHOOSE n \in having : \A o \in having : n <= o].v = fn.value

FilterLog(p) ==
    LET f == Top(p)
        fn == f.h.fn
        pass == IF fn.by = "lvl" THEN recs[f.r].lvl <= fn.max ELSE Matches(fn, f.r)
    IN  /\ At(p, "filter", "in")
        /\ g' = IF pass THEN Become(p, f.h.h) ELSE Return(p, "")
        /\ UNCHANGED <<recs, ctxs>> /\ Quiet /\ Still

CallerFileLog(p) ==
    /\ At(p, "caller", "in")
    /\ Appended(Top(p).r, Pair("caller", "v"))
    /\ g' = Become(p, Top(p).h.h)
    /\ Quiet /\ Still

MultiLog(p) ==
    LET f == Top(p)
    IN  /\ At(p, "multi", "in")
        /\ g' = IF f.i <= Len(f.h.hs) THEN Await(p, [f EXCEPT !.i = @ + 1], f.h.hs[f.i]) ELSE Return(p, "")
        /\ UNCHANGED <<recs, ctxs>> /\ Quiet /\ Still

\* The next handler is tried only if Log has failed.
GoesOn_Never(err) == FALSE
GoesOn(err) == err # ""

\* What an error leaves in the record.
Explained_Not(r, e) == UNCHANGED <<recs, ctxs>>
Explained(r, e) == Appended(r, e)

FailoverKey == <<"failover_err_0", "failover_err_1", "failover_err_2">>

FailoverLog(p) ==
    LET f == Top(p)
    IN  /\ At(p, "failover", "in")
        /\ g' = IF f.i <= Len(f.h.hs) THEN Await(p, [f EXCEPT !.pc = "back"], f.h.hs[f.i]) ELSE Return(p, f.x)
        /\ UNCHANGED <<recs, ctxs>> /\ Quiet /\ Still

FailoverBack(p) ==
    LET f == Top(p)
    IN  /\ At(p, "failover", "back")
        /\ \/ /\ ~GoesOn(g[p].ret)
              /\ g' = Return(p, g[p].ret)
              /\ UNCHANGED <<recs, ctxs>>
           \/ /\ GoesOn(g[p].ret)
              /\ Explained(f.r, Pair(FailoverKey[f.i], "v"))
              /\ g' = Set(p, [f EXCEPT !.pc = "in", !.i = @ + 1, !.x = g[p].ret])
        /\ Quiet /\ Still

ChannelLog(p) ==
    /\ At(p, "channel", "in")
    /\ Len(queue) < bufSize
    /\ queue' = Append(queue, Top(p).r)
    /\ sent' = sent \cup {Top(p).r}
    /\ g' = Return(p, "")
    /\ UNCHANGED <<recs, ctxs, mu, lines, tried>> /\ Still

\* The goroutine of BufferedHandler takes the next record.
Flush ==
    /\ ~exited /\ g[Flusher].stack = <<>> /\ queue # <<>>
    /\ queue' = Tail(queue)
    /\ g' = [g EXCEPT ![Flusher].stack = <<Call(Flushed, Head(queue))>>]
    /\ UNCHANGED <<recs, ctxs, mu, lines, tried, sent>> /\ Still

LazyValues == {"lazy", "logs", "bad"}
evaluateLazy(v) == IF v = "bad" THEN "err" ELSE "val"

\* Where the values from f.i on are Lazy.
LazyFrom(f) == {n \in f.i .. Len(Ctx(f.r)) : Ctx(f.r)[n].v \in LazyValues}

\* The next Lazy's function is called, which may log itself.
LazyCall(p) ==
    LET f == Top(p)
        n == CHOOSE n \in LazyFrom(f) : \A o \in LazyFrom(f) : n <= o
        v == Ctx(f.r)[n].v
        called == [f EXCEPT !.pc = "store", !.i = n, !.v = evaluateLazy(v)]
    IN  /\ At(p, "lazy", "in")
        /\ LazyFrom(f) # {}
        /\ \/ /\ v \in {"lazy", "bad"}
              /\ g' = Set(p, called)
              /\ UNCHANGED <<recs, ctxs>>
           \/ /\ v = "logs"
              /\ write(p, Nested, <<called>> \o Tail(g[p].stack), g[p].left)
        /\ Quiet /\ Still

LazyStore(p) ==
    LET f == Top(p)
    IN  /\ At(p, "lazy", "store")
        /\ ctxs' = [ctxs EXCEPT ![recs[f.r].ctx][f.i].v = f.v]
        /\ g' = Set(p, [f EXCEPT !.pc = "in", !.i = @ + 1, !.x = IF f.v = "err" THEN "err" ELSE @])
        /\ UNCHANGED recs /\ Quiet /\ Still

\* All are evaluated: a bad one is explained.
LazyDone(p) ==
    LET f == Top(p)
    IN  /\ At(p, "lazy", "in")
        /\ LazyFrom(f) = {}
        /\ IF f.x = "err" THEN Appended(f.r, Pair(errorKey, "bad lazy"))
           ELSE UNCHANGED <<recs, ctxs>>
        /\ g' = Become(p, f.h.h)
        /\ Quiet /\ Still

\* The mutex of w is given back, whatever Log returned.
Unlocked(p, w) == mu[w] \ {p}

Lockable(w) == mu[w] = {}

SyncLock(p) ==
    LET f == Top(p)
    IN  /\ At(p, "sync", "in")
        /\ Lockable(f.h.w)
        /\ mu' = [mu EXCEPT ![f.h.w] = @ \cup {p}]
        /\ g' = Await(p, [f EXCEPT !.pc = "back"], f.h.h)
        /\ UNCHANGED <<recs, ctxs, lines, queue, tried, sent>> /\ Still

SyncUnlock(p) ==
    /\ At(p, "sync", "back")
    /\ mu' = [mu EXCEPT ![Top(p).h.w] = Unlocked(p, Top(p).h.w)]
    /\ g' = Return(p, g[p].ret)
    /\ UNCHANGED <<recs, ctxs, lines, queue, tried, sent>> /\ Still

\* The record is formatted, and its Write begins.
StreamFormat(p) ==
    LET f == Top(p)
    IN  /\ At(p, "write", "in")
        /\ g' = Set(p, [f EXCEPT !.pc = "out", !.out = Ctx(f.r)])
        /\ tried' = tried \cup {f.r}
        /\ UNCHANGED <<recs, ctxs, mu, lines, queue, sent>> /\ Still

\* Write ends, or fails.
StreamWrite(p) ==
    LET f == Top(p)
        w == f.h.w
    IN  /\ At(p, "write", "out")
        /\ \/ /\ lines' = [lines EXCEPT ![w] = Append(@, [r |-> f.r, ctx |-> f.out])]
              /\ g' = Return(p, "")
           \/ /\ w \in Failing
              /\ g' = Return(p, "err")
              /\ UNCHANGED lines
        /\ UNCHANGED <<recs, ctxs, mu, queue, tried, sent>> /\ Still

----------------------------------------------------------------------------
(* The program.                                                             *)

Logger == {root, child}

\* The child's context and handler are made by New from the root's.
Init ==
    /\ handler = [l \in Logger |-> IF l = root THEN First ELSE SwapHandler(root)]
    /\ ctxs = <<<<>>, newContext(<<>>, childCtx, FALSE)>>
    /\ ctxOf = [l \in Logger |-> IF l = root THEN 1 ELSE 2]
    /\ \E c \in Configured : settings = <<[level |-> c.level, patterns |-> c.patterns, location |-> NoSite]>>
    /\ siteCache = <<>>
    /\ recs = <<>> /\ queue = <<>>
    /\ g = [p \in Process |-> [stack |-> <<>>, ret |-> "", left |-> IF p = Flusher THEN 0 ELSE MaxLog,
                               judged |-> Unjudged]]
    /\ mu = [w \in Writer |-> {}]
    /\ lines = [w \in Writer |-> <<>>]
    /\ exited = FALSE /\ changes = 0
    /\ tried = {} /\ sent = {}

Handle(p) ==
    \/ Logged(p) \/ Swapped(p) \/ GlogLog(p)
    \/ DiscardLog(p) \/ FilterLog(p) \/ CallerFileLog(p) \/ MultiLog(p)
    \/ FailoverLog(p) \/ FailoverBack(p) \/ ChannelLog(p)
    \/ LazyCall(p) \/ LazyStore(p) \/ LazyDone(p)
    \/ SyncLock(p) \/ SyncUnlock(p) \/ StreamFormat(p) \/ StreamWrite(p)

Change ==
    /\ ~exited /\ changes < MaxChange
    /\ changes' = changes + 1
    /\ \/ \E level \in Levels : Verbosity(level)
       \/ \E ruleset \in Rulesets : Vmodule(ruleset)
       \/ \E site \in Traced : BacktraceAt(site)
       \/ \E t \in Trees : SetHandler(t.l, t.h)
    /\ UNCHANGED <<ctxOf, recs, ctxs, g, mu, lines, queue, exited, tried, sent>>

Run(p) == Handle(p) \/ (p = Flusher /\ Flush)

Next == (\E p \in Goroutine : LogCall(p)) \/ (\E p \in Process : Run(p)) \/ Change

\* Goroutines that can go on do; nobody has to log or to change anything.
Spec == Init /\ [][Next]_vars /\ \A p \in Process : WF_vars(Run(p))

----------------------------------------------------------------------------
(* Properties.                                                              *)

\* Every level in GlogHandler.siteCache is what the patterns now in force give
\* the site, although Log lets go of the lock between looking a site up and
\* evaluating the patterns, and Vmodule may come in between.
CacheFresh == \A site \in DOMAIN siteCache : siteCache[site] = PatternLevel(Current.patterns, site)

Allows(s, site, lvl) == s.level >= lvl \/ (s.patterns # <<>> /\ PatternLevel(s.patterns, site) >= lvl)

\* GlogHandler.Log reads level, override and patterns one after the other.  A
\* record still passes only if some settings in force during its Log allow it,
\* and, unless they changed twice meanwhile, is dropped only if some do not.
DecisionExplained ==
    \A p \in Process :
        LET j == g[p].judged
        IN  /\ j.passed => \E n \in j.from .. j.to : Allows(settings[n], j.site, j.lvl)
            /\ ~j.passed /\ j.to - j.from <= 1 => \E n \in j.from .. j.to : ~Allows(settings[n], j.site, j.lvl)

Values(ctx) == {ctx[n].v : n \in DOMAIN ctx}
Keys(ctx) == {ctx[n].k : n \in DOMAIN ctx}
Has(w, r) == \E n \in DOMAIN lines[w] : lines[w][n].r = r

\* "Any log record containing an error will include the context key
\* LOG15_ERROR" (doc.go): a line with a bad lazy value or the nil added to an
\* odd context has the key, and no line has a Lazy that was not evaluated.
LinesComplete ==
    \A w \in Writer : \A n \in DOMAIN lines[w] :
        LET ctx == lines[w][n].ctx
        IN  /\ Values(ctx) \cap LazyValues = {}
            /\ Values(ctx) \cap {"err", "nil"} # {} => errorKey \in Keys(ctx)

\* The record is with no handler any more.
Finished(r) ==
    /\ \A p \in Process : \A n \in DOMAIN g[p].stack : g[p].stack[n].r # r
    /\ \A n \in DOMAIN queue : queue[n] # r

\* "If this message is not logged for any reason ... then factorRSAKey is
\* never evaluated" (doc.go): a record that no writer was given keeps its Lazy
\* values, whatever filters, settings and handlers it met on its way.
LazyOnlyIfLogged ==
    \A r \in DOMAIN recs : Finished(r) /\ r \notin tried => Values(Ctx(r)) \cap {"val", "err"} = {}

\* FailoverHandler: a record is written to one of its handlers only, and the
\* line tells the error of each handler before that one.
FailoverExplained ==
    \A n \in DOMAIN Backup : \A line \in {lines[Backup[n]][o] : o \in DOMAIN lines[Backup[n]]} :
        \A before \in 1 .. n - 1 : FailoverKey[before] \in Keys(line.ctx) /\ ~Has(Backup[before], line.r)

\* Crit exits the program only once its record is written, unless it was put
\* in a BufferedHandler's channel, or demoted to Info by BacktraceAt.
CritLogged ==
    \A r \in DOMAIN recs :
        recs[r].lvl = LvlCrit /\ Finished(r) /\ r \notin sent => \E w \in Writer : Has(w, r)

\* Lazy in New makes "a child logger which always reports the current value of
\* changing state": evaluating a record's Lazy values leaves the logger's own.
LoggerCtxKept == [][\A l \in Logger : ctxs'[ctxOf'[l]] = ctxs[ctxOf[l]]]_vars

\* The goroutine of a BufferedHandler logs, from a lazy function, into its own
\* channel, which is full: nobody will ever make room.
SelfBlocked == At(Flusher, "channel", "in") /\ Len(queue) = bufSize

\* Once nobody starts to log any more, every Log comes back, though a lazy
\* function logs to the same stream, and the BufferedHandler's channel is
\* emptied, unless Crit has exited the program or the BufferedHandler has
\* blocked itself.
LogReturns ==
    (\E p \in Process : g[p].stack # <<>>) ~>
        ((\A p \in Process : g[p].stack = <<>>) /\ queue = <<>>) \/ exited \/ SelfBlocked
=============================================================================
