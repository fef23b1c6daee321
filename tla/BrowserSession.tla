--------------------------- MODULE BrowserSession ---------------------------
(***************************************************************************)
(* environments/browser/session.py: one BrowserSession for all agents of a *)
(* workspace, with the tabs they name.  No lock guards it: every await is  *)
(* a point where another agent's call goes on with the shared fields.      *)
(*                                                                         *)
(* A driver is what async_playwright().start() returns, with the browser   *)
(* it launched (local) or its connection to the host's browser (cdp).  A   *)
(* page lives in the browser of a driver, or in the host's browser; a tab  *)
(* holds a page as seen through a driver.  Console logs and mouse          *)
(* positions, which come and go with the tabs, are left out.               *)
(***************************************************************************)
EXTENDS Integers, Sequences, FiniteSets, SequencesExt

CONSTANTS
    Agents,
    OwnNames,      \* names agents choose for their tabs
    MaxTabs,       \* MAX_TABS
    MaxDrivers,    \* bound: drivers started
    MaxPages,      \* bound: pages opened
    MaxFailures,   \* bound: connections that fail
    MaxOverlaps,   \* bound: launches, reconnects and closes begun amid another
    MaxDownloads   \* bound: downloads

None == 0
NoName == <<>>
Recovered(i) == <<"recovered", i>>

ASSUME BrowserAssumption ==
    /\ {MaxTabs, MaxDrivers, MaxPages} \subseteq Nat \ {0}
    /\ {MaxFailures, MaxOverlaps, MaxDownloads} \subseteq Nat
    /\ \A i \in 1 .. MaxPages : Recovered(i) \notin OwnNames
    /\ IsFiniteSet(Agents)

VARIABLES
    remote,      \* a cdp endpoint is configured
    running,     \* drivers not stopped
    alive,       \* drivers whose browser or connection is up
    playwright, context, launched,   \* the fields of the session
    tabs,        \* _tabs: <<[name, page, via], ...>> in insertion order
    open,        \* open pages: <<number, driver>>, driver None on the host
    downloads,   \* id -> [page, via, status], and as history whose file it got
    at,          \* where each agent is in its call
    used,        \* history: drivers started, pages opened
    failures, overlaps,   \* history: counts
    unlisted     \* history: pages that lost their tab

session == <<playwright, context, launched>>
vars == <<remote, running, alive, session, tabs, open, downloads, at, used,
          failures, overlaps, unlisted>>

Idle == [pc |-> "idle"]
Names == OwnNames \cup {Recovered(i) : i \in 1 .. MaxPages}
Has(ts, n) == \E i \in DOMAIN ts : ts[i].name = n
Place(ts, n) == CHOOSE i \in DOMAIN ts : ts[i].name = n
TabOf(ts, n) == ts[Place(ts, n)]
PagesOf(ts, n) == {t.page : t \in {u \in Range(ts) : u.name = n}}
Without(ts, n) == IF Has(ts, n) THEN RemoveAt(ts, Place(ts, n)) ELSE ts

\* _tabs[name] = page: a name that is there keeps its place.
WithTab(ts, tab) ==
    IF Has(ts, tab.name) THEN [ts EXCEPT ![Place(ts, tab.name)] = tab] ELSE Append(ts, tab)

Usable(page, via) == via \in alive /\ page \in open
ShownBy(d) == {p \in open : p[2] = IF remote THEN None ELSE d}

Lifecycle == {"start", "connect", "reclose", "restop", "saving", "emptying", "downing", "stopping"}
Busy(a) == \E b \in Agents \ {a} : at[b].pc \in Lifecycle
Began(a) ==
    /\ Busy(a) => overlaps < MaxOverlaps
    /\ overlaps' = IF Busy(a) THEN overlaps + 1 ELSE overlaps

Init ==
    /\ remote \in BOOLEAN
    /\ running = {} /\ alive = {} /\ open = {}
    /\ playwright = None /\ context = None /\ launched = FALSE
    /\ tabs = <<>> /\ downloads = <<>>
    /\ at = [a \in Agents |-> Idle]
    /\ used = [drivers |-> 0, pages |-> 0]
    /\ failures = 0 /\ overlaps = 0 /\ unlisted = {}

-----------------------------------------------------------------------------
IsOpen == launched /\ context # None
Goes(a, where) == at' = [at EXCEPT ![a] = where]
Launching(a, n, then) == Goes(a, [pc |-> "start", name |-> n, then |-> then])

\* _get_page before new_page: at the limit the oldest tab is closed first.
Opening(n, c, retry) == [pc |-> "open", name |-> n, via |-> c, retry |-> retry]
MakesRoom(a, n, ts, c) ==
    IF Len(ts) >= MaxTabs
    THEN /\ tabs' = Tail(ts)
         /\ Goes(a, [pc |-> "evict", name |-> n, page |-> Head(ts).page, via |-> Head(ts).via])
    ELSE /\ tabs' = ts
         /\ Goes(a, Opening(n, c, TRUE))

\* _get_page after _ensure_launched: a tab that is there is probed.
Looks(a, n, c) ==
    IF Has(tabs, n)
    THEN /\ tabs' = tabs
         /\ Goes(a, [pc |-> "probe", name |-> n, page |-> TabOf(tabs, n).page,
                     via |-> TabOf(tabs, n).via])
    ELSE MakesRoom(a, n, tabs, c)

\* Any operation on a tab.
Get(a, n) ==
    /\ at[a] = Idle
    /\ IF IsOpen THEN Looks(a, n, context) /\ UNCHANGED overlaps
       ELSE Launching(a, n, "get") /\ Began(a) /\ UNCHANGED tabs
    /\ UNCHANGED <<remote, running, alive, session, open, downloads, used, failures, unlisted>>

\* await page.title()
Probed(a) ==
    /\ at[a].pc = "probe"
    /\ Usable(at[a].page, at[a].via)
    /\ Goes(a, Idle)
    /\ UNCHANGED <<remote, running, alive, session, tabs, open, downloads, used,
                   failures, overlaps, unlisted>>

\* It raises: the name is forgotten, whatever page it stands for by now.
ProbeFails(a) ==
    /\ at[a].pc = "probe"
    /\ ~Usable(at[a].page, at[a].via)
    /\ unlisted' = unlisted \cup PagesOf(tabs, at[a].name)
    /\ MakesRoom(a, at[a].name, Without(tabs, at[a].name), context)
    /\ UNCHANGED <<remote, running, alive, session, open, downloads, used, failures, overlaps>>

\* close_tab, awaited: the page goes when it can be reached.
Evicted(a) ==
    /\ at[a].pc = "evict"
    /\ open' = IF at[a].via \in alive THEN open \ {at[a].page} ELSE open
    /\ Goes(a, Opening(at[a].name, context, TRUE))
    /\ UNCHANGED <<remote, running, alive, session, tabs, downloads, used, failures,
                   overlaps, unlisted>>

\* await self._context.new_page(), and the tab is entered.
Opened(a) ==
    LET page == <<used.pages + 1, IF remote THEN None ELSE at[a].via>>
        n == at[a].name
    IN /\ at[a].pc = "open" /\ at[a].via \in alive
       /\ used.pages < MaxPages
       /\ used' = [used EXCEPT !.pages = @ + 1]
       /\ open' = open \cup {page}
       /\ tabs' = WithTab(tabs, [name |-> n, page |-> page, via |-> at[a].via])
       /\ unlisted' = unlisted \cup PagesOf(tabs, n)
       /\ Goes(a, Idle)
       /\ UNCHANGED <<remote, running, alive, session, downloads, failures, overlaps>>

-----------------------------------------------------------------------------
\* Mutant: the driver is forgotten instead of stopped.
DriverDropped(a, n, then) ==
    context' = None /\ playwright' = None /\ launched' = FALSE /\ Launching(a, n, then)

\* reconnect, from the first await that is left: close the local browser, stop
\* the driver, launch.
StopsDriver(a, n, then) ==
    /\ context' = None
    /\ IF playwright # None
       THEN /\ Goes(a, [pc |-> "restop", name |-> n, then |-> then, via |-> playwright])
            /\ UNCHANGED <<playwright, launched>>
       ELSE Launching(a, n, then) /\ playwright' = None /\ launched' = FALSE

Reconnects(a, n, then) ==
    /\ Began(a)
    /\ tabs' = <<>>
    /\ IF ~remote /\ context # None
       THEN /\ Goes(a, [pc |-> "reclose", name |-> n, then |-> then, via |-> context])
            /\ UNCHANGED session
       ELSE StopsDriver(a, n, then)

\* new_page raises, the first time: the context is lost, resurrection.
OpenFails(a) ==
    /\ at[a].pc = "open" /\ at[a].via \notin alive
    /\ IF at[a].retry THEN Reconnects(a, at[a].name, "get again")
       ELSE Goes(a, Idle) /\ UNCHANGED <<session, tabs, overlaps>>
    /\ UNCHANGED <<remote, running, alive, open, downloads, used, failures, unlisted>>

Reconnect(a) ==
    /\ at[a] = Idle
    /\ Reconnects(a, NoName, "reconnect")
    /\ UNCHANGED <<remote, running, alive, open, downloads, used, failures, unlisted>>

Reclosed(a) ==
    /\ at[a].pc = "reclose"
    /\ alive' = alive \ {at[a].via}
    /\ open' = open \ ShownBy(at[a].via)
    /\ StopsDriver(a, at[a].name, at[a].then)
    /\ UNCHANGED <<remote, running, tabs, downloads, used, failures, overlaps, unlisted>>

\* A driver that stops takes its local browser with it.
Stopped(d) ==
    /\ running' = running \ {d} /\ alive' = alive \ {d}
    /\ open' = IF remote THEN open ELSE open \ ShownBy(d)

Restopped(a) ==
    /\ at[a].pc = "restop"
    /\ Stopped(at[a].via)
    /\ playwright' = None /\ launched' = FALSE
    /\ Launching(a, at[a].name, at[a].then)
    /\ UNCHANGED <<remote, context, tabs, downloads, used, failures, overlaps, unlisted>>

\* _ensure_launched: self._playwright = await async_playwright().start()
Started(a) ==
    LET d == used.drivers + 1
    IN /\ at[a].pc = "start" /\ d <= MaxDrivers
       /\ used' = [used EXCEPT !.drivers = d]
       /\ running' = running \cup {d}
       /\ playwright' = d
       /\ Goes(a, [pc |-> "connect", name |-> at[a].name, then |-> at[a].then, via |-> d])
       /\ UNCHANGED <<remote, alive, context, launched, tabs, open, downloads, failures,
                      overlaps, unlisted>>

\* Mutant: reconnect leaves the pages it finds alone.
AdoptsNothing(d) == tabs' = tabs

\* _adopt_existing_pages: the context's pages in the order they were opened.
RecoveredTab(p, d) ==
    [name |-> Recovered(Cardinality({q \in open : q[1] <= p[1]})), page |-> p, via |-> d]
Adopts(d) ==
    LET found == {RecoveredTab(p, d) : p \in IF remote THEN open ELSE {}}
        new == {t \in found : ~Has(tabs, t.name)}
        Renewed(t) == IF \E u \in found : u.name = t.name
                      THEN CHOOSE u \in found : u.name = t.name ELSE t
    IN \E s \in [1 .. Cardinality(new) -> new] :
        /\ Range(s) = new
        /\ \A i, j \in DOMAIN s : i < j => s[i].page[1] < s[j].page[1]
        /\ tabs' = [i \in DOMAIN tabs |-> Renewed(tabs[i])] \o s

\* The connection is up; the caller goes on.  A first connection adopts no page.
Connected(a) ==
    LET d == at[a].via
        n == at[a].name
    IN /\ at[a].pc = "connect" /\ d \in running
       /\ alive' = alive \cup {d}
       /\ context' = d /\ launched' = TRUE
       /\ CASE at[a].then = "get" ->
                  Looks(a, n, d) /\ unlisted' = unlisted \cup (IF remote THEN open ELSE {})
            [] at[a].then = "reconnect" ->
                  Adopts(d) /\ Goes(a, Idle) /\ UNCHANGED unlisted
            [] at[a].then = "get again" ->
                  Adopts(d) /\ Goes(a, Opening(n, d, FALSE)) /\ UNCHANGED unlisted
       /\ UNCHANGED <<remote, running, playwright, open, downloads, used, failures, overlaps>>

\* It fails and leaves its driver behind; a reconnect that served a lost tab
\* goes on when another agent has launched meanwhile.
ConnectFails(a) ==
    /\ at[a].pc = "connect"
    /\ at[a].via \in running => failures < MaxFailures
    /\ failures' = IF at[a].via \in running THEN failures + 1 ELSE failures
    /\ Goes(a, IF at[a].then = "get again" /\ IsOpen THEN Opening(at[a].name, context, FALSE)
               ELSE Idle)
    /\ UNCHANGED <<remote, running, alive, session, tabs, open, downloads, used, overlaps, unlisted>>

-----------------------------------------------------------------------------
\* close_tab as an operation
CloseTab(a, n) ==
    /\ at[a] = Idle /\ Has(tabs, n)
    /\ tabs' = Without(tabs, n)
    /\ Goes(a, [pc |-> "closetab", page |-> TabOf(tabs, n).page, via |-> TabOf(tabs, n).via])
    /\ UNCHANGED <<remote, running, alive, session, open, downloads, used, failures,
                   overlaps, unlisted>>

TabClosed(a) ==
    /\ at[a].pc = "closetab"
    /\ open' = IF at[a].via \in alive THEN open \ {at[a].page} ELSE open
    /\ Goes(a, Idle)
    /\ UNCHANGED <<remote, running, alive, session, tabs, downloads, used, failures,
                   overlaps, unlisted>>

\* close: the storage state is saved, the tabs there are then are closed one by
\* one, then the local browser and the driver.
ToBrowser(a) ==
    IF ~remote /\ context # None
    THEN Goes(a, [pc |-> "downing", via |-> context])
    ELSE Goes(a, [pc |-> "stopping", via |-> playwright])
NextTab(a, names) ==
    \/ /\ \A i \in DOMAIN names : ~Has(tabs, names[i])
       /\ ToBrowser(a) /\ UNCHANGED tabs
    \/ \E i \in DOMAIN names :
        /\ Has(tabs, names[i]) /\ \A j \in 1 .. i - 1 : ~Has(tabs, names[j])
        /\ tabs' = Without(tabs, names[i])
        /\ Goes(a, [pc |-> "emptying", names |-> SubSeq(names, i + 1, Len(names)),
                    page |-> TabOf(tabs, names[i]).page, via |-> TabOf(tabs, names[i]).via])
AllNames == [i \in 1 .. Len(tabs) |-> tabs[i].name]

Close(a) ==
    /\ at[a] = Idle /\ Began(a)
    /\ IF ~remote /\ context # None
       THEN Goes(a, [pc |-> "saving"]) /\ UNCHANGED tabs
       ELSE NextTab(a, AllNames)
    /\ UNCHANGED <<remote, running, alive, session, open, downloads, used, failures, unlisted>>

Saved(a) ==
    /\ at[a].pc = "saving"
    /\ NextTab(a, AllNames)
    /\ UNCHANGED <<remote, running, alive, session, open, downloads, used, failures,
                   overlaps, unlisted>>

Emptied(a) ==
    /\ at[a].pc = "emptying"
    /\ open' = IF at[a].via \in alive THEN open \ {at[a].page} ELSE open
    /\ NextTab(a, at[a].names)
    /\ UNCHANGED <<remote, running, alive, session, downloads, used, failures, overlaps, unlisted>>

Downed(a) ==
    /\ at[a].pc = "downing"
    /\ alive' = alive \ {at[a].via}
    /\ open' = open \ ShownBy(at[a].via)
    /\ Goes(a, [pc |-> "stopping", via |-> playwright])
    /\ UNCHANGED <<remote, running, session, tabs, downloads, used, failures, overlaps, unlisted>>

Closed(a) ==
    /\ at[a].pc = "stopping"
    /\ Stopped(at[a].via)
    /\ playwright' = None /\ context' = None /\ launched' = FALSE
    /\ Goes(a, Idle)
    /\ UNCHANGED <<remote, tabs, downloads, used, failures, overlaps, unlisted>>

-----------------------------------------------------------------------------
\* download, on a page _get_page has just returned: _download_task asks the
\* page for it in the background and waits for the page's download event.
Waiting(i, page) == downloads[i].status = "starting" /\ downloads[i].page = page

Download(n) ==
    /\ Has(tabs, n) /\ Len(downloads) < MaxDownloads
    /\ LET t == TabOf(tabs, n)
           company == \E i \in DOMAIN downloads : Waiting(i, t.page)
       IN /\ Usable(t.page, t.via)
          /\ downloads' = Append([i \in DOMAIN downloads |->
                                    IF Waiting(i, t.page) THEN [downloads[i] EXCEPT !.alone = FALSE]
                                    ELSE downloads[i]],
                                 [page |-> t.page, via |-> t.via, status |-> "starting",
                                  got |-> 0, alone |-> ~company])
    /\ UNCHANGED <<remote, running, alive, session, tabs, open, at, used, failures,
                   overlaps, unlisted>>

\* Mutant: the event is awaited on the context.
HearsContext(j, i) == downloads[j].status = "starting" /\ downloads[j].via = downloads[i].via

\* async with page.expect_download: the browser begins what download i asked
\* for, and everyone who waits on the page takes it for his own.
Hears(j, i) == Waiting(j, downloads[i].page)

DownloadBegins(i) ==
    /\ downloads[i].status = "starting" /\ Usable(downloads[i].page, downloads[i].via)
    /\ downloads' = [j \in DOMAIN downloads |->
          IF Hears(j, i) THEN [downloads[j] EXCEPT !.status = "downloading", !.got = i]
          ELSE downloads[j]]
    /\ UNCHANGED <<remote, running, alive, session, tabs, open, at, used, failures,
                   overlaps, unlisted>>

\* save_as returns, or anything raises.
DownloadEnds(i) ==
    /\ \/ /\ downloads[i].status = "downloading" /\ downloads[i].via \in alive
          /\ downloads' = [downloads EXCEPT ![i].status = "complete"]
       \/ /\ downloads[i].status \in {"starting", "downloading"}
          /\ downloads' = [downloads EXCEPT ![i].status = "failed"]
    /\ UNCHANGED <<remote, running, alive, session, tabs, open, at, used, failures,
                   overlaps, unlisted>>

\* The browser dies, or the connection to the host's browser; a browser that
\* dies takes its pages with it.
BrowserDies(d) ==
    /\ alive' = alive \ {d}
    /\ \/ open' = open \ ShownBy(d)
       \/ remote /\ open' = open
    /\ UNCHANGED <<remote, running, session, tabs, downloads, at, used, failures,
                   overlaps, unlisted>>

\* A user closes a page.
PageCloses(p) ==
    /\ open' = open \ {p}
    /\ UNCHANGED <<remote, running, alive, session, tabs, downloads, at, used, failures,
                   overlaps, unlisted>>

Call(a) ==
    \/ \E n \in OwnNames \cup {t.name : t \in Range(tabs)} : Get(a, n) \/ CloseTab(a, n)
    \/ Reconnect(a) \/ Close(a)
Resume(a) ==
    \/ Probed(a) \/ ProbeFails(a) \/ Evicted(a) \/ Opened(a) \/ OpenFails(a)
    \/ Reclosed(a) \/ Restopped(a) \/ Started(a) \/ Connected(a) \/ ConnectFails(a)
    \/ TabClosed(a) \/ Saved(a) \/ Emptied(a) \/ Downed(a) \/ Closed(a)
Outside ==
    \/ \E d \in alive : BrowserDies(d)
    \/ \E p \in open : PageCloses(p)

Next ==
    \/ \E a \in Agents : Call(a) \/ Resume(a)
    \/ \E n \in Names : Download(n)
    \/ \E i \in DOMAIN downloads : DownloadBegins(i) \/ DownloadEnds(i)
    \/ Outside

Spec == Init /\ [][Next]_vars

-----------------------------------------------------------------------------
Steady == \A a \in Agents : at[a].pc \notin Lifecycle

Pages == (1 .. MaxPages) \X (0 .. MaxDrivers)
Tabs == [name : Names, page : Pages, via : 1 .. MaxDrivers]
Launches(names, thens) ==
    [pc : {"start"}, name : names, then : thens]
    \cup [pc : {"connect", "reclose", "restop"}, name : names, then : thens, via : 1 .. MaxDrivers]
Calls ==
    {Idle}
    \cup Launches(Names, {"get", "get again"}) \cup Launches({NoName}, {"reconnect"})
    \cup [pc : {"open"}, name : Names, via : 0 .. MaxDrivers, retry : BOOLEAN]
    \cup [pc : {"probe", "evict"}, name : Names, page : Pages, via : 1 .. MaxDrivers]
    \cup [pc : {"closetab"}, page : Pages, via : 1 .. MaxDrivers]
    \cup [pc : {"emptying"}, names : Seq(Names), page : Pages, via : 1 .. MaxDrivers]
    \cup [pc : {"saving"}] \cup [pc : {"downing", "stopping"}, via : 0 .. MaxDrivers]

\* Pages are numbered, names are unique in _tabs, the session's driver runs.
TypeOK ==
    /\ remote \in BOOLEAN /\ launched \in BOOLEAN
    /\ used \in [drivers : 0 .. MaxDrivers, pages : 0 .. MaxPages]
    /\ alive \subseteq running /\ running \subseteq 1 .. used.drivers
    /\ playwright \in running \cup {None} /\ context \in 0 .. used.drivers
    /\ open \subseteq Pages /\ \A p \in open : p[1] <= used.pages
    /\ \A p, q \in open : p[1] = q[1] => p = q
    /\ tabs \in Seq(Tabs)
    /\ \A i, j \in DOMAIN tabs : tabs[i].name = tabs[j].name => i = j
    /\ at \in [Agents -> Calls]
    /\ failures \in Nat /\ overlaps \in Nat /\ unlisted \subseteq Pages

\* The fields agree: while no launch, reconnect or close is under way, the
\* session counts as launched exactly when it has a context.
FieldsAgree == Steady /\ overlaps = 0 => (launched <=> context # None)

\* MAX_TABS is checked before two awaits: each agent but one may add a tab
\* past it, and no more.
TabsBounded == ~remote => Len(tabs) <= MaxTabs + Cardinality(Agents) - 1

\* "One browser process shared across all agents": every driver that runs
\* without being the session's or a call's is accounted for by one connection
\* that failed or one call begun amid another's launch, reconnect or close;
\* without such a call all tabs that work are of the session's context.
InHand == {playwright} \cup {at[a].via : a \in {b \in Agents : at[b].pc \in {"connect", "restop", "stopping"}}}
SoleBrowser ==
    /\ Cardinality(running \ InHand) <= failures + overlaps
    /\ overlaps = 0 /\ Steady => \A t \in Range(tabs) : Usable(t.page, t.via) => t.via = context

\* Between launches, every page of the session's browser is under a tab, or being closed, or lost
\* its tab in one of three ways: its name was entered again by another call, a
\* probe of an older page forgot it, a first connection found it there.
Closing == {at[a].page : a \in {b \in Agents : at[b].pc \in {"evict", "closetab", "emptying"}}}
PagesListed ==
    context \in alive /\ overlaps = 0 /\ Steady =>
        \A p \in ShownBy(context) :
            p \in {t.page : t \in Range(tabs)} \cup Closing \cup unlisted

\* The tabs are well formed, not too many, and all the pages there are.
TabsKept == TypeOK /\ FieldsAgree /\ TabsBounded /\ PagesListed

\* A download that is reported complete saved the file its own source asked for,
\* unless two waited on one page at a time.
DownloadsOwn ==
    \A i \in DOMAIN downloads :
        downloads[i].status = "complete" /\ downloads[i].alone => downloads[i].got = i
=============================================================================
