---------------------------- MODULE CdpConnection ----------------------------
(* One DevTools websocket (cdp/src/lib.rs): its flattened sessions, the tab *)
(* events it subscribes to, and the commands it runs one at a time. Each    *)
(* subscription has a task that forwards the tab's events into one inbox;   *)
(* the socket loop takes an inbox event or the next command, and a command  *)
(* that awaits the page holds up both. Tabs also navigate by themselves and *)
(* are closed by others. A tab is the log of its events; the channels       *)
(* between tab and inbox are the part of it not yet forwarded.              *)
EXTENDS Naturals, Sequences, FiniteSets, SequencesExt

CONSTANTS
    Targets,      \* tabs
    MaxSessions,  \* bound of next_session
    InboxSize,    \* capacity of tab_events
    MaxLog,       \* bound on the events of a tab
    MaxCommands   \* bound on the commands of the client

NoTarget == "none"
BrowserTarget == "browser"
Direct == 0        \* a request without a session
Ids == 1..MaxSessions
ASSUME CdpAssumption ==
    /\ {NoTarget, BrowserTarget} \cap Targets = {} /\ IsFiniteSet(Targets)
    /\ {MaxSessions, InboxSize} \subseteq Nat \ {0}
    /\ {MaxLog, MaxCommands} \subseteq Nat

VARIABLES
    openTabs,    \* the browser's tabs
    born,        \* every tab id handed out so far
    log,         \* tab -> its events so far: "navigated", or another
    socketTab,   \* Conn.tab
    sessions,    \* Conn.sessions: id -> target, NoTarget when not there
    nextSession, \* Conn.next_session
    subs,        \* Conn.subscriptions with what each has forwarded: [tab, s, at]
    inbox,       \* tab_events_rx: [tab, s, i] for event i of the tab
    loaderIds,   \* Conn.loader_ids, 0 for none
    current,     \* Conn.current_loaders
    nextLoader,  \* Conn.next_loader
    autoAttach,  \* Conn.auto_attach
    command,     \* the command that awaits, and what it awaits
    commands,    \* commands received
    heard,       \* history: session -> the last event sent on it, 0 for none
    told,        \* history: the commits reported: [tab, i, s, loader]
    detached,    \* history: sessions announced as detached
    failed       \* history: tabs of failed createTarget commands

connVars == <<socketTab, sessions, nextSession, subs, loaderIds, current, nextLoader, autoAttach>>
cdpVars == <<openTabs, born, log, connVars, inbox, command, commands, heard, told, detached, failed>>

IdleCommand == [kind |-> "none"]
ClosedSocket == [kind |-> "closed"]

----------------------------------------------------------------------------
(* Routing. *)

\* dispatch: the target of a request; NoTarget is "unknown session".
TargetOf(s) ==
    IF s # Direct THEN sessions[s] ELSE IF socketTab # NoTarget THEN socketTab ELSE BrowserTarget
\* route: the class of the method accepts the target.
OnPage(s) == TargetOf(s) \in Targets
OnBrowser(s) == TargetOf(s) = BrowserTarget

Requesters == {Direct} \cup Ids
Command(s) == command = IdleCommand /\ commands < MaxCommands /\ commands' = commands + 1
NewSession(target) ==
    /\ nextSession <= MaxSessions /\ nextSession' = nextSession + 1
    /\ sessions' = [sessions EXCEPT ![nextSession] = target]

----------------------------------------------------------------------------
(* Sessions and targets. *)

\* attachToTarget and attachToBrowserTarget.
Attach(s, target) ==
    /\ Command(s) /\ OnBrowser(s) /\ target \in openTabs \cup {BrowserTarget}
    /\ NewSession(target)
    /\ UNCHANGED <<openTabs, born, log, socketTab, subs, loaderIds, current, nextLoader, autoAttach, inbox, command, heard, told, detached, failed>>

WithoutSession(S, x) == {u \in S : u.s # x}
Detach(s, x) ==
    /\ Command(s) /\ OnBrowser(s)
    /\ sessions' = [sessions EXCEPT ![x] = NoTarget]
    /\ subs' = WithoutSession(subs, x)
    /\ UNCHANGED <<openTabs, born, log, socketTab, nextSession, loaderIds, current, nextLoader, autoAttach, inbox, command, heard, told, detached, failed>>

\* set_auto_attach: one more session for every open tab.
SetAutoAttach(s, on) ==
    /\ Command(s) /\ OnBrowser(s)
    /\ autoAttach' = on
    /\ \E list \in IF on THEN SetToSeqs(openTabs) ELSE {<<>>} :
       /\ nextSession + Len(list) <= MaxSessions + 1
       /\ nextSession' = nextSession + Len(list)
       /\ sessions' = [i \in Ids |-> IF i >= nextSession /\ i < nextSession + Len(list) THEN list[i + 1 - nextSession] ELSE sessions[i]]
    /\ UNCHANGED <<openTabs, born, log, socketTab, subs, loaderIds, current, nextLoader, inbox, command, heard, told, detached, failed>>

\* create_target up to its open_url.
CreateTarget(s, t) ==
    /\ Command(s) /\ OnBrowser(s) /\ t \notin born
    /\ openTabs' = openTabs \cup {t} /\ born' = born \cup {t}
    /\ command' = [kind |-> "create", tab |-> t, s |-> s]
    /\ UNCHANGED <<log, connVars, inbox, heard, told, detached, failed>>
CreateAttached(ok) == ok /\ autoAttach
AfterFailedOpen(t) == openTabs \ {t}
\* A failed open closes the tab again.
FinishCreate(ok) ==
    /\ command.kind = "create" /\ command' = IdleCommand
    /\ ok => command.tab \in openTabs
    /\ openTabs' = IF ok THEN openTabs ELSE AfterFailedOpen(command.tab)
    /\ failed' = IF ok THEN failed ELSE failed \cup {command.tab}
    /\ IF CreateAttached(ok) THEN NewSession(command.tab) ELSE UNCHANGED <<sessions, nextSession>>
    /\ UNCHANGED <<born, log, socketTab, subs, loaderIds, current, nextLoader, autoAttach, inbox, commands, heard, told, detached>>

SessionsAll(t) == {x \in Ids : sessions[x] \in Targets}
SessionsOf(t) == {x \in Ids : sessions[x] = t}
\* close_target: with auto-attach the sessions are announced first, whether
\* or not the browser then finds the tab.
CloseTarget(s, t) ==
    /\ Command(s) /\ OnBrowser(s)
    /\ detached' = IF autoAttach THEN detached \cup SessionsOf(t) ELSE detached
    /\ openTabs' = openTabs \ {t}
    /\ IF t \in openTabs
       THEN /\ sessions' = [x \in Ids |-> IF sessions[x] = t THEN NoTarget ELSE sessions[x]]
            /\ subs' = {u \in subs : u.tab # t}
            /\ loaderIds' = [loaderIds EXCEPT ![t] = 0]
            /\ socketTab' = IF socketTab = t THEN NoTarget ELSE socketTab
       ELSE UNCHANGED <<sessions, subs, loaderIds, socketTab>>
    /\ UNCHANGED <<born, log, nextSession, current, nextLoader, autoAttach, inbox, command, heard, told, failed>>

\* Browser.close: the socket ends after the reply.
CloseBrowser(s) ==
    /\ Command(s) /\ OnBrowser(s)
    /\ openTabs' = {} /\ sessions' = [x \in Ids |-> NoTarget] /\ subs' = {} /\ socketTab' = NoTarget
    /\ command' = ClosedSocket
    /\ UNCHANGED <<born, log, nextSession, loaderIds, current, nextLoader, autoAttach, inbox, heard, told, detached, failed>>

----------------------------------------------------------------------------
(* Page commands. *)

SubscribedAt(t) == Len(log[t])
\* subscribe_tab: events emitted after this call, once per tab and session.
PageEnable(s) ==
    LET t == TargetOf(s) IN
    /\ Command(s) /\ OnPage(s) /\ t \in openTabs
    /\ subs' = IF \E u \in subs : u.tab = t /\ u.s = s THEN subs ELSE subs \cup {[tab |-> t, s |-> s, at |-> SubscribedAt(t)]}
    /\ UNCHANGED <<openTabs, born, log, socketTab, sessions, nextSession, loaderIds, current, nextLoader, autoAttach, inbox, command, heard, told, detached, failed>>
PageDisable(s) ==
    /\ Command(s) /\ OnPage(s)
    /\ subs' = {u \in subs : ~(u.tab = TargetOf(s) /\ u.s = s)}
    /\ UNCHANGED <<openTabs, born, log, socketTab, sessions, nextSession, loaderIds, current, nextLoader, autoAttach, inbox, command, heard, told, detached, failed>>

\* navigate_tab up to its wait for the tab's next outcome.
PageNavigate(s) ==
    LET t == TargetOf(s) IN
    /\ Command(s) /\ OnPage(s) /\ t \in openTabs
    /\ nextLoader' = nextLoader + 1
    /\ loaderIds' = [loaderIds EXCEPT ![t] = nextLoader]
    /\ command' = [kind |-> "navigate", tab |-> t, s |-> s]
    /\ UNCHANGED <<openTabs, born, log, socketTab, sessions, nextSession, subs, current, autoAttach, inbox, heard, told, detached, failed>>
\* dispatch_runtime with a promise to await.
Evaluate(s) ==
    /\ Command(s) /\ OnPage(s) /\ TargetOf(s) \in openTabs
    /\ command' = [kind |-> "await", tab |-> TargetOf(s), s |-> s]
    /\ UNCHANGED <<openTabs, born, log, connVars, inbox, heard, told, detached, failed>>

\* The wait ends: the next outcome of the tab, the tab gone, the script
\* settled or the deadline. All of these answer the client.
FinishWait ==
    /\ command.kind \in {"navigate", "await"} /\ command' = IdleCommand
    /\ UNCHANGED <<openTabs, born, log, connVars, inbox, commands, heard, told, detached, failed>>

----------------------------------------------------------------------------
(* Events. *)

\* The forward task of a subscription.
Forward(u) ==
    /\ u \in subs /\ u.at < Len(log[u.tab]) /\ Len(inbox) < InboxSize
    /\ subs' = (subs \ {u}) \cup {[u EXCEPT !.at = @ + 1]}
    /\ inbox' = Append(inbox, [tab |-> u.tab, s |-> u.s, i |-> u.at + 1])
    /\ UNCHANGED <<openTabs, born, log, socketTab, sessions, nextSession, loaderIds, current, nextLoader, autoAttach, command, commands, heard, told, detached, failed>>

\* push_navigated: the stored loader id, else a new one.
LoaderFor(t) == IF loaderIds[t] # 0 THEN [id |-> loaderIds[t], next |-> nextLoader, left |-> 0]
                ELSE [id |-> nextLoader, next |-> nextLoader + 1, left |-> 0]

\* event_messages, between two commands.
DeliverEvent ==
    LET e == Head(inbox)
        l == LoaderFor(e.tab)
    IN  /\ inbox # <<>> /\ command = IdleCommand
        /\ inbox' = Tail(inbox)
        /\ heard' = [heard EXCEPT ![e.s] = e.i]
        /\ IF log[e.tab][e.i] = "navigated"
           THEN /\ loaderIds' = [loaderIds EXCEPT ![e.tab] = l.left] /\ nextLoader' = l.next
                /\ current' = [current EXCEPT ![e.tab] = l.id]
                /\ told' = told \cup {[tab |-> e.tab, i |-> e.i, s |-> e.s, loader |-> l.id]}
           ELSE UNCHANGED <<loaderIds, nextLoader, current, told>>
        /\ UNCHANGED <<openTabs, born, log, socketTab, sessions, nextSession, subs, autoAttach, command, commands, detached, failed>>

\* The tab: a commit, a load or a failure, whoever asked for it; and another
\* client that closes it.
TabEvent(t, e) ==
    /\ t \in openTabs /\ Len(log[t]) < MaxLog
    /\ log' = [log EXCEPT ![t] = Append(@, e)]
    /\ UNCHANGED <<openTabs, born, connVars, inbox, command, commands, heard, told, detached, failed>>
OthersClose(t) ==
    /\ t \in openTabs /\ openTabs' = openTabs \ {t}
    /\ UNCHANGED <<born, log, connVars, inbox, command, commands, heard, told, detached, failed>>

CdpInit ==
    /\ openTabs \in SUBSET Targets /\ born = openTabs /\ log = [t \in Targets |-> <<>>]
    /\ socketTab \in openTabs \cup {NoTarget}
    /\ sessions = [i \in Ids |-> NoTarget] /\ nextSession = 1 /\ subs = {} /\ inbox = <<>>
    /\ loaderIds = [t \in Targets |-> 0] /\ current = [t \in Targets |-> 0] /\ nextLoader = 1
    /\ autoAttach = FALSE /\ command = IdleCommand /\ commands = 0
    /\ heard = [s \in Requesters |-> 0] /\ told = {} /\ detached = {} /\ failed = {}

SocketStep == (\E u \in subs : Forward(u)) \/ DeliverEvent \/ FinishWait \/ (\E ok \in BOOLEAN : FinishCreate(ok))
CdpNext ==
    \/ \E s \in Requesters :
        \/ \E t \in Targets \cup {BrowserTarget} : Attach(s, t)
        \/ \E x \in Ids : Detach(s, x)
        \/ \E on \in BOOLEAN : SetAutoAttach(s, on)
        \/ \E t \in Targets : CreateTarget(s, t) \/ CloseTarget(s, t)
        \/ PageEnable(s) \/ PageDisable(s) \/ PageNavigate(s) \/ Evaluate(s) \/ CloseBrowser(s)
    \/ SocketStep
    \/ \E t \in Targets : OthersClose(t) \/ \E e \in {"navigated", "load"} : TabEvent(t, e)
CdpSpec == CdpInit /\ [][CdpNext]_cdpVars

----------------------------------------------------------------------------
(* Properties. *)

\* Sessions and subscriptions of the connection are well formed and ids are
\* handed out once.
CdpTypeOK ==
    /\ openTabs \subseteq Targets /\ socketTab \in Targets \cup {NoTarget} /\ Len(inbox) <= InboxSize
    /\ \A i \in Ids : sessions[i] \in Targets \cup {NoTarget, BrowserTarget} /\ (i >= nextSession => sessions[i] = NoTarget)
    /\ \A u \in subs : u.at <= Len(log[u.tab])
    /\ \A t \in Targets : loaderIds[t] < nextLoader /\ current[t] < nextLoader

\* Whatever was attached, detached or closed, every subscription belongs to a
\* session that still exists and drives the tab it listens to (lib.rs:
\* unsubscribe_session, unsubscribe_tab_id).
SubscriptionsOwned ==
    /\ \A u \in subs : u.tab = TargetOf(u.s)
    /\ \A u, v \in subs : u.tab = v.tab /\ u.s = v.s => u = v

\* A session is sent the events of its tab in the tab's order and none of
\* them twice, across disable and enable and with events of older
\* subscriptions still in the inbox.
HeardInOrder == \A s \in Requesters : heard'[s] >= heard[s] /\ (inbox # <<>> /\ inbox' = Tail(inbox) /\ Head(inbox).s = s => heard'[s] > heard[s])

\* What every step of a CDP connection keeps.
CdpSteps == [HeardInOrder]_cdpVars

\* A loader id names one document: no two commits of the connection's tabs
\* are reported with the same id (lib.rs: next_loader_id, push_navigated).
LoaderNamesOneDocument == \A a, b \in told : a.loader = b.loader => a.tab = b.tab /\ a.i = b.i

\* A session the client was told is detached reaches no open tab: it is gone,
\* or the close it was announced for found the tab closed already (lib.rs:
\* close_target).
DetachedIsDead == \A x \in detached : sessions[x] = NoTarget \/ sessions[x] \notin openTabs

\* A createTarget that answers with an error leaves no tab behind.
FailedCreateClosed == failed \cap openTabs = {}

\* A CDP connection: its subscriptions belong to living sessions, its ids name
\* one thing, and what it reported closed or failed is closed.
CdpSafe ==
    /\ CdpTypeOK /\ SubscriptionsOwned /\ LoaderNamesOneDocument /\ DetachedIsDead
    /\ FailedCreateClosed

=============================================================================
