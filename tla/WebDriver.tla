----------------------------- MODULE WebDriver -----------------------------
(***************************************************************************)
(* The WebDriver server (crates/webdriver/src/lib.rs).  One mutex holds    *)
(* the session table for the whole of a command, so commands follow each   *)
(* other; what runs between the awaits of a command is everything else:    *)
(* pages that open and close tabs, navigate and call back, and the client  *)
(* that hangs up, which drops the command where it waits and frees the     *)
(* lock.                                                                   *)
(*                                                                         *)
(* A window handle, a tab, a document and a script are numbers; a document *)
(* has one element, named by the document.  A remote number is what the    *)
(* tab's engine hands out for an element; it counts from one in a new      *)
(* engine.                                                                 *)
(***************************************************************************)
EXTENDS Integers, FiniteSets, Sequences

CONSTANTS
    Clients,        \* the clients to choose from: each the set of commands it sends
    MaxTabs,        \* bound: tabs ever created
    MaxHandles,     \* bound: window handles ever made
    MaxDocuments,   \* bound: names for the documents that are open or that a reference remembers
    MaxScripts,     \* bound: names for the scripts that a slot, a callback or a command remembers
    MaxIssued,      \* bound: remote numbers an engine gives out
    MaxHangups      \* bound: commands the client gives up

ASSUME WebDriverBounds ==
    /\ Clients \subseteq SUBSET {"new_session", "new_window", "close_window", "switch_window", "delete_session",
                                 "navigate", "find_element", "element_click", "execute"}
    /\ {MaxTabs, MaxHandles, MaxDocuments, MaxScripts, MaxIssued, MaxHangups} \subseteq Nat

VARIABLES
    client,     \* the commands this client sends
    live,       \* live[t]: the open tab t: its engine, how many numbers that issued, its document, the element's number, the script slot
    made,       \* [tab, mine]: how many tabs there have been, and which of the open ones this server created
    driver,     \* [session, current, windows]: the session table; session 0 is none
    handleCount,\* next_window
    order,      \* the command that holds the lock
    given,      \* the element reference the client remembers, as a set of at most one
    calling,    \* page callbacks that have not run
    hangups,    \* commands given up
    outcome     \* what the last step answered, when a property is about it

wdVars == <<client, live, made, driver, handleCount, order, given, calling, hangups, outcome>>

NoOrder == [kind |-> "none", at |-> "none", rest |-> {}, tab |-> 0, script |-> 0]
NoSession == [session |-> 0, current |-> 0, windows |-> <<>>]
Quiet == [kind |-> "none"]

FreshTab(d) == [engine |-> d, issued |-> 0, document |-> d, remote |-> 0, slot |-> 0, wrote |-> 0]
With(f, k, v) == [x \in DOMAIN f \cup {k} |-> IF x = k THEN v ELSE f[x]]
Only(f, K) == [x \in DOMAIN f \cap K |-> f[x]]

\* current(): the tab of the selected window, when the session lists it
Selected == driver.windows[driver.current]
HasSelected == driver.current \in DOMAIN driver.windows
SelectedOpen == HasSelected /\ Selected \in DOMAIN live

WdInit ==
    /\ client \in Clients
    /\ live = <<>>
    /\ made = [tab |-> 0, mine |-> {}]
    /\ driver = NoSession
    /\ handleCount = 0
    /\ order = NoOrder
    /\ given = {}
    /\ calling = {}
    /\ hangups = 0
    /\ outcome = Quiet

\* a step that answers nothing
Silent == outcome' = Quiet
Answered(o) == order' = NoOrder /\ outcome' = o
At(kind, at) == order.kind = kind /\ order.at = at

------------------------------------------------------------------------------
(* The tabs themselves, and the client.                                      *)

\* A document or a script gets a name nothing remembers.
Lowest(S) == CHOOSE x \in S : \A y \in S : x <= y
FreeDocuments ==
    1..MaxDocuments \ UNION ({{live[t].document, live[t].engine} : t \in DOMAIN live}
                              \cup {{r.document, r.engine} : r \in given})
FreeScripts ==
    1..MaxScripts \ ({live[t].slot : t \in DOMAIN live} \cup {c.slot : c \in calling})

AddTab(mine) ==
    /\ made.tab < MaxTabs /\ FreeDocuments # {}
    /\ live' = With(live, made.tab + 1, FreshTab(Lowest(FreeDocuments)))
    /\ made' = [tab |-> made.tab + 1, mine |-> IF mine THEN made.mine \cup {made.tab + 1} ELSE made.mine]

\* window.open in a page, or another client's create_tab
PageOpens == AddTab(FALSE) /\ UNCHANGED <<driver, handleCount, order, given, calling, hangups>> /\ Silent

GoneTabs(T) ==
    /\ live' = Only(live, DOMAIN live \ T)
    /\ made' = [made EXCEPT !.mine = @ \ T]
    /\ calling' = {c \in calling : c.tab \notin T}

\* window.close in a page, or another client's close_tab
TabCloses(t) ==
    /\ t \in DOMAIN live
    /\ GoneTabs({t})
    /\ UNCHANGED <<driver, handleCount, order, given, hangups>> /\ Silent

\* A navigation replaces the document: in the same engine, whose world is
\* reset and whose counter goes on, or in the engine of another renderer.
NewDocument(tab, d, fresh) ==
    IF fresh THEN FreshTab(d) ELSE [FreshTab(d) EXCEPT !.engine = tab.engine, !.issued = tab.issued]
Replace(t, fresh) ==
    /\ FreeDocuments # {}
    /\ live' = [live EXCEPT ![t] = NewDocument(@, Lowest(FreeDocuments), fresh)]
    /\ calling' = {c \in calling : c.tab # t}

PageNavigates(t) ==
    /\ t \in DOMAIN live
    /\ \E fresh \in BOOLEAN : Replace(t, fresh)
    /\ UNCHANGED <<made, driver, handleCount, order, given, hangups>> /\ Silent

SlotOfWindow(c) == live[c.tab].slot
\* The function wrap_script made for the script writes the slot object it
\* closed over, whatever slot the window has by then.
SlotOfCallback(c) == c.slot
CallsBack(c) ==
    /\ c \in calling
    /\ calling' = calling \ {c}
    /\ live' = [live EXCEPT ![c.tab].wrote = IF SlotOfCallback(c) = live[c.tab].slot THEN c.slot ELSE @]
    /\ UNCHANGED <<made, driver, handleCount, order, given, hangups>> /\ Silent

\* The client closes its connection: the request's future is dropped where
\* it waits, and the lock with it.
HangsUp ==
    /\ order # NoOrder
    /\ hangups < MaxHangups
    /\ hangups' = hangups + 1
    /\ Answered(Quiet)
    /\ UNCHANGED <<live, made, driver, handleCount, given, calling>>

------------------------------------------------------------------------------
(* dispatch and sync_windows.                                                *)

SessionKinds == {"new_window", "close_window", "switch_window", "delete_session",
                 "navigate", "find_element", "element_click", "execute"}

\* A command on a session asks the browser for its tabs before anything else.
Receive(kind) ==
    /\ order = NoOrder /\ kind \in client
    /\ kind \in SessionKinds => driver.session # 0
    /\ order' = [NoOrder EXCEPT !.kind = kind, !.at = IF kind \in SessionKinds THEN "tabs" ELSE "start"]
    /\ Silent
    /\ UNCHANGED <<live, made, driver, handleCount, given, calling, hangups>>

\* browser.tabs(): windows of closed tabs are forgotten.  The tabs that no
\* window has are asked for one after the other.
Unlisted(windows, ids) == {t \in ids : \A h \in DOMAIN windows : windows[h] # t}
SyncTabs ==
    /\ order.at = "tabs"
    /\ LET kept == Only(driver.windows, {h \in DOMAIN driver.windows : driver.windows[h] \in DOMAIN live}) IN
       /\ driver' = [driver EXCEPT !.windows = kept]
       /\ order' = [order EXCEPT !.at = "adopt", !.rest = Unlisted(kept, DOMAIN live)]
    /\ UNCHANGED <<live, made, handleCount, given, calling, hangups>> /\ Silent

\* browser.tab(id): a tab that has closed meanwhile is passed over
NextHandle == handleCount + 1
AdoptTab(t) ==
    /\ order.at = "adopt" /\ t \in order.rest
    /\ order' = [order EXCEPT !.rest = @ \ {t}]
    /\ \/ t \notin DOMAIN live /\ UNCHANGED <<driver, handleCount>>
       \/ /\ t \in DOMAIN live /\ handleCount < MaxHandles
          /\ handleCount' = handleCount + 1
          /\ driver' = [driver EXCEPT !.windows = With(@, NextHandle, t)]
    /\ UNCHANGED <<live, made, given, calling, hangups>> /\ Silent

\* The selected window is moved when it is no longer listed and another is.
Selectable(d) == IF d.current \in DOMAIN d.windows \/ d.windows = <<>> THEN {d.current} ELSE DOMAIN d.windows
SyncDone ==
    /\ order.at = "adopt" /\ order.rest = {}
    /\ \E h \in Selectable(driver) : driver' = [driver EXCEPT !.current = h]
    /\ order' = [order EXCEPT !.at = "start"]
    /\ UNCHANGED <<live, made, handleCount, given, calling, hangups>> /\ Silent

------------------------------------------------------------------------------
(* Sessions and windows.                                                     *)

\* create and new_window take their numbers before anything can fail; a
\* second session is refused.
TakeNumbers ==
    /\ order.kind \in {"new_session", "new_window"} /\ order.at = "start"
    /\ handleCount < MaxHandles
    /\ IF order.kind = "new_session" /\ driver.session # 0
       THEN Answered(Quiet) /\ UNCHANGED handleCount
       ELSE /\ order' = [order EXCEPT !.at = "create", !.script = NextHandle]
            /\ handleCount' = handleCount + 1
            /\ Silent
    /\ UNCHANGED <<live, made, driver, given, calling, hangups>>

\* blank_window: create_tab, which may fail
CreateTab ==
    /\ order.at = "create"
    /\ \/ AddTab(TRUE) /\ order' = [order EXCEPT !.at = "load", !.tab = made.tab + 1] /\ Silent
       \/ Answered(Quiet) /\ UNCHANGED <<live, made>>
    /\ UNCHANGED <<driver, handleCount, given, calling, hangups>>

\* load_html on the new tab: the window is listed, or it fails and the tab
\* is closed
AfterFailedLoad(t) == DOMAIN live \ {t}
LoadBlank ==
    /\ order.at = "load"
    /\ \/ /\ order.tab \in DOMAIN live
          /\ driver' = IF order.kind = "new_window"
                       THEN [driver EXCEPT !.windows = With(@, order.script, order.tab)]
                       ELSE [session |-> 1, current |-> order.script, windows |-> With(<<>>, order.script, order.tab)]
          /\ UNCHANGED <<live, made, calling>>
       \/ GoneTabs(DOMAIN live \ AfterFailedLoad(order.tab)) /\ UNCHANGED driver
    /\ Answered(Quiet)
    /\ UNCHANGED <<handleCount, given, hangups>>

SwitchWindow(h) ==
    /\ At("switch_window", "start")
    /\ driver' = IF h \in DOMAIN driver.windows THEN [driver EXCEPT !.current = h] ELSE driver
    /\ Answered(Quiet)
    /\ UNCHANGED <<live, made, handleCount, given, calling, hangups>>

\* close_window forgets the selected window and selects another one, then
\* closes the tab; a session without windows ends.
CloseWindow ==
    /\ At("close_window", "start")
    /\ IF ~HasSelected
       THEN Answered(Quiet) /\ UNCHANGED driver
       ELSE LET left == Only(driver.windows, DOMAIN driver.windows \ {driver.current}) IN
            /\ \E h \in Selectable([driver EXCEPT !.windows = left]) :
                  driver' = [driver EXCEPT !.windows = left, !.current = h]
            /\ order' = [order EXCEPT !.at = "close", !.rest = {Selected}]
            /\ Silent
    /\ UNCHANGED <<live, made, handleCount, given, calling, hangups>>

\* delete_session drops the session, then closes its tabs one by one.
DeleteSession ==
    /\ At("delete_session", "start")
    /\ driver' = NoSession
    /\ order' = [order EXCEPT !.at = "close", !.rest = {driver.windows[h] : h \in DOMAIN driver.windows}]
    /\ UNCHANGED <<live, made, handleCount, given, calling, hangups>> /\ Silent

CloseTab(t) ==
    /\ order.at = "close" /\ t \in order.rest
    /\ GoneTabs({t})
    /\ order' = [order EXCEPT !.rest = @ \ {t}]
    /\ UNCHANGED <<driver, handleCount, given, hangups>> /\ Silent

EndsWithoutWindows == driver.windows = <<>>
CloseDone ==
    /\ order.at = "close" /\ order.rest = {}
    /\ driver' = IF EndsWithoutWindows THEN NoSession ELSE driver
    /\ Answered([kind |-> "closed", empty |-> driver.windows = <<>>])
    /\ UNCHANGED <<live, made, handleCount, given, calling, hangups>>

------------------------------------------------------------------------------
(* Commands on the selected window.                                          *)

\* A session whose selected window is not listed answers an error, and so
\* does a tab that has closed.
Refused ==
    /\ order.kind \in {"navigate", "find_element", "element_click", "execute"}
    /\ order.at = "start" /\ ~SelectedOpen
    /\ Answered(Quiet)
    /\ UNCHANGED <<live, made, driver, handleCount, given, calling, hangups>>

\* goto on the tab commits a document, or fails or times out before it does
Navigate ==
    /\ At("navigate", "start") /\ SelectedOpen
    /\ \/ \E fresh \in BOOLEAN : Replace(Selected, fresh)
       \/ UNCHANGED <<live, calling>>
    /\ Answered(Quiet)
    /\ UNCHANGED <<made, driver, handleCount, given, hangups>>

\* remote_id: the number of the document's element, handed out on first use
RemoteOf(tab) == IF tab.remote # 0 THEN tab.remote ELSE tab.issued + 1
Interned(tab) == [tab EXCEPT !.remote = RemoteOf(tab), !.issued = IF tab.remote # 0 THEN @ ELSE @ + 1]

FindElement ==
    /\ At("find_element", "start") /\ SelectedOpen
    /\ live' = [live EXCEPT ![Selected] = Interned(@)]
    /\ live'[Selected].issued <= MaxIssued
    /\ given' \in {given, {[handle |-> driver.current, remote |-> live'[Selected].remote, tab |-> Selected,
                             engine |-> live[Selected].engine, document |-> live[Selected].document]}}
    /\ Answered(Quiet)
    /\ UNCHANGED <<made, driver, handleCount, calling, hangups>>

\* element_click, element_send_keys and element_rect: a reference of another
\* window is refused, the page looks the number up.
OfThisWindow(ref) == ref.handle = driver.current
ElementClick(ref) ==
    /\ At("element_click", "start") /\ SelectedOpen
    /\ ref \in given
    /\ IF OfThisWindow(ref) /\ live[Selected].remote = ref.remote
       THEN Answered([kind |-> "clicked", ref |-> ref, tab |-> Selected,
                      engine |-> live[Selected].engine, document |-> live[Selected].document])
       ELSE Answered(Quiet)
    /\ UNCHANGED <<live, made, driver, handleCount, given, calling, hangups>>

\* execute: the wrapper makes a slot and runs the script, which answers at
\* once ("plain"), returns a promise or takes a callback ("async").
Execute(how) ==
    /\ At("execute", "start") /\ SelectedOpen
    /\ FreeScripts # {}
    /\ LET new == Lowest(FreeScripts) IN
       /\ live' = [live EXCEPT ![Selected].slot = new, ![Selected].wrote = 0]
       /\ calling' = IF how = "plain" THEN calling ELSE calling \cup {[tab |-> Selected, slot |-> new]}
       /\ order' = [order EXCEPT !.at = IF how = "async" THEN "await" ELSE how, !.tab = Selected, !.script = new]
    /\ UNCHANGED <<made, driver, handleCount, given, hangups>> /\ Silent

SlotRead == IF order.tab \in DOMAIN live THEN live[order.tab].slot ELSE 0
Value(v) == [kind |-> "value", script |-> order.script, value |-> v]

\* The slot is asked whether the script returned a promise; a new document
\* has no slot and the question throws.
AskWait ==
    /\ order.at \in {"plain", "promise"}
    /\ CASE SlotRead = 0 -> Answered(Quiet)
         [] SlotRead # 0 /\ order.at = "plain" -> Answered(Value(order.script))
         [] SlotRead # 0 /\ order.at = "promise" -> order' = [order EXCEPT !.at = "await"] /\ Silent
    /\ UNCHANGED <<live, made, driver, handleCount, given, calling, hangups>>

\* run_until_js_true: done, or the deadline, a navigation or a closed tab
AwaitDone ==
    /\ order.at = "await"
    /\ \/ SlotRead # 0 /\ live[order.tab].wrote # 0 /\ order' = [order EXCEPT !.at = "read"] /\ Silent
       \/ Answered(Quiet)
    /\ UNCHANGED <<live, made, driver, handleCount, given, calling, hangups>>

\* The slot's failed, error and value are read one after the other.
ReadSlot ==
    /\ order.at = "read"
    /\ IF SlotRead = 0 THEN Answered(Quiet) ELSE Answered(Value(live[order.tab].wrote))
    /\ UNCHANGED <<live, made, driver, handleCount, given, calling, hangups>>

Pages ==
    \/ PageOpens
    \/ \E t \in 1..MaxTabs : TabCloses(t) \/ PageNavigates(t)
    \/ \E c \in calling : CallsBack(c)
    \/ HangsUp

Commands ==
    \/ \E k \in client : Receive(k)
    \/ SyncTabs \/ SyncDone
    \/ \E t \in 1..MaxTabs : AdoptTab(t) \/ CloseTab(t)
    \/ TakeNumbers \/ CreateTab \/ LoadBlank
    \/ \E h \in 1..MaxHandles : SwitchWindow(h)
    \/ CloseWindow \/ DeleteSession \/ CloseDone
    \/ Refused \/ Navigate \/ FindElement
    \/ \E ref \in given : ElementClick(ref)
    \/ \E how \in {"plain", "promise", "async"} : Execute(how)
    \/ AskWait \/ AwaitDone \/ ReadSlot

WdNext == (Pages \/ Commands) /\ UNCHANGED client

WdSpec == WdInit /\ [][WdNext]_wdVars

------------------------------------------------------------------------------
(* Properties.                                                               *)

WdTypeOK ==
    /\ DOMAIN live \subseteq 1..MaxTabs
    /\ driver.session \in 0..1 /\ driver.current \in 0..MaxHandles
    /\ DOMAIN driver.windows \subseteq 1..MaxHandles
    /\ handleCount \in 0..MaxHandles
    /\ order.rest \subseteq 1..MaxTabs
    /\ calling \subseteq [tab : DOMAIN live, slot : 1..MaxScripts]
    /\ \A t \in DOMAIN live : live[t].remote <= live[t].issued

\* sync_windows, create and new_window: a tab has one handle, whichever of
\* them listed it and whatever opened or closed between their awaits.
OneHandlePerTab ==
    \A h, g \in DOMAIN driver.windows : driver.windows[h] = driver.windows[g] => h = g

\* A handle, once given out, names the same tab until it is forgotten, and
\* is never given out again: commands sent to a handle that has closed do
\* not reach another tab.
HandlesAreForever ==
    \A h \in DOMAIN driver'.windows :
       \/ h \in DOMAIN driver.windows /\ driver'.windows[h] = driver.windows[h]
       \/ h > handleCount
       \/ h = order.script /\ order.at = "load"

\* What every step of a WebDriver server keeps.
WdSteps == [HandlesAreForever]_wdVars

\* dispatch: after the sync, a command finds the selected window listed
\* whenever the session has a window at all.
SelectionListed ==
    order.at = "start" /\ order.kind \in SessionKinds /\ driver.windows # <<>> => HasSelected

\* blank_window and delete_session: once the session is gone and nothing was
\* given up by the client, none of the tabs the server made is still open.
NoTabLeftBehind ==
    order = NoOrder /\ driver.session = 0 /\ hangups = 0 => made.mine \cap DOMAIN live = {}

\* close_window: the answer with no remaining handle means that the session
\* has ended, so that a new one is not refused.
EmptyAnswerEnds ==
    outcome.kind = "closed" /\ outcome.empty => driver.session = 0

\* execute: the value answered was written by the script of this command,
\* and not by the late callback of one that timed out before.
ScriptAnswerIsOwn == outcome.kind = "value" => outcome.value = outcome.script

\* element_click: a reference acts in the tab it was found in and, as long as
\* the tab keeps its engine, on the element it was found for.
ClickHitsItsElement ==
    outcome.kind = "clicked" =>
        /\ outcome.tab = outcome.ref.tab
        /\ outcome.engine = outcome.ref.engine => outcome.document = outcome.ref.document

\* A WebDriver session whose commands await between their steps while the page
\* opens, closes and replaces tabs: handles, answers and references stay true.
WdSafe ==
    /\ WdTypeOK /\ OneHandlePerTab /\ SelectionListed /\ NoTabLeftBehind
    /\ EmptyAnswerEnds /\ ScriptAnswerIsOwn /\ ClickHitsItsElement
==============================================================================
