---------------------------- MODULE DocumentLoad ----------------------------
(* How one frame loads its documents (renderer/document): the input stream, *)
(* the walk over the script elements, script fetches, the events of the end *)
(* of a parse and the load event. Everything runs on one thread, but page   *)
(* code runs inside almost every step and leaves requests in an outbox that *)
(* are applied in the middle of it: document.open() and document.close()    *)
(* replace the document the caller is still walking. The calls on the stack *)
(* are therefore part of the state: steps holds the continuations, the next *)
(* one first. Page code makes one choice of PageRequests wherever it runs.  *)
EXTENDS Integers, Sequences, FiniteSets, SequencesExt

CONSTANTS
    Markup,     \* what a parse may yield: sequences of the kinds of script in tree order
    MaxDocs,    \* bound on the documents the carrier installs
    MaxPage     \* bound on the requests page code makes

ASSUME LoadAssumption ==
    /\ \A m \in Markup : \A i \in DOMAIN m : m[i] \in {"inline", "src", "module"}
    /\ MaxDocs \in Nat /\ MaxPage \in Nat

VARIABLES
    doc,        \* the installed document: [id, ready, tree, parsed, started];
                \* the first parsed elements of tree come from the markup
    body,       \* the carrier still owes the end of a body
    input,      \* active_parse and its owner: "none", "carrier" or "script"
    active,     \* parser_active
    executed,   \* executed_scripts
    blocked,    \* parser_blocked_script
    modules,    \* deferred_modules
    srcDials,      \* script fetches of the ledger, queued or in flight
    tasks,      \* completions to run: <<script, succeeded>>
    outbox,     \* requests of page code
    steps,      \* the call stack
    loadFired,  \* load_fired
    page,       \* [made, streams]: requests made, and whether pages call document.open
    ran,        \* history: the scripts run, in order, as <<element, installed document>>
    loadEvents      \* history: the events of the installed document

loadVars == <<doc, body, input, active, executed, blocked, modules, srcDials, tasks, outbox, steps, loadFired, page, ran, loadEvents>>

NoScript == <<0, 0>>
Script(i) == <<doc.id, i>>

----------------------------------------------------------------------------
(* Continuations. *)

Then(ks) == steps' = ks \o Tail(steps)
Call(ks) == steps' = ks \o steps
At(k) == steps # <<>> /\ Head(steps).k = k
K(k) == [k |-> k]
Walk(tree, id) == [k |-> "walk", doc |-> id, left |-> [i \in DOMAIN tree |-> i]]
ResumeScripts == Walk(doc.tree, doc.id)
\* eval_classic: the script, then what it left in the outbox.
EvalClassic == <<K("page"), K("adopt")>>

----------------------------------------------------------------------------
(* Replacing the document. *)

LoadPendingParse == input # "none"
LoadPending == input # "none" \/ srcDials # {}

\* reset_js_realm: the tasks, fetches and requests of the old document go.
DropTasks == tasks' = <<>>
ResetKeepsBlocked(kept) ==
    /\ DropTasks /\ srcDials' = {}
    /\ loadFired' = FALSE
    /\ executed' = {} /\ blocked' = blocked /\ modules' = <<>>
    /\ outbox' = kept
ResetJsRealm(kept) ==
    /\ DropTasks /\ srcDials' = {}
    /\ loadFired' = FALSE
    /\ executed' = {} /\ blocked' = NoScript /\ modules' = <<>>
    /\ outbox' = kept
\* start_parser, after a reset that cleared parser_active.
StartParser(owner) == input' = owner /\ active' = TRUE

\* install_head: the old document stays until the body ends.
InstallHead ==
    /\ steps = <<>> /\ doc.id < MaxDocs
    /\ ResetJsRealm(<<>>) /\ StartParser("carrier") /\ body' = TRUE
    /\ UNCHANGED <<doc, steps, page, ran, loadEvents>>
\* end_body and abort_body, called by the carrier.
EndBody ==
    /\ steps = <<>> /\ body /\ body' = FALSE
    /\ Call(<<K("adopt"), K("finish")>>)
    /\ UNCHANGED <<doc, input, active, executed, blocked, modules, srcDials, tasks, outbox, loadFired, page, ran, loadEvents>>
\* load_html: a document in hand.
LoadHtml ==
    /\ steps = <<>> /\ doc.id < MaxDocs
    /\ ResetJsRealm(<<>>) /\ StartParser("carrier")
    /\ Call(<<K("adopt"), K("finish")>>) /\ body' = FALSE
    /\ UNCHANGED <<doc, page, ran, loadEvents>>

\* finish_parse once the outbox is empty: install_parsed, then the scripts.
FinishParse ==
    /\ At("finish")
    /\ IF input = "none"
       THEN Then(<<>>) /\ UNCHANGED <<doc, input, ran, loadEvents>>
       ELSE \E m \in Markup :
            /\ doc' = [id |-> doc.id + 1, ready |-> "loading", tree |-> m, parsed |-> Len(m), started |-> {}]
            /\ input' = "none" /\ loadEvents' = <<>>
            /\ Then(<<Walk(m, doc.id + 1)>>)
            /\ UNCHANGED ran
    /\ UNCHANGED <<active, executed, blocked, modules, srcDials, tasks, outbox, loadFired, page, body>>

----------------------------------------------------------------------------
(* Page code and its requests. *)

\* A script element the page appends: an inline one runs at once
\* (prepare_classic_script), the others are queued.
InsertScript(kind) ==
    LET i == Len(doc.tree) + 1 IN
    /\ doc' = [doc EXCEPT !.tree = Append(@, kind), !.started = IF kind = "inline" THEN @ \cup {i} ELSE @]
    /\ ran' = IF kind = "inline" THEN Append(ran, <<Script(i), doc.id>>) ELSE ran
    /\ outbox' = IF kind = "inline" THEN outbox ELSE Append(outbox, <<"script", Script(i)>>)
PageRequests == {<<"open">>, <<"close">>, <<"open", "close">>}
PageCode ==
    /\ At("page") /\ Then(<<>>)
    /\ \/ UNCHANGED <<doc, ran, outbox, page>>
       \/ /\ page.made < MaxPage /\ page' = [page EXCEPT !.made = @ + 1]
          /\ \/ \E kind \in {"inline", "src"} : InsertScript(kind)
             \/ page.streams /\ \E q \in PageRequests : outbox' = outbox \o [i \in DOMAIN q |-> <<q[i]>>] /\ UNCHANGED <<doc, ran>>
    /\ UNCHANGED <<input, active, executed, blocked, modules, srcDials, tasks, loadFired, loadEvents, body>>

\* queue_dynamic_script.
QueueDynamicScript(el) ==
    /\ IF el[1] = doc.id /\ el[2] \notin doc.started
       THEN /\ doc' = [doc EXCEPT !.started = @ \cup {el[2]}]
            /\ srcDials' \in {srcDials \cup {el}, srcDials}     \* refused by the policy: no fetch
       ELSE UNCHANGED <<doc, srcDials>>
    /\ outbox' = Tail(outbox)
    /\ UNCHANGED <<input, active, executed, blocked, modules, tasks, loadFired, steps>>
\* apply_document_stream: clear_outbox_for_open keeps the stream requests.
Reopen ==
    /\ ResetJsRealm(SelectSeq(Tail(outbox), LAMBDA q : q[1] # "script"))
    /\ StartParser("script")
    /\ UNCHANGED <<doc, steps>>
CloseStream ==
    /\ outbox' = Tail(outbox)
    /\ IF input = "script" THEN Call(<<K("adopt"), K("finish")>>) ELSE UNCHANGED steps
    /\ UNCHANGED <<doc, input, active, executed, blocked, modules, srcDials, tasks, loadFired>>
\* adopt_js_work.
AdoptJsWork ==
    /\ At("adopt")
    /\ IF outbox = <<>>
       THEN Then(<<>>) /\ UNCHANGED <<doc, input, active, executed, blocked, modules, srcDials, tasks, outbox, loadFired>>
       ELSE \/ Head(outbox)[1] = "script" /\ QueueDynamicScript(Head(outbox)[2])
            \/ Head(outbox)[1] = "open" /\ Reopen
            \/ Head(outbox)[1] = "close" /\ CloseStream
    /\ UNCHANGED <<page, ran, loadEvents, body>>

----------------------------------------------------------------------------
(* The walk over the scripts. *)

\* start_src_script: the walk stops and its caller returns with it.
BlockOn(i) == blocked' = Script(i) /\ srcDials' = srcDials \cup {Script(i)} /\ Then(<<>>)
WalkOn(w, ks) == Then(ks \o <<[w EXCEPT !.left = Tail(@)]>>)
RunScript(w, i) ==
    LET here == w.doc = doc.id
        kind == IF here THEN doc.tree[i] ELSE "none"
        launched == here /\ i \in doc.started
    IN  /\ executed' = executed \cup {<<w.doc, i>>}
        /\ doc' = IF here THEN [doc EXCEPT !.started = @ \cup {i}] ELSE doc
        /\ \/ /\ kind = "inline" /\ WalkOn(w, EvalClassic)
              /\ ran' = Append(ran, <<Script(i), doc.id>>) /\ UNCHANGED <<blocked, srcDials, modules>>
           \/ /\ kind = "src" /\ ~launched
              /\ BlockOn(i) /\ UNCHANGED <<ran, modules>>
           \/ /\ kind = "src" /\ ~launched
              /\ WalkOn(w, <<>>) /\ UNCHANGED <<ran, blocked, srcDials, modules>>    \* refused by the policy
           \/ /\ kind = "module" /\ modules' = Append(modules, Script(i))
              /\ WalkOn(w, <<>>) /\ UNCHANGED <<ran, blocked, srcDials>>
           \/ /\ kind = "none" \/ (kind = "src" /\ launched)
              /\ WalkOn(w, <<>>) /\ UNCHANGED <<ran, blocked, srcDials, modules>>
AlreadyRun(w) == <<w.doc, Head(w.left)>> \in executed
RunScripts ==
    /\ At("walk")
    /\ LET w == Head(steps) IN
       IF w.left = <<>> THEN Then(<<K("end")>>) /\ UNCHANGED <<doc, executed, blocked, srcDials, modules, ran>>
       ELSE IF AlreadyRun(w)
            THEN WalkOn(w, <<>>) /\ UNCHANGED <<doc, executed, blocked, srcDials, modules, ran>>
            ELSE RunScript(w, Head(w.left))
    /\ UNCHANGED <<input, active, tasks, outbox, loadFired, page, loadEvents, body>>

----------------------------------------------------------------------------
(* The end of a parse. *)

Fire(e) == loadEvents' = Append(loadEvents, e)

\* resume_scripts after the walk, fire_document_end.
DocumentEnd ==
    /\ At("end") /\ active' = FALSE
    /\ IF doc.ready = "loading"
       THEN /\ doc' = [doc EXCEPT !.ready = "interactive"] /\ Fire("interactive")
            /\ Then(<<K("page"), K("modules")>>)
       ELSE Then(<<K("check")>>) /\ UNCHANGED <<doc, loadEvents>>
    /\ UNCHANGED <<input, executed, blocked, modules, srcDials, tasks, outbox, loadFired, page, ran, body>>
\* run_deferred_modules: the list is taken before the first one runs.
TakeModules ==
    /\ At("modules") /\ modules' = <<>>
    /\ Then([i \in DOMAIN modules |-> [k |-> "module", el |-> modules[i]]] \o <<K("dcl")>>)
    /\ UNCHANGED <<doc, input, active, executed, blocked, srcDials, tasks, outbox, loadFired, page, ran, loadEvents, body>>
RunModule ==
    /\ At("module")
    /\ ran' = Append(ran, <<Head(steps).el, doc.id>>)
    /\ Then(<<K("page"), K("adopt")>>)
    /\ UNCHANGED <<doc, input, active, executed, blocked, modules, srcDials, tasks, outbox, loadFired, page, loadEvents, body>>
FireDomContentLoaded ==
    /\ At("dcl") /\ Fire("dcl")
    /\ Then(<<K("page"), K("adopt"), K("check")>>)
    /\ UNCHANGED <<doc, input, active, executed, blocked, modules, srcDials, tasks, outbox, loadFired, page, ran, body>>

\* check_load, complete_ready_state.
LoadEvents == (IF doc.ready = "complete" THEN <<>> ELSE <<"complete">>) \o <<"load">>
MayFireLoad == ~loadFired /\ doc.ready # "loading" /\ ~LoadPending
CheckLoad ==
    /\ At("check")
    /\ IF MayFireLoad
       THEN /\ doc' = [doc EXCEPT !.ready = "complete"]
            /\ loadEvents' = loadEvents \o LoadEvents
            /\ loadFired' = TRUE
            /\ Then(<<K("page"), K("adopt")>>)
       ELSE Then(<<>>) /\ UNCHANGED <<doc, loadEvents, loadFired>>
    /\ UNCHANGED <<input, active, executed, blocked, modules, srcDials, tasks, outbox, page, ran, body>>

----------------------------------------------------------------------------
(* Tasks. *)

\* A response arrives and is adopted; the fetch stays in the ledger.
Arrive(el, ok) ==
    /\ el \in srcDials /\ \A i \in DOMAIN tasks : tasks[i][1] # el
    /\ tasks' = Append(tasks, <<el, ok>>)
    /\ UNCHANGED <<doc, input, active, executed, blocked, modules, srcDials, outbox, steps, loadFired, page, ran, loadEvents, body>>

Unblocks(el) == blocked \in {NoScript, el}
\* finish_dial and fail_dial of a script.
FinishDial(el, ok) ==
    /\ srcDials' = srcDials \ {el} /\ tasks' = Tail(tasks)
    /\ blocked' = IF Unblocks(el) THEN NoScript ELSE blocked
    /\ ran' = IF ok THEN Append(ran, <<el, doc.id>>) ELSE ran
    /\ Call((IF ok THEN EvalClassic ELSE <<>>) \o <<K("page")>>
            \o (IF Unblocks(el) THEN <<K("resume")>> ELSE <<>>) \o <<K("adopt")>>)
\* drain_step: one task, or the load check when there is none.
DrainStep ==
    /\ steps = <<>>
    /\ IF tasks = <<>>
       THEN Call(<<K("adopt"), K("check")>>) /\ UNCHANGED <<srcDials, tasks, blocked, ran>>
       ELSE FinishDial(Head(tasks)[1], Head(tasks)[2])
    /\ UNCHANGED <<doc, input, active, executed, modules, outbox, loadFired, page, loadEvents, body>>
\* parse_steps reads the tree when the walk starts.
Resume ==
    /\ At("resume") /\ Then(<<ResumeScripts>>)
    /\ UNCHANGED <<doc, input, active, executed, blocked, modules, srcDials, tasks, outbox, loadFired, page, ran, loadEvents, body>>
\* A timer, a message or an evaluation from the host.
RunPageTask ==
    /\ steps = <<>> /\ page.made < MaxPage
    /\ Call(<<K("page"), K("adopt")>>)
    /\ UNCHANGED <<doc, input, active, executed, blocked, modules, srcDials, tasks, outbox, loadFired, page, ran, loadEvents, body>>

----------------------------------------------------------------------------

LoadInit ==
    /\ doc = [id |-> 0, ready |-> "complete", tree |-> <<>>, parsed |-> 0, started |-> {}]
    /\ input = "none" /\ active = FALSE /\ executed = {} /\ blocked = NoScript /\ modules = <<>>
    /\ srcDials = {} /\ tasks = <<>> /\ outbox = <<>> /\ steps = <<>>
    /\ loadFired = TRUE /\ page \in [made : {0}, streams : BOOLEAN] /\ body = FALSE /\ ran = <<>> /\ loadEvents = <<"interactive", "dcl", "complete", "load">>

CallStep ==
    \/ FinishParse \/ PageCode \/ AdoptJsWork \/ RunScripts \/ DocumentEnd \/ TakeModules
    \/ RunModule \/ FireDomContentLoaded \/ CheckLoad \/ Resume
LoadNext ==
    \/ CallStep
    \/ InstallHead \/ EndBody \/ LoadHtml \/ DrainStep \/ RunPageTask
    \/ \E el \in srcDials, ok \in BOOLEAN : Arrive(el, ok)

LoadSpec == LoadInit /\ [][LoadNext]_loadVars
\* A started call runs on, the loop drains between the requests of the host,
\* every script fetch is answered and every body ends or is aborted.
LoadFairness ==
    /\ WF_loadVars(CallStep) /\ SF_loadVars(DrainStep)
    /\ WF_loadVars(\E el \in srcDials, ok \in BOOLEAN : Arrive(el, ok))
    /\ SF_loadVars(EndBody)
LoadFairSpec == LoadSpec /\ LoadFairness

----------------------------------------------------------------------------
(* Properties. *)

\* Type invariant.
LoadTypeOK ==
    /\ doc.ready \in {"loading", "interactive", "complete"} /\ doc.started \subseteq DOMAIN doc.tree
    /\ input \in {"none", "carrier", "script"} /\ body \in BOOLEAN /\ active \in BOOLEAN /\ loadFired \in BOOLEAN
    /\ \A i \in DOMAIN tasks : tasks[i][1] \in srcDials
    /\ page.made \in 0..MaxPage

\* start_src_script, finish_dial and reset_js_realm: a walk never waits for a
\* fetch that no completion can answer, however documents replace each other.
WaitIsAnswered == blocked # NoScript => blocked \in srcDials /\ blocked \in executed

Fires(e) == Len(loadEvents') > Len(loadEvents) /\ Contains(SubSeq(loadEvents', Len(loadEvents) + 1, Len(loadEvents')), e)
Happened(e) == {i \in DOMAIN loadEvents : loadEvents[i] = e}

\* check_load: whatever page code does in between, a document's load event
\* fires once, after its DOMContentLoaded.
LoadOnceAfterEnd ==
    /\ Cardinality(Happened("load")) <= 1 /\ Cardinality(Happened("interactive")) <= 1
    /\ \A i \in Happened("load") : \E j \in Happened("dcl") : j < i

\* fire_document_end and check_load: the events of a document come in their
\* order and once each, unless page code replaces the document under them.
EventsInOrder == ~page.streams => IsPrefix(loadEvents, <<"interactive", "dcl", "complete", "load">>)

\* run_scripts: the scripts of the markup run in tree order, modules after
\* the others, and no one twice, whatever fetches finish in between and until
\* the next document starts to arrive.
MarkupRuns(d) == SelectSeq(ran, LAMBDA r : r[1][1] = d.id /\ r[1][2] <= d.parsed)
Rank(d, i) == IF d.tree[i] = "module" THEN Len(d.tree) + i ELSE i
MarkupInOrder ==
    ~page.streams /\ input = "none" =>
        LET r == MarkupRuns(doc) IN \A i, j \in DOMAIN r : i < j => Rank(doc, r[i][1][2]) < Rank(doc, r[j][1][2])

\* A document that loads: the walk waits only for what will be answered, scripts
\* run in markup order, and each event fires once and in order.
LoadSafe ==
    /\ LoadTypeOK /\ WaitIsAnswered /\ LoadOnceAfterEnd /\ EventsInOrder
    /\ MarkupInOrder

\* fire_document_end and check_load: DOMContentLoaded waits for every script
\* of the markup, load also for the scripts the page inserted.
EventsWait ==
    /\ Fires("dcl") /\ ~page.streams => \A i \in 1..doc.parsed :
         Script(i) \in executed /\ Script(i) \notin srcDials /\ (doc.tree[i] = "inline" => \E k \in DOMAIN ran : ran[k][1] = Script(i))
    /\ Fires("load") => srcDials = {} /\ input = "none" /\ (page.streams \/ modules = <<>>)

\* What every step of a loading document keeps.
LoadSteps == [EventsWait]_loadVars

\* Once its input has ended, every document gets its load event.
LoadFires == []<>(loadFired \/ input # "none")
=============================================================================
