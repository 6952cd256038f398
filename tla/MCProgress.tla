----------------------------- MODULE MCProgress -----------------------------
(* What must eventually happen in a navigation, part by part: the tab        *)
(* coordinator, the dials of a page, the document that loads. The first      *)
(* state says which part runs, the others stay as they begin.                *)
EXTENDS TabCoordinator, DialStreams, DocumentLoad

VARIABLE part

OneMarkup == {<<"src", "module", "inline">>}

ProgressInit ==
    /\ part \in {"coordinator", "dials", "load"}
    /\ CoordInit /\ DialsInit /\ LoadInit
    /\ part # "load" => ~page.streams

ProgressNext ==
    \/ part = "coordinator" /\ CoordNext /\ UNCHANGED <<part, dialVars, loadVars>>
    \/ part = "dials" /\ DialsNext /\ UNCHANGED <<part, coordVars, loadVars>>
    \/ part = "load" /\ LoadNext /\ UNCHANGED <<part, coordVars, dialVars>>

\* CoordFairness, DialsFairness and LoadFairness, each while its part runs.
Running(p) == part = p
ProgressFairness ==
    /\ WF_coordVars(Running("coordinator") /\ Continues)
    /\ SF_coordVars(Running("coordinator") /\ WakeUp)
    /\ \A c \in Calls :
          WF_coordVars(Running("coordinator") /\ \E w \in waiting : w.call = c /\ WaitDeadline(w))
    /\ WF_dialVars(Running("dials") /\ System)
    /\ WF_loadVars(Running("load") /\ CallStep) /\ SF_loadVars(Running("load") /\ DrainStep)
    /\ WF_loadVars(Running("load") /\ \E el \in srcDials, ok \in BOOLEAN : Arrive(el, ok))
    /\ SF_loadVars(Running("load") /\ EndBody)

ProgressSpec ==
    /\ ProgressInit /\ [][ProgressNext]_<<part, coordVars, dialVars, loadVars>>
    /\ ProgressFairness

\* What a navigation waits for comes: waiters are answered, the renderer thread
\* wakes, fetches settle and the load event fires.
NavigationSettles == WaitEnds /\ ThreadWakes /\ FetchSettles /\ LoadFires
=============================================================================
