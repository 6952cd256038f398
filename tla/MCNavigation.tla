---------------------------- MODULE MCNavigation ----------------------------
(* A navigation from the coordinator to the loaded document, part by part:   *)
(* the tab coordinator, the dials and streams of a page, the child's         *)
(* response streams and the document that loads. The first state says which  *)
(* part runs, the others stay as they begin.                                 *)
EXTENDS TabCoordinator, DialStreams, ResponseStreams, DocumentLoad

CONSTANT Parts

VARIABLE part

MCMarkup == {<<"src", "module", "inline">>}

NavInit ==
    /\ part \in Parts
    /\ CoordInit /\ DialsInit /\ ResponseInit /\ LoadInit
    /\ part # "load" => ~page.streams

NavNext ==
    \/ part = "coordinator" /\ CoordNext /\ UNCHANGED <<part, dialVars, responseVars, loadVars>>
    \/ part = "dials" /\ DialsNext /\ UNCHANGED <<part, coordVars, responseVars, loadVars>>
    \/ part = "response" /\ ResponseNext /\ UNCHANGED <<part, coordVars, dialVars, loadVars>>
    \/ part = "load" /\ LoadNext /\ UNCHANGED <<part, coordVars, dialVars, responseVars>>

NavSpec == NavInit /\ [][NavNext]_<<part, coordVars, dialVars, responseVars, loadVars>>

\* No step of a navigation aborts another upload's document or fires an event
\* before its scripts have run (response_streams, fire_document_end, check_load).
NavigationSteps == [][ResponseSteps /\ LoadSteps]_<<responseVars, loadVars>>
=============================================================================
