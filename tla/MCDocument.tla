----------------------------- MODULE MCDocument -----------------------------
(* What the scripts of a page work with, part by part: live ranges, custom   *)
(* elements, XMLHttpRequest and message ports. The first state says which    *)
(* part runs, the others stay as they begin.                                 *)
EXTENDS LiveRanges, CustomElements, Xhr, MessagePorts

CONSTANT Parts

ASSUME PartsAssumption == Parts \subseteq {"ranges", "elements", "xhr", "ports"}

VARIABLE part

TwoCustoms == <<"a", "b">>

DocumentInit ==
    /\ part \in Parts
    /\ RangeInit /\ CustomInit /\ XhrInit /\ PortsInit
    /\ part # "ranges" => \A t \in Texts : tree.len[t] = 0

DocumentNext ==
    \/ part = "ranges" /\ RangeNext /\ UNCHANGED <<part, ceVars, xhrVars, portVars>>
    \/ part = "elements" /\ CustomNext /\ UNCHANGED <<part, rangeVars, xhrVars, portVars>>
    \/ part = "xhr" /\ XhrNext /\ UNCHANGED <<part, rangeVars, ceVars, portVars>>
    \/ part = "ports" /\ PortsNext /\ UNCHANGED <<part, rangeVars, ceVars, xhrVars>>

DocumentSpec == DocumentInit /\ [][DocumentNext]_<<part, rangeVars, ceVars, xhrVars, portVars>>

\* Texts are interchangeable.
TextSymmetry == Permutations(Texts)

\* No step carries a node or character across a range's boundary, tells a custom
\* element what it has heard, or takes a readyState back without a cancellation.
DocumentSteps == [][RangeSteps /\ CustomSteps /\ XhrSteps]_<<rangeVars, ceVars, xhrVars>>
=============================================================================
