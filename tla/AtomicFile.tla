----------------------------- MODULE AtomicFile -----------------------------
(* What a saved profile file promises, whatever happens to the machine: the *)
(* name always stands for one complete content, an old one or the new one.  *)
(* possible[f] is the set of contents a power loss may leave behind.        *)
CONSTANTS Files, Contents

VARIABLE possible

Init == possible \in [Files -> {{c} : c \in Contents}]

\* A new content takes the name; until that settles the old one may come back.
Replace(f, c) == possible' = [possible EXCEPT ![f] = @ \cup {c}]

\* A sync of the directory, or a power loss, leaves one of the contents.
Settle ==
    \E s \in [Files -> Contents] :
        /\ \A f \in Files : s[f] \in possible[f]
        /\ possible' = [f \in Files |-> {s[f]}]

Next == Settle \/ \E f \in Files, c \in Contents : Replace(f, c)

Spec == Init /\ [][Next]_possible
=============================================================================
