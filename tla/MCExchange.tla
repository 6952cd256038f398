----------------------------- MODULE MCExchange -----------------------------
(* Exchange for TLC, in two parts whose product would be too large: as many  *)
(* calls as there are ids and no notices, or one caller and one call among   *)
(* notices in both directions.  The first state says which.                  *)
EXTENDS Exchange, TLC

VARIABLE part

Symmetry == Permutations(Callers)

CallsInit == part \in {"calls", "notices"} /\ ExchangeInit

CallsNext ==
    \/ part = "calls" /\ ExchangeNext /\ UNCHANGED <<part, nvars>>
    \/ /\ part = "notices" /\ ExchangeNext /\ part' = part
       /\ nextCall' <= 2 /\ Cardinality({c \in Callers : callerAt'[c] # "idle"}) <= 1

CallsSpec == CallsInit /\ [][CallsNext]_<<part, exchangeVars>>
=============================================================================
