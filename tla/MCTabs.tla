------------------------------- MODULE MCTabs -------------------------------
(* The joint history of one tab, the registry of all tabs and the notices of *)
(* an exchange, checked side by side: the first state says which one runs,   *)
(* the others stay as they begin.                                            *)
EXTENDS JointHistory, TabRegistry, Exchange

VARIABLE part

\* The history of settled pages: none of its circumstances.
Calm == {}

TabPartsInit == part \in {"history", "tabs", "exchange"} /\ Init /\ TabsInit /\ ExchangeInit

TabPartsNext ==
    \/ part = "history" /\ Next /\ UNCHANGED <<part, tabsVars, exchangeVars>>
    \/ part = "tabs" /\ TabsNext /\ UNCHANGED <<part, vars, exchangeVars>>
    \/ part = "exchange" /\ ExchangeNext /\ UNCHANGED <<part, vars, tabsVars>>

TabPartsSpec == TabPartsInit /\ [][TabPartsNext]_<<part, vars, tabsVars, exchangeVars>>
=============================================================================
