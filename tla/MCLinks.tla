------------------------------- MODULE MCLinks -------------------------------
(* The assignment registry of the browser, the calls of an exchange, and the *)
(* threads of a renderer child, checked side by side: the first state says   *)
(* which one runs, the others stay as they begin.                            *)
EXTENDS AssignmentRegistry, RendererChild, Exchange

VARIABLE part

LinksInit == part \in {"registry", "child", "exchange"} /\ RegistryInit /\ Init /\ ExchangeInit

LinksNext ==
    \/ part = "registry" /\ RegistryNext /\ UNCHANGED <<part, vars, exchangeVars>>
    \/ part = "child" /\ Next /\ UNCHANGED <<part, registryVars, exchangeVars>>
    \/ part = "exchange" /\ ExchangeNext /\ UNCHANGED <<part, registryVars, vars>>

\* RegistryFairness, ChildFairness and ExchangeFairness, each while its part runs.
Running(p) == part = p
LinksFairness ==
    /\ \A id \in AsgIds : WF_registryVars(Running("registry") /\ DropStep(id))
    /\ WF_registryVars(Running("registry") /\ ServiceStep)
    /\ \A w \in Workers : WF_registryVars(Running("registry") /\ WorkerStep(w))
    /\ WF_vars(Running("child") /\ CallStep) /\ WF_vars(Running("child") /\ Token)
    /\ WF_vars(Running("child") /\ LoopEnds) /\ WF_vars(Running("child") /\ Writer)
    /\ WF_vars(Running("child") /\ Closing)
    /\ \A c \in Calls : WF_vars(Running("child") /\ Deliver(c))
    /\ WF_vars(Running("child") /\ ~ host /\ ReadEnds)
    /\ WF_exchangeVars(Running("exchange") /\ ServerRouter)
    /\ WF_exchangeVars(Running("exchange") /\ ClientRouter)
    /\ WF_exchangeVars(Running("exchange") /\ ServerRecv)
    /\ \A i \in CallIds : WF_exchangeVars(Running("exchange") /\ Reply(i))
    /\ \A c \in Callers : WF_exchangeVars(Running("exchange") /\ Return(c))

LinksSpec ==
    /\ LinksInit /\ [][LinksNext]_<<part, registryVars, vars, exchangeVars>>
    /\ LinksFairness

\* What a renderer and its browser wait for comes: streams of dropped
\* assignments end, calls return or fail, and the child exits.
LinksSettle == StreamsEnd /\ SyncCallReturns /\ ChildExits /\ AwaitedCallSettles
=============================================================================
