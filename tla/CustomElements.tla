--------------------------- MODULE CustomElements ---------------------------
(***************************************************************************)
(* Custom elements: how the engine notices that an element entered or left *)
(* the document and when it tells the element so.                          *)
(*                                                                         *)
(* Tree mutations leave mutation records.  A private observer, the shim in *)
(* custom_elements.js, turns records into reactions, one queue per         *)
(* element.  A reaction scope (reactions.rs) surrounds every operation     *)
(* page code may call: entering it turns the records that are already      *)
(* there into reactions of the surrounding scope, leaving it turns the     *)
(* operation's own records into reactions, closes the scope and delivers   *)
(* them.  Reactions raised outside every scope wait in the backup queue    *)
(* for a microtask.  Delivery runs page code, which calls operations       *)
(* again, to any depth.                                                    *)
(*                                                                         *)
(* All custom elements share one definition here; attribute reactions,     *)
(* shadow trees and adoption into another document are left out.           *)
(***************************************************************************)
EXTENDS Naturals, Sequences, SequencesExt

CONSTANTS
    Customs,          \* the custom elements, as a sequence in tree order
    Plain,            \* elements without a definition
    HasMoveCallback,  \* the definition has a connectedMoveCallback
    MovesItself,      \* a constructor may insert, remove or move its element
    MaxOperations,    \* bound on the operations of one task
    MaxRecords        \* bound on the parser's untaken records

ASSUME CustomsAssumption ==
    Len(Customs) <= 2 /\ IsInjective(Customs) /\ Range(Customs) \cap Plain = {}
ASSUME CallbackAssumption == HasMoveCallback \in BOOLEAN /\ MovesItself \in BOOLEAN
ASSUME CustomBounds == MaxOperations \in Nat \ {0} /\ MaxRecords \in Nat \ {0}

VARIABLES
    above,       \* parent of each element, "document" or "none"
    defined,     \* the definition exists and the document is observed
    upgraded,    \* elements whose upgrade began
    connected,   \* elements the shim believes to be in the document
    atomicMoves, \* roots whose next records are a move, not an insertion
    records,     \* mutation records nobody has taken yet
    reactions,   \* element_reactions: the queue of each element
    backup,      \* the backup queue of elements
    scheduled,   \* backup_scheduled
    calls,       \* the running calls, innermost first
    heard,       \* the last connection callback each element has heard
    broken,      \* elements whose constructor threw
    operations   \* operations of this task so far

ceVars == <<above, defined, upgraded, connected, atomicMoves, records, reactions,
            backup, scheduled, calls, heard, broken, operations>>

Elements == Range(Customs)
Nodes == Elements \cup Plain
Reactions == {"upgrade", "connected", "disconnected", "moved"}

-----------------------------------------------------------------------------
(* The tree *)

\* Elements may hold elements that come later in tree order; plain ones hold any.
Holders(node) ==
    {"document"} \cup (IF node \in Plain THEN {}
                       ELSE Plain \cup {Customs[i] : i \in
                                            {i \in DOMAIN Customs : \E j \in DOMAIN Customs :
                                                j > i /\ Customs[j] = node}})

\* The node, its parent and so on: with two custom elements no chain is longer.
Ancestors(tree, node) ==
    LET Up(n) == IF n \in Nodes THEN tree[n] ELSE "none"
    IN {node, Up(node), Up(Up(node)), Up(Up(Up(node)))} \ {"none"}
isConnected(tree, node) == "document" \in Ancestors(tree, node)

\* visitElements: the custom elements of a subtree, in tree order.
visitElements(tree, root) == SelectSeq(Customs, LAMBDA e : root \in Ancestors(tree, e))

\* match_observation: the document is observed from the first definition on, an
\* element from its upgrade on, both with their subtrees.
Observed(tree, target) ==
    \/ defined /\ (target = "document" \/ (target \in Nodes /\ isConnected(tree, target)))
    \/ target \in Nodes /\ Ancestors(tree, target) \cap upgraded # {}

\* The child-list records of one node leaving its parent and getting another.
MoveRecords(node, to, tree) ==
    (IF Observed(tree, above[node]) THEN <<[kind |-> "removed", node |-> node]>> ELSE <<>>)
    \o (IF Observed(tree, to) THEN <<[kind |-> "added", node |-> node]>> ELSE <<>>)

-----------------------------------------------------------------------------
(* From records to reactions.  The shim's state while it collects: the      *)
(* reaction queues, the elements to append to the scope's queue, what it    *)
(* believes connected and the marks of moves.                               *)

Shim == [rx |-> reactions, queue |-> <<>>, conn |-> connected, marks |-> atomicMoves]

enqueueReaction(shim, element, reaction) ==
    [shim EXCEPT !.rx[element] = Append(@, reaction), !.queue = Append(@, element)]

upgradeTree(shim, tree, root) ==
    FoldLeft(LAMBDA s, e : IF e \in upgraded THEN s ELSE enqueueReaction(s, e, "upgrade"),
             shim, visitElements(tree, root))

notifyConnected(shim, tree, root) ==
    FoldLeft(LAMBDA s, e :
                 IF e \in upgraded /\ e \notin s.conn /\ isConnected(tree, e)
                 THEN enqueueReaction([s EXCEPT !.conn = @ \cup {e}], e, "connected")
                 ELSE s,
             shim, visitElements(tree, root))

notifyDisconnected(shim, tree, root) ==
    FoldLeft(LAMBDA s, e :
                 IF e \in upgraded /\ e \in s.conn
                 THEN enqueueReaction([s EXCEPT !.conn = @ \ {e}], e, "disconnected")
                 ELSE s,
             shim, visitElements(tree, root))

noteConnectedMove(shim, tree, root) ==
    FoldLeft(LAMBDA s, e :
                 IF e \notin upgraded \/ ~isConnected(tree, e) THEN s
                 ELSE IF HasMoveCallback THEN enqueueReaction(s, e, "moved")
                 ELSE enqueueReaction(enqueueReaction(s, e, "disconnected"), e, "connected"),
             [shim EXCEPT !.marks = @ \cup {root}], visitElements(tree, root))

\* Mutant: inserted elements that are not upgraded yet are left alone.
CollectWithoutUpgrade(shim, tree, record) ==
    CASE record.node \in shim.marks /\ record.kind = "removed" -> shim
      [] record.node \in shim.marks /\ record.kind = "added" ->
            [shim EXCEPT !.marks = @ \ {record.node}]
      [] record.node \notin shim.marks /\ record.kind = "removed" ->
            notifyDisconnected(shim, tree, record.node)
      [] record.node \notin shim.marks /\ record.kind = "added" ->
            notifyConnected(shim, tree, record.node)

collectRecord(shim, tree, record) ==
    CASE record.node \in shim.marks /\ record.kind = "removed" -> shim
      [] record.node \in shim.marks /\ record.kind = "added" ->
            [shim EXCEPT !.marks = @ \ {record.node}]
      [] record.node \notin shim.marks /\ record.kind = "removed" ->
            notifyDisconnected(shim, tree, record.node)
      [] record.node \notin shim.marks /\ record.kind = "added" ->
            notifyConnected(IF isConnected(tree, record.node)
                            THEN upgradeTree(shim, tree, record.node) ELSE shim,
                            tree, record.node)

collectRecords(shim, tree, list) ==
    IF ~defined THEN shim
    ELSE FoldLeft(LAMBDA s, r : collectRecord(s, tree, r), shim, list)

-----------------------------------------------------------------------------
(* The calls.  Page code runs in a task, a callback, a constructor or a     *)
(* script that an insertion executes inside its scope; "invoke" delivers a  *)
(* closed scope's queue, and "backup" the backup queue.                     *)

PageCode == {"task", "callback", "constructor", "script"}

CallPage(kind, element, queue, after) ==
    [kind |-> kind, element |-> element, queue |-> queue, after |-> after]

InnermostCall == Head(calls)
OpenScopes(list) == {i \in DOMAIN list : list[i].kind = "script"}

\* What Enqueue does with the element: the innermost open scope or the backup queue.
Noted(list, queue) ==
    IF OpenScopes(list) = {} THEN list
    ELSE LET scope == CHOOSE i \in OpenScopes(list) : \A j \in OpenScopes(list) : i <= j
         IN [list EXCEPT ![scope].queue = @ \o queue]

Keep(shim, list) ==
    /\ reactions' = shim.rx
    /\ connected' = shim.conn
    /\ atomicMoves' = shim.marks
    /\ IF OpenScopes(list) = {} THEN /\ backup' = backup \o shim.queue
                                     /\ scheduled' = (scheduled \/ shim.queue # <<>>)
       ELSE UNCHANGED <<backup, scheduled>>

Free == calls # <<>> /\ InnermostCall.kind \in PageCode /\ operations < MaxOperations

\* Unless MovesItself, no constructor disturbs the element it constructs.
Allowed(node) ==
    MovesItself \/ \A i \in DOMAIN calls :
        calls[i].kind = "constructor" => node \notin Ancestors(above, calls[i].element)

\* with_reactions around an operation that leaves the tree and these records behind
\* and raises "direct" reactions itself.  A scope that runs a script stays open.
WithReactions(tree, made, direct(_), after, script) ==
    LET pushed == collectRecords(Shim, above, records)
        scope  == direct([pushed EXCEPT !.queue = <<>>])
        popped == collectRecords(scope, tree, made)
        inner  == IF script THEN CallPage("script", "none", scope.queue, after)
                            ELSE CallPage("invoke", "none", popped.queue, after)
        kept   == IF script THEN scope ELSE popped
    IN /\ above' = tree
       /\ records' = IF script THEN made ELSE <<>>
       /\ Keep([kept EXCEPT !.queue = pushed.queue], calls)
       /\ calls' = <<inner>> \o Noted(calls, pushed.queue)
       /\ operations' = operations + 1
       /\ UNCHANGED <<upgraded, heard, broken>>

Same(shim) == shim

Mutate(node, to, after, script) ==
    LET tree == [above EXCEPT ![node] = to]
    IN WithReactions(tree, MoveRecords(node, to, tree), Same, after, script)

\* appendChild, insertBefore and replaceChild upgrade their argument once more in a
\* scope of their own ("after"); append, before and the rest do not.  A plain node may
\* be a script, which runs inside the insertion.
InsertNode(node, to) ==
    /\ Free /\ Allowed(node)
    /\ to \in Holders(node)
    /\ \E after \in {node, "none"}, script \in BOOLEAN :
          /\ script => (node \in Plain /\ to = "document")
          /\ Mutate(node, to, after, script)
    /\ UNCHANGED defined

RemoveNode(node) ==
    /\ Free /\ Allowed(node)
    /\ above[node] # "none"
    /\ Mutate(node, "none", "none", FALSE)
    /\ UNCHANGED defined

\* move_before_node: both parents are in one tree; only a connected move is noted.
MoveBefore(node, to) ==
    /\ Free /\ Allowed(node)
    /\ to \in Holders(node) /\ above[node] # "none"
    /\ isConnected(above, node)
    /\ to = "document" \/ (to \in Nodes /\ isConnected(above, to))
    /\ LET tree == [above EXCEPT ![node] = to]
           Note(s) == IF defined THEN noteConnectedMove(s, tree, node) ELSE s
       IN WithReactions(tree, MoveRecords(node, to, tree), Note, "none", FALSE)
    /\ UNCHANGED defined

\* CustomElementRegistry.define
Define ==
    /\ Free
    /\ ~defined
    /\ defined' = TRUE
    /\ LET Whole(s) == upgradeTree(s, above, "document")
       IN WithReactions(above, <<>>, Whole, "none", FALSE)

\* CustomElementRegistry.upgrade, and createElement's upgrade of its own element
Upgrade(root) ==
    /\ Free
    /\ defined
    /\ LET Whole(s) == upgradeTree(s, above, root)
       IN WithReactions(above, <<>>, Whole, "none", FALSE)
    /\ UNCHANGED defined

\* The parser inserts a new element without a scope: its records wait.
Parse(node, to) ==
    /\ calls = <<>> /\ ~scheduled
    /\ Len(records) < MaxRecords
    /\ above[node] = "none" /\ node \notin Range(above) /\ node \notin upgraded
    /\ to \in Holders(node)
    /\ to = "document" \/ isConnected(above, to)
    /\ LET tree == [above EXCEPT ![node] = to]
       IN /\ above' = tree
          /\ records' = records \o MoveRecords(node, to, tree)
    /\ UNCHANGED <<defined, upgraded, connected, atomicMoves, reactions, backup, scheduled,
                   calls, heard, broken, operations>>

-----------------------------------------------------------------------------
(* Delivery *)

\* One step of invoke on the queue's first element.
Deliver ==
    /\ calls # <<>> /\ InnermostCall.kind \in {"invoke", "backup"} /\ InnermostCall.queue # <<>>
    /\ LET element  == Head(InnermostCall.queue)
           reaction == Head(reactions[element])
       IN IF reactions[element] = <<>>
          THEN /\ calls' = [calls EXCEPT ![1].queue = Tail(@)]
               /\ UNCHANGED <<reactions, upgraded, heard>>
          ELSE /\ reactions' = [reactions EXCEPT ![element] = Tail(@)]
               /\ IF reaction # "upgrade"
                  THEN /\ calls' = <<CallPage("callback", element, <<>>, reaction)>> \o calls
                       /\ heard' = [heard EXCEPT ![element] =
                                       IF reaction = "moved" THEN @ ELSE reaction]
                       /\ UNCHANGED upgraded
                  ELSE /\ calls' = IF element \in upgraded THEN calls
                                   ELSE <<CallPage("constructor", element, <<>>, "none")>> \o calls
                       /\ upgraded' = upgraded \cup {element}
                       /\ UNCHANGED heard
    /\ UNCHANGED <<above, defined, connected, atomicMoves, records, backup, scheduled, broken,
                   operations>>

\* The queue is done: the insertion wrapper opens its second scope, the backup
\* delivery looks for more, everything else returns.
Delivered ==
    /\ calls # <<>> /\ InnermostCall.kind \in {"invoke", "backup"} /\ InnermostCall.queue = <<>>
    /\ CASE InnermostCall.after \in Nodes ->
              LET pushed == collectRecords(Shim, above, records)
                  second == IF defined /\ isConnected(above, InnermostCall.after)
                            THEN upgradeTree([pushed EXCEPT !.queue = <<>>], above, InnermostCall.after)
                            ELSE [pushed EXCEPT !.queue = <<>>]
              IN /\ Keep([second EXCEPT !.queue = pushed.queue], Tail(calls))
                 /\ records' = <<>>
                 /\ calls' = <<CallPage("invoke", "none", second.queue, "none")>>
                                \o Noted(Tail(calls), pushed.queue)
         [] InnermostCall.after \notin Nodes /\ InnermostCall.kind = "backup" /\ backup # <<>> ->
              /\ calls' = [calls EXCEPT ![1].queue = backup]
              /\ backup' = <<>>
              /\ UNCHANGED <<scheduled, records, reactions, connected, atomicMoves>>
         [] InnermostCall.after \notin Nodes /\ ~(InnermostCall.kind = "backup" /\ backup # <<>>) ->
              /\ calls' = Tail(calls)
              /\ scheduled' = IF InnermostCall.kind = "backup" THEN FALSE ELSE scheduled
              /\ UNCHANGED <<backup, records, reactions, connected, atomicMoves>>
    /\ UNCHANGED <<above, defined, upgraded, heard, broken, operations>>

\* Page code returns.  After a constructor the upgrade goes on: a connected element
\* hears so, unless the constructor threw.  After a script the insertion's scope closes.
PageReturns ==
    /\ calls # <<>> /\ InnermostCall.kind \in PageCode
    /\ CASE InnermostCall.kind \in {"task", "callback"} ->
              /\ calls' = Tail(calls)
              /\ UNCHANGED <<records, reactions, connected, atomicMoves, backup, scheduled, broken>>
         [] InnermostCall.kind = "constructor" ->
              LET element == InnermostCall.element
                  told    == enqueueReaction([Shim EXCEPT !.conn = @ \cup {element}],
                                             element, "connected")
              IN \E threw \in BOOLEAN :
                   LET after == IF ~threw /\ isConnected(above, element) THEN told ELSE Shim
                   IN /\ Keep(after, Tail(calls))
                      /\ calls' = Noted(Tail(calls), after.queue)
                      /\ broken' = IF threw THEN broken \cup {element} ELSE broken
                      /\ UNCHANGED records
         [] InnermostCall.kind = "script" ->
              LET popped == collectRecords(Shim, above, records)
              IN /\ Keep([popped EXCEPT !.queue = <<>>], Tail(calls))
                 /\ records' = <<>>
                 /\ calls' = <<CallPage("invoke", "none", InnermostCall.queue \o popped.queue, InnermostCall.after)>>
                                \o Tail(calls)
                 /\ UNCHANGED broken
    /\ UNCHANGED <<above, defined, upgraded, heard, operations>>

\* The observer's microtask: collectRecords outside every scope.
ObserverMicrotask ==
    /\ calls = <<>> /\ records # <<>>
    /\ Keep(collectRecords(Shim, above, records), calls)
    /\ records' = <<>>
    /\ UNCHANGED <<above, defined, upgraded, calls, heard, broken, operations>>

\* DeliverBackup
BackupMicrotask ==
    /\ calls = <<>> /\ scheduled
    /\ calls' = <<CallPage("backup", "none", backup, "none")>>
    /\ backup' = <<>>
    /\ operations' = 0
    /\ UNCHANGED <<above, defined, upgraded, connected, atomicMoves, records, reactions,
                   scheduled, heard, broken>>

\* A task or a parser script starts page code; the microtasks of the last one have run.
StartTask ==
    /\ calls = <<>> /\ ~scheduled
    /\ calls' = <<CallPage("task", "none", <<>>, "none")>>
    /\ operations' = 0
    /\ UNCHANGED <<above, defined, upgraded, connected, atomicMoves, records, reactions,
                   backup, scheduled, heard, broken>>

CustomInit ==
    /\ above = [n \in Nodes |-> "none"]
    /\ defined = FALSE
    /\ upgraded = {} /\ connected = {} /\ atomicMoves = {} /\ broken = {}
    /\ records = <<>> /\ backup = <<>> /\ calls = <<>>
    /\ reactions = [e \in Elements |-> <<>>]
    /\ scheduled = FALSE
    /\ heard = [e \in Elements |-> "none"]
    /\ operations = 0

CustomNext ==
    \/ \E node \in Nodes, to \in Nodes \cup {"document"} :
          InsertNode(node, to) \/ MoveBefore(node, to) \/ Parse(node, to)
    \/ \E node \in Nodes : RemoveNode(node) \/ Upgrade(node)
    \/ Define \/ Deliver \/ Delivered \/ PageReturns
    \/ ObserverMicrotask \/ BackupMicrotask \/ StartTask

CustomSpec == CustomInit /\ [][CustomNext]_ceVars

-----------------------------------------------------------------------------
\* Types of the tree, the shim's sets and the calls.
CustomTypeOK ==
    /\ above \in [Nodes -> Nodes \cup {"document", "none"}]
    /\ upgraded \subseteq Elements /\ connected \subseteq upgraded /\ broken \subseteq upgraded
    /\ atomicMoves \subseteq Nodes
    /\ \A i \in DOMAIN records : records[i].kind \in {"added", "removed"} /\ records[i].node \in Nodes
    /\ \A e \in Elements : Range(reactions[e]) \subseteq Reactions
    /\ Range(backup) \subseteq Elements
    /\ \A i \in DOMAIN calls :
          /\ calls[i].kind \in PageCode \cup {"invoke", "backup"}
          /\ Range(calls[i].queue) \subseteq Elements
    /\ heard \in [Elements -> {"none", "connected", "disconnected"}]

Working(element) == element \in upgraded \ broken

\* Nothing runs and nothing waits for a microtask.
AtRest == calls = <<>> /\ records = <<>> /\ ~scheduled

\* A reaction that waits is in some queue that will be delivered: the backup queue with
\* its microtask scheduled, the queue of an open scope, or one being delivered.
ReactionsCarried ==
    /\ \A e \in Elements : reactions[e] # <<>> =>
          \/ e \in Range(backup) /\ scheduled
          \/ \E i \in DOMAIN calls : e \in Range(calls[i].queue)
    /\ backup # <<>> => scheduled

\* When everything has been delivered, every custom element in the document is upgraded
\* and the last callback an element heard says where it is.
HeardWhereItIs ==
    AtRest /\ defined =>
        \A e \in Elements :
            /\ isConnected(above, e) => e \in upgraded
            /\ Working(e) => /\ (heard[e] = "connected") = isConnected(above, e)
                             /\ (e \in connected) = isConnected(above, e)

\* No mark of a move outlives the move's own records: a mark that stayed would hide the
\* node's next removal.
MovesConsumed == calls = <<>> \/ InnermostCall.kind \in PageCode => atomicMoves = {}

\* No reaction of a custom element is lost or stale once the page code that
\* caused it has returned.
CustomSafe ==
    CustomTypeOK /\ ReactionsCarried /\ HeardWhereItIs /\ MovesConsumed

\* "Connection reactions: fire once per connection transition, whatever mutation path
\* caused it": connectedCallback and disconnectedCallback of an element alternate,
\* beginning with connectedCallback, and a move is told only to a connected element.
CallbackIsNews ==
    Len(calls') > Len(calls) /\ Head(calls').kind = "callback" =>
        LET element == Head(calls').element
            what    == Head(calls').after
        IN Working(element) =>
              CASE what = "connected" -> heard[element] # "connected"
                [] what \in {"disconnected", "moved"} -> heard[element] = "connected"
                [] OTHER -> TRUE

\* What every callback of a custom element is.
CustomSteps == [CallbackIsNews]_ceVars

=============================================================================
