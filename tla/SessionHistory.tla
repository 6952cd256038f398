--------------------------- MODULE SessionHistory ---------------------------
(***************************************************************************)
(* One tab's joint session history (browser/src/history.rs) as operators    *)
(* on a record.  Every &mut self method is an operator from the old record  *)
(* to the new one.                                                          *)
(*                                                                          *)
(*   entries    the entry vector, as a function from entry identities: the  *)
(*              code looks entries up by identity only                      *)
(*   frames     each frame's list of identities                             *)
(*   pending    navigations that have started and not committed             *)
(*   cur        current_step                                                *)
(*   names      the target name of each document state                      *)
(*                                                                          *)
(* Titles, state strings and URLs are left out.  Of an entry's URL only     *)
(* `web` is kept: TRUE when its origin is a tuple (http, https), FALSE when *)
(* it is opaque (about, data), because the actor compares origins.          *)
(***************************************************************************)
EXTENDS Integers, Sequences, FiniteSets, SequencesExt, FiniteSetsExt, Functions, TLC

MAIN   == 0        \* FrameId::MAIN
None   == -1       \* Option::None, for an entry
NoName == "none"   \* Option::None, for a name

\* SessionHistory::new: one blank entry of the main frame.
New ==
  [entries   |-> 0 :> [step |-> 0, local |-> 0, doc |-> 0, web |-> FALSE],
   frames    |-> MAIN :> <<0>>,
   pending   |-> <<>>,
   cur       |-> 0,
   nextDoc   |-> 1,
   nextEntry |-> 1,
   names     |-> <<>>]

Without(f, x) == Restrict(f, DOMAIN f \ {x})

Ids(h, f) == IF f \in DOMAIN h.frames THEN h.frames[f] ELSE <<>>

Docs(h) == {h.entries[e].doc : e \in DOMAIN h.entries}

\* The last entry of the frame's list that is not past the step; when there is
\* none, the first entry of the list.
ActiveAt(h, f, step) ==
  LET ids  == Ids(h, f)
      last == SelectLastInSeq(ids, LAMBDA e : e \in DOMAIN h.entries /\ h.entries[e].step <= step)
  IN CASE ids = <<>> -> None
       [] last = 0   -> ids[1]
       [] OTHER      -> ids[last]

Active(h, f) == ActiveAt(h, f, h.cur)

\* The position of an entry in its frame's list, counted from 0 as in the code.
Position(h, f, e) == SelectInSeq(Ids(h, f), LAMBDA x : x = e) - 1

UsedSteps(h) == {h.entries[e].step : e \in DOMAIN h.entries}

\* The used step `delta` places from the current one, or None past either end.
\* The current place is the greatest used step not past cur, the first used
\* step when there is none.
TargetStep(h, delta) ==
  LET past == {s \in UsedSteps(h) : s <= h.cur}
      here == IF past = {} THEN Min(UsedSteps(h)) ELSE Max(past)
      Rank(s) == Cardinality({t \in UsedSteps(h) : t < s})
      hits == {s \in UsedSteps(h) : Rank(s) = Rank(here) + delta}
  IN IF hits = {} THEN None ELSE CHOOSE s \in hits : TRUE

\* Names of documents that no entry presents any longer are dropped.
ForgetNames(h, docs) ==
  [h EXCEPT !.names = Restrict(@, DOMAIN @ \ (docs \ Docs(h)))]

DropEntries(h, gone) ==
  ForgetNames([h EXCEPT !.entries = Restrict(@, DOMAIN @ \ gone),
                        !.frames  = [f \in DOMAIN @ |-> SelectSeq(@[f], LAMBDA e : e \notin gone)]],
              {h.entries[e].doc : e \in gone})

Forward(h) == {e \in DOMAIN h.entries : h.entries[e].step > h.cur}

\* Mutant: the entries go, the lists still name them.
TruncateForwardKeepsLists(h) == [DropEntries(h, Forward(h)) EXCEPT !.frames = h.frames]

\* The forward branch leaves every frame's list.
TruncateForward(h) == DropEntries(h, Forward(h))

Named(h, doc, name) == IF name = NoName THEN h.names ELSE (doc :> name) @@ h.names

\* insert_entry at the next step, which becomes current in every caller.  A
\* local position inside the list shifts what follows it.
InsertEntry(h, f, local, doc, name, web) ==
  LET id  == h.nextEntry
      ids == Ids(h, f)
  IN [h EXCEPT !.entries   = (id :> [step |-> h.cur + 1, local |-> local, doc |-> doc, web |-> web]) @@ @,
               !.frames    = (f :> IF local < Len(ids) THEN InsertAt(ids, local + 1, id) ELSE Append(ids, id)) @@ @,
               !.names     = Named(h, doc, name),
               !.nextDoc   = @ + 1,
               !.nextEntry = @ + 1,
               !.cur       = @ + 1]

\* A push at the end of the frame's list, once the forward branch is gone.
PushEnd(h, f, name, web) ==
  LET t == TruncateForward(h) IN InsertEntry(t, f, Len(Ids(t, f)), t.nextDoc, name, web)

ReplaceEntry(h, e, web) ==
  IF e \notin DOMAIN h.entries THEN h
  ELSE ForgetNames([h EXCEPT !.entries[e].doc = h.nextDoc, !.entries[e].web = web, !.nextDoc = @ + 1],
                   {h.entries[e].doc})

AddFrame(h, f) ==
  IF f \in DOMAIN h.frames THEN h
  ELSE [h EXCEPT !.entries   = (h.nextEntry :> [step |-> h.cur, local |-> 0, doc |-> h.nextDoc, web |-> FALSE]) @@ @,
                 !.frames    = (f :> <<h.nextEntry>>) @@ @,
                 !.nextDoc   = @ + 1,
                 !.nextEntry = @ + 1]

DiscardPending(h, f) == [h EXCEPT !.pending = Without(@, f)]

\* The entry a replacement names: the one at the reported local position, or
\* the active one when the list is shorter.
ReplaceTarget(h, f, local) ==
  IF local < Len(Ids(h, f)) THEN Ids(h, f)[local + 1] ELSE Active(h, f)

\* A network navigation is staged; a local one takes effect at once.  The
\* engine stages exactly the http and https loads, so `pending` is also the
\* origin class of the new URL.
Begin(h, f, replace, local, pending) ==
  LET g      == AddFrame(h, f)
      active == Active(g, f)
      d      == DiscardPending(g, f)
      change == IF replace THEN ReplaceTarget(g, f, local) ELSE None
      t      == TruncateForward(d)
  IN CASE pending /\ replace /\ active = None -> g
       [] pending /\ ~(replace /\ active = None) -> [g EXCEPT !.pending = (f :> change) @@ @]
       [] ~pending /\ replace /\ active # None -> ReplaceEntry(d, change, FALSE)
       [] OTHER -> InsertEntry(t, f, local, t.nextDoc, NoName, FALSE)

\* A child's document committed: its staged navigation becomes an entry.
\* Without one only the URL of the active entry changes.
CommitUrl(h, f) ==
  IF f \notin DOMAIN h.pending THEN h
  ELSE LET d == DiscardPending(h, f)
       IN IF h.pending[f] = None THEN PushEnd(d, f, NoName, TRUE)
          ELSE ReplaceEntry(d, h.pending[f], TRUE)

\* sync_current_name: the name of the document the main frame presents.
SyncName(h, name) ==
  LET doc == h.entries[Active(h, MAIN)].doc
  IN [h EXCEPT !.names = IF name = NoName THEN Without(@, doc) ELSE (doc :> name) @@ @]

\* update with Push: a same-document entry shares its document state.
UpdatePush(h, f) ==
  LET t == TruncateForward(h)
      a == h.entries[Active(h, f)]
  IN InsertEntry(t, f, Len(Ids(t, f)), a.doc, NoName, a.web)

\* commit with Traverse: the entry gets a document state of its own that starts
\* with the name the old one had.
CommitTraverse(h, e) ==
  LET old == h.entries[e].doc
      new == h.nextDoc
  IN ForgetNames([h EXCEPT !.entries[e].doc = new,
                           !.nextDoc = @ + 1,
                           !.names   = Named(h, new, IF old \in DOMAIN h.names THEN h.names[old] ELSE NoName),
                           !.cur     = h.entries[e].step],
                 {old})

CommitPush(h, name) == PushEnd(h, MAIN, name, TRUE)

Clamp(h) ==
  LET past == {s \in UsedSteps(h) : s <= h.cur}
  IN [h EXCEPT !.cur = IF past = {} THEN 0 ELSE Max(past)]

DropFrames(h, gone) ==
  LET d == DropEntries(h, UNION {Range(h.frames[f]) : f \in gone})
  IN [d EXCEPT !.frames  = Restrict(@, DOMAIN @ \ gone),
               !.pending = Restrict(@, DOMAIN @ \ gone)]

RemoveFrame(h, f) ==
  IF f = MAIN \/ f \notin DOMAIN h.frames THEN h ELSE Clamp(DropFrames(h, {f}))

\* remove_frame for every child.  The order of the removals does not matter:
\* each one clamps to what is left at or below the step.
ClearChildren(h) ==
  IF DOMAIN h.frames = {MAIN} THEN h ELSE Clamp(DropFrames(h, DOMAIN h.frames \ {MAIN}))
=============================================================================
