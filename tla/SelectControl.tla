---------------------------- MODULE SelectControl ----------------------------
(***************************************************************************)
(* The options of a select element and their selectedness                  *)
(* (dom/forms.rs, js/bindings/collections.rs).                             *)
(*                                                                         *)
(* The selectedness setting algorithm is run lazily: a select that is      *)
(* marked normalized is not looked at again until a mutation clears the    *)
(* mark. Tree mutations go through unlink_journaled and the insertion      *)
(* fixups; the options collection changes the tree by itself.              *)
(***************************************************************************)
EXTENDS Naturals, Sequences, FiniteSets, SequencesExt

CONSTANTS
    Options,    \* option elements
    CanDisable  \* the options whose disabled attribute page code changes

ASSUME OptionsAssumption == IsFiniteSet(Options) /\ CanDisable \subseteq Options

VARIABLES
    optionList,   \* select_options: the options of the select in tree order
    picked,       \* options whose selectedness is set, in the list or not
    dirtyOptions, \* options with the dirtiness flag
    defaults,     \* options with a selected attribute
    offOptions,   \* options with a disabled attribute
    multiple,     \* the select has a multiple attribute
    oneRow,       \* its display size is 1
    normalized,   \* selectedness_normalized
    bypassed,     \* the options collection changed the list since it was last normalized
    cleared       \* a setter that matched no option cleared the selection since then

selectVars == <<optionList, picked, dirtyOptions, defaults, offOptions, multiple, oneRow,
                normalized, bypassed, cleared>>
attributes == <<defaults, offOptions, multiple, oneRow>>

Listed == Range(optionList)
LastOf(list, set) == SelectLastInSeq(list, LAMBDA o : o \in set)
FirstOf(list, set) == SelectInSeq(list, LAMBDA o : o \in set)
At(list, index) == IF index = 0 THEN {} ELSE {list[index]}

-----------------------------------------------------------------------------
(* The selectedness setting algorithm *)

\* run_selectedness_setting on a list, the selectedness before it and the attributes.
Settled(list, selected, off, single, row) ==
    IF ~single THEN selected
    ELSE (selected \ Range(list))
           \cup IF selected \cap Range(list) # {} THEN At(list, LastOf(list, selected))
                ELSE IF row THEN At(list, FirstOf(list, Options \ off)) ELSE {}

\* invalidate_selectedness followed by run_selectedness_setting.
Settle(list, selected) ==
    /\ picked' = Settled(list, selected, offOptions', ~multiple', oneRow')
    /\ normalized' = TRUE
    /\ bypassed' = FALSE
    /\ cleared' = FALSE

\* clear_other_options.
ClearedOthers(list, selected, keep) == selected \ (Range(list) \ {keep})

-----------------------------------------------------------------------------
(* Mutations of the tree *)

\* options_inserted: a batch that arrives in the list; every option that came selected clears
\* the others, so the last one wins.
Arrived(list, batch) ==
    LET chosen == SelectSeq(batch, LAMBDA o : o \in picked) IN
    IF multiple \/ chosen = <<>> THEN picked
    ELSE ClearedOthers(list, picked \cup {Last(chosen)}, Last(chosen))

\* One option goes to a place of the list, from outside or from another place.
InsertOption(option, place) ==
    LET without == SelectSeq(optionList, LAMBDA o : o # option)
        list == SubSeq(without, 1, place) \o <<option>> \o SubSeq(without, place + 1, Len(without))
    IN  /\ place <= Len(without)
        /\ optionList' = list
        /\ UNCHANGED <<attributes, dirtyOptions>>
        /\ Settle(list, Arrived(list, <<option>>))

\* A fragment with two options is appended.
InsertFragment(first, second) ==
    /\ first # second /\ {first, second} \cap Listed = {}
    /\ optionList' = optionList \o <<first, second>>
    /\ UNCHANGED <<attributes, dirtyOptions>>
    /\ Settle(optionList', Arrived(optionList', <<first, second>>))

\* unlink_journaled clears the mark; the next reader normalizes.
\* Mutant: the mark stays.
RemoveOptionQuietly(option) ==
    /\ option \in Listed
    /\ optionList' = SelectSeq(optionList, LAMBDA o : o # option)
    /\ UNCHANGED <<attributes, dirtyOptions, picked, normalized, cleared, bypassed>>
RemoveOption(option) ==
    /\ option \in Listed
    /\ optionList' = SelectSeq(optionList, LAMBDA o : o # option)
    /\ normalized' = FALSE
    /\ UNCHANGED <<attributes, dirtyOptions, picked, bypassed, cleared>>

-----------------------------------------------------------------------------
(* The options collection: it mutates the tree without the fixups and the mark *)

CollectionSetLength(length) ==
    /\ length < Len(optionList)
    /\ optionList' = SubSeq(optionList, 1, length)
    /\ bypassed' = TRUE
    /\ UNCHANGED <<attributes, dirtyOptions, picked, normalized, cleared>>

\* add(option, before) and options[length] = option.
CollectionAdd(option, place) ==
    /\ option \notin Listed /\ place <= Len(optionList)
    /\ optionList' = SubSeq(optionList, 1, place) \o <<option>>
                       \o SubSeq(optionList, place + 1, Len(optionList))
    /\ bypassed' = TRUE
    /\ UNCHANGED <<attributes, dirtyOptions, picked, normalized, cleared>>

CollectionRemove(index) ==
    /\ index \in DOMAIN optionList
    /\ optionList' = RemoveAt(optionList, index)
    /\ bypassed' = TRUE
    /\ UNCHANGED <<attributes, dirtyOptions, picked, normalized, cleared>>

\* options[index] = option.
CollectionReplace(index, option) ==
    /\ index \in DOMAIN optionList /\ option \notin Listed
    /\ optionList' = [optionList EXCEPT ![index] = option]
    /\ bypassed' = TRUE
    /\ UNCHANGED <<attributes, dirtyOptions, picked, normalized, cleared>>

-----------------------------------------------------------------------------
(* Selection *)

\* Every getter of the selection.
ReadSelection ==
    /\ ~normalized
    /\ UNCHANGED <<optionList, attributes, dirtyOptions>>
    /\ Settle(optionList, picked)

\* option.selected = value.
SetSelected(option, value) ==
    /\ UNCHANGED <<optionList, attributes>>
    /\ dirtyOptions' = dirtyOptions \cup {option}
    /\ IF option \notin Listed
       THEN /\ picked' = IF value THEN picked \cup {option} ELSE picked \ {option}
            /\ UNCHANGED <<normalized, bypassed, cleared>>
       ELSE Settle(optionList,
                   IF ~value THEN picked \ {option}
                   ELSE IF multiple THEN picked \cup {option}
                   ELSE ClearedOthers(optionList, picked, option) \cup {option})

\* select.selectedIndex = index and select.value = value; index 0: nothing matches.
SelectOnly(index) ==
    /\ index \in 0..Len(optionList)
    /\ UNCHANGED <<optionList, attributes>>
    /\ picked' = (picked \ Listed) \cup At(optionList, index)
    /\ dirtyOptions' = dirtyOptions \cup At(optionList, index)
    /\ normalized' = TRUE
    /\ bypassed' = FALSE
    /\ cleared' = (index = 0)

-----------------------------------------------------------------------------
(* Attributes *)

\* The tree writes the slot while the option is not dirty; then
\* option_selected_attribute_changed.
AttributeWrites(option, value) ==
    IF option \in dirtyOptions THEN picked
    ELSE IF value THEN picked \cup {option} ELSE picked \ {option}
SetDefault(option, value) ==
    /\ value # (option \in defaults)
    /\ defaults' = IF value THEN defaults \cup {option} ELSE defaults \ {option}
    /\ UNCHANGED <<optionList, offOptions, multiple, oneRow, dirtyOptions>>
    /\ LET written == AttributeWrites(option, value) IN
       IF option \notin Listed
       THEN /\ picked' = written
            /\ UNCHANGED <<normalized, bypassed, cleared>>
       ELSE Settle(optionList,
                   IF option \notin dirtyOptions /\ option \in written /\ ~multiple
                   THEN ClearedOthers(optionList, written, option) ELSE written)

\* select_attribute_changed: without multiple only the first selected option stays.
SetMultiple(value) ==
    /\ multiple # value
    /\ multiple' = value
    /\ UNCHANGED <<optionList, defaults, offOptions, oneRow, dirtyOptions>>
    /\ Settle(optionList,
              IF value \/ picked \cap Listed = {} THEN picked
              ELSE (picked \ Listed) \cup At(optionList, FirstOf(optionList, picked)))

SetSize(value) ==
    /\ oneRow # value
    /\ oneRow' = value
    /\ UNCHANGED <<optionList, defaults, offOptions, multiple, dirtyOptions>>
    /\ Settle(optionList, picked)

SetDisabled(option, value) ==
    /\ value # (option \in offOptions)
    /\ offOptions' = IF value THEN offOptions \cup {option} ELSE offOptions \ {option}
    /\ UNCHANGED <<optionList, defaults, multiple, oneRow, dirtyOptions>>
    /\ IF option \in Listed THEN Settle(optionList, picked)
       ELSE UNCHANGED <<picked, normalized, bypassed, cleared>>

\* reset_select_selectedness.
ResetSelect ==
    /\ dirtyOptions' = dirtyOptions \ Listed
    /\ UNCHANGED <<optionList, attributes>>
    /\ Settle(optionList, (picked \ Listed) \cup (defaults \cap Listed))

SelectInit ==
    /\ optionList = <<>>
    /\ picked = {} /\ dirtyOptions = {} /\ defaults = {} /\ offOptions = {}
    /\ multiple = FALSE /\ oneRow = TRUE
    /\ normalized = TRUE /\ bypassed = FALSE /\ cleared = FALSE

Places == 0..Cardinality(Options)

SelectNext ==
    \/ \E o \in Options, p \in Places : InsertOption(o, p) \/ CollectionAdd(o, p)
    \/ \E o, q \in Options : InsertFragment(o, q)
    \/ \E o \in Options : RemoveOption(o)
    \/ \E p \in Places : CollectionSetLength(p) \/ CollectionRemove(p) \/ SelectOnly(p)
    \/ \E o \in Options, p \in Places : CollectionReplace(p, o)
    \/ \E o \in Options, value \in BOOLEAN : SetSelected(o, value) \/ SetDefault(o, value)
    \/ \E value \in BOOLEAN : SetMultiple(value) \/ SetSize(value)
    \/ \E o \in CanDisable, value \in BOOLEAN : SetDisabled(o, value)
    \/ ReadSelection \/ ResetSelect

SelectSpec == SelectInit /\ [][SelectNext]_selectVars

-----------------------------------------------------------------------------
(* Properties *)

\* What a getter shows, and what it would show of a select that is not marked.
Shown == IF normalized THEN picked \cap Listed
         ELSE Settled(optionList, picked, offOptions, ~multiple, oneRow) \cap Listed

\* Type invariant.
SelectTypeOK ==
    /\ optionList \in UNION {[1..n -> Options] : n \in 0..Cardinality(Options)}
    /\ IsInjective(optionList)
    /\ {picked, dirtyOptions, defaults, offOptions} \subseteq SUBSET Options
    /\ {multiple, oneRow, normalized, bypassed, cleared} \subseteq BOOLEAN

\* However options were inserted, moved, removed, selected and reset, a single select has at
\* most one selected option as long as only the tree mutations changed its list
\* (options_inserted, set_option_selected, select_attribute_changed).
OneSelected == ~multiple /\ ~bypassed => Cardinality(picked \cap Listed) <= 1

\* A single select with one row shows a selected option whenever it has an option that is not
\* disabled, unless a setter has just cleared the selection: the normalized mark never hides
\* that the default is missing (run_selectedness_setting).
DefaultShown ==
    (/\ ~multiple /\ oneRow /\ ~bypassed /\ (cleared => ~normalized)
     /\ Listed \ offOptions # {}) => Shown # {}

\* A single select keeps exactly the selection its options call for.
SelectSafe ==
    SelectTypeOK /\ OneSelected /\ DefaultShown

\* Selecting an option of a single select, by the selected setter or by inserting it, is what
\* the select shows next: no earlier selection, wherever it is in the list, wins over it.
LatestWins ==
    \A o \in Options :
       (/\ ~multiple /\ ~bypassed'
        /\ \/ SetSelected(o, TRUE) /\ o \in Listed
           \/ o \in picked \ Listed /\ Range(optionList') = Listed \cup {o})
         => picked' \cap Range(optionList') = {o}

\* Once page code has selected or deselected an option, its selected attribute no longer
\* changes what is selected, until a reset (the dirtiness flag).
DirtyKeepsSelection ==
    \A o \in Options :
       (o \in dirtyOptions /\ (o \in defaults) # (o \in defaults') /\ normalized /\ ~bypassed
           /\ ~cleared)
         => picked' = picked

\* After a reset the attributes decide again: the selection is the one a select with these
\* options and attributes has after parsing, and no option of it is dirty.
ResetRestoresDefaults ==
    ResetSelect
      => /\ dirtyOptions' \cap Listed = {}
         /\ picked' \cap Listed
              = Settled(optionList, defaults, offOptions, ~multiple, oneRow) \cap Listed

\* What no change of a select may do.
SelectSteps == [LatestWins /\ DirtyKeepsSelection /\ ResetRestoresDefaults]_selectVars
=============================================================================
