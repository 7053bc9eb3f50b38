----------------------------- MODULE ViewModel -----------------------------
(***************************************************************************)
(* modules_to_view_model() of tui_view_model.py: modules filtered one by   *)
(* one, sorted, shown as rows, and grouped label by label.                 *)
(*                                                                         *)
(* Texts are numbers in the order of the strings they stand for, 0 the     *)
(* empty one.  A module is a record [id, prefix, description, overlay,     *)
(* tags, flags, hidden, deprecated]: overlay is the alias and description  *)
(* of its display, flags its true annotations.  A search is the set of     *)
(* pairs of an identifier and a description in which it occurs.            *)
(***************************************************************************)
EXTENDS Naturals, SequencesExt

CONSTANTS
  FilterableFlags,  \* _FILTERABLE_ANNOTATION_FLAGS
  Tags,             \* tags and prefixes of identifiers
  Columns,          \* columns there can be
  ViewRequests      \* arguments of the call

SortableKeys == {"module_id", "alias", "description"}
Listings == [id : Nat, prefix : Tags, description : Nat,
             overlay : [alias : Nat, description : Nat], tags : Seq(Tags),
             flags : SUBSET STRING, hidden : BOOLEAN, deprecated : BOOLEAN]

ASSUME ViewAssumption ==
  \A r \in ViewRequests :
    /\ r.modules \in Seq(Listings) /\ r.columns \in Seq(Columns)
    /\ r.view \in {"list", "grouped"}

VARIABLES
  request,      \* [modules, display, filter, sort, columns, view, groupBy]
  stage,        \* "filtering", "sorting", "showing", "grouping" or "done"
  index, label, \* of the loops underway: a module or a row, one of its labels
  resolved,     \* modules that pass, by their place, with what they show
  rows,
  groups

loops == <<index, label>>
viewing == <<request, stage, loops, resolved, rows, groups>>

TextOr(text, other) == IF text # 0 THEN text ELSE other

\* _resolve_alias(), _resolve_description()
Entry(i) ==
  LET module == request.modules[i]
      overlay == IF request.display THEN module.overlay ELSE [alias |-> 0, description |-> 0]
  IN [of |-> i, alias |-> TextOr(overlay.alias, module.id),
      description |-> TextOr(overlay.description, module.description)]

\* _passes_filter(); no filter is <<>>.
Passes(entry) ==
  request.filter # <<>> =>
    LET f == request.filter[1]
        module == request.modules[entry.of]
    IN /\ f.tags \subseteq ToSet(module.tags)
       /\ f.search = <<>> \/ <<module.id, entry.description>> \in f.search[1]
       /\ f.annotations \subseteq module.flags \cap FilterableFlags
       /\ f.exposure = "exposed" => ~module.hidden
       /\ f.exposure = "hidden" => module.hidden
       /\ module.deprecated => f.deprecated

\* _sort_key()
Key(entry) ==
  CASE request.sort[1].key = "alias" -> entry.alias
    [] request.sort[1].key = "description" -> entry.description
    [] OTHER -> request.modules[entry.of].id

Sorts == request.sort # <<>> /\ request.sort[1].key \in SortableKeys

\* _cell_for()
Cell(entry, column) ==
  CASE column = "alias" -> [kind |-> "text", text |-> entry.alias]
    [] column = "description" -> [kind |-> "text", text |-> entry.description]
    [] column = "module_id" -> [kind |-> "text", text |-> request.modules[entry.of].id]
    [] column = "tags" -> [kind |-> "tags", tags |-> request.modules[entry.of].tags]
    [] OTHER -> [kind |-> "text", text |-> 0]

Labels(entry) ==
  LET module == request.modules[entry.of] IN
  CASE request.groupBy = "tag" -> IF module.tags = <<>> THEN <<"(untagged)">> ELSE module.tags
    [] request.groupBy = "prefix" -> <<module.prefix>>
    [] OTHER -> <<"(all)">>

-----------------------------------------------------------------------------
InitView ==
  /\ request \in ViewRequests
  /\ stage = "filtering" /\ index = 1 /\ label = 1
  /\ resolved = <<>> /\ rows = <<>> /\ groups = <<>>

\* One module passes the filter or does not.
FilterModule ==
  /\ stage = "filtering" /\ index <= Len(request.modules)
  /\ resolved' = IF Passes(Entry(index)) THEN Append(resolved, Entry(index)) ELSE resolved
  /\ index' = index + 1
  /\ UNCHANGED <<request, stage, label, rows, groups>>

EndOfModules ==
  /\ stage = "filtering" /\ index > Len(request.modules)
  /\ stage' = "sorting"
  /\ UNCHANGED <<request, loops, resolved, rows, groups>>

Comes(entry, other) ==
  IF request.sort[1].direction = "desc" THEN Key(entry) > Key(other) ELSE Key(entry) < Key(other)

\* Slip: downwards is upwards read backwards, ties as well.
ReorderedBackwards(permutation) ==
  /\ \A i, j \in DOMAIN resolved : i < j =>
       \/ Comes(resolved[permutation[i]], resolved[permutation[j]])
       \/ /\ Key(resolved[permutation[i]]) = Key(resolved[permutation[j]])
          /\ request.sort[1].direction = "desc" <=> permutation[i] > permutation[j]
  /\ resolved' = [i \in DOMAIN resolved |-> resolved[permutation[i]]]

\* What list.sort() does: a permutation in the order of the keys that leaves
\* ties as they were, downwards too (reverse=True).
Reordered(permutation) ==
  /\ \A i, j \in DOMAIN resolved : i < j =>
       \/ Comes(resolved[permutation[i]], resolved[permutation[j]])
       \/ /\ Key(resolved[permutation[i]]) = Key(resolved[permutation[j]])
          /\ permutation[i] < permutation[j]
  /\ resolved' = [i \in DOMAIN resolved |-> resolved[permutation[i]]]

SortModules ==
  /\ stage = "sorting" /\ Sorts
  /\ \E permutation \in Bijection(DOMAIN resolved, DOMAIN resolved) : Reordered(permutation)
  /\ stage' = "showing"
  /\ UNCHANGED <<request, loops, rows, groups>>

\* A key that is none of these columns leaves the order to the caller.
LeaveOrder ==
  /\ stage = "sorting" /\ ~Sorts
  /\ stage' = "showing"
  /\ UNCHANGED <<request, loops, resolved, rows, groups>>

ShowRows ==
  /\ stage = "showing"
  /\ rows' = [i \in DOMAIN resolved |->
       [cells |-> [c \in DOMAIN request.columns |-> Cell(resolved[i], request.columns[c])],
        tags |-> request.modules[resolved[i].of].tags]]
  /\ stage' = IF request.view = "grouped" THEN "grouping" ELSE "done"
  /\ index' = 1 /\ label' = 1
  /\ UNCHANGED <<request, resolved, groups>>

-----------------------------------------------------------------------------
(* _build_groups(): one label of one row at a time.                        *)

Here == Labels(resolved[index])[label]

NextLabel ==
  IF label < Len(Labels(resolved[index]))
  THEN label' = label + 1 /\ UNCHANGED index
  ELSE label' = 1 /\ index' = index + 1

OpenGroup ==
  /\ stage = "grouping" /\ index <= Len(resolved)
  /\ \A g \in DOMAIN groups : groups[g].label # Here
  /\ groups' = Append(groups, [label |-> Here, rows |-> <<index>>])
  /\ NextLabel
  /\ UNCHANGED <<request, stage, resolved, rows>>

JoinGroup ==
  /\ stage = "grouping" /\ index <= Len(resolved)
  /\ \E g \in DOMAIN groups :
       /\ groups[g].label = Here
       /\ groups' = [groups EXCEPT ![g].rows = Append(@, index)]
  /\ NextLabel
  /\ UNCHANGED <<request, stage, resolved, rows>>

EndOfRows ==
  /\ stage = "grouping" /\ index > Len(resolved)
  /\ stage' = "done"
  /\ UNCHANGED <<request, loops, resolved, rows, groups>>

NextView ==
  \/ FilterModule \/ EndOfModules \/ SortModules \/ LeaveOrder \/ ShowRows
  \/ OpenGroup \/ JoinGroup \/ EndOfRows

SpecView == InitView /\ [][NextView]_viewing

-----------------------------------------------------------------------------
\* Row i stands before row j for a reason: their keys, or else the order in
\* which their modules were given.
Precedes(i, j) ==
  \/ Sorts /\ Comes(resolved[i], resolved[j])
  \/ (Sorts => Key(resolved[i]) = Key(resolved[j])) /\ resolved[i].of < resolved[j].of

\* The rows are the modules that pass, each once, in their order, and the
\* column they are sorted by shows that order.
RowsAreInOrder ==
  /\ DOMAIN rows = DOMAIN resolved
  /\ {resolved[i].of : i \in DOMAIN resolved} = {m \in DOMAIN request.modules : Passes(Entry(m))}
  /\ \A i, j \in DOMAIN rows : i < j =>
       /\ Precedes(i, j)
       /\ \A c \in DOMAIN request.columns : Sorts /\ request.columns[c] = request.sort[1].key =>
            IF request.sort[1].direction = "desc"
            THEN rows[i].cells[c].text >= rows[j].cells[c].text
            ELSE rows[i].cells[c].text <= rows[j].cells[c].text

\* Among the labels of a row, a is met before b; a is there twice.
MetBefore(labels, a, b) ==
  \E k \in DOMAIN labels : labels[k] = a /\ \A l \in 1..k : labels[l] # b
Twice(labels, a) ==
  \E k, l \in DOMAIN labels : k < l /\ labels[k] = a /\ labels[l] = a

\* Every label has one group; a group has the rows with its label and no
\* others, in their order, a row twice only if it has the label twice; and
\* groups stand in the order in which their labels are met.
GroupsReferToRows ==
  /\ \A i \in DOMAIN rows : \A k \in DOMAIN Labels(resolved[i]) :
       \E g \in DOMAIN groups :
         groups[g].label = Labels(resolved[i])[k] /\ i \in ToSet(groups[g].rows)
  /\ \A g \in DOMAIN groups :
       /\ groups[g].rows # <<>>
       /\ \A p \in DOMAIN groups[g].rows :
            /\ groups[g].rows[p] \in DOMAIN rows
            /\ groups[g].label \in ToSet(Labels(resolved[groups[g].rows[p]]))
       /\ \A p, q \in DOMAIN groups[g].rows : p < q =>
            \/ groups[g].rows[p] < groups[g].rows[q]
            \/ /\ groups[g].rows[p] = groups[g].rows[q]
               /\ Twice(Labels(resolved[groups[g].rows[p]]), groups[g].label)
       /\ \A h \in 1..(g - 1) :
            /\ groups[h].label # groups[g].label
            /\ \/ groups[h].rows[1] < groups[g].rows[1]
               \/ /\ groups[h].rows[1] = groups[g].rows[1]
                  /\ MetBefore(Labels(resolved[groups[g].rows[1]]), groups[h].label, groups[g].label)

\* The view model is about the modules it was given: its rows are those that
\* pass, sorted by what they show, and its groups refer to those rows as they
\* stand after filtering and sorting (modules_to_view_model, _build_groups).
GroupsFollowRows ==
  stage = "done" => RowsAreInOrder /\ (request.view = "grouped" => GroupsReferToRows)
=============================================================================
