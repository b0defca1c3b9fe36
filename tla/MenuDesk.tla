------------------------------ MODULE MenuDesk -------------------------------
(***************************************************************************)
(* The menu page of a business (apps/web, restaurant-setup-shell): it      *)
(* shows the menu of the chosen restaurant, edits its items and moves an   *)
(* item up or down, for which it renumbers all the items, each with a      *)
(* request of its own.  The sections are moved in the same way.            *)
(***************************************************************************)
EXTENDS Naturals, FiniteSets, SequencesExt

CONSTANTS Restaurants,
          MaxFetches,  \* bound: loads of a menu under way at once
          MaxSteps     \* bound: buttons pressed, failures and changes by others

VARIABLES known,     \* the restaurants on the page
          chosen,    \* selectedRestaurantId
          sorted,    \* sorted[r][i]: sort_order of the i-th oldest item of r
          menu,      \* the menu on the page and the restaurant it belongs to
          fetches,   \* fetches[n]: a load of a menu
          move,      \* the move under way
          writes,    \* requests that renumber an item or save the edited one
          edit,      \* the item being edited and the order in its form
          late,      \* loads crossed, a move's load came after another choice, or the menu changed
          disturbed, \* the move did not start from the menu as it was, alone
          steps      \* buttons pressed, failures and changes by others so far

menuDeskVars == <<known, chosen, sorted, menu, fetches, move, writes, edit, late, disturbed, steps>>

Rows == 1..3
Spots == 0..2
NoMenu == [of |-> {}, sorted |-> [i \in Rows |-> 0]]
NotMoving == [step |-> "none"]
NotEditing == [row |-> 0]
MenuOf(r) == [of |-> {r}, sorted |-> sorted[r]]

\* Items are listed by their order, the older first.
Position(order, i) == Cardinality({q \in Rows : order[q] < order[i] \/ (order[q] = order[i] /\ q < i)})

\* loadMenu; the answer of whichever load comes last stays on the page.
Fetch(r, by) == [of |-> {r}, sorted |-> [i \in Rows |-> 0], step |-> "sent", by |-> by]
Fetched(list, r, by) == Append(list, Fetch(r, by))
Crossing(r) == (\E n \in DOMAIN fetches : fetches[n].of # {r}) \/ (late /\ fetches # <<>>)

Step == steps < MaxSteps /\ steps' = steps + 1

-----------------------------------------------------------------------------
ChooseRestaurant(r) ==
  /\ r \in known /\ {r} # chosen /\ Len(fetches) < MaxFetches
  /\ chosen' = {r}
  /\ fetches' = Fetched(fetches, r, "choice") /\ late' = Crossing(r)
  /\ Step /\ UNCHANGED <<known, sorted, menu, move, writes, edit, disturbed>>

\* A restaurant created is chosen, and its menu loaded twice.
handleCreateRestaurant(r) ==
  /\ r \notin known /\ Len(fetches) + 1 < MaxFetches
  /\ known' = known \cup {r} /\ chosen' = {r}
  /\ fetches' = Fetched(Fetched(fetches, r, "choice"), r, "creation") /\ late' = Crossing(r)
  /\ Step /\ UNCHANGED <<sorted, menu, move, writes, edit, disturbed>>

handleRefresh ==
  /\ chosen # {} /\ Len(fetches) < MaxFetches
  /\ \E r \in chosen : fetches' = Fetched(fetches, r, "refresh") /\ late' = Crossing(r)
  /\ Step /\ UNCHANGED <<known, chosen, sorted, menu, move, writes, edit, disturbed>>

ReadMenu(n) ==
  /\ fetches[n].step = "sent"
  /\ \E r \in fetches[n].of : fetches' = [fetches EXCEPT ![n].sorted = sorted[r], ![n].step = "read"]
  /\ UNCHANGED <<known, chosen, sorted, menu, move, writes, edit, late, disturbed, steps>>

FetchOver(n) ==
  /\ fetches' = RemoveAt(fetches, n)
  /\ move' = IF fetches[n].by = "move" THEN NotMoving ELSE move
  /\ disturbed' = (disturbed /\ fetches[n].by # "move")

ShowFetched(n) ==
  /\ fetches[n].step = "read" /\ FetchOver(n)
  /\ menu' = [of |-> fetches[n].of, sorted |-> fetches[n].sorted]
  /\ UNCHANGED <<known, chosen, sorted, writes, edit, late, steps>>

\* The menu stays on the page, whosever it is.
FetchFails(n) ==
  /\ FetchOver(n) /\ late' = TRUE
  /\ Step /\ UNCHANGED <<known, chosen, sorted, menu, writes, edit>>

-----------------------------------------------------------------------------
\* moveListItem: the item changes places with its neighbour.
Moved(i, d) ==
  LET at == Position(menu.sorted, i)
  IN [q \in Rows |-> IF q = i THEN d ELSE IF Position(menu.sorted, q) = d THEN at ELSE Position(menu.sorted, q)]

\* Every item whose order is not its place in the list is renumbered.
Renumbered(order) == {i \in Rows : menu.sorted[i] # order[i]}

Write(i, to, by) == [at |-> chosen, of |-> menu.of, row |-> i, to |-> to, by |-> by, step |-> "sent"]

handleMoveItem(i, d) ==
  /\ menu.of # {} /\ move = NotMoving
  /\ d \in Spots /\ (d = Position(menu.sorted, i) + 1 \/ d + 1 = Position(menu.sorted, i))
  /\ move' = [step |-> "writing", at |-> chosen, wanted |-> Moved(i, d)]
  /\ writes' = writes \cup {Write(q, Moved(i, d)[q], "move") : q \in Renumbered(Moved(i, d))}
  /\ disturbed' = (writes # {} \/ \E r \in menu.of : menu.sorted # sorted[r])
  /\ Step /\ UNCHANGED <<known, chosen, sorted, menu, fetches, edit, late>>

handleStartEditItem(i) ==
  /\ menu.of # {} /\ edit = NotEditing
  /\ edit' = [row |-> i, to |-> menu.sorted[i]]
  /\ Step /\ UNCHANGED <<known, chosen, sorted, menu, fetches, move, writes, late, disturbed>>

\* The whole form is sent, with the order that the item had when it was opened.
handleUpdateItem ==
  /\ edit # NotEditing /\ \A w \in writes : w.by # "edit"
  /\ writes' = writes \cup {Write(edit.row, edit.to, "edit")}
  /\ disturbed' = TRUE
  /\ UNCHANGED <<known, chosen, sorted, menu, fetches, move, edit, late, steps>>

\* An item of another restaurant is not found.
updateMenuItem(w) ==
  /\ w.step = "sent" /\ w.at = w.of
  /\ sorted' = [r \in Restaurants |-> IF r \in w.of THEN [sorted[r] EXCEPT ![w.row] = w.to] ELSE sorted[r]]
  /\ writes' = (writes \ {w}) \cup {[w EXCEPT !.step = "done"]}
  /\ late' = TRUE
  /\ UNCHANGED <<known, chosen, menu, fetches, move, edit, disturbed, steps>>

\* Bound: once before the page is loaded anew, by an order of the last item's.
AnotherOperator(r, i, to) ==
  /\ ~late /\ ~disturbed /\ to # sorted[r][i]
  /\ sorted' = [sorted EXCEPT ![r][i] = to]
  /\ late' = TRUE /\ disturbed' = TRUE
  /\ Step /\ UNCHANGED <<known, chosen, menu, fetches, move, writes, edit>>

-----------------------------------------------------------------------------
\* All requests of the move have succeeded: the menu of the restaurant chosen then is
\* loaded, and only after that may another item be moved.
Ours == {w \in writes : w.by = "move"}
MoveSucceeds ==
  /\ move.step = "writing" /\ Len(fetches) < MaxFetches /\ \A w \in Ours : w.step = "done"
  /\ writes' = writes \ Ours /\ move' = [move EXCEPT !.step = "loading"]
  /\ \E r \in move.at : fetches' = Fetched(fetches, r, "move") /\ late' = (move.at # chosen \/ Crossing(r))
  /\ UNCHANGED <<known, chosen, sorted, menu, edit, disturbed, steps>>

EditSucceeds(w) ==
  /\ w.by = "edit" /\ w.step = "done" /\ Len(fetches) < MaxFetches
  /\ writes' = writes \ {w} /\ edit' = NotEditing
  /\ \E r \in w.at : fetches' = Fetched(fetches, r, "edit") /\ late' = (w.at # chosen \/ Crossing(r))
  /\ UNCHANGED <<known, chosen, sorted, menu, move, disturbed, steps>>

OrphanEnds(w) ==
  /\ w.by = "orphan" /\ w.step = "done" /\ writes' = writes \ {w}
  /\ UNCHANGED <<known, chosen, sorted, menu, fetches, move, edit, late, disturbed, steps>>

\* One failure ends the move at once; its other requests go on without it.
WriteFails(w) ==
  /\ LET rest == writes \ {w}
     IN writes' = IF w.by = "move" THEN {[v EXCEPT !.by = IF v.by = "move" THEN "orphan" ELSE v.by] : v \in rest}
                  ELSE rest
  /\ move' = IF w.by = "move" THEN NotMoving ELSE move
  /\ Step /\ UNCHANGED <<known, chosen, sorted, menu, fetches, edit, late, disturbed>>

MenuDeskInit ==
  /\ known \in {Restaurants} \cup {{r} : r \in Restaurants}
  /\ \E r \in known : chosen = {r} /\ fetches = <<Fetch(r, "choice")>>
  /\ \E order \in {[i \in Rows |-> 0], [i \in Rows |-> i - 1], [i \in Rows |-> IF i = 3 THEN 0 ELSE 2]} :
       sorted = [r \in Restaurants |-> order]
  /\ menu = NoMenu /\ move = NotMoving /\ writes = {} /\ edit = NotEditing
  /\ late = FALSE /\ disturbed = FALSE /\ steps = 0

MenuDeskNext ==
  \/ handleRefresh \/ MoveSucceeds \/ handleUpdateItem
  \/ \E r \in Restaurants : \/ ChooseRestaurant(r) \/ handleCreateRestaurant(r)
                            \/ \E i \in Rows : AnotherOperator(r, i, 2)
  \/ \E n \in DOMAIN fetches : ReadMenu(n) \/ ShowFetched(n) \/ FetchFails(n)
  \/ \E i \in Rows : handleStartEditItem(i) \/ \E d \in Spots : handleMoveItem(i, d)
  \/ \E w \in writes : updateMenuItem(w) \/ EditSucceeds(w) \/ OrphanEnds(w) \/ WriteFails(w)

-----------------------------------------------------------------------------
\* A move that started from the menu as it was, and met no other change, leaves the items
\* in the wanted order whatever numbers they had before, and no two with the same number.
MovedAsAsked == move.step = "loading" /\ ~disturbed => \E r \in move.at : sorted[r] = move.wanted

\* With nothing under way the page shows the menu of the chosen restaurant as it is, unless
\* loads of two restaurants crossed, one failed, or it was changed since.
MenuIsOfTheChosen ==
  fetches = <<>> /\ writes = {} /\ ~late => \E r \in chosen : menu = MenuOf(r)

\* What the menu page may be trusted with.
MenuDeskIsSound == MovedAsAsked /\ MenuIsOfTheChosen
=============================================================================
