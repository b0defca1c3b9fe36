------------------------------- MODULE Menus --------------------------------
(***************************************************************************)
(* Menu operations of a restaurant (apps/api, restaurants.service.ts):     *)
(* categories and items are created, updated field by field, and restored  *)
(* from the audit log.  An update reads the row, writes every column back  *)
(* and audits in three statements of their own; a rollback previews,       *)
(* writes and audits in one transaction that locks nothing before it       *)
(* writes.                                                                 *)
(***************************************************************************)
EXTENDS Integers, Sequences, FiniteSets

CONSTANTS Categories, MenuItems,
          CategoryFields,   \* the columns of a category that the instance tells apart
          ItemFields,       \* the columns of an item that the instance tells apart
          Labels,           \* values of names, descriptions, prices and positions
          MenuRequests,     \* requests that can be under way at once
          MaxTrail          \* bound: audit events

ASSUME MenusAssumption == CategoryFields # {} /\ ItemFields # {}

Resources == Categories \cup MenuItems
Fields(r) == IF r \in Categories THEN CategoryFields ELSE ItemFields
ValuesOf(f) == CASE f = "isActive" -> BOOLEAN
                 [] f = "categoryId" -> Categories
                 [] OTHER -> Labels

VARIABLES row,         \* row[r]: the columns of r, or <<>> before it is created
          trail,       \* the menu events of audit_log, oldest first
          serving,     \* serving[p]: what request p holds in memory
          disturbed    \* resources on which requests overlapped or broke off

menuVars == <<row, trail, serving, disturbed>>

NoRow == <<>>
AtRest == [step |-> "idle"]
FullRow(r, v) == DOMAIN v = Fields(r) /\ \A f \in Fields(r) : v[f] \in ValuesOf(f)

Given(r) == UNION {[fs -> UNION {ValuesOf(f) : f \in fs}] : fs \in SUBSET Fields(r) \ {{}}}
ValidInput(r, given) == \A f \in DOMAIN given : given[f] \in ValuesOf(f)

MenusInit == /\ row = [r \in Resources |-> NoRow]
             /\ trail = <<>>
             /\ serving = [p \in MenuRequests |-> AtRest]
             /\ disturbed = {}

-----------------------------------------------------------------------------
Event(kind, r, changed, before, after) ==
  [kind |-> kind, resource |-> r, changed |-> changed, previous |-> before, next |-> after, of |-> 0]

Room == Len(trail) + Cardinality({p \in MenuRequests : serving[p].step # "idle"}) < MaxTrail

CategoryExists(values) == "categoryId" \in DOMAIN values => row[values.categoryId] # NoRow

InFlight(r) == {p \in MenuRequests : serving[p].step # "idle" /\ serving[p].resource = r}
Overlaps(r) == IF InFlight(r) = {} THEN disturbed ELSE disturbed \cup {r}

\* createMenuCategory and createMenuItem: the row and its event in one transaction.
CreateMenuRow(r, values) ==
  /\ Room /\ row[r] = NoRow /\ FullRow(r, values) /\ CategoryExists(values)
  /\ row' = [row EXCEPT ![r] = values]
  /\ trail' = Append(trail, Event("created", r, Fields(r), NoRow, values))
  /\ UNCHANGED <<serving, disturbed>>

Merged_Reactivated(r, given) ==
  [f \in Fields(r) |-> IF f \in DOMAIN given THEN given[f] ELSE IF f = "isActive" THEN TRUE ELSE row[r][f]]
\* updateMenuCategory and updateMenuItem, the reads: the columns not given keep the
\* value they have now.
Merged(r, given) == [f \in Fields(r) |-> IF f \in DOMAIN given THEN given[f] ELSE row[r][f]]

ReadForUpdate(p, r, given) ==
  /\ Room /\ serving[p].step = "idle"
  /\ row[r] # NoRow /\ ValidInput(r, given) /\ CategoryExists(given)
  /\ serving' = [serving EXCEPT ![p] = [step |-> "write", resource |-> r, changed |-> DOMAIN given,
                                        before |-> row[r], after |-> Merged(r, given)]]
  /\ disturbed' = Overlaps(r)
  /\ UNCHANGED <<row, trail>>

WriteMenuRow(p) ==
  /\ serving[p].step = "write"
  /\ row' = [row EXCEPT ![serving[p].resource] = serving[p].after]
  /\ serving' = [serving EXCEPT ![p].step = "audit"]
  /\ UNCHANGED <<trail, disturbed>>

UpdateEvent(s) == Event("updated", s.resource, s.changed, s.before, s.after)

AuditMenuUpdate(p) ==
  /\ serving[p].step = "audit"
  /\ trail' = Append(trail, UpdateEvent(serving[p]))
  /\ serving' = [serving EXCEPT ![p] = AtRest]
  /\ UNCHANGED <<row, disturbed>>

\* The process stops, or a statement fails: what was written stays, unaudited.
BreakOffUpdate(p) ==
  /\ serving[p].step # "idle"
  /\ disturbed' = disturbed \cup {serving[p].resource}
  /\ serving' = [serving EXCEPT ![p] = AtRest]
  /\ UNCHANGED <<row, trail>>

-----------------------------------------------------------------------------
\* classifyMenuRollbackReadiness: creations and rollbacks are not reversible, and an
\* update is if each changed column has its previous and its new value.
Prepared(e) == /\ e.kind = "updated"
               /\ e.changed # {}
               /\ e.changed \subseteq DOMAIN e.previous \cap DOMAIN e.next

\* No changed column has moved on since the event (the preview's warnings).
NoDrift(e) == \A f \in e.changed : row[e.resource][f] = e.next[f]

\* The row a rollback writes: whatever the event recorded as previous, over the
\* current columns.
Restored(e) == [f \in Fields(e.resource) |->
  IF f \in DOMAIN e.previous THEN e.previous[f] ELSE row[e.resource][f]]

\* applyMenuRollback, the transaction's reads: buildMenuRollbackPreview.
PreviewRollback(p, i) ==
  LET e == trail[i]
  IN /\ Room /\ serving[p].step = "idle"
     /\ Prepared(e) /\ row[e.resource] # NoRow
     /\ "categoryId" \in e.changed => row[e.previous.categoryId] # NoRow
     /\ NoDrift(e)
     /\ serving' = [serving EXCEPT ![p] = [step |-> "rollback", resource |-> e.resource,
                                           changed |-> e.changed, before |-> row[e.resource],
                                           after |-> Restored(e), of |-> i]]
     /\ disturbed' = Overlaps(e.resource)
     /\ UNCHANGED <<row, trail>>

\* The event of a rollback names the event it takes back and, of the row it leaves, only the
\* columns that event had changed (restoredFields, afterRollback).
RollbackEvent(s) == [Event("rollback", s.resource, s.changed, s.before,
                           [f \in s.changed |-> s.after[f]]) EXCEPT !.of = s.of]

\* The update, the event and the commit.
ApplyRollback(p) ==
  /\ serving[p].step = "rollback"
  /\ row' = [row EXCEPT ![serving[p].resource] = serving[p].after]
  /\ trail' = Append(trail, RollbackEvent(serving[p]))
  /\ serving' = [serving EXCEPT ![p] = AtRest]
  /\ UNCHANGED disturbed

MenusNext ==
  \/ \E r \in Resources : \E values \in [Fields(r) -> UNION {ValuesOf(f) : f \in Fields(r)}] :
       CreateMenuRow(r, values)
  \/ \E p \in MenuRequests, r \in Resources : \E given \in Given(r) : ReadForUpdate(p, r, given)
  \/ \E p \in MenuRequests, i \in DOMAIN trail : PreviewRollback(p, i)
  \/ \E p \in MenuRequests :
       WriteMenuRow(p) \/ AuditMenuUpdate(p) \/ BreakOffUpdate(p) \/ ApplyRollback(p)

-----------------------------------------------------------------------------
MenusTypeOK ==
  /\ \A r \in Resources : row[r] = NoRow \/ FullRow(r, row[r])
  /\ \A i \in DOMAIN trail : trail[i].resource \in Resources
  /\ \A p \in MenuRequests : serving[p].step \in {"idle", "write", "audit", "rollback"}
  /\ disturbed \subseteq Resources

Follows(i, j) == /\ i < j /\ trail[i].resource = trail[j].resource
                 /\ \A k \in i+1..j-1 : trail[k].resource # trail[i].resource
LastOfItsRow(i) == \A k \in i+1..Len(trail) : trail[k].resource # trail[i].resource

\* The row an event left, as far as the audit log tells: a rollback left the whole row that
\* the event it names had found, and not only the columns it names itself.
RowLeft(e) == IF e.kind = "rollback" THEN trail[e.of].previous ELSE e.next

\* Where no two requests overlapped and none broke off, the audit log tells the row's story
\* without a gap in any column, once a rollback is read as the return to the whole row its
\* original found: what an event left is what the next one found, and what the last one
\* left is what the row holds.  Read by the columns it names, a rollback leaves a gap.
TrailTellsTheRow ==
  \A i \in DOMAIN trail :
    LET r == trail[i].resource
    IN r \notin disturbed => \A f \in Fields(r) :
         /\ \A j \in DOMAIN trail : Follows(i, j) => trail[j].previous[f] = RowLeft(trail[i])[f]
         /\ LastOfItsRow(i) /\ InFlight(r) = {} => row[r][f] = RowLeft(trail[i])[f]

Touched(k, r, f) == trail[k].resource = r /\ RowLeft(trail[k])[f] # trail[k].previous[f]

\* What a rollback changes beyond the columns it names, without a warning, is what somebody
\* changed after the event it takes back: the rollback of a row's latest change is exact, the
\* rollback of an older one takes later changes of other columns back with it.
RollbackReaches ==
  \A i \in DOMAIN trail :
    LET e == trail[i]
    IN e.kind = "rollback" /\ e.resource \notin disturbed =>
         \A f \in Fields(e.resource) \ e.changed : Touched(i, e.resource, f) =>
           \E k \in e.of+1..i-1 : Touched(k, e.resource, f)
=============================================================================
