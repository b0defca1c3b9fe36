------------------------------- MODULE Pilots -------------------------------
(***************************************************************************)
(* Pilot workspaces and their readiness checks (apps/api, pilots.service)  *)
(* under the hands of one administrator's page (apps/web,                  *)
(* admin-pilots-shell) and of other administrators.  Every call is a       *)
(* request that the server executes and an answer that the page applies    *)
(* later, or that is lost.                                                 *)
(***************************************************************************)
EXTENDS Naturals, FiniteSets

CONSTANTS Pilots,          \* workspaces
          PilotKeys,       \* the default readiness checks
          PilotStatuses    \* statuses of a check that the instance tells apart

ASSUME NotStartedAssumption == "NOT_STARTED" \in PilotStatuses

VARIABLES profiles,   \* the workspaces that have a profile
          checks,     \* checks[w]: the rows of w by key; a partial function
          page,       \* what the administrator's page holds
          load,       \* the page's call for the checks of a workspace
          call,       \* its update of a check, and the refresh after it
          save,       \* its save of a profile
          behind      \* the page missed an answer or a write since its last load

pilotVars == <<profiles, checks, page, load, call, save, behind>>

None == "none"
ASSUME NoneAssumption == None \notin Pilots
Nothing == [step |-> "none"]
CheckRows == [status : PilotStatuses, noted : BOOLEAN]
NewCheck == [status |-> "NOT_STARTED", noted |-> FALSE]

PilotsInit == /\ profiles = {}
              /\ checks = [w \in Pilots |-> <<>>]
              /\ page = [listed |-> {}, selected |-> None, formOf |-> None,
                         shown |-> <<>>, shownOf |-> None]
              /\ load = Nothing /\ call = Nothing /\ save = Nothing
              /\ behind = FALSE

-----------------------------------------------------------------------------
\* createAdminPilot, first statement: an existing profile is overwritten.
CreatePilot(w) ==
  /\ profiles' = profiles \cup {w}
  /\ UNCHANGED <<checks, page, load, call, save, behind>>

WithDefaults(w) == [k \in PilotKeys |-> IF k \in DOMAIN checks[w] THEN checks[w][k] ELSE NewCheck]

\* Its second statement, which a crash may leave undone.
ensureDefaultChecks(w) ==
  /\ w \in profiles
  /\ checks' = [checks EXCEPT ![w] = WithDefaults(w)]
  /\ UNCHANGED <<profiles, page, load, call, save, behind>>

\* Another administrator updates a check; bound: once before the page lists its checks.
UpdateElsewhere(w, k, given) ==
  /\ ~behind /\ k \in DOMAIN checks[w]
  /\ checks' = [checks EXCEPT ![w][k] = given]
  /\ behind' = TRUE
  /\ UNCHANGED <<profiles, page, load, call, save>>

-----------------------------------------------------------------------------
\* A selection, by hand or by an answer: the form starts from the selected profile and
\* the checks are asked for anew; an older call for checks is forgotten.
SelectedForm(held, w, listed) ==
  [held EXCEPT !.selected = w, !.listed = listed, !.formOf = w]

Ask(w) == load' = [step |-> "sent", of |-> w]

OpenPage(w) ==
  /\ page.selected = None /\ w \in profiles
  /\ page' = SelectedForm(page, w, profiles)
  /\ Ask(w)
  /\ UNCHANGED <<profiles, checks, call, save, behind>>

SelectPilot(w) ==
  /\ page.selected \notin {None, w} /\ w \in page.listed
  /\ page' = SelectedForm(page, w, page.listed)
  /\ Ask(w)
  /\ UNCHANGED <<profiles, checks, call, save, behind>>

\* listAdminPilotChecks: the missing defaults are inserted before the rows are read.
ListedRows(w) == WithDefaults(w)

ListChecks ==
  /\ load.step = "sent"
  /\ checks' = [checks EXCEPT ![load.of] = WithDefaults(load.of)]
  /\ load' = [step |-> "answered", of |-> load.of, rows |-> ListedRows(load.of)]
  /\ behind' = FALSE
  /\ UNCHANGED <<profiles, page, call, save>>

ShowChecks ==
  /\ load.step = "answered"
  /\ page' = [page EXCEPT !.shown = load.rows, !.shownOf = load.of]
  /\ load' = Nothing
  /\ UNCHANGED <<profiles, checks, call, save, behind>>

LoseChecks ==
  /\ load.step # "none"
  /\ load' = Nothing /\ behind' = TRUE
  /\ UNCHANGED <<profiles, checks, page, call, save>>

-----------------------------------------------------------------------------
\* handleUpdateCheck: the workspace is the one selected now, the check one of those
\* shown now.  A new status sends the evidence shown, a note the status shown.
UpdateCheck(k, given) ==
  /\ call.step = "none" /\ k \in DOMAIN page.shown
  /\ call' = [step |-> "sent", at |-> page.selected, of |-> page.shownOf, key |-> k,
              given |-> given, row |-> page.shown[k]]
  /\ UNCHANGED <<profiles, checks, page, load, save, behind>>

ChooseStatus(k, s) == /\ k \in DOMAIN page.shown /\ s # page.shown[k].status
                      /\ UpdateCheck(k, [page.shown[k] EXCEPT !.status = s])
AddNote(k) == /\ k \in DOMAIN page.shown
              /\ UpdateCheck(k, [page.shown[k] EXCEPT !.noted = TRUE])

\* updateAdminPilotCheck: a check of another workspace is not found.  The answer joins
\* the update with a select of the same snapshot: it is the row before the update.
Found_ById(c) == c.key \in DOMAIN checks[c.of]
Found(c) == c.at = c.of /\ c.key \in DOMAIN checks[c.of]

PatchCheck ==
  /\ call.step = "sent" /\ Found(call)
  /\ checks' = [checks EXCEPT ![call.of][call.key] = call.given]
  /\ call' = [call EXCEPT !.step = "answered", !.row = checks[call.of][call.key]]
  /\ UNCHANGED <<profiles, page, load, save, behind>>

RefuseCheck ==
  /\ call.step = "sent" /\ ~Found(call)
  /\ call' = Nothing
  /\ UNCHANGED <<profiles, checks, page, load, save, behind>>

\* The page shows the answered row, if it still shows that check, and lists again.
ShowCheck ==
  /\ call.step = "answered"
  /\ page' = IF page.shownOf = call.of
               THEN [page EXCEPT !.shown = [@ EXCEPT ![call.key] = call.row]]
               ELSE page
  /\ call' = [call EXCEPT !.step = "list"]
  /\ UNCHANGED <<profiles, checks, load, save, behind>>

ListPilots ==
  /\ call.step = "list"
  /\ call' = [step |-> "listed", at |-> call.at, items |-> profiles]
  /\ UNCHANGED <<profiles, checks, page, load, save, behind>>

\* The refreshed workspace is selected again, whatever was selected meanwhile.
Reload(w) == Ask(w)

ShowPilots ==
  /\ call.step = "listed"
  /\ page' = SelectedForm(page, call.at, call.items)
  /\ Reload(call.at)
  /\ call' = Nothing
  /\ UNCHANGED <<profiles, checks, save, behind>>

\* Before or after the server executed it.
LoseCall ==
  /\ call.step # "none"
  /\ call' = Nothing /\ behind' = TRUE
  /\ UNCHANGED <<profiles, checks, page, load, save>>

-----------------------------------------------------------------------------
\* handleSubmit sends every field of the form; what was typed into it is not told apart.
SubmitForm ==
  /\ save.step = "none" /\ call.step = "none" /\ page.selected # None
  /\ save' = [step |-> "sent", at |-> page.selected, from |-> page.formOf]
  /\ UNCHANGED <<profiles, checks, page, load, call, behind>>

UpdatePilot ==
  /\ save.step = "sent"
  /\ save' = [save EXCEPT !.step = "answered"]
  /\ UNCHANGED <<profiles, checks, page, load, call, behind>>

ShowSaved ==
  /\ save.step = "answered"
  /\ page' = SelectedForm(page, save.at, page.listed)
  /\ Ask(save.at)
  /\ save' = Nothing
  /\ UNCHANGED <<profiles, checks, call, behind>>

LoseSave ==
  /\ save.step # "none"
  /\ save' = Nothing
  /\ UNCHANGED <<profiles, checks, page, load, call, behind>>

PilotsNext ==
  \/ \E w \in Pilots : CreatePilot(w) \/ ensureDefaultChecks(w) \/ OpenPage(w) \/ SelectPilot(w)
  \/ \E w \in Pilots, k \in PilotKeys, given \in CheckRows : UpdateElsewhere(w, k, given)
  \/ ListChecks \/ ShowChecks \/ LoseChecks
  \/ \E k \in PilotKeys : AddNote(k) \/ \E s \in PilotStatuses : ChooseStatus(k, s)
  \/ PatchCheck \/ RefuseCheck \/ ShowCheck \/ ListPilots \/ ShowPilots \/ LoseCall
  \/ SubmitForm \/ UpdatePilot \/ ShowSaved \/ LoseSave

-----------------------------------------------------------------------------
PilotsTypeOK ==
  /\ profiles \subseteq Pilots
  /\ \A w \in Pilots : /\ DOMAIN checks[w] \subseteq PilotKeys
                       /\ \A k \in DOMAIN checks[w] : checks[w][k] \in CheckRows
  /\ load.step \in {"none", "sent", "answered"}
  /\ call.step \in {"none", "sent", "answered", "list", "listed"}
  /\ save.step \in {"none", "sent", "answered"}
  /\ behind \in BOOLEAN

Settled == load.step = "none" /\ call.step = "none" /\ save.step = "none"

\* A page at rest shows the rows as they are, although the answer of each update is
\* stale, unless another administrator wrote or an answer was lost since it last loaded:
\* selecting the refreshed workspace loads its checks again.
PageCatchesUp ==
  Settled /\ page.selected # None /\ ~behind =>
    page.shownOf = page.selected /\ page.shown = checks[page.selected]

\* A workspace whose creation broke off before its checks were inserted shows all of
\* them all the same: whoever lists them inserts the missing ones.
ShownChecksAreComplete ==
  page.shownOf # None => DOMAIN page.shown = PilotKeys

\* A check is updated only in the workspace its administrator had selected, even while
\* the checks of the workspace selected before are still shown.
UpdatesStayInSelected ==
  call.step \in {"answered", "list"} => call.at = call.of

\* A profile typed for one workspace is never saved in another, whichever answers change
\* the selection while it is typed.
SavedWhereTyped ==
  save.step # "none" => save.from = save.at
=============================================================================
