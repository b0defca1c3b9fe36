------------------------------ MODULE MCPages -------------------------------
(***************************************************************************)
(* The browser pages and the services behind them, side by side: a         *)
(* behaviour picks one area and stays in it.                               *)
(***************************************************************************)
EXTENDS Pilots, Storefront, BrowserSession, Desks, RecordPages, DriverDesk, MenuDesk, Inbox, TLC

VARIABLE area

pagesVars == <<pilotVars, storeVars, sessionVars, deskPageVars, recordVars, driverDeskVars, menuDeskVars, inboxVars, area>>

\* An area that is not looked at has one initial state, whichever it is.  The dishes of the
\* menu are alike until the restaurant edits one.
Init ==
  /\ area \in {"pilots", "store", "session", "desks", "records", "driver", "menu", "inbox"}
  /\ PilotsInit
  /\ SessionInit /\ (area = "session" \/ (supabase = NoOne /\ onboarded = {} /\ cached = NoSession))
  /\ StoreInit /\ (\A i, j \in Dishes : dish[i] = dish[j])
     /\ (area = "store" \/ (section /\ \A i \in Dishes : dish[i].active /\ \A p \in Prices : dish[i].price <= p))
  /\ DesksInit /\ (area = "desks" \/ (desk = "team" /\ key = CHOOSE k \in Keys : TRUE))
  /\ RecordsInit /\ (area = "records" \/ (record = "job" /\ escalation = "none"))
  /\ DriverDeskInit /\ (area = "driver" \/ online)
  /\ MenuDeskInit /\ (area = "menu" \/ (known = Restaurants /\ chosen = {CHOOSE r \in Restaurants : TRUE}
                                        /\ \A r \in Restaurants : sorted[r][3] = 2))
  /\ InboxInit /\ (area = "inbox" \/ lists = {"bell"})

InArea(a) == area = a /\ UNCHANGED area

Next ==
  \/ /\ InArea("pilots") /\ PilotsNext
     /\ UNCHANGED <<storeVars, sessionVars, deskPageVars, recordVars, driverDeskVars, menuDeskVars, inboxVars>>
  \/ /\ InArea("store") /\ StoreNext
     /\ UNCHANGED <<pilotVars, sessionVars, deskPageVars, recordVars, driverDeskVars, menuDeskVars, inboxVars>>
  \/ /\ InArea("session") /\ SessionNext
     /\ UNCHANGED <<pilotVars, storeVars, deskPageVars, recordVars, driverDeskVars, menuDeskVars, inboxVars>>
  \/ /\ InArea("desks") /\ DesksNext
     /\ UNCHANGED <<pilotVars, storeVars, sessionVars, recordVars, driverDeskVars, menuDeskVars, inboxVars>>
  \/ /\ InArea("records") /\ RecordsNext
     /\ UNCHANGED <<pilotVars, storeVars, sessionVars, deskPageVars, driverDeskVars, menuDeskVars, inboxVars>>
  \/ /\ InArea("driver") /\ DriverDeskNext
     /\ UNCHANGED <<pilotVars, storeVars, sessionVars, deskPageVars, recordVars, menuDeskVars, inboxVars>>
  \/ /\ InArea("menu") /\ MenuDeskNext
     /\ UNCHANGED <<pilotVars, storeVars, sessionVars, deskPageVars, recordVars, driverDeskVars, inboxVars>>
  \/ /\ InArea("inbox") /\ InboxNext
     /\ UNCHANGED <<pilotVars, storeVars, sessionVars, deskPageVars, recordVars, driverDeskVars, menuDeskVars>>

Spec == Init /\ [][Next]_pagesVars

\* Every page keeps its variables in their types.
PagesTypeOK == PilotsTypeOK /\ StoreTypeOK /\ SessionTypeOK /\ DesksTypeOK

\* A page at rest shows what the service has, and all of it, unless something named in the
\* conjuncts happened on the way: calls crossed, an answer got lost, another person wrote,
\* the other list of notifications marked some as read, or a load went on without a list.
PagesShowTheServer ==
  /\ PageCatchesUp /\ ShownChecksAreComplete /\ DeskIsCurrent
  /\ RecordIsWhole /\ MenuDeskIsSound /\ InboxAgrees

\* Nothing typed or done goes astray: an update reaches the workspace it was made for, an
\* edited profile is saved there, and a page never turns back to an older state but where
\* NothingGoesBack names the cause.
NothingGoesAstray == [](UpdatesStayInSelected /\ SavedWhereTyped) /\ NothingGoesBack

\* A customer's order: what is sent is the cart, what is charged is what was shown, and
\* who wants one order pays twice only if an answer was lost, to the page or to the service.
OrdersAreAsShown == OrderIsTheCart /\ ChargedAsShown /\ PaidTwiceOnlyIfLost

\* The browser's session: what is restored is the newest one and has its cookie, and the
\* page never waits for nothing.
SessionsHold == RestoredIsCurrent /\ RestoredHasCookie /\ NeverStuckLoading

\* The areas share their model values, so one exchange of the two serves all of them; the
\* run is safety only, and none of the definitions names one.
CONSTANTS x1, x2
Two == {x1, x2}
Interchangeable == Permutations(Two)
=============================================================================
