--------------------------- MODULE BrowserProofs ---------------------------
(***************************************************************************)
(* The browser's session, the customer's storefront, the pages of pilot    *)
(* workspaces, the lists of notifications and the driver's page: the       *)
(* inductive invariant of each and the steps that keep it, for any number  *)
(* of accounts, dishes, pilots, notifications, jobs and requests at work.  *)
(***************************************************************************)
EXTENDS BrowserSession, Storefront, Pilots, Inbox, DriverDesk, SequenceTheorems, FiniteSetTheorems, TLAPS

-----------------------------------------------------------------------------
\* The session of the browser.

Contexts == [attempt : Nat, account : Accounts, step : {"sent", "answered"}, org : BOOLEAN]
Sessions == [user : Accounts \cup {NoOne}, org : BOOLEAN]
Announcements == [kind : {"TOKEN_REFRESHED", "SIGNED_IN", "SIGNED_OUT"}, account : Accounts \cup {NoOne}]

\* The types, of what is under way too.
SessionTypes ==
  /\ SessionTypeOK
  /\ announced \in Seq(Announcements) /\ contexts \subseteq Contexts
  /\ tab \in [status : {"loading", "authenticated", "unauthenticated", "error"}, session : Sessions,
              by : {"nobody", "restore", "onboarding"}]
  /\ cached \in Sessions /\ restore \in {"mount", "refresh", "failed", "none"}
  /\ flow.step \in {"none", "context", "setup", "open"}
  /\ flow.step # "none" => flow = [step |-> flow.step, account |-> flow.account] /\ flow.account \in Accounts

\* The last announcement under way tells whom the client keeps.
LastTells == announced # <<>> => announced[Len(announced)].account = supabase

\* Every attempt has one context at most, and none is newer than the newest.
OneContextEach ==
  /\ \A c \in contexts : c.attempt <= attempt
  /\ \A c, d \in contexts : c.attempt = d.attempt => c = d

\* Once every announcement is heard, the newest attempt is about the client's account, and the
\* cookie is there for it, but for a restore that failed or follows one that did.
NewestIsCurrent ==
  \A c \in contexts : Newest(c) /\ announced = <<>> =>
    c.account = supabase /\ (restore \in {"none", "mount"} => cookie)

\* The inductive invariant.
SessionInv == /\ SessionTypes /\ LastTells /\ OneContextEach /\ NewestIsCurrent
              /\ RestoredIsCurrent /\ RestoredHasCookie /\ NeverStuckLoading

\* A browser that starts satisfies the invariant, whatever it kept.
LEMMA SessionInitInv == SessionInit => SessionInv
<1> SUFFICES ASSUME SessionInit PROVE SessionInv
  OBVIOUS
<1>1. /\ tab = [status |-> "loading", session |-> NoSession, by |-> "nobody"] /\ NoSession \in Sessions
      /\ cached \in Sessions /\ restore = "mount" /\ contexts = {} /\ announced = <<>> /\ attempt = 0
      /\ flow = [step |-> "none"]
  <2>1. /\ tab = [status |-> "loading", session |-> NoSession, by |-> "nobody"] /\ restore = "mount" /\ contexts = {}
        /\ announced = <<>> /\ attempt = 0 /\ flow = [step |-> "none"]
    BY DEF SessionInit, Tab, NoFlow
  <2>2. NoSession \in Sessions /\ \A a \in Accounts : SessionOf(a, a \in onboarded) \in Sessions
    BY DEF NoSession, Sessions, SessionOf
  <2>3. cached \in Sessions
    BY <2>2 DEF SessionInit
  <2>4. QED BY <2>1, <2>2, <2>3
<1>2. SessionTypes
  <2>1. SessionTypeOK
    BY <1>1, AttemptsAssumption DEF SessionTypeOK, SessionInit
  <2>2. announced \in Seq(Announcements) /\ contexts \subseteq Contexts
    BY <1>1
  <2>3. tab \in [status : {"loading", "authenticated", "unauthenticated", "error"}, session : Sessions,
                 by : {"nobody", "restore", "onboarding"}]
    BY <1>1
  <2>4. QED BY <1>1, <2>1, <2>2, <2>3 DEF SessionTypes
<1>3. QED
  BY <1>1, <1>2 DEF SessionInv, LastTells, OneContextEach, NewestIsCurrent, RestoredIsCurrent, RestoredHasCookie,
     NeverStuckLoading, Awaited

\* An announcement is the last one from then on.
LEMMA AnnouncedLast ==
  ASSUME SessionTypes, NEW kind \in {"TOKEN_REFRESHED", "SIGNED_IN", "SIGNED_OUT"},
         NEW a \in Accounts \cup {NoOne}, Announce(kind, a)
  PROVE  /\ announced' \in Seq(Announcements) /\ announced' # <<>> /\ Len(announced') <= 2
         /\ announced'[Len(announced')].account = a /\ cookie' \in BOOLEAN
<1> DEFINE e == [kind |-> kind, account |-> a]
<1>1. e \in Announcements /\ e.account = a
  BY DEF Announcements
<1>2. announced \in Seq(Announcements) /\ Len(announced) < 2 /\ announced' = Append(announced, e) /\ cookie' \in BOOLEAN
  BY DEF SessionTypes, Announce
<1> HIDE DEF e
<1>3. QED BY <1>1, <1>2

\* Hearing the last announcement is hearing about the client's account.
LEMMA HeardIsTold ==
  ASSUME SessionTypes, LastTells, announced # <<>>, announced' = Tail(announced), supabase' = supabase
  PROVE  /\ announced' \in Seq(Announcements) /\ Len(announced') <= 2 /\ LastTells'
         /\ announced' = <<>> => Head(announced).account = supabase
         /\ Head(announced) \in Announcements
<1>1. announced \in Seq(Announcements) /\ Len(announced) <= 2 /\ announced[Len(announced)].account = supabase
  BY DEF SessionTypes, SessionTypeOK, LastTells
<1>2. /\ announced' \in Seq(Announcements) /\ Len(announced') = Len(announced) - 1 /\ Head(announced) \in Announcements
      /\ \A i \in 1..Len(announced') : announced'[i] = announced[i + 1]
  BY <1>1, HeadTailProperties
<1>6. Head(announced) = announced[1] /\ (announced' = <<>> <=> Len(announced') = 0) /\ (Len(announced) = 1 \/ Len(announced) = 2)
  <2> DEFINE n == Len(announced)
  <2>1. n \in Nat /\ n # 0 /\ n <= 2
    BY <1>1, EmptySeq
  <2>2. Head(announced) = announced[1] /\ (announced' = <<>> <=> Len(announced') = 0)
    BY <1>1, <1>2, EmptySeq
  <2> HIDE DEF n
  <2>3. n = 1 \/ n = 2
    BY ONLY <2>1
  <2>4. QED BY <2>2, <2>3 DEF n
<1>3. CASE Len(announced) = 1
  BY <1>1, <1>2, <1>3, <1>6 DEF LastTells
<1>4. CASE Len(announced) = 2
  <2>1. announced' # <<>> /\ Len(announced') = 1 /\ announced'[1] = announced[2]
    BY <1>2, <1>4, <1>6
  <2>2. LastTells'
    BY <1>1, <1>4, <2>1 DEF LastTells
  <2>3. QED BY <1>2, <2>1, <2>2
<1>5. QED BY <1>3, <1>4, <1>6

\* Whatever changes nothing but the client's account and what it announces, or nothing at all.
LEMMA AnnouncingKeeps ==
  ASSUME SessionInv, NEW kind \in {"TOKEN_REFRESHED", "SIGNED_IN", "SIGNED_OUT"}, NEW a \in Accounts \cup {NoOne},
         supabase' = a, Announce(kind, a), UNCHANGED <<onboarded, restore, attempt, contexts>>,
         \/ UNCHANGED <<tab, cached, signingOut>>
         \/ tab' = Tab("unauthenticated", NoSession, "nobody") /\ cached' = NoSession /\ signingOut' = "no",
         flow'.step \in {"none", "context", "setup", "open"},
         flow'.step # "none" => flow' = [step |-> flow'.step, account |-> flow'.account] /\ flow'.account \in Accounts
  PROVE  SessionInv'
<1>1. /\ announced' \in Seq(Announcements) /\ announced' # <<>> /\ Len(announced') <= 2
      /\ announced'[Len(announced')].account = a /\ cookie' \in BOOLEAN
  BY AnnouncedLast DEF SessionInv
<1>2. /\ cached' \in Sessions
      /\ tab' \in [status : {"loading", "authenticated", "unauthenticated", "error"}, session : Sessions,
                  by : {"nobody", "restore", "onboarding"}]
  <2>1. NoSession \in Sessions
    BY DEF NoSession, Sessions
  <2>2. QED BY <2>1 DEF SessionInv, SessionTypes, Tab
<1>3. SessionTypes'
  BY <1>1, <1>2 DEF SessionInv, SessionTypes, SessionTypeOK
<1>4. Awaited'
  BY <1>1 DEF Awaited
<1>5. QED
  BY <1>1, <1>3, <1>4 DEF SessionInv, LastTells, OneContextEach, NewestIsCurrent, RestoredIsCurrent, RestoredHasCookie,
     NeverStuckLoading, Newest

\* A new attempt, or the end of all of them, supersedes what was under way.
LEMMA SupersedingKeeps ==
  ASSUME SessionInv, UNCHANGED <<supabase, onboarded, signingOut, flow>>,
         announced' \in Seq(Announcements), Len(announced') <= 2, LastTells',
         restore' \in {"mount", "refresh", "failed", "none"},
         attempt' = attempt + 1, attempt' <= MaxAttempts + 1,
         \/ contexts' = contexts /\ Cleared("unauthenticated")
         \/ /\ UNCHANGED <<tab, cached>> /\ cookie' = TRUE
            /\ \E a \in Accounts :
                 /\ contexts' = contexts \cup {[attempt |-> attempt + 1, account |-> a, step |-> "sent", org |-> FALSE]}
                 /\ announced' = <<>> => a = supabase
  PROVE  SessionInv'
<1>1. /\ attempt \in Nat /\ attempt' \in 0..MaxAttempts + 1 /\ contexts \subseteq Contexts
      /\ \A c \in contexts : c.attempt \in Nat /\ c.attempt <= attempt
  BY DEF SessionInv, SessionTypes, SessionTypeOK, OneContextEach, Contexts
<1>2. \A c \in contexts : c.attempt # attempt'
  BY <1>1
<1>3. NoSession \in Sessions
  BY DEF NoSession, Sessions
<1>4. CASE contexts' = contexts /\ Cleared("unauthenticated")
  <2>1. SessionTypes'
    BY <1>1, <1>3, <1>4 DEF SessionInv, SessionTypes, SessionTypeOK, Cleared, Tab
  <2>2. OneContextEach' /\ NewestIsCurrent'
    BY <1>1, <1>2, <1>4 DEF SessionInv, OneContextEach, NewestIsCurrent, Newest
  <2>3. RestoredIsCurrent' /\ RestoredHasCookie' /\ NeverStuckLoading'
    BY <1>4 DEF Cleared, Tab, RestoredIsCurrent, RestoredHasCookie, NeverStuckLoading
  <2>4. QED BY <2>1, <2>2, <2>3 DEF SessionInv
<1>5. CASE /\ UNCHANGED <<tab, cached>> /\ cookie' = TRUE
           /\ \E a \in Accounts :
                 /\ contexts' = contexts \cup {[attempt |-> attempt + 1, account |-> a, step |-> "sent", org |-> FALSE]}
                 /\ announced' = <<>> => a = supabase
  <2> PICK a \in Accounts :
             /\ contexts' = contexts \cup {[attempt |-> attempt + 1, account |-> a, step |-> "sent", org |-> FALSE]}
             /\ announced' = <<>> => a = supabase
    BY <1>5
  <2> DEFINE new == [attempt |-> attempt + 1, account |-> a, step |-> "sent", org |-> FALSE]
  <2>1. new \in Contexts /\ new.attempt = attempt' /\ new.account = a /\ contexts' = contexts \cup {new}
    BY <1>1 DEF Contexts
  <2> HIDE DEF new
  <2>2. SessionTypes'
    BY <1>1, <1>5, <2>1 DEF SessionInv, SessionTypes, SessionTypeOK
  <2>3. OneContextEach'
    BY <1>1, <1>2, <2>1 DEF SessionInv, OneContextEach
  <2>4. NewestIsCurrent'
    BY <1>2, <1>5, <2>1 DEF NewestIsCurrent, Newest
  <2>5. Awaited'
    BY <2>1 DEF Awaited, Newest
  <2>6. QED BY <2>2, <2>3, <2>4, <2>5 DEF SessionInv, RestoredIsCurrent, RestoredHasCookie, NeverStuckLoading
<1>6. QED BY <1>4, <1>5

\* What becomes of a context.
LEMMA ContextsKeep ==
  ASSUME SessionInv, NEW c \in contexts, AnswerContext(c) \/ ApplyContext(c) \/ ContextTimesOut(c) \/ ContextFails(c)
  PROVE  SessionInv'
<1> USE DEF SessionInv
<1>1. /\ c \in Contexts /\ c.attempt \in Nat /\ c.account \in Accounts /\ c.org \in BOOLEAN /\ attempt \in Nat
      /\ UNCHANGED <<supabase, onboarded, announced, restore, attempt, signingOut, flow>>
  BY DEF SessionTypes, SessionTypeOK, Contexts, AnswerContext, ApplyContext, ContextTimesOut, ContextFails
<1>2. LastTells'
  BY <1>1 DEF LastTells
<1>3. NoSession \in Sessions /\ SessionOf(c.account, c.org) \in Sessions /\ cached \in Sessions
      /\ SessionOf(c.account, c.org).user = c.account
  BY <1>1 DEF NoSession, Sessions, SessionOf, SessionTypes
<1>4. CASE AnswerContext(c)
  <2> DEFINE d == [c EXCEPT !.step = "answered", !.org = c.account \in onboarded]
  <2>1. d \in Contexts /\ d.attempt = c.attempt /\ d.account = c.account
    <3>1. (c.account \in onboarded) \in BOOLEAN
      OBVIOUS
    <3> DEFINE o == c.account \in onboarded
    <3> HIDE DEF o
    <3>2. o \in BOOLEAN => [c EXCEPT !.step = "answered", !.org = o] \in Contexts
      BY <1>1 DEF Contexts
    <3>3. d = [c EXCEPT !.step = "answered", !.org = o]
      BY DEF o
    <3>4. d \in Contexts
      BY <3>1, <3>2, <3>3 DEF o
    <3>5. QED BY <1>1, <3>4 DEF Contexts
  <2>2. contexts' = (contexts \ {c}) \cup {d} /\ UNCHANGED <<tab, cached, cookie>>
    BY <1>4 DEF AnswerContext
  <2> HIDE DEF d
  <2>3. SessionTypes'
    BY <1>1, <2>1, <2>2 DEF SessionTypes, SessionTypeOK
  <2>4. OneContextEach' /\ NewestIsCurrent'
    BY <1>1, <2>1, <2>2 DEF OneContextEach, NewestIsCurrent, Newest
  <2>5. Awaited => Awaited'
    BY <1>1, <2>1, <2>2 DEF Awaited, Newest
  <2>6. QED BY <1>1, <1>2, <2>2, <2>3, <2>4, <2>5 DEF RestoredIsCurrent, RestoredHasCookie, NeverStuckLoading
<1>5. CASE contexts' = contexts \ {c} /\ ~Newest(c) /\ UNCHANGED <<tab, cached, cookie>>
  <2>1. SessionTypes'
    BY <1>1, <1>5 DEF SessionTypes, SessionTypeOK
  <2>2. OneContextEach' /\ NewestIsCurrent'
    BY <1>1, <1>5 DEF OneContextEach, NewestIsCurrent, Newest
  <2>3. Awaited => Awaited'
    BY <1>1, <1>5 DEF Awaited, Newest
  <2>4. QED BY <1>1, <1>2, <1>5, <2>1, <2>2, <2>3 DEF RestoredIsCurrent, RestoredHasCookie, NeverStuckLoading
<1>6. CASE contexts' = contexts \ {c} /\ Newest(c) /\ \E status \in {"unauthenticated", "error"} : Cleared(status)
  <2>1. SessionTypes'
    <3>1. /\ cached' = NoSession /\ cookie' = FALSE /\ contexts' \subseteq Contexts
          /\ tab' \in [status : {"loading", "authenticated", "unauthenticated", "error"}, session : Sessions,
                       by : {"nobody", "restore", "onboarding"}]
      BY <1>3, <1>6 DEF SessionTypes, Cleared, Tab
    <3>2. QED BY <1>1, <1>3, <3>1 DEF SessionTypes, SessionTypeOK
  <2>2. OneContextEach' /\ NewestIsCurrent'
    BY <1>1, <1>6 DEF OneContextEach, NewestIsCurrent, Newest
  <2>3. QED BY <1>1, <1>2, <1>6, <2>1, <2>2 DEF RestoredIsCurrent, RestoredHasCookie, NeverStuckLoading, Cleared, Tab
<1>7. CASE /\ contexts' = contexts \ {c} /\ Newest(c) /\ UNCHANGED cookie /\ cached' \in Sessions
           /\ cached'.user = c.account /\ tab' = Tab("authenticated", cached', "restore")
  <2>1. SessionTypes'
    BY <1>1, <1>3, <1>7 DEF SessionTypes, SessionTypeOK, Tab
  <2>2. OneContextEach' /\ NewestIsCurrent'
    BY <1>1, <1>7 DEF OneContextEach, NewestIsCurrent, Newest
  <2>3. announced = <<>> => c.account = supabase /\ (restore \in {"none", "mount"} => cookie)
    BY <1>7 DEF NewestIsCurrent
  <2>4. RestoredIsCurrent' /\ RestoredHasCookie' /\ NeverStuckLoading'
    BY <1>1, <1>7, <2>3 DEF RestoredIsCurrent, RestoredHasCookie, NeverStuckLoading, Awaited, Tab, SessionTypes
  <2>5. QED BY <1>2, <2>1, <2>2, <2>4
<1>8. CASE ApplyContext(c)
  BY <1>3, <1>5, <1>7, <1>8 DEF ApplyContext
<1>9. CASE ContextTimesOut(c)
  BY <1>5, <1>6, <1>9 DEF ContextTimesOut, Expired
<1>10. CASE ContextFails(c)
  BY <1>3, <1>5, <1>6, <1>7, <1>10 DEF ContextFails, StandIn
<1>11. QED BY <1>4, <1>8, <1>9, <1>10

\* Every step of the page, of the client and of the person keeps it.
LEMMA SessionStepInv == SessionInv /\ [SessionNext]_sessionVars => SessionInv'
<1> SUFFICES ASSUME SessionInv, [SessionNext]_sessionVars PROVE SessionInv'
  OBVIOUS
<1> USE DEF SessionInv
<1>1. NoSession \in Sessions /\ cached \in Sessions /\ attempt \in Nat /\ \A a \in Accounts : SessionOf(a, TRUE) \in Sessions
  BY DEF NoSession, Sessions, SessionOf, SessionTypes, SessionTypeOK
<1>2. CASE UNCHANGED sessionVars
  BY <1>2 DEF sessionVars, SessionTypes, SessionTypeOK, LastTells, OneContextEach, NewestIsCurrent, Newest,
     RestoredIsCurrent, RestoredHasCookie, NeverStuckLoading, Awaited
<1>3. CASE TokenRefreshed
  <2>1. supabase \in Accounts \cup {NoOne} /\ supabase' = supabase
    BY <1>3 DEF TokenRefreshed, SessionTypes, SessionTypeOK
  <2>2. QED BY <1>3, <2>1, AnnouncingKeeps DEF TokenRefreshed, SessionTypes
<1>4. CASE SignedOutElsewhere
  BY <1>4, AnnouncingKeeps DEF SignedOutElsewhere, SessionTypes
<1>5. ASSUME NEW a \in Accounts, SignedInElsewhere(a) PROVE SessionInv'
  BY <1>5, AnnouncingKeeps DEF SignedInElsewhere, SessionTypes
<1>6. ASSUME NEW a \in Accounts, SubmitSignIn(a) PROVE SessionInv'
  BY <1>6, AnnouncingKeeps DEF SubmitSignIn
<1>7. CASE SignOutAnswers
  BY <1>7, AnnouncingKeeps DEF SignOutAnswers, SessionTypes
<1>8. CASE HearAnnouncement
  <2>1. /\ announced' \in Seq(Announcements) /\ Len(announced') <= 2 /\ LastTells'
        /\ announced' = <<>> => Head(announced).account = supabase
        /\ Head(announced).account \in Accounts \cup {NoOne}
    BY <1>8, HeardIsTold DEF HearAnnouncement, Announcements
  <2>2. /\ attempt' = attempt + 1 /\ attempt' <= MaxAttempts + 1
        /\ UNCHANGED <<supabase, onboarded, signingOut, flow, restore>> /\ restore' \in {"mount", "refresh", "failed", "none"}
    BY <1>1, <1>8, AttemptsAssumption DEF HearAnnouncement, resetToUnauthenticated, resolveBusinessSession, SessionTypes
  <2>3. \/ contexts' = contexts /\ Cleared("unauthenticated")
        \/ /\ UNCHANGED <<tab, cached>> /\ cookie' = TRUE
           /\ \E a \in Accounts :
                 /\ contexts' = contexts \cup {[attempt |-> attempt + 1, account |-> a, step |-> "sent", org |-> FALSE]}
                 /\ announced' = <<>> => a = supabase
    BY <1>8, <2>1 DEF HearAnnouncement, resetToUnauthenticated, resolveBusinessSession
  <2>4. QED BY <2>1, <2>2, <2>3, SupersedingKeeps
<1>9. CASE RestoreAnswers
  <2>1. supabase \in Accounts \cup {NoOne} /\ announced' \in Seq(Announcements) /\ Len(announced') <= 2 /\ LastTells'
    BY <1>9 DEF RestoreAnswers, SessionTypes, SessionTypeOK, LastTells
  <2>2. /\ attempt' = attempt + 1 /\ attempt' <= MaxAttempts + 1
        /\ UNCHANGED <<supabase, onboarded, signingOut, flow>> /\ restore' = "none"
    BY <1>1, <1>9, AttemptsAssumption DEF RestoreAnswers, resolveBusinessSession
  <2>3. \/ contexts' = contexts /\ Cleared("unauthenticated")
        \/ /\ UNCHANGED <<tab, cached>> /\ cookie' = TRUE
           /\ \E a \in Accounts :
                 /\ contexts' = contexts \cup {[attempt |-> attempt + 1, account |-> a, step |-> "sent", org |-> FALSE]}
                 /\ announced' = <<>> => a = supabase
    BY <1>9, <2>1 DEF RestoreAnswers, resolveBusinessSession
  <2>4. QED BY <2>1, <2>2, <2>3, SupersedingKeeps
<1>10. CASE RestoreTimesOut
  <2>1. announced' \in Seq(Announcements) /\ Len(announced') <= 2 /\ LastTells'
    BY <1>10 DEF RestoreTimesOut, SessionTypes, SessionTypeOK, LastTells
  <2>2. /\ attempt' = attempt + 1 /\ attempt' <= MaxAttempts + 1 /\ restore' = "none"
        /\ UNCHANGED <<supabase, onboarded, signingOut, flow>> /\ contexts' = contexts /\ Cleared("unauthenticated")
    BY <1>1, <1>10, AttemptsAssumption DEF RestoreTimesOut, resetToUnauthenticated
  <2>3. QED BY <2>1, <2>2, SupersedingKeeps
<1>11. CASE RestoreFails
  <2>1. /\ UNCHANGED <<supabase, onboarded, announced, attempt, contexts, signingOut, flow>> /\ restore' = "failed"
        /\ tab' = [status |-> "error", session |-> NoSession, by |-> "nobody"] /\ cached' = NoSession /\ cookie' = FALSE
    BY <1>11 DEF RestoreFails, Cleared, Tab
  <2>2. SessionTypes'
    BY <1>1, <2>1 DEF SessionTypes, SessionTypeOK
  <2>3. LastTells' /\ OneContextEach' /\ NewestIsCurrent'
    BY <2>1 DEF LastTells, OneContextEach, NewestIsCurrent, Newest
  <2>4. QED BY <2>1, <2>2, <2>3 DEF RestoredIsCurrent, RestoredHasCookie, NeverStuckLoading
<1>12. CASE ClickRefresh
  <2>1. SessionTypes' /\ LastTells' /\ OneContextEach'
    BY <1>12 DEF ClickRefresh, SessionTypes, SessionTypeOK, LastTells, OneContextEach
  <2>2. NewestIsCurrent'
    BY <1>12 DEF ClickRefresh, NewestIsCurrent, Newest
  <2>3. QED BY <1>12, <2>1, <2>2 DEF ClickRefresh, RestoredIsCurrent, RestoredHasCookie, NeverStuckLoading, Awaited
<1>13. CASE ClickSignOut
  <2>1. attempt' = attempt + 1 /\ attempt' <= MaxAttempts /\ \A x \in contexts : x.attempt \in Nat /\ x.attempt <= attempt
    BY <1>1, <1>13, AttemptsAssumption DEF ClickSignOut, OneContextEach, SessionTypes, Contexts
  <2>2. SessionTypes' /\ LastTells' /\ OneContextEach'
    <3>1. SessionTypes'
      BY <1>1, <1>13, <2>1, AttemptsAssumption DEF ClickSignOut, SessionTypes, SessionTypeOK
    <3>2. OneContextEach'
      BY <1>1, <1>13, <2>1 DEF ClickSignOut, OneContextEach
    <3>3. QED BY <1>13, <3>1, <3>2 DEF ClickSignOut, LastTells
  <2>3. NewestIsCurrent'
    BY <1>1, <1>13, <2>1 DEF ClickSignOut, NewestIsCurrent, Newest
  <2>4. RestoredIsCurrent' /\ NeverStuckLoading'
    BY <1>13 DEF ClickSignOut, RestoredIsCurrent, NeverStuckLoading
  <2>5. RestoredHasCookie'
    BY <1>13 DEF ClickSignOut, RestoredHasCookie, Awaited, NewestIsCurrent, SessionTypes
  <2>6. QED BY <2>2, <2>3, <2>4, <2>5
<1>14. CASE SignOutFails
  BY <1>14 DEF SignOutFails, SessionTypes, SessionTypeOK, LastTells, OneContextEach, NewestIsCurrent, Newest,
     RestoredIsCurrent, RestoredHasCookie, NeverStuckLoading, Awaited
<1>15. ASSUME NEW c \in contexts, AnswerContext(c) \/ ApplyContext(c) \/ ContextTimesOut(c) \/ ContextFails(c)
       PROVE SessionInv'
  BY <1>15, ContextsKeep
<1>16. CASE ReadContext \/ CreateOrganisation \/ FlowFails
  <2>1. /\ UNCHANGED <<supabase, announced, restore, attempt, contexts, tab, cached, cookie, signingOut>>
        /\ onboarded' \subseteq Accounts /\ flow'.step \in {"none", "context", "setup", "open"}
        /\ flow'.step # "none" => flow' = [step |-> flow'.step, account |-> flow'.account] /\ flow'.account \in Accounts
    BY <1>16 DEF ReadContext, CreateOrganisation, FlowFails, NoFlow, SessionTypes, SessionTypeOK
  <2>2. QED BY <2>1 DEF SessionTypes, SessionTypeOK, LastTells, OneContextEach, NewestIsCurrent, Newest,
               RestoredIsCurrent, RestoredHasCookie, NeverStuckLoading, Awaited
<1>17. CASE OpenDashboard
  <2>1. /\ UNCHANGED <<supabase, onboarded, announced, restore, attempt, contexts, cookie, signingOut>>
        /\ flow' = [step |-> "none"] /\ cached' = SessionOf(flow.account, TRUE) /\ flow.account \in Accounts
        /\ tab' = [status |-> "authenticated", session |-> SessionOf(flow.account, TRUE), by |-> "onboarding"]
    BY <1>17 DEF OpenDashboard, NoFlow, Tab, SessionTypes
  <2>2. SessionTypes'
    BY <1>1, <2>1 DEF SessionTypes, SessionTypeOK
  <2>3. QED BY <2>1, <2>2 DEF LastTells, OneContextEach, NewestIsCurrent, Newest,
               RestoredIsCurrent, RestoredHasCookie, NeverStuckLoading
<1>18. QED
  BY <1>2, <1>3, <1>4, <1>5, <1>6, <1>7, <1>8, <1>9, <1>10, <1>11, <1>12, <1>13, <1>14, <1>15, <1>16, <1>17 DEF SessionNext

-----------------------------------------------------------------------------
\* The storefront.

Carts == [Dishes -> 0..MaxQuantity]

\* The types, of what is under way too.
StoreTypes ==
  /\ StoreTypeOK /\ section \in BOOLEAN /\ edits \in Nat /\ held \in Nat /\ lost \in Nat
  /\ store.menu \in [Dishes -> Prices \cup {Hidden}] /\ store.card \in BOOLEAN /\ store.readAt \in Nat
  /\ store = [menu |-> store.menu, cart |-> store.cart, card |-> store.card, result |-> store.result, readAt |-> store.readAt]
  /\ opening.step \in {"sections", "dishes", "answered", "none"}
  /\ opening.step # "none" => store.cart = EmptyCart /\ store.menu = [i \in Dishes |-> Hidden]
  /\ opening.step \in {"dishes", "answered"} => opening.at \in Nat /\ opening.at <= edits
  /\ opening.step = "dishes" => opening.section \in BOOLEAN
  /\ opening.step = "answered" => opening.menu \in [Dishes -> Prices \cup {Hidden}]
  /\ placing.step = "sent" => placing.cart \in Carts /\ placing.readAt \in Nat
  /\ placing.step = "answered" => placing.status \in {"PAYMENT_AUTHORIZED", "PAYMENT_FAILED"}
  /\ orders \in Seq({orders[n] : n \in DOMAIN orders})

\* What is in the cart is shown, and what was shown costs what it did unless the menu changed.
Unchanged(listed) == \A i \in Dishes : listed[i] # Hidden => listed[i] = dish[i].price
MenuIsRead ==
  /\ store.readAt <= edits
  /\ opening.step = "dishes" /\ opening.at = edits => opening.section = section
  /\ opening.step = "answered" /\ opening.at = edits => Unchanged(opening.menu)
  /\ store.readAt = edits => Unchanged(store.menu)
  /\ CartLines(store.cart) \subseteq {i \in Dishes : store.menu[i] # Hidden}

\* An order on its way was shown at the prices of the menu on the page.
SentAsShown ==
  placing.step = "sent" =>
    /\ opening.step = "none" /\ placing.readAt = store.readAt /\ Len(orders) < MaxOrders
    /\ CartLines(placing.cart) \subseteq {i \in Dishes : store.menu[i] # Hidden}
    /\ placing.shown = Total(placing.cart, store.menu)

\* Every authorized payment is one the page knows of, or is about to, or one whose answer was lost.
Told == IF store.result = "PAYMENT_AUTHORIZED" \/ (placing.step = "answered" /\ placing.status = "PAYMENT_AUTHORIZED") THEN 1 ELSE 0
EachIsTold ==
  /\ placing.step # "none" => Browsing
  /\ held <= lost + Told

\* The inductive invariant.
StoreInv == StoreTypes /\ MenuIsRead /\ SentAsShown /\ EachIsTold /\ OrderIsTheCart /\ ChargedAsShown

\* A list with one more at its end.
LEMMA AppendAny ==
  ASSUME NEW s, s \in Seq({s[n] : n \in DOMAIN s}), NEW e
  PROVE  /\ Append(s, e) \in Seq({Append(s, e)[n] : n \in DOMAIN Append(s, e)})
         /\ Len(s) \in Nat /\ Len(Append(s, e)) = Len(s) + 1
         /\ DOMAIN s = 1..Len(s) /\ DOMAIN Append(s, e) = 1..Len(s) + 1
         /\ \A n \in 1..Len(s) : Append(s, e)[n] = s[n]
         /\ Append(s, e)[Len(s) + 1] = e
<1> DEFINE S == {s[n] : n \in DOMAIN s} \cup {e}
           t == Append(s, e)
<1>1. s \in Seq(S)
  <2>1. Len(s) \in Nat /\ DOMAIN s = 1..Len(s) /\ \A n \in 1..Len(s) : s[n] \in S
    OBVIOUS
  <2>2. s = [n \in 1..Len(s) |-> s[n]]
    OBVIOUS
  <2> HIDE DEF S
  <2>3. QED BY <2>1, <2>2
<1>2. e \in S
  OBVIOUS
<1> HIDE DEF S
<1>3. /\ t \in Seq(S) /\ Len(t) = Len(s) + 1 /\ \A n \in 1..Len(s) : t[n] = s[n]
      /\ t[Len(s) + 1] = e /\ Len(s) \in Nat /\ DOMAIN s = 1..Len(s)
  BY <1>1, <1>2, AppendProperties
<1> HIDE DEF t
<1>4. DOMAIN t = 1..Len(t) /\ t = [n \in 1..Len(t) |-> t[n]] /\ Len(t) \in Nat
  BY <1>3
<1>5. \A n \in 1..Len(t) : t[n] \in {t[k] : k \in DOMAIN t}
  BY <1>4
<1>6. t \in Seq({t[k] : k \in DOMAIN t})
  <2> DEFINE R == {t[k] : k \in DOMAIN t}
  <2> HIDE DEF R
  <2>1. (\A n \in 1..Len(t) : t[n] \in R) => t \in Seq(R)
    BY <1>4
  <2>2. QED BY <1>5, <2>1 DEF R
<1>7. QED BY <1>3, <1>4, <1>6 DEF t

\* The storefront as it opens satisfies the invariant.
LEMMA StoreInitInv == StoreInit => StoreInv
<1> SUFFICES ASSUME StoreInit PROVE StoreInv
  OBVIOUS
<1> DEFINE blank == [i \in Dishes |-> Hidden]
<1>1. /\ store = [menu |-> blank, cart |-> EmptyCart, card |-> FALSE, result |-> "none", readAt |-> 0]
      /\ opening = [step |-> "sections"] /\ placing = [step |-> "none"] /\ orders = <<>> /\ edits = 0 /\ held = 0 /\ lost = 0
  BY DEF StoreInit, NoCall
<1>2. blank \in [Dishes -> Prices \cup {Hidden}] /\ EmptyCart \in Carts /\ \A i \in Dishes : blank[i] = Hidden /\ EmptyCart[i] = 0
  BY QuantitiesAssumption DEF EmptyCart, Carts
<1> HIDE DEF blank
<1>3. orders \in Seq({orders[n] : n \in DOMAIN orders}) /\ Len(orders) = 0 /\ DOMAIN orders = {}
  BY <1>1
<1>4. StoreTypeOK
  BY <1>1, <1>2, <1>3, QuantitiesAssumption DEF StoreTypeOK, StoreInit, Carts
<1>5. StoreTypes
  BY <1>1, <1>2, <1>3, <1>4 DEF StoreTypes, StoreInit, blank
<1>6. MenuIsRead
  BY <1>1, <1>2 DEF MenuIsRead, Unchanged, CartLines
<1>7. EachIsTold
  BY <1>1 DEF EachIsTold, Told
<1>8. QED BY <1>1, <1>3, <1>5, <1>6, <1>7 DEF StoreInv, SentAsShown, OrderIsTheCart, ChargedAsShown

\* The restaurant changes its menu.
LEMMA EditsKeep ==
  ASSUME StoreInv, edits < MaxEdits, edits' = edits + 1, UNCHANGED <<opening, store, placing, orders, held, lost>>,
         dish' \in [Dishes -> [price : Prices, active : BOOLEAN]], section' \in BOOLEAN
  PROVE  StoreInv'
<1> USE DEF StoreInv
<1>1. edits \in Nat /\ edits' \in Nat /\ edits' <= MaxEdits /\ edits <= edits'
  BY QuantitiesAssumption DEF StoreTypes
<1>2. StoreTypes'
  BY <1>1 DEF StoreTypes, StoreTypeOK
<1>3. /\ store.readAt <= edits' /\ store.readAt # edits'
      /\ opening.step \in {"dishes", "answered"} => opening.at # edits'
  <2>1. store.readAt \in Nat /\ store.readAt <= edits
    BY DEF StoreTypes, MenuIsRead
  <2>2. opening.step \in {"dishes", "answered"} => opening.at \in Nat /\ opening.at <= edits
    BY DEF StoreTypes
  <2>3. QED BY <1>1, <2>1, <2>2
<1>4. MenuIsRead'
  BY <1>1, <1>3 DEF MenuIsRead, CartLines
<1>5. SentAsShown' /\ OrderIsTheCart' /\ ChargedAsShown'
  BY DEF SentAsShown, OrderIsTheCart, ChargedAsShown, CartLines, Total
<1>6. EachIsTold'
  BY DEF EachIsTold, Told, Browsing
<1>7. QED BY <1>2, <1>4, <1>5, <1>6

\* The menu is read and shown.
LEMMA OpeningKeeps ==
  ASSUME StoreInv, ReadSections \/ ReadDishes \/ ShowMenu
  PROVE  StoreInv'
<1> USE DEF StoreInv
<1>1. UNCHANGED <<dish, section, placing, orders, edits, held, lost>> /\ edits \in Nat /\ edits <= edits
  BY DEF ReadSections, ReadDishes, ShowMenu, StoreTypes
<1>2. OrderIsTheCart' /\ ChargedAsShown'
  BY <1>1 DEF OrderIsTheCart, ChargedAsShown, CartLines
<1>3. placing.step # "sent"
  BY DEF ReadSections, ReadDishes, ShowMenu, SentAsShown
<1>4. CASE ReadSections
  <2>1. /\ opening' = [step |-> "dishes", section |-> section, at |-> edits] /\ store' = store
        /\ opening.step = "sections"
    BY <1>4 DEF ReadSections
  <2>2. StoreTypes'
    BY <1>1, <2>1 DEF StoreTypes, StoreTypeOK
  <2>3. MenuIsRead'
    BY <1>1, <2>1 DEF MenuIsRead, Unchanged, CartLines
  <2>4. SentAsShown' /\ EachIsTold'
    BY <1>1, <1>3, <2>1 DEF SentAsShown, EachIsTold, Told, Browsing
  <2>5. QED BY <1>2, <2>2, <2>3, <2>4
<1>5. CASE ReadDishes
  <2> DEFINE seen == [i \in Dishes |-> IF opening.section /\ dish[i].active THEN dish[i].price ELSE Hidden]
  <2>1. /\ opening' = [step |-> "answered", at |-> opening.at, menu |-> seen] /\ store' = store
        /\ opening.step = "dishes"
    BY <1>5 DEF ReadDishes
  <2>2. seen \in [Dishes -> Prices \cup {Hidden}] /\ \A i \in Dishes : seen[i] # Hidden => seen[i] = dish[i].price
    BY DEF StoreTypes, StoreTypeOK
  <2> HIDE DEF seen
  <2>3. StoreTypes'
    BY <1>1, <2>1, <2>2 DEF StoreTypes, StoreTypeOK
  <2>4. MenuIsRead'
    BY <1>1, <2>1, <2>2 DEF MenuIsRead, Unchanged, CartLines
  <2>5. SentAsShown' /\ EachIsTold'
    BY <1>1, <1>3, <2>1 DEF SentAsShown, EachIsTold, Told, Browsing
  <2>6. QED BY <1>2, <2>3, <2>4, <2>5
<1>6. CASE ShowMenu
  <2>1. /\ opening' = [step |-> "none"] /\ opening.step = "answered" /\ opening.at \in Nat /\ opening.at <= edits
        /\ store' = [menu |-> opening.menu, cart |-> EmptyCart, card |-> store.card, result |-> store.result, readAt |-> opening.at]
        /\ opening.menu \in [Dishes -> Prices \cup {Hidden}] /\ store.cart = EmptyCart
    <3>1. /\ opening' = [step |-> "none"] /\ opening.step = "answered" /\ opening.at \in Nat /\ opening.at <= edits
          /\ store' = [store EXCEPT !.menu = opening.menu, !.readAt = opening.at]
          /\ opening.menu \in [Dishes -> Prices \cup {Hidden}] /\ store.cart = EmptyCart
          /\ store = [menu |-> store.menu, cart |-> store.cart, card |-> store.card, result |-> store.result, readAt |-> store.readAt]
      BY <1>6 DEF ShowMenu, NoCall, StoreTypes
    <3>2. QED BY <3>1
  <2>2. StoreTypes'
    BY <1>1, <2>1 DEF StoreTypes, StoreTypeOK
  <2>3. CartLines(store'.cart) = {} /\ (opening.at = edits => Unchanged(opening.menu))
    BY <2>1 DEF CartLines, EmptyCart, MenuIsRead
  <2>4. MenuIsRead'
    BY <1>1, <2>1, <2>3 DEF MenuIsRead, Unchanged, CartLines
  <2>5. SentAsShown' /\ EachIsTold'
    BY <1>1, <1>3, <2>1 DEF SentAsShown, EachIsTold, Told, Browsing
  <2>6. QED BY <1>2, <2>2, <2>4, <2>5
<1>7. QED BY <1>4, <1>5, <1>6

\* The customer fills the cart, saves a card, or goes back to the menu.
LEMMA BrowsingKeeps ==
  ASSUME StoreInv, SaveCard \/ handleBackToMenu \/ \E i \in Dishes, n \in 0..MaxQuantity : SetQuantity(i, n)
  PROVE  StoreInv'
<1> USE DEF StoreInv
<1>1. UNCHANGED <<dish, section, opening, placing, orders, edits, held, lost>>
  BY DEF SetQuantity, SaveCard, handleBackToMenu
<1>2. OrderIsTheCart' /\ ChargedAsShown'
  BY <1>1 DEF OrderIsTheCart, ChargedAsShown, CartLines
<1>3. store = [menu |-> store.menu, cart |-> store.cart, card |-> store.card, result |-> store.result, readAt |-> store.readAt]
  BY DEF StoreTypes
<1>4. /\ store' = [menu |-> store.menu, cart |-> store'.cart, card |-> store'.card, result |-> store'.result, readAt |-> store.readAt]
      /\ \/ store'.cart = store.cart
         \/ \E i \in Dishes, n \in 0..MaxQuantity :
              Browsing /\ store.menu[i] # Hidden /\ store'.cart = [store.cart EXCEPT ![i] = n]
      /\ store'.card \in BOOLEAN
      /\ store'.result = store.result \/ (store.result = "PAYMENT_FAILED" /\ store'.result = "none")
  BY <1>3 DEF SetQuantity, SaveCard, handleBackToMenu, StoreTypes
<1>5. store'.menu = store.menu /\ store'.readAt = store.readAt
  BY <1>4
<1>6. opening.step = "none" \/ store'.cart = store.cart
  BY <1>4 DEF StoreTypes
<1>7. store'.cart \in [Dishes -> 0..MaxQuantity]
  BY <1>4 DEF StoreTypes, StoreTypeOK
<1>8. StoreTypes'
  <2>1. StoreTypeOK'
    BY <1>1, <1>4, <1>7 DEF StoreTypes, StoreTypeOK
  <2>2. QED BY <1>1, <1>4, <1>5, <1>6, <2>1 DEF StoreTypes
<1>9. CartLines(store'.cart) \subseteq {k \in Dishes : store'.menu[k] # Hidden}
  <2>1. CartLines(store.cart) \subseteq {k \in Dishes : store.menu[k] # Hidden} /\ store.cart \in [Dishes -> 0..MaxQuantity]
    BY DEF MenuIsRead, StoreTypes, StoreTypeOK
  <2>2. CASE store'.cart = store.cart
    BY <1>5, <2>1, <2>2 DEF CartLines
  <2>3. ASSUME NEW i \in Dishes, NEW n \in 0..MaxQuantity, store.menu[i] # Hidden, store'.cart = [store.cart EXCEPT ![i] = n]
        PROVE  CartLines(store'.cart) \subseteq {k \in Dishes : store'.menu[k] # Hidden}
    BY <1>5, <2>1, <2>3 DEF CartLines
  <2>4. QED BY <1>4, <2>2, <2>3
<1>10. MenuIsRead'
  BY <1>1, <1>5, <1>9 DEF MenuIsRead, Unchanged, CartLines
<1>11. SentAsShown'
  BY <1>1, <1>5 DEF SentAsShown, CartLines, Total
<1>12. EachIsTold'
  <2>1. Told' = Told
    BY <1>1, <1>4 DEF Told
  <2>2. QED BY <1>1, <1>4, <2>1 DEF EachIsTold, Browsing
<1>13. QED BY <1>2, <1>8, <1>10, <1>11, <1>12

\* The order is sent, refused or lost, or its result is shown.
LEMMA SendingKeeps ==
  ASSUME StoreInv, handleSubmitOrder \/ RefuseOrder \/ ShowResult \/ LoseAnswer \/ LoseOrder
  PROVE  StoreInv'
<1> USE DEF StoreInv
<1>1. UNCHANGED <<dish, section, opening, orders, edits>> /\ held \in Nat /\ lost \in Nat
  BY DEF handleSubmitOrder, RefuseOrder, ShowResult, LoseAnswer, LoseOrder, StoreTypes
<1>2. OrderIsTheCart' /\ ChargedAsShown'
  BY <1>1 DEF OrderIsTheCart, ChargedAsShown, CartLines
<1>3. CASE handleSubmitOrder
  <2>1. /\ placing' = [step |-> "sent", cart |-> store.cart, shown |-> Total(store.cart, store.menu), readAt |-> store.readAt]
        /\ Browsing /\ placing.step = "none" /\ UNCHANGED <<store, held, lost>> /\ CartLines(store.cart) # {}
        /\ Len(orders) < MaxOrders
    BY <1>3 DEF handleSubmitOrder, canSubmit
  <2>2. StoreTypes' /\ MenuIsRead'
    BY <1>1, <2>1 DEF StoreTypes, StoreTypeOK, Carts, MenuIsRead, Unchanged, CartLines
  <2>3. opening.step = "none"
    BY <2>1 DEF StoreTypes, CartLines, EmptyCart
  <2>4. SentAsShown'
    BY <1>1, <2>1, <2>3 DEF SentAsShown, MenuIsRead, CartLines, Total
  <2>5. EachIsTold'
    BY <1>1, <2>1 DEF EachIsTold, Told, Browsing
  <2>6. QED BY <1>2, <2>2, <2>4, <2>5
<1>4. CASE RefuseOrder \/ LoseAnswer \/ LoseOrder
  <2>1. /\ placing' = [step |-> "none"] /\ UNCHANGED store
        /\ \/ placing.step = "sent" /\ UNCHANGED <<held, lost>>
           \/ placing.step = "answered" /\ held' = held /\ lost' = lost + 1
           \/ placing.step = "sent" /\ held' = held + 1 /\ lost' = lost + 1
    BY <1>4 DEF RefuseOrder, LoseAnswer, LoseOrder, NoCall
  <2>2. held' \in Nat /\ lost' \in Nat
    BY <1>1, <2>1
  <2>3. StoreTypes'
    BY <1>1, <2>1, <2>2 DEF StoreTypes, StoreTypeOK
  <2>4. MenuIsRead'
    BY <1>1, <2>1 DEF MenuIsRead, Unchanged, CartLines
  <2>5. EachIsTold'
    <3>1. store.result = "none" /\ held <= lost + Told
      BY <2>1 DEF EachIsTold, Browsing
    <3>2. Told' = 0 /\ Told \in {0, 1} /\ (placing.step = "sent" => Told = 0)
      BY <2>1, <3>1 DEF Told
    <3>3. held' <= lost'
      BY <1>1, <2>1, <3>1, <3>2
    <3>4. held' <= lost' + Told'
      <4>1. Told' = 0
        BY <3>2
      <4>2. \A h, l \in Nat : h <= l => h <= l + 0
        OBVIOUS
      <4> HIDE DEF Told
      <4>3. QED BY <2>2, <3>3, <4>1, <4>2
    <3>5. placing'.step = "none"
      BY <2>1
    <3>6. QED BY <3>4, <3>5 DEF EachIsTold
  <2>6. QED BY <1>2, <2>1, <2>3, <2>4, <2>5 DEF SentAsShown
<1>5. CASE ShowResult
  <2>1. /\ placing' = [step |-> "none"] /\ UNCHANGED <<held, lost>> /\ placing.step = "answered"
        /\ placing.status \in {"PAYMENT_AUTHORIZED", "PAYMENT_FAILED"}
        /\ store = [menu |-> store.menu, cart |-> store.cart, card |-> store.card, result |-> store.result, readAt |-> store.readAt]
    BY <1>5 DEF ShowResult, NoCall, StoreTypes
  <2>2. \E cart \in {store.cart, EmptyCart} :
          store' = [menu |-> store.menu, cart |-> cart, card |-> store.card, result |-> placing.status, readAt |-> store.readAt]
    BY <1>5, <2>1 DEF ShowResult
  <2>3. PICK cart \in {store.cart, EmptyCart} :
          store' = [menu |-> store.menu, cart |-> cart, card |-> store.card, result |-> placing.status, readAt |-> store.readAt]
    BY <2>2
  <2>4. EmptyCart \in [Dishes -> 0..MaxQuantity] /\ CartLines(EmptyCart) = {}
    BY QuantitiesAssumption DEF EmptyCart, CartLines
  <2>5. StoreTypes'
    BY <1>1, <2>1, <2>3, <2>4 DEF StoreTypes, StoreTypeOK
  <2>6. MenuIsRead'
    BY <1>1, <2>1, <2>3, <2>4 DEF MenuIsRead, Unchanged, CartLines
  <2>7. Told' = Told /\ placing'.step = "none"
    BY <2>1, <2>3 DEF EachIsTold, Told, Browsing
  <2>8. EachIsTold'
    BY <2>1, <2>7 DEF EachIsTold
  <2>9. QED BY <1>2, <2>5, <2>6, <2>7, <2>8 DEF SentAsShown
<1>6. QED BY <1>3, <1>4, <1>5

\* The order is placed: a new one at the end, and the page is about to hear of it.
LEMMA PlacingKeeps ==
  ASSUME StoreInv, NEW outcome \in {"AUTHORIZED", "FAILED", "REQUIRES_ACTION"}, NEW heard \in BOOLEAN, PlaceOrder(outcome, heard)
  PROVE  StoreInv'
<1> USE DEF StoreInv
<1> DEFINE o == [lines |-> OrderLines(placing.cart), wanted |-> placing.cart,
                 orderable |-> {i \in Dishes : Orderable(i)}, subtotal |-> Subtotal(placing),
                 shown |-> placing.shown, changed |-> edits > placing.readAt]
           k == Len(orders) + 1
<1>1. /\ placing.step = "sent" /\ orders' = Append(orders, o) /\ ~LinesRefused(placing.cart)
      /\ placing' = [step |-> "answered", status |-> OrderStatus(outcome, heard)]
      /\ held' = (IF outcome = "AUTHORIZED" THEN held + 1 ELSE held) /\ lost' = (IF heard THEN lost ELSE lost + 1)
      /\ UNCHANGED <<dish, section, opening, store, edits>>
  BY DEF PlaceOrder
<1>2. o.lines = o.wanted /\ CartLines(o.lines) \subseteq o.orderable
  <2>1. \A i \in CartLines(placing.cart) : i \in Dishes /\ Orderable(i)
    BY <1>1 DEF LinesRefused, OrderLines, CartLines
  <2>2. CartLines(placing.cart) \subseteq {i \in Dishes : Orderable(i)}
    BY <2>1
  <2>3. QED BY <2>2 DEF OrderLines
<1>3. ~o.changed => o.subtotal = o.shown
  <2> SUFFICES ASSUME ~(edits > placing.readAt) PROVE Subtotal(placing) = placing.shown
    OBVIOUS
  <2>1. placing.readAt = store.readAt /\ edits = store.readAt /\ placing.shown = Total(placing.cart, store.menu)
    BY <1>1 DEF SentAsShown, StoreTypes, MenuIsRead
  <2>2. \A i \in CartLines(placing.cart) : i \in Dishes /\ store.menu[i] = dish[i].price
    BY <1>1, <2>1 DEF SentAsShown, MenuIsRead, Unchanged
  <2>3. [i \in CartLines(placing.cart) |-> placing.cart[i] * store.menu[i]]
          = [i \in CartLines(placing.cart) |-> placing.cart[i] * [j \in Dishes |-> dish[j].price][i]]
    BY <2>2
  <2>4. QED BY <2>1, <2>3 DEF Subtotal, OrderLines, Total
<1> HIDE DEF o
<1>4. /\ orders' \in Seq({orders'[n] : n \in DOMAIN orders'})
      /\ Len(orders) \in Nat /\ Len(orders') = k /\ DOMAIN orders = 1..Len(orders) /\ DOMAIN orders' = 1..k
      /\ \A n \in 1..Len(orders) : orders'[n] = orders[n]
      /\ orders'[k] = o
  <2>1. orders \in Seq({orders[n] : n \in DOMAIN orders})
    BY DEF StoreTypes
  <2> DEFINE t == Append(orders, o)
  <2>2. /\ t \in Seq({t[n] : n \in DOMAIN t})
        /\ Len(orders) \in Nat /\ Len(t) = k /\ DOMAIN orders = 1..Len(orders) /\ DOMAIN t = 1..k
        /\ \A n \in 1..Len(orders) : t[n] = orders[n]
        /\ t[k] = o
    <3> HIDE DEF o
    <3>1. \A e : /\ Append(orders, e) \in Seq({Append(orders, e)[n] : n \in DOMAIN Append(orders, e)})
                 /\ Len(orders) \in Nat /\ Len(Append(orders, e)) = Len(orders) + 1
                 /\ DOMAIN orders = 1..Len(orders) /\ DOMAIN Append(orders, e) = 1..Len(orders) + 1
                 /\ \A n \in 1..Len(orders) : Append(orders, e)[n] = orders[n]
                 /\ Append(orders, e)[Len(orders) + 1] = e
      BY <2>1, AppendAny
    <3>2. QED BY <3>1, Zenon
  <2>3. orders' = t
    BY <1>1
  <2> HIDE DEF t
  <2>4. QED BY <2>2, <2>3, Zenon
<1>5. \A n \in DOMAIN orders' : n \in DOMAIN orders \/ n = k
  BY <1>4
<1>6. OrderIsTheCart'
  BY <1>2, <1>4, <1>5 DEF OrderIsTheCart, CartLines
<1>7. ChargedAsShown'
  BY <1>3, <1>4, <1>5 DEF ChargedAsShown
<1>8. Len(orders) < MaxOrders
  BY <1>1 DEF SentAsShown
<1>9. OrderStatus(outcome, heard) \in {"PAYMENT_AUTHORIZED", "PAYMENT_FAILED"}
      /\ (OrderStatus(outcome, heard) = "PAYMENT_AUTHORIZED" <=> heard /\ outcome = "AUTHORIZED")
  BY DEF OrderStatus
<1>10. StoreTypes'
  <2>1. Len(orders') <= MaxOrders
    BY <1>4, <1>8, QuantitiesAssumption
  <2>2. StoreTypeOK'
    BY <1>1, <2>1 DEF StoreTypes, StoreTypeOK
  <2>3. held' \in Nat /\ lost' \in Nat
    BY <1>1 DEF StoreTypes
  <2>4. QED BY <1>1, <1>4, <1>9, <2>2, <2>3 DEF StoreTypes
<1>11. MenuIsRead' /\ SentAsShown'
  BY <1>1 DEF MenuIsRead, Unchanged, CartLines, SentAsShown
<1>12. EachIsTold'
  <2>1. Told = 0 /\ Browsing /\ held \in Nat /\ lost \in Nat /\ held <= lost
    BY <1>1 DEF EachIsTold, Told, Browsing, StoreTypes
  <2>2. Told' = IF heard /\ outcome = "AUTHORIZED" THEN 1 ELSE 0
    BY <1>1, <1>9, <2>1 DEF Told, Browsing
  <2>3. held' <= lost' + Told'
    BY <1>1, <2>1, <2>2
  <2>4. QED BY <1>1, <2>1, <2>3 DEF EachIsTold, Browsing
<1>13. QED BY <1>6, <1>7, <1>10, <1>11, <1>12

\* Every step of the customer, of the business and of the service keeps it.
LEMMA StoreStepInv == StoreInv /\ [StoreNext]_storeVars => StoreInv'
<1> SUFFICES ASSUME StoreInv, [StoreNext]_storeVars PROVE StoreInv'
  OBVIOUS
<1>1. CASE UNCHANGED storeVars
  BY <1>1 DEF storeVars, StoreInv, StoreTypes, StoreTypeOK, MenuIsRead, Unchanged, SentAsShown, EachIsTold, Told,
     Browsing, OrderIsTheCart, ChargedAsShown, CartLines, Total
<1>2. ASSUME NEW i \in Dishes, NEW price \in Prices, NEW sold \in BOOLEAN, EditDish(i, price, sold) PROVE StoreInv'
  <2>1. /\ dish' \in [Dishes -> [price : Prices, active : BOOLEAN]] /\ section' \in BOOLEAN
        /\ edits < MaxEdits /\ edits' = edits + 1 /\ UNCHANGED <<opening, store, placing, orders, held, lost>>
    BY <1>2 DEF EditDish, StoreInv, StoreTypes, StoreTypeOK
  <2>2. QED BY <2>1, EditsKeep
<1>3. CASE EditSection
  <2>1. /\ dish' \in [Dishes -> [price : Prices, active : BOOLEAN]] /\ section' \in BOOLEAN
        /\ edits < MaxEdits /\ edits' = edits + 1 /\ UNCHANGED <<opening, store, placing, orders, held, lost>>
    BY <1>3 DEF EditSection, StoreInv, StoreTypes, StoreTypeOK
  <2>2. QED BY <2>1, EditsKeep
<1>4. CASE ReadSections \/ ReadDishes \/ ShowMenu
  BY <1>4, OpeningKeeps
<1>5. ASSUME NEW i \in Dishes, NEW n \in 0..MaxQuantity, SetQuantity(i, n) PROVE StoreInv'
  BY <1>5, BrowsingKeeps
<1>6. CASE SaveCard \/ handleBackToMenu
  BY <1>6, BrowsingKeeps
<1>7. CASE handleSubmitOrder \/ RefuseOrder \/ ShowResult \/ LoseAnswer \/ LoseOrder
  BY <1>7, SendingKeeps
<1>8. ASSUME NEW outcome \in {"AUTHORIZED", "FAILED", "REQUIRES_ACTION"}, NEW heard \in BOOLEAN, PlaceOrder(outcome, heard)
      PROVE  StoreInv'
  BY <1>8, PlacingKeeps
<1>9. QED BY <1>1, <1>2, <1>3, <1>4, <1>5, <1>6, <1>7, <1>8 DEF StoreNext

\* What the invariant says of the orders.
LEMMA StoreHolds ==
  ASSUME StoreInv
  PROVE  StoreTypeOK /\ OrderIsTheCart /\ ChargedAsShown /\ PaidTwiceOnlyIfLost
<1>1. held <= lost + Told
  BY DEF StoreInv, EachIsTold
<1>2. held \in Nat /\ lost \in Nat /\ Told \in {0, 1}
  BY DEF StoreInv, StoreTypes, Told
<1>3. PaidTwiceOnlyIfLost
  BY <1>1, <1>2 DEF PaidTwiceOnlyIfLost
<1>4. QED BY <1>3 DEF StoreInv, StoreTypes

-----------------------------------------------------------------------------
\* Pilot workspaces.

Tables == UNION {[K -> CheckRows] : K \in SUBSET PilotKeys}

LoadTypes ==
  \/ load = Nothing
  \/ load.step = "sent" /\ load = [step |-> "sent", of |-> load.of] /\ load.of \in Pilots
  \/ /\ load.step = "answered" /\ load = [step |-> "answered", of |-> load.of, rows |-> load.rows]
     /\ load.of \in Pilots /\ load.rows \in Tables

CallTypes ==
  \/ call = Nothing
  \/ /\ call.step \in {"sent", "answered", "list"}
     /\ call = [step |-> call.step, at |-> call.at, of |-> call.of, key |-> call.key,
                given |-> call.given, row |-> call.row]
     /\ call.at \in Pilots /\ call.of \in Pilots
     /\ call.key \in PilotKeys /\ call.given \in CheckRows /\ call.row \in CheckRows
  \/ /\ call.step = "listed"
     /\ call = [step |-> "listed", at |-> call.at, items |-> call.items]
     /\ call.at \in Pilots /\ call.items \subseteq Pilots

SaveTypes ==
  \/ save = Nothing
  \/ /\ save.step \in {"sent", "answered"}
     /\ save = [step |-> save.step, at |-> save.at, from |-> save.from] /\ save.at \in Pilots

\* The types, of what is under way too.
PilotTypes ==
  /\ profiles \subseteq Pilots /\ checks \in [Pilots -> Tables] /\ behind \in BOOLEAN
  /\ page = [listed |-> page.listed, selected |-> page.selected,
             formOf |-> page.formOf, shown |-> page.shown, shownOf |-> page.shownOf]
  /\ page.listed \subseteq Pilots /\ page.selected \in Pilots \cup {None}
  /\ page.shown \in Tables /\ page.shownOf \in Pilots \cup {None}
  /\ LoadTypes /\ CallTypes /\ SaveTypes

Full(rows) == DOMAIN rows = PilotKeys

\* The form and the call for checks are those of the selected workspace, and whatever was
\* listed holds all the checks.
FormIsOfSelected ==
  /\ page.formOf = page.selected
  /\ load.step # "none" => load.of = page.selected
  /\ load.step = "answered" => Full(load.rows) /\ Full(checks[load.of])
  /\ IF page.shownOf = None THEN DOMAIN page.shown = {}
     ELSE page.selected # None /\ Full(page.shown) /\ Full(checks[page.shownOf])

\* Until an update is executed, the rows on the page, or those on their way to it, are
\* the rows as they are.
RowsAreCurrent ==
  ~behind /\ call.step \in {"none", "sent"} =>
    /\ load.step = "answered" => load.rows = checks[load.of]
    /\ load.step = "none" /\ page.selected # None =>
         page.shownOf = page.selected /\ page.shown = checks[page.selected]

\* The inductive invariant.
PilotsInv == PilotTypes /\ FormIsOfSelected /\ RowsAreCurrent /\ UpdatesStayInSelected /\ SavedWhereTyped

\* A table of rows is a function on some of the keys.
LEMMA TableRows ==
  ASSUME NEW rows
  PROVE  rows \in Tables <=> DOMAIN rows \subseteq PilotKeys /\ rows \in [DOMAIN rows -> CheckRows]
BY DEF Tables

\* A page that has loaded nothing yet holds an empty table.
LEMMA NewTable == <<>> \in Tables /\ DOMAIN <<>> = {}
<1>1. <<>> \in Seq({}) /\ Len(<<>>) = 0
  BY EmptySeq
<1>2. DOMAIN <<>> = {} /\ <<>> \in [DOMAIN <<>> -> CheckRows]
  BY <1>1
<1>3. QED BY <1>2, TableRows

\* Inserting the defaults leaves a workspace with all its checks, and changes none of them.
LEMMA Defaults ==
  ASSUME PilotTypes, NEW w \in Pilots
  PROVE  /\ WithDefaults(w) \in Tables /\ Full(WithDefaults(w))
         /\ Full(checks[w]) => WithDefaults(w) = checks[w]
<1>1. DOMAIN checks[w] \subseteq PilotKeys /\ checks[w] \in [DOMAIN checks[w] -> CheckRows]
  BY TableRows DEF PilotTypes
<1>2. NewCheck \in CheckRows
  BY NotStartedAssumption DEF NewCheck, CheckRows
<1>3. WithDefaults(w) \in [PilotKeys -> CheckRows]
  BY <1>1, <1>2 DEF WithDefaults
<1>4. WithDefaults(w) \in Tables /\ Full(WithDefaults(w))
  BY <1>3, TableRows DEF Full
<1>5. ASSUME Full(checks[w]) PROVE WithDefaults(w) = checks[w]
  BY <1>1, <1>5 DEF WithDefaults, Full
<1>6. QED BY <1>4, <1>5

\* The page as it opens satisfies the invariant.
LEMMA PilotsInitInv == PilotsInit => PilotsInv
<1> SUFFICES ASSUME PilotsInit PROVE PilotsInv
  OBVIOUS
<1>1. checks \in [Pilots -> Tables]
  BY NewTable DEF PilotsInit
<1>2. PilotTypes
  BY <1>1, NewTable DEF PilotsInit, PilotTypes, LoadTypes, CallTypes, SaveTypes, Nothing
<1>3. FormIsOfSelected /\ RowsAreCurrent /\ UpdatesStayInSelected /\ SavedWhereTyped
  BY NewTable DEF PilotsInit, FormIsOfSelected, RowsAreCurrent, UpdatesStayInSelected, SavedWhereTyped, Nothing
<1>4. QED BY <1>2, <1>3 DEF PilotsInv

\* A profile or the missing checks are created, or another administrator updates a check.
LEMMA ServerKeeps ==
  ASSUME PilotsInv, NEW w \in Pilots,
         CreatePilot(w) \/ ensureDefaultChecks(w) \/ \E k \in PilotKeys, given \in CheckRows : UpdateElsewhere(w, k, given)
  PROVE  PilotsInv'
<1> USE DEF PilotsInv
<1>1. UNCHANGED <<page, load, call, save>> /\ profiles' \subseteq Pilots
  BY DEF CreatePilot, ensureDefaultChecks, UpdateElsewhere, PilotTypes
<1>2. PICK rows \in Tables : /\ checks' = [checks EXCEPT ![w] = rows] /\ (Full(checks[w]) => Full(rows))
                             /\ behind' \in BOOLEAN /\ (~behind' => ~behind /\ (Full(checks[w]) => rows = checks[w]))
  <2>1. CASE CreatePilot(w)
    <3>1. checks[w] \in Tables /\ checks' = [checks EXCEPT ![w] = checks[w]]
      BY <2>1 DEF CreatePilot, PilotTypes
    <3>2. QED BY <2>1, <3>1 DEF CreatePilot, PilotTypes
  <2>2. CASE ensureDefaultChecks(w)
    BY <2>2, Defaults DEF ensureDefaultChecks, PilotTypes
  <2>3. ASSUME NEW k \in PilotKeys, NEW given \in CheckRows, UpdateElsewhere(w, k, given)
        PROVE  \E rows \in Tables : /\ checks' = [checks EXCEPT ![w] = rows] /\ (Full(checks[w]) => Full(rows))
                                    /\ behind' \in BOOLEAN /\ (~behind' => ~behind /\ (Full(checks[w]) => rows = checks[w]))
    <3> DEFINE rows == [checks[w] EXCEPT ![k] = given]
    <3>1. DOMAIN checks[w] \subseteq PilotKeys /\ checks[w] \in [DOMAIN checks[w] -> CheckRows]
      BY TableRows DEF PilotTypes
    <3>2. DOMAIN rows = DOMAIN checks[w] /\ rows \in [DOMAIN rows -> CheckRows]
      BY <3>1
    <3>3. rows \in Tables /\ (Full(checks[w]) => Full(rows))
      BY <3>1, <3>2, TableRows DEF Full
    <3>4. checks' = [checks EXCEPT ![w] = rows] /\ behind'
      BY <2>3 DEF UpdateElsewhere, PilotTypes
    <3>5. QED BY <2>3, <3>3, <3>4 DEF UpdateElsewhere
  <2>4. QED BY <2>1, <2>2, <2>3
<1>3. checks' \in [Pilots -> Tables] /\ checks'[w] = rows /\ \A v \in Pilots \ {w} : checks'[v] = checks[v]
  BY <1>2 DEF PilotTypes
<1>4. PilotTypes'
  BY <1>1, <1>2, <1>3 DEF PilotTypes, LoadTypes, CallTypes, SaveTypes
<1>5. FormIsOfSelected'
  <2>1. \A v \in Pilots : Full(checks[v]) => Full(checks'[v])
    BY <1>2, <1>3
  <2>2. page.shownOf \in Pilots \cup {None} /\ (load.step = "answered" => load.of \in Pilots)
    BY DEF PilotTypes, LoadTypes, Nothing
  <2>3. QED BY <1>1, <2>1, <2>2 DEF FormIsOfSelected, Full
<1>6. RowsAreCurrent'
  <2>1. SUFFICES ASSUME ~behind', call.step \in {"none", "sent"}
                 PROVE  /\ load.step = "answered" => load.rows = checks'[load.of]
                        /\ load.step = "none" /\ page.selected # None =>
                             page.shownOf = page.selected /\ page.shown = checks'[page.selected]
    BY <1>1 DEF RowsAreCurrent
  <2>2. \A v \in Pilots : Full(checks[v]) => checks'[v] = checks[v]
    BY <1>2, <1>3, <2>1
  <2>3. page.selected \in Pilots \cup {None} /\ (load.step = "answered" => load.of \in Pilots)
    BY DEF PilotTypes, LoadTypes, Nothing
  <2>4. QED BY <1>2, <2>1, <2>2, <2>3 DEF FormIsOfSelected, RowsAreCurrent
<1>7. QED BY <1>1, <1>4, <1>5, <1>6 DEF UpdatesStayInSelected, SavedWhereTyped

\* A workspace is selected, by hand or by an answer.
LEMMA SelectingKeeps ==
  ASSUME PilotsInv, NEW w \in Pilots, NEW l \in SUBSET Pilots,
         page' = SelectedForm(page, w, l), Ask(w), UNCHANGED <<profiles, checks, behind>>,
         call' \in {call, Nothing}, save' \in {save, Nothing}
  PROVE  PilotsInv'
<1> USE DEF PilotsInv
<1>1. page' = [listed |-> l, selected |-> w, formOf |-> w, shown |-> page.shown, shownOf |-> page.shownOf]
  <2>1. page = [listed |-> page.listed, selected |-> page.selected,
                formOf |-> page.formOf, shown |-> page.shown, shownOf |-> page.shownOf]
    BY DEF PilotTypes
  <2>2. QED BY <2>1 DEF SelectedForm
<1>2. load' = [step |-> "sent", of |-> w]
  BY DEF Ask
<1>3. LoadTypes' /\ CallTypes' /\ SaveTypes'
  <2>1. LoadTypes'
    BY <1>2 DEF LoadTypes
  <2>2. CallTypes'
    BY DEF PilotTypes, CallTypes, Nothing
  <2>3. SaveTypes'
    BY DEF PilotTypes, SaveTypes, Nothing
  <2>4. QED BY <2>1, <2>2, <2>3
<1>4. PilotTypes'
  BY <1>1, <1>3 DEF PilotTypes
<1>5. FormIsOfSelected'
  BY <1>1, <1>2, NoneAssumption DEF FormIsOfSelected, Full
<1>6. RowsAreCurrent'
  BY <1>2 DEF RowsAreCurrent
<1>7. UpdatesStayInSelected' /\ SavedWhereTyped'
  BY DEF UpdatesStayInSelected, SavedWhereTyped, Nothing
<1>8. QED BY <1>4, <1>5, <1>6, <1>7

\* The checks are listed, shown, or their answer is lost.
LEMMA ListingKeeps ==
  ASSUME PilotsInv, ListChecks \/ ShowChecks \/ LoseChecks
  PROVE  PilotsInv'
<1> USE DEF PilotsInv
<1>1. UNCHANGED <<profiles, call, save>>
  BY DEF ListChecks, ShowChecks, LoseChecks
<1>2. CallTypes' /\ SaveTypes' /\ UpdatesStayInSelected' /\ SavedWhereTyped'
  BY <1>1 DEF PilotTypes, CallTypes, SaveTypes, UpdatesStayInSelected, SavedWhereTyped
<1>3. CASE ListChecks
  <2>1. load.of \in Pilots /\ load.step = "sent"
    BY <1>3 DEF ListChecks, PilotTypes, LoadTypes, Nothing
  <2> DEFINE rows == WithDefaults(load.of)
  <2>2. rows \in Tables /\ Full(rows)
    BY <2>1, Defaults
  <2>3. /\ checks' = [checks EXCEPT ![load.of] = rows] /\ load' = [step |-> "answered", of |-> load.of, rows |-> rows]
        /\ behind' = FALSE /\ UNCHANGED page
    BY <1>3 DEF ListChecks, ListedRows
  <2> HIDE DEF rows
  <2>4. checks' \in [Pilots -> Tables] /\ checks'[load.of] = rows /\ \A v \in Pilots \ {load.of} : checks'[v] = checks[v]
    BY <2>1, <2>2, <2>3 DEF PilotTypes
  <2>5. LoadTypes'
    BY <2>1, <2>2, <2>3 DEF LoadTypes
  <2>6. PilotTypes'
    BY <1>1, <1>2, <2>3, <2>4, <2>5 DEF PilotTypes
  <2>7. FormIsOfSelected'
    <3>1. \A v \in Pilots : Full(checks[v]) => Full(checks'[v])
      BY <2>2, <2>4
    <3>2. page.shownOf \in Pilots \cup {None}
      BY DEF PilotTypes
    <3>3. QED BY <2>1, <2>2, <2>3, <2>4, <3>1, <3>2 DEF FormIsOfSelected, Full
  <2>8. RowsAreCurrent'
    BY <2>3, <2>4 DEF RowsAreCurrent
  <2>9. QED BY <1>2, <2>6, <2>7, <2>8
<1>4. CASE ShowChecks
  <2>1. /\ load.of \in Pilots /\ load.rows \in Tables /\ load.step = "answered" /\ load.of = page.selected
        /\ Full(load.rows) /\ Full(checks[load.of])
    BY <1>4 DEF ShowChecks, PilotTypes, LoadTypes, Nothing, FormIsOfSelected
  <2>2. page' = [listed |-> page.listed, selected |-> page.selected,
                 formOf |-> page.formOf, shown |-> load.rows, shownOf |-> load.of]
    <3>1. page = [listed |-> page.listed, selected |-> page.selected,
                  formOf |-> page.formOf, shown |-> page.shown, shownOf |-> page.shownOf]
      BY DEF PilotTypes
    <3>2. QED BY <1>4, <3>1 DEF ShowChecks
  <2>3. load' = Nothing /\ UNCHANGED <<checks, behind>>
    BY <1>4 DEF ShowChecks
  <2>4. PilotTypes'
    BY <1>1, <1>2, <2>1, <2>2, <2>3 DEF PilotTypes, LoadTypes
  <2>5. FormIsOfSelected'
    BY <2>1, <2>2, <2>3, NoneAssumption DEF FormIsOfSelected, Full, Nothing
  <2>6. RowsAreCurrent'
    BY <1>1, <2>1, <2>2, <2>3 DEF RowsAreCurrent, Nothing
  <2>7. QED BY <1>2, <2>4, <2>5, <2>6
<1>5. CASE LoseChecks
  <2>1. load' = Nothing /\ behind' = TRUE /\ UNCHANGED <<checks, page>>
    BY <1>5 DEF LoseChecks
  <2>2. PilotTypes'
    BY <1>1, <1>2, <2>1 DEF PilotTypes, LoadTypes
  <2>3. QED BY <1>2, <2>1, <2>2 DEF FormIsOfSelected, Full, Nothing, RowsAreCurrent
<1>6. QED BY <1>3, <1>4, <1>5

\* A check is updated, and its answer shown.
LEMMA UpdatingKeeps ==
  ASSUME PilotsInv,
         \/ \E k \in PilotKeys : AddNote(k) \/ \E s \in PilotStatuses : ChooseStatus(k, s)
         \/ PatchCheck \/ RefuseCheck \/ ShowCheck \/ ListPilots \/ LoseCall
  PROVE  PilotsInv'
<1> USE DEF PilotsInv
<1>1. UNCHANGED <<profiles, load, save>>
  BY DEF AddNote, ChooseStatus, UpdateCheck, PatchCheck, RefuseCheck, ShowCheck, ListPilots, LoseCall
<1>2. LoadTypes' /\ SaveTypes' /\ SavedWhereTyped'
  BY <1>1 DEF PilotTypes, LoadTypes, SaveTypes, SavedWhereTyped
<1>3. ASSUME NEW k \in PilotKeys, AddNote(k) \/ \E s \in PilotStatuses : ChooseStatus(k, s) PROVE PilotsInv'
  <2>1. PICK given : UpdateCheck(k, given) /\ (\/ given = [page.shown[k] EXCEPT !.noted = TRUE]
                                               \/ \E s \in PilotStatuses : given = [page.shown[k] EXCEPT !.status = s])
    BY <1>3 DEF AddNote, ChooseStatus
  <2>2. k \in DOMAIN page.shown /\ page.shown[k] \in CheckRows
    <3>1. page.shown \in [DOMAIN page.shown -> CheckRows]
      BY TableRows DEF PilotTypes
    <3>2. QED BY <2>1, <3>1 DEF UpdateCheck
  <2>3. given \in CheckRows
    BY <2>1, <2>2 DEF CheckRows
  <2>4. page.selected \in Pilots /\ page.shownOf \in Pilots
    BY <2>2 DEF FormIsOfSelected, PilotTypes
  <2>5. /\ call' = [step |-> "sent", at |-> page.selected, of |-> page.shownOf, key |-> k, given |-> given, row |-> page.shown[k]]
        /\ call.step = "none" /\ UNCHANGED <<checks, page, behind>>
    BY <2>1 DEF UpdateCheck
  <2>6. CallTypes'
    BY <2>2, <2>3, <2>4, <2>5 DEF CallTypes
  <2>7. PilotTypes'
    BY <1>1, <1>2, <2>5, <2>6 DEF PilotTypes
  <2>8. FormIsOfSelected' /\ RowsAreCurrent'
    BY <1>1, <2>5 DEF FormIsOfSelected, Full, RowsAreCurrent
  <2>9. QED BY <1>2, <2>5, <2>7, <2>8 DEF UpdatesStayInSelected
<1>4. CASE PatchCheck
  <2>1. /\ call.step = "sent" /\ call.at = call.of /\ call.key \in DOMAIN checks[call.of]
        /\ checks' = [checks EXCEPT ![call.of][call.key] = call.given]
        /\ call' = [call EXCEPT !.step = "answered", !.row = checks[call.of][call.key]] /\ UNCHANGED <<page, behind>>
    BY <1>4 DEF PatchCheck, Found
  <2>2. /\ call = [step |-> call.step, at |-> call.at, of |-> call.of, key |-> call.key, given |-> call.given, row |-> call.row]
        /\ call.at \in Pilots /\ call.of \in Pilots /\ call.key \in PilotKeys /\ call.given \in CheckRows
    BY <2>1 DEF PilotTypes, CallTypes, Nothing
  <2>3. DOMAIN checks[call.of] \subseteq PilotKeys /\ checks[call.of] \in [DOMAIN checks[call.of] -> CheckRows]
    BY <2>2, TableRows DEF PilotTypes
  <2> DEFINE row == checks[call.of][call.key]
             rows == [checks[call.of] EXCEPT ![call.key] = call.given]
  <2>4. call' = [step |-> "answered", at |-> call.at, of |-> call.of, key |-> call.key, given |-> call.given, row |-> row]
    BY <2>1, <2>2
  <2>5. row \in CheckRows /\ rows \in Tables /\ DOMAIN rows = DOMAIN checks[call.of]
    <3>1. DOMAIN rows = DOMAIN checks[call.of] /\ rows \in [DOMAIN rows -> CheckRows]
      BY <2>2, <2>3
    <3>2. QED BY <2>1, <2>3, <3>1, TableRows
  <2>6. checks' = [checks EXCEPT ![call.of] = rows]
    BY <2>1, <2>2 DEF PilotTypes
  <2> HIDE DEF row, rows
  <2>7. checks' \in [Pilots -> Tables] /\ \A v \in Pilots : DOMAIN checks'[v] = DOMAIN checks[v]
    BY <2>2, <2>5, <2>6 DEF PilotTypes
  <2>8. CallTypes'
    BY <2>2, <2>4, <2>5 DEF CallTypes
  <2>9. PilotTypes'
    BY <1>1, <1>2, <2>1, <2>7, <2>8 DEF PilotTypes
  <2>10. FormIsOfSelected'
    <3>1. page.shownOf \in Pilots \cup {None} /\ (load.step = "answered" => load.of \in Pilots)
      BY DEF PilotTypes, LoadTypes, Nothing
    <3>2. QED BY <1>1, <2>1, <2>7, <3>1 DEF FormIsOfSelected, Full
  <2>11. QED BY <1>2, <2>1, <2>4, <2>9, <2>10 DEF RowsAreCurrent, UpdatesStayInSelected
<1>5. CASE RefuseCheck \/ LoseCall
  <2>1. /\ call' = Nothing /\ UNCHANGED <<checks, page>> /\ behind' \in BOOLEAN
        /\ ~behind' => ~behind /\ call.step = "sent"
    BY <1>5 DEF RefuseCheck, LoseCall, PilotTypes
  <2>2. PilotTypes'
    BY <1>1, <1>2, <2>1 DEF PilotTypes, CallTypes
  <2>3. FormIsOfSelected' /\ RowsAreCurrent'
    BY <1>1, <2>1 DEF FormIsOfSelected, Full, RowsAreCurrent
  <2>4. QED BY <1>2, <2>1, <2>2, <2>3 DEF UpdatesStayInSelected, Nothing
<1>6. CASE ShowCheck
  <2>1. /\ call.step = "answered" /\ UNCHANGED <<checks, behind>> /\ call' = [call EXCEPT !.step = "list"]
        /\ call = [step |-> call.step, at |-> call.at, of |-> call.of, key |-> call.key, given |-> call.given, row |-> call.row]
        /\ call.at \in Pilots /\ call.of \in Pilots /\ call.key \in PilotKeys /\ call.given \in CheckRows /\ call.row \in CheckRows
    BY <1>6 DEF ShowCheck, PilotTypes, CallTypes, Nothing
  <2>2. call' = [step |-> "list", at |-> call.at, of |-> call.of, key |-> call.key, given |-> call.given, row |-> call.row]
    BY <2>1
  <2>3. CallTypes'
    BY <2>1, <2>2 DEF CallTypes
  <2>4. PICK rows \in Tables : /\ page' = [listed |-> page.listed, selected |-> page.selected,
                                           formOf |-> page.formOf, shown |-> rows, shownOf |-> page.shownOf]
                               /\ DOMAIN rows = DOMAIN page.shown
    <3>1. page = [listed |-> page.listed, selected |-> page.selected,
                  formOf |-> page.formOf, shown |-> page.shown, shownOf |-> page.shownOf]
      BY DEF PilotTypes
    <3>2. CASE page.shownOf = call.of
      <4> DEFINE rows == [page.shown EXCEPT ![call.key] = call.row]
      <4>1. DOMAIN page.shown \subseteq PilotKeys /\ page.shown \in [DOMAIN page.shown -> CheckRows]
        BY TableRows DEF PilotTypes
      <4>2. DOMAIN rows = DOMAIN page.shown /\ rows \in [DOMAIN rows -> CheckRows]
        BY <2>1, <4>1
      <4>3. rows \in Tables
        BY <4>1, <4>2, TableRows
      <4>4. page' = [page EXCEPT !.shown = rows]
        BY <1>6, <3>2 DEF ShowCheck
      <4> HIDE DEF rows
      <4>5. page' = [listed |-> page.listed, selected |-> page.selected,
                     formOf |-> page.formOf, shown |-> rows, shownOf |-> page.shownOf]
        BY <3>1, <4>4
      <4>6. QED BY <4>2, <4>3, <4>5
    <3>3. CASE page.shownOf # call.of
      <4>1. page' = page /\ page.shown \in Tables
        BY <1>6, <3>3 DEF ShowCheck, PilotTypes
      <4>2. QED BY <3>1, <4>1
    <3>4. QED BY <3>2, <3>3
  <2>5. PilotTypes'
    BY <1>1, <1>2, <2>1, <2>3, <2>4 DEF PilotTypes
  <2>6. FormIsOfSelected'
    BY <1>1, <2>1, <2>4 DEF FormIsOfSelected, Full
  <2>7. QED BY <1>2, <2>1, <2>2, <2>5, <2>6 DEF RowsAreCurrent, UpdatesStayInSelected
<1>7. CASE ListPilots
  <2>1. /\ call.step = "list" /\ UNCHANGED <<checks, page, behind>> /\ call.at \in Pilots
        /\ call' = [step |-> "listed", at |-> call.at, items |-> profiles]
    BY <1>7 DEF ListPilots, PilotTypes, CallTypes, Nothing
  <2>2. PilotTypes'
    BY <1>1, <1>2, <2>1 DEF PilotTypes, CallTypes
  <2>3. QED BY <1>1, <1>2, <2>1, <2>2 DEF FormIsOfSelected, Full, RowsAreCurrent, UpdatesStayInSelected
<1>8. QED BY <1>3, <1>4, <1>5, <1>6, <1>7

\* The profile form is sent and saved.
LEMMA SavingKeeps ==
  ASSUME PilotsInv, SubmitForm \/ UpdatePilot \/ LoseSave
  PROVE  PilotsInv'
<1> USE DEF PilotsInv
<1>1. UNCHANGED <<profiles, checks, load, call, behind>>
  BY DEF SubmitForm, UpdatePilot, LoseSave
<1>2. UNCHANGED page
  BY DEF SubmitForm, UpdatePilot, LoseSave
<1>3. SaveTypes' /\ SavedWhereTyped'
  <2>1. CASE UNCHANGED save
    BY <2>1 DEF PilotTypes, SaveTypes, SavedWhereTyped
  <2>2. CASE SubmitForm
    <3>1. save' = [step |-> "sent", at |-> page.selected, from |-> page.formOf] /\ page.selected \in Pilots
      BY <2>2 DEF SubmitForm, PilotTypes
    <3>2. QED BY <3>1 DEF SaveTypes, SavedWhereTyped, FormIsOfSelected
  <2>3. CASE UpdatePilot
    <3>1. /\ save = [step |-> save.step, at |-> save.at, from |-> save.from] /\ save.at \in Pilots
          /\ save' = [save EXCEPT !.step = "answered"] /\ save.from = save.at
      BY <2>3 DEF UpdatePilot, PilotTypes, SaveTypes, Nothing, SavedWhereTyped
    <3>2. save' = [step |-> "answered", at |-> save.at, from |-> save.from]
      BY <3>1
    <3>3. QED BY <3>1, <3>2 DEF SaveTypes, SavedWhereTyped
  <2>4. CASE LoseSave
    BY <2>4 DEF LoseSave, SaveTypes, SavedWhereTyped, Nothing
  <2>5. QED BY <2>1, <2>2, <2>3, <2>4
<1>4. PilotTypes'
  <2>1. LoadTypes' /\ CallTypes'
    BY <1>1 DEF PilotTypes, LoadTypes, CallTypes
  <2>2. QED BY <1>1, <1>2, <1>3, <2>1 DEF PilotTypes
<1>5. FormIsOfSelected' /\ RowsAreCurrent' /\ UpdatesStayInSelected'
  BY <1>1, <1>2 DEF FormIsOfSelected, Full, RowsAreCurrent, UpdatesStayInSelected
<1>6. QED BY <1>3, <1>4, <1>5

\* Every step of the page and of the service keeps it.
LEMMA PilotsStepInv == PilotsInv /\ [PilotsNext]_pilotVars => PilotsInv'
<1> SUFFICES ASSUME PilotsInv, [PilotsNext]_pilotVars PROVE PilotsInv'
  OBVIOUS
<1>1. CASE UNCHANGED pilotVars
  BY <1>1 DEF pilotVars, PilotsInv, PilotTypes, LoadTypes, CallTypes, SaveTypes, FormIsOfSelected, Full,
     RowsAreCurrent, UpdatesStayInSelected, SavedWhereTyped
<1>2. ASSUME NEW w \in Pilots, OpenPage(w) \/ SelectPilot(w) PROVE PilotsInv'
  <2>1. profiles \in SUBSET Pilots /\ page.listed \in SUBSET Pilots
    BY DEF PilotsInv, PilotTypes
  <2>2. QED BY <1>2, <2>1, SelectingKeeps DEF OpenPage, SelectPilot
<1>3. CASE ShowPilots
  <2>1. call.at \in Pilots /\ call.items \in SUBSET Pilots
    BY <1>3 DEF ShowPilots, PilotsInv, PilotTypes, CallTypes, Nothing
  <2>2. QED BY <1>3, <2>1, SelectingKeeps DEF ShowPilots, Reload
<1>4. CASE ShowSaved
  <2>1. save.at \in Pilots /\ page.listed \in SUBSET Pilots
    BY <1>4 DEF ShowSaved, PilotsInv, PilotTypes, SaveTypes, Nothing
  <2>2. QED BY <1>4, <2>1, SelectingKeeps DEF ShowSaved
<1>5. ASSUME NEW w \in Pilots,
             CreatePilot(w) \/ ensureDefaultChecks(w) \/ \E k \in PilotKeys, given \in CheckRows : UpdateElsewhere(w, k, given)
      PROVE  PilotsInv'
  BY <1>5, ServerKeeps
<1>6. CASE ListChecks \/ ShowChecks \/ LoseChecks
  BY <1>6, ListingKeeps
<1>7. CASE \/ \E k \in PilotKeys : AddNote(k) \/ \E s \in PilotStatuses : ChooseStatus(k, s)
           \/ PatchCheck \/ RefuseCheck \/ ShowCheck \/ ListPilots \/ LoseCall
  BY <1>7, UpdatingKeeps
<1>8. CASE SubmitForm \/ UpdatePilot \/ LoseSave
  BY <1>8, SavingKeeps
<1>9. QED BY <1>1, <1>2, <1>3, <1>4, <1>5, <1>6, <1>7, <1>8 DEF PilotsNext

\* What the invariant says of the page.
LEMMA PilotsHold ==
  ASSUME PilotsInv
  PROVE  PilotsTypeOK /\ PageCatchesUp /\ ShownChecksAreComplete /\ UpdatesStayInSelected /\ SavedWhereTyped
<1>1. \A w \in Pilots : DOMAIN checks[w] \subseteq PilotKeys /\ \A k \in DOMAIN checks[w] : checks[w][k] \in CheckRows
  BY TableRows DEF PilotsInv, PilotTypes
<1>2. PilotsTypeOK
  BY <1>1 DEF PilotsInv, PilotTypes, LoadTypes, CallTypes, SaveTypes, Nothing, PilotsTypeOK
<1>3. PageCatchesUp
  BY DEF PilotsInv, RowsAreCurrent, PageCatchesUp, Settled
<1>4. QED BY <1>2, <1>3 DEF PilotsInv, FormIsOfSelected, Full, ShownChecksAreComplete

-----------------------------------------------------------------------------
\* Notifications.

CallIsOne(c) ==
  \/ c = Silent
  \/ /\ c.kind \in {"load", "open", "all"}
     /\ c = [kind |-> c.kind, of |-> c.of, step |-> c.step, items |-> c.items, reads |-> c.reads]
     /\ c.step \in IF c.kind = "load" THEN {"sent", "listed", "done"} ELSE {"sent", "done"}
     /\ c.items \subseteq 1..arisen

\* The types, of what is under way too.
InboxTypes ==
  /\ lists \subseteq Lists /\ arisen \in Nat
  /\ items = [w \in Lists |-> items[w]] /\ readHere = [w \in Lists |-> readHere[w]]
  /\ asking = [w \in Lists |-> asking[w]] /\ expired = [w \in Lists |-> expired[w]]
  /\ muddled \in [Lists -> BOOLEAN] /\ elsewhere \in [Lists -> BOOLEAN]
  /\ \A w \in Lists : /\ items[w] \subseteq 1..arisen
                      /\ asking[w] = [n \in Lines |-> asking[w][n]] /\ \A n \in Lines : CallIsOne(asking[w][n])

\* Unless calls of a list crossed, only calls that open different notifications are under way at once.
CallsApart(w) ==
  ~muddled[w] => \A n, m \in Lines : n # m /\ asking[w][n] # Silent /\ asking[w][m] # Silent =>
    asking[w][n].kind = "open" /\ asking[w][m].kind = "open" /\ asking[w][n].of # asking[w][m].of

\* Of the notifications that the API lists, what a list has as read is what the API has, but
\* for what was marked in the other list.
Listed(w) == items[w] \cap Newest50
TellsReads(w, i, r) == \A e \in i \cap Newest50 : (e \in r => e \in reads) /\ (e \in reads => e \in r \/ elsewhere[w])

\* What each call under way knows of the list and of what is read.
LoadIsFresh(w, n) ==
  asking[w][n].kind = "load" /\ asking[w][n].step = "done" => TellsReads(w, asking[w][n].items, asking[w][n].reads)
OpenIsMarked(w, n) ==
  asking[w][n].kind = "open" =>
    /\ asking[w][n].of \in readHere[w]
    /\ asking[w][n].step = "sent" /\ asking[w][n].of \in Listed(w) => asking[w][n].of \notin reads \/ elsewhere[w]
AllIsMarked(w, n) ==
  asking[w][n].kind = "all" =>
    /\ asking[w][n].items = items[w] /\ readHere[w] = items[w]
    /\ IF asking[w][n].step = "sent" THEN TellsReads(w, items[w], asking[w][n].reads) ELSE Listed(w) \subseteq reads
CallsKnow(w) == ~muddled[w] => \A n \in Lines : LoadIsFresh(w, n) /\ OpenIsMarked(w, n) /\ AllIsMarked(w, n)

\* Without a load or "mark all" under way, what is shown as read is read or about to be.
Opening(w, e) == \E n \in Lines : asking[w][n].kind = "open" /\ asking[w][n].step = "sent" /\ asking[w][n].of = e
ShownIsRead(w) == \A e \in Listed(w) : /\ e \in readHere[w] => e \in reads \/ Opening(w, e)
                                       /\ e \in reads => e \in readHere[w] \/ elsewhere[w]
ShownAsRead(w) == ~muddled[w] /\ (\A n \in Lines : asking[w][n].kind \notin {"load", "all"}) => ShownIsRead(w)

\* The inductive invariant.
ListInv(w) == CallsApart(w) /\ CallsKnow(w) /\ ShownAsRead(w)
InboxInv == InboxTypes /\ \A w \in Lists : ListInv(w)

\* A call that is not silent is of one of the three kinds.
LEMMA CallParts ==
  ASSUME NEW c, CallIsOne(c)
  PROVE  /\ c = Silent <=> c.kind = "none"
         /\ c = Silent \/ c.kind \in {"load", "open", "all"}
         /\ c.kind \in {"open", "all"} => c.step \in {"sent", "done"}
         /\ c.kind \in {"load", "open", "all"} =>
              c.step \in {"sent", "listed", "done"} /\ c.items \subseteq 1..arisen
              /\ c = [kind |-> c.kind, of |-> c.of, step |-> c.step, items |-> c.items, reads |-> c.reads]
<1>1. CASE c = Silent
  BY <1>1 DEF Silent
<1>2. CASE /\ c.kind \in {"load", "open", "all"}
           /\ c = [kind |-> c.kind, of |-> c.of, step |-> c.step, items |-> c.items, reads |-> c.reads]
           /\ c.step \in IF c.kind = "load" THEN {"sent", "listed", "done"} ELSE {"sent", "done"}
           /\ c.items \subseteq 1..arisen
  <2>1. Silent.kind = "none"
    BY DEF Silent
  <2>2. c # Silent
    BY <1>2, <2>1
  <2>3. QED BY <1>2, <2>2
<1>3. QED BY <1>1, <1>2 DEF CallIsOne

\* A list keeps its invariant when others act: it is told nothing, and more may be read, or
\* less be listed.
LEMMA WorldKeeps ==
  ASSUME InboxTypes, NEW w \in Lists, ListInv(w), reads \subseteq reads',
         items'[w] = items[w], readHere'[w] = readHere[w], asking'[w] = asking[w], muddled'[w] = muddled[w],
         (reads' = reads /\ elsewhere'[w] = elsewhere[w]) \/ elsewhere'[w],
         \A e \in 1..arisen : e \in Newest50' => e \in Newest50
  PROVE  ListInv(w)'
<1>1. CallsApart(w)'
  BY DEF ListInv, CallsApart
<1>2. ASSUME NEW i, NEW r, i \subseteq 1..arisen, TellsReads(w, i, r)
      PROVE  \A e \in i \cap Newest50' : (e \in r => e \in reads') /\ (e \in reads' => e \in r \/ elsewhere'[w])
  BY <1>2 DEF TellsReads
<1>3. items[w] \subseteq 1..arisen /\ \A n \in Lines : CallIsOne(asking[w][n])
  BY DEF InboxTypes
<1>4. Listed(w)' \subseteq Listed(w)
  BY <1>3 DEF Listed
<1>5. SUFFICES ASSUME ~muddled[w] PROVE CallsKnow(w)' /\ ShownAsRead(w)'
  BY <1>1 DEF ListInv, CallsKnow, ShownAsRead
<1>6. ASSUME NEW n \in Lines PROVE (LoadIsFresh(w, n) /\ OpenIsMarked(w, n) /\ AllIsMarked(w, n))'
  <2>1. LoadIsFresh(w, n) /\ OpenIsMarked(w, n) /\ AllIsMarked(w, n)
    BY <1>5, <1>6 DEF ListInv, CallsKnow
  <2>2. asking'[w][n] = asking[w][n]
    OBVIOUS
  <2>3. LoadIsFresh(w, n)'
    <3>1. SUFFICES ASSUME asking[w][n].kind = "load", asking[w][n].step = "done"
                   PROVE  TellsReads(w, asking[w][n].items, asking[w][n].reads)'
      BY <2>2 DEF LoadIsFresh
    <3>2. asking[w][n].items \subseteq 1..arisen
      BY <1>3, <1>6, <3>1, CallParts
    <3>3. TellsReads(w, asking[w][n].items, asking[w][n].reads)
      BY <2>1, <3>1 DEF LoadIsFresh
    <3>4. QED BY <1>2, <2>2, <3>2, <3>3 DEF TellsReads
  <2>4. OpenIsMarked(w, n)'
    BY <1>4, <2>1, <2>2 DEF OpenIsMarked
  <2>5. AllIsMarked(w, n)'
    <3>1. SUFFICES ASSUME asking[w][n].kind = "all" PROVE AllIsMarked(w, n)'
      BY <2>2 DEF AllIsMarked
    <3>2. CASE asking[w][n].step = "sent"
      <4>1. TellsReads(w, items[w], asking[w][n].reads)
        BY <2>1, <3>1, <3>2 DEF AllIsMarked
      <4>2. TellsReads(w, items[w], asking[w][n].reads)'
        BY <1>2, <1>3, <2>2, <4>1 DEF TellsReads
      <4>3. QED BY <2>1, <2>2, <3>1, <3>2, <4>2 DEF AllIsMarked
    <3>3. CASE asking[w][n].step # "sent"
      BY <1>4, <2>1, <2>2, <3>1, <3>3 DEF AllIsMarked
    <3>4. QED BY <3>2, <3>3
  <2>6. QED BY <2>3, <2>4, <2>5
<1>7. CallsKnow(w)'
  BY <1>6 DEF CallsKnow
<1>8. ShownAsRead(w)'
  <2>1. SUFFICES ASSUME \A n \in Lines : asking[w][n].kind \notin {"load", "all"} PROVE ShownIsRead(w)'
    BY DEF ShownAsRead
  <2>2. ShownIsRead(w)
    BY <1>5, <2>1 DEF ListInv, ShownAsRead
  <2>3. \A e : Opening(w, e)' <=> Opening(w, e)
    BY DEF Opening
  <2>4. QED BY <1>4, <2>2, <2>3 DEF ShownIsRead
<1>9. QED BY <1>7, <1>8

\* A list changes: the other keeps what it had.
LEMMA Turned ==
  ASSUME InboxInv, NEW w \in Lists, NEW i, NEW r, NEW a, NEW x, NEW m, NEW b, Turn(w, i, r, a, x, m, b), reads' = reads,
         i \subseteq 1..arisen, m \in BOOLEAN, b \in BOOLEAN, a = [n \in Lines |-> a[n]], \A n \in Lines : CallIsOne(a[n])
  PROVE  /\ items'[w] = i /\ readHere'[w] = r /\ asking'[w] = a /\ muddled'[w] = m /\ elsewhere'[w] = b
         /\ UNCHANGED <<lists, arisen>> /\ Newest50' = Newest50
         /\ ListInv(w)' => InboxInv'
<1>1. /\ items' = [items EXCEPT ![w] = i] /\ readHere' = [readHere EXCEPT ![w] = r] /\ asking' = [asking EXCEPT ![w] = a]
      /\ expired' = [expired EXCEPT ![w] = x] /\ muddled' = [muddled EXCEPT ![w] = m] /\ elsewhere' = [elsewhere EXCEPT ![w] = b]
      /\ UNCHANGED <<lists, arisen>>
  BY DEF Turn
<1>2. InboxTypes /\ \A v \in Lists : ListInv(v)
  BY DEF InboxInv
<1>3. /\ items' = [v \in Lists |-> items'[v]] /\ items'[w] = i /\ \A v \in Lists \ {w} : items'[v] = items[v]
      /\ readHere' = [v \in Lists |-> readHere'[v]] /\ readHere'[w] = r /\ \A v \in Lists \ {w} : readHere'[v] = readHere[v]
  BY <1>1, <1>2 DEF InboxTypes
<1>4. /\ asking' = [v \in Lists |-> asking'[v]] /\ asking'[w] = a /\ \A v \in Lists \ {w} : asking'[v] = asking[v]
      /\ expired' = [v \in Lists |-> expired'[v]]
  BY <1>1, <1>2 DEF InboxTypes
<1>5. muddled' \in [Lists -> BOOLEAN] /\ muddled'[w] = m /\ \A v \in Lists \ {w} : muddled'[v] = muddled[v]
  BY <1>1, <1>2 DEF InboxTypes
<1>6. elsewhere' \in [Lists -> BOOLEAN] /\ elsewhere'[w] = b /\ \A v \in Lists \ {w} : elsewhere'[v] = elsewhere[v]
  BY <1>1, <1>2 DEF InboxTypes
<1>7. Newest50' = Newest50
  BY <1>1 DEF Newest50
<1>8. InboxTypes'
  <2>1. ASSUME NEW v \in Lists
        PROVE  /\ items'[v] \subseteq 1..arisen /\ asking'[v] = [n \in Lines |-> asking'[v][n]]
               /\ \A n \in Lines : CallIsOne(asking'[v][n])
    <3>1. CASE v = w
      BY <1>3, <1>4, <3>1
    <3>2. CASE v # w
      BY <1>2, <1>3, <1>4, <2>1, <3>2 DEF InboxTypes
    <3>3. QED BY <3>1, <3>2
  <2>2. \A v \in Lists, n \in Lines : CallIsOne(asking[v][n])'
    <3>1. SUFFICES ASSUME NEW v \in Lists, NEW n \in Lines PROVE CallIsOne(asking[v][n])'
      OBVIOUS
    <3>2. arisen' = arisen
      BY <1>1
    <3>3. CallIsOne(asking'[v][n])
      BY <2>1
    <3>4. QED BY <3>2, <3>3 DEF CallIsOne
  <2>3. lists' \subseteq Lists /\ arisen' \in Nat
    BY <1>1, <1>2 DEF InboxTypes
  <2>4. QED BY <1>1, <1>3, <1>4, <1>5, <1>6, <2>1, <2>2, <2>3 DEF InboxTypes
<1>9. ASSUME NEW v \in Lists \ {w} PROVE ListInv(v)'
  <2>1. /\ items'[v] = items[v] /\ readHere'[v] = readHere[v] /\ asking'[v] = asking[v] /\ muddled'[v] = muddled[v]
        /\ elsewhere'[v] = elsewhere[v]
    BY <1>3, <1>4, <1>5, <1>6, <1>9
  <2>2. \A e \in 1..arisen : e \in Newest50' => e \in Newest50
    BY <1>7
  <2>3. QED BY <1>2, <2>1, <2>2, WorldKeeps
<1>10. QED BY <1>1, <1>3, <1>4, <1>5, <1>6, <1>7, <1>8, <1>9 DEF InboxInv

\* A silent call is of no kind.
LEMMA SilentIsNone ==
  ASSUME InboxTypes, NEW w \in Lists, NEW n \in Lines
  PROVE  /\ asking[w][n] = Silent <=> asking[w][n].kind = "none"
         /\ asking[w][n] = Silent \/ asking[w][n].kind \in {"load", "open", "all"}
         /\ asking[w][n].kind \in {"open", "all"} => asking[w][n].step \in {"sent", "done"}
         /\ asking[w][n].kind \in {"load", "open", "all"} =>
              asking[w][n].step \in {"sent", "listed", "done"} /\ asking[w][n].items \subseteq 1..arisen
              /\ asking[w][n] = [kind |-> asking[w][n].kind, of |-> asking[w][n].of, step |-> asking[w][n].step,
                                 items |-> asking[w][n].items, reads |-> asking[w][n].reads]
<1>1. CallIsOne(asking[w][n])
  BY DEF InboxTypes
<1>2. QED BY <1>1, CallParts

\* The lists as they open satisfy the invariant.
LEMMA InboxInitInv == InboxInit => InboxInv
<1> SUFFICES ASSUME InboxInit PROVE InboxInv
  OBVIOUS
<1> DEFINE q == [kind |-> "load", of |-> 0, step |-> "sent", items |-> {}, reads |-> {}]
<1>1. \A w \in Lists : Question(w, "load", 0) = q
  BY DEF Question
<1>2. asking = [w \in Lists |-> [n \in Lines |-> IF n = 1 /\ w \in lists THEN q ELSE Silent]]
  BY <1>1 DEF InboxInit
<1>3. CallIsOne(q) /\ CallIsOne(Silent)
  BY DEF CallIsOne
<1>4. q.kind = "load" /\ q.step = "sent" /\ Silent.kind = "none"
  BY DEF Silent
<1> HIDE DEF q
<1>5. \A w \in Lists, n \in Lines : (n = 1 /\ asking[w][n] = q) \/ asking[w][n] = Silent
  BY <1>2
<1>6. asking = [w \in Lists |-> asking[w]] /\ \A w \in Lists : asking[w] = [n \in Lines |-> asking[w][n]]
  BY <1>2
<1>7. /\ items = [w \in Lists |-> {}] /\ readHere = [w \in Lists |-> {}] /\ expired = [w \in Lists |-> FALSE]
      /\ muddled = [w \in Lists |-> FALSE] /\ elsewhere = [w \in Lists |-> FALSE] /\ lists \subseteq Lists /\ arisen = 0
  <2>1. lists \in {{"bell"}, Lists} /\ arisen = 0 /\ items = [w \in Lists |-> {}] /\ readHere = items
    BY DEF InboxInit
  <2>2. expired = [w \in Lists |-> FALSE] /\ muddled = expired /\ elsewhere = expired
    BY DEF InboxInit
  <2>3. lists \subseteq Lists
    BY <2>1 DEF Lists
  <2>4. QED BY <2>1, <2>2, <2>3
<1>8. InboxTypes
  BY <1>3, <1>5, <1>6, <1>7 DEF InboxTypes
<1>9. ASSUME NEW w \in Lists PROVE ListInv(w)
  <2>1. CallsApart(w) /\ CallsKnow(w)
    BY <1>4, <1>5, <1>9 DEF CallsApart, CallsKnow, LoadIsFresh, OpenIsMarked, AllIsMarked
  <2>2. ShownAsRead(w)
    BY <1>7, <1>9 DEF ShownAsRead, ShownIsRead, Listed
  <2>3. QED BY <2>1, <2>2 DEF ListInv
<1>10. QED BY <1>8, <1>9 DEF InboxInv

\* New notifications push older ones out of the list.
LEMMA ArisingKeeps ==
  ASSUME InboxInv, NotificationArises
  PROVE  InboxInv'
<1>1. /\ UNCHANGED <<lists, reads, items, readHere, asking, expired, muddled, elsewhere>>
      /\ arisen' \in {arisen, arisen + 1} /\ arisen \in Nat
  BY DEF NotificationArises, InboxInv, InboxTypes
<1>2. \A e \in 1..arisen : e \in Newest50' => e \in Newest50
  <2>1. \A e \in 1..arisen, a \in Nat : e + Window > a + 1 => e + Window > a
    BY WindowAssumption
  <2>2. SUFFICES ASSUME NEW e \in 1..arisen, e \in Newest50' PROVE e \in Newest50
    OBVIOUS
  <2>3. e + Window > arisen'
    BY <1>1, <2>2 DEF Newest50
  <2>4. QED BY <1>1, <2>1, <2>2, <2>3 DEF Newest50
<1>3. InboxTypes'
  <2>1. 1..arisen \subseteq 1..arisen'
    BY <1>1
  <2>2. \A w \in Lists, n \in Lines : CallIsOne(asking[w][n])'
    BY <1>1, <2>1 DEF InboxInv, InboxTypes, CallIsOne
  <2>3. \A w \in Lists : items'[w] \subseteq 1..arisen'
    BY <1>1, <2>1 DEF InboxInv, InboxTypes
  <2>4. QED BY <1>1, <2>2, <2>3 DEF InboxInv, InboxTypes
<1>4. \A w \in Lists : ListInv(w)'
  BY <1>1, <1>2, WorldKeeps DEF InboxInv
<1>5. QED BY <1>3, <1>4 DEF InboxInv

\* A call is sent in place of a silent one; unless it crosses others of its list, it is alone
\* or opens a notification beside others that are opened.
LEMMA Sending ==
  ASSUME InboxInv, NEW w \in Lists, NEW kind \in {"load", "open", "all"}, NEW e, NEW r, Send(w, kind, e, r)
  PROVE  \E s \in Lines :
           /\ asking[w][s] = Silent /\ asking'[w][s] = Question(w, kind, e)
           /\ \A n \in Lines \ {s} : asking'[w][n] = asking[w][n]
           /\ items'[w] = items[w] /\ readHere'[w] = r /\ reads' = reads /\ Newest50' = Newest50
           /\ kind # "load" => elsewhere'[w] = elsewhere[w]
           /\ ListInv(w)' => InboxInv'
           /\ ~muddled'[w] => \A n \in Lines \ {s} :
                asking[w][n] = Silent \/ (kind = "open" /\ asking[w][n].kind = "open") \/ (kind = "all" /\ asking[w][n].kind = "all")
           /\ kind # "load" /\ ~muddled'[w] => ~muddled[w]
<1>1. PICK s \in Lines : s = (CHOOSE n \in Lines : asking[w][n] = Silent) /\ asking[w][s] = Silent
  BY DEF Send
<1>2. InboxTypes
  BY DEF InboxInv
<1>3. PICK a : a = [asking[w] EXCEPT ![s] = Question(w, kind, e)]
  OBVIOUS
<1>4. asking[w] = [n \in Lines |-> asking[w][n]] /\ \A n \in Lines : CallIsOne(asking[w][n])
  BY <1>2 DEF InboxTypes
<1>5. CallIsOne(Question(w, kind, e))
  <2>1. (IF kind = "all" THEN items[w] ELSE {}) \subseteq 1..arisen
    BY <1>2 DEF InboxTypes
  <2>2. QED BY <2>1 DEF CallIsOne, Question
<1>6. a = [n \in Lines |-> a[n]] /\ a[s] = Question(w, kind, e) /\ \A n \in Lines \ {s} : a[n] = asking[w][n]
  BY <1>3, <1>4
<1>7. \A n \in Lines : CallIsOne(a[n])
  BY <1>4, <1>5, <1>6
<1>8. PICK m \in BOOLEAN : m = (Crosses(w, kind) \/ (muddled[w] /\ kind # "load"))
  OBVIOUS
<1>9. PICK b \in BOOLEAN : b = (elsewhere[w] /\ kind # "load")
  OBVIOUS
<1>10. Turn(w, items[w], r, a, expired[w], m, b) /\ reads' = reads
  BY <1>1, <1>3, <1>8, <1>9 DEF Send
<1>11. items[w] \subseteq 1..arisen /\ elsewhere[w] \in BOOLEAN /\ muddled[w] \in BOOLEAN
  BY <1>2 DEF InboxTypes
<1>12. /\ items'[w] = items[w] /\ readHere'[w] = r /\ asking'[w] = a /\ muddled'[w] = m /\ elsewhere'[w] = b
       /\ Newest50' = Newest50 /\ (ListInv(w)' => InboxInv')
  BY <1>6, <1>7, <1>10, <1>11, Turned
<1>13. ASSUME ~m, NEW n \in Lines
       PROVE  asking[w][n] = Silent \/ (kind = "open" /\ asking[w][n].kind = "open") \/ (kind = "all" /\ asking[w][n].kind = "all")
  <2>1. ~Crosses(w, kind)
    BY <1>8, <1>13
  <2>2. asking[w][n].kind \notin CASE kind = "load" -> {"load", "open", "all"} [] kind = "open" -> {"load", "all"}
                      [] OTHER -> {"load", "open"}
    BY <1>13, <2>1 DEF Crosses
  <2>3. asking[w][n] = Silent \/ asking[w][n].kind \in {"load", "open", "all"}
    BY <1>2, SilentIsNone
  <2>4. CASE kind = "load"
    BY <2>2, <2>3, <2>4
  <2>5. CASE kind = "open"
    BY <2>2, <2>3, <2>5
  <2>6. CASE kind = "all"
    BY <2>2, <2>3, <2>6
  <2>7. QED BY <2>4, <2>5, <2>6
<1>14. kind # "load" => b = elsewhere[w] /\ (~m => ~muddled[w])
  BY <1>8, <1>9, <1>11
<1>15. QED BY <1>1, <1>6, <1>10, <1>12, <1>13, <1>14

\* A load begins.
LEMMA PollingKeeps ==
  ASSUME InboxInv, NEW w \in Lists, PollNotifications(w)
  PROVE  InboxInv'
<1>1. Send(w, "load", 0, readHere[w])
  BY DEF PollNotifications
<1>2. PICK s \in Lines :
        /\ asking'[w][s] = Question(w, "load", 0) /\ \A n \in Lines \ {s} : asking'[w][n] = asking[w][n]
        /\ ~muddled'[w] => \A n \in Lines \ {s} : asking[w][n] = Silent
        /\ ListInv(w)' => InboxInv'
  BY <1>1, Sending
<1>3. asking'[w][s].kind = "load" /\ asking'[w][s].step = "sent" /\ Silent.kind = "none"
  BY <1>2 DEF Question, Silent
<1>4. ~muddled'[w] => \A n \in Lines \ {s} : asking'[w][n] = Silent /\ asking'[w][n].kind = "none"
  BY <1>2, <1>3
<1>5. CallsApart(w)' /\ CallsKnow(w)' /\ ShownAsRead(w)'
  BY <1>3, <1>4 DEF CallsApart, CallsKnow, LoadIsFresh, OpenIsMarked, AllIsMarked, ShownAsRead
<1>6. QED BY <1>2, <1>5 DEF ListInv

\* The bell starts afresh: one load takes the place of those under way.
LEMMA RestartKeeps ==
  ASSUME InboxInv, NEW w \in Lists, NEW s \in Lines, NEW i, NEW r, NEW x, i \subseteq 1..arisen, reads' = reads,
         Turn(w, i, r, [Afresh(w) EXCEPT ![s] = Question(w, "load", 0)], x,
              \E m \in Lines : asking[w][m].kind \in {"open", "all"}, FALSE)
  PROVE  InboxInv'
<1> DEFINE q == [kind |-> "load", of |-> 0, step |-> "sent", items |-> {}, reads |-> {}]
<1>1. Question(w, "load", 0) = q
  BY DEF Question
<1>2. q.kind = "load" /\ q.step = "sent" /\ Silent.kind = "none" /\ CallIsOne(q) /\ CallIsOne(Silent)
  BY DEF Silent, CallIsOne
<1> HIDE DEF q
<1>3. PICK a : a = [Afresh(w) EXCEPT ![s] = q]
  OBVIOUS
<1>4. /\ a = [n \in Lines |-> a[n]] /\ a[s] = q
      /\ \A n \in Lines \ {s} : a[n] = IF asking[w][n].kind = "load" THEN Silent ELSE asking[w][n]
  BY <1>3 DEF Afresh
<1>5. InboxTypes
  BY DEF InboxInv
<1>6. \A n \in Lines : CallIsOne(a[n])
  BY <1>2, <1>4, <1>5 DEF InboxTypes
<1>7. PICK m \in BOOLEAN : m = (\E n \in Lines : asking[w][n].kind \in {"open", "all"})
  OBVIOUS
<1>8. Turn(w, i, r, a, x, m, FALSE)
  BY <1>1, <1>3, <1>7
<1>9. asking'[w] = a /\ muddled'[w] = m /\ (ListInv(w)' => InboxInv')
  <2>1. m \in BOOLEAN /\ FALSE \in BOOLEAN
    BY <1>7
  <2>2. a = [n \in Lines |-> a[n]]
    BY <1>4
  <2>3. QED BY <1>6, <1>8, <2>1, <2>2, Turned
<1>10. ASSUME ~m PROVE \A n \in Lines \ {s} : asking'[w][n] = Silent
  <2>1. \A n \in Lines : asking[w][n] = Silent \/ asking[w][n].kind = "load"
    BY <1>5, <1>7, <1>10, SilentIsNone
  <2>2. QED BY <1>2, <1>4, <1>9, <2>1
<1>11. asking'[w][s].kind = "load" /\ asking'[w][s].step = "sent"
  BY <1>2, <1>4, <1>9
<1>12. CallsApart(w)' /\ CallsKnow(w)' /\ ShownAsRead(w)'
  BY <1>2, <1>9, <1>10, <1>11 DEF CallsApart, CallsKnow, LoadIsFresh, OpenIsMarked, AllIsMarked, ShownAsRead
<1>13. QED BY <1>9, <1>12 DEF ListInv

\* Opening a notification keeps the invariant.
LEMMA OpeningMarks ==
  ASSUME InboxInv, NEW w \in Lists, NEW e \in items[w], handleOpenNotification(w, e)
  PROVE  InboxInv'
<1>1. Send(w, "open", e, readHere[w] \cup {e}) /\ e \notin readHere[w]
  BY DEF handleOpenNotification
<1>2. PICK s \in Lines :
        /\ asking[w][s] = Silent /\ asking'[w][s] = Question(w, "open", e)
        /\ \A n \in Lines \ {s} : asking'[w][n] = asking[w][n]
        /\ items'[w] = items[w] /\ readHere'[w] = readHere[w] \cup {e} /\ reads' = reads /\ Newest50' = Newest50
        /\ elsewhere'[w] = elsewhere[w] /\ (ListInv(w)' => InboxInv')
        /\ ~muddled'[w] => ~muddled[w] /\ \A n \in Lines \ {s} : asking[w][n] = Silent \/ asking[w][n].kind = "open"
  BY <1>1, Sending
<1>3. asking'[w][s].kind = "open" /\ asking'[w][s].step = "sent" /\ asking'[w][s].of = e /\ asking[w][s].kind = "none"
  BY <1>2 DEF Question, Silent
<1>4. SUFFICES ASSUME ~muddled'[w], ~muddled[w] PROVE CallsApart(w)' /\ CallsKnow(w)' /\ ShownAsRead(w)'
  BY <1>2 DEF ListInv, CallsApart, CallsKnow, ShownAsRead
<1>5. \A n \in Lines : /\ asking[w][n] = Silent \/ asking[w][n].kind = "open"
                       /\ asking[w][n] = Silent => asking[w][n].kind = "none"
  BY <1>2, <1>4 DEF Silent
<1>l. ListInv(w)
  BY DEF InboxInv
<1>6. \A n \in Lines : asking[w][n].kind = "open" => asking[w][n].of # e
  BY <1>1, <1>4, <1>l DEF ListInv, CallsKnow, OpenIsMarked
<1>7. CallsApart(w)'
  BY <1>2, <1>3, <1>4, <1>5, <1>6, <1>l DEF ListInv, CallsApart
<1>8. Listed(w)' = Listed(w)
  BY <1>2 DEF Listed
<1>9. ShownIsRead(w)
  BY <1>4, <1>5, <1>l DEF ListInv, ShownAsRead
<1>10. CallsKnow(w)'
  <2>1. ASSUME NEW n \in Lines \ {s} PROVE (LoadIsFresh(w, n) /\ OpenIsMarked(w, n) /\ AllIsMarked(w, n))'
    <3>1. asking'[w][n] = asking[w][n] /\ asking[w][n].kind \in {"none", "open"} /\ OpenIsMarked(w, n)
      BY <1>2, <1>4, <1>5, <1>l, <2>1 DEF ListInv, CallsKnow
    <3>2. QED BY <1>2, <1>8, <3>1 DEF LoadIsFresh, OpenIsMarked, AllIsMarked
  <2>2. (LoadIsFresh(w, s) /\ OpenIsMarked(w, s) /\ AllIsMarked(w, s))'
    BY <1>1, <1>2, <1>3, <1>8, <1>9 DEF LoadIsFresh, OpenIsMarked, AllIsMarked, ShownIsRead
  <2>3. QED BY <2>1, <2>2 DEF CallsKnow
<1>11. ShownAsRead(w)'
  <2>1. \A d : Opening(w, d)' <=> Opening(w, d) \/ d = e
    BY <1>2, <1>3 DEF Opening
  <2>2. ShownIsRead(w)'
    BY <1>2, <1>8, <1>9, <2>1 DEF ShownIsRead
  <2>3. QED BY <2>2 DEF ShownAsRead
<1>12. QED BY <1>7, <1>10, <1>11

\* Marking everything as read keeps the invariant.
LEMMA MarkingAll ==
  ASSUME InboxInv, NEW w \in Lists, handleMarkAllRead(w)
  PROVE  InboxInv'
<1>1. Send(w, "all", 0, items[w]) /\ \A n \in Lines : asking[w][n].kind # "all"
  BY DEF handleMarkAllRead
<1>2. PICK s \in Lines :
        /\ asking[w][s] = Silent /\ asking'[w][s] = Question(w, "all", 0)
        /\ \A n \in Lines \ {s} : asking'[w][n] = asking[w][n]
        /\ items'[w] = items[w] /\ readHere'[w] = items[w] /\ reads' = reads /\ Newest50' = Newest50
        /\ elsewhere'[w] = elsewhere[w] /\ (ListInv(w)' => InboxInv')
        /\ ~muddled'[w] => ~muddled[w] /\ \A n \in Lines \ {s} : asking[w][n] = Silent
  BY <1>1, Sending
<1>3. /\ asking'[w][s].kind = "all" /\ asking'[w][s].step = "sent" /\ asking'[w][s].items = items[w]
      /\ asking'[w][s].reads = readHere[w]
  BY <1>2 DEF Question
<1>4. SUFFICES ASSUME ~muddled'[w], ~muddled[w] PROVE CallsApart(w)' /\ CallsKnow(w)' /\ ShownAsRead(w)'
  BY <1>2 DEF ListInv, CallsApart, CallsKnow, ShownAsRead
<1>5. \A n \in Lines : asking[w][n].kind = "none"
  BY <1>2, <1>4 DEF Silent
<1>6. \A n \in Lines \ {s} : asking'[w][n] = Silent /\ asking'[w][n].kind = "none"
  BY <1>2, <1>4, <1>5
<1>7. TellsReads(w, items[w], readHere[w])
  <2>1. ShownIsRead(w)
    BY <1>4, <1>5 DEF InboxInv, ListInv, ShownAsRead
  <2>2. \A e : ~Opening(w, e)
    BY <1>5 DEF Opening
  <2>3. QED BY <2>1, <2>2 DEF ShownIsRead, TellsReads, Listed
<1>8. Listed(w)' = Listed(w)
  BY <1>2 DEF Listed
<1>9. CallsApart(w)'
  BY <1>6 DEF CallsApart
<1>10. CallsKnow(w)'
  <2>1. TellsReads(w, items[w], asking[w][s].reads)'
    BY <1>2, <1>3, <1>7 DEF TellsReads
  <2>2. (LoadIsFresh(w, s) /\ OpenIsMarked(w, s) /\ AllIsMarked(w, s))'
    BY <1>2, <1>3, <2>1 DEF LoadIsFresh, OpenIsMarked, AllIsMarked
  <2>3. QED BY <1>6, <2>2 DEF CallsKnow, LoadIsFresh, OpenIsMarked, AllIsMarked
<1>11. ShownAsRead(w)'
  BY <1>3 DEF ShownAsRead
<1>12. QED BY <1>9, <1>10, <1>11

\* The API has answered a call: what it is then.
LEMMA RepliedIs ==
  ASSUME InboxInv, NEW w \in Lists, NEW s \in Lines, NEW c, Replied(w, s, c), CallIsOne(c), reads \subseteq reads',
         elsewhere' \in [Lists -> BOOLEAN], elsewhere'[w] = elsewhere[w],
         \A v \in Lists \ {w} : (reads' = reads /\ elsewhere'[v] = elsewhere[v]) \/ elsewhere'[v]
  PROVE  /\ asking'[w][s] = c /\ \A n \in Lines \ {s} : asking'[w][n] = asking[w][n]
         /\ UNCHANGED <<arisen, items, readHere, muddled>> /\ Newest50' = Newest50
         /\ ListInv(w)' => InboxInv'
<1>1. /\ asking' = [asking EXCEPT ![w] = [asking[w] EXCEPT ![s] = c]]
      /\ UNCHANGED <<lists, arisen, items, readHere, expired, muddled>>
  BY DEF Replied
<1>2. InboxTypes /\ \A v \in Lists : ListInv(v)
  BY DEF InboxInv
<1>3. PICK a : a = [asking[w] EXCEPT ![s] = c]
  OBVIOUS
<1>4. asking[w] = [n \in Lines |-> asking[w][n]] /\ \A n \in Lines : CallIsOne(asking[w][n])
  BY <1>2 DEF InboxTypes
<1>5. a = [n \in Lines |-> a[n]] /\ a[s] = c /\ \A n \in Lines \ {s} : a[n] = asking[w][n]
  BY <1>3, <1>4
<1>6. asking' = [v \in Lists |-> asking'[v]] /\ asking'[w] = a /\ \A v \in Lists \ {w} : asking'[v] = asking[v]
  BY <1>1, <1>2, <1>3 DEF InboxTypes
<1>7. Newest50' = Newest50
  BY <1>1 DEF Newest50
<1>8. InboxTypes'
  <2>1. ASSUME NEW v \in Lists
        PROVE  asking'[v] = [n \in Lines |-> asking'[v][n]] /\ \A n \in Lines : CallIsOne(asking'[v][n])
    <3>1. CASE v = w
      BY <1>4, <1>5, <1>6, <3>1
    <3>2. CASE v # w
      BY <1>2, <1>6, <2>1, <3>2 DEF InboxTypes
    <3>3. QED BY <3>1, <3>2
  <2>2. \A v \in Lists, n \in Lines : CallIsOne(asking[v][n])'
    BY <1>1, <2>1 DEF CallIsOne
  <2>3. QED BY <1>1, <1>2, <1>6, <2>1, <2>2 DEF InboxTypes
<1>9. ASSUME NEW v \in Lists \ {w} PROVE ListInv(v)'
  <2>1. /\ items'[v] = items[v] /\ readHere'[v] = readHere[v] /\ asking'[v] = asking[v] /\ muddled'[v] = muddled[v]
        /\ ((reads' = reads /\ elsewhere'[v] = elsewhere[v]) \/ elsewhere'[v])
    BY <1>1, <1>6, <1>9
  <2>2. \A e \in 1..arisen : e \in Newest50' => e \in Newest50
    BY <1>7
  <2>3. QED BY <1>2, <2>1, <2>2, WorldKeeps
<1>10. QED BY <1>1, <1>5, <1>6, <1>7, <1>8, <1>9 DEF InboxInv

\* The API answers a call.
LEMMA AnsweringKeeps ==
  ASSUME InboxInv, NEW w \in Lists, NEW s \in Lines,
         buildBusinessNotifications(w, s) \/ markBusinessNotificationRead(w, s) \/ markAllBusinessNotificationsRead(w, s)
  PROVE  InboxInv'
<1> DEFINE c == asking[w][s]
<1>t. InboxTypes /\ ListInv(w)
  BY DEF InboxInv
<1>1. Newest50 \subseteq 1..arisen
  BY DEF Newest50
<1>2. c.kind \in {"load", "open", "all"}
  BY DEF buildBusinessNotifications, markBusinessNotificationRead, markAllBusinessNotificationsRead
<1>3. PICK step, rows, marks :
        /\ Replied(w, s, [kind |-> c.kind, of |-> c.of, step |-> step, items |-> rows, reads |-> marks])
        /\ step \in IF c.kind = "load" THEN {"listed", "done"} ELSE {"done"}
        /\ rows \subseteq 1..arisen
        /\ c.kind = "load" => reads' = reads /\ elsewhere' = elsewhere /\ (step = "done" => marks = reads \cap rows)
        /\ c.kind # "load" => elsewhere' = [v \in Lists |-> elsewhere[v] \/ v # w] /\ c.step = "sent"
        /\ c.kind = "open" => reads' = reads \cup {c.of}
        /\ c.kind = "all" => reads' = reads \cup Newest50 /\ rows = c.items
  <2>1. c = [kind |-> c.kind, of |-> c.of, step |-> c.step, items |-> c.items, reads |-> c.reads] /\ c.items \subseteq 1..arisen
    BY <1>t, <1>2, SilentIsNone
  <2>2. CASE buildBusinessNotifications(w, s)
    <3>1. c.kind = "load" /\ reads' = reads /\ elsewhere' = elsewhere
      BY <2>2 DEF buildBusinessNotifications
    <3>2. CASE Replied(w, s, [c EXCEPT !.step = "listed", !.items = Newest50])
      <4>1. ASSUME NEW d, d = [c EXCEPT !.step = "listed", !.items = Newest50]
            PROVE  d = [kind |-> c.kind, of |-> c.of, step |-> "listed", items |-> Newest50, reads |-> c.reads]
        BY <2>1, <4>1
      <4>2. [c EXCEPT !.step = "listed", !.items = Newest50]
              = [kind |-> c.kind, of |-> c.of, step |-> "listed", items |-> Newest50, reads |-> c.reads]
        BY <4>1, Zenon
      <4> WITNESS "listed", Newest50, c.reads
      <4>3. QED BY <1>1, <3>1, <3>2, <4>2
    <3>3. CASE Replied(w, s, [c EXCEPT !.step = "done", !.reads = reads \cap c.items])
      <4>1. ASSUME NEW d, d = [c EXCEPT !.step = "done", !.reads = reads \cap c.items]
            PROVE  d = [kind |-> c.kind, of |-> c.of, step |-> "done", items |-> c.items, reads |-> reads \cap c.items]
        BY <2>1, <4>1
      <4>2. [c EXCEPT !.step = "done", !.reads = reads \cap c.items]
              = [kind |-> c.kind, of |-> c.of, step |-> "done", items |-> c.items, reads |-> reads \cap c.items]
        BY <4>1, Zenon
      <4> WITNESS "done", c.items, reads \cap c.items
      <4>3. QED BY <2>1, <3>1, <3>3, <4>2
    <3>4. QED BY <2>2, <3>2, <3>3 DEF buildBusinessNotifications
  <2>3. CASE markBusinessNotificationRead(w, s) \/ markAllBusinessNotificationsRead(w, s)
    <3>1. /\ Replied(w, s, [c EXCEPT !.step = "done"]) /\ c.kind \in {"open", "all"} /\ c.step = "sent"
          /\ elsewhere' = [v \in Lists |-> elsewhere[v] \/ v # w]
          /\ c.kind = "open" => reads' = reads \cup {c.of}
          /\ c.kind = "all" => reads' = reads \cup Newest50
      BY <2>3 DEF markBusinessNotificationRead, markAllBusinessNotificationsRead, Marked
    <3>2. [c EXCEPT !.step = "done"] = [kind |-> c.kind, of |-> c.of, step |-> "done", items |-> c.items, reads |-> c.reads]
      BY <2>1
    <3> WITNESS "done", c.items, c.reads
    <3>3. QED BY <2>1, <3>1, <3>2
  <2>4. QED BY <2>2, <2>3
<1> DEFINE answer == [kind |-> c.kind, of |-> c.of, step |-> step, items |-> rows, reads |-> marks]
<1>4. CallIsOne(answer)
  BY <1>2, <1>3 DEF CallIsOne
<1>5. elsewhere' \in [Lists -> BOOLEAN] /\ elsewhere'[w] = elsewhere[w]
      /\ \A v \in Lists \ {w} : (reads' = reads /\ elsewhere'[v] = elsewhere[v]) \/ elsewhere'[v]
  <2>1. elsewhere \in [Lists -> BOOLEAN]
    BY <1>t DEF InboxTypes
  <2>2. CASE elsewhere' = elsewhere /\ reads' = reads
    BY <2>1, <2>2
  <2>3. CASE elsewhere' = [v \in Lists |-> elsewhere[v] \/ v # w]
    BY <2>1, <2>3
  <2>4. QED BY <1>2, <1>3, <2>2, <2>3
<1>6. reads \subseteq reads'
  BY <1>2, <1>3
<1>7. /\ asking'[w][s] = answer /\ \A n \in Lines \ {s} : asking'[w][n] = asking[w][n]
      /\ UNCHANGED <<arisen, items, readHere, muddled>> /\ Newest50' = Newest50
      /\ ListInv(w)' => InboxInv'
  BY <1>3, <1>4, <1>5, <1>6, RepliedIs
<1>8. /\ asking'[w][s].kind = c.kind /\ asking'[w][s].of = c.of /\ asking'[w][s].step = step
      /\ asking'[w][s].items = rows /\ asking'[w][s].reads = marks
  BY <1>7
<1>9. Listed(w)' = Listed(w)
  BY <1>7 DEF Listed
<1> HIDE DEF answer
<1>10. SUFFICES ASSUME ~muddled[w] PROVE CallsApart(w)' /\ CallsKnow(w)' /\ ShownAsRead(w)'
  BY <1>7 DEF ListInv, CallsApart, CallsKnow, ShownAsRead
<1>11. \A n \in Lines : asking[w][n] = Silent <=> asking[w][n].kind = "none"
  BY <1>t, SilentIsNone
<1>12. \A n \in Lines : asking'[w][n].kind = asking[w][n].kind /\ asking'[w][n].of = asking[w][n].of
  BY <1>7, <1>8
<1>13. \A n, m \in Lines : n # m /\ asking[w][n] # Silent /\ asking[w][m] # Silent =>
         asking[w][n].kind = "open" /\ asking[w][m].kind = "open" /\ asking[w][n].of # asking[w][m].of
  BY <1>t, <1>10 DEF ListInv, CallsApart
<1>14. CallsApart(w)'
  <2>1. ASSUME NEW n \in Lines, NEW m \in Lines, n # m, asking'[w][n] # Silent, asking'[w][m] # Silent
        PROVE  asking'[w][n].kind = "open" /\ asking'[w][m].kind = "open" /\ asking'[w][n].of # asking'[w][m].of
    <3>1. asking[w][n] # Silent /\ asking[w][m] # Silent
      <4>1. \A k \in Lines : asking[w][k] = Silent => asking'[w][k] = Silent
        BY <1>2, <1>7, <1>11
      <4>2. QED BY <2>1, <4>1
    <3>2. QED BY <1>12, <1>13, <2>1, <3>1
  <2>2. QED BY <2>1 DEF CallsApart
<1>15. \A n \in Lines : LoadIsFresh(w, n) /\ OpenIsMarked(w, n) /\ AllIsMarked(w, n)
  BY <1>t, <1>10 DEF ListInv, CallsKnow
<1>16. CASE c.kind = "load"
  <2>1. \A n \in Lines \ {s} : asking[w][n] = Silent /\ asking[w][n].kind = "none"
    BY <1>2, <1>11, <1>13, <1>16
  <2>2. \A n \in Lines \ {s} : asking'[w][n].kind = "none"
    BY <1>7, <2>1
  <2>3. step = "done" => TellsReads(w, asking[w][s].items, asking[w][s].reads)'
    BY <1>3, <1>7, <1>8, <1>16 DEF TellsReads
  <2>4. (LoadIsFresh(w, s) /\ OpenIsMarked(w, s) /\ AllIsMarked(w, s))'
    BY <1>8, <1>16, <2>3 DEF LoadIsFresh, OpenIsMarked, AllIsMarked
  <2>5. CallsKnow(w)'
    BY <2>2, <2>4 DEF CallsKnow, LoadIsFresh, OpenIsMarked, AllIsMarked
  <2>6. ShownAsRead(w)'
    BY <1>8, <1>16 DEF ShownAsRead
  <2>7. QED BY <1>14, <2>5, <2>6
<1>17. CASE c.kind = "all"
  <2>1. \A n \in Lines \ {s} : asking[w][n] = Silent /\ asking[w][n].kind = "none"
    BY <1>2, <1>11, <1>13, <1>17
  <2>2. \A n \in Lines \ {s} : asking'[w][n].kind = "none"
    BY <1>7, <2>1
  <2>3. c.items = items[w] /\ readHere[w] = items[w] /\ step = "done" /\ rows = items[w] /\ Listed(w) \subseteq reads'
    BY <1>3, <1>15, <1>17 DEF AllIsMarked, Listed
  <2>4. (LoadIsFresh(w, s) /\ OpenIsMarked(w, s) /\ AllIsMarked(w, s))'
    BY <1>7, <1>8, <1>9, <1>17, <2>3 DEF LoadIsFresh, OpenIsMarked, AllIsMarked
  <2>5. CallsKnow(w)'
    BY <2>2, <2>4 DEF CallsKnow, LoadIsFresh, OpenIsMarked, AllIsMarked
  <2>6. ShownAsRead(w)'
    BY <1>8, <1>17 DEF ShownAsRead
  <2>7. QED BY <1>14, <2>5, <2>6
<1>18. CASE c.kind = "open"
  <2> DEFINE e == c.of
  <2>1. \A n \in Lines \ {s} : asking[w][n].kind \in {"none", "open"} /\ (asking[w][n].kind = "open" => asking[w][n].of # e)
    <3>1. asking[w][s] # Silent
      BY <1>11, <1>18
    <3>2. QED BY <1>11, <1>13, <3>1
  <2>2. reads' = reads \cup {e} /\ e \in readHere[w] /\ step = "done" /\ c.step = "sent"
    BY <1>3, <1>15, <1>18 DEF OpenIsMarked
  <2>3. ASSUME NEW n \in Lines \ {s} PROVE (LoadIsFresh(w, n) /\ OpenIsMarked(w, n) /\ AllIsMarked(w, n))'
    <3>1. OpenIsMarked(w, n) /\ asking'[w][n] = asking[w][n]
      BY <1>7, <1>15, <2>3
    <3>2. QED BY <1>5, <1>7, <1>9, <2>1, <2>2, <2>3, <3>1 DEF LoadIsFresh, OpenIsMarked, AllIsMarked
  <2>4. (LoadIsFresh(w, s) /\ OpenIsMarked(w, s) /\ AllIsMarked(w, s))'
    BY <1>7, <1>8, <1>18, <2>2 DEF LoadIsFresh, OpenIsMarked, AllIsMarked
  <2>5. CallsKnow(w)'
    BY <2>3, <2>4 DEF CallsKnow
  <2>6. ShownIsRead(w)
    <3>1. \A n \in Lines : asking[w][n].kind \notin {"load", "all"}
      BY <1>18, <2>1
    <3>2. QED BY <1>t, <1>10, <3>1 DEF ListInv, ShownAsRead
  <2>7. \A d : Opening(w, d) <=> Opening(w, d)' \/ d = e
    <3>1. asking'[w][s].step # "sent" /\ c.kind = "open" /\ c.step = "sent" /\ \A n \in Lines \ {s} : asking'[w][n] = asking[w][n]
      BY <1>7, <1>8, <1>18, <2>2
    <3>2. QED BY <3>1 DEF Opening
  <2>8. ShownIsRead(w)'
    BY <1>5, <1>7, <1>9, <2>2, <2>6, <2>7 DEF ShownIsRead
  <2>9. QED BY <1>14, <2>5, <2>8 DEF ShownAsRead
<1>19. QED BY <1>2, <1>16, <1>17, <1>18

\* A load or a marking ends, and the list says so.
LEMMA EndingKeeps ==
  ASSUME InboxInv, NEW w \in Lists, NEW s \in Lines, asking[w][s].kind \in {"load", "open", "all"},
         NEW i, NEW r, NEW x, NEW u \in BOOLEAN, Turn(w, i, r, CallOver(w, s), x, u, elsewhere[w]), reads' = reads,
         i \subseteq 1..arisen, ~u => ~muddled[w],
         asking[w][s].kind = "load" /\ ~muddled[w] => TellsReads(w, i, r),
         asking[w][s].kind = "all" /\ ~u => \A e \in i \cap Newest50 : (e \in r => e \in reads) /\ (e \in reads => e \in r \/ elsewhere[w]),
         asking[w][s].kind = "open" =>
           /\ i = items[w]
           /\ \/ r = readHere[w] /\ asking[w][s].step = "done"
              \/ r = readHere[w] \ {asking[w][s].of} /\ (~u => asking[w][s].step = "sent")
  PROVE  InboxInv'
<1>t. InboxTypes /\ ListInv(w)
  BY DEF InboxInv
<1>1. CallIsOne(Silent) /\ Silent.kind = "none"
  BY DEF CallIsOne, Silent
<1>2. PICK a : a = [asking[w] EXCEPT ![s] = Silent]
  OBVIOUS
<1>3. asking[w] = [n \in Lines |-> asking[w][n]] /\ (\A n \in Lines : CallIsOne(asking[w][n])) /\ elsewhere[w] \in BOOLEAN
  BY <1>t DEF InboxTypes
<1>4. a = [n \in Lines |-> a[n]] /\ a[s] = Silent /\ \A n \in Lines \ {s} : a[n] = asking[w][n]
  BY <1>2, <1>3
<1>5. \A n \in Lines : CallIsOne(a[n])
  BY <1>1, <1>3, <1>4
<1>6. Turn(w, i, r, a, x, u, elsewhere[w])
  BY <1>2 DEF CallOver
<1>7. /\ items'[w] = i /\ readHere'[w] = r /\ asking'[w] = a /\ muddled'[w] = u /\ elsewhere'[w] = elsewhere[w]
      /\ Newest50' = Newest50 /\ (ListInv(w)' => InboxInv')
  BY <1>3, <1>4, <1>5, <1>6, Turned
<1>8. asking'[w][s] = Silent /\ \A n \in Lines \ {s} : asking'[w][n] = asking[w][n]
  BY <1>4, <1>7
<1>9. SUFFICES ASSUME ~u, ~muddled[w] PROVE CallsApart(w)' /\ CallsKnow(w)' /\ ShownAsRead(w)'
  BY <1>7 DEF ListInv, CallsApart, CallsKnow, ShownAsRead
<1>10. \A n \in Lines : asking[w][n] = Silent <=> asking[w][n].kind = "none"
  BY <1>t, SilentIsNone
<1>11. \A n, m \in Lines : n # m /\ asking[w][n] # Silent /\ asking[w][m] # Silent =>
         asking[w][n].kind = "open" /\ asking[w][m].kind = "open" /\ asking[w][n].of # asking[w][m].of
  BY <1>t, <1>9 DEF ListInv, CallsApart
<1>12. CallsApart(w)'
  BY <1>8, <1>11 DEF CallsApart
<1>13. CASE asking[w][s].kind \in {"load", "all"}
  <2>1. \A n \in Lines : asking'[w][n].kind = "none"
    BY <1>1, <1>8, <1>10, <1>11, <1>13
  <2>2. CallsKnow(w)'
    BY <2>1 DEF CallsKnow, LoadIsFresh, OpenIsMarked, AllIsMarked
  <2>3. \A e \in i \cap Newest50 : (e \in r => e \in reads) /\ (e \in reads => e \in r \/ elsewhere[w])
    BY <1>9, <1>13 DEF TellsReads
  <2>4. ShownIsRead(w)'
    BY <1>7, <2>3 DEF ShownIsRead, Listed
  <2>5. QED BY <1>12, <2>2, <2>4 DEF ShownAsRead
<1>14. CASE asking[w][s].kind = "open"
  <2> DEFINE e == asking[w][s].of
  <2>1. \A n \in Lines \ {s} : asking[w][n].kind \in {"none", "open"} /\ (asking[w][n].kind = "open" => asking[w][n].of # e)
    <3>1. asking[w][s] # Silent
      BY <1>10, <1>14
    <3>2. QED BY <1>10, <1>11, <3>1
  <2>2. Listed(w)' = Listed(w)
    BY <1>7, <1>14 DEF Listed
  <2>3. \A n \in Lines : OpenIsMarked(w, n)
    BY <1>t, <1>9 DEF ListInv, CallsKnow
  <2>4. CallsKnow(w)'
    <3>1. ASSUME NEW n \in Lines PROVE (LoadIsFresh(w, n) /\ OpenIsMarked(w, n) /\ AllIsMarked(w, n))'
      <4>1. asking'[w][n].kind \in {"none", "open"}
        BY <1>1, <1>8, <2>1
      <4>2. ASSUME asking'[w][n].kind = "open"
            PROVE  /\ asking'[w][n].of \in readHere'[w]
                   /\ asking'[w][n].step = "sent" /\ asking'[w][n].of \in Listed(w) => asking'[w][n].of \notin reads \/ elsewhere[w]
        <5>1. n # s /\ asking'[w][n] = asking[w][n] /\ asking[w][n].of # e
          BY <1>1, <1>8, <2>1, <4>2
        <5>2. QED BY <1>7, <1>14, <2>3, <4>2, <5>1 DEF OpenIsMarked
      <4>3. QED BY <1>7, <2>2, <4>1, <4>2 DEF LoadIsFresh, OpenIsMarked, AllIsMarked
    <3>2. QED BY <3>1 DEF CallsKnow
  <2>5. ShownIsRead(w)
    <3>1. \A n \in Lines : asking[w][n].kind \notin {"load", "all"}
      BY <1>14, <2>1
    <3>2. QED BY <1>t, <1>9, <3>1 DEF ListInv, ShownAsRead
  <2>6. \A d : d # e /\ Opening(w, d) => Opening(w, d)'
    <3>1. SUFFICES ASSUME NEW d, d # e, NEW n \in Lines, asking[w][n].kind = "open", asking[w][n].step = "sent", asking[w][n].of = d
                   PROVE  Opening(w, d)'
      BY DEF Opening
    <3>2. n # s
      BY <3>1
    <3>3. QED BY <1>8, <3>1, <3>2 DEF Opening
  <2>7. CASE r = readHere[w] /\ asking[w][s].step = "done"
    <3>1. \A d : Opening(w, d) => Opening(w, d)'
      <4>1. SUFFICES ASSUME NEW d, NEW n \in Lines, asking[w][n].kind = "open", asking[w][n].step = "sent", asking[w][n].of = d
                     PROVE  Opening(w, d)'
        BY DEF Opening
      <4>2. n # s
        BY <2>7, <4>1
      <4>3. QED BY <1>8, <4>1, <4>2 DEF Opening
    <3>2. ShownIsRead(w)'
      BY <1>7, <2>2, <2>5, <2>7, <3>1 DEF ShownIsRead
    <3>3. QED BY <1>12, <2>4, <3>2 DEF ShownAsRead
  <2>8. CASE r = readHere[w] \ {e} /\ asking[w][s].step = "sent"
    <3>1. e \in Listed(w) => e \notin reads \/ elsewhere[w]
      BY <1>14, <2>3, <2>8 DEF OpenIsMarked
    <3>2. ASSUME NEW d \in Listed(w)
          PROVE  (d \in readHere'[w] => d \in reads \/ Opening(w, d)') /\ (d \in reads => d \in readHere'[w] \/ elsewhere[w])
      <4>1. CASE d = e
        BY <1>7, <2>8, <3>1, <3>2, <4>1
      <4>2. CASE d # e
        BY <1>7, <2>5, <2>6, <2>8, <3>2, <4>2 DEF ShownIsRead
      <4>3. QED BY <4>1, <4>2
    <3>3. ShownIsRead(w)'
      BY <1>7, <2>2, <3>2 DEF ShownIsRead
    <3>4. QED BY <1>12, <2>4, <3>3 DEF ShownAsRead
  <2>9. QED BY <1>9, <1>14, <2>7, <2>8
<1>15. QED BY <1>13, <1>14

\* A load ends, after which the bell may start afresh.
LEMMA LoadEndKeeps ==
  ASSUME InboxInv, NEW w \in Lists, NEW n \in Lines, NEW i, NEW r, NEW x, EndsCall(w, n, i, r, x), asking[w][n].kind = "load",
         i \subseteq 1..arisen, ~muddled[w] => TellsReads(w, i, r)
  PROVE  InboxInv'
<1>1. reads' = reads /\ muddled[w] \in BOOLEAN
  BY DEF EndsCall, InboxInv, InboxTypes
<1>2. CASE w = "bell" /\ expired[w] # x
  <2>1. Turn(w, i, r, [Afresh(w) EXCEPT ![n] = Question(w, "load", 0)], x,
             \E m \in Lines : asking[w][m].kind \in {"open", "all"}, FALSE)
    BY <1>2 DEF EndsCall
  <2>2. QED BY <1>1, <2>1, RestartKeeps
<1>3. CASE ~(w = "bell" /\ expired[w] # x)
  <2>1. Turn(w, i, r, CallOver(w, n), x, muddled[w], elsewhere[w])
    BY <1>3 DEF EndsCall
  <2>2. asking[w][n].kind # "open" /\ asking[w][n].kind # "all" /\ asking[w][n].kind \in {"load", "open", "all"}
    OBVIOUS
  <2>3. QED BY <1>1, <2>1, <2>2, EndingKeeps
<1>4. QED BY <1>2, <1>3

\* Every step of the lists, of the service and of the sender keeps the invariant.
LEMMA InboxStepInv == InboxInv /\ [InboxNext]_inboxVars => InboxInv'
<1> SUFFICES ASSUME InboxInv, [InboxNext]_inboxVars PROVE InboxInv'
  OBVIOUS
<1>t. InboxTypes /\ \A w \in Lists : ListInv(w)
  BY DEF InboxInv
<1>1. CASE UNCHANGED inboxVars
  <2>1. UNCHANGED <<lists, arisen, reads, items, readHere, asking, expired, muddled, elsewhere>>
    BY <1>1 DEF inboxVars
  <2>2. Newest50' = Newest50
    BY <2>1 DEF Newest50
  <2>3. \A w \in Lists : ListInv(w)'
    BY <1>t, <2>1, <2>2, WorldKeeps
  <2>4. InboxTypes'
    BY <1>t, <2>1 DEF InboxTypes, CallIsOne
  <2>5. QED BY <2>3, <2>4 DEF InboxInv
<1>2. CASE NotificationArises
  BY <1>2, ArisingKeeps
<1>3. ASSUME NEW w \in lists,
             \/ PollNotifications(w) \/ RenewNotifications(w) \/ handleMarkAllRead(w)
             \/ \E e \in items[w] : handleOpenNotification(w, e)
             \/ \E n \in Lines :
                  \/ buildBusinessNotifications(w, n) \/ markBusinessNotificationRead(w, n)
                  \/ markAllBusinessNotificationsRead(w, n) \/ resolveNotificationsLoadSuccess(w, n)
                  \/ resolveNotificationsLoadFailure(w, n) \/ MarkSucceeds(w, n) \/ MarkFails(w, n)
      PROVE  InboxInv'
  <2>1. w \in Lists /\ muddled[w] \in BOOLEAN /\ items[w] \subseteq 1..arisen
    BY <1>t, <1>3 DEF InboxTypes
  <2>2. CASE PollNotifications(w)
    BY <2>1, <2>2, PollingKeeps
  <2>3. CASE RenewNotifications(w)
    <3>1. PICK n \in Lines :
            Turn(w, items[w], readHere[w], [Afresh(w) EXCEPT ![n] = Question(w, "load", 0)], expired[w],
                 \E m \in Lines : asking[w][m].kind \in {"open", "all"}, FALSE)
      BY <2>3 DEF RenewNotifications
    <3>2. reads' = reads
      BY <2>3 DEF RenewNotifications
    <3>3. QED BY <2>1, <3>1, <3>2, RestartKeeps
  <2>4. CASE handleMarkAllRead(w)
    BY <2>1, <2>4, MarkingAll
  <2>5. CASE \E e \in items[w] : handleOpenNotification(w, e)
    BY <2>1, <2>5, OpeningMarks
  <2>6. ASSUME NEW n \in Lines,
               buildBusinessNotifications(w, n) \/ markBusinessNotificationRead(w, n) \/ markAllBusinessNotificationsRead(w, n)
        PROVE  InboxInv'
    BY <2>1, <2>6, AnsweringKeeps
  <2>7. ASSUME NEW n \in Lines, resolveNotificationsLoadSuccess(w, n) PROVE InboxInv'
    <3>1. /\ asking[w][n].kind = "load" /\ asking[w][n].step = "done"
          /\ EndsCall(w, n, asking[w][n].items, asking[w][n].reads, FALSE)
      BY <2>7 DEF resolveNotificationsLoadSuccess
    <3>2. asking[w][n].items \subseteq 1..arisen
      BY <1>t, <2>1, <3>1, SilentIsNone
    <3>3. ~muddled[w] => TellsReads(w, asking[w][n].items, asking[w][n].reads)
      BY <1>t, <2>1, <3>1 DEF ListInv, CallsKnow, LoadIsFresh
    <3>4. QED BY <2>1, <3>1, <3>2, <3>3, LoadEndKeeps
  <2>8. ASSUME NEW n \in Lines, resolveNotificationsLoadFailure(w, n) PROVE InboxInv'
    <3>1. PICK x \in BOOLEAN : EndsCall(w, n, {}, {}, x)
      BY <2>8 DEF resolveNotificationsLoadFailure
    <3>2. asking[w][n].kind = "load" /\ TellsReads(w, {}, {})
      BY <2>8 DEF resolveNotificationsLoadFailure, TellsReads
    <3>3. QED BY <2>1, <3>1, <3>2, LoadEndKeeps
  <2>9. ASSUME NEW n \in Lines, MarkSucceeds(w, n) PROVE InboxInv'
    <3>1. /\ asking[w][n].kind \in {"open", "all"} /\ asking[w][n].step = "done" /\ reads' = reads
          /\ Turn(w, items[w], readHere[w], CallOver(w, n), expired[w], muddled[w], elsewhere[w])
      BY <2>9 DEF MarkSucceeds
    <3>2. asking[w][n].kind = "all" /\ ~muddled[w] =>
            \A e \in items[w] \cap Newest50 : (e \in readHere[w] => e \in reads) /\ (e \in reads => e \in readHere[w] \/ elsewhere[w])
      BY <1>t, <2>1, <3>1 DEF ListInv, CallsKnow, AllIsMarked, Listed
    <3>3. asking[w][n].kind # "load" /\ asking[w][n].kind \in {"load", "open", "all"}
      BY <3>1
    <3>4. QED BY <2>1, <3>1, <3>2, <3>3, EndingKeeps
  <2>10. ASSUME NEW n \in Lines, MarkFails(w, n) PROVE InboxInv'
    <3> DEFINE was == Unmarked(w, asking[w][n])
    <3>1. asking[w][n].kind \in {"open", "all"} /\ reads' = reads
      BY <2>10 DEF MarkFails
    <3>2. PICK u \in BOOLEAN : u = (muddled[w] \/ asking[w][n].step = "done")
      OBVIOUS
    <3>3. Turn(w, was.items, was.read, CallOver(w, n), expired[w], u, elsewhere[w])
      BY <2>10, <3>2 DEF MarkFails
    <3>4. /\ asking[w][n].kind = "open" => was.items = items[w] /\ was.read = readHere[w] \ {asking[w][n].of}
          /\ asking[w][n].kind = "all" => was.items = asking[w][n].items /\ was.read = asking[w][n].reads
      BY <3>1 DEF Unmarked
    <3>5. was.items \subseteq 1..arisen /\ asking[w][n].step \in {"sent", "done"}
      BY <1>t, <2>1, <3>1, <3>4, SilentIsNone
    <3> HIDE DEF was
    <3>6. ~u => ~muddled[w] /\ asking[w][n].step = "sent"
      BY <3>2, <3>5
    <3>7. asking[w][n].kind = "all" /\ ~u =>
            \A e \in was.items \cap Newest50 : (e \in was.read => e \in reads) /\ (e \in reads => e \in was.read \/ elsewhere[w])
      BY <1>t, <2>1, <3>4, <3>6 DEF ListInv, CallsKnow, AllIsMarked, TellsReads
    <3>8. asking[w][n].kind # "load" /\ asking[w][n].kind \in {"load", "open", "all"}
      BY <3>1
    <3>9. asking[w][n].kind = "load" /\ ~muddled[w] => TellsReads(w, was.items, was.read)
      BY <3>8
    <3>10. asking[w][n].kind = "open" =>
             /\ was.items = items[w]
             /\ \/ was.read = readHere[w] /\ asking[w][n].step = "done"
                \/ was.read = readHere[w] \ {asking[w][n].of} /\ (~u => asking[w][n].step = "sent")
      BY <3>4, <3>6
    <3>11. ~u => ~muddled[w]
      BY <3>6
    <3>12. was.items \subseteq 1..arisen /\ w \in Lists
      BY <2>1, <3>5
    <3>13. QED BY <3>1, <3>2, <3>3, <3>7, <3>8, <3>9, <3>10, <3>11, <3>12, EndingKeeps
  <2>11. QED BY <1>3, <2>2, <2>3, <2>4, <2>5, <2>6, <2>7, <2>8, <2>9, <2>10
<1>4. QED BY <1>1, <1>2, <1>3 DEF InboxNext

\* What the invariant says of the display.
LEMMA InboxHolds == InboxInv => InboxAgrees
<1> SUFFICES ASSUME InboxInv, NEW w \in lists, AllAnswered(w), ~muddled[w]
             PROVE  \A e \in items[w] \cap Newest50 : (e \in readHere[w] => e \in reads) /\ (e \in reads => e \in readHere[w] \/ elsewhere[w])
  BY DEF InboxAgrees
<1>1. w \in Lists /\ \A n \in Lines : asking[w][n].kind = "none"
  <2>1. w \in Lists /\ \A n \in Lines : asking[w][n] = Silent
    BY DEF AllAnswered, InboxInv, InboxTypes
  <2>2. Silent.kind = "none"
    BY DEF Silent
  <2>3. QED BY <2>1, <2>2
<1>2. ShownIsRead(w)
  BY <1>1 DEF InboxInv, ListInv, ShownAsRead
<1>3. \A e : ~Opening(w, e)
  BY <1>1 DEF Opening
<1>4. QED BY <1>2, <1>3 DEF ShownIsRead, Listed

-----------------------------------------------------------------------------
\* The driver's page.

AtWork == {"ASSIGNED", "EN_ROUTE_PICKUP", "PICKED_UP", "EN_ROUTE_DROP"}
Onward == {"EN_ROUTE_PICKUP", "PICKED_UP", "EN_ROUTE_DROP", "DELIVERED"}
WorkShown == {NoWork} \cup [job : Deliveries, status : AtWork]
HandlerKinds == {"load", "accept", "reject", "toggle", "move", "pod"}
HandlerSteps == {"asked", "done", "load", "shown", "read"}

IsHandler(c) ==
  \/ c = Still
  \/ /\ c = [kind |-> c.kind, job |-> c.job, step |-> c.step, current |-> c.current, was |-> c.was, to |-> c.to,
              offers |-> c.offers, online |-> c.online]
     /\ c.kind \in HandlerKinds /\ c.step \in HandlerSteps
     /\ c.current \in WorkShown /\ c.offers \subseteq Deliveries /\ c.online \in BOOLEAN
     /\ c.kind \in {"accept", "reject", "move", "pod"} => c.job \in Deliveries
     /\ c.kind = "move" => c.to \in Onward
     /\ c.kind # "load" => sheet.loaded
     /\ c.step = "load" => c.kind = "accept"
     /\ c.step = "read" => c.kind \in {"load", "accept", "toggle"}
     /\ c.step = "shown" => c.kind = "toggle"
     /\ c.step = "done" => c.kind # "load"

\* The types, of what is under way too.
DriverTypes ==
  /\ leg \in [Deliveries -> Legs] /\ active \in Deliveries \cup {Nil} /\ online \in BOOLEAN /\ proven \subseteq Deliveries
  /\ sheet = [loaded |-> sheet.loaded, online |-> sheet.online, current |-> sheet.current, offers |-> sheet.offers, proof |-> sheet.proof]
  /\ sheet.loaded \in BOOLEAN /\ sheet.online \in BOOLEAN /\ sheet.current \in WorkShown
  /\ sheet.offers \subseteq Deliveries /\ sheet.proof \in BOOLEAN
  /\ handlers = [n \in Hands |-> handlers[n]] /\ \A n \in Hands : IsHandler(handlers[n])
  /\ fresh \in BOOLEAN /\ mixed \in BOOLEAN

\* What the page would show is what the API has.
Offered == {j \in Deliveries : leg[j] = "offered"}
FitsWork(current, on, offers) == current = Work /\ (online => on) /\ offers = Offered
SheetFits == FitsWork(sheet.current, sheet.online, sheet.offers)

\* A handler alone on the page, after whose end the page is right.
Settles(c) ==
  /\ c.step = "asked" /\ c.kind # "load" => SheetFits
  /\ c.step = "read" /\ c.kind # "toggle" => FitsWork(c.current, c.online, c.offers)
  /\ c.step = "read" /\ c.kind = "toggle" => FitsWork(sheet.current, sheet.online, c.offers)
  /\ c.step = "shown" => SheetFits
  /\ c.step = "done" =>
       /\ c.kind = "toggle" => FitsWork(sheet.current, c.online, sheet.offers)
       /\ c.kind = "reject" => FitsWork(sheet.current, sheet.online, sheet.offers \ {c.job})
       /\ c.kind = "pod" => SheetFits
       /\ c.kind = "move" => FitsWork(IF c.to = "DELIVERED" THEN NoWork ELSE [job |-> c.job, status |-> c.to], sheet.online, sheet.offers)

FreshIsSettled ==
  fresh => /\ \A n, m \in Hands : handlers[n] # Still /\ handlers[m] # Still => n = m
           /\ \A n \in Hands : handlers[n] # Still => Settles(handlers[n])
           /\ Resting => sheet.loaded /\ SheetFits

\* The proof on the page is the API's, and of the job that whoever is under way was asked for.
ProofIsOfTheJob ==
  ~mixed =>
    /\ sheet.proof => sheet.current.job \in proven
    /\ \A n \in Hands :
         /\ sheet.proof /\ handlers[n].kind \in {"load", "accept"} => handlers[n].was = sheet.current.job
         /\ sheet.proof /\ handlers[n].kind = "move" => handlers[n].job = sheet.current.job
         /\ handlers[n].kind = "pod" =>
              /\ handlers[n].job = sheet.current.job /\ (handlers[n].step = "done" => handlers[n].job \in proven)
              /\ \A m \in Hands : handlers[m].kind \notin {"accept", "load", "move"}

\* The inductive invariant.
DriverInv == DriverTypes /\ FreshIsSettled /\ ProofIsOfTheJob

-----------------------------------------------------------------------------
\* The legs of a job and the one after each.
LEMMA WaysAre == {Ways[i] : i \in 1..4} = AtWork /\ Legs = {"none", "offered", "gone", "DELIVERED"} \cup AtWork
<1>1. Ways[1] = "ASSIGNED" /\ Ways[2] = "EN_ROUTE_PICKUP" /\ Ways[3] = "PICKED_UP" /\ Ways[4] = "EN_ROUTE_DROP" /\ Ways[5] = "DELIVERED"
  BY DEF Ways
<1>2. \A i : i \in 1..4 <=> i \in {1, 2, 3, 4}
  OBVIOUS
<1>3. \A i : i \in 1..5 <=> i \in {1, 2, 3, 4, 5}
  OBVIOUS
<1>4. {Ways[i] : i \in 1..4} = AtWork
  BY <1>1, <1>2 DEF AtWork
<1>5. {Ways[i] : i \in 1..5} = AtWork \cup {"DELIVERED"}
  BY <1>1, <1>3 DEF AtWork
<1>6. QED BY <1>4, <1>5 DEF Legs

\* Work under way has a next status that a driver can move it to, and nothing else has one.
LEMMA NextIs ==
  /\ \A s \in AtWork : NextOf(s) \in Onward
  /\ \A s : s \notin AtWork => NextOf(s) = Nil
<1>1. Ways[1] = "ASSIGNED" /\ Ways[2] = "EN_ROUTE_PICKUP" /\ Ways[3] = "PICKED_UP" /\ Ways[4] = "EN_ROUTE_DROP" /\ Ways[5] = "DELIVERED"
  BY DEF Ways
<1>2. \A s : s \in AtWork <=> \E i \in 1..4 : Ways[i] = s
  BY WaysAre
<1>3. ASSUME NEW s \in AtWork PROVE NextOf(s) \in Onward
  <2>1. PICK i : i = CHOOSE k \in 1..4 : Ways[k] = s
    OBVIOUS
  <2>2. i \in 1..4 /\ Ways[i] = s
    BY <1>2, <2>1
  <2>3. NextOf(s) = Ways[1 + i]
    BY <1>2, <2>1 DEF NextOf
  <2>4. 1 + i \in {2, 3, 4, 5}
    BY <2>2
  <2>5. QED BY <1>1, <2>3, <2>4 DEF Onward
<1>4. ASSUME NEW s, s \notin AtWork PROVE NextOf(s) = Nil
  BY <1>2, <1>4 DEF NextOf
<1>5. QED BY <1>3, <1>4

\* The work of the driver is nothing, or a job of the deliveries with a status of work.
LEMMA WorkIs ==
  ASSUME DriverTypes
  PROVE  /\ Work = IF active # Nil /\ leg[active] \in AtWork THEN [job |-> active, status |-> leg[active]] ELSE NoWork
         /\ Work \in WorkShown
<1>1. Work = IF active # Nil /\ leg[active] \in AtWork THEN [job |-> active, status |-> leg[active]] ELSE NoWork
  BY WaysAre DEF Work
<1>2. active \in Deliveries \cup {Nil}
  BY DEF DriverTypes
<1>3. QED BY <1>1, <1>2 DEF WorkShown

\* The work shown, and its job.
LEMMA ShownWorkIs ==
  ASSUME NEW w \in WorkShown
  PROVE  /\ w = NoWork \/ (w.job \in Deliveries /\ w.status \in AtWork /\ w # NoWork)
         /\ w = NoWork => w.job = Nil /\ w.status = Nil
<1>1. NoWork.job = Nil /\ NoWork.status = Nil
  BY DEF NoWork
<1>2. CASE w \in [job : Deliveries, status : AtWork]
  <2>1. w.job \in Deliveries /\ w.status \in AtWork
    BY <1>2
  <2>2. w # NoWork
    BY <1>1, <2>1, DeliveriesAssumption
  <2>3. QED BY <2>1, <2>2
<1>3. QED BY <1>1, <1>2 DEF WorkShown

-----------------------------------------------------------------------------
\* One handler replaced, the others are as they were.
LEMMA HandlerReplaced ==
  ASSUME DriverTypes, NEW n \in Hands, NEW d, handlers' = [handlers EXCEPT ![n] = d]
  PROVE  /\ handlers' = [m \in Hands |-> handlers'[m]] /\ handlers'[n] = d
         /\ \A m \in Hands \ {n} : handlers'[m] = handlers[m]
<1>1. handlers = [m \in Hands |-> handlers[m]]
  BY DEF DriverTypes
<1>2. handlers' = [m \in Hands |-> IF m = n THEN d ELSE handlers[m]]
  BY <1>1
<1>3. QED BY <1>2

\* One handler replaced by a typed one leaves all typed, as long as a loaded page stays
\* loaded.
LEMMA HandlersKept ==
  ASSUME DriverTypes, NEW n \in Hands, NEW d, handlers' = [handlers EXCEPT ![n] = d], IsHandler(d)', sheet.loaded => sheet'.loaded
  PROVE  handlers' = [m \in Hands |-> handlers'[m]] /\ \A m \in Hands : IsHandler(handlers[m])'
<1>1. /\ handlers' = [m \in Hands |-> handlers'[m]] /\ handlers'[n] = d
      /\ \A m \in Hands \ {n} : handlers'[m] = handlers[m]
  BY HandlerReplaced
<1>2. ASSUME NEW m \in Hands PROVE IsHandler(handlers[m])'
  <2>1. CASE m = n
    BY <1>1, <2>1 DEF IsHandler
  <2>2. CASE m # n
    <3>1. PICK c : c = handlers[m]
      OBVIOUS
    <3>2. IsHandler(c)
      BY <3>1 DEF DriverTypes
    <3>3. IsHandler(c)'
      BY <3>2 DEF IsHandler
    <3>4. handlers'[m] = c
      BY <1>1, <2>2, <3>1
    <3>5. QED BY <3>3, <3>4 DEF IsHandler
  <2>3. QED BY <2>1, <2>2
<1>3. QED BY <1>1, <1>2

\* A handler that goes on or ends leaves the page settled.
LEMMA FreshKept ==
  ASSUME DriverInv, NEW n \in Hands, NEW d, handlers' = [handlers EXCEPT ![n] = d], handlers[n] # Still,
         fresh' => fresh, fresh' /\ d # Still => Settles(d)', fresh' /\ d = Still => sheet'.loaded /\ SheetFits'
  PROVE  FreshIsSettled'
<1>1. SUFFICES ASSUME fresh' PROVE FreshIsSettled'
  BY DEF FreshIsSettled
<1>2. handlers'[n] = d /\ \A m \in Hands \ {n} : handlers'[m] = handlers[m]
  BY HandlerReplaced DEF DriverInv
<1>3. \A m \in Hands \ {n} : handlers'[m] = Still
  BY <1>1, <1>2 DEF DriverInv, FreshIsSettled
<1>4. ASSUME NEW m \in Hands, handlers'[m] # Still PROVE m = n /\ Settles(handlers[m])'
  <2>1. m = n /\ handlers'[m] = d
    BY <1>2, <1>3, <1>4
  <2>2. Settles(d)'
    BY <1>1, <1>4, <2>1
  <2>3. QED BY <2>1, <2>2 DEF Settles
<1>5. Resting' => sheet'.loaded /\ SheetFits'
  BY <1>1, <1>2 DEF Resting
<1>6. QED BY <1>4, <1>5 DEF FreshIsSettled

\* A handler that goes on or ends leaves the proof with its job.
LEMMA ProofKept ==
  ASSUME DriverInv, NEW n \in Hands, NEW d, handlers' = [handlers EXCEPT ![n] = d], handlers[n] # Still,
         d # Still => d.kind = handlers[n].kind /\ d.was = handlers[n].was /\ d.job = handlers[n].job,
         d # Still /\ d.kind = "pod" /\ d.step = "done" => d.job \in proven',
         mixed' = mixed, proven \subseteq proven',
         sheet'.proof => sheet.proof, sheet'.current.job = sheet.current.job
  PROVE  ProofIsOfTheJob'
<1>1. SUFFICES ASSUME ~mixed PROVE ProofIsOfTheJob'
  BY DEF ProofIsOfTheJob
<1>2. handlers'[n] = d /\ \A m \in Hands \ {n} : handlers'[m] = handlers[m]
  BY HandlerReplaced DEF DriverInv
<1>3. /\ sheet.proof => sheet.current.job \in proven
      /\ \A m \in Hands :
           /\ sheet.proof /\ handlers[m].kind \in {"load", "accept"} => handlers[m].was = sheet.current.job
           /\ sheet.proof /\ handlers[m].kind = "move" => handlers[m].job = sheet.current.job
           /\ handlers[m].kind = "pod" =>
                /\ handlers[m].job = sheet.current.job /\ (handlers[m].step = "done" => handlers[m].job \in proven)
                /\ \A k \in Hands : handlers[k].kind \notin {"accept", "load", "move"}
  BY <1>1 DEF DriverInv, ProofIsOfTheJob
<1>4. \A m \in Hands : handlers'[m].kind \in {handlers[m].kind, Nil}
  BY <1>2 DEF Still
<1>5. ASSUME NEW m \in Hands
      PROVE  /\ sheet'.proof /\ handlers'[m].kind \in {"load", "accept"} => handlers'[m].was = sheet'.current.job
             /\ sheet'.proof /\ handlers'[m].kind = "move" => handlers'[m].job = sheet'.current.job
             /\ handlers'[m].kind = "pod" =>
                  /\ handlers'[m].job = sheet'.current.job /\ (handlers'[m].step = "done" => handlers'[m].job \in proven')
                  /\ \A k \in Hands : handlers'[k].kind \notin {"accept", "load", "move"}
  <2>1. CASE handlers'[m] = handlers[m]
    BY <1>3, <1>4, <2>1 DEF Nil
  <2>2. CASE handlers'[m] = Still
    BY <2>2 DEF Still, Nil
  <2>3. CASE m = n /\ d # Still
    BY <1>2, <1>3, <1>4, <2>3 DEF Nil
  <2>4. QED BY <1>2, <2>1, <2>2, <2>3
<1>6. QED BY <1>3, <1>5 DEF ProofIsOfTheJob

\* Whose page is settled and whose proof is of its job.
LEMMA HandlerIs ==
  ASSUME DriverInv, NEW n \in Hands, NEW c, c = handlers[n], c # Still
  PROVE  /\ c = [kind |-> c.kind, job |-> c.job, step |-> c.step, current |-> c.current, was |-> c.was, to |-> c.to,
                  offers |-> c.offers, online |-> c.online]
         /\ c.kind \in HandlerKinds /\ c.step \in HandlerSteps
         /\ c.current \in WorkShown /\ c.offers \subseteq Deliveries /\ c.online \in BOOLEAN
         /\ c.kind \in {"accept", "reject", "move", "pod"} => c.job \in Deliveries
         /\ c.kind = "move" => c.to \in Onward
         /\ c.kind # "load" => sheet.loaded
         /\ c.step = "load" => c.kind = "accept"
         /\ c.step = "read" => c.kind \in {"load", "accept", "toggle"}
         /\ c.step = "shown" => c.kind = "toggle"
         /\ c.step = "done" => c.kind # "load"
         /\ fresh => Settles(c)
<1>1. IsHandler(c)
  BY DEF DriverInv, DriverTypes
<1>2. fresh => Settles(c)
  BY DEF DriverInv, FreshIsSettled
<1>3. QED BY <1>1, <1>2 DEF IsHandler

\* The parts of the invariant that type the page and the deliveries.
LEMMA DeskIs ==
  ASSUME DriverInv
  PROVE  /\ leg \in [Deliveries -> Legs] /\ active \in Deliveries \cup {Nil} /\ online \in BOOLEAN /\ proven \subseteq Deliveries
         /\ sheet = [loaded |-> sheet.loaded, online |-> sheet.online, current |-> sheet.current, offers |-> sheet.offers, proof |-> sheet.proof]
         /\ sheet.loaded \in BOOLEAN /\ sheet.online \in BOOLEAN /\ sheet.current \in WorkShown
         /\ sheet.offers \subseteq Deliveries /\ sheet.proof \in BOOLEAN
         /\ fresh \in BOOLEAN /\ mixed \in BOOLEAN
         /\ handlers = [n \in Hands |-> handlers[n]]
BY DEF DriverInv, DriverTypes

-----------------------------------------------------------------------------
\* A handler as it starts.
LEMMA HandlerStarts ==
  ASSUME DriverInv, NEW kind \in HandlerKinds, NEW job, kind \in {"accept", "reject", "move", "pod"} => job \in Deliveries,
         kind = "move" => NextOf(sheet.current.status) \in Onward, kind # "load" => sheet.loaded, NEW h, h = Handler(kind, job)
  PROVE  /\ IsHandler(h) /\ h # Still
         /\ h.kind = kind /\ h.job = job /\ h.step = "asked"
         /\ kind \in {"load", "accept"} => h.was = sheet.current.job
<1>1. PICK was : was = IF kind \in {"load", "accept"} THEN sheet.current.job ELSE Nil
  OBVIOUS
<1>2. PICK dest : dest = IF kind = "move" THEN NextOf(sheet.current.status) ELSE Nil
  OBVIOUS
<1>3. PICK offers : offers = IF kind = "toggle" THEN sheet.offers ELSE {}
  OBVIOUS
<1>4. PICK on : on = (kind = "toggle" /\ ~sheet.online)
  OBVIOUS
<1>5. h = [kind |-> kind, job |-> job, step |-> "asked", current |-> NoWork, was |-> was, to |-> dest, offers |-> offers, online |-> on]
  BY <1>1, <1>2, <1>3, <1>4, Zenon DEF Handler
<1>6. h.kind = kind /\ h.job = job /\ h.step = "asked" /\ h.current = NoWork /\ h.was = was /\ h.to = dest /\ h.offers = offers /\ h.online = on
  BY <1>5
<1>7. h = [kind |-> h.kind, job |-> h.job, step |-> h.step, current |-> h.current, was |-> h.was, to |-> h.to,
           offers |-> h.offers, online |-> h.online]
  BY ONLY <1>5
<1>8. on \in BOOLEAN
  BY <1>4, Zenon
<1>9. NoWork \in WorkShown /\ offers \subseteq Deliveries
  BY <1>3, DeskIs DEF WorkShown
<1>10. IsHandler(h)
  BY <1>2, <1>6, <1>7, <1>8, <1>9 DEF IsHandler, HandlerSteps
<1>11. h # Still
  BY <1>6 DEF Still, Nil
<1>12. QED BY <1>1, <1>6, <1>10, <1>11

\* The free place that a handler takes.
LEMMA StartIn ==
  ASSUME DriverInv, NEW h, Start(h)
  PROVE  /\ \E p \in Hands : handlers[p] = Still /\ handlers' = [handlers EXCEPT ![p] = h]
         /\ UNCHANGED <<leg, active, online, proven>>
<1>1. \E p \in Hands : handlers[p] = Still
  <2>1. CASE Resting
    <3>1. 1 \in Hands
      BY DeliveriesAssumption DEF Hands
    <3>2. QED BY <2>1, <3>1 DEF Resting
  <2>2. CASE ~Resting
    BY <2>2 DEF Start
  <2>3. QED BY <2>1, <2>2
<1>2. PICK p : p = CHOOSE n \in Hands : handlers[n] = Still
  OBVIOUS
<1>3. p \in Hands /\ handlers[p] = Still
  BY <1>1, <1>2
<1>4. handlers' = [handlers EXCEPT ![p] = h]
  BY <1>2 DEF Start
<1>5. QED BY <1>3, <1>4 DEF Start

\* Whatever is begun on the page.
LEMMA StartKeeps ==
  ASSUME DriverInv, NEW kind \in HandlerKinds, NEW job, kind \in {"accept", "reject", "move", "pod"} => job \in Deliveries,
         kind = "move" => NextOf(sheet.current.status) \in Onward, kind # "load" => sheet.loaded,
         kind \in {"move", "pod"} => job = sheet.current.job,
         Start(Handler(kind, job)), sheet' = sheet, mixed' = Mixed(kind),
         fresh' \in BOOLEAN, fresh' => Resting, fresh' /\ kind # "load" => fresh
  PROVE  DriverInv'
<1>1. PICK h : h = Handler(kind, job)
  OBVIOUS
<1>2. /\ IsHandler(h) /\ h # Still /\ h.kind = kind /\ h.job = job /\ h.step = "asked"
      /\ kind \in {"load", "accept"} => h.was = sheet.current.job
  BY <1>1, HandlerStarts
<1>3. PICK p \in Hands : handlers[p] = Still /\ handlers' = [handlers EXCEPT ![p] = h]
  BY <1>1, StartIn
<1>4. UNCHANGED <<leg, active, online, proven>>
  BY StartIn
<1>t. DriverTypes
  BY DEF DriverInv
<1>5. /\ handlers' = [m \in Hands |-> handlers'[m]] /\ handlers'[p] = h
      /\ \A m \in Hands \ {p} : handlers'[m] = handlers[m]
  BY <1>3, <1>t, HandlerReplaced
<1>6. mixed' \in BOOLEAN
  BY Zenon DEF Mixed
<1>7. DriverTypes'
  <2>1. IsHandler(h)'
    BY <1>2 DEF IsHandler
  <2>2. handlers' = [m \in Hands |-> handlers'[m]] /\ \A m \in Hands : IsHandler(handlers[m])'
    BY <1>3, <1>t, <2>1, HandlersKept
  <2>3. QED BY <1>4, <1>6, <1>t, <2>2 DEF DriverTypes
<1>8. FreshIsSettled'
  <2>1. SUFFICES ASSUME fresh' PROVE FreshIsSettled'
    BY DEF FreshIsSettled
  <2>2. \A m \in Hands \ {p} : handlers'[m] = Still
    BY <1>5, <2>1 DEF Resting
  <2>3. kind # "load" => SheetFits
    BY <2>1 DEF DriverInv, FreshIsSettled
  <2>4. SheetFits' = SheetFits
    BY <1>4 DEF SheetFits, FitsWork, Work, Offered
  <2>5. Settles(h)'
    BY <1>2, <2>3, <2>4 DEF Settles
  <2>6. ASSUME NEW m \in Hands, handlers'[m] # Still PROVE m = p /\ Settles(handlers[m])'
    <3>1. m = p /\ handlers'[m] = h
      BY <1>5, <2>2, <2>6
    <3>2. QED BY <2>5, <3>1 DEF Settles
  <2>7. ~Resting'
    BY <1>2, <1>5 DEF Resting
  <2>8. QED BY <2>6, <2>7 DEF FreshIsSettled
<1>9. ProofIsOfTheJob'
  <2>1. SUFFICES ASSUME ~mixed' PROVE ProofIsOfTheJob'
    BY DEF ProofIsOfTheJob
  <2>2. ~mixed
    BY <2>1, Zenon DEF Mixed
  <2>3. ASSUME NEW m \in Hands
        PROVE  /\ kind = "pod" => handlers[m].kind \notin {"accept", "load", "move"}
               /\ handlers[m].kind = "pod" => kind \notin {"accept", "load", "move"}
    <3>1. ~("pod" \in {kind, handlers[m].kind} /\ {kind, handlers[m].kind} \cap {"accept", "load", "move"} # {})
      BY <2>1, Zenon DEF Mixed
    <3>2. PICK k : k = handlers[m].kind
      OBVIOUS
    <3>3. ~("pod" \in {kind, k} /\ {kind, k} \cap {"accept", "load", "move"} # {})
      BY <3>1, <3>2
    <3>4. /\ kind = "pod" => k \notin {"accept", "load", "move"}
          /\ k = "pod" => kind \notin {"accept", "load", "move"}
      BY <3>3
    <3>5. QED BY <3>2, <3>4
  <2>4. /\ sheet.proof => sheet.current.job \in proven
        /\ \A m \in Hands :
             /\ sheet.proof /\ handlers[m].kind \in {"load", "accept"} => handlers[m].was = sheet.current.job
             /\ sheet.proof /\ handlers[m].kind = "move" => handlers[m].job = sheet.current.job
             /\ handlers[m].kind = "pod" =>
                  /\ handlers[m].job = sheet.current.job /\ (handlers[m].step = "done" => handlers[m].job \in proven)
                  /\ \A k \in Hands : handlers[k].kind \notin {"accept", "load", "move"}
    BY <2>2 DEF DriverInv, ProofIsOfTheJob
  <2>5. ASSUME NEW m \in Hands
        PROVE  /\ sheet.proof /\ handlers'[m].kind \in {"load", "accept"} => handlers'[m].was = sheet.current.job
               /\ sheet.proof /\ handlers'[m].kind = "move" => handlers'[m].job = sheet.current.job
               /\ handlers'[m].kind = "pod" =>
                    /\ handlers'[m].job = sheet.current.job /\ (handlers'[m].step = "done" => handlers'[m].job \in proven)
                    /\ \A k \in Hands : handlers'[k].kind \notin {"accept", "load", "move"}
    <3>1. CASE m = p
      <4>1. kind = "pod" => \A k \in Hands : handlers'[k].kind \notin {"accept", "load", "move"}
        BY <1>2, <1>5, <2>3
      <4>2. QED BY <1>2, <1>5, <3>1, <4>1
    <3>2. CASE m # p
      <4>1. handlers'[m] = handlers[m]
        BY <1>5, <3>2
      <4>2. handlers[m].kind = "pod" => \A k \in Hands : handlers'[k].kind \notin {"accept", "load", "move"}
        BY <1>2, <1>5, <2>3, <2>4
      <4>3. QED BY <2>4, <4>1, <4>2
    <3>3. QED BY <3>1, <3>2
  <2>6. QED BY <1>4, <2>4, <2>5 DEF ProofIsOfTheJob
<1>10. QED BY <1>7, <1>8, <1>9 DEF DriverInv

\* The page as it opens: one load under way and nothing on it.
FirstLoad == [kind |-> "load", job |-> Nil, step |-> "asked", current |-> NoWork, was |-> Nil, to |-> Nil, offers |-> {}, online |-> FALSE]
DeskOpens ==
  /\ leg \in [Deliveries -> Legs] /\ active \in Deliveries \cup {Nil} /\ online \in BOOLEAN /\ proven \subseteq Deliveries
  /\ sheet = BlankSheet /\ handlers = [n \in Hands |-> IF n = 1 THEN FirstLoad ELSE Still] /\ fresh = TRUE /\ mixed = FALSE

\* The page that opens satisfies the invariant.
LEMMA OpenedKeeps == DeskOpens => DriverInv
<1> SUFFICES ASSUME DeskOpens PROVE DriverInv
  OBVIOUS
<1>0. PICK h : h = FirstLoad
  OBVIOUS
<1>1. /\ sheet.loaded = FALSE /\ sheet.online = FALSE /\ sheet.current = NoWork /\ sheet.offers = {} /\ sheet.proof = FALSE
      /\ sheet = [loaded |-> sheet.loaded, online |-> sheet.online, current |-> sheet.current, offers |-> sheet.offers, proof |-> sheet.proof]
  BY DEF DeskOpens, BlankSheet
<1>2. h.kind = "load" /\ h.step = "asked" /\ h.current = NoWork /\ h.offers = {} /\ h.online = FALSE
  BY <1>0 DEF FirstLoad
<1>3. IsHandler(h) /\ h # Still
  <2>1. h = [kind |-> h.kind, job |-> h.job, step |-> h.step, current |-> h.current, was |-> h.was, to |-> h.to,
             offers |-> h.offers, online |-> h.online]
    BY ONLY <1>0 DEF FirstLoad
  <2>2. h # Still
    BY <1>2 DEF Still, Nil
  <2>3. /\ h.current \in WorkShown /\ h.kind \in HandlerKinds /\ h.step \in HandlerSteps
        /\ h.offers \subseteq Deliveries /\ h.online \in BOOLEAN
    BY <1>2 DEF WorkShown, HandlerKinds, HandlerSteps
  <2>4. QED BY <1>2, <2>1, <2>2, <2>3 DEF IsHandler
<1>4. \A n \in Hands : handlers[n] = IF n = 1 THEN h ELSE Still
  BY <1>0 DEF DeskOpens
<1>5. DriverTypes
  <2>1. \A n \in Hands : IsHandler(handlers[n])
    BY <1>3, <1>4 DEF IsHandler
  <2>2. handlers = [n \in Hands |-> handlers[n]]
    BY DEF DeskOpens
  <2>3. sheet.current \in WorkShown
    BY <1>1 DEF WorkShown
  <2>4. QED BY <1>1, <2>1, <2>2, <2>3 DEF DriverTypes, DeskOpens
<1>6. FreshIsSettled
  <2>1. ~Resting
    <3>1. 1 \in Hands
      BY DeliveriesAssumption DEF Hands
    <3>2. QED BY <1>3, <1>4, <3>1 DEF Resting
  <2>2. Settles(h)
    BY <1>2 DEF Settles
  <2>3. ASSUME NEW n \in Hands, handlers[n] # Still PROVE n = 1 /\ Settles(handlers[n])
    BY <1>4, <2>2, <2>3
  <2>4. QED BY <2>1, <2>3 DEF FreshIsSettled
<1>7. ProofIsOfTheJob
  <2>1. \A n \in Hands : handlers[n].kind # "pod"
    BY <1>2, <1>4 DEF Still, Nil
  <2>2. QED BY <1>1, <2>1 DEF ProofIsOfTheJob
<1>8. QED BY <1>5, <1>6, <1>7 DEF DriverInv

\* The driver's page starts in the invariant.
LEMMA DriverInitInv == DriverDeskInit => DriverInv
<1> SUFFICES ASSUME DriverDeskInit PROVE DriverInv
  OBVIOUS
<1>2. Handler("load", Nil) = FirstLoad
  <2>1. sheet.current.job = Nil
    BY DEF DriverDeskInit, BlankSheet, NoWork
  <2>2. ("load" = "toggle" /\ ~sheet.online) = FALSE
    OBVIOUS
  <2>3. Handler("load", Nil) = [kind |-> "load", job |-> Nil, step |-> "asked", current |-> NoWork, was |-> sheet.current.job,
                                to |-> Nil, offers |-> {}, online |-> FALSE]
    BY <2>2, Zenon DEF Handler
  <2>4. QED BY <2>1, <2>3 DEF FirstLoad
<1>3. handlers = [n \in Hands |-> IF n = 1 THEN FirstLoad ELSE Still]
  BY <1>2 DEF DriverDeskInit
<1>4. leg \in [Deliveries -> Legs]
  BY WaysAre DEF DriverDeskInit
<1>5. QED BY <1>3, <1>4, OpenedKeeps DEF DriverDeskInit, DeskOpens

\* The browser reloads the page.
LEMMA ReloadKeeps == DriverInv /\ ReloadDesk => DriverInv'
<1> SUFFICES ASSUME DriverInv, ReloadDesk PROVE DriverInv'
  OBVIOUS
<1>1. PICK h : h = Handler("load", Nil)
  OBVIOUS
<1>2. [h EXCEPT !.was = Nil] = FirstLoad
  <2>1. ("load" = "toggle" /\ ~sheet.online) = FALSE
    OBVIOUS
  <2>2. h = [kind |-> "load", job |-> Nil, step |-> "asked", current |-> NoWork, was |-> sheet.current.job,
             to |-> Nil, offers |-> {}, online |-> FALSE]
    BY <1>1, <2>1, Zenon DEF Handler
  <2>3. PICK d : d = [h EXCEPT !.was = Nil]
    OBVIOUS
  <2>4. d = [kind |-> "load", job |-> Nil, step |-> "asked", current |-> NoWork, was |-> Nil, to |-> Nil, offers |-> {}, online |-> FALSE]
    BY <2>2, <2>3
  <2>5. QED BY <2>3, <2>4 DEF FirstLoad
<1>3. handlers' = [n \in Hands |-> IF n = 1 THEN FirstLoad ELSE Still]
  BY <1>1, <1>2, Zenon DEF ReloadDesk
<1>4. DeskOpens'
  <2>1. UNCHANGED <<leg, active, online, proven>> /\ sheet' = BlankSheet /\ fresh' = TRUE /\ mixed' = FALSE
    BY DEF ReloadDesk
  <2>2. QED BY <1>3, <2>1, DeskIs DEF DeskOpens
<1>5. DeskOpens' => DriverInv'
  BY OpenedKeeps, PTL
<1>6. QED BY <1>4, <1>5

-----------------------------------------------------------------------------
\* Handler n goes on as d, and the page stays as it is.
LEMMA GoesOn ==
  ASSUME DriverInv, NEW n \in Hands, NEW c, c = handlers[n], c # Still, NEW d, d # Still, IsHandler(d),
         handlers' = [handlers EXCEPT ![n] = d], d.kind = c.kind, d.was = c.was, d.job = c.job,
         d.kind = "pod" /\ d.step = "done" => d.job \in proven',
         leg' \in [Deliveries -> Legs], active' \in Deliveries \cup {Nil}, online' \in BOOLEAN, proven' \subseteq Deliveries,
         proven \subseteq proven', fresh' \in BOOLEAN, fresh' => fresh /\ Settles(d)',
         sheet' = sheet, mixed' = mixed
  PROVE  DriverInv'
<1>t. DriverTypes /\ handlers[n] # Still
  BY DEF DriverInv
<1>1. DriverTypes'
  <2>1. IsHandler(d)'
    BY DEF IsHandler
  <2>2. handlers' = [m \in Hands |-> handlers'[m]] /\ \A m \in Hands : IsHandler(handlers[m])'
    BY <1>t, <2>1, HandlersKept
  <2>3. QED BY <1>t, <2>2 DEF DriverTypes
<1>2. FreshIsSettled'
  BY <1>t, FreshKept
<1>3. ProofIsOfTheJob'
  <2>1. d.kind = handlers[n].kind /\ d.was = handlers[n].was /\ d.job = handlers[n].job
    OBVIOUS
  <2>2. (sheet'.proof => sheet.proof) /\ sheet'.current.job = sheet.current.job
    OBVIOUS
  <2>3. QED BY <1>t, <2>1, <2>2, ProofKept
<1>4. QED BY <1>1, <1>2, <1>3 DEF DriverInv

\* A handler one step on.
At(c, s) == [c EXCEPT !.step = s]

\* A handler that was answered takes its next step and is otherwise as it was.
LEMMA AnsweredIs ==
  ASSUME NEW n, NEW s, Answered(n, s)
  PROVE  handlers' = [handlers EXCEPT ![n] = At(handlers[n], s)]
BY Zenon DEF Answered, At

\* A handler that takes a step it may take is typed, and keeps all it carries.
LEMMA StepOf ==
  ASSUME DriverInv, NEW n \in Hands, NEW c, c = handlers[n], c # Still, NEW s \in HandlerSteps,
         s = "load" => c.kind = "accept", s = "read" => c.kind \in {"load", "accept", "toggle"}, s = "shown" => c.kind = "toggle",
         s = "done" => c.kind # "load", NEW d, d = At(c, s)
  PROVE  /\ IsHandler(d) /\ d # Still
         /\ d.kind = c.kind /\ d.job = c.job /\ d.step = s /\ d.current = c.current /\ d.was = c.was /\ d.to = c.to
         /\ d.offers = c.offers /\ d.online = c.online
<1>1. /\ c = [kind |-> c.kind, job |-> c.job, step |-> c.step, current |-> c.current, was |-> c.was, to |-> c.to,
               offers |-> c.offers, online |-> c.online]
      /\ c.kind \in HandlerKinds
      /\ c.current \in WorkShown /\ c.offers \subseteq Deliveries /\ c.online \in BOOLEAN
      /\ c.kind \in {"accept", "reject", "move", "pod"} => c.job \in Deliveries
      /\ c.kind = "move" => c.to \in Onward
      /\ c.kind # "load" => sheet.loaded
  BY HandlerIs
<1>2. d = [kind |-> c.kind, job |-> c.job, step |-> s, current |-> c.current, was |-> c.was, to |-> c.to,
           offers |-> c.offers, online |-> c.online]
  BY <1>1 DEF At
<1>3. d.kind = c.kind /\ d.job = c.job /\ d.step = s /\ d.current = c.current /\ d.was = c.was /\ d.to = c.to
      /\ d.offers = c.offers /\ d.online = c.online
  BY <1>2
<1>4. d = [kind |-> d.kind, job |-> d.job, step |-> d.step, current |-> d.current, was |-> d.was, to |-> d.to,
           offers |-> d.offers, online |-> d.online]
  BY ONLY <1>2
<1>5. IsHandler(d)
  BY <1>1, <1>3, <1>4 DEF IsHandler
<1>6. d # Still
  BY <1>1, <1>3 DEF Still, Nil, HandlerKinds
<1>7. QED BY <1>3, <1>5, <1>6

-----------------------------------------------------------------------------
\* What the API does for the page.
LEMMA ReadDeskKeeps ==
  ASSUME DriverInv, NEW n \in Hands, ReadDesk(n), AnswerDriver(n) PROVE DriverInv'
<1>1. PICK c : c = handlers[n]
  OBVIOUS
<1>2. /\ c.kind \in {"load", "accept"} /\ c # Still /\ c.step \in {"load", "asked"}
  <2>1. c.step = "load" \/ (c.kind = "load" /\ c.step = "asked")
    BY <1>1 DEF ReadDesk
  <2>2. c # Still
    BY <2>1 DEF Still, Nil
  <2>3. QED BY <1>1, <2>1, <2>2, HandlerIs
<1>3. /\ c = [kind |-> c.kind, job |-> c.job, step |-> c.step, current |-> c.current, was |-> c.was, to |-> c.to,
              offers |-> c.offers, online |-> c.online]
      /\ c.kind \in HandlerKinds
      /\ c.kind \in {"accept", "reject", "move", "pod"} => c.job \in Deliveries
      /\ c.kind # "load" => sheet.loaded
  BY <1>1, <1>2, HandlerIs
<1>4. PICK d : d = [c EXCEPT !.step = "read", !.online = online, !.current = Work, !.offers = Offered]
  OBVIOUS
<1>5. d = [kind |-> c.kind, job |-> c.job, step |-> "read", current |-> Work, was |-> c.was, to |-> c.to,
           offers |-> Offered, online |-> online]
  BY <1>3, <1>4
<1>6. d.kind = c.kind /\ d.job = c.job /\ d.step = "read" /\ d.current = Work /\ d.was = c.was /\ d.offers = Offered /\ d.online = online
  BY <1>5
<1>7. d = [kind |-> d.kind, job |-> d.job, step |-> d.step, current |-> d.current, was |-> d.was, to |-> d.to,
           offers |-> d.offers, online |-> d.online]
  BY ONLY <1>5
<1>8. Offered \subseteq Deliveries /\ Work \in WorkShown
  BY WorkIs DEF DriverInv, Offered
<1>9. IsHandler(d)
  BY <1>2, <1>3, <1>6, <1>7, <1>8, DeskIs DEF IsHandler, HandlerSteps
<1>10. d # Still
  BY <1>2, <1>6 DEF Still, Nil
<1>11. handlers' = [handlers EXCEPT ![n] = d]
  <2>1. handlers = [m \in Hands |-> handlers[m]]
    BY DeskIs
  <2>2. handlers' = [handlers EXCEPT ![n].step = "read", ![n].online = online, ![n].current = Work, ![n].offers = Offered]
    BY Zenon DEF ReadDesk, Offered
  <2>3. QED BY <1>1, <1>4, <2>1, <2>2
<1>12. UNCHANGED <<leg, active, online, proven, sheet, mixed>> /\ fresh' \in BOOLEAN /\ (fresh' => fresh)
  BY Zenon DEF ReadDesk, AnswerDriver
<1>13. fresh' => Settles(d)'
  <2>1. Work' = Work /\ Offered' = Offered
    BY <1>12 DEF Work, Offered
  <2>2. FitsWork(Work, online, Offered)'
    BY <1>12, <2>1 DEF FitsWork
  <2>3. QED BY <1>2, <1>6, <1>8, <1>12, <2>1 DEF Settles, FitsWork
<1>14. QED BY <1>1, <1>2, <1>6, <1>9, <1>10, <1>11, <1>12, <1>13, DeskIs, GoesOn

\* Fresh after an answer as before it.
LEMMA AnswerIs ==
  ASSUME NEW n \in Hands, AnswerDriver(n)
  PROVE  /\ UNCHANGED <<sheet, hidden, busy, pending, mixed, trouble>> /\ fresh' \in BOOLEAN /\ (fresh' => fresh)
         /\ fresh' /\ handlers[n].kind = "toggle" /\ handlers[n].step = "shown" => handlers'[n].offers = Offered
BY Zenon DEF AnswerDriver, Offered

\* A handler whose request the API has done.
LEMMA DoneKeeps ==
  ASSUME DriverInv, NEW n \in Hands, NEW c, c = handlers[n], c.step = "asked", c.kind \in {"accept", "reject", "toggle", "move", "pod"},
         Answered(n, "done"), c.kind = "pod" => c.job \in proven',
         leg' \in [Deliveries -> Legs], active' \in Deliveries \cup {Nil}, online' \in BOOLEAN, proven' \subseteq Deliveries,
         proven \subseteq proven', fresh' \in BOOLEAN, fresh' => fresh, sheet' = sheet, mixed' = mixed,
         fresh' /\ c.kind = "toggle" => FitsWork(sheet.current, c.online, sheet.offers)',
         fresh' /\ c.kind = "reject" => FitsWork(sheet.current, sheet.online, sheet.offers \ {c.job})',
         fresh' /\ c.kind = "pod" => SheetFits',
         fresh' /\ c.kind = "move" => FitsWork(IF c.to = "DELIVERED" THEN NoWork ELSE [job |-> c.job, status |-> c.to], sheet.online, sheet.offers)'
  PROVE  DriverInv'
<1>1. c # Still
  BY DEF Still, Nil
<1>2. PICK d : d = At(c, "done")
  OBVIOUS
<1>3. /\ IsHandler(d) /\ d # Still
      /\ d.kind = c.kind /\ d.job = c.job /\ d.step = "done" /\ d.current = c.current /\ d.was = c.was /\ d.to = c.to
      /\ d.offers = c.offers /\ d.online = c.online
  <2>1. "done" \in HandlerSteps
    BY DEF HandlerSteps
  <2>2. QED BY <1>1, <1>2, <2>1, StepOf
<1>4. handlers' = [handlers EXCEPT ![n] = d]
  BY <1>2, AnsweredIs
<1>5. fresh' => fresh /\ Settles(d)'
  BY <1>3 DEF Settles
<1>6. d.kind = "pod" /\ d.step = "done" => d.job \in proven'
  BY <1>3
<1>7. QED BY <1>1, <1>3, <1>4, <1>5, <1>6, GoesOn

\* What the page shows is right before the API does what the page asked for.
LEMMA AskedFits ==
  ASSUME DriverInv, NEW n \in Hands, NEW c, c = handlers[n], c.step = "asked", c.kind # "load", fresh
  PROVE  SheetFits
<1>1. c # Still
  BY DEF Still, Nil
<1>2. Settles(c)
  BY <1>1, HandlerIs
<1>3. QED BY <1>2 DEF Settles

\* The service that saves availability keeps the invariant.
LEMMA AvailabilityKeeps ==
  ASSUME DriverInv, NEW n \in Hands, updateAvailability(n), AnswerDriver(n) PROVE DriverInv'
<1>1. PICK c : c = handlers[n]
  OBVIOUS
<1>2. c.kind = "toggle" /\ c.step = "asked" /\ online' = c.online /\ Answered(n, "done") /\ UNCHANGED <<leg, active, proven>>
  BY <1>1 DEF updateAvailability
<1>3. UNCHANGED <<sheet, mixed>> /\ fresh' \in BOOLEAN /\ (fresh' => fresh)
  BY AnswerIs
<1>4. c # Still
  BY <1>2 DEF Still, Nil
<1>5. c.online \in BOOLEAN
  BY <1>1, <1>4, HandlerIs
<1>6. fresh' => FitsWork(sheet.current, c.online, sheet.offers)'
  <2>1. Work' = Work /\ Offered' = Offered
    BY <1>2 DEF Work, Offered
  <2>2. fresh' => SheetFits
    BY <1>1, <1>2, <1>3, AskedFits
  <2>3. QED BY <1>2, <1>3, <2>1, <2>2 DEF SheetFits, FitsWork
<1>7. QED BY <1>1, <1>2, <1>3, <1>5, <1>6, DeskIs, DoneKeeps

\* The service that takes an acceptance, or refuses it, keeps the invariant.
LEMMA AcceptKeeps ==
  ASSUME DriverInv, NEW n \in Hands, acceptOffer(n), AnswerDriver(n) PROVE DriverInv'
<1>1. PICK c : c = handlers[n]
  OBVIOUS
<1>2. c.kind = "accept" /\ c.step = "asked" /\ leg' = [leg EXCEPT ![c.job] = "ASSIGNED"] /\ active' = c.job /\ online' = FALSE
      /\ Answered(n, "done") /\ UNCHANGED proven
  BY <1>1 DEF acceptOffer
<1>3. UNCHANGED <<sheet, mixed>> /\ fresh' \in BOOLEAN /\ (fresh' => fresh)
  BY AnswerIs
<1>4. c # Still
  BY <1>2 DEF Still, Nil
<1>5. c.job \in Deliveries
  BY <1>1, <1>2, <1>4, HandlerIs
<1>6. leg' \in [Deliveries -> Legs]
  <2>1. "ASSIGNED" \in Legs
    BY WaysAre DEF AtWork
  <2>2. QED BY <1>2, <2>1, DeskIs
<1>7. QED BY <1>1, <1>2, <1>3, <1>5, <1>6, DeskIs, DoneKeeps

\* The service that takes a rejection keeps the invariant.
LEMMA RejectKeeps ==
  ASSUME DriverInv, NEW n \in Hands, rejectOffer(n), AnswerDriver(n) PROVE DriverInv'
<1>1. PICK c : c = handlers[n]
  OBVIOUS
<1>2. c.kind = "reject" /\ c.step = "asked" /\ leg' = [leg EXCEPT ![c.job] = "gone"] /\ leg[c.job] = "offered"
      /\ Answered(n, "done") /\ UNCHANGED <<active, online, proven>>
  BY <1>1 DEF rejectOffer
<1>3. UNCHANGED <<sheet, mixed>> /\ fresh' \in BOOLEAN /\ (fresh' => fresh)
  BY AnswerIs
<1>4. c # Still
  BY <1>2 DEF Still, Nil
<1>5. c.job \in Deliveries
  BY <1>1, <1>2, <1>4, HandlerIs
<1>6. leg' \in [Deliveries -> Legs]
  <2>1. "gone" \in Legs
    BY DEF Legs
  <2>2. QED BY <1>2, <2>1, DeskIs
<1>7. fresh' => FitsWork(sheet.current, sheet.online, sheet.offers \ {c.job})'
  <2>1. \A j \in Deliveries : leg'[j] = IF j = c.job THEN "gone" ELSE leg[j]
    BY <1>2, <1>5, DeskIs
  <2>2. Offered' = Offered \ {c.job}
    BY <2>1 DEF Offered
  <2>3. Work' = Work
    <3>1. Work = IF active # Nil /\ leg[active] \in AtWork THEN [job |-> active, status |-> leg[active]] ELSE NoWork
      BY WorkIs DEF DriverInv
    <3>2. Work' = IF active # Nil /\ leg'[active] \in AtWork THEN [job |-> active, status |-> leg'[active]] ELSE NoWork
      BY <1>2, WaysAre DEF Work
    <3>3. CASE active = c.job
      BY <1>2, <1>5, <2>1, <3>1, <3>2, <3>3 DEF AtWork
    <3>4. CASE active # c.job
      <4>1. active = Nil \/ leg'[active] = leg[active]
        BY <2>1, <3>4, DeskIs
      <4>2. QED BY <3>1, <3>2, <4>1
    <3>5. QED BY <3>3, <3>4
  <2>4. fresh' => SheetFits
    BY <1>1, <1>2, <1>3, AskedFits
  <2>5. QED BY <1>2, <1>3, <2>2, <2>3, <2>4 DEF SheetFits, FitsWork
<1>8. QED BY <1>1, <1>2, <1>3, <1>5, <1>6, <1>7, DeskIs, DoneKeeps

\* The service that moves a job on, or refuses to, keeps the invariant.
LEMMA TransitionKeeps ==
  ASSUME DriverInv, NEW n \in Hands, transitionJobStatus(n), AnswerDriver(n) PROVE DriverInv'
<1>1. PICK c : c = handlers[n]
  OBVIOUS
<1>2. /\ c.kind = "move" /\ c.step = "asked" /\ NextOf(leg[c.job]) = c.to /\ leg' = [leg EXCEPT ![c.job] = c.to]
      /\ active' = IF c.to = "DELIVERED" THEN Nil ELSE c.job
      /\ online' = FALSE /\ Answered(n, "done") /\ UNCHANGED proven
  BY <1>1 DEF transitionJobStatus
<1>3. UNCHANGED <<sheet, mixed>> /\ fresh' \in BOOLEAN /\ (fresh' => fresh)
  BY AnswerIs
<1>4. c # Still
  BY <1>2 DEF Still, Nil
<1>5. c.job \in Deliveries /\ c.to \in Onward
  BY <1>1, <1>2, <1>4, HandlerIs
<1>6. c.to \in Legs /\ (c.to # "DELIVERED" => c.to \in AtWork) /\ c.to # "offered" /\ c.to # Nil
  BY <1>5, WaysAre DEF Onward, AtWork, Nil
<1>7. leg' \in [Deliveries -> Legs] /\ active' \in Deliveries \cup {Nil}
  BY <1>2, <1>5, <1>6, DeskIs
<1>8. fresh' => FitsWork(IF c.to = "DELIVERED" THEN NoWork ELSE [job |-> c.job, status |-> c.to], sheet.online, sheet.offers)'
  <2>1. \A j \in Deliveries : leg'[j] = IF j = c.job THEN c.to ELSE leg[j]
    BY <1>2, <1>5, DeskIs
  <2>2. leg[c.job] # "offered"
    <3>1. leg[c.job] \in AtWork
      BY <1>2, <1>6, NextIs
    <3>2. QED BY <3>1 DEF AtWork
  <2>3. Offered' = Offered
    BY <1>5, <1>6, <2>1, <2>2 DEF Offered
  <2>4. Work' = IF c.to = "DELIVERED" THEN NoWork ELSE [job |-> c.job, status |-> c.to]
    <3>1. Work' = IF active' # Nil /\ leg'[active'] \in AtWork THEN [job |-> active', status |-> leg'[active']] ELSE NoWork
      BY WaysAre DEF Work
    <3>2. CASE c.to = "DELIVERED"
      BY <1>2, <3>1, <3>2
    <3>3. CASE c.to # "DELIVERED"
      <4>1. active' = c.job /\ c.job # Nil /\ leg'[c.job] = c.to
        BY <1>2, <1>5, <2>1, <3>3, DeliveriesAssumption
      <4>2. QED BY <1>6, <3>1, <3>3, <4>1
    <3>4. QED BY <3>2, <3>3
  <2>5. fresh' => SheetFits
    BY <1>1, <1>2, <1>3, AskedFits
  <2>6. PICK w : w = IF c.to = "DELIVERED" THEN NoWork ELSE [job |-> c.job, status |-> c.to]
    OBVIOUS
  <2>7. fresh' => FitsWork(w, sheet.online, sheet.offers)'
    BY <1>2, <1>3, <2>3, <2>4, <2>5, <2>6 DEF SheetFits, FitsWork
  <2>8. QED BY <2>6, <2>7 DEF FitsWork
<1>9. QED BY <1>1, <1>2, <1>3, <1>5, <1>7, <1>8, DeskIs, DoneKeeps

\* The service that records a proof of delivery keeps the invariant.
LEMMA ProofOfDeliveryKeeps ==
  ASSUME DriverInv, NEW n \in Hands, createProofOfDelivery(n), AnswerDriver(n) PROVE DriverInv'
<1>1. PICK c : c = handlers[n]
  OBVIOUS
<1>2. c.kind = "pod" /\ c.step = "asked" /\ proven' = proven \cup {c.job}
      /\ Answered(n, "done") /\ UNCHANGED <<leg, active, online>>
  BY <1>1 DEF createProofOfDelivery
<1>3. UNCHANGED <<sheet, mixed>> /\ fresh' \in BOOLEAN /\ (fresh' => fresh)
  BY AnswerIs
<1>4. c # Still
  BY <1>2 DEF Still, Nil
<1>5. c.job \in Deliveries
  BY <1>1, <1>2, <1>4, HandlerIs
<1>6. fresh' => SheetFits'
  <2>1. fresh' => SheetFits
    BY <1>1, <1>2, <1>3, AskedFits
  <2>2. QED BY <1>2, <1>3, <2>1 DEF SheetFits, FitsWork, Work, Offered
<1>7. proven' \subseteq Deliveries /\ proven \subseteq proven' /\ c.job \in proven'
  BY <1>2, <1>5, DeskIs
<1>8. QED BY <1>1, <1>2, <1>3, <1>6, <1>7, DeskIs, DoneKeeps

\* The service that lists the work and the offers keeps the invariant.
LEMMA ListOffersKeeps ==
  ASSUME DriverInv, NEW n \in Hands, listOffers(n), AnswerDriver(n) PROVE DriverInv'
<1>1. PICK c : c = handlers[n]
  OBVIOUS
<1>2. c.kind = "toggle" /\ c.step = "shown" /\ UNCHANGED <<leg, active, online, proven>>
  BY <1>1 DEF listOffers
<1>3. /\ UNCHANGED <<sheet, mixed>> /\ fresh' \in BOOLEAN /\ (fresh' => fresh)
      /\ fresh' => handlers'[n].offers = Offered
  BY <1>1, <1>2, AnswerIs
<1>4. c # Still
  BY <1>2 DEF Still, Nil
<1>5. Work' = Work /\ Offered' = Offered /\ Offered \subseteq Deliveries
  BY <1>2 DEF Work, Offered
<1>6. fresh' => SheetFits
  <2>1. fresh => Settles(c)
    BY <1>1, <1>4, HandlerIs
  <2>2. QED BY <1>2, <1>3, <2>1 DEF Settles
<1>7. PICK b : b = At(c, "read")
  OBVIOUS
<1>8. /\ IsHandler(b) /\ b # Still
      /\ b.kind = c.kind /\ b.job = c.job /\ b.step = "read" /\ b.current = c.current /\ b.was = c.was /\ b.to = c.to
      /\ b.offers = c.offers /\ b.online = c.online
  <2>1. "read" \in HandlerSteps
    BY DEF HandlerSteps
  <2>2. QED BY <1>1, <1>2, <1>4, <1>7, <2>1, StepOf
<1>b. leg' \in [Deliveries -> Legs] /\ active' \in Deliveries \cup {Nil} /\ online' \in BOOLEAN /\ proven' \subseteq Deliveries
      /\ proven \subseteq proven' /\ fresh' \in BOOLEAN /\ sheet' = sheet /\ mixed' = mixed
  BY <1>2, <1>3, DeskIs
<1>9. CASE handlers' = [handlers EXCEPT ![n] = b]
  <2>1. handlers'[n] = b
    BY <1>9, HandlerReplaced DEF DriverInv
  <2>2. fresh' => fresh /\ Settles(b)'
    BY <1>2, <1>3, <1>5, <1>6, <1>8, <2>1 DEF Settles, SheetFits, FitsWork
  <2>3. b.kind # "pod"
    BY <1>2, <1>8
  <2>4. QED BY <1>1, <1>4, <1>8, <1>9, <1>b, <2>2, <2>3, GoesOn
<1>10. CASE handlers' = [handlers EXCEPT ![n].step = "read", ![n].offers = Offered]
  <2>1. PICK d : d = [b EXCEPT !.offers = Offered]
    OBVIOUS
  <2>2. b = [kind |-> b.kind, job |-> b.job, step |-> b.step, current |-> b.current, was |-> b.was, to |-> b.to,
             offers |-> b.offers, online |-> b.online]
    BY <1>8 DEF IsHandler
  <2>3. d = [kind |-> b.kind, job |-> b.job, step |-> b.step, current |-> b.current, was |-> b.was, to |-> b.to,
             offers |-> Offered, online |-> b.online]
    BY <2>1, <2>2
  <2>4. d.kind = b.kind /\ d.job = b.job /\ d.step = b.step /\ d.current = b.current /\ d.was = b.was /\ d.to = b.to
        /\ d.offers = Offered /\ d.online = b.online
    BY <2>3
  <2>5. d = [kind |-> d.kind, job |-> d.job, step |-> d.step, current |-> d.current, was |-> d.was, to |-> d.to,
             offers |-> d.offers, online |-> d.online]
    BY ONLY <2>3
  <2>6. IsHandler(d) /\ d # Still
    <3>1. d # Still
      BY <1>2, <1>8, <2>4 DEF Still, Nil
    <3>2. QED BY <1>5, <1>8, <2>4, <2>5, <3>1 DEF IsHandler
  <2>7. handlers' = [handlers EXCEPT ![n] = d]
    <3>1. handlers = [m \in Hands |-> handlers[m]]
      BY DeskIs
    <3>2. QED BY <1>1, <1>7, <1>10, <2>1, <3>1 DEF At
  <2>8. fresh' => fresh /\ Settles(d)'
    BY <1>2, <1>3, <1>5, <1>6, <1>8, <2>4 DEF Settles, SheetFits, FitsWork
  <2>9. d.kind = c.kind /\ d.was = c.was /\ d.job = c.job /\ d.kind # "pod"
    BY <1>2, <1>8, <2>4
  <2>10. QED BY <1>1, <1>4, <1>b, <2>6, <2>7, <2>8, <2>9, GoesOn
<1>11. handlers' = [handlers EXCEPT ![n].step = "read", ![n].offers = Offered] \/ handlers' = [handlers EXCEPT ![n] = b]
  BY <1>1, <1>7, Zenon DEF listOffers, Answered, Offered, At
<1>12. QED BY <1>9, <1>10, <1>11

\* Every answer of the service keeps the invariant.
LEMMA AnswerKeeps ==
  ASSUME DriverInv, NEW n \in Hands, AnswerDriver(n) PROVE DriverInv'
<1>1. ReadDesk(n) \/ updateAvailability(n) \/ acceptOffer(n) \/ rejectOffer(n) \/ transitionJobStatus(n)
      \/ createProofOfDelivery(n) \/ listOffers(n)
  BY Zenon DEF AnswerDriver
<1>2. QED BY <1>1, ReadDeskKeeps, AvailabilityKeeps, AcceptKeeps, RejectKeeps, TransitionKeeps, ProofOfDeliveryKeeps, ListOffersKeeps, Zenon

-----------------------------------------------------------------------------
\* What the driver begins on the page.
LEMMA LoadDeskKeeps == ASSUME DriverInv, LoadDesk PROVE DriverInv'
<1>1. Start(Handler("load", Nil)) /\ sheet' = sheet /\ mixed' = Mixed("load") /\ fresh' = Resting
  BY DEF LoadDesk
<1>2. fresh' \in BOOLEAN
  BY <1>1, Zenon DEF Resting
<1>3. "load" \in HandlerKinds
  BY DEF HandlerKinds
<1>4. QED BY <1>1, <1>2, <1>3, StartKeeps

\* A handler begins on a page that is loaded and changes nothing shown.
LEMMA BegunIs ==
  ASSUME DriverInv, NEW kind, NEW job, Begin(kind, job)
  PROVE  /\ Start(Handler(kind, job)) /\ sheet' = sheet /\ mixed' = Mixed(kind) /\ sheet.loaded
         /\ fresh' \in BOOLEAN /\ (fresh' => fresh /\ Resting)
BY Zenon DEF Begin, Shown

\* Pressing the availability switch keeps the invariant.
LEMMA ToggleKeeps == ASSUME DriverInv, handleToggleAvailability PROVE DriverInv'
<1>1. Begin("toggle", Nil) /\ "toggle" \in HandlerKinds
  BY DEF handleToggleAvailability, HandlerKinds
<1>2. QED BY <1>1, BegunIs, StartKeeps

\* Pressing accept keeps the invariant.
LEMMA AcceptBegins == ASSUME DriverInv, NEW j \in Deliveries, handleAcceptOffer(j) PROVE DriverInv'
<1>1. Begin("accept", j) /\ "accept" \in HandlerKinds
  BY DEF handleAcceptOffer, HandlerKinds
<1>2. QED BY <1>1, BegunIs, StartKeeps

\* Pressing reject keeps the invariant.
LEMMA RejectBegins == ASSUME DriverInv, NEW j \in Deliveries, handleRejectOffer(j) PROVE DriverInv'
<1>1. Begin("reject", j) /\ "reject" \in HandlerKinds
  BY DEF handleRejectOffer, HandlerKinds
<1>2. QED BY <1>1, BegunIs, StartKeeps

\* The work whose next step is offered is a job's.
LEMMA OfferedIs ==
  ASSUME DriverInv, OfferedStep(sheet.current, sheet.proof) # Nil
  PROVE  /\ sheet.current.job \in Deliveries
         /\ OfferedStep(sheet.current, sheet.proof) # "PROOF" => NextOf(sheet.current.status) \in Onward
<1>1. sheet.current \in WorkShown
  BY DeskIs
<1>2. CASE sheet.current = NoWork
  <2>1. sheet.current.status = Nil
    BY <1>2 DEF NoWork
  <2>2. Nil \notin AtWork /\ Nil # "EN_ROUTE_DROP"
    BY DEF Nil, AtWork
  <2>3. QED BY <2>1, <2>2, NextIs DEF OfferedStep
<1>3. CASE sheet.current.job \in Deliveries /\ sheet.current.status \in AtWork
  BY <1>3, NextIs
<1>4. QED BY <1>1, <1>2, <1>3, ShownWorkIs

\* Pressing the next status keeps the invariant.
LEMMA MoveBegins == ASSUME DriverInv, handleTransition PROVE DriverInv'
<1>1. /\ Begin("move", sheet.current.job) /\ "move" \in HandlerKinds
      /\ OfferedStep(sheet.current, sheet.proof) \notin {Nil, "PROOF"}
  BY DEF handleTransition, HandlerKinds
<1>2. sheet.current.job \in Deliveries /\ NextOf(sheet.current.status) \in Onward
  BY <1>1, OfferedIs
<1>3. QED BY <1>1, <1>2, BegunIs, StartKeeps

\* Sending a proof of delivery keeps the invariant.
LEMMA ProofBegins == ASSUME DriverInv, handleCreatePod PROVE DriverInv'
<1>1. /\ Begin("pod", sheet.current.job) /\ "pod" \in HandlerKinds
      /\ OfferedStep(sheet.current, sheet.proof) = "PROOF"
  BY DEF handleCreatePod, HandlerKinds
<1>2. sheet.current.job \in Deliveries
  BY <1>1, OfferedIs DEF Nil
<1>3. QED BY <1>1, <1>2, BegunIs, StartKeeps

\* Jobs change elsewhere.
LEMMA ElsewhereKeeps == ASSUME DriverInv, NEW j \in Deliveries, Elsewhere(j) PROVE DriverInv'
<1>1. UNCHANGED <<online, proven, sheet, handlers, mixed>> /\ fresh' = FALSE
  BY DEF Elsewhere
<1>2. leg' \in [Deliveries -> Legs] /\ active' \in Deliveries \cup {Nil}
  <2>1. "offered" \in Legs /\ "gone" \in Legs
    BY DEF Legs
  <2>2. QED BY <2>1, DeskIs DEF Elsewhere
<1>3. DriverTypes'
  BY <1>1, <1>2 DEF DriverInv, DriverTypes, IsHandler
<1>4. FreshIsSettled'
  BY <1>1 DEF FreshIsSettled
<1>5. ProofIsOfTheJob'
  BY <1>1 DEF DriverInv, ProofIsOfTheJob
<1>6. QED BY <1>3, <1>4, <1>5 DEF DriverInv

-----------------------------------------------------------------------------
\* Answers reach the page.
LEMMA LoadAcceptedKeeps == ASSUME DriverInv, NEW n \in Hands, LoadAccepted(n) PROVE DriverInv'
<1>1. PICK c : c = handlers[n]
  OBVIOUS
<1>2. /\ c.kind = "accept" /\ c.step = "done" /\ Answered(n, "load")
      /\ UNCHANGED <<leg, active, online, proven, sheet, fresh, mixed>>
  BY <1>1 DEF LoadAccepted
<1>3. c # Still
  BY <1>2 DEF Still, Nil
<1>4. PICK d : d = At(c, "load")
  OBVIOUS
<1>5. IsHandler(d) /\ d # Still /\ d.kind = c.kind /\ d.job = c.job /\ d.step = "load" /\ d.was = c.was
  <2>1. "load" \in HandlerSteps
    BY DEF HandlerSteps
  <2>2. QED BY <1>1, <1>2, <1>3, <1>4, <2>1, StepOf
<1>6. handlers' = [handlers EXCEPT ![n] = d]
  BY <1>1, <1>2, <1>4, AnsweredIs
<1>7. fresh' => fresh /\ Settles(d)'
  BY <1>2, <1>5 DEF Settles
<1>8. d.kind # "pod"
  BY <1>2, <1>5
<1>9. leg' \in [Deliveries -> Legs] /\ active' \in Deliveries \cup {Nil} /\ online' \in BOOLEAN /\ proven' \subseteq Deliveries
      /\ proven \subseteq proven' /\ fresh' \in BOOLEAN /\ sheet' = sheet /\ mixed' = mixed
  BY <1>2, DeskIs
<1>10. QED BY <1>1, <1>3, <1>5, <1>6, <1>7, <1>8, <1>9, GoesOn

\* Showing the saved availability keeps the invariant.
LEMMA ShowAvailabilityKeeps == ASSUME DriverInv, NEW n \in Hands, ShowAvailability(n) PROVE DriverInv'
<1>1. PICK c : c = handlers[n]
  OBVIOUS
<1>2. /\ c.kind = "toggle" /\ c.step = "done" /\ Answered(n, "shown") /\ sheet' = [sheet EXCEPT !.online = c.online]
      /\ UNCHANGED <<leg, active, online, proven, fresh, mixed>>
  BY <1>1 DEF ShowAvailability
<1>3. c # Still
  BY <1>2 DEF Still, Nil
<1>4. PICK d : d = At(c, "shown")
  OBVIOUS
<1>5. IsHandler(d) /\ d # Still /\ d.kind = c.kind /\ d.job = c.job /\ d.step = "shown" /\ d.was = c.was
  <2>1. "shown" \in HandlerSteps
    BY DEF HandlerSteps
  <2>2. QED BY <1>1, <1>2, <1>3, <1>4, <2>1, StepOf
<1>6. handlers' = [handlers EXCEPT ![n] = d]
  BY <1>1, <1>2, <1>4, AnsweredIs
<1>7. c.online \in BOOLEAN /\ (fresh => FitsWork(sheet.current, c.online, sheet.offers)) /\ sheet.loaded
  <2>1. c.online \in BOOLEAN /\ (fresh => Settles(c)) /\ sheet.loaded
    BY <1>1, <1>2, <1>3, HandlerIs
  <2>2. QED BY <1>2, <2>1 DEF Settles
<1>8. /\ sheet' = [loaded |-> sheet'.loaded, online |-> sheet'.online, current |-> sheet'.current, offers |-> sheet'.offers, proof |-> sheet'.proof]
      /\ sheet'.loaded = sheet.loaded /\ sheet'.online = c.online /\ sheet'.current = sheet.current /\ sheet'.offers = sheet.offers
      /\ sheet'.proof = sheet.proof
  <2>1. sheet = [loaded |-> sheet.loaded, online |-> sheet.online, current |-> sheet.current, offers |-> sheet.offers, proof |-> sheet.proof]
    BY DeskIs
  <2>2. sheet' = [loaded |-> sheet.loaded, online |-> c.online, current |-> sheet.current, offers |-> sheet.offers, proof |-> sheet.proof]
    BY <1>2, <2>1
  <2>3. QED BY <2>2
<1>9. DriverTypes'
  <2>1. IsHandler(d)'
    BY <1>5, <1>8 DEF IsHandler
  <2>2. handlers' = [m \in Hands |-> handlers'[m]] /\ \A m \in Hands : IsHandler(handlers[m])'
    BY <1>6, <1>8, <2>1, HandlersKept DEF DriverInv
  <2>3. QED BY <1>2, <1>7, <1>8, <2>2, DeskIs DEF DriverTypes
<1>10. fresh' => Settles(d)'
  <2>1. Work' = Work /\ Offered' = Offered
    BY <1>2 DEF Work, Offered
  <2>2. fresh' => SheetFits'
    BY <1>2, <1>7, <1>8, <2>1 DEF SheetFits, FitsWork
  <2>3. QED BY <1>2, <1>5, <2>2 DEF Settles
<1>11. FreshIsSettled'
  BY <1>1, <1>2, <1>3, <1>5, <1>6, <1>10, FreshKept
<1>12. ProofIsOfTheJob'
  <2>1. d.kind = handlers[n].kind /\ d.was = handlers[n].was /\ d.job = handlers[n].job /\ d.kind # "pod" /\ handlers[n] # Still
    BY <1>1, <1>2, <1>3, <1>5
  <2>2. (sheet'.proof => sheet.proof) /\ sheet'.current.job = sheet.current.job /\ proven \subseteq proven' /\ mixed' = mixed
    BY <1>2, <1>8
  <2>3. QED BY <1>6, <2>1, <2>2, ProofKept
<1>13. QED BY <1>9, <1>11, <1>12 DEF DriverInv

\* A handler ends, and the page shows s.
LEMMA HandlerEnds ==
  ASSUME DriverInv, NEW n \in Hands, handlers[n] # Still, handlers' = [handlers EXCEPT ![n] = Still],
         UNCHANGED <<leg, active, online, proven, mixed>>, NEW s, sheet' = s,
         s = [loaded |-> s.loaded, online |-> s.online, current |-> s.current, offers |-> s.offers, proof |-> s.proof],
         s.loaded \in BOOLEAN, s.online \in BOOLEAN, s.current \in WorkShown, s.offers \subseteq Deliveries, s.proof \in BOOLEAN,
         sheet.loaded => s.loaded,
         fresh' \in BOOLEAN, fresh' => fresh, fresh' => s.loaded, fresh' => FitsWork(s.current, s.online, s.offers),
         ~mixed /\ s.proof => s.current.job \in proven,
         ~mixed => \A m \in Hands \ {n} : handlers[m].kind = "pod" => sheet.current.job = s.current.job,
         ~mixed /\ s.proof => \A m \in Hands \ {n} :
           /\ handlers[m].kind \in {"load", "accept"} => handlers[m].was = s.current.job
           /\ handlers[m].kind = "move" => handlers[m].job = s.current.job
  PROVE  DriverInv'
<1>t. DriverTypes
  BY DEF DriverInv
<1>1. handlers'[n] = Still /\ \A m \in Hands \ {n} : handlers'[m] = handlers[m]
  BY <1>t, HandlerReplaced
<1>2. DriverTypes'
  <2>1. IsHandler(Still)'
    BY DEF IsHandler
  <2>2. handlers' = [m \in Hands |-> handlers'[m]] /\ \A m \in Hands : IsHandler(handlers[m])'
    BY <1>t, <2>1, HandlersKept
  <2>3. QED BY <1>t, <2>2 DEF DriverTypes
<1>3. FreshIsSettled'
  <2>1. Work' = Work /\ Offered' = Offered
    BY DEF Work, Offered
  <2>2. fresh' => sheet'.loaded /\ SheetFits'
    BY <2>1 DEF SheetFits, FitsWork
  <2>3. QED BY <2>2, FreshKept
<1>4. ProofIsOfTheJob'
  <2>1. SUFFICES ASSUME ~mixed PROVE ProofIsOfTheJob'
    BY DEF ProofIsOfTheJob
  <2>2. \A m \in Hands : handlers[m].kind = "pod" =>
                /\ handlers[m].job = sheet.current.job /\ (handlers[m].step = "done" => handlers[m].job \in proven)
                /\ \A k \in Hands : handlers[k].kind \notin {"accept", "load", "move"}
    BY <2>1 DEF DriverInv, ProofIsOfTheJob
  <2>3. Still.kind = Nil /\ Nil \notin {"load", "accept", "move", "pod"}
    BY DEF Still, Nil
  <2>4. ASSUME NEW m \in Hands
        PROVE  /\ s.proof /\ handlers'[m].kind \in {"load", "accept"} => handlers'[m].was = s.current.job
               /\ s.proof /\ handlers'[m].kind = "move" => handlers'[m].job = s.current.job
               /\ handlers'[m].kind = "pod" =>
                    /\ handlers'[m].job = s.current.job /\ (handlers'[m].step = "done" => handlers'[m].job \in proven)
                    /\ \A k \in Hands : handlers'[k].kind \notin {"accept", "load", "move"}
    <3>1. CASE m = n
      BY <1>1, <2>3, <3>1
    <3>2. CASE m # n
      <4>1. handlers'[m] = handlers[m]
        BY <1>1, <3>2
      <4>2. handlers[m].kind = "pod" => \A k \in Hands : handlers'[k].kind \notin {"accept", "load", "move"}
        BY <1>1, <2>2, <2>3
      <4>3. QED BY <2>1, <2>2, <3>2, <4>1, <4>2
    <3>3. QED BY <3>1, <3>2
  <2>5. s.proof => s.current.job \in proven
    BY <2>1
  <2>6. QED BY <2>4, <2>5 DEF ProofIsOfTheJob
<1>5. QED BY <1>2, <1>3, <1>4 DEF DriverInv

\* Whose proof a handler under way is about.
LEMMA ProofIs ==
  ASSUME DriverInv, ~mixed
  PROVE  /\ sheet.proof => sheet.current.job \in proven
         /\ \A m \in Hands :
              /\ sheet.proof /\ handlers[m].kind \in {"load", "accept"} => handlers[m].was = sheet.current.job
              /\ sheet.proof /\ handlers[m].kind = "move" => handlers[m].job = sheet.current.job
              /\ handlers[m].kind = "pod" =>
                   /\ handlers[m].job = sheet.current.job /\ (handlers[m].step = "done" => handlers[m].job \in proven)
                   /\ \A k \in Hands : handlers[k].kind \notin {"accept", "load", "move"}
BY DEF DriverInv, ProofIsOfTheJob

\* A handler whose request failed keeps the invariant.
LEMMA FailKeeps == ASSUME DriverInv, NEW n \in Hands, Fail(n) PROVE DriverInv'
<1>1. /\ handlers[n] # Still /\ handlers' = [handlers EXCEPT ![n] = Still] /\ UNCHANGED <<leg, active, online, proven, mixed>>
      /\ sheet' = sheet /\ fresh' = FALSE
  BY DEF Fail, Finish
<1>2. QED BY <1>1, DeskIs, ProofIs, HandlerEnds

\* Showing the work and the offers that were read keeps the invariant.
LEMMA ShowDeskKeeps == ASSUME DriverInv, NEW n \in Hands, ShowDesk(n) PROVE DriverInv'
<1>1. PICK c : c = handlers[n]
  OBVIOUS
<1>2. /\ c.kind \in {"load", "accept"} /\ c.step = "read"
      /\ sheet' = [loaded |-> TRUE, online |-> c.online, current |-> c.current, offers |-> c.offers, proof |-> KeepsProof(c)]
      /\ handlers' = [handlers EXCEPT ![n] = Still] /\ UNCHANGED <<leg, active, online, proven, mixed, fresh>>
  BY <1>1 DEF ShowDesk, Finish
<1>3. c # Still
  BY <1>2 DEF Still, Nil
<1>4. c.current \in WorkShown /\ c.offers \subseteq Deliveries /\ c.online \in BOOLEAN /\ (fresh => Settles(c))
  BY <1>1, <1>3, HandlerIs
<1>5. fresh => FitsWork(c.current, c.online, c.offers)
  BY <1>2, <1>4 DEF Settles
<1>6. PICK p : p = KeepsProof(c)
  OBVIOUS
<1>7. p \in BOOLEAN /\ (p => sheet.proof /\ c.current.job = c.was)
  BY <1>6, Zenon DEF KeepsProof
<1>8. PICK s : s = [loaded |-> TRUE, online |-> c.online, current |-> c.current, offers |-> c.offers, proof |-> p]
  OBVIOUS
<1>9. s.loaded = TRUE /\ s.online = c.online /\ s.current = c.current /\ s.offers = c.offers /\ s.proof = p
  BY <1>8
<1>10. s = [loaded |-> s.loaded, online |-> s.online, current |-> s.current, offers |-> s.offers, proof |-> s.proof]
  BY ONLY <1>8
<1>11. sheet' = s
  BY <1>2, <1>6, <1>8
<1>12. ~mixed /\ p => c.current.job = sheet.current.job
  BY <1>1, <1>2, <1>7, ProofIs
<1>13. ~mixed => \A m \in Hands : handlers[m].kind # "pod"
  BY <1>1, <1>2, ProofIs
<1>14. /\ ~mixed /\ s.proof => s.current.job \in proven
       /\ ~mixed /\ s.proof => \A m \in Hands \ {n} :
           /\ handlers[m].kind \in {"load", "accept"} => handlers[m].was = s.current.job
           /\ handlers[m].kind = "move" => handlers[m].job = s.current.job
  BY <1>7, <1>9, <1>12, ProofIs
<1>15. fresh' \in BOOLEAN /\ (fresh' => fresh) /\ (fresh' => FitsWork(s.current, s.online, s.offers))
  BY <1>2, <1>5, <1>9, DeskIs
<1>16. handlers[n] # Still /\ s.current \in WorkShown /\ s.offers \subseteq Deliveries /\ s.online \in BOOLEAN /\ s.proof \in BOOLEAN
  BY <1>1, <1>3, <1>4, <1>7, <1>9
<1>17. UNCHANGED <<leg, active, online, proven, mixed>>
  BY <1>2
<1>18. QED BY <1>2, <1>9, <1>10, <1>11, <1>13, <1>14, <1>15, <1>16, <1>17, HandlerEnds

\* An outcome shown on the page leaves its work, or its proof, with the job.
LEMMA OutcomeKeeps ==
  ASSUME DriverInv, NEW n \in Hands, NEW c, c = handlers[n], c.kind # Nil, handlers' = [handlers EXCEPT ![n] = Still],
         UNCHANGED <<leg, active, online, proven, mixed, fresh>>, sheet.loaded, NEW s, sheet' = s,
         s = [loaded |-> s.loaded, online |-> s.online, current |-> s.current, offers |-> s.offers, proof |-> s.proof],
         s.loaded = sheet.loaded, s.online = sheet.online,
         s.current \in WorkShown, s.offers \subseteq Deliveries, s.proof \in BOOLEAN,
         fresh => FitsWork(s.current, sheet.online, s.offers),
         ~mixed /\ s.proof => s.current.job = sheet.current.job /\ s.current.job \in proven,
         ~mixed /\ s.proof => sheet.proof \/ c.kind = "pod",
         ~mixed => s.current = sheet.current \/ c.kind = "move"
  PROVE  DriverInv'
<1>1. ~mixed => \A m \in Hands \ {n} : handlers[m].kind = "pod" => sheet.current.job = s.current.job
  BY ProofIs
<1>2. /\ ~mixed /\ s.proof => s.current.job \in proven
      /\ ~mixed /\ s.proof => \A m \in Hands \ {n} :
           /\ handlers[m].kind \in {"load", "accept"} => handlers[m].was = s.current.job
           /\ handlers[m].kind = "move" => handlers[m].job = s.current.job
  BY ProofIs
<1>3. fresh' \in BOOLEAN /\ (fresh' => fresh) /\ (fresh' => FitsWork(s.current, s.online, s.offers))
  BY DeskIs
<1>4. s.loaded = TRUE /\ s.online \in BOOLEAN
  BY DeskIs
<1>5. UNCHANGED <<leg, active, online, proven, mixed>>
  OBVIOUS
<1>6. handlers[n] # Still
  BY DEF Still
<1>7. QED BY <1>1, <1>2, <1>3, <1>4, <1>5, <1>6, HandlerEnds

\* Showing what a handler did keeps the invariant.
LEMMA ShowOutcomeKeeps == ASSUME DriverInv, NEW n \in Hands, ShowOutcome(n) PROVE DriverInv'
<1>1. PICK c : c = handlers[n]
  OBVIOUS
<1>2. handlers' = [handlers EXCEPT ![n] = Still] /\ UNCHANGED <<leg, active, online, proven, mixed, fresh>>
  BY DEF ShowOutcome, Finish
<1>3. /\ c.kind \in {"toggle", "reject", "pod", "move"} /\ c # Still
      /\ \/ c.kind = "toggle" /\ c.step = "read" /\ sheet' = [sheet EXCEPT !.offers = c.offers]
         \/ c.kind = "reject" /\ c.step = "done" /\ sheet' = [sheet EXCEPT !.offers = @ \ {c.job}]
         \/ c.kind = "pod" /\ c.step = "done" /\ sheet' = [sheet EXCEPT !.proof = TRUE]
         \/ /\ c.kind = "move" /\ c.step = "done"
            /\ sheet' = IF c.to = "DELIVERED" THEN [sheet EXCEPT !.current = NoWork, !.proof = FALSE]
                        ELSE [sheet EXCEPT !.current = [job |-> c.job, status |-> c.to]]
  <2>1. \/ c.kind = "toggle" /\ c.step = "read" /\ sheet' = [sheet EXCEPT !.offers = c.offers]
        \/ c.kind = "reject" /\ c.step = "done" /\ sheet' = [sheet EXCEPT !.offers = @ \ {c.job}]
        \/ c.kind = "pod" /\ c.step = "done" /\ sheet' = [sheet EXCEPT !.proof = TRUE]
        \/ /\ c.kind = "move" /\ c.step = "done"
           /\ sheet' = IF c.to = "DELIVERED" THEN [sheet EXCEPT !.current = NoWork, !.proof = FALSE]
                       ELSE [sheet EXCEPT !.current = [job |-> c.job, status |-> c.to]]
    BY <1>1 DEF ShowOutcome
  <2>2. c.kind \in {"toggle", "reject", "pod", "move"}
    BY <2>1
  <2>3. c # Still
    BY <2>2 DEF Still, Nil
  <2>4. QED BY <2>1, <2>2, <2>3
<1>4. /\ c.offers \subseteq Deliveries /\ (fresh => Settles(c)) /\ sheet.loaded
      /\ c.kind # "toggle" => c.job \in Deliveries
      /\ c.kind = "move" => c.to \in Onward
  BY <1>1, <1>3, HandlerIs
<1>5. sheet = [loaded |-> sheet.loaded, online |-> sheet.online, current |-> sheet.current, offers |-> sheet.offers, proof |-> sheet.proof]
      /\ sheet.current \in WorkShown /\ sheet.offers \subseteq Deliveries /\ sheet.proof \in BOOLEAN
  BY DeskIs
<1>q. c.kind # Nil /\ sheet.loaded
  BY <1>3, <1>4 DEF Nil
<1>6. CASE c.kind = "toggle"
  <2>1. PICK s : s = [loaded |-> sheet.loaded, online |-> sheet.online, current |-> sheet.current, offers |-> c.offers, proof |-> sheet.proof]
    OBVIOUS
  <2>2. sheet' = s
    BY <1>3, <1>5, <1>6, <2>1
  <2>3. s.loaded = sheet.loaded /\ s.online = sheet.online /\ s.current = sheet.current /\ s.offers = c.offers /\ s.proof = sheet.proof
    BY <2>1
  <2>4. s = [loaded |-> s.loaded, online |-> s.online, current |-> s.current, offers |-> s.offers, proof |-> s.proof]
    BY ONLY <2>1
  <2>5. s.current \in WorkShown /\ s.offers \subseteq Deliveries /\ s.proof \in BOOLEAN
    BY <1>4, <1>5, <1>6, <2>3
  <2>6. fresh => FitsWork(s.current, sheet.online, s.offers)
    BY <1>3, <1>4, <1>6, <2>3 DEF Settles, SheetFits
  <2>7. /\ ~mixed /\ s.proof => s.current.job = sheet.current.job /\ s.current.job \in proven
        /\ ~mixed /\ s.proof => sheet.proof \/ c.kind = "pod"
        /\ ~mixed => s.current = sheet.current \/ c.kind = "move"
    BY <1>1, <1>6, <2>3, ProofIs
  <2>8. QED BY <1>1, <1>2, <1>q, <2>2, <2>3, <2>4, <2>5, <2>6, <2>7, OutcomeKeeps
<1>7. CASE c.kind = "reject"
  <2>1. PICK s : s = [loaded |-> sheet.loaded, online |-> sheet.online, current |-> sheet.current, offers |-> sheet.offers \ {c.job}, proof |-> sheet.proof]
    OBVIOUS
  <2>2. sheet' = s
    BY <1>3, <1>5, <1>7, <2>1
  <2>3. s.loaded = sheet.loaded /\ s.online = sheet.online /\ s.current = sheet.current /\ s.offers = sheet.offers \ {c.job} /\ s.proof = sheet.proof
    BY <2>1
  <2>4. s = [loaded |-> s.loaded, online |-> s.online, current |-> s.current, offers |-> s.offers, proof |-> s.proof]
    BY ONLY <2>1
  <2>5. s.current \in WorkShown /\ s.offers \subseteq Deliveries /\ s.proof \in BOOLEAN
    BY <1>4, <1>5, <1>7, <2>3
  <2>6. fresh => FitsWork(s.current, sheet.online, s.offers)
    BY <1>3, <1>4, <1>7, <2>3 DEF Settles, SheetFits
  <2>7. /\ ~mixed /\ s.proof => s.current.job = sheet.current.job /\ s.current.job \in proven
        /\ ~mixed /\ s.proof => sheet.proof \/ c.kind = "pod"
        /\ ~mixed => s.current = sheet.current \/ c.kind = "move"
    BY <1>1, <1>7, <2>3, ProofIs
  <2>8. QED BY <1>1, <1>2, <1>q, <2>2, <2>3, <2>4, <2>5, <2>6, <2>7, OutcomeKeeps
<1>8. CASE c.kind = "pod"
  <2>d. c.step = "done"
    BY <1>3, <1>8
  <2>1. PICK s : s = [loaded |-> sheet.loaded, online |-> sheet.online, current |-> sheet.current, offers |-> sheet.offers, proof |-> TRUE]
    OBVIOUS
  <2>2. sheet' = s
    BY <1>3, <1>5, <1>8, <2>1
  <2>3. s.loaded = sheet.loaded /\ s.online = sheet.online /\ s.current = sheet.current /\ s.offers = sheet.offers /\ s.proof = TRUE
    BY <2>1
  <2>4. s = [loaded |-> s.loaded, online |-> s.online, current |-> s.current, offers |-> s.offers, proof |-> s.proof]
    BY ONLY <2>1
  <2>5. s.current \in WorkShown /\ s.offers \subseteq Deliveries /\ s.proof \in BOOLEAN
    BY <1>4, <1>5, <1>8, <2>3
  <2>6. fresh => FitsWork(s.current, sheet.online, s.offers)
    BY <1>3, <1>4, <1>8, <2>3 DEF Settles, SheetFits
  <2>7. /\ ~mixed /\ s.proof => s.current.job = sheet.current.job /\ s.current.job \in proven
        /\ ~mixed /\ s.proof => sheet.proof \/ c.kind = "pod"
        /\ ~mixed => s.current = sheet.current \/ c.kind = "move"
    BY <1>1, <2>d, <1>8, <2>3, ProofIs
  <2>8. QED BY <1>1, <1>2, <1>q, <2>2, <2>3, <2>4, <2>5, <2>6, <2>7, OutcomeKeeps
<1>9. CASE c.kind = "move" /\ c.to = "DELIVERED"
  <2>1. PICK s : s = [loaded |-> sheet.loaded, online |-> sheet.online, current |-> NoWork, offers |-> sheet.offers, proof |-> FALSE]
    OBVIOUS
  <2>2. sheet' = s
    BY <1>3, <1>5, <1>9, <2>1
  <2>3. s.loaded = sheet.loaded /\ s.online = sheet.online /\ s.current = NoWork /\ s.offers = sheet.offers /\ s.proof = FALSE
    BY <2>1
  <2>4. s = [loaded |-> s.loaded, online |-> s.online, current |-> s.current, offers |-> s.offers, proof |-> s.proof]
    BY ONLY <2>1
  <2>5. s.current \in WorkShown /\ s.offers \subseteq Deliveries /\ s.proof \in BOOLEAN
    BY <1>4, <1>5, <1>9, <2>3 DEF WorkShown
  <2>6. fresh => FitsWork(s.current, sheet.online, s.offers)
    BY <1>3, <1>4, <1>9, <2>3 DEF Settles, SheetFits
  <2>7. /\ ~mixed /\ s.proof => s.current.job = sheet.current.job /\ s.current.job \in proven
        /\ ~mixed /\ s.proof => sheet.proof \/ c.kind = "pod"
        /\ ~mixed => s.current = sheet.current \/ c.kind = "move"
    BY <1>1, <1>9, <2>3, ProofIs
  <2>8. QED BY <1>1, <1>2, <1>q, <2>2, <2>3, <2>4, <2>5, <2>6, <2>7, OutcomeKeeps
<1>10. CASE c.kind = "move" /\ c.to # "DELIVERED"
  <2>1. PICK w : w = [job |-> c.job, status |-> c.to]
    OBVIOUS
  <2>2. w \in WorkShown /\ w.job = c.job
    BY <1>4, <1>10, <2>1 DEF Onward, AtWork, WorkShown
  <2>3. PICK s : s = [loaded |-> sheet.loaded, online |-> sheet.online, current |-> w, offers |-> sheet.offers, proof |-> sheet.proof]
    OBVIOUS
  <2>4. sheet' = s
    BY <1>3, <1>5, <1>10, <2>1, <2>3
  <2>5. s.loaded = sheet.loaded /\ s.online = sheet.online /\ s.current = w /\ s.offers = sheet.offers /\ s.proof = sheet.proof
    BY <2>3
  <2>6. s = [loaded |-> s.loaded, online |-> s.online, current |-> s.current, offers |-> s.offers, proof |-> s.proof]
    BY ONLY <2>3
  <2>7. s.current \in WorkShown /\ s.offers \subseteq Deliveries /\ s.proof \in BOOLEAN
    BY <1>4, <1>5, <1>10, <2>5, <2>2
  <2>8. fresh => FitsWork(s.current, sheet.online, s.offers)
    BY <1>3, <1>4, <1>10, <2>5, <2>1 DEF Settles, SheetFits
  <2>9. /\ ~mixed /\ s.proof => s.current.job = sheet.current.job /\ s.current.job \in proven
        /\ ~mixed /\ s.proof => sheet.proof \/ c.kind = "pod"
        /\ ~mixed => s.current = sheet.current \/ c.kind = "move"
    BY <1>1, <1>10, <2>5, ProofIs, <2>2
  <2>10. QED BY <1>1, <1>2, <1>q, <2>4, <2>5, <2>6, <2>7, <2>8, <2>9, OutcomeKeeps
<1>11. QED BY <1>3, <1>6, <1>7, <1>8, <1>9, <1>10

-----------------------------------------------------------------------------
\* Steps elsewhere keep the invariant.
LEMMA DriverStutters == DriverInv /\ UNCHANGED driverDeskVars => DriverInv'
<1> SUFFICES ASSUME DriverInv, UNCHANGED driverDeskVars PROVE DriverInv'
  OBVIOUS
<1>1. UNCHANGED <<leg, active, online, proven, sheet, handlers, fresh, mixed>>
  BY DEF driverDeskVars
<1>2. DriverTypes'
  BY <1>1 DEF DriverInv, DriverTypes, IsHandler
<1>3. FreshIsSettled'
  BY <1>1 DEF DriverInv, FreshIsSettled, Settles, SheetFits, FitsWork, Work, Offered, Resting
<1>4. ProofIsOfTheJob'
  BY <1>1 DEF DriverInv, ProofIsOfTheJob
<1>5. QED BY <1>2, <1>3, <1>4 DEF DriverInv

\* Every step of the driver's page keeps it.
LEMMA DriverStepInv == DriverInv /\ [DriverDeskNext]_driverDeskVars => DriverInv'
<1> SUFFICES ASSUME DriverInv, [DriverDeskNext]_driverDeskVars PROVE DriverInv'
  OBVIOUS
<1>1. CASE LoadDesk \/ ReloadDesk \/ handleToggleAvailability \/ handleTransition \/ handleCreatePod
  BY <1>1, LoadDeskKeeps, ReloadKeeps, ToggleKeeps, MoveBegins, ProofBegins
<1>2. CASE \E j \in Deliveries : handleAcceptOffer(j) \/ handleRejectOffer(j) \/ Elsewhere(j)
  BY <1>2, AcceptBegins, RejectBegins, ElsewhereKeeps
<1>3. CASE \E n \in Hands : \/ AnswerDriver(n) \/ LoadAccepted(n) \/ ShowDesk(n) \/ ShowAvailability(n) \/ ShowOutcome(n) \/ Fail(n)
  BY <1>3, AnswerKeeps, LoadAcceptedKeeps, ShowDeskKeeps, ShowAvailabilityKeeps, ShowOutcomeKeeps, FailKeeps
<1>4. CASE UNCHANGED driverDeskVars
  BY <1>4, DriverStutters
<1>5. QED BY <1>1, <1>2, <1>3, <1>4, Zenon DEF DriverDeskNext

\* The invariant says that the page matches the work.
LEMMA DriverHolds == DriverInv => DeskMatchesWork
<1> SUFFICES ASSUME DriverInv PROVE DeskMatchesWork
  OBVIOUS
<1>1. ShowsTheWork
  BY DEF DriverInv, FreshIsSettled, SheetFits, FitsWork, Offered, ShowsTheWork, AtEase
<1>2. ProofIsThere
  BY DEF DriverInv, ProofIsOfTheJob, ProofIsThere
<1>3. QED BY <1>1, <1>2 DEF DeskMatchesWork
=============================================================================
