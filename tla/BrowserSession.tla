--------------------------- MODULE BrowserSession ---------------------------
(***************************************************************************)
(* Who is signed in, in one browser tab (apps/web, business-auth-provider, *)
(* auth, onboarding-flow, route-protection).  The Supabase client keeps    *)
(* the account and announces changes, also those of other tabs; the        *)
(* provider turns every announcement into a call for the account's         *)
(* business context and applies only the newest attempt; the sign-in page  *)
(* fetches the same context on its own and applies it directly.            *)
(***************************************************************************)
EXTENDS Naturals, Sequences, FiniteSets

CONSTANTS Accounts, MaxAttempts   \* bound: attempts to restore a session

ASSUME AttemptsAssumption == MaxAttempts \in Nat

VARIABLES supabase,    \* the account the client keeps, or NoOne
          onboarded,   \* accounts that have an organisation
          announced,   \* announcements the listener has still to hear
          restore,     \* what waits for the client: nothing, the mount's restore, a refresh
          attempt,     \* restoreAttemptRef
          contexts,    \* calls for a context under way
          tab,         \* status and session of the provider
          cached,      \* the session kept in local storage
          cookie,      \* the cookie that the middleware of /app reads
          signingOut,  \* signOut waits for the client, or failed
          flow         \* what the sign-in page is doing

sessionVars == <<supabase, onboarded, announced, restore, attempt, contexts, tab, cached, cookie,
                 signingOut, flow>>

NoOne == "no one"
NoSession == [user |-> NoOne, org |-> FALSE]
SessionOf(a, org) == [user |-> a, org |-> org]
NoFlow == [step |-> "none"]
Tab(status, session, by) == [status |-> status, session |-> session, by |-> by]

SessionInit ==
  /\ supabase \in Accounts \cup {NoOne} /\ onboarded \in SUBSET Accounts
  /\ announced = <<>> /\ restore = "mount" /\ attempt = 0 /\ contexts = {}
  /\ tab = Tab("loading", NoSession, "nobody")
  /\ cached \in {NoSession} \cup {SessionOf(a, a \in onboarded) : a \in Accounts}
  /\ cookie = (supabase # NoOne) /\ signingOut = "no" /\ flow = NoFlow

-----------------------------------------------------------------------------
\* The client announces a change: the cookie follows at once, the listener later.
Announce(kind, a) ==
  /\ Len(announced) < 2
  /\ announced' = Append(announced, [kind |-> kind, account |-> a])
  /\ cookie' = (a # NoOne)

TokenRefreshed ==
  /\ supabase # NoOne
  /\ Announce("TOKEN_REFRESHED", supabase)
  /\ UNCHANGED <<supabase, onboarded, restore, attempt, contexts, tab, cached, signingOut, flow>>

SignedInElsewhere(a) ==
  /\ supabase # a
  /\ supabase' = a
  /\ Announce("SIGNED_IN", a)
  /\ UNCHANGED <<onboarded, restore, attempt, contexts, tab, cached, signingOut, flow>>

SignedOutElsewhere ==
  /\ supabase # NoOne
  /\ supabase' = NoOne
  /\ Announce("SIGNED_OUT", NoOne)
  /\ UNCHANGED <<onboarded, restore, attempt, contexts, tab, cached, signingOut, flow>>

-----------------------------------------------------------------------------
\* Without a session, from which every failure starts again.
Cleared(status) == /\ tab' = Tab(status, NoSession, "nobody")
                   /\ cached' = NoSession
                   /\ cookie' = FALSE

resetToUnauthenticated ==
  attempt' = attempt + 1 /\ contexts' = contexts /\ Cleared("unauthenticated")

\* Every resolution supersedes the ones before it.
resolveBusinessSession(a) ==
  /\ attempt < MaxAttempts
  /\ attempt' = attempt + 1
  /\ IF a = NoOne
       THEN contexts' = contexts /\ Cleared("unauthenticated")
       ELSE /\ contexts' = contexts \cup {[attempt |-> attempt + 1, account |-> a, step |-> "sent",
                                           org |-> FALSE]}
            /\ UNCHANGED <<tab, cached>>
            /\ cookie' = TRUE

\* The listener hears the oldest announcement.
HearAnnouncement ==
  /\ announced # <<>> /\ attempt <= MaxAttempts
  /\ announced' = Tail(announced)
  /\ IF Head(announced).kind = "SIGNED_OUT"
       THEN resetToUnauthenticated
       ELSE /\ resolveBusinessSession(Head(announced).account)
  /\ UNCHANGED <<supabase, onboarded, restore, signingOut, flow>>

\* getCurrentAuthSession at mount, refreshCurrentAuthSession at a click.
ClickRefresh ==
  /\ restore \notin {"mount", "refresh"} /\ tab.status \notin {"loading", "unauthenticated"}
  /\ restore' = "refresh"
  /\ UNCHANGED <<supabase, onboarded, announced, attempt, contexts, tab, cached, cookie,
                 signingOut, flow>>

RestoreAnswers ==
  /\ restore \in {"mount", "refresh"}
  /\ restore' = "none"
  /\ resolveBusinessSession(supabase)
  /\ UNCHANGED <<supabase, onboarded, announced, signingOut, flow>>

RestoreTimesOut ==
  /\ restore \in {"mount", "refresh"} /\ attempt + 1 < MaxAttempts
  /\ restore' = "none"
  /\ resetToUnauthenticated
  /\ UNCHANGED <<supabase, onboarded, announced, signingOut, flow>>

\* The only end of a restore that does not supersede the attempts under way.
RestoreFails ==
  /\ restore = "mount"
  /\ restore' = "failed"
  /\ Cleared("error")
  /\ UNCHANGED <<supabase, onboarded, announced, attempt, contexts, signingOut, flow>>

-----------------------------------------------------------------------------
Newest_Any(c) == TRUE
Newest(c) == c.attempt = attempt

AnswerContext(c) ==
  /\ c.step = "sent"
  /\ contexts' = (contexts \ {c}) \cup {[c EXCEPT !.step = "answered", !.org = c.account \in onboarded]}
  /\ UNCHANGED <<supabase, onboarded, announced, restore, attempt, tab, cached, cookie, signingOut, flow>>

\* hydrateSession, for the newest attempt only.
ApplyContext(c) ==
  /\ c.step = "answered"
  /\ contexts' = contexts \ {c}
  /\ IF Newest(c)
       THEN /\ tab' = Tab("authenticated", SessionOf(c.account, c.org), "restore")
            /\ cached' = SessionOf(c.account, c.org)
       ELSE UNCHANGED <<tab, cached>>
  /\ UNCHANGED <<supabase, onboarded, announced, restore, attempt, cookie, signingOut, flow>>

Expired == Cleared("unauthenticated")

ContextTimesOut(c) ==
  /\ contexts' = contexts \ {c}
  /\ IF Newest(c) THEN Expired ELSE UNCHANGED <<tab, cached, cookie>>
  /\ UNCHANGED <<supabase, onboarded, announced, restore, attempt, signingOut, flow>>

\* A cached session of the same account stands in for a context that cannot be read.
StandIn(c) == cached.user = c.account

ContextFails(c) ==
  /\ contexts' = contexts \ {c}
  /\ IF ~Newest(c) THEN UNCHANGED <<tab, cached, cookie>>
     ELSE IF StandIn(c) THEN /\ tab' = Tab("authenticated", cached, "restore")
                             /\ UNCHANGED <<cached, cookie>>
     ELSE Cleared("error")
  /\ UNCHANGED <<supabase, onboarded, announced, restore, attempt, signingOut, flow>>

-----------------------------------------------------------------------------
\* signOut invalidates the attempts at once and clears the session when the client has.
ClickSignOut ==
  /\ tab.status \in {"authenticated", "error"} /\ signingOut # "waiting"
  /\ attempt < MaxAttempts
  /\ attempt' = attempt + 1
  /\ signingOut' = "waiting"
  /\ UNCHANGED <<supabase, onboarded, announced, restore, contexts, tab, cached, cookie, flow>>

SignOutAnswers ==
  /\ signingOut = "waiting"
  /\ signingOut' = "no"
  /\ supabase' = NoOne
  /\ Announce("SIGNED_OUT", NoOne)
  /\ tab' = Tab("unauthenticated", NoSession, "nobody") /\ cached' = NoSession
  /\ UNCHANGED <<onboarded, restore, attempt, contexts, flow>>

SignOutFails ==
  /\ signingOut = "waiting"
  /\ signingOut' = "failed"
  /\ UNCHANGED <<supabase, onboarded, announced, restore, attempt, contexts, tab, cached, cookie, flow>>

-----------------------------------------------------------------------------
\* The sign-in page: sign in, read the context, create the organisation if there is none.
SubmitSignIn(a) ==
  /\ flow.step \in {"none", "setup"}
  /\ supabase' = a
  /\ Announce("SIGNED_IN", a)
  /\ flow' = [step |-> "context", account |-> a]
  /\ UNCHANGED <<onboarded, restore, attempt, contexts, tab, cached, signingOut>>

ReadContext ==
  /\ flow.step = "context"
  /\ flow' = [flow EXCEPT !.step = IF flow.account \in onboarded THEN "open" ELSE "setup"]
  /\ UNCHANGED <<supabase, onboarded, announced, restore, attempt, contexts, tab, cached, cookie,
                 signingOut>>

\* createBusinessOrg, retried and recovered until its answer or the context shows it.
CreateOrganisation ==
  /\ flow.step = "setup"
  /\ onboarded' = onboarded \cup {flow.account}
  /\ flow' = [flow EXCEPT !.step = "open"]
  /\ UNCHANGED <<supabase, announced, restore, attempt, contexts, tab, cached, cookie, signingOut>>

\* hydrateSession, without an attempt of its own, and on to the dashboard.
OpenDashboard ==
  /\ flow.step = "open"
  /\ tab' = Tab("authenticated", SessionOf(flow.account, TRUE), "onboarding")
  /\ cached' = SessionOf(flow.account, TRUE)
  /\ flow' = NoFlow
  /\ UNCHANGED <<supabase, onboarded, announced, restore, attempt, contexts, cookie, signingOut>>

FlowFails ==
  /\ flow.step \in {"context", "open"}
  /\ flow' = NoFlow
  /\ UNCHANGED <<supabase, onboarded, announced, restore, attempt, contexts, tab, cached, cookie,
                 signingOut>>

SessionNext ==
  \/ TokenRefreshed \/ SignedOutElsewhere \/ HearAnnouncement
  \/ ClickRefresh \/ RestoreAnswers \/ RestoreTimesOut \/ RestoreFails
  \/ ClickSignOut \/ SignOutAnswers \/ SignOutFails
  \/ \E a \in Accounts : SignedInElsewhere(a) \/ SubmitSignIn(a)
  \/ \E c \in contexts : AnswerContext(c) \/ ApplyContext(c) \/ ContextTimesOut(c) \/ ContextFails(c)
  \/ ReadContext \/ CreateOrganisation \/ OpenDashboard \/ FlowFails

-----------------------------------------------------------------------------
SessionTypeOK ==
  /\ supabase \in Accounts \cup {NoOne} /\ onboarded \subseteq Accounts
  /\ tab.status \in {"loading", "authenticated", "unauthenticated", "error"}
  /\ attempt \in 0..MaxAttempts + 1 /\ Len(announced) <= 2
  /\ cookie \in BOOLEAN /\ signingOut \in {"no", "waiting", "failed"}

Awaited == restore \in {"mount", "refresh"} \/ announced # <<>> \/ \E c \in contexts : Newest(c)

\* A restored session is the client's account once every announcement is heard and the
\* newest attempt is over: an older attempt or another tab's sign-out never leaves the
\* wrong account, or a signed-out one, in place (except after a failed sign-out, which has
\* dropped the newest attempt).
RestoredIsCurrent ==
  tab.status = "authenticated" /\ tab.by = "restore" /\ ~Awaited /\ signingOut = "no" =>
    tab.session.user = supabase

\* A restored session always has the cookie, so that /app does not turn it away (except
\* where the restore at mount failed: it clears the cookie and lets a call go on).
RestoredHasCookie ==
  /\ tab.status = "authenticated" /\ tab.by = "restore"
  /\ ~Awaited /\ restore # "failed"
  => cookie

\* The page shows that it loads only while something is awaited that will end it.
NeverStuckLoading ==
  tab.status = "loading" => Awaited
=============================================================================
