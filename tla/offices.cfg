SPECIFICATION Spec
CONSTANTS
 Requests = {r1}
 Admins = {a1,a2}
 Columns = {"nextFollowUpAt"}
 Entries = {"d1"}
 MaxRequestWrites = 2
 Escalations = {e1}
 Operators = {o1,o2}
 TestEscalations = {e1}
 MaxEscalationWrites = 2
 PlatformAdmins = {p1,p2}
 OtherUsers = {u1}
 PlatformOrgs = {g1}
 OtherOrgs = {}
 MaxRulings = 3
 People = {"ann","flo"}
 Strangers = {s1}
 Founders <- FoundersChosen
 Desks = {d1,d2}
 MaxTeamWork = 3
 BusinessKeys = {"b1","b2"}
 JobKeys = {"j1","j2"}
 Quotes = {"q1","q2"}
 Attempts = {"r1","r2","r3"}
 Categories = {c1}
 MenuItems = {i1}
 CategoryFields = {"name","isActive"}
 ItemFields = {"categoryId","isActive"}
 Labels = {l1,l2}
 MenuRequests = {m1,m2}
 MaxTrail = 4
 ReviewSubjects = {"s1"}
 Reviewers = {l1,l2}
 ReviewRequests = {m1,m2}
 MaxReviews = 2
 MaxReviewEvents = 4
SYMMETRY Interchangeable
CHECK_DEADLOCK FALSE
INVARIANTS OfficesTypeOK HistoriesTell AnAdminRemains KeysDecide RollbackReaches TwinsAreExplained
PROPERTY HandWorkStays
