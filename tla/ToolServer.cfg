\* Two operators and two calls at once, beside edits and a killed command.
SPECIFICATION Spec
CONSTANTS
    Listing <- MCListing
    ResourceListing <- MCResources
    Walk <- MCWalk
    Contents = {"a", "b"}
    Defines <- MCDefines
    Profile = Null
    Null = Null
    Operators = {o1, o2}
    Reviews <- MCReviews
    Templates <- MCTemplates
    Edits <- MCEdits
    Workspaces <- MCWorkspaces
    Budgets <- MCBudgets
    Calls = {c1, c2}
    MaxStarts = 1
    o1 = o1
    o2 = o2
    c1 = c1
    c2 = c2
SYMMETRY Symmetry
CHECK_DEADLOCK FALSE
INVARIANTS
    ConfigMirrorsStore
    ApprovedToolsAreSealed
    
    BarredCallsNeverRun
    VerifiedContentWasApproved
