SPECIFICATION FairSpec
CONSTANTS
    ann = ann
    bob = bob
    t1 = t1
    t2 = t2
    l1 = l1
    l2 = l2
    f1 = f1
    none = none
    NoOne <- none
    Accounts <- TwoAccounts
    Tasks <- TwoTasks
    Lists <- TwoLists
    Forms <- OneForm
    MaxLoads = 1
INVARIANTS
    TypeOK
    ActsAsShown
    ShellListsOwn
PROPERTIES
    PagesSettle
    SpinnersEnd
CHECK_DEADLOCK FALSE
