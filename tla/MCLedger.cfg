SPECIFICATION FairSpec
CONSTANTS
    Workspaces = {"ws1"}
    Entries <- MoneyEntries
    Writers = {"w1", "w2", "w3"}
    Processes = {"p1", "p2"}
    ProcessOf <- TwoProcesses
    Sqlite = FALSE
    MaxCrash = 1
INVARIANTS BalanceIsSum OncePerKey AckedIsRecorded
PROPERTIES OnlyOwedOverdraws RefinesAccount CallsEnd
