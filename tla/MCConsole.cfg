SPECIFICATION ConsoleSpec
CONSTANTS
    ann = ann
    bob = bob
    None = None
    Users = {ann, bob}
    Names = {1}
    InitialNames = {1}
    Accounts = {ann}
    Kinds <- AllKinds
    Slots = {1, 2}
    MaxLogins = 1
    MaxChanges = 2
    MaxFaults = 1
INVARIANTS
    ConsoleTypeOK
    LogoutHolds
    NoForeignItems
    QuietListIsCurrent
PROPERTIES
    SessionStaysCoherent
    
CHECK_DEADLOCK FALSE
