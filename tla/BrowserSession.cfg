SPECIFICATION Spec
CONSTANTS
    Tab = {x, y}
    User = {ann, bob}
    Session = {s1, s2}
    Csrf = {c1, c2, c3}
    Flash = {f1}
    Opened <- Addresses
    Sent = {"/login", "/register", "/logout", "/settings/password", "/logout-all"}
    MaxActs = 4
    MaxUpsets = 2
SYMMETRY Symmetric
CHECK_DEADLOCK FALSE
INVARIANTS
    ActsForTheUserShown
    UndisturbedFormsPass
    MessagesArrive
    ShellIsTruthful
    
