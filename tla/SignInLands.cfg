SPECIFICATION Spec
CONSTANTS
    Tab = {x}
    User = {ann}
    Session = {s1, s2}
    Csrf = {c1, c2, c3}
    Flash = {f1}
    Opened <- Settings
    Sent = {"/login", "/settings/password"}
    MaxActs = 4
    MaxUpsets = 1
CHECK_DEADLOCK FALSE
INVARIANT
    SignInLandsOnAPage
