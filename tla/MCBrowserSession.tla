---------------------------- MODULE MCBrowserSession -----------------------------
(* Small instances of BrowserSession for TLC.                               *)
EXTENDS BrowserSession, TLC

Symmetric == Permutations(Tab) \cup Permutations(Session) \cup Permutations(Csrf)
               \cup Permutations(Flash) \cup Permutations(User)

\* An address, and a link that leads to the other form once somebody is signed in.
Addresses == {<<"/settings", None>>, <<"/login", "/register">>}

Settings == {<<"/settings", None>>}

=============================================================================
