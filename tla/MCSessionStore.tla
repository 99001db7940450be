----------------------------- MODULE MCSessionStore -----------------------------
(* Small instances of SessionStore for TLC.                                 *)
EXTENDS SessionStore, TLC

Symmetric == Permutations(Token) \cup Permutations(Request)

=============================================================================
