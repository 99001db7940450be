----------------------------- MODULE MCAuthService ------------------------------
(* Small instances of AuthService for TLC.                                  *)
EXTENDS AuthService, TLC

Symmetric == Permutations(Request) \cup Permutations(Token) \cup Permutations(Password)
               \cup Permutations(UserId)

=============================================================================
