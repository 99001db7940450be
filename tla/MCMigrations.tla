------------------------------ MODULE MCMigrations ------------------------------
(* A small instance of Migrations for TLC: two releases, a branch that edited *)
(* the second file, and a merge with two files of one version.              *)
EXTENDS Migrations, TLC

F(version, body) == [version |-> version, body |-> body]

Builds == {{F(1, "a")},
           {F(1, "a"), F(2, "b")},
           {F(1, "a"), F(2, "edited"), F(3, "c")},
           {F(1, "a"), F(2, "b"), F(2, "edited")}}

Bodies == {"a", "b", "c", "edited"}

Symmetric == Permutations(Replica)

=============================================================================
