------------------------------ MODULE SchemaHistory ------------------------------
(***************************************************************************)
(* What the migration runner promises, without replicas, locks or failures: *)
(* the schema is a history of migration files.  It grows by one whole file   *)
(* at a time, and only as some build prescribes: everything that has run is  *)
(* in that build, and the file that runs is its first that has not.         *)
(***************************************************************************)
EXTENDS Sequences, Naturals

CONSTANT Build       \* each build: the migration files one binary carries

VARIABLE schema      \* the files that have run, oldest first

Ran == {schema[i] : i \in DOMAIN schema}

Init == schema = <<>>

Run(b) ==
    /\ Ran \subseteq b
    /\ \E f \in b \ Ran :
          /\ \A g \in b \ Ran : f.version <= g.version
          /\ schema' = Append(schema, f)

Next == \E b \in Build : Run(b)

Spec == Init /\ [][Next]_schema

=============================================================================
