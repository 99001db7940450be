-------------------------------- MODULE HashSlots --------------------------------
(***************************************************************************)
(* What the pool of hashing slots promises, whatever it is built with: no   *)
(* more clients hold a slot than there are slots, nobody waits while one is  *)
(* free, a slot given back goes to someone who waits, and everyone who asks  *)
(* gets one and gives it back.  A slot may be lost with the client's panic.  *)
(***************************************************************************)
EXTENDS Naturals, FiniteSets

CONSTANTS Client, Slots

VARIABLES waiting, holding,   \* the clients that wait for a slot, and that have one
          lost                \* how many slots will never come back

vars == <<waiting, holding, lost>>

Init == waiting = {} /\ holding = {} /\ lost = 0

Full == Cardinality(holding) + lost >= Slots

Ask(c) ==
    /\ c \notin waiting \cup holding
    /\ IF Full THEN waiting' = waiting \cup {c} /\ UNCHANGED holding
               ELSE holding' = holding \cup {c} /\ UNCHANGED waiting
    /\ UNCHANGED lost

Return(c) ==
    /\ c \in holding
    /\ \/ waiting = {} /\ holding' = holding \ {c} /\ UNCHANGED waiting
       \/ \E w \in waiting : /\ holding' = (holding \ {c}) \cup {w}
                             /\ waiting' = waiting \ {w}
    /\ UNCHANGED lost

Lose(c) ==
    /\ c \in holding
    /\ holding' = holding \ {c}
    /\ lost' = lost + 1
    /\ UNCHANGED waiting

Next == \E c \in Client : Ask(c) \/ Return(c) \/ Lose(c)

Safe == Init /\ [][Next]_vars

Served == \A c \in Client : /\ c \in waiting ~> c \in holding
                            /\ c \in holding ~> c \notin holding

Spec == Safe /\ Served

=============================================================================
