------------------------------ MODULE HasherProofs ------------------------------
(***************************************************************************)
(* The safety part of what HashSlots promises and the equal cost of          *)
(* refusals, for every set of requests, number of slots and memory setting.  *)
(* That everyone is served is liveness and left to TLC.                      *)
(***************************************************************************)
EXTENDS Hasher, FiniteSetTheorems, SequenceTheorems, TLAPS

Distinct(s) == \A i, j \in 1..Len(s) : s[i] = s[j] => i = j

\* A request is in the pool exactly while it is at a hash.
Hashing == {"verify", "hash"}
Placed ==
    /\ Distinct(queue)
    /\ holding \cap Range(queue) = {}
    /\ \A q \in Request : call[q].at \in Hashing <=> q \in holding \cup Range(queue)

\* Each request has spent what its progress needs, and the decoy is there before
\* the first does.
Counted ==
    \A q \in Request :
        /\ call[q].at = "read" => call[q].spent = 0
        /\ call[q].at \in {"verify", "checked"} =>
              call[q].spent = call[q].row.memory /\ call[q].row.kind # "unreadable"
        /\ call[q].at # "idle" => dummy /\ call[q].reply = "none"
        /\ call[q].at \in {"read", "verify", "checked"} => call[q].op # "register"

IInv == TypeOK /\ Placed /\ Counted /\ RefusalsCostTheirRow

---------------------------------------------------------------------------
\* What joining a line adds to it.
LEMMA AppendAdds ==
  ASSUME NEW S, NEW s \in Seq(S), NEW x \in S, x \notin Range(s), Distinct(s)
  PROVE  /\ Append(s, x) \in Seq(S)
         /\ Range(Append(s, x)) = Range(s) \cup {x}
         /\ Distinct(Append(s, x))
  <1>1. /\ Append(s, x) \in Seq(S) /\ Len(Append(s, x)) = Len(s) + 1
        /\ \A i \in 1..Len(s) : Append(s, x)[i] = s[i]
        /\ Append(s, x)[Len(s) + 1] = x /\ Len(s) \in Nat
        /\ DOMAIN s = 1..Len(s) /\ DOMAIN Append(s, x) = 1..(Len(s) + 1)
    BY AppendProperties, LenProperties
  <1>2. Range(Append(s, x)) = Range(s) \cup {x}
    BY <1>1 DEF Range
  <1>3. \A i \in 1..Len(s) : s[i] # x
    BY <1>1 DEF Range
  <1>4. Distinct(Append(s, x))
    BY <1>1, <1>3 DEF Distinct
  <1> QED
    BY <1>1, <1>2, <1>4

\* What serving the first of a line leaves of it.
LEMMA TailLeaves ==
  ASSUME NEW S, NEW s \in Seq(S), s # <<>>, Distinct(s)
  PROVE  /\ Tail(s) \in Seq(S) /\ Head(s) \in Range(s) /\ Head(s) \in S
         /\ Range(Tail(s)) = Range(s) \ {Head(s)}
         /\ Distinct(Tail(s))
  <1>1. /\ Tail(s) \in Seq(S) /\ Len(Tail(s)) = Len(s) - 1
        /\ \A i \in 1..Len(Tail(s)) : Tail(s)[i] = s[i + 1]
        /\ Head(s) = s[1] /\ Head(s) \in S /\ Len(s) \in Nat \ {0}
        /\ DOMAIN s = 1..Len(s) /\ DOMAIN Tail(s) = 1..(Len(s) - 1)
    BY HeadTailProperties, EmptySeq, LenProperties
  <1>2. Head(s) \in Range(s)
    BY <1>1 DEF Range
  <1>3. ASSUME NEW y \in Range(Tail(s)) PROVE y \in Range(s) \ {Head(s)}
    <2>1. PICK i \in 1..(Len(s) - 1) : y = Tail(s)[i]
      BY <1>1 DEF Range
    <2>2. y = s[i + 1] /\ i + 1 \in 1..Len(s) /\ i + 1 # 1 /\ 1 \in 1..Len(s)
      BY <1>1, <2>1
    <2> QED
      BY <1>1, <2>2 DEF Range, Distinct
  <1>4. ASSUME NEW y \in Range(s) \ {Head(s)} PROVE y \in Range(Tail(s))
    <2>1. PICK i \in 1..Len(s) : y = s[i]
      BY <1>1 DEF Range
    <2>2. i # 1
      BY <1>1, <2>1
    <2>3. i - 1 \in 1..(Len(s) - 1) /\ Tail(s)[i - 1] = s[i]
      BY <1>1, <2>2
    <2> QED
      BY <1>1, <2>1, <2>3 DEF Range
  <1>5. Distinct(Tail(s))
    <2> SUFFICES ASSUME NEW i \in 1..Len(Tail(s)), NEW j \in 1..Len(Tail(s)),
                        Tail(s)[i] = Tail(s)[j]
                 PROVE  i = j
      BY DEF Distinct
    <2>1. s[i + 1] = s[j + 1] /\ i + 1 \in 1..Len(s) /\ j + 1 \in 1..Len(s)
      BY <1>1
    <2> QED
      BY <2>1 DEF Distinct
  <1> QED
    BY <1>1, <1>2, <1>3, <1>4, <1>5

\* A line is empty when nobody is in it.
LEMMA EmptyLine ==
  ASSUME NEW S, NEW s \in Seq(S)
  PROVE  Range(s) = {} <=> s = <<>>
  <1>1. Len(s) \in Nat /\ DOMAIN s = 1..Len(s) /\ (Len(s) = 0 <=> s = <<>>)
    BY EmptySeq, LenProperties
  <1>2. CASE s = <<>>
    BY <1>1, <1>2 DEF Range
  <1>3. CASE s # <<>>
    <2>1. 1 \in DOMAIN s
      BY <1>1, <1>3
    <2> QED
      BY <1>3, <2>1 DEF Range
  <1> QED
    BY <1>2, <1>3

---------------------------------------------------------------------------
Spot == [op : Op, at : {"idle", "read", "verify", "checked", "hash", "write", "issue"},
         reply : {"none", "refused"}, row : Row, spent : Nat]

LEMMA RowsAreRows == Missing \in Row /\ \A row \in Row : row.memory \in Nat
  <1>1. Missing \in Row
    BY DEF Row
  <1>2. ASSUME NEW row \in Row PROVE row.memory \in Nat
    <2>1. CASE row \in {Missing, Unreadable, Hollow}
      BY <2>1, HasherConfig DEF Missing, Unreadable, Hollow
    <2>2. CASE row \in [kind : {"readable"}, memory : Stored]
      BY <2>2, HasherConfig
    <2> QED
      BY <2>1, <2>2 DEF Row
  <1> QED
    BY <1>1, <1>2

\* What a run costs is a number.
LEMMA WorkIsNat == \A c \in Spot : Work(c) \in Nat
  BY RowsAreRows, HasherConfig DEF Work, Spot

\* acquire is the pool's Ask, and keeps everyone in place.
LEMMA AcquireAsks ==
  ASSUME TypeOK, Placed, NEW q \in Request, call[q].at \notin Hashing,
         NEW c \in Spot, c.at \in Hashing,
         Acquire(q, c), UNCHANGED lost
  PROVE  /\ Slot!Ask(q) /\ Placed'
         /\ call' \in [Request -> Spot] /\ queue' \in Seq(Request) /\ holding' \in SUBSET Request
         /\ call' = [call EXCEPT ![q] = [c EXCEPT !.spent = c.spent + Work(c)]]
  <1> USE DEF Hashing
  <1>1. q \notin holding \cup Range(queue)
    BY DEF Placed
  <1>2. /\ call' = [call EXCEPT ![q] = [c EXCEPT !.spent = c.spent + Work(c)]]
        /\ [c EXCEPT !.spent = c.spent + Work(c)] \in Spot
        /\ [c EXCEPT !.spent = c.spent + Work(c)].at = c.at
    BY WorkIsNat DEF Acquire, Spot
  <1>3. call' \in [Request -> Spot]
    BY <1>2 DEF TypeOK, Spot
  <1>4. \A r \in Request : call'[r].at = IF r = q THEN c.at ELSE call[r].at
    BY <1>2 DEF TypeOK
  <1>0. Slot!Full <=> Full
    BY DEF Slot!Full, Full, Slot!Cardinality, Cardinality
  <1>5. CASE Full
    <2>1. queue' = Append(queue, q) /\ holding' = holding
      BY <1>5 DEF Acquire, Line
    <2>2. queue' \in Seq(Request) /\ Range(queue') = Range(queue) \cup {q} /\ Distinct(queue')
      BY <1>1, <2>1, AppendAdds DEF TypeOK, Placed
    <2>3. Slot!Ask(q)
      BY <1>0, <1>1, <1>5, <2>1, <2>2 DEF Slot!Ask
    <2>4. Placed'
      BY <1>1, <1>4, <2>1, <2>2 DEF Placed
    <2> QED
      BY <1>2, <1>3, <2>1, <2>2, <2>3, <2>4 DEF TypeOK
  <1>6. CASE ~Full
    <2>1. queue' = queue /\ holding' = holding \cup {q}
      BY <1>6 DEF Acquire
    <2>2. Slot!Ask(q)
      BY <1>0, <1>1, <1>6, <2>1 DEF Slot!Ask
    <2>3. Placed'
      BY <1>1, <1>4, <2>1 DEF Placed
    <2> QED
      BY <1>2, <1>3, <2>1, <2>2, <2>3 DEF TypeOK
  <1> QED
    BY <1>5, <1>6

\* release is the pool's Return: the slot goes to the first in line.
LEMMA ReleaseReturns ==
  ASSUME TypeOK, Placed, NEW q \in holding, NEW c \in Spot, c.at \notin Hashing,
         Release(q), call' = [call EXCEPT ![q] = c], UNCHANGED lost
  PROVE  /\ Slot!Return(q) /\ Placed'
         /\ call' \in [Request -> Spot] /\ queue' \in Seq(Request) /\ holding' \in SUBSET Request
  <1> USE DEF Hashing
  <1>1. q \in Request /\ q \notin Range(queue)
    BY DEF TypeOK, Placed
  <1>2. call' \in [Request -> Spot]
    BY <1>1 DEF TypeOK, Spot
  <1>3. \A r \in Request : call'[r].at = IF r = q THEN c.at ELSE call[r].at
    BY DEF TypeOK
  <1>4. CASE queue = <<>>
    <2>1. holding' = holding \ {q} /\ queue' = queue /\ Range(queue) = {}
      BY <1>4, EmptyLine DEF Release, TypeOK
    <2> QED
      BY <1>1, <1>2, <1>3, <2>1 DEF Placed, TypeOK, Slot!Return
  <1>5. CASE queue # <<>>
    <2>1. holding' = (holding \ {q}) \cup {Head(queue)} /\ queue' = Tail(queue)
      BY <1>5 DEF Release
    <2>2. /\ queue' \in Seq(Request) /\ Head(queue) \in Range(queue) /\ Head(queue) \in Request
          /\ Range(queue') = Range(queue) \ {Head(queue)} /\ Distinct(queue')
      BY <1>5, <2>1, TailLeaves DEF TypeOK, Placed
    <2>3. Slot!Return(q)
      BY <2>1, <2>2 DEF Slot!Return
    <2>4. Placed'
      BY <1>1, <1>3, <2>1, <2>2 DEF Placed
    <2> QED
      BY <1>2, <2>1, <2>2, <2>3, <2>4 DEF TypeOK
  <1> QED
    BY <1>4, <1>5

\* A step outside the pool.
LEMMA NobodyMoves ==
  ASSUME TypeOK, Placed, NEW q \in Request, call[q].at \notin Hashing,
         NEW c \in Spot, c.at \notin Hashing,
         call' = [call EXCEPT ![q] = c], UNCHANGED <<queue, holding, lost>>
  PROVE  /\ UNCHANGED Slot!vars /\ Placed'
         /\ call' \in [Request -> Spot] /\ queue' \in Seq(Request) /\ holding' \in SUBSET Request
  <1> USE DEF Hashing
  <1>1. call' \in [Request -> Spot]
    BY DEF TypeOK, Spot
  <1>2. \A r \in Request : call'[r].at = IF r = q THEN c.at ELSE call[r].at
    BY DEF TypeOK
  <1> QED
    BY <1>1, <1>2 DEF Placed, TypeOK, Slot!vars

\* What a request's record must look like for the counts to hold.
Fits(c) ==
    /\ c.at = "read" => c.spent = 0
    /\ c.at \in {"verify", "checked"} => c.spent = c.row.memory /\ c.row.kind # "unreadable"
    /\ c.at # "idle" => dummy /\ c.reply = "none"
    /\ c.reply = "refused" => c.spent = Cost(c.row)
    /\ c.at \in {"read", "verify", "checked"} => c.op # "register"

LEMMA FitsKeeps ==
  ASSUME TypeOK, Counted, RefusalsCostTheirRow, NEW q \in Request, NEW c \in Spot, Fits(c),
         call' = [call EXCEPT ![q] = c], UNCHANGED dummy
  PROVE  Counted' /\ RefusalsCostTheirRow'
  <1>1. \A r \in Request : call'[r] = IF r = q THEN c ELSE call[r]
    BY DEF TypeOK
  <1> QED
    BY <1>1 DEF Counted, RefusalsCostTheirRow, Fits

\* A step of q is one of the pool's, or none.
PoolStep(q) == Slot!Ask(q) \/ Slot!Return(q) \/ Slot!Lose(q) \/ UNCHANGED Slot!vars

LEMMA IdleIsASpot == Idle \in Spot
  BY RowsAreRows DEF Idle, Spot, Op

\* The request ends or goes on without a slot, at a record that fits.
LEMMA OutsideKeeps ==
  ASSUME IInv, NEW q \in Request, call[q].at \notin Hashing, NEW c \in Spot,
         c.at \notin Hashing, Fits(c), call' = [call EXCEPT ![q] = c],
         UNCHANGED <<queue, holding, lost, dummy>>
  PROVE  IInv' /\ PoolStep(q)
  <1>1. UNCHANGED Slot!vars /\ Placed'
        /\ call' \in [Request -> Spot] /\ queue' \in Seq(Request) /\ holding' \in SUBSET Request
    BY NobodyMoves DEF IInv
  <1>2. Counted' /\ RefusalsCostTheirRow'
    BY FitsKeeps DEF IInv
  <1> QED
    BY <1>1, <1>2 DEF IInv, TypeOK, Spot, PoolStep

\* The request asks for a slot.
LEMMA AskingKeeps ==
  ASSUME IInv, NEW q \in Request, call[q].at \notin Hashing, NEW c \in Spot,
         c.at \in Hashing,
         c.at = "verify" => c.spent = 0 /\ c.op # "register" /\ c.row.kind # "unreadable",
         c.reply = "none", dummy, Acquire(q, c), UNCHANGED <<lost, dummy>>
  PROVE  IInv' /\ PoolStep(q)
  <1> DEFINE d == [c EXCEPT !.spent = c.spent + Work(c)]
  <1>1. /\ Slot!Ask(q) /\ Placed'
        /\ call' \in [Request -> Spot] /\ queue' \in Seq(Request) /\ holding' \in SUBSET Request
        /\ call' = [call EXCEPT ![q] = d]
    BY AcquireAsks DEF IInv
  <1>2. d \in Spot /\ Fits(d)
    <2>1. d \in Spot /\ d.at = c.at /\ d.op = c.op /\ d.row = c.row /\ d.reply = c.reply
          /\ d.spent = c.spent + Work(c) /\ c.row.memory \in Nat
      BY WorkIsNat, RowsAreRows DEF Spot
    <2> HIDE DEF d
    <2> QED
      BY <2>1 DEF Fits, Hashing, Work
  <1> HIDE DEF d
  <1>3. Counted' /\ RefusalsCostTheirRow'
    BY <1>1, <1>2, FitsKeeps DEF IInv
  <1> QED
    BY <1>1, <1>3 DEF IInv, TypeOK, Spot, PoolStep

\* The request gives its slot back.
LEMMA ReturningKeeps ==
  ASSUME IInv, NEW q \in Request, q \in holding, NEW c \in Spot, c.at \notin Hashing,
         Fits(c), Release(q), call' = [call EXCEPT ![q] = c], UNCHANGED <<lost, dummy>>
  PROVE  IInv' /\ PoolStep(q)
  <1>1. /\ Slot!Return(q) /\ Placed'
        /\ call' \in [Request -> Spot] /\ queue' \in Seq(Request) /\ holding' \in SUBSET Request
    BY ReleaseReturns DEF IInv
  <1>2. Counted' /\ RefusalsCostTheirRow'
    BY FitsKeeps DEF IInv
  <1> QED
    BY <1>1, <1>2 DEF IInv, TypeOK, Spot, PoolStep

---------------------------------------------------------------------------
LEMMA ArriveKeeps ==
  ASSUME IInv, NEW q \in Request, NEW op \in Op, Arrive(q, op)
  PROVE  IInv' /\ PoolStep(q)
  <1>0. Idle.spent = 0 /\ Idle.reply = "none"
    BY DEF Idle
  <1>1. call[q].at \notin Hashing /\ dummy /\ UNCHANGED <<lost, dummy>>
    BY DEF Arrive, Hashing
  <1>2. CASE op = "register"
    <2> DEFINE c == [Idle EXCEPT !.op = op, !.at = "hash"]
    <2>1. Acquire(q, c)
      BY <1>2 DEF Arrive
    <2>2. c \in Spot /\ c.at = "hash" /\ c.spent = 0 /\ c.reply = "none"
      BY <1>0, IdleIsASpot DEF Spot, Op
    <2> HIDE DEF c
    <2> QED
      BY <1>1, <2>1, <2>2, AskingKeeps DEF Hashing
  <1>3. CASE op # "register"
    <2> DEFINE c == [Idle EXCEPT !.op = op, !.at = "read"]
    <2>1. call' = [call EXCEPT ![q] = c] /\ UNCHANGED <<queue, holding, lost, dummy>>
      BY <1>3 DEF Arrive
    <2>2. c \in Spot /\ c.at = "read" /\ c.spent = 0 /\ c.reply = "none" /\ c.op = op
      BY <1>0, IdleIsASpot DEF Spot, Op
    <2> HIDE DEF c
    <2> QED
      BY <1>1, <1>3, <2>1, <2>2, OutsideKeeps DEF Hashing, Fits
  <1> QED
    BY <1>2, <1>3

\* The request is answered, from outside the pool.
LEMMA EndKeeps ==
  ASSUME IInv, NEW q \in Request, call[q].at \notin Hashing, End(q),
         UNCHANGED <<queue, holding, lost, dummy>>
  PROVE  IInv' /\ PoolStep(q)
  <1>1. Idle.at = "idle" /\ Idle.reply = "none"
    BY DEF Idle
  <1> QED
    BY <1>1, IdleIsASpot, OutsideKeeps DEF End, Fits, Hashing

\* The four ways Credentials goes on.
LEMMA ReadLeads ==
  ASSUME IInv, NEW q \in Request, NEW out \in Outcomes, NEW row \in Row, Read(q, out, row)
  PROVE  LET c == [At(q, "verify") EXCEPT !.row = row]
         IN  \/ End(q) /\ UNCHANGED <<queue, holding>>
             \/ SpendTime(q, c) /\ row.kind # "unreadable"
             \/ Refuse(q, c) /\ UNCHANGED <<queue, holding>> /\ row.kind = "unreadable"
             \/ Acquire(q, c) /\ row.kind # "unreadable"
  <1>1. call[q].at = "read" /\ call[q] \in Spot /\ call[q].op # "register"
    BY DEF Read, IInv, TypeOK, Counted, Spot
  <1>2. out \in {"ok", "failed"} /\ call[q].op \in Op
        /\ row.kind \in {"missing", "unreadable", "hollow", "readable"}
    BY <1>1 DEF Row, Missing, Unreadable, Hollow, Outcomes, Spot
  <1>3. \/ out = "failed" \/ (row.kind = "missing" /\ call[q].op = "change")
        \/ out = "ok" /\ row.kind = "missing" /\ call[q].op = "login"
        \/ out = "ok" /\ row.kind = "unreadable"
        \/ out = "ok" /\ row.kind \in {"readable", "hollow"}
    BY <1>1, <1>2 DEF Op
  <1> QED
    BY <1>2, <1>3 DEF Read

\* A refusal leaves the request idle, at a cost that fits.
LEMMA RefusalIsASpot ==
  ASSUME NEW c \in Spot
  PROVE  /\ Refused(c) \in Spot /\ Refused(c).at = "idle" /\ Refused(c).reply = "refused"
         /\ c.spent = Cost(c.row) => Fits(Refused(c))
  <1>1. /\ Refused(c) \in Spot /\ Refused(c).at = "idle" /\ Refused(c).reply = "refused"
        /\ Refused(c).spent = c.spent /\ Refused(c).row = c.row
    BY RowsAreRows DEF Refused, Idle, Spot, Op
  <1> QED
    BY <1>1 DEF Fits

LEMMA ReadKeeps ==
  ASSUME IInv, NEW q \in Request, NEW out \in Outcomes, NEW row \in Row, Read(q, out, row)
  PROVE  IInv' /\ PoolStep(q)
  <1> DEFINE c == [At(q, "verify") EXCEPT !.row = row]
  <1>1. /\ call[q].at = "read" /\ call[q].at \notin Hashing /\ UNCHANGED <<lost, dummy>>
        /\ dummy /\ call[q].reply = "none" /\ call[q].spent = 0 /\ call[q] \in Spot
        /\ call[q].op # "register"
    BY DEF Read, IInv, TypeOK, Counted, Spot, Hashing
  <1>2. c \in Spot /\ c.at = "verify" /\ c.spent = 0 /\ c.reply = "none" /\ c.op # "register"
        /\ c.row = row
    BY <1>1 DEF At, Spot
  <1>3. \/ End(q) /\ UNCHANGED <<queue, holding>>
        \/ SpendTime(q, c) /\ row.kind # "unreadable"
        \/ Refuse(q, c) /\ UNCHANGED <<queue, holding>> /\ row.kind = "unreadable"
        \/ Acquire(q, c) /\ row.kind # "unreadable"
    BY ReadLeads
  <1> HIDE DEF c
  <1>4. CASE End(q) /\ UNCHANGED <<queue, holding>>
    BY <1>1, <1>4, EndKeeps
  <1>5. CASE (SpendTime(q, c) \/ Acquire(q, c)) /\ row.kind # "unreadable"
    <2>1. Acquire(q, c)
      BY <1>1, <1>5 DEF SpendTime
    <2> QED
      BY <1>1, <1>2, <1>5, <2>1, AskingKeeps DEF Hashing
  <1>6. CASE Refuse(q, c) /\ UNCHANGED <<queue, holding>> /\ row.kind = "unreadable"
    <2>1. call' = [call EXCEPT ![q] = Refused(c)] \/ End(q)
      BY <1>6 DEF Refuse
    <2>2. c.spent = Cost(c.row)
      BY <1>2, <1>6 DEF Cost
    <2>3. Refused(c) \in Spot /\ Refused(c).at \notin Hashing /\ Fits(Refused(c))
      BY <1>2, <2>2, RefusalIsASpot DEF Hashing
    <2> QED
      BY <1>1, <1>6, <2>1, <2>3, OutsideKeeps, EndKeeps
  <1> QED
    BY <1>3, <1>4, <1>5, <1>6

LEMMA VerifiedKeeps ==
  ASSUME IInv, NEW q \in Request, NEW right \in BOOLEAN, Verified(q, right)
  PROVE  IInv' /\ PoolStep(q)
  <1> DEFINE checked == At(q, "checked")
             refused == Refused(call[q])
  <1>1. /\ call[q].at = "verify" /\ q \in holding /\ Release(q) /\ UNCHANGED <<lost, dummy>>
        /\ dummy /\ call[q].reply = "none" /\ call[q] \in Spot
        /\ call[q].spent = call[q].row.memory /\ call[q].row.kind # "unreadable"
        /\ call[q].op # "register"
    BY DEF Verified, IInv, TypeOK, Counted, Spot
  <1>2. checked \in Spot /\ checked.at \notin Hashing /\ Fits(checked)
    BY <1>1 DEF At, Spot, Hashing, Fits
  <1>3. refused \in Spot /\ refused.at \notin Hashing /\ Fits(refused)
    BY <1>1, RefusalIsASpot DEF Cost, Hashing
  <1>5. Idle \in Spot /\ Idle.at \notin Hashing /\ Fits(Idle)
    BY IdleIsASpot DEF Idle, Hashing, Fits
  <1>4. \/ call' = [call EXCEPT ![q] = checked]
        \/ call' = [call EXCEPT ![q] = refused]
        \/ call' = [call EXCEPT ![q] = Idle]
    BY DEF Verified, GoTo, Refuse, End
  <1> HIDE DEF checked, refused
  <1> QED
    BY <1>1, <1>2, <1>3, <1>4, <1>5, ReturningKeeps

LEMMA HashedKeeps ==
  ASSUME IInv, NEW q \in Request, Hashed(q)
  PROVE  IInv' /\ PoolStep(q)
  <1> DEFINE c == At(q, "write")
  <1>1. /\ call[q].at = "hash" /\ q \in holding /\ Release(q) /\ UNCHANGED <<lost, dummy>>
        /\ dummy /\ call[q].reply = "none" /\ call[q] \in Spot
        /\ call' = [call EXCEPT ![q] = c]
    BY DEF Hashed, GoTo, IInv, TypeOK, Counted, Spot
  <1>2. c \in Spot /\ c.at \notin Hashing /\ Fits(c)
    BY <1>1 DEF At, Spot, Hashing, Fits
  <1> HIDE DEF c
  <1> QED
    BY <1>1, <1>2, ReturningKeeps

\* The slot of a panic is lost: the pool has one client and one slot less.
LEMMA PanicKeeps ==
  ASSUME IInv, NEW q \in Request, Panic(q)
  PROVE  IInv' /\ PoolStep(q)
  <1>1. /\ q \in holding /\ holding' = holding \ {q} /\ lost' = lost + 1
        /\ UNCHANGED <<queue, dummy>> /\ call' = [call EXCEPT ![q] = Idle]
        /\ TypeOK /\ Placed /\ Counted /\ RefusalsCostTheirRow
    BY DEF Panic, End, IInv
  <1>2. Idle \in Spot /\ Idle.at = "idle" /\ Idle.reply = "none"
    BY IdleIsASpot DEF Idle
  <1>3. \A r \in Request : call'[r].at = IF r = q THEN "idle" ELSE call[r].at
    BY <1>1, <1>2 DEF TypeOK
  <1>4. Placed'
    BY <1>1, <1>3 DEF Placed, Hashing, TypeOK
  <1>5. Counted' /\ RefusalsCostTheirRow'
    BY <1>1, <1>2, FitsKeeps DEF Fits
  <1>6. TypeOK'
    BY <1>1, <1>2 DEF TypeOK, Spot
  <1>7. Slot!Lose(q)
    BY <1>1 DEF Slot!Lose
  <1> QED
    BY <1>4, <1>5, <1>6, <1>7 DEF IInv, PoolStep

LEMMA CheckedKeeps ==
  ASSUME IInv, NEW q \in Request, NEW out \in Outcomes, Checked(q, out)
  PROVE  IInv' /\ PoolStep(q)
  <1> DEFINE hash == At(q, "hash")
             issue == At(q, "issue")
  <1>1. /\ call[q].at = "checked" /\ UNCHANGED <<lost, dummy>>
        /\ dummy /\ call[q].reply = "none" /\ call[q] \in Spot
        /\ call[q].op \in {"login", "change"}
    BY DEF Checked, IInv, TypeOK, Counted, Spot, Op
  <1>2. /\ hash \in Spot /\ hash.at = "hash" /\ hash.reply = "none"
        /\ issue \in Spot /\ issue.at = "issue" /\ issue.reply = "none"
    BY <1>1 DEF At, Spot
  <1>3. \/ Acquire(q, hash)
        \/ call' = [call EXCEPT ![q] = issue] /\ UNCHANGED <<queue, holding>>
        \/ End(q) /\ UNCHANGED <<queue, holding>>
    BY <1>1 DEF Checked, GoTo, Outcomes
  <1> HIDE DEF hash, issue
  <1>4. CASE Acquire(q, hash)
    BY <1>1, <1>2, <1>4, AskingKeeps DEF Hashing
  <1>5. CASE call' = [call EXCEPT ![q] = issue] /\ UNCHANGED <<queue, holding>>
    BY <1>1, <1>2, <1>5, OutsideKeeps DEF Hashing, Fits
  <1>6. CASE End(q) /\ UNCHANGED <<queue, holding>>
    BY <1>1, <1>6, EndKeeps DEF Hashing
  <1> QED
    BY <1>3, <1>4, <1>5, <1>6

LEMMA WriteKeeps ==
  ASSUME IInv, NEW q \in Request, NEW out \in Outcomes, Write(q, out)
  PROVE  IInv' /\ PoolStep(q)
  <1> DEFINE issue == At(q, "issue")
  <1>1. /\ call[q].at = "write" /\ UNCHANGED <<queue, holding, lost, dummy>>
        /\ dummy /\ call[q].reply = "none" /\ call[q] \in Spot
    BY DEF Write, IInv, TypeOK, Counted, Spot
  <1>2. issue \in Spot /\ issue.at = "issue" /\ issue.reply = "none"
    BY <1>1 DEF At, Spot
  <1>3. call' = [call EXCEPT ![q] = issue] \/ End(q)
    BY DEF Write, GoTo
  <1> HIDE DEF issue
  <1> QED
    BY <1>1, <1>2, <1>3, OutsideKeeps, EndKeeps DEF Hashing, Fits

---------------------------------------------------------------------------
LEMMA InitIInv == Init => IInv /\ Slot!Init
  <1> SUFFICES ASSUME Init PROVE IInv /\ Slot!Init
    OBVIOUS
  <1>1. Range(queue) = {} /\ queue \in Seq(Request) /\ Len(queue) = 0
    BY EmptyLine, EmptySeq DEF Init
  <1>2. TypeOK
    BY <1>1, IdleIsASpot DEF Init, TypeOK, Spot
  <1>3. \A q \in Request : call[q].at = "idle" /\ call[q].reply = "none"
    BY DEF Init, Idle
  <1> QED
    BY <1>1, <1>2, <1>3
    DEF Init, IInv, Placed, Distinct, Hashing, Counted, RefusalsCostTheirRow, Slot!Init

\* Every step keeps the invariant and is one of the pool's.
LEMMA StepKeeps == IInv /\ [Next]_vars => IInv' /\ [Slot!Next]_(Slot!vars)
  <1> SUFFICES ASSUME IInv, [Next]_vars PROVE IInv' /\ [Slot!Next]_(Slot!vars)
    OBVIOUS
  <1>1. CASE Boot
    BY <1>1 DEF Boot, IInv, TypeOK, Placed, Counted, RefusalsCostTheirRow, Slot!vars
  <1>2. CASE UNCHANGED vars
    BY <1>2 DEF vars, IInv, TypeOK, Placed, Counted, RefusalsCostTheirRow, Slot!vars
  <1>3. ASSUME NEW q \in Request, (\E op \in Op : Arrive(q, op)) \/ Progress(q)
        PROVE  IInv' /\ PoolStep(q)
    <2>1. CASE Issue(q)
      BY <2>1, EndKeeps DEF Issue, Hashing
    <2> QED
      BY <1>3, <2>1, ArriveKeeps, ReadKeeps, VerifiedKeeps, HashedKeeps, PanicKeeps,
         CheckedKeeps, WriteKeeps DEF Progress
  <1>4. ASSUME NEW q \in Request, PoolStep(q) PROVE [Slot!Next]_(Slot!vars)
    BY <1>4 DEF PoolStep, Slot!Next
  <1> QED
    BY <1>1, <1>2, <1>3, <1>4 DEF Next

THEOREM HasherInvariant == Spec => []IInv
  BY InitIInv, StepKeeps, PTL DEF Spec

\* Every variable of the hasher keeps its type.
THEOREM HasherTypes == Spec => []TypeOK
  BY HasherInvariant, PTL DEF IInv

\* A refused sign-in spent one run with the parameters of the hash it met, the decoy's
\* for a missing account, and none on a hash that cannot be read.
THEOREM RefusalsAreCosted == Spec => []RefusalsCostTheirRow
  BY HasherInvariant, PTL DEF IInv

\* The channel is a pool of slots: the safety part of ImplementsSlots.
THEOREM ChannelIsAPool == Spec => Slot!Safe
  BY InitIInv, StepKeeps, HasherInvariant, PTL DEF Spec, Slot!Safe

---------------------------------------------------------------------------
(***************************************************************************)
(* The pool never exceeds its slots, and nobody waits while one is free.    *)
(***************************************************************************)
Bounded ==
    /\ IsFiniteSet(holding)
    /\ Cardinality(holding) + lost <= Slots
    /\ queue # <<>> => Full

\* What a step does to the number of holders.
LEMMA BoundedStep == IInv /\ Bounded /\ [Next]_vars => Bounded'
  <1> SUFFICES ASSUME IInv, Bounded, [Next]_vars PROVE Bounded'
    OBVIOUS
  <1>1. /\ lost \in Nat /\ Slots \in Nat /\ queue \in Seq(Request) /\ queue' \in Seq(Request)
        /\ Cardinality(holding) \in Nat /\ holding \cap Range(queue) = {}
    BY StepKeeps, FS_CardinalityType, HasherConfig DEF IInv, TypeOK, Placed, Bounded
  <1>2. (Range(queue) = {} <=> queue = <<>>) /\ (Range(queue') = {} <=> queue' = <<>>)
    BY <1>1, EmptyLine
  <1>3. Slot!Full <=> Full
    BY DEF Slot!Full, Full, Slot!Cardinality, Cardinality
  <1>4. CASE UNCHANGED Slot!vars
    BY <1>2, <1>4 DEF Bounded, Full, Slot!vars
  <1>5. ASSUME NEW q \in Request, Slot!Ask(q) PROVE Bounded'
    <2>1. CASE Full
      BY <1>1, <1>3, <1>5, <2>1 DEF Slot!Ask, Bounded, Full
    <2>2. CASE ~Full
      <3>1. holding' = holding \cup {q} /\ q \notin holding /\ lost' = lost
            /\ Range(queue') = Range(queue)
        BY <1>3, <1>5, <2>2 DEF Slot!Ask
      <3>2. IsFiniteSet(holding') /\ Cardinality(holding') = Cardinality(holding) + 1
        BY <3>1, FS_AddElement DEF Bounded
      <3>3. queue' = <<>>
        BY <1>2, <2>2, <3>1 DEF Bounded
      <3> QED
        BY <1>1, <2>2, <3>1, <3>2, <3>3 DEF Bounded, Full
    <2> QED
      BY <2>1, <2>2
  <1>6. ASSUME NEW q \in Request, Slot!Return(q) PROVE Bounded'
    <2>1. q \in holding /\ lost' = lost
      BY <1>6 DEF Slot!Return
    <2>2. IsFiniteSet(holding \ {q}) /\ Cardinality(holding \ {q}) = Cardinality(holding) - 1
      BY <2>1, FS_RemoveElement DEF Bounded
    <2>3. CASE Range(queue) = {} /\ holding' = holding \ {q} /\ Range(queue') = Range(queue)
      BY <1>1, <1>2, <2>1, <2>2, <2>3 DEF Bounded, Full
    <2>4. ASSUME NEW w \in Range(queue), holding' = (holding \ {q}) \cup {w} PROVE Bounded'
      <3>1. w \notin holding \ {q}
        BY <1>1
      <3>2. IsFiniteSet(holding') /\ Cardinality(holding') = Cardinality(holding)
        <4>1. /\ IsFiniteSet((holding \ {q}) \cup {w})
              /\ Cardinality((holding \ {q}) \cup {w}) = Cardinality(holding \ {q}) + 1
          BY <2>2, <3>1, FS_AddElement
        <4> QED
          BY <1>1, <2>2, <2>4, <4>1
      <3>3. Full
        BY <1>2, <2>4 DEF Bounded
      <3> QED
        BY <1>1, <2>1, <3>2, <3>3 DEF Bounded, Full
    <2> QED
      BY <1>6, <2>3, <2>4 DEF Slot!Return
  <1>7. ASSUME NEW q \in Request, Slot!Lose(q) PROVE Bounded'
    <2>1. q \in holding /\ lost' = lost + 1 /\ holding' = holding \ {q}
          /\ Range(queue') = Range(queue)
      BY <1>7 DEF Slot!Lose
    <2>2. IsFiniteSet(holding') /\ Cardinality(holding') = Cardinality(holding) - 1
      BY <2>1, FS_RemoveElement DEF Bounded
    <2> QED
      BY <1>1, <1>2, <2>1, <2>2 DEF Bounded, Full
  <1> QED
    BY StepKeeps, <1>4, <1>5, <1>6, <1>7 DEF Slot!Next

\* However many requests there are, the slots in use and those lost never exceed
\* ARGON2_CONCURRENCY, and a request waits only when they are all taken.
THEOREM SlotsAreBounded == Spec => []Bounded
  <1>1. Init => Bounded
    BY FS_EmptySet, HasherConfig DEF Init, Bounded
  <1> QED
    BY <1>1, BoundedStep, HasherInvariant, PTL DEF Spec

---------------------------------------------------------------------------
(***************************************************************************)
(* What EveryCallEnds rests on besides fairness: the channel serves in the   *)
(* order of asking, and a request never goes back to an earlier step.        *)
(***************************************************************************)
\* While somebody waits, only the first gets a slot, and everyone else keeps the
\* place or moves up one.
InOrder ==
    /\ queue # <<>> => holding' \ holding \subseteq {Head(queue)}
    /\ \A i \in 1..Len(queue) :
          \/ i \in 1..Len(queue') /\ queue'[i] = queue[i]
          \/ i - 1 \in 1..Len(queue') /\ queue'[i - 1] = queue[i]
          \/ i = 1 /\ queue[i] \in holding'

FirstComeFirstServed == [][InOrder]_vars

Stage == [read |-> 1, verify |-> 2, checked |-> 3, hash |-> 4, write |-> 5, issue |-> 6,
          idle |-> 7]

\* A request in flight stays where it is or comes to a later step.
NeverBack ==
    [][\A q \in Request : call[q].at # "idle" =>
          call'[q] = call[q] \/ Stage[call'[q].at] > Stage[call[q].at]]_vars

LEMMA QueueStaysInOrder ==
  ASSUME TypeOK, UNCHANGED queue, queue = <<>> \/ holding' \subseteq holding
  PROVE  InOrder
  BY DEF InOrder

LEMMA AcquireIsInOrder ==
  ASSUME IInv, Bounded, NEW q \in Request, NEW c, Acquire(q, c) PROVE InOrder
  <1>1. CASE Full
    <2>1. queue' = Append(queue, q) /\ holding' = holding /\ queue \in Seq(Request)
      BY <1>1 DEF Acquire, Line, IInv, TypeOK
    <2>2. /\ Len(queue) \in Nat /\ Len(queue') = Len(queue) + 1
          /\ \A i \in 1..Len(queue) : queue'[i] = queue[i]
      BY <2>1, AppendProperties, LenProperties
    <2> QED
      BY <2>1, <2>2 DEF InOrder
  <1>2. CASE ~Full
    <2>1. queue = <<>> /\ UNCHANGED queue
      BY <1>2 DEF Acquire, Bounded
    <2> QED
      BY <2>1, QueueStaysInOrder DEF IInv
  <1> QED
    BY <1>1, <1>2

LEMMA ReleaseIsInOrder ==
  ASSUME IInv, NEW q \in Request, Release(q) PROVE InOrder
  <1>1. CASE queue = <<>>
    BY <1>1, QueueStaysInOrder DEF Release, IInv
  <1>2. CASE queue # <<>>
    <2>1. /\ queue' = Tail(queue) /\ holding' = (holding \ {q}) \cup {Head(queue)}
          /\ queue \in Seq(Request)
      BY <1>2 DEF Release, IInv, TypeOK
    <2>2. /\ Len(queue) \in Nat \ {0} /\ Len(queue') = Len(queue) - 1 /\ Head(queue) = queue[1]
          /\ \A i \in 1..Len(queue') : queue'[i] = queue[i + 1]
      BY <1>2, <2>1, HeadTailProperties, EmptySeq, LenProperties
    <2>3. ASSUME NEW i \in 1..Len(queue), i # 1
          PROVE  i - 1 \in 1..Len(queue') /\ queue'[i - 1] = queue[i]
      <3>1. i - 1 \in 1..Len(queue') /\ (i - 1) + 1 = i
        BY <2>2, <2>3
      <3> QED
        BY <2>2, <3>1
    <2> QED
      BY <2>1, <2>2, <2>3 DEF InOrder
  <1> QED
    BY <1>1, <1>2

\* Where a step of q takes it, and what it may do to the channel.
GoesTo(q, at) == \E c : call' = [call EXCEPT ![q] = c] /\ c.at = at
Uses(q) == (\E c : Acquire(q, c)) \/ Release(q) \/ UNCHANGED <<queue, holding>>

LEMMA Ends ==
  ASSUME NEW q \in Request,
         NEW c, End(q) \/ Refuse(q, c)
  PROVE  GoesTo(q, "idle")
  <1>1. Idle.at = "idle" /\ Refused(c).at = "idle"
    BY DEF Idle, Refused
  <1> QED
    BY <1>1 DEF GoesTo, End, Refuse

LEMMA GoingOn ==
  ASSUME NEW q \in Request, call[q] \in Spot, NEW at, GoTo(q, at)
  PROVE  GoesTo(q, at)
  <1>1. [call[q] EXCEPT !.at = at].at = at
    BY DEF Spot
  <1> QED
    BY <1>1 DEF GoTo, At, GoesTo

LEMMA Asking ==
  ASSUME NEW q \in Request, NEW c \in Spot, Acquire(q, c)
  PROVE  GoesTo(q, c.at) /\ Uses(q)
  <1>1. [c EXCEPT !.spent = c.spent + Work(c)].at = c.at
    BY DEF Spot
  <1> QED
    BY <1>1 DEF Acquire, GoesTo, Uses

LEMMA ArriveIs ==
  ASSUME IInv, NEW q \in Request, NEW op \in Op, Arrive(q, op)
  PROVE  Uses(q) /\ call[q].at = "idle" /\ \E at : GoesTo(q, at)
  <1> DEFINE c == [Idle EXCEPT !.op = op, !.at = "read"]
             d == [Idle EXCEPT !.op = op, !.at = "hash"]
  <1>1. c.at = "read" /\ d.at = "hash" /\ d \in Spot
    BY IdleIsASpot DEF Idle, Spot
  <1>2. \/ Acquire(q, d)
        \/ call' = [call EXCEPT ![q] = c] /\ UNCHANGED <<queue, holding>>
    BY DEF Arrive
  <1> HIDE DEF c, d
  <1> QED
    BY <1>1, <1>2, Asking DEF Arrive, GoesTo, Uses

LEMMA ReadIs ==
  ASSUME IInv, NEW q \in Request, NEW out \in Outcomes, NEW row \in Row, Read(q, out, row)
  PROVE  Uses(q) /\ call[q].at = "read" /\ (GoesTo(q, "verify") \/ GoesTo(q, "idle"))
  <1> DEFINE c == [At(q, "verify") EXCEPT !.row = row]
  <1>1. call[q].at = "read" /\ dummy /\ call[q] \in Spot
    BY DEF Read, IInv, TypeOK, Counted, Spot
  <1>2. c \in Spot /\ c.at = "verify"
    BY <1>1 DEF At, Spot
  <1>3. \/ (End(q) \/ Refuse(q, c)) /\ UNCHANGED <<queue, holding>>
        \/ Acquire(q, c)
    <2>1. SpendTime(q, c) => Acquire(q, c)
      BY <1>1 DEF SpendTime
    <2> HIDE DEF c
    <2> QED
      BY <1>1, <2>1, ReadLeads DEF c
  <1> HIDE DEF c
  <1> QED
    BY <1>1, <1>2, <1>3, Asking, Ends DEF Uses

LEMMA VerifiedIs ==
  ASSUME IInv, NEW q \in Request, NEW right \in BOOLEAN, Verified(q, right)
  PROVE  Uses(q) /\ call[q].at = "verify" /\ (GoesTo(q, "checked") \/ GoesTo(q, "idle"))
  <1>1. call[q] \in Spot
    BY DEF IInv, TypeOK, Spot
  <1> QED
    BY <1>1, GoingOn, Ends DEF Verified, Uses

LEMMA CheckedIs ==
  ASSUME IInv, NEW q \in Request, NEW out \in Outcomes, Checked(q, out)
  PROVE  /\ Uses(q) /\ call[q].at = "checked"
         /\ GoesTo(q, "hash") \/ GoesTo(q, "issue") \/ GoesTo(q, "idle")
  <1> DEFINE hash == At(q, "hash")
  <1>1. call[q].at = "checked" /\ call[q] \in Spot /\ call[q].op \in {"login", "change"}
    BY DEF Checked, IInv, TypeOK, Counted, Spot, Op
  <1>2. hash \in Spot /\ hash.at = "hash"
    BY <1>1 DEF At, Spot
  <1>3. \/ Acquire(q, hash)
        \/ (GoTo(q, "issue") \/ End(q)) /\ UNCHANGED <<queue, holding>>
    BY <1>1 DEF Checked, Outcomes
  <1> HIDE DEF hash
  <1> QED
    BY <1>1, <1>2, <1>3, Asking, GoingOn, Ends DEF Uses

LEMMA OthersAre ==
  ASSUME IInv, NEW q \in Request
  PROVE  /\ Hashed(q) => Uses(q) /\ call[q].at = "hash" /\ GoesTo(q, "write")
         /\ Issue(q) => Uses(q) /\ call[q].at = "issue" /\ GoesTo(q, "idle")
         /\ \A out \in Outcomes : Write(q, out) =>
               Uses(q) /\ call[q].at = "write" /\ (GoesTo(q, "issue") \/ GoesTo(q, "idle"))
         /\ Panic(q) => /\ call[q].at = "verify" /\ GoesTo(q, "idle")
                        /\ UNCHANGED queue /\ holding' \subseteq holding
  <1>1. call[q] \in Spot
    BY DEF IInv, TypeOK, Spot
  <1> QED
    BY <1>1, GoingOn, Ends DEF Hashed, Issue, Write, Panic, Uses

\* Every step keeps the order, and only moves its request on.
LEMMA StepIsInOrder == IInv /\ Bounded /\ [Next]_vars => [InOrder]_vars
  <1> SUFFICES ASSUME IInv, Bounded, Next PROVE InOrder
    BY DEF vars
  <1>1. ASSUME NEW q \in Request, Uses(q) PROVE InOrder
    BY <1>1, AcquireIsInOrder, ReleaseIsInOrder, QueueStaysInOrder DEF Uses, IInv
  <1>2. CASE Boot
    BY <1>2, QueueStaysInOrder DEF Boot, IInv
  <1>3. ASSUME NEW q \in Request, (\E op \in Op : Arrive(q, op)) \/ Progress(q) PROVE InOrder
    <2>1. CASE Panic(q)
      BY <2>1, OthersAre, QueueStaysInOrder DEF IInv
    <2>2. CASE ~Panic(q)
      <3>1. Uses(q)
        BY <1>3, <2>2, ArriveIs, ReadIs, VerifiedIs, CheckedIs, OthersAre DEF Progress
      <3> QED
        BY <1>1, <3>1
    <2> QED
      BY <2>1, <2>2
  <1> QED
    BY <1>2, <1>3 DEF Next

LEMMA StepMovesOn ==
  IInv /\ [Next]_vars =>
    [\A q \in Request : call[q].at # "idle" =>
        call'[q] = call[q] \/ Stage[call'[q].at] > Stage[call[q].at]]_vars
  <1> SUFFICES ASSUME IInv, Next, NEW q \in Request, call[q].at # "idle", call'[q] # call[q]
               PROVE  Stage[call'[q].at] > Stage[call[q].at]
    BY DEF vars
  <1>1. ASSUME NEW r \in Request, NEW at, GoesTo(r, at) PROVE r = q /\ call'[q].at = at
    BY <1>1 DEF GoesTo, IInv, TypeOK
  <1>2. ~Boot
    BY DEF Boot
  <1>3. PICK r \in Request : (\E op \in Op : Arrive(r, op)) \/ Progress(r)
    BY <1>2 DEF Next
  <1>4. r = q
    BY <1>1, <1>3, ArriveIs, ReadIs, VerifiedIs, CheckedIs, OthersAre DEF Progress
  <1>5. \/ call[q].at = "read" /\ call'[q].at \in {"verify", "idle"}
        \/ call[q].at = "verify" /\ call'[q].at \in {"checked", "idle"}
        \/ call[q].at = "checked" /\ call'[q].at \in {"hash", "issue", "idle"}
        \/ call[q].at = "hash" /\ call'[q].at = "write"
        \/ call[q].at = "write" /\ call'[q].at \in {"issue", "idle"}
        \/ call[q].at = "issue" /\ call'[q].at = "idle"
    BY <1>1, <1>3, <1>4, ArriveIs, ReadIs, VerifiedIs, CheckedIs, OthersAre DEF Progress
  <1> QED
    BY <1>5 DEF Stage

\* Slots are given out in the order in which they were asked for: nobody who comes
\* later overtakes a request that waits (Hasher.acquire, Hasher.release).
THEOREM SlotsAreGivenInOrder == Spec => FirstComeFirstServed
  BY StepIsInOrder, HasherInvariant, SlotsAreBounded, PTL DEF Spec, FirstComeFirstServed

\* A request passes each step once, asks for at most two slots, and is then answered: none
\* asks for a slot again after a statement failed (Register, Login, ChangePassword).
THEOREM RequestsMoveOn == Spec => NeverBack
  BY StepMovesOn, HasherInvariant, PTL DEF Spec, NeverBack

=============================================================================
