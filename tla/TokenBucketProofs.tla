---------------------------- MODULE TokenBucketProofs ----------------------------
(***************************************************************************)
(* What one bucket promises, for every burst, window, delay and clock skew. *)
(***************************************************************************)
EXTENDS TokenBucket, TLAPS

\* A pending take is stamped in the past, and not further back than MaxDelay.
StampsAreRecent == \A p \in pending : p.stamp <= now /\ now <= p.stamp + MaxDelay

ClocksArePast == refilled <= now /\ \A c \in sweeps : c <= now + MaxSkew - SweepAge

\* A row that was never charged since the last reset is not there.
FreshIsAbsent == fresh => ~present

\* The row owes nothing that was not spent.
OwesWhatWasSpent == present => tokens >= Full - spent * Window - Refill(now - refilled)

\* A refusal computed from this row: what was missing, at its stamp.
DenialIsCurrent ==
    denial.set /\ present => denial.wait = Window - tokens - Refill(denial.at - refilled)

IInv ==
    /\ TypeOK
    /\ StampsAreRecent
    /\ ClocksArePast
    /\ FreshIsAbsent
    /\ OwesWhatWasSpent
    /\ DenialIsCurrent

\* While the row is there, what it holds and what was taken in the span are paid
\* by the burst and the refill up to the row's stamp.  Once it is gone, so is the
\* wait for it to be full: the next take, however early its stamp, would have
\* found a full bucket.
SpanIsPaid ==
    ~fresh => /\ taken * Window + (IF present THEN tokens ELSE 0)
                   <= Full + Refill(refilled - opened)
              /\ ~present => refilled + Window + MaxDelay <= now

---------------------------------------------------------------------------
\* The arithmetic, once: Refill is additive and monotone, a window refills a
\* full bucket, and one more attempt costs one more Window.
LEMMA RefillInt == ASSUME NEW x \in Int PROVE Refill(x) \in Int
  BY BucketConfig DEF Refill

LEMMA RefillSplit ==
    ASSUME NEW x \in Int, NEW y \in Int, NEW z \in Int
    PROVE  Refill(x - y) + Refill(y - z) = Refill(x - z)
  BY BucketConfig DEF Refill

LEMMA RefillMonotone ==
    ASSUME NEW x \in Int, NEW y \in Int, x <= y
    PROVE  Refill(x) <= Refill(y)
  BY BucketConfig DEF Refill

LEMMA RefillNothing == Refill(0) = 0
  BY BucketConfig DEF Refill

LEMMA FullLaws == Full = Refill(Window) /\ Full \in Nat /\ Full >= Window
  <1>1. Full = Refill(Window) /\ Full \in Nat
    BY BucketConfig DEF Refill, Full
  <1>2. Full >= Window
    BY BucketConfig DEF Full
  <1>3. QED
    BY <1>1, <1>2

LEMMA CostLaws ==
    ASSUME NEW n \in Nat
    PROVE  /\ n * Window \in Nat
           /\ (n + 1) * Window = n * Window + Window
  BY BucketConfig

\* The level of a present row is at most a full bucket; below it, it is the sum.
LEMMA LevelLaws ==
    ASSUME TypeOK, NEW at \in Int
    PROVE  /\ Level(at) \in Int /\ Level(at) <= Full
           /\ Level(at) <= tokens + Refill(at - refilled)
           /\ Level(at) = Full \/ Level(at) = tokens + Refill(at - refilled)
  <1>1. tokens \in Int /\ at - refilled \in Int /\ Full \in Int
    BY FullLaws DEF TypeOK
  <1>2. Refill(at - refilled) \in Int
    BY <1>1, RefillInt
  <1>3. QED
    BY <1>1, <1>2 DEF Level

LEMMA NoDenialType == NoDenial \in [set : BOOLEAN, at : Nat, wait : Int] /\ ~NoDenial.set
  BY DEF NoDenial

---------------------------------------------------------------------------
LEMMA InitIInv == Init => IInv
  <1> SUFFICES ASSUME Init PROVE IInv
    OBVIOUS
  <1>1. 0 \in 0..(Full - Window)
    BY FullLaws, BucketConfig
  <1>2. TypeOK
    BY <1>1, NoDenialType DEF Init, TypeOK
  <1>3. QED
    BY <1>2 DEF Init, IInv, StampsAreRecent, ClocksArePast, FreshIsAbsent, NoDenial,
       OwesWhatWasSpent, DenialIsCurrent

\* An allowed attempt, from a full bucket or from the row: what it leaves.
LEMMA AllowStep ==
    ASSUME IInv, NEW p \in pending, NEW left \in 0..(Full - Window), Allow(p, left),
           pending' = pending \ {p}, UNCHANGED <<now, sweeps>>,
           \/ left = Full - Window
           \/ present /\ left = tokens + Refill(p.stamp - refilled) - Window
    PROVE  IInv'
  <1> USE DEF IInv, TypeOK
  <1>1. p.stamp \in Nat /\ p.stamp <= now
    BY DEF StampsAreRecent
  <1>2. TypeOK'
    <2>1. (tokens \in 0..(Full - Window))'
      BY DEF Allow, Full
    <2>2. denial' \in [set : BOOLEAN, at : Nat, wait : Int]
      BY NoDenialType DEF Allow
    <2>3. /\ now' \in Nat /\ refilled' \in Nat /\ sweeps' \in SUBSET Int /\ spent' \in Nat
      BY <1>1 DEF Allow
    <2>4. present' \in BOOLEAN /\ fresh' \in BOOLEAN
      BY DEF Allow
    <2>5. pending' \in SUBSET [id : Attempt, stamp : Nat]
      OBVIOUS
    <2>6. taken' \in Nat /\ opened' \in Nat
      BY <1>1 DEF Allow
    <2>7. QED
      BY <2>1, <2>2, <2>3, <2>5, <2>6, <2>4
  <1>3. StampsAreRecent' /\ ClocksArePast' /\ FreshIsAbsent' /\ DenialIsCurrent'
    BY <1>1 DEF StampsAreRecent, ClocksArePast, FreshIsAbsent, DenialIsCurrent, Allow, NoDenial
  <1>4. OwesWhatWasSpent'
    <2>1. /\ spent' * Window = spent * Window + Window /\ spent * Window \in Nat
          /\ tokens' = left /\ refilled' = p.stamp
      BY CostLaws DEF Allow
    <2>2. /\ p.stamp \in Int /\ now \in Int /\ refilled \in Int
          /\ now - p.stamp \in Int /\ p.stamp - refilled \in Int /\ now - refilled \in Int
          /\ 0 <= now - p.stamp
      BY <1>1
    <2>3. /\ Refill(now - p.stamp) \in Int /\ Refill(p.stamp - refilled) \in Int
          /\ Refill(now - refilled) \in Int /\ Window \in Nat /\ Full \in Nat
      BY <2>2, RefillInt, FullLaws, BucketConfig
    <2>4. Refill(now - p.stamp) >= 0
      <3>1. Refill(0) <= Refill(now - p.stamp)
        BY <2>2, RefillMonotone
      <3>2. QED
        BY <3>1, <2>3, RefillNothing
    <2>5. Refill(now - p.stamp) + Refill(p.stamp - refilled) = Refill(now - refilled)
      BY <2>2, RefillSplit
    <2>6. left >= Full - (spent * Window + Window) - Refill(now - p.stamp)
      <3>1. CASE left = Full - Window
        BY <3>1, <2>1, <2>3, <2>4
      <3>2. CASE present /\ left = tokens + Refill(p.stamp - refilled) - Window
        BY <3>2, <2>1, <2>3, <2>5 DEF OwesWhatWasSpent
      <3>3. QED
        BY <3>1, <3>2
    <2>7. QED
      BY <2>1, <2>6 DEF OwesWhatWasSpent
  <1>5. QED
    BY <1>2, <1>3, <1>4

\* What is left is within the row's range, and one of the two sums.
LEMMA AdmitAllows ==
    ASSUME IInv, NEW p \in pending, Admit(p)
    PROVE  \E left \in 0..(Full - Window) :
              /\ Allow(p, left)
              /\ \/ left = Full - Window
                 \/ present /\ left = tokens + Refill(p.stamp - refilled) - Window
  <1>1. p.stamp \in Int /\ TypeOK
    BY DEF IInv, TypeOK
  <1>2. Full \in Nat /\ Window \in Nat /\ Full - Window \in 0..(Full - Window)
    BY FullLaws, BucketConfig
  <1>3. CASE ~present /\ Allow(p, Full - Window)
    BY <1>2, <1>3
  <1>4. CASE present /\ Level(p.stamp) >= Window /\ Allow(p, Level(p.stamp) - Window)
    <2>1. /\ Level(p.stamp) \in Int /\ Level(p.stamp) <= Full
          /\ Level(p.stamp) = Full \/ Level(p.stamp) = tokens + Refill(p.stamp - refilled)
      BY <1>1, LevelLaws
    <2>2. Level(p.stamp) - Window \in 0..(Full - Window)
      <3>1. Level(p.stamp) >= Window
        BY <1>4
      <3>2. QED
        BY <3>1, <1>2, <2>1
    <2>3. Allow(p, Level(p.stamp) - Window)
      BY <1>4
    <2>4. \/ Level(p.stamp) - Window = Full - Window
          \/ Level(p.stamp) - Window = tokens + Refill(p.stamp - refilled) - Window
      <3>1. CASE Level(p.stamp) = Full
        BY <3>1
      <3>2. CASE Level(p.stamp) = tokens + Refill(p.stamp - refilled)
        <4>1. p.stamp - refilled \in Int /\ tokens \in Int
          BY <1>1 DEF TypeOK
        <4>2. Refill(p.stamp - refilled) \in Int
          BY <4>1, RefillInt
        <4>3. QED
          BY <1>2, <2>1, <3>2, <4>1, <4>2
      <3>3. QED
        BY <2>1, <3>1, <3>2
    <2>5. WITNESS Level(p.stamp) - Window \in 0..(Full - Window)
    <2>6. QED
      BY <1>4, <2>3, <2>4
  <1>5. QED
    BY <1>3, <1>4 DEF Admit

\* A refusal changes nothing but the record of itself.
LEMMA RefuseStep ==
    ASSUME IInv, NEW p \in pending, Refuse(p), pending' = pending \ {p},
           UNCHANGED <<now, present, tokens, refilled, sweeps, history>>
    PROVE  IInv'
  <1> USE DEF IInv, TypeOK
  <1>1. p.stamp \in Nat /\ Level(p.stamp) \in Int
    BY LevelLaws
  <1>2. Level(p.stamp) = tokens + Refill(p.stamp - refilled)
    <2>1. Level(p.stamp) < Window /\ Window <= Full /\ Window \in Int /\ Full \in Int
      BY FullLaws, BucketConfig DEF Refuse
    <2>2. Level(p.stamp) = Full \/ Level(p.stamp) = tokens + Refill(p.stamp - refilled)
      BY <1>1, LevelLaws
    <2>3. QED
      BY <1>1, <2>1, <2>2
  <1>3. Window \in Int /\ denial' = [set |-> TRUE, at |-> p.stamp, wait |-> Window - Level(p.stamp)]
    BY BucketConfig DEF Refuse
  <1>4. TypeOK'
    BY <1>1, <1>3 DEF history
  <1>5. StampsAreRecent' /\ ClocksArePast' /\ FreshIsAbsent' /\ OwesWhatWasSpent'
    BY DEF history, StampsAreRecent, ClocksArePast, FreshIsAbsent, OwesWhatWasSpent, Refill, Full
  <1>6. Refill(p.stamp - refilled) \in Int /\ tokens \in Int
    <2>1. p.stamp - refilled \in Int
      BY <1>1
    <2>2. QED
      BY <2>1, RefillInt
  <1>7. denial'.wait = Window - tokens - Refill(denial'.at - refilled)
    BY <1>2, <1>3, <1>6
  <1>8. DenialIsCurrent'
    BY <1>7 DEF DenialIsCurrent, Refill
  <1>9. QED
    BY <1>4, <1>5, <1>8

LEMMA IInvStep == IInv /\ [Next]_vars => IInv'
  <1> SUFFICES ASSUME IInv, [Next]_vars PROVE IInv'
    OBVIOUS
  <1> USE DEF IInv, TypeOK
  <1>1. ASSUME NEW p \in pending, Take(p) PROVE IInv'
    <2>1. CASE Admit(p)
      BY <1>1, <2>1, AdmitAllows, AllowStep DEF Take
    <2>2. CASE Refuse(p) /\ UNCHANGED <<present, tokens, refilled, history>>
      BY <1>1, <2>2, RefuseStep DEF Take
    <2>3. QED
      BY <1>1, <2>1, <2>2 DEF Take
  <1>2. ASSUME NEW a \in Attempt, Start(a) PROVE IInv'
    BY <1>2, BucketConfig DEF Start, history, StampsAreRecent, ClocksArePast, FreshIsAbsent,
       OwesWhatWasSpent, DenialIsCurrent, Refill, Full
  <1>3. ASSUME NEW p \in pending, Unavailable(p) PROVE IInv'
    BY <1>3 DEF Unavailable, history, StampsAreRecent, ClocksArePast, FreshIsAbsent,
       OwesWhatWasSpent, DenialIsCurrent, Refill, Full
  <1>4. CASE Reset
    BY <1>4, BucketConfig, NoDenialType DEF Reset, StampsAreRecent, ClocksArePast, FreshIsAbsent,
       OwesWhatWasSpent, DenialIsCurrent, Refill, Full
  <1>5. ASSUME NEW skew \in -MaxSkew..MaxSkew, SweepStart(skew) PROVE IInv'
    <2>1. now + skew - SweepAge \in Int /\ now + skew - SweepAge <= now + MaxSkew - SweepAge
      BY BucketConfig
    <2>2. QED
      BY <1>5, <2>1 DEF SweepStart, history, StampsAreRecent, ClocksArePast, FreshIsAbsent,
       OwesWhatWasSpent, DenialIsCurrent, Refill, Full
  <1>6. ASSUME NEW c \in sweeps, Sweep(c) PROVE IInv'
    BY <1>6 DEF Sweep, history, StampsAreRecent, ClocksArePast, FreshIsAbsent,
       OwesWhatWasSpent, DenialIsCurrent, Refill, Full
  <1>7. CASE Tick
    <2>1. now' = now + 1 /\ UNCHANGED <<present, tokens, refilled, pending, sweeps, history, denial>>
      BY <1>7 DEF Tick
    <2>2. TypeOK'
      BY <2>1 DEF history
    <2>3. StampsAreRecent'
      BY <1>7, BucketConfig DEF Tick, StampsAreRecent
    <2>4. ClocksArePast'
      BY <2>1, BucketConfig DEF ClocksArePast
    <2>5. FreshIsAbsent' /\ DenialIsCurrent'
      BY <2>1 DEF history, FreshIsAbsent, DenialIsCurrent, Refill
    <2>6. /\ now - refilled \in Int /\ now' - refilled \in Int
          /\ now - refilled <= now' - refilled
      BY <2>1
    <2>7. /\ Refill(now - refilled) <= Refill(now' - refilled)
          /\ Refill(now - refilled) \in Int /\ Refill(now' - refilled) \in Int
          /\ spent * Window \in Nat /\ Full \in Nat
      BY <2>6, RefillMonotone, RefillInt, CostLaws, FullLaws
    <2>8. present => tokens >= Full - spent * Window - Refill(now' - refilled)
      BY <2>7 DEF OwesWhatWasSpent
    <2>9. OwesWhatWasSpent'
      BY <2>1, <2>8 DEF OwesWhatWasSpent, history, Refill, Full
    <2>10. QED
      BY <2>2, <2>3, <2>4, <2>5, <2>9
  <1>8. CASE UNCHANGED vars
    BY <1>8 DEF vars, StampsAreRecent, ClocksArePast, FreshIsAbsent,
       OwesWhatWasSpent, DenialIsCurrent, Refill, Full
  <1>9. QED
    BY <1>1, <1>2, <1>3, <1>4, <1>5, <1>6, <1>7, <1>8 DEF Next

---------------------------------------------------------------------------
\* The span stays paid through every step, if the sweep is safe.
LEMMA SpanStep == SweepSafe /\ IInv /\ SpanIsPaid /\ [Next]_vars => SpanIsPaid'
  <1> SUFFICES ASSUME SweepSafe, IInv, SpanIsPaid, [Next]_vars PROVE SpanIsPaid'
    OBVIOUS
  <1> USE DEF IInv, TypeOK
  <1>1. ASSUME NEW p \in pending, Admit(p), UNCHANGED now PROVE SpanIsPaid'
    <2>1. PICK left \in 0..(Full - Window) :
              /\ Allow(p, left)
              /\ \/ left = Full - Window
                 \/ present /\ left = tokens + Refill(p.stamp - refilled) - Window
      BY <1>1, AdmitAllows
    <2>2. /\ p.stamp \in Nat /\ left \in Nat /\ left <= Full - Window /\ Full \in Nat
          /\ now <= p.stamp + MaxDelay
      BY FullLaws, BucketConfig DEF StampsAreRecent
    <2>3. fresh' = FALSE /\ present' = TRUE /\ tokens' = left /\ refilled' = p.stamp
      BY <2>1 DEF Allow
    <2>4. SUFFICES taken' * Window + left <= Full + Refill(p.stamp - opened')
      BY <2>3 DEF SpanIsPaid, Refill, Full
    <2>5. CASE taken' = 1 /\ opened' = p.stamp
      <3>1. p.stamp - opened' = 0 /\ taken' * Window = Window /\ Window \in Nat
        BY <2>2, <2>5, BucketConfig
      <3>2. QED
        BY <2>2, <3>1, RefillNothing, BucketConfig
    <2>6. CASE ~fresh /\ taken' = taken + 1 /\ opened' = opened
      <3>1. /\ taken' * Window = taken * Window + Window /\ taken * Window \in Nat
            /\ p.stamp - opened \in Int /\ refilled - opened \in Int
            /\ p.stamp - refilled \in Int
        BY <2>2, <2>6, CostLaws
      <3>2. /\ Refill(p.stamp - opened) \in Int /\ Refill(refilled - opened) \in Int
            /\ Refill(p.stamp - refilled) \in Int
        BY <3>1, RefillInt
      <3>3. Refill(p.stamp - refilled) + Refill(refilled - opened) = Refill(p.stamp - opened)
        <4>1. p.stamp \in Int /\ refilled \in Int /\ opened \in Int
          BY <2>2
        <4>2. QED
          BY <4>1, RefillSplit
      <3>4. CASE present
        <4>1. taken * Window + tokens <= Full + Refill(refilled - opened)
          BY <2>6, <3>4 DEF SpanIsPaid
        <4>2. left <= tokens + Refill(p.stamp - refilled) - Window
          <5>1. Level(p.stamp) <= tokens + Refill(p.stamp - refilled) /\ Level(p.stamp) \in Int
            BY <2>2, LevelLaws
          <5>2. Allow(p, Level(p.stamp) - Window)
            BY <1>1, <3>4 DEF Admit
          <5>3. left = Level(p.stamp) - Window
            BY <5>2, <2>3 DEF Allow
          <5>4. QED
            BY <5>1, <5>3, <3>2, BucketConfig
        <4>3. QED
          BY <4>1, <4>2, <2>2, <2>6, <3>1, <3>2, <3>3, BucketConfig
      <3>5. CASE ~present
        <4>1. /\ taken * Window <= Full + Refill(refilled - opened)
              /\ refilled + Window + MaxDelay <= now
          BY <2>6, <3>1, <3>5 DEF SpanIsPaid
        <4>2. Window <= p.stamp - refilled
          BY <4>1, <2>2, BucketConfig
        <4>3. Full <= Refill(p.stamp - refilled)
          <5>1. Window \in Int /\ Full = Refill(Window)
            BY FullLaws, BucketConfig
          <5>2. QED
            BY <5>1, <4>2, <3>1, RefillMonotone
        <4>4. QED
          BY <4>1, <4>3, <2>2, <2>6, <3>1, <3>2, <3>3, BucketConfig
      <3>6. QED
        BY <3>4, <3>5
    <2>7. QED
      BY <2>1, <2>5, <2>6 DEF Allow
  <1>2. CASE Reset
    BY <1>2 DEF Reset, SpanIsPaid
  <1>3. ASSUME NEW c \in sweeps, Sweep(c) PROVE SpanIsPaid'
    <2>1. /\ present' = (present /\ refilled >= c) /\ c \in Int
          /\ UNCHANGED <<now, tokens, refilled, fresh, opened, taken>>
      BY <1>3 DEF Sweep, history
    <2>2. CASE ~fresh /\ present /\ refilled < c
      <3>1. refilled + Window + MaxDelay <= now
        BY <2>1, <2>2, BucketConfig DEF ClocksArePast, SweepSafe
      <3>2. taken * Window + tokens <= Full + Refill(refilled - opened)
        BY <2>2 DEF SpanIsPaid
      <3>3. taken * Window + 0 <= Full + Refill(refilled - opened)
        <4>1. refilled - opened \in Int /\ Full \in Int /\ Window \in Int
          BY FullLaws, BucketConfig
        <4>2. Refill(refilled - opened) \in Int /\ taken * Window \in Nat
          BY <4>1, RefillInt, CostLaws
        <4>3. tokens \in Nat
          BY <4>1
        <4>4. QED
          BY <3>2, <4>1, <4>2, <4>3
      <3>4. QED
        BY <2>1, <2>2, <3>1, <3>3 DEF SpanIsPaid, Refill, Full
    <2>3. CASE fresh \/ present' = present
      BY <2>1, <2>3 DEF SpanIsPaid, Refill, Full
    <2>4. QED
      BY <2>1, <2>2, <2>3
  <1>4. CASE /\ UNCHANGED <<present, tokens, refilled, fresh, opened, taken>>
             /\ now' \in Nat /\ now <= now'
    BY <1>4, BucketConfig DEF SpanIsPaid, Refill, Full
  <1>5. QED
    <2>1. ASSUME NEW p \in pending, Take(p) PROVE SpanIsPaid'
      BY <2>1, <1>1, <1>4 DEF Take, Refuse, history
    <2>2. QED
      BY <2>1, <1>2, <1>3, <1>4 DEF Next, vars, Start, Unavailable, SweepStart, Tick, history

\* The row owes nothing unspent, up to the delay of a stamp.
LEMMA EarnedFromIInv == IInv => RefusalsAreEarned
  <1> SUFFICES ASSUME IInv, present, NEW p \in pending
               PROVE  Level(p.stamp) >= Full - spent * Window - Refill(MaxDelay)
    BY DEF RefusalsAreEarned
  <1> USE DEF IInv, TypeOK
  <1>1. /\ p.stamp \in Nat /\ MaxDelay \in Nat /\ now - p.stamp <= MaxDelay
        /\ now - p.stamp \in Int /\ now - refilled \in Int /\ p.stamp - refilled \in Int
    BY BucketConfig DEF StampsAreRecent
  <1>2. Refill(now - p.stamp) + Refill(p.stamp - refilled) = Refill(now - refilled)
    <2>1. p.stamp \in Int /\ now \in Int /\ refilled \in Int
      BY <1>1
    <2>2. QED
      BY <2>1, RefillSplit
  <1>3. Refill(now - p.stamp) <= Refill(MaxDelay) /\ 0 <= Refill(MaxDelay)
    <2>1. MaxDelay \in Int /\ 0 <= MaxDelay
      BY <1>1
    <2>2. QED
      BY <1>1, <2>1, RefillMonotone, RefillNothing
  <1>4. /\ Refill(p.stamp - refilled) \in Int /\ Refill(now - p.stamp) \in Int
        /\ Refill(now - refilled) \in Int /\ Refill(MaxDelay) \in Int
        /\ spent * Window \in Nat /\ Full \in Nat
    BY <1>1, RefillInt, CostLaws, FullLaws
  <1>5. tokens >= Full - spent * Window - Refill(now - refilled)
    BY DEF OwesWhatWasSpent
  <1>6. Level(p.stamp) = Full \/ Level(p.stamp) = tokens + Refill(p.stamp - refilled)
    BY <1>1, LevelLaws
  <1>7. QED
    BY <1>2, <1>3, <1>4, <1>5, <1>6

\* By the time the wait is over the missing part of a token has refilled.
LEMMA RetryFromIInv == IInv => RetryAfterIsEnough
  <1> SUFFICES ASSUME IInv, denial.set, NEW at \in denial.at..now, present,
                      Refill(at - denial.at) >= denial.wait
               PROVE  Level(at) >= Window
    BY DEF RetryAfterIsEnough, Answer
  <1> USE DEF IInv, TypeOK
  <1>1. /\ at \in Int /\ denial.at \in Nat /\ denial.wait \in Int
        /\ at - denial.at \in Int /\ denial.at - refilled \in Int /\ at - refilled \in Int
    OBVIOUS
  <1>2. refilled \in Int /\ denial.at \in Int
    BY <1>1
  <1>3. Refill(at - denial.at) + Refill(denial.at - refilled) = Refill(at - refilled)
    BY <1>1, <1>2, RefillSplit
  <1>4. /\ Refill(at - denial.at) \in Int /\ Refill(denial.at - refilled) \in Int
        /\ Refill(at - refilled) \in Int
        /\ Window \in Nat /\ Full \in Nat /\ Full >= Window
    BY <1>1, RefillInt, FullLaws, BucketConfig
  <1>5. tokens \in Int
    BY <1>4
  <1>6. denial.wait = Window - tokens - Refill(denial.at - refilled)
    BY DEF DenialIsCurrent
  <1>7. Level(at) = Full \/ Level(at) = tokens + Refill(at - refilled)
    BY <1>1, LevelLaws
  <1>8. QED
    BY <1>3, <1>4, <1>6, <1>7, <1>5

LEMMA AllowanceFromSpan == IInv /\ SpanIsPaid => WithinAllowance
  <1> SUFFICES ASSUME IInv, SpanIsPaid, ~fresh
               PROVE  taken * Window <= Full + Refill(now - opened)
    BY DEF WithinAllowance
  <1> USE DEF IInv, TypeOK
  <1>1. /\ refilled - opened \in Int /\ now - opened \in Int
        /\ refilled - opened <= now - opened
    BY DEF ClocksArePast
  <1>2. Refill(refilled - opened) <= Refill(now - opened)
    BY <1>1, RefillMonotone
  <1>3. /\ Refill(refilled - opened) \in Int /\ Refill(now - opened) \in Int
        /\ taken * Window \in Nat /\ Full \in Nat
    BY <1>1, RefillInt, CostLaws, FullLaws
  <1>4. taken * Window + (IF present THEN tokens ELSE 0) <= Full + Refill(refilled - opened)
    BY DEF SpanIsPaid
  <1>5. QED
    BY <1>2, <1>3, <1>4

---------------------------------------------------------------------------
\* The invariant is established by the initial state and kept by every step.
THEOREM BucketInvariant == Spec => []IInv
  BY InitIInv, IInvStep, PTL DEF Spec

\* The row's tokens stay between nothing and a burst less one, and every other
\* variable keeps its type, whatever order stamps are applied in (Take, Sweep).
THEOREM BucketTypes == Spec => []TypeOK
  <1>1. IInv => TypeOK
    BY DEF IInv
  <1>2. QED
    BY <1>1, BucketInvariant, PTL

\* The limit of ratelimit.go: if the sweep waits for Window, the longest wait of
\* a take and the skew of the clocks, no span allows more than the burst and what
\* refills in it.
THEOREM AttemptsAreLimited == SweepSafe => (Spec => []WithinAllowance)
  <1> SUFFICES ASSUME SweepSafe PROVE Spec => []WithinAllowance
    OBVIOUS
  <1>1. Init => SpanIsPaid
    BY DEF Init, SpanIsPaid
  <1>2. IInv /\ SpanIsPaid /\ [Next]_vars => SpanIsPaid'
    BY SpanStep
  <1>3. QED
    BY <1>1, <1>2, BucketInvariant, AllowanceFromSpan, PTL DEF Spec

\* Nobody is refused who spent less than the burst (checkLoginLimit), but for what
\* the delay of a stamp withholds; no assumption on the sweep is needed.
THEOREM RefusalsEarned == Spec => []RefusalsAreEarned
  BY BucketInvariant, EarnedFromIInv, PTL

\* The wait take_rate_limit_token computes is long enough.
THEOREM WaitIsEnough == Spec => []RetryAfterIsEnough
  BY BucketInvariant, RetryFromIInv, PTL

=============================================================================
