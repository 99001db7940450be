------------------------------ MODULE TokenBucket -------------------------------
(***************************************************************************)
(* One row of rate_limit_buckets, shared by every replica: concurrent takes, *)
(* the reset after a successful sign-in, the sweep of idle rows.            *)
(*                                                                         *)
(* now() is fixed when a transaction starts, and a take then waits for the  *)
(* row's lock: takes are applied one at a time, but not in the order of     *)
(* their stamps.  The column is real; here tokens are counted exactly, in   *)
(* units of 1/Window token, so that a tick refills Capacity units.          *)
(***************************************************************************)
EXTENDS Integers

CONSTANTS Attempt,    \* sign-in attempts in flight
          Capacity,   \* LOGIN_ATTEMPTS
          Window,     \* LOGIN_WINDOW, in ticks
          MaxDelay,   \* longest a take waits: the handler's timeout cancels it
          SweepAge,   \* the sweep deletes rows untouched for this long (24 h)
          MaxSkew,    \* service clock - database clock, either way
          MaxTime     \* bound on the clock

ASSUME BucketConfig ==
    /\ Capacity \in Nat \ {0} /\ Window \in Nat \ {0}
    /\ MaxDelay \in Nat /\ SweepAge \in Nat /\ MaxSkew \in Nat /\ MaxTime \in Nat

VARIABLES
    now,       \* the database clock
    present,   \* whether the row exists
    tokens,    \* its tokens, in units; kept after the row is deleted
    refilled,  \* its refilled_at; kept after the row is deleted
    pending,   \* takes started and not yet applied
    sweeps,    \* cutoffs of sweeps started and not yet applied
    fresh,     \* history: no attempt was allowed since the start or the last reset
    spent,     \* history: attempts allowed since then
    opened,    \* history: the stamp of some allowed attempt, which opens a span
    taken,     \* history: attempts allowed in the span
    denial     \* history: a refusal after which nobody was allowed

vars == <<now, present, tokens, refilled, pending, sweeps, fresh, spent, opened, taken, denial>>
history == <<fresh, spent, opened, taken>>

Full == Capacity * Window
Refill(ticks) == Capacity * ticks

NoDenial == [set |-> FALSE, at |-> 0, wait |-> 0]

TypeOK ==
    /\ now \in Nat
    /\ present \in BOOLEAN
    /\ tokens \in 0..(Full - Window)
    /\ refilled \in Nat
    /\ pending \in SUBSET [id : Attempt, stamp : Nat]
    /\ sweeps \in SUBSET Int
    /\ fresh \in BOOLEAN
    /\ spent \in Nat /\ taken \in Nat
    /\ opened \in Nat
    /\ denial \in [set : BOOLEAN, at : Nat, wait : Int]

Init ==
    /\ now = 0
    /\ present = FALSE /\ tokens = 0 /\ refilled = 0
    /\ pending = {} /\ sweeps = {}
    /\ fresh = TRUE /\ spent = 0 /\ opened = 0 /\ taken = 0
    /\ denial = NoDenial

---------------------------------------------------------------------------
\* What the row holds at a time: the tokens left plus the refill, capped.
Level(at) == LET sum == tokens + Refill(at - refilled) IN IF sum > Full THEN Full ELSE sum

Start(a) ==
    /\ \A p \in pending : p.id # a
    /\ pending' = pending \cup {[id |-> a, stamp |-> now]}
    /\ UNCHANGED <<now, present, tokens, refilled, sweeps, history, denial>>

\* The attempt is allowed and leaves the given units.  Any allowed attempt may
\* open the span that is being measured.
Allow(p, left) ==
    /\ present' = TRUE
    /\ tokens' = left
    /\ refilled' = p.stamp
    /\ fresh' = FALSE
    /\ spent' = spent + 1
    /\ \/ taken' = 1 /\ opened' = p.stamp
       \/ ~fresh /\ taken' = taken + 1 /\ UNCHANGED opened
    /\ denial' = NoDenial

\* The INSERT ... ON CONFLICT DO UPDATE: a full bucket less one, or the level less one.
Admit(p) ==
    \/ ~present /\ Allow(p, Full - Window)
    \/ present /\ Level(p.stamp) >= Window /\ Allow(p, Level(p.stamp) - Window)

\* No row came back: how long until the bucket holds a whole token.
Refuse(p) ==
    /\ present /\ Level(p.stamp) < Window
    /\ denial' = [set |-> TRUE, at |-> p.stamp, wait |-> Window - Level(p.stamp)]

\* Mutants of Take: a refusal restarts the refill; a refusal is charged too.
TakePunishing(p) ==
    /\ pending' = pending \ {p}
    /\ \/ Admit(p)
       \/ /\ Refuse(p)
          /\ refilled' = p.stamp /\ UNCHANGED <<present, tokens, history>>
    /\ UNCHANGED <<now, sweeps>>
TakeCharging(p) ==
    /\ pending' = pending \ {p}
    /\ \/ Admit(p)
       \/ /\ Refuse(p)
          /\ refilled' = p.stamp /\ tokens' = Level(p.stamp) - Window
          /\ UNCHANGED <<present, history>>
    /\ UNCHANGED <<now, sweeps>>

\* take_rate_limit_token.  The conflicting row stays locked when its WHERE is
\* false, so the refusal is computed from the row that refused.
Take(p) ==
    /\ pending' = pending \ {p}
    /\ \/ Admit(p)
       \/ Refuse(p) /\ UNCHANGED <<present, tokens, refilled, history>>
    /\ UNCHANGED <<now, sweeps>>

\* The limiter cannot be reached: the attempt goes ahead, unmetered.
Unavailable(p) ==
    /\ pending' = pending \ {p}
    /\ UNCHANGED <<now, present, tokens, refilled, sweeps, history, denial>>

\* A successful sign-in deletes the row.
Reset ==
    /\ present' = FALSE
    /\ fresh' = TRUE /\ spent' = 0 /\ taken' = 0
    /\ denial' = NoDenial
    /\ UNCHANGED <<now, tokens, refilled, pending, sweeps, opened>>

\* The hourly sweep: the cutoff comes from the service's clock.
SweepStart(skew) ==
    /\ sweeps' = sweeps \cup {now + skew - SweepAge}
    /\ UNCHANGED <<now, present, tokens, refilled, pending, history, denial>>

\* Mutant: the comparison the wrong way round.
SweepReversed(cutoff) ==
    /\ sweeps' = sweeps \ {cutoff}
    /\ present' = (present /\ refilled < cutoff)
    /\ UNCHANGED <<now, tokens, refilled, pending, history, denial>>

Sweep(cutoff) ==
    /\ sweeps' = sweeps \ {cutoff}
    /\ present' = (present /\ refilled >= cutoff)
    /\ UNCHANGED <<now, tokens, refilled, pending, history, denial>>

Tick ==
    /\ now < MaxTime
    /\ \A p \in pending : now < p.stamp + MaxDelay
    /\ now' = now + 1
    /\ UNCHANGED <<present, tokens, refilled, pending, sweeps, history, denial>>

Next ==
    \/ \E a \in Attempt : Start(a)
    \/ \E p \in pending : Take(p) \/ Unavailable(p)
    \/ Reset
    \/ sweeps = {} /\ \E skew \in -MaxSkew..MaxSkew : SweepStart(skew)
    \/ \E cutoff \in sweeps : Sweep(cutoff)
    \/ Tick

Spec == Init /\ [][Next]_vars

---------------------------------------------------------------------------
\* What the sweep relies on: a row is full again before it is old enough to go.
SweepSafe == SweepAge >= Window + MaxDelay + MaxSkew

\* The limit: in every span that opens with an allowed attempt, at most Capacity
\* attempts are allowed, plus one for each token that refills during the span,
\* whatever the order takes are applied in, and whatever is swept, by any replica.
WithinAllowance == ~fresh => taken * Window <= Full + Refill(now - opened)

\* The promise to the user: nobody is refused who spent less than the burst.  A
\* take may be stamped up to MaxDelay before the one it waited for, so that long
\* a refill may be missing.
RefusalsAreEarned ==
    present => \A p \in pending : Level(p.stamp) >= Full - spent * Window - Refill(MaxDelay)

\* A client that waits as long as the refusal said finds a token, if no attempt
\* was allowed in between.
Answer(at) == ~present \/ Level(at) >= Window
RetryAfterIsEnough ==
    denial.set => \A at \in denial.at..now :
                     Refill(at - denial.at) >= denial.wait => Answer(at)

=============================================================================
