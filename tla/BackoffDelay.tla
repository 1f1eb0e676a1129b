----------------------------- MODULE BackoffDelay -----------------------------
(***************************************************************************)
(* The delay before a failed document or event is tried again:             *)
(*                                                                         *)
(*   d := time.Duration(math.Pow(2, float64(attempts))) * time.Second      *)
(*   if d > max { return max }                                             *)
(*                                                                         *)
(* (Engine.backoff and outbox.backoffFor).  A Duration is an int64 of      *)
(* nanoseconds, and the product wraps.  10^9 = 1953125 * 2^9, so d is the  *)
(* bits of 1953125 moved up by attempts + 9 places and cut at place 63.    *)
(* As every delay that occurs is a multiple of 2^9 ns, delays are counted  *)
(* in these units (Tick), of which a second has 1953125.                   *)
(***************************************************************************)
EXTENDS Integers

CONSTANTS
    MaxSeconds,     \* the values of MaxBackoff, in seconds
    AttemptLimit    \* bound: attempts of one document

VARIABLES
    attempts,       \* attempts made when the POST, or the dispatch, failed
    max,            \* the configured MaxBackoff, in seconds
    delay           \* the delay the document, or the event, is given

vars == <<attempts, max, delay>>

SecondTicks == 1953125

\* A delay of zero or less: available_at is not later than NOW().
NoWait == 0

\* Bit i of a second, and of the product of 2^a with it.  The product keeps
\* bits 0 to 54, of which 54 is its sign.
SecondBit(i) == IF i \in 0..20 THEN (SecondTicks \div 2^i) % 2 ELSE 0
ProductBit(a, i) == SecondBit(i - a)

\* math.Pow(2, a) is an int64 for a < 63 only.  What a build makes of a larger
\* one, the least int64 or the greatest, gives a product of 0 s or -1 s.
Converts(a) == a < 63

Positive(a) ==
    Converts(a) /\ ProductBit(a, 54) = 0 /\ \E i \in 0..53 : ProductBit(a, i) = 1

\* The product's low 31 bits as a number.
Low(a) ==
    LET sum[i \in 0..31] ==
            IF i = 31 THEN 0 ELSE ProductBit(a, i) * 2^i + sum[i + 1]
    IN  sum[0]

Exceeds(a, ticks) ==
    (\E i \in 31..53 : ProductBit(a, i) = 1) \/ Low(a) > ticks

Backoff(n, m) ==
    LET a == IF n < 1 THEN 1 ELSE n
    IN  IF ~Positive(a) THEN NoWait
        ELSE IF Exceeds(a, m * SecondTicks) THEN m * SecondTicks
        ELSE Low(a)

-------------------------------------------------------------------------------

Init ==
    /\ attempts = 0
    /\ max \in MaxSeconds
    /\ delay = NoWait

\* One more claim of the document and one more failure.
Fail ==
    /\ attempts < AttemptLimit
    /\ attempts' = attempts + 1
    /\ delay' = Backoff(attempts', max)
    /\ UNCHANGED max

Next == Fail

Spec == Init /\ [][Next]_vars

-------------------------------------------------------------------------------

\* Every retry waits: "retry forever with backoff".
RetryWaits == attempts > 0 => delay > NoWait
===============================================================================
