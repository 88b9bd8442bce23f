---------------------------- MODULE RetryBackoff ----------------------------
(***************************************************************************)
(* The retry loop and its waits in machine arithmetic (retry.go,           *)
(* Client.withTxRetry in tx.go, pingWithRetry in config.go).               *)
(*                                                                         *)
(* Both loops try first, give up once the attempt counter has reached the  *)
(* limit, and otherwise sleep retryBackoff(attempt, baseWait, maxWait).    *)
(* The counter and the durations are signed integers of Width bits.        *)
(***************************************************************************)
EXTENDS Integers

CONSTANTS
    Width,          \* bits of an int and of a time.Duration
    BaseWaits, MaxWaits, Retries

(* 2^n                                                                     *)
Power[n \in 0..Width] == IF n = 0 THEN 1 ELSE 2 * Power[n - 1]

MaxInt == Power[Width - 1] - 1
MinInt == -MaxInt - 1
Word   == MinInt..MaxInt

(* Waits may come from Config fields without a check: any Duration.        *)
ASSUME WidthAssumption == Width \in Nat \ {0}
ASSUME WaitAssumption == BaseWaits \subseteq Word /\ MaxWaits \subseteq Word
ASSUME RetryAssumption == Retries \subseteq {r \in Word : r >= 0}

VARIABLES
    baseWait, maxWait, maxRetries,      \* the call's parameters
    pc,         \* try, sleep, or how the loop ended
    attempt,    \* the loop counter
    tries,      \* how often the operation was tried
    wait        \* the last result of retryBackoff

params    == <<baseWait, maxWait, maxRetries>>
retryVars == <<params, pc, attempt, tries, wait>>

-----------------------------------------------------------------------------
Wrap(x) == ((x - MinInt) % (MaxInt - MinInt + 1)) + MinInt

(* baseWait << attempt: bits that do not fit are lost.                     *)
Shift(base, n) == IF n >= Width THEN 0 ELSE Wrap(base * Power[n])

Least(x, y) == IF x <= y THEN x ELSE y

(* Mutants: overflow is not recognised; the jitter may triple the wait.    *)
BackoffUnguarded(base, n, limit) ==
    LET w == Shift(base, n)
    IN  IF w >= limit THEN {limit} ELSE {Least(Wrap(w + j), limit) : j \in {0, w \div 2}}
BackoffWideJitter(base, n, limit) ==
    LET w == Shift(base, n)
    IN  IF w <= 0 \/ w >= limit THEN {limit}
        ELSE {Least(Wrap(w + j), limit) : j \in 0..(2 * w)}

(* The results retryBackoff may return: any jitter up to half the wait.    *)
retryBackoff(base, n, limit) ==
    LET w == Shift(base, n)
    IN  IF w <= 0 \/ w >= limit THEN {limit}
        ELSE {Least(Wrap(w + j), limit) : j \in 0..(w \div 2)}

-----------------------------------------------------------------------------
RetryInit ==
    /\ baseWait \in BaseWaits /\ maxWait \in MaxWaits /\ maxRetries \in Retries
    /\ pc = "try" /\ attempt = 0 /\ tries = 0 /\ wait = 0

(* The operation returns no error, or one that is not retried.             *)
Settle ==
    /\ pc = "try"
    /\ pc' = "settled" /\ tries' = tries + 1
    /\ UNCHANGED <<params, attempt, wait>>

(* Mutant: the loop runs while attempt < maxRetries + 1.                   *)
ExhaustedByCount == attempt >= Wrap(maxRetries + 1)

Exhausted == attempt >= maxRetries

GiveUp ==
    /\ pc = "try" /\ Exhausted
    /\ pc' = "exhausted" /\ tries' = tries + 1
    /\ UNCHANGED <<params, attempt, wait>>

Sleep ==
    /\ pc = "try" /\ ~Exhausted
    /\ pc' = "sleep" /\ tries' = tries + 1
    /\ wait' \in retryBackoff(baseWait, attempt, maxWait)
    /\ UNCHANGED <<params, attempt>>

TimerFires ==
    /\ pc = "sleep"
    /\ pc' = "try" /\ attempt' = Wrap(attempt + 1)
    /\ UNCHANGED <<params, tries, wait>>

(* ctx ends while the loop sleeps.                                         *)
Canceled ==
    /\ pc = "sleep"
    /\ pc' = "canceled"
    /\ UNCHANGED <<params, attempt, tries, wait>>

RetryNext == Settle \/ GiveUp \/ Sleep \/ TimerFires \/ Canceled

RetrySpec == RetryInit /\ [][RetryNext]_retryVars

-----------------------------------------------------------------------------
(* Properties.                                                             *)

(* The types; the counter never leaves the range the caller asked for.     *)
RetryTypeOK ==
    /\ baseWait \in BaseWaits /\ maxWait \in MaxWaits /\ maxRetries \in Retries
    /\ pc \in {"try", "sleep", "settled", "exhausted", "canceled"}
    /\ attempt \in 0..maxRetries
    /\ tries \in Nat
    /\ wait \in Word

(* The wait is below the limit, so that jitter is added to it, and with    *)
(* half of it more it does not fit in a word.                              *)
JitterOverflows ==
    LET w == Shift(baseWait, attempt)
    IN  w < maxWait /\ w + w \div 2 > MaxInt

(* A sleep is never longer than the limit.  With a positive limit it is    *)
(* never zero or negative either, however many retries came before and     *)
(* whatever the shift overflowed to: no hot loop (retryBackoff).  The one  *)
(* exception is a wait above two thirds of the range (194 years) below a   *)
(* limit that is still higher: wait+jitter (retry.go:39) has no guard.     *)
SleepWithinBounds ==
    pc = "sleep" => wait <= maxWait /\ (maxWait > 0 => wait > 0 \/ JitterOverflows)

(* The operation is tried at least once and, while it keeps failing, once  *)
(* more than the retries asked for, also when that number is the largest   *)
(* an int can hold (the comments in withTxRetry and pingWithRetry).        *)
TriesAsAsked ==
    /\ tries = IF pc = "try" THEN attempt ELSE attempt + 1
    /\ pc = "exhausted" => tries = maxRetries + 1

Exact(n) == n < Width /\ baseWait > 0 /\ baseWait * Power[n] <= MaxInt

(* Until the shift or the jitter overflows, a retry never waits less than  *)
(* the one before it: half a wait of jitter is less than the doubling      *)
(* (retryBackoff).                                                         *)
WaitsNeverShrink ==
    [][pc' = "sleep" /\ attempt > 0 /\ Exact(attempt) => wait' >= wait \/ JitterOverflows]_retryVars

(* What the comment at retry.go:31-32 and CHANGELOG.md:225 say: a shift    *)
(* that overflows gives the limit.                                         *)
OverflowGivesLimit ==
    pc = "sleep" /\ baseWait \in 1..maxWait /\ ~Exact(attempt) => wait = maxWait
=============================================================================
