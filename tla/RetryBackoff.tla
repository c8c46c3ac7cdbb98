---------------------------- MODULE RetryBackoff ----------------------------
(***************************************************************************)
(* internal/resource/throttler.go: the retries of one name.  A caller      *)
(* records a retry, asks for the delay before the next one, lets time pass *)
(* and asks whether it may retry.  Delays double from one second up to     *)
(* five minutes; they are computed in floating point and converted to a    *)
(* 64-bit number of nanoseconds, which 2^34 seconds do not fit: Go leaves  *)
(* the result of that conversion to the platform.                          *)
(***************************************************************************)
EXTENDS Integers

CONSTANTS
    MaxRetries,     \* bound: retries recorded in a row
    Pauses          \* seconds a caller lets pass, apart from the delays it is told

ASSUME BackoffAssumption == MaxRetries \in Nat /\ Pauses \subseteq Nat

VARIABLES
    retryCount,     \* retryCounts[name], 0 when there is no entry
    sinceRetry,     \* seconds since lastRetryTime[name], up to MaxBackoff
    obeyed,         \* the caller waited the delay it was told since then
    answer          \* what ShouldRetry said since then

backoffVars == <<retryCount, sinceRetry, obeyed, answer>>

MaxBackoff == 300

BackoffTypeOK ==
    /\ retryCount \in 0..MaxRetries
    /\ sinceRetry \in 0..MaxBackoff
    /\ obeyed \in BOOLEAN
    /\ answer \in {"none", "retry", "wait"}

BackoffInit ==
    /\ retryCount = 0 /\ sinceRetry = MaxBackoff
    /\ obeyed = TRUE /\ answer = "none"

-----------------------------------------------------------------------------
(* Seconds of time.Duration(float64(time.Second) * math.Pow(2, e)), capped:*)
(* 2^9 seconds exceed the cap, and 2^34 seconds the type, where the result *)
(* is the largest number, capped, on some platforms and the smallest on    *)
(* others.                                                                 *)
Backoff(e) ==
    CASE e <= 8 -> {2^e}
      [] e \in 9..33 -> {MaxBackoff}
      [] OTHER -> {-1, MaxBackoff}

CalculateBackoffDelay(n) == Backoff(n)

Pass(s) == IF sinceRetry + s > MaxBackoff THEN MaxBackoff ELSE sinceRetry + s

RecordRetry ==
    /\ retryCount < MaxRetries
    /\ retryCount' = retryCount + 1 /\ sinceRetry' = 0
    /\ obeyed' = FALSE /\ answer' = "none"

(* A negative delay is no delay to time.Sleep. *)
SleepDelay ==
    /\ \E d \in CalculateBackoffDelay(retryCount) : sinceRetry' = IF d < 0 THEN sinceRetry ELSE Pass(d)
    /\ obeyed' = TRUE /\ answer' = "none"
    /\ UNCHANGED retryCount

LetPass(s) ==
    /\ sinceRetry' = Pass(s) /\ answer' = "none"
    /\ UNCHANGED <<retryCount, obeyed>>

(* Mutant: the exponents of the two computations differ by one more. *)
ShouldRetryLater ==
    /\ \/ retryCount = 0 /\ answer' = "retry"
       \/ /\ retryCount > 0
          /\ \E d \in Backoff(retryCount + 1) : answer' = IF sinceRetry >= d THEN "retry" ELSE "wait"
    /\ UNCHANGED <<retryCount, sinceRetry, obeyed>>

ShouldRetry ==
    /\ \/ retryCount = 0 /\ answer' = "retry"
       \/ /\ retryCount > 0
          /\ \E d \in Backoff(retryCount - 1) : answer' = IF sinceRetry >= d THEN "retry" ELSE "wait"
    /\ UNCHANGED <<retryCount, sinceRetry, obeyed>>

(* ResetRetry, ClearRetryInfo *)
ResetRetry ==
    /\ retryCount' = 0 /\ sinceRetry' = MaxBackoff
    /\ obeyed' = TRUE /\ answer' = "none"

BackoffNext ==
    RecordRetry \/ SleepDelay \/ (\E s \in Pauses : LetPass(s)) \/ ShouldRetry \/ ResetRetry

BackoffSpec == BackoffInit /\ [][BackoffNext]_backoffVars

-----------------------------------------------------------------------------
(* The two computations of the delay agree: below 34 retries in a row,     *)
(* where the conversion overflows, a caller that waited as long as it was  *)
(* told may retry, and no caller may before a second has passed            *)
(* (throttler.go:88 and :136).                                             *)
DelayIsEnough ==
    retryCount < 34 =>
        /\ answer = "wait" => ~obeyed
        /\ answer = "retry" => retryCount = 0 \/ sinceRetry >= 1
=============================================================================
