----------------------------- MODULE RetryLoop -----------------------------
(***************************************************************************)
(* The loop that every request of apis/events/src/mbus_nats.rs is made in  *)
(* (get_stream, create_consumer_and_get_messages, get_or_create_stream,    *)
(* publish): try, give up after max_retries retries, otherwise wait as     *)
(* long as common/retry.rs says and try again.  Delays are in seconds.     *)
(***************************************************************************)
EXTENDS Integers

CONSTANTS
  MaxSeconds,   (* bound on the delays of the options *)
  MaxTries      (* bound on cutoff and max_retries    *)

ASSUME RetryAssumption == MaxSeconds \in Nat /\ MaxTries \in Nat

(* BackoffOptions.  The defaults and the options of publish have an        *)
(* initial delay below the maximum.                                        *)
BackoffOptions ==
  {o \in [init_delay : 0..MaxSeconds, step : 0..MaxSeconds,
          max_delay : 0..MaxSeconds, cutoff : 0..MaxTries,
          max_retries : 0..MaxTries] : o.init_delay <= o.max_delay}

AtMost(x, y) == IF x <= y THEN x ELSE y

(* The delay before the retry that makes `tries' of them. *)
DelayOffByOne(o, tries) ==   \* mutated form
  AtMost(o.init_delay + (tries - o.cutoff - 1) * o.step, o.max_delay)
Delay(o, tries) ==
  IF tries <= o.cutoff THEN o.init_delay
  ELSE AtMost(o.init_delay + (tries - o.cutoff - 1) * o.step, o.max_delay)

VARIABLES
  options, tries, outcome,
  requests,   (* history: how many requests have been made  *)
  waited,     (* history: the seconds slept in all          *)
  delay       (* history: the last delay                    *)

retryVars == <<options, tries, outcome, requests, waited, delay>>

RetryInit ==
  /\ options \in BackoffOptions
  /\ tries = 0 /\ outcome = "trying"
  /\ requests = 0 /\ waited = 0 /\ delay = 0

Succeed ==
  /\ outcome = "trying"
  /\ outcome' = "ok" /\ requests' = requests + 1
  /\ UNCHANGED <<options, tries, waited, delay>>

GiveUpLate == tries > options.max_retries    \* mutated form
LastTry == tries = options.max_retries

GiveUp ==
  /\ outcome = "trying" /\ LastTry
  /\ outcome' = "error" /\ requests' = requests + 1
  /\ UNCHANGED <<options, tries, waited, delay>>

(* The request failed: backoff_with_options counts a try and sleeps. *)
BackOff ==
  /\ outcome = "trying" /\ ~LastTry
  /\ requests' = requests + 1
  /\ tries' = tries + 1
  /\ delay' = Delay(options, tries + 1)
  /\ waited' = waited + delay'
  /\ UNCHANGED <<options, outcome>>

RetryNext == Succeed \/ GiveUp \/ BackOff

RetrySpec == RetryInit /\ [][RetryNext]_retryVars

(* The loop makes max_retries + 1 requests at most, exactly that many when *)
(* it gives up, and waits between the least and the most its options       *)
(* allow.                                                                  *)
Bounded ==
  /\ requests <= options.max_retries + 1
  /\ outcome = "error" => requests = options.max_retries + 1
  /\ waited \in tries * options.init_delay .. tries * options.max_delay

(* "Simple backoff delay which get gradually larger up to a 'max'          *)
(* duration" (retry.rs:73): a delay is never shorter than the one before.  *)
GraduallyLarger == [][delay <= delay']_retryVars
=============================================================================
