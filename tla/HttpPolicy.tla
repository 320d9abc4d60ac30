----------------------------- MODULE HttpPolicy -----------------------------
(***************************************************************************)
(* The HTTP client every source shares: internal/source/httpclient/        *)
(* policy.go.  Calls of Do take turns for the rate limit, retry within a   *)
(* wait budget and can be cancelled anywhere.  Time is relative: cooldown  *)
(* and the timers say how far ahead a moment lies, and Tick moves it.      *)
(***************************************************************************)
EXTENDS Integers

CONSTANTS
  Calls,           \* goroutines that use the client
  Interval,        \* requestInterval
  MaxRetries,
  MaxWait,
  InitialBackoff,
  MaxBackoff,
  MaxDuration,     \* largest time.Duration; arithmetic wraps beyond it
  Hints,           \* what a Retry-After header may parse to
  Late,            \* bound: how long after its time a timer may fire
  None

Durations == -(MaxDuration + 1)..MaxDuration

\* The limits New accepts.
Limits ==
  /\ Interval \in 1..MaxDuration
  /\ MaxRetries \in Nat
  /\ MaxWait \in 1..MaxDuration
  /\ MaxBackoff \in 1..MaxDuration /\ InitialBackoff \in 1..MaxBackoff

ASSUME PolicyAssumption ==
  /\ MaxDuration \in Nat /\ Limits
  /\ Hints \subseteq 0..MaxDuration
  /\ Late \in Nat
  /\ None \notin Calls /\ None \notin Int

\* The law of powers that the proofs need and the provers do not know.
ASSUME PowersAssumption ==
  2 ^ 0 = 1 /\ \A k \in 1..MaxRetries : 2 ^ k = 2 * 2 ^ (k - 1)

VARIABLES
  turn,       \* the call whose token is in the channel rateTurn, or None
  cooldown,   \* nextRequest minus now, counted down to -Late
  call,       \* each call of Do
  cancelled   \* the calls whose context is done

httpVars == <<turn, cooldown, call, cancelled>>

Idle == [pc |-> "idle", attempt |-> 0, waited |-> 0, delay |-> 0, timer |-> 0]

HttpInit ==
  /\ turn = None
  /\ cooldown = -Late
  /\ call = [c \in Calls |-> Idle]
  /\ cancelled = {}

At(c, pc) == call[c].pc = pc

Becomes(c, pc) == call' = [call EXCEPT ![c] = [Idle EXCEPT !.pc = pc]]

Cancelled(c) == c \in cancelled

(***************************************************************************)
(* retryDelay.                                                             *)
(***************************************************************************)
Wrapped(d) == IF d > MaxDuration THEN d - 2 * (MaxDuration + 1) ELSE d

\* Slip: the delay is compared with the maximum after it was doubled.
BackoffCappedLate(initial, max) ==
  LET after[k \in Nat] ==
        IF k = 0 THEN initial
        ELSE LET doubled == Wrapped(2 * after[k - 1])
             IN  IF doubled > max THEN max ELSE doubled
  IN  after

\* The delay after k doublings; each is checked before it is made.
Backoff(initial, max) ==
  LET after[k \in Nat] ==
        IF k = 0 THEN initial
        ELSE IF after[k - 1] > max \div 2 THEN max
        ELSE Wrapped(2 * after[k - 1])
  IN  after

RetryDelay(attempt, hint) ==
  IF hint # None THEN hint ELSE Backoff(InitialBackoff, MaxBackoff)[attempt]

(***************************************************************************)
(* Do: the top of the retry loop, and waitForRateLimit.                    *)
(***************************************************************************)
\* The loop looks at the context before every attempt.
NextAttempt(c) == IF Cancelled(c) THEN "failed" ELSE "queued"

Do(c) ==
  /\ At(c, "idle")
  /\ Becomes(c, NextAttempt(c))
  /\ UNCHANGED <<turn, cooldown, cancelled>>

\* Slip: nobody waits for the turn of another.
TakeTurnOfOthers(c) ==
  /\ At(c, "queued") /\ ~Cancelled(c)
  /\ IF cooldown > 0
       THEN /\ turn' = c
            /\ call' = [call EXCEPT ![c].pc = "pacing", ![c].timer = cooldown]
            /\ UNCHANGED cooldown
       ELSE /\ call' = [call EXCEPT ![c].pc = "sending"]
            /\ cooldown' = Interval
            /\ UNCHANGED turn
  /\ UNCHANGED cancelled

\* The turn comes; a call cancelled meanwhile gives it back at once, and one
\* that need not wait takes the slot of this moment.
TakeTurn(c) ==
  /\ At(c, "queued") /\ turn = None
  /\ \/ /\ Cancelled(c)
        /\ Becomes(c, "failed")
        /\ UNCHANGED <<turn, cooldown>>
     \/ /\ ~Cancelled(c) /\ cooldown <= 0
        /\ call' = [call EXCEPT ![c].pc = "sending"]
        /\ cooldown' = Interval
        /\ UNCHANGED turn
     \/ /\ ~Cancelled(c) /\ cooldown > 0
        /\ turn' = c
        /\ call' = [call EXCEPT ![c].pc = "pacing", ![c].timer = cooldown]
        /\ UNCHANGED cooldown
  /\ UNCHANGED cancelled

GiveUpQueue(c) ==
  /\ At(c, "queued") /\ Cancelled(c)
  /\ Becomes(c, "failed")
  /\ UNCHANGED <<turn, cooldown, cancelled>>

\* The slot is the scheduled moment, which a late timer leaves behind.
Admit(c) ==
  /\ At(c, "pacing") /\ call[c].timer <= 0
  /\ call' = [call EXCEPT ![c].pc = "sending", ![c].timer = 0]
  /\ cooldown' = Interval + call[c].timer
  /\ turn' = None
  /\ UNCHANGED cancelled

\* Slip: the turn is given back at the end of a successful wait only.
PacingCancelledKeepsTurn(c) ==
  /\ At(c, "pacing") /\ Cancelled(c)
  /\ Becomes(c, "failed")
  /\ UNCHANGED <<turn, cooldown, cancelled>>

\* The deferred receive gives the turn back; nextRequest stays.
PacingCancelled(c) ==
  /\ At(c, "pacing") /\ Cancelled(c)
  /\ Becomes(c, "failed")
  /\ turn' = None
  /\ UNCHANGED <<cooldown, cancelled>>

(***************************************************************************)
(* Do: the request and what follows from its answer.                       *)
(***************************************************************************)
Answer(c) ==
  /\ At(c, "sending")
  /\ Becomes(c, "ok")
  /\ UNCHANGED <<turn, cooldown, cancelled>>

\* The transport failed or timed out, the body is too large or unreadable, or
\* the status is not retryable, or Refused: none of it is tried again.
SendFails(c) ==
  /\ At(c, "sending")
  /\ Becomes(c, "failed")
  /\ UNCHANGED <<turn, cooldown, cancelled>>

\* A retryable status after the last attempt, or with a delay over budget.
Refused(c, hint) ==
  \/ call[c].attempt >= MaxRetries
  \/ RetryDelay(call[c].attempt, hint) > MaxWait - call[c].waited

\* Slip: the budget is compared with every delay by itself.
BackOffForgetful(c, hint) ==
  /\ At(c, "sending") /\ call[c].attempt < MaxRetries
  /\ \E delay \in Durations :
       /\ delay = RetryDelay(call[c].attempt, hint) /\ delay <= MaxWait
       /\ call' = [call EXCEPT ![c].pc = "backoff", ![c].delay = delay,
                               ![c].timer = delay]
  /\ UNCHANGED <<turn, cooldown, cancelled>>

\* A retryable status within the attempts and the budget.
BackOff(c, hint) ==
  /\ At(c, "sending") /\ ~Refused(c, hint)
  /\ \E delay \in Durations :
       /\ delay = RetryDelay(call[c].attempt, hint)
       /\ call' = [call EXCEPT ![c].pc = "backoff", ![c].delay = delay,
                               ![c].timer = delay]
  /\ UNCHANGED <<turn, cooldown, cancelled>>

Resume(c) ==
  /\ At(c, "backoff") /\ call[c].timer <= 0
  /\ call' = [call EXCEPT ![c] =
       IF Cancelled(c) THEN [Idle EXCEPT !.pc = "failed"]
       ELSE [Idle EXCEPT !.pc = "queued", !.attempt = call[c].attempt + 1,
                         !.waited = call[c].waited + call[c].delay]]
  /\ UNCHANGED <<turn, cooldown, cancelled>>

BackoffCancelled(c) ==
  /\ At(c, "backoff") /\ Cancelled(c)
  /\ Becomes(c, "failed")
  /\ UNCHANGED <<turn, cooldown, cancelled>>

\* Collects the result of Do.
Return(c) ==
  /\ call[c].pc \in {"ok", "failed"}
  /\ Becomes(c, "idle")
  /\ UNCHANGED <<turn, cooldown, cancelled>>

(***************************************************************************)
(* Time and the callers.                                                   *)
(***************************************************************************)
Sleeping == {c \in Calls : call[c].pc \in {"pacing", "backoff"}}

\* A timer fires at most Late after its time.
Tick ==
  /\ \A c \in Sleeping : call[c].timer > -Late
  /\ call' = [c \in Calls |-> IF c \in Sleeping
                              THEN [call[c] EXCEPT !.timer = @ - 1] ELSE call[c]]
  /\ cooldown' = IF cooldown > -Late THEN cooldown - 1 ELSE cooldown
  /\ UNCHANGED <<turn, cancelled>>

Cancel(c) ==
  /\ ~Cancelled(c)
  /\ cancelled' = cancelled \cup {c}
  /\ UNCHANGED <<turn, cooldown, call>>

\* What the client does of itself; Do and Return are the caller's.
Progress(c) ==
  \/ TakeTurn(c) \/ GiveUpQueue(c) \/ Admit(c) \/ PacingCancelled(c)
  \/ Answer(c) \/ SendFails(c) \/ \E hint \in Hints \cup {None} : BackOff(c, hint)
  \/ Resume(c) \/ BackoffCancelled(c)

HttpNext ==
  \/ Tick
  \/ \E c \in Calls : Do(c) \/ Progress(c) \/ Return(c) \/ Cancel(c)

HttpSpec == HttpInit /\ [][HttpNext]_httpVars

\* A select with a case that is ready returns, an exchange ends by its timeout,
\* time passes, and senders to a Go channel are served in order of arrival.
HttpFairness ==
  /\ WF_httpVars(Tick)
  /\ \A c \in Calls :
       /\ SF_httpVars(TakeTurn(c))
       /\ WF_httpVars(GiveUpQueue(c))
       /\ WF_httpVars(Admit(c) \/ PacingCancelled(c))
       /\ WF_httpVars(Answer(c) \/ SendFails(c))
       /\ WF_httpVars(Resume(c) \/ BackoffCancelled(c))

(***************************************************************************)
(* Properties.                                                             *)
(***************************************************************************)
CallState == [pc : {"idle", "queued", "pacing", "sending", "backoff", "ok", "failed"},
              attempt : 0..MaxRetries, waited : Int, delay : Durations, timer : Int]

\* The variables have their types.
HttpTypeOK ==
  /\ turn \in Calls \cup {None}
  /\ cooldown \in -Late..Interval
  /\ call \in [Calls -> CallState]
  /\ cancelled \subseteq Calls

\* The delays a call of Do slept, the one it is sleeping included, never add up
\* to more than MaxWait, whatever Retry-After asks for.
RetriesWithinBudget ==
  \A c \in Calls : call[c].waited + call[c].delay <= MaxWait

\* Whatever limits of w-bit durations a client has, the delay a call sleeps
\* before its retry k is initial * 2^k or, if that is more, max: doubling never
\* passes it and never overflows.
BackoffIsExponential ==
  \A c \in Calls : At(c, "sending") =>
    \A max \in 1..MaxDuration : \A initial \in 1..max :
      LET k == call[c].attempt
          exact == initial * 2 ^ k
      IN  Backoff(initial, max)[k] = IF exact < max THEN exact ELSE max

\* Every request is sent in a slot of its own, and the slots of all calls are
\* Interval apart, whoever waits, is cancelled or wakes up late.
Gate == INSTANCE RateGate WITH
          Requests <- Calls, Interval <- Interval, Late <- Late,
          elapsed <- Interval - cooldown, sent <- {c \in Calls : At(c, "sending")}

SlotsAreApart == Gate!Spec
=============================================================================
