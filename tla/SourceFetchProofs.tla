------------------------- MODULE SourceFetchProofs -------------------------
(***************************************************************************)
(* First the HTTP client, for any number of calls, any limits New accepts, *)
(* any Retry-After and any cancellations: no call sleeps longer than its   *)
(* budget, delays double up to their maximum, and requests are sent in     *)
(* slots that lie the rate limit's interval apart.  Then the paged fetches *)
(* over it, for any number of them over one client, any totals and limits, *)
(* any page size and any answers of the server: what a fetch emits, where  *)
(* it goes on, and that a server that keeps to its protocol loses no       *)
(* record.                                                                 *)
(***************************************************************************)
EXTENDS SourceFetch, WellFoundedInduction, TLAPS

(***************************************************************************)
(* The argument: a call that waits for its slot holds the turn, so that    *)
(* nothing moves the next slot but time, and its timer counts down with    *)
(* it; when the timer fires, late by what it is below zero, the slot of    *)
(* that moment is the one that is due.                                     *)
(***************************************************************************)
Sound(c, f, holder, due) ==
  /\ f.pc = "pacing" => holder = c /\ f.timer = due
  /\ f.pc = "backoff" => f.attempt < MaxRetries
  /\ f.waited + f.delay <= MaxWait

HInv ==
  /\ HttpTypeOK
  /\ \A c \in Calls : Sound(c, call[c], turn, cooldown)

(***************************************************************************)
(* Types.                                                                  *)
(***************************************************************************)
Pcs == {"idle", "queued", "pacing", "sending", "backoff", "ok", "failed"}

LEMMA LimitTypes ==
  ASSUME PolicyAssumption
  PROVE  /\ MaxRetries \in Nat /\ MaxDuration \in Nat /\ Late \in Nat
         /\ Interval \in Int /\ Interval > 0 /\ MaxWait \in Int /\ MaxWait > 0
         /\ 0 \in Durations /\ 0 \in 0..MaxRetries /\ Durations \subseteq Int
         /\ \A c \in Calls : c # None
BY DEF PolicyAssumption, Limits, Durations

LEMMA IdleType ==
  ASSUME PolicyAssumption, NEW pc \in Pcs
  PROVE  /\ [Idle EXCEPT !.pc = pc] \in CallState
         /\ [Idle EXCEPT !.pc = pc].pc = pc
         /\ [Idle EXCEPT !.pc = pc].waited + [Idle EXCEPT !.pc = pc].delay = 0
BY LimitTypes DEF CallState, Idle, Pcs

LEMMA QueuedType ==
  ASSUME PolicyAssumption, NEW attempt \in 0..MaxRetries, NEW waited \in Int
  PROVE  LET f == [Idle EXCEPT !.pc = "queued", !.attempt = attempt, !.waited = waited]
         IN  /\ f \in CallState
             /\ f.pc = "queued" /\ f.delay = 0 /\ f.waited = waited
BY LimitTypes DEF CallState, Idle

(***************************************************************************)
(* A step of one call keeps the invariant if no other call is pacing where *)
(* it moves the turn or the next slot.                                     *)
(***************************************************************************)
LEMMA CallStep ==
  ASSUME PolicyAssumption, HInv, NEW c \in Calls, NEW f \in CallState,
         call' = [call EXCEPT ![c] = f],
         turn' \in Calls \cup {None}, cooldown' \in -Late..Interval,
         UNCHANGED cancelled,
         Sound(c, f, turn', cooldown'),
         \A d \in Calls \ {c} :
           call[d].pc = "pacing" => turn' = turn /\ cooldown' = cooldown
  PROVE  HInv'
<1>1. call \in [Calls -> CallState]
  BY DEF HInv, HttpTypeOK
<1>2. \A d \in Calls : call'[d] = IF d = c THEN f ELSE call[d]
  BY <1>1
<1>3. HttpTypeOK'
  BY <1>1 DEF HInv, HttpTypeOK
<1>4. ASSUME NEW d \in Calls
      PROVE  Sound(d, call'[d], turn', cooldown')
  BY <1>2 DEF HInv, Sound
<1> QED BY <1>3, <1>4 DEF HInv

\* A call that ends, or waits for its turn for the first time.
LEMMA FreshStep ==
  ASSUME PolicyAssumption, HInv, NEW c \in Calls, NEW pc \in Pcs \ {"pacing", "backoff"},
         Becomes(c, pc), turn' = turn \/ (turn = c /\ turn' = None),
         UNCHANGED <<cooldown, cancelled>>
  PROVE  HInv'
<1> DEFINE f == [Idle EXCEPT !.pc = pc]
<1>1. f \in CallState /\ f.pc = pc /\ f.waited + f.delay = 0
  BY IdleType
<1> HIDE DEF f
<1>2. Sound(c, f, turn', cooldown')
  BY <1>1, LimitTypes DEF Sound
<1>3. turn' \in Calls \cup {None} /\ cooldown' \in -Late..Interval
  BY DEF HInv, HttpTypeOK
<1>4. \A d \in Calls \ {c} :
        call[d].pc = "pacing" => turn' = turn /\ cooldown' = cooldown
  BY DEF HInv, Sound
<1>5. call' = [call EXCEPT ![c] = f]
  BY DEF Becomes, f
<1> QED BY <1>1, <1>2, <1>3, <1>4, <1>5, CallStep

LEMMA DoInv ==
  ASSUME PolicyAssumption, HInv, NEW c \in Calls, Do(c)
  PROVE  HInv'
<1>1. NextAttempt(c) \in Pcs \ {"pacing", "backoff"}
  BY DEF NextAttempt, Pcs
<1> QED BY <1>1, FreshStep DEF Do

LEMMA EndInv ==
  ASSUME PolicyAssumption, HInv, NEW c \in Calls,
         \/ GiveUpQueue(c) \/ Answer(c) \/ SendFails(c) \/ BackoffCancelled(c) \/ Return(c)
  PROVE  HInv'
<1>1. \A pc \in {"ok", "failed", "idle"} : pc \in Pcs \ {"pacing", "backoff"}
  BY DEF Pcs
<1>2. CASE GiveUpQueue(c) BY <1>1, <1>2, FreshStep DEF GiveUpQueue
<1>3. CASE Answer(c) BY <1>1, <1>3, FreshStep DEF Answer
<1>4. CASE SendFails(c) BY <1>1, <1>4, FreshStep DEF SendFails
<1>5. CASE BackoffCancelled(c) BY <1>1, <1>5, FreshStep DEF BackoffCancelled
<1>6. CASE Return(c) BY <1>1, <1>6, FreshStep DEF Return
<1> QED BY <1>2, <1>3, <1>4, <1>5, <1>6

LEMMA PacingCancelledInv ==
  ASSUME PolicyAssumption, HInv, NEW c \in Calls, PacingCancelled(c)
  PROVE  HInv'
<1>1. turn = c
  BY DEF HInv, Sound, PacingCancelled, At
<1> QED BY <1>1, FreshStep DEF PacingCancelled, Pcs

(***************************************************************************)
(* The turn and the slots.                                                 *)
(***************************************************************************)
\* Nobody paces while the turn is free.
LEMMA FreeTurn ==
  ASSUME PolicyAssumption, HInv, turn = None, NEW d \in Calls
  PROVE  call[d].pc # "pacing"
BY LimitTypes DEF HInv, Sound

LEMMA TakeTurnInv ==
  ASSUME PolicyAssumption, HInv, NEW c \in Calls, TakeTurn(c)
  PROVE  HInv'
<1>1. /\ call \in [Calls -> CallState] /\ call[c] \in CallState
      /\ cooldown \in -Late..Interval /\ cooldown \in Int
  BY LimitTypes DEF HInv, HttpTypeOK
<1>2. CASE Becomes(c, "failed") /\ UNCHANGED <<turn, cooldown, cancelled>>
  BY <1>2, FreshStep DEF Pcs
<1>3. CASE /\ call' = [call EXCEPT ![c].pc = "sending"]
           /\ cooldown' = Interval /\ turn' = turn /\ cancelled' = cancelled
  <2> DEFINE f == [call[c] EXCEPT !.pc = "sending"]
  <2>1. f \in CallState /\ f.pc = "sending" /\ f.waited = call[c].waited /\ f.delay = call[c].delay
    BY <1>1 DEF CallState
  <2>2. call' = [call EXCEPT ![c] = f]
    BY <1>1, <1>3
  <2> HIDE DEF f
  <2>3. Sound(c, f, turn', cooldown')
    BY <2>1 DEF Sound, HInv
  <2>4. turn' \in Calls \cup {None} /\ cooldown' \in -Late..Interval
    BY <1>3, LimitTypes DEF HInv, HttpTypeOK
  <2> QED BY <1>3, <2>1, <2>2, <2>3, <2>4, FreeTurn, CallStep DEF TakeTurn
<1>4. CASE /\ turn' = c /\ UNCHANGED <<cooldown, cancelled>>
           /\ call' = [call EXCEPT ![c].pc = "pacing", ![c].timer = cooldown]
  <2> DEFINE f == [call[c] EXCEPT !.pc = "pacing", !.timer = cooldown]
  <2>1. /\ f \in CallState /\ f.pc = "pacing" /\ f.timer = cooldown
        /\ f.waited = call[c].waited /\ f.delay = call[c].delay
    BY <1>1 DEF CallState
  <2>2. call' = [call EXCEPT ![c] = f]
    BY <1>1, <1>4
  <2> HIDE DEF f
  <2>3. Sound(c, f, turn', cooldown')
    BY <1>4, <2>1 DEF Sound, HInv
  <2>4. turn' \in Calls \cup {None} /\ cooldown' \in -Late..Interval
    BY <1>1, <1>4
  <2> QED BY <1>4, <2>1, <2>2, <2>3, <2>4, FreeTurn, CallStep DEF TakeTurn
<1> QED BY <1>2, <1>3, <1>4 DEF TakeTurn

LEMMA AdmitInv ==
  ASSUME PolicyAssumption, HInv, NEW c \in Calls, Admit(c)
  PROVE  HInv'
<1>1. /\ call \in [Calls -> CallState] /\ call[c] \in CallState
      /\ turn = c /\ call[c].timer = cooldown /\ cooldown \in -Late..Interval
  BY DEF HInv, HttpTypeOK, Admit, At, Sound
<1> DEFINE f == [call[c] EXCEPT !.pc = "sending", !.timer = 0]
<1>2. f \in CallState /\ f.pc = "sending" /\ f.waited = call[c].waited /\ f.delay = call[c].delay
  <2>1. call[c] \in CallState /\ 0 \in Int
    BY <1>1
  <2> QED BY <2>1 DEF CallState
<1>3. call' = [call EXCEPT ![c] = f]
  BY <1>1 DEF Admit
<1> HIDE DEF f
<1>4. Sound(c, f, turn', cooldown')
  BY <1>2 DEF Sound, HInv
<1>5. turn' \in Calls \cup {None} /\ cooldown' \in -Late..Interval
  BY <1>1, LimitTypes DEF Admit
<1>6. \A d \in Calls \ {c} : call[d].pc # "pacing"
  BY <1>1 DEF HInv, Sound
<1> QED BY <1>2, <1>3, <1>4, <1>5, <1>6, CallStep DEF Admit

(***************************************************************************)
(* Retries.                                                                *)
(***************************************************************************)
LEMMA BackOffInv ==
  ASSUME PolicyAssumption, HInv, NEW c \in Calls, NEW hint, BackOff(c, hint)
  PROVE  HInv'
<1>1. call \in [Calls -> CallState] /\ call[c] \in CallState
  BY DEF HInv, HttpTypeOK
<1>2. PICK delay \in Durations :
        /\ delay = RetryDelay(call[c].attempt, hint)
        /\ call' = [call EXCEPT ![c].pc = "backoff", ![c].delay = delay, ![c].timer = delay]
  BY DEF BackOff
<1> DEFINE f == [call[c] EXCEPT !.pc = "backoff", !.delay = delay, !.timer = delay]
<1>3. /\ f \in CallState /\ f.pc = "backoff" /\ f.delay = delay
      /\ f.waited = call[c].waited /\ f.attempt = call[c].attempt
  BY <1>1, <1>2, LimitTypes DEF CallState
<1>4. call' = [call EXCEPT ![c] = f]
  BY <1>1, <1>2
<1> HIDE DEF f
<1>5. /\ call[c].attempt < MaxRetries
      /\ delay <= MaxWait - call[c].waited
  <2>1. ~(call[c].attempt >= MaxRetries) /\ ~(delay > MaxWait - call[c].waited)
    BY <1>2 DEF BackOff, Refused
  <2>2. call[c].attempt \in Int /\ call[c].waited \in Int
    BY <1>1, LimitTypes DEF CallState
  <2> QED BY <2>1, <2>2, LimitTypes
<1>6. call[c].waited \in Int /\ delay \in Int
  BY <1>1, LimitTypes DEF CallState
<1>7. Sound(c, f, turn', cooldown')
  BY <1>3, <1>5, <1>6, LimitTypes DEF Sound
<1>8. turn' \in Calls \cup {None} /\ cooldown' \in -Late..Interval
  BY DEF HInv, HttpTypeOK, BackOff
<1> QED BY <1>3, <1>4, <1>7, <1>8, CallStep DEF BackOff

LEMMA ResumeInv ==
  ASSUME PolicyAssumption, HInv, NEW c \in Calls, Resume(c)
  PROVE  HInv'
<1>1. call \in [Calls -> CallState] /\ call[c] \in CallState
  BY DEF HInv, HttpTypeOK
<1>2. CASE Cancelled(c)
  BY <1>2, FreshStep DEF Resume, Becomes, Pcs
<1>3. CASE ~Cancelled(c)
  <2> DEFINE f == [Idle EXCEPT !.pc = "queued", !.attempt = call[c].attempt + 1,
                               !.waited = call[c].waited + call[c].delay]
  <2>1. call[c].attempt \in 0..MaxRetries /\ call[c].waited \in Int /\ call[c].delay \in Int
    BY <1>1, LimitTypes DEF CallState
  <2>2. call[c].attempt < MaxRetries /\ call[c].waited + call[c].delay <= MaxWait
    BY DEF Resume, At, HInv, Sound
  <2>3. /\ f \in CallState /\ f.pc = "queued" /\ f.delay = 0
        /\ f.waited = call[c].waited + call[c].delay
    <3>1. call[c].attempt + 1 \in 0..MaxRetries /\ call[c].waited + call[c].delay \in Int
      BY <2>1, <2>2, LimitTypes
    <3> QED BY <3>1, QueuedType
  <2>4. call' = [call EXCEPT ![c] = f]
    BY <1>3 DEF Resume
  <2> HIDE DEF f
  <2>5. Sound(c, f, turn', cooldown')
    BY <2>1, <2>2, <2>3 DEF Sound
  <2>6. turn' \in Calls \cup {None} /\ cooldown' \in -Late..Interval
    BY DEF HInv, HttpTypeOK, Resume
  <2> QED BY <2>3, <2>4, <2>5, <2>6, CallStep DEF Resume
<1> QED BY <1>2, <1>3

LEMMA TickInv ==
  ASSUME PolicyAssumption, HInv, Tick
  PROVE  HInv'
<1>1. /\ call \in [Calls -> CallState] /\ cooldown \in -Late..Interval /\ cooldown \in Int
      /\ turn \in Calls \cup {None} /\ cancelled \subseteq Calls
  BY LimitTypes DEF HInv, HttpTypeOK
<1>2. cooldown' \in -Late..Interval
  BY <1>1, LimitTypes DEF Tick
<1>3. ASSUME NEW d \in Calls
      PROVE  call'[d] \in CallState /\ Sound(d, call'[d], turn', cooldown')
  <2>1. call[d] \in CallState /\ Sound(d, call[d], turn, cooldown)
    BY <1>1 DEF HInv
  <2>2. CASE d \in Sleeping
    <3> DEFINE f == [call[d] EXCEPT !.timer = @ - 1]
    <3>1. call'[d] = f
      BY <2>2 DEF Tick
    <3>2. /\ f \in CallState /\ f.timer = call[d].timer - 1 /\ f.pc = call[d].pc
          /\ f.attempt = call[d].attempt /\ f.waited = call[d].waited
          /\ f.delay = call[d].delay
      BY <2>1 DEF CallState
    <3> HIDE DEF f
    <3>3. f.pc = "pacing" => f.timer = cooldown'
      BY <1>1, <2>1, <2>2, <3>2, LimitTypes DEF Tick, Sound
    <3> QED BY <2>1, <3>1, <3>2, <3>3 DEF Sound, Tick
  <2>3. CASE d \notin Sleeping
    <3>1. call'[d] = call[d] /\ call[d].pc # "pacing"
      BY <2>3 DEF Tick, Sleeping
    <3> QED BY <2>1, <3>1 DEF Sound
  <2> QED BY <2>2, <2>3
<1>4. call' \in [Calls -> CallState]
  <2>1. call' = [d \in Calls |-> call'[d]]
    BY DEF Tick
  <2> QED BY <1>3, <2>1
<1> QED BY <1>1, <1>2, <1>3, <1>4 DEF HInv, HttpTypeOK, Tick

(***************************************************************************)
(* The invariant.                                                          *)
(***************************************************************************)
LEMMA HInit ==
  ASSUME PolicyAssumption, HttpInit
  PROVE  HInv
<1>1. Idle \in CallState /\ Idle.pc = "idle" /\ Idle.waited + Idle.delay = 0
  BY LimitTypes DEF Idle, CallState
<1>2. \A c \in Calls : Sound(c, Idle, turn, cooldown)
  <2>1. Idle.waited + Idle.delay <= MaxWait
    BY <1>1, LimitTypes
  <2> QED BY <1>1, <2>1 DEF Sound
<1>3. cooldown \in -Late..Interval
  BY LimitTypes DEF HttpInit
<1> QED BY <1>1, <1>2, <1>3 DEF HInv, HttpTypeOK, HttpInit

LEMMA HStutter ==
  ASSUME HInv, UNCHANGED httpVars
  PROVE  HInv'
BY DEF HInv, HttpTypeOK, httpVars, Sound

LEMMA HNext ==
  ASSUME PolicyAssumption, HInv, [HttpNext]_httpVars
  PROVE  HInv'
<1>1. ASSUME NEW c \in Calls, Progress(c)
      PROVE  HInv'
  BY <1>1, TakeTurnInv, EndInv, AdmitInv, PacingCancelledInv, BackOffInv, ResumeInv DEF Progress
<1>2. ASSUME NEW c \in Calls, Cancel(c)
      PROVE  HInv'
  BY <1>2 DEF Cancel, HInv, HttpTypeOK, Sound
<1> QED BY <1>1, <1>2, TickInv, DoInv, EndInv, HStutter DEF HttpNext

(* A call that paces holds the turn and its timer is the gate's: the        *)
(* argument above, for every execution (policy.go:236-263).                 *)
THEOREM PolicyInvariant == HttpSpec => []HInv
<1>1. HttpInit => HInv
  BY HInit, PolicyAssumption
<1>2. HInv /\ [HttpNext]_httpVars => HInv'
  BY HNext, PolicyAssumption
<1> QED BY <1>1, <1>2, PTL DEF HttpSpec

(* The types of the client's state: HttpTypeOK (policy.go:30-45).           *)
THEOREM PolicyTypes == HttpSpec => []HttpTypeOK
<1>1. HInv => HttpTypeOK
  BY DEF HInv
<1> QED BY <1>1, PolicyInvariant, PTL

(* No call of Do sleeps longer than MaxWait in all, for any limits and any  *)
(* Retry-After: RetriesWithinBudget (policy.go:209-231).                    *)
THEOREM Budget == HttpSpec => []RetriesWithinBudget
<1>1. HInv => RetriesWithinBudget
  BY DEF HInv, Sound, RetriesWithinBudget
<1> QED BY <1>1, PolicyInvariant, PTL

(***************************************************************************)
(* The slots: every step of the client is a step of the gate or leaves it  *)
(* alone.                                                                  *)
(***************************************************************************)
Sent == {d \in Calls : At(d, "sending")}

LEMMA SentAfter ==
  ASSUME HInv, NEW c \in Calls, NEW f,
         call' = [call EXCEPT ![c] = f]
  PROVE  /\ f.pc # "sending" => Sent' = Sent \ {c}
         /\ f.pc = "sending" => Sent' = Sent \cup {c}
<1>1. call \in [Calls -> CallState]
  BY DEF HInv, HttpTypeOK
<1>2. \A d \in Calls : call'[d] = IF d = c THEN f ELSE call[d]
  BY <1>1
<1>3. Sent' = {d \in Calls : call'[d].pc = "sending"}
  BY DEF Sent, At
<1> QED BY <1>2, <1>3 DEF Sent, At

\* A step that sends nothing may end a request and takes no slot.
LEMMA LeavesGate ==
  ASSUME HInv, NEW c \in Calls, NEW f, f.pc # "sending",
         call' = [call EXCEPT ![c] = f], cooldown' = cooldown
  PROVE  Gate!Answered(c)
BY SentAfter DEF Sent, Gate!Answered

LEMMA FreshLeavesGate ==
  ASSUME HInv, NEW c \in Calls, NEW pc, pc # "sending", Becomes(c, pc),
         cooldown' = cooldown
  PROVE  Gate!Answered(c)
<1>1. [Idle EXCEPT !.pc = pc].pc # "sending"
  BY DEF Idle
<1> QED BY <1>1, LeavesGate DEF Becomes

\* A request is sent in a slot that is due, or was due late ago.
LEMMA TakesSlot ==
  ASSUME PolicyAssumption, HInv, NEW c \in Calls, NEW f, f.pc = "sending",
         ~At(c, "sending"), call' = [call EXCEPT ![c] = f],
         NEW late \in 0..Late, cooldown + late <= 0, cooldown' = Interval - late
  PROVE  Gate!Slot(c)
<1>1. c \notin Sent /\ Sent' = Sent \cup {c}
  BY SentAfter DEF Sent
<1>2. cooldown \in Int /\ late \in Int /\ Interval \in Int
  BY LimitTypes DEF HInv, HttpTypeOK
<1>3. \A i, n, l \in Int : n + l <= 0 => (i - n) - l >= i /\ i - (i - l) = l
  OBVIOUS
<1>4. (Interval - cooldown) - late >= Interval /\ Interval - cooldown' = late
  BY <1>2, <1>3
<1> QED BY <1>1, <1>4 DEF Sent, Gate!Slot

LEMMA TakeTurnGate ==
  ASSUME PolicyAssumption, HInv, NEW c \in Calls, TakeTurn(c)
  PROVE  Gate!Answered(c) \/ Gate!Slot(c)
<1>1. call[c] \in CallState /\ cooldown \in Int /\ 0 \in 0..Late /\ Interval \in Int
  BY LimitTypes DEF HInv, HttpTypeOK
<1>2. CASE Becomes(c, "failed") /\ cooldown' = cooldown
  BY <1>2, FreshLeavesGate
<1>3. CASE /\ cooldown <= 0 /\ cooldown' = Interval
           /\ call' = [call EXCEPT ![c].pc = "sending"]
  <2>1. [call[c] EXCEPT !.pc = "sending"].pc = "sending"
    BY <1>1 DEF CallState
  <2>2. cooldown + 0 <= 0 /\ cooldown' = Interval - 0 /\ ~At(c, "sending")
    BY <1>1, <1>3 DEF TakeTurn, At
  <2> QED BY <1>1, <1>3, <2>1, <2>2, TakesSlot
<1>4. CASE /\ cooldown' = cooldown
           /\ call' = [call EXCEPT ![c].pc = "pacing", ![c].timer = cooldown]
  <2> DEFINE f == [call[c] EXCEPT !.pc = "pacing", !.timer = cooldown]
  <2>1. f.pc # "sending"
    BY <1>1 DEF CallState
  <2>2. call' = [call EXCEPT ![c] = f]
    BY <1>4 DEF HInv, HttpTypeOK
  <2> HIDE DEF f
  <2> QED BY <1>4, <2>1, <2>2, LeavesGate
<1> QED BY <1>2, <1>3, <1>4 DEF TakeTurn

LEMMA AdmitGate ==
  ASSUME PolicyAssumption, HInv, NEW c \in Calls, Admit(c)
  PROVE  Gate!Slot(c)
<1>1. /\ call[c] \in CallState /\ call[c].pc = "pacing"
      /\ call[c].timer = cooldown /\ cooldown \in -Late..Interval /\ cooldown <= 0
  BY DEF HInv, HttpTypeOK, Admit, At, Sound
<1> DEFINE f == [call[c] EXCEPT !.pc = "sending", !.timer = 0]
<1>2. f.pc = "sending"
  BY <1>1 DEF CallState
<1>3. call' = [call EXCEPT ![c] = f]
  BY DEF Admit, HInv, HttpTypeOK
<1> HIDE DEF f
<1>4. cooldown' = Interval + cooldown
  BY <1>1 DEF Admit
<1>5. /\ -cooldown \in 0..Late /\ cooldown + (-cooldown) <= 0
      /\ cooldown' = Interval - (-cooldown)
  BY <1>1, <1>4, LimitTypes
<1>6. ~At(c, "sending")
  BY <1>1 DEF At
<1> QED BY <1>2, <1>3, <1>5, <1>6, TakesSlot

LEMMA RetryGate ==
  ASSUME PolicyAssumption, HInv, NEW c \in Calls,
         (\E hint \in Hints \cup {None} : BackOff(c, hint)) \/ Resume(c)
  PROVE  Gate!Answered(c)
<1>1. call \in [Calls -> CallState] /\ call[c] \in CallState
  BY DEF HInv, HttpTypeOK
<1>2. ASSUME NEW hint, BackOff(c, hint)
      PROVE  Gate!Answered(c)
  <2>1. PICK delay \in Durations :
          call' = [call EXCEPT ![c].pc = "backoff", ![c].delay = delay, ![c].timer = delay]
    BY <1>2 DEF BackOff
  <2> DEFINE f == [call[c] EXCEPT !.pc = "backoff", !.delay = delay, !.timer = delay]
  <2>2. f.pc # "sending"
    BY <1>1 DEF CallState
  <2>3. call' = [call EXCEPT ![c] = f]
    BY <1>1, <2>1
  <2> HIDE DEF f
  <2> QED BY <1>2, <2>2, <2>3, LeavesGate DEF BackOff
<1>3. CASE Resume(c)
  <2> DEFINE f == IF Cancelled(c) THEN [Idle EXCEPT !.pc = "failed"]
                  ELSE [Idle EXCEPT !.pc = "queued", !.attempt = call[c].attempt + 1,
                                    !.waited = call[c].waited + call[c].delay]
  <2>1. f.pc # "sending"
    BY DEF Idle
  <2>2. call' = [call EXCEPT ![c] = f] /\ cooldown' = cooldown
    BY <1>3 DEF Resume
  <2> HIDE DEF f
  <2> QED BY <2>1, <2>2, LeavesGate
<1> QED BY <1>2, <1>3

LEMMA TickGate ==
  ASSUME PolicyAssumption, HInv, Tick
  PROVE  Gate!Pass
<1>1. cooldown \in Int /\ Interval \in Int /\ Late \in Int
  BY LimitTypes DEF HInv, HttpTypeOK
<1>2. \A i, n, l \in Int : /\ (i - n < i + l) <=> (n > -l)
                           /\ i - (n - 1) = (i - n) + 1
  OBVIOUS
<1>3. Interval - cooldown' = IF Interval - cooldown < Interval + Late
                             THEN (Interval - cooldown) + 1 ELSE Interval - cooldown
  BY <1>1, <1>2 DEF Tick
<1>4. \A d \in Calls : call'[d].pc = call[d].pc
  <2> SUFFICES ASSUME NEW d \in Calls
               PROVE  call'[d].pc = call[d].pc
    OBVIOUS
  <2>1. call[d] \in CallState
    BY DEF HInv, HttpTypeOK
  <2>2. [call[d] EXCEPT !.timer = call[d].timer - 1].pc = call[d].pc
    BY <2>1 DEF CallState
  <2> QED BY <2>2 DEF Tick
<1>5. Sent' = Sent
  <2>1. Sent' = {d \in Calls : call'[d].pc = "sending"}
    BY DEF Sent, At
  <2> QED BY <1>4, <2>1 DEF Sent, At
<1> QED BY <1>3, <1>5 DEF Sent, Gate!Pass

LEMMA GateStep ==
  ASSUME PolicyAssumption, HInv, [HttpNext]_httpVars
  PROVE  [Gate!Next]_(Gate!gateVars)
<1>1. ASSUME NEW c \in Calls, Progress(c)
      PROVE  Gate!Answered(c) \/ Gate!Slot(c)
  BY <1>1, TakeTurnGate, AdmitGate, RetryGate, FreshLeavesGate
     DEF Progress, GiveUpQueue, PacingCancelled, Answer, SendFails, BackoffCancelled
<1>2. ASSUME NEW c \in Calls, Do(c) \/ Return(c)
      PROVE  Gate!Answered(c)
  BY <1>2, FreshLeavesGate DEF Do, Return, NextAttempt
<1>3. ASSUME NEW c \in Calls, UNCHANGED httpVars \/ Cancel(c)
      PROVE  UNCHANGED Gate!gateVars
  <2>1. call' = call /\ cooldown' = cooldown
    BY <1>3 DEF httpVars, Cancel
  <2> QED BY <2>1 DEF Gate!gateVars, At
<1>4. CASE UNCHANGED httpVars
  BY <1>4 DEF Gate!gateVars, At, httpVars
<1> QED BY <1>1, <1>2, <1>3, <1>4, TickGate DEF HttpNext, Gate!Next

LEMMA GateInit ==
  ASSUME PolicyAssumption, HttpInit
  PROVE  Gate!Init
<1>1. Interval - cooldown = Interval + Late
  BY LimitTypes DEF HttpInit
<1>2. \A c \in Calls : ~At(c, "sending")
  BY DEF HttpInit, At, Idle
<1> QED BY <1>1, <1>2 DEF Gate!Init

(* The client implements the gate: every request has a slot of its own and  *)
(* slots lie an interval apart, for any number of calls that wait, are      *)
(* cancelled or wake up late: SlotsAreApart (policy.go:236-263).            *)
THEOREM SlotsApart == HttpSpec => SlotsAreApart
<1>1. HttpInit => Gate!Init
  BY GateInit, PolicyAssumption
<1>2. HInv /\ [HttpNext]_httpVars => [Gate!Next]_(Gate!gateVars)
  BY GateStep, PolicyAssumption
<1> QED BY <1>1, <1>2, PolicyInvariant, PTL DEF HttpSpec, SlotsAreApart, Gate!Spec

(***************************************************************************)
(* The exponential backoff.  A function that is defined by recursion is    *)
(* the function of its equation once there is one: here built from its     *)
(* beginnings, which exist and agree because there is no least number for  *)
(* which they do not.                                                      *)
(***************************************************************************)
LEMMA LeastExists ==
  ASSUME NEW S \in SUBSET Nat, S # {}
  PROVE  \E n \in S : \A m \in S : n <= m
<1> DEFINE R == OpToRel(<, Nat)
<1>1. IsWellFoundedOn(R, Nat)
  BY ONLY NatLessThanWellFounded
<1>2. \A m, n \in Nat : <<m, n>> \in R <=> m < n
  BY DEF OpToRel
<1> HIDE DEF R
<1>3. PICK n \in S : \A m \in S : ~(<<m, n>> \in R)
  BY <1>1, WFMin
<1>4. ASSUME NEW m \in S PROVE n <= m
  <2>1. m \in Nat /\ n \in Nat
    OBVIOUS
  <2>2. ~(m < n)
    BY <1>2, <1>3, <2>1
  <2> QED BY <2>1, <2>2
<1> QED BY <1>4

\* One doubling.
Doubled(v, max) == IF v > max \div 2 THEN max ELSE Wrapped(2 * v)

LEMMA DoublingCaps ==
  ASSUME PolicyAssumption, NEW max \in 1..MaxDuration, NEW v \in 1..max
  PROVE  /\ Doubled(v, max) = IF 2 * v < max THEN 2 * v ELSE max
         /\ Doubled(v, max) \in 1..max
<1>1. MaxDuration \in Nat
  BY LimitTypes
<1>2. max \div 2 \in Int /\ 2 * (max \div 2) <= max /\ max <= 2 * (max \div 2) + 1
  BY <1>1
<1>3. CASE v > max \div 2
  <2>1. 2 * v >= max
    BY <1>1, <1>2, <1>3
  <2> QED BY <1>1, <1>3, <2>1 DEF Doubled
<1>4. CASE ~(v > max \div 2)
  <2>1. 2 * v <= max /\ 2 * v \in Nat /\ 2 * v >= 1
    BY <1>1, <1>2, <1>4
  <2>2. Wrapped(2 * v) = 2 * v
    BY <1>1, <2>1 DEF Wrapped
  <2> QED BY <1>1, <1>4, <2>1, <2>2 DEF Doubled
<1> QED BY <1>3, <1>4

\* The first n doublings.
Beginning(g, n, initial, max) ==
  /\ g \in [0..n -> 1..max]
  /\ g[0] = initial
  /\ \A k \in 1..n : g[k] = Doubled(g[k - 1], max)

LEMMA BeginningsAgree ==
  ASSUME NEW initial, NEW max, NEW m \in Nat, NEW n \in Nat, NEW f, NEW g,
         Beginning(f, m, initial, max), Beginning(g, n, initial, max)
  PROVE  \A k \in Nat : k <= m /\ k <= n => f[k] = g[k]
<1> DEFINE S == {k \in Nat : k <= m /\ k <= n /\ f[k] # g[k]}
<1> SUFFICES ASSUME S # {} PROVE FALSE
  OBVIOUS
<1>1. PICK k \in S : \A l \in S : k <= l
  BY LeastExists
<1>2. k # 0
  BY <1>1 DEF Beginning
<1>3. k - 1 \in Nat /\ k - 1 <= m /\ k - 1 <= n /\ k \in 1..m /\ k \in 1..n
  BY <1>1, <1>2
<1>4. f[k - 1] = g[k - 1]
  <2>1. k - 1 \notin S
    BY <1>1, <1>3
  <2> QED BY <1>3, <2>1
<1> QED BY <1>1, <1>3, <1>4 DEF Beginning

LEMMA BeginningsExist ==
  ASSUME PolicyAssumption, NEW max \in 1..MaxDuration, NEW initial \in 1..max
  PROVE  \A n \in Nat : \E g : Beginning(g, n, initial, max)
<1> DEFINE S == {n \in Nat : ~\E g : Beginning(g, n, initial, max)}
<1> SUFFICES ASSUME S # {} PROVE FALSE
  OBVIOUS
<1>1. PICK n \in S : \A m \in S : n <= m
  BY LeastExists
<1>2. CASE n = 0
  <2> DEFINE g == [k \in 0..0 |-> initial]
  <2>1. g \in [0..0 -> 1..max] /\ g[0] = initial /\ 1..0 = {}
    OBVIOUS
  <2>2. Beginning(g, 0, initial, max)
    BY <2>1 DEF Beginning
  <2> QED BY <1>1, <1>2, <2>2
<1>3. CASE n # 0
  <2>1. n \in Nat /\ n - 1 \in Nat /\ n - 1 \notin S
    BY <1>1, <1>3
  <2>2. PICK f : Beginning(f, n - 1, initial, max)
    BY <2>1
  <2> DEFINE g == [k \in 0..n |-> IF k = n THEN Doubled(f[n - 1], max) ELSE f[k]]
  <2>3. \A k \in 0..(n - 1) : f[k] \in 1..max /\ g[k] = f[k]
    BY <2>1, <2>2 DEF Beginning
  <2>4. g[n] = Doubled(f[n - 1], max) /\ g[n] \in 1..max
    <3>1. n - 1 \in 0..(n - 1)
      BY <2>1
    <3>2. Doubled(f[n - 1], max) \in 1..max
      BY <2>3, <3>1, DoublingCaps
    <3> QED BY <2>1, <3>2
  <2>5. \A k \in 0..n : g[k] \in 1..max
    <3> SUFFICES ASSUME NEW k \in 0..n PROVE g[k] \in 1..max
      OBVIOUS
    <3>1. k = n \/ k \in 0..(n - 1)
      BY <2>1
    <3> QED BY <2>3, <2>4, <3>1
  <2>6. g \in [0..n -> 1..max]
    BY <2>5
  <2>7. g[0] = initial
    BY <2>1, <2>2, <2>3 DEF Beginning
  <2>8. ASSUME NEW k \in 1..n PROVE g[k] = Doubled(g[k - 1], max)
    <3>1. k - 1 \in 0..(n - 1)
      BY <2>1
    <3>2. CASE k = n
      BY <2>3, <2>4, <3>1, <3>2
    <3>3. CASE k # n
      <4>1. k \in 1..(n - 1) /\ k \in 0..(n - 1)
        BY <2>1, <3>3
      <4>2. f[k] = Doubled(f[k - 1], max)
        BY <2>2, <4>1 DEF Beginning
      <4> QED BY <2>3, <3>1, <4>1, <4>2
    <3> QED BY <3>2, <3>3
  <2> HIDE DEF g
  <2>9. Beginning(g, n, initial, max)
    BY <2>6, <2>7, <2>8 DEF Beginning
  <2> QED BY <1>1, <2>9
<1> QED BY <1>2, <1>3

LEMMA BackoffEquation ==
  ASSUME PolicyAssumption, NEW max \in 1..MaxDuration, NEW initial \in 1..max
  PROVE  /\ Backoff(initial, max)[0] = initial
         /\ \A k \in Nat : Backoff(initial, max)[k + 1] = Doubled(Backoff(initial, max)[k], max)
<1> DEFINE Opening(n) == CHOOSE g : Beginning(g, n, initial, max)
           f == [k \in Nat |-> Opening(k)[k]]
<1>1. \A n \in Nat : Beginning(Opening(n), n, initial, max)
  BY BeginningsExist
<1> HIDE DEF Opening
<1>2. f[0] = initial
  BY <1>1 DEF Beginning
<1>3. ASSUME NEW k \in Nat, k # 0 PROVE f[k] = Doubled(f[k - 1], max)
  <2>1. k - 1 \in Nat /\ k \in 1..k
    BY <1>3
  <2>2. Opening(k)[k] = Doubled(Opening(k)[k - 1], max)
    BY <1>1, <2>1 DEF Beginning
  <2>3. Opening(k)[k - 1] = Opening(k - 1)[k - 1]
    BY <1>1, <2>1, BeginningsAgree
  <2> QED BY <2>1, <2>2, <2>3
<1>4. f = [k \in Nat |-> IF k = 0 THEN initial ELSE Doubled(f[k - 1], max)]
  <2>1. \A k \in Nat : f[k] = IF k = 0 THEN initial ELSE Doubled(f[k - 1], max)
    BY <1>2, <1>3
  <2>2. f = [k \in Nat |-> f[k]]
    OBVIOUS
  <2> HIDE DEF f
  <2> QED BY <2>1, <2>2
<1> HIDE DEF f
<1> DEFINE Solves(h) == h = [k \in Nat |-> IF k = 0 THEN initial ELSE Doubled(h[k - 1], max)]
           b == CHOOSE h : Solves(h)
<1>5. Solves(b)
  <2>1. Solves(f)
    BY <1>4
  <2> HIDE DEF Solves
  <2> QED BY <2>1
<1>6. Backoff(initial, max) = b
  BY DEF Backoff, Doubled
<1> HIDE DEF b
<1>7. b[0] = initial
  BY <1>5
<1>8. ASSUME NEW k \in Nat PROVE b[k + 1] = Doubled(b[k], max)
  <2>1. k + 1 \in Nat /\ k + 1 # 0 /\ (k + 1) - 1 = k
    OBVIOUS
  <2> QED BY <1>5, <2>1
<1> QED BY <1>6, <1>7, <1>8

LEMMA PowersArePositive ==
  ASSUME PolicyAssumption, PowersAssumption
  PROVE  \A k \in 0..MaxRetries : 2 ^ k \in Nat /\ 2 ^ k > 0
<1> DEFINE Power(k) == 2 ^ k
           S == {k \in 0..MaxRetries : ~(Power(k) \in Nat /\ Power(k) > 0)}
<1>1. Power(0) = 1 /\ \A k \in 1..MaxRetries : Power(k) = 2 * Power(k - 1)
  BY DEF PowersAssumption
<1> HIDE DEF Power
<1>2. MaxRetries \in Nat
  BY LimitTypes
<1>3. S = {}
  <2> SUFFICES ASSUME S # {} PROVE FALSE
    OBVIOUS
  <2>1. PICK k \in S : \A l \in S : k <= l
    <3>1. S \in SUBSET Nat /\ S # {}
      BY <1>2
    <3> HIDE DEF S
    <3> QED BY <3>1, LeastExists
  <2>2. k \in 1..MaxRetries /\ k - 1 \in 0..MaxRetries
    BY <1>1, <1>2, <2>1
  <2>3. k - 1 \notin S
    BY <1>2, <2>1, <2>2
  <2>4. Power(k - 1) \in Nat /\ Power(k - 1) > 0 /\ Power(k) = 2 * Power(k - 1)
    BY <1>1, <2>2, <2>3
  <2> QED BY <2>1, <2>4
<1>4. \A k \in 0..MaxRetries : Power(k) \in Nat /\ Power(k) > 0
  BY <1>3
<1> QED BY <1>4 DEF Power

\* Doubling with the cap is the capped power.
LEMMA BackoffIsPower ==
  ASSUME PolicyAssumption, PowersAssumption,
         NEW max \in 1..MaxDuration, NEW initial \in 1..max
  PROVE  \A k \in 0..MaxRetries :
           Backoff(initial, max)[k] = IF initial * 2 ^ k < max THEN initial * 2 ^ k ELSE max
<1> DEFINE Power(k) == 2 ^ k
           b == Backoff(initial, max)
           Exact(k) == b[k] = IF initial * Power(k) < max THEN initial * Power(k) ELSE max
           S == {k \in 0..MaxRetries : ~Exact(k)}
<1>1. /\ Power(0) = 1 /\ \A k \in 1..MaxRetries : Power(k) = 2 * Power(k - 1)
      /\ \A k \in 0..MaxRetries : Power(k) \in Nat /\ Power(k) > 0
  BY PowersArePositive DEF PowersAssumption
<1>2. b[0] = initial /\ \A k \in Nat : b[k + 1] = Doubled(b[k], max)
  BY BackoffEquation
<1>3. MaxRetries \in Nat /\ max \in Nat /\ initial \in Nat /\ 0 < initial /\ initial <= max
  BY LimitTypes
<1> HIDE DEF Power, b
<1>4. S = {}
  <2> SUFFICES ASSUME S # {} PROVE FALSE
    OBVIOUS
  <2>1. PICK k \in S : \A l \in S : k <= l
    <3>1. S \in SUBSET Nat /\ S # {}
      BY <1>3
    <3> HIDE DEF S
    <3> QED BY <3>1, LeastExists
  <2>2. k # 0
    BY <1>1, <1>2, <1>3, <2>1
  <2> DEFINE n == k - 1
             p == initial * Power(n)
  <2>3. /\ k \in 1..MaxRetries /\ n \in 0..MaxRetries /\ n \in Nat /\ k = n + 1 /\ n < k
    BY <1>3, <2>1, <2>2
  <2>4. Exact(n)
    <3>1. n \notin S
      BY <2>1, <2>3
    <3> QED BY <2>3, <3>1
  <2>5. Power(n) \in Nat /\ Power(n) > 0 /\ Power(k) = 2 * Power(n)
    BY <1>1, <2>3
  <2>6. p \in Nat /\ p > 0 /\ initial * Power(k) = 2 * p
    BY <1>3, <2>5
  <2>7. b[n] = IF p < max THEN p ELSE max
    BY <2>4
  <2>8. b[n] \in 1..max
    BY <1>3, <2>6, <2>7
  <2>9. b[k] = IF 2 * b[n] < max THEN 2 * b[n] ELSE max
    <3>1. b[k] = Doubled(b[n], max)
      BY <1>2, <2>3
    <3> QED BY <2>8, <3>1, DoublingCaps
  <2> HIDE DEF p, n
  <2>10. b[k] = IF 2 * p < max THEN 2 * p ELSE max
    BY <1>3, <2>6, <2>7, <2>9
  <2> QED BY <2>1, <2>6, <2>10
<1>5. \A k \in 0..MaxRetries : Exact(k)
  BY <1>4
<1> QED BY <1>5 DEF Power, b

\* The delay before retry k is initial * 2^k or max, for every pair of limits
\* New accepts and any width of durations: the doubling of retryDelay never
\* overflows (BackoffIsExponential).
THEOREM DelaysDouble == HttpSpec => []BackoffIsExponential
<1>1. HttpTypeOK => BackoffIsExponential
  <2> SUFFICES ASSUME HttpTypeOK, NEW c \in Calls,
                      NEW max \in 1..MaxDuration, NEW initial \in 1..max
               PROVE  LET k == call[c].attempt
                          exact == initial * 2 ^ k
                      IN  Backoff(initial, max)[k] = IF exact < max THEN exact ELSE max
    BY DEF BackoffIsExponential
  <2>1. call[c].attempt \in 0..MaxRetries
    BY DEF HttpTypeOK, CallState
  <2> QED BY <2>1, BackoffIsPower, PolicyAssumption, PowersAssumption
<1> QED BY <1>1, PolicyTypes, PTL

(***************************************************************************)
(* The fetches.  A fetch that follows cursors is at one it has seen and   *)
(* not read; while the server is faithful the cursor is the number of      *)
(* records emitted, so that every cursor seen lies behind the next one.  A *)
(* fetch that follows a plan has emitted what lies before its next batch,  *)
(* and the batches end where the search does.                              *)
(***************************************************************************)
Paging(f) == f.pc \in {"paging", "waiting"}

End(f, i) == f.plan[i].start + f.plan[i].max

Following(f, max, count) ==
  /\ f.emitted < max
  /\ f.read \subseteq f.seen
  /\ f.cursor \in f.seen \cup {Fresh}
  /\ f.cursor \notin f.read
  /\ f.faithful = TRUE =>
       /\ f.cursor = f.emitted /\ f.emitted <= count
       /\ \A x \in f.seen : x <= f.emitted

Planned(f, max, count) ==
  /\ Len(f.plan) > 0
  /\ f.plan[1].start = f.emitted
  /\ \A i \in 1..Len(f.plan) :
       /\ f.plan[i].max > 0 /\ End(f, i) <= max
       /\ i < Len(f.plan) => f.plan[i + 1].start = End(f, i)
       /\ f.faithful = TRUE => End(f, i) <= count
  /\ f.faithful = TRUE => End(f, Len(f.plan)) = Least(count, max)

Good(f, kind, max, count) ==
  /\ f.pc \in {"idle", "searching"} => f = [Unstarted EXCEPT !.pc = f.pc]
  /\ f.pc = "searching" => kind = "pubmed"
  /\ f.pc # "done" => f.outcome = None
  /\ f.emitted <= max
  /\ f.outcome = "end" /\ f.faithful = TRUE => f.emitted = Least(count, max)
  /\ f.faithful = TRUE => f.outcome # "refused"
  /\ Paging(f) /\ kind # "pubmed" => Following(f, max, count)
  /\ Paging(f) /\ kind = "pubmed" => Planned(f, max, count)

FInv ==
  /\ load \in Loads
  /\ fetch \in [Calls -> FetchState]
  /\ \A s \in Calls : Good(fetch[s], source, MaxResults[s], total)

(***************************************************************************)
(* The client underneath: a fetch is one of its callers.                   *)
(***************************************************************************)
LEMMA HttpStep ==
  ASSUME [Next]_vars
  PROVE  [HttpNext]_httpVars
<1>1. CASE UNCHANGED vars
  BY <1>1 DEF vars
<1>2. CASE Tick
  BY <1>2 DEF HttpNext
<1>3. ASSUME NEW s \in Calls, Progress(s) \/ Search(s) \/ Begin(s) \/ CancelFetch(s)
      PROVE  [HttpNext]_httpVars
  BY <1>3 DEF HttpNext, Search, Begin, CancelFetch
<1>4. ASSUME NEW s \in Calls, Fetching(s)
      PROVE  [HttpNext]_httpVars
  <2>1. Do(s) \/ Return(s) \/ UNCHANGED httpVars
    BY <1>4 DEF Fetching, Request, RequestFails, Searched, ReceivePage
  <2> QED BY <2>1 DEF HttpNext
<1> QED BY <1>1, <1>2, <1>3, <1>4 DEF Next

(* Whatever the fetches do, they use the client as its specification says,  *)
(* so that all its theorems hold of them (policy.go:131).                   *)
THEOREM FetchesUseTheClient == Spec => HttpSpec
<1>1. Init => HttpInit
  BY DEF Init
<1>2. [Next]_vars => [HttpNext]_httpVars
  BY HttpStep
<1> QED BY <1>1, <1>2, PTL DEF Spec, HttpSpec

(* Fetches that share a client share its budget rule: no request sleeps     *)
(* longer than MaxWait: RetriesWithinBudget (policy.go:209-231).            *)
THEOREM FetchesWithinBudget == Spec => []RetriesWithinBudget
BY FetchesUseTheClient, Budget, PTL

(* and its rate limit: SlotsAreApart (policy.go:236-263).                   *)
THEOREM FetchSlotsApart == Spec => SlotsAreApart
BY FetchesUseTheClient, SlotsApart, PTL

(* and its delays: BackoffIsExponential (policy.go:265-284).                *)
THEOREM FetchDelaysDouble == Spec => []BackoffIsExponential
BY FetchesUseTheClient, DelaysDouble, PTL

(***************************************************************************)
(* Types.                                                                  *)
(***************************************************************************)
Batches == [start : Nat, max : Nat]
Plans == Seq(Batches)

LEMMA LoadTypes ==
  ASSUME load \in Loads
  PROVE  /\ source \in AllSources /\ total \in Nat
         /\ \A s \in Calls : MaxResults[s] \in Nat
         /\ PageSize \in Nat \ {0}
BY FetchAssumption DEF source, total, MaxResults

LEMMA PageTypes ==
  ASSUME load \in Loads, NEW p \in Pages
  PROVE  /\ p.items \in 0..(PageSize + 1) /\ p.bad \in 0..(PageSize + 1)
         /\ p.items \in Int /\ p.bad \in Int
         /\ p.bad <= p.items
         /\ p.next \in Nat \cup {Fresh, None}
BY LoadTypes DEF Pages, Cursors

LEMMA StateTypes ==
  ASSUME FInv, NEW s \in Calls
  PROVE  /\ fetch[s] \in FetchState
         /\ fetch[s].emitted \in Nat /\ fetch[s].faithful \in BOOLEAN
         /\ fetch[s].read \subseteq Nat /\ fetch[s].seen \subseteq Nat
         /\ fetch[s].plan \in Plans
         /\ fetch[s].cursor \in Nat \cup {Fresh}
         /\ Good(fetch[s], source, MaxResults[s], total)
BY DEF FInv, FetchState, Plans, Batches

LEMMA PlanTypes ==
  ASSUME NEW plan \in Plans, NEW i \in 1..Len(plan)
  PROVE  plan[i].start \in Nat /\ plan[i].max \in Nat
<1>1. plan[i] \in Batches
  BY DEF Plans
<1> QED BY <1>1 DEF Batches

LEMMA RecordTypes ==
  ASSUME NEW f \in FetchState
  PROVE  /\ \A pc \in {"searching", "paging", "waiting"} : [f EXCEPT !.pc = pc] \in FetchState
         /\ \A plan \in Plans, b \in BOOLEAN :
              [f EXCEPT !.plan = plan, !.faithful = b] \in FetchState
         /\ \A e \in Nat, b \in BOOLEAN, r \in SUBSET Nat :
              [f EXCEPT !.emitted = e, !.faithful = b, !.read = r] \in FetchState
         /\ \A plan \in Plans, c \in Nat \cup {Fresh}, seen \in SUBSET Nat :
              [f EXCEPT !.pc = "paging", !.plan = plan, !.cursor = c, !.seen = seen]
                \in FetchState
<1>1. \A pc \in {"searching", "paging", "waiting"} : [f EXCEPT !.pc = pc] \in FetchState
  BY DEF FetchState
<1>2. \A plan \in Plans, b \in BOOLEAN :
        [f EXCEPT !.plan = plan, !.faithful = b] \in FetchState
  BY DEF FetchState, Plans, Batches
<1>3. \A e \in Nat, b \in BOOLEAN, r \in SUBSET Nat :
        [f EXCEPT !.emitted = e, !.faithful = b, !.read = r] \in FetchState
  BY DEF FetchState
<1>4. \A plan \in Plans, c \in Nat \cup {Fresh}, seen \in SUBSET Nat :
        [f EXCEPT !.pc = "paging", !.plan = plan, !.cursor = c, !.seen = seen]
          \in FetchState
  BY DEF FetchState, Plans, Batches
<1> QED BY <1>1, <1>2, <1>3, <1>4

(***************************************************************************)
(* A step of one fetch.                                                    *)
(***************************************************************************)
LEMMA FetchStep ==
  ASSUME FInv, NEW s \in Calls, NEW f \in FetchState,
         Good(f, source, MaxResults[s], total),
         Sets(s, f), load' = load
  PROVE  FInv'
<1>1. \A r \in Calls : fetch'[r] = IF r = s THEN f ELSE fetch[r]
  BY DEF FInv, Sets
<1>2. fetch' \in [Calls -> FetchState] /\ load' \in Loads
  BY DEF FInv, Sets
<1>3. source' = source /\ total' = total /\ MaxResults' = MaxResults
  BY DEF source, total, MaxResults
<1>4. \A r \in Calls : Good(fetch'[r], source', MaxResults'[r], total')
  BY <1>1, <1>3 DEF FInv
<1> QED BY <1>2, <1>4 DEF FInv

LEMMA EndStep ==
  ASSUME FInv, NEW s \in Calls, NEW record, NEW outcome \in Outcomes,
         Ends(s, record, outcome), load' = load,
         record.emitted \in Nat, record.emitted <= MaxResults[s],
         record.faithful \in BOOLEAN,
         record.faithful = TRUE => outcome # "refused",
         record.faithful = TRUE /\ outcome = "end" =>
           record.emitted = Least(total, MaxResults[s])
  PROVE  FInv'
<1> DEFINE f == [Unstarted EXCEPT !.pc = "done", !.outcome = outcome,
                   !.emitted = record.emitted, !.faithful = record.faithful]
<1>1. /\ f.pc = "done" /\ f.outcome = outcome /\ f.emitted = record.emitted
      /\ f.faithful = record.faithful
  BY DEF Unstarted
<1>2. <<>> \in Seq([start : Nat, max : Nat]) /\ {0} \in SUBSET Nat
      /\ {} \in SUBSET Nat /\ 0 \in Nat \cup {Fresh}
  OBVIOUS
<1>3. f \in FetchState
  BY <1>2 DEF FetchState, Unstarted
<1>4. Sets(s, f)
  BY DEF Ends
<1> HIDE DEF f
<1>5. Good(f, source, MaxResults[s], total)
  BY <1>1 DEF Good, Paging
<1> QED BY <1>3, <1>4, <1>5, FetchStep

(***************************************************************************)
(* Beginnings and failures.                                                *)
(***************************************************************************)
LEMMA BeginInv ==
  ASSUME FInv, NEW s \in Calls, Begin(s)
  PROVE  FInv'
<1>1. fetch[s] \in FetchState /\ Good(fetch[s], source, MaxResults[s], total)
  BY StateTypes
<1>2. fetch[s] = Unstarted
  BY <1>1 DEF Begin, In, Good, Unstarted
<1> DEFINE f == [fetch[s] EXCEPT !.pc = "paging"]
<1>3. /\ f.pc = "paging" /\ f.cursor = 0 /\ f.seen = {0} /\ f.emitted = 0
      /\ f.read = {} /\ f.outcome = None /\ f.faithful = TRUE
  BY <1>2 DEF Unstarted
<1>4. f \in FetchState /\ Sets(s, f)
  BY <1>1, RecordTypes DEF Begin
<1>5. source # "pubmed" /\ MaxResults[s] > 0 /\ load' = load
  BY DEF Begin
<1> HIDE DEF f
<1>6. Following(f, MaxResults[s], total)
  BY <1>3, <1>5, LoadTypes DEF Following, FInv
<1>7. Good(f, source, MaxResults[s], total)
  BY <1>3, <1>5, <1>6, LoadTypes, FetchAssumption DEF Good, Paging, FInv, Outcomes
<1> QED BY <1>4, <1>5, <1>7, FetchStep

LEMMA SearchInv ==
  ASSUME FInv, NEW s \in Calls, Search(s)
  PROVE  FInv'
<1>1. fetch[s] \in FetchState /\ Good(fetch[s], source, MaxResults[s], total)
  BY StateTypes
<1>2. fetch[s] = Unstarted
  BY <1>1 DEF Search, In, Good, Unstarted
<1> DEFINE f == [fetch[s] EXCEPT !.pc = "searching"]
<1>3. /\ f.pc = "searching" /\ f = [Unstarted EXCEPT !.pc = f.pc]
      /\ f.emitted = 0 /\ f.outcome = None /\ f.faithful = TRUE
  BY <1>2 DEF Unstarted
<1>4. f \in FetchState /\ Sets(s, f) /\ load' = load
  BY <1>1, RecordTypes DEF Search
<1> HIDE DEF f
<1>5. None # "end" /\ None # "refused" /\ 0 <= MaxResults[s] /\ source = "pubmed"
  BY LoadTypes, FetchAssumption DEF FInv, Outcomes, Search
<1>6. Good(f, source, MaxResults[s], total)
  BY <1>3, <1>5 DEF Good, Paging
<1> QED BY <1>4, <1>6, FetchStep

\* A fetch that fails keeps what it has emitted.
LEMMA FailsInv ==
  ASSUME FInv, NEW s \in Calls, Ends(s, fetch[s], "failed"), load' = load
  PROVE  FInv'
<1>1. fetch[s].emitted <= MaxResults[s]
  BY StateTypes DEF Good
<1> QED BY <1>1, StateTypes, EndStep DEF Outcomes

LEMMA RequestInv ==
  ASSUME FInv, NEW s \in Calls, Request(s)
  PROVE  FInv'
<1>1. CASE Ends(s, fetch[s], "failed")
  BY <1>1, FailsInv DEF Request
<1>2. CASE Sets(s, [fetch[s] EXCEPT !.pc = "waiting"])
  <2>1. /\ fetch[s] \in FetchState /\ fetch[s].pc = "paging"
        /\ Good(fetch[s], source, MaxResults[s], total)
    BY StateTypes DEF Request, In
  <2> DEFINE f == [fetch[s] EXCEPT !.pc = "waiting"]
  <2>2. /\ f.pc = "waiting" /\ f.cursor = fetch[s].cursor /\ f.seen = fetch[s].seen
        /\ f.plan = fetch[s].plan /\ f.emitted = fetch[s].emitted
        /\ f.read = fetch[s].read /\ f.outcome = fetch[s].outcome
        /\ f.faithful = fetch[s].faithful
    BY <2>1 DEF FetchState
  <2>3. f \in FetchState /\ Sets(s, f) /\ load' = load
    BY <1>2, <2>1, RecordTypes DEF Request
  <2> HIDE DEF f
  <2>4. Good(f, source, MaxResults[s], total)
    BY <2>1, <2>2 DEF Good, Paging, Following, Planned, End
  <2> QED BY <2>3, <2>4, FetchStep
<1> QED BY <1>1, <1>2 DEF Request

(***************************************************************************)
(* The batches of a search.                                                *)
(***************************************************************************)
LEMMA BatchCount ==
  ASSUME NEW n \in Nat, NEW size \in Nat \ {0}
  PROVE  LET k == (n + size - 1) \div size
         IN  k \in Nat /\ n <= k * size /\ k * size - size < n
OBVIOUS

LEMMA Multiples ==
  ASSUME NEW i \in Int, NEW k \in Int, NEW size \in Nat, i <= k
  PROVE  /\ i * size <= k * size
         /\ (i - 1) * size = i * size - size
         /\ i >= 0 => i * size \in Nat
OBVIOUS

\* The batches of a search start at 0, follow each other and end at the end.
LEMMA BatchesCover ==
  ASSUME NEW count \in Nat, NEW max \in Nat, NEW size \in Nat \ {0}
  PROVE  LET b == BuildBatches(count, max, size)
             n == Least(count, max)
         IN  /\ b \in Plans
             /\ b = <<>> <=> n = 0
             /\ \A i \in 1..Len(b) :
                  /\ b[i].max > 0
                  /\ b[i].start + b[i].max <= n
                  /\ i = 1 => b[i].start = 0
                  /\ i < Len(b) => b[i + 1].start = b[i].start + b[i].max
                  /\ i = Len(b) => b[i].start + b[i].max = n
<1> DEFINE b == BuildBatches(count, max, size)
           n == Least(count, max)
           k == (n + size - 1) \div size
<1>1. n \in Nat
  BY DEF Least
<1>2. k \in Nat /\ n <= k * size /\ k * size - size < n
  BY <1>1, BatchCount
<1> HIDE DEF n, k
<1>3. b = [i \in 1..k |-> [start |-> (i - 1) * size, max |-> Least(size, n - (i - 1) * size)]]
  BY DEF BuildBatches, n, k
<1> HIDE DEF b
<1>4. ASSUME NEW i \in 1..k
      PROVE  /\ (i - 1) * size \in Nat /\ (i - 1) * size < n
             /\ i < k => size <= n - (i - 1) * size /\ i * size = (i - 1) * size + size
             /\ i = k => n - (i - 1) * size <= size
  <2>1. i \in Int /\ k \in Int /\ i >= 1 /\ i - 1 \in Int /\ i - 1 >= 0 /\ k - 1 \in Int
    BY <1>2
  <2>2. (i - 1) * size \in Nat
    BY <2>1, Multiples
  <2>3. (i - 1) * size = i * size - size /\ i * size <= k * size
    BY <2>1, Multiples, <1>4
  <2>4. i < k => i * size <= (k - 1) * size /\ (k - 1) * size = k * size - size
    BY <2>1, Multiples
  <2>5. i * size \in Int /\ k * size \in Int
    BY <2>1
  <2> QED BY <1>1, <1>2, <2>2, <2>3, <2>4, <2>5
<1>5. ASSUME NEW i \in 1..k
      PROVE  /\ b[i] \in Batches
             /\ b[i].max > 0 /\ b[i].start + b[i].max <= n
             /\ i = 1 => b[i].start = 0
             /\ i < k => b[i + 1].start = b[i].start + b[i].max
             /\ i = k => b[i].start + b[i].max = n
  <2>1. b[i].start = (i - 1) * size /\ b[i].max = Least(size, n - (i - 1) * size)
    BY <1>3
  <2>2. b[i] = [start |-> b[i].start, max |-> b[i].max]
    BY <1>3
  <2>3. i < k => b[i + 1].start = i * size
    <3>1. i < k => i + 1 \in 1..k /\ (i + 1) - 1 = i
      BY <1>2
    <3> QED BY <1>3, <3>1
  <2>4. \A x \in Nat : x < n => /\ Least(size, n - x) \in Nat /\ Least(size, n - x) > 0
                                /\ x + Least(size, n - x) <= n
                                /\ size <= n - x => Least(size, n - x) = size
                                /\ n - x <= size => x + Least(size, n - x) = n
    BY <1>1 DEF Least
  <2>5. i = 1 => (i - 1) * size = 0
    OBVIOUS
  <2>6. b[i].start \in Nat /\ b[i].max \in Nat
    BY <1>4, <2>1, <2>4
  <2>7. b[i] \in Batches
    BY <2>2, <2>6 DEF Batches
  <2> QED BY <1>4, <2>1, <2>3, <2>4, <2>5, <2>7
<1>6. Len(b) = k /\ b \in Plans
  <2>1. b \in [1..k -> Batches]
    BY <1>3, <1>5
  <2> QED BY <1>2, <2>1 DEF Plans
<1>7. b = <<>> <=> n = 0
  <2>1. k = 0 <=> n = 0
    BY <1>1, <1>2
  <2> QED BY <1>6, <2>1 DEF Plans
<1> QED BY <1>5, <1>6, <1>7 DEF b, n

LEMMA SearchedInv ==
  ASSUME FInv, NEW s \in Calls, Searched(s)
  PROVE  FInv'
<1> DEFINE g == fetch[s]
<1>1. g \in FetchState /\ g.pc = "searching" /\ Good(g, source, MaxResults[s], total)
  BY StateTypes DEF Searched, In
<1>2. g.emitted = 0 /\ g.outcome = None
  <2>1. g = [Unstarted EXCEPT !.pc = "searching"]
    BY <1>1 DEF Good
  <2> QED BY <2>1 DEF Unstarted
<1>3. /\ source \in AllSources /\ total \in Nat /\ MaxResults[s] \in Nat
      /\ PageSize \in Nat \ {0} /\ Cursors \subseteq Nat
  BY LoadTypes DEF FInv, Cursors
<1>4. load' = load
  BY DEF Searched
<1>5. CASE Ends(s, [fetch[s] EXCEPT !.faithful = FALSE], "refused")
  <2> DEFINE r == [fetch[s] EXCEPT !.faithful = FALSE]
  <2>1. r.emitted = 0 /\ r.faithful = FALSE
    BY <1>1, <1>2 DEF FetchState
  <2>2. Ends(s, r, "refused")
    BY <1>5
  <2>3. "refused" \in Outcomes /\ 0 \in Nat /\ 0 <= MaxResults[s] /\ FALSE \in BOOLEAN
    BY <1>3 DEF Outcomes
  <2> HIDE DEF r
  <2> QED BY <1>4, <2>1, <2>2, <2>3, EndStep
<1>6. ASSUME NEW count \in Cursors,
             LET batches == BuildBatches(count, MaxResults[s], PageSize)
                 found == [fetch[s] EXCEPT !.plan = batches, !.faithful = (count = total)]
             IN  IF ~ValidHistory(batches, count) THEN Ends(s, found, "refused")
                 ELSE IF batches = <<>> THEN Ends(s, found, "end")
                 ELSE Sets(s, [found EXCEPT !.pc = "paging"])
      PROVE  FInv'
  <2> DEFINE b == BuildBatches(count, MaxResults[s], PageSize)
             n == Least(count, MaxResults[s])
             r == [fetch[s] EXCEPT !.plan = b, !.faithful = (count = total)]
             f == [r EXCEPT !.pc = "paging"]
  <2>1. count \in Nat
    BY <1>3
  <2>2. /\ b \in Plans
        /\ b = <<>> <=> n = 0
        /\ \A i \in 1..Len(b) :
             /\ b[i].max > 0
             /\ b[i].start + b[i].max <= n
             /\ i = 1 => b[i].start = 0
             /\ i < Len(b) => b[i + 1].start = b[i].start + b[i].max
             /\ i = Len(b) => b[i].start + b[i].max = n
    BY <1>3, <2>1, BatchesCover
  <2>3. n <= count /\ n <= MaxResults[s] /\ n \in Nat
    BY <1>3, <2>1 DEF Least
  <2>4. IF ~ValidHistory(b, count) THEN Ends(s, r, "refused")
        ELSE IF b = <<>> THEN Ends(s, r, "end")
        ELSE Sets(s, f)
    BY <1>6
  <2>5. (count = total) \in BOOLEAN
    OBVIOUS
  <2>6. r \in FetchState
    BY <1>1, <2>2, <2>5, RecordTypes
  <2>7. /\ r.emitted = 0 /\ r.outcome = None /\ r.plan = b
        /\ r.faithful = TRUE => count = total
    BY <1>1, <1>2 DEF FetchState
  <2>8. f \in FetchState
    BY <2>6, RecordTypes
  <2>9. f.pc = "paging" /\ f.emitted = 0 /\ f.outcome = None /\ f.plan = b
        /\ f.faithful = r.faithful
    BY <2>6, <2>7 DEF FetchState
  <2> HIDE DEF b, n, r, f
  <2>10. ValidHistory(b, count)
    <3>1. DOMAIN b = 1..Len(b)
      BY <2>2 DEF Plans
    <3>2. ASSUME NEW i \in 1..Len(b)
          PROVE  b[i].start + b[i].max <= count
      BY <2>1, <2>2, <2>3, <3>2, PlanTypes
    <3>3. ASSUME NEW i \in 1..Len(b), i # Len(b)
          PROVE  i < Len(b)
      BY <2>2, <3>3 DEF Plans
    <3> QED BY <2>2, <3>1, <3>2, <3>3 DEF ValidHistory
  <2>11. CASE b = <<>>
    <3>1. Ends(s, r, "end") /\ Least(count, MaxResults[s]) = 0
      BY <2>2, <2>4, <2>10, <2>11 DEF n
    <3>2. r.faithful = TRUE => r.emitted = Least(total, MaxResults[s])
      BY <2>7, <3>1
    <3>3. r.faithful \in BOOLEAN
      BY <2>6 DEF FetchState
    <3>4. "end" \in Outcomes /\ 0 \in Nat /\ 0 <= MaxResults[s]
      BY <1>3 DEF Outcomes
    <3> QED BY <1>4, <2>7, <3>1, <3>2, <3>3, <3>4, EndStep
  <2>12. CASE b # <<>>
    <3>1. Sets(s, f)
      BY <2>4, <2>10, <2>12
    <3>2. Len(b) > 0 /\ Len(b) \in Nat
      BY <2>2, <2>12 DEF Plans
    <3>3. \A i \in 1..Len(f.plan) :
             /\ f.plan[i].max > 0 /\ End(f, i) <= MaxResults[s]
             /\ i < Len(f.plan) => f.plan[i + 1].start = End(f, i)
             /\ End(f, i) <= count
      <4> SUFFICES ASSUME NEW i \in 1..Len(b)
                   PROVE  /\ b[i].max > 0 /\ b[i].start + b[i].max <= MaxResults[s]
                          /\ i < Len(b) => b[i + 1].start = b[i].start + b[i].max
                          /\ b[i].start + b[i].max <= count
        BY <2>9 DEF End
      <4>1. b[i].start \in Nat /\ b[i].max \in Nat /\ b[i].start + b[i].max <= n
        BY <2>2, PlanTypes
      <4> QED BY <1>3, <2>1, <2>2, <2>3, <4>1
    <3>4. f.plan[1].start = f.emitted /\ End(f, Len(f.plan)) = n
      BY <2>2, <2>9, <3>2 DEF End
    <3>5. Planned(f, MaxResults[s], total)
      BY <2>7, <2>9, <3>2, <3>3, <3>4 DEF Planned, n
    <3>6. Good(f, source, MaxResults[s], total)
      <4>1. source = "pubmed"
        BY <1>1 DEF Good
      <4>2. None # "end" /\ None # "refused" /\ 0 <= MaxResults[s]
        BY <1>3, FetchAssumption DEF Outcomes
      <4> QED BY <2>9, <3>5, <4>1, <4>2 DEF Good
    <3> QED BY <1>4, <2>8, <3>1, <3>6, FetchStep
  <2> QED BY <2>11, <2>12
<1> QED BY <1>5, <1>6 DEF Searched

(***************************************************************************)
(* Pages.                                                                  *)
(***************************************************************************)
LEMMA WaitingFetch ==
  ASSUME FInv, NEW s \in Calls, In(s, "waiting")
  PROVE  /\ source # "pubmed" => Following(fetch[s], MaxResults[s], total)
         /\ source = "pubmed" => Planned(fetch[s], MaxResults[s], total)
         /\ fetch[s].outcome = None /\ fetch[s].emitted <= MaxResults[s]
BY StateTypes DEF Good, Paging, In

\* PubMed: the batch a page answers.
LEMMA BatchTypes ==
  ASSUME FInv, NEW s \in Calls, In(s, "waiting"), source = "pubmed"
  PROVE  /\ Batch(s) = fetch[s].plan[1]
         /\ Batch(s).start = fetch[s].emitted /\ Batch(s).max \in Nat
         /\ Batch(s).max > 0
         /\ fetch[s].emitted + Batch(s).max = End(fetch[s], 1)
         /\ fetch[s].emitted + Batch(s).max <= MaxResults[s]
         /\ fetch[s].faithful = TRUE => fetch[s].emitted + Batch(s).max <= total
<1>1. Planned(fetch[s], MaxResults[s], total) /\ fetch[s].plan \in Plans
  BY WaitingFetch, StateTypes
<1>2. 1 \in 1..Len(fetch[s].plan) /\ Batch(s) = fetch[s].plan[1]
  BY <1>1 DEF Planned, Batch, Plans
<1> QED BY <1>1, <1>2, PlanTypes DEF Planned, End

\* Nothing beyond the query's limit is read of a page.
LEMMA ReadableBound ==
  ASSUME FInv, NEW s \in Calls, In(s, "waiting"), NEW p \in Pages, Accepts(s, p)
  PROVE  /\ Readable(s, p) \in Nat /\ Readable(s, p) <= p.items
         /\ fetch[s].emitted + Readable(s, p) <= MaxResults[s]
<1>1. /\ p.items \in Nat /\ p.bad \in Nat /\ p.bad <= p.items
      /\ PageSize \in Nat /\ MaxResults[s] \in Nat /\ fetch[s].emitted \in Nat
      /\ fetch[s].emitted <= MaxResults[s]
  BY PageTypes, LoadTypes, StateTypes, WaitingFetch DEF FInv
<1>2. CASE source = "pubmed"
  <2>1. p.items = Batch(s).max /\ p.bad = 0
    BY <1>2 DEF Accepts, Rows
  <2>2. Readable(s, p) = Least(p.items, PageSize + 1)
    BY <1>2, <2>1 DEF Readable, Limit
  <2>3. Batch(s).max \in Nat /\ fetch[s].emitted + Batch(s).max <= MaxResults[s]
    BY <1>2, BatchTypes
  <2>4. Readable(s, p) \in Nat /\ Readable(s, p) <= p.items
    BY <1>1, <2>2 DEF Least
  <2> QED BY <1>1, <2>1, <2>3, <2>4
<1>3. CASE source # "pubmed"
  <2>1. Limit(s) = MaxResults[s] - fetch[s].emitted
    BY <1>3 DEF Limit
  <2> QED BY <1>1, <2>1 DEF Readable, Least
<1> QED BY <1>2, <1>3

\* A faithful page parses, holds what was asked for and lies within the total.
LEMMA FaithfulPage ==
  ASSUME FInv, NEW s \in Calls, In(s, "waiting"), NEW p \in Pages,
         StillFaithful(s, p) = TRUE
  PROVE  /\ fetch[s].faithful = TRUE /\ p.bad = 0
         /\ Accepts(s, p)
         /\ Readable(s, p) = p.items
         /\ fetch[s].emitted + p.items <= total
         /\ source # "pubmed" => p.items = Least(Rows(s), total - fetch[s].emitted)
<1>1. /\ p.items \in 0..(PageSize + 1) /\ p.items \in Int
      /\ PageSize \in Nat \ {0} /\ MaxResults[s] \in Nat /\ fetch[s].emitted \in Nat
      /\ fetch[s].emitted <= MaxResults[s] /\ total \in Nat /\ source \in AllSources
  BY PageTypes, LoadTypes, StateTypes, WaitingFetch DEF FInv
<1>2. fetch[s].faithful = TRUE /\ Faithful(s, p) /\ p.bad = 0
  BY StateTypes DEF StillFaithful, Faithful
<1>3. CASE source = "pubmed"
  <2>1. /\ Batch(s).max \in Nat /\ Batch(s).start = fetch[s].emitted
        /\ fetch[s].emitted + Batch(s).max <= total
    BY <1>2, <1>3, BatchTypes
  <2>2. p.items = Least(Batch(s).max, total - fetch[s].emitted)
    BY <1>2, <1>3, <2>1 DEF Faithful, Rows
  <2>3. p.items = Batch(s).max
    BY <1>1, <2>1, <2>2 DEF Least
  <2>4. Accepts(s, p)
    BY <1>2, <1>3, <2>3 DEF Accepts, Rows
  <2>5. Readable(s, p) = Least(p.items, PageSize + 1)
    BY <1>2, <1>3 DEF Readable, Limit
  <2>6. Readable(s, p) = p.items
    BY <1>1, <2>5 DEF Least
  <2> QED BY <1>2, <1>3, <2>1, <2>3, <2>4, <2>6
<1>4. CASE source # "pubmed"
  <2>1. fetch[s].cursor = fetch[s].emitted /\ fetch[s].emitted <= total
    BY <1>2, <1>4, WaitingFetch DEF Following
  <2>2. Rows(s) = Least(PageSize, MaxResults[s] - fetch[s].emitted)
    BY <1>4 DEF Rows
  <2>3. p.items = Least(Rows(s), total - fetch[s].emitted)
    BY <1>2, <1>4, <2>1 DEF Faithful
  <2>4. /\ Rows(s) \in Int /\ p.items <= Rows(s)
        /\ p.items <= MaxResults[s] - fetch[s].emitted
        /\ fetch[s].emitted + p.items <= total
    BY <1>1, <2>1, <2>2, <2>3 DEF Least
  <2>5. Readable(s, p) = Least(p.items, MaxResults[s] - fetch[s].emitted)
    BY <1>2, <1>4 DEF Readable, Limit
  <2>6. Readable(s, p) = p.items
    BY <1>1, <2>4, <2>5 DEF Least
  <2>7. source = "openalex" => p.items > 0 \/ p.next = None
    BY <1>2 DEF Faithful
  <2>8. Accepts(s, p)
    BY <1>4, <2>4, <2>7 DEF Accepts
  <2> QED BY <1>2, <2>3, <2>4, <2>6, <2>8
<1> QED BY <1>3, <1>4

\* A faithful page that is not the last sends the fetch on to its end.
LEMMA FaithfulNext ==
  ASSUME FInv, NEW s \in Calls, In(s, "waiting"), NEW p \in Pages,
         StillFaithful(s, p) = TRUE, source # "pubmed", ~Last(s, p)
  PROVE  /\ p.next = fetch[s].emitted + p.items /\ p.items > 0
         /\ Follows(s, p)
<1>1. /\ p.items \in Nat /\ PageSize \in Nat \ {0} /\ MaxResults[s] \in Nat
      /\ fetch[s].emitted \in Nat /\ fetch[s].emitted < MaxResults[s]
      /\ total \in Nat /\ source \in AllSources /\ fetch[s].seen \subseteq Nat
  <2>1. /\ PageSize \in Nat \ {0} /\ MaxResults[s] \in Nat /\ total \in Nat
        /\ source \in AllSources /\ load \in Loads
    BY LoadTypes DEF FInv
  <2>2. p.items \in Nat
    BY <2>1, PageTypes
  <2>3. fetch[s].emitted < MaxResults[s]
    BY WaitingFetch DEF Following
  <2> QED BY <2>1, <2>2, <2>3, StateTypes
<1>2. /\ Following(fetch[s], MaxResults[s], total) /\ fetch[s].faithful = TRUE
      /\ Faithful(s, p) /\ p.items = Least(Rows(s), total - fetch[s].emitted)
  <2>1. Faithful(s, p)
    BY DEF StillFaithful
  <2> QED BY <2>1, FaithfulPage, WaitingFetch
<1>3. /\ fetch[s].cursor = fetch[s].emitted
      /\ \A x \in fetch[s].seen : x <= fetch[s].emitted
      /\ Rows(s) = Least(PageSize, MaxResults[s] - fetch[s].emitted)
  BY <1>2 DEF Following, Rows
<1>4. ASSUME source = "openalex"
      PROVE  p.next = fetch[s].emitted + p.items /\ p.items > 0
  <2>1. p.next \in (IF p.items = total - fetch[s].emitted THEN {None} ELSE {}) \cup
                   (IF p.items > 0 THEN {fetch[s].emitted + p.items} ELSE {})
    BY <1>2, <1>3, <1>4 DEF Faithful
  <2>2. p.next # None
    BY <1>4 DEF Last
  <2> QED BY <2>1, <2>2
<1>5. ASSUME source = "crossref"
      PROVE  p.next = fetch[s].emitted + p.items /\ p.items > 0
  <2>1. p.next = fetch[s].emitted + p.items
    BY <1>2, <1>3, <1>5 DEF Faithful
  <2>2. ~(p.items < Rows(s))
    BY <1>5 DEF Last
  <2>3. Rows(s) \in Int /\ Rows(s) > 0
    BY <1>1, <1>3 DEF Least
  <2> QED BY <1>1, <2>1, <2>2, <2>3
<1>6. source = "openalex" \/ source = "crossref"
  BY <1>1 DEF AllSources
<1>7. p.next = fetch[s].emitted + p.items /\ p.items > 0
  BY <1>4, <1>5, <1>6
<1>8. p.next \in Nat /\ p.next # None
  BY <1>1, <1>7, PolicyAssumption
<1>9. p.next \notin fetch[s].seen
  BY <1>1, <1>3, <1>7
<1> QED BY <1>7, <1>8, <1>9 DEF Follows

(***************************************************************************)
(* What a page leaves of a fetch.                                          *)
(***************************************************************************)
LEMMA EmittingFields ==
  ASSUME FInv, NEW s \in Calls, In(s, "waiting"), NEW p \in Pages, NEW n \in Nat
  PROVE  LET g == Emitting(s, p, n)
         IN  /\ g \in FetchState
             /\ g.emitted = fetch[s].emitted + n
             /\ g.faithful = StillFaithful(s, p)
             /\ g.read = fetch[s].read \cup ({fetch[s].cursor} \cap Nat)
             /\ g.plan = fetch[s].plan /\ g.cursor = fetch[s].cursor
             /\ g.seen = fetch[s].seen /\ g.outcome = None /\ g.pc = "waiting"
<1> DEFINE e == fetch[s].emitted + n
           b == StillFaithful(s, p)
           r == fetch[s].read \cup ({fetch[s].cursor} \cap Nat)
           g == Emitting(s, p, n)
<1>1. /\ fetch[s] \in FetchState /\ e \in Nat /\ r \in SUBSET Nat /\ b \in BOOLEAN
      /\ fetch[s].outcome = None /\ fetch[s].pc = "waiting"
  BY StateTypes, WaitingFetch DEF StillFaithful, In
<1>2. g = [fetch[s] EXCEPT !.emitted = e, !.faithful = b, !.read = r]
  BY DEF Emitting
<1> HIDE DEF e, b, r, g
<1>3. g \in FetchState
  BY <1>1, <1>2, RecordTypes
<1>4. /\ g.emitted = e /\ g.faithful = b /\ g.read = r
      /\ g.plan = fetch[s].plan /\ g.cursor = fetch[s].cursor
      /\ g.seen = fetch[s].seen /\ g.outcome = fetch[s].outcome /\ g.pc = fetch[s].pc
  BY <1>1, <1>2 DEF FetchState
<1> QED BY <1>1, <1>3, <1>4 DEF e, b, r, g

LEMMA RefusePageInv ==
  ASSUME FInv, NEW s \in Calls, In(s, "waiting"), NEW p \in Pages, RefusePage(s, p),
         load' = load
  PROVE  FInv'
<1> DEFINE r == [fetch[s] EXCEPT !.faithful = StillFaithful(s, p)]
<1>1. StillFaithful(s, p) # TRUE /\ StillFaithful(s, p) \in BOOLEAN
  BY FaithfulPage DEF RefusePage, StillFaithful
<1>2. r.emitted = fetch[s].emitted /\ r.faithful = StillFaithful(s, p)
  BY StateTypes DEF FetchState
<1>3. Ends(s, r, "refused")
  BY DEF RefusePage
<1>4. "refused" \in Outcomes /\ r.emitted \in Nat /\ r.emitted <= MaxResults[s]
  BY <1>2, StateTypes, WaitingFetch DEF Outcomes
<1> HIDE DEF r
<1> QED BY <1>1, <1>2, <1>3, <1>4, EndStep

LEMMA StopInPageInv ==
  ASSUME FInv, NEW s \in Calls, In(s, "waiting"), NEW p \in Pages, StopInPage(s, p),
         load' = load
  PROVE  FInv'
<1>1. PICK n \in 1..Readable(s, p) : Ends(s, Emitting(s, p, n), "stopped")
  BY DEF StopInPage
<1> DEFINE r == Emitting(s, p, n)
<1>2. /\ Readable(s, p) \in Nat /\ fetch[s].emitted + Readable(s, p) <= MaxResults[s]
      /\ fetch[s].emitted \in Nat /\ MaxResults[s] \in Nat
  BY ReadableBound, StateTypes, LoadTypes DEF StopInPage, FInv
<1>3. n \in Nat /\ fetch[s].emitted + n \in Nat /\ fetch[s].emitted + n <= MaxResults[s]
  BY <1>2
<1>4. r.emitted = fetch[s].emitted + n /\ r.faithful \in BOOLEAN
  BY <1>3, EmittingFields DEF StillFaithful
<1>5. "stopped" \in Outcomes /\ "stopped" # "refused" /\ "stopped" # "end"
  BY DEF Outcomes
<1>6. Ends(s, r, "stopped")
  BY <1>1
<1> HIDE DEF r
<1> QED BY <1>3, <1>4, <1>5, <1>6, EndStep

\* A page that ends the fetch: all records if the server was faithful.
LEMMA LastPageInv ==
  ASSUME FInv, NEW s \in Calls, In(s, "waiting"), NEW p \in Pages, Accepts(s, p),
         load' = load, NEW outcome \in {"end", "refused"},
         Ends(s, Emitting(s, p, Readable(s, p)), outcome),
         outcome = "refused" => StillFaithful(s, p) # TRUE,
         outcome = "end" => Last(s, p)
  PROVE  FInv'
<1> DEFINE r == Emitting(s, p, Readable(s, p))
<1>1. /\ Readable(s, p) \in Nat /\ fetch[s].emitted + Readable(s, p) <= MaxResults[s]
      /\ fetch[s].emitted \in Nat /\ MaxResults[s] \in Nat /\ total \in Nat
      /\ source \in AllSources /\ PageSize \in Nat \ {0} /\ p.items \in Nat
  BY ReadableBound, StateTypes, LoadTypes, PageTypes DEF FInv
<1>2. /\ r.emitted = fetch[s].emitted + Readable(s, p)
      /\ r.faithful = StillFaithful(s, p) /\ r.faithful \in BOOLEAN
  BY <1>1, EmittingFields DEF StillFaithful
<1>3. Ends(s, r, outcome) /\ outcome \in Outcomes
  BY DEF Outcomes
<1> HIDE DEF r
<1>4. ASSUME StillFaithful(s, p) = TRUE, Last(s, p)
      PROVE  r.emitted = Least(total, MaxResults[s])
  <2>1. /\ Readable(s, p) = p.items /\ fetch[s].emitted + p.items <= total
        /\ source # "pubmed" => p.items = Least(Rows(s), total - fetch[s].emitted)
        /\ fetch[s].faithful = TRUE /\ Faithful(s, p) /\ Accepts(s, p)
    <3>1. Faithful(s, p)
      BY <1>4 DEF StillFaithful
    <3> QED BY <1>4, <3>1, FaithfulPage
  <2>2. CASE source = "pubmed"
    <3>1. /\ Planned(fetch[s], MaxResults[s], total)
          /\ fetch[s].emitted + Batch(s).max = End(fetch[s], 1)
      BY <2>2, WaitingFetch, BatchTypes
    <3>2. Len(fetch[s].plan) = 1 /\ p.items = Batch(s).max
      BY <1>4, <2>1, <2>2 DEF Last, Accepts, Rows
    <3>3. End(fetch[s], 1) = Least(total, MaxResults[s])
      BY <2>1, <3>1, <3>2 DEF Planned
    <3> QED BY <1>2, <2>1, <3>1, <3>2, <3>3
  <2>3. CASE source # "pubmed"
    <3>1. /\ Limit(s) = MaxResults[s] - fetch[s].emitted
          /\ Rows(s) = Least(PageSize, MaxResults[s] - fetch[s].emitted)
          /\ fetch[s].cursor = fetch[s].emitted
      BY <2>1, <2>3, WaitingFetch DEF Limit, Rows, Following
    <3>2. CASE Readable(s, p) = Limit(s)
      BY <1>1, <1>2, <2>1, <3>1, <3>2 DEF Least
    <3>3. CASE source = "openalex" /\ p.next = None
      <4>1. p.next \in (IF p.items = total - fetch[s].emitted THEN {None} ELSE {}) \cup
                       (IF p.items > 0 THEN {fetch[s].emitted + p.items} ELSE {})
        BY <2>1, <3>1, <3>3 DEF Faithful
      <4>2. fetch[s].emitted + p.items # None
        BY <1>1, PolicyAssumption
      <4>3. p.items = total - fetch[s].emitted
        BY <3>3, <4>1, <4>2
      <4> QED BY <1>1, <1>2, <2>1, <4>3 DEF Least
    <3>4. CASE p.items < Rows(s)
      <4>1. Rows(s) \in Int
        BY <1>1, <3>1 DEF Least
      <4>2. p.items = total - fetch[s].emitted
        BY <1>1, <2>1, <2>3, <3>4, <4>1 DEF Least
      <4> QED BY <1>1, <1>2, <2>1, <4>2 DEF Least
    <3> QED BY <1>4, <2>3, <3>2, <3>3, <3>4 DEF Last
  <2> QED BY <2>2, <2>3
<1>5. r.faithful = TRUE /\ outcome = "end" => r.emitted = Least(total, MaxResults[s])
  BY <1>2, <1>4
<1>6. r.faithful = TRUE => outcome # "refused"
  BY <1>2
<1>7. r.emitted \in Nat /\ r.emitted <= MaxResults[s]
  BY <1>1, <1>2
<1> QED BY <1>2, <1>3, <1>5, <1>6, <1>7, EndStep

\* A page of a batch leaves the plan of the batches after it.
LEMMA NextBatch ==
  ASSUME FInv, NEW s \in Calls, In(s, "waiting"), NEW p \in Pages, Accepts(s, p),
         source = "pubmed", ~Last(s, p), NEW g,
         g.plan = Tail(fetch[s].plan),
         g.emitted = fetch[s].emitted + Readable(s, p),
         g.faithful = TRUE => fetch[s].faithful = TRUE
  PROVE  g.plan \in Plans /\ Planned(g, MaxResults[s], total)
<1> DEFINE plan == fetch[s].plan
           k == Len(fetch[s].plan)
<1>1. Planned(fetch[s], MaxResults[s], total)
  BY WaitingFetch
<1>2. plan \in Plans /\ k \in Nat /\ k > 1
  <2>1. plan \in Plans
    BY StateTypes
  <2>2. k \in Nat
    BY <2>1 DEF Plans
  <2>3. k > 0 /\ k # 1
    BY <1>1 DEF Planned, Last
  <2>4. \A n \in Nat : n > 0 /\ n # 1 => n > 1
    OBVIOUS
  <2> HIDE DEF plan, k
  <2> QED BY <2>1, <2>2, <2>3, <2>4
<1>3. /\ g.plan \in Plans /\ Len(g.plan) = k - 1
      /\ \A i \in 1..(k - 1) : g.plan[i] = plan[i + 1]
  BY <1>2 DEF Plans
<1>4. g.emitted = End(fetch[s], 1)
  <2>1. p.items = Batch(s).max /\ p.bad = 0 /\ p.items \in 0..(PageSize + 1) /\ PageSize \in Nat
    BY PageTypes, LoadTypes DEF FInv, Accepts, Rows
  <2>2. Readable(s, p) = Least(p.items, PageSize + 1)
    BY <2>1 DEF Readable, Limit
  <2>3. Readable(s, p) = p.items
    BY <2>1, <2>2 DEF Least
  <2> QED BY <2>1, <2>3, BatchTypes
<1>5. /\ \A i \in 1..k :
           /\ plan[i].max > 0 /\ End(fetch[s], i) <= MaxResults[s]
           /\ i < k => plan[i + 1].start = End(fetch[s], i)
           /\ fetch[s].faithful = TRUE => End(fetch[s], i) <= total
      /\ fetch[s].faithful = TRUE => End(fetch[s], k) = Least(total, MaxResults[s])
  BY <1>1 DEF Planned
<1>6. \A i \in 1..(k - 1) : End(g, i) = End(fetch[s], i + 1)
  BY <1>3 DEF End
<1> HIDE DEF plan, k
<1>7. /\ \A i \in 1..(k - 1) : i + 1 \in 1..k /\ (i < k - 1 => i + 1 < k /\ i + 1 \in 1..(k - 1))
      /\ 1 \in 1..k /\ 1 \in 1..(k - 1) /\ 1 < k
      /\ k - 1 \in 1..(k - 1) /\ (k - 1) + 1 = k /\ k - 1 > 0
  BY <1>2
<1>8. g.plan[1].start = g.emitted
  BY <1>3, <1>4, <1>5, <1>7
<1>9. ASSUME NEW i \in 1..(k - 1)
      PROVE  /\ g.plan[i].max > 0 /\ End(g, i) <= MaxResults[s]
             /\ i < k - 1 => g.plan[i + 1].start = End(g, i)
             /\ g.faithful = TRUE => End(g, i) <= total
  <2>1. i + 1 \in 1..k /\ (i < k - 1 => i + 1 < k /\ i + 1 \in 1..(k - 1))
    BY <1>7
  <2> QED BY <1>3, <1>5, <1>6, <2>1
<1>10. g.faithful = TRUE => End(g, k - 1) = Least(total, MaxResults[s])
  BY <1>5, <1>6, <1>7
<1> QED BY <1>3, <1>7, <1>8, <1>9, <1>10 DEF Planned

\* A page with a cursor that is new to the fetch leads on.
LEMMA NextCursor ==
  ASSUME FInv, NEW s \in Calls, In(s, "waiting"), NEW p \in Pages, Accepts(s, p),
         source # "pubmed", ~Last(s, p), Follows(s, p), NEW g,
         g.cursor = p.next,
         g.seen = fetch[s].seen \cup ({p.next} \cap Nat),
         g.emitted = fetch[s].emitted + Readable(s, p),
         g.read = fetch[s].read \cup ({fetch[s].cursor} \cap Nat),
         g.faithful = StillFaithful(s, p)
  PROVE  g.cursor \in Nat \cup {Fresh} /\ Following(g, MaxResults[s], total)
<1>1. /\ Readable(s, p) \in Nat /\ fetch[s].emitted + Readable(s, p) <= MaxResults[s]
      /\ fetch[s].emitted \in Nat /\ MaxResults[s] \in Nat /\ total \in Nat
      /\ fetch[s].seen \subseteq Nat /\ fetch[s].read \subseteq Nat
      /\ fetch[s].cursor \in Nat \cup {Fresh} /\ Fresh \notin Nat
  BY ReadableBound, StateTypes, LoadTypes, FetchAssumption DEF FInv
<1>2. Following(fetch[s], MaxResults[s], total)
  BY WaitingFetch
<1>3. p.next \in Nat \cup {Fresh} /\ p.next \notin fetch[s].seen
  BY PageTypes DEF FInv, Follows
<1>4. g.emitted < MaxResults[s]
  <2>1. Readable(s, p) # MaxResults[s] - fetch[s].emitted
    BY DEF Last, Limit
  <2> QED BY <1>1, <2>1
<1>5. /\ g.read \subseteq fetch[s].seen /\ g.read \subseteq g.seen
      /\ g.cursor \in g.seen \cup {Fresh} /\ g.cursor \notin g.read
  <2>1. {fetch[s].cursor} \cap Nat \subseteq fetch[s].seen
    BY <1>1, <1>2 DEF Following
  <2>2. g.read \subseteq fetch[s].seen
    BY <1>2, <2>1 DEF Following
  <2> QED BY <1>3, <2>2
<1>6. ASSUME g.faithful = TRUE
      PROVE  /\ g.cursor = g.emitted /\ g.emitted <= total
             /\ \A x \in g.seen : x <= g.emitted
  <2>1. StillFaithful(s, p) = TRUE
    BY <1>6
  <2>2. /\ p.next = fetch[s].emitted + p.items
        /\ Readable(s, p) = p.items /\ fetch[s].emitted + p.items <= total
        /\ fetch[s].faithful = TRUE
    BY <2>1, FaithfulNext, FaithfulPage
  <2>3. \A x \in fetch[s].seen : x <= fetch[s].emitted
    BY <1>2, <2>2 DEF Following
  <2>4. g.cursor = g.emitted /\ g.emitted <= total /\ p.next = g.emitted
    BY <2>2
  <2>5. ASSUME NEW x \in g.seen
        PROVE  x <= g.emitted
    <3>1. CASE x \in fetch[s].seen
      <4>1. x \in Nat /\ x <= fetch[s].emitted
        BY <1>1, <2>3, <3>1
      <4> QED BY <1>1, <4>1
    <3>2. CASE x = p.next
      BY <1>1, <2>4, <3>2
    <3> QED BY <3>1, <3>2
  <2> QED BY <2>4, <2>5
<1> QED BY <1>3, <1>4, <1>5, <1>6 DEF Following

LEMMA EmitPageInv ==
  ASSUME FInv, NEW s \in Calls, In(s, "waiting"), NEW p \in Pages, EmitPage(s, p),
         load' = load
  PROVE  FInv'
<1> DEFINE r == Emitting(s, p, Readable(s, p))
           plan == IF source = "pubmed" THEN Tail(r.plan) ELSE r.plan
           cursor == IF source = "pubmed" THEN r.cursor ELSE p.next
           seen == r.seen \cup ({p.next} \cap Nat)
           f == [r EXCEPT !.pc = "paging", !.plan = plan, !.cursor = cursor, !.seen = seen]
<1>1. Accepts(s, p)
  BY DEF EmitPage
<1>2. Readable(s, p) \in Nat /\ fetch[s].emitted + Readable(s, p) <= MaxResults[s]
  BY <1>1, ReadableBound
<1>3. /\ r \in FetchState
      /\ r.emitted = fetch[s].emitted + Readable(s, p)
      /\ r.faithful = StillFaithful(s, p)
      /\ r.read = fetch[s].read \cup ({fetch[s].cursor} \cap Nat)
      /\ r.plan = fetch[s].plan /\ r.cursor = fetch[s].cursor
      /\ r.seen = fetch[s].seen /\ r.outcome = None
  BY <1>2, EmittingFields
<1>4. CASE p.bad # 0 /\ p.bad <= Limit(s)
  <2>1. StillFaithful(s, p) # TRUE
    BY <1>4, FaithfulPage
  <2>2. Ends(s, Emitting(s, p, Readable(s, p)), "refused")
    BY <1>4 DEF EmitPage
  <2> QED BY <1>1, <2>1, <2>2, LastPageInv
<1>5. CASE ~(p.bad # 0 /\ p.bad <= Limit(s)) /\ Last(s, p)
  <2>1. Ends(s, Emitting(s, p, Readable(s, p)), "end")
    BY <1>5 DEF EmitPage
  <2> QED BY <1>1, <1>5, <2>1, LastPageInv
<1>6. CASE ~(p.bad # 0 /\ p.bad <= Limit(s)) /\ ~Last(s, p) /\ ~Follows(s, p)
  <2>1. StillFaithful(s, p) # TRUE
    BY <1>6, FaithfulNext DEF Follows
  <2>2. Ends(s, Emitting(s, p, Readable(s, p)), "refused")
    BY <1>6 DEF EmitPage
  <2> QED BY <1>1, <2>1, <2>2, LastPageInv
<1>7. CASE ~(p.bad # 0 /\ p.bad <= Limit(s)) /\ ~Last(s, p) /\ Follows(s, p)
  <2>1. Sets(s, f)
    BY <1>7 DEF EmitPage
  <2> HIDE DEF r
  <2>2. /\ f.pc = "paging" /\ f.plan = plan /\ f.cursor = cursor /\ f.seen = seen
        /\ f.emitted = r.emitted /\ f.faithful = r.faithful /\ f.read = r.read
        /\ f.outcome = r.outcome
    BY <1>3 DEF FetchState
  <2>3. /\ plan \in Plans
        /\ source = "pubmed" => Planned(f, MaxResults[s], total)
    <3>1. CASE source = "pubmed"
      <4>1. /\ f.plan = Tail(fetch[s].plan)
            /\ f.emitted = fetch[s].emitted + Readable(s, p)
            /\ f.faithful = TRUE => fetch[s].faithful = TRUE
        BY <1>3, <2>2, <3>1, FaithfulPage
      <4> HIDE DEF f
      <4>2. f.plan \in Plans /\ Planned(f, MaxResults[s], total)
        BY <1>1, <1>7, <3>1, <4>1, NextBatch
      <4> QED BY <2>2, <4>2
    <3>2. CASE source # "pubmed"
      BY <1>3, <3>2, StateTypes
    <3> QED BY <3>1, <3>2
  <2>4. /\ cursor \in Nat \cup {Fresh}
        /\ source # "pubmed" => Following(f, MaxResults[s], total)
    <3>1. CASE source = "pubmed"
      BY <1>3, <3>1, StateTypes
    <3>2. CASE source # "pubmed"
      <4>1. /\ f.cursor = p.next
            /\ f.seen = fetch[s].seen \cup ({p.next} \cap Nat)
            /\ f.emitted = fetch[s].emitted + Readable(s, p)
            /\ f.read = fetch[s].read \cup ({fetch[s].cursor} \cap Nat)
            /\ f.faithful = StillFaithful(s, p)
        BY <1>3, <2>2, <3>2
      <4> HIDE DEF f
      <4>2. f.cursor \in Nat \cup {Fresh} /\ Following(f, MaxResults[s], total)
        BY <1>1, <1>7, <3>2, <4>1, NextCursor
      <4> QED BY <2>2, <4>2
    <3> QED BY <3>1, <3>2
  <2>5. seen \in SUBSET Nat
    BY <1>3, StateTypes
  <2> HIDE DEF plan, cursor, seen
  <2>6. f \in FetchState
    BY <1>3, <2>3, <2>4, <2>5, RecordTypes
  <2>7. None # "end" /\ None # "refused"
    BY FetchAssumption DEF Outcomes
  <2> HIDE DEF f
  <2>8. f.outcome = None /\ f.emitted <= MaxResults[s] /\ f.pc = "paging"
    BY <1>2, <1>3, <2>2
  <2>9. Good(f, source, MaxResults[s], total)
    BY <2>3, <2>4, <2>7, <2>8 DEF Good
  <2> QED BY <2>1, <2>6, <2>9, FetchStep
<1> QED BY <1>4, <1>5, <1>6, <1>7

(***************************************************************************)
(* The invariant.                                                          *)
(***************************************************************************)
LEMMA FInit ==
  ASSUME Init
  PROVE  FInv
<1>1. <<>> \in Plans /\ {0} \in SUBSET Nat /\ {} \in SUBSET Nat /\ 0 \in Nat \cup {Fresh}
  BY DEF Plans
<1>2. Unstarted \in FetchState
  BY <1>1 DEF FetchState, Unstarted, Plans, Batches
<1>3. /\ Unstarted.pc = "idle" /\ Unstarted.emitted = 0 /\ Unstarted.outcome = None
      /\ Unstarted.faithful = TRUE /\ Unstarted = [Unstarted EXCEPT !.pc = Unstarted.pc]
  <2>1. Unstarted = [Unstarted EXCEPT !.pc = Unstarted.pc]
    BY <1>2 DEF FetchState
  <2> QED BY <2>1 DEF Unstarted
<1>4. None # "end" /\ None # "refused"
  BY FetchAssumption DEF Outcomes
<1>5. load \in Loads /\ fetch = [s \in Calls |-> Unstarted]
  BY DEF Init
<1>6. \A s \in Calls : MaxResults[s] \in Nat
  BY <1>5, LoadTypes
<1>7. ASSUME NEW s \in Calls
      PROVE  Good(Unstarted, source, MaxResults[s], total)
  <2>1. 0 <= MaxResults[s]
    BY <1>6
  <2> QED BY <1>3, <1>4, <2>1 DEF Good, Paging
<1> QED BY <1>2, <1>5, <1>7 DEF FInv

LEMMA FNext ==
  ASSUME FInv, [Next]_vars
  PROVE  FInv'
<1>1. ASSUME UNCHANGED fetchVars
      PROVE  FInv'
  <2>1. load' = load /\ fetch' = fetch
    BY <1>1 DEF fetchVars
  <2>2. source' = source /\ total' = total /\ MaxResults' = MaxResults
    BY <2>1 DEF source, total, MaxResults
  <2>3. \A s \in Calls : Good(fetch'[s], source', MaxResults'[s], total')
    BY <2>1, <2>2 DEF FInv
  <2> QED BY <2>1, <2>3 DEF FInv
<1>2. ASSUME NEW s \in Calls, RequestFails(s)
      PROVE  FInv'
  BY <1>2, FailsInv DEF RequestFails
<1>3. ASSUME NEW s \in Calls, ReceivePage(s)
      PROVE  FInv'
  <2>1. In(s, "waiting") /\ load' = load
    BY <1>3 DEF ReceivePage
  <2>2. PICK p \in Pages : RefusePage(s, p) \/ StopInPage(s, p) \/ EmitPage(s, p)
    BY <1>3 DEF ReceivePage
  <2> QED BY <2>1, <2>2, RefusePageInv, StopInPageInv, EmitPageInv
<1>4. ASSUME NEW s \in Calls, Search(s) \/ Begin(s) \/ Fetching(s)
      PROVE  FInv'
  BY <1>2, <1>3, <1>4, SearchInv, BeginInv, RequestInv, SearchedInv DEF Fetching
<1> QED BY <1>1, <1>4 DEF Next, CancelFetch, vars, fetchVars

(* The argument above, for every execution.                                 *)
THEOREM FetchInvariant == Spec => []FInv
<1>1. Init => FInv
  BY FInit
<1>2. FInv /\ [Next]_vars => FInv'
  BY FNext
<1> QED BY <1>1, <1>2, PTL DEF Spec

(* The variables have their types: TypeOK.                                  *)
THEOREM FetchTypes == Spec => []TypeOK
<1>1. FInv /\ HttpTypeOK => TypeOK
  BY DEF FInv, TypeOK
<1> QED BY <1>1, FetchInvariant, FetchesUseTheClient, PolicyTypes, PTL

(* No fetch emits more records than its query asked for, whatever the       *)
(* server sends: WithinMaxResults (openalex/client.go:150-170,              *)
(* crossref/client.go:170-190, pubmed/client.go:215-235).                   *)
THEOREM NeverOverLimit == Spec => []WithinMaxResults
<1>1. FInv => WithinMaxResults
  BY DEF FInv, Good, WithinMaxResults
<1> QED BY <1>1, FetchInvariant, PTL

(* No page is asked for again once it was read: NoPageTwice                 *)
(* (openalex/client.go:181, crossref/client.go:200).                        *)
THEOREM CursorsAreNew == Spec => []NoPageTwice
<1>1. FInv => NoPageTwice
  BY DEF FInv, Good, Paging, Following, NoPageTwice, In
<1> QED BY <1>1, FetchInvariant, PTL

(* A server that keeps to its protocol is never refused, and a fetch of it  *)
(* that ends of itself has lost no record, for any total, any limit and any *)
(* page size: FaithfulIsServed.                                             *)
THEOREM FaithfulServersPass == Spec => []FaithfulIsServed
<1>1. ASSUME FInv, NEW s \in Calls, fetch[s].faithful = TRUE
      PROVE  /\ fetch[s].outcome # "refused"
             /\ In(s, "paging") =>
                  fetch[s].emitted = IF source = "pubmed" THEN Batch(s).start
                                     ELSE fetch[s].cursor
             /\ fetch[s].outcome = "end" => fetch[s].emitted = Least(total, MaxResults[s])
  <2>1. Good(fetch[s], source, MaxResults[s], total) /\ fetch[s].plan \in Plans
    BY <1>1, StateTypes
  <2>2. CASE In(s, "paging") /\ source = "pubmed"
    <3>1. Planned(fetch[s], MaxResults[s], total)
      BY <2>1, <2>2 DEF Good, Paging, In
    <3>2. Batch(s) = fetch[s].plan[1]
      BY <2>1, <3>1 DEF Planned, Batch, Plans
    <3> QED BY <1>1, <2>1, <2>2, <3>1, <3>2 DEF Good, Planned
  <2>3. CASE In(s, "paging") /\ source # "pubmed"
    BY <1>1, <2>1, <2>3 DEF Good, Paging, Following, In
  <2> QED BY <1>1, <2>1, <2>2, <2>3 DEF Good
<1>2. FInv => FaithfulIsServed
  BY <1>1, StateTypes DEF FaithfulIsServed
<1> QED BY <1>2, FetchInvariant, PTL
=============================================================================
