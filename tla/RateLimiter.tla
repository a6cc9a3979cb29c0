----------------------------- MODULE RateLimiter -----------------------------
(***************************************************************************)
(* SimpleRateLimiter (util/simpleratelimiter.cc): a fixed-window counter   *)
(* that the HTTP client asks for a slot before it starts a request.  The   *)
(* window is opened by the first slot taken at or after the end of the     *)
(* previous one, and its clock is time(nullptr), whole seconds of wall     *)
(* time: it normally only advances but an administrator or NTP may set it  *)
(* back.                                                                   *)
(***************************************************************************)
EXTENDS Integers, Sequences

CONSTANTS
  RatePerSec,  \* the constructor's rate_per_sec (any int, zero and negative too)
  MaxTime,     \* bound: the clock never passes this second
  MaxStepBack  \* bound: how often the wall clock is set back

ASSUME RateLimiterAssumption ==
  /\ RatePerSec \in Int
  /\ MaxTime \in Nat
  /\ MaxStepBack \in Nat

VARIABLES
  now,             \* time(nullptr)
  period_end,      \* end of the current window (exclusive)
  used_in_period,  \* slots handed out in the current window
  granted,         \* history: the second at which each slot was handed out
  latest,          \* history: the latest second the clock has shown
  steps_back       \* history: how often the clock was set back

vars == <<now, period_end, used_in_period, granted, latest, steps_back>>

\* The window length in seconds.
kRatePeriod == 1

\* The constructor replaces a rate that is not positive by 1.
max_rate == IF RatePerSec <= 0 THEN 1 ELSE RatePerSec

Init ==
  /\ now = 0
  /\ period_end = 0
  /\ used_in_period = 0
  /\ granted = <<>>
  /\ latest = 0
  /\ steps_back = 0

\* Mutant of RenewPeriod: the slot that opens the window is not counted.
RenewPeriodUncounted ==
  /\ now >= period_end
  /\ period_end' = now + kRatePeriod
  /\ used_in_period' = 0
  /\ granted' = Append(granted, now)
  /\ UNCHANGED <<now, latest, steps_back>>

\* Mutant of RenewPeriod: the counter is not reset with the window.
RenewPeriodNoReset ==
  /\ now >= period_end
  /\ period_end' = now + kRatePeriod
  /\ used_in_period' =
       IF used_in_period < max_rate THEN used_in_period + 1 ELSE used_in_period
  /\ granted' = Append(granted, now)
  /\ UNCHANGED <<now, latest, steps_back>>

\* Mutant of RenewPeriod: the window is extended, not restarted at the clock.
RenewPeriodScaled ==
  /\ now >= period_end
  /\ period_end' = now + kRatePeriod * max_rate
  /\ used_in_period' = 1
  /\ granted' = Append(granted, now)
  /\ UNCHANGED <<now, latest, steps_back>>

\* The window has ended: open a new one and hand out its first slot.
RenewPeriod ==
  /\ now >= period_end
  /\ period_end' = now + kRatePeriod
  /\ used_in_period' = 1
  /\ granted' = Append(granted, now)
  /\ UNCHANGED <<now, latest, steps_back>>

\* Mutant of UseSlot: the comparison with the rate is off by one.
UseSlotOffByOne ==
  /\ now < period_end
  /\ used_in_period <= max_rate
  /\ used_in_period' = used_in_period + 1
  /\ granted' = Append(granted, now)
  /\ UNCHANGED <<now, period_end, latest, steps_back>>

\* The window has slots left.  (When it has none the code returns false and
\* changes nothing, which is a stuttering step.)
UseSlot ==
  /\ now < period_end
  /\ used_in_period < max_rate
  /\ used_in_period' = used_in_period + 1
  /\ granted' = Append(granted, now)
  /\ UNCHANGED <<now, period_end, latest, steps_back>>

TakeRateSlot == RenewPeriod \/ UseSlot

\* The clock advances.
Tick ==
  /\ now < MaxTime
  /\ now' = now + 1
  /\ latest' = IF now + 1 > latest THEN now + 1 ELSE latest
  /\ UNCHANGED <<period_end, used_in_period, granted, steps_back>>

\* The clock is set back.
StepBack ==
  /\ steps_back < MaxStepBack
  /\ \E t \in 0..MaxTime : t < now /\ now' = t
  /\ steps_back' = steps_back + 1
  /\ UNCHANGED <<period_end, used_in_period, granted, latest>>

Next == TakeRateSlot \/ Tick \/ StepBack

Spec == Init /\ [][Next]_vars

-----------------------------------------------------------------------------
TypeOK ==
  /\ now \in 0..MaxTime
  /\ period_end \in Nat
  /\ used_in_period \in 0..max_rate
  /\ granted \in Seq(Nat)
  /\ latest \in 0..MaxTime
  /\ steps_back \in 0..MaxStepBack

(***************************************************************************)
(* As long as the clock is never set back, max_rate slots further on the   *)
(* clock always shows a later second: no calendar second sees more than    *)
(* max_rate requests, and k * max_rate slots span at least k seconds       *)
(* (TakeRateSlotWithTime).                                                 *)
(***************************************************************************)
RateRespected ==
  steps_back = 0 =>
    \A i \in 1..Len(granted) :
      i + max_rate <= Len(granted) => granted[i] < granted[i + max_rate]

(***************************************************************************)
(* The limiter refuses a slot only when the current second has had its     *)
(* full quota: as long as the clock is never set back, the last max_rate   *)
(* slots before a refusal were all handed out in this very second          *)
(* (TakeRateSlotWithTime returning false).                                 *)
(***************************************************************************)
Refused == now < period_end /\ used_in_period >= max_rate

NoSpuriousRefusal ==
  steps_back = 0 /\ Refused =>
    /\ max_rate <= Len(granted)
    /\ \A i \in 1..Len(granted) :
         i + max_rate > Len(granted) => granted[i] = now

(***************************************************************************)
(* Setting the clock back stalls the scan, but the stall is bounded: the   *)
(* window never ends more than kRatePeriod after the latest second the     *)
(* clock ever showed, so a slot is free again once the clock passes it.    *)
(***************************************************************************)
StallIsBounded == period_end <= latest + kRatePeriod

=============================================================================
