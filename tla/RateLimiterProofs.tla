-------------------------- MODULE RateLimiterProofs --------------------------
(***************************************************************************)
(* The rate limiter's guarantees, for every rate and every run of the      *)
(* clock.                                                                  *)
(***************************************************************************)
EXTENDS RateLimiter, TLAPS

(***************************************************************************)
(* The inductive invariant.  While the clock has never been set back, the  *)
(* slots split at position Len(granted) - used_in_period: the slots after  *)
(* it belong to the open window, which is the single second                *)
(* period_end - 1, and those before it are older.                          *)
(***************************************************************************)
WindowSplit ==
  steps_back = 0 =>
    /\ now = latest
    /\ granted # <<>> => period_end - kRatePeriod <= now
    /\ \A i \in 1..Len(granted) :
         granted[i] = period_end - kRatePeriod
           <=> i > Len(granted) - used_in_period
    /\ \A i \in 1..Len(granted) : granted[i] < period_end

IInv ==
  /\ TypeOK
  /\ now <= latest
  /\ used_in_period <= Len(granted)
  /\ IF granted = <<>> THEN period_end = 0 ELSE used_in_period >= 1
  /\ StallIsBounded
  /\ WindowSplit
  /\ RateRespected

\* The rate in force is positive whatever the constructor was given.
LEMMA MaxRatePositive == max_rate \in Nat /\ max_rate >= 1
  BY RateLimiterAssumption DEF max_rate

\* The initial state, no slot taken yet, satisfies the invariant.
LEMMA InitIInv == Init => IInv
  BY RateLimiterAssumption, MaxRatePositive
  DEF Init, IInv, TypeOK, StallIsBounded, WindowSplit, RateRespected, kRatePeriod

\* Opening a window closes the older slots behind it.
LEMMA RenewPeriodIInv == IInv /\ RenewPeriod => IInv'
<1> SUFFICES ASSUME IInv, RenewPeriod PROVE IInv'
  OBVIOUS
<1> USE MaxRatePositive, RateLimiterAssumption
<1>0. /\ granted' \in Seq(Nat) /\ granted' # <<>>
      /\ Len(granted') = Len(granted) + 1
      /\ \A i \in 1..Len(granted) : granted'[i] = granted[i]
      /\ granted'[Len(granted) + 1] = now
      /\ Len(granted) \in Nat
  BY DEF IInv, TypeOK, RenewPeriod
<1>1. TypeOK' /\ StallIsBounded' /\ now' <= latest' /\ used_in_period' <= Len(granted') /\ used_in_period' >= 1
  BY <1>0 DEF IInv, TypeOK, StallIsBounded, RenewPeriod, WindowSplit, kRatePeriod
<1>2. WindowSplit'
  <2> SUFFICES ASSUME steps_back = 0
               PROVE  /\ now' = latest'
                      /\ period_end' - kRatePeriod <= now'
                      /\ \A i \in 1..Len(granted') :
                           /\ granted'[i] = period_end' - kRatePeriod
                                <=> i > Len(granted') - used_in_period'
                           /\ granted'[i] < period_end'
    BY <1>0 DEF WindowSplit, RenewPeriod
  <2>1. now' = latest' /\ period_end' - kRatePeriod = now
    BY DEF IInv, TypeOK, WindowSplit, RenewPeriod, kRatePeriod
  <2>2. ASSUME NEW i \in 1..Len(granted')
        PROVE  /\ granted'[i] = now <=> i > Len(granted') - used_in_period'
               /\ granted'[i] < period_end'
    <3>1. CASE i = Len(granted) + 1
      BY <1>0, <3>1 DEF IInv, TypeOK, RenewPeriod, kRatePeriod
    <3>2. CASE i \in 1..Len(granted)
      <4>1. granted'[i] = granted[i] /\ granted[i] < period_end /\ granted[i] \in Nat
        BY <1>0, <3>2 DEF IInv, TypeOK, WindowSplit
      <4> QED BY <4>1, <1>0, <3>2 DEF IInv, TypeOK, RenewPeriod, kRatePeriod
    <3> QED BY <1>0, <3>1, <3>2
  <2> QED BY <2>1, <2>2 DEF IInv, TypeOK, RenewPeriod
<1>3. RateRespected'
  <2> SUFFICES ASSUME steps_back = 0, NEW i \in 1..Len(granted'),
                      i + max_rate <= Len(granted')
               PROVE  granted'[i] < granted'[i + max_rate]
    BY DEF RateRespected, RenewPeriod
  <2>1. CASE i + max_rate <= Len(granted)
    BY <1>0, <2>1 DEF IInv, RateRespected
  <2>2. CASE i + max_rate = Len(granted) + 1
    BY <1>0, <2>2 DEF IInv, TypeOK, WindowSplit, RenewPeriod
  <2> QED BY <1>0, <2>1, <2>2
<1> QED BY <1>0, <1>1, <1>2, <1>3 DEF IInv

\* A slot of the open window is taken in the second the window stands for.
LEMMA UseSlotIInv == IInv /\ UseSlot => IInv'
<1> SUFFICES ASSUME IInv, UseSlot PROVE IInv'
  OBVIOUS
<1> USE MaxRatePositive, RateLimiterAssumption
<1>0. /\ granted' \in Seq(Nat) /\ granted' # <<>>
      /\ Len(granted') = Len(granted) + 1
      /\ \A i \in 1..Len(granted) : granted'[i] = granted[i]
      /\ granted'[Len(granted) + 1] = now
      /\ Len(granted) \in Nat
  BY DEF IInv, TypeOK, UseSlot
<1>1. TypeOK' /\ StallIsBounded' /\ now' <= latest' /\ used_in_period' <= Len(granted') /\ used_in_period' >= 1
  BY <1>0 DEF IInv, TypeOK, StallIsBounded, UseSlot, WindowSplit, kRatePeriod
<1>2. WindowSplit'
  <2> SUFFICES ASSUME steps_back = 0
               PROVE  /\ now' = latest'
                      /\ period_end' - kRatePeriod <= now'
                      /\ \A i \in 1..Len(granted') :
                           /\ granted'[i] = period_end' - kRatePeriod
                                <=> i > Len(granted') - used_in_period'
                           /\ granted'[i] < period_end'
    BY <1>0 DEF WindowSplit, UseSlot
  <2>1. now' = latest' /\ period_end' = period_end /\ period_end - kRatePeriod = now
    BY DEF IInv, TypeOK, WindowSplit, UseSlot, kRatePeriod
  <2>2. ASSUME NEW i \in 1..Len(granted')
        PROVE  /\ granted'[i] = now <=> i > Len(granted') - used_in_period'
               /\ granted'[i] < period_end'
    <3>1. CASE i = Len(granted) + 1
      BY <1>0, <2>1, <3>1 DEF IInv, TypeOK, UseSlot, kRatePeriod
    <3>2. CASE i \in 1..Len(granted)
      <4>1. /\ granted'[i] = granted[i]
            /\ granted[i] < period_end
            /\ granted[i] = now <=> i > Len(granted) - used_in_period
        BY <1>0, <2>1, <3>2 DEF IInv, WindowSplit
      <4> QED BY <4>1, <2>1, <1>0, <3>2 DEF IInv, TypeOK, UseSlot
    <3> QED BY <1>0, <3>1, <3>2
  <2> QED BY <2>1, <2>2 DEF IInv, TypeOK, UseSlot
<1>3. RateRespected'
  <2> SUFFICES ASSUME steps_back = 0, NEW i \in 1..Len(granted'),
                      i + max_rate <= Len(granted')
               PROVE  granted'[i] < granted'[i + max_rate]
    BY DEF RateRespected, UseSlot
  <2>1. CASE i + max_rate <= Len(granted)
    BY <1>0, <2>1 DEF IInv, RateRespected
  <2>2. CASE i + max_rate = Len(granted) + 1
    <3>1. period_end - kRatePeriod = now
      BY DEF IInv, TypeOK, WindowSplit, UseSlot, kRatePeriod
    <3>2. i \in 1..Len(granted) /\ ~ (i > Len(granted) - used_in_period)
      BY <1>0, <2>2 DEF IInv, TypeOK, UseSlot
    <3>3. granted[i] # now /\ granted[i] < period_end /\ granted[i] \in Nat
      BY <3>1, <3>2 DEF IInv, TypeOK, WindowSplit
    <3>4. granted'[i] = granted[i] /\ granted'[i + max_rate] = now
      BY <1>0, <2>2, <3>2
    <3>5. granted[i] < now
      BY <3>1, <3>3 DEF IInv, TypeOK, kRatePeriod
    <3> QED BY <3>4, <3>5
  <2> QED BY <1>0, <2>1, <2>2
<1> QED BY <1>0, <1>1, <1>2, <1>3 DEF IInv

\* Every step keeps the invariant.
LEMMA NextIInv == IInv /\ [Next]_vars => IInv'
<1> SUFFICES ASSUME IInv, [Next]_vars PROVE IInv'
  OBVIOUS
<1> USE MaxRatePositive, RateLimiterAssumption
<1>1. CASE TakeRateSlot
  BY <1>1, RenewPeriodIInv, UseSlotIInv DEF TakeRateSlot
<1>2. CASE Tick
  BY <1>2 DEF Tick, IInv, TypeOK, StallIsBounded, WindowSplit, RateRespected, kRatePeriod
<1>3. CASE StepBack
  BY <1>3 DEF StepBack, IInv, TypeOK, StallIsBounded, WindowSplit, RateRespected, kRatePeriod
<1>4. CASE UNCHANGED vars
  BY <1>4 DEF vars, IInv, TypeOK, StallIsBounded, WindowSplit, RateRespected, kRatePeriod
<1> QED BY <1>1, <1>2, <1>3, <1>4 DEF Next

\* The invariant holds in every reachable state.
LEMMA SpecIInv == Spec => []IInv
  BY InitIInv, NextIInv, PTL DEF Spec

(***************************************************************************)
(* Type correctness of SimpleRateLimiter: the counter never leaves         *)
(* 0..max_rate.                                                            *)
(***************************************************************************)
THEOREM RateLimiterTypeCorrect == Spec => []TypeOK
<1>1. IInv => TypeOK
  BY DEF IInv
<1> QED BY <1>1, SpecIInv, PTL

(***************************************************************************)
(* TakeRateSlot never hands out more than max_rate slots in one second of  *)
(* a clock that is not set back, for every rate.                           *)
(***************************************************************************)
THEOREM RateIsRespected == Spec => []RateRespected
<1>1. IInv => RateRespected
  BY DEF IInv
<1> QED BY <1>1, SpecIInv, PTL

(***************************************************************************)
(* TakeRateSlot only refuses a slot in a second that has had its quota.    *)
(***************************************************************************)
THEOREM RefusalsAreJustified == Spec => []NoSpuriousRefusal
<1>1. IInv => NoSpuriousRefusal
  BY MaxRatePositive
  DEF IInv, TypeOK, NoSpuriousRefusal, Refused, WindowSplit, kRatePeriod
<1> QED BY <1>1, SpecIInv, PTL

(***************************************************************************)
(* However the clock is set back, a window never ends more than one period *)
(* after the latest second the clock showed.                               *)
(***************************************************************************)
THEOREM StallsAreBounded == Spec => []StallIsBounded
<1>1. IInv => StallIsBounded
  BY DEF IInv
<1> QED BY <1>1, SpecIInv, PTL
=============================================================================
