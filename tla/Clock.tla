-------------------------------- MODULE Clock --------------------------------
(***************************************************************************)
(* The two clocks of totpgated.  Rate limiting, token windows, replay ages *)
(* and rule expiry read the wall clock, time(NULL); the prune interval     *)
(* reads CLOCK_MONOTONIC.  The wall clock can be set back (by NTP, by an   *)
(* administrator); the monotonic one cannot.  Seconds are the unit, as     *)
(* time_t is in the code.                                                  *)
(***************************************************************************)
EXTENDS Integers

CONSTANTS
    MaxTime,   \* bound on the wall clock
    MaxBack    \* bound on the seconds the wall clock is set back, in total

ASSUME ClockAssumption == MaxTime \in Nat /\ MaxBack \in Nat

VARIABLES
    now,       \* time(NULL)
    back       \* seconds the wall clock has been set back so far

clockVars == <<now, back>>

ClockTypeOK == now \in 0..MaxTime /\ back \in 0..MaxBack

ClockInit == now \in 0..MaxTime /\ back = 0

(* CLOCK_MONOTONIC: what the wall clock would read had nobody set it back. *)
Mono == now + back

Tick ==
    /\ now < MaxTime
    /\ now' = now + 1
    /\ back' = back

SetBack ==
    /\ \E d \in 1..(MaxBack - back) :
          /\ d <= now
          /\ now' = now - d
          /\ back' = back + d

ClockNext == Tick \/ SetBack
=============================================================================
