---------------------------- MODULE WorkerClock -----------------------------
(***************************************************************************)
(* The worker threads of a Python process and the wall clock they read     *)
(* (time.time(), datetime.now()): time passes, and the clock may be set    *)
(* back meanwhile.  Times are in milliseconds.                             *)
(***************************************************************************)
EXTENDS Integers

CONSTANTS
  Workers,
  None,         \* no entry, no bucket, no owner
  Steps,        \* the milliseconds that may pass at once
  MaxTime,      \* bound: the time up to which the clock ticks
  MaxSetBack,   \* bound: milliseconds the clock is set back in all
  MaxCalls      \* bound: calls of the process's operations

ASSUME WorkerClockAssumption ==
  /\ Steps \subseteq Nat /\ MaxTime \in Nat /\ MaxSetBack \in Nat
  /\ MaxCalls \in Nat
  /\ None \notin Workers

VARIABLES
  now,          \* time
  setback,      \* how far the clock is behind it
  calls         \* calls so far

clockVars == <<now, setback>>

ClockInit == now = 0 /\ setback = 0 /\ calls = 0

(* What a thread reads.                                                    *)
clock == now - setback

Tick ==
  /\ \E ms \in Steps : now + ms <= MaxTime /\ now' = now + ms
  /\ UNCHANGED <<setback, calls>>

SetBack ==
  /\ \E ms \in Steps : setback + ms <= MaxSetBack /\ setback' = setback + ms
  /\ UNCHANGED <<now, calls>>

StartsCall == calls < MaxCalls /\ calls' = calls + 1

=============================================================================
