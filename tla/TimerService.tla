--------------------------- MODULE TimerService ---------------------------
(***************************************************************************)
(* What a loop promises about its timers: a timer runs when it is due and  *)
(* not before, once, or once per period if it repeats; periods follow one  *)
(* another without a gap; a timer that was canceled does not run.  Nothing *)
(* is said of how the loop finds out that a timer is due.                  *)
(***************************************************************************)
EXTENDS Naturals

CONSTANTS Timer,   \* the timers
          None     \* "no timer"

VARIABLES object,    \* for each timer, its due time and interval, or None
          running,   \* the timer whose callback runs, or None
          now        \* the time the loop acts on

vars == <<object, running, now>>

Init ==
  /\ object = [t \in Timer |-> None]
  /\ running = None
  /\ now \in Nat

Add(t) ==
  /\ object[t] = None
  /\ object'[t] \in [when : Nat, interval : Nat]
  /\ object' = [object EXCEPT ![t] = object'[t]]
  /\ UNCHANGED <<running, now>>

\* A callback cancels other timers, not its own.
Cancel(t) ==
  /\ object[t] # None /\ running # t
  /\ object' = [object EXCEPT ![t] = None]
  /\ UNCHANGED <<running, now>>

Run(t) ==
  /\ running = None
  /\ object[t] # None /\ object[t].when <= now
  /\ running' = t
  /\ UNCHANGED <<object, now>>

Return(t) ==
  /\ running = t
  /\ running' = None
  /\ object' = [object EXCEPT ![t] =
                  IF @.interval = 0
                  THEN None
                  ELSE [when |-> @.when + @.interval, interval |-> @.interval]]
  /\ UNCHANGED now

\* The clock the code reads may be set, forwards and backwards.
Clock ==
  /\ now' \in Nat
  /\ UNCHANGED <<object, running>>

Next ==
  \/ \E t \in Timer : Add(t) \/ Cancel(t) \/ Run(t) \/ Return(t)
  \/ Clock

Spec == Init /\ [][Next]_vars
=============================================================================
