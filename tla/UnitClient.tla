----------------------------- MODULE UnitClient -----------------------------
(***************************************************************************)
(* The side of the ready/done handshake that a parent module plays towards *)
(* one of its compute units.  Every parent in the design obeys the same    *)
(* rules: the unit is reset before each use, ready is raised once per      *)
(* reset and held until done is seen, the operands are stable as long as   *)
(* ready is high, and a reset may cut the computation short at any edge.   *)
(* The parents' port registers change at the clock edge at which the unit  *)
(* takes its own step, so these actions are conjoined with the unit's.     *)
(* The specifications of the parents are checked to obey these rules.      *)
(***************************************************************************)
EXTENDS Integers

VARIABLES
  reset_n,   \* active-low reset of the unit
  ready,     \* start signal of the unit
  done,      \* the unit's completion flag
  fresh      \* reset since ready was last raised?

AssertReset ==
  /\ reset_n' = 0
  /\ ready' \in {0, 1}
  /\ fresh' = TRUE

ReleaseReset ==
  /\ reset_n = 0
  /\ reset_n' = 1
  /\ ready' = 0
  /\ UNCHANGED fresh

RaiseReady ==
  /\ reset_n = 1 /\ ready = 0 /\ fresh
  /\ ready' = 1
  /\ fresh' = FALSE
  /\ UNCHANGED reset_n

LowerReady ==
  /\ reset_n = 1 /\ ready = 1 /\ done = 1
  /\ ready' = 0
  /\ UNCHANGED <<reset_n, fresh>>

Hold ==
  /\ reset_n = 1
  /\ UNCHANGED <<reset_n, ready, fresh>>

Init ==
  /\ reset_n = 0
  /\ ready = 0
  /\ fresh = TRUE

Drive ==
  \/ AssertReset
  \/ ReleaseReset
  \/ RaiseReady
  \/ LowerReady
  \/ Hold

Asked == reset_n = 1 /\ ready = 1

\* The operands are the same before and after this edge of a request.
Serving == Asked /\ Asked'

=============================================================================
