----------------------------- MODULE Timestamp -----------------------------
(***************************************************************************)
(* ptraf/src/clock.rs: the arithmetic on timestamps.                       *)
(*                                                                         *)
(* A Timestamp is the Duration elapsed since ClockNano was created.  It is *)
(* a natural number of clock units here (a unit stands for a nanosecond;   *)
(* the as_nanos() as u64 conversion is exact for 584 years of uptime).     *)
(***************************************************************************)
EXTENDS Integers

\* Timestamp::trunc: the start of the window that ts falls in.
Trunc(ts, window) == ts - (ts % window)

\* Timestamp::saturating_elapsed_since, called as self.f(&other).
SaturatingElapsedSince(self, other) ==
  IF other >= self THEN other - self ELSE 0

=============================================================================
