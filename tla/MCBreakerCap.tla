------------------------------ MODULE MCBreakerCap -----------------------------
(***************************************************************************)
(* BreakerCap for TLC with arbitrary readings: a 30 A breaker in units of  *)
(* 1/6 A, so that the safety limit is 144 units and the instant threshold  *)
(* 162.  Readings come in every order, with gaps.                          *)
(***************************************************************************)
EXTENDS BreakerLatch

Reading(a, b, c) == <<a, b, c>>

\* Light load; one phase near the limit; one past the instant threshold;
\* export; a reading lost or implausible.
MCGridReadings ==
    {Reading(60, 60, 60), Reading(138, 60, 60), Reading(60, 168, 60),
     Reading(-30, -30, -30), Reading(60, 60, None)}

\* Not read yet, idle, one phase, three phases.
MCEvReadings ==
    {Reading(None, None, None), Reading(0, 0, 0), Reading(48, 0, 0), Reading(48, 48, 48)}

MCRequests == {4400, 11000}

\* The sleep of ten seconds, or twenty, and what the reads and writes take:
\* three samples in the window, or two.
MCTickLengths == {11, 21}

===============================================================================
