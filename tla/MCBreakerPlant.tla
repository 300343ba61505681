----------------------------- MODULE MCBreakerPlant ----------------------------
(* BreakerPlant for TLC: the house and the breaker of MCBreakerCap.            *)
EXTENDS BreakerPlant

Everywhere(i) == [p \in Phases |-> i]

\* A household load of 2.5 A, one of 15 A, which leaves the car little more than
\* its minimum, and one that is beyond the limit on a phase by itself.
MCLoads == {Everywhere(15), Everywhere(90), <<150, 15, 15>>}

\* One load that the mean follows too slowly, and one that makes it cycle.
SteadyLoads == {Everywhere(60)}
CyclingLoads == {Everywhere(90)}

MCRequests == {4400, 22000}
FullRequest == {22000}

\* The default control_loop_interval_s of ten seconds and the time of the reads
\* and writes, hence three samples in the window; and a slower loop, hence two,
\* where the loads change in every way.
DefaultTick == {11}
SlowTick == {21}

\* The plant provides the readings.
NoReadings == {}

===============================================================================
