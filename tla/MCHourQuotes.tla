---------------------------- MODULE MCHourQuotes ----------------------------
(* Small machines for TLC.                                                 *)
EXTENDS HourQuotes

MachineOf(running, capital, u, fee, fixed, hours) ==
  [running |-> running, capital |-> capital, u |-> u, fee |-> fee, fixed |-> fixed,
   hours |-> hours]

\* Utilizations outside the band and in it, capital that does not divide by the
\* hours of a life, fees that are none, percentages only, and a fixed one.
SmallMachines ==
  {MachineOf(r, c, u, f[1], f[2], f[3]) :
     r \in {41, 47}, c \in {0, 100, 135}, u \in {1, 4, 10},
     f \in {<<0, 0, 1>>, <<12, 0, 1>>, <<12, 31, 6>>}}

SmallLoads ==
  {[take |-> t, pace |-> p, batch |-> b] : t \in {0, 8}, p \in {1, 7, 40}, b \in {3, 10}}
=============================================================================
