----------------------------- MODULE UwbRange -----------------------------
(* The exchange of RangeCall with the arithmetic of UwbTime: the distance    *)
(* that a mark reports is the one its readings give.                         *)
EXTENDS RangeCall, UwbTime

\* A good Report on its way carries the time of flight: it does not matter which
\* of the six readings wrap, in the 40 bits of the counters or in the 32 that are
\* kept, nor that the radio rounds the time it is programmed for (twr_send_final,
\* twr_distance_calculation_dtu).
ReportIsFlightTime == \A a \in air : a.kind = "report" /\ a.good => ExchangeIsExact
=============================================================================
