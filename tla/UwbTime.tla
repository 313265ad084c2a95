------------------------------ MODULE UwbTime ------------------------------
(***************************************************************************)
(* The arithmetic of a double-sided range in components/libdeca/ranging.c, *)
(* as a function of the true times.  Each radio has a counter that wraps   *)
(* at Wrap, is read when a frame leaves or arrives, and starts anywhere;   *)
(* the intervals between readings are kept in words that wrap at Word.  A  *)
(* delayed frame leaves when the counter reaches a programmed time, whose  *)
(* low bits the radio ignores, and the antenna's delay later.              *)
(* Both counters run at the same speed: what the formula does about drift, *)
(* and the conversion of counts to centimetres, are left out.              *)
(***************************************************************************)
EXTENDS Integers

CONSTANTS
    Wrap,      \* DTU_MASK + 1
    Word,      \* 2^32
    Grain,     \* the resolution of a programmed time, DTU_DELAYEDTRX_MASK
    Delay,     \* twr_delay_dtu
    Antenna,   \* dwphy_get_antenna_delay()
    MaxFlight  \* bound: the longest time of flight

\* Words divide the counter, a reply fits into a word (valid_config bounds the
\* reply delay by 20 ms, a word is 67 ms) and is not programmed for the past.
ASSUME TimeAssumption ==
    /\ \A c \in {Wrap, Word, Grain} : c \in Nat \ {0}
    /\ \A c \in {Delay, Antenna, MaxFlight} : c \in Nat
    /\ Wrap % Word = 0 /\ Wrap % Grain = 0
    /\ Delay >= Grain /\ 2 * MaxFlight + Delay + Antenna < Word

Reading(t) == t % Wrap     \* of a counter that starts at 0
InWord(x) == x % Word      \* assignment to an uint32_t
Programmed(t) == (t - (t % Grain)) % Wrap

\* The true time at which a frame programmed for p leaves a radio whose counter
\* is off ahead of the true time, when it is now.
Leaves(p, now, off) == now + ((Programmed(p) - Reading(now + off)) % Wrap) + Antenna

\* twr_send_final: the Final's time, rounded as the radio will round it, and the
\* two intervals it carries.
UnroundedTime(respRx) == Reading(respRx + Delay)   \* mutant
FinalTime(respRx) == Programmed(respRx + Delay)
Round(respRx, pollTx) == InWord(respRx - pollTx)
ReplyDelay(respRx) == InWord(Reading(FinalTime(respRx) + Antenna) - respRx)

\* twr_distance_calculation_dtu, as numerator and denominator.
Tof(pollRx, respTx, finalRx, Ra, Da) ==
    LET Rb == InWord(finalRx - respTx)
        Db == InWord(respTx - pollRx)
    IN <<Ra * Rb - Da * Db, Ra + Rb + Da + Db>>

\* An exchange that starts at time t on a counter at t, with the responder's
\* counter off ahead and the given time of flight: Poll, Response and Final, each
\* frame's departure computed from the reading at the arrival of the last.
Exchange(t, off, flight) ==
    LET pollRx  == t + flight
        respTx  == Leaves(Reading(pollRx + off) + Delay, pollRx, off)
        respRx  == respTx + flight
        finalTx == Leaves(FinalTime(Reading(respRx)), respRx, 0)
        finalRx == finalTx + flight
    IN Tof(InWord(Reading(pollRx + off)), InWord(Reading(respTx + off)),
           InWord(Reading(finalRx + off)),
           Round(Reading(respRx), Reading(t)), ReplyDelay(Reading(respRx)))

\* The formula gives the time of flight wherever either counter stands.
ExchangeIsExact ==
    \A t, off \in 0..Wrap - 1, flight \in 0..MaxFlight :
        LET tof == Exchange(t, off, flight)
        IN tof[1] = flight * tof[2] /\ tof[2] > 0
=============================================================================
