---------------------------- MODULE UwbTimeProofs ----------------------------
(***************************************************************************)
(* Proofs about UwbTime, for counters, words, grains, delays and flights   *)
(* of any size that TimeAssumption allows, the 40 and 32 bits of the code  *)
(* among them.                                                             *)
(***************************************************************************)
EXTENDS UwbRange, TLAPS

-----------------------------------------------------------------------------
(* Remainders *)

LEMMA Quotient ==
    ASSUME NEW a \in Int, NEW n \in Nat \ {0}
    PROVE  /\ a % n \in 0..n - 1
           /\ \E q \in Int : a = q * n + (a % n)
<1>1. a \div n \in Int /\ a = (a \div n) * n + (a % n) /\ a % n \in 0..n - 1
    OBVIOUS
<1> QED
    BY <1>1

LEMMA Multiple ==
    ASSUME NEW n \in Nat \ {0}, NEW q \in Int, q > 0
    PROVE  q * n >= n
<1>1. q * n = n + (q - 1) * n
    OBVIOUS
<1>2. (q - 1) * n >= 0
    OBVIOUS
<1> QED
    BY <1>1, <1>2

\* A remainder is the only one of its form.
LEMMA Remainder ==
    ASSUME NEW n \in Nat \ {0}, NEW q \in Int, NEW r \in 0..n - 1
    PROVE  (q * n + r) % n = r
<1> DEFINE a == q * n + r
<1>1. a \in Int
    OBVIOUS
<1>2. PICK p \in Int : a = p * n + (a % n)
    BY <1>1, Quotient
<1>3. a % n \in 0..n - 1
    BY <1>1, Quotient
<1>4. (p - q) * n = r - (a % n)
    <2>1. (p - q) * n = p * n - q * n
        OBVIOUS
    <2> QED
        BY <1>1, <1>2, <1>3, <2>1
<1>5. ~(p - q > 0)
    <2>1. p - q > 0 => (p - q) * n >= n
        BY Multiple
    <2> QED
        BY <1>3, <1>4, <2>1
<1>6. ~(q - p > 0)
    <2>1. q - p > 0 => (q - p) * n >= n
        BY Multiple
    <2>2. (q - p) * n = -((p - q) * n)
        OBVIOUS
    <2> QED
        BY <1>3, <1>4, <2>1, <2>2
<1>7. p = q
    BY <1>5, <1>6
<1> QED
    BY <1>1, <1>2, <1>3, <1>7

\* Adding a multiple changes no remainder.
LEMMA Shift ==
    ASSUME NEW n \in Nat \ {0}, NEW a \in Int, NEW q \in Int
    PROVE  (a + q * n) % n = a % n
<1>1. PICK p \in Int : a = p * n + (a % n)
    BY Quotient
<1>2. a % n \in 0..n - 1
    BY Quotient
<1>3. a + q * n = (p + q) * n + (a % n)
    BY <1>1, <1>2
<1>4. ((p + q) * n + (a % n)) % n = a % n
    <2>1. p + q \in Int
        OBVIOUS
    <2> QED
        BY <1>2, <2>1, Remainder
<1> QED
    BY <1>3, <1>4

LEMMA Small ==
    ASSUME NEW n \in Nat \ {0}, NEW a \in 0..n - 1
    PROVE  a % n = a
BY Remainder, 0 * n + a = a

\* A reading is off by whole words, if words divide the counter.
LEMMA WholeWords ==
    ASSUME NEW n \in Nat \ {0}, NEW w \in Nat \ {0}, w % n = 0, NEW a \in Int
    PROVE  \E q \in Int : a % w = a + q * n
<1>1. PICK k \in Int : w = k * n
    <2>0. w \in Int
        OBVIOUS
    <2>1. PICK k \in Int : w = k * n + (w % n)
        BY <2>0, Quotient
    <2>2. k * n + 0 = k * n
        OBVIOUS
    <2> QED
        BY <2>1, <2>2
<1>2. PICK p \in Int : a = p * w + (a % w)
    BY Quotient
<1>3. a % w \in Int
    BY Quotient
<1>4. p * w \in Int /\ a % w = a - p * w
    <2>1. \A x, y \in Int : a = x + y => y = a - x
        OBVIOUS
    <2>2. p * w \in Int
        OBVIOUS
    <2> QED
        BY <1>2, <1>3, <2>1, <2>2
<1>5. p * w = (p * k) * n /\ (-(p * k)) * n = -((p * k) * n)
    BY <1>1
<1>6. (p * k) * n \in Int /\ a - (p * k) * n = a + (-((p * k) * n))
    OBVIOUS
<1>7. -(p * k) \in Int
    OBVIOUS
<1> QED
    BY <1>4, <1>5, <1>6, <1>7

\* In such a word a sum with a reading is the sum with the time itself.
LEMMA SumWithReading ==
    ASSUME NEW n \in Nat \ {0}, NEW w \in Nat \ {0}, w % n = 0, NEW a \in Int, NEW c \in Int
    PROVE  ((a % w) + c) % n = (a + c) % n
<1>1. PICK q \in Int : a % w = a + q * n
    BY WholeWords
<1>2. (a % w) + c = (a + c) + q * n
    BY <1>1
<1>3. ((a + c) + q * n) % n = (a + c) % n
    <2>1. a + c \in Int
        OBVIOUS
    <2> QED
        BY <2>1, Shift
<1> QED
    BY <1>2, <1>3

\* The difference of two readings in such a word is that of the times.
LEMMA DifferenceOfReadings ==
    ASSUME NEW n \in Nat \ {0}, NEW w \in Nat \ {0}, w % n = 0, NEW a \in Int, NEW b \in Int
    PROVE  /\ ((a % w) - (b % w)) % n = (a - b) % n
           /\ (a % w) % n = a % n
<1>1. PICK p \in Int : a % w = a + p * n
    BY WholeWords
<1>2. PICK q \in Int : b % w = b + q * n
    BY WholeWords
<1>3. (a % w) - (b % w) = (a - b) + (p - q) * n
    <2>1. (p - q) * n = p * n - q * n /\ p * n \in Int /\ q * n \in Int
        OBVIOUS
    <2> QED
        BY <1>1, <1>2, <2>1
<1>4. a - b \in Int /\ p - q \in Int
    OBVIOUS
<1>5. ((a - b) + (p - q) * n) % n = (a - b) % n
    BY <1>4, Shift
<1>6. (a + p * n) % n = a % n
    BY Shift
<1> QED
    BY <1>1, <1>3, <1>5, <1>6

-----------------------------------------------------------------------------
(* Delayed frames *)

LEMMA Sizes ==
    /\ Wrap \in Nat \ {0} /\ Word \in Nat \ {0} /\ Grain \in Nat \ {0}
    /\ Delay \in Nat /\ Antenna \in Nat /\ MaxFlight \in Nat
    /\ Wrap % Word = 0 /\ Wrap % Grain = 0 /\ Wrap % Wrap = 0
    /\ Delay >= Grain /\ 2 * MaxFlight + Delay + Antenna < Word /\ Word <= Wrap
<1>1. /\ Wrap \in Nat \ {0} /\ Word \in Nat \ {0} /\ Grain \in Nat \ {0}
      /\ Delay \in Nat /\ Antenna \in Nat /\ MaxFlight \in Nat
      /\ Wrap % Word = 0 /\ Wrap % Grain = 0
      /\ Delay >= Grain /\ 2 * MaxFlight + Delay + Antenna < Word
    BY TimeAssumption
<1>2. Wrap % Wrap = 0
    <2>1. 1 * Wrap + 0 = Wrap /\ 0 \in 0..Wrap - 1 /\ 1 \in Int
        BY <1>1
    <2>2. (1 * Wrap + 0) % Wrap = 0
        BY <1>1, <2>1, Remainder
    <2> QED
        BY <2>1, <2>2
<1>3. Word <= Wrap
    <2>1. Word > Wrap => Wrap % Word = Wrap
        BY <1>1, Small
    <2> QED
        BY <1>1, <2>1
<1> QED
    BY <1>1, <1>2, <1>3

\* What the radio cuts off a programmed time.
Cut(p) == p % Grain

LEMMA CutIsSmall == \A p \in Int : Cut(p) \in 0..Grain - 1
BY Sizes, Quotient DEF Cut

\* From a reading to the counter's next passage of the time programmed from it.
LEMMA TimeToGo ==
    ASSUME NEW x \in Int
    PROVE  (Programmed(Reading(x) + Delay) - Reading(x)) % Wrap
               = Delay - Cut(Reading(x) + Delay)
<1> DEFINE r == Reading(x)
           g == Cut(r + Delay)
<1>1. r \in 0..Wrap - 1 /\ r \in Int
    BY Sizes, Quotient DEF Reading
<1>2. r + Delay \in Int
    BY <1>1, Sizes
<1>3. g \in 0..Grain - 1
    BY <1>2, CutIsSmall
<1>4. r % Wrap = r
    BY <1>1, Sizes, Small
<1>5. Programmed(r + Delay) = ((r + Delay) - g) % Wrap
    BY DEF Programmed, Cut
<1>6. (r + Delay) - g \in Int /\ ((r + Delay) - g) - r = Delay - g
    BY <1>1, <1>3, Sizes
<1> HIDE DEF r, g
<1>7. ((((r + Delay) - g) % Wrap) - (r % Wrap)) % Wrap = (((r + Delay) - g) - r) % Wrap
    BY <1>1, <1>6, Sizes, DifferenceOfReadings
<1>8. (Delay - g) % Wrap = Delay - g
    <2>1. Delay - g \in 0..Wrap - 1
        BY <1>3, Sizes
    <2> QED
        BY <2>1, Sizes, Small
<1>9. (Programmed(r + Delay) - r) % Wrap = Delay - g
    BY <1>4, <1>5, <1>6, <1>7, <1>8
<1> QED
    BY <1>9 DEF r, g

\* The radio does not round a time that is rounded already.
LEMMA RoundedOnce ==
    ASSUME NEW p \in Int
    PROVE  Programmed(Programmed(p)) = Programmed(p)
<1> DEFINE m == p - (p % Grain)
<1>1. PICK q \in Int : p = q * Grain + (p % Grain)
    BY Sizes, Quotient
<1>2. p % Grain \in Int
    BY Sizes, Quotient
<1>3. m \in Int /\ m = q * Grain + 0
    BY <1>1, <1>2, Sizes
<1>4. (q * Grain + 0) % Grain = 0
    <2>1. 0 \in 0..Grain - 1
        BY Sizes
    <2> QED
        BY <2>1, Sizes, Remainder
<1>5. Programmed(p) = m % Wrap
    BY DEF Programmed
<1> HIDE DEF m
<1>6. (m % Wrap) % Grain = 0
    BY <1>3, <1>4, Sizes, DifferenceOfReadings
<1>7. m % Wrap \in 0..Wrap - 1
    BY <1>3, Sizes, Quotient
<1>8. (m % Wrap) % Wrap = m % Wrap
    BY <1>7, Sizes, Small
<1>9. Programmed(m % Wrap) = ((m % Wrap) - 0) % Wrap
    BY <1>6 DEF Programmed
<1> QED
    BY <1>5, <1>7, <1>8, <1>9

-----------------------------------------------------------------------------
(* The intervals of an exchange *)

\* How long a frame is held back after the frame it answers, whose time is read as r.
Held(r) == Delay - Cut(r + Delay) + Antenna

LEMMA HeldFits ==
    \A x \in Int : Reading(x) \in Int /\ Held(Reading(x)) \in Nat /\ Held(Reading(x)) > 0
                  /\ 2 * MaxFlight + Held(Reading(x)) < Word
<1> SUFFICES ASSUME NEW x \in Int
             PROVE  /\ Reading(x) \in Int /\ Held(Reading(x)) \in Nat /\ Held(Reading(x)) > 0
                    /\ 2 * MaxFlight + Held(Reading(x)) < Word
    OBVIOUS
<1>1. Reading(x) \in Int
    BY Sizes, Quotient DEF Reading
<1>2. Reading(x) + Delay \in Int
    BY <1>1, Sizes
<1>3. Cut(Reading(x) + Delay) \in 0..Grain - 1
    BY <1>2, CutIsSmall
<1> QED
    BY <1>1, <1>3, Sizes DEF Held

LEMMA ResponseLeaves ==
    ASSUME NEW now \in Int, NEW off \in Int
    PROVE  Leaves(Reading(now + off) + Delay, now, off) = now + Held(Reading(now + off))
<1>1. now + off \in Int
    OBVIOUS
<1>2. (Programmed(Reading(now + off) + Delay) - Reading(now + off)) % Wrap
          = Delay - Cut(Reading(now + off) + Delay)
    BY <1>1, TimeToGo
<1>3. Reading(now + off) \in Int /\ Reading(now + off) + Delay \in Int
    BY <1>1, HeldFits, Sizes
<1>4. Cut(Reading(now + off) + Delay) \in Int
    BY <1>3, CutIsSmall
<1> QED
    BY <1>2, <1>4, Sizes DEF Leaves, Held

LEMMA FinalLeaves ==
    ASSUME NEW now \in Int
    PROVE  /\ Leaves(FinalTime(Reading(now)), now, 0) = now + Held(Reading(now))
           /\ ReplyDelay(Reading(now)) = Held(Reading(now))
<1> DEFINE r == Reading(now)
           c == Cut(r + Delay)
<1>1. r \in Int /\ r + Delay \in Int
    BY HeldFits, Sizes
<1>2. c \in Int
    BY <1>1, CutIsSmall
<1>3. now + 0 = now
    OBVIOUS
<1>4. Programmed(FinalTime(r)) = FinalTime(r)
    BY <1>1, RoundedOnce DEF FinalTime
<1>5. (FinalTime(r) - Reading(now + 0)) % Wrap = Delay - c
    BY <1>3, TimeToGo DEF FinalTime
<1>6. Leaves(FinalTime(r), now, 0) = now + Held(r)
    BY <1>2, <1>4, <1>5, Sizes DEF Leaves, Held
<1>7. FinalTime(r) = ((r + Delay) - c) % Wrap
    BY DEF FinalTime, Programmed, Cut
<1>8. FinalTime(r) \in Int /\ (r + Delay) - c \in Int
    <2>1. (r + Delay) - c \in Int
        BY <1>1, <1>2, Sizes
    <2> QED
        BY <1>7, <2>1, Sizes, Quotient
<1>9. ReplyDelay(r) = (((FinalTime(r) + Antenna) % Wrap) + (-r)) % Word
    <2>1. (FinalTime(r) + Antenna) % Wrap \in Int
        <3>1. FinalTime(r) + Antenna \in Int
            BY <1>8, Sizes
        <3> QED
            BY <3>1, Sizes, Quotient
    <2> QED
        BY <1>1, <2>1 DEF ReplyDelay, InWord, Reading
<1> HIDE DEF r, c
<1>10. (((FinalTime(r) + Antenna) % Wrap) + (-r)) % Word
           = ((FinalTime(r) + Antenna) + (-r)) % Word
    <2>1. FinalTime(r) + Antenna \in Int /\ -r \in Int
        BY <1>1, <1>8, Sizes
    <2> QED
        BY <2>1, Sizes, SumWithReading
<1>11. (FinalTime(r) + Antenna) + (-r) = (((r + Delay) - c) % Wrap) + (Antenna - r)
    BY <1>1, <1>7, <1>8, Sizes
<1>12. ((((r + Delay) - c) % Wrap) + (Antenna - r)) % Word
           = (((r + Delay) - c) + (Antenna - r)) % Word
    <2>1. Antenna - r \in Int
        BY <1>1, Sizes
    <2> QED
        BY <1>8, <2>1, Sizes, SumWithReading
<1>13. ((r + Delay) - c) + (Antenna - r) = Held(r)
    BY <1>1, <1>2, Sizes DEF Held, c
<1>14. Held(r) % Word = Held(r)
    <2>1. Held(r) \in 0..Word - 1
        BY HeldFits, Sizes DEF r
    <2> QED
        BY <2>1, Sizes, Small
<1>15. ReplyDelay(r) = Held(r)
    BY <1>9, <1>10, <1>11, <1>12, <1>13, <1>14
<1> QED
    BY <1>6, <1>15 DEF r

\* The intervals as they are kept.
LEMMA IntervalInWord ==
    ASSUME NEW x \in Int, NEW y \in Int, x - y \in 0..Word - 1
    PROVE  /\ InWord(Reading(x) - Reading(y)) = x - y
           /\ InWord(InWord(Reading(x)) - InWord(Reading(y))) = x - y
<1>1. (x - y) % Word = x - y
    BY Sizes, Small
<1>2. Word % Word = 0
    <2>1. 1 * Word + 0 = Word /\ 0 \in 0..Word - 1 /\ 1 \in Int
        BY Sizes
    <2>2. (1 * Word + 0) % Word = 0
        BY <2>1, Sizes, Remainder
    <2> QED
        BY <2>1, <2>2
<1>3. InWord(Reading(x) - Reading(y)) = x - y
    BY <1>1, Sizes, DifferenceOfReadings DEF InWord, Reading
<1>4. Reading(x) % Word = x % Word /\ Reading(y) % Word = y % Word
    BY Sizes, DifferenceOfReadings DEF Reading
<1>5. ((x % Word) - (y % Word)) % Word = x - y
    BY <1>1, <1>2, Sizes, DifferenceOfReadings
<1> QED
    BY <1>3, <1>4, <1>5 DEF InWord

LEMMA Formula ==
    ASSUME NEW f \in Nat, NEW d \in Nat, NEW e \in Nat
    PROVE  (2 * f + d) * (2 * f + e) - e * d = f * ((2 * f + d) + (2 * f + e) + e + d)
OBVIOUS

-----------------------------------------------------------------------------
(* The formula gives the time of flight *)

\* Numerator and denominator with intervals that are the true ones: d and e are the
\* times for which the two sides hold back their replies.
TrueTof(f, d, e) == <<(2 * f + d) * (2 * f + e) - e * d, (2 * f + d) + (2 * f + e) + e + d>>

LEMMA ExchangeValue ==
    ASSUME NEW t \in Nat, NEW off \in Nat, NEW f \in 0..MaxFlight
    PROVE  \E d, e \in Nat \ {0} : Exchange(t, off, f) = TrueTof(f, d, e)
<1> DEFINE pollRx  == t + f
           d       == Held(Reading(pollRx + off))
           respTx  == pollRx + d
           respRx  == respTx + f
           e       == Held(Reading(respRx))
           finalTx == respRx + e
           finalRx == finalTx + f
<1>1. f \in Nat /\ f <= MaxFlight /\ pollRx \in Int /\ pollRx + off \in Int
    BY Sizes
<1>2. d \in Nat /\ d > 0 /\ 2 * f + d \in 0..Word - 1
    BY <1>1, HeldFits, Sizes
<1>3. respTx \in Int /\ respRx \in Int
    BY <1>1, <1>2
<1>4. e \in Nat /\ e > 0 /\ 2 * f + e \in 0..Word - 1
    BY <1>1, <1>3, HeldFits, Sizes
<1>5. finalTx \in Int /\ finalRx \in Int
    BY <1>1, <1>3, <1>4
<1>6. Leaves(Reading(pollRx + off) + Delay, pollRx, off) = respTx
    BY <1>1, ResponseLeaves
<1>7. /\ Leaves(FinalTime(Reading(respRx)), respRx, 0) = finalTx
      /\ ReplyDelay(Reading(respRx)) = e
    BY <1>3, FinalLeaves
<1> HIDE DEF d, e
<1>8. Round(Reading(respRx), Reading(t)) = 2 * f + d
    <2>1. respRx - t = 2 * f + d
        BY <1>1, <1>2
    <2> QED
        BY <1>2, <1>3, <2>1, IntervalInWord DEF Round
<1>9. InWord(InWord(Reading(finalRx + off)) - InWord(Reading(respTx + off))) = 2 * f + e
    <2>1. (finalRx + off) - (respTx + off) = 2 * f + e
        BY <1>1, <1>2, <1>4
    <2>2. finalRx + off \in Int /\ respTx + off \in Int
        BY <1>3, <1>5
    <2> QED
        BY <1>4, <2>1, <2>2, IntervalInWord
<1>10. InWord(InWord(Reading(respTx + off)) - InWord(Reading(pollRx + off))) = d
    <2>1. (respTx + off) - (pollRx + off) = d
        BY <1>1, <1>2
    <2>2. respTx + off \in Int /\ pollRx + off \in Int
        BY <1>1, <1>3
    <2>3. d \in 0..Word - 1
        BY <1>1, <1>2, Sizes
    <2> QED
        BY <2>1, <2>2, <2>3, IntervalInWord
<1>11. Exchange(t, off, f)
           = Tof(InWord(Reading(pollRx + off)), InWord(Reading(respTx + off)),
                 InWord(Reading(finalRx + off)), 2 * f + d, e)
    BY <1>6, <1>7, <1>8 DEF Exchange
<1> HIDE DEF pollRx, respTx, respRx, finalTx, finalRx
<1>12. Exchange(t, off, f) = TrueTof(f, d, e)
    BY <1>9, <1>10, <1>11 DEF Tof, TrueTof
<1> QED
    BY <1>2, <1>4, <1>12

\* For counters and words of any size, the formula of twr_distance_calculation_dtu
\* gives exactly the time of flight, wherever the two counters stand, whichever of
\* the readings wrap and although the radio rounds the programmed times.
THEOREM TimeOfFlightIsExact == ExchangeIsExact
<1> SUFFICES ASSUME NEW t \in 0..Wrap - 1, NEW off \in 0..Wrap - 1, NEW f \in 0..MaxFlight
             PROVE  /\ Exchange(t, off, f)[1] = f * Exchange(t, off, f)[2]
                    /\ Exchange(t, off, f)[2] > 0
    BY DEF ExchangeIsExact
<1>1. t \in Nat /\ off \in Nat /\ f \in Nat
    BY Sizes
<1>2. PICK d, e \in Nat \ {0} : Exchange(t, off, f) = TrueTof(f, d, e)
    BY <1>1, ExchangeValue
<1>3. /\ Exchange(t, off, f)[1] = (2 * f + d) * (2 * f + e) - e * d
      /\ Exchange(t, off, f)[2] = (2 * f + d) + (2 * f + e) + e + d
    BY <1>2 DEF TrueTof
<1>4. (2 * f + d) * (2 * f + e) - e * d = f * ((2 * f + d) + (2 * f + e) + e + d)
    BY <1>1, Formula
<1>5. (2 * f + d) + (2 * f + e) + e + d > 0
    BY <1>1
<1> QED
    BY <1>3, <1>4, <1>5

\* Hence every good Report that a mark sends carries the time of flight
\* (twr_send_final, twr_handle_final).
THEOREM ReportsAreExact == Spec => []ReportIsFlightTime
<1>1. ReportIsFlightTime
    BY TimeOfFlightIsExact DEF ReportIsFlightTime
<1> QED
    BY <1>1, PTL
=============================================================================
