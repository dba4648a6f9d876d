----------------------------- MODULE Statistics -----------------------------
(***************************************************************************)
(* The statistics of a trace (controller/stats.py), and the frequencies    *)
(* that are printed and read (controller/parse.py, cli/app.py).            *)
(*                                                                         *)
(* A mean, a peak or a sum is compared before it is converted back to the  *)
(* unit of the trace by a logarithm or a root, which keep the order: what  *)
(* is a power here is a power in the code.  A value is an integer, of any  *)
(* sign; one in decibels is a number of decades, whose power is relative   *)
(* to that of Floor.  Numbers are exact: no input is one at which the      *)
(* occupied bandwidth hangs on the last bit of a float.                    *)
(***************************************************************************)
EXTENDS Integers, Sequences, SequencesExt

CONSTANTS
    Garbled,        \* a line without a number
    Floor,          \* no value is below it
    Frequencies     \* frequencies that are printed

ASSUME FloorAssumption == Floor \in Int

ASSUME FrequenciesAssumption == Frequencies \subseteq Nat

\* ValueError
Error == [kind |-> "error"]

\* The members of s that are in S, in their order.
Keep(s, S) == FoldLeft(LAMBDA out, x : IF x \in S THEN Append(out, x) ELSE out, <<>>, s)

\* Powers of ten, as a fold, which proofs can follow.
Ten(n) == FoldLeft(LAMBDA t, i : 10 * t, 1, [i \in 1..n |-> i])

DbUnits == {"dBm", "dBmV", "dBuV"}
VoltUnits == {"V", "Vpp"}
VALID_UNITS == DbUnits \cup VoltUnits \cup {"W", "RAW"}

\* parse_frequencies and parse_trace_values: a line without a number is skipped.
Parse(lines) == Keep(lines, Range(lines) \ {Garbled})

\* _linear_power, of one value.
LinearPower(v, unit) ==
    IF unit \in DbUnits THEN Ten(v - Floor) ELSE IF unit \in VoltUnits THEN v * v ELSE v

Powers(points, unit) == [i \in DOMAIN points |-> LinearPower(points[i].v, unit)]

Sum(s) == FoldLeft(+, 0, s)

\* A point for each line of the two texts.
Sent(freqs, values) == [i \in DOMAIN freqs |-> [f |-> freqs[i], v |-> values[i]]]

\* _filter
Filter(points, start, stop) == Keep(points, {p \in Range(points) : start <= p.f /\ p.f <= stop})

\* sorted()
Sorted(vals) ==
    LET p == CHOOSE p \in Bijection(DOMAIN vals, DOMAIN vals) :
                 \A i, j \in DOMAIN vals : i < j => vals[p[i]] <= vals[p[j]]
    IN  [i \in DOMAIN vals |-> vals[p[i]]]

\* _median, doubled.
Median(vals) ==
    LET s == Sorted(vals)
        n == Len(vals)
    IN  IF n % 2 = 1 THEN 2 * s[n \div 2 + 1] ELSE s[n \div 2] + s[n \div 2 + 1]

\* The loop of compute_stats that finds the extremes, the first of each.
Extremes(points) ==
    FoldLeft(LAMBDA e, p : [min |-> IF p.v < e.min.v THEN p ELSE e.min,
                            max |-> IF p.v > e.max.v THEN p ELSE e.max],
             [min |-> points[1], max |-> points[1]], points)

\* A bug: all that is left out may lie on one side (mutated).
OccupiedOneSided(points, unit) ==
    LET total == Sum(Powers(points, unit))
        Reached(i) == 100 * Sum(Powers(SubSeq(points, 1, i), unit)) >= 99 * total
    IN  IF total <= 0 THEN 0 ELSE points[Min({i \in DOMAIN points : Reached(i)})].f - points[1].f

\* _occupied_bandwidth: what its loop does with a point.
OccupiedStep(s, p, unit, total) ==
    LET cumulative == s.cumulative + LinearPower(p.v, unit) IN
    IF s.done THEN s
    ELSE [cumulative |-> cumulative,
          found |-> s.found \/ 200 * cumulative >= total,
          lo |-> IF ~s.found /\ 200 * cumulative >= total THEN p.f ELSE s.lo,
          hi |-> IF 200 * cumulative >= 199 * total THEN p.f ELSE s.hi,
          done |-> 200 * cumulative >= 199 * total]

OccupiedBandwidth(points, unit) ==
    LET total == Sum(Powers(points, unit))
        last == FoldLeft(LAMBDA s, p : OccupiedStep(s, p, unit, total),
                         [cumulative |-> 0, found |-> FALSE, lo |-> points[1].f,
                          hi |-> points[Len(points)].f, done |-> FALSE], points)
    IN  IF total <= 0 THEN 0 ELSE last.hi - last.lo

\* _to_dbuv has no value: RAW, or a level that is not positive.
NoFieldStrength(level, unit) ==
    \/ unit = "RAW"
    \/ unit \in VoltUnits \cup {"W"} /\ level <= 0

\* compute_stats.  The mean power is total / count, PAPR is peak * count /
\* total, and flatness is highest / lowest, which are the powers of the extreme
\* values.  A logarithm of zero raises.
ComputeStats(freqs, values, unit, start, stop, antenna) ==
    IF freqs = <<>> \/ Len(freqs) # Len(values) THEN Error
    ELSE LET points == Filter(Sent(freqs, values), start, stop) IN
         IF points = <<>> THEN Error
         ELSE LET powers == Powers(points, unit)
                  e == Extremes(points)
                  lowest == LinearPower(e.min.v, unit)
                  highest == LinearPower(e.max.v, unit)
              IN  IF Sum(powers) <= 0 \/ lowest <= 0 \/ highest <= 0
                     \/ (antenna /\ NoFieldStrength(Sum(powers), unit))
                  THEN Error
                  ELSE [total |-> Sum(powers), count |-> Len(powers),
                        median |-> Median([i \in DOMAIN points |-> points[i].v]),
                        min |-> e.min, max |-> e.max,
                        peak |-> Max(Range(powers)), lowest |-> lowest, highest |-> highest,
                        occupied |-> OccupiedBandwidth(points, unit)]

----------------------------------------------------------------------------
(* Frequencies as text: digits before and after the point, and a suffix. *)

FreqSuffixes == {"GHz", "MHz", "kHz", "Hz"}

\* _FREQ_SUFFIXES, as a power of ten.
Zeros(suffix) == CASE suffix = "GHz" -> 9 [] suffix = "MHz" -> 6 [] suffix = "kHz" -> 3 [] OTHER -> 0

\* A bug: leading zeros are lost (mutated).
Bare(n, width) ==
    LET digits == Cardinality({i \in 1..width : n >= Ten(i - 1)})
    IN  [i \in 1..digits |-> (n \div Ten(digits - i)) % 10]

\* A fraction with leading zeros, so many digits wide.
Padded(n, width) == [i \in 1..width |-> (n \div Ten(width - i)) % 10]

RightStripped(digits) ==
    SubSeq(digits, 1, Max({0} \cup {i \in DOMAIN digits : digits[i] # 0}))

\* _fmt_hz
Format(hz) ==
    LET suffix == CHOOSE s \in FreqSuffixes :
                      /\ hz >= Ten(Zeros(s)) \/ s = "Hz"
                      /\ \A t \in FreqSuffixes : hz >= Ten(Zeros(t)) => Zeros(t) <= Zeros(s)
        unit == Ten(Zeros(suffix))
    IN  [whole |-> hz \div unit, suffix |-> suffix,
         fraction |-> RightStripped(Padded(hz % unit, Zeros(suffix)))]

\* parse_frequency: the rounding takes back what a float adds.
ParseFrequency(text) ==
    LET Digit(i) == text.fraction[i] * Ten(Zeros(text.suffix) - i)
    IN  text.whole * Ten(Zeros(text.suffix)) + Sum([i \in DOMAIN text.fraction |-> Digit(i)])

----------------------------------------------------------------------------
(* What they should be. *)

\* Of the powers between two points, what lies left and right of them.
Left(powers, i) == Sum(SubSeq(powers, 1, i - 1))
Right(powers, i) == Sum(SubSeq(powers, i + 1, Len(powers)))

\* The narrowest band that leaves less than half a percent of the power on its
\* left, and at most half a percent on its right.
NarrowestBand(points, powers) ==
    LET total == Sum(powers) IN
    Min({points[p[2]].f - points[p[1]].f : p \in
            {p \in (DOMAIN points) \X (DOMAIN points) :
                p[1] <= p[2] /\ 200 * Left(powers, p[1]) < total /\ 200 * Right(powers, p[2]) <= total}})

\* Half of the values are not above a median, and half of them not below.
IsMedian(m, vals) ==
    /\ 2 * Cardinality({i \in DOMAIN vals : 2 * vals[i] <= m}) >= Len(vals)
    /\ 2 * Cardinality({i \in DOMAIN vals : 2 * vals[i] >= m}) >= Len(vals)

\* What r says of the points is true.  The power of a voltage falls while the
\* voltage is negative: with one, the flatness is not that of the powers.
Describes(r, points, unit) ==
    LET powers == [i \in DOMAIN points |-> LinearPower(points[i].v, unit)]
        vals == [i \in DOMAIN points |-> points[i].v]
        set == {points[i] : i \in DOMAIN points}
    IN  /\ {r.min, r.max} \subseteq set
        /\ \A p \in set : r.min.v <= p.v /\ p.v <= r.max.v
        /\ \A p \in set : /\ p.v = r.min.v => r.min.f <= p.f
                          /\ p.v = r.max.v => r.max.f <= p.f
        /\ IsMedian(r.median, vals)
        /\ r.peak \in Range(powers) /\ \A i \in DOMAIN points : powers[i] <= r.peak
        /\ 0 < r.total /\ r.total <= r.peak * r.count
        /\ (unit \in VoltUnits => \A i \in DOMAIN points : vals[i] >= 0) =>
               /\ r.highest = r.peak
               /\ \A i \in DOMAIN points : r.lowest <= powers[i]
        /\ r.occupied = NarrowestBand(points, powers)

\* A frequency that is printed is read as the same frequency.
FormatsReadBack == \A hz \in Frequencies : ParseFrequency(Format(hz)) = hz
=============================================================================
