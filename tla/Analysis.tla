------------------------------ MODULE Analysis ------------------------------
(***************************************************************************)
(* The numbers of the analysis pipeline, on small integers: edge           *)
(* exclusion, outlier rejection over a sliding window, the parabola fitted *)
(* to a line, the mean of the lines, the quality gates, the rays of the    *)
(* wafer map and the alarm a wafer raises.  Positions, heights and angles  *)
(* are integers; what the code halves or divides is kept as numerator and  *)
(* denominator, so every comparison is exact.                              *)
(***************************************************************************)
EXTENDS SequencesExt

CONSTANTS
    NaN,                 \* the height of a sample that was dropped
    EdgeExclusion,       \* scan.edge_exclusion_mm
    MadK,                \* analysis.outlier_mad_k
    WindowRadius,        \* window_radius_samples, 40 in the code
    RmsLimit,            \* analysis.fit_rms_limit_um
    Plausible, Spec_,    \* <<low, high>> of the stress
    InitialCurvature,    \* wafer.truth.initial_curvature_1_per_m
    SpikeLimit,          \* <<n, d>>: analysis.outlier_fraction_alarm
    HalfTurn             \* pi; every angle of a line is a multiple of its unit

Size(x) == IF x < 0 THEN -x ELSE x
Power(x, p) == IF p = 0 THEN 1 ELSE x ^ p
SumOver(S, Value(_)) == MapThenSumSet(Value, S)

-----------------------------------------------------------------------------
(* Filtering one line: a sequence of heights, measured one unit apart and centred on the   *)
(* wafer.  The filters give every sample a flag.                                            *)

Position(line, i) == i - (Len(line) + 1) \div 2

\* minmax_element() of the positions, then a flag for every sample.
apply_edge_exclusion(line) ==
    LET positions == {Position(line, i) : i \in DOMAIN line}
    IN [i \in DOMAIN line |->
          IF line[i] = NaN THEN "Dropped"
          ELSE IF \/ Position(line, i) < Min(positions) + EdgeExclusion
                  \/ Position(line, i) > Max(positions) - EdgeExclusion
          THEN "EdgeExcluded" ELSE "Kept"]

\* Twice the median of a sorted, non-empty sequence.
sorted_median(sorted) ==
    LET mid == Len(sorted) \div 2
    IN IF Len(sorted) % 2 = 0 THEN sorted[mid + 1] + sorted[mid] ELSE 2 * sorted[mid + 1]

\* The number of entries below z, or not above it: where z is erased and inserted.
lower_bound(sorted, z) == Cardinality({i \in DOMAIN sorted : sorted[i] < z})
upper_bound(sorted, z) == Cardinality({i \in DOMAIN sorted : sorted[i] <= z})

\* Four times the median of |z - med|, without sorting: the deviations left and right of the
\* median, each in order, are merged until the middle one is reached.  med is doubled.
median_abs_deviation(sorted, med) ==
    LET size == Len(sorted)
        doubled == [i \in DOMAIN sorted |-> 2 * sorted[i]]
        split == lower_bound(doubled, med)
        Take[n \in Nat] ==
            IF n = 0 THEN [left |-> split, right |-> split, previous |-> 0, current |-> 0]
            ELSE LET m == Take[n - 1]
                 IN IF /\ m.left > 0
                       /\ \/ m.right = size
                          \/ med - doubled[m.left] <= doubled[m.right + 1] - med
                    THEN [left |-> m.left - 1, right |-> m.right,
                          previous |-> m.current, current |-> med - doubled[m.left]]
                    ELSE [left |-> m.left, right |-> m.right + 1,
                          previous |-> m.current, current |-> doubled[m.right + 1] - med]
        last == Take[size \div 2 + 1]
    IN IF size % 2 = 0 THEN last.current + last.previous ELSE 2 * last.current

\* Mutant: the value that leaves is erased behind the equal ones.
Leaves_behind(window, z) == RemoveAt(window, upper_bound(window, z) + 1)

Leaves(window, z) == RemoveAt(window, lower_bound(window, z) + 1)
Enters(window, z) == InsertAt(window, upper_bound(window, z) + 1, z)

\* The kept samples k - radius .. k + radius, where there are that many.
Lo(k) == Max({1, k - WindowRadius})
End(n, k) == Min({n, k + WindowRadius})

IsOutlier(z, med, mad) == MadK * mad > 0 /\ 2 * Size(2 * z - med) > MadK * mad

Kept(flags) == SetToSortSeq({i \in DOMAIN flags : flags[i] = "Kept"}, <)

\* The sorted window slides along the kept samples.
apply_outlier_rejection(line, flags) ==
    LET kept == Kept(flags)
        n == Len(kept)
        z == [k \in 1..n |-> line[kept[k]]]
        window[k \in 0..n] ==
            IF k = 0 THEN <<>>
            ELSE LET left == FoldLeft(Leaves, window[k - 1],
                                      SubSeq(z, IF k = 1 THEN 1 ELSE Lo(k - 1), Lo(k) - 1))
                 IN FoldLeft(Enters, left,
                             SubSeq(z, IF k = 1 THEN 1 ELSE End(n, k - 1) + 1, End(n, k)))
        Flagged(k) == LET med == sorted_median(window[k])
                      IN IsOutlier(z[k], med, median_abs_deviation(window[k], med))
        outliers == IF n < 2 THEN {} ELSE {kept[k] : k \in {j \in 1..n : Flagged(j)}}
    IN [i \in DOMAIN flags |-> IF i \in outliers THEN "Outlier" ELSE flags[i]]

\* What a line's window says of its middle by definition: median and median absolute
\* deviation of the neighbours, each from a sorted copy.
StraightforwardRejection(line, flags) ==
    LET kept == Kept(flags)
        Near(k) == SubSeq(kept, Lo(k), End(Len(kept), k))
        Median(values) == sorted_median(SortSeq(values, <))
        Med(k) == Median([j \in DOMAIN Near(k) |-> line[Near(k)[j]]])
        Mad(k) == Median([j \in DOMAIN Near(k) |-> Size(2 * line[Near(k)[j]] - Med(k))])
        outliers == {kept[k] : k \in {j \in DOMAIN kept : IsOutlier(line[kept[j]], Med(j), Mad(j))}}
    IN [i \in DOMAIN flags |-> IF i \in outliers THEN "Outlier" ELSE flags[i]]

-----------------------------------------------------------------------------
(* Fitting z = a s^2 + b s + c to the kept samples of a line. *)

det3(m) == m[1][1] * (m[2][2] * m[3][3] - m[2][3] * m[3][2])
             - m[1][2] * (m[2][1] * m[3][3] - m[2][3] * m[3][1])
             + m[1][3] * (m[2][1] * m[3][2] - m[2][2] * m[3][1])

\* The numerator of Cramer's rule; the denominator is the determinant of m.
cramer_solve(m, rhs, col) ==
    det3([r \in 1..3 |-> [c \in 1..3 |-> IF c = col THEN rhs[r] ELSE m[r][c]]])

NoFit(n) == [valid |-> FALSE, n_used |-> n, a |-> 0, b |-> 0, c |-> 0, det |-> 1, rss |-> 0]

\* a, b and c are numerators over det, and rss, the sum of squared residuals, over det^2.
fit_line(line, flags) ==
    LET kept == {[s |-> Position(line, i), z |-> line[i]] : i \in Range(Kept(flags))}
        S(p) == SumOver(kept, LAMBDA x : Power(x.s, p))
        T(p) == SumOver(kept, LAMBDA x : Power(x.s, p) * x.z)
        n == Cardinality(kept)
        m == <<<<S(4), S(3), S(2)>>, <<S(3), S(2), S(1)>>, <<S(2), S(1), n>>>>
        rhs == <<T(2), T(1), T(0)>>
        det == det3(m)
        a == cramer_solve(m, rhs, 1)
        b == cramer_solve(m, rhs, 2)
        c == cramer_solve(m, rhs, 3)
        Residual(x) == det * x.z - a * x.s * x.s - b * x.s - c
    IN IF n < 3 \/ det = 0 THEN NoFit(n)
       ELSE [valid |-> TRUE, n_used |-> n, a |-> a, b |-> b, c |-> c, det |-> det,
             rss |-> SumOver(kept, LAMBDA x : Residual(x) * Residual(x))]

-----------------------------------------------------------------------------
(* Judging a wafer. *)

ValidFits(fits) == SelectSeq(fits, LAMBDA f : f.valid)

\* The mean curvature of the valid lines as <<numerator, denominator>>; 0 without one.
combine_lines(fits) ==
    LET valid == ValidFits(fits)
        Sum == FoldLeft(LAMBDA q, f : <<q[1] * f.det + 2 * f.a * q[2], q[2] * f.det>>, <<0, 1>>, valid)
    IN IF valid = <<>> THEN <<0, 1>> ELSE <<Sum[1], Sum[2] * Len(valid)>>

\* The gates in their order.  The stress is the curvature less the initial one, in units of
\* Stoney's factor; a determinant of a valid fit is positive, so are the denominators.
evaluate_quality(fits, mean) ==
    LET stress == mean[1] - InitialCurvature * mean[2]
        Outside(limits) == stress < limits[1] * mean[2] \/ stress > limits[2] * mean[2]
    IN CASE \E f \in Range(ValidFits(fits)) : f.rss > RmsLimit * RmsLimit * f.n_used * f.det * f.det
              -> [issue |-> "PoorFit", out_of_spec |-> FALSE]
         [] OTHER -> IF Outside(Plausible) THEN [issue |-> "Implausible", out_of_spec |-> FALSE]
                     ELSE [issue |-> "None", out_of_spec |-> Outside(Spec_)]

WithFlag(filtered, flag) ==
    SumOver(DOMAIN filtered, LAMBDA i : Len(SelectSeq(filtered[i], LAMBDA f : f = flag)))

\* process_wafer(): the alarm a result raises.
RaisedAlarm(filtered, quality) ==
    LET total == SumOver(DOMAIN filtered, LAMBDA i : Len(filtered[i]))
    IN CASE quality.issue = "PoorFit" -> "FitQualityPoor"
         [] quality.issue = "Implausible" -> "StressImplausible"
         [] OTHER -> IF WithFlag(filtered, "Outlier") * SpikeLimit[2] > SpikeLimit[1] * total
                     THEN "SensorSpikeRateHigh"
                     ELSE IF WithFlag(filtered, "Dropped") > 0 THEN "SensorDropout" ELSE "None"

-----------------------------------------------------------------------------
(* The wafer map: each line gives two rays; a cell lies between two of them. *)

FullTurn == 2 * HalfTurn
normalize_angle(theta) == theta % FullTurn

\* The rays in the order of their angles.  Line i of n has the angle i pi / n.
Rays(fits) ==
    LET Ray(i, half) ==
            [angle |-> normalize_angle((((i - 1) * HalfTurn) \div Len(fits)) + half * HalfTurn),
             line |-> i, half |-> half]
    IN SetToSortSeq({Ray(i, half) : i \in {j \in DOMAIN fits : fits[j].valid}, half \in {0, 1}},
                    LAMBDA x, y : x.angle < y.angle)

\* A cell at the angle theta: the ray below, the ray above, and the fraction num / den of the
\* way from one to the other.
Cell(rays, theta) ==
    LET above == Cardinality({i \in DOMAIN rays : rays[i].angle < theta}) + 1
        lo == rays[IF above = 1 THEN Len(rays) ELSE above - 1]
        hi == rays[((above - 1) % Len(rays)) + 1]
        span == hi.angle - lo.angle + IF above > Len(rays) THEN FullTurn ELSE 0
        offset == (theta - lo.angle) + IF theta < lo.angle THEN FullTurn ELSE 0
    IN [lo |-> lo, hi |-> hi, num |-> IF span > 0 THEN offset ELSE 0,
        den |-> IF span > 0 THEN span ELSE 1]

build_wafer_map(fits) ==
    LET rays == Rays(fits)
    IN IF rays = <<>> THEN <<>> ELSE [theta \in 0..FullTurn - 1 |-> Cell(rays, theta)]
=============================================================================
