---------------------------- MODULE WaferResult ----------------------------
(***************************************************************************)
(* What run_pipeline() and process_wafer() make of a wafer: the pipeline   *)
(* on the pool with the filters and the fit of the analysis, and the       *)
(* serial rest.                                                            *)
(***************************************************************************)
EXTENDS Pipeline, Analysis

\* The two filters of a line, one after the other.
FilterLine(line) == apply_outlier_rejection(line, apply_edge_exclusion(line))

\* What the filters should give: a table, so that it is computed once.
References == {<<line, StraightforwardRejection(line, apply_edge_exclusion(line))>> : line \in AllLines}

\* What run_pipeline() makes of the filtered lines and the fits, which no longer change, and
\* process_wafer() of that.
Result ==
    LET mean == combine_lines(line_fits)
        quality == evaluate_quality(line_fits, mean)
    IN [quality |-> quality, raised |-> RaisedAlarm(filtered_lines, quality),
        map |-> IF quality.issue = "None" THEN build_wafer_map(line_fits) ELSE <<>>]

-----------------------------------------------------------------------------
(* Properties. *)

\* The residuals of the best parabola are orthogonal to 1, s and s^2.
LeastSquares(line, flags, fit) ==
    LET Residual(i) == LET s == Position(line, i)
                       IN fit.det * line[i] - fit.a * s * s - fit.b * s - fit.c
    IN \A p \in 0..2 :
         SumOver(Range(Kept(flags)), LAMBDA i : Power(Position(line, i), p) * Residual(i)) = 0

\* Whichever workers took the lines, in whatever order, the result is the one of the
\* definitions, line by line: the outliers that the sliding window and the merged deviations
\* find are those of the straightforward version, as the comment on
\* apply_outlier_rejection() claims; every line with three samples left has the parabola of
\* least squares, by Cramer's rule; a wafer is judged clean only with no sample dropped and no
\* line worse than the limit; and a cell of the map beyond the first ray lies between two
\* rays with no third one in between.
ResultIsReference ==
    returned /\ caller.pc = "idle" =>
        /\ \A i \in DOMAIN lines :
             /\ filtered_lines[i] = In(References, lines[i])
             /\ line_fits[i].valid <=> Len(Kept(filtered_lines[i])) >= 3
             /\ line_fits[i].valid => LeastSquares(lines[i], filtered_lines[i], line_fits[i])
             /\ Result.raised = "None" =>
                  /\ \A k \in DOMAIN lines[i] : lines[i][k] # NaN
                  /\ line_fits[i].rss <= RmsLimit * RmsLimit * line_fits[i].n_used
                                           * line_fits[i].det * line_fits[i].det
        /\ LET rays == Rays(line_fits)
               map == Result.map
           IN \A theta \in DOMAIN map :
                LET cell == map[theta]
                IN theta > rays[1].angle =>
                     /\ cell.lo.angle < theta /\ 0 < cell.num /\ cell.num <= cell.den
                     /\ \A i \in DOMAIN rays :
                          rays[i].angle \notin cell.lo.angle + 1..cell.lo.angle + cell.den - 1
=============================================================================
