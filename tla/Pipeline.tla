------------------------------ MODULE Pipeline ------------------------------
(***************************************************************************)
(* run_pipeline(): the lines of one wafer are filtered on the fit pool,    *)
(* then fitted on it, each line by whichever worker pops its job.  What    *)
(* filters and fits make of a line is a parameter here: WaferResult gives  *)
(* it the functions of Analysis.                                           *)
(***************************************************************************)
EXTENDS FitPool

CONSTANTS
    Wafers,        \* the wafers to analyse: sequences of lines
    Filter(_),     \* the flags that both filters give the samples of a line
    Fit(_, _),     \* what is fitted to a line with its flags
    Unfitted       \* a default-constructed LineFit

ASSUME WafersAssumption ==
    \A wafer \in Wafers : DOMAIN wafer = 1..Len(wafer) /\ Len(wafer) \in 0..MaxCount

\* What becomes of each line: tables, so that each is computed once.
AllLines == UNION {{wafer[i] : i \in DOMAIN wafer} : wafer \in Wafers}
Filters == {<<line, Filter(line)>> : line \in AllLines}
Fits == {<<filter, Fit(filter[1], filter[2])>> : filter \in Filters}
In(table, x) == (CHOOSE entry \in table : entry[1] = x)[2]

VARIABLES
    lines,           \* of the wafer
    filtered_lines,  \* their flags
    line_fits,
    returned         \* run_pipeline() has returned

dataVars == <<lines, filtered_lines, line_fits, returned>>
vars == <<queueVars, poolVars, dataVars>>

Init ==
    /\ PoolInit
    /\ lines \in Wafers
    /\ filtered_lines = [i \in DOMAIN lines |-> <<>>]
    /\ line_fits = [i \in DOMAIN lines |-> Unfitted]
    /\ returned = FALSE

-----------------------------------------------------------------------------
\* for_each_index() for the filters, then fit_lines().
CallsPool ==
    /\ Calls(Len(lines))
    /\ UNCHANGED dataVars

\* A worker runs a job: fn(i) of the first call filters line i, of the second fits it.
JobRuns(w) ==
    LET i == holding[w].index + 1
    IN /\ WorkerRuns(w)
       /\ IF holding[w] = NoItem THEN UNCHANGED <<filtered_lines, line_fits>>
          ELSE IF holding[w].call = 1
          THEN /\ filtered_lines' = [filtered_lines EXCEPT ![i] = In(Filters, lines[i])]
               /\ UNCHANGED line_fits
          ELSE /\ line_fits' = [line_fits EXCEPT ![i] = In(Fits, <<lines[i], filtered_lines[i]>>)]
               /\ UNCHANGED filtered_lines
       /\ UNCHANGED <<lines, returned>>

Concludes ==
    /\ caller.pc = "idle" /\ caller.call = 2 /\ ~returned
    /\ returned' = TRUE
    /\ UNCHANGED <<queueVars, poolVars, lines, filtered_lines, line_fits>>

\* The owner destroys the pool before a wafer or after it.
Ends ==
    /\ caller.call = 0 \/ returned
    /\ Destroys
    /\ UNCHANGED dataVars

PoolContinues == PoolStep /\ UNCHANGED dataVars

Terminated == caller.pc = "destroyed" /\ UNCHANGED vars

Next ==
    \/ CallsPool \/ Concludes \/ Ends \/ PoolContinues \/ Terminated
    \/ \E w \in Workers : JobRuns(w)

\* Every thread runs; nobody has to call the pool or to destroy it.
Fairness ==
    /\ WF_vars(CallerStep /\ UNCHANGED dataVars)
    /\ \A w \in Workers : WF_vars((WorkerStep(w) /\ UNCHANGED dataVars) \/ JobRuns(w))
    /\ \A t \in Threads : WF_vars(QueueContinues(t) /\ UNCHANGED dataVars)

Spec == Init /\ [][Next]_vars /\ Fairness
=============================================================================
