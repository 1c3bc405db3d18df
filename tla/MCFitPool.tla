----------------------------- MODULE MCFitPool -----------------------------
(* Two workers and the owner; more lines than the queue has places. *)
EXTENDS WaferResult

CONSTANTS w1, w2, owner

MCWorkers == {w1, w2}
MCThreads == {w1, w2, owner}
MCJobs == [call : 1..2, index : 0..2]

\* Lines of seven samples, of which the outermost two are excluded; one of two mirror images.
Line(z) == <<9>> \o z \o <<9>>
Heights == {h \in [1..5 -> {0, 1, 5}] : h[1] <= h[5]}
Gaps == {[h EXCEPT ![3] = NaN] : h \in [1..5 -> {0, 2}]} \union {<<NaN, NaN, 1, NaN, 0>>}
Bowl == Line(<<4, 1, 0, 1, 4>>)
Flat == Line(<<1, 1, 1, 1, 1>>)
Short == Line(<<NaN, 0, NaN, 0, NaN>>)

\* Single lines of every shape, and wafers of several lines.
MCWafers ==
    {<<Line(z)>> : z \in Heights \union Gaps}
      \union {<<>>, <<Flat, Bowl>>, <<Short, Bowl, Flat>>, <<Bowl, Flat, Bowl>>,
              <<Flat, Line(<<0, 1, 5, 1, 0>>), Flat>>}
MCUnfitted == NoFit(0)
MCPlausible == <<-1, 1>>
MCSpec == <<0, 0>>
MCSpikeLimit == <<1, 8>>
=============================================================================
