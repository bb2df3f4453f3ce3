------------------------------ MODULE MCDriver ------------------------------
(* Children that print up to MaxLines lines. *)
EXTENDS Driver

CONSTANT MaxLines

MCScripts ==
    UNION {[1..n -> {"out", "err"} \X {"other", "progress", "accent"}] : n \in 0..MaxLines}

\* SeaHorn prints its verdict to stdout and messages to stderr.
SeaHornScripts == {<<<<"err", "other">>, <<"out", v>>>> : v \in {"sat", "unsat"}}
=============================================================================
