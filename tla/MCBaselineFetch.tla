--------------------------- MODULE MCBaselineFetch ---------------------------
(* An instance of BaselineFetch for TLC: the two keys share a query.         *)
EXTENDS BaselineFetch, TLC

CONSTANTS k1, k2, qa, qb

MCQueries == (k1 :> {qa, qb}) @@ (k2 :> {qb})
=============================================================================
