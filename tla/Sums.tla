---------------------------------- MODULE Sums ----------------------------------
(***************************************************************************)
(* sum(...) over the rows of a table or the tickers of a portfolio.        *)
(***************************************************************************)
EXTENDS FiniteSetsExt

\* The sum of f over S.
Total(f, S) == MapThenSumSet(LAMBDA x : f[x], S)

================================================================================
