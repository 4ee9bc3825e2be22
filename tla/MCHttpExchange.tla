-------------------------- MODULE MCHttpExchange --------------------------
(* A small instance of HttpExchange for TLC.                               *)
EXTENDS HttpExchange

\* In one chunk or several: empty, below, at and beyond the limit.
MCSizes == 0..(Limit + 1)
=============================================================================
