-------------------------- MODULE MCThreadExecutor --------------------------
(* Two immediate tasks and two delayed ones of different delays.           *)
EXTENDS ThreadExecutor

CONSTANTS a, b, d, e

Delays == [t \in Tasks |-> CASE t = d -> 1 [] t = e -> 2 [] OTHER -> 0]
=============================================================================
