------------------------------- MODULE MCStore -------------------------------
(***************************************************************************)
(* The broker with two handlers, and beside it another process: a second   *)
(* broker, while one replaces the other, or audit tail.                    *)
(***************************************************************************)
EXTENDS Store

MCProcOf == [c \in {"h1", "h2", "x"} |-> IF c = "x" THEN "other" ELSE "serve"]

MCMain == [p \in {"serve", "other"} |-> IF p = "other" THEN "x" ELSE "h1"]
=============================================================================
