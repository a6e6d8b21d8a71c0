------------------------------- MODULE MCEcho -------------------------------
(***************************************************************************)
(* Short command lines for echo, and paths behind one that is well formed, *)
(* for TLC.                                                                *)
(***************************************************************************)
EXTENDS Echo

CONSTANTS x, X, MaxLen, MaxPath

MCCapital == x :> X
MCCwds == {<<Slash>>, <<Slash, x>>}

StringsOver(chars, n) == UNION {[1 .. k -> chars] : k \in 0 .. n}

\* Quotes and marks in any order; and "x"> with any path behind it.
MCTyped ==
  StringsOver({x, Quote, Greater, Space}, MaxLen)
    \cup {<<Quote, x, Quote, Greater>> \o path : path \in StringsOver({x, X, Slash, Dot}, MaxPath)}
==============================================================================
