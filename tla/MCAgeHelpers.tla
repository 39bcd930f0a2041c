---------------------------- MODULE MCAgeHelpers ----------------------------
EXTENDS AgeHelpers
CONSTANTS c1, k1, e1, t1, t2, r1, r2

\* A session meets two writers of the three at a time; a one-shot helper, which
\* takes no lock, an editor.
CastsOfModes ==
  [m \in Modes |-> IF m = "session" THEN {{c1, k1}, {c1, e1}, {k1, e1}} ELSE {{e1}}]
=============================================================================
