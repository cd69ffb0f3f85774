------------------------- MODULE MCSourceLifecycle -------------------------
(***************************************************************************)
(* A small source table for TLC: requests for one identity, requests that  *)
(* share its key or its directory only, and a deletion.                    *)
(***************************************************************************)
EXTENDS SourceLifecycle, TLC

CONSTANTS c1, c2, c3, c4

Identity(key, name, directory) ==
  [key |-> key, name |-> name, directory |-> directory]

\* c2 asks for c1's key under other names; c3 wants c1's directory, outside the
\* download root; c4 is c1's request once more, in an unfit form.
Mixed == [c \in Creators |->
  CASE c \in {c1, c4} -> Identity("k1", "n1", "d1")
    [] c = c2 -> Identity("k1", "n2", "d2")
    [] OTHER  -> Identity("k3", "n3", "d1")]

OnlyC3 == {c3}
OnlyC4 == {c4}
=============================================================================
