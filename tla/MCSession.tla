----------------------------- MODULE MCSession -----------------------------
(* Instances of Session for TLC. *)
EXTENDS Session

\* Nothing, two entries, more entries than MaxList and more bytes
\* than MaxIndexBytes.
SomeIndexes == {<<>>, <<1, 2>>, <<1, 1, 1>>, <<3, 3>>}
============================================================================
