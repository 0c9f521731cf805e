----------------------------- MODULE MCVexNode -----------------------------
(* Three remote processes and two slots for VexNode, with the real sizes.  *)
EXTENDS VexNode

\* The longest message; a line that fills the input buffer to its last byte (it
\* is too long to send, and its newline stays behind as an empty line); a line
\* without its end; a command; and the command that ends the node.
SomeLines == {Text(401), Text(511), Piece(110), Command, Quit}

CONSTANTS r1, r2, r3

DialR1 == <<r1>>

TwoLines == {Text(5)}

=============================================================================
