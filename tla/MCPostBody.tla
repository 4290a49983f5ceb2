----------------------------- MODULE MCPostBody -----------------------------
(* Instances of PostBody for TLC: plain texts of up to MaxText bytes and     *)
(* forms of up to MaxParts parts, each a field or a file, with contents of    *)
(* the lengths FieldLengths.                                                 *)
EXTENDS PostBody

CONSTANTS MaxText, MaxParts, FieldLengths

\* All bytes of a body are different, so that no loss or exchange is hidden.
Bytes == <<"b1", "b2", "b3", "b4", "b5", "b6", "b7", "b8", "b9", "b10", "b11", "b12",
           "b13", "b14", "b15", "b16", "b17", "b18", "b19", "b20", "b21", "b22", "b23", "b24",
           "b25", "b26">>
\* Contents of line ends and dashes, as the markers have them.
Hard == {<<"-", "-">>, <<"-", "-", "CR", "LF">>, <<"CR", "LF", "-", "-", "CR", "LF", "CR", "LF">>}

Text(from, len) == SubSeq(Bytes, from, from + len - 1)

MCForms ==
  {[multipart |-> FALSE, parts |-> <<[file |-> FALSE, text |-> Text(1, n)]>>] : n \in 1..MaxText}
  \cup
  UNION {{[multipart |-> TRUE,
           parts |-> [i \in 1..k |-> [file |-> fs[i], text |-> Text(1 + (i - 1) * Max(FieldLengths), ls[i])]]]
          : fs \in [1..k -> BOOLEAN], ls \in [1..k -> FieldLengths]} : k \in 1..MaxParts}
  \cup
  {[multipart |-> TRUE, parts |-> <<[file |-> b, text |-> t], [file |-> FALSE, text |-> t]>>]
   : b \in BOOLEAN, t \in Hard}
=============================================================================
