---------------------------- MODULE MCServeFile ----------------------------
(* Instances of ServeFile for TLC: one thread gets the whole resource, the    *)
(* rest of it, a part, a range that ends behind it, or one that begins there, *)
(* and its socket may be killed; the others look up the same file and have    *)
(* nothing to send, their range beginning behind it.                          *)
EXTENDS ServeFile

CONSTANTS Various   \* the thread with any of these requests

MCGarbage == {Complete, 0, Max(Goals)}
Behind == Max(Goals) + 1
MCRequests ==
  [t \in Thread |->
     IF t = Various
     THEN [emulated : BOOLEAN, from : {-1}, to : {-1}]
            \cup [emulated : BOOLEAN, from : {1}, to : {-1, 1, Behind}]
            \cup [emulated : BOOLEAN, from : {Behind}, to : {-1}]
     ELSE [emulated : {FALSE}, from : {Behind}, to : {-1}]]

\* A bound: the others are not killed.
OneKilled == \A t \in Thread \ {Various} : socket[t] = "open"
=============================================================================
