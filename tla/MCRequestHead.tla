--------------------------- MODULE MCRequestHead ---------------------------
(* Instances of RequestHead for TLC: requests that vary in their path and    *)
(* query, in their headers, or in the length of one line, each with every    *)
(* kind of line end.                                                         *)
EXTENDS RequestHead

CONSTANTS MaxPath,    \* characters of a path
          LineLengths \* lengths of the line that varies

MCSymbols == {"CR", "LF", "SP", "?", "&", "=", ":", "%", "HTTP/1.1", "GET", "POST", "PUT", "K", "L",
              "Range", "b", "j", "k", "u", "v", "w", "x", "y", "z", "-", "0", "1", "2", "3", "5", "F"}
Eols   == {<<"CR", "LF">>, <<"LF">>, <<"CR">>}
Bodies == {<<>>, <<"b">>, <<"LF", "b">>}
Chars  == {<<"z">>, <<"2">>, <<"%", "2", "0">>, <<"%", "2", "5">>, <<"%", "3", "F">>,
           <<"%", "0", "0">>, <<"%", "z">>, <<"%", "%">>}

Nothing == [first |-> <<>>, last |-> <<>>]
Plain == [method |-> "GET", path |-> << <<"z">> >>, query |-> <<>>, headers |-> <<>>,
          range |-> Nothing, eol |-> <<"LF">>, body |-> <<>>]
Param(k, v)  == [key |-> <<k>>, val |-> v]
Hdr(k, v)  == [key |-> k, val |-> v]
Filler(n) == [i \in 1..n |-> <<"x", "y">>[(i % 2) + 1]]

Paths ==
  {[Plain EXCEPT !.path = p] : p \in UNION {[1..n -> Chars] : n \in 1..MaxPath}}
Queries ==
  {[Plain EXCEPT !.query = q] :
     q \in { <<Param("k", <<"v", "w">>)>>, <<Param("k", None)>>,
             <<Param("k", <<"v">>), Param("j", <<>>)>>,
             <<Param("k", <<"v">>), Param("k", <<"w">>)>>,
             <<Param("k", <<"=">>), Param("j", <<"w">>)>> }}
HeaderLists ==
  {[Plain EXCEPT !.method = m] : m \in {"POST", "PUT"}} \cup
  {[Plain EXCEPT !.headers = hs] :
     hs \in UNION {[1..n -> {Hdr("K", <<"SP", "x">>), Hdr("K", <<"y", ":", "SP", "x", "SP">>),
                             Hdr("L", <<>>), Hdr("L", <<"SP">>)}] : n \in 0..2}}
Ranges ==
  {[Plain EXCEPT !.headers = <<Hdr("Range", <<"SP", "u", "=", "1", "0", "-", "2", "5">>)>>,
                 !.range = [first |-> <<"1", "0">>, last |-> <<"2", "5">>]],
   [Plain EXCEPT !.headers = <<Hdr("Range", <<"u", "=", "3", "-">>)>>,
                 !.range = [first |-> <<"3">>, last |-> <<>>]],
   [Plain EXCEPT !.headers = <<Hdr("Range", <<"u">>)>>],
   [Plain EXCEPT !.headers = <<Hdr("Range", <<"u", "=", "-", "5">>)>>],          \* the last five
   [Plain EXCEPT !.headers = <<Hdr("Range", <<"u", "=", "x", "2", "-", "5">>)>>],
   [Plain EXCEPT !.headers = <<Hdr("Range", <<"u", "=", "5", "3", "-">>)>>]}     \* too large
Lengths ==
  {[Plain EXCEPT !.headers = <<Hdr("K", Filler(n - 2)), Hdr("L", <<"x">>)>>] : n \in LineLengths}
  \cup {[Plain EXCEPT !.path = [i \in 1..(n - 4) |-> <<"z">>]] : n \in LineLengths}

MCRequests ==
  {r \in {[r EXCEPT !.eol = e, !.body = b] : r \in Lengths, e \in Eols, b \in Bodies} :
     r.eol = <<"CR">> => ~IsPrefix(<<"LF">>, r.body)}
  \cup {[r EXCEPT !.eol = e, !.body = <<"b">>] : r \in Queries \cup Ranges \cup HeaderLists, e \in Eols}
  \cup Paths
=============================================================================
