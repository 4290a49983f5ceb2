---------------------------- MODULE RequestHead ----------------------------
(***************************************************************************)
(* The head of a request: get_line, parse_headers and urldecode of         *)
(* src/MiniHttpDaemon.cpp, on a connection that may be lost after any byte *)
(* or be shut down by Kill, and what the rest of the request thread takes  *)
(* from it: the parameters of the query and the range.                     *)
(*                                                                         *)
(* A character is a symbol.  A method, a protocol version and the names of *)
(* headers are one symbol each: nothing looks inside them, and a cut there *)
(* gives only another unknown name.                                        *)
(***************************************************************************)
EXTENDS Integers, SequencesExt

CONSTANTS LineSize,   \* sizeof(buf) in parse_headers, 4096
          UrlSize,    \* sizeof(_url), 1024
          IntLimit,   \* one more than the largest int, 2^31
          Symbols,    \* what requests are made of
          Requests    \* the requests sent, see RequestAssumption

ASSUME SizeAssumption == LineSize \in Nat \ {0, 1} /\ UrlSize \in Nat \ {0} /\ IntLimit \in Nat \ {0}
ASSUME SymbolAssumption ==
  {"CR", "LF", "SP", "?", "&", "=", ":", "HTTP/1.1", "%", "0", "2", "3", "5", "F"} \subseteq Symbols

VARIABLES
  request,        \* what the client sent
  rest,           \* the part of it not received yet
  socket,         \* "open", "nonblocking" or "shut": lost, closed or shut down
  line, c,        \* get_line: buf up to i, and whether c is "CR", "LF" or another
  pc,             \* which line is being read, or how parse_headers ended
  method, url, query_string, properties,
  accident        \* ghost: a line was cut in two by Kill

vars == <<request, rest, socket, line, c, pc, method, url, query_string, properties, accident>>

Reading == {"request line", "header"}
Outcome == {"content",         \* a POST: get_content reads its body
            "callback",        \* a GET
            "unimplemented",   \* neither
            "overrun"}         \* urldecode wrote behind _url

None  == <<"none">>
Space == {"SP", "LF"}
Other == "other"

(* What the client sends. *)
Written(r) ==
  LET Param(p) == IF p.val = None THEN p.key ELSE p.key \o <<"=">> \o p.val
      Query == FlattenSeq([i \in DOMAIN r.query |->
                             (IF i = 1 THEN <<"?">> ELSE <<"&">>) \o Param(r.query[i])])
  IN << <<r.method, "SP">> \o FlattenSeq(r.path) \o Query \o <<"SP", "HTTP/1.1">> >>
     \o [i \in DOMAIN r.headers |-> <<r.headers[i].key, ":">> \o r.headers[i].val]
Section(r) == FlattenSeq([i \in DOMAIN Written(r) |-> Written(r)[i] \o r.eol]) \o r.eol
Message(r) == Section(r) \o r.body

Init ==
  /\ request \in Requests /\ rest = Message(request) /\ socket = "open"
  /\ line = <<>> /\ c = Other /\ pc = "request line"
  /\ method = <<>> /\ url = <<>> /\ query_string = <<>> /\ properties = <<>>
  /\ accident = FALSE
-----------------------------------------------------------------------------
(* The connection. *)

\* It is lost or closed by the peer, and what was under way arrives in part.
Lose ==
  /\ pc \in Reading /\ socket = "open" /\ socket' = "shut"
  /\ \E n \in 0..Len(rest) : rest' = SubSeq(rest, 1, n)
  /\ UNCHANGED <<request, line, c, pc, method, url, query_string, properties, accident>>

\* Kill, in two steps: from the first one on recv does not wait.
SetNonblocking ==
  /\ pc \in Reading /\ socket = "open" /\ socket' = "nonblocking"
  /\ UNCHANGED <<request, rest, line, c, pc, method, url, query_string, properties, accident>>
Shutdown ==
  /\ pc \in Reading /\ socket = "nonblocking" /\ socket' = "shut" /\ rest' = <<>>
  /\ UNCHANGED <<request, line, c, pc, method, url, query_string, properties, accident>>
-----------------------------------------------------------------------------
(* get_line. *)

Parsed == <<request, socket, pc, method, url, query_string, properties>>

\* Faulty variant: one character too many.
RoomForNul == Len(line) < LineSize
Room == Len(line) < LineSize - 1

InLine   == pc \in Reading /\ c = Other /\ Room
LineDone == pc \in Reading /\ (c = "LF" \/ (c # "CR" /\ ~Room))

\* One recv of one character.
Recv ==
  /\ InLine /\ rest # <<>> /\ rest' = Tail(rest)
  /\ c' = IF Head(rest) \in {"CR", "LF"} THEN Head(rest) ELSE Other
  /\ line' = IF Head(rest) = "CR" THEN line ELSE Append(line, Head(rest))
  /\ UNCHANGED <<Parsed, accident>>

\* recv returns 0 or less: there will be nothing, or nothing is there yet.
\* Bound: data is late for a socket that does not wait once at most.
Fails == (rest = <<>> /\ socket # "open") \/ (socket = "nonblocking" /\ ~accident)

\* Faulty variant: the failure is not taken for the end of a line.
RecvFailsOnce ==
  /\ InLine /\ Fails
  /\ UNCHANGED <<line, c, rest, Parsed, accident>>
RecvFails ==
  /\ InLine /\ Fails /\ c' = "LF"
  /\ accident' = (accident \/ rest # <<>>)
  /\ UNCHANGED <<line, rest, Parsed>>

\* Faulty variant: a line feed after the carriage return is left where it is.
PeekLeaves ==
  /\ pc \in Reading /\ c = "CR"
  /\ rest # <<>> \/ Fails
  /\ c' = "LF" /\ line' = Append(line, "LF")
  /\ UNCHANGED <<rest, Parsed, accident>>

\* After a carriage return: look at the next character, and take it if it is
\* a line feed.
Peek ==
  /\ pc \in Reading /\ c = "CR"
  /\ \/ /\ rest # <<>> /\ rest' = IF Head(rest) = "LF" THEN Tail(rest) ELSE rest
        /\ UNCHANGED accident
     \/ Fails /\ accident' = (accident \/ rest # <<>>) /\ UNCHANGED rest
  /\ c' = "LF" /\ line' = Append(line, "LF")
  /\ UNCHANGED Parsed

NextLine == line' = <<>> /\ c' = Other
-----------------------------------------------------------------------------
(* urldecode, which never converts what it has converted. *)

HexDigit == {"0", "2", "3", "5", "F"}
Code ==
  LET written == << <<"2", "0">>, <<"2", "5">>, <<"3", "F">>, <<"0", "0">> >>
      meant   == << <<"SP">>, <<"%">>, <<"?">>, <<>> >>     \* strncat appends no NUL
  IN [p \in ToSet(written) |-> meant[CHOOSE i \in 1..4 : written[i] = p]]

\* A percent sign takes two hexadecimal digits with it, or else it is lost
\* together with the one character behind it.
urldecode(s) ==
  LET rest_of[i \in 1..(Len(s) + 2)] ==
        IF i > Len(s) THEN <<>>
        ELSE IF s[i] # "%" THEN <<s[i]>> \o rest_of[i + 1]
        ELSE IF i + 2 <= Len(s) /\ {s[i + 1], s[i + 2]} \subseteq HexDigit
             THEN Code[<<s[i + 1], s[i + 2]>>] \o rest_of[i + 3]
        ELSE rest_of[i + 2]
  IN rest_of[1]
-----------------------------------------------------------------------------
(* parse_headers. *)

\* The first place from i on with one of these characters, or with another one
\* than these; behind s if there is none.
Find(s, i, chars) ==
  LET at[j \in 1..(Len(s) + 2)] == IF j > Len(s) \/ s[j] \in chars THEN j ELSE at[j + 1]
  IN at[i]
Skip(s, i, chars) ==
  LET at[j \in 1..(Len(s) + 2)] == IF j > Len(s) \/ s[j] \notin chars THEN j ELSE at[j + 1]
  IN at[i]
TrimEnd(s)   == SubSeq(s, 1, Len(s) + 1 - Skip(Reverse(s), 1, Space))
TrimStart(s) == SubSeq(s, Skip(s, 1, Space), Len(s))

\* The first line.  The buffer for the decoded URL takes UrlSize - 1 characters.
RequestLine ==
  /\ pc = "request line" /\ LineDone
  /\ LET i == Find(line, 1, Space)               \* where the method ends,
         j == Skip(line, i, Space)               \* where the URL begins,
         k == Find(line, j, Space \cup {"?"})     \* where its path ends
     IN /\ method' = SubSeq(line, 1, i - 1)
        /\ url' = urldecode(SubSeq(line, j, k - 1))
        /\ query_string' = IF k <= Len(line) /\ line[k] = "?"
                           THEN SubSeq(line, k + 1, Find(line, k + 1, Space) - 1) ELSE <<>>
  /\ pc' = IF Len(url') < UrlSize THEN "header" ELSE "overrun"
  /\ NextLine /\ UNCHANGED <<request, rest, socket, properties, accident>>

\* Faulty variant: the first header of a name is kept.
SetPropertyOnce(key, val) ==
  properties' = [k \in DOMAIN properties \cup {key} |-> IF k \in DOMAIN properties THEN properties[k] ELSE val]
SetProperty(key, val) ==
  properties' = [k \in DOMAIN properties \cup {key} |-> IF k = key THEN val ELSE properties[k]]

\* A header: the key is trimmed, the value at its end only.  A line without
\* a colon is ignored.
Header ==
  /\ pc = "header" /\ LineDone /\ line \notin {<<>>, <<"LF">>}
  /\ LET sep == Find(line, 1, {":"}) IN
     IF sep <= Len(line)
     THEN SetProperty(TrimEnd(TrimStart(SubSeq(line, 1, sep - 1))), TrimEnd(SubSeq(line, sep + 1, Len(line))))
     ELSE UNCHANGED properties
  /\ NextLine /\ UNCHANGED <<request, rest, socket, pc, method, url, query_string, accident>>

\* The empty line, or nothing more to read; and where accept_request goes.
EndOfHead ==
  /\ pc = "header" /\ LineDone /\ line \in {<<>>, <<"LF">>}
  /\ pc' = IF method = <<"POST">> THEN "content"
           ELSE IF method = <<"GET">> THEN "callback" ELSE "unimplemented"
  /\ NextLine /\ UNCHANGED <<request, rest, socket, method, url, query_string, properties, accident>>

Done == pc \in Outcome /\ UNCHANGED vars
-----------------------------------------------------------------------------
(* What the rest of the request thread takes from the head. *)

\* The tokens between the ampersands, each cut at its first =, and of each
\* key the first.
Tokens(s) ==
  LET begins == {i \in DOMAIN s : s[i] # "&" /\ (i = 1 \/ s[i - 1] = "&")}
  IN {<<i, SubSeq(s, i, Find(s, i, {"&"}) - 1)>> : i \in begins}
KeyOf(t) == SubSeq(t, 1, Find(t, 1, {"="}) - 1)
ValOf(t) == SubSeq(t, Find(t, 1, {"="}) + 1, Len(t))
query_params ==
  LET toks == Tokens(query_string)
  IN [key \in {KeyOf(t[2]) : t \in toks} |->
        ValOf((CHOOSE t \in toks : KeyOf(t[2]) = key /\ \A u \in toks : KeyOf(u[2]) = key => t[1] <= u[1])[2])]

Digits ==
  LET all == <<"0", "1", "2", "3", "4", "5", "6", "7", "8", "9">>
  IN [d \in ToSet(all) |-> (CHOOSE i \in 1..10 : all[i] = d) - 1]
Number(s) ==
  LET upto[i \in 0..Len(s)] == IF i = 0 THEN 0 ELSE 10 * upto[i - 1] + Digits[s[i]]
  IN upto[Len(s)]
\* What is left of it in an int.  Signed overflow is undefined; the builds wrap,
\* which comes to the same after every digit or after the last one.
AsInt(n) == ((n + IntLimit) % (2 * IntLimit)) - IntLimit
NoRange  == [from |-> -1, to |-> -1]

\* from and to of serve_bin_file: -1 for what is not there.
ParseRange(val) ==
  LET i == Find(val, 1, {"="}) + 1           \* where the first number begins,
      j == Skip(val, i, DOMAIN Digits)     \* where it ends,
      k == Skip(val, j + 1, DOMAIN Digits)     \* and where the second one does
  IN IF i > Len(val) + 1 THEN NoRange
     ELSE [from |-> AsInt(Number(SubSeq(val, i, j - 1))),
           to   |-> IF j < Len(val) /\ val[j] = "-" /\ k > j + 1
                    THEN AsInt(Number(SubSeq(val, j + 1, k - 1))) ELSE -1]
range == IF <<"Range">> \in DOMAIN properties THEN ParseRange(properties[<<"Range">>]) ELSE NoRange
-----------------------------------------------------------------------------
Thread == Recv \/ RecvFails \/ Peek \/ RequestLine \/ Header \/ EndOfHead

Next == Thread \/ Lose \/ SetNonblocking \/ Shutdown \/ Done

Safety == Init /\ [][Next]_vars

\* The client has sent its request, so what is not lost arrives, and the
\* thread is scheduled.
Spec == Safety /\ WF_vars(Thread)
-----------------------------------------------------------------------------
(* What the request meant. *)

\* Nothing in a request but its body has line ends, and nothing in its first
\* line but the spaces between its three parts has spaces.
Text == Symbols \ {"CR", "LF"}
Word == Text \ {"SP"}

\* The characters of a path as they are written: plain, escaped, or lost
\* together with the percent sign in front of them.
PathChar == {<<x>> : x \in Word \ {"?", "%"}}
            \cup {<<"%", x>> : x \in Word \ ({"?"} \cup HexDigit)}
            \cup {<<"%">> \o p : p \in DOMAIN Code}
QueryParam == [key : Seq(Word \ {"&", "="}) \ {<<>>},
               val : Seq(Word \ {"&"}) \cup {None}]     \* None: without its =
Field      == [key : Word \ {":"}, val : Seq(Text)]
ByteRange  == [first : Seq(DOMAIN Digits), last : Seq(DOMAIN Digits)]

Meaning(ch) == IF Len(ch) = 3 THEN Code[Tail(ch)] ELSE IF ch[1] = "%" THEN <<>> ELSE ch
Path(r)   == FlattenSeq([i \in DOMAIN r.path |-> Meaning(r.path[i])])
Params(r) ==
  [key \in {r.query[i].key : i \in DOMAIN r.query} |->
     LET val == r.query[Min({i \in DOMAIN r.query : r.query[i].key = key})].val
     IN IF val = None THEN <<>> ELSE val]
\* Of each name the last value: RawHeaders with the whitespace in front of it,
\* which the code leaves there.
Values(ps) == [key \in DOMAIN ps |-> TrimStart(ps[key])]
RawHeaders(hs) ==
  [key \in {<<hs[i].key>> : i \in DOMAIN hs} |->
     TrimEnd(hs[Max({i \in DOMAIN hs : <<hs[i].key>> = key})].val)]
Headers(hs) == Values(RawHeaders(hs))

\* What the value of a Range header asks for: nothing, or a first byte, and a
\* last one or not.
IsAsked(val, asked) ==
  IF asked.first = <<>> THEN "=" \notin ToSet(val)
  ELSE \E n \in 0..Len(val) :
         /\ "=" \notin ToSet(SubSeq(val, 1, n))
         /\ val = SubSeq(val, 1, n) \o <<"=">> \o asked.first \o <<"-">> \o asked.last
\* A number in it is too large for an int.
Overflows(val) ==
  \E i \in 1..(Len(val) + 1), k \in 0..Len(val) :
    /\ \A j \in i..k : val[j] \in DOMAIN Digits
    /\ Number(SubSeq(val, i, k)) >= IntLimit
Asked(r) ==
  IF r.range.first = <<>> THEN NoRange
  ELSE [from |-> Number(r.range.first),
        to   |-> IF r.range.last = <<>> THEN -1 ELSE Number(r.range.last)]
\* A Range header may also ask for something else, "the last n bytes" say, or
\* be nonsense.
AsksForRange(r) ==
  IF <<"Range">> \in DOMAIN RawHeaders(r.headers)
  THEN IsAsked(RawHeaders(r.headers)[<<"Range">>], r.range)
  ELSE r.range.first = <<>>

\* range: what the last Range header asks for, if it asks for one range of
\* numbered bytes or for nothing; eol: what ends a line; body: what follows the
\* head.
ASSUME RequestAssumption ==
  \A r \in Requests :
    /\ r.method \in Word /\ r.path \in Seq(PathChar) \ {<<>>}
    /\ r.query \in Seq(QueryParam) /\ r.headers \in Seq(Field)
    /\ r.range \in ByteRange
    /\ r.eol \in {<<"CR", "LF">>, <<"LF">>, <<"CR">>} /\ r.body \in Seq(Symbols)
    /\ r.eol = <<"CR">> => ~IsPrefix(<<"LF">>, r.body)

\* Every line with its line feed is shorter than the buffer, and so is the path.
Fits(r) ==
  /\ \A i \in DOMAIN Written(r) : Len(Written(r)[i]) < LineSize - 1
  /\ Len(Path(r)) < UrlSize
Parsing == pc \in Reading
Served  == pc \in {"content", "callback", "unimplemented"}

TypeOK ==
  /\ socket \in {"open", "nonblocking", "shut"}
  /\ Len(line) < LineSize /\ c \in {"CR", "LF", Other} /\ pc \in Reading \cup Outcome
  /\ pc = "request line" => url = <<>> /\ query_string = <<>> /\ properties = <<>>
  /\ accident \in BOOLEAN

\* Whatever ends the lines, the head ends where the client ended it, and the
\* body begins there, but for one kind of line: its length is a multiple of
\* what the buffer takes, and its line end alone is taken for the empty line.
HeadEndsAtEmptyLine ==
  socket = "open" /\ Served =>
    (rest = request.body <=> \A i \in DOMAIN Written(request) :
                               Len(Written(request)[i]) % (LineSize - 1) # 0)

\* A request whose lines fit is understood as it was meant, escapes in any
\* order, repeated names and colons in values included, but for the whitespace
\* in front of the values of headers.
ParsedAsMeant ==
  socket = "open" /\ Fits(request) =>
    /\ pc # "overrun"
    /\ Served => /\ method = <<request.method>> /\ url = Path(request)
                 /\ query_params = Params(request) /\ Values(properties) = Headers(request.headers)

\* A head that is cut off is served all the same; what it is understood as is
\* then what the client had sent so far, a last value cut short included,
\* unless Kill made the thread go on behind the cut.
CutIsPrefix ==
  Served /\ ~accident /\ Fits(request) =>
    /\ IsPrefix(url, Path(request))
    /\ \A key \in DOMAIN query_params :
         \E i \in DOMAIN request.query :
           \/ IsPrefix(key, request.query[i].key) /\ query_params[key] = <<>>
           \/ key = request.query[i].key /\ IsPrefix(query_params[key], request.query[i].val)
    /\ \/ properties = <<>>
       \/ \E n \in DOMAIN request.headers : \E m \in 0..Len(request.headers[n].val) :
            Values(properties) = Headers([SubSeq(request.headers, 1, n) EXCEPT ![n].val = SubSeq(@, 1, m)])

\* Whatever came of the header, the range has the form that ServeFile assumes of
\* the requests it gets, and where one was asked for it is that one, unless the
\* header has a number in it that is too large for an int.
RangeAsAsked ==
  \/ <<"Range">> \in DOMAIN properties /\ Overflows(properties[<<"Range">>])
  \/ /\ range.from >= -1 /\ range.to >= -1 /\ (range.from = -1 => range.to = -1)
     /\ socket = "open" /\ Served /\ Fits(request) /\ AsksForRange(request) => range = Asked(request)

\* What the request thread makes of a head is what the client sent: all of it
\* when its lines fit, the beginning of it when the connection broke without
\* Kill cutting a line, up to whitespace in front of values, and in either case
\* with a range that serve_bin_file can work with, unless a number overflows.
UnderstoodAsSent == ParsedAsMeant /\ CutIsPrefix /\ RangeAsAsked

\* Parsing ends, however the connection does.  One head is waited for, though
\* the comment before get_line lets lines end in carriage returns alone: one
\* that does, with nothing behind the last of them.
HeadEnds == (request.eol # <<"CR">> \/ request.body # <<>> \/ socket = "shut") ~> ~Parsing
=============================================================================
