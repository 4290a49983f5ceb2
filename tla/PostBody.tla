------------------------------ MODULE PostBody ------------------------------
(***************************************************************************)
(* get_content of src/MiniHttpDaemon.cpp: the body of a POST, plain or     *)
(* multipart, received in pieces of any size through a buffer that keeps   *)
(* what could not be used yet.  A step is one iteration of its loop: one   *)
(* recv and what is done with the bytes at hand.                           *)
(*                                                                         *)
(* Where the pieces are cut is all that matters here, so a body is a       *)
(* sequence of symbols: a text, in which the boundary does not occur, a    *)
(* part's headers as one symbol, the boundary as another, and the line     *)
(* ends and the dashes of the markers byte by byte.                        *)
(* decipio registers no upload callback: the contents of a part with a     *)
(* filename go nowhere.  The build is a Release build, without assertions.  *)
(***************************************************************************)
EXTENDS Integers, SequencesExt

CONSTANTS BufSize,   \* bufsize, 32768 in the code; the buffer has twice that
          Forms      \* the bodies sent, as [multipart, parts]

ASSUME BufferAssumption == BufSize \in Nat \ {0}
VARIABLES
  form,          \* the body being received
  rest,          \* bytes owed: Len(rest) is remain
  closed,        \* the peer has closed, or Kill has shut the socket down
  buf,           \* the buffer up to readpos
  bss,           \* "find" is BSS_FIND_START, "content" BSS_GET_CONTENT
  isFile,        \* thefilename is not empty
  post_data,
  pc,            \* "reading", or how the loop ended
  accident       \* ghost: the first cut that the code does not cope with

vars == <<form, rest, closed, buf, bss, isFile, post_data, pc, accident>>

Outcome == {"returned",      \* all bytes were received and used
            "aborted",       \* recv failed, the caller goes on all the same
            "overrun",       \* the buffer is full, recv writes behind it
            "terminated"}    \* std::string got a negative length and threw

CRLF == <<"CR", "LF">>
HeadersEnd == CRLF \o CRLF
Start(f) == <<"-", "-">> \o (IF f.multipart THEN <<"B">> ELSE <<>>) \o CRLF
End(f)   == <<"-", "-">> \o (IF f.multipart THEN <<"B">> ELSE <<>>) \o <<"-", "-">>

\* A browser takes a boundary that none of the texts contains; a plain text is
\* taken for a part if the marker without a boundary begins a piece of it.
ASSUME FormAssumption ==
  \A f \in Forms :
    /\ f.multipart \in BOOLEAN /\ f.parts \in Seq(ToSet(f.parts))
    /\ \A part \in ToSet(f.parts) : part.file \in BOOLEAN /\ part.text \in Seq(ToSet(part.text))
    /\ f.multipart => \A part \in ToSet(f.parts) : "B" \notin ToSet(part.text)
    /\ ~f.multipart =>
         /\ Len(f.parts) = 1 /\ ~f.parts[1].file
         /\ \A i \in 1..(Len(f.parts[1].text) - Len(Start(f)) + 1) :
              SubSeq(f.parts[1].text, i, i + Len(Start(f)) - 1) # Start(f)

boundry_start == Start(form)
boundry_end   == End(form)

\* What a browser sends.
Message(f) ==
  IF ~f.multipart THEN f.parts[1].text
  ELSE FlattenSeq([i \in DOMAIN f.parts |->
                     Start(f) \o <<IF f.parts[i].file THEN "filename" ELSE "name">> \o HeadersEnd
                              \o f.parts[i].text \o CRLF])
       \o End(f) \o CRLF

\* What of it belongs into post_data.
Saved(f) == FlattenSeq([i \in DOMAIN f.parts |-> IF f.parts[i].file THEN <<>> ELSE f.parts[i].text])

Init ==
  /\ form \in Forms /\ rest = Message(form) /\ closed = FALSE
  /\ buf = <<>> /\ bss = "find" /\ isFile = FALSE /\ post_data = <<>>
  /\ pc = "reading" /\ accident = "none"
-----------------------------------------------------------------------------
\* memmem: where t begins in s for the first time, 0 if nowhere.
memmem(s, t) ==
  LET hits == {i \in 1..(Len(s) - Len(t) + 1) : SubSeq(s, i, i + Len(t) - 1) = t}
  IN IF hits = {} THEN 0 ELSE Min(hits)

Note(what, happened) == accident' = IF happened /\ accident = "none" THEN what ELSE accident

\* The loop condition, and what one recv may bring: nothing once no byte is
\* owed.
Looping == pc = "reading" /\ (rest # <<>> \/ buf # <<>>)
Pieces ==
  IF rest = <<>> THEN {<<>>}
  ELSE {SubSeq(rest, 1, k) : k \in 1..(IF Len(rest) < BufSize THEN Len(rest) ELSE BufSize)}

Recv(piece) ==
  /\ Looping /\ (closed => rest = <<>>)
  /\ Len(buf) + Len(piece) <= 2 * BufSize
  /\ rest' = SubSeq(rest, Len(piece) + 1, Len(rest))
  /\ UNCHANGED <<form, closed>>

Long(data)    == Len(data) > Len(boundry_start) + 4
AtStart(data) == Long(data) /\ IsPrefix(boundry_start, data)
Headers(data) == SubSeq(data, Len(boundry_start) + 1, Len(data))

\* "not enough data": everything stays in the buffer.  In a body that is not
\* multipart nothing ever takes it out again.
KeepReading(piece) ==
  /\ bss = "find" /\ Recv(piece)
  /\ LET data == buf \o piece IN
     /\ \/ ~Long(data)
        \/ AtStart(data) /\ memmem(Headers(data), HeadersEnd) = 0
        \/ Long(data) /\ ~AtStart(data) /\ Len(piece) # Len(data)
     /\ buf' = data
  /\ isFile' = FALSE /\ Note("short", ~form.multipart)
  /\ UNCHANGED <<bss, post_data, pc>>

\* Faulty variant: stored whether or not the buffer held some of it already.
StoreRawAgain(piece) ==
  /\ bss = "find" /\ Recv(piece)
  /\ LET data == buf \o piece IN
     /\ Long(data) /\ ~AtStart(data)
     /\ post_data' = post_data \o data /\ buf' = data
  /\ isFile' = FALSE
  /\ UNCHANGED <<bss, pc, accident>>

\* No marker in front and nothing buffered: this is plain data.
StoreRaw(piece) ==
  /\ bss = "find" /\ Recv(piece)
  /\ LET data == buf \o piece IN
     /\ Long(data) /\ ~AtStart(data) /\ Len(piece) = Len(data)
     /\ post_data' = post_data \o data
  /\ isFile' = FALSE
  /\ UNCHANGED <<buf, bss, pc, accident>>

\* A marker at m ends the contents of the part: write_len leaves out the line
\* end before it, and is negative when that was stored already.
StoreUpTo(data, m, file) ==
  /\ post_data' = IF file THEN post_data ELSE post_data \o SubSeq(data, 1, m - 3)
  /\ pc' = IF ~file /\ m < 3 THEN "terminated" ELSE "reading"

\* Faulty variant: the end marker stays in the buffer.
AfterEndKept(data) == buf' = data
AfterEnd(data) == buf' = <<>>

\* maxsearchlen - 1 bytes stay, in which a marker may have begun.  The faulty
\* variant keeps one less.
KeptOneLess == Max({Len(boundry_start), Len(boundry_end)}) - 2
Kept == Max({Len(boundry_start), Len(boundry_end)}) - 1

\* Contents: data is what follows the headers in whole, or all of it.  The
\* last case keeps as many bytes as data has, but the first ones of whole.
Content(whole, data, file) ==
  LET s == memmem(data, boundry_start)
      e == memmem(data, boundry_end)
  IN \/ /\ s # 0 /\ StoreUpTo(data, s, file)
        /\ bss' = "find" /\ buf' = SubSeq(data, s, Len(data))
        /\ UNCHANGED accident
     \/ /\ s = 0 /\ e # 0 /\ StoreUpTo(data, e, file)
        /\ bss' = "content" /\ AfterEnd(data)
        /\ Note("late", rest' # <<>>)
     \/ /\ s = 0 /\ e = 0 /\ Len(data) > Kept
        /\ post_data' = IF file THEN post_data ELSE post_data \o SubSeq(data, 1, Len(data) - Kept)
        /\ bss' = "content" /\ buf' = SubSeq(data, Len(data) - Kept + 1, Len(data))
        /\ UNCHANGED <<pc, accident>>
     \/ /\ s = 0 /\ e = 0 /\ Len(data) <= Kept
        /\ bss' = "content" /\ buf' = SubSeq(whole, 1, Len(data))
        /\ Note("unmoved", buf' # data)
        /\ UNCHANGED <<pc, post_data>>

\* A marker and complete headers: a part begins, and its contents follow.
BeginPart(piece) ==
  /\ bss = "find" /\ Recv(piece)
  /\ LET data == buf \o piece
         h == memmem(Headers(data), HeadersEnd)
     IN /\ AtStart(data) /\ h # 0
        /\ isFile' = (memmem(SubSeq(Headers(data), 1, h - 1), <<"filename">>) # 0)
        /\ Content(data, SubSeq(Headers(data), h + 4, Len(Headers(data))), isFile')

ContinuePart(piece) ==
  /\ bss = "content" /\ Recv(piece)
  /\ Content(buf \o piece, buf \o piece, isFile)
  /\ UNCHANGED isFile

\* recv is told to write more than the buffer has room for.
Overrun(piece) ==
  /\ Looping /\ ~closed
  /\ Len(buf) + Len(piece) > 2 * BufSize
  /\ pc' = "overrun"
  /\ UNCHANGED <<form, rest, closed, buf, bss, isFile, post_data, accident>>

Return ==
  /\ pc = "reading" /\ rest = <<>> /\ buf = <<>>
  /\ pc' = "returned"
  /\ UNCHANGED <<form, rest, closed, buf, bss, isFile, post_data, accident>>

\* recv returns less than 0: the loop is left.
RecvError ==
  /\ Looping /\ pc' = "aborted"
  /\ UNCHANGED <<form, rest, closed, buf, bss, isFile, post_data, accident>>

\* The peer closes; from then on recv returns 0, and the loop yields.
PeerCloses ==
  /\ pc = "reading" /\ ~closed /\ closed' = TRUE
  /\ UNCHANGED <<form, rest, buf, bss, isFile, post_data, pc, accident>>
EmptyRead ==
  /\ pc = "reading" /\ closed /\ rest # <<>>
  /\ UNCHANGED vars

Done == pc \in Outcome /\ UNCHANGED vars
-----------------------------------------------------------------------------
Iterate ==
  \/ \E piece \in Pieces : KeepReading(piece)
  \/ \E piece \in Pieces : StoreRaw(piece)
  \/ \E piece \in Pieces : BeginPart(piece)
  \/ \E piece \in Pieces : ContinuePart(piece)
  \/ \E piece \in Pieces : Overrun(piece)

Next == Iterate \/ Return \/ RecvError \/ PeerCloses \/ EmptyRead \/ Done

Safety == Init /\ [][Next]_vars

\* A peer may stall for ever; with no byte owed recv returns at once, and the
\* thread only has to be scheduled.
Spec == Safety /\ WF_vars(rest = <<>> /\ (Iterate \/ Return))
-----------------------------------------------------------------------------
\* post_data never has more bytes than were sent.
TypeOK ==
  /\ form \in Forms /\ IsSuffix(rest, Message(form)) /\ closed \in BOOLEAN
  /\ Len(buf) <= 2 * BufSize /\ bss \in {"find", "content"} /\ isFile \in BOOLEAN
  /\ Len(post_data) + Len(buf) + Len(rest) <= Len(Message(form))
  /\ pc \in {"reading"} \cup Outcome /\ accident \in {"none", "short", "late", "unmoved"}

\* Whatever the pieces, and wherever the connection breaks, post_data is a
\* beginning of what was to be saved, with at most the line end of a part
\* behind it; one cut excepted, headers followed by too little contents.
StoredIsPrefix ==
  accident # "unmoved" =>
    \E n \in 0..2 :
      /\ IsSuffix(SubSeq(CRLF, 1, n), post_data)
      /\ IsPrefix(SubSeq(post_data, 1, Len(post_data) - n), Saved(form))

\* When all bytes were used post_data is complete: get_content never returns
\* with something missing, that cut excepted.
ReturnedIsWhole == pc = "returned" /\ accident # "unmoved" => post_data = Saved(form)

\* However a body is cut into pieces, get_content stores what was sent: a
\* beginning of it at any time, and all of it when the loop ends by itself.
StoredAsSent == StoredIsPrefix /\ ReturnedIsWhole

\* Once all bytes have arrived the loop ends, unless one of three cuts left
\* bytes in the buffer that nothing takes out.
EndsOnceReceived == rest = <<>> ~> (pc # "reading" \/ accident # "none")
=============================================================================
