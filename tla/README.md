# Verification of decipio

decipio is a game trainer for Windows: a small web server embedded in the
program serves a page, and the page's requests scan and change the memory of
another process. This directory holds TLA+ models of its core, the TLC
instances that check them, and proofs checked by TLAPS. Source references are
to `src/`.

## 1. Inventory

| Part | State | Operations | Interacts by |
| --- | --- | --- | --- |
| `MiniHttpDaemon` life cycle (`MiniHttpDaemon.cpp:1340-1680`) | `thread_started`, `thread_shouldrun`, `server_sock`, `port`, `activeClients`, the sockets | `Start`, `Stop`, destructor, server thread | unsynchronised fields of `MiniHtmlInfo_t`; only `activeClients` has a mutex |
| Client requests (`MiniHttpDaemon.cpp:128-1165`) | `AcceptRequest_t`, post buffer, byte counters, `incomplete2size` | headers, `get_content`, `serve_bin_file`, end of the request | one thread per connection, callback into the web interface |
| Web interface (`WebInterface.cpp`) | `g_TheProcess`, `g_AddressList`, a critical section | config, processes, select-process, search, list, get, set | called on request threads; only search is locked |
| `CProcess` (`process_util.cpp`) | `m_ScanCount`, `m_LastScanIsFullDump`, `m_IsOpened`, `m_ProcessHandle`, two result files | `Search`, `Open`, `Close`, `GetValue`, `SetValue` | reads a process that keeps running |
| `findfast` (`searching.cpp`) | none | byte search | called for unaligned searches only |
| Page (`www/index.html`) | view state, results, presets | a timer of one second, user actions, replies | HTTP requests, several at a time |
| Application, dialog, log | none that matters here | owns one `DecipioWebInterface` | `Start` and the destructor |

What is hard in it, with lines, is the list `hazards` of `PROJECT.json`. In
short: a server whose threads share flags without a lock and whose `Stop` races
with its own start-up; a request object that deletes itself and is registered
by another thread after it was started; a global process object that every
request uses and replaces; a search whose result file changes format, over
memory that changes while it is read; a page whose timer and clicks send requests
that are answered in any order.

What makes each part correct:

- *daemon*: nothing outlives `Stop`, since the destructor frees what the threads
  use; nobody closes a socket that is not theirs; the listener is released;
  calls return.
- *posted bodies*: however the connection cuts a body, what is stored is the body,
  and reading it ends.
- *web interface*: what overlapping requests do to the shared object never
  outlasts the overlap; searches exclude each other; handles are closed when requests
  come one at a time; every request is answered. The unprotected initialisation of the
  critical section breaks the second and the last, and is the only thing that does.
- *request heads*: what is understood is what was sent, the body begins where the
  head ends, and parsing ends, however the connection does.
- *served files*: the body sent is the part asked for, in order and as long as
  announced, although the file grows and its registration changes meanwhile; a
  request whose socket is shut down ends.
- *page*: what it shows and what it writes belongs to the process and the address
  it is shown or written for.
- *region walk and byte search*: the regions are disjoint and complete, the matches
  true and, but for one place, all of them; both end.
- *search*: results are true of the target at some moment of the scan, steady
  values are not missed, candidates only narrow, file, flag, count and list agree.

## 2. Modules

| Module | Models |
| --- | --- |
| `MiniHttpDaemon` | owner, server thread and request threads of the daemon |
| `MiniHttpDaemonProofs` | theorems about it |
| `CandidateSearch` | abstract: a set of candidates that only narrows |
| `ProcessSearch` | `CProcess::Search`, the files and the list; implements `CandidateSearch` |
| `WebInterface` | the request handlers over the shared `CProcess` |
| `PostBody` | `get_content`: one posted body, received in pieces |
| `RequestHead` | `get_line`, `parse_headers`, `urldecode`: the head of a request, on a connection that may break |
| `ServeFile` | `serve_bin_file`: files that grow, ranges, the registry of incomplete files |
| `WebUi` | the page, over a server that handles one request at a time |
| `RegionScan` | `RescanRegions`, query by query |
| `UnalignedSearch` | extends `RegionScan`: `findfast` in the buffers of the regions |
| `UnalignedSearchProofs` | theorems about the walk and about `findfast` |
| `ProcessSearchProofs`, `WebInterfaceProofs`, `RequestHeadProofs`, `PostBodyProofs`, `ServeFileProofs`, `WebUiProofs` | theorems about these modules |
| `MCMiniHttpDaemon`, `MCProcessSearch`, `MCWebInterface`, `MCPostBody`, `MCRequestHead`, `MCServeFile`, `MCWebUi`, `MCUnalignedSearch` | instances for TLC |

The modules meet at these places: a request thread of `MiniHttpDaemon` runs
`RequestHead`, then `PostBody` for a post, then `WebInterface` or `ServeFile`;
`RangeAsAsked` of `RequestHead` is what `RequestAssumption` of `ServeFile` takes for
granted (for numbers an int can hold), and `HeadEndsAtEmptyLine` what `PostBody` does when it starts with a whole body; `WebUi` takes from `WebInterface` and
`ProcessSearch` what a request does that runs alone; `ProcessSearch` takes the list
of regions that `RegionScan` shows to be sound.

Each module keeps *faulty variants* of some actions next to the originals, named
for the fault. They are not part of any specification; putting one in the place
of its original must make the property it is meant for fail.

Three properties are conjunctions of named parts, which the text below also cites:
`UnderstoodAsSent` of `RequestHead` is `ParsedAsMeant`, `CutIsPrefix` and
`RangeAsAsked`; `BodyAsAnnounced` of `ServeFile` is `BodyInOrder`, `FinishedIsWhole`
and `InsideBuffer`; `StoredAsSent` of `PostBody` is `StoredIsPrefix` and
`ReturnedIsWhole`.

### 2.1 MiniHttpDaemon

One variable per shared field (same names as the code) and a control point per
thread. `owner` runs `CallStart`..`StartReturns`, then
`CallStop` or `Destroy`, `ClaimSock`, `ClearSock`, `CloseSock`, `Join`; `server`
runs `Boot`, `Reset`, `OpenListener`, `BindOk`/`BindFail`, `ListenOk`, `Publish`,
the accept loop (`LoopTest`, `CallAccept`, `AcceptConn`/`AcceptFail`, `SpawnThread`,
`InsertClient`) and the shutdown (`KillAll`, `WaitClients`, `CheckSock`,
`CloseListener`, `ClearListener`, `Finish`); a client is served and ends in
`FinishClient`. Each action is one access to an unprotected shared field or one
critical section. Points worth knowing:

- `server_sock` and `thread_shouldrun` are not initialised by the constructor, so
  they start with any value.
- A freed `AcceptRequest_t` keeps its old socket number: `KillAll` on a deleted
  entry may shut that handle down or do nothing.
- `ErrorDie` is `exit(1)` (`DEBUG_LOG` is 1): `server` becomes `"exited"` and
  nothing moves any more.
- `EnterSpin` stands for the two loops that retry an empty read for ever
  (`get_content` 685-699, `serve_bin_file` 407-457). How a request gets there is
  not modelled here: any request may. `PostBody` shows how for `get_content`.
- The ghosts `lost` and `raced` record the two accidents by name: `Stop` overwrote
  a listener it had not read, and a client ended before it was registered.

### 2.2 ProcessSearch and CandidateSearch

The target has `Pages` pages of `PageWords` words; `Poke`, `Unmap` and `Map` may
happen between any two reads, because the code does not suspend it. A result
file is a sequence of chunks of records: one chunk per region for a dump, one
per record for a list, so that the two refinement loops of the code are one
action. `BeginSearch` opens the files (and `RescanRegions` on the first scan),
`ScanRegion` and `RefineChunk` are one `ReadProcessMemory` each with everything
done with its bytes, `EndSearch` moves the files and updates count and flag,
`Select` is a new `CProcess`, whose flag is uninitialised. `held` is a ghost: the
values each address had since the scan began. `m_ScanCount` stays at `MaxScans`,
which is harmless because the code only compares it with zero;
`m_CurrentMatchCount` is left out because nothing reads it but its own update.
`m_AddResultsCB` is the test of the list's length: it is removed exactly when
the list is full and set again when a search clears the list.

`GetRegionMemory` allows what the code allows after error 0x12B: a buffer filled
up to the first page that is gone and arbitrary behind it.

`MayRefresh` is the page's rule, refresh while its last result has 1 to 99 matches,
a result that a restart of the search does not clear. Since a page of memory has
1024 words, a dump is never refreshed by it; `RefreshAssumption` keeps that
relation between the small constants. `AnyRefresh = TRUE` drops the rule. That the
page sends no refresh at all before a search has left results is checked in `WebUi`.

### 2.3 WebInterface

Request threads run `MyFileHandler`; each use of `g_TheProcess` loads it again, and
a step is one call through it or, in `CProcess`, one access to a field that other
requests change meanwhile. `Open` stores the handle over the one that is there, and
`Opened` looks at it (a compiler may or may not read the field again) and sets
`m_IsOpened`. `Close` is three steps: the test (`Close`), `CloseTheHandle`, which closes
whatever handle is there by then, and `Clear`; two closes may hit one handle. `Delete` to
`New` are select-process, with the close in the destructor. `this` is the object that a
method runs on, whatever `g_TheProcess` is by now. `Search` is two steps here (`Use`,
then `Scan`): what it does inside is `ProcessSearch`. Overlapping requests do misuse the
object (a deleted `CProcess`, a handle of the wrong access, one closed twice): the model
lets them, and the ghost `broken` blames only a request that nothing overlapped. What
the heap makes of a double delete is not modelled. The number of process handles, `Hnd`,
bounds how many may leak; when they are used up `Open` fails.

`Enter` and `Leave` are the critical section, `TestInit` and `InitLock` its unprotected
initialisation. A second `InitializeCriticalSection` while somebody is inside
(`reinitialized`) makes the section look free. From then on the model allows what
Windows says of such a section: whoever waits for it may wait for ever (`Starve`), and
leaving it without owning it may free it under its holder or not (`Leave`).
`SearchesExclusive` and `RequestsFinish` except what happens after that accident and
nothing else.

### 2.4 PostBody

One step is one iteration of the loop: a `recv` of any number of bytes up to
`bufsize`, and what is done with them. `rest` is what `remain` counts, `buf` the
first `readpos` bytes of the buffer, `bss`, `isFile` and `post_data` are the
variables of the code. The five disjuncts of `Iterate` are the ways through one
iteration: `KeepReading` (the three "not enough data"), `StoreRaw` (no marker, plain
data), `BeginPart` (marker and headers, followed by contents), `ContinuePart`
(contents only) and `Overrun`, a `recv` that is told to write behind the buffer.
`Content` has one disjunct per case: marker of the next part, end marker, enough
contents, too little of them. `RecvError`, `PeerCloses` and `EmptyRead` are a
connection that breaks or closes; the code tells neither to its caller.

Bytes are symbols. Markers and line ends are spelled out, because a piece may end
inside them; the headers of a part are one symbol, which is "filename" for a
file; contents may have dashes and line ends but not the boundary, which is one
symbol. It is missing in a plain body, for which the code searches `--` and a line
end all the same: a plain text that holds them is left out. The Content-Length is right. decipio registers no upload
callback, so the contents of files are dropped.

Three cuts are not coped with, and the ghost `accident` names the first:

- `short`: a plain body begins with a piece of at most eight bytes;
- `late`: bytes follow the end marker in a later piece, which is then contents;
- `unmoved`: headers are followed by less contents than a marker is long, and the
  buffer keeps its first bytes in the place of them.

After `short` and `late` nothing wrong is stored, but the loop may not end; after
`unmoved` the wrong bytes are stored. The properties allow exactly that, and so
claim that every other cut is harmless. One more is visible in the outcomes: when
a piece ends inside a marker the line end before it may be stored already, and
`write_len` is negative (`"terminated"`: the exception leaves the thread function).

### 2.5 ServeFile

Every thread serves one request, from the test in `accept_request` (1007-1015) on:
`Dispatch` and `Stat` are the two calls of `stat`. The lookup in `incomplete2size` takes
no mutex, so each access is a step: `Find` (365), the three reads of the size `Test`
(369), `Compare` (372) and `Take` (379), and `Erase` (375). `Headers` sends the size announced, and a turn of the loop is `Read` (or `ReadNothing`, `Vanish`) and `Send`
(or `SendError`). A resource holds at position p the byte p, so that a body is a
sequence of positions, and a gap, a repetition or a byte from behind the end shows.
The owner of the file writes it (`Grow`), registers it as incomplete or complete
and deletes it at any time. A registration is two steps as well: the lookup
(`RegisterIncompleteFile`, `RegisterFile`) and the insertion or the assignment through
the iterator (`Store`). `SetNonblocking` and `Shutdown` are the two steps of
`Kill`; from the first one on `send` may take a part of what it is given.

`find`, `insert` and `erase` of the map are one step each: what overlapping changes
do to the inside of a `std::map` is not modelled. An erase makes the iterators of the
others dangle. Using one then is undefined: it may read `Garbage`, write into nothing,
take out what was registered since, or `Crash` the program at any time. The ghost
`accidents` names the three ways in which a registration is lost (`registered again`
between a request's comparison and its erase, `registration lost` between the owner's two
steps, `erased twice`), and `overtaken` marks a request under whose lookup the entry was
erased or declared complete. The owner is one thread; decipio itself registers no
incomplete file: this is what the class offers. Requests come from the constant
`Requests`, a range as the header parser leaves it (`from`, `to` or -1).

A size of -1 is what `TypeOK` allows a request that was overtaken, and `registered
again` is a removal of a file that is not complete: two comments of the code say
otherwise (section 3). `InsideBuffer` excepts a range that names an end behind a result in
memory: the code then copies from behind the buffer.

### 2.6 WebUi

The variables of the page have its names; `User` is the disjunction of the
buttons, each with the views that have it, `Tick` is the timer, `Handle` a request
at the server and `Receive` the reply's callback. `net` is a set: requests and
replies overtake each other. A value is the place it was read from, a process and
an address, so an entry shows a wrong value when it shows that of another place.
`selectedAddress.at` keeps what JavaScript does by reference: whether the entry in
the editor is an element of the presets (`addToPresets` copies all of them but the
one it adds). A row of the candidates that has been added is still the object that is the
preset, until the next list or the next copy: `SelectCandidate` leaves open which it is.
In a process without presets lines 333 and 365 throw. In the presets view nothing else
would be sent, and otherwise everything has been sent by then; the timer goes on. So it
is the same as an empty list, and `Tick` does not tell them apart. The model begins when the configuration has been loaded; every
process has a file name of its own, and presets start out empty.

The server is atomic here: select, search, refresh, list, get and set do what
`WebInterface` shows they do when nothing overlaps them. A search that follows one
with few matches has few or none; `Match` tells "few" (the timer refreshes) from
"many".

The page does not cope with every order. `accidents` names the crossings in which
something goes wrong, and each property says that nothing goes wrong without:

- `selected over`: a process is selected while requests of the timer are under way;
- `refreshed over`: a refresh is under way together with a select or a search;
- `no search`: Back in the editor shows the refine view though no search of the
  selected process has a list (the editor was reached through the presets);
- `edited over`: another entry is put into the editor while a get for it is under way;
- `shifted`: a preset is removed while gets for presets are under way.

A behaviour is followed up to its first accident. One bound is on the user: a
select or search is not clicked while an earlier one, or its list, is unanswered.

### 2.7 RegionScan and UnalignedSearch

A step of `RegionScan` is one `VirtualQueryEx` and the turn of the loop that uses
its answer; the target may remap any page between two of them (`Remap`). The system
may cut a run of equal pages into regions anywhere, and does so at `kernelBase`, where
an allocation begins. `NextAddress` is the sum in an `unsigned long`. The ghost
`steady` holds the pages writable since the walk began.

`UnalignedSearch` continues with every region listed: reading it fails, or gives a
buffer with any contents (which covers partly read ones). `Compare` is one turn of
the loop of `findfast`; an index behind the buffer may hold any byte. `Returned` is
the loop in `Search` around it. No request asks for an unaligned search: it is an
operation of the class.

### 2.8 RequestHead

A step is one `recv` of `get_line` (`Recv`, `RecvFails`, or `Peek` after a carriage
return) or what `parse_headers` does with a finished line (`RequestLine`, `Header`,
`EndOfHead`). The connection may be lost after any character with any part of what
was under way (`Lose`), or be killed in two steps. `query_params` and `range` are
what `accept_request` and `serve_bin_file` compute from the head later on.

Characters are symbols; a method, the version and the names of headers are one
symbol each. An escape is written out, and the hexadecimal digits are those that
the escapes in use need; `Symbols` is the set of all characters. `rest` is what was sent and not yet received. The client
sends its request at once; whether it arrives in pieces makes no difference to a
reader that takes one character at a time.

Writing behind `_url` ends a behaviour as `"overrun"`. `accident` says that data
came too late for a nonblocking socket, so that a line was cut in two; it may
happen once (the bound in `Fails`). The code trims a value at its end only, although a
comment says that it begins behind the whitespace (section 3).
`RawHeaders` is a header with that whitespace, `Headers` what was meant, and
`UnderstoodAsSent` compares what is behind the whitespace (`Values`). A range of the last n bytes (`bytes=-n`) is read
as the range from 0 to n. `from` and `to` are ints and wrap (`AsInt`) when a number is
`IntLimit` or more, so a range behind the second gigabyte can come out negative;
`RangeAsAsked` excepts headers with such a number (`Overflows`).

`RequestAssumption` is the form of the requests that the properties are about. A path
is a sequence of `PathChar`: plain characters, the escapes of `Code`, and a percent sign
with one character behind it that is no digit of an escape, which the code drops
together with it (a percent sign with one digit behind it and no second one is left
out, and so are escapes of other characters, for which `urldecode` does the same as for
those of `Code`). Words of the first line have no spaces in them, names of headers no
colon, and no line has a line end in it. A Range header may hold anything: `AsksForRange` says whether
the last one is without an equals sign or `unit=first-last` with a first byte, and only
then is a range of the request's compared with it. A body does not begin with a line feed when lines end in a carriage return alone,
since nobody could tell whose it is.

## 3. Runs

| Run | Bounds | Shows |
| --- | --- | --- |
| `daemon` | 2 clients, 3 handles | 139 thousand states; the invariants and `CallsReturn` |
| `daemon_registration_race` | same | violated: a client ends before it is registered |
| `search` | 3 pages of 2 words, values 0..2, list of 2, 2 steps of the target | 664 thousand states; soundness, completeness, file/list agreement, refinement |
| `search_any_refresh` | values 0..1, 1 step, any refresh | violated: a dump is read as a list |
| `web` | 2 requests, 2 objects, 2 handles, symmetric | 471 thousand states; lone requests work, searches exclude each other, handles are closed |
| `web_live` | 2 requests, 2 objects, 1 handle | 487 thousand states; every request ends but for the accident |
| `web_locked_values` | as `web` | violated: a set uses a handle it cannot write with |
| `post` | buffer for two reads of 12 bytes, texts of 1 to 26 bytes, forms of up to 2 parts of 0, 1, 3 or 6 bytes, or of dashes and line ends | 64 thousand states; what is stored, and when the loop ends |
| `head` | lines of 15, a URL of 12, paths of up to 3 characters, 3 line ends, up to 2 headers, ints below 30 | 480 thousand states; what is understood of a head, and that parsing ends |
| `serve` | 2 requests, a file of up to 3 bytes or a result of 3, buffer of 2 | 568 thousand states; order and length of bodies, registry and size announced, end of killed requests |
| `ui` | 2 processes, 2 addresses, 2 presets, 3 requests and replies under way, symmetric | 1.7 million states; candidates, values and writes belong where they are |
| `raw` | 4 pages of 4 bytes, kernelBase at the last one, 2 byte values | 1.3 million states; the walk and `findfast` |

Why the bounds are enough:

- *daemon*: two slots give two clients at a time and one being reused; three
  handles cover a listener and two clients, and with them all taken the reuse
  of a number by a stale close. The number of `Start`/`Stop` rounds is not bounded.
- *search*: three pages make one to three regions, a region torn by a lost page
  with readable ones behind it, and pages that come back; the list overflows with
  three matches; two steps of the target are a value that changes and changes
  back, or a page unmapped and mapped again within a scan. `MaxActivity` bounds
  only the target.
- *web*: every accident of the shared object is between two requests; a third
  only repeats them.
- *post*: all cuts are tried. A marker has 5 bytes, so contents of 0 to 6 bytes lie
  below and above what the code keeps back; a form of two parts is longer than
  two reads, and the longest text longer than the whole buffer, which therefore
  overruns. A read is longer than the headers and markers together, as in the code.
  Contents of dashes and line ends are the ones in which a marker seems to begin.
- *head*: the lengths of the line that varies lie below, at and above one and two
  times what the buffer takes, for the request line and for a header. Paths mix
  plain characters, escapes (of a percent sign and of NUL as well) and broken escapes
  in every order of three. Two headers may have one name or two.
- *serve*: a file of up to three bytes is shorter or longer than what a range asks for,
  equal to its goal or not, and read in one or two pieces; a result of three bytes
  needs two turns of the loop. What requests share is the entry of the registry, where
  two of them and the owner meet. The first one is of every kind and may be killed
  (`OneKilled`); the range of the other begins behind the file, so that what it sends
  adds no states. An erased entry reads as -1, 0 or a goal.
- *ui*: everything concerns the process selected now and the one before, an entry
  and another one. Three requests and replies let a get, a set and a click cross.
  `Seen` merges states that differ in `oldState` where it is not read.
- *raw*: buffers of 4, 8 and 12 bytes: one, two and three pages. The length of the
  pattern is the code's. Two byte values give patterns with and without each.
  The top and kernelBase are apart, so the walk ends in both ways.

Deadlock is checked in every run but `ui`, where the bounds on what is under way
and on the user may leave nothing to do. A stopped daemon may be started again, and
`Done` stutters when the process is over.

**Fairness.** Daemon: threads are scheduled (weak fairness of the owner inside a
call and of the server thread), `accept` on a closed handle fails, and a request
whose socket was shut down ends. No fairness for new connections, for a request
with an open socket, or for the owner's next call. Web interface: weak fairness
of handler steps, and strong fairness of `Enter`, because Windows critical
sections let every waiting thread in eventually, as long as they are used properly:
where they are not, `Starve` takes the thread out of its reach. Posted bodies: the peer owes
nothing, so only a loop that waits for no more bytes is weakly fair; its `recv`
returns at once. Request heads: what was sent and not lost arrives, and the thread
runs. Served files: threads that are ready run; `send` may block for
as long as the peer does not read, until the socket is shut down. Unaligned search:
the searching thread runs, and the target may remap its memory for ever. The
other properties need none.

### Disagreements found

Three statements of the repository are refuted by a run; `findings` in
`PROJECT.json` quotes them.

1. `MiniHttpDaemon.cpp:1157` takes an unregistered client for weird. It is the
   normal outcome when a request ends before line 1580 runs, and the deleted
   request then stays registered: the next `Stop` uses freed memory and its join
   never returns. `DanglingOnlyByRace` and its theorem say that there is no other
   way to get there.
2. `process_util.cpp:514`: a refresh after a dump makes the next search misread
   the file. The page's rule makes this rare, the server does not prevent it.
3. `index.html:362` wants locked values set as long as the process runs. The
   requests of one tick disturb each other's handle.

Seven more are visible in the models without a run of their own: an exemption or an
outcome of a property stands for each.
`MiniHttpDaemon.cpp:368` keeps the size from `stat` for a complete file, but the size
registered is tested in one read of the entry (369) and taken from another (379): a
`RegisterFile` in between makes -1 the size that is announced, which `TypeOK` of
`ServeFile` allows a request that was `overtaken`. `MiniHttpDaemon.cpp:374` removes the
entry of a complete file, though its owner may have renewed it since the comparison: the
accident `registered again`. `MiniHttpDaemon.cpp:570` has the value of a header begin
behind the whitespace, which line 574 does not skip: `UnderstoodAsSent` compares the
values behind it. Inside this program only `atoi` and `strstr` look at values.
`MiniHttpDaemon.cpp:785` and `:797` assert that the buffer always has room for one
more read: a plain body that begins with a short piece is never taken out of it,
which ends in the outcome `overrun` of `PostBody`. `MiniHttpDaemon.cpp:1287` lets a line
end in a carriage return alone: `get_line` then waits for the character behind it,
and `HeadEnds` has to except a head that ends so with nothing behind it.
`MiniHttpDaemon.h:47` says to ask for the port after `Start`, which returns before
the port is bound; `PortKnownWhileServing` tells from when on the answer is right.
`index.html:351` means to refresh "if we have candidates", but asks how many the last
result had, which may be of an earlier search: the accident `no search` of `WebUi`.

## 4. Proofs

Eight modules are proved about. Each theorem holds for every value of the constants
that meets the named assumptions, infinite sets included where they are sets of
slots, handles, requests, processes or bytes; the runs of section 3 check the same
properties on one instance each. `IInv` is the inductive invariant of a module;
each was first checked by TLC on the instance of its run. There is one lemma per
conjunct of it that takes work, with one step per action.

### 4.1 MiniHttpDaemon

From the assumptions that `NoSock` and `NoSlot` are no handle and no slot:

- `TypeCorrect`: `Safety => []TypeOK`
- `NoOrphansAfterStop`: `Safety => []NoOrphans`
- `SocketsNeverStolen`: `Safety => []ClientSocketsIntact`
- `DanglingHasOneCause`: `Safety => []DanglingOnlyByRace`
- `PortIsKnown`: `Safety => []PortKnownWhileServing`
- `NothingStaysOpen`: `Safety => []ListenerReleased`

`Safety` is the specification without fairness, so they hold of `Spec` too.
`PortKnownWhileServing` is inductive as it stands, the others are not. `IInv` adds
what one thread knows of
another: `Control` (the server thread leaves its loop only when the owner is in
`Stop`, `thread_started` spans `Boot` to `Finish`), `Registered` (a live client is
in the registry or in the server thread's hands), `ListenerOpen` (until `Stop`
intervenes the listener is open, and afterwards a handle that `Stop` or the server
thread still names is either open or `NoSock`), `SocketsApart` (no client has a
handle that somebody is going to close) and `RaceNoted`. The delicate part is
that `Stop` closes a number it read earlier, perhaps an uninitialised one: it
can only do harm if a client was accepted between the read and the close, and
`Control` and `ListenerOpen` exclude that. `NothingStaysOpen` needs the converse,
`Accounted`: every open handle has somebody who is going to close it (`HasCloser`).

### 4.2 WebInterface

From the assumption that null pointer, null handle and "nobody" are no object, handle and
request. `TypeCorrect`, and

- `SearchesExclude`: `Safety => []SearchesExclusive`
- `LoneRequestsWork`: `Safety => []IsolatedRequestsWork`
- `HandlesAreClosed`: `Safety => []NoHandleLeak`

`LockHeld` says that the search inside holds the lock as long as `InitLock` has not
run again under it; after that nothing is claimed, and `SearchesExclude` says no more
than that this is the only way in for a second one. `Prepared` and `Owned` are about
requests that ran alone so far: what they are going to use is there and has the access
they need, and as long as no two requests ever met an open handle is the selected
object's and a request is about to look at it, to use it or to close it (`Owned`). So
`HandlesAreClosed` speaks of the times when requests came one at a time, and not of what
overlapping ones leak. `Selected` is why `LoneRequestsWork` lasts: a deleted object is
selected only until the new one is there, whatever overlapped before.

### 4.3 ProcessSearch

For any number and size of pages, any values, length of the list and numbers of
scans and steps of the target. All are stated under `~AnyRefresh`, that is, for
clients that keep the page's rule: without it `FileFormat` is false, as the run
`search_any_refresh` shows.

- `FlagFitsFile`: `Spec => []FileFormat`
- `SoundResults`: `Spec => []ResultsAreSound`
- `NothingIsLost`: `Spec => []NoFalseDismissal`
- `ListIsHead`: `Spec => []ListMatchesFile`
- `TypeCorrect`: `Spec => []TypeOK`
- `Implements`: `Spec => ImplementsCandidateSearch`

`Format` and `Dumps` carry the flag through the searches: a dump has at least a page
of matches, so it is never refreshed (`RefreshAssumption`). `Regions`, `FromFile` and
`Watched` tie what is still to be read to what the target held since the scan
began; `Covered` and `Retained` say of a scan under way what `NoFalseDismissal` says
of its end, that an address is in the new file or still to be read. `Listing` does
the same for count and list. In a refresh it says that the part of the file read so
far, which the page's list shows, and the part still to be read make up the file.
`TypeOK` bounds the count by the number of addresses, which needs `Order`: files are
written in the order of the addresses, across scans, so none is counted twice.

The proof corrected `ResultsAreSound`. It used to except only values of a page that
was gone itself when its region was read. But `GetRegionMemory` leaves everything
behind a missing page as it was in the buffer, readable pages included:
`TornBefore` says that. Two pages do not show the difference, so the run has three.

### 4.4 ServeFile

For any threads, any requests that meet `RequestAssumption` and any sizes.
`TypeCorrect`, and

- `SentAsAnnounced`: `Spec => []BodyAsAnnounced`
- `RegistrationIsKept`: `Spec => []RegistrationKept`
- `GoalIsAnnounced`: `Spec => AnnouncesGoal`

`Position` ties the bytes sent to the position of the loop (exactly, until `Kill`
begins, and as a bound afterwards), `Account` ties what remains to what the headers
announced, `Bounded` keeps announcements of a result in memory inside it, for ranges that
do not name an end behind it. The registry needs four parts, since every read of it is a
step. `Called` says of the owner's call under way that what it will store is right and
that a lost entry has not been registered again; `Held` that a thread that was not
overtaken looks at the entry itself, and once past `Test` not at one of a complete file;
`Sized` that an entry is the goal; and `Expected` that a thread whose entry is missing or
complete has read the whole size with `stat`. `TypeCorrect` thereby says when the size in use may be
negative: when the request was overtaken in its lookup.

### 4.5 RegionScan and UnalignedSearch

For any number of pages, any place of `kernelBase`, any contents and any pattern (of four
bytes, as in the code):

- `RegionsNeverOverlap`: `Spec => []RegionsApart`
- `SteadyPagesAreListed`: `Spec => SteadyPagesListed`
- `TypeCorrect`: `Spec => []TypeOK`
- `ReportsRight`: `Spec => []ReportsAreMatches`

`WalkInv` says that all regions listed lie behind the walk; it needs
`NextAddressExact`, which rests on `WidthAssumption`, that an address space is
narrower than an `unsigned long`: a 32 bit build. `CoverInv` says that every steady
page behind the walk is listed. `QueryOther` keeps it because a region is all
writable or not at all, and a region that is not has no steady page.

`FindInv` is the loop invariant of `findfast` inside the loop of `Search`: the window
(`Window`, `Within`) lies in the buffer or starts at most where a whole pattern no
longer fits; every match before it is reported (`Tried`); behind the position of the
comparison the pattern agrees (`Compared`). That a shift by the skip table passes no
match is `SkipsNothing`. The index bounds of `TypeOK` follow, with the two bytes that
`findfast` reads behind the buffer.

### 4.6 WebUi

For any processes, addresses and bounds, and replies in any order. `TypeCorrect`, and

- `CandidatesHome`: `Spec => []CandidatesBelong`
- `ValuesHome`: `Spec => []ValuesBelong`
- `SetsGoHome`: `Spec => WritesGoHome`
- `RefreshFindsResult`: `Spec => RefineMeansSearching`

`TInv` holds with and without accidents: types, the object that editor and presets
share (`Shared`), nothing but selections before the first one (`Chosen`), and that the
editor shows an entry of the process selected (`EditsSelected`). `OneBlocks` is the
bound on the user. The rest holds until the first accident. `SameProcess`: the server
is where the page is, unless a selection is under way, and one of another process is
then the only message there is; so no get, set, list or refresh is ever handled by
another process. `Searched`: what the page and the replies say of the last search is
what the server has, or a reply that will say so is on its way (`MatchFits`).
`Values`: every entry's value and lock are its own, and each reply under way still
fits the entry it is for. Each named accident is the failure of one of these steps.

### 4.7 PostBody

For a buffer of any size, any forms that meet `FormAssumption` (no text of a multipart
form holds the boundary, a plain text does not hold `--` and a line end), any number
of parts and any way to cut a body into pieces:

- `Invariant`: `Spec => []Inv`
- `TypeCorrect`: `Spec => []TypeOK`
- `StoredRight`: `Spec => []StoredAsSent`

`Progress` is the heart of `Inv`: unless the cut marked `unmoved` occurred, buffer and
bytes owed are an end of the message, and what lies before has been stored or is not to be.
There are four places to be: in a plain text (`InText`), in front of part k or the end marker
(`InFind`), x bytes into the text of part k or the line end behind it (`InContent`), and
behind the end marker (`InTail`). A place is a position in the message, so two groups of
lemmas carry the proof. `Layout` says what bytes are where: it rests on an induction
over the parts of `FlattenSeq`. `FirstMarker` and `HeadersAt` say what `memmem` finds in
a piece of the message: the marker that ends this part if the piece holds all of it,
otherwise nothing, whatever dashes and line ends the text has. That `Kept` bytes
are enough to keep is a consequence: a marker of which a byte is missing begins in the
last four. That a length is negative when the line end was stored already (`terminated`)
is why `StoredIsPrefix` lets up to two bytes more stand behind a text.

`FormAssumption` was strengthened for the proof: with a text that holds the marker
without a boundary, plain data is taken for a part.

### 4.8 RequestHead

For buffers of any size, any requests that meet `RequestAssumption`, with any number of
headers, parameters and characters, and connections that end or are killed anywhere:

- `Invariant`: `Spec => []IInv`
- `TypeCorrect`: `Spec => []TypeOK`
- `HeadEndsRight`: `Spec => []HeadEndsAtEmptyLine`
- `Understood`: `Spec => []UnderstoodAsSent`

`IInv` has four parts. `TInv` adds to the types that the line has room for the line feed
while a carriage return waits for it. `Progress` says where the thread is as long as no
line was cut in two by `Kill`: in line i of the message, behind some full buffers of
it, with the characters since then in `line` and what will still arrive of the message
in `rest` (`Place`: in the text, behind a carriage return, behind the line end, or where
the message was cut off), or behind the last line of a cut message (`Dry`). Every
earlier line is `Whole`, that is, no multiple of the buffer, and if all lines fit, `AllRead`
says what was parsed of them. `Sent` says the same of a head that was
cut: what was parsed is what the beginning of the message means. `HeadEndsAtEmptyLine` is
inductive with them: the thread stops at the empty line, or at the line end of the
first line that is not `Whole`, and then the body has not been reached.

Three groups of lemmas carry the steps. *Where bytes are*: `Layout` gives the place of
every line in the message, an induction over `FlattenSeq`; `RecvPlace`, `PeekPlace`,
`FailsPlace`, `LostPlace`, `LineEnds`, `NextBuffer` and `NextPlace` move from place to
place. *What the functions compute*: `FindFirst` and `SkipFirst` identify `Find` and
`Skip` with a least number, `UrlSteps` unfolds `urldecode`, `Url` shows that it gives the
meanings of the characters whatever they are and drops an escape that is cut off.
*What they make of a line*: `FirstParts` and `FirstLineRead` for the request line or a
beginning of it, `HeaderLineRead` for a header, `TokensAre` with `ParamsWhole` and
`ParamsCut` for the query, `ParseIs` and `ParseForm` for the range.

The theorem `Understood` leaves out what its property names: whitespace in front of values,
numbers that overflow, a line that `Kill` cut in two, and the meaning of a Range header
that is not of the form above (that it leaves a range that can be served is stated).

The module was changed for the proof where the definition could not be reasoned about:
`Code`, `Digits` and `SetProperty` are written as functions, `Number` as a recursive one, and
`RequestAssumption` gives requests the types it only named before.

### 4.9 What is only model-checked

- `CallsReturn`, `RequestsFinish`, `EndsOnceReceived`, `HeadEnds`, `KilledEnds` and
  `SearchEnds`: liveness is outside the prover's reach.
- The three properties that a run shows violated.

Every other property of a run is stated by a theorem.

The library's induction theorems take an operator as parameter, which the installed
provers cannot instantiate. Where an induction over numbers or sequences is needed
(`FlattenSeq`, `Picked`, `Min`), the proofs take a least counterexample in a set of
numbers instead, by lemmas such as `Smallest` and `Induction` of
`ProcessSearchProofs`, and recursive functions are unfolded from the equation that
defines them.

## 5. Not modelled

- Malformed posts: a wrong Content-Length, a boundary inside contents.
- The path that Windows makes of root folder and URL, the table of content types
  and JSON text: conversions of one thread's own buffers by the system or by a table.
- config and processes: one registry value, one snapshot of the system.
- `Suspend`/`Resume` and CGI are compiled out or unreachable.
- 16 and 8 bit searches: no request asks for them. Unaligned ones end with their
  list of matches: the scans that refine it are those of `ProcessSearch`.
- The byte counters: no code acts on them.
- Failures of the file system, and a second instance of the program that shares
  the result file.
- Of the page: the list of processes and its filter, names of presets, saving the
  configuration, two processes with one file name.
- The MFC application and the log.

## 6. Plan

In this order; the first items of each list matter most. Done so far: the modules
of section 2 and the theorems of section 4.

Modules: file system failures and a second instance in `ProcessSearch`.

Theorems: none of the safety properties is left; with each module of the plan come
its types and its invariants.
