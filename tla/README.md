# A TLA+ model of cpoll-ng

cpoll-ng is a single-threaded asynchronous I/O library for Linux: an epoll
event loop (`EPoll`) that dispatches to file objects (`File`, `Socket`,
`Timer`), and operations that complete by calling a user callback. This
directory holds TLA+ modules that model it, TLC configurations that check them
on small instances, and TLAPS proofs for all instances.

    tlc -workers 2 -config MCEPoll_live.cfg MCEPoll
    tlapm EPollProofs.tla

## 1. Inventory

| part | source | state | operations | hard behaviour |
|---|---|---|---|---|
| EPoll | cpoll.C 1094-1141, cpoll.H 292-324 | `currCycleNotifications`, its count, the kernel's epoll set | add, remove, run, loop | callbacks change the batch that is being dispatched; edge triggering; exceptions; re-entrance |
| File operations | cpoll.C 91-621, cpoll.H 94-290 | two slots `pendingOps[0]` (read) and `[1]` (write), each an `OperationInfo` with `skipSynchronousAttempt` | read, write, recv, send, readv, writev, their *All and repeat forms, sendFileFrom, wait, close, cancel, dispatch | a synchronous attempt followed by an asynchronous completion; callbacks that start or cancel operations on the slot being served; end of stream racing data; lost wakeups |
| iovec advance | cpoll.C 257-273 | the caller's iovec array | one step per partial readv/writev | buffers of length 0, a transfer that ends on a buffer boundary |
| Socket | cpoll.C 623-914 | File's slots | connect, accept, bind by address and by host name | SO_ERROR read by whoever comes first; a list of addresses; errors that end a repeated accept |
| Timer | cpoll.C 968-1037 | interval, timerfd, callback | setInterval, dispatch, close | an expiry in the batch when the timer is changed; a 64-bit count passed as int |
| string_builder | string_builder.H | buffer, length, capacity (32 bits) | append, reserve, resize, substr, begin/end_append | capacity arithmetic near 2^32, self-append, terminator |
| EndPoint, IPAddress | ipaddress.C, ipaddress.H | addresses | conversion to and from sockaddr and text | sizes and lengths |
| Mutex, ScopeLock | cpoll.H 418-453, cpoll.C 1143-1158 | a recursive pthread mutex | lock, unlock, earlyUnlock | balance of lock and unlock |
| exceptions, threads, directories, memrmem | exceptions.C, cpoll.C 1159-1197 | none | | pure functions and I/O |

How they interact: the user's program calls operations on a File and registers
it with EPoll. `EPoll::run` takes notifications out of the kernel and calls
`FD::dispatch(events)` with a *reference* to the events word of the batch entry.
`dispatch` serves the read slot, then the write slot (`doOperation` or
`handleHup`), which calls the operation's callback. Callbacks are user code and
may call back into all of this: start the next operation, cancel, close, remove
and delete FDs, throw. There is one thread; the other actor is the kernel, which
moves whenever it likes.

What makes the parts correct:

- *EPoll*: a deleted FD is never used; an edge (which epoll reports once) is
  never lost; every FD is served however many compete for a batch.
- *File operation*: an operation never sleeps on a stream that is ready or
  ended; it is finished by exactly one callback; what the callback is told is
  true; bytes are neither lost nor reported twice; cancellation is final.
- *Socket*: a connect or accept gets one answer, and a true one; it neither
  sleeps on a connection that is decided nor is forgotten among the addresses of
  a host; nothing answers after a cancel.
- *Timer*: a timer that was stopped does not call back, and one that runs does so
  again and again.
- *readvAll/writevAll*: every byte is in its place in the caller's buffers, and
  the callback is told how many there are.
- *EndPoint*: a datagram goes to the address that is meant.
- *string_builder*: writes stay inside the allocated memory; the text is what was
  put in; every call returns.

Everything that is hard to test is listed, with its line, under `hazards` in
`PROJECT.json`.

## 2. Modules

### EPoll

Models `CP::EPoll` and the two phases of `dispatch`. `alive`, `open` and
`attached` are the life of the FD objects (deleted, descriptor closed, added and
not removed); `poll` and `rdl` are the kernel's event masks and ready list;
`currCycleNotifications` and `i` are run()'s batch and loop index; `pc`, `inst`
and `cont` say where the thread is. `unseen` is history: the event bits that
were raised on a registered FD and have not been passed to its dispatch().

| action | code |
|---|---|
| `Add`, `Remove` (with `Purge`) | `EPoll::add`, `EPoll::remove` and its scan of the batch |
| `Close`, `Delete` | `File::close`, `~File` |
| `Wait` | `epoll_wait` and the assignment of the count |
| `Loop` | the for loop, the null test, the end of `run`, `loop` |
| `ReadPhase`, `WritePhase` | the two halves of `File::dispatch` / `Socket::dispatch`; each tests the events word again |
| `CallbackReturn`, `CallbackThrow` | a callback returns, or an exception unwinds `run` |
| `KernelEvent`, `Drain` | external: the kernel raises an event, the user's I/O consumes it |

Whether a slot calls a callback is nondeterministic here, so the model covers
every class derived from FD. The user follows the header's contract: an FD is
deleted only while it is not added. `EPOLL_CTL_DEL` of a descriptor that was
closed before fails; remove() then throws to its caller after the batch has
been scanned, and `Remove` covers that case. A negative return of `epoll_wait`
(EINTR) and a timeout are the batch of length 0.

### FileOp

Models one slot of a File: the slot `op` and `skip`
(`skipSynchronousAttempt`), a kernel byte stream (`avail`, `down`), the File's
place in epoll (`registered`, `edge`, `notif`) and the user. Since callbacks nest,
control is a stack of frames (`stack`): `try` and `tryAll` are
`File_tryOperation` and `File_tryOperation2`, `do`/`repeat`/`rest` are
`doOperation` before its first system call, after the callback of a repeated
operation and past the ordinary operations, `hup`/`hupAll`/`hupEnd` are
`handleHup`, `user` is a callback. A call whose last act is the callback is
replaced by the callback's frame. One step runs to the next system call or
callback, and the kernel may move between steps.

One module serves both directions: `IsWrite` selects the slot. `avail` is the
number of bytes to read, or the room to write. `HupOnEnd` and `RdyOnEnd` say how
the kernel reports the end of the stream: as EPOLLHUP alone (a pipe's read end),
as EPOLLIN with EPOLLHUP (a UNIX stream socket whose peer closed, a reset
connection), as EPOLLIN alone (a FIN on a TCP connection), as EPOLLERR alone (a
pipe's write end while the pipe is full, which is when an operation waits), as
EPOLLOUT with EPOLLERR (the writer of a reset connection). `Habits` is what the
user's code does; with `tail` the file of a `sendFileFrom` ends before the bytes it
asks for, and `Results` has the short counts and the 0 that sendfile then returns
although the stream has room. A read that is started while another is pending
throws and changes nothing, so it is not an action, except where the code does
something else first (`recvAll`, `sendAll`) or does not look (`readvAll`,
`writevAll`): those are enabled by the habit `busy`.

| action | code |
|---|---|
| `StartPlain`, `StartV`, `StartSendFile`, `TryStep` | read/write/recv/send, readv/writev, sendFileFrom, and their synchronous attempt |
| `StartRwAll`, `StartSrAll`, `TryAllStep` | readAll/writeAll, recvAll/sendAll and theirs |
| `StartVAll`, `StartWait`, `StartClose`, `Cancel` | readvAll/writevAll, waitReadable/waitWritable, close(cb), cancelRead/cancelWrite |
| `DoPlain`, `DoWait`, `DoRepeat`, `DoAll`, `DoOther` | the parts of `doOperation` |
| `HupPlain`, `HupAll`, `HupEnd`, `HupNone` | the parts of `handleHup` |
| `Add`, `Remove`, `Harvest`, `Dispatch` | EPoll and `File::dispatch` as this slot sees them |
| `Arrive`, `End`, `OtherEdge` | external: the peer and the kernel |

`moved`, `reported`, `forfeited` and `hist` are history variables. `EAGAIN` is a
result of its own (-2) because the code tells it from other errors by errno.
Sizes are small numbers; buffers' contents are not modelled.

### EventDelivery

What EPoll promises each FD, without the batch array, the loop index or the order
among FDs: `Poll` (the kernel changes a mask, with or without an edge), `Open`,
`Shut`, `Attach` and `Detach` (add, remove), `Harvest` (epoll_wait), `Deliver` and
`Finish` (the call and return of dispatch()). `EPoll` implements it
(`ImplementsDelivery`) under the mapping `Delivery`: `batch` is the union of the
event words of an FD's undispatched entries, `target` and `events` are the entry
that is being dispatched. `CallbackThrow`, which drops the rest of a batch, is not
a step of EventDelivery.

### Dispatcher, Timer, Socket, Reactor

`Dispatcher` adds the thread to EventDelivery: a stack of calls in progress, as in
FileOp. `Timer` and `Socket` are the two FD classes on top of it, and `Reactor`
composes one of each under one loop: the events of both are harvested in one
batch, and the callbacks of either do to the other whatever user code can do, as
in a connect with a deadline.

| action | code |
|---|---|
| `SetInterval`, `TimerOpen`, `TimerClose`, `SetCallback` | Timer's operations (`setInterval` is Timer_doSetInterval) |
| `TimerDispatch`, `Tick` | `Timer::dispatch`, its read and its callback |
| `SocketOpen`, `SocketClose`, `Listen`, `Shutdown`, `Cancel` | constructors and bind by address, close, listen, shutdown, cancelRead/cancelWrite |
| `Connect`, `ConnectNow` | connect by address with and without a callback |
| `ByHost`, `HostStep` (`HostBinds`, `HostConnects`, `ConnectHost`) | bind and connect by host name, one step per address |
| `Accept`, `TryAccept`, `DoAccept`, `HupAccept` | accept, its synchronous attempt, `doOperation` and `handleHup` |
| `ConnectDone` | the connect branch of `doOperation` and of `handleHup` |
| `Read`, `DoRead`, `HupRead` | one pending read, which competes for SO_ERROR |
| `SocketDispatch`, `InPhase`, `OutPhase`, `DoNone` | `Socket::dispatch` |
| `Expire`, `PeerConnects`, `ConnectEnds` | external: the kernel and the peers |

`st`, `soerr` and `backlog` are the kernel's socket; `MaskOf` is the event mask Linux
reports for it (OUT and HUP for a socket that is not connected yet). `hist` is
history: one record for each operation, with the number of answers that ended it
and whether it was given up (cancelled, or thrown). `Cancel` gives up the operation
in the slot and also a repeated accept whose synchronous loop (`Loops`) is calling
back: the user means that one, although the code then has nothing to clear. Errors
other than EAGAIN and EINPROGRESS are one value. `Habits` is empty in the runs; section 3
says what happens with each of "early" (reads or connects again before the socket is
connected), "stale" (uses a socket while old events or operations are left), "reenter"
(starts an accept from the callback of a repeated one) and "breakoff" (cancels a
repeated accept from its callback while `accept()` itself makes it). `Shutdown` turns a
listening socket back and fails a connect in progress; on a connected one it is a
matter of data transfer, which is FileOp's `End`.

### Iov

The buffers of readvAll and writevAll. `iov` is the caller's array and `first` the
pointer into it; a system call (`Call`, `Copy`, `CallFails`, `CallSucceeds`) moves
any number of bytes through the buffers that are left, `Drop` is the loop that
removes completed buffers, `Advance` the offset and the decision to answer or to
wait. The caller's vector is given by its boundaries `bound`, so that no property
needs a sum; `moved` records the cell of each byte. Ints wrap at `IntMax`. When
`doOperation` is called is FileOp's subject, here it is `Wake`.

### EndPoint

`ep` are EndPoint objects, `truth` the address each one was given (None only for a
default-constructed one), `sent` the last `sendTo`. The byte order is modelled: a
number in memory is little endian (`Load`, `Store`), ntohs and its kind are `Swap`, and
`Wire` is what the network means. So are the C strings: `CString` is what `set_addr` keeps
of `sun_path`, and `GetSockAddrUn` copies a name up to its first 0, as strncpy does.
`Written` is what the kernel leaves in the caller's array (a name and its terminator,
the part there is room for, nothing for a socket without a name, then whatever was in
memory), and `Heard` how the kernel reads a `sockaddr_un`: a path ends at the first 0, an
abstract name, which begins with one, does not. Members that a constructor does not
initialise, and names that are read past the end of an array, take any value;
`truth` stays the address that was meant, so that `Addressed` sees the difference.
Two habits of the user meet these: "cut" receives from a sender whose name is longer
than the object's, "bare" uses `IPv6EndPoint(address, port)` without setting `flowInfo`
and `scopeID`. One operator per class and virtual function (`SetAddrIn`, `GetSockAddrUn`,
`ClonedIn6`, ...), one action per way to get an address: `Create`, `NewIP`, `NewIPv6`,
`NewUNIX`, `SetSockAddr`, `FromSockAddr` (also lookupHost, getLocalEndPoint and
getRemoteEndPoint), `Clone`, `Step` (address arithmetic), `RecvFrom`; and `SendTo`. A call that
throws changes nothing and is no action.

### StringBuilder

Models one `basic_string_builder`: `buffer` is the allocated memory as a sequence
of cells (`Junk` where nothing was written yet), `bufferLength` and
`bufferCapacity` are numbers modulo `Modulus`, as `size_type` is. A call is a
record `call` that goes through `reserve()` (or `_init()` in a constructor), one
step per round of the doubling loop, and ends with a step that writes. `extent`
and `value` are history: where the last write ended, and the text the user means
to have built.

| action | code |
|---|---|
| `AppendText`, `AppendChar`, `AppendFormat`, `Assign`, `Resize` | the calls that reserve |
| `Clear`, `CStr`, `MoveFrom`, `Destroy`, `Construct` | the calls that do not, and the constructors |
| `Reserve`, `Grow`, `Realloc`, `ReallocFails` | `reserve()` |
| `InitGrow`, `Malloc` | `_init(length)` |
| `WriteAppend`, `WriteWhole`, `WriteResize`, `WriteFormat`, `WriteReformat` | what each call does after it |

The user keeps the length within `max_size()`, which no method enforces, and
appends texts that lie outside the builder.

## 3. What TLC checks

Runs that pass:

| run | instance | states | shows |
|---|---|---|---|
| epoll_live | 3 FDs, batches of 2, event IN, fair | 72 thousand | `NoEdgeLost`, `EdgeDispatched`: no edge is lost and every edge is dispatched although more FDs are ready than a batch holds; `ImplementsDelivery` |
| epoll_throw | 3 FDs (symmetric), batches of 2, events IN and ERR, throwing callbacks | 1.1 million | `NoDanglingFD`: no deleted FD is called, for removal by an earlier callback of the batch, by the FD's own read callback, and after an exception |
| file_read_socket | read slot of a stream that ends with EPOLLIN and EPOLLHUP (a UNIX stream socket, a reset connection); read, readAll, recvAll; fair | 150 thousand | `NoLostEnd`, `CallbackOnce`, `EndIsTheEnd`, `NoCallAfterCancel` and, under fairness, `EndReported`, `DataReported` |
| file_read_repeat | the same stream; repeated read and readv, recvAll, callbacks that cancel and replace, busy starts | 1.4 million | `NoLostData`, `NoLostEnd`, `CallbackOnce` |
| file_write_pipe | write slot of a pipe (EPOLLERR alone while it is full, so that handleHup runs); write, writeAll, writevAll, sendFileFrom also past the end of its file, waitWritable, close(cb); nested callbacks, cancel | 2.2 million | `NoOpForgotten`, `Conservation` |
| string_builder | two characters, texts of 0, 3 and 4, capacities from 2, max_size 4, 16 values of size_type; fair | 500 thousand | `NoOverrun`, `Contents` and, under fairness, `CallsReturn` |
| reactor_deadline | one Socket, one Timer; 2 operations, 2 peers, host names with up to 2 addresses | 2.7 million | `NoTickAfterStop`, `NoLostExpiry`, `ConnectTruthful`, `OneAnswer`, `NoneForgotten`, `NoSleeper`, `NoAnswerAfterCancel` |
| reactor_live | the same with 1 operation, 1 peer, 1 address; fair | 150 thousand | `ConnectAnswered`, `TimerTicks` |
| iov_advance | all vectors of up to 3 buffers of 0 to 3 bytes, INT_MAX 7 | 22 thousand | `InPlace`, `NoEmptyCall`, `NoShortAnswer` |
| endpoint_reply | 2 objects, 12 addresses of the three families (UNIX names are pathnames), bytes of 2 values, no habits | 14 thousand | `Addressed`, `WritesFit`, `AddressOrder` |

Bounds. In EPoll three FDs and batches of two give an FD that is dispatched, one
that waits in the same batch, and one that did not fit; two event bits suffice
for both phases of dispatch. In FileOp `Lens` of 2 and 3 with a buffer of 3 and 4
bytes in all give transfers that are short, exact and repeated; three operations
give one that leaves `skip` behind, one that relies on it and one more; `MaxDepth`
3 or 4 lets a callback run inside a library call inside a callback. In
StringBuilder `minCapacity` 2 and `max_size` 4 give an empty builder, one that fits,
one that lacks the terminator's cell and one that must double twice; `Modulus` 16
is the least power of two that `StringBuilderAssumption` admits. The proofs
below do not depend on any of these bounds. In Reactor two operations are a
connect and the accept, read or connect that meets it (or is started by its
callback), two peers are a connection that is taken and one that waits behind it,
two addresses a failure followed by each outcome. In Iov three buffers give a
call that starts, passes through and ends in different buffers, with an empty
buffer in each place, and totals of 8 and 9 exceed INT_MAX
(`NoShortAnswer` is about totals up to 7, the other properties about all). In EndPoint two
addresses of a family that differ in one field, and names of which one is longer,
are what a reused object can mix up; ports of two different bytes show a swap.

Deadlock is not checked in FileOp and Reactor: a program that has started all its
operations, and whose peer is silent, sleeps in `epoll_wait`, which is right.

Fairness. `EPoll::loop` is an infinite loop around `run`, so library steps are
weakly fair; callbacks return (`WF_vars(CallbackReturn)`). Nothing is assumed of
the kernel or of what the user starts: a liveness property asks only for what
follows once data or an end is there. In StringBuilder a call that was made runs
(`WF_vars(Builder)`): it is sequential code. Reactor adds, to the weak fairness of
library steps and of callbacks that return, strong fairness of `WaitFor` for each
FD: an FD that is ready again and again is harvested. EPoll's `EdgeDispatched` is
the justification: the kernel's ready list is first come, first served.
`TimerTicks` also needs the peers to be finitely many (`MaxPeers`): a repeated
accept goes on inside one dispatch() as long as connections arrive, and the
timer waits.

Where the code and its documentation part. Two runs show it and are findings in
`PROJECT.json`. epoll_touch violates `NoDanglingRepeat`: the callback of a repeated
operation removes and deletes its FD, which remove()'s comment allows;
`doOperation` then reads `op.operation`. file_read_fin violates `NoLostEnd`: a TCP peer
sends and closes, both are in one event (EPOLLIN alone), the read is short, so
cpoll.C 203-205 sets `skipSynchronousAttempt`, and the next read makes no system call
and waits for an edge that has been spent, though cpoll.H 210 promises the result of
the POSIX call. The following appear when the
property is checked with the constants of another run, changed as said; the
passing runs are chosen so that these behaviours are outside them:

| property | constants | what happens |
|---|---|---|
| `NoLostEnd` | file_read_socket, `RdyOnEnd = FALSE` (a pipe) | short read, then the writer closes: EPOLLHUP goes to `handleHup`, which leaves `skip` set, and the next read waits for ever |
| `NoLostEnd` | file_read_socket, `Ops = {"rwvAll"}` | the same for readvAll, whose synchronous attempt is made with `hup = false` and which handleHup does not know |
| `NoLostEnd` | file_write_pipe | the reader of a full pipe closes: EPOLLERR alone goes to `handleHup` (cpoll.C 330-334), which ignores close(cb) and writevAll (299-317); they wait for ever |
| `CallbackOnce` | file_write_pipe, or file_read_socket with `RdyOnEnd = FALSE` | `handleHup` calls a partly done writeAll or readAll back twice, with the bytes so far and with -1 or 0 (cpoll.C 312-315; cpoll.H 223-226 has one call with the bytes so far) |
| `NoLostData` | file_write_pipe | a file ends before the bytes that sendFileFrom asks for: doOperation takes the short transfer for a full stream (cpoll.C 179, 194, 203), and the next write, or the repetition, waits although there is room. Without `tail` it holds |
| `EndIsTheEnd` | file_read_repeat | a repeated read reports end of file after one buffer because a hangup came with the event ("we know it will return 0", cpoll.C 185) |
| the frame `abort` | file_read_repeat | a repeated operation that its callback replaces by one of another type runs into `assert(false)` (cpoll.C 296) |
| `NoCallAfterCancel` | file_read_repeat | the synchronous loop of a repeated read (cpoll.C 343) never looks at the slot and goes on after `cancelRead()` |
| `NoOpForgotten` | file_read_repeat, `Ops = {"rwvAll"}` | readvAll overwrites the operation in the slot |
| `NoEdgeLost` | epoll_throw | the rest of a batch is dropped when a callback throws |
| `ConnectTruthful` | reactor_deadline, `Habits = {"early"}` | a read that is pending while the socket connects takes SO_ERROR away, and the failed connect is answered 0 |
| `ConnectTruthful` | reactor_deadline, `Habits = {"stale"}` | OUT and HUP of the unconnected socket are in the batch when connect starts, and answer it with 0 while it is still connecting; an operation that close() left in the slot is answered in the same way when the socket is used again |
| `NoSleeper` | reactor_deadline, `Habits = {"stale"}` | connect on a socket with an accept pending: the accept waits for ever |
| `NoAnswerAfterCancel` | reactor_deadline, `Habits = {"breakoff"}` | cancelRead() in the callback of a repeated accept, called from the synchronous loop of `accept()` (cpoll.C 343-351, 894), finds an empty slot: the callback is called again, and the cancelled accept is then stored |
| `OneAnswer` | reactor_deadline, `Habits = {"reenter"}` | the callback of a repeated accept cancels it and starts a one-shot accept: the loop tests `op.operation` only (cpoll.C 654) and serves the new one again and again |
| `TimerTicks` | reactor_live, peers without end | the timer starves |
| `Addressed` | endpoint_reply, `Habits = {"cut"}` | a default-constructed UNIXEndPoint has room for the terminator only: recvFrom reads the sender's name past its array (cpoll.C 901-904), and the reply goes elsewhere |
| `Addressed` | endpoint_reply, `Habits = {"bare"}` | `IPv6EndPoint(address, port)` has any scope (ipaddress.C 142-146) |
| `Addressed` | endpoint_reply, with an abstract name or the empty name among `Addresses` | an abstract name is cut at its first 0 by `set_addr` and `getSockAddr` (ipaddress.C 198, 211); of a sender without a name the kernel writes nothing, and what is in the array is taken for its name (cpoll.C 903-904) |

The header's "level triggered" at `EPoll::add` is a slip: the registration is
EPOLLET, and everything above depends on that.

Smaller hazards that no run is about: `waitReadable` makes no synchronous attempt,
so data that is already there does not wake it (cpoll.C 395); close(cb) on the read
end of a pipe waits for a writability that never comes (513); recvAll and sendAll
make their system calls before they find the slot busy and throw (461); the
synchronous loop of a repeated accept stops at descriptor 0 (345); a callback that
calls read(), whose callback is called synchronously, recurses as deep as the peer's data allows
(355); timerfd_settime's result is ignored (974); the expiration
count is cut to an int (1027); a callback that calls setCallback replaces the
function that is executing (1020); readvAll leaves the caller's array changed (269);
recvFrom throws on a wrong family after the datagram is gone (904);
getRemoteEndPoint of an unconnected socket reads an uninitialised family (736);
IPv6Address::toStr's buffer is too short for what it tells inet_ntop
(ipaddress.C 18).

Mutants. The operators commented "Fault:" are altered versions of the definition
that follows them, one for each property: they show which mistake in the code
the property would catch (a purge that keeps the events word, a batch larger
than the array, a hangup looked at before the data, `skip` kept too long, ...).

## 4. What is proved

Every theorem holds for all values of its module's constants, of which only the
module's named assumption is known (`EPollAssumption`, `FileOpAssumption`,
`StringBuilderAssumption`, `IovAssumption`, `ReactorAssumption`, `EndPointAssumption`; TLC evaluates them in
the runs). Where a property does not hold for every user or every stream, the
theorem has a hypothesis on the constants, and section 3 has the counterexample
without it.

| run's property | theorem | for |
|---|---|---|
| EPoll `TypeOK`, `NoDanglingFD` | `EPollProofs!TypeCorrect`, `NoDangling` | callbacks that throw, too |
| `NoEdgeLost` | `EPollProofs!EdgesKept` | callbacks that return |
| `ImplementsDelivery` | `EPollProofs!Implements` | callbacks that return |
| FileOp `TypeOK` | `FileOpProofs!TypeCorrect` | everything |
| `NoLostData` | `FileOpProofs!NoLostWakeup` | no sendFileFrom past the end of its file (`"tail" \notin Habits`) |
| `CallbackOnce` | `FileOpAnswers!AnsweredOnce` | `ToldOnce` |
| `NoCallAfterCancel` | `FileOpAnswers!CancelledIsSilent` | `ToldOnce`, no repeated operations |
| `NoOpForgotten`, `Conservation` | `FileOpAnswers!NothingForgotten`, `BytesAccounted` | `Polite` |
| `EndIsTheEnd` | `FileOpAnswers!EndTold` | `RepeatsSafely` |
| `NoLostEnd` | `FileOpAnswers!EndNotMissed` | `EndHeard` |
| Reactor `TypeOK`, `NoLostExpiry`, `NoTickAfterStop` | `ReactorProofs!TypeCorrect`, `ExpiryKept`, `StoppedIsSilent` | everything |
| `OneAnswer`, `NoAnswerAfterCancel` | `SocketProofs!AnsweredOnce`, `CancelledIsSilent` | neither "reenter" nor "breakoff" in `Habits` |
| `NoneForgotten`, `NoSleeper`, `ConnectTruthful` | `SocketProofs!NothingForgotten`, `NobodySleeps`, `ConnectsTold` | `Habits = {}` |
| `NoOverrun`, `Contents` | `StringBuilderProofs!WritesStayInside`, `ContentsKept` | everything |
| Iov `TypeOK`, `InPlace`, `NoEmptyCall` | `IovProofs!TypeCorrect`, `BytesInPlace`, `CallsHaveBytes` | every vector |
| `NoShortAnswer` | `IovProofs!AnswerComplete` | vectors an int can count |
| `Addressed` | `EndPointProofs!DatagramsAddressed` | `Habits = {}`, UNIX names that are pathnames |
| `WritesFit`, `AddressOrder` | `EndPointProofs!SockAddrFits`, `AddressesOrdered` | everything |

### EPollProofs

For any set of FDs, any `EVENTSPERCYCLE > 0` and any events.

- `TypeCorrect`: the batch's size needs the ready list to be a sequence without
  duplicates (`TypeInv`).
- `NoDangling`: the invariant `OwnerInv` says that added FDs are alive, that the
  ready list names added FDs only, that every entry of the batch names an added
  FD or is cleared (`BatchInv`), and that the FD being dispatched is added or its
  entry is cleared (`DispatchInv`). The contract "delete only what is not added"
  then gives the result.
- `EdgesKept`: `EdgeInv` adds that an unseen bit is still in the kernel's mask, so
  that the mask `epoll_wait` copies into the batch contains it.
- `Implements`: each action of EPoll is one action of EventDelivery or a stutter
  under the mapping of section 2. The lemmas say what each change of the batch
  array and of the index does to the union of an FD's undispatched words: a
  purge empties it, the start of a dispatch takes one entry out of it.

### FileOpProofs, FileOpAnswers

For both slots, every kind of stream, any operations, buffer lengths and bounds.

- `NoLostWakeup`: `NoLostData` speaks of the idle state only; the inductive `Inv`
  says when an operation may be in the slot while data is there at other times.
  `WakeInv`: if an operation waits or `skip` is set, then data in the stream has
  been announced (an edge is queued, or a notification with RDY is undispatched)
  or some frame of `doOperation` on the stack will still make a system call.
  `IdInv` ties identifiers in the slot and in frames to the history, and `LenInv`
  says that a pending transfer has room left, so that a short transfer means a
  drained stream: the end of a file that sendFileFrom sends breaks this step,
  hence the theorem's hypothesis. The point of the argument is the frame that called a callback:
  what the callback starts is covered by the call that is still running beneath
  it.

The other theorems are about the history, and rest on one lemma: each step
is one of a dozen *moves* (`Move`: an attempt answers, a slot is parked, answered,
repeated, stored into, ...), which say what the step does to the slot, the top
frame and the books `moved`, `reported`, `forfeited` and `hist`. An invariant is
then shown once per move and not once per action.

- `AnsweredOnce`, `CancelledIsSilent`: `AnswerInv` says that the operation in the slot
  and the one of each synchronous attempt on the stack are still open
  (unanswered and not cancelled), and that these are different operations.
  `ToldOnce` excludes the buffered *All operations on a stream that hangs up
  without EPOLLIN, where `handleHup` answers twice; a repeated synchronous read
  goes on after a cancellation.
- `NothingForgotten`, `BytesAccounted`: `HoldInv` says that the slot is free while an
  attempt runs on top, that every open operation is in the slot or in that
  attempt, and that `moved` is what was reported, what was forfeited by cancelling,
  and what the slot and the attempt hold. `Polite` excludes the two ways to
  store over a pending operation: a start on a busy slot, and a start from the
  callback of a repeated operation.
- `EndTold`: `TruthInv` says that a hangup in a notification or known to a frame
  is true. It does not survive a repeated read, which takes a hangup for an
  empty stream (`RepeatsSafely`).
- `EndNotMissed`: `EndInv` says that once the end has been announced and its
  announcement is consumed (`EndPassed`), `skip` is not set, no running call is about to set it, and a
  pending operation is covered by a frame that will still find the end (`EndMet`). `EndHeard` asks that the end is
  reported with EPOLLIN/EPOLLOUT and, on a reader, with EPOLLHUP or EPOLLERR, and that the
  reader does not use readvAll. That leaves out pipes (a full pipe's writer hears
  EPOLLERR alone, a reader EPOLLHUP alone) and the reader that gets a TCP FIN: there
  the code misses ends, as section 3 shows.

### ReactorProofs, SocketProofs

For any number of operations, peers and addresses.

- `TypeCorrect` needs to know which frames can be on top of which, so the actions'
  changes of the stack are classified first (`Returned`, `GoesOn`, `Calls`,
  `GoesOnCalls`), once for all later proofs.
- `ExpiryKept`, `StoppedIsSilent`: `TimerInv` says that an unread expiry is only there while
  the timer has an interval, and that, if the timer is added, its event is on its
  way: ready in the kernel, in the batch, or being dispatched.
- `AnsweredOnce`, `CancelledIsSilent`: `HolderInv` says that the slots and the calls
  in progress (`try` and `hosts` frames) hold pending operations of the form they
  stand for, each operation held once. As in FileOp, a step is one of a few
  moves: it works without touching the holders, takes an operation out of a slot
  or a call, parks one, or starts one. Two more moves, a loop that serves an
  operation it should have ended and a cancellation inside `accept()`'s loop, are
  those of the habits "reenter" and "breakoff". `LoopInv` excludes them for other users: the
  synchronous loop of `accept()` runs neither below a call of dispatch() nor beside
  its loop over connections, and that loop serves a repeated accept only.
- `NothingForgotten`, `NobodySleeps`, `ConnectsTold`: the inductive `UsualInv` describes
  the program with `Habits = {}`, which starts nothing on a socket whose state
  does not allow it and reads only when connected. `Nested` says which frames can
  lie below which, `StatesFit` and `CallsFit` what the socket's state is while an
  operation waits or is served, `ErrorWaits` that nobody has taken SO_ERROR before
  the connect, `ConnectWakes` and `AcceptWakes` that a decided connection or an
  arrived peer is announced or being served. With "early" or "stale" in `Habits` these
  fail, as section 3 shows.

### StringBuilderProofs

For any texts, any `minCapacity` and any width of `size_type` with
`2 * (MaxSize + FormatRoom + 1) <= Modulus` (in the code 2^30 - 2, 32 and 2^32). The
invariant says that `bufferCapacity` is the size of the memory (`MemoryInv`), that a
builder with memory has a spare cell for the terminator (`RoomInv`), that the
count a call passes to `reserve()` covers what it will write (`CallInv`), and that
the doubling loop never goes below the old capacity nor wraps (`GrowInv`).

### IovProofs

For any number and lengths of buffers, any cut of the transfer into system calls,
and any `IntMax > 0`.

- `BytesInPlace`: each entry that is left ends where the caller's buffer does and
  all but the first start there (`Tails`), the array starts where the stream
  stands, less what the call in hand has moved (`Position`), and the kernel's
  buffer and offset are the stream's position (`KernelPosition`). The counters do
  not occur: where the bytes go does not depend on an overflow.
- `AnswerComplete`: `Counted` adds that for a vector of at most `IntMax` bytes
  `lenTotal` and `lenDone` are the sums they stand for, and `HangupSeen` that an
  early answer follows a hangup.
- `CallsHaveBytes`: `Sums` says that the counters are those sums modulo the range of
  an int, for every vector, and `Left` that before a call some byte is left.
  That a buffer with a byte is among those left is an argument on the least
  buffer that ends beyond the stream's position; the library's theorem on
  well-founded sets takes a set and not an operator, so it can be cited.

### EndPointProofs

For any number of objects, any number of values of a byte (`Base > 1`), any
addresses and names. `EndPointAssumption` says that an address has the members of
its family only, that IPv4 addresses have one length, and that only an abstract
name has a 0 in it.

- The arithmetic: `Recursion` shows that a sequence of numbers given by its first
  member and its step exists, for a step that is a function, so that it can be
  applied to `Power` and to the sum in `Load`. From the bounds on the partial sums
  (`AddsBound`) and from what the bytes above one of them contribute (`AddsSplit`)
  follow `StoreLoad` and `LoadStore`: bytes and numbers correspond. Then `Swap` is
  the reversal of the bytes, `HostOrder` reads an address from its first byte to
  its last, `Plus` is addition modulo the number of addresses (`PlusValue`), its
  neighbours carry and wrap (`AddsNext`, `PlusNeighbour`), and the highest byte that
  differs decides an order (`AddsLess`).
- `DatagramsAddressed`, `SockAddrFits`, `AddressesOrdered`: `Inv` says of each object
  that its members are of their types, that an IPv4 address has the length of the
  others (`Sized`), and that it holds the address it was given, member by member
  for the family (`Stands`); for IPv4 always, for the other families under `Usual`: no
  habit, and UNIX sockets bound to pathnames. The C string that `set_addr` takes from
  such a name, its terminator and anything behind it is the name
  (`CStringTerminated`), and the kernel understands what `getSockAddr` gives it as the
  address (`GetSockAddrRight`). What `SockAddrFits` says holds also for names that were
  cut or read past their end.

What stays with TLC: the liveness properties (`EdgeDispatched`, `EndReported`,
`DataReported`, `CallsReturn`, `ConnectAnswered`, `TimerTicks`), which are beyond TLAPS.
Every invariant and action property of a passing run, and the refinement, has a
theorem.

## 5. Not modelled, and the plan

Not modelled: contents of buffers, errno beyond EAGAIN and EINPROGRESS, signals,
error texts and the exception classes, the texts of addresses (toStr, inet_pton),
`ntohll`, the number of expirations of a timer, `EventFD` and `SignalFD` (commented
out in the source, as are the asynchronous recvFrom and sendTo), `listDirectory`,
`createThread`, `memrmem` and the mutex classes (used by nothing in the library),
and the example program. Of EPoll: `run` called from a callback. Of File: both slots transferring
data at once, and datagrams. Of string_builder: the filling constructor (which for one-byte
characters writes zeros whatever character it is given, line 43), `substr` (which
rejects a range that ends at the end of the string, line 120), a negative result
of `snprintf` (line 159), lengths above `max_size()` (line 181), and appending a builder
to itself (line 145, where the source is read after `realloc` may have moved it).

Next: the conversions that are left out, first the texts of addresses, and a
string_builder that is appended to itself. Both slots of one File transferring
data at once would need a second slot in FileOp and multiply its states; the
slots share the descriptor and its place in epoll, and what the other slot does
to these is `OtherEdge`, `Remove` and `StartClose`.
