# TLA+ models of the softupdate server

softupdate is the update service of a test instrument: a program listens on a
TCP and a UDP port, gives every TCP connection an object that receives framed
requests and answers them, and on request transfers files, reads and writes
board memory and option EEPROMs, runs shell commands and memory scripts.  The
models below are translated from the C++ sources under `src/`.

## 1. The system

| component | state | operations | interacts with |
|---|---|---|---|
| event queue (`clientbase/eventqueue`) | doubly linked list, `_count`, `_maxcount`, one mutex | `Enqueue`, `Dequeue`, destructor | filled by the receiving thread, drained by the executing thread |
| event executer (`clientbase/eventexecuter`) | the queue, `_keep_running_thread`, a condition variable, one thread | `Execute`, `Wait`, `DoEvent`, destructor | called by `ReceiveThread`, calls `OnReceived` |
| connection (`clientbase/clientbase`) | `_socket`, `_send_succeeded`, `_last_sent_bytes`, `_reply_hashcode`, the slot of `Receive`, eleven mutexes, four condition variables, one thread | `Connect`, `SetSocket`, `Send`, `SimpleSend`, `Receive`, `Disconnect`, `DisconnectForcibly`, `ReceiveThread` | the peer's connection object over TCP, the executer |
| request dispatch and jobs (`common/CommonServer`) | transfer, upload, command and script state, cancel flags, `_ServerSend_obj`; the file system | `OnReceived` (about 30 requests), five `*_DoWork` threads, `SendData` | runs on the executing thread, sends through the connection |
| script parsing and batching (`common/CommonServer`) | none | `ScriptToLine`, `GetMemoryScriptCMD`, directory listings | memory-script job |
| listening service (`common/VControlServer`, `app/main`) | `StopAll`, two thread handles | `StartCommonServer`, `StopCommonServer`, two listening threads, `CreatCommonServerInstance` | creates one connection object per accepted socket |
| board options and EEPROM (`common/VControlServer`, `v400eeprom`) | the EEPROMs of the panel, of its modules and of 40G boards; `g_szArg_netif`, `ux400_ftdic`, `eeprom[]`, which all clients share without a lock | `READOPTIONBIT`, `WRITEOPTIONBIT`, `READMODULEBUF`, `WRITEMODULEBUF`, `GETMAC`, and below them `read_options`, `write_options`, `BitOptionDeal`, `v400_boardres_ind2netif` | called by the dispatch, in the executing thread of each client's instance |
| memory, serial number, network helpers | none | `ReadMemory`, `FindAllSN`, ... | ioctl and external commands |

What is hard: five kinds of threads share a connection object (senders, the
receiving thread, the executing thread, the owner, job workers) under eleven
mutexes with condition variables that are mostly waited on without a predicate;
a connection goes down in three ways that overlap with sending, receiving and
replying; a frame may be damaged, refused and sent again by another thread than
the one that waits for its reply; waits time out while the answer arrives; a
connection may be opened while the receiving thread of the last one still runs;
jobs are cancelled through flags by requests that queue behind the jobs; clients
have an object each, but share the files, the boards and the buffers the boards
are reached through.

What makes each part correct: the queue is a bounded FIFO and leaks nothing; an
accepted frame is executed once, in order, and the executer can be deleted at any
moment at which its handlers return, with the receiving thread alive or not; an
answer handed to `Receive` belongs to that call; while the connection stays up a
frame is delivered at most once, in order, `Send` answers true only for a delivered
frame and cannot block with the locks held that the receiving thread needs; taking a
connection down leaves nobody waiting and no thread on a closed descriptor;
`Connect` answers true only for a connection the server answered on; the service
starts once, stops when told to, and gives each instance its own socket; a job's
thread works on its own request, is cut short only by a cancel meant for it, stops
soon after one, and, unless it has no end, frees the executing thread that waits for
it; a memory script's result speaks of that script, and a script is its commands
whatever comments it holds; a finished upload is the file its path names, a
cancelled one leaves nothing that can be removed; a listing is complete wherever its
messages end; a request about options does what it says to the board it is about and
to no other, and keeps the checksum good.

## 2. Modules

- `BoundedFifo`: what `EventQueue_180` promises: an abstract bounded FIFO.
- `EventQueue`: the linked list, pointer by pointer.  `cell` is the memory of
  the nodes, `live` the allocated ones; a deleted node's memory is blanked, so
  following a stale pointer shows.  Every public call is one step because it
  holds `_obj` throughout; the destructor is modelled per loop iteration.
  `ImplementsFifo` is the refinement of `BoundedFifo`.
- `EventQueueProofs`, and for other components likewise `ClientLinkProofs`,
  `ConnectionProofs`, `JobsProofs`, `MemoryScriptProofs`, `UploadProofs`,
  `BoardOptionsProofs`: the theorems about the component.  `ThreadProofs` has
  those about the three small ones, `EventExecuter`, `SyncReceive` and `Listener`
  (whose `Init`, `Next` and so on are called `ReceiveInit` and `ServiceInit`, so
  that one module can speak of the three).
- `EventExecuter`: the receiving thread inside `Execute`, `ExcuteThread`, and
  the destructor, composed with `BoundedFifo`.  A handler may never return.  The
  destructor may come while the receiving thread lives; `ExecuteDeleted` is that
  thread's first use of the deleted executer, after which nothing is known of it.
- `SyncReceive`: `Receive` against the receiving thread's comparison,
  `SetReceivedDataAndType` and its late broadcast.
- `AckedDelivery`: what two connected `ClientBase` objects promise while the
  connection stays up.
- `ClientLink`: both ends of a connection: senders, receiving threads, owners;
  `_cond_obj` and `_ServerSend_obj` are variables because they are held over
  several steps.  One action per section of code between two accesses to shared
  state.  `ImplementsDelivery` is the refinement of `AckedDelivery`.  `Spec` has
  the threads of both ends scheduled, `ReceivingSpec` little more than the
  receiving ones.
- `Connection`: how connections begin and end: `Connect` and its wait for
  `MSG_CONNECT`, `Disconnect`, `DisconnectForcibly` and the destructor on the
  application's thread, the receiving threads of successive connections (one per
  socket, all reading the one `_socket` and `_keep_running_thread`), and the
  server's instances with `SetSocket` and `SimpleSend`.  What is sent in between
  is `ClientLink`'s.
- `Listener`: start and stop, both listening threads, the accepted socket's way
  to its instance thread.
- `Jobs`: downloads, memory reads and shell commands.  The executing thread is
  either ready for the next request or inside the handler of one (`exec`), which
  waits for the last job of the kind; `Launch` is the end of that wait and the
  rest of the handler.  `job[j].at` is where the thread of the `j`th job is;
  the three `*_DoWork` functions have one shape, so that they share the actions,
  with a guard on `kind` where they differ.  A command may be `endless`, a memory
  read is.  `handle`, `cancel` and `request`
  are the members of `CCommonServer` the threads and the handlers share.
- `MemoryScript`: `MEMORYSCRIPT_START`, the pieces, `MEMORYSCRIPT_CANCEL` and
  `MemoryScript_DoWork`, which share the text, its length and two flags without
  a lock.  Separate from `Jobs`, whose handlers wait: these never do.
- `ScriptParser`: `ScriptToLine` and `GetMemoryScriptCMD` as folds over the
  characters of a text, against scripts put together from pieces whose commands
  are known, and against a definition of the words of a line.
- `Upload`: `SENDFILENAME`, `SENDFILE` and `SENDFILE_CANCEL` of several clients, one
  action per system call (`access`, `mkdir`, `remove`, `fopen`, ...), each of which
  may fail, with `fwrite`'s buffer.  A file is told from the path that names it, so
  that a client may write to a file whose path is gone or names another.
- `Listing`: the batching of `GETCATALOG` and `GETALLFILEINFO` as folds over the
  entries of a directory, for every set of failing sends and of those of them
  whose messages arrive all the same.  A text has a terminator.
- `BoardOptions`: requests about options by several clients.  `at[c]` is where
  the handler of client `c` is; the three globals it goes through (`netif`,
  `ctx`, `eeprom`) are variables of their own, and so are the boards' EEPROMs
  (`memory`).  One action per access to a board or to a global: a module's socket
  is created by `Socket` and bound by `Bind`, which read `netif` once each.

Operators whose comment begins "Bug seeded for the runs" are not part of any
specification: each is a definition with a plausible bug, used in place of the
definition that follows it to see that a property would notice.

How they compose: `EventExecuter` is checked over `BoundedFifo`, which `EventQueue`
implements; `ClientLink` implements `AckedDelivery`; `Jobs` and `MemoryScript` take
from `EventExecuter` that requests are handled one at a time and in order, and from
`ClientLink` that a send returns and, when it fails, may have been delivered all the
same; so do `Upload`, `Listing` and `BoardOptions`.  `Connection` and `ClientLink`
are two views of the same object: the one has every frame and one connection, the
other every connection and one frame.  `MCUpload` first answers a listing and then
runs the uploads, `MCMemoryScript` first parses a text and then runs the scripts:
the functions and the state machine are independent, and their join checks both in
one run, as the server answers one request at a time.

The `MC*` modules extend the component for TLC; the constants are in the
configurations.

## 3. Runs

| run | configuration | what it shows |
|---|---|---|
| event_queue | `EventQueue.cfg` | the list is whole at every length up to its capacity of 3 with 4 addresses, so addresses are reused; it implements the FIFO |
| event_executer | `EventExecuter.cfg` | 4 frames and a queue of 2: overflow, draining, a missed broadcast, handlers that do not return, deletion at every point, also under a receiving thread that lives on |
| sync_receive | `SyncReceive.cfg` | 3 calls, 3 arrivals, 2 types: whose answers `Receive` hands over and what true means, around timeouts, failing clocks, waits that wake by themselves and broadcasts meant for an earlier call |
| client_link_up | `ClientLinkUp.cfg` | two server threads with two frames and one client thread with two, of equal content, the body or the digest of one damaged, the client's `Send` timing out: delivery is acknowledged delivery, no `send` blocks, every `Send` returns |
| client_link_down | `ClientLinkDown.cfg` | two frames of the client with its timeouts and failing clocks, forced and orderly disconnection by either end at any moment: what was accepted, what `Send` answered, and that the other end's closing is noticed |
| connection | `Connection.cfg` | two connections of one object, begun and ended in any order and at any moment, with waits that wake by themselves: what `Connect` answers, that no socket and no receiving thread is left |
| listener | `Listener.cfg` | three connections, one restart, failing thread creation, set-up and accept |
| listener_handoff | `ListenerHandoff.cfg` | a counterexample: an instance with the next connection's socket |
| jobs | `Jobs.cfg` | two jobs of any kinds, commands without an end among them, cancels at any moment, sends that fail, threads that cannot be created: a thread reads its own request, nobody else's cancel cuts it short, its own stops it, the wait for it ends |
| memory_script | `MemoryScript.cfg` | every script of up to three pieces is parsed into its commands, every line of up to six characters into its words; then two scripts with pieces and cancels at any moment: result 0 means executed unless a later script overtook it, and the next script is accepted in the end |
| upload | `Upload.cfg` | every directory of up to four entries is listed completely; then three uploads by two clients to one path, cancelled, failing or broken off at any call, with a file that cannot be removed: what the path names in the end |
| board_options | `BoardOptions.cfg` | three requests by two clients, out of eleven kinds, to a panel, two modules and two 40G boards that fail at any step, with sockets left unbound: what was asked for is done, to that board alone, with a good checksum |

Each run names the properties that could fail for a reason of its own; the
`TypeOK` of a module is what the proofs begin from, and holds in every run
above when it is added to its configuration.

### Bounds

Every bound is a constant named as such in its module.  A queue of 3 meets the
empty, single, middle and full list; 4 addresses force reuse.  Two events past
the capacity of 2 give the executer two overflows.  Three calls of `Receive`
let a broadcast straddle a call and meet the next one.  Two frames of one end let
a late reply meet the next frame, the broadcast for a reply wake the `Send` of a
later one, and that one find its predecessor unanswered; one damaged frame
exercises the refusal and the sending again; `DigestCount = 1` makes all frames of
`ClientLinkUp.cfg` equal in content.  `ClientLinkDown.cfg` has all frames come from
the client: what either end does to the connection meets there a sender with all
its ways to give up (timeout, clock, `SEND_TIMEOUT_SECONDS`).
Three connections let an accept come while two instances have not read theirs.
Two jobs let a handler wait for, and a cancel meet, a job that is not the one
they are about, of the same or of another kind; two blocks let a job be stopped
before, between and after its blocks and show a second block sent after a
cancel; of a command without an end one block, or none, stands for the output
still to come.  Two scripts of up to two lines let a script be announced, completed and
started while the last one is anywhere, and be executed in part.

Two connections let a `Connect` meet the receiving thread of the connection before,
wherever it is.  Two clients on one path overlap in every way two can; the third
upload comes after both.  The calls of `remove` that fail are those of one upload
(`MaxKept`), which may be any of the three.  In listings a message of 7 characters
holds one, two or three entries of lengths 1, 2 and 4 with their flags and
separators, so that a text ends below, at and above its limit, and the failing send
is the first, the second or the third.  The pieces of scripts are the smallest ones
with each pair of marks next to each other and nested.  Three bytes of options, of
which a 40G board has room for two, give a part, a whole block and a range beyond
the end; two modules and two 40G boards let a request hit the wrong one; a third
request meets what two overlapping ones left.  The EEPROM of one 40G board may be
damaged at first (`Suspect`); the other 40G board is there to be hit.

### Fairness

A thread inside a call is scheduled (weak fairness on its steps) and a timed wait
ends.  Nothing forces a frame to arrive, a call to begin, a peer to close or the
service to be stopped.  Nothing forces a handler to return either (section 4 has
those that do not): `AcceptedIsExecuted` and `DeleteReturns` have as their
hypothesis that the executing thread is outside its handlers again and again
(`HandlersReturn`).  The server's `Send` timeout is 1,000,000 seconds
(`common/CommonServer.h`), so only the ends in `MayTimeOut` are sure to time out; at
the others, too, a wait may end, as it may wake by itself.  `CloseIsNoticed` needs
less than the rest: that receiving threads run and that a sender that holds
`_cond_obj` gives it back (`ReceivingFairness`).  `MayStall` names the ends at which
a frame may stay unanswered for longer than `SEND_TIMEOUT_SECONDS`, after which the
next `Send` takes the connection down.  In `Jobs` and `MemoryScript` the threads run
and sends return, but `fgets` and `pclose` of a command that never ends
(`InEndlessCommand`) need not; a client never has to ask, send a piece or cancel.
`CancelEndsMemoryRead` and `BusyEnds` hold from the moment the cancel is handled, or
the thread exists. In `Connection` the application inside a call and every receiving
thread that exists are scheduled (`ReceiverLeaves`); the server need not answer, nor
the application call anything.  `Upload` and `BoardOptions` state no fairness: their
properties are safety properties, and a client may stop anywhere.

### Deadlock checking

`CHECK_DEADLOCK FALSE` where the system may really stop: the bounded number of
frames, calls or connections is used up, the object is destroyed, the process ends,
or (in `Jobs`) the executing thread waits for a handle that no thread will clear.
In `Connection` the object is destroyed or may not open another socket while its
receiving thread reads on; in `Upload` and `BoardOptions` the uploads and requests
are used up.  `MemoryScript` is checked for deadlock: a cancel is always possible.

## 4. Disagreements with the repository's own words

Shown by a counterexample run: `BeginMySocketListen` (`VControlServer.cpp:229`)
passes the address of a variable that the next `accept` overwrites; line 6 says
each instance is given the socket of its connection.

Behaviour of the code that the models keep, and that the properties are worded
around:

*The connection*

- None of the waits on a condition variable tests a predicate: `Receive`
  (`clientbase.cpp:337`), `Connect` (746), `Disconnect` (789), `Send` (947) and
  `ExcuteThread` (`eventexecuter.cpp:140`).  POSIX lets such a wait wake by itself.
  `Send` and `ExcuteThread` look again at what they waited for, so that this is
  like a timeout; the other three take any wakeup for the answer:
  `Receive` is then true with an empty slot, `Connect` for a server that said
  nothing, `Disconnect` with the receiving thread alive.  The models have these
  wakeups; `TrueMeansReceived`, `TrueMeansAnswered` and `DestroyedMeansQuiet` except
  the call one came to (`stray`).
- `~ClientBase` deletes the executer whatever `Disconnect` answered
  (`clientbase.cpp:274`-278); a receiving thread that lives on then calls `Execute`
  of a deleted object (`ExecuteDeleted`).
- A frame whose digest field is damaged is refused with the digest that came with
  it (`clientbase.cpp:197`), which matches no frame (1257): nothing is sent again, and
  `Send` waits for its timeout, at the server a million seconds.  `SendReturns`
  excepts an end that this happened to (`Unquotable`).
- `send` is called with `_cond_obj` and `_send_obj` held (`clientbase.cpp:911`) and
  has no timeout.  It does not block only because of how little is ever on its way:
  one frame and one reply to an end at most (`SendNeverBlocks`).  A reply is a
  header of 32 bytes, a frame of this program a header and at most `NR_MAXPACKLEN`
  (2048) bytes, and a socket's buffers are 65536 each (`clientcommon.h:20`-21, 43).
- `Receive` (`clientbase.cpp:362`) answers true after any wakeup, and the
  broadcast at 418 may come from an answer to an earlier call; line 318 says
  "check, if data has been received, return ture".  `TrueMeansReceived` excepts
  a call that began before such a broadcast.
- `StopSendWaiting` comes before the connection is marked down
  (`clientbase.cpp:768`, 816), so a sender that waits later (947) stays there
  until its timeout; lines 800, 826 and 1173 say otherwise.  `SendReturns` is
  checked while the connection stays up.
- `Connect` lets a receiving thread of the connection before run on
  (`clientbase.cpp:567`): it then reads the new socket, and may announce the old
  connection's `MSG_CONNECT` to the new `Connect`.  `Connection` remembers this
  as `crowded`; `TrueMeansAnswered`, `NoSocketLeft` and `DestroyedMeansQuiet` except it.
- A `Disconnect` that timed out waited for the only signal its receiving thread
  gives (`clientbase.cpp:789`); the next one waits in vain.
- `SetSocket` whose `pthread_create` fails forgets the accepted socket without
  closing it (`clientbase.cpp:528`-535; `Connection`'s "leaked").
- `SetIsSendSucceeded(true)` and `StopSendWaiting` (`clientbase.cpp:1219`) are two
  steps: a `Send` that looks in between returns, the next one begins to wait, and the
  broadcast wakes that one, which answers false with no timeout over; line 1206
  says "resume the blocking thread".  If its frame stays unanswered for
  `SEND_TIMEOUT_SECONDS`, the `Send` after it takes the connection down.
- `DisconnectForcibly` sends `Reply(true)` (`clientbase.cpp:825`) for whatever
  digest is pending, also for a frame the receiving thread is about to refuse;
  line 1217 takes the reply for "data correct".  `TrueMeansAccepted` excepts an
  end that is going down.

*Jobs and scripts*

- Requests are handled one at a time, and some wait for the last job of their kind
  (`CommonServer.cpp:989`, 1601-1605, 1663).  If that job is a memory read, or a
  command that does not end by itself (`ping`, `tail -f`: `fgets` and `pclose`,
  312-345, wait for it), its cancel is queued behind the wait, and the handler
  never returns.  `WaitEnds` excepts these, and everything accepted later is never
  executed.
- A cancelled command is waited for all the same (`CommonServer.cpp:345`): the flag
  is only looked at when it writes a line.
- A cancel that is handled before the job's thread lowers the flag is forgotten
  (`CommonServer.cpp:142`, 204, 299).  `CancelStops` speaks of the later ones.
- The loop of a memory read (`CommonServer.cpp:209`) tests a counter nothing
  advances: the read goes on until it is cancelled or a send fails.
- The buffer of a memory read (`CommonServer.cpp:225`) is never initialised: the
  process may end there (`Dies`).
- A script announced after a cancel (`CommonServer.cpp:1706`) lowers the cancel
  flag under the thread of the cancelled one, which goes on and reports 0; line
  738 says 0 means executed successfully.  `SuccessMeansExecuted` excepts a
  script overtaken by another.
- A line that is not two or three words is passed over (`CommonServer.cpp:646`), and
  the result is 0 if the other lines were run, one of them at least.  To be run
  means to be taken for a command: the calls of `WriteMemory` and `sleep` are
  comments (665, 684, 697), and a first word that is none of `E`, `W` and `S` does
  nothing.
- A command whose last block cannot be sent may end twice for the client
  (`CommonServer.cpp:329`, 350).
- `MEMORYSCRIPT_CANCEL` raises the finished flag over a thread that still runs
  (`CommonServer.cpp:1778`); `CommonServer.h:36` calls it "whether the script
  has finished executing".  `FinishMeansIdle` holds until the first cancel.
- A `;` that nothing stands before is taken for the first character of the next
  command; a comment inside a command drops what stands before it; `//` that no
  `'\n'` follows is parsed on as a command; a single space at the end of a line
  goes with the last word; a comment that is not closed hides the rest.

*Uploads and listings*

- Nobody looks at what `remove` returns (`CommonServer.cpp:1055`, 1073, 1159).  A file
  it cannot remove stays when its upload is cancelled or fails, and a new upload is
  appended to it by `fopen(..., "a")`, reported as done.  The properties
  of `Upload` except the uploads this happened to (`kept`).
- `fclose` writes what is buffered and nobody looks at its result
  (`CommonServer.cpp:1065`): an upload on a full disk may be reported whole.
- `remove` and `fopen(..., "a")` are two calls (`CommonServer.cpp:1159`): two
  clients may append to one file.
- A cancel removes whatever the path names when it is acted upon
  (`CommonServer.cpp:1073`), and a new `SENDFILENAME` leaves the partial file of
  an upload that was not ended.  The object of an instance is never deleted, so
  that the file of an upload broken off with its connection stays open.
- `CreateDir` fails when another client makes the directory between its `access`
  and its `mkdir` (`CommonServer.cpp:117`).
- A text of a listing may fill its buffer, so that the terminator `strcat` writes
  lies one behind it: in `GETCATALOG` the text that ends with the `?`
  (`CommonServer.cpp:903`), in `GETALLFILEINFO`, which tests `>` instead of `>=`
  (2101), any text (2124).  `ListingIsComplete` checks that it is never more than
  that one byte (`Fits`, `Spills`).
- A listing cut short by a failing send ends with the same `?` as a complete one;
  if the message that failed arrived all the same, two of them may come.
- `closedir` is called only for a directory that did not open
  (`CommonServer.cpp:935`): every `GETCATALOG` keeps a descriptor.  The models
  do not count descriptors.

*Board options*

- A module's socket is created for one interface name and bound to what
  `g_szArg_netif` holds some calls later (`VControlServer.cpp:811`, 843), which
  another client may have emptied (589); what `setsockopt` returns is not looked at
  either.  The socket is then unbound, and its broadcasts go out by the default
  interface, where another module, or none, may answer.  `UndisturbedIsExact`
  excepts the request, `UnaskedStays` the modules from then on.
- An option is written by reading a block, changing it and writing it back
  (`VControlServer.cpp:1797`): a write of another client in between is lost.
- `g_szArg_netif`, `ux400_ftdic` and `eeprom[]` are one for all clients: two
  requests at once may reach each other's board or write one board's EEPROM with
  the other's content.  `UndisturbedIsExact` and `ChecksumHolds` speak of
  requests that no other one gets in the way of, `UnaskedStays` of boards whose
  kind was not asked for twice at once.
- An offset from -1 to -7 is answered 0 and changes nothing
  (`VControlServer.cpp:1692`).
- `GETMAC` takes the hexadecimal digits of an "ERR:" answer for an address.

## 5. Proofs

Every theorem holds for all values of the constants that the component's assumption
allows; the assumptions say of what kind the constants are (bounds are naturals,
model values are distinct) unless a section says more.  Each rests on an inductive
invariant, `IndInv` unless another name is given (`ExecuterInv`, `ReceiveInv` and
`ServiceInv` in `ThreadProofs`), that was model-checked on the component's run
before it was proved.  Every action has a lemma that keeps it; `NextIndInv` puts
them together.  Each module first proves the type invariant (`TypeCorrect`; in
`ThreadProofs` `ExecuterTypeCorrect` and so on).

### The event queue

`EventQueueProofs` proves for every capacity, every set of events and every set
of addresses (assuming only that the null pointer is not an address or an event,
`QueueAssumption`): `TypeCorrect`, `ListIsWhole`, `DestructorIsSafe`,
`DestructorFreesAll`, and the refinement `QueueIsFifo`, that the list implements
`BoundedFifo`.

`WellFormed` speaks of the list between two calls only and says nothing about
the destructor's loop, so it is not inductive; `IndInv` adds `ClosingList`:
inside the destructor the nodes not yet deleted are a list that starts at the
cursor.  `ListTail`, that a list
without its first node is a list, is shared by `Dequeue` and the destructor's
loop.

The contents of the queue are read along *some* path through the nodes.  The
refinement needs that there is one path only (`OneWay`), which is an induction
along the list.  The library's induction rules take an operator as a parameter, which
the provers cannot instantiate, so `Induction` proves the rule for a *set*
of numbers, from the pigeonhole principle of `FiniteSetTheorems`: if the set
missed some number, sending every missing number to the one before it would map a
finite set one to one into a smaller one.  With it `EnqueuePuts` and `DequeueTakes`
show what the two operations do to the sequence, and `OtherSteps` that every
other step stutters, answers or closes.

### The executer

`ThreadProofs`, first part: `AcceptedInOrderOnce` and `DropsNothingInWindow`, for any
number of frames and any capacity.  `InOrderOnce` is nearly inductive: it needs
that the thread has one event in its hand exactly while the handler runs
(`OneInHand`) and that the queue is there until the destructor's last step
(`QueueIsOpen`).  The receiving thread may live on behind it.

### The synchronous receive

`ThreadProofs`, second part: `NoStaleAnswer` and `TrueHasAFrame`, for any number of
calls and frames.  The properties speak of answers given; `SlotIsTheirs` says the
same of the slot during a call, also of the frame on its way into it, and
`ToldTheTruth` that a caller that was told of a frame finds one, unless the
broadcast is that of the frame stored before its call, or there was none and the
wait woke by itself: the cases `TrueMeansReceived` excepts.

### The connected link

`ClientLinkProofs`, for any number of frames, server threads, digests and damaged
frames, and whichever ends time out, stall, lose their clock or close:
`OnceInOrder`, `TrueIsAccepted`, the refinement, and `SendsDoNotBlock`.

`LinkAssumption` allows the client one sending thread.  `SendData` takes
`_ServerSend_obj` around `Send`, but nothing in `ClientBase` keeps two callers of
`Send` apart: both may pass the look at `_send_succeeded`, and the frame sent again
is then the one of whoever called `SetLastSentBytes` last.

What goes wrong with such protocols is a second copy of a frame.  `Direction` says
that there is none: the frame of an end, or the reply to it, is in one place at
most (`OneToken`: being sent, on its way, in the peer's hand, answered, in the hand
of the end's receiving thread), it is the last one created (`Names`), and it was
accepted exactly when it is past the peer's judgement (`Pending`, `Settled`, and
`Counted` with the number of frames accepted).  All this only while the peer
keeps receiving, since an end that closes replies to whatever it has in hand; what
is left then is `Judged`, that the frame in judgement comes after all those
accepted.  `Control` has the facts about the threads that this rests on: one sender
inside `Send` at a time (`Serial`), and `_last_sent_bytes` holding the last frame
whenever a reply can arrive (`Armed`).  A step that puts nothing into a new place
keeps `Direction` (`DirectionStays`, which covers all of `Send`'s timeouts and
failures); the others have a lemma each.

`DeliversWhileBothKeep` is the refinement step by step: whatever happens later, a
step taken while both ends keep receiving is one of `AckedDelivery`.
`CheckPasses` submits, `Judge` delivers, `Test` and `Final` confirm, all others
stutter.  `LinkDelivers` is the refinement of behaviours, `ImplementsDelivery`, for
a link that no end closes or finds stalled (`Closer` and `MayStall` empty), where
`Up` shows that nothing leads into the closing code.  Without the second condition
it would be false: see the broadcast that wakes a later `Send` in section 4.
`SendsDoNotBlock` holds under the same condition.  That there is one frame at most
is part of `Direction`; that there is one reply rests on there being one frame to
reply to.

### Connections

`ConnectionProofs`, for any number of connections: `TrueIsAnAnswer`,
`NoLostWakeup`, `EverySocketClosed`, `DestroyedIsQuiet`, whichever waits wake by
themselves.  One invariant carries
the four, since they need the same facts: what a call has established at each
place (`Threads`); that `_socket` is the last socket opened, of which nothing was
said before `Connect` is past its wait (`Links`); and, as long as no `Connect`
began over an older receiving thread, that there is at most one such thread, none
unless `thread` says so, and that whoever is about to forget the socket has seen it
shut (`Alone`).

### The listening service

`ThreadProofs`, third part, for any number of starts, accepted connections and
failures of `pthread_create`: `StopLeavesNobody` and `OneListenerEach`.  A thread
that lives can be seen in its handle (`HandleHeld`), and nothing has started between
the look at the handles and `pthread_create` (`NothingToReplace`).

### The jobs

`JobsProofs` proves for every number of jobs and blocks (`JobsAssumption`: they
are naturals and `FailedHandle` holds Booleans): `TypeCorrect`; `OwnRequest`,
that a running thread's path, range or command is its own; `CancelledStops`,
that a job cancelled behind its start sends at most one more block;
`UncancelledIsWhole`, that a download, or a command that has an end, that nobody
cancelled is sent whole.

`ReadsOwnRequest` (`Holds`) alone is not inductive: the job a handler is about
to start must not exist yet (`Untouched`, which needs the types and that a
waiting handler has a job to start, `Types`).  `CancelStops` needs to know that
the flag stays up for a job a cancel has caught and that the block it may still
be sending is its first since (`Stopping`).  Nobody else lowers that flag
because two running threads have different kinds (`OneOfAKind`, from `Holds`):
this is where the two theorems meet, and why one invariant proves both.
`OwnStep`, `OthersStep` and `ExecInv` keep it for the thread that moves, for the
other threads, and for the handlers.

For `UncancelledIsWhole`, `CountInv` adds that the flag of a job nobody cancelled is
down behind its start (`Unflagged`) and that the client has got every block the
thread has read but the one in hand (`Counted`).

### The memory scripts

`MemoryScriptProofs`, for any number of scripts and lines: `SuccessIsEarned` (every
line run or passed over, one at least run, none that ended the loop) and
`FlagGuardsTheScript`.  While no other script has been accepted, a thread's text,
length and cancel are its own at each place (`OwnScript`); a thread is created for a
complete script and once (`CreatedOnce`); no piece is there before its script is
announced (`NothingAhead`); until the first cancel one thread at most lives
(`OneAtATime`).  `OneThread` is the part of the proof all steps of the threads
share.

### The uploads

`UploadProofs`, for any number of clients, paths, uploads and blocks (no path is
called `"none"`, which stands for no path): `FinishedUploadIsWhole`,
`CancelledUploadIsRemoved`, `FinishedUploadStays`.

What is said of an ended upload is no help while it runs.  `Content` says what holds
meanwhile: if nobody else changed what the path names and no `remove` failed for the
upload (`Clean`), the path names its file, nobody else writes to that file, and what
is in it with what `fwrite` still holds are the blocks so far.  For this to begin
with the `fopen` that creates the file, the path must still be free after `remove`
(`PathFree`) and the file new: nothing names or writes to it before (`NoFileYet`,
`Numbered`).

A cancel removes by the path, not by the file.  That it takes away the right one
rests on `NamesOwn` and `WritesOwn`: a file is only ever named by the path of the
upload that created it, and written to by uploads to that path; and on
`RemoveFailedKeeps`, that a `remove` that fails marks the upload and no other.
`FinishedStays`, of the place of the file and of its contents, is proved step by
step (`StepStays`) from `Stays`: whoever is busy with the path of a finished upload
that was alone has its `remove` still before it, so that its `fopen` finds nothing
to replace and it is not about to act on a cancel, or has found that it cannot
remove the file.  `Owners` and `Places` are the facts about the handlers this needs:
an upload belongs to one client, and a file is open between requests only.

### The board options

`BoardOptionsProofs`, for any number of clients, modules and 40G boards, any
requests and any steps that fail: `UndisturbedRequestIsExact`, `UnaskedBitsStay`,
`GoodChecksumsHold`.  `BoardAssumption` says that the boards are distinct, that
there is a module, that `GETMAC` is for the panel, and that a request's range is not
empty and begins within the options.  The handlers do not look at the last, only
at where a range ends; a range that begins before the options is outside the model
(of bit options section 4 has what is answered).

Both clients' handlers run through globals that either may set to its own board at
any moment.  `Noted` says that the histories miss nobody: two requests running at
once that may reach different boards of a kind have marked the kind crossed, and
one that could get in the way of another has marked that one disturbed.  With it
`Shares` ties the globals to a handler that nobody crosses: `g_szArg_netif` is
empty or its module's, `ux400_ftdic` closed or its board's.  A socket left unbound
marks the modules crossed and its request disturbed on the spot (`BindKeeps`), so
that whoever is not marked has a socket that reaches its module.  The rest is two
arguments over the same steps:

- *bits* (`MemoryKept`, `Carried`): on its way from a read to a write a block, the
  handler's or `eeprom[]`, differs from the board's first content only in bits
  somebody asked to write.  Two handlers for one board lose each other's updates
  and still keep this.
- *requests* (`Exact`): where an undisturbed handler stands, its board is what it
  was before the request, or has the part already written, and what it
  carries is what is to be written (`PanelExact`, `ModuleExact`, `FtdiExact`,
  `MacsExact`), so that its answer tells what was done (`Answered`).  In
  `FtdiExact` the checksum just computed is the one of `eeprom[]` as it will be
  written, and the old one was found good before anything is patched, except by a
  write of all the options, which checks nothing first.

`LocalStep` and `SharedStep` say what a step of one handler leaves alone of the
others and of what they share.  Such a step keeps `Own` for all the others
(`OthersKeep`), so that a lemma about an action only has to show it for the client
that moves (`StepKeeps`).

### What is not proved

Model-checked only: liveness under fairness (`SendReturns`, `ReceiverLeaves`,
`BusyEnds` and the others of that kind), which the prover cannot do; and what
`ScriptParser` and `Listing` compute (`ScriptIsItsCommands`, `ListingIsComplete`),
which are folds over texts and directories, whose induction the provers cannot do
either.  `InstanceHasItsSocket` is false.

## 6. Abstractions

- Frames are numbers, digests are numbers modulo `DigestCount`; a damaged frame
  is one whose body or digest field was changed.
- `time(null)` is a choice: it may fail or a deadline may pass whenever the
  code looks.
- The receiving thread's one-second `select` rounds are one step that finds
  something to read, the connection gone, or its flag lowered; a frame is read
  whole.
- A socket is open, closed, or invalid: the reuse of descriptor numbers by the
  system is not modelled.  In `Connection` descriptors are the connections'
  numbers, `FD_SET` of an invalid one is harmless, and `OnServerClose` and
  `OnSocketError`, which do nothing in this program, are left out.
- In C++, a data race on `_socket` or `StopAll` is read as the old or the new
  value.
- When `pthread_create` fails POSIX leaves the handle undefined; glibc leaves it
  alone when there is no memory for a stack and has stored it when the thread
  cannot be cloned.  `FailedHandle` says which outcomes are taken: both in
  `Jobs`; the first in the runs of `Listener`, whose `StopCommonServer` would
  otherwise wait without end for a thread that never was.
- In `Jobs`, `MemoryScript` and `Upload` a send is one step (`SendData` holds
  `_ServerSend_obj` throughout) that succeeds, or fails with or without having
  reached the client; in `Listing` it is an element of an answer, with the same
  three outcomes.
- `SendNeverBlocks` counts messages; that a frame and a reply fit the buffers of a
  socket is read off the sizes.  `Push` never waits, which this justifies while
  both ends keep receiving.
- An executer that is used after it was deleted, and what the program does then,
  are not followed (`"broken"`).
- A file, an output or a script is a number of blocks or lines.  A client sends
  no piece before it announced a script and no more than it announced: the code
  does not look (`CommonServer.cpp:1739-1745`).
- A name or record in a listing is its length; the characters of a script are
  the few that `ScriptToLine` tells apart.
- A transfer to or from an EEPROM is one step; a failing one leaves a prefix of
  what it was to write, and a failing command to a module may have been done or
  not; an answer that comes after its time is over is not taken for the next one.
  A checksum is named by what it was computed from, so that different
  contents have different checksums.  The addresses and serial number of a board
  never change: `SETMAC` and `SETSERIALNUMBER` write their part of the panel's
  block as `WRITEMODULEBUF` does, but what `CheckPwd` would then see is not
  followed.  `libftdi` and SUSI are taken to do what their names say, or fail.
- The history fields of `Jobs` and `MemoryScript` (`got`, `told`, `after`,
  `overtaken`, `calm`), of `Upload` (all of `up` but the path; `kept` also counts
  towards the bound `MaxKept`), `damaged` of `ClientLink` (but for its bound), the
  `stray` of `SyncReceive`'s results and the variable `history` of `Connection` and
  `BoardOptions` (but for the count that bounds the requests) are read by properties
  only, never by a guard, and the endless repeats of a memory read are not recorded.

## 7. Plan

Done: the event queue, the executer, the synchronous receive, connections and
the connected link, the listening service, the jobs, the memory scripts and their
parser, the uploads, the listings, the board options; proofs of every safety
property of all of them but the two algorithms, and of both refinements.  Next:

1. `SETMAC` and `SETSERIALNUMBER` as changes of the identity `CheckPwd` sees.
2. The answer to a broadcast datagram in `Listener`.

Not modelled: MD5 (a standard digest), the helpers around ioctl, `/dev/mem` and
external commands (no state of their own), requests that read one thing and
answer it in one message (lengths, dates, versions, board types), `main`'s
argument parsing, vendored headers, `SingleService` (empty).
