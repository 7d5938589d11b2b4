# A verification of mbroker, a message broker on named pipes

`src/` is a message broker. Clients (publishers, subscribers, managers) write requests to one named pipe;
`mbroker` serves each request in a session thread of its own; messages are kept in *boxes*, each of which is a file
of TecnicoFS, a small in-memory file system. This directory models the broker in TLA+, checks the models with
TLC and proves their safety properties with TLAPS.

    tlc -config dispatcher.cfg MCDispatcher.tla   # any of the .cfg files, with the module PROJECT.json names
    tlapm PCQueue_proof.tla                       # and the other *_proof.tla

## 1. Inventory

| component | code | state | operations | who uses it |
|---|---|---|---|---|
| producer-consumer queue | `producer-consumer/` | buffer indices, size, three mutexes, two conditions | `pcq_create`, `pcq_enqueue`, `pcq_dequeue`, `pcq_destroy` | main thread (enqueue), every session (dequeue) |
| main thread, session life | `mbroker/mbroker.c` `main_thread_function` | `args`, `pipe_name`, `tid`, `code` | read a request, take a slot, create a thread | clients through the register pipe |
| TecnicoFS | `fs/` | inode table, directory, blocks, open file table | `tfs_init`, `tfs_open`, `tfs_close`, `tfs_write`, `tfs_read`, `tfs_unlink` | all sessions, under `g_library_mutex` |
| box registry, sessions | `mbroker/mbroker.c` | `boxes`, `n_boxes`, `mutex`, `box_mutexes`, `box_conditions`, locals of every session | publish, subscribe, create, remove | queue, TecnicoFS, the clients' pipes |
| box listing | `reply_to_list_boxes`, `manager.c` | `boxes[].last`, the pipe and the array of each manager | mark, send, unmark; read until the mark | managers, against `add_box` and `delete_box` |
| register pipe protocol | clients, `read_pipe`, `main_thread_function` | bytes on the pipe, `code`, the buffers they are read to | write and read code and body | all clients, the main thread |
| publisher, subscriber, manager | `publisher/`, `subscriber/`, `manager/` | one pipe each | send lines, print messages, one request | the broker |
| shutdown | `mbroker_close`, `sig_handler` | everything | free and exit on SIGINT | the operator |
| utilities | `utils/` | none | pipes, logging | all |

Everything the sessions do to each other goes through shared memory: the array of boxes (under `mutex` in
`find_box`, `add_box` and `delete_box`, under nothing elsewhere, so that publishers write to boxes that `delete_box` is moving), the mutex and the condition *of an index* of that array, and
the files of the boxes. What is hard here:

* **interleaving**: `n_publishers` is tested and set with nothing held; `box_index` is looked up under `mutex` and used after;
  `args` is one structure for all threads; array and directory are changed in separate steps; two boxes are swapped field by field;
* **condition variables**: who holds which mutex when it signals, whether a wakeup can fall between a check and its wait,
  spurious wakeups, a condition that is re-initialised or whose index moves while threads wait on it;
* **limits**: slots, the tail that does not wrap, 16 handles of which publishers leak some, one block per file, the directory;
* **stale references**: a handle of a deleted file, a block number of a truncated file, an index after a swap;
* **bytes on pipes**: a request is two writes and two reads, a read takes what there is, and short reads leave old bytes in place;
* **memory that is not initialised**: `code` before the first read, `last` of a new box;
* **clients that leave**: end of pipe, SIGPIPE, an open that waits for ever.

What would make each part correct: the queue is a bounded counter of sessions and every session gets its slot back; the
main thread hands every session its own request; the tables of TecnicoFS agree and files do not touch each other; array
and directory agree; a box has at most one publisher; a subscriber is sent every message of its box, whole, once and in order;
sessions end when their box is removed; a request is read as it was written, whoever else writes; a listing shows each box
once, and the manager finds its end. `PROJECT.json` lists the hazards line by line with the properties that
cover them.

## 2. Modules

    SessionSlots  <--implements--  PCQueue  <--extends--  Dispatcher
    MessageBox    <--implements--  Broker   --extends-->  TFS      (checked in MCBroker and MCOverlap)
    RegisterPipe   (in front of Dispatcher: bytes to requests)
    Listing        (beside Broker: the same array, its names and marks)

`MC*.tla` hold the instances that TLC checks, `*_proof.tla` the proofs.

**`PCQueue`** (`producer-consumer.c`). One action per pthread call or access to shared memory; `pcq_enqueue` and `pcq_dequeue` have the same
shape, so the actions take a thread `t` and `Side(t)` selects the mutex, the condition and the loop condition. `Enter` locks the mutex
of the side, `Check` reads `pcq_current_size` without its lock, `Sleep`/`Relock` are the two halves of `pthread_cond_wait`, `LockSize` to `UnlockSize`
change the size under its lock, and `Return` unlocks the mutex of the side only if the thread never waited (`slept` is
`!should_unlock`). A write past `pcq_buffer` is undefined behaviour: the model either goes on or ends the process (`aborted`).
The elements are left out; nobody reads them.

**`SessionSlots`**. What the queue is for: a counter between 0 and the capacity.

**`Dispatcher`** (`main_thread_function`, and where every session begins and ends). `ReadRequest` and `FillField` are the
reads and the `strcpy`s into the shared buffer, `CallEnqueue`/`EnqueueReturned` bracket the steps of `PCQueue` by the
main thread, `CreateThread` is `pthread_create` with the write to `tid[index]`. A session copies its arguments field by field (`CopyField`),
serves, and calls `pcq_dequeue`: all that a session does on its path is the one step `Served`, and that each path has one call of `pcq_dequeue` is read
off the code. The second look that `publisher_function` takes at `args` is in `Broker` (`PubName`). The four registrations share `args`; a listing has `pipe_name`.

**`TFS`** (`operations.c`, `state.c`). Every operation runs under `g_library_mutex`, so it is one action. Operators with the
source's names take the result `ret` as a parameter, so that callers can act on it; what a read copies is `Copied`. Each file has at
most one block, as in the code. Kept
as the code has them: `inode_delete` and `clear_dir_entry` in that order, an inode that is created and deleted again when the
directory is full, a file that is created and *not* opened when the handle table is full, unsigned arithmetic that wraps
(a negative count stands for a huge one; then the copy runs through memory, `panicked`), directory entries of which `tfs_init` writes the
numbers only (their names are the zeros of fresh pages), handles that outlive their file. An offset
beyond the block is one value, `PastBlock`. `FSSpec` is any caller in any order: it allows what the broker never does
(truncation, for one), as any user of the file system may.

**`MessageBox`**. What a box promises its clients: a log per box; each subscriber is sent the log from its beginning, message by
message (`BoxSafety`); whoever stays subscribed is sent everything (`EverythingSent`).

**`Broker`** (the session functions of `mbroker.c`, over `TFS`). `pc` says where a session is, `frame` holds its locals. Publisher: `PubOpen` to
`PubAttach` are `publisher_function`, with check (`PubCheck`) and claim (`PubClaim`) of `n_publishers` and the copy of the name (`PubName`, from
the shared `args`, which may hold a later request by then) as separate steps; `ReadCode` to `PubEnd` are `recieve_messages_from_publisher`, and
`ReadCodeAlone` is a client killed between the code and the message, whose buffer is served as it is. Subscriber: `Register`, then `read_messages` from `SubOpen` to `SubEnd`; `SubRead` reads one byte, or waits
on the condition (unlock and wait are one step, as `pthread_cond_wait` guarantees); `Wake` re-locks; `Refind` is the test after
it; `Deliver` is the rest of the loop. What `tfs_write` returns is ignored as in the code, so that `published` holds the messages whose
terminator found room. The message is written by `PubWrite`, its terminator by `PubTerminate`. Manager: `Create*`,
`Remove*`, `Reply`, and `BrokenPipe` when the manager is killed meanwhile. `find_box` is one action, since it runs under `mutex`. `delete_box` is not, although
`mutex` is held: `RemoveLock`, `RemovePipe` (which waits for the publisher's pipe), one `Exchange` for each of the four fields that are modelled, and
`RemoveEnd`, since publishers write to the same fields without `mutex`. The two halves of an exchange are one step, as they differ only in the box
that is dropped. Neither `add_box` nor `delete_box` looks at its index: `AddPastArray` and `SwapWithNone` write outside of the array, after which
nothing is defined (`OutOfArray`). A write to a closed or abandoned pipe ends the process (`exited`): SIGPIPE or `exit`. `published` is a history variable.

The refinement mapping `Promise` takes `published` as the log, `received` as what was sent, and as subscribed the sessions inside the loop of
`read_messages`. `MessagesInOrder` and `SubscriberCatchesUp` are the two halves of `MessageBox` under it.

**`RegisterPipe`** (`pub.c`, `sub.c`, `manager.c` up to the close of the register pipe; the reads of `main_thread_function`). The pipe is a sequence of
bytes; a client opens it, writes its code, writes its body (names filled up by `fill_string`), closes it, and may be killed in between. The main thread
reads a code, then a body of the size that goes with it into the variable that goes with it; a read takes what there is (`Filled`
keeps the bytes it does not reach). With nothing in the pipe a read waits as long as somebody has the pipe open and returns 0
otherwise: harmless for a code, which is 0 by then, but not in the first iteration, where it was never set (`ReadNoCode`), and the end of
the broker for a body (`ReadNoBody`). A request that was read is handed on by `Enqueue`, the return of `pcq_enqueue`, after which `code` is reset; nothing says that it
returns. `Fail` is the end of the process in `pthread_create` or in a session. `clean` is a history variable: nobody came between.

**`Listing`** (`reply_to_list_boxes`, `manager.c` from the reply on, `add_box`, `delete_box`). A box is its name and `last`. The session marks the
last box under `mutex` and then works without it: `Next` reads `n_boxes` and copies the name, `Send` copies `last` and writes, `Unmark` takes the
mark off whatever box is last by then. A removal has found its index (`DeleteFind`) before `delete_box` locks `mutex`, which looks at it no more
(`DeleteLock`); then name and mark are swapped, each in two steps (`SwapName`, `SwapLast`, `SwapOtherLast`), so that a copy can be torn and an unmark fall
between; `DeleteEnd` drops the last box. Removals come one after the other here; what two at once do is shown in `Broker`. The open of the
manager's pipe, which blocks, is part of `ListStart`: a listing need not begin. A box created gets any `last`. A write goes on
when there is room (`Write`, `SendRest`) and raises SIGPIPE when the manager has stopped; the manager (`ReadBox`) reads up to a box and keeps the old
bytes of what a short read does not reach, its mark among them; when the broker is gone it reads nothing for ever and runs off its array
(`ReadNothing`). `calm` and `before` are history variables: nothing overlapped, and what there was to show.

## 3. Runs

| run | what it asks | what it shows |
|---|---|---|
| `pcq_lock_leak` | one caller on each side | **violated**: a caller that has waited returns with the mutex of its side locked |
| `pcq_lost_wakeup` | the same, with fairness | **violated**: a signal falls between check and wait, and the pusher sleeps although there is space |
| `dispatcher` | three requests for two slots, the queue underneath step by step | the size read without its lock is never acted on once it no longer holds; no update is lost; the queue implements `SessionSlots`; size of the queue = sessions with a slot; no session ever waits in `pcq_dequeue`; every session that has finished gives its slot back |
| `dispatcher_args` | the same | **violated**: a session serves the pipe of one request with the box of another |
| `tfs` | three names, two directory slots, two blocks, two handles | tables agree, no block is shared or freed twice, writes stay in their file, with handles of deleted and truncated files in use |
| `broker_steady` | one box, a publisher whose two messages include an empty one, a second publisher after it whose message fills the file, a subscriber at any time | messages that found room are sent whole, in order, all of them; one publisher at a time; `box_size` is the length of what was published; every session uses a handle of its own, open on the right file; no assertion of TecnicoFS fails, with the file empty or full |
| `broker_boxes` | two boxes, one removed under a publisher and a subscriber and created again, three handles | array and directory go on agreeing, but for what a manager is about to do and a creation that finds no handle |
| `broker_overlap` | three creations and two removals of one box, all at once, an array for two | no file is left without a box, but by a session that will add it or found no handle; the rest of the agreement is lost, as two creations make two boxes of one name |
| `register` | a publisher, a subscriber and a listing, in any interleaving, each killed anywhere | requests are read byte for byte as they were made, in order, while nobody comes between; none is made up whatever happens (but the one of the uninitialised `code`); the reads end the broker only after a death; requests are handed on, and no byte stays in the pipe, unless `pcq_enqueue` never returns or a session or a failed `pthread_create` ends the process |
| `listing` | two listings, three boxes created, one removed, a pipe for two and a half | a listing that nothing overlaps shows each box once, in order, its manager stops and the broker goes on; with creations and other listings it shows a prefix; every listing session ends, whatever a removal does to the array under it |
| `broker_two_publishers` | two publishers at once | **violated**: both are attached |
| `broker_removed` | a subscriber while its box is removed | **violated**: a subscriber sleeps for ever on a box that is gone |

`dispatcher` and `pcq_lock_leak` belong together: the leak needs a caller that waits. Sessions never wait, because each
holds the slot it gives back (`DequeueNeverWaits`), so the popper side is always usable. The main thread does wait, keeps its mutex, and
blocks on itself at the next request; the sessions that run still finish (`SlotGivenBack`).

### Bounds, and why they are enough

* **Queue and dispatcher**: three requests for two slots is the least that makes the main thread wait, and makes the head wrap and the tail pass
  the end of the buffer; two go through `args` with the other buffer between them. `MaxPushes` and `Poppers` equal the number of
  requests. The one pusher is what the program has; the proofs hold for any number of callers on both sides and any capacity. The
  violation runs have one caller on each side and one slot.
* **TFS**: two directory slots for three names, two blocks besides the root's, two handles: those three tables fill up, are released and
  reused. The inodes do not run out there, so that the full directory is met with an inode in hand. A block of two cells is
  the least in which a write can be cut, and an offset be inside, at and past the end. The proofs remove these bounds.
* **Broker**: in `broker_steady` three messages of length 1, 0 and 2 take six bytes with their terminators, so that a reader can stop inside a
  message and between two; the block has five, so that the last terminator is cut and the reader comes to the end of a full file. Five of
  six handles are in use, two leaked by publishers. A second subscriber changes nothing for the first but makes the liveness check too large; the
  safety properties hold with two. `broker_boxes` has three handles, which leaks use up, so that a creation makes a file
  and cannot open it. `After` restricts who may ask before whom is registered; it
  is the only restriction on the order of requests, and two passing runs use it for what fails otherwise: publishers do not
  ask at once, the box of `broker_steady` is not removed, and in `broker_boxes` a name is created again only after its removal was answered, with one removal.
  `broker_overlap` has no such restriction and one name: three creations fill an array of two and go past its end, and two removals empty it. The array of the other runs has room for one box more than files.
* **RegisterPipe**: three clients with both sizes of body and both buffers; names of one letter and a terminator, so that a body has two or four bytes
  and a misread one can be short, exact or long. `Junk` is a byte that was never written.
* **Listing**: three boxes are the least with a box before, at and after the one removed; two listings the least where one takes the mark of
  the other. Half a box is a part; a pipe of 65536 bytes holds 3.9 boxes of 16701, here two and a half of three, so that the third is cut as the fourth is there. Properties
  about what is shown are about listings that fit in the pipe (`Fits`). `ListingsEnd` is one
  property of sessions and managers, which TLC checks in half the time of two.
* Symmetry is used in `tfs` (names, bytes), which has no liveness property.
* `CHECK_DEADLOCK FALSE` everywhere: the program may stop (a main thread that blocks on itself, a subscriber with
  nothing to read, a process that has ended).

### Fairness

* `PCQueue!FairSpec`: a runnable thread runs (weak fairness), and a mutex that is free again and again is granted in the end (strong
  fairness of `Relock` and `LockSize`). The counterexample of `pcq_lost_wakeup` exists in spite of it.
* `Dispatcher`: the same for the main thread and the sessions. None for `Served`: a session lasts as long as its client. None for
  wakeups without a signal.
* `Broker`: strong fairness for what a session does of itself (strong because of the mutexes). None for the
  client: `Start`, `ReadCode` and `Leave` need not happen. None for spurious wakeups, so `SubscriberCatchesUp` rests on the broadcasts.
* `RegisterPipe`: the reads of the main thread run. None for `pcq_enqueue`, which `pcq_lock_leak` and `pcq_lost_wakeup` show not to return: `HeldUp` is the
  exception that `EveryRequestAccepted` and `PipeDrained` make for it. None for clients: they may stop anywhere, with the pipe open.
* `Listing`: strong fairness for a listing session (it needs `mutex` and room in the pipe), weak for the manager and for `delete_box`, which
  waits for nobody, as nothing else keeps `mutex` from one step to the next. None for creations, removals and requests.

## 4. Proofs

Checked by `tlapm`, for all values of the constants that satisfy the `ASSUME`s.

**`PCQueue_proof`** (assumes `ThreadsAssumption` and `QueueAssumption`: the sides are disjoint, nobody is `NoThread`, capacity at least 1). `CheckStillHolds` and
`IndicesAgree` are not inductive: they need that the mutexes protect what they should. `IInv` adds `SideLockHeld` (a caller
past `Enter` and not asleep holds the mutex of its side), `SizeLockHeld` (likewise the size mutex), `RegisterFresh` (the value a caller
is about to increment is the size) and `SizeWithinCapacity`. The key step is `CheckStillHolds`: a pusher that has seen space
cannot lose it to another pusher, which would need the mutex, nor to a popper, which only makes more. `StepModulo` is the arithmetic
of the wrapping head. `ImplementsSlots` maps every step to an `Acquire`, a `Release` or a stutter; `QueueTakesOrGives` says which.

**`Dispatcher_proof`** (assumes besides `DispatcherAssumption`: one main thread, finitely many sessions, arrivals that are requests).
`DispatchIInv` is the `IInv` of the queue with the types, `CallsMatch` (a thread is inside the queue exactly when its program counter says
so), `CopyGoesOn` (which field a session copies next), `SlotPerSession` and `DequeueNeverWaits`. The proof of `SlotPerSession` follows the set of sessions that hold
a slot: every step of the queue adds one member as it adds one to the size, takes one off both, or leaves both, and the cardinality
theorems do the rest. A session that is about to dequeue is a member of that set, hence the size is not 0 and it never waits.

**`TFS_proof`** (assumes `TFSAssumption` and `CallersAssumption`: tables of any size with room for the root, and callers that write sequences of
bytes). `IInv` is the conjunction of `FSTypeOK`, `DirectoryConsistent` and `BlocksOwned`; it is inductive as
a whole and not conjunct by conjunct. A truncation or an unlink is harmless because the entry names an inode that exists and that no
other entry names; a write through a handle whose file is gone changes an inode that is free, or that is another file's and then follows
the rules for that file. There is one lemma per operation, with the name, the handle and the bytes as parameters, so that `Broker_proof` uses them as they
are; `FSStepIInv` joins them. `WritesConfined` is an action property from `IInv` (`StaysInFile`): a block that is
written is the file's own, or free and so no other file's.

**`RegisterPipe_proof`** (any clients, codes and widths of fields). `IInv` is the type invariant with `DeathsLeaveTraces` (nobody is killed between two writes and the
run still `clean`), `CodesComeFromClients` (the requests handed on and the one in hand are no more than the codes that were written, kind by kind)
and `Layout`: while the run is clean, the pipe is what is left of a request followed by whole requests, in the order of the
writes. `Layout` is what makes `RequestsReadWhole` inductive: the main thread reads at the head, clients append at the end.

**`Listing_proof`** (any numbers of boxes and listings, and of removals one after the other). `IInv` is the type invariant with `BoxesNamed`, `NotBegun`, `GoesInOrder` (as long as no box
was removed, what a session has sent are the first boxes of the array, and what is in its pipe follows what its manager has read)
and `Quiet`: while nothing overlaps, the one mark in the array is on its last box, put there by the session at work, and the manager
is where the session's progress says. `ListedExactly` and `CalmNeverExits` follow from `Quiet`, `ListedInOrder` from `GoesInOrder`. All three are about
boxes that fit in the pipe, which is three of the program's; beyond that a manager can be sent parts of boxes.
The types rest on `delete_box` having the array to itself between `find_box` and its end, as far as removals go.

**`Broker_proof`** (any boxes, requests, orders of requests and tables). `TypesHold` is the type invariant, with no assumption on who asks for what when. It
needs `Sound`: the types with the invariant of `TFS`, the steps that each kind of session takes (`StepsInKind`), a message in hand while one is
served, and for removals (`RemovalsInOrder`) an index found, `mutex` held throughout `delete_box`, and from the first exchange on a box left
to drop. That is what keeps `n_boxes` in its range, which the code does not check. `HandlesOwned`, whose step is shown here, says who owns which handle as long as no removal
has begun: a session that uses a handle has one that is open on the file of its box, no two have the same one, a handle in nobody's use leaks, and an offset never passes the
size of its file.

**`Registry_proof`** (the same, and `ManagersTakeTurns`: of two managers that ask for one box, or that both remove one, one waits for the reply of the other).
Without it they are false: two creators add a box twice, and of two removers the second drops another box (section 5). `MCBroker` has it as an `ASSUME`, so all its instances satisfy it;
that of `MCOverlap` does not. `AgreeIInv` adds to
`Sound` that names differ, that a box has a file and a file a box but for the one a manager works on, that a creator past its
look-up still has no box of its name, and that a remover finds its box at the index it found and, once the names are exchanged, at the end of the array. Removals are
included, and so are publishers that write to boxes while they are swapped: their fields may be lost, their names are not.

`NothingPanics` and `EveryoneHasItsHandle` are for the states before any removal begins (`NoRemovalYet`): a removal frees a file under the handles others
have on it, and then an assertion of TecnicoFS can indeed fail (section 5). `CalmIInv` is `AgreeIInv` with `HandlesOwned`. That no box is added past the array follows from the agreement
with the directory, which has fewer entries than the array (`RoomInTurns`). `EveryoneHasItsHandle` also assumes `PublishersHaveHandles`: `publisher_function` does
not look at the handle it gets, and leaks can use up the table, so that a publisher goes on with -1.

`PublishersAreCounted` is for the states before a removal too, because the swap of a removal can lose the mark (section 5), and assumes `PublishersTakeTurns` of the publishers of one box, because of the race that
`broker_two_publishers` shows; both hold of `broker_steady`. Its invariant adds that indexes name the box asked for, that nobody has the box while another is between check
and claim, and that the mark is 1 exactly when one session has the box.

**`Boxes_proof`** (the same turns, and `RoomForFiles`: no fewer blocks than inodes; `tfs_default_params` has 1024 and 64) has two theorems.

*`BoxSizesAgree`*. A publisher adds the
length of its message to `box_size` whatever `tfs_write` did, so `BoxSizeAgrees` rests on that call never falling short but in a full file.
`SizesIInv` adds to the invariants above: no block is lost, so that a file without one can be given one (`BlockLeft`, by the pigeonhole
theorem); a publisher's handle is at the end of its file (`WritersAtTheEnd`), since nobody else writes to that file and the handle was opened there;
who is past the lock of a box holds it (`MutexesHeld`); a box counts the bytes of its file but for a message that is not terminated yet (`SizesCounted`);
a file without a box is empty (`NoBoxNoBytes`). The theorem is for the states before a removal in which every publisher has been given a
handle (`WritersHaveHandles`): with the table full, what a publisher writes is counted and goes nowhere.

*`BoxKeepsPromise`*: `Broker` implements `BoxSafety` of `MessageBox` under the mapping `Promise` (`MessagesInOrder`), when nobody asks for a removal
(`NobodyRemoves`; a box that is removed and created again has another file, and starts another log). It needs no handle for every publisher: what went nowhere
is not in `published`. The log is made of messages and the file of bytes that subscribers read one by one, each at its own offset, so the invariant says how one
spells the other. `Cut(text, log, e)`: the function `e` gives, for each `n`, the place where the `n`-th message of the log ends in the text, its terminator
included. `LogIInv` says that for the file of each box there is such an `e` (`LogsKept`); that what stands after the log is nothing, or the one message whose terminator is to
come, until the file is full (`Ended`); and that a subscriber is at a place in it (`Place`): what it was sent is the first `n` messages, what is in its buffer
are the bytes from `e[n]` to its offset. A box without a file has no log (`NoFileNoLog`), and a subscriber starts with nothing (`Newcomers`). `LogIInv` needs
`FilesIInv`: a publisher writes at the end of the file, and between a message and its terminator nobody else writes, as it has the box to itself
(`PublishersTakeTurns`) and holds the mutex. A byte that is written leaves the earlier ones, hence every place, as they were (`PlaceKept`), and a terminator lengthens `e` by one
(`CutTerminated`). `PromiseStep` then maps each step: `PubTerminate` to a `Publish` if the terminator found room, `Deliver` at a NUL to a `Send` of the message
that `e` cuts out there, the first `Find` of a subscriber to a `Subscribe`, the rest to a stutter. A step that ends the process changes nothing visible.

Model-checked only: `FilesHaveBoxes` when managers do not take turns, and every liveness property, `SubscriberCatchesUp` among them (fairness and `ENABLED` are out of the prover's reach).

## 5. Findings

Five, each a violation run against a line of the repository; see `findings` in `PROJECT.json` for the quotes. In short: a caller of the queue that waited
never unlocks its mutex (`producer-consumer.c:128`); a signal outside the mutex is lost (`:182`); the shared `args` is overwritten
before it is copied (`mbroker.c:618`); two publishers attach to one box (`mbroker.c:243`); a removal leaves a subscriber asleep for ever (`mbroker.c:522`).

What else the models show, each in an instance that is easily made and is not among the runs (the hazards in `PROJECT.json` name the lines):

* a handle outlives its file, which the assertions of `tfs_write` and `tfs_read` (`operations.c:202`, `:256`) are there to exclude and cannot see
  (`OpenFilesExist` fails in any instance of `TFS`);
* a publisher that registers with a box while a removal moves it marks the index it found, whose count the swap has moved already: the box that stays says it
  has no publisher (`PublishersCounted` fails with two boxes, one removed, and a publisher of the other);
* two creations of one name at once make two boxes of that name (`RegistryMatchesFiles` fails);
* of two removals at once one drops another box: with boxes a, b, c, removing a moves c to the front, and the other removal, with the old index of c, drops b
  (`FilesHaveBoxes` fails with three boxes and two removers);
* boxes added by overlapping creations can run past the end of the array (`AddPastArray`), and two removals with one box left write to `boxes[-1]` (`SwapWithNone`);
* a box can be given the pipe of another client (`PubName`), which `delete_box` then opens in place of its publisher's;
* a removal that opens the pipe of a publisher whose client is gone waits for ever with `mutex` held (`RemovePipe`);
* a subscriber whose box was removed and whose inode was used again reads stale bytes, or makes `data_block_get(-1)` end the broker;
* the first listing to end unmarks the box of a second one, whose manager reads for ever; a box whose `last` the stack set to 1 cuts every
  listing short; a listing that goes on after its manager stopped ends the broker (hence `calm` in the properties of `Listing`);
* a client that dies between code and body ends the broker, or has the next client's code read as its body (hence `clean` in `RegisterPipe`);
* a manager whose listing needs more than one pipe of boxes may get parts of them.

## 6. Not modelled

* `pcq_destroy`, `tfs_destroy`, `mbroker_close`, the SIGINT handlers: they run when the process is ending, if at all, while the other
  threads run on freed memory; nothing defined is left to check.
* `n_subscribers`, `subscribers`, `subscriber_index`: `create_box` leaves `subscriber_index` unset and `add_subscriber_to_box` copies a name
  to where it points, so that the behaviour is undefined from the first subscriber on, unless the stack held a zero. The models are of runs where it did.
  `n_subscribers` is only printed; it is incremented without a mutex and its decrement (line 340) is reached only with `box_index` at -1.
* The numbers of descriptors: a subscriber whose box is gone closes its pipe a second time (line 345), by when the number may be another session's.
* What a thread does to a condition or a mutex that `delete_box` has destroyed, which is undefined: `RemoveEnd` has the wait for those asleep on the condition, no more.
* The paths of the sessions in `Dispatcher`: they are one step, `Served`, and one call of `pcq_dequeue`.
* Removals that overlap, and publishers, in `Listing`; a listing that waits for `mutex` while `delete_box` waits for a publisher's pipe is therefore not in `ListingsEnd`.
* Names longer than their arrays, and messages longer than `MESSAGE_SIZE`. The pipes of publishers and subscribers are unbounded in `Broker` and
  a message arrives whole: one writer and one reader each, and writes that the system does not divide.
* A subscriber that keeps its pipe open and does not read (`mbroker.c:322` then blocks with the mutex of the box held).
* `tfs_copy_from_external_fs` is declared in `operations.h` and defined nowhere; `create_pipe` acts on the file system of the machine.
* The lines a publisher types and how they are cut, what clients print, the order in which the manager prints boxes (`qsort`), logging, memory management.

## 7. Plan

Done, in this order because the queue guards everything else and the sessions need the file system: `SessionSlots`, `PCQueue`, its proof; `Dispatcher`; `TFS`, its
proof; `MessageBox`, `Broker`; `RegisterPipe`; `Listing`; then the proofs of all of these.

To do, in order:

1. **Broker with bounded pipes**: a subscriber that does not read, and what its session holds up.
2. **Ends of sessions in `Broker`**: liveness of removals (`delete_box` waits for a writer with `mutex` held), of refused clients.
